SPECIFICATION Spec
CONSTANTS
    MaxLen = 7
    Binary = {"period_"}
    TkTypes <- MCTkTypes
    Expressions <- NoPrefix
INVARIANT
    MemberAccessFromLeftToRight
CHECK_DEADLOCK FALSE
