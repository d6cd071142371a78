SPECIFICATION FairSpec
CONSTANTS
    MaxLen = 7
    Binary = {"simple_assignment_", "addition_", "multiplication_", "period_"}
    TkTypes <- MCTkTypes
    Expressions <- MCExpressions
INVARIANTS
    TypeOK
    KeepsTokens
    ScopesStayWhole
    ClosuresInOrder
    ParenthesizesRight
    ParsesWhole
PROPERTY
    Terminates
CHECK_DEADLOCK FALSE
