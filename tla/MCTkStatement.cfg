SPECIFICATION Spec
CONSTANTS
    MaxLen = 5
    TkTypes <- MCTkTypes
    Ranges <- MCRanges
    Calls <- MCCalls
INVARIANTS
    TypeOK
    EndsOutsideScopes
    MissesNoStatement
CHECK_DEADLOCK FALSE
