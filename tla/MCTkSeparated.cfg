SPECIFICATION Spec
CONSTANTS
    MaxLen = 5
    Separators = {"comma_"}
    TkTypes <- MCTkTypes
    Ranges <- MCRanges
INVARIANTS
    TypeOK
    SplitsTheScope
CHECK_DEADLOCK FALSE
