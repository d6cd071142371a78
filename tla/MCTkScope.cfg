SPECIFICATION FairSpec
CONSTANTS
    MaxLen = 5
    TkTypes <- MCTkTypes
    Ranges <- MCRanges
INVARIANTS
    TypeOK
    DepthsMatchHistory
    FindsTheScope
PROPERTIES
    Terminates
    ImplementsFinder
CHECK_DEADLOCK FALSE
