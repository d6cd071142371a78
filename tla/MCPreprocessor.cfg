SPECIFICATION FairSpec
CONSTANTS
    MaxLen = 3
    MaxDepth = 4
    Names <- MCNames
    Root <- MCRoot
    Others <- MCOthers
    Sources <- MCSources
INVARIANTS
    TypeOK
    ExpandsIncludes
PROPERTY
    Terminates
CHECK_DEADLOCK FALSE
