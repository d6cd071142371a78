SPECIFICATION FairSpec
CONSTANTS
    MaxLen = 4
    Names <- MCNames
    Others <- MCOthers
    Codes <- MCCodes
INVARIANTS
    TypeOK
    ExpandsMacros
PROPERTY
    Terminates
CHECK_DEADLOCK FALSE
