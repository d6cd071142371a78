SPECIFICATION TokenizerSpec
CONSTANTS
    MaxLen = 4
    Texts <- DirectiveTexts
    Keywords <- MCKeywords
    Reserved <- MCReserved
INVARIANT
    DirectivesAreKeywords
CHECK_DEADLOCK FALSE
