SPECIFICATION FairTokenizerSpec
CONSTANTS
    MaxLen = 4
    Texts <- MCTexts
    Keywords <- MCKeywords
    Reserved <- MCReserved
INVARIANTS
    TokenizerTypes
    LongestLexemes
    OneKeywordSyntax
    FailsForAReason
    EndsWithEof
PROPERTY
    TokenizerEnds
CHECK_DEADLOCK FALSE
