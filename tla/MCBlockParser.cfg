SPECIFICATION ParserSpec
CONSTANTS
    Programs <- MCPrograms
    WellFormed <- MCWellFormed
    ExpressionTokens <- MCExpressionTokens
INVARIANTS
    ParserTypes
    BlocksAreCovered
    StatementsAreWhole
    SearchesAgree
    ReadsStayInside
    ParsesTheFormats
