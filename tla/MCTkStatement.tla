--------------------------- MODULE MCTkStatement ----------------------------
(* Bounded instance of TkStatement: every range of 1 to MaxLen tokens,    *)
(* with the calls the unit tests and the parser make (a name or a  *)
(* scope to ';', a scope to its own close token).                          *)
EXTENDS TkStatement

CONSTANT MaxLen

MCTkTypes == {"open_paren_", "close_paren_", "open_brace_", "close_brace_",
              "alnumus_", "semicolon_"}
MCRanges  == UNION {[1..n -> MCTkTypes] : n \in 1..MaxLen}

Statement(f, o, c) == [finder |-> f, open |-> o, close |-> c]
MCCalls ==
    ProgramStatements \cup
    {Statement(f, o, c) :
        f \in {"find_statement", "find_open_statement"},
        o \in {"alnumus_", "open_brace_"}, c \in {"semicolon_", "close_brace_"}}
=============================================================================
