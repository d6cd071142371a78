--------------------------- MODULE MCTkSeparated ----------------------------
(* Bounded instance of TkSeparated: every range of up to MaxLen tokens     *)
(* after a first one, over two kinds of scope, the separator and eof_ (a   *)
(* plain token takes the branch of a separator inside a nested scope).     *)
EXTENDS TkSeparated

CONSTANT MaxLen

MCTkTypes == {"open_paren_", "close_paren_", "open_brace_", "close_brace_", "comma_",
              "eof_"}

\* An eof_ ends the program, and every file that was included in it.
MCRanges  ==
    LET inside == UNION {[1..n -> MCTkTypes] : n \in 0..MaxLen}
    IN  {<<t>> \o s : t \in {"open_paren_", "open_brace_"}, s \in inside}
=============================================================================
