----------------------------- MODULE MCTkScope ------------------------------
(* Bounded instance of TkScope: every range of up to MaxLen tokens over the *)
(* six scope tokens and one token that is not a scope token.                *)
EXTENDS TkScope

CONSTANT MaxLen

MCTkTypes == OpeningScopes \cup ClosingScopes \cup {"alnumus_"}
MCRanges  == UNION {[1..n -> MCTkTypes] : n \in 0..MaxLen}
=============================================================================
