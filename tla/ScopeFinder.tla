---------------------------- MODULE ScopeFinder -----------------------------
(***************************************************************************)
(* What find_paren, find_brace and find_bracket promise, with no scan, no  *)
(* stack and no counters: one step that answers.  Module TkScope is the    *)
(* algorithm, and implements this specification with the scopes of module  *)
(* Scopes.                                                                 *)
(***************************************************************************)
EXTENDS Integers, Sequences

CONSTANTS
    Ranges,              (* the ranges the finders are called on           *)
    OpeningScopes,       (* the tokens a scope may start with              *)
    IsScope(_, _, _)     (* range, open token, c: the scope ends at c      *)

VARIABLES
    toks,        (* the range                              *)
    open,        (* the open token the caller asks for     *)
    verdict,     (* "none" until the finder has answered   *)
    scopeEnd     (* end of the scope it answered with      *)

vars == <<toks, open, verdict, scopeEnd>>

Init ==
    /\ toks \in Ranges
    /\ open \in OpeningScopes
    /\ verdict = "none" /\ scopeEnd = 0

\* The range starts with a scope: it is returned, whole and no longer.
Found ==
    /\ verdict = "none"
    /\ \E c \in 1..Len(toks) : IsScope(toks, open, c) /\ scopeEnd' = c + 1
    /\ verdict' = "valid"
    /\ UNCHANGED <<toks, open>>

\* It does not: the answer is invalid, and its end is either the end of the
\* range or just after the open token, so a caller that goes on from there
\* stays inside the range or at its end.
NotFound ==
    /\ verdict = "none"
    /\ \A c \in 1..Len(toks) : ~IsScope(toks, open, c)
    /\ verdict' = "invalid"
    /\ scopeEnd' \in {2, Len(toks) + 1}
    /\ UNCHANGED <<toks, open>>

Next == Found \/ NotFound

Spec == Init /\ [][Next]_vars
=============================================================================
