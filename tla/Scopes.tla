------------------------------- MODULE Scopes -------------------------------
(***************************************************************************)
(* The scope vocabulary of cand_syntax.hpp, and what a scope IS: a         *)
(* definition of the matching close token by counting, with no stack.      *)
(* The finders of token_iterator.hpp (modules TkScope and TkStatement)     *)
(* are checked against it; the parenthesizer builds on it.                 *)
(*                                                                         *)
(* A range of tokens is a sequence; position 1 is the code's `begin` and   *)
(* position Len + 1 its `end`.  Token types keep the names of enum e_tk.   *)
(***************************************************************************)
EXTENDS Integers, Sequences, FiniteSets

OpeningScopes == {"open_paren_", "open_brace_", "open_bracket_"}
ClosingScopes == {"close_paren_", "close_brace_", "close_bracket_"}

\* tk_type_is_closing_scope_of: which close token ends which open token.
ClosingOf == [open_paren_   |-> "close_paren_",
              open_brace_   |-> "close_brace_",
              open_bracket_ |-> "close_bracket_"]

IsOpeningScope(t) == t \in OpeningScopes
IsClosingScope(t) == t \in ClosingScopes
IsClosingScopeOf(topen, tclose) ==
    topen \in OpeningScopes /\ tclose = ClosingOf[topen]

-----------------------------------------------------------------------------
(* Counting definition of nesting.                                         *)

Opens(toks, i)  == {j \in 1..i : IsOpeningScope(toks[j])}
Closes(toks, i) == {j \in 1..i : IsClosingScope(toks[j])}

\* How many scopes are open after the first i tokens.
Height(toks, i) == Cardinality(Opens(toks, i)) - Cardinality(Closes(toks, i))

\* Position c closes the scope that position b opened, types disregarded:
\* the first position after b at which the height falls below b's.
ClosesAt(toks, b, c) ==
    /\ b < c
    /\ IsOpeningScope(toks[b])
    /\ IsClosingScope(toks[c])
    /\ Height(toks, c) = Height(toks, b) - 1
    /\ \A m \in b..(c - 1) : Height(toks, m) >= Height(toks, b)

\* Every close token up to c closes an open token of its own type.
WellNested(toks, c) ==
    \A j \in 1..c : IsClosingScope(toks[j]) =>
        \E k \in 1..(j - 1) : /\ ClosesAt(toks, k, j)
                              /\ IsClosingScopeOf(toks[k], toks[j])

\* The range starts with a scope of type `open` whose close token is at c.
IsScope(toks, open, c) ==
    /\ c \in 1..Len(toks)
    /\ toks[1] = open
    /\ ClosesAt(toks, 1, c)
    /\ WellNested(toks, c)

\* What a scan with a stack knows.  The first n tokens of s are well nested so
\* far; d scopes have been open all along, and the stack h is the scopes open
\* inside of them: its k-th entry was pushed at a position q where the height
\* rose to k + d, below which it has not fallen since.
Scanned(d, s, n, h) ==
    /\ Height(s, n) = Len(h) + d
    /\ \A m \in 1..n : Height(s, m) >= d
    /\ WellNested(s, n)
    /\ \A k \in 1..Len(h) : \E q \in 1..n :
          /\ s[q] = h[k]
          /\ Height(s, q) = k + d
          /\ \A m \in q..n : Height(s, m) >= k + d
=============================================================================
