---------------------------- MODULE TkSeparated -----------------------------
(***************************************************************************)
(* tk_scope::find_seperated_paren, find_seperated_brace and                *)
(* find_seperated_bracket (token_iterator.hpp; parser_utils.hpp repeats    *)
(* them): split a scope at the separators that are not inside a nested     *)
(* scope.  Each piece runs from one separator to the next, both included,  *)
(* so that a piece can be read by the contained_begin() and                *)
(* contained_end() of any other scope.                                     *)
(***************************************************************************)
EXTENDS Scopes

CONSTANTS
    TkTypes,    (* token types that can occur in a range *)
    Ranges,     (* the ranges to be split                *)
    Separators  (* the separators asked for              *)

ASSUME RangesAssumption == Ranges \subseteq Seq(TkTypes) \ {<<>>}
ASSUME SeparatorsAssumption ==
    Separators \subseteq TkTypes \ (OpeningScopes \cup ClosingScopes \cup {"eof_"})

VARIABLES
    toks, open, separator,   (* the range, the function called, its separator *)
    pc,                      (* "enter", "scan" or "done"                     *)
    i,                       (* the scanning position                         *)
    history,                 (* scope_type_history                            *)
    lastClosed,              (* last_closed, where the current piece begins   *)
    scopes,                  (* the pieces: <<valid or not, begin, end>>      *)
    returned                 (* FALSE when control falls off the function     *)

vars == <<toks, open, separator, pc, i, history, lastClosed, scopes, returned>>

End == Len(toks) + 1
Top == history[Len(history)]

Init ==
    /\ toks \in Ranges
    /\ open \in OpeningScopes
    /\ separator \in Separators
    /\ pc = "enter"
    /\ i = 2
    /\ history = <<>>
    /\ lastClosed = 1
    /\ scopes = <<>>
    /\ returned = FALSE

-----------------------------------------------------------------------------

Return ==
    /\ pc' = "done"
    /\ returned' = TRUE

NotAScope ==
    /\ pc = "enter" /\ toks[1] # open
    /\ scopes' = <<<<"invalid", 1, End>>>>
    /\ Return
    /\ UNCHANGED <<toks, open, separator, i, history, lastClosed>>

EnterLoop ==
    /\ pc = "enter" /\ toks[1] = open
    /\ pc' = "scan"
    /\ UNCHANGED <<toks, open, separator, i, history, lastClosed, scopes, returned>>

\* A seeded fault: a separator inside a nested scope splits too.
SeparateInside ==
    /\ pc = "scan" /\ i < End
    /\ toks[i] = separator
    /\ scopes' = Append(scopes, <<"valid", lastClosed, i + 1>>)
    /\ lastClosed' = i
    /\ i' = i + 1
    /\ UNCHANGED <<toks, open, separator, pc, history, returned>>

Separate ==
    /\ pc = "scan" /\ i < End
    /\ toks[i] = separator /\ history = <<>>
    /\ scopes' = Append(scopes, <<"valid", lastClosed, i + 1>>)
    /\ lastClosed' = i
    /\ i' = i + 1
    /\ UNCHANGED <<toks, open, separator, pc, history, returned>>

\* A seeded fault: the token after an open one is skipped.
PushAndSkip ==
    /\ pc = "scan" /\ i < End
    /\ IsOpeningScope(toks[i])
    /\ history' = Append(history, toks[i])
    /\ i' = i + 2
    /\ UNCHANGED <<toks, open, separator, pc, lastClosed, scopes, returned>>

PushOpen ==
    /\ pc = "scan" /\ i < End
    /\ IsOpeningScope(toks[i])
    /\ history' = Append(history, toks[i])
    /\ i' = i + 1
    /\ UNCHANGED <<toks, open, separator, pc, lastClosed, scopes, returned>>

PopClose ==
    /\ pc = "scan" /\ i < End
    /\ history # <<>> /\ IsClosingScopeOf(Top, toks[i])
    /\ history' = SubSeq(history, 1, Len(history) - 1)
    /\ i' = i + 1
    /\ UNCHANGED <<toks, open, separator, pc, lastClosed, scopes, returned>>

\* A close token that does not close the innermost scope, or the end of file.
WrongClose ==
    /\ pc = "scan" /\ i < End
    /\ \/ /\ IsClosingScope(toks[i]) /\ history # <<>>
          /\ ~IsClosingScopeOf(Top, toks[i])
       \/ toks[i] = "eof_"
    /\ scopes' = Append(scopes, <<"invalid", i, End>>)
    /\ Return
    /\ UNCHANGED <<toks, open, separator, i, history, lastClosed>>

CloseList ==
    /\ pc = "scan" /\ i < End
    /\ history = <<>> /\ toks[i] = ClosingOf[open]
    /\ scopes' = Append(scopes, <<"valid", lastClosed, i + 1>>)
    /\ Return
    /\ UNCHANGED <<toks, open, separator, i, history, lastClosed>>

\* Any other token, which includes a foreign close token that closes nothing.
SkipToken ==
    /\ pc = "scan" /\ i < End
    /\ ~IsOpeningScope(toks[i]) /\ toks[i] # "eof_"
    /\ IsClosingScope(toks[i]) => history = <<>> /\ toks[i] # ClosingOf[open]
    /\ toks[i] = separator => history # <<>>
    /\ i' = i + 1
    /\ UNCHANGED <<toks, open, separator, pc, history, lastClosed, scopes, returned>>

\* The loop ends and the function has no return statement there.
FallOff ==
    /\ pc = "scan" /\ i = End
    /\ pc' = "done"
    /\ UNCHANGED <<toks, open, separator, i, history, lastClosed, scopes, returned>>

FindSeperated ==
    \/ NotAScope \/ EnterLoop
    \/ Separate \/ PushOpen \/ PopClose \/ WrongClose \/ CloseList \/ SkipToken
    \/ FallOff

find_seperated_paren   == open = "open_paren_" /\ FindSeperated
find_seperated_brace   == open = "open_brace_" /\ FindSeperated
find_seperated_bracket == open = "open_bracket_" /\ FindSeperated

\* parser_utils.hpp's functions for the older token class are these.
find_seperated_paren_scopes == find_seperated_paren
find_seperated_list_scopes  == find_seperated_brace
find_seperated_frame_scopes == find_seperated_bracket

Next == find_seperated_paren \/ find_seperated_brace \/ find_seperated_bracket

Spec == Init /\ [][Next]_vars

-----------------------------------------------------------------------------

\* Positions inside the scope 1..c that separate: those at its own level.
SeparatorsOf(c) ==
    {k \in 2..(c - 1) : toks[k] = separator /\ Height(toks, k) = 1}

\* The pieces are cut at the positions of `cuts`, which have neighbours.
CutAt(pieces, cuts) ==
    /\ Len(pieces) = Cardinality(cuts) - 1
    /\ \A n \in 1..Len(pieces) :
          /\ pieces[n][1] = "valid"
          /\ pieces[n][2] \in cuts /\ pieces[n][3] - 1 \in cuts
          /\ pieces[n][2] < pieces[n][3] - 1
          /\ \A k \in cuts : k <= pieces[n][2] \/ k >= pieces[n][3] - 1
          /\ n < Len(pieces) => pieces[n + 1][2] = pieces[n][3] - 1

TypeOK ==
    /\ toks \in Seq(TkTypes) /\ open \in OpeningScopes /\ separator \in Separators
    /\ pc \in {"enter", "scan", "done"}
    /\ i \in 2..End
    /\ history \in Seq(OpeningScopes)
    /\ lastClosed \in 1..End
    /\ scopes \in Seq({"valid", "invalid"} \X (1..End) \X (1..End))
    /\ returned \in BOOLEAN

\* The pieces of a scope that find_paren, find_brace or find_bracket accepts
\* are all of it, in order, cut exactly at its own separators and at nothing
\* inside a nested scope.  A scope with an eof_ in it, which the preprocessor
\* leaves behind an included file, is not split: the last piece says so.
SplitsTheScope ==
    pc = "done" =>
        \A c \in 1..Len(toks) : IsScope(toks, open, c) =>
            /\ returned
            /\ IF \E k \in 1..c : toks[k] = "eof_"
               THEN scopes # <<>> /\ scopes[Len(scopes)][1] = "invalid"
               ELSE CutAt(scopes, {1, c} \cup SeparatorsOf(c))

\* The strengthening that makes SplitsTheScope inductive: while a scope may
\* still be found, the tokens before the cursor are scanned and cut, the last
\* cut where the next piece begins.
NoScope == \A c \in 1..Len(toks) : ~IsScope(toks, open, c)

CutsSoFar == {1} \cup SeparatorsOf(i)

SplitSoFar ==
    /\ toks[1] = open
    /\ Scanned(1, toks, i - 1, history)
    /\ \A k \in 1..(i - 1) : toks[k] # "eof_"
    /\ CutAt(scopes, CutsSoFar)
    /\ lastClosed \in CutsSoFar
    /\ \A k \in CutsSoFar : k <= lastClosed
    /\ scopes # <<>> => scopes[Len(scopes)][3] - 1 = lastClosed

SplitInv ==
    /\ pc = "enter" => i = 2 /\ history = <<>> /\ lastClosed = 1 /\ scopes = <<>>
    /\ pc = "scan" => NoScope \/ SplitSoFar
=============================================================================
