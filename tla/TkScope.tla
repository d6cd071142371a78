------------------------------ MODULE TkScope -------------------------------
(***************************************************************************)
(* tk_scope::find_paren, find_brace and find_bracket (token_iterator.hpp;  *)
(* parser_utils.hpp repeats them for the older token class): given a       *)
(* range that should start with an open token, find its close token.       *)
(*                                                                         *)
(* One step is one iteration of the scanning loop.  The three functions    *)
(* are the same algorithm over three token types, kept apart by `open`.    *)
(***************************************************************************)
EXTENDS Scopes

CONSTANTS
    TkTypes,    (* token types that can occur in a range *)
    Ranges      (* the ranges the finders are called on  *)

ASSUME TkTypesAssumption == OpeningScopes \cup ClosingScopes \subseteq TkTypes
ASSUME RangesAssumption  == Ranges \subseteq Seq(TkTypes)

VARIABLES
    toks,        (* the range [begin, end)                        *)
    open,        (* which of the three finders was called         *)
    pc,          (* "enter", "scan", "leave" the loop, "done"     *)
    it,          (* tk_it, the scanning position                  *)
    history,     (* scope_type_history, the stack (top last)      *)
    depth,       (* paren_, list_ and frame_scope_depth           *)
    lastClosed,  (* last_closed; 1 (= begin) while not found      *)
    verdict,     (* the tk_scope returned: valid or not ...       *)
    scopeEnd     (* ... and its end_; its begin_ is always begin  *)

vars == <<toks, open, pc, it, history, depth, lastClosed, verdict, scopeEnd>>

End == Len(toks) + 1
Top == history[Len(history)]

Init ==
    /\ toks \in Ranges
    /\ open \in OpeningScopes
    /\ pc = "enter"
    /\ it = 2
    /\ history = <<>>
    /\ depth = [o \in OpeningScopes |-> 0]
    /\ lastClosed = 1
    /\ verdict = "none" /\ scopeEnd = 0

-----------------------------------------------------------------------------

Return(valid, end) ==
    /\ pc' = "done"
    /\ verdict' = valid
    /\ scopeEnd' = end

\* The range has an open token of the right type, and more after it.
StartsWithOpen == Len(toks) >= 2 /\ toks[1] = open

\* The four tests before the loop.  find_bracket builds the at_end failure
\* and does not return it, but the sentinel read next is not an open token.
EarlyReturn ==
    /\ pc = "enter"
    /\ \/ /\ ~StartsWithOpen
          /\ Return("invalid", End)
       \/ /\ StartsWithOpen
          /\ toks[2] = ClosingOf[open]
          /\ Return("valid", 3)
    /\ UNCHANGED <<toks, open, it, history, depth, lastClosed>>

EnterLoop ==
    /\ pc = "enter"
    /\ StartsWithOpen /\ toks[2] # ClosingOf[open]
    /\ pc' = "scan"
    /\ UNCHANGED <<toks, open, it, history, depth, lastClosed, verdict, scopeEnd>>

PushOpen ==
    /\ pc = "scan" /\ it < End
    /\ IsOpeningScope(toks[it])
    /\ history' = Append(history, toks[it])
    /\ depth' = [depth EXCEPT ![toks[it]] = @ + 1]
    /\ it' = it + 1
    /\ UNCHANGED <<toks, open, pc, lastClosed, verdict, scopeEnd>>

\* Seeded faults (PopUncounted, PopAnyClose, WrongCloseHere, SkipTwo and
\* SkipNone here): each is the action it precedes with one plausible mistake,
\* and a property must notice it.
PopUncounted ==
    /\ pc = "scan" /\ it < End
    /\ history # <<>> /\ IsClosingScopeOf(Top, toks[it])
    /\ history' = SubSeq(history, 1, Len(history) - 1)
    /\ it' = it + 1
    /\ UNCHANGED <<toks, open, pc, depth, lastClosed, verdict, scopeEnd>>

PopAnyClose ==
    /\ pc = "scan" /\ it < End
    /\ IsClosingScope(toks[it]) /\ history # <<>>
    /\ history' = SubSeq(history, 1, Len(history) - 1)
    /\ depth' = [depth EXCEPT ![Top] = @ - 1]
    /\ it' = it + 1
    /\ UNCHANGED <<toks, open, pc, lastClosed, verdict, scopeEnd>>

PopClose ==
    /\ pc = "scan" /\ it < End
    /\ IsClosingScope(toks[it])
    /\ history # <<>> /\ IsClosingScopeOf(Top, toks[it])
    /\ history' = SubSeq(history, 1, Len(history) - 1)
    /\ depth' = [depth EXCEPT ![Top] = @ - 1]
    /\ it' = it + 1
    /\ UNCHANGED <<toks, open, pc, lastClosed, verdict, scopeEnd>>

WrongCloseHere ==
    /\ pc = "scan" /\ it < End
    /\ IsClosingScope(toks[it])
    /\ IF history = <<>> THEN toks[it] # ClosingOf[open]
                         ELSE ~IsClosingScopeOf(Top, toks[it])
    /\ Return("invalid", it + 1)
    /\ UNCHANGED <<toks, open, it, history, depth, lastClosed>>

\* A close token with nothing of its own type to close.
WrongClose ==
    /\ pc = "scan" /\ it < End
    /\ IsClosingScope(toks[it])
    /\ IF history = <<>> THEN toks[it] # ClosingOf[open]
                         ELSE ~IsClosingScopeOf(Top, toks[it])
    /\ Return("invalid", End)
    /\ UNCHANGED <<toks, open, it, history, depth, lastClosed>>

\* The scope's own close token: break.
FoundClose ==
    /\ pc = "scan" /\ it < End
    /\ history = <<>> /\ toks[it] = ClosingOf[open]
    /\ lastClosed' = it
    /\ pc' = "leave"
    /\ UNCHANGED <<toks, open, it, history, depth, verdict, scopeEnd>>

SkipTwo ==
    /\ pc = "scan" /\ it < End
    /\ ~IsOpeningScope(toks[it]) /\ ~IsClosingScope(toks[it])
    /\ it' = it + 2
    /\ UNCHANGED <<toks, open, pc, history, depth, lastClosed, verdict, scopeEnd>>

SkipNone ==
    /\ pc = "scan" /\ it < End
    /\ ~IsOpeningScope(toks[it]) /\ ~IsClosingScope(toks[it])
    /\ UNCHANGED vars

SkipToken ==
    /\ pc = "scan" /\ it < End
    /\ ~IsOpeningScope(toks[it]) /\ ~IsClosingScope(toks[it])
    /\ it' = it + 1
    /\ UNCHANGED <<toks, open, pc, history, depth, lastClosed, verdict, scopeEnd>>

RunOut ==
    /\ pc = "scan" /\ it = End
    /\ pc' = "leave"
    /\ UNCHANGED <<toks, open, it, history, depth, lastClosed, verdict, scopeEnd>>

\* After the loop: the three depth tests, then the never-closed test.
LeaveLoop ==
    /\ pc = "leave"
    /\ IF \E o \in OpeningScopes : depth[o] # 0
       THEN Return("invalid", lastClosed + 1)
       ELSE IF lastClosed = 1 THEN Return("invalid", End)
                              ELSE Return("valid", lastClosed + 1)
    /\ UNCHANGED <<toks, open, it, history, depth, lastClosed>>

FindScope ==
    \/ EarlyReturn \/ EnterLoop
    \/ PushOpen \/ PopClose \/ WrongClose \/ FoundClose \/ SkipToken \/ RunOut
    \/ LeaveLoop

find_paren   == open = "open_paren_" /\ FindScope
find_brace   == open = "open_brace_" /\ FindScope
find_bracket == open = "open_bracket_" /\ FindScope

\* parser_utils.hpp's functions for the older token class are these, token
\* type for token type (scope for paren, list for brace, frame for bracket).
find_paren_scope == find_paren
find_list_scope  == find_brace
find_frame_scope == find_bracket

Next == find_paren \/ find_brace \/ find_bracket

Spec     == Init /\ [][Next]_vars
FairSpec == Spec /\ WF_vars(Next)

-----------------------------------------------------------------------------

\* Every variable has its type; the cursor never passes `end` and the scope
\* returned never reaches beyond it.
TypeOK ==
    /\ toks \in Ranges
    /\ open \in OpeningScopes
    /\ pc \in {"enter", "scan", "leave", "done"}
    /\ it \in 2..(IF Len(toks) < 2 THEN 2 ELSE End)
    /\ history \in Seq(OpeningScopes)
    /\ depth \in [OpeningScopes -> Int]
    /\ lastClosed \in 1..End
    /\ verdict \in {"none", "valid", "invalid"}
    /\ scopeEnd \in 0..(End + 1)

\* How many entries of stack h are of type o.
Occurrences(h, o) == Cardinality({k \in 1..Len(h) : h[k] = o})

\* The three depth counters and the stack are two records of the same thing;
\* the tests after the loop read the counters, the loop reads the stack.
DepthsMatchHistory ==
    \A o \in OpeningScopes :
        depth[o] = Occurrences(history, o)

\* What the finders promise: the scope returned is valid exactly when the
\* range starts with a scope of the type asked for, and it then ends just
\* after the close token that matches by counting.
FindsTheScope ==
    /\ verdict = "valid" => IsScope(toks, open, scopeEnd - 1)
    /\ verdict = "invalid" => \A c \in 1..Len(toks) : ~IsScope(toks, open, c)

\* The strengthening that makes FindsTheScope inductive: the tokens before
\* the cursor are scanned, and last_closed is where the scope ends.
ScanInv ==
    /\ pc = "enter" => it = 2 /\ history = <<>> /\ lastClosed = 1
    /\ pc \in {"scan", "leave"} =>
          StartsWithOpen /\ Scanned(1, toks, it - 1, history)
    /\ pc = "scan" => lastClosed = 1
    /\ pc = "leave" =>
          IF lastClosed = 1 THEN it = End
          ELSE history = <<>> /\ IsScope(toks, open, lastClosed)

\* The whole algorithm is one answer of ScopeFinder: the scan's own steps
\* change nothing the caller can see, the answer is given once and never taken
\* back, and even the end of an invalid scope, which the parsers go on to
\* read, is one of the two positions promised.
Finder == INSTANCE ScopeFinder
              WITH Ranges <- Ranges, OpeningScopes <- OpeningScopes,
                   IsScope <- IsScope, toks <- toks, open <- open,
                   verdict <- verdict, scopeEnd <- scopeEnd

ImplementsFinder == Finder!Spec

\* The scan always comes to an end.
Terminates == <>(pc = "done")
=============================================================================
