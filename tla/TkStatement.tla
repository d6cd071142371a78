---------------------------- MODULE TkStatement -----------------------------
(***************************************************************************)
(* tk_scope::find_statement, find_open_statement and                       *)
(* find_program_statement (token_iterator.hpp; parser_utils.hpp repeats    *)
(* the first two): from a token of type `open`, find the `close` token     *)
(* that ends the statement and is not inside a scope.                      *)
(*                                                                         *)
(* The three depth counters of the code move with the stack, push for      *)
(* increment and pop for decrement, as in TkScope; "all three are zero" is *)
(* the empty stack here.                                                   *)
(***************************************************************************)
EXTENDS Scopes

CONSTANTS
    TkTypes,    (* token types that can occur in a range           *)
    Ranges,     (* the ranges the finders are called on            *)
    Calls       (* [finder, open, close]: which finder, its e_tks  *)

ASSUME RangesAssumption == Ranges \subseteq Seq(TkTypes) \ {<<>>}
ASSUME CallsAssumption  ==
    Calls \subseteq [finder : {"find_statement", "find_open_statement"},
                     open : TkTypes, close : TkTypes]
\* Every call searches a separator; ')' over an empty stack is given up on.
ASSUME ParenAssumption ==
    \A c \in Calls : c.finder = "find_open_statement" => c.close # "close_paren_"

VARIABLES
    toks,        (* the range [begin, end)                            *)
    call,        (* the call being served                             *)
    pc,          (* "enter", "scan", "leave" the loop, "done"         *)
    it,          (* the scanning position                             *)
    history,     (* scope_type_history                                *)
    lastClosed,  (* last_closed; 1 (= begin) while not found          *)
    verdict,     (* the tk_scope returned: valid or not, or a throw   *)
    stmtEnd      (* its end_                                          *)

vars == <<toks, call, pc, it, history, lastClosed, verdict, stmtEnd>>

End == Len(toks) + 1
Top == history[Len(history)]

\* find_open_statement lets the open token repeat and pushes a scope it opens.
MayRepeat  == call.finder = "find_open_statement"
PushesAnyOpen == MayRepeat      \* a seeded fault: the open token is no scope
PushesOpen == MayRepeat /\ IsOpeningScope(call.open)

\* std::next(begin) is read even when it is `end`: any token may lie there.
NextIsClose == IF Len(toks) = 1 THEN BOOLEAN ELSE {toks[2] = call.close}

Init ==
    /\ toks \in Ranges
    /\ call \in Calls
    /\ pc = "enter"
    /\ it = 2
    /\ history = <<>>
    /\ lastClosed = 1
    /\ verdict = "none" /\ stmtEnd = 0

-----------------------------------------------------------------------------

Return(answer, end) ==
    /\ pc' = "done"
    /\ verdict' = answer
    /\ stmtEnd' = end

Throw == Return("throws", 0)

AtEnd ==
    /\ pc = "enter"
    /\ MayRepeat /\ Len(toks) = 1
    /\ Return("invalid", End + 1)
    /\ UNCHANGED <<toks, call, it, history, lastClosed>>

NotOnOpen ==
    /\ pc = "enter"
    /\ MayRepeat => Len(toks) > 1
    /\ toks[1] # call.open
    /\ Throw
    /\ UNCHANGED <<toks, call, it, history, lastClosed>>

OnOpen ==
    /\ pc = "enter"
    /\ MayRepeat => Len(toks) > 1
    /\ toks[1] = call.open
    /\ \/ /\ TRUE \in NextIsClose
          /\ Return("valid", 3)                          \* empty statement
          /\ UNCHANGED history
       \/ /\ FALSE \in NextIsClose
          /\ history' = IF PushesOpen THEN <<call.open>> ELSE <<>>
          /\ pc' = "scan"
          /\ UNCHANGED <<verdict, stmtEnd>>
    /\ UNCHANGED <<toks, call, it, lastClosed>>

\* break, with last_closed on the current token.
BreakHere ==
    /\ pc' = "leave"
    /\ lastClosed' = it
    /\ UNCHANGED <<it, verdict, stmtEnd>>

\* A seeded fault: the close token is taken inside a nested scope.
EndOfIterationInside(h) ==
    /\ history' = h
    /\ IF toks[it] = call.close THEN BreakHere
       ELSE it' = it + 1 /\ UNCHANGED <<pc, lastClosed, verdict, stmtEnd>>

\* The end of an iteration, with h the stack it leaves.
EndOfIteration(h) ==
    /\ history' = h
    /\ IF h = <<>> /\ toks[it] = call.close THEN BreakHere
       ELSE IF h = <<>> /\ toks[it] = call.open /\ ~MayRepeat
       THEN Throw /\ UNCHANGED <<it, lastClosed>>
       ELSE it' = it + 1 /\ UNCHANGED <<pc, lastClosed, verdict, stmtEnd>>

PushOpen ==
    /\ pc = "scan" /\ it < End
    /\ IsOpeningScope(toks[it])
    /\ EndOfIteration(Append(history, toks[it]))
    /\ UNCHANGED <<toks, call>>

PopClose ==
    /\ pc = "scan" /\ it < End
    /\ history # <<>> /\ IsClosingScopeOf(Top, toks[it])
    /\ EndOfIteration(SubSeq(history, 1, Len(history) - 1))
    /\ UNCHANGED <<toks, call>>

\* A close token that does not match the stack: the statement's own, or wrong.
\* find_open_statement gives up on a ')' over an empty stack, and reads top()
\* of an empty stack for '}' and ']': the process ends, or it reads garbage
\* that does not match.
UnmatchedClose ==
    /\ pc = "scan" /\ it < End
    /\ IsClosingScope(toks[it])
    /\ history # <<>> => ~IsClosingScopeOf(Top, toks[it])
    /\ \/ /\ MayRepeat /\ history = <<>> /\ toks[it] = "close_paren_"
          /\ Return("invalid", End)
          /\ UNCHANGED <<it, lastClosed>>
       \/ /\ MayRepeat /\ history = <<>> /\ toks[it] # "close_paren_"
          /\ Return("undefined", 0)
          /\ UNCHANGED <<it, lastClosed>>
       \/ /\ MayRepeat /\ history = <<>> => toks[it] # "close_paren_"
          /\ toks[it] = call.close
          /\ BreakHere
       \/ /\ MayRepeat /\ history = <<>> => toks[it] # "close_paren_"
          /\ toks[it] # call.close
          /\ Throw
          /\ UNCHANGED <<it, lastClosed>>
    /\ UNCHANGED <<toks, call, history>>

SkipToken ==
    /\ pc = "scan" /\ it < End
    /\ ~IsOpeningScope(toks[it]) /\ ~IsClosingScope(toks[it])
    /\ EndOfIteration(history)
    /\ UNCHANGED <<toks, call>>

\* A seeded fault: the loop may stop one token too early.
RunOutEarly ==
    /\ pc = "scan" /\ it >= End - 1
    /\ pc' = "leave"
    /\ UNCHANGED <<toks, call, it, history, lastClosed, verdict, stmtEnd>>

RunOut ==
    /\ pc = "scan" /\ it = End
    /\ pc' = "leave"
    /\ UNCHANGED <<toks, call, it, history, lastClosed, verdict, stmtEnd>>

\* After the loop.  find_statement has no never-closed test.
LeaveLoop ==
    /\ pc = "leave"
    /\ IF history # <<>> \/ (MayRepeat /\ lastClosed = 1)
       THEN Return("invalid", lastClosed + 1)
       ELSE Return("valid", lastClosed + 1)
    /\ UNCHANGED <<toks, call, it, history, lastClosed>>

FindStatement ==
    \/ NotOnOpen \/ OnOpen
    \/ PushOpen \/ PopClose \/ UnmatchedClose \/ SkipToken \/ RunOut
    \/ LeaveLoop

find_statement      == ~MayRepeat /\ FindStatement
find_open_statement == MayRepeat /\ (AtEnd \/ FindStatement)

Next == find_statement \/ find_open_statement

Spec == Init /\ [][Next]_vars

\* find_program_statement(begin, end): whatever the first token is, to ';'.
ProgramStatements == {[finder |-> "find_open_statement",
                       open |-> t, close |-> "semicolon_"] : t \in TkTypes}

-----------------------------------------------------------------------------

\* The range as nesting sees it: the begin token counts only when pushed.
Body == IF PushesOpen THEN toks ELSE [toks EXCEPT ![1] = "none_"]

\* Position c holds a close token outside every scope of the statement: all
\* scopes before it are well nested and closed, or the innermost one that it
\* closes is the statement's own.
OutsideScopes(c) ==
    /\ toks[c] = call.close
    /\ Height(Body, c) <= 0
    /\ WellNested(Body, c - 1)
    /\ Height(Body, c) = 0 => WellNested(Body, c)

\* ... and it is the first such one.
IsStatementEnd(c) ==
    /\ OutsideScopes(c)
    /\ \A m \in 2..(c - 1) : ~OutsideScopes(m)

\* The open token comes again, outside every scope, before c.
RepeatsOpen(c) ==
    \E m \in 2..(c - 1) : toks[m] = call.open /\ Height(Body, m) = 0

TypeOK ==
    /\ toks \in Ranges
    /\ call \in Calls
    /\ pc \in {"enter", "scan", "leave", "done"}
    /\ it \in 2..End
    /\ history \in Seq(OpeningScopes)
    /\ lastClosed \in 1..End
    /\ verdict \in {"none", "valid", "invalid", "throws", "undefined"}
    /\ stmtEnd \in 0..(End + 1)

\* A valid statement ends just after the first close token outside its
\* scopes.  Two answers are exempt: the empty
\* statement, taken without looking at scopes, and find_statement's answer
\* to a statement that never closes (end_ = begin + 1).
EndsOutsideScopes ==
    verdict = "valid" /\ stmtEnd > 3 =>
        /\ IsStatementEnd(stmtEnd - 1)
        /\ ~MayRepeat => ~RepeatsOpen(stmtEnd - 1)

\* Nothing is missed: when the answer is no, or find_statement says that the
\* statement never closes, no close token ends it, unless its open token is
\* repeated (find_statement) or the range does not begin with it.
MissesNoStatement ==
    \/ verdict \in {"invalid", "throws"}
    \/ verdict = "valid" /\ stmtEnd = 2
    => \/ toks[1] # call.open
       \/ \A c \in 2..Len(toks) :
             IsStatementEnd(c) => ~MayRepeat /\ RepeatsOpen(c)

\* The strengthening that makes the two inductive: the tokens before the
\* cursor are scanned, no scope is open below the stack, and none of them ends
\* the statement or, for find_statement, repeats its open token.
NoEndBefore(n) ==
    /\ \A m \in 2..(n - 1) : ~OutsideScopes(m)
    /\ ~MayRepeat => ~RepeatsOpen(n)

ScanInv ==
    /\ pc = "enter" => it = 2 /\ history = <<>> /\ lastClosed = 1
    /\ pc = "scan" => lastClosed = 1
    /\ pc \in {"scan", "leave"} /\ lastClosed = 1 =>
          /\ toks[1] = call.open
          /\ Scanned(0, Body, it - 1, history)
          /\ NoEndBefore(it)
    /\ pc = "leave" =>
          IF lastClosed = 1 THEN it = End
          ELSE IF history = <<>>
          THEN /\ IsStatementEnd(lastClosed)
               /\ ~MayRepeat => ~RepeatsOpen(lastClosed)
          ELSE \A c \in 2..Len(toks) : ~IsStatementEnd(c)
=============================================================================
