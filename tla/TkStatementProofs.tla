------------------------- MODULE TkStatementProofs --------------------------
(***************************************************************************)
(* Proofs about TkStatement: a statement ends just after the first close   *)
(* token outside its scopes, and none is missed, for every range of tokens *)
(* and every call.                                                         *)
(***************************************************************************)
EXTENDS TkStatement, Lemmas

-----------------------------------------------------------------------------
(* Type correctness.                                                       *)

\* What the end of an iteration leaves alone, and what it can come to.
LEMMA IterationEnds ==
    ASSUME NEW h, EndOfIteration(h)
    PROVE  /\ history' = h
           /\ \/ /\ pc' = "leave" /\ lastClosed' = it
                 /\ UNCHANGED <<it, verdict, stmtEnd>>
              \/ /\ pc' = "done" /\ verdict' = "throws" /\ stmtEnd' = 0
                 /\ UNCHANGED <<it, lastClosed>>
              \/ it' = it + 1 /\ UNCHANGED <<pc, lastClosed, verdict, stmtEnd>>
BY DEF EndOfIteration, BreakHere, Throw, Return

\* An iteration that ends keeps the types when its stack has its type.
LEMMA IterationTypes ==
    ASSUME TypeOK, pc = "scan", it < End, NEW h \in Seq(OpeningScopes),
           EndOfIteration(h), UNCHANGED <<toks, call>>
    PROVE  TypeOK'
<1>1. /\ Len(toks) \in Nat /\ End = Len(toks) + 1 /\ it \in Nat
  BY RangesAssumption DEF TypeOK, End
<1>2. history' = h
  BY IterationEnds
<1>3. CASE pc' = "leave" /\ lastClosed' = it /\ UNCHANGED <<it, verdict, stmtEnd>>
  BY <1>1, <1>2, <1>3 DEF TypeOK, End
<1>4. CASE /\ pc' = "done" /\ verdict' = "throws" /\ stmtEnd' = 0
           /\ UNCHANGED <<it, lastClosed>>
  BY <1>1, <1>2, <1>4 DEF TypeOK, End
<1>5. CASE it' = it + 1 /\ UNCHANGED <<pc, lastClosed, verdict, stmtEnd>>
  BY <1>1, <1>2, <1>5 DEF TypeOK, End
<1>. QED
  BY <1>3, <1>4, <1>5, IterationEnds

\* The variables keep their types: the cursor never passes the end, and no
\* statement ends more than one token behind it.
THEOREM TkStatementTypeOK == Spec => []TypeOK
<1>1. ASSUME Init PROVE TypeOK
  <2>1. toks \in Seq(TkTypes) /\ toks # <<>>
    BY <1>1, RangesAssumption DEF Init
  <2>2. Len(toks) \in Nat \ {0}
    BY <2>1, EmptySeq
  <2>3. it \in 2..End /\ lastClosed \in 1..End /\ stmtEnd \in 0..(End + 1)
    BY <1>1, <2>2 DEF Init, End
  <2>. QED
    BY <1>1, <2>3 DEF Init, TypeOK
<1>2. TypeOK /\ [Next]_vars => TypeOK'
  <2>. SUFFICES ASSUME TypeOK, [Next]_vars PROVE TypeOK'
    OBVIOUS
  <2>0. /\ toks \in Seq(TkTypes) /\ Len(toks) \in Nat
        /\ End \in Nat /\ End = Len(toks) + 1
    BY RangesAssumption DEF TypeOK, End
  <2>1. CASE AtEnd
    <3>1. /\ UNCHANGED <<toks, call, it, history, lastClosed>>
          /\ pc' = "done" /\ verdict' = "invalid" /\ stmtEnd' = End + 1
      BY <2>1 DEF AtEnd, Return
    <3>2. End' = End /\ stmtEnd' \in 0..(End + 1)
      BY <2>0, <3>1 DEF End
    <3>. QED
      BY <3>1, <3>2 DEF TypeOK
  <2>2. CASE NotOnOpen
    BY <2>0, <2>2 DEF TypeOK, NotOnOpen, Throw, Return, End
  <2>3. CASE OnOpen
    <3>1. CASE TRUE \in NextIsClose /\ Return("valid", 3) /\ UNCHANGED history
      <4>1. 3 \in 0..(End + 1)
        <5>1. it \in 2..End
          BY DEF TypeOK
        <5>. QED
          BY <2>0, <5>1
      <4>. QED
        BY <2>0, <2>3, <3>1, <4>1 DEF TypeOK, OnOpen, Return, End
    <3>2. CASE /\ history' = IF PushesOpen THEN <<call.open>> ELSE <<>>
               /\ pc' = "scan" /\ UNCHANGED <<verdict, stmtEnd>>
      <4>1. history' \in Seq(OpeningScopes)
        BY <3>2 DEF PushesOpen, IsOpeningScope
      <4>. QED
        BY <2>0, <2>3, <3>2, <4>1 DEF TypeOK, OnOpen, End
    <3>. QED
      BY <2>3, <3>1, <3>2 DEF OnOpen
  <2>4. CASE PushOpen
    <3>1. Append(history, toks[it]) \in Seq(OpeningScopes)
      BY <2>4 DEF TypeOK, PushOpen, IsOpeningScope
    <3>. QED
      BY <2>4, <3>1, IterationTypes DEF PushOpen
  <2>5. CASE PopClose
    <3>1. SubSeq(history, 1, Len(history) - 1) \in Seq(OpeningScopes)
      BY <2>5, PopType DEF TypeOK, PopClose
    <3>. QED
      BY <2>5, <3>1, IterationTypes DEF PopClose
  <2>6. CASE UnmatchedClose
    <3>1. /\ UNCHANGED <<toks, call, history, it>>
          /\ \/ /\ pc' = "done" /\ lastClosed' = lastClosed
                /\ verdict' \in {"invalid", "undefined", "throws"}
                /\ stmtEnd' \in {0, End}
             \/ pc' = "leave" /\ lastClosed' = it /\ UNCHANGED <<verdict, stmtEnd>>
      BY <2>6 DEF UnmatchedClose, BreakHere, Throw, Return
    <3>. QED
      BY <2>0, <2>6, <3>1 DEF TypeOK, UnmatchedClose, End
  <2>7. CASE SkipToken
    <3>1. history \in Seq(OpeningScopes)
      BY DEF TypeOK
    <3>. QED
      BY <2>7, <3>1, IterationTypes DEF SkipToken
  <2>8. CASE RunOut
    BY <2>0, <2>8 DEF TypeOK, RunOut, End
  <2>9. CASE LeaveLoop
    BY <2>0, <2>9 DEF TypeOK, LeaveLoop, Return, End
  <2>10. CASE UNCHANGED vars
    BY <2>10 DEF TypeOK, vars, End
  <2>. QED
    BY <2>1, <2>2, <2>3, <2>4, <2>5, <2>6, <2>7, <2>8, <2>9, <2>10
       DEF Next, find_statement, find_open_statement, FindStatement
<1>. QED
  BY <1>1, <1>2, PTL DEF Spec

-----------------------------------------------------------------------------
(* Statement ends.                                                         *)

LEMMA BodyType ==
    ASSUME TypeOK
    PROVE  /\ toks \in Seq(TkTypes) /\ Len(toks) \in Nat \ {0}
           /\ Body \in Seq(TkTypes \cup {"none_"})
           /\ \A m \in 2..Len(toks) : Body[m] = toks[m]
<1>1. toks \in Seq(TkTypes) /\ toks # <<>>
  BY RangesAssumption DEF TypeOK
<1>2. Len(toks) \in Nat \ {0}
  BY <1>1, EmptySeq
<1>3. [toks EXCEPT ![1] = "none_"] \in Seq(TkTypes \cup {"none_"})
  BY <1>1, <1>2
<1>4. toks \in Seq(TkTypes \cup {"none_"})
  BY <1>1
<1>. QED
  BY <1>1, <1>2, <1>3, <1>4 DEF Body

\* The scan starts right, with the open token on the stack or not counted.
LEMMA StatementStart ==
    ASSUME TypeOK, toks[1] = call.open
    PROVE  Scanned(0, Body, 1, IF PushesOpen THEN <<call.open>> ELSE <<>>)
<1>. DEFINE T == TkTypes \cup {"none_"}
<1>0. Body \in Seq(T) /\ Len(toks) \in Nat \ {0}
  BY BodyType
<1>1. CASE PushesOpen
  <2>1. Body[1] = call.open /\ IsOpeningScope(Body[1])
    BY <1>1 DEF Body, PushesOpen
  <2>2. Height(Body, 1) = 1
    BY <1>0, <2>1, HeightOne
  <2>3. WellNested(Body, 1)
    BY <2>1, ScopeTypes DEF WellNested, IsOpeningScope, IsClosingScope
  <2>4. \A k \in 1..Len(<<call.open>>) : k = 1
    OBVIOUS
  <2>5. \A m \in 1..1 : m = 1
    OBVIOUS
  <2>. QED
    BY <1>1, <2>1, <2>2, <2>3, <2>4, <2>5 DEF Scanned
<1>2. CASE ~PushesOpen
  <2>1. Body[1] = "none_"
    BY <1>0, <1>2, BodyType DEF Body
  <2>2. ~IsOpeningScope(Body[1]) /\ ~IsClosingScope(Body[1])
    BY <2>1 DEF IsOpeningScope, IsClosingScope, OpeningScopes, ClosingScopes
  <2>3. Height(Body, 1) = 0
    <3>1. 1 \in Nat \ {0} /\ 1 - 1 = 0
      OBVIOUS
    <3>. QED
      BY <1>0, <2>2, <3>1, HeightStep, HeightZero
  <2>4. WellNested(Body, 1)
    BY <2>2 DEF WellNested
  <2>5. \A m \in 1..1 : m = 1
    OBVIOUS
  <2>. QED
    BY <1>2, <2>3, <2>4, <2>5 DEF Scanned
<1>. QED
  BY <1>1, <1>2

\* In a scanned prefix the close token ends the statement exactly when the
\* stack is empty.
LEMMA OutsideIsEmptyStack ==
    ASSUME NEW n \in Nat, NEW h \in Seq(OpeningScopes), Scanned(0, Body, n, h)
    PROVE  OutsideScopes(n) <=> toks[n] = call.close /\ h = <<>>
<1>1. Height(Body, n) = Len(h) /\ Len(h) \in Nat /\ WellNested(Body, n)
  BY DEF Scanned
<1>2. WellNested(Body, n - 1)
  BY <1>1 DEF WellNested
<1>3. Len(h) = 0 <=> h = <<>>
  BY EmptySeq
<1>. QED
  BY <1>1, <1>2, <1>3 DEF OutsideScopes

\* Nothing that changes is read by the definitions of a statement's end.
LEMMA EndsStay ==
    ASSUME UNCHANGED <<toks, call>>
    PROVE  /\ Body' = Body /\ End' = End
           /\ \A n : NoEndBefore(n)' <=> NoEndBefore(n)
           /\ \A n : IsStatementEnd(n)' <=> IsStatementEnd(n)
           /\ \A n : RepeatsOpen(n)' <=> RepeatsOpen(n)
           /\ MayRepeat' = MayRepeat
BY DEF Body, End, NoEndBefore, IsStatementEnd, RepeatsOpen, OutsideScopes, MayRepeat,
       PushesOpen

-----------------------------------------------------------------------------
(* The invariant of the loop, and that its answers are right.              *)

AnswersRight == EndsOutsideScopes /\ MissesNoStatement

LEMMA AnswerKept ==
    ASSUME AnswersRight, UNCHANGED <<toks, call, verdict, stmtEnd>>
    PROVE  AnswersRight'
<1>1. /\ \A n : IsStatementEnd(n)' <=> IsStatementEnd(n)
      /\ \A n : RepeatsOpen(n)' <=> RepeatsOpen(n)
      /\ MayRepeat' = MayRepeat
  BY EndsStay
<1>2. EndsOutsideScopes'
  BY <1>1 DEF AnswersRight, EndsOutsideScopes
<1>3. MissesNoStatement'
  BY <1>1 DEF AnswersRight, MissesNoStatement
<1>. QED
  BY <1>2, <1>3 DEF AnswersRight

\* An answer that says no is right when no close token ends the statement.
LEMMA NoIsRight ==
    ASSUME UNCHANGED <<toks, call>>,
           \/ verdict' \in {"invalid", "throws"}
           \/ verdict' = "valid" /\ stmtEnd' = 2,
           \/ toks[1] # call.open
           \/ \A c \in 2..Len(toks) :
                 IsStatementEnd(c) => ~MayRepeat /\ RepeatsOpen(c)
    PROVE  AnswersRight'
<1>1. /\ \A n : IsStatementEnd(n)' <=> IsStatementEnd(n)
      /\ \A n : RepeatsOpen(n)' <=> RepeatsOpen(n)
      /\ MayRepeat' = MayRepeat
  BY EndsStay
<1>2. MissesNoStatement'
  BY <1>1 DEF MissesNoStatement
<1>. QED
  BY <1>2 DEF AnswersRight, EndsOutsideScopes

\* An iteration after which the stack h is right for the prefix read.
LEMMA IterationKeeps ==
    ASSUME TypeOK, ScanInv, AnswersRight, pc = "scan", it < End,
           NEW h \in Seq(OpeningScopes), Scanned(0, Body, it, h),
           EndOfIteration(h), UNCHANGED <<toks, call>>
    PROVE  ScanInv' /\ AnswersRight'
<1>0. /\ it \in Nat /\ 2 <= it /\ it + 1 - 1 = it /\ (it + 1) - 1 = it
      /\ Len(toks) \in Nat /\ End = Len(toks) + 1
      /\ toks[1] = call.open /\ NoEndBefore(it) /\ lastClosed = 1
      /\ history' = h
  BY BodyType, IterationEnds DEF TypeOK, ScanInv, End
<1>1. /\ Body' = Body /\ End' = End /\ toks' = toks /\ call' = call
      /\ \A n : NoEndBefore(n)' <=> NoEndBefore(n)
      /\ \A n : IsStatementEnd(n)' <=> IsStatementEnd(n)
      /\ \A n : RepeatsOpen(n)' <=> RepeatsOpen(n)
      /\ MayRepeat' = MayRepeat
  BY EndsStay
<1>2. OutsideScopes(it) <=> toks[it] = call.close /\ h = <<>>
  BY <1>0, OutsideIsEmptyStack
<1>3. Height(Body, it) = 0 <=> h = <<>>
  BY EmptySeq DEF Scanned
<1>4. CASE h = <<>> /\ toks[it] = call.close
  <2>1. pc' = "leave" /\ lastClosed' = it /\ UNCHANGED <<it, verdict, stmtEnd>>
    BY <1>4 DEF EndOfIteration, BreakHere
  <2>2. IsStatementEnd(it) /\ (~MayRepeat => ~RepeatsOpen(it))
    BY <1>0, <1>2, <1>4 DEF IsStatementEnd, NoEndBefore
  <2>3. /\ IsStatementEnd(lastClosed)'
        /\ ~MayRepeat' => ~RepeatsOpen(lastClosed)'
    BY <2>1, <2>2, <1>1
       DEF IsStatementEnd, RepeatsOpen, OutsideScopes, MayRepeat
  <2>4. ScanInv'
    BY <1>0, <1>4, <2>1, <2>3 DEF ScanInv
  <2>. QED
    BY <2>1, <2>4, AnswerKept
<1>5. CASE /\ ~(h = <<>> /\ toks[it] = call.close)
           /\ h = <<>> /\ toks[it] = call.open /\ ~MayRepeat
  <2>1. pc' = "done" /\ verdict' = "throws"
    BY <1>5 DEF EndOfIteration, Throw, Return
  <2>2. ASSUME NEW c \in 2..Len(toks), IsStatementEnd(c)
        PROVE  RepeatsOpen(c)
    <3>1. ~(c < it)
      BY <1>0, <2>2 DEF NoEndBefore, IsStatementEnd
    <3>2. c # it
      BY <1>2, <1>5, <2>2 DEF IsStatementEnd
    <3>3. it \in 2..(c - 1)
      BY <1>0, <3>1, <3>2
    <3>. QED
      BY <1>3, <1>5, <3>3 DEF RepeatsOpen
  <2>3. AnswersRight'
    BY <1>5, <2>1, <2>2, NoIsRight
  <2>. QED
    BY <2>1, <2>3 DEF ScanInv
<1>6. CASE /\ ~(h = <<>> /\ toks[it] = call.close)
           /\ ~(h = <<>> /\ toks[it] = call.open /\ ~MayRepeat)
  <2>1. it' = it + 1 /\ UNCHANGED <<pc, lastClosed, verdict, stmtEnd>>
    BY <1>6 DEF EndOfIteration
  <2>2. NoEndBefore(it + 1)
    <3>1. \A m \in 2..((it + 1) - 1) : m \in 2..(it - 1) \/ m = it
      BY <1>0
    <3>2. \A m \in 2..((it + 1) - 1) : ~OutsideScopes(m)
      BY <1>0, <1>2, <1>6, <3>1 DEF NoEndBefore
    <3>3. ~MayRepeat => ~RepeatsOpen(it + 1)
      BY <1>0, <1>3, <1>6, <3>1 DEF NoEndBefore, RepeatsOpen
    <3>. QED
      BY <3>2, <3>3 DEF NoEndBefore
  <2>3. Scanned(0, Body', it' - 1, history')
    BY <1>0, <1>1, <2>1
  <2>4. NoEndBefore(it)'
    BY <1>1, <2>1, <2>2
       DEF NoEndBefore, RepeatsOpen, OutsideScopes, MayRepeat
  <2>5. ScanInv'
    BY <1>0, <1>1, <2>1, <2>3, <2>4 DEF ScanInv
  <2>. QED
    BY <2>1, <2>5, AnswerKept
<1>. QED
  BY <1>4, <1>5, <1>6

\* A close token that fits nothing: the only place where the statement can
\* end is there, over the empty stack.
LEMMA UnmatchedEnds ==
    ASSUME TypeOK, ScanInv, pc = "scan", it < End, IsClosingScope(toks[it]),
           history # <<>> => ~IsClosingScopeOf(Top, toks[it])
    PROVE  /\ \A c \in 2..Len(toks) :
                 IsStatementEnd(c) => c = it /\ history = <<>> /\ toks[it] = call.close
           /\ history = <<>> /\ toks[it] = call.close => IsStatementEnd(it)
<1>0. /\ it \in Nat /\ 2 <= it /\ it - 1 \in Nat \ {0} /\ (it - 1) + 1 = it
      /\ it \in Nat \ {0} /\ it \in 2..Len(toks)
      /\ Len(toks) \in Nat /\ Len(history) \in Nat
      /\ history \in Seq(OpeningScopes)
      /\ NoEndBefore(it) /\ Scanned(0, Body, it - 1, history)
  BY BodyType DEF TypeOK, ScanInv, End
<1>1. Body \in Seq(TkTypes \cup {"none_"}) /\ Body[it] = toks[it]
  BY <1>0, BodyType
<1>2. /\ Height(Body, it) = Len(history) - 1
      /\ WellNested(Body, it - 1)
  <2>1. Height(Body, it - 1) = Len(history) + 0 /\ WellNested(Body, it - 1)
    BY <1>0 DEF Scanned
  <2>2. Height(Body, it) = Height(Body, it - 1) - 1
    BY <1>0, <1>1, HeightStep
  <2>. QED
    BY <1>0, <2>1, <2>2
<1>3. \A c \in Int : c >= (it - 1) + 1 => ~WellNested(Body, c)
  BY <1>0, <1>1, WrongCloseNotNested DEF Top
<1>4. ASSUME NEW c \in 2..Len(toks), IsStatementEnd(c)
      PROVE  c = it /\ history = <<>> /\ toks[it] = call.close
  <2>1. ~(c < it)
    BY <1>0, <1>4 DEF NoEndBefore, IsStatementEnd
  <2>2. OutsideScopes(c) /\ WellNested(Body, c - 1)
    BY <1>4 DEF IsStatementEnd, OutsideScopes
  <2>3. ~(c - 1 >= (it - 1) + 1)
    BY <1>3, <2>2
  <2>4. c = it
    BY <1>0, <2>1, <2>3
  <2>5. Height(Body, it) <= 0 /\ Height(Body, it) # 0 /\ toks[it] = call.close
    BY <1>0, <1>3, <2>2, <2>4 DEF OutsideScopes
  <2>6. Len(history) = 0
    <3>1. Len(history) - 1 <= 0 /\ Len(history) - 1 # 0
      BY <1>2, <2>5
    <3>2. \A n \in Nat : n - 1 <= 0 /\ n - 1 # 0 => n = 0
      OBVIOUS
    <3>. QED
      BY <1>0, <3>1, <3>2
  <2>. QED
    BY <1>0, <2>4, <2>5, <2>6, EmptySeq
<1>5. ASSUME history = <<>>, toks[it] = call.close
      PROVE  IsStatementEnd(it)
  <2>1. Height(Body, it) = -1
    BY <1>2, <1>5
  <2>. QED
    BY <1>0, <1>2, <1>5, <2>1 DEF IsStatementEnd, OutsideScopes, NoEndBefore
<1>. QED
  BY <1>4, <1>5

LEMMA UnmatchedCloseKeeps ==
    ASSUME TypeOK, ScanInv, AnswersRight, UnmatchedClose
    PROVE  ScanInv' /\ AnswersRight'
<1>0. /\ pc = "scan" /\ it < End /\ IsClosingScope(toks[it])
      /\ history # <<>> => ~IsClosingScopeOf(Top, toks[it])
      /\ UNCHANGED <<toks, call, history>>
  BY DEF UnmatchedClose
<1>1. /\ \A c \in 2..Len(toks) :
            IsStatementEnd(c) => c = it /\ history = <<>> /\ toks[it] = call.close
      /\ history = <<>> /\ toks[it] = call.close => IsStatementEnd(it)
  BY <1>0, UnmatchedEnds
<1>2. CASE /\ MayRepeat /\ history = <<>> /\ toks[it] = "close_paren_"
           /\ Return("invalid", End)
  <2>1. call.close # "close_paren_"
    BY <1>2, ParenAssumption DEF TypeOK, MayRepeat
  <2>2. AnswersRight'
    BY <1>0, <1>1, <1>2, <2>1, NoIsRight DEF Return
  <2>. QED
    BY <1>2, <2>2 DEF Return, ScanInv
<1>3. CASE Return("undefined", 0)
  BY <1>3 DEF Return, ScanInv, AnswersRight, EndsOutsideScopes, MissesNoStatement
<1>4. CASE toks[it] = call.close /\ BreakHere
  <2>1. /\ pc' = "leave" /\ lastClosed' = it /\ UNCHANGED <<it, verdict, stmtEnd>>
        /\ it # 1 /\ NoEndBefore(it)
    BY <1>0, <1>4 DEF BreakHere, ScanInv, TypeOK
  <2>2. AnswersRight'
    BY <1>0, <2>1, AnswerKept
  <2>3. CASE history = <<>>
    <3>1. IsStatementEnd(it) /\ (~MayRepeat => ~RepeatsOpen(it))
      BY <1>1, <1>4, <2>1, <2>3 DEF NoEndBefore
    <3>2. /\ IsStatementEnd(lastClosed)'
          /\ ~MayRepeat' => ~RepeatsOpen(lastClosed)'
      BY <1>0, <2>1, <3>1, EndsStay
         DEF IsStatementEnd, RepeatsOpen, OutsideScopes, MayRepeat
    <3>. QED
      BY <1>0, <2>1, <2>2, <2>3, <3>2 DEF ScanInv
  <2>4. CASE history # <<>>
    <3>1. \A c \in 2..Len(toks) : ~IsStatementEnd(c)
      BY <1>1, <2>4
    <3>2. \A c \in 2..Len(toks') : ~IsStatementEnd(c)'
      BY <1>0, <3>1, EndsStay
    <3>. QED
      BY <1>0, <2>1, <2>2, <2>4, <3>2 DEF ScanInv
  <2>. QED
    BY <2>3, <2>4
<1>5. CASE toks[it] # call.close /\ Throw
  <2>1. AnswersRight'
    BY <1>0, <1>1, <1>5, NoIsRight DEF Throw, Return
  <2>. QED
    BY <1>5, <2>1 DEF Throw, Return, ScanInv
<1>. QED
  BY <1>2, <1>3, <1>4, <1>5 DEF UnmatchedClose

LEMMA LeaveLoopKeeps ==
    ASSUME TypeOK, ScanInv, AnswersRight, LeaveLoop
    PROVE  ScanInv' /\ AnswersRight'
<1>0. /\ pc = "leave" /\ pc' = "done" /\ UNCHANGED <<toks, call>>
      /\ lastClosed \in Int /\ Len(toks) \in Nat /\ End = Len(toks) + 1
      /\ stmtEnd' = lastClosed + 1
      /\ verdict' = IF history # <<>> \/ (MayRepeat /\ lastClosed = 1)
                    THEN "invalid" ELSE "valid"
  BY BodyType DEF LeaveLoop, Return, TypeOK, End
<1>1. ScanInv'
  BY <1>0 DEF ScanInv
<1>2. CASE lastClosed = 1
  <2>1. \A c \in 2..Len(toks) : ~IsStatementEnd(c)
    BY <1>0, <1>2 DEF ScanInv, NoEndBefore, IsStatementEnd
  <2>. QED
    BY <1>0, <1>1, <1>2, <2>1, NoIsRight
<1>3. CASE lastClosed # 1 /\ history # <<>>
  <2>1. \A c \in 2..Len(toks) : ~IsStatementEnd(c)
    BY <1>0, <1>3 DEF ScanInv
  <2>. QED
    BY <1>0, <1>1, <1>3, <2>1, NoIsRight
<1>4. CASE lastClosed # 1 /\ history = <<>>
  <2>1. /\ IsStatementEnd(lastClosed) /\ (~MayRepeat => ~RepeatsOpen(lastClosed))
        /\ verdict' = "valid" /\ stmtEnd' - 1 = lastClosed /\ stmtEnd' # 2
    BY <1>0, <1>4 DEF ScanInv
  <2>2. EndsOutsideScopes'
    BY <1>0, <2>1, EndsStay
       DEF EndsOutsideScopes, IsStatementEnd, RepeatsOpen, OutsideScopes, MayRepeat
  <2>3. MissesNoStatement'
    BY <2>1 DEF MissesNoStatement
  <2>. QED
    BY <1>1, <2>2, <2>3 DEF AnswersRight
<1>. QED
  BY <1>2, <1>3, <1>4

LEMMA StatementIsRight == Spec => [](ScanInv /\ AnswersRight)
<1>1. Init => ScanInv /\ AnswersRight
  BY DEF Init, ScanInv, AnswersRight, EndsOutsideScopes, MissesNoStatement
<1>2. TypeOK /\ ScanInv /\ AnswersRight /\ [Next]_vars
      => ScanInv' /\ AnswersRight'
  <2>. SUFFICES ASSUME TypeOK, ScanInv, AnswersRight, [Next]_vars
                PROVE  ScanInv' /\ AnswersRight'
    OBVIOUS
  <2>0. /\ Len(toks) \in Nat \ {0} /\ End = Len(toks) + 1
        /\ Body \in Seq(TkTypes \cup {"none_"})
        /\ it \in Nat /\ 2 <= it /\ it - 1 \in Nat \ {0} /\ (it - 1) + 1 = it
        /\ it < End => Body[it] = toks[it]
        /\ history \in Seq(OpeningScopes)
    BY BodyType DEF TypeOK, End
  <2>1. CASE AtEnd
    <3>1. \A c \in 2..Len(toks) : FALSE
      BY <2>1 DEF AtEnd
    <3>. QED
      BY <2>1, <3>1, NoIsRight DEF AtEnd, Return, ScanInv
  <2>2. CASE NotOnOpen
    BY <2>2, NoIsRight DEF NotOnOpen, Throw, Return, ScanInv
  <2>3. CASE OnOpen
    <3>0. /\ toks[1] = call.open /\ UNCHANGED <<toks, call, it, lastClosed>>
          /\ it = 2 /\ lastClosed = 1
      BY <2>3 DEF OnOpen, ScanInv
    <3>1. CASE Return("valid", 3)
      BY <3>1 DEF Return, ScanInv, AnswersRight, EndsOutsideScopes, MissesNoStatement
    <3>2. CASE /\ history' = IF PushesOpen THEN <<call.open>> ELSE <<>>
               /\ pc' = "scan" /\ UNCHANGED <<verdict, stmtEnd>>
      <4>1. Scanned(0, Body, 1, history')
        BY <3>0, <3>2, StatementStart
      <4>2. Scanned(0, Body', it' - 1, history')
        BY <3>0, <4>1, EndsStay
      <4>3. NoEndBefore(2)
        BY DEF NoEndBefore, RepeatsOpen
      <4>4. NoEndBefore(it)'
        BY <3>0, <4>3 DEF NoEndBefore, RepeatsOpen
      <4>. QED
        BY <3>0, <3>2, <4>2, <4>4, AnswerKept DEF ScanInv
    <3>. QED
      BY <2>3, <3>1, <3>2 DEF OnOpen
  <2>4. CASE PushOpen
    <3>1. /\ pc = "scan" /\ it < End /\ IsOpeningScope(toks[it])
          /\ Scanned(0, Body, it - 1, history) /\ UNCHANGED <<toks, call>>
      BY <2>4 DEF PushOpen, ScanInv
    <3>2. Append(history, toks[it]) \in Seq(OpeningScopes)
      BY <2>0, <3>1 DEF IsOpeningScope
    <3>3. Scanned(0, Body, it, Append(history, toks[it]))
      BY <2>0, <3>1, ScannedPush
    <3>. QED
      BY <2>4, <3>1, <3>2, <3>3, IterationKeeps DEF PushOpen
  <2>5. CASE PopClose
    <3>1. /\ pc = "scan" /\ it < End /\ history # <<>>
          /\ IsClosingScopeOf(history[Len(history)], toks[it])
          /\ Scanned(0, Body, it - 1, history) /\ UNCHANGED <<toks, call>>
      BY <2>5 DEF PopClose, ScanInv, Top
    <3>2. SubSeq(history, 1, Len(history) - 1) \in Seq(OpeningScopes)
      BY <2>0, <3>1, PopType
    <3>3. IsClosingScope(toks[it])
      BY <3>1, ScopeTypes DEF IsClosingScopeOf, IsClosingScope
    <3>4. Scanned(0, Body, it, SubSeq(history, 1, Len(history) - 1))
      BY <2>0, <3>1, <3>3, ScannedPop
    <3>. QED
      BY <2>5, <3>1, <3>2, <3>4, IterationKeeps DEF PopClose
  <2>6. CASE UnmatchedClose
    BY <2>6, UnmatchedCloseKeeps
  <2>7. CASE SkipToken
    <3>1. /\ pc = "scan" /\ it < End
          /\ ~IsOpeningScope(toks[it]) /\ ~IsClosingScope(toks[it])
          /\ Scanned(0, Body, it - 1, history) /\ UNCHANGED <<toks, call>>
      BY <2>7 DEF SkipToken, ScanInv
    <3>2. Scanned(0, Body, it, history)
      BY <2>0, <3>1, ScannedSkip
    <3>. QED
      BY <2>0, <2>7, <3>1, <3>2, IterationKeeps DEF SkipToken
  <2>8. CASE RunOut
    <3>1. /\ pc = "scan" /\ it = End /\ pc' = "leave" /\ lastClosed = 1
          /\ UNCHANGED <<toks, call, it, history, lastClosed, verdict, stmtEnd>>
      BY <2>8 DEF RunOut, ScanInv
    <3>2. Body' = Body /\ End' = End /\ (NoEndBefore(it)' <=> NoEndBefore(it))
      BY <3>1 DEF Body, End, NoEndBefore, RepeatsOpen, OutsideScopes, MayRepeat,
                  PushesOpen
    <3>. QED
      BY <3>1, <3>2, AnswerKept DEF ScanInv
  <2>9. CASE LeaveLoop
    BY <2>9, LeaveLoopKeeps
  <2>10. CASE UNCHANGED vars
    <3>1. ScanInv'
      BY <2>10
         DEF vars, ScanInv, Body, End, NoEndBefore, IsStatementEnd, RepeatsOpen,
             OutsideScopes, MayRepeat, PushesOpen
    <3>. QED
      BY <2>10, <3>1, AnswerKept DEF vars
  <2>. QED
    BY <2>1, <2>2, <2>3, <2>4, <2>5, <2>6, <2>7, <2>8, <2>9, <2>10
       DEF Next, find_statement, find_open_statement, FindStatement
<1>. QED
  BY <1>1, <1>2, TkStatementTypeOK, PTL DEF Spec

\* A valid statement ends just after the first close token that is outside
\* its scopes, and find_statement never runs over a repeated open token.
THEOREM TkStatementEnds == Spec => []EndsOutsideScopes
<1>1. AnswersRight => EndsOutsideScopes
  BY DEF AnswersRight
<1>. QED
  BY <1>1, StatementIsRight, PTL

\* An answer that says no, or that the statement never closes, is right: no
\* close token ends it.
THEOREM TkStatementMissesNone == Spec => []MissesNoStatement
<1>1. AnswersRight => MissesNoStatement
  BY DEF AnswersRight
<1>. QED
  BY <1>1, StatementIsRight, PTL
=============================================================================
