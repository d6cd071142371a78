---------------------------- MODULE ParserProofs ----------------------------
(***************************************************************************)
(* Proofs about the scope finders (TkScope) and about the parser that      *)
(* searches with them (BlockParser).                                       *)
(*                                                                         *)
(* The finders keep their types, their depth counters agree with their     *)
(* stack, and what they return is the scope that counting defines, for     *)
(* every range of tokens; so it is what BlockParser takes them to return.  *)
(*                                                                         *)
(* The parser reads every program that ends with an eof_, whatever its     *)
(* expressions are made of.  Its proofs go from the text to the frames:    *)
(* parts of a text and what is read of a statement; what each finder and   *)
(* each statement without a block gives, or how it fails; the invariant of *)
(* the frames and, action by action, that it is kept.                      *)
(***************************************************************************)
EXTENDS TkScope, BlockParser, Lemmas

-----------------------------------------------------------------------------
(* Type correctness.                                                       *)

\* find_paren, find_brace and find_bracket never step behind their range, and
\* the end of the scope they return, one behind its close token, is no further
\* than one behind it.
THEOREM TkScopeTypeOK == Spec => []TypeOK
<1>1. ASSUME Init PROVE TypeOK
  <2>1. toks \in Seq(TkTypes) /\ Len(toks) \in Nat
    BY <1>1, RangesAssumption DEF Init
  <2>2. depth \in [OpeningScopes -> Int]
    BY <1>1 DEF Init
  <2>. QED
    BY <1>1, <2>1, <2>2 DEF Init, TypeOK, End
<1>2. TypeOK /\ [Next]_vars => TypeOK'
  <2>. SUFFICES ASSUME TypeOK, [Next]_vars PROVE TypeOK'
    OBVIOUS
  <2>0. /\ toks \in Seq(TkTypes) /\ Len(toks) \in Nat
        /\ End \in Nat /\ End = Len(toks) + 1
    BY RangesAssumption DEF TypeOK, End
  <2>. USE <2>0
  <2>1. CASE EarlyReturn
    BY <2>1 DEF TypeOK, EarlyReturn, Return, StartsWithOpen, End
  <2>2. CASE EnterLoop
    BY <2>2 DEF TypeOK, EnterLoop, End
  <2>3. CASE PushOpen
    BY <2>3 DEF TypeOK, PushOpen, IsOpeningScope, End
  <2>4. CASE PopClose
    <3>1. /\ history' \in Seq(OpeningScopes)
          /\ Top \in OpeningScopes
      BY <2>4, PopType DEF PopClose, TypeOK, Top
    <3>2. depth' \in [OpeningScopes -> Int]
      BY <2>4, <3>1 DEF PopClose, TypeOK
    <3>. QED
      BY <2>4, <3>1, <3>2 DEF TypeOK, PopClose, End
  <2>5. CASE WrongClose
    BY <2>5 DEF TypeOK, WrongClose, Return, End
  <2>6. CASE FoundClose
    BY <2>6 DEF TypeOK, FoundClose, End
  <2>7. CASE SkipToken
    BY <2>7 DEF TypeOK, SkipToken, End
  <2>8. CASE RunOut
    BY <2>8 DEF TypeOK, RunOut, End
  <2>9. CASE LeaveLoop
    BY <2>9 DEF TypeOK, LeaveLoop, Return, End
  <2>10. CASE UNCHANGED vars
    BY <2>10 DEF TypeOK, vars, End
  <2>. QED
    BY <2>1, <2>2, <2>3, <2>4, <2>5, <2>6, <2>7, <2>8, <2>9, <2>10
       DEF Next, find_paren, find_brace, find_bracket, FindScope
<1>. QED
  BY <1>1, <1>2, PTL DEF Spec

-----------------------------------------------------------------------------
(* The depth counters agree with the stack.                                *)

\* Pushing x adds one occurrence of x to the stack and of nothing else.
LEMMA CountPush ==
    ASSUME NEW S, NEW h \in Seq(S), NEW x \in S, NEW o
    PROVE  /\ Occurrences(h, o) \in Nat
           /\ Occurrences(Append(h, x), o)
                = Occurrences(h, o) + (IF x = o THEN 1 ELSE 0)
<1>. DEFINE A == {k \in 1..Len(h) : h[k] = o}
            B == {k \in 1..Len(Append(h, x)) : Append(h, x)[k] = o}
            n == Len(h) + 1
<1>1. Len(h) \in Nat /\ IsFiniteSet(1..Len(h))
  BY FS_Interval
<1>2. IsFiniteSet(A) /\ Cardinality(A) \in Nat
  <2>1. IsFiniteSet(A)
    BY <1>1, FS_Subset
  <2>. QED
    BY <2>1, FS_CardinalityType
<1>3. n \notin A
  BY <1>1
<1>4. B = IF x = o THEN A \cup {n} ELSE A
  BY <1>1
<1>5. Cardinality(A \cup {n}) = Cardinality(A) + 1
  BY <1>2, <1>3, FS_AddElement
<1>. HIDE DEF A, B, n
<1>6. Cardinality(B) = Cardinality(A) + (IF x = o THEN 1 ELSE 0)
  BY <1>2, <1>4, <1>5
<1>. QED
  BY <1>2, <1>6 DEF A, B, Occurrences

\* Popping removes one occurrence of the top and of nothing else.
LEMMA CountPop ==
    ASSUME NEW S, NEW h \in Seq(S), h # <<>>, NEW o
    PROVE  /\ Occurrences(h, o) \in Nat
           /\ Occurrences(SubSeq(h, 1, Len(h) - 1), o)
                = Occurrences(h, o) - (IF h[Len(h)] = o THEN 1 ELSE 0)
<1>. DEFINE g == SubSeq(h, 1, Len(h) - 1)
            A == {k \in 1..Len(h) : h[k] = o}
            B == {k \in 1..Len(g) : g[k] = o}
            n == Len(h)
<1>1. /\ n \in Nat \ {0} /\ Len(g) = n - 1
      /\ \A k \in 1..(n - 1) : g[k] = h[k]
  BY PopType
<1>2. IsFiniteSet(A) /\ Cardinality(A) \in Nat
  <2>1. IsFiniteSet(1..n)
    BY <1>1, FS_Interval
  <2>2. IsFiniteSet(A)
    BY <2>1, FS_Subset
  <2>. QED
    BY <2>2, FS_CardinalityType
<1>. HIDE DEF g
<1>3. B = A \ {n}
  BY <1>1
<1>4. Cardinality(A \ {n}) = IF n \in A THEN Cardinality(A) - 1 ELSE Cardinality(A)
  BY <1>2, FS_RemoveElement
<1>5. n \in A <=> h[n] = o
  BY <1>1
<1>. HIDE DEF A, B, n
<1>6. Cardinality(B) = Cardinality(A) - (IF h[n] = o THEN 1 ELSE 0)
  BY <1>2, <1>3, <1>4, <1>5
<1>. QED
  BY <1>2, <1>6 DEF A, B, g, n, Occurrences

\* The three depth counters never disagree with the stack.
THEOREM TkScopeDepths == Spec => []DepthsMatchHistory
<1>1. Init => DepthsMatchHistory
  <2>1. \A o : {k \in 1..0 : <<>>[k] = o} = {}
    OBVIOUS
  <2>. QED
    BY <2>1, FS_EmptySet DEF Init, DepthsMatchHistory, Occurrences
<1>2. TypeOK /\ DepthsMatchHistory /\ [Next]_vars => DepthsMatchHistory'
  <2>. SUFFICES ASSUME TypeOK, DepthsMatchHistory, [Next]_vars
                PROVE  DepthsMatchHistory'
    OBVIOUS
  <2>1. CASE PushOpen
    <3>1. history \in Seq(OpeningScopes) /\ toks[it] \in OpeningScopes
      BY <2>1 DEF TypeOK, PushOpen, IsOpeningScope
    <3>2. ASSUME NEW o \in OpeningScopes
          PROVE  depth'[o] = Occurrences(history', o)
      <4>1. depth'[o] = depth[o] + (IF toks[it] = o THEN 1 ELSE 0)
        BY <2>1, <3>1 DEF PushOpen, TypeOK
      <4>. QED
        BY <2>1, <3>1, <4>1, CountPush DEF PushOpen, DepthsMatchHistory
    <3>. QED
      BY <3>2 DEF DepthsMatchHistory
  <2>2. CASE PopClose
    <3>1. history \in Seq(OpeningScopes) /\ history # <<>> /\ Top \in OpeningScopes
      BY <2>2, PopType DEF TypeOK, PopClose, Top
    <3>2. ASSUME NEW o \in OpeningScopes
          PROVE  depth'[o] = Occurrences(history', o)
      <4>1. depth'[o] = depth[o] - (IF Top = o THEN 1 ELSE 0)
        BY <2>2, <3>1 DEF PopClose, TypeOK
      <4>. QED
        BY <2>2, <3>1, <4>1, CountPop DEF PopClose, DepthsMatchHistory, Top
    <3>. QED
      BY <3>2 DEF DepthsMatchHistory
  <2>3. CASE UNCHANGED <<history, depth>>
    BY <2>3 DEF DepthsMatchHistory
  <2>. QED
    BY <2>1, <2>2, <2>3
       DEF Next, find_paren, find_brace, find_bracket, FindScope, EarlyReturn,
           EnterLoop, WrongClose, FoundClose, SkipToken, RunOut, LeaveLoop, vars
<1>. QED
  BY <1>1, <1>2, TkScopeTypeOK, PTL DEF Spec

-----------------------------------------------------------------------------
(* The scan invariant, and that the scope returned is the right one.       *)

\* A step that moves the scan from prefix it - 1 to prefix it.
LEMMA ScanMoves ==
    ASSUME TypeOK, ScanInv, pc = "scan", it < End,
           Scanned(1, toks, it, history'), it' = it + 1,
           UNCHANGED <<toks, open, pc, lastClosed, verdict, scopeEnd>>
    PROVE  ScanInv'
<1>1. StartsWithOpen' /\ lastClosed' = 1 /\ pc' = "scan"
  BY DEF ScanInv, StartsWithOpen
<1>2. it' - 1 = it
  <2>1. Len(toks) \in Nat /\ it \in Int
    BY RangesAssumption DEF TypeOK
  <2>. QED
    BY <2>1
<1>3. Scanned(1, toks', it' - 1, history')
  <2>1. toks' = toks
    OBVIOUS
  <2>. QED
    BY <1>2, <2>1
<1>. QED
  BY <1>1, <1>3 DEF ScanInv

\* A step that leaves the answer alone keeps it right.
LEMMA AnswerKept ==
    ASSUME FindsTheScope, UNCHANGED <<toks, open, verdict, scopeEnd>>
    PROVE  FindsTheScope'
<1>1. toks' = toks /\ open' = open /\ verdict' = verdict /\ scopeEnd' = scopeEnd
  OBVIOUS
<1>. QED
  BY <1>1 DEF FindsTheScope

\* A range that is too short, or begins with another token, has no scope.
LEMMA EarlyReturnStep ==
    ASSUME TypeOK, EarlyReturn
    PROVE  ScanInv' /\ FindsTheScope'
<1>1. toks \in Seq(TkTypes) /\ Len(toks) \in Nat /\ open \in OpeningScopes
  BY RangesAssumption DEF TypeOK
<1>2. ScanInv'
  BY DEF EarlyReturn, Return, ScanInv
<1>3. CASE ~StartsWithOpen
  <2>1. verdict' = "invalid" /\ toks' = toks /\ open' = open
    BY <1>3 DEF EarlyReturn, Return
  <2>2. \A c \in 1..Len(toks) : ~IsScope(toks, open, c)
    <3>. SUFFICES ASSUME NEW c \in 1..Len(toks), IsScope(toks, open, c)
                  PROVE  FALSE
      OBVIOUS
    <3>1. 1 < c /\ toks[1] = open
      BY DEF IsScope, ClosesAt
    <3>. QED
      BY <1>1, <1>3, <3>1 DEF StartsWithOpen
  <2>. QED
    BY <1>2, <2>1, <2>2 DEF FindsTheScope
<1>4. CASE StartsWithOpen
  <2>1. /\ verdict' = "valid" /\ scopeEnd' = 3 /\ toks' = toks /\ open' = open
        /\ toks[1] = open /\ toks[2] = ClosingOf[open] /\ 1 \in 1..(Len(toks) - 1)
    BY <1>1, <1>4 DEF EarlyReturn, Return, StartsWithOpen
  <2>2. Scanned(1, toks, 1, <<>>)
    BY <1>1, <2>1, ScannedStart DEF IsOpeningScope
  <2>3. IsScope(toks, open, 1 + 1)
    <3>1. toks[1 + 1] = ClosingOf[open]
      BY <2>1
    <3>. QED
      BY <1>1, <2>1, <2>2, <3>1, FoundIsScope
  <2>4. IsScope(toks', open', scopeEnd' - 1)
    BY <2>1, <2>3
  <2>. QED
    BY <1>2, <2>1, <2>4 DEF FindsTheScope
<1>. QED
  BY <1>3, <1>4

\* After the loop the counters decide; they agree with the stack, which the
\* code no longer looks at.
LEMMA LeaveLoopStep ==
    ASSUME TypeOK, DepthsMatchHistory, ScanInv, LeaveLoop
    PROVE  ScanInv' /\ FindsTheScope'
<1>1. /\ toks \in Seq(TkTypes) /\ Len(toks) \in Nat /\ open \in OpeningScopes
      /\ lastClosed \in Int /\ it \in Int
  BY RangesAssumption DEF TypeOK
<1>2. ScanInv'
  BY DEF LeaveLoop, Return, ScanInv
<1>3. toks' = toks /\ open' = open
  BY DEF LeaveLoop
<1>4. CASE lastClosed = 1
  <2>1. verdict' = "invalid"
    BY <1>4 DEF LeaveLoop, Return
  <2>2. Scanned(1, toks, Len(toks), history)
    <3>1. pc = "leave" /\ it = End /\ it - 1 = Len(toks)
      BY <1>1, <1>4 DEF LeaveLoop, ScanInv, End
    <3>. QED
      BY <3>1 DEF ScanInv
  <2>3. \A c \in 1..Len(toks) : ~IsScope(toks, open, c)
    BY <1>1, <2>2, NoScopeInPrefix
  <2>. QED
    BY <1>2, <1>3, <2>1, <2>3 DEF FindsTheScope
<1>5. CASE lastClosed # 1
  <2>1. history = <<>> /\ IsScope(toks, open, lastClosed)
    BY <1>5 DEF LeaveLoop, ScanInv
  <2>2. \A o \in OpeningScopes : depth[o] = 0
    <3>1. \A o : Occurrences(<<>>, o) = 0
      <4>1. \A o : {k \in 1..Len(<<>>) : <<>>[k] = o} = {}
        OBVIOUS
      <4>. QED
        BY <4>1, FS_EmptySet DEF Occurrences
    <3>. QED
      BY <2>1, <3>1 DEF DepthsMatchHistory
  <2>3. verdict' = "valid" /\ scopeEnd' = lastClosed + 1
    BY <1>5, <2>2 DEF LeaveLoop, Return
  <2>4. scopeEnd' - 1 = lastClosed
    BY <1>1, <2>3
  <2>. QED
    BY <1>2, <1>3, <2>1, <2>3, <2>4 DEF FindsTheScope
<1>. QED
  BY <1>4, <1>5

\* The scan invariant holds, and the answer is right.
LEMMA ScanIsRight == Spec => [](ScanInv /\ FindsTheScope)
<1>1. Init => ScanInv /\ FindsTheScope
  BY DEF Init, ScanInv, FindsTheScope
<1>2. /\ TypeOK /\ DepthsMatchHistory /\ ScanInv /\ FindsTheScope
      /\ [Next]_vars
      => ScanInv' /\ FindsTheScope'
  <2>. SUFFICES ASSUME TypeOK, DepthsMatchHistory, ScanInv, FindsTheScope,
                       [Next]_vars
                PROVE  ScanInv' /\ FindsTheScope'
    OBVIOUS
  <2>1. /\ toks \in Seq(TkTypes) /\ Len(toks) \in Nat /\ it \in Nat
        /\ open \in OpeningScopes /\ history \in Seq(OpeningScopes)
    BY RangesAssumption DEF TypeOK
  <2>2. CASE UNCHANGED vars
    <3>1. UNCHANGED <<toks, open, pc, it, history, lastClosed>>
      BY <2>2 DEF vars
    <3>2. ScanInv'
      BY <3>1 DEF ScanInv, StartsWithOpen, End
    <3>. QED
      BY <2>2, <3>2, AnswerKept DEF vars
  <2>3. CASE EarlyReturn
    BY <2>3, EarlyReturnStep
  <2>4. CASE EnterLoop
    <3>1. /\ StartsWithOpen /\ toks[1] = open
          /\ UNCHANGED <<toks, open, it, history, lastClosed, verdict, scopeEnd>>
          /\ pc = "enter" /\ pc' = "scan"
      BY <2>4 DEF EnterLoop, StartsWithOpen
    <3>2. IsOpeningScope(toks[1])
      BY <2>1, <3>1 DEF IsOpeningScope
    <3>3. Scanned(1, toks, 1, <<>>)
      BY <2>1, <3>2, ScannedStart
    <3>4. it = 2 /\ history = <<>> /\ lastClosed = 1
      BY <3>1 DEF ScanInv
    <3>5. /\ StartsWithOpen' /\ lastClosed' = 1
          /\ Scanned(1, toks', it' - 1, history')
      BY <3>1, <3>3, <3>4 DEF StartsWithOpen
    <3>. QED
      BY <3>1, <3>5, AnswerKept DEF ScanInv
  <2>5. CASE PushOpen
    <3>1. /\ pc = "scan" /\ it < End /\ IsOpeningScope(toks[it])
          /\ history' = Append(history, toks[it]) /\ it' = it + 1
          /\ UNCHANGED <<toks, open, pc, lastClosed, verdict, scopeEnd>>
      BY <2>5 DEF PushOpen
    <3>2. Scanned(1, toks, it - 1, history) /\ it - 1 \in Nat \ {0} /\ (it - 1) + 1 = it
      BY <2>1, <3>1 DEF ScanInv, TypeOK
    <3>3. Scanned(1, toks, it, history')
      BY <2>1, <3>1, <3>2, ScannedPush
    <3>. QED
      BY <3>1, <3>3, ScanMoves, AnswerKept
  <2>6. CASE PopClose
    <3>1. /\ pc = "scan" /\ it < End /\ IsClosingScope(toks[it])
          /\ history # <<>>
          /\ IsClosingScopeOf(history[Len(history)], toks[it])
          /\ history' = SubSeq(history, 1, Len(history) - 1) /\ it' = it + 1
          /\ UNCHANGED <<toks, open, pc, lastClosed, verdict, scopeEnd>>
      BY <2>6 DEF PopClose, Top
    <3>2. Scanned(1, toks, it - 1, history) /\ it - 1 \in Nat \ {0} /\ (it - 1) + 1 = it
      BY <2>1, <3>1 DEF ScanInv, TypeOK
    <3>3. Scanned(1, toks, it, history')
      BY <2>1, <3>1, <3>2, ScannedPop
    <3>. QED
      BY <3>1, <3>3, ScanMoves, AnswerKept
  <2>7. CASE WrongClose
    <3>1. /\ pc = "scan" /\ it < End /\ IsClosingScope(toks[it])
          /\ (history = <<>> => toks[it] # ClosingOf[open])
          /\ (history # <<>> =>
                ~IsClosingScopeOf(history[Len(history)], toks[it]))
          /\ UNCHANGED <<toks, open>> /\ pc' = "done" /\ verdict' = "invalid"
      BY <2>7 DEF WrongClose, Return, Top
    <3>2. /\ Scanned(1, toks, it - 1, history) /\ toks[1] = open
          /\ it - 1 \in Nat \ {0} /\ (it - 1) + 1 = it
      BY <2>1, <3>1 DEF ScanInv, StartsWithOpen, TypeOK
    <3>3. \A c \in 1..Len(toks) : c \in 1..(it - 1) \/ c >= (it - 1) + 1
      BY <2>1
    <3>4. \A c \in 1..(it - 1) : ~IsScope(toks, open, c)
      BY <2>1, <3>2, NoScopeInPrefix
    <3>5. \A c \in Int : c >= (it - 1) + 1 => ~IsScope(toks, open, c)
      BY <2>1, <3>1, <3>2, NoScopeAfterWrongClose
    <3>6. \A c \in 1..Len(toks) : ~IsScope(toks, open, c)
      BY <3>3, <3>4, <3>5
    <3>. QED
      BY <3>1, <3>6 DEF ScanInv, FindsTheScope
  <2>8. CASE FoundClose
    <3>1. /\ pc = "scan" /\ it < End /\ history = <<>>
          /\ toks[it] = ClosingOf[open]
          /\ UNCHANGED <<toks, open, it, history, verdict, scopeEnd>>
          /\ pc' = "leave" /\ lastClosed' = it
      BY <2>8 DEF FoundClose
    <3>2. /\ Scanned(1, toks, it - 1, <<>>) /\ StartsWithOpen
          /\ (it - 1) + 1 = it /\ it # 1
          /\ it - 1 \in 1..(Len(toks) - 1) /\ toks[1] = open
      BY <2>1, <3>1 DEF ScanInv, StartsWithOpen, TypeOK, End
    <3>3. IsScope(toks, open, it)
      BY <2>1, <3>1, <3>2, FoundIsScope
    <3>4. /\ StartsWithOpen' /\ history' = <<>> /\ lastClosed' # 1
          /\ Scanned(1, toks', it' - 1, history')
          /\ IsScope(toks', open', lastClosed')
      BY <3>1, <3>2, <3>3 DEF StartsWithOpen
    <3>. QED
      BY <3>1, <3>4, AnswerKept DEF ScanInv
  <2>9. CASE SkipToken
    <3>1. /\ pc = "scan" /\ it < End
          /\ ~IsOpeningScope(toks[it]) /\ ~IsClosingScope(toks[it])
          /\ history' = history /\ it' = it + 1
          /\ UNCHANGED <<toks, open, pc, lastClosed, verdict, scopeEnd>>
      BY <2>9 DEF SkipToken
    <3>2. Scanned(1, toks, it - 1, history) /\ it - 1 \in Nat \ {0} /\ (it - 1) + 1 = it
      BY <2>1, <3>1 DEF ScanInv, TypeOK
    <3>3. Scanned(1, toks, it, history')
      BY <2>1, <3>1, <3>2, ScannedSkip
    <3>. QED
      BY <3>1, <3>3, ScanMoves, AnswerKept
  <2>10. CASE RunOut
    <3>1. /\ pc = "scan" /\ it = End /\ pc' = "leave"
          /\ UNCHANGED <<toks, open, it, history, lastClosed, verdict, scopeEnd>>
      BY <2>10 DEF RunOut
    <3>2. /\ StartsWithOpen' /\ lastClosed' = 1 /\ it' = End'
          /\ Scanned(1, toks', it' - 1, history')
      BY <3>1 DEF ScanInv, StartsWithOpen, End
    <3>. QED
      BY <3>1, <3>2, AnswerKept DEF ScanInv
  <2>11. CASE LeaveLoop
    BY <2>11, LeaveLoopStep
  <2>. QED
    BY <2>2, <2>3, <2>4, <2>5, <2>6, <2>7, <2>8, <2>9, <2>10, <2>11
       DEF Next, find_paren, find_brace, find_bracket, FindScope
<1>. QED
  BY <1>1, <1>2, TkScopeTypeOK, TkScopeDepths, PTL DEF Spec

\* find_paren, find_brace and find_bracket return a valid scope exactly when
\* the range starts with one, and the scope they return is the one that
\* counting defines: for every range of tokens, whatever its length.
THEOREM TkScopeCorrect == Spec => []FindsTheScope
BY ScanIsRight, PTL

-----------------------------------------------------------------------------
(* The scan implements the one-step finder.                                *)

\* No answer before the end, and none after it.
AnswersOnce == pc # "done" => verdict = "none"

\* No answer is given before the loop ends.
LEMMA TkScopeAnswersOnce == Spec => []AnswersOnce
<1>1. Init => AnswersOnce
  BY DEF Init, AnswersOnce
<1>2. AnswersOnce /\ [Next]_vars => AnswersOnce'
  BY DEF AnswersOnce, Next, find_paren, find_brace, find_bracket, FindScope,
         EarlyReturn, EnterLoop, PushOpen, PopClose, WrongClose, FoundClose,
         SkipToken, RunOut, LeaveLoop, Return, vars
<1>. QED
  BY <1>1, <1>2, PTL DEF Spec

\* A step that returns, seen from outside.
LEMMA ReturnIsAnswer ==
    ASSUME TypeOK, TypeOK', FindsTheScope', verdict = "none",
           UNCHANGED <<toks, open>>,
           \/ verdict' = "valid"
           \/ verdict' = "invalid" /\ scopeEnd' \in {2, Len(toks) + 1}
    PROVE  Finder!Next
<1>1. toks' = toks /\ open' = open /\ Len(toks) \in Nat /\ scopeEnd' \in Int
  BY RangesAssumption DEF TypeOK
<1>2. CASE verdict' = "valid"
  <2>1. IsScope(toks, open, scopeEnd' - 1)
    BY <1>1, <1>2 DEF FindsTheScope
  <2>2. scopeEnd' - 1 \in 1..Len(toks) /\ scopeEnd' = (scopeEnd' - 1) + 1
    <3>1. scopeEnd' - 1 \in 1..Len(toks)
      BY <2>1 DEF IsScope
    <3>2. \A e \in Int : e = (e - 1) + 1
      OBVIOUS
    <3>. QED
      BY <1>1, <3>1, <3>2
  <2>. QED
    BY <1>1, <1>2, <2>1, <2>2 DEF Finder!Next, Finder!Found
<1>3. CASE verdict' = "invalid"
  <2>1. \A c \in 1..Len(toks) : ~IsScope(toks, open, c)
    BY <1>1, <1>3 DEF FindsTheScope
  <2>. QED
    BY <1>1, <1>3, <2>1 DEF Finder!Next, Finder!NotFound
<1>. QED
  BY <1>2, <1>3

\* TkScope implements ScopeFinder: whatever the range, the loop, its stack and
\* its counters amount to the one answer the abstract finder gives, with an
\* end the caller may go on from.
THEOREM TkScopeImplementsFinder == Spec => ImplementsFinder
<1>1. Init => Finder!Init
  BY DEF Init, Finder!Init
<1>2. /\ TypeOK /\ TypeOK' /\ FindsTheScope' /\ AnswersOnce
      /\ ScanInv /\ [Next]_vars
      => [Finder!Next]_(Finder!vars)
  <2>. SUFFICES ASSUME TypeOK, TypeOK', FindsTheScope', AnswersOnce, ScanInv,
                       [Next]_vars
                PROVE  Finder!Next \/ UNCHANGED <<toks, open, verdict, scopeEnd>>
    BY DEF Finder!vars
  <2>0. Len(toks) \in Nat
    BY RangesAssumption DEF TypeOK
  <2>1. CASE EarlyReturn
    BY <2>0, <2>1, ReturnIsAnswer DEF EarlyReturn, Return, AnswersOnce, End
  <2>2. CASE WrongClose
    BY <2>0, <2>2, ReturnIsAnswer DEF WrongClose, Return, AnswersOnce, End
  <2>3. CASE LeaveLoop
    <3>1. /\ verdict = "none" /\ UNCHANGED <<toks, open>>
          /\ \/ verdict' = "valid"
             \/ verdict' = "invalid" /\ scopeEnd' = End
             \/ verdict' = "invalid" /\ scopeEnd' = lastClosed + 1
      BY <2>3 DEF LeaveLoop, Return, AnswersOnce
    <3>2. CASE lastClosed = 1
      BY <2>0, <3>1, <3>2, ReturnIsAnswer DEF End
    <3>3. CASE lastClosed # 1
      <4>1. IsScope(toks, open, lastClosed) /\ history = <<>>
        BY <2>3, <3>3 DEF LeaveLoop, ScanInv
      <4>2. lastClosed \in 1..Len(toks)
        BY <4>1 DEF IsScope
      <4>3. verdict' # "invalid"
        BY <3>1, <4>1, <4>2 DEF FindsTheScope
      <4>. QED
        BY <3>1, <4>3, ReturnIsAnswer
    <3>. QED
      BY <3>2, <3>3
  <2>4. CASE EnterLoop \/ PushOpen \/ PopClose \/ FoundClose \/ SkipToken
             \/ RunOut \/ UNCHANGED vars
    BY <2>4 DEF EnterLoop, PushOpen, PopClose, FoundClose, SkipToken, RunOut, vars
  <2>. QED
    BY <2>1, <2>2, <2>3, <2>4
       DEF Next, find_paren, find_brace, find_bracket, FindScope
<1>. QED
  BY <1>1, <1>2, TkScopeTypeOK, ScanIsRight, TkScopeAnswersOnce, PTL
     DEF Spec, ImplementsFinder, Finder!Spec
-----------------------------------------------------------------------------
(* The finders as the parser sees them.                                    *)

\* The answer of a scope finder, called on a part of a program, is the one
\* outcome that BlockParser has of it.
AnswersTheParser ==
    prog \in Seq(STRING) =>
        \A b \in 1..Len(prog), end \in 2..(Len(prog) + 1) :
            b < end /\ toks = SubSeq(prog, b, end - 1) =>
                /\ verdict = "valid" => FindAnyScope(open, b, end) = {Ok(b + scopeEnd - 1)}
                /\ verdict = "invalid" => FindAnyScope(open, b, end) = {Refused}

\* What find_paren, find_brace and find_bracket answer, at the end of their
\* loops, is what parse_pragmatic_block and the other functions of parser.hpp
\* are modelled to be given by them.
THEOREM FinderAnswersTheParser == Spec => []AnswersTheParser
<1>1. FindsTheScope /\ TypeOK => AnswersTheParser
  <2>. SUFFICES ASSUME FindsTheScope, TypeOK, prog \in Seq(STRING),
                       NEW b \in 1..Len(prog), NEW end \in 2..(Len(prog) + 1),
                       b < end, toks = SubSeq(prog, b, end - 1)
                PROVE  /\ verdict = "valid" => FindAnyScope(open, b, end) = {Ok(b + scopeEnd - 1)}
                       /\ verdict = "invalid" => FindAnyScope(open, b, end) = {Refused}
    BY DEF AnswersTheParser
  <2>1. /\ toks \in Seq(TkTypes) /\ Len(toks) \in Nat /\ scopeEnd \in Int
        /\ b \in Int /\ ~(b >= end)
    <3>1. toks \in Seq(TkTypes)
      BY RangesAssumption DEF TypeOK
    <3>2. Len(toks) \in Nat
      BY <3>1, LenProperties
    <3>3. scopeEnd \in Int
      BY <3>2 DEF TypeOK, End
    <3>. QED
      BY <3>1, <3>2, <3>3
  <2>. DEFINE E == Ends(open, b, end)
  <2>2. E = {b + c : c \in {k \in 1..Len(toks) : IsScope(toks, open, k)}}
    BY DEF Ends
  <2>3. FindAnyScope(open, b, end) = IF E = {} THEN {Refused} ELSE {Ok(e) : e \in E}
    BY <2>1 DEF FindAnyScope
  <2>. HIDE DEF E
  <2>4. ASSUME verdict = "invalid" PROVE E = {}
    BY <2>2, <2>4 DEF FindsTheScope
  <2>5. ASSUME verdict = "valid" PROVE E = {b + scopeEnd - 1}
    <3>. DEFINE c == scopeEnd - 1
    <3>1. IsScope(toks, open, c) /\ c \in 1..Len(toks)
      BY <2>5 DEF FindsTheScope, IsScope
    <3>2. ASSUME NEW k \in 1..Len(toks), IsScope(toks, open, k) PROVE k = c
      <4>1. k \in Nat /\ c \in Nat
        BY <2>1, <3>1
      <4>2. ~(k < c) /\ ~(c < k)
        BY <2>1, <3>1, <3>2, <4>1, ScopeIsUnique
      <4>. QED
        BY <4>1, <4>2
    <3>3. {k \in 1..Len(toks) : IsScope(toks, open, k)} = {c}
      BY <3>1, <3>2
    <3>4. E = {b + c}
      BY <2>2, <3>3
    <3>5. b + c = b + scopeEnd - 1
      BY <2>1
    <3>. QED
      BY <3>4, <3>5
  <2>6. verdict = "valid" => FindAnyScope(open, b, end) = {Ok(b + scopeEnd - 1)}
    BY <2>3, <2>5
  <2>. QED
    BY <2>3, <2>4, <2>6
<1>. QED
  BY <1>1, TkScopeCorrect, TkScopeTypeOK, PTL

-----------------------------------------------------------------------------
(***************************************************************************)
(* The text, a sequence of tokens s.                                       *)

\* The tokens b..(e - 1).
Part(s, b, e) == SubSeq(s, b, e - 1)

\* Every close token of b..(e - 1) closes an open one there, of its own type.
Nested(s, b, e) ==
    \A j \in b..(e - 1) : IsClosingScope(s[j]) =>
        \E k \in b..(j - 1) : ClosesAt(s, k, j) /\ IsClosingScopeOf(s[k], s[j])

\* Before c the same scopes are open as before b, if none of them is closed.
Level(s, b, c) == Height(s, c - 1) = Height(s, b - 1)

\* No token `last` of b..(c - 1) is outside the scopes opened there.
NoEnd(s, b, c, last) ==
    \A i \in b..(c - 1) : s[i] = last => Height(s, i) # Height(s, b - 1)

\* What is read of a statement, at a place where it may end.
Prefix(s, b, c, last) == b <= c /\ Level(s, b, c) /\ NoEnd(s, b, c, last)

\* A scope, its close token the one before p.
ScopeAt(s, opening, b, p) == s[b] = opening /\ ClosesAt(s, b, p - 1) /\ Nested(s, b, p)

\* Who searches the list at b up to e finds that it ends at e, if it ends.
Agrees(s, b, e) == \A q \in b..e : ScopeAt(s, "open_brace_", b, q) => q = e

\* IsStatement, on the text.
LastOf(s, b) == IF s[b] = "open_bracket_" THEN "close_brace_" ELSE "eos_"
Whole(s, b, p) ==
    /\ b < p /\ Nested(s, b, p) /\ Level(s, b, p)
    /\ s[p - 1] = LastOf(s, b) /\ NoEnd(s, b, p - 1, LastOf(s, b))

-----------------------------------------------------------------------------
(* A part of the text and the text itself.                                 *)

\* The tokens and heights of a part.
LEMMA PartOfText ==
    ASSUME NEW s \in Seq(STRING), NEW b \in 1..(Len(s) + 1), NEW e \in b..(Len(s) + 1)
    PROVE  /\ Part(s, b, e) \in Seq(STRING) /\ Len(Part(s, b, e)) = e - b
           /\ \A i \in 1..(e - b) : Part(s, b, e)[i] = s[b + i - 1]
           /\ \A i \in 0..(e - b) : Height(Part(s, b, e), i) = Height(s, b + i - 1) - Height(s, b - 1)
<1>. DEFINE r == Part(s, b, e)
<1>0. Len(s) \in Nat /\ b - 1 \in Nat
  BY LenProperties
<1>1. /\ r \in Seq(STRING) /\ Len(r) = e - b
      /\ \A i \in 1..(e - b) : r[i] = s[b + i - 1]
  <2>1. \A i \in b..(e - 1) : s[i] \in STRING
    <3>. TAKE i \in b..(e - 1)
    <3>1. i \in 1..Len(s)
      BY <1>0
    <3>. QED
      BY <3>1, ElementOfSeq
  <2>2. b \in Int /\ e - 1 \in Int
    BY <1>0
  <2>3. /\ r \in Seq(STRING)
        /\ Len(r) = IF b <= e - 1 THEN e - 1 - b + 1 ELSE 0
        /\ \A i \in 1..(e - 1 - b + 1) : r[i] = s[b + i - 1]
    BY <2>1, <2>2, SubSeqProperties DEF Part
  <2>. HIDE DEF r
  <2>4. e - 1 - b + 1 = e - b /\ e - b >= 0 /\ (~(b <= e - 1) => e - b = 0)
    BY <1>0
  <2>. QED
    BY <2>3, <2>4
<1>. HIDE DEF r
<1>. DEFINE N == e - b
            S == {i \in 0..N : Height(r, i) = Height(s, b + i - 1) - Height(s, b - 1)}
<1>2. N \in Nat
  BY <1>0
<1>3. Height(s, b - 1) \in Int
  BY <1>0, HeightType
<1>4. 0 \in S
  <2>1. b + 0 - 1 = b - 1 /\ 0 \in 0..N
    BY <1>0, <1>2
  <2>2. Height(r, 0) = Height(s, b + 0 - 1) - Height(s, b - 1)
    BY <1>3, <2>1, HeightZero
  <2>. QED
    BY <2>1, <2>2
<1>5. ASSUME NEW i \in 1..N, i - 1 \in S PROVE i \in S
  <2>. PICK g \in Nat \ {0} : g = b + i - 1
    <3>1. b + i - 1 \in Nat \ {0}
      BY <1>0
    <3>. QED
      BY <3>1
  <2>1. i \in Nat \ {0} /\ g - 1 = b + (i - 1) - 1 /\ i - 1 \in Nat /\ g - 1 \in Nat /\ i \in 0..N
    BY <1>0
  <2>2. r[i] = s[g]
    BY <1>1
  <2>3. /\ IsOpeningScope(r[i]) => Height(r, i) = Height(r, i - 1) + 1
        /\ IsClosingScope(r[i]) => Height(r, i) = Height(r, i - 1) - 1
        /\ ~IsOpeningScope(r[i]) /\ ~IsClosingScope(r[i]) => Height(r, i) = Height(r, i - 1)
    BY <1>1, <2>1, HeightStep
  <2>4. /\ IsOpeningScope(r[i]) => Height(s, g) = Height(s, g - 1) + 1
        /\ IsClosingScope(r[i]) => Height(s, g) = Height(s, g - 1) - 1
        /\ ~IsOpeningScope(r[i]) /\ ~IsClosingScope(r[i])
              => Height(s, g) = Height(s, g - 1)
    BY <2>1, <2>2, HeightStep
  <2>5. Height(r, i - 1) \in Int /\ Height(s, g - 1) \in Int
    BY <1>1, <2>1, HeightType
  <2>6. Height(r, i - 1) = Height(s, g - 1) - Height(s, b - 1)
    BY <1>5, <2>1
  <2>7. Height(r, i) = Height(s, g) - Height(s, b - 1)
    BY <1>3, <2>3, <2>4, <2>5, <2>6
  <2>. QED
    BY <2>1, <2>7
<1>6. 0..N \subseteq S
  <2>. HIDE DEF S, N
  <2>. QED
    BY <1>2, <1>4, <1>5, InductionUpTo
<1>. QED
  BY <1>1, <1>6 DEF r

\* What closes in a part is what closes in the text.
LEMMA PartCloses ==
    ASSUME NEW s \in Seq(STRING), NEW b \in 1..(Len(s) + 1), NEW e \in b..(Len(s) + 1),
           NEW i \in 1..(e - b), NEW j \in 1..(e - b)
    PROVE  ClosesAt(Part(s, b, e), i, j) <=> ClosesAt(s, b + i - 1, b + j - 1)
<1>. PICK x \in Nat : x = b + i - 1
  OBVIOUS
<1>. PICK y \in Nat : y = b + j - 1
  OBVIOUS
<1>0. Len(s) \in Nat /\ b - 1 \in Nat
  BY LenProperties
<1>1. /\ \A k \in 1..(e - b) : Part(s, b, e)[k] = s[b + k - 1]
      /\ \A k \in 0..(e - b) : Height(Part(s, b, e), k) = Height(s, b + k - 1) - Height(s, b - 1)
  BY PartOfText
<1>2. i \in 0..(e - b) /\ j \in 0..(e - b)
  BY <1>0
<1>3. /\ Part(s, b, e)[i] = s[x] /\ Part(s, b, e)[j] = s[y] /\ (i < j <=> x < y)
      /\ Height(Part(s, b, e), i) = Height(s, x) - Height(s, b - 1)
      /\ Height(Part(s, b, e), j) = Height(s, y) - Height(s, b - 1)
  BY <1>0, <1>1, <1>2
<1>4. Height(s, b - 1) \in Int /\ Height(s, x) \in Int /\ Height(s, y) \in Int
  BY <1>0, HeightType
<1>5. (Height(Part(s, b, e), j) = Height(Part(s, b, e), i) - 1) <=> (Height(s, y) = Height(s, x) - 1)
  BY <1>3, <1>4
<1>6. ASSUME \A m \in i..(j - 1) : Height(Part(s, b, e), m) >= Height(Part(s, b, e), i), NEW m \in x..(y - 1)
      PROVE  Height(s, m) >= Height(s, x)
  <2>1. m - b + 1 \in i..(j - 1) /\ m - b + 1 \in 0..(e - b) /\ b + (m - b + 1) - 1 = m /\ m \in Nat
    BY <1>0
  <2>2. Height(Part(s, b, e), m - b + 1) >= Height(Part(s, b, e), i) /\ Height(Part(s, b, e), m - b + 1) = Height(s, m) - Height(s, b - 1)
    BY <1>1, <1>6, <2>1
  <2>3. Height(s, m) \in Int
    BY <2>1, HeightType
  <2>. QED
    BY <1>3, <1>4, <2>2, <2>3
<1>7. ASSUME \A m \in x..(y - 1) : Height(s, m) >= Height(s, x), NEW m \in i..(j - 1)
      PROVE  Height(Part(s, b, e), m) >= Height(Part(s, b, e), i)
  <2>. PICK n \in Nat : n = b + m - 1
    BY <1>0
  <2>1. n \in x..(y - 1) /\ m \in 0..(e - b)
    BY <1>0
  <2>2. Height(s, n) >= Height(s, x) /\ Height(Part(s, b, e), m) = Height(s, n) - Height(s, b - 1)
    BY <1>1, <1>7, <2>1
  <2>3. Height(s, n) \in Int
    BY HeightType
  <2>. QED
    BY <1>3, <1>4, <2>2, <2>3
<1>8. ClosesAt(Part(s, b, e), i, j) <=> ClosesAt(s, x, y)
  <2>1. ASSUME ClosesAt(Part(s, b, e), i, j) PROVE ClosesAt(s, x, y)
    <3>1. i < j /\ IsOpeningScope(Part(s, b, e)[i]) /\ IsClosingScope(Part(s, b, e)[j]) /\ Height(Part(s, b, e), j) = Height(Part(s, b, e), i) - 1
          /\ \A m \in i..(j - 1) : Height(Part(s, b, e), m) >= Height(Part(s, b, e), i)
      BY <2>1 DEF ClosesAt
    <3>2. \A m \in x..(y - 1) : Height(s, m) >= Height(s, x)
      BY <3>1, <1>6
    <3>. QED
      BY <1>3, <1>5, <3>1, <3>2 DEF ClosesAt
  <2>2. ASSUME ClosesAt(s, x, y) PROVE ClosesAt(Part(s, b, e), i, j)
    <3>1. x < y /\ IsOpeningScope(s[x]) /\ IsClosingScope(s[y]) /\ Height(s, y) = Height(s, x) - 1
          /\ \A m \in x..(y - 1) : Height(s, m) >= Height(s, x)
      BY <2>2 DEF ClosesAt
    <3>2. \A m \in i..(j - 1) : Height(Part(s, b, e), m) >= Height(Part(s, b, e), i)
      BY <3>1, <1>7
    <3>. QED
      BY <1>3, <1>5, <3>1, <3>2 DEF ClosesAt
  <2>. QED
    BY <2>1, <2>2
<1>. QED
  BY <1>8

\* A close token and its open token, in a part and in the text.
LEMMA PartMatches ==
    ASSUME NEW s \in Seq(STRING), NEW b \in 1..(Len(s) + 1), NEW e \in b..(Len(s) + 1),
           NEW j \in 1..(e - b), NEW y, y = b + j - 1
    PROVE  (\E k \in 1..(j - 1) : ClosesAt(Part(s, b, e), k, j) /\ IsClosingScopeOf(Part(s, b, e)[k], Part(s, b, e)[j]))
              <=> (\E k \in b..(y - 1) : ClosesAt(s, k, y) /\ IsClosingScopeOf(s[k], s[y]))
<1>0. Len(s) \in Nat /\ b - 1 \in Nat /\ y \in Nat
  BY LenProperties
<1>1. \A k \in 1..(e - b) : Part(s, b, e)[k] = s[b + k - 1]
  BY PartOfText
<1>2. \A k \in 1..(e - b) : ClosesAt(Part(s, b, e), k, j) <=> ClosesAt(s, b + k - 1, y)
  BY PartCloses
<1>3. Part(s, b, e)[j] = s[y]
  BY <1>1
<1>4. ASSUME NEW k \in 1..(j - 1), ClosesAt(Part(s, b, e), k, j) /\ IsClosingScopeOf(Part(s, b, e)[k], Part(s, b, e)[j])
      PROVE  \E x \in b..(y - 1) : ClosesAt(s, x, y) /\ IsClosingScopeOf(s[x], s[y])
  <2>1. b + k - 1 \in b..(y - 1) /\ k \in 1..(e - b)
    BY <1>0
  <2>2. ClosesAt(s, b + k - 1, y) /\ IsClosingScopeOf(s[b + k - 1], s[y])
    BY <1>1, <1>2, <1>3, <1>4, <2>1
  <2>. QED
    BY <2>1, <2>2
<1>5. ASSUME NEW x \in b..(y - 1), ClosesAt(s, x, y) /\ IsClosingScopeOf(s[x], s[y])
      PROVE  \E k \in 1..(j - 1) : ClosesAt(Part(s, b, e), k, j) /\ IsClosingScopeOf(Part(s, b, e)[k], Part(s, b, e)[j])
  <2>1. PICK k \in 1..(j - 1) : x = b + k - 1
    <3>1. x - b + 1 \in 1..(j - 1) /\ x = b + (x - b + 1) - 1
      BY <1>0
    <3>. QED
      BY <3>1
  <2>2. k \in 1..(e - b)
    BY <1>0
  <2>3. ClosesAt(Part(s, b, e), k, j) /\ IsClosingScopeOf(Part(s, b, e)[k], Part(s, b, e)[j])
    BY <1>1, <1>2, <1>3, <1>5, <2>1, <2>2
  <2>. QED
    BY <2>3
<1>. QED
  BY <1>4, <1>5

\* WellNested of a part is Nested of the text.
LEMMA PartNested ==
    ASSUME NEW s \in Seq(STRING), NEW b \in 1..(Len(s) + 1), NEW e \in b..(Len(s) + 1),
           NEW n \in 0..(e - b)
    PROVE  WellNested(Part(s, b, e), n) <=> Nested(s, b, b + n)
<1>. DEFINE In(j) == \E k \in 1..(j - 1) : ClosesAt(Part(s, b, e), k, j) /\ IsClosingScopeOf(Part(s, b, e)[k], Part(s, b, e)[j])
            At(y) == \E k \in b..(y - 1) : ClosesAt(s, k, y) /\ IsClosingScopeOf(s[k], s[y])
<1>0. Len(s) \in Nat /\ b - 1 \in Nat
  BY LenProperties
<1>1. \A j \in 1..(e - b) : Part(s, b, e)[j] = s[b + j - 1] /\ (In(j) <=> At(b + j - 1))
  BY PartOfText, PartMatches
<1>2. WellNested(Part(s, b, e), n) <=> \A j \in 1..n : IsClosingScope(Part(s, b, e)[j]) => In(j)
  BY DEF WellNested
<1>3. Nested(s, b, b + n) <=> \A y \in b..(b + n - 1) : IsClosingScope(s[y]) => At(y)
  BY DEF Nested
<1>. HIDE DEF In, At
<1>4. ASSUME \A j \in 1..n : IsClosingScope(Part(s, b, e)[j]) => In(j), NEW y \in b..(b + n - 1)
      PROVE  IsClosingScope(s[y]) => At(y)
  <2>1. y - b + 1 \in 1..n /\ y - b + 1 \in 1..(e - b) /\ b + (y - b + 1) - 1 = y
    BY <1>0
  <2>2. Part(s, b, e)[y - b + 1] = s[y] /\ (In(y - b + 1) <=> At(y))
    BY <1>1, <2>1
  <2>. QED
    BY <1>4, <2>1, <2>2
<1>5. ASSUME \A y \in b..(b + n - 1) : IsClosingScope(s[y]) => At(y), NEW j \in 1..n
      PROVE  IsClosingScope(Part(s, b, e)[j]) => In(j)
  <2>1. j \in 1..(e - b) /\ b + j - 1 \in b..(b + n - 1)
    BY <1>0
  <2>. QED
    BY <1>1, <1>5, <2>1
<1>6. WellNested(Part(s, b, e), n) <=> Nested(s, b, b + n)
  BY <1>2, <1>3, <1>4, <1>5
<1>. QED
  BY <1>6

\* A scope of a part is one of the text.
LEMMA PartScope ==
    ASSUME NEW s \in Seq(STRING), NEW b \in 1..(Len(s) + 1), NEW e \in b..(Len(s) + 1),
           NEW opening, NEW c \in Int
    PROVE  IsScope(Part(s, b, e), opening, c)
              <=> c \in 1..(e - b) /\ ScopeAt(s, opening, b, b + c)
<1>0. Len(s) \in Nat /\ b - 1 \in Nat /\ Len(Part(s, b, e)) = e - b
  BY LenProperties, PartOfText
<1>1. ASSUME c \in 1..(e - b)
      PROVE  IsScope(Part(s, b, e), opening, c) <=> ScopeAt(s, opening, b, b + c)
  <2>1. /\ 1 \in 1..(e - b) /\ b + 1 - 1 = b /\ c \in 0..(e - b)
        /\ b + c - 1 = (b + c) - 1
    BY <1>0, <1>1
  <2>2. Part(s, b, e)[1] = s[b]
    <3>1. Part(s, b, e)[1] = s[b + 1 - 1]
      BY <2>1, PartOfText
    <3>. QED
      BY <2>1, <3>1
  <2>3. ClosesAt(Part(s, b, e), 1, c) <=> ClosesAt(s, b, (b + c) - 1)
    <3>1. ClosesAt(Part(s, b, e), 1, c) <=> ClosesAt(s, b + 1 - 1, b + c - 1)
      BY <1>1, <2>1, PartCloses
    <3>. QED
      BY <2>1, <3>1
  <2>4. WellNested(Part(s, b, e), c) <=> Nested(s, b, b + c)
    BY <2>1, PartNested
  <2>. QED
    BY <1>0, <1>1, <2>2, <2>3, <2>4 DEF IsScope, ScopeAt
<1>2. c \notin 1..(e - b) => ~IsScope(Part(s, b, e), opening, c)
  BY <1>0 DEF IsScope
<1>. QED
  BY <1>1, <1>2

-----------------------------------------------------------------------------
(* Nested text.                                                            *)

\* The open token that a close token closes is one only.
LEMMA OneOpener ==
    ASSUME NEW s \in Seq(STRING), NEW j \in Nat \ {0}, NEW k \in Nat \ {0}, NEW c \in Nat,
           ClosesAt(s, j, c), ClosesAt(s, k, c)
    PROVE  j = k
<1>1. ASSUME NEW x \in Nat \ {0}, NEW y \in Nat \ {0}, x < y, ClosesAt(s, x, c), ClosesAt(s, y, c)
      PROVE  FALSE
  <2>1. y - 1 \in x..(c - 1) /\ y - 1 \in Nat /\ y < c
    BY <1>1 DEF ClosesAt
  <2>2. Height(s, y - 1) >= Height(s, x)
    BY <1>1, <2>1 DEF ClosesAt
  <2>3. Height(s, y) = Height(s, y - 1) + 1
    BY <1>1, HeightStep DEF ClosesAt
  <2>4. Height(s, c) = Height(s, x) - 1 /\ Height(s, c) = Height(s, y) - 1
    BY <1>1 DEF ClosesAt
  <2>5. Height(s, x) \in Int /\ Height(s, y) \in Int /\ Height(s, y - 1) \in Int
    BY <2>1, HeightType
  <2>. QED
    BY <2>2, <2>3, <2>4, <2>5
<1>. QED
  BY <1>1

\* And the close token that closes an open one.
LEMMA OneCloser ==
    ASSUME NEW s \in Seq(STRING), NEW b \in Nat \ {0}, NEW c \in Nat, NEW d \in Nat,
           ClosesAt(s, b, c), ClosesAt(s, b, d)
    PROVE  c = d
<1>1. ASSUME NEW x \in Nat, NEW y \in Nat, x < y, ClosesAt(s, b, x), ClosesAt(s, b, y)
      PROVE  FALSE
  <2>1. x \in b..(y - 1)
    BY <1>1 DEF ClosesAt
  <2>2. Height(s, x) >= Height(s, b) /\ Height(s, x) = Height(s, b) - 1
    BY <1>1, <2>1 DEF ClosesAt
  <2>3. Height(s, b) \in Int
    BY HeightType
  <2>. QED
    BY <2>2, <2>3
<1>. QED
  BY <1>1

\* Nesting looks back only.
LEMMA NestedPrefix ==
    ASSUME NEW s, NEW b \in Nat, NEW e \in Nat, NEW c \in Nat, c <= e, Nested(s, b, e)
    PROVE  Nested(s, b, c)
<1>1. \A j \in b..(c - 1) : j \in b..(e - 1)
  OBVIOUS
<1>. QED
  BY <1>1 DEF Nested

\* Nothing opened at b or later is open any more at a place of b's level.
LEMMA NestedSuffix ==
    ASSUME NEW s \in Seq(STRING), NEW b \in Nat \ {0}, NEW e \in Nat, NEW c \in b..e,
           Nested(s, b, e), Level(s, b, c),
           \A m \in b..(c - 1) : Height(s, m) >= Height(s, b - 1)
    PROVE  Nested(s, c, e)
<1>. SUFFICES ASSUME NEW j \in c..(e - 1), IsClosingScope(s[j])
              PROVE  \E k \in c..(j - 1) : ClosesAt(s, k, j) /\ IsClosingScopeOf(s[k], s[j])
  BY DEF Nested
<1>1. j \in b..(e - 1)
  OBVIOUS
<1>2. PICK k \in b..(j - 1) : ClosesAt(s, k, j) /\ IsClosingScopeOf(s[k], s[j])
  BY <1>1 DEF Nested
<1>3. k \in Nat \ {0} /\ k - 1 \in Nat /\ b - 1 \in Nat /\ c - 1 \in Nat /\ c \in Nat
  OBVIOUS
<1>4. ~(k < c)
  <2>. SUFFICES ASSUME k < c PROVE FALSE
    OBVIOUS
  <2>1. c - 1 \in k..(j - 1)
    BY <1>3
  <2>2. Height(s, c - 1) >= Height(s, k)
    BY <1>2, <2>1 DEF ClosesAt
  <2>3. Height(s, k) = Height(s, k - 1) + 1
    BY <1>2, <1>3, HeightStep DEF ClosesAt
  <2>4. Height(s, k - 1) >= Height(s, b - 1)
    <3>1. CASE k = b
      <4>1. Height(s, b - 1) \in Int
        BY <1>3, HeightType
      <4>. QED
        BY <3>1, <4>1
    <3>2. CASE k # b
      <4>1. k - 1 \in b..(c - 1)
        BY <3>2
      <4>. QED
        BY <4>1
    <3>. QED
      BY <3>1, <3>2
  <2>5. Height(s, k) \in Int /\ Height(s, k - 1) \in Int /\ Height(s, b - 1) \in Int
        /\ Height(s, c - 1) \in Int
    BY <1>3, HeightType
  <2>. QED
    BY <2>2, <2>3, <2>4, <2>5 DEF Level
<1>5. k \in c..(j - 1)
  BY <1>3, <1>4
<1>. QED
  BY <1>2, <1>5

\* Nested text never falls below the height it starts with.
LEMMA NestedHeights ==
    ASSUME NEW s \in Seq(STRING), NEW b \in Nat \ {0}, NEW e \in Nat, Nested(s, b, e)
    PROVE  \A m \in (b - 1)..(e - 1) : Height(s, m) >= Height(s, b - 1)
<1>. DEFINE low == {m \in (b - 1)..(e - 1) : ~(Height(s, m) >= Height(s, b - 1))}
<1>. SUFFICES ASSUME low # {} PROVE FALSE
  OBVIOUS
<1>0. b - 1 \in Nat
  OBVIOUS
<1>1. low \subseteq Nat
  BY <1>0
<1>2. PICK m \in low : \A n \in low : m <= n
  BY <1>1, LeastNumber
<1>3. m \in (b - 1)..(e - 1) /\ ~(Height(s, m) >= Height(s, b - 1)) /\ m \in Nat
  BY <1>1, <1>2
<1>4. Height(s, m) \in Int /\ Height(s, b - 1) \in Int
  BY <1>0, <1>3, HeightType
<1>5. m # b - 1
  BY <1>3, <1>4
<1>6. m \in b..(e - 1) /\ m \in Nat \ {0} /\ m - 1 \in Nat /\ m - 1 \in (b - 1)..(e - 1)
  BY <1>3, <1>5
<1>7. Height(s, m - 1) >= Height(s, b - 1)
  <2>1. m - 1 \notin low
    BY <1>2, <1>6
  <2>. QED
    BY <1>6, <2>1
<1>. HIDE DEF low
<1>8. Height(s, m - 1) \in Int
  BY <1>6, HeightType
<1>9. IsClosingScope(s[m])
  <2>1. /\ IsOpeningScope(s[m]) => Height(s, m) = Height(s, m - 1) + 1
        /\ ~IsOpeningScope(s[m]) /\ ~IsClosingScope(s[m]) => Height(s, m) = Height(s, m - 1)
    BY <1>6, HeightStep
  <2>. QED
    BY <1>3, <1>4, <1>7, <1>8, <2>1
<1>10. PICK k \in b..(m - 1) : ClosesAt(s, k, m)
  BY <1>6, <1>9 DEF Nested
<1>11. k \in Nat \ {0} /\ k - 1 \in Nat /\ k - 1 \in (b - 1)..(e - 1) /\ k - 1 < m
  BY <1>3, <1>6
<1>12. Height(s, k - 1) >= Height(s, b - 1)
  <2>1. k - 1 \notin low
    BY <1>2, <1>3, <1>11
  <2>. QED
    BY <1>11, <2>1 DEF low
<1>13. Height(s, k) = Height(s, k - 1) + 1 /\ Height(s, m) = Height(s, k) - 1
       /\ Height(s, k) \in Int /\ Height(s, k - 1) \in Int
  BY <1>10, <1>11, HeightStep, HeightType DEF ClosesAt
<1>. QED
  BY <1>3, <1>4, <1>12, <1>13

\* Behind a place of the level it starts with, nested text is nested again.
LEMMA NestedBehind ==
    ASSUME NEW s \in Seq(STRING), NEW b \in Nat \ {0}, NEW e \in Nat, NEW c \in b..e,
           Nested(s, b, e), Level(s, b, c)
    PROVE  Nested(s, c, e)
<1>1. \A m \in b..(c - 1) : Height(s, m) >= Height(s, b - 1)
  <2>1. \A m \in b..(c - 1) : m \in (b - 1)..(e - 1)
    OBVIOUS
  <2>. QED
    BY <2>1, NestedHeights
<1>. QED
  BY <1>1, NestedSuffix

\* There, nothing is closed.
LEMMA NothingCloses ==
    ASSUME NEW s, NEW b \in Nat, NEW e \in Nat, b < e, Nested(s, b, e)
    PROVE  ~IsClosingScope(s[b])
BY DEF Nested

-----------------------------------------------------------------------------
(* A scope in the text.                                                    *)

\* Its heights, and its close token.
LEMMA ScopeProperties ==
    ASSUME NEW s \in Seq(STRING), NEW b \in Nat \ {0}, NEW p \in Nat, NEW opening,
           ScopeAt(s, opening, b, p)
    PROVE  /\ opening \in OpeningScopes /\ s[p - 1] = ClosingOf[opening] /\ b + 2 <= p
           /\ p - 1 \in Nat \ {0} /\ Level(s, b, p)
           /\ \A m \in b..(p - 2) : Height(s, m) > Height(s, b - 1)
<1>1. /\ b < p - 1 /\ IsOpeningScope(s[b]) /\ IsClosingScope(s[p - 1]) /\ s[b] = opening
      /\ Height(s, p - 1) = Height(s, b) - 1
      /\ \A m \in b..(p - 1 - 1) : Height(s, m) >= Height(s, b)
  BY DEF ScopeAt, ClosesAt
<1>2. p - 1 \in b..(p - 1) /\ p - 1 \in Nat \ {0} /\ b + 2 <= p /\ b - 1 \in Nat
  BY <1>1
<1>3. PICK k \in b..(p - 1 - 1) : ClosesAt(s, k, p - 1) /\ IsClosingScopeOf(s[k], s[p - 1])
  BY <1>1, <1>2 DEF ScopeAt, Nested
<1>4. k = b
  <2>1. k \in Nat \ {0} /\ ClosesAt(s, b, p - 1)
    BY <1>2 DEF ScopeAt
  <2>. QED
    BY <1>2, <1>3, <2>1, OneOpener
<1>5. s[p - 1] = ClosingOf[opening] /\ opening \in OpeningScopes
  BY <1>1, <1>3, <1>4 DEF IsClosingScopeOf
<1>6. Height(s, b) = Height(s, b - 1) + 1 /\ Height(s, b) \in Int /\ Height(s, b - 1) \in Int
  BY <1>1, <1>2, HeightStep, HeightType
<1>7. Level(s, b, p)
  BY <1>1, <1>6 DEF Level
<1>8. ASSUME NEW m \in b..(p - 2) PROVE Height(s, m) > Height(s, b - 1)
  <2>1. m \in b..(p - 1 - 1) /\ m \in Nat
    BY <1>2
  <2>2. Height(s, m) \in Int
    BY <2>1, HeightType
  <2>. QED
    BY <1>1, <1>6, <2>1, <2>2
<1>. QED
  BY <1>2, <1>5, <1>7, <1>8

\* It ends at one place.
LEMMA OneScope ==
    ASSUME NEW s \in Seq(STRING), NEW b \in Nat \ {0}, NEW p \in Nat, NEW q \in Nat, NEW o, NEW u,
           ScopeAt(s, o, b, p), ScopeAt(s, u, b, q)
    PROVE  p = q
<1>1. ClosesAt(s, b, p - 1) /\ ClosesAt(s, b, q - 1)
  BY DEF ScopeAt
<1>2. p - 1 \in Nat /\ q - 1 \in Nat
  BY ScopeProperties
<1>3. p - 1 = q - 1
  BY <1>1, <1>2, OneCloser
<1>. QED
  BY <1>3

-----------------------------------------------------------------------------
(* The statement so far.                                                   *)

\* One more token, that neither ends the statement nor opens or closes.
LEMMA PrefixToken ==
    ASSUME NEW s \in Seq(STRING), NEW b \in Nat \ {0}, NEW c \in Nat, NEW last,
           Prefix(s, b, c, last), s[c] # last, ~IsOpeningScope(s[c]), ~IsClosingScope(s[c])
    PROVE  Prefix(s, b, c + 1, last)
<1>1. b <= c /\ Level(s, b, c) /\ c \in Nat \ {0} /\ (c + 1) - 1 = c
  BY DEF Prefix
<1>2. Level(s, b, c + 1)
  BY <1>1, HeightStep DEF Level
<1>3. NoEnd(s, b, c + 1, last)
  <2>1. \A i \in b..c : i = c \/ i \in b..(c - 1)
    BY <1>1
  <2>. QED
    BY <1>1, <2>1 DEF NoEnd, Prefix
<1>. QED
  BY <1>1, <1>2, <1>3 DEF Prefix

\* A scope that does not end it.
LEMMA PrefixScope ==
    ASSUME NEW s \in Seq(STRING), NEW b \in Nat \ {0}, NEW c \in Nat, NEW p \in Nat, NEW last,
           NEW opening, Prefix(s, b, c, last), ScopeAt(s, opening, c, p), ClosingOf[opening] # last
    PROVE  Prefix(s, b, p, last)
<1>1. b <= c /\ Level(s, b, c) /\ c \in Nat \ {0}
  BY DEF Prefix
<1>2. /\ s[p - 1] = ClosingOf[opening] /\ c + 2 <= p
      /\ Level(s, c, p)
      /\ \A m \in c..(p - 2) : Height(s, m) > Height(s, c - 1)
  BY <1>1, ScopeProperties
<1>3. Height(s, b - 1) \in Int
  BY HeightType
<1>4. Level(s, b, p)
  BY <1>1, <1>2 DEF Level
<1>5. NoEnd(s, b, p, last)
  <2>1. \A i \in b..(p - 1) : i \in b..(c - 1) \/ i \in c..(p - 2) \/ i = p - 1
    BY <1>1, <1>2
  <2>2. ASSUME NEW i \in c..(p - 2) PROVE Height(s, i) # Height(s, b - 1)
    <3>1. Height(s, i) > Height(s, b - 1)
      BY <1>1, <1>2 DEF Level
    <3>2. i \in Nat
      BY <1>1
    <3>3. Height(s, i) \in Int
      BY <3>2, HeightType
    <3>. QED
      BY <1>3, <3>1, <3>3
  <2>. QED
    BY <1>2, <2>1, <2>2 DEF NoEnd, Prefix
<1>. QED
  BY <1>1, <1>2, <1>4, <1>5 DEF Prefix

LEMMA PrefixStart ==
    ASSUME NEW s, NEW b \in Nat, NEW last
    PROVE  Prefix(s, b, b, last)
BY DEF Prefix, Level, NoEnd

\* A statement ends with its end token, outside its scopes.
LEMMA WholeWithEos ==
    ASSUME NEW s \in Seq(STRING), NEW b \in Nat \ {0}, NEW c \in Nat, NEW e \in Nat, c < e,
           Nested(s, b, e), Prefix(s, b, c, "eos_"), s[c] = "eos_", s[b] # "open_bracket_"
    PROVE  Whole(s, b, c + 1)
<1>1. b <= c /\ Level(s, b, c) /\ c \in Nat \ {0} /\ (c + 1) - 1 = c
  BY DEF Prefix
<1>2. ~IsOpeningScope(s[c]) /\ ~IsClosingScope(s[c])
  BY DEF IsOpeningScope, IsClosingScope, OpeningScopes, ClosingScopes
<1>3. Level(s, b, c + 1)
  BY <1>1, <1>2, HeightStep DEF Level
<1>4. Nested(s, b, c + 1)
  BY <1>1, NestedPrefix
<1>5. LastOf(s, b) = "eos_"
  BY DEF LastOf
<1>. QED
  BY <1>1, <1>3, <1>4, <1>5 DEF Whole, Prefix

\* A function ends with its block.
LEMMA WholeWithBlock ==
    ASSUME NEW s \in Seq(STRING), NEW b \in Nat \ {0}, NEW c \in Nat, NEW p \in Nat, NEW e \in Nat,
           p <= e, Nested(s, b, e), Prefix(s, b, c, "close_brace_"),
           ScopeAt(s, "open_brace_", c, p), s[b] = "open_bracket_"
    PROVE  Whole(s, b, p)
<1>1. b <= c /\ Level(s, b, c) /\ c \in Nat \ {0}
  BY DEF Prefix
<1>2. /\ s[p - 1] = "close_brace_" /\ c + 2 <= p
      /\ Level(s, c, p)
      /\ \A m \in c..(p - 2) : Height(s, m) > Height(s, c - 1)
  <2>1. ClosingOf["open_brace_"] = "close_brace_"
    BY DEF ClosingOf
  <2>. QED
    BY <1>1, <2>1, ScopeProperties
<1>3. Height(s, b - 1) \in Int
  BY HeightType
<1>4. Level(s, b, p) /\ Nested(s, b, p) /\ LastOf(s, b) = "close_brace_"
  BY <1>1, <1>2, NestedPrefix DEF Level, LastOf
<1>5. NoEnd(s, b, p - 1, "close_brace_")
  <2>1. \A i \in b..(p - 1 - 1) : i \in b..(c - 1) \/ i \in c..(p - 2)
    BY <1>1, <1>2
  <2>2. ASSUME NEW i \in c..(p - 2) PROVE Height(s, i) # Height(s, b - 1)
    <3>1. Height(s, i) > Height(s, b - 1)
      BY <1>1, <1>2 DEF Level
    <3>2. i \in Nat
      BY <1>1
    <3>3. Height(s, i) \in Int
      BY <3>2, HeightType
    <3>. QED
      BY <1>3, <3>1, <3>3
  <2>. QED
    BY <2>1, <2>2 DEF NoEnd, Prefix
<1>. QED
  BY <1>1, <1>2, <1>4, <1>5 DEF Whole

-----------------------------------------------------------------------------
(* Counting the tokens of one type.                                        *)

\* The places in b..k of the tokens of a type.
PlacesOf(s, type, b, k) == {j \in b..k : s[j] = type}

\* Min and Max of the community modules, of sets of naturals.
LEMMA MinIsLeast ==
    ASSUME NEW S, S \subseteq Nat, S # {}
    PROVE  Min(S) \in S /\ \A x \in S : Min(S) <= x
<1>1. \E x \in S : \A y \in S : x <= y
  BY LeastNumber
<1>. QED
  BY <1>1 DEF Min

LEMMA MaxIsGreatest ==
    ASSUME NEW N \in Nat, NEW S, S \subseteq 0..N, S # {}
    PROVE  Max(S) \in S /\ \A x \in S : x <= Max(S)
<1>. DEFINE T == {N - x : x \in S \cap 0..N}
<1>1. T \subseteq Nat /\ T # {}
  <2>1. PICK z \in S : TRUE
    OBVIOUS
  <2>2. z \in S \cap 0..N /\ N - z \in T
    OBVIOUS
  <2>3. T \subseteq Nat
    OBVIOUS
  <2>. QED
    BY <2>2, <2>3
<1>2. PICK t \in T : \A y \in T : t <= y
  BY <1>1, LeastNumber
<1>3. PICK x \in S \cap 0..N : t = N - x
  BY <1>2
<1>4. \A y \in S : x >= y
  <2>. TAKE y \in S
  <2>1. N - x <= N - y
    BY <1>2, <1>3
  <2>. QED
    BY <2>1
<1>5. Max(S) \in S /\ \A y \in S : Max(S) >= y
  BY <1>3, <1>4 DEF Max
<1>. QED
  BY <1>5

\* A close token type ends one type of scope.
LEMMA ClosingIsOne ==
    \A o \in OpeningScopes, u \in OpeningScopes : ClosingOf[o] = ClosingOf[u] => o = u
BY DEF ClosingOf, OpeningScopes

\* What opens in a scope is closed in it.
LEMMA OpenedIsClosed ==
    ASSUME NEW s \in Seq(STRING), NEW b \in Nat \ {0}, NEW p \in Nat, NEW opening,
           ScopeAt(s, opening, b, p), NEW k \in b..(p - 1), IsOpeningScope(s[k])
    PROVE  \E j \in (k + 1)..(p - 1) : ClosesAt(s, k, j) /\ s[j] = ClosingOf[s[k]]
<1>1. /\ opening \in OpeningScopes /\ s[p - 1] = ClosingOf[opening] /\ b + 2 <= p
      /\ p - 1 \in Nat \ {0} /\ Level(s, b, p)
      /\ \A m \in b..(p - 2) : Height(s, m) > Height(s, b - 1)
  BY ScopeProperties
<1>2. k \in Nat \ {0} /\ k - 1 \in Nat /\ b - 1 \in Nat
  OBVIOUS
<1>3. k # p - 1
  BY <1>1, ScopeTypes DEF IsOpeningScope
<1>4. Height(s, k) = Height(s, k - 1) + 1 /\ Height(s, k) \in Int /\ Height(s, k - 1) \in Int
  BY <1>2, HeightStep, HeightType
<1>5. Height(s, b - 1) \in Int /\ Height(s, p - 1) = Height(s, b - 1)
  BY <1>1, <1>2, HeightType DEF Level
<1>6. Height(s, k - 1) >= Height(s, b - 1)
  <2>1. CASE k = b
    BY <2>1, <1>4, <1>5
  <2>2. CASE k # b
    <3>1. k - 1 \in b..(p - 2)
      BY <2>2, <1>2
    <3>. QED
      BY <1>1, <1>4, <1>5, <3>1
  <2>. QED
    BY <2>1, <2>2
<1>. DEFINE below == {m \in (k + 1)..(p - 1) : Height(s, m) < Height(s, k)}
<1>7. p - 1 \in below
  BY <1>1, <1>2, <1>3, <1>4, <1>5, <1>6
<1>8. below \subseteq Nat
  BY <1>2
<1>9. PICK j \in below : \A m \in below : j <= m
  BY <1>7, <1>8, LeastNumber
<1>10. j \in (k + 1)..(p - 1) /\ Height(s, j) < Height(s, k)
  BY <1>9
<1>11. \A m \in k..(j - 1) : Height(s, m) >= Height(s, k)
  <2>. TAKE m \in k..(j - 1)
  <2>1. m = k \/ m \in (k + 1)..(p - 1)
    BY <1>2, <1>10
  <2>2. m \notin below
    BY <1>2, <1>9, <1>10
  <2>3. Height(s, m) \in Int
    <3>1. m \in Nat
      BY <1>2, <1>10
    <3>. QED
      BY <3>1, HeightType
  <2>. QED
    BY <1>4, <2>1, <2>2, <2>3
<1>. HIDE DEF below
<1>12. j \in Nat \ {0} /\ j - 1 \in k..(j - 1) /\ j - 1 \in Nat /\ k < j
  BY <1>2, <1>10
<1>13. Height(s, j) \in Int /\ Height(s, j - 1) \in Int /\ Height(s, j - 1) >= Height(s, k)
  BY <1>11, <1>12, HeightType
<1>14. IsClosingScope(s[j]) /\ Height(s, j) = Height(s, k) - 1
  <2>1. /\ IsOpeningScope(s[j]) => Height(s, j) = Height(s, j - 1) + 1
        /\ IsClosingScope(s[j]) => Height(s, j) = Height(s, j - 1) - 1
        /\ ~IsOpeningScope(s[j]) /\ ~IsClosingScope(s[j]) => Height(s, j) = Height(s, j - 1)
    BY <1>12, HeightStep
  <2>. QED
    BY <1>4, <1>10, <1>13, <2>1
<1>15. ClosesAt(s, k, j)
  BY <1>11, <1>12, <1>14 DEF ClosesAt
<1>16. PICK x \in b..(j - 1) : ClosesAt(s, x, j) /\ IsClosingScopeOf(s[x], s[j])
  <2>1. j \in b..(p - 1)
    BY <1>2, <1>10
  <2>. QED
    BY <1>14, <2>1 DEF ScopeAt, Nested
<1>17. x = k
  <2>1. x \in Nat \ {0}
    OBVIOUS
  <2>. QED
    BY <1>2, <1>12, <1>15, <1>16, <2>1, OneOpener
<1>. QED
  BY <1>10, <1>15, <1>16, <1>17 DEF IsClosingScopeOf

\* The open token of each close token of a type, in nested text.
LEMMA OpenersOf ==
    ASSUME NEW s \in Seq(STRING), NEW b \in Nat \ {0}, NEW k \in Nat, Nested(s, b, k + 1),
           NEW opening \in OpeningScopes
    PROVE  LET C == PlacesOf(s, ClosingOf[opening], b, k)
               O == PlacesOf(s, opening, b, k)
           IN  \E f \in Injection(C, O) : \A j \in C : ClosesAt(s, f[j], j)
<1>. DEFINE C == PlacesOf(s, ClosingOf[opening], b, k)
            O == PlacesOf(s, opening, b, k)
            f == [j \in C |-> CHOOSE x \in O : ClosesAt(s, x, j)]
<1>1. ASSUME NEW j \in C PROVE \E x \in O : ClosesAt(s, x, j)
  <2>1. j \in b..k /\ s[j] = ClosingOf[opening] /\ (k + 1) - 1 = k
    BY DEF PlacesOf
  <2>2. IsClosingScope(s[j])
    BY <2>1, ScopeTypes DEF IsClosingScope
  <2>3. PICK x \in b..(j - 1) : ClosesAt(s, x, j) /\ IsClosingScopeOf(s[x], s[j])
    BY <2>1, <2>2 DEF Nested
  <2>4. s[x] = opening
    BY <2>1, <2>3, ClosingIsOne DEF IsClosingScopeOf
  <2>5. x \in O
    BY <2>1, <2>4 DEF PlacesOf
  <2>. QED
    BY <2>3, <2>5
<1>2. \A j \in C : f[j] \in O /\ ClosesAt(s, f[j], j)
  BY <1>1
<1>3. f \in [C -> O]
  BY <1>2
<1>. HIDE DEF f
<1>4. ASSUME NEW i \in C, NEW j \in C, f[i] = f[j] PROVE i = j
  <2>1. i \in Nat /\ j \in Nat
    BY DEF PlacesOf
  <2>2. f[i] \in Nat \ {0}
    <3>1. f[i] \in O
      BY <1>2
    <3>. QED
      BY <3>1 DEF PlacesOf
  <2>3. ClosesAt(s, f[i], i) /\ ClosesAt(s, f[i], j)
    BY <1>2, <1>4
  <2>. HIDE DEF C
  <2>. QED
    BY <2>1, <2>2, <2>3, OneCloser
<1>5. f \in Injection(C, O)
  <2>. HIDE DEF C, O
  <2>1. DOMAIN f = C
    BY <1>3
  <2>2. IsInjective(f)
    BY <1>4, <2>1 DEF IsInjective
  <2>. QED
    BY <1>3, <2>2 DEF Injection
<1>. HIDE DEF f, C, O
<1>6. \E g \in Injection(C, O) : \A j \in C : ClosesAt(s, g[j], j)
  BY <1>2, <1>5
<1>. QED
  BY <1>6 DEF C, O

LEMMA PlacesOfFinite ==
    ASSUME NEW s, NEW type, NEW b \in Nat, NEW k \in Nat
    PROVE  /\ IsFiniteSet(PlacesOf(s, type, b, k))
           /\ Cardinality(PlacesOf(s, type, b, k)) \in Nat
<1>1. IsFiniteSet(b..k)
  BY FS_Interval
<1>2. PlacesOf(s, type, b, k) \subseteq b..k
  BY DEF PlacesOf
<1>3. IsFiniteSet(PlacesOf(s, type, b, k))
  BY <1>1, <1>2, FS_Subset
<1>. QED
  BY <1>3, FS_CardinalityType

\* A scope holds as many close tokens of a type as open ones.
LEMMA ScopeIsEven ==
    ASSUME NEW s \in Seq(STRING), NEW b \in Nat \ {0}, NEW p \in Nat, NEW opening,
           ScopeAt(s, opening, b, p)
    PROVE  Cardinality(PlacesOf(s, opening, b, p - 1))
              = Cardinality(PlacesOf(s, ClosingOf[opening], b, p - 1))
<1>1. opening \in OpeningScopes /\ p - 1 \in Nat
  BY ScopeProperties
<1>. DEFINE C == PlacesOf(s, ClosingOf[opening], b, p - 1)
            O == PlacesOf(s, opening, b, p - 1)
<1>2. PICK f \in Injection(C, O) : \A j \in C : ClosesAt(s, f[j], j)
  <2>1. Nested(s, b, (p - 1) + 1)
    <3>1. (p - 1) + 1 = p
      OBVIOUS
    <3>. QED
      BY <3>1 DEF ScopeAt
  <2>. QED
    BY <1>1, <2>1, OpenersOf
<1>3. ASSUME NEW k \in O PROVE \E j \in C : f[j] = k
  <2>1. k \in b..(p - 1) /\ s[k] = opening /\ IsOpeningScope(s[k]) /\ k \in Nat \ {0}
    BY <1>1 DEF PlacesOf, IsOpeningScope
  <2>2. PICK j \in (k + 1)..(p - 1) : ClosesAt(s, k, j) /\ s[j] = ClosingOf[s[k]]
    BY <2>1, OpenedIsClosed
  <2>3. j \in C /\ j \in Nat
    BY <2>1, <2>2 DEF PlacesOf
  <2>4. f[j] \in Nat \ {0}
    <3>1. f[j] \in O
      BY <2>3 DEF Injection
    <3>. QED
      BY <3>1 DEF PlacesOf
  <2>5. ClosesAt(s, f[j], j)
    BY <1>2, <2>3
  <2>6. f[j] = k
    BY <2>1, <2>2, <2>3, <2>4, <2>5, OneOpener
  <2>. QED
    BY <2>3, <2>6
<1>4. IsFiniteSet(C) /\ IsFiniteSet(O)
  BY <1>1, PlacesOfFinite
<1>. HIDE DEF C, O
<1>5. f \in Bijection(C, O)
  BY <1>3 DEF Bijection, Injection, Surjection
<1>6. ExistsBijection(C, O)
  BY <1>5 DEF ExistsBijection
<1>7. Cardinality(O) = Cardinality(C)
  BY <1>4, <1>6, FS_Bijection
<1>. QED
  BY <1>7 DEF C, O

\* While the scope at b is open, nested text holds fewer close tokens of its type.
LEMMA OpenIsUneven ==
    ASSUME NEW s \in Seq(STRING), NEW b \in Nat \ {0}, NEW k \in Nat, b <= k,
           Nested(s, b, k + 1), s[b] \in OpeningScopes,
           \A j \in b..k : ~ClosesAt(s, b, j)
    PROVE  Cardinality(PlacesOf(s, s[b], b, k))
              # Cardinality(PlacesOf(s, ClosingOf[s[b]], b, k))
<1>. DEFINE C == PlacesOf(s, ClosingOf[s[b]], b, k)
            O == PlacesOf(s, s[b], b, k)
<1>1. PICK f \in Injection(C, O) : \A j \in C : ClosesAt(s, f[j], j)
  BY OpenersOf
<1>2. IsFiniteSet(C) /\ IsFiniteSet(O) /\ Cardinality(C) \in Nat /\ Cardinality(O) \in Nat
  BY PlacesOfFinite
<1>3. b \in O
  BY DEF PlacesOf
<1>4. ASSUME NEW j \in C PROVE f[j] # b
  <2>1. j \in b..k
    BY DEF PlacesOf
  <2>. QED
    BY <1>1, <2>1
<1>. HIDE DEF C, O
<1>5. f \notin Surjection(C, O)
  BY <1>3, <1>4 DEF Surjection
<1>6. Cardinality(C) # Cardinality(O)
  BY <1>2, <1>5, FS_Injection
<1>. QED
  BY <1>6 DEF C, O

-----------------------------------------------------------------------------
(* What the searches come to.                                              *)

\* How the parser may stop.
FailsWith == {"refused", "no expression", "dangling"}

\* What fails differs from what is found, and nothing of it is stray or is not
\* returned.
LEMMA EndOutcomes ==
    /\ \A x \in AtEnd : x.is \in FailsWith
    /\ Refused.is \in FailsWith /\ NoExpr.is \in FailsWith /\ "ok" \notin FailsWith
    /\ "stray" \notin FailsWith /\ "unreturned" \notin FailsWith
    /\ Unreturned.is = "unreturned"
    /\ \A p : Ok(p).is = "ok" /\ Ok(p).at = p
BY DEF AtEnd, Refused, NoExpr, Unreturned, EndOf, FailsWith, Ok

\* Each search fails in a way its callers hand on, or gives what it is for.
LEMMA ExpectGives ==
    ASSUME NEW type, NEW p \in Nat, NEW end \in Nat, NEW x \in Expect(type, p, end)
    PROVE  /\ x.is # "ok" => x.is \in FailsWith
           /\ x.is = "ok" => x.at = p /\ p < end /\ prog[p] = type
<1>1. CASE p >= end
  BY <1>1, EndOutcomes DEF Expect
<1>2. CASE ~(p >= end)
  <2>1. (x = Ok(p) /\ prog[p] = type) \/ x = Refused
    BY <1>2 DEF Expect
  <2>2. p < end
    BY <1>2
  <2>. QED
    BY <2>1, <2>2, EndOutcomes
<1>. QED
  BY <1>1, <1>2

LEMMA ExpectRawGives ==
    ASSUME NEW type, NEW p \in Nat, prog \in Seq(STRING), p <= Len(prog), NEW x \in ExpectRaw(type, p)
    PROVE  /\ x.is # "ok" => x.is \in FailsWith
           /\ x.is = "ok" => x.at = p /\ prog[p] = type
<1>1. ~(p > Len(prog))
  BY LenProperties
<1>2. (x = Ok(p) /\ prog[p] = type) \/ x = Refused
  BY <1>1 DEF ExpectRaw
<1>. QED
  BY <1>2, EndOutcomes

\* The ends that are scopes of the range.
LEMMA EndsAreScopes ==
    ASSUME prog \in Seq(STRING), NEW b \in Nat \ {0}, NEW end \in Nat, b < end, end <= Len(prog) + 1,
           NEW opening, NEW p
    PROVE  p \in Ends(opening, b, end) <=> p \in Nat /\ p <= end /\ ScopeAt(prog, opening, b, p)
<1>. DEFINE r == Part(prog, b, end)
<1>0. Len(prog) \in Nat /\ b \in 1..(Len(prog) + 1) /\ end \in b..(Len(prog) + 1)
  BY LenProperties
<1>1. Len(r) = end - b
  BY <1>0, PartOfText
<1>2. p \in Ends(opening, b, end) <=> \E c \in 1..Len(r) : IsScope(r, opening, c) /\ p = b + c
  BY DEF Ends, Part
<1>3. \A c \in Int : IsScope(r, opening, c) <=> c \in 1..(end - b) /\ ScopeAt(prog, opening, b, b + c)
  BY <1>0, PartScope
<1>. HIDE DEF r
<1>4. ASSUME p \in Ends(opening, b, end)
      PROVE  p \in Nat /\ p <= end /\ ScopeAt(prog, opening, b, p)
  <2>1. PICK c \in 1..(end - b) : ScopeAt(prog, opening, b, b + c) /\ p = b + c
    BY <1>1, <1>2, <1>3, <1>4
  <2>. QED
    BY <2>1
<1>5. ASSUME p \in Nat, p <= end, ScopeAt(prog, opening, b, p)
      PROVE  p \in Ends(opening, b, end)
  <2>1. b + 2 <= p
    BY <1>5, ScopeProperties
  <2>. PICK c \in Int : c = p - b
    BY <1>5
  <2>2. c \in 1..(end - b) /\ p = b + c
    BY <1>5, <2>1
  <2>3. IsScope(r, opening, c)
    BY <1>3, <1>5, <2>2
  <2>. QED
    BY <1>1, <1>2, <2>2, <2>3
<1>. QED
  BY <1>4, <1>5

\* find_paren_scope and the others: the end is one behind the matching token.
LEMMA FindAnyScopeGives ==
    ASSUME prog \in Seq(STRING), NEW b \in Nat \ {0}, NEW end \in Nat, end <= Len(prog) + 1,
           NEW opening, NEW x \in FindAnyScope(opening, b, end)
    PROVE  /\ x.is # "ok" => x.is \in FailsWith
           /\ x.is = "ok" => /\ x.at \in Nat /\ b + 2 <= x.at /\ x.at <= end
                             /\ ScopeAt(prog, opening, b, x.at)
<1>1. CASE b >= end
  BY <1>1, EndOutcomes DEF FindAnyScope
<1>2. CASE ~(b >= end)
  <2>1. b < end
    BY <1>2
  <2>2. x = Refused \/ \E e \in Ends(opening, b, end) : x = Ok(e)
    BY <1>2 DEF FindAnyScope
  <2>3. CASE x = Refused
    BY <2>3, EndOutcomes
  <2>4. ASSUME NEW e \in Ends(opening, b, end), x = Ok(e)
        PROVE  x.at \in Nat /\ x.at <= end /\ ScopeAt(prog, opening, b, x.at) /\ x.is = "ok"
                  /\ b + 2 <= x.at
    <3>1. e \in Nat /\ e <= end /\ ScopeAt(prog, opening, b, e)
      BY <2>1, EndsAreScopes
    <3>2. b + 2 <= e
      BY <3>1, ScopeProperties
    <3>. QED
      BY <2>4, <3>1, <3>2, EndOutcomes
  <2>. QED
    BY <2>2, <2>3, <2>4
<1>. QED
  BY <1>1, <1>2

\* find_list_scope, valid or not, ends where the block will find its end.
LEMMA ListScopeAgrees ==
    ASSUME prog \in Seq(STRING), NEW b \in Nat \ {0}, NEW end \in Nat, b < end, end <= Len(prog) + 1,
           NEW p \in ListScopeEnds(b, end)
    PROVE  /\ p \in Nat /\ b < p /\ p <= end /\ Agrees(prog, b, p)
           /\ ScopeAt(prog, "open_brace_", b, p) \/ p = end \/ p = b + 1
<1>. DEFINE E == Ends("open_brace_", b, end)
<1>1. \A q : q \in E <=> q \in Nat /\ q <= end /\ ScopeAt(prog, "open_brace_", b, q)
  BY EndsAreScopes
<1>2. CASE E = {}
  <2>1. p = end \/ p = b + 1
    BY <1>2 DEF ListScopeEnds
  <2>2. p \in Nat /\ b < p /\ p <= end
    BY <2>1
  <2>3. ASSUME NEW q \in b..p PROVE ~ScopeAt(prog, "open_brace_", b, q)
    <3>1. q \in Nat /\ q <= end
      BY <2>2
    <3>. QED
      BY <1>1, <1>2, <3>1
  <2>. QED
    BY <2>1, <2>2, <2>3 DEF Agrees
<1>3. CASE E # {}
  <2>1. p \in E
    BY <1>3 DEF ListScopeEnds
  <2>. HIDE DEF E
  <2>2. p \in Nat /\ p <= end /\ ScopeAt(prog, "open_brace_", b, p)
    BY <1>1, <2>1
  <2>3. b + 2 <= p
    BY <2>2, ScopeProperties
  <2>4. ASSUME NEW q \in b..p, ScopeAt(prog, "open_brace_", b, q) PROVE q = p
    <3>1. q \in Nat
      BY <2>2
    <3>. QED
      BY <2>2, <2>4, <3>1, OneScope
  <2>. QED
    BY <2>2, <2>3, <2>4 DEF Agrees
<1>. QED
  BY <1>2, <1>3

-----------------------------------------------------------------------------
(* find_exact.                                                             *)

\* The close tokens that it considers, and those at which the count is even.
ClosingIn(opening, b, end) == {i \in b..(end - 1) : prog[i] = ClosingOf[opening]}
\* The close tokens behind which as many tokens of one type are closed as opened.
EvenIn(opening, b, end) ==
    {i \in ClosingIn(opening, b, end) :
        Cardinality(PlacesOf(prog, opening, b, i)) = Cardinality(PlacesOf(prog, ClosingOf[opening], b, i))}

\* find_exact stops at the first of them, or goes on from the last close token
\* there is, or from b.
LEMMA ExactIs ==
    ASSUME NEW opening, NEW b \in Nat \ {0}, NEW end \in Nat
    PROVE  LET closing == ClosingIn(opening, b, end)  even == EvenIn(opening, b, end)
           IN  /\ Exact(opening, b, end).valid = (even # {} \/ b >= end)
               /\ Exact(opening, b, end).end = IF even # {} THEN Min(even) + 1
                                            ELSE IF closing # {} THEN Max(closing) + 1 ELSE b + 1
<1>1. EvenIn(opening, b, end) =
        {i \in ClosingIn(opening, b, end) :
            Cardinality({j \in b..i : prog[j] = opening}) = Cardinality({j \in b..i : prog[j] = prog[i]})}
  BY DEF EvenIn, ClosingIn, PlacesOf
<1>2. Exact(opening, b, end) =
        [valid |-> EvenIn(opening, b, end) # {} \/ b >= end,
         end   |-> IF EvenIn(opening, b, end) # {} THEN Min(EvenIn(opening, b, end)) + 1
                   ELSE IF ClosingIn(opening, b, end) # {} THEN Max(ClosingIn(opening, b, end)) + 1 ELSE b + 1]
  BY <1>1 DEF Exact, ClosingIn
<1>. QED
  BY <1>2

\* The end that it gives lies in the range, and whoever searches the list up
\* to there finds no other.
LEMMA ExactAgrees ==
    ASSUME prog \in Seq(STRING), NEW opening \in OpeningScopes,
           NEW b \in Nat \ {0}, NEW end \in Nat, b < end, end <= Len(prog) + 1
    PROVE  LET e == Exact(opening, b, end).end
           IN  /\ e \in Nat /\ b < e /\ e <= end
               /\ \A q \in b..e : ScopeAt(prog, opening, b, q) => q = e
<1>. DEFINE C == ClosingIn(opening, b, end)  V == EvenIn(opening, b, end)  e == Exact(opening, b, end).end
<1>1. e = IF V # {} THEN Min(V) + 1 ELSE IF C # {} THEN Max(C) + 1 ELSE b + 1
  BY ExactIs
<1>2. V \subseteq C /\ C \subseteq b..(end - 1) /\ C \subseteq 0..end
  BY DEF EvenIn, ClosingIn
<1>3. V # {} => Min(V) \in V /\ \A i \in V : Min(V) <= i
  <2>1. V \subseteq Nat
    BY <1>2
  <2>. QED
    BY <2>1, MinIsLeast
<1>4. C # {} => Max(C) \in C
  BY <1>2, MaxIsGreatest
<1>. HIDE DEF C, V, e
<1>5. e \in Nat /\ b < e /\ e <= end
  <2>1. CASE V # {}
    <3>1. Min(V) \in b..(end - 1) /\ e = Min(V) + 1
      BY <1>1, <1>2, <1>3, <2>1
    <3>. QED
      BY <3>1
  <2>2. CASE V = {} /\ C # {}
    <3>1. Max(C) \in b..(end - 1) /\ e = Max(C) + 1
      BY <1>1, <1>2, <1>4, <2>2
    <3>. QED
      BY <3>1
  <2>3. CASE V = {} /\ C = {}
    BY <1>1, <2>3
  <2>. QED
    BY <2>1, <2>2, <2>3
<1>6. ASSUME NEW q \in b..e, ScopeAt(prog, opening, b, q) PROVE q = e
  <2>1. q \in Nat
    BY <1>5
  <2>2. prog[q - 1] = ClosingOf[opening] /\ b + 2 <= q
    BY <1>6, <2>1, ScopeProperties
  <2>3. q - 1 \in C
    BY <1>5, <2>2 DEF C, ClosingIn
  <2>4. q - 1 \in V
    <3>1. Cardinality(PlacesOf(prog, opening, b, q - 1))
             = Cardinality(PlacesOf(prog, ClosingOf[opening], b, q - 1))
      BY <1>6, <2>1, ScopeIsEven
    <3>. QED
      BY <2>3, <3>1 DEF V, C, EvenIn
  <2>5. V # {}
    BY <2>4
  <2>6. Min(V) \in V /\ Min(V) <= q - 1 /\ e = Min(V) + 1
    BY <1>1, <1>3, <2>4, <2>5
  <2>7. V \subseteq Int
    BY <1>2
  <2>8. Min(V) \in Int
    BY <2>6, <2>7
  <2>. QED
    BY <1>5, <2>1, <2>6, <2>8
<1>. QED
  BY <1>5, <1>6 DEF e

\* In nested text what it finds is the scope.
LEMMA ExactIsScope ==
    ASSUME prog \in Seq(STRING), NEW opening \in OpeningScopes,
           NEW b \in Nat \ {0}, NEW end \in Nat, b < end, end <= Len(prog) + 1,
           Nested(prog, b, end), prog[b] = opening, Exact(opening, b, end).valid
    PROVE  ScopeAt(prog, opening, b, Exact(opening, b, end).end)
<1>. DEFINE C == ClosingIn(opening, b, end)  V == EvenIn(opening, b, end)  e == Exact(opening, b, end).end
<1>1. V # {} /\ e = Min(V) + 1
  <2>1. Exact(opening, b, end).valid = (V # {} \/ b >= end)
    BY ExactIs
  <2>. HIDE DEF V
  <2>2. V # {} \/ b >= end
    BY <2>1, Zenon
  <2>3. V # {}
    BY <2>2
  <2>. QED
    BY <2>3, ExactIs DEF V
<1>2. V \subseteq b..(end - 1) /\ V \subseteq Nat
  BY DEF EvenIn, ClosingIn
<1>3. Min(V) \in V /\ \A i \in V : Min(V) <= i
  BY <1>1, <1>2, MinIsLeast
<1>. PICK k \in b..(end - 1) : k = Min(V)
  BY <1>2, <1>3
<1>4. k \in Nat /\ k + 1 <= end /\ e = k + 1
  BY <1>1
<1>5. Cardinality(PlacesOf(prog, opening, b, k)) = Cardinality(PlacesOf(prog, ClosingOf[opening], b, k))
  BY <1>3 DEF EvenIn
<1>. HIDE DEF C, V, e
<1>6. Nested(prog, b, k + 1)
  BY <1>4, NestedPrefix
<1>7. PICK j \in b..k : ClosesAt(prog, b, j)
  BY <1>4, <1>5, <1>6, OpenIsUneven
<1>8. j + 1 \in Nat /\ (j + 1) - 1 = j /\ j + 1 <= k + 1
  BY <1>4
<1>9. ScopeAt(prog, opening, b, j + 1)
  <2>1. Nested(prog, b, j + 1)
    BY <1>4, <1>6, <1>8, NestedPrefix
  <2>. QED
    BY <1>7, <1>8, <2>1 DEF ScopeAt
<1>10. j + 1 = e
  <2>1. j + 1 \in b..e
    BY <1>4, <1>8
  <2>. QED
    BY <1>9, <2>1, ExactAgrees DEF e
<1>. QED
  BY <1>9, <1>10 DEF e

\* What find_exact returns need not be nested: it counts one type only.
LEMMA FindExactGives ==
    ASSUME prog \in Seq(STRING), NEW opening \in OpeningScopes,
           NEW b \in Nat \ {0}, NEW end \in Nat, b <= Len(prog), end <= Len(prog) + 1,
           NEW x \in FindExact(opening, b, end)
    PROVE  /\ x.is # "ok" => x.is \in FailsWith
           /\ x.is = "ok" => /\ prog[b] = opening /\ Exact(opening, b, end).valid
                             /\ x.at = Exact(opening, b, end).end
<1>1. PICK y \in ExpectRaw(opening, b) :
         x \in IF y.is = "ok"
               THEN {IF Exact(opening, b, end).valid THEN Ok(Exact(opening, b, end).end) ELSE Refused}
               ELSE {y}
  BY DEF FindExact, Then
<1>2. /\ y.is # "ok" => y.is \in FailsWith
      /\ y.is = "ok" => y.at = b /\ prog[b] = opening
  BY ExpectRawGives
<1>. QED
  BY <1>1, <1>2, EndOutcomes

\* find_scope and find_list, in nested text and at its end.
LEMMA FindExactInText ==
    ASSUME prog \in Seq(STRING), NEW opening \in OpeningScopes,
           NEW b \in Nat \ {0}, NEW end \in Nat, b <= Len(prog), end <= Len(prog) + 1,
           b < end => Nested(prog, b, end),
           NEW x \in FindExact(opening, b, end)
    PROVE  /\ x.is # "ok" => x.is \in FailsWith
           /\ x.is = "ok" /\ b < end => /\ x.at \in Nat /\ b + 2 <= x.at /\ x.at <= end
                                        /\ ScopeAt(prog, opening, b, x.at)
           /\ x.is = "ok" /\ ~(b < end) => x.at = b + 1 /\ prog[b] = opening
<1>1. /\ x.is # "ok" => x.is \in FailsWith
      /\ x.is = "ok" => /\ prog[b] = opening /\ Exact(opening, b, end).valid
                        /\ x.at = Exact(opening, b, end).end
  BY FindExactGives
<1>2. ASSUME x.is = "ok", b < end
      PROVE  x.at \in Nat /\ b + 2 <= x.at /\ x.at <= end /\ ScopeAt(prog, opening, b, x.at)
  <2>1. ScopeAt(prog, opening, b, x.at)
    BY <1>1, <1>2, ExactIsScope
  <2>2. x.at \in Nat /\ x.at <= end
    BY <1>1, <1>2, ExactAgrees
  <2>. QED
    BY <2>1, <2>2, ScopeProperties
<1>3. ASSUME x.is = "ok", ~(b < end) PROVE x.at = b + 1
  <2>1. ClosingIn(opening, b, end) = {} /\ EvenIn(opening, b, end) = {}
    BY <1>3 DEF ClosingIn, EvenIn
  <2>. QED
    BY <1>1, <1>3, <2>1, ExactIs
<1>. QED
  BY <1>1, <1>2, <1>3

-----------------------------------------------------------------------------
(* Expressions.                                                            *)

\* An expression closes what it opens and holds no eos_.
LEMMA ExpressionGives ==
    ASSUME prog \in Seq(STRING), NEW b \in Nat \ {0}, NEW e \in Nat, b < e, e <= Len(prog) + 1,
           NEW x \in Expression(b, e)
    PROVE  /\ x.is # "ok" => x.is \in FailsWith
           /\ x.is = "ok" => /\ Nested(prog, b, e) /\ Level(prog, b, e)
                             /\ \A i \in b..(e - 1) : prog[i] # "eos_"
<1>. DEFINE r == Part(prog, b, e)
<1>0. Len(prog) \in Nat /\ b \in 1..(Len(prog) + 1) /\ e \in b..(Len(prog) + 1) /\ e - b \in 0..(e - b)
  BY LenProperties
<1>1. /\ Len(r) = e - b /\ \A i \in 1..(e - b) : r[i] = prog[b + i - 1]
      /\ Height(r, e - b) = Height(prog, b + (e - b) - 1) - Height(prog, b - 1)
  BY <1>0, PartOfText
<1>2. WellNested(r, e - b) => Nested(prog, b, b + (e - b))
  BY <1>0, PartNested
<1>3. b + (e - b) = e
  OBVIOUS
<1>4. x = NoExpr \/ (/\ x = Ok(e) /\ {r[i] : i \in 1..Len(r)} \subseteq ExpressionTokens
                     /\ WellNested(r, Len(r)) /\ Height(r, Len(r)) = 0)
  BY DEF Expression, Part
<1>. HIDE DEF r
<1>5. ASSUME {r[i] : i \in 1..Len(r)} \subseteq ExpressionTokens, WellNested(r, Len(r)), Height(r, Len(r)) = 0
      PROVE  /\ Nested(prog, b, e) /\ Level(prog, b, e)
             /\ \A i \in b..(e - 1) : prog[i] # "eos_"
  <2>1. Nested(prog, b, e)
    BY <1>1, <1>2, <1>3, <1>5
  <2>2. Level(prog, b, e)
    <3>1. Height(prog, e - 1) \in Int /\ Height(prog, b - 1) \in Int
      BY <1>0, HeightType
    <3>. QED
      BY <1>1, <1>3, <1>5, <3>1 DEF Level
  <2>3. ASSUME NEW i \in b..(e - 1) PROVE prog[i] # "eos_"
    <3>1. i - b + 1 \in 1..(e - b) /\ b + (i - b + 1) - 1 = i
      OBVIOUS
    <3>2. r[i - b + 1] = prog[i]
      BY <1>1, <3>1
    <3>3. r[i - b + 1] \in ExpressionTokens
      BY <1>1, <1>5, <3>1
    <3>. QED
      BY <3>2, <3>3, ExpressionsAssumption
  <2>. QED
    BY <2>1, <2>2, <2>3
<1>. QED
  BY <1>4, <1>5, EndOutcomes

\* The scope that find_exact reports as valid ends with its close token.
LEMMA ExactCloses ==
    ASSUME NEW opening, NEW b \in Nat \ {0}, NEW e \in Nat, b < e, Exact(opening, b, e).valid
    PROVE  prog[Exact(opening, b, e).end - 1] = ClosingOf[opening]
<1>. DEFINE V == EvenIn(opening, b, e)
<1>1. Exact(opening, b, e).valid = (V # {} \/ b >= e)
  BY ExactIs
<1>2. V # {} => Exact(opening, b, e).end = Min(V) + 1
  BY ExactIs
<1>3. V \subseteq Nat /\ \A i \in V : prog[i] = ClosingOf[opening]
  BY DEF EvenIn, ClosingIn
<1>. HIDE DEF V
<1>4. V # {} \/ b >= e
  BY <1>1, Zenon
<1>5. V # {}
  BY <1>4
<1>6. Min(V) \in V
  BY <1>3, <1>5, MinIsLeast
<1>7. Exact(opening, b, e).end - 1 = Min(V)
  <2>1. Min(V) \in Nat
    BY <1>3, <1>6
  <2>. QED
    BY <1>2, <1>5, <2>1
<1>. QED
  BY <1>3, <1>6, <1>7

\* n pairs of parentheses are off, and there is one more.
Wrapped(begin, end, n) ==
    /\ begin + n + 2 < end - n
    /\ prog[begin + n] = "open_paren_"
    /\ Exact("open_paren_", begin + n, end - n) = [valid |-> TRUE, end |-> end - n]

\* What parse_primary_expression comes to, when n pairs are off.
Stripped(begin, end, n) ==
    LET b == begin + n
        e == end - n
    IN  IF b >= e THEN AtEnd
        ELSE IF prog[b] # "open_paren_" THEN Expression(b, e)
        ELSE Then(FindExact("open_paren_", b, e),
                  LAMBDA p : IF p = b + 2 THEN {Refused} ELSE Expression(b, e))

\* Some pairs of parentheses are taken off, and what is left is looked at.
LEMMA PrimaryStrips ==
    ASSUME prog \in Seq(STRING), NEW begin \in Nat \ {0}, NEW end \in Nat, end <= Len(prog) + 1
    PROVE  \E n \in Nat : /\ parse_primary_expression(begin, end) = Stripped(begin, end, n)
                          /\ \A k \in 0..(n - 1) : Wrapped(begin, end, k)
<1>. DEFINE S == {k \in 0..Len(prog) : ~Wrapped(begin, end, k)}
            n == Min(S)
<1>0. Len(prog) \in Nat
  BY LenProperties
<1>1. parse_primary_expression(begin, end) = Stripped(begin, end, n)
  BY DEF parse_primary_expression, Stripped, Wrapped
<1>2. S \subseteq Nat /\ S \subseteq 0..Len(prog)
  BY <1>0
<1>3. Len(prog) \in S
  BY <1>0 DEF Wrapped
<1>4. n \in S /\ \A x \in S : n <= x
  BY <1>2, <1>3, MinIsLeast
<1>5. n \in 0..Len(prog)
  BY <1>2, <1>4
<1>6. ASSUME NEW k \in 0..(n - 1) PROVE Wrapped(begin, end, k)
  <2>. HIDE DEF n
  <2>1. k \in 0..Len(prog) /\ ~(n <= k)
    BY <1>0, <1>5
  <2>. QED
    BY <1>4, <2>1
<1>. HIDE DEF n
<1>7. n \in Nat
  BY <1>0, <1>5
<1>. QED
  BY <1>1, <1>6, <1>7

\* What is left is an expression.
LEMMA StrippedGives ==
    ASSUME prog \in Seq(STRING), NEW begin \in Nat \ {0}, NEW end \in Nat, end <= Len(prog) + 1,
           NEW n \in Nat, NEW x \in Stripped(begin, end, n)
    PROVE  /\ x.is # "ok" => x.is \in FailsWith
           /\ x.is = "ok" => /\ begin + n < end - n
                             /\ Nested(prog, begin + n, end - n) /\ Level(prog, begin + n, end - n)
                             /\ \A i \in (begin + n)..(end - n - 1) : prog[i] # "eos_"
<1>. DEFINE b == begin + n  e == end - n
<1>0. b \in Nat \ {0} /\ e \in Int
  OBVIOUS
<1>1. CASE b >= e
  BY <1>1, EndOutcomes DEF Stripped
<1>2. CASE b < e
  <2>1. e \in Nat /\ e <= Len(prog) + 1 /\ b <= Len(prog) /\ ~(b >= e) /\ Len(prog) \in Nat
    BY <1>0, <1>2, LenProperties
  <2>2. ASSUME x \in Expression(b, e)
        PROVE  /\ x.is # "ok" => x.is \in FailsWith
               /\ x.is = "ok" => /\ Nested(prog, b, e) /\ Level(prog, b, e)
                                 /\ \A i \in b..(e - 1) : prog[i] # "eos_"
    <3>. HIDE DEF b, e
    <3>. QED
      BY <1>0, <1>2, <2>1, <2>2, ExpressionGives
  <2>3. CASE prog[b] # "open_paren_"
    <3>1. x \in Expression(b, e)
      BY <2>1, <2>3 DEF Stripped
    <3>. QED
      BY <1>2, <2>2, <3>1
  <2>4. CASE prog[b] = "open_paren_"
    <3>1. PICK y \in FindExact("open_paren_", b, e) :
             x \in IF y.is = "ok" THEN (IF y.at = b + 2 THEN {Refused} ELSE Expression(b, e)) ELSE {y}
      BY <2>1, <2>4 DEF Stripped, Then
    <3>2. y.is # "ok" => y.is \in FailsWith
      <4>. HIDE DEF b, e
      <4>1. "open_paren_" \in OpeningScopes
        BY DEF OpeningScopes
      <4>. QED
        BY <1>0, <2>1, <4>1, FindExactGives
    <3>3. x \in Expression(b, e) \/ x = Refused \/ (x = y /\ y.is # "ok")
      BY <3>1
    <3>. QED
      BY <1>2, <2>2, <3>2, <3>3, EndOutcomes
  <2>. QED
    BY <2>3, <2>4
<1>. QED
  BY <1>0, <1>1, <1>2

\* What parse_primary_expression takes: in nested text, well nested tokens
\* of expressions.
LEMMA PrimaryGives ==
    ASSUME prog \in Seq(STRING), NEW begin \in Nat \ {0}, NEW end \in Nat, end <= Len(prog) + 1,
           NEW x \in parse_primary_expression(begin, end)
    PROVE  /\ x.is # "ok" => x.is \in FailsWith
           /\ x.is = "ok" => begin < end
           /\ x.is = "ok" /\ Nested(prog, begin, end) =>
                 /\ Level(prog, begin, end)
                 /\ \A i \in begin..(end - 1) : prog[i] # "eos_"
           /\ x.is = "ok" /\ end = begin + 1 => Nested(prog, begin, end) /\ Level(prog, begin, end)
<1>. PICK n \in Nat : /\ parse_primary_expression(begin, end) = Stripped(begin, end, n)
                      /\ \A k \in 0..(n - 1) : Wrapped(begin, end, k)
  BY PrimaryStrips
<1>1. x \in Stripped(begin, end, n)
  OBVIOUS
<1>2. /\ x.is # "ok" => x.is \in FailsWith
      /\ x.is = "ok" => /\ begin + n < end - n
                        /\ Nested(prog, begin + n, end - n) /\ Level(prog, begin + n, end - n)
                        /\ \A i \in (begin + n)..(end - n - 1) : prog[i] # "eos_"
  BY <1>1, StrippedGives
<1>3. CASE n = 0
  <2>1. begin + n = begin /\ end - n = end
    BY <1>3
  <2>. QED
    BY <1>2, <2>1
<1>4. CASE n # 0
  <2>0. "open_paren_" \in OpeningScopes /\ ClosingOf["open_paren_"] = "close_paren_" /\ Len(prog) \in Nat
    BY LenProperties DEF OpeningScopes, ClosingOf
  <2>1. ASSUME NEW k \in 0..(n - 1)
        PROVE  prog[begin + k] = "open_paren_" /\ prog[end - k - 1] = "close_paren_"
    <3>1. /\ begin + k + 2 < end - k /\ prog[begin + k] = "open_paren_"
          /\ Exact("open_paren_", begin + k, end - k) = [valid |-> TRUE, end |-> end - k]
      BY DEF Wrapped
    <3>2. begin + k \in Nat \ {0} /\ end - k \in Nat /\ begin + k < end - k
      BY <3>1
    <3>3. Exact("open_paren_", begin + k, end - k).valid
      BY <3>1
    <3>4. prog[Exact("open_paren_", begin + k, end - k).end - 1] = "close_paren_"
      BY <2>0, <3>2, <3>3, ExactCloses
    <3>. QED
      BY <3>1, <3>4
  <2>2. ASSUME x.is = "ok", Nested(prog, begin, end) PROVE Level(prog, begin, end)
    <3>1. 0 \in 0..(n - 1) /\ begin + 0 = begin /\ end - 0 = end
      BY <1>4
    <3>2. /\ begin + 0 + 2 < end - 0 /\ prog[begin + 0] = "open_paren_"
          /\ Exact("open_paren_", begin + 0, end - 0) = [valid |-> TRUE, end |-> end - 0]
      BY <3>1 DEF Wrapped
    <3>3. ScopeAt(prog, "open_paren_", begin, Exact("open_paren_", begin, end).end)
      BY <2>0, <2>2, <3>1, <3>2, ExactIsScope
    <3>4. ScopeAt(prog, "open_paren_", begin, end)
      BY <3>1, <3>2, <3>3
    <3>. QED
      BY <3>4, ScopeProperties
  <2>3. ASSUME x.is = "ok", NEW i \in begin..(end - 1) PROVE prog[i] # "eos_"
    <3>1. CASE i < begin + n
      <4>1. i - begin \in 0..(n - 1) /\ begin + (i - begin) = i
        BY <3>1
      <4>. QED
        BY <2>1, <4>1
    <3>2. CASE i >= end - n
      <4>1. end - 1 - i \in 0..(n - 1) /\ end - (end - 1 - i) - 1 = i
        BY <3>2
      <4>. QED
        BY <2>1, <4>1
    <3>3. CASE i \in (begin + n)..(end - n - 1)
      BY <1>2, <2>3, <3>3
    <3>. QED
      BY <3>1, <3>2, <3>3
  <2>4. x.is = "ok" => begin < end /\ end # begin + 1
    BY <1>2, <1>4
  <2>. QED
    BY <1>2, <2>2, <2>3, <2>4
<1>. QED
  BY <1>3, <1>4

-----------------------------------------------------------------------------
(* Statements, as find_statement and find_open_statement find them.        *)

\* In nested text no close token is unmatched.
LEMMA NestedMatches ==
    ASSUME prog \in Seq(STRING), NEW b \in Nat \ {0}, NEW e \in Nat, b <= e, e <= Len(prog) + 1,
           Nested(prog, b, e), NEW i \in 1..(e - b)
    PROVE  ~Unmatched(Part(prog, b, e), i)
<1>. DEFINE r == Part(prog, b, e)
<1>0. Len(prog) \in Nat /\ b \in 1..(Len(prog) + 1) /\ e \in b..(Len(prog) + 1)
  BY LenProperties
<1>. PICK y \in b..(e - 1) : y = b + i - 1
  OBVIOUS
<1>1. r[i] = prog[y]
  BY <1>0, PartOfText
<1>2. (\E k \in 1..(i - 1) : ClosesAt(r, k, i) /\ IsClosingScopeOf(r[k], r[i]))
         <=> (\E k \in b..(y - 1) : ClosesAt(prog, k, y) /\ IsClosingScopeOf(prog[k], prog[y]))
  BY <1>0, PartMatches
<1>3. IsClosingScope(prog[y]) =>
         \E k \in b..(y - 1) : ClosesAt(prog, k, y) /\ IsClosingScopeOf(prog[k], prog[y])
  BY DEF Nested
<1>. HIDE DEF r
<1>4. ~Unmatched(r, i)
  BY <1>1, <1>2, <1>3 DEF Unmatched
<1>. QED
  BY <1>4 DEF r

IsScopeToken(t) == IsOpeningScope(t) \/ IsClosingScope(t)

\* The end is behind an eos_ of the block, or one token behind the begin, where
\* the code takes a token that nothing ends up to the end of the block.
LEMMA FindStatementGives ==
    ASSUME prog \in Seq(STRING), NEW b \in Nat \ {0}, NEW end \in Nat, b < end, end < Len(prog),
           prog[end] = "close_brace_", NEW x \in FindStatement(b, end)
    PROVE  /\ x.is # "ok" => x.is \in FailsWith
           /\ x.is = "ok" => /\ x.at \in Nat /\ b < x.at /\ x.at <= end
                             /\ x.at = b + 1 \/ prog[x.at - 1] = "eos_"
                             /\ x.at = b + 1 => prog[b + 2] # "eos_" \/ IsScopeToken(prog[b + 1])
                             /\ x.at = b + 1 => NothingEnds(prog, b, end)
<1>. DEFINE r == Part(prog, b + 1, end)
            stops == {i \in 1..Len(r) :
                         Unmatched(r, i) \/ (Height(r, i) = 0 /\ r[i] \in {"eos_", prog[b]})}
<1>0. /\ Len(prog) \in Nat /\ b + 1 \in 1..(Len(prog) + 1) /\ end \in (b + 1)..(Len(prog) + 1)
      /\ ~(b + 1 > Len(prog))
  BY LenProperties
<1>1. /\ r \in Seq(STRING) /\ Len(r) = end - (b + 1)
      /\ \A i \in 1..(end - (b + 1)) : r[i] = prog[b + 1 + i - 1]
  BY <1>0, PartOfText
<1>2. \/ x = Ok(b + 2) /\ prog[b + 1] = "eos_"
      \/ x = Ok(b + Min(stops) + 1) /\ stops # {} /\ r[Min(stops)] = "eos_"
      \/ /\ x = Ok(b + 1) /\ stops = {} /\ prog[b + 1] # "eos_"
         /\ Height(r, Len(r)) = 0
      \/ x = Refused
  BY <1>0 DEF FindStatement, Part
<1>3. stops \subseteq Nat /\ stops \subseteq 1..(end - (b + 1))
  BY <1>1
<1>4. IsScopeToken(prog[end]) /\ prog[end] # "eos_"
  BY DEF IsScopeToken, IsClosingScope, ClosingScopes
<1>5. CASE x = Ok(b + 2) /\ prog[b + 1] = "eos_"
  <2>1. b + 1 # end /\ b + 2 <= end /\ b + 2 - 1 = b + 1 /\ b + 2 # b + 1
    BY <1>4, <1>5
  <2>. QED
    BY <1>5, <2>1, EndOutcomes
<1>6. CASE x = Ok(b + Min(stops) + 1) /\ stops # {} /\ r[Min(stops)] = "eos_"
  <2>1. Min(stops) \in stops
    BY <1>3, <1>6, MinIsLeast
  <2>2. PICK k \in 1..(end - (b + 1)) : k = Min(stops)
    BY <1>3, <2>1
  <2>3. r[k] = prog[b + k] /\ b + k + 1 - 1 = b + k
    <3>1. b + 1 + k - 1 = b + k
      OBVIOUS
    <3>. QED
      BY <1>1, <3>1
  <2>. HIDE DEF stops, r
  <2>4. prog[b + k] = "eos_" /\ x = Ok(b + k + 1)
    BY <1>6, <2>2, <2>3
  <2>. QED
    BY <2>2, <2>3, <2>4, EndOutcomes
<1>7. CASE /\ x = Ok(b + 1) /\ stops = {} /\ prog[b + 1] # "eos_"
           /\ Height(r, Len(r)) = 0
  <2>1. ASSUME prog[b + 2] = "eos_", ~IsScopeToken(prog[b + 1]) PROVE FALSE
    <3>1. b + 1 # end /\ b + 2 # end
      BY <1>4, <2>1
    <3>2. 1 \in 1..(end - (b + 1)) /\ 2 \in 1..(end - (b + 1)) /\ b + 1 + 1 - 1 = b + 1 /\ b + 1 + 2 - 1 = b + 2
      BY <3>1
    <3>3. r[1] = prog[b + 1] /\ r[2] = "eos_"
      BY <1>1, <2>1, <3>2
    <3>4. /\ ~IsOpeningScope(r[1]) /\ ~IsClosingScope(r[1])
          /\ ~IsOpeningScope(r[2]) /\ ~IsClosingScope(r[2])
      BY <2>1, <3>3 DEF IsScopeToken, IsOpeningScope, IsClosingScope, OpeningScopes, ClosingScopes
    <3>. HIDE DEF r
    <3>5. 1 - 1 = 0 /\ 2 - 1 = 1 /\ 1 \in Nat \ {0} /\ 2 \in Nat \ {0}
      OBVIOUS
    <3>6. Height(r, 1) = 0
      BY <1>1, <3>4, <3>5, HeightStep, HeightZero
    <3>7. Height(r, 2) = 0
      BY <1>1, <3>4, <3>5, <3>6, HeightStep
    <3>8. 2 \in stops
      BY <1>1, <3>2, <3>3, <3>7
    <3>. QED
      BY <1>7, <3>8
  <2>2. NothingEnds(prog, b, end)
    <3>1. \A i \in 1..Len(r) : ~Unmatched(r, i) /\ (r[i] = "eos_" => Height(r, i) # 0)
      BY <1>7
    <3>2. r = SubSeq(prog, b + 1, end - 1)
      BY DEF Part
    <3>. HIDE DEF r
    <3>3. WellNested(r, Len(r))
      BY <3>1 DEF WellNested, Unmatched
    <3>. QED
      BY <1>7, <3>1, <3>2, <3>3 DEF NothingEnds
  <2>. QED
    BY <1>7, <2>1, <2>2, EndOutcomes
<1>8. CASE x = Refused
  BY <1>8, EndOutcomes
<1>. QED
  BY <1>2, <1>5, <1>6, <1>7, <1>8

\* In nested text; for an empty range, too.
LEMMA FindOpenStatementGives ==
    ASSUME prog \in Seq(STRING), NEW b \in Nat \ {0}, NEW end \in Nat, b <= end, end < Len(prog),
           Nested(prog, b, end), NEW x \in FindOpenStatement(b, end)
    PROVE  /\ x.is # "ok" => x.is \in FailsWith
           /\ x.is = "ok" => /\ x.at \in Nat /\ b + 2 <= x.at /\ prog[x.at - 1] = "eos_"
                             /\ b < end => x.at <= end
                             /\ b = end => x.at = b + 2
<1>. DEFINE first == IF IsOpeningScope(prog[b]) THEN b ELSE b + 1
            r == Part(prog, first, end)
            stops == {i \in 1..Len(r) :
                         /\ first + i - 1 > b
                         /\ Unmatched(r, i) \/ (Height(r, i) = 0 /\ r[i] = "eos_")}
            stop == Min(stops)
<1>0. Len(prog) \in Nat /\ ~(b + 1 > Len(prog))
  BY LenProperties
<1>1. \/ x = Refused
      \/ x = Ok(b + 2) /\ prog[b + 1] = "eos_" /\ b + 1 # end
      \/ x = Ok(first + stop) /\ stops # {} /\ r[stop] = "eos_"
      \/ x = Stray /\ stops # {} /\ r[stop] # "eos_"
  <2>1. FindOpenStatement(b, end) =
            IF b + 1 = end THEN {Refused}
            ELSE IF b + 1 > Len(prog) THEN {Stray}
            ELSE IF prog[b + 1] = "eos_" THEN {Ok(b + 2)}
            ELSE IF stops = {} THEN {Refused}
            ELSE IF r[stop] = "eos_" THEN {Ok(first + stop)}
            ELSE IF Height(r, stop - 1) = 0 /\ r[stop] # "close_paren_" THEN {Stray}
            ELSE {Refused}
    BY DEF FindOpenStatement, Part
  <2>. HIDE DEF first, r, stops, stop
  <2>. QED
    BY <1>0, <2>1
<1>2. CASE x = Refused
  BY <1>2, EndOutcomes
<1>3. CASE x = Ok(b + 2) /\ prog[b + 1] = "eos_" /\ b + 1 # end
  <2>1. b + 2 - 1 = b + 1 /\ (b < end => b + 2 <= end)
    BY <1>3
  <2>. QED
    BY <1>3, <2>1, EndOutcomes
<1>4. CASE stops # {}
  <2>1. PICK f \in {b, b + 1} : f = first
    OBVIOUS
  <2>2. f \in Nat \ {0} /\ f <= end
    <3>1. CASE f <= end
      BY <3>1
    <3>2. CASE ~(f <= end)
      <4>1. Len(SubSeq(prog, f, end - 1)) = 0
        BY <3>2, <2>1, LenProperties
      <4>2. Len(r) = 0
        BY <2>1, <4>1 DEF Part
      <4>3. stops = {}
        BY <4>2
      <4>. QED
        BY <1>4, <4>3
    <3>. QED
      BY <3>1, <3>2
  <2>4. /\ f \in 1..(Len(prog) + 1) /\ end \in f..(Len(prog) + 1) /\ end <= Len(prog) + 1
    BY <1>0, <2>2
  <2>5. /\ Len(r) = end - f
        /\ \A i \in 1..(end - f) : r[i] = prog[f + i - 1]
    <3>1. /\ Len(Part(prog, f, end)) = end - f
          /\ \A i \in 1..(end - f) : Part(prog, f, end)[i] = prog[f + i - 1]
      BY <2>4, PartOfText
    <3>. QED
      BY <2>1, <3>1
  <2>6. f < end
    <3>1. CASE ~(f < end)
      <4>1. Len(r) = 0
        BY <2>2, <2>5, <3>1
      <4>2. stops = {}
        BY <4>1
      <4>. QED
        BY <1>4, <4>2
    <3>. QED
      BY <3>1
  <2>7. b < end
    BY <2>1, <2>6
  <2>8. Nested(prog, f, end)
    <3>1. CASE IsOpeningScope(prog[b])
      BY <3>1, <2>1
    <3>2. CASE ~IsOpeningScope(prog[b])
      <4>1. ~IsClosingScope(prog[b])
        BY <2>7, NothingCloses
      <4>2. Height(prog, b) = Height(prog, b - 1)
        BY <3>2, <4>1, HeightStep
      <4>3. b + 1 - 1 = b /\ f = b + 1 /\ b + 1 \in b..end
        BY <2>1, <2>7, <3>2
      <4>4. Level(prog, b, b + 1)
        BY <4>2, <4>3 DEF Level
      <4>. QED
        BY <4>3, <4>4, NestedBehind
    <3>. QED
      BY <3>1, <3>2
  <2>9. \A i \in 1..(end - f) : ~Unmatched(Part(prog, f, end), i)
    BY <2>2, <2>4, <2>8, NestedMatches
  <2>10. stops \subseteq Nat
    BY <2>5
  <2>11. stop \in stops
    BY <1>4, <2>10, MinIsLeast
  <2>12. PICK k \in 1..(end - f) : k = stop
    BY <2>5, <2>11
  <2>13. first + k - 1 > b /\ (Unmatched(r, k) \/ (Height(r, k) = 0 /\ r[k] = "eos_"))
    BY <2>11, <2>12
  <2>14. ~Unmatched(r, k)
    BY <2>1, <2>9
  <2>15. r[k] = prog[f + k - 1]
    BY <2>5
  <2>. HIDE DEF first, r, stops, stop
  <2>16. prog[f + k - 1] = "eos_" /\ r[stop] = "eos_" /\ f + k - 1 > b
    BY <2>1, <2>12, <2>13, <2>14, <2>15
  <2>17. x = Refused \/ (x = Ok(b + 2) /\ prog[b + 1] = "eos_" /\ b + 1 # end) \/ x = Ok(f + k)
    BY <1>1, <2>1, <2>12, <2>16
  <2>18. f + k \in Nat /\ b + 2 <= f + k /\ f + k <= end /\ b # end
    BY <2>2, <2>7, <2>16
  <2>. QED
    BY <1>2, <1>3, <2>16, <2>17, <2>18, EndOutcomes
<1>. QED
  BY <1>1, <1>2, <1>3, <1>4

\* parse_value_statement: an expression up to its eos_.
LEMMA ValueGives ==
    ASSUME prog \in Seq(STRING), NEW b \in Nat \ {0}, NEW end \in Nat, b <= end, end < Len(prog),
           Nested(prog, b, end), b = end => prog[b + 1] # "eos_" \/ IsScopeToken(prog[b]),
           NEW x \in parse_value_statement(b, end)
    PROVE  /\ x.is # "ok" => x.is \in FailsWith
           /\ x.is = "ok" => /\ x.at \in Nat /\ b + 2 <= x.at /\ x.at <= end
                             /\ prog[x.at - 1] = "eos_" /\ Prefix(prog, b, x.at - 1, "eos_")
<1>0. Len(prog) \in Nat
  BY LenProperties
<1>1. PICK y \in FindOpenStatement(b, end) :
         x \in IF y.is = "ok"
               THEN Then(parse_primary_expression(b, y.at - 1), LAMBDA q : {Ok(y.at)})
               ELSE {y}
  BY DEF parse_value_statement, Then
<1>2. /\ y.is # "ok" => y.is \in FailsWith
      /\ y.is = "ok" => /\ y.at \in Nat /\ b + 2 <= y.at /\ prog[y.at - 1] = "eos_"
                        /\ b < end => y.at <= end
                        /\ b = end => y.at = b + 2
  BY FindOpenStatementGives
<1>3. CASE y.is # "ok"
  <2>1. x = y
    BY <1>1, <1>3
  <2>. QED
    BY <1>2, <1>3, <2>1, EndOutcomes
<1>4. CASE y.is = "ok"
  <2>1. PICK e \in Nat : e = y.at - 1
    BY <1>2, <1>4
  <2>2. PICK z \in parse_primary_expression(b, e) : x = IF z.is = "ok" THEN Ok(y.at) ELSE z
    BY <1>1, <1>4, <2>1 DEF Then
  <2>3. e <= Len(prog) + 1
    BY <1>0, <1>2, <1>4, <2>1
  <2>4. /\ z.is # "ok" => z.is \in FailsWith
        /\ z.is = "ok" => b < e
        /\ z.is = "ok" /\ Nested(prog, b, e) =>
              /\ Level(prog, b, e)
              /\ \A i \in b..(e - 1) : prog[i] # "eos_"
        /\ z.is = "ok" /\ e = b + 1 => Nested(prog, b, e) /\ Level(prog, b, e)
    BY <2>3, PrimaryGives
  <2>5. CASE z.is # "ok"
    BY <2>2, <2>4, <2>5, EndOutcomes
  <2>6. CASE z.is = "ok"
    <3>1. x.is = "ok" /\ x.at = y.at
      BY <2>2, <2>6, EndOutcomes
    <3>2. b # end
      <4>. SUFFICES ASSUME b = end PROVE FALSE
        OBVIOUS
      <4>1. e = b + 1 /\ prog[b + 1] = "eos_"
        BY <1>2, <1>4, <2>1
      <4>2. Nested(prog, b, b + 1) /\ Level(prog, b, b + 1) /\ IsScopeToken(prog[b])
        BY <2>4, <2>6, <4>1
      <4>3. ~IsClosingScope(prog[b])
        BY <4>2, NothingCloses
      <4>4. Height(prog, b) = Height(prog, b - 1) + 1
        BY <4>2, <4>3, HeightStep DEF IsScopeToken
      <4>5. Height(prog, b) = Height(prog, b - 1)
        <5>1. b + 1 - 1 = b
          OBVIOUS
        <5>. QED
          BY <4>2, <5>1 DEF Level
      <4>6. Height(prog, b - 1) \in Int
        BY HeightType
      <4>. QED
        BY <4>4, <4>5, <4>6
    <3>3. y.at <= end /\ e <= end /\ b <= e
      BY <1>2, <1>4, <2>1, <3>2
    <3>4. Nested(prog, b, e)
      BY <3>3, NestedPrefix
    <3>5. Prefix(prog, b, e, "eos_")
      BY <2>4, <2>6, <3>3, <3>4 DEF Prefix, NoEnd
    <3>. QED
      BY <1>2, <1>4, <2>1, <3>1, <3>3, <3>5, EndOutcomes
  <2>. QED
    BY <2>5, <2>6
<1>. QED
  BY <1>3, <1>4

-----------------------------------------------------------------------------
(* What the statements are read with.                                      *)

\* What is read of a statement is read piece by piece.
LEMMA PrefixThen ==
    ASSUME NEW s \in Seq(STRING), NEW b \in Nat \ {0}, NEW c \in Nat \ {0}, NEW d \in Nat \ {0}, NEW last,
           Prefix(s, b, c, last), Prefix(s, c, d, last)
    PROVE  Prefix(s, b, d, last)
<1>1. b <= c /\ c <= d /\ Height(s, c - 1) = Height(s, b - 1) /\ Height(s, d - 1) = Height(s, c - 1)
  BY DEF Prefix, Level
<1>2. NoEnd(s, b, d, last)
  <2>. SUFFICES ASSUME NEW i \in b..(d - 1), s[i] = last PROVE Height(s, i) # Height(s, b - 1)
    BY DEF NoEnd
  <2>1. CASE i < c
    <3>1. i \in b..(c - 1)
      BY <2>1
    <3>. QED
      BY <3>1 DEF Prefix, NoEnd
  <2>2. CASE ~(i < c)
    <3>1. i \in c..(d - 1)
      BY <2>2
    <3>. QED
      BY <1>1, <3>1 DEF Prefix, NoEnd
  <2>. QED
    BY <2>1, <2>2
<1>. QED
  BY <1>1, <1>2 DEF Prefix, Level

\* Up to p neither end of a statement is read, and h scopes are open.
Enders == {"eos_", "close_brace_"}
ReadTo(b, p, h) ==
    /\ b <= p /\ Height(prog, p - 1) = Height(prog, b - 1) + h
    /\ \A i \in b..(p - 1) : prog[i] \notin Enders

\* One more token is read, in a constraint.
LEMMA ReadToken ==
    ASSUME prog \in Seq(STRING), NEW b \in Nat \ {0}, NEW p \in Nat, NEW h \in Int, ReadTo(b, p, h),
           prog[p] \notin Enders
    PROVE  /\ IsOpeningScope(prog[p]) => ReadTo(b, p + 1, h + 1)
           /\ IsClosingScope(prog[p]) => ReadTo(b, p + 1, h - 1)
           /\ ~IsOpeningScope(prog[p]) /\ ~IsClosingScope(prog[p]) => ReadTo(b, p + 1, h)
<1>1. p \in Nat \ {0} /\ p + 1 - 1 = p /\ b <= p /\ b <= p + 1
  BY DEF ReadTo
<1>2. Height(prog, p - 1) \in Int /\ Height(prog, b - 1) \in Int
  BY <1>1, HeightType
<1>3. Height(prog, p - 1) = Height(prog, b - 1) + h
  BY DEF ReadTo
<1>4. \A i \in b..(p + 1 - 1) : prog[i] \notin Enders
  <2>1. \A i \in b..(p + 1 - 1) : i \in b..(p - 1) \/ i = p
    BY <1>1
  <2>. QED
    BY <2>1 DEF ReadTo
<1>5. ASSUME IsOpeningScope(prog[p]) PROVE ReadTo(b, p + 1, h + 1)
  <2>0. Height(prog, p) = Height(prog, p - 1) + 1
    BY <1>1, <1>5, HeightStep
  <2>1. Height(prog, p) = Height(prog, b - 1) + (h + 1)
    BY <1>2, <1>3, <2>0
  <2>. QED
    BY <1>1, <1>4, <1>5, <2>1 DEF ReadTo
<1>6. ASSUME IsClosingScope(prog[p]) PROVE ReadTo(b, p + 1, h - 1)
  <2>0. Height(prog, p) = Height(prog, p - 1) - 1
    BY <1>1, <1>6, HeightStep
  <2>1. Height(prog, p) = Height(prog, b - 1) + (h - 1)
    BY <1>2, <1>3, <2>0
  <2>. QED
    BY <1>1, <1>4, <1>6, <2>1 DEF ReadTo
<1>7. ASSUME ~IsOpeningScope(prog[p]), ~IsClosingScope(prog[p]) PROVE ReadTo(b, p + 1, h)
  <2>1. Height(prog, p) = Height(prog, b - 1) + h
    BY <1>1, <1>2, <1>3, <1>7, HeightStep
  <2>. QED
    BY <1>1, <1>4, <1>7, <2>1 DEF ReadTo
<1>. QED
  BY <1>5, <1>6, <1>7

\* One mask that has been read, and one that may be missing.
LEMMA ScanTokenIs ==
    ASSUME NEW p, NEW end, NEW type
    PROVE  /\ \/ ScanToken(type, p, end) = 0
              \/ p # 0 /\ p < end /\ ScanToken(type, p, end) = p + 1 /\ prog[p] = type
           /\ \/ ScanOptional(type, p, end) = 0
              \/ p # 0 /\ p < end /\ ScanOptional(type, p, end) = p + 1 /\ prog[p] = type
              \/ p # 0 /\ p < end /\ ScanOptional(type, p, end) = p
BY DEF ScanToken, ScanOptional

\* aint[-n ... -n] closes its bracket, whichever of its tokens are there.
LEMMA CsoIntGives ==
    ASSUME prog \in Seq(STRING), NEW b \in Nat \ {0}, NEW end \in Nat, b < end, prog[b] = "aint_",
           NEW last \in Enders, NEW x \in parse_cso_int(b, end)
    PROVE  x.is = "ok" /\ x.at \in Nat /\ b < x.at /\ x.at <= end /\ Prefix(prog, b, x.at, last)
<1>. DEFINE T(type, p) == ScanToken(type, p, end)
            S(p) == ScanOptional("subtraction_", p, end)
<1>. PICK p1 : p1 = T("aint_", b)
  OBVIOUS
<1>. PICK p2 : p2 = T("open_bracket_", p1)
  OBVIOUS
<1>. PICK p3 : p3 = S(p2)
  OBVIOUS
<1>. PICK p4 : p4 = T("number_literal_", p3)
  OBVIOUS
<1>. PICK p5 : p5 = T("ellipsis_", p4)
  OBVIOUS
<1>. PICK p6 : p6 = S(p5)
  OBVIOUS
<1>. PICK p7 : p7 = T("number_literal_", p6)
  OBVIOUS
<1>. PICK p8 : p8 = T("close_bracket_", p7)
  OBVIOUS
<1>1. x = Ok(IF p8 = 0 THEN b + 1 ELSE p8)
  BY DEF parse_cso_int
<1>2. /\ \A t \in {"aint_", "subtraction_", "number_literal_", "ellipsis_"} :
            t \notin Enders /\ ~IsOpeningScope(t) /\ ~IsClosingScope(t)
      /\ "open_bracket_" \notin Enders /\ IsOpeningScope("open_bracket_")
      /\ "close_bracket_" \notin Enders /\ IsClosingScope("close_bracket_")
  BY DEF Enders, IsOpeningScope, IsClosingScope, OpeningScopes, ClosingScopes
<1>3. ReadTo(b, b, 0)
  <2>1. Height(prog, b - 1) \in Int
    BY HeightType
  <2>. QED
    BY <2>1 DEF ReadTo
<1>. HIDE DEF T, S
<1>4. p1 = 0 \/ p1 = b + 1
  BY ScanTokenIs DEF T
<1>5. p1 \in Nat /\ (p1 # 0 => b <= p1 /\ ReadTo(b, p1, 0))
  BY <1>2, <1>3, <1>4, ReadToken
<1>6. p2 = 0 \/ (p1 # 0 /\ p2 = p1 + 1 /\ prog[p1] = "open_bracket_")
  BY <1>5, ScanTokenIs DEF T
<1>7. p2 \in Nat /\ (p2 # 0 => b < p2 /\ ReadTo(b, p2, 1))
  <2>1. 0 + 1 = 1
    OBVIOUS
  <2>. QED
    BY <1>2, <1>5, <1>6, <2>1, ReadToken
<1>8. p3 = 0 \/ (p2 # 0 /\ p3 = p2 + 1 /\ prog[p2] = "subtraction_") \/ (p2 # 0 /\ p3 = p2)
  BY <1>7, ScanTokenIs DEF S
<1>9. p3 \in Nat /\ (p3 # 0 => b < p3 /\ ReadTo(b, p3, 1))
  BY <1>2, <1>7, <1>8, ReadToken
<1>10. p4 = 0 \/ (p3 # 0 /\ p4 = p3 + 1 /\ prog[p3] = "number_literal_")
  BY <1>9, ScanTokenIs DEF T
<1>11. p4 \in Nat /\ (p4 # 0 => b < p4 /\ ReadTo(b, p4, 1))
  BY <1>2, <1>9, <1>10, ReadToken
<1>12. p5 = 0 \/ (p4 # 0 /\ p5 = p4 + 1 /\ prog[p4] = "ellipsis_")
  BY <1>11, ScanTokenIs DEF T
<1>13. p5 \in Nat /\ (p5 # 0 => b < p5 /\ ReadTo(b, p5, 1))
  BY <1>2, <1>11, <1>12, ReadToken
<1>14. p6 = 0 \/ (p5 # 0 /\ p6 = p5 + 1 /\ prog[p5] = "subtraction_") \/ (p5 # 0 /\ p6 = p5)
  BY <1>13, ScanTokenIs DEF S
<1>15. p6 \in Nat /\ (p6 # 0 => b < p6 /\ ReadTo(b, p6, 1))
  BY <1>2, <1>13, <1>14, ReadToken
<1>16. p7 = 0 \/ (p6 # 0 /\ p7 = p6 + 1 /\ prog[p6] = "number_literal_")
  BY <1>15, ScanTokenIs DEF T
<1>17. p7 \in Nat /\ (p7 # 0 => b < p7 /\ ReadTo(b, p7, 1))
  BY <1>2, <1>15, <1>16, ReadToken
<1>18. p8 = 0 \/ (p7 # 0 /\ p7 < end /\ p8 = p7 + 1 /\ prog[p7] = "close_bracket_")
  BY <1>17, ScanTokenIs DEF T
<1>19. p8 \in Nat /\ (p8 # 0 => b < p8 /\ p8 <= end /\ ReadTo(b, p8, 0))
  <2>1. 1 - 1 = 0
    OBVIOUS
  <2>. QED
    BY <1>2, <1>17, <1>18, <2>1, ReadToken
<1>20. CASE p8 = 0
  <2>1. Prefix(prog, b, b + 1, last)
    <3>1. prog[b] # last /\ ~IsOpeningScope(prog[b]) /\ ~IsClosingScope(prog[b])
      BY <1>2
    <3>2. Prefix(prog, b, b, last)
      BY PrefixStart
    <3>. QED
      BY <3>1, <3>2, PrefixToken
  <2>. QED
    BY <1>1, <1>20, <2>1, EndOutcomes
<1>21. CASE p8 # 0
  <2>1. b < p8 /\ p8 <= end /\ ReadTo(b, p8, 0)
    BY <1>19, <1>21
  <2>2. Height(prog, b - 1) \in Int
    BY HeightType
  <2>3. Prefix(prog, b, p8, last)
    BY <2>1, <2>2 DEF ReadTo, Prefix, Level, NoEnd
  <2>. QED
    BY <1>1, <1>19, <1>21, <2>1, <2>3, EndOutcomes
<1>. QED
  BY <1>20, <1>21

\* So does a constraint of any type.
LEMMA ConstraintGives ==
    ASSUME prog \in Seq(STRING), NEW b \in Nat \ {0}, NEW end \in Nat, b < end, end <= Len(prog) + 1,
           NEW last \in Enders, NEW x \in Constraint(b, end)
    PROVE  /\ x.is # "ok" => x.is \in FailsWith
           /\ x.is = "ok" => x.at \in Nat /\ b < x.at /\ x.at <= end /\ Prefix(prog, b, x.at, last)
<1>0. Prefix(prog, b, b, last)
  BY PrefixStart
<1>1. CASE prog[b] = "alnumus_"
  <2>1. x = Ok(b + 1)
    BY <1>1 DEF Constraint
  <2>2. prog[b] # last /\ ~IsOpeningScope(prog[b]) /\ ~IsClosingScope(prog[b])
    BY <1>1 DEF Enders, IsOpeningScope, IsClosingScope, OpeningScopes, ClosingScopes
  <2>3. Prefix(prog, b, b + 1, last)
    BY <1>0, <2>2, PrefixToken
  <2>. QED
    BY <2>1, <2>3, EndOutcomes
<1>2. CASE prog[b] = "aint_"
  <2>1. x \in parse_cso_int(b, end)
    BY <1>2 DEF Constraint
  <2>. QED
    BY <1>2, <2>1, CsoIntGives
<1>3. CASE prog[b] = "open_bracket_"
  <2>1. x \in FindAnyScope("open_bracket_", b, end)
    BY <1>3 DEF Constraint
  <2>2. ClosingOf["open_bracket_"] # last
    BY DEF ClosingOf, Enders
  <2>3. /\ x.is # "ok" => x.is \in FailsWith
        /\ x.is = "ok" => /\ x.at \in Nat /\ b + 2 <= x.at /\ x.at <= end
                          /\ ScopeAt(prog, "open_bracket_", b, x.at)
    BY <2>1, FindAnyScopeGives
  <2>4. x.is = "ok" => Prefix(prog, b, x.at, last)
    BY <1>0, <2>2, <2>3, PrefixScope
  <2>. QED
    BY <2>3, <2>4
<1>4. CASE prog[b] \notin {"alnumus_", "aint_", "open_bracket_"}
  <2>1. x = Refused
    BY <1>4 DEF Constraint
  <2>. QED
    BY <2>1, EndOutcomes
<1>. QED
  BY <1>1, <1>2, <1>3, <1>4

-----------------------------------------------------------------------------
(* The statements that call no block.                                      *)

\* An expression and an eos_ complete what is read of a statement.
LEMMA ValueEnds ==
    ASSUME prog \in Seq(STRING), NEW b \in Nat \ {0}, NEW end \in Nat, end < Len(prog),
           Nested(prog, b, end), prog[b] # "open_bracket_",
           NEW c \in Nat \ {0}, NEW e \in Nat, c <= e, e <= end, Prefix(prog, b, c, "eos_"),
           c = e => prog[c + 1] # "eos_" \/ IsScopeToken(prog[c]),
           NEW x \in parse_value_statement(c, e)
    PROVE  /\ x.is # "ok" => x.is \in FailsWith
           /\ x.is = "ok" => x.at \in Nat /\ x.at <= e /\ Whole(prog, b, x.at)
<1>0. Len(prog) \in Nat
  BY LenProperties
<1>1. b <= c /\ c \in b..end /\ Level(prog, b, c) /\ e < Len(prog)
  BY <1>0 DEF Prefix
<1>2. Nested(prog, c, end)
  BY <1>1, NestedBehind
<1>3. Nested(prog, c, e)
  BY <1>2, NestedPrefix
<1>4. /\ x.is # "ok" => x.is \in FailsWith
      /\ x.is = "ok" => /\ x.at \in Nat /\ c + 2 <= x.at /\ x.at <= e
                        /\ prog[x.at - 1] = "eos_" /\ Prefix(prog, c, x.at - 1, "eos_")
  BY <1>1, <1>3, ValueGives
<1>5. ASSUME x.is = "ok" PROVE Whole(prog, b, x.at)
  <2>1. PICK d \in Nat \ {0} : d = x.at - 1 /\ x.at = d + 1 /\ d < end
    BY <1>4, <1>5
  <2>2. Prefix(prog, b, d, "eos_") /\ prog[d] = "eos_"
    BY <1>4, <1>5, <2>1, PrefixThen
  <2>. QED
    BY <2>1, <2>2, WholeWithEos
<1>. QED
  BY <1>4, <1>5

\* Where a statement of a block stands: in nested text, before a close brace.
AtBlock(b, end) ==
    /\ b < end /\ end < Len(prog) /\ prog[end] = "close_brace_"
    /\ Nested(prog, b, end)

LEMMA BlockEnds == "close_brace_" # "eos_" /\ IsScopeToken("close_brace_")
BY DEF IsScopeToken, IsClosingScope, ClosingScopes

\* The value ends the statement, inside its block.
LEMMA ValueInBlock ==
    ASSUME prog \in Seq(STRING), NEW b \in Nat \ {0}, NEW end \in Nat, AtBlock(b, end),
           prog[b] # "open_bracket_",
           NEW c \in Nat \ {0}, c <= end, Prefix(prog, b, c, "eos_"),
           NEW x \in parse_value_statement(c, end)
    PROVE  /\ x.is # "ok" => x.is \in FailsWith
           /\ x.is = "ok" => x.at \in Nat /\ x.at <= end /\ Whole(prog, b, x.at)
<1>1. /\ end < Len(prog) /\ Nested(prog, b, end) /\ end <= end
      /\ c = end => prog[c + 1] # "eos_" \/ IsScopeToken(prog[c])
  BY BlockEnds DEF AtBlock
<1>. QED
  BY <1>1, ValueEnds

\* What comes behind the name and the constraint of a variable.
AssignedAt(p, end) ==
    IF p >= end THEN AtEnd
    ELSE CASE prog[p] = "eos_"               -> {Ok(p + 1)}
           [] prog[p] = "simple_assignment_" -> parse_value_statement(p + 1, end)
           [] OTHER                          -> {Refused}

\* A statement that calls no block is whole: the eos_ that ends it was found with
\* searches that began behind its own begin.
LEMMA AssignedGives ==
    ASSUME prog \in Seq(STRING), NEW b \in Nat \ {0}, NEW end \in Nat, AtBlock(b, end),
           prog[b] # "open_bracket_",
           NEW p \in Nat \ {0}, Prefix(prog, b, p, "eos_"), NEW x \in AssignedAt(p, end)
    PROVE  /\ x.is # "ok" => x.is \in FailsWith
           /\ x.is = "ok" => x.at \in Nat /\ x.at <= end /\ Whole(prog, b, x.at)
<1>1. CASE p >= end
  BY <1>1, EndOutcomes DEF AssignedAt
<1>2. CASE ~(p >= end) /\ prog[p] = "eos_"
  <2>1. x = Ok(p + 1)
    BY <1>2 DEF AssignedAt
  <2>2. p < end /\ p + 1 <= end
    BY <1>2
  <2>3. Whole(prog, b, p + 1)
    BY <1>2, <2>2, WholeWithEos DEF AtBlock
  <2>. QED
    BY <2>1, <2>2, <2>3, EndOutcomes
<1>3. CASE ~(p >= end) /\ prog[p] = "simple_assignment_"
  <2>1. x \in parse_value_statement(p + 1, end)
    BY <1>3 DEF AssignedAt
  <2>2. p + 1 \in Nat \ {0} /\ p + 1 <= end
    BY <1>3
  <2>3. prog[p] # "eos_" /\ ~IsOpeningScope(prog[p]) /\ ~IsClosingScope(prog[p])
    BY <1>3 DEF IsOpeningScope, IsClosingScope, OpeningScopes, ClosingScopes
  <2>4. Prefix(prog, b, p + 1, "eos_")
    BY <2>3, PrefixToken
  <2>. QED
    BY <2>1, <2>2, <2>4, ValueInBlock
<1>4. CASE ~(p >= end) /\ prog[p] \notin {"eos_", "simple_assignment_"}
  <2>1. x = Refused
    BY <1>4 DEF AssignedAt
  <2>. QED
    BY <2>1, EndOutcomes
<1>. QED
  BY <1>1, <1>2, <1>3, <1>4

LEMMA VarGives ==
    ASSUME prog \in Seq(STRING), NEW b \in Nat \ {0}, NEW end \in Nat, AtBlock(b, end),
           prog[b] = "alnumus_", NEW x \in parse_directive_var(b, end)
    PROVE  /\ x.is # "ok" => x.is \in FailsWith
           /\ x.is = "ok" => x.at \in Nat /\ x.at <= end /\ Whole(prog, b, x.at)
<1>1. prog[b] \notin {"eos_", "open_bracket_"} /\ ~IsOpeningScope(prog[b]) /\ ~IsClosingScope(prog[b])
  BY DEF IsOpeningScope, IsClosingScope, OpeningScopes, ClosingScopes
<1>2. Prefix(prog, b, b, "eos_")
  BY PrefixStart
<1>3. Prefix(prog, b, b + 1, "eos_") /\ b + 1 \in Nat \ {0}
  BY <1>1, <1>2, PrefixToken
<1>4. CASE b + 1 < end /\ StartsConstraint(prog[b + 1])
  <2>1. PICK y \in Constraint(b + 1, end) :
           x \in IF y.is = "ok" THEN AssignedAt(y.at, end) ELSE {y}
    BY <1>4 DEF parse_directive_var, Then, AssignedAt
  <2>2. end <= Len(prog) + 1 /\ "eos_" \in Enders
    BY LenProperties DEF AtBlock, Enders
  <2>3. /\ y.is # "ok" => y.is \in FailsWith
        /\ y.is = "ok" => y.at \in Nat /\ b + 1 < y.at /\ y.at <= end
                          /\ Prefix(prog, b + 1, y.at, "eos_")
    BY <1>3, <1>4, <2>2, ConstraintGives
  <2>4. CASE y.is = "ok"
    <3>1. x \in AssignedAt(y.at, end) /\ y.at \in Nat \ {0}
      BY <2>1, <2>3, <2>4
    <3>2. Prefix(prog, b, y.at, "eos_")
      BY <1>3, <2>3, <2>4, <3>1, PrefixThen
    <3>. QED
      BY <1>1, <3>1, <3>2, AssignedGives
  <2>5. CASE y.is # "ok"
    BY <2>1, <2>3, <2>5
  <2>. QED
    BY <2>4, <2>5
<1>5. CASE ~(b + 1 < end /\ StartsConstraint(prog[b + 1]))
  <2>1. x \in AssignedAt(b + 1, end)
    BY <1>5 DEF parse_directive_var, AssignedAt
  <2>. QED
    BY <1>1, <1>3, <2>1, AssignedGives
<1>. QED
  BY <1>4, <1>5

LEMMA TypeGives ==
    ASSUME prog \in Seq(STRING), NEW b \in Nat \ {0}, NEW end \in Nat, AtBlock(b, end),
           prog[b] = "use_", NEW x \in parse_directive_type(b, end)
    PROVE  /\ x.is # "ok" => x.is \in FailsWith
           /\ x.is = "ok" => x.at \in Nat /\ x.at <= end /\ Whole(prog, b, x.at)
<1>1. \A t \in {"use_", "alnumus_", "simple_assignment_"} :
         t \notin {"eos_", "open_bracket_"} /\ ~IsOpeningScope(t) /\ ~IsClosingScope(t)
  BY DEF IsOpeningScope, IsClosingScope, OpeningScopes, ClosingScopes
<1>2. Prefix(prog, b, b, "eos_")
  BY PrefixStart
<1>3. Prefix(prog, b, b + 1, "eos_") /\ b + 1 \in Nat
  BY <1>1, <1>2, PrefixToken
<1>4. PICK y \in Expect("alnumus_", b + 1, end) :
         x \in IF y.is = "ok"
               THEN Then(Expect("simple_assignment_", y.at + 1, end),
                         LAMBDA q : parse_value_statement(q + 1, end))
               ELSE {y}
  BY DEF parse_directive_type, Then
<1>5. /\ y.is # "ok" => y.is \in FailsWith
      /\ y.is = "ok" => y.at = b + 1 /\ b + 1 < end /\ prog[b + 1] = "alnumus_"
  BY <1>3, ExpectGives
<1>6. CASE y.is # "ok"
  BY <1>4, <1>5, <1>6
<1>7. CASE y.is = "ok"
  <2>1. b + 1 + 1 = b + 2 /\ b + 2 + 1 = b + 3 /\ b + 2 \in Nat /\ b + 3 \in Nat \ {0}
    OBVIOUS
  <2>2. PICK z \in Expect("simple_assignment_", b + 2, end) :
           x \in IF z.is = "ok" THEN parse_value_statement(z.at + 1, end) ELSE {z}
    BY <1>4, <1>5, <1>7, <2>1 DEF Then
  <2>3. /\ z.is # "ok" => z.is \in FailsWith
        /\ z.is = "ok" => z.at = b + 2 /\ b + 2 < end /\ prog[b + 2] = "simple_assignment_"
    BY <2>1, ExpectGives
  <2>4. CASE z.is # "ok"
    BY <2>2, <2>3, <2>4
  <2>5. CASE z.is = "ok"
    <3>1. x \in parse_value_statement(b + 3, end) /\ b + 3 <= end
      BY <2>1, <2>2, <2>3, <2>5
    <3>2. Prefix(prog, b, b + 2, "eos_")
      BY <1>1, <1>3, <1>5, <1>7, <2>1, PrefixToken
    <3>3. Prefix(prog, b, b + 3, "eos_")
      BY <1>1, <2>1, <2>3, <2>5, <3>2, PrefixToken
    <3>. QED
      BY <1>1, <2>1, <3>1, <3>3, ValueInBlock
  <2>. QED
    BY <2>4, <2>5
<1>. QED
  BY <1>6, <1>7

LEMMA MinOfTwo ==
    ASSUME NEW x \in Nat, NEW y \in Nat, x <= y
    PROVE  Min({x, y}) = x
<1>1. {x, y} \subseteq Nat /\ {x, y} # {}
  OBVIOUS
<1>2. Min({x, y}) \in {x, y} /\ \A z \in {x, y} : Min({x, y}) <= z
  BY <1>1, MinIsLeast
<1>. QED
  BY <1>2

LEMMA ReturnGives ==
    ASSUME prog \in Seq(STRING), NEW b \in Nat \ {0}, NEW end \in Nat, AtBlock(b, end),
           prog[b] = "return_", NEW x \in parse_directive_return(b, end)
    PROVE  /\ x.is # "ok" => x.is \in FailsWith
           /\ x.is = "ok" => x.at \in Nat /\ x.at <= end /\ Whole(prog, b, x.at)
<1>1. prog[b] \notin {"eos_", "open_bracket_"} /\ ~IsOpeningScope(prog[b]) /\ ~IsClosingScope(prog[b])
  BY DEF IsOpeningScope, IsClosingScope, OpeningScopes, ClosingScopes
<1>2. Prefix(prog, b, b, "eos_")
  BY PrefixStart
<1>3. Prefix(prog, b, b + 1, "eos_") /\ b + 1 \in Nat \ {0}
  BY <1>1, <1>2, PrefixToken
<1>4. PICK y \in FindStatement(b, end) :
         x \in IF y.is = "ok" THEN parse_value_statement(Min({b + 1, y.at}), y.at) ELSE {y}
  BY DEF parse_directive_return, Then
<1>5. /\ y.is # "ok" => y.is \in FailsWith
      /\ y.is = "ok" => /\ y.at \in Nat /\ b < y.at /\ y.at <= end
                        /\ y.at = b + 1 => prog[b + 2] # "eos_" \/ IsScopeToken(prog[b + 1])
  BY FindStatementGives DEF AtBlock
<1>6. CASE y.is # "ok"
  BY <1>4, <1>5, <1>6
<1>7. CASE y.is = "ok"
  <2>1. b + 1 <= y.at /\ b + 1 + 1 = b + 2
    BY <1>5, <1>7
  <2>2. Min({b + 1, y.at}) = b + 1
    BY <1>3, <1>5, <1>7, <2>1, MinOfTwo
  <2>3. x \in parse_value_statement(b + 1, y.at)
    BY <1>4, <1>7, <2>2
  <2>4. /\ x.is # "ok" => x.is \in FailsWith
        /\ x.is = "ok" => x.at \in Nat /\ x.at <= y.at /\ Whole(prog, b, x.at)
    BY <1>1, <1>3, <1>5, <1>7, <2>1, <2>3, ValueEnds DEF AtBlock
  <2>. QED
    BY <1>5, <1>7, <2>4
<1>. QED
  BY <1>6, <1>7

-----------------------------------------------------------------------------
(* Conditions.                                                             *)

\* The condition is in parentheses that match.
LEMMA ConditionGives ==
    ASSUME prog \in Seq(STRING), NEW c \in Nat \ {0}, NEW end \in Nat, c < end, end <= Len(prog),
           Nested(prog, c + 1, end), NEW x \in Condition(c, end)
    PROVE  /\ x.is # "ok" => x.is \in FailsWith
           /\ x.is = "ok" => /\ x.at \in Nat /\ c + 3 <= x.at /\ x.at <= end
                             /\ ScopeAt(prog, "open_paren_", c + 1, x.at)
<1>0. /\ Len(prog) \in Nat /\ c + 1 \in Nat \ {0} /\ c + 1 <= end /\ c + 1 <= Len(prog)
      /\ end <= Len(prog) + 1 /\ "open_paren_" \in OpeningScopes
  BY LenProperties DEF OpeningScopes
<1>1. Min({c + 1, end}) = c + 1
  BY <1>0, MinOfTwo
<1>2. PICK y \in FindExact("open_paren_", c + 1, end) :
         x \in IF y.is = "ok"
               THEN Then(parse_primary_expression(c + 1 + 1, y.at - 1), LAMBDA q : {Ok(y.at)})
               ELSE {y}
  BY <1>1 DEF Condition, Then
<1>3. /\ y.is # "ok" => y.is \in FailsWith
      /\ y.is = "ok" /\ c + 1 < end => /\ y.at \in Nat /\ c + 1 + 2 <= y.at /\ y.at <= end
                                       /\ ScopeAt(prog, "open_paren_", c + 1, y.at)
      /\ y.is = "ok" /\ ~(c + 1 < end) => y.at = c + 1 + 1
  BY <1>0, FindExactInText
<1>4. CASE y.is # "ok"
  BY <1>2, <1>3, <1>4
<1>5. CASE y.is = "ok"
  <2>1. PICK e \in Nat : e = y.at - 1 /\ e <= Len(prog) + 1 /\ (c + 1 < end \/ e = c + 1)
    BY <1>0, <1>3, <1>5
  <2>2. PICK z \in parse_primary_expression(c + 1 + 1, e) : x = IF z.is = "ok" THEN Ok(y.at) ELSE z
    BY <1>2, <1>5, <2>1 DEF Then
  <2>3. /\ z.is # "ok" => z.is \in FailsWith
        /\ z.is = "ok" => c + 1 + 1 < e
    <3>1. c + 1 + 1 \in Nat \ {0}
      OBVIOUS
    <3>. QED
      BY <2>1, <3>1, PrimaryGives
  <2>4. CASE z.is # "ok"
    BY <2>2, <2>3, <2>4
  <2>5. CASE z.is = "ok"
    <3>1. x.is = "ok" /\ x.at = y.at /\ c + 1 < end
      BY <2>1, <2>2, <2>3, <2>5, EndOutcomes
    <3>. QED
      BY <1>3, <1>5, <3>1
  <2>. QED
    BY <2>4, <2>5
<1>. QED
  BY <1>4, <1>5

\* The conditions of a #for are ranges of its parentheses.
LEMMA ConditionsAre ==
    ASSUME NEW b \in Nat \ {0}, NEW p \in Nat, b < p, NEW s \in Conditions(b, p)
    PROVE  s[1] \in Nat \ {0} /\ s[2] \in Nat /\ s[2] <= p - 1
<1>. DEFINE r == SubSeq(prog, b + 1, p - 1)
            eofs == {i \in (b + 1)..(p - 1) : prog[i] = "eof_"}
            stop == IF eofs = {} THEN p - 1 ELSE Min(eofs)
            cuts == {b} \cup {i \in (b + 1)..(stop - 1) :
                                  prog[i] = "eos_" /\ Height(r, i - b) = 0}
                        \cup (IF eofs = {} THEN {stop} ELSE {})
<1>1. stop \in b..(p - 1)
  <2>1. eofs \subseteq Nat
    OBVIOUS
  <2>2. eofs # {} => Min(eofs) \in eofs
    BY <2>1, MinIsLeast
  <2>. QED
    BY <2>2
<1>2. \/ \E x \in cuts \X cuts : s = <<x[1] + 1, x[2]>>
      \/ s = <<stop + 1, p - 1>>
  BY DEF Conditions
<1>. HIDE DEF stop, r, eofs
<1>3. cuts \subseteq b..(p - 1)
  BY <1>1
<1>. HIDE DEF cuts
<1>4. CASE s = <<stop + 1, p - 1>>
  BY <1>1, <1>4
<1>5. ASSUME NEW x \in cuts \X cuts, s = <<x[1] + 1, x[2]>>
      PROVE  s[1] \in Nat \ {0} /\ s[2] \in Nat /\ s[2] <= p - 1
  <2>1. PICK i \in cuts, j \in cuts : x = <<i, j>>
    OBVIOUS
  <2>2. i \in b..(p - 1) /\ j \in b..(p - 1)
    BY <1>3
  <2>. QED
    BY <1>5, <2>1, <2>2
<1>. QED
  BY <1>2, <1>4, <1>5

\* So are those of a #for; that they end in the range is asked later.  There is
\* no list of them for one token in front of an open one only.
LEMMA ForConditionsGives ==
    ASSUME prog \in Seq(STRING), NEW c \in Nat \ {0}, NEW end \in Nat, c < end, end <= Len(prog),
           Nested(prog, c + 1, end), NEW x \in ForConditions(c, end)
    PROVE  /\ x.is # "ok" =>
                 \/ x.is \in FailsWith
                 \/ x.is = "unreturned" /\ end = c + 1 /\ prog[c + 1] = "open_paren_"
           /\ x.is = "ok" => x.at \in Nat /\ c + 1 < x.at
           /\ x.is = "ok" /\ x.at <= end => ScopeAt(prog, "open_paren_", c + 1, x.at)
<1>0. /\ Len(prog) \in Nat /\ c + 1 \in Nat \ {0} /\ c + 1 <= end /\ c + 1 <= Len(prog)
      /\ end <= Len(prog) + 1 /\ "open_paren_" \in OpeningScopes
  BY LenProperties DEF OpeningScopes
<1>. DEFINE b == Min({c + 1, end})
            Parsed(s) == parse_primary_expression(s[1], s[2])
            Passes(s) == \E o \in Parsed(s) : o.is = "ok"
            All(p) == LET scopes  == Conditions(b, p)
                          reached == {s \in scopes : \A t \in scopes : t[1] < s[1] => Passes(t)}
                      IN  {o \in UNION {Parsed(s) : s \in reached} : o.is # "ok"}
                          \cup (IF \A s \in scopes : Passes(s) THEN {Ok(p)} ELSE {})
                          \cup (IF p = b + 1 THEN {Unreturned} ELSE {})
<1>1. PICK y \in FindExact("open_paren_", b, end) : x \in IF y.is = "ok" THEN All(y.at) ELSE {y}
  BY DEF ForConditions, Then
<1>2. b = c + 1
  BY <1>0, MinOfTwo
<1>. HIDE DEF b
<1>3. /\ y.is # "ok" => y.is \in FailsWith
      /\ y.is = "ok" /\ c + 1 < end => /\ y.at \in Nat /\ c + 1 + 2 <= y.at /\ y.at <= end
                                       /\ ScopeAt(prog, "open_paren_", c + 1, y.at)
      /\ y.is = "ok" /\ ~(c + 1 < end) => y.at = c + 1 + 1 /\ prog[c + 1] = "open_paren_"
  BY <1>0, <1>1, <1>2, FindExactInText
<1>4. CASE y.is # "ok"
  BY <1>1, <1>3, <1>4
<1>5. CASE y.is = "ok"
  <2>1. y.at \in Nat /\ c + 1 < y.at /\ y.at <= Len(prog) + 1 /\ (y.at <= end => c + 1 < end)
    BY <1>0, <1>3, <1>5
  <2>2. \/ x = Ok(y.at)
        \/ x = Unreturned /\ y.at = b + 1
        \/ \E s \in Conditions(b, y.at) : x \in Parsed(s) /\ x.is # "ok"
    BY <1>1, <1>5
  <2>3. ASSUME NEW s \in Conditions(b, y.at), x \in Parsed(s), x.is # "ok"
        PROVE  x.is \in FailsWith
    <3>1. s[1] \in Nat \ {0} /\ s[2] \in Nat /\ s[2] <= y.at - 1
      BY <1>0, <1>2, <2>1, ConditionsAre
    <3>2. s[2] <= Len(prog) + 1
      BY <1>0, <2>1, <3>1
    <3>3. x \in parse_primary_expression(s[1], s[2])
      BY <2>3
    <3>. QED
      BY <2>3, <3>1, <3>2, <3>3, PrimaryGives
  <2>. HIDE DEF Parsed
  <2>4. CASE x = Ok(y.at)
    BY <1>3, <1>5, <2>1, <2>4, EndOutcomes
  <2>5. CASE x = Unreturned /\ y.at = b + 1
    <3>1. ~(c + 1 < end)
      BY <1>0, <1>2, <1>3, <1>5, <2>5
    <3>2. end = c + 1 /\ prog[c + 1] = "open_paren_"
      BY <1>0, <1>3, <1>5, <3>1
    <3>. QED
      BY <2>5, <3>2, EndOutcomes
  <2>. QED
    BY <2>2, <2>3, <2>4, <2>5
<1>. QED
  BY <1>4, <1>5

-----------------------------------------------------------------------------
(* The invariant.                                                          *)

\* A call, with its range, its cursor, the end of what it has called, and the
\* statements it has parsed.
FrameTypes ==
    [fn : Functions, begin : Nat, end : Nat, cursor : Nat, scopeEnd : Nat,
     stmts : Seq(Nat \X Nat)]

ProgramParts == {"program", "enter_", "start_"}
Ifs   == {"if_", "elif_", "else_"}
Loops == {"while_", "for_"}

\* The statements parsed are whole, and the cursor is behind the last.
StatementsAre(s, f) ==
    /\ \A i \in DOMAIN f.stmts :
           /\ f.stmts[i][1] # 0 /\ f.stmts[i][2] <= Len(s)
           /\ Whole(s, f.stmts[i][1], f.stmts[i][2])
           /\ i > 1 => f.stmts[i][1] = f.stmts[i - 1][2]
    /\ f.stmts # <<>> => f.stmts[Len(f.stmts)][2] = f.cursor

\* The places of a frame lie in the text.
InText(s, f) ==
    /\ f.begin <= Len(s) + 1 /\ f.end <= Len(s) + 1
    /\ f.cursor <= Len(s) + 1 /\ f.scopeEnd <= Len(s) + 1

\* The range of a statement lies in a block.
Inside(s, f) ==
    /\ f.begin # 0 /\ f.begin < f.end /\ f.end < Len(s)
    /\ Nested(s, f.begin, f.end)

\* parse_program has its cursor at a block, and a search ends at scopeEnd, if it
\* ends at all.
IsProgram(s, f) ==
    /\ f.begin = 1 /\ f.end = Len(s) + 1 /\ f.stmts = <<>>
    /\ f.fn = "program" <=> f.cursor = 0
    /\ f.cursor # 0 => /\ f.cursor < f.scopeEnd /\ f.scopeEnd <= Len(s) + 1
                       /\ Agrees(s, f.cursor, f.scopeEnd)

\* A block that has not searched its own end yet, and one that has: from here
\* every place is between its braces.
NewBlock(s, f) ==
    /\ f.begin # 0 /\ f.begin <= Len(s) /\ f.begin <= f.end /\ f.end <= Len(s) + 1
    /\ f.stmts = <<>>

StartedBlock(s, f) ==
    /\ 1 < f.begin /\ f.begin <= f.cursor /\ f.cursor <= f.end /\ f.end < Len(s)
    /\ ScopeAt(s, "open_brace_", f.begin - 1, f.end + 1) /\ s[f.end] = "close_brace_"
    /\ Nested(s, f.cursor, f.end)

\* #[func] and #class, behind the head at the cursor; scopeEnd is the end that
\* they were given for the body.
IsFunc(s, f) ==
    /\ Inside(s, f) /\ f.stmts = <<>>
    /\ s[f.begin] = "open_bracket_" /\ s[f.end] = "close_brace_"
    /\ f.cursor # 0 => /\ f.begin < f.cursor /\ f.cursor <= f.end /\ f.scopeEnd = f.end
                       /\ Prefix(s, f.begin, f.cursor, "close_brace_")

IsClass(s, f) ==
    /\ Inside(s, f) /\ f.stmts = <<>>
    /\ s[f.begin] = "class_" /\ s[f.end] = "close_brace_"
    /\ f.cursor # 0 => /\ f.begin < f.cursor /\ f.cursor < f.scopeEnd /\ f.scopeEnd <= f.end
                       /\ Prefix(s, f.begin, f.cursor, "eos_")
                       /\ Agrees(s, f.cursor, f.scopeEnd)

\* The range of a statement that find_statement has found, or of one in #on.
Conditional(s, f) ==
    /\ Inside(s, f)
    /\ f.end = f.begin + 1 \/ s[f.end - 1] = "eos_" \/ s[f.end] = "close_brace_"

\* Nothing ends what the token at b starts.
IsEndless(s, b) ==
    /\ s[b] = "for_" /\ b \in DOMAIN s
    /\ \E e \in DOMAIN s : b < e /\ NothingEnds(s, b, e)

\* An #if and a loop, which wait for a block.  A #for is a single token where
\* nothing ends it.
IsBranch(s, f) ==
    /\ Conditional(s, f) /\ f.stmts = <<>>
    /\ s[f.begin] \in {"if_", "while_", "for_"}
    /\ f.fn \in {"elif_", "else_"} => f.cursor # 0
    /\ f.fn = "for_" /\ f.end = f.begin + 1 => IsEndless(s, f.begin)
    /\ f.cursor # 0 => /\ f.begin < f.cursor /\ f.cursor < f.scopeEnd /\ f.scopeEnd <= f.end
                       /\ Prefix(s, f.begin, f.cursor, "eos_")
                       /\ ScopeAt(s, "open_brace_", f.cursor, f.scopeEnd)

\* #on, behind whose cursor the branches are, up to the brace at scopeEnd - 1.
IsOn(s, f) ==
    /\ Conditional(s, f)
    /\ s[f.begin] = "on_"
    /\ f.cursor = 0 => f.stmts = <<>>
    /\ f.cursor # 0 => /\ f.begin < f.cursor /\ f.cursor < f.scopeEnd /\ f.scopeEnd <= f.end
                       /\ s[f.scopeEnd - 1] = "close_brace_"
                       /\ Nested(s, f.cursor, f.scopeEnd - 1)
                       /\ Prefix(s, f.begin, f.scopeEnd, "eos_")

\* What a call knows of its own range, at any time.
FrameIs(s, f) ==
    /\ f \in FrameTypes /\ InText(s, f) /\ StatementsAre(s, f)
    /\ f.fn \in ProgramParts => IsProgram(s, f)
    /\ f.fn \in Blocks => IF f.cursor = 0 THEN NewBlock(s, f) ELSE StartedBlock(s, f)
    /\ f.fn = "func" => IsFunc(s, f)
    /\ f.fn = "class_" => IsClass(s, f)
    /\ f.fn \in Ifs \cup Loops => IsBranch(s, f)
    /\ f.fn = "on_" => IsOn(s, f)

\* The call of a block, that of a statement; f is the caller.
CallsBlock(f, g) ==
    /\ f.fn \notin Blocks \cup {"program", "on_"}
    /\ f.fn = "func" => g.fn = "functional"
    /\ IF g.cursor = 0 THEN g.begin = f.cursor /\ g.end = f.scopeEnd
       ELSE g.begin = f.cursor + 1 /\ g.end + 1 <= f.scopeEnd

CallsStatement(f, g) ==
    /\ g.fn \notin ProgramParts
    /\ g.begin = f.cursor
    /\ \/ f.fn \in Blocks /\ g.end <= f.end
       \/ f.fn = "on_" /\ g.fn \in Ifs /\ g.end = f.scopeEnd - 1

\* The caller rests at the begin of what it has called.
Calls(f, g) ==
    /\ f.cursor # 0
    /\ IF g.fn \in Blocks THEN CallsBlock(f, g) ELSE CallsStatement(f, g)

\* What the function that goes on knows of the one that has returned.
Returns(s, f, p) ==
    /\ f.cursor # 0 /\ p <= Len(s) + 1
    /\ f.fn \in Blocks => Whole(s, f.cursor, p) /\ p <= f.end
    /\ f.fn = "on_" => Whole(s, f.cursor, p) /\ p < f.scopeEnd
    /\ f.fn = "func" => ScopeAt(s, "open_brace_", f.cursor, p) /\ p <= f.end
    /\ f.fn \in {"enter_", "start_", "class_"} =>
           ScopeAt(s, "open_brace_", f.cursor, f.scopeEnd)

\* The parser ends in every way but by a stray read.
Outcomes == {"none", "parsed", "no expression", "refused", "dangling", "unreturned"}

\* A frame that has returned.
NodeIs(s, f) ==
    /\ f \in FrameTypes /\ InText(s, f) /\ StatementsAre(s, f)
    /\ f.fn \in Blocks /\ f.cursor # 0 =>
           f.cursor = f.end \/ (f.cursor < f.end /\ s[f.cursor] = "eof_")

\* The frames of the calls h, each of which the one before it has called.
FramesAre(s, h) ==
    /\ h \in Seq(FrameTypes) /\ h # <<>>
    /\ h[1].fn \in ProgramParts
    /\ \A i \in 1..Len(h) : FrameIs(s, h[i])
    /\ \A i \in 2..Len(h) : Calls(h[i - 1], h[i])

\* The inductive invariant.  BlocksAreCovered and the rest speak of calls that have
\* returned, of ranges and of ends; a step needs to know of the running call what
\* it has read, that the caller waits at its begin, and of what has returned, how
\* much of the caller's statement it has read.
ParserInv ==
    /\ prog \in Programs
    /\ FramesAre(prog, frames)
    /\ returned \in Nat
    /\ returned # 0 => Returns(prog, Running, returned)
    /\ \A f \in nodes : NodeIs(prog, f)
    /\ outcome \in Outcomes
    /\ outcome = "unreturned" => HasEndlessFor(prog)

-----------------------------------------------------------------------------
(* The frames of a step.                                                   *)

\* The three ways the stack of calls changes: the last of them goes on, ends, or
\* calls another.
LEMMA GoOnFrames ==
    ASSUME NEW s, NEW h, FramesAre(s, h), NEW f, FrameIs(s, f),
           Len(h) = 1 => f.fn \in ProgramParts,
           Len(h) > 1 => Calls(h[Len(h) - 1], f)
    PROVE  FramesAre(s, [h EXCEPT ![Len(h)] = f])
<1>. DEFINE k == [h EXCEPT ![Len(h)] = f]
<1>1. h \in Seq(FrameTypes) /\ h # <<>> /\ f \in FrameTypes
  BY DEF FramesAre, FrameIs
<1>2. Len(h) \in Nat \ {0}
  BY <1>1, PopType
<1>3. /\ k \in Seq(FrameTypes) /\ Len(k) = Len(h) /\ k[Len(h)] = f
      /\ \A i \in 1..(Len(h) - 1) : k[i] = h[i]
  BY <1>1, <1>2
<1>. HIDE DEF k
<1>4. k # <<>> /\ k[1].fn \in ProgramParts
  <2>1. k # <<>>
    BY <1>2, <1>3
  <2>2. CASE Len(h) = 1
    BY <1>3, <2>2
  <2>3. CASE Len(h) # 1
    <3>1. 1 \in 1..(Len(h) - 1)
      BY <1>2, <2>3
    <3>. QED
      BY <1>3, <3>1 DEF FramesAre
  <2>. QED
    BY <2>1, <2>2, <2>3
<1>5. ASSUME NEW i \in 1..Len(k) PROVE FrameIs(s, k[i])
  <2>1. i \in 1..(Len(h) - 1) \/ i = Len(h)
    BY <1>2, <1>3
  <2>. QED
    BY <1>2, <1>3, <2>1 DEF FramesAre
<1>6. ASSUME NEW i \in 2..Len(k) PROVE Calls(k[i - 1], k[i])
  <2>1. i - 1 \in 1..(Len(h) - 1) /\ i \in 2..Len(h)
    BY <1>2, <1>3
  <2>2. CASE i = Len(h)
    <3>1. k[i] = f /\ k[i - 1] = h[Len(h) - 1] /\ Len(h) > 1
      BY <1>3, <2>1, <2>2
    <3>. QED
      BY <3>1
  <2>3. CASE i # Len(h)
    <3>1. i \in 1..(Len(h) - 1)
      BY <1>2, <2>1, <2>3
    <3>. QED
      BY <1>3, <2>1, <3>1 DEF FramesAre
  <2>. QED
    BY <2>2, <2>3
<1>7. FramesAre(s, k)
  BY <1>3, <1>4, <1>5, <1>6 DEF FramesAre
<1>. QED
  BY <1>7 DEF k

LEMMA ReturnFrames ==
    ASSUME NEW s, NEW h, FramesAre(s, h), Len(h) > 1
    PROVE  /\ FramesAre(s, Front(h)) /\ Len(Front(h)) = Len(h) - 1
           /\ Front(h)[Len(h) - 1] = h[Len(h) - 1]
<1>1. h \in Seq(FrameTypes) /\ h # <<>>
  BY DEF FramesAre
<1>. DEFINE k == Front(h)
<1>2. /\ Len(h) \in Nat \ {0}
      /\ k \in Seq(FrameTypes) /\ Len(k) = Len(h) - 1 /\ \A i \in 1..(Len(h) - 1) : k[i] = h[i]
  BY <1>1, PopType DEF Front
<1>. HIDE DEF k
<1>3. k # <<>> /\ 1 \in 1..(Len(h) - 1) /\ Len(h) - 1 \in 1..(Len(h) - 1)
  BY <1>2
<1>4. ASSUME NEW i \in 1..Len(k) PROVE FrameIs(s, k[i])
  <2>1. i \in 1..Len(h) /\ i \in 1..(Len(h) - 1)
    BY <1>2
  <2>. QED
    BY <1>2, <2>1 DEF FramesAre
<1>5. ASSUME NEW i \in 2..Len(k) PROVE Calls(k[i - 1], k[i])
  <2>1. i \in 2..Len(h) /\ i \in 1..(Len(h) - 1) /\ i - 1 \in 1..(Len(h) - 1)
    BY <1>2
  <2>. QED
    BY <1>2, <2>1 DEF FramesAre
<1>6. FramesAre(s, k)
  BY <1>2, <1>3, <1>4, <1>5 DEF FramesAre
<1>. QED
  BY <1>2, <1>3, <1>6 DEF k

LEMMA CallFrames ==
    ASSUME NEW s, NEW h, FramesAre(s, h), NEW f, NEW g, FrameIs(s, f), FrameIs(s, g), Calls(f, g),
           Len(h) = 1 => f.fn \in ProgramParts,
           Len(h) > 1 => Calls(h[Len(h) - 1], f)
    PROVE  FramesAre(s, Append(Front(h), f) \o <<g>>)
<1>. DEFINE k == Append(Front(h), f) \o <<g>>
            a == Front(h)
<1>1. h \in Seq(FrameTypes) /\ h # <<>> /\ f \in FrameTypes /\ g \in FrameTypes
  BY DEF FramesAre, FrameIs
<1>2. /\ Len(h) \in Nat \ {0}
      /\ a \in Seq(FrameTypes) /\ Len(a) = Len(h) - 1 /\ \A i \in 1..(Len(h) - 1) : a[i] = h[i]
  BY <1>1, PopType DEF Front
<1>. HIDE DEF a
<1>3. /\ k \in Seq(FrameTypes) /\ Len(k) = Len(h) + 1 /\ k[Len(h)] = f /\ k[Len(h) + 1] = g
      /\ \A i \in 1..(Len(h) - 1) : k[i] = h[i]
  <2>. DEFINE m == Append(a, f)
  <2>1. /\ m \in Seq(FrameTypes) /\ Len(m) = Len(h) /\ m[Len(h)] = f
        /\ \A i \in 1..(Len(h) - 1) : m[i] = a[i]
    BY <1>1, <1>2
  <2>2. k = m \o <<g>> /\ <<g>> \in Seq(FrameTypes) /\ Len(<<g>>) = 1 /\ <<g>>[1] = g
    BY <1>1 DEF a
  <2>. HIDE DEF m, k
  <2>3. /\ k \in Seq(FrameTypes) /\ Len(k) = Len(h) + 1
        /\ \A i \in 1..Len(h) : k[i] = m[i]
        /\ k[Len(h) + 1] = g
    BY <1>2, <2>1, <2>2, ConcatProperties
  <2>4. Len(h) \in 1..Len(h) /\ \A i \in 1..(Len(h) - 1) : i \in 1..Len(h)
    BY <1>2
  <2>. QED
    BY <1>2, <2>1, <2>3, <2>4
<1>. HIDE DEF k
<1>4. k # <<>> /\ k[1].fn \in ProgramParts
  <2>1. k # <<>>
    BY <1>2, <1>3
  <2>2. CASE Len(h) = 1
    BY <1>3, <2>2
  <2>3. CASE Len(h) # 1
    <3>1. 1 \in 1..(Len(h) - 1)
      BY <1>2, <2>3
    <3>. QED
      BY <1>3, <3>1 DEF FramesAre
  <2>. QED
    BY <2>1, <2>2, <2>3
<1>5. ASSUME NEW i \in 1..Len(k) PROVE FrameIs(s, k[i])
  <2>1. (i \in 1..(Len(h) - 1) /\ i \in 1..Len(h)) \/ i = Len(h) \/ i = Len(h) + 1
    BY <1>2, <1>3
  <2>. QED
    BY <1>2, <1>3, <2>1 DEF FramesAre
<1>6. ASSUME NEW i \in 2..Len(k) PROVE Calls(k[i - 1], k[i])
  <2>1. CASE i = Len(h) + 1
    <3>1. k[i] = g /\ k[i - 1] = f
      BY <1>2, <1>3, <2>1
    <3>. QED
      BY <3>1
  <2>2. CASE i = Len(h)
    <3>1. Len(h) - 1 \in 1..(Len(h) - 1) /\ Len(h) > 1
      BY <1>2, <2>2
    <3>2. k[i] = f /\ k[i - 1] = h[Len(h) - 1]
      BY <1>3, <2>2, <3>1
    <3>. QED
      BY <3>1, <3>2
  <2>3. CASE i # Len(h) /\ i # Len(h) + 1
    <3>1. i \in 2..Len(h) /\ i \in 1..(Len(h) - 1) /\ i - 1 \in 1..(Len(h) - 1)
      BY <1>2, <1>3, <2>3
    <3>. QED
      BY <1>3, <3>1 DEF FramesAre
  <2>. QED
    BY <2>1, <2>2, <2>3
<1>7. FramesAre(s, k)
  BY <1>3, <1>4, <1>5, <1>6 DEF FramesAre
<1>. QED
  BY <1>7 DEF k

-----------------------------------------------------------------------------
(* The running frame.                                                      *)

Caller == frames[Len(frames) - 1]

\* What the invariant says of the running call.
LEMMA RunningIs ==
    ASSUME ParserInv
    PROVE  /\ prog \in Programs /\ prog \in Seq(STRING) /\ Len(prog) \in Nat \ {0} /\ prog[Len(prog)] = "eof_"
           /\ Len(frames) \in Nat \ {0} /\ FrameIs(prog, Running)
           /\ Len(frames) = 1 => Running.fn \in ProgramParts
           /\ Len(frames) > 1 => Calls(Caller, Running) /\ FrameIs(prog, Caller)
           /\ Running.fn \in ProgramParts => Len(frames) = 1
<1>1. prog \in Seq(STRING) /\ prog # <<>> /\ prog[Len(prog)] = "eof_" /\ prog \in Programs
  BY ProgramsAssumption DEF ParserInv
<1>2. Len(prog) \in Nat \ {0}
  BY <1>1, PopType
<1>3. frames \in Seq(FrameTypes) /\ frames # <<>>
  BY DEF ParserInv, FramesAre
<1>4. Len(frames) \in Nat \ {0}
  BY <1>3, PopType
<1>5. FrameIs(prog, Running) /\ (Len(frames) = 1 => Running.fn \in ProgramParts)
  BY <1>4 DEF ParserInv, FramesAre, Running
<1>6. ASSUME Len(frames) > 1 PROVE Calls(Caller, Running) /\ FrameIs(prog, Caller)
  <2>1. Len(frames) \in 2..Len(frames) /\ Len(frames) - 1 \in 1..Len(frames)
    BY <1>4, <1>6
  <2>. QED
    BY <2>1 DEF ParserInv, FramesAre, Running, Caller
<1>7. Calls(Caller, Running) => Running.fn \notin ProgramParts
  BY DEF Calls, CallsStatement, ProgramParts, Blocks
<1>8. Len(frames) # 1 => Len(frames) > 1
  <2>. PICK n \in Nat \ {0} : n = Len(frames)
    BY <1>4
  <2>. QED
    OBVIOUS
<1>. QED
  BY <1>1, <1>2, <1>4, <1>5, <1>6, <1>7, <1>8

\* What a step may set: the fields of the frame.
LEMMA FrameFields ==
    ASSUME NEW f \in FrameTypes
    PROVE  /\ f.fn \in Functions /\ f.begin \in Nat /\ f.end \in Nat /\ f.cursor \in Nat
           /\ f.scopeEnd \in Nat /\ f.stmts \in Seq(Nat \X Nat)
BY DEF FrameTypes

\* The fields of a new call, and of one that calls.
LEMMA NewFrame ==
    ASSUME NEW fn \in Functions, NEW b \in Nat, NEW e \in Nat
    PROVE  /\ Frame(fn, b, e) \in FrameTypes
           /\ Frame(fn, b, e).fn = fn /\ Frame(fn, b, e).begin = b /\ Frame(fn, b, e).end = e
           /\ Frame(fn, b, e).cursor = 0 /\ Frame(fn, b, e).scopeEnd = 0 /\ Frame(fn, b, e).stmts = <<>>
BY DEF Frame, FrameTypes

\* The frame of a function, now fn, that calls a block on b..(e - 1).
Calling(r, fn, b, e) == [r EXCEPT !.fn = fn, !.cursor = b, !.scopeEnd = e]

IsCalling(f, r, fn, b, e) ==
    /\ f \in FrameTypes /\ f.fn = fn /\ f.begin = r.begin /\ f.end = r.end
    /\ f.cursor = b /\ f.scopeEnd = e /\ f.stmts = r.stmts

LEMMA CallingFrame ==
    \A r \in FrameTypes : \A fn \in Functions : \A b, e \in Nat : \A f :
        f = Calling(r, fn, b, e) => IsCalling(f, r, fn, b, e)
BY DEF FrameTypes, Calling, IsCalling

LEMMA NoStatements ==
    ASSUME NEW s, NEW f, f.stmts = <<>>
    PROVE  StatementsAre(s, f)
BY DEF StatementsAre

-----------------------------------------------------------------------------
(* The steps, in general.                                                  *)

\* The ways to go on from a call keep the invariant, if what is asked of the call
\* is so.
LEMMA StopKeeps ==
    ASSUME ParserInv, NEW how \in Outcomes, how = "unreturned" => HasEndlessFor(prog), Stop(how)
    PROVE  ParserInv'
BY DEF ParserInv, Stop, Running

LEMMA FailsKeeps ==
    ASSUME ParserInv, NEW how \in FailsWith, Stop(how)
    PROVE  ParserInv'
<1>1. how \in Outcomes /\ how # "unreturned"
  BY DEF FailsWith, Outcomes
<1>. QED
  BY <1>1, StopKeeps

LEMMA GoOnKeeps ==
    ASSUME ParserInv, NEW f, FrameIs(prog, f),
           Len(frames) = 1 => f.fn \in ProgramParts,
           Len(frames) > 1 => Calls(Caller, f),
           GoOn(f)
    PROVE  ParserInv'
<1>1. FramesAre(prog, [frames EXCEPT ![Len(frames)] = f])
  BY GoOnFrames DEF ParserInv, Caller
<1>. QED
  BY <1>1 DEF ParserInv, GoOn

LEMMA CallKeeps ==
    ASSUME ParserInv, NEW f, NEW g, FrameIs(prog, f), FrameIs(prog, g), Calls(f, g),
           Len(frames) = 1 => f.fn \in ProgramParts,
           Len(frames) > 1 => Calls(Caller, f),
           Call(f, g)
    PROVE  ParserInv'
<1>1. FramesAre(prog, Append(Front(frames), f) \o <<g>>)
  BY CallFrames DEF ParserInv, Caller
<1>. QED
  BY <1>1 DEF ParserInv, Call

LEMMA ReturnKeeps ==
    ASSUME ParserInv, Len(frames) > 1, NodeIs(prog, Running),
           NEW p \in Nat, Returns(prog, Caller, p), ReturnAt(p)
    PROVE  ParserInv'
<1>1. /\ FramesAre(prog, Front(frames)) /\ Len(Front(frames)) = Len(frames) - 1
      /\ Front(frames)[Len(frames) - 1] = Caller
  BY ReturnFrames DEF ParserInv, Caller
<1>2. prog' = prog /\ outcome' = outcome /\ frames' = Front(frames) /\ returned' = p
      /\ nodes' = nodes \cup {Running}
  BY DEF ReturnAt
<1>3. Running' = Caller
  BY <1>1, <1>2 DEF Running
<1>4. \A f \in nodes' : NodeIs(prog, f)
  BY <1>2 DEF ParserInv
<1>5. prog \in Programs /\ outcome \in Outcomes /\ (outcome = "unreturned" => HasEndlessFor(prog))
  BY DEF ParserInv
<1>. QED
  BY <1>1, <1>2, <1>3, <1>4, <1>5 DEF ParserInv

\* What is inside of a scope is nested.
LEMMA InsideScope ==
    ASSUME NEW s \in Seq(STRING), NEW opening, NEW b \in Nat \ {0}, NEW p \in Nat, ScopeAt(s, opening, b, p)
    PROVE  Nested(s, b + 1, p - 1)
<1>1. b + 2 <= p /\ p - 1 \in Nat \ {0}
  BY ScopeProperties
<1>2. ClosesAt(s, b, p - 1) /\ Nested(s, b, p)
  BY DEF ScopeAt
<1>. SUFFICES ASSUME NEW j \in (b + 1)..(p - 1 - 1), IsClosingScope(s[j])
              PROVE  \E k \in (b + 1)..(j - 1) : ClosesAt(s, k, j) /\ IsClosingScopeOf(s[k], s[j])
  BY DEF Nested
<1>3. j \in b..(p - 1) /\ j \in Nat /\ j # p - 1
  BY <1>1
<1>4. PICK k \in b..(j - 1) : ClosesAt(s, k, j) /\ IsClosingScopeOf(s[k], s[j])
  BY <1>2, <1>3 DEF Nested
<1>5. k # b
  BY <1>1, <1>2, <1>3, <1>4, OneCloser
<1>6. k \in (b + 1)..(j - 1)
  BY <1>5
<1>. QED
  BY <1>4, <1>6

\* A statement's frame may go on as that of another part of it.
LEMMA CallsSame ==
    ASSUME NEW h, NEW r, Calls(h, r), r.fn \notin Blocks,
           NEW f, f.fn \notin Blocks \cup ProgramParts, f.begin = r.begin, f.end = r.end,
           r.fn \in Ifs => f.fn \in Ifs
    PROVE  Calls(h, f)
BY DEF Calls, CallsStatement

LEMMA CallBlockKeeps ==
    ASSUME ParserInv, NEW fn \in Functions, NEW block \in Blocks, NEW b \in Nat, NEW e \in Nat,
           NEW f, f = Calling(Running, fn, b, e), FrameIs(prog, f),
           f.fn = fn, f.cursor = b, f.scopeEnd = e,
           b # 0, b <= Len(prog), b <= e, e <= Len(prog) + 1,
           Len(frames) = 1 => fn \in ProgramParts,
           Len(frames) > 1 => Calls(Caller, f),
           fn \notin Blocks \cup {"program", "on_"}, fn = "func" => block = "functional",
           CallBlock(fn, block, b, e)
    PROVE  ParserInv'
<1>1. Running \in FrameTypes /\ Len(prog) \in Nat
  BY RunningIs DEF FrameIs
<1>. DEFINE g == Frame(block, b, e)
<1>3. /\ g \in FrameTypes /\ g.fn = block /\ g.begin = b /\ g.end = e
      /\ g.cursor = 0 /\ g.scopeEnd = 0 /\ g.stmts = <<>>
  <2>1. block \in Functions
    BY DEF Functions
  <2>. QED
    BY <2>1, NewFrame
<1>4. Call(f, g)
  BY DEF CallBlock, Calling
<1>. HIDE DEF g
<1>5. FrameIs(prog, g)
  <2>1. InText(prog, g) /\ NewBlock(prog, g) /\ StatementsAre(prog, g)
    BY <1>1, <1>3, NoStatements DEF InText, NewBlock
  <2>. QED
    BY <1>3, <2>1 DEF FrameIs, Blocks, ProgramParts, Ifs, Loops
<1>6. Calls(f, g)
  BY <1>3 DEF Calls, CallsBlock
<1>. QED
  BY <1>4, <1>5, <1>6, CallKeeps

\* A statement that has been parsed is whole.
LEMMA StatementReturns ==
    ASSUME ParserInv, Running.fn \notin Blocks \cup ProgramParts,
           NEW p \in Nat, Whole(prog, Running.begin, p), p <= Running.end, ReturnAt(p)
    PROVE  ParserInv'
<1>1. /\ FrameIs(prog, Running) /\ Len(frames) > 1 /\ Calls(Caller, Running) /\ FrameIs(prog, Caller)
      /\ Len(prog) \in Nat
  <2>1. Len(frames) # 1 /\ Len(frames) \in Nat \ {0}
    BY RunningIs
  <2>2. Len(frames) > 1
    <3>. PICK n \in Nat \ {0} : n = Len(frames)
      BY <2>1
    <3>. QED
      BY <2>1
  <2>. QED
    BY <2>2, RunningIs
<1>2. Running \in FrameTypes /\ Caller \in FrameTypes /\ InText(prog, Running)
  BY <1>1 DEF FrameIs
<1>3. NodeIs(prog, Running)
  BY <1>1 DEF NodeIs, FrameIs
<1>4. /\ Running.begin \in Nat /\ Running.end \in Nat /\ Running.end <= Len(prog) + 1
      /\ Caller.end \in Nat /\ Caller.scopeEnd \in Nat
  BY <1>2, FrameFields DEF InText
<1>5. /\ Caller.cursor # 0 /\ Running.begin = Caller.cursor
      /\ \/ Caller.fn \in Blocks /\ Running.end <= Caller.end
         \/ Caller.fn = "on_" /\ Running.end = Caller.scopeEnd - 1
  BY <1>1 DEF Calls, CallsStatement
<1>6. Returns(prog, Caller, p)
  <2>1. p <= Len(prog) + 1
    BY <1>1, <1>4
  <2>2. CASE Caller.fn \in Blocks /\ Running.end <= Caller.end
    <3>1. p <= Caller.end
      BY <1>4, <2>2
    <3>. QED
      BY <1>5, <2>1, <2>2, <3>1 DEF Returns, Blocks
  <2>3. CASE Caller.fn = "on_" /\ Running.end = Caller.scopeEnd - 1
    <3>1. p < Caller.scopeEnd
      BY <1>4, <2>3
    <3>. QED
      BY <1>5, <2>1, <2>3, <3>1 DEF Returns, Blocks
  <2>. QED
    BY <1>5, <2>2, <2>3
<1>. QED
  BY <1>1, <1>3, <1>6, ReturnKeeps

\* A block goes behind the statement it has parsed.
LEMMA TookFields ==
    ASSUME NEW r \in FrameTypes, r = Running, NEW p \in Nat
    PROVE  /\ Took(p) \in FrameTypes
           /\ Took(p).fn = r.fn /\ Took(p).begin = r.begin /\ Took(p).end = r.end
           /\ Took(p).cursor = p /\ Took(p).scopeEnd = r.scopeEnd
           /\ Took(p).stmts = Append(r.stmts, <<r.cursor, p>>)
<1>1. r.stmts \in Seq(Nat \X Nat) /\ <<r.cursor, p>> \in Nat \X Nat
  BY DEF FrameTypes
<1>2. Append(r.stmts, <<r.cursor, p>>) \in Seq(Nat \X Nat)
  BY <1>1
<1>3. Took(p) = [r EXCEPT !.cursor = p, !.stmts = Append(r.stmts, <<r.cursor, p>>)]
  BY DEF Took, FrameTypes
<1>. QED
  BY <1>2, <1>3 DEF FrameTypes

LEMMA TookStatements ==
    ASSUME NEW s \in Seq(STRING), NEW f \in FrameTypes, StatementsAre(s, f), NEW p \in Nat,
           f.cursor # 0, p <= Len(s), Whole(s, f.cursor, p),
           NEW g, g.cursor = p, g.stmts = Append(f.stmts, <<f.cursor, p>>)
    PROVE  StatementsAre(s, g)
<1>. DEFINE a == f.stmts  c == f.cursor
<1>1. a \in Seq(Nat \X Nat) /\ c \in Nat /\ <<c, p>> \in Nat \X Nat
  BY DEF FrameTypes
<1>2. Len(a) \in Nat
  BY <1>1, LenProperties
<1>3. /\ g.stmts \in Seq(Nat \X Nat) /\ Len(g.stmts) = Len(a) + 1 /\ DOMAIN g.stmts = 1..(Len(a) + 1)
      /\ g.stmts[Len(a) + 1] = <<c, p>> /\ g.stmts # <<>>
      /\ \A i \in 1..Len(a) : g.stmts[i] = a[i]
  <2>. HIDE DEF a, c
  <2>. PICK x \in Nat \X Nat : x = <<c, p>>
    BY <1>1
  <2>1. g.stmts = Append(a, x)
    BY DEF a, c
  <2>2. /\ Append(a, x) \in Seq(Nat \X Nat) /\ Len(Append(a, x)) = Len(a) + 1
        /\ Append(a, x)[Len(a) + 1] = x
        /\ \A i \in 1..Len(a) : Append(a, x)[i] = a[i]
    BY <1>1, AppendProperties
  <2>3. DOMAIN Append(a, x) = 1..(Len(a) + 1) /\ Append(a, x) # <<>>
    BY <1>2, <2>2, LenProperties, EmptySeq
  <2>. QED
    BY <2>1, <2>2, <2>3
<1>4. /\ \A i \in 1..Len(a) :
           /\ a[i][1] # 0 /\ a[i][2] <= Len(s)
           /\ Whole(s, a[i][1], a[i][2])
           /\ i > 1 => a[i][1] = a[i - 1][2]
      /\ a # <<>> => a[Len(a)][2] = c
  <2>1. DOMAIN a = 1..Len(a)
    BY <1>1, LenProperties
  <2>. QED
    BY <2>1 DEF StatementsAre
<1>5. c # 0 /\ Whole(s, c, p) /\ <<c, p>>[1] = c /\ <<c, p>>[2] = p
  OBVIOUS
<1>. HIDE DEF a, c
<1>6. ASSUME NEW i \in DOMAIN g.stmts
      PROVE  /\ g.stmts[i][1] # 0 /\ g.stmts[i][2] <= Len(s)
             /\ Whole(s, g.stmts[i][1], g.stmts[i][2])
             /\ i > 1 => g.stmts[i][1] = g.stmts[i - 1][2]
  <2>1. CASE i \in 1..Len(a)
    <3>1. i > 1 => i - 1 \in 1..Len(a)
      BY <1>2, <2>1
    <3>. QED
      BY <1>3, <1>4, <2>1, <3>1
  <2>2. CASE i = Len(a) + 1
    <3>1. i > 1 => Len(a) \in 1..Len(a) /\ i - 1 = Len(a) /\ a # <<>>
      <4>1. a = <<>> => Len(a) = 0
        OBVIOUS
      <4>. QED
        BY <1>2, <2>2, <4>1
    <3>. QED
      BY <1>3, <1>4, <1>5, <2>2, <3>1
  <2>3. i \in 1..(Len(a) + 1)
    BY <1>3
  <2>4. i \in 1..Len(a) \/ i = Len(a) + 1
    BY <1>2, <2>3
  <2>. QED
    BY <2>1, <2>2, <2>4
<1>7. g.stmts[Len(g.stmts)][2] = g.cursor
  BY <1>3, <1>5
<1>. QED
  BY <1>6, <1>7 DEF StatementsAre

\* A block and an #on go on behind a whole statement.
LEMMA TookKeeps ==
    ASSUME ParserInv, Running.fn \in Blocks \cup {"on_"}, Running.cursor # 0,
           NEW p \in Nat, Whole(prog, Running.cursor, p),
           Running.fn \in Blocks => p <= Running.end,
           Running.fn = "on_" => p < Running.scopeEnd,
           GoOn(Took(p))
    PROVE  ParserInv'
<1>. PICK r \in FrameTypes : r = Running /\ FrameIs(prog, r)
  BY RunningIs DEF FrameIs
<1>1. /\ prog \in Seq(STRING) /\ Len(prog) \in Nat /\ Len(frames) \in Nat \ {0}
      /\ InText(prog, r) /\ StatementsAre(prog, r)
  BY RunningIs DEF FrameIs
<1>. PICK f \in FrameTypes : f = Took(p)
  BY TookFields
<1>2. /\ f.fn = r.fn /\ f.begin = r.begin /\ f.end = r.end
      /\ f.cursor = p /\ f.scopeEnd = r.scopeEnd
      /\ f.stmts = Append(r.stmts, <<r.cursor, p>>)
  BY TookFields
<1>3. /\ r.fn \in Functions /\ r.begin \in Nat /\ r.end \in Nat /\ r.cursor \in Nat \ {0}
      /\ r.scopeEnd \in Nat
  BY FrameFields
<1>4. r.fn \in Blocks => StartedBlock(prog, r)
  BY <1>3 DEF FrameIs
<1>5. r.fn = "on_" => IsOn(prog, r)
  BY DEF FrameIs
<1>6. r.cursor < p /\ p # 0 /\ Level(prog, r.cursor, p)
  BY <1>3 DEF Whole
<1>7. p <= Len(prog)
  <2>1. CASE r.fn \in Blocks
    BY <1>1, <1>3, <1>4, <2>1 DEF StartedBlock
  <2>2. CASE r.fn = "on_"
    BY <1>1, <1>3, <1>5, <2>2 DEF IsOn, Conditional, Inside
  <2>. QED
    BY <2>1, <2>2
<1>8. InText(prog, f) /\ StatementsAre(prog, f)
  <2>1. InText(prog, f)
    BY <1>1, <1>2, <1>7 DEF InText
  <2>2. StatementsAre(prog, f)
    BY <1>1, <1>2, <1>3, <1>7, TookStatements
  <2>. QED
    BY <2>1, <2>2
<1>9. r.fn \in Blocks => StartedBlock(prog, f)
  <2>. SUFFICES ASSUME r.fn \in Blocks PROVE StartedBlock(prog, f)
    OBVIOUS
  <2>1. r.begin <= p /\ p <= r.end /\ p \in r.cursor..r.end
    BY <1>3, <1>4, <1>6 DEF StartedBlock
  <2>2. Nested(prog, p, r.end)
    BY <1>1, <1>3, <1>4, <1>6, <2>1, NestedBehind DEF StartedBlock
  <2>. QED
    BY <1>2, <1>4, <2>1, <2>2 DEF StartedBlock
<1>10. r.fn = "on_" => IsOn(prog, f)
  <2>. SUFFICES ASSUME r.fn = "on_" PROVE IsOn(prog, f)
    OBVIOUS
  <2>1. r.begin < p /\ p < r.scopeEnd /\ r.scopeEnd - 1 \in Nat /\ p \in r.cursor..(r.scopeEnd - 1)
    BY <1>3, <1>5, <1>6 DEF IsOn
  <2>2. Nested(prog, p, r.scopeEnd - 1)
    BY <1>1, <1>3, <1>5, <1>6, <2>1, NestedBehind DEF IsOn
  <2>3. Conditional(prog, f)
    BY <1>2, <1>5 DEF IsOn, Conditional, Inside
  <2>. QED
    BY <1>2, <1>5, <1>6, <2>1, <2>2, <2>3 DEF IsOn
<1>11. FrameIs(prog, f)
  BY <1>2, <1>6, <1>8, <1>9, <1>10 DEF FrameIs, Blocks, ProgramParts, Ifs, Loops
<1>12. r.fn \notin ProgramParts
  BY DEF Blocks, ProgramParts
<1>13. Len(frames) > 1 => Calls(Caller, f)
  BY <1>2, <1>6, <1>12, RunningIs DEF Calls, CallsBlock, CallsStatement
<1>14. Len(frames) = 1 => f.fn \in ProgramParts
  BY <1>2, RunningIs
<1>. QED
  BY <1>11, <1>13, <1>14, GoOnKeeps

-----------------------------------------------------------------------------
(* parse_program.                                                          *)

\* parse_program calls its blocks with the end that find_exact gives; they find
\* the same end, if they find one.
LEMMA ProgramCallKeeps ==
    ASSUME ParserInv, Running.fn \in ProgramParts, NEW fn \in {"enter_", "start_"},
           NEW block \in Blocks, NEW b \in Nat, b # 0, b <= Len(prog),
           CallBlock(fn, block, b, Exact("open_brace_", b, Running.end).end)
    PROVE  ParserInv'
<1>1. /\ prog \in Seq(STRING) /\ Len(prog) \in Nat \ {0}
      /\ Running \in FrameTypes /\ IsProgram(prog, Running) /\ InText(prog, Running)
      /\ Len(frames) = 1
  BY RunningIs DEF FrameIs
<1>2. /\ Running.begin = 1 /\ Running.end = Len(prog) + 1 /\ Running.stmts = <<>>
  BY <1>1 DEF IsProgram
<1>3. LET x == Exact("open_brace_", b, Running.end).end
      IN  x \in Nat /\ b < x /\ x <= Len(prog) + 1 /\ Agrees(prog, b, x)
  <2>1. "open_brace_" \in OpeningScopes /\ b < Running.end /\ Running.end \in Nat
    BY <1>1, <1>2 DEF OpeningScopes
  <2>. QED
    BY <1>1, <1>2, <2>1, ExactAgrees DEF Agrees
<1>. PICK e \in Nat : e = Exact("open_brace_", b, Running.end).end
  BY <1>3
<1>4. b < e /\ e <= Len(prog) + 1 /\ Agrees(prog, b, e)
  BY <1>3
<1>5. fn \in Functions
  BY DEF Functions
<1>. PICK f : f = Calling(Running, fn, b, e)
  OBVIOUS
<1>6. /\ f \in FrameTypes /\ f.fn = fn /\ f.begin = Running.begin /\ f.end = Running.end
      /\ f.cursor = b /\ f.scopeEnd = e /\ f.stmts = Running.stmts
  <2>1. Running \in FrameTypes
    BY <1>1
  <2>2. IsCalling(f, Running, fn, b, e)
    BY <1>5, <2>1, CallingFrame
  <2>. QED
    BY <2>2 DEF IsCalling
<1>7. FrameIs(prog, f)
  <2>1. IsProgram(prog, f)
    BY <1>2, <1>4, <1>6 DEF IsProgram
  <2>2. InText(prog, f) /\ StatementsAre(prog, f)
    BY <1>1, <1>2, <1>4, <1>6, NoStatements DEF InText
  <2>. QED
    BY <1>6, <2>1, <2>2 DEF FrameIs, Blocks, Ifs, Loops
<1>8. /\ fn \in ProgramParts /\ fn \notin Blocks \cup {"program", "on_"} /\ fn # "func"
      /\ ~(Len(frames) > 1)
  BY <1>1 DEF ProgramParts, Blocks
<1>9. CallBlock(fn, block, b, e) /\ b <= e
  BY <1>4
<1>. QED
  BY <1>4, <1>5, <1>6, <1>7, <1>8, <1>9, CallBlockKeeps

\* The program starts with #enter, up to its brace.
LEMMA StartProgramKeeps ==
    ASSUME ParserInv, StartProgram
    PROVE  ParserInv'
<1>1. /\ prog \in Seq(STRING) /\ Len(prog) \in Nat \ {0} /\ prog[Len(prog)] = "eof_"
      /\ Running.fn = "program" /\ Running \in FrameTypes
  BY RunningIs DEF StartProgram, Starts, FrameIs
<1>2. Running.fn \in ProgramParts /\ Running.end \in Nat
  BY <1>1, FrameFields DEF ProgramParts
<1>3. Running.end = Len(prog) + 1
  BY <1>2, RunningIs DEF FrameIs, IsProgram
<1>4. PICK o \in Then(Expect("enter_", 1, Running.end), LAMBDA p : ExpectRaw("open_brace_", 2)) :
         IF o.is = "ok"
         THEN CallBlock("enter_", "pragmatic", o.at, Exact("open_brace_", o.at, Running.end).end)
         ELSE Stop(o.is)
  BY DEF StartProgram, On
<1>5. PICK y \in Expect("enter_", 1, Running.end) :
         IF y.is = "ok" THEN o \in ExpectRaw("open_brace_", 2) ELSE o = y
  BY <1>4 DEF Then
<1>6. /\ y.is # "ok" => y.is \in FailsWith
      /\ y.is = "ok" => prog[1] = "enter_"
  BY <1>2, ExpectGives
<1>7. CASE y.is # "ok"
  BY <1>4, <1>5, <1>6, <1>7, FailsKeeps
<1>8. CASE y.is = "ok"
  <2>1. 2 <= Len(prog)
    <3>1. Len(prog) # 1
      <4>. PICK n \in Nat : n = Len(prog)
        BY <1>1
      <4>1. prog[n] = "eof_" /\ prog[1] = "enter_"
        BY <1>1, <1>6, <1>8
      <4>2. n # 1
        BY <4>1
      <4>. QED
        BY <4>2
    <3>. PICK n \in Nat \ {0} : n = Len(prog)
      BY <1>1
    <3>. QED
      BY <3>1
  <2>2. /\ o.is # "ok" => o.is \in FailsWith
        /\ o.is = "ok" => o.at = 2
    BY <1>1, <1>5, <1>8, <2>1, ExpectRawGives
  <2>3. CASE o.is # "ok"
    BY <1>4, <2>2, <2>3, FailsKeeps
  <2>4. CASE o.is = "ok"
    <3>1. CallBlock("enter_", "pragmatic", 2, Exact("open_brace_", 2, Running.end).end)
      BY <1>4, <2>2, <2>4
    <3>2. "pragmatic" \in Blocks
      BY DEF Blocks
    <3>. QED
      BY <1>2, <2>1, <3>1, <3>2, ProgramCallKeeps
  <2>. QED
    BY <2>3, <2>4
<1>. QED
  BY <1>7, <1>8

\* Behind the #enter comes the #start, or the parser stops.
LEMMA EnterParsedKeeps ==
    ASSUME ParserInv, EnterParsed
    PROVE  ParserInv'
<1>1. /\ prog \in Seq(STRING) /\ Len(prog) \in Nat \ {0} /\ prog[Len(prog)] = "eof_"
      /\ Running.fn = "enter_" /\ Running \in FrameTypes
  BY RunningIs DEF EnterParsed, CameBack, FrameIs
<1>2. /\ Running.fn \in ProgramParts /\ Running.end \in Nat /\ Running.scopeEnd \in Nat
      /\ Running.cursor \in Nat
  BY <1>1, FrameFields DEF ProgramParts
<1>3. IsProgram(prog, Running)
  BY <1>2, RunningIs DEF FrameIs
<1>4. Running.end = Len(prog) + 1 /\ Running.scopeEnd # 0
  BY <1>1, <1>2, <1>3 DEF IsProgram
<1>5. PICK o \in Then(Expect("start_", Running.scopeEnd, Running.end),
                      LAMBDA p : ExpectRaw("open_brace_", p + 1)) :
         IF o.is = "ok"
         THEN CallBlock("start_", "functional", o.at, Exact("open_brace_", o.at, Running.end).end)
         ELSE Stop(o.is)
  BY DEF EnterParsed, On
<1>6. PICK y \in Expect("start_", Running.scopeEnd, Running.end) :
         IF y.is = "ok" THEN o \in ExpectRaw("open_brace_", y.at + 1) ELSE o = y
  BY <1>5 DEF Then
<1>7. /\ y.is # "ok" => y.is \in FailsWith
      /\ y.is = "ok" => y.at = Running.scopeEnd /\ y.at < Running.end /\ prog[y.at] = "start_"
  BY <1>2, ExpectGives
<1>8. CASE y.is # "ok"
  BY <1>5, <1>6, <1>7, <1>8, FailsKeeps
<1>9. CASE y.is = "ok"
  <2>1. y.at + 1 \in Nat \ {0} /\ y.at + 1 <= Len(prog)
    <3>1. Running.scopeEnd # Len(prog)
      BY <1>1, <1>7, <1>9
    <3>. QED
      BY <1>1, <1>2, <1>4, <1>7, <1>9, <3>1
  <2>2. /\ o.is # "ok" => o.is \in FailsWith
        /\ o.is = "ok" => o.at = y.at + 1
    BY <1>1, <1>6, <1>9, <2>1, ExpectRawGives
  <2>3. CASE o.is # "ok"
    BY <1>5, <2>2, <2>3, FailsKeeps
  <2>4. CASE o.is = "ok"
    <3>1. CallBlock("start_", "functional", o.at, Exact("open_brace_", o.at, Running.end).end)
      BY <1>5, <2>4
    <3>2. "functional" \in Blocks /\ o.at \in Nat /\ o.at # 0 /\ o.at <= Len(prog)
      BY <2>1, <2>2, <2>4 DEF Blocks
    <3>. QED
      BY <1>2, <3>1, <3>2, ProgramCallKeeps
  <2>. QED
    BY <2>3, <2>4
<1>. QED
  BY <1>8, <1>9

LEMMA StartParsedKeeps ==
    ASSUME ParserInv, StartParsed
    PROVE  ParserInv'
<1>1. "parsed" \in Outcomes
  BY DEF Outcomes
<1>. QED
  BY <1>1, StopKeeps DEF StartParsed

-----------------------------------------------------------------------------
(* The blocks and the statements that call no block.                       *)

\* A block before a statement: an open range up to the block's own brace.
LEMMA AtStatementIs ==
    ASSUME ParserInv, NEW blocks, blocks \subseteq Blocks, NEW types, AtStatement(blocks, types)
    PROVE  /\ prog \in Seq(STRING) /\ Len(prog) \in Nat /\ Len(frames) \in Nat \ {0}
           /\ Running \in FrameTypes /\ Running.fn \in blocks /\ Running.fn \in Blocks
           /\ Running.cursor \in Nat \ {0} /\ Running.end \in Nat
           /\ prog[Running.cursor] \in types
           /\ StartedBlock(prog, Running) /\ AtBlock(Running.cursor, Running.end)
<1>1. /\ prog \in Seq(STRING) /\ Len(prog) \in Nat /\ Len(frames) \in Nat \ {0}
      /\ Running \in FrameTypes /\ FrameIs(prog, Running)
  BY RunningIs DEF FrameIs
<1>2. /\ Running.fn \in blocks /\ Running.fn \in Blocks /\ Running.cursor # 0
      /\ Running.cursor < Running.end /\ prog[Running.cursor] \in types
  BY DEF AtStatement, GoesOn
<1>3. Running.cursor \in Nat \ {0} /\ Running.end \in Nat
  BY <1>1, <1>2, FrameFields
<1>4. StartedBlock(prog, Running)
  BY <1>1, <1>2 DEF FrameIs
<1>5. AtBlock(Running.cursor, Running.end)
  BY <1>2, <1>4 DEF StartedBlock, AtBlock
<1>. QED
  BY <1>1, <1>2, <1>3, <1>4, <1>5

\* A statement whose end is returned, or a failure.
LEMMA StatementKeeps ==
    ASSUME ParserInv, Running.fn \in Blocks, Running.cursor # 0, NEW o,
           o.is # "ok" => o.is \in FailsWith,
           o.is = "ok" => o.at \in Nat /\ o.at <= Running.end /\ Whole(prog, Running.cursor, o.at),
           IF o.is = "ok" THEN GoOn(Took(o.at)) ELSE Stop(o.is)
    PROVE  ParserInv'
<1>1. CASE o.is # "ok"
  BY <1>1, FailsKeeps
<1>2. CASE o.is = "ok"
  <2>1. Running.fn # "on_"
    BY DEF Blocks
  <2>. QED
    BY <1>2, <2>1, TookKeeps
<1>. QED
  BY <1>1, <1>2

\* One lemma per action: what the statement gives is whole, so the block is at
\* the begin of the next.
LEMMA DeclareVarKeeps ==
    ASSUME ParserInv, DeclareVar
    PROVE  ParserInv'
<1>1. AtStatement(Blocks, {"alnumus_"}) /\ Blocks \subseteq Blocks
  BY DEF DeclareVar
<1>2. PICK o \in parse_directive_var(Running.cursor, Running.end) :
          IF o.is = "ok" THEN GoOn(Took(o.at)) ELSE Stop(o.is)
  BY DEF DeclareVar, On
<1>3. /\ prog \in Seq(STRING) /\ Running.fn \in Blocks /\ Running.cursor \in Nat \ {0}
      /\ Running.end \in Nat /\ prog[Running.cursor] = "alnumus_"
      /\ AtBlock(Running.cursor, Running.end)
  BY <1>1, AtStatementIs
<1>4. /\ o.is # "ok" => o.is \in FailsWith
      /\ o.is = "ok" => o.at \in Nat /\ o.at <= Running.end /\ Whole(prog, Running.cursor, o.at)
  BY <1>2, <1>3, VarGives
<1>. QED
  BY <1>2, <1>3, <1>4, StatementKeeps

LEMMA DeclareTypeKeeps ==
    ASSUME ParserInv, DeclareType
    PROVE  ParserInv'
<1>1. AtStatement(Blocks, {"use_"}) /\ Blocks \subseteq Blocks
  BY DEF DeclareType
<1>2. PICK o \in parse_directive_type(Running.cursor, Running.end) :
          IF o.is = "ok" THEN GoOn(Took(o.at)) ELSE Stop(o.is)
  BY DEF DeclareType, On
<1>3. /\ prog \in Seq(STRING) /\ Running.fn \in Blocks /\ Running.cursor \in Nat \ {0}
      /\ Running.end \in Nat /\ prog[Running.cursor] = "use_"
      /\ AtBlock(Running.cursor, Running.end)
  BY <1>1, AtStatementIs
<1>4. /\ o.is # "ok" => o.is \in FailsWith
      /\ o.is = "ok" => o.at \in Nat /\ o.at <= Running.end /\ Whole(prog, Running.cursor, o.at)
  BY <1>2, <1>3, TypeGives
<1>. QED
  BY <1>2, <1>3, <1>4, StatementKeeps

LEMMA ParseReturnKeeps ==
    ASSUME ParserInv, ParseReturn
    PROVE  ParserInv'
<1>1. AtStatement({"functional"}, {"return_"}) /\ {"functional"} \subseteq Blocks
  BY DEF ParseReturn, Blocks
<1>2. PICK o \in parse_directive_return(Running.cursor, Running.end) :
          IF o.is = "ok" THEN GoOn(Took(o.at)) ELSE Stop(o.is)
  BY DEF ParseReturn, On
<1>3. /\ prog \in Seq(STRING) /\ Running.fn \in Blocks /\ Running.cursor \in Nat \ {0}
      /\ Running.end \in Nat /\ prog[Running.cursor] = "return_"
      /\ AtBlock(Running.cursor, Running.end)
  <2>1. \A types : AtStatement({"functional"}, types) =>
            /\ prog \in Seq(STRING) /\ Running.fn \in Blocks /\ Running.cursor \in Nat \ {0}
            /\ Running.end \in Nat /\ prog[Running.cursor] \in types
            /\ AtBlock(Running.cursor, Running.end)
    BY <1>1, AtStatementIs
  <2>. QED
    BY <1>1, <2>1
<1>4. /\ o.is # "ok" => o.is \in FailsWith
      /\ o.is = "ok" => o.at \in Nat /\ o.at <= Running.end /\ Whole(prog, Running.cursor, o.at)
  BY <1>2, <1>3, ReturnGives
<1>. QED
  BY <1>2, <1>3, <1>4, StatementKeeps

LEMMA RefuseStatementKeeps ==
    ASSUME ParserInv, RefuseStatement
    PROVE  ParserInv'
<1>1. "refused" \in Outcomes
  BY DEF Outcomes
<1>2. Stop("refused")
  BY DEF RefuseStatement
<1>. QED
  BY <1>1, <1>2, StopKeeps

LEMMA StatementParsedKeeps ==
    ASSUME ParserInv, StatementParsed
    PROVE  ParserInv'
<1>1. returned # 0 /\ Running.fn \in Blocks /\ GoOn(Took(returned))
  BY DEF StatementParsed, CameBack
<1>2. returned \in Nat /\ Returns(prog, Running, returned)
  BY <1>1 DEF ParserInv
<1>3. Running.cursor # 0 /\ Whole(prog, Running.cursor, returned) /\ returned <= Running.end
  BY <1>1, <1>2 DEF Returns
<1>4. Running.fn # "on_"
  BY <1>1 DEF Blocks
<1>. QED
  BY <1>1, <1>2, <1>3, <1>4, TookKeeps

\* A statement calls a function of its own.
LEMMA CallStatementKeeps ==
    ASSUME ParserInv, Running.fn \in Blocks \cup {"on_"}, Running.cursor # 0,
           NEW g, FrameIs(prog, g), g.fn \notin ProgramParts \cup Blocks,
           g.begin = Running.cursor,
           \/ Running.fn \in Blocks /\ g.end <= Running.end
           \/ Running.fn = "on_" /\ g.fn \in Ifs /\ g.end = Running.scopeEnd - 1,
           Call(Running, g)
    PROVE  ParserInv'
<1>1. Calls(Running, g)
  BY DEF Calls, CallsStatement
<1>2. /\ FrameIs(prog, Running)
      /\ Len(frames) = 1 => Running.fn \in ProgramParts
      /\ Len(frames) > 1 => Calls(Caller, Running)
  BY RunningIs
<1>. QED
  BY <1>1, <1>2, CallKeeps

LEMMA DeclareFuncKeeps ==
    ASSUME ParserInv, DeclareFunc
    PROVE  ParserInv'
<1>1. AtStatement(Blocks, {"open_bracket_"}) /\ Blocks \subseteq Blocks
  BY DEF DeclareFunc
<1>2. /\ prog \in Seq(STRING) /\ Running.fn \in Blocks /\ Running.cursor \in Nat \ {0}
      /\ Len(prog) \in Nat
      /\ Running.end \in Nat /\ prog[Running.cursor] = "open_bracket_"
      /\ AtBlock(Running.cursor, Running.end)
  BY <1>1, AtStatementIs
<1>. DEFINE g == Frame("func", Running.cursor, Running.end)
<1>3. /\ g \in FrameTypes /\ g.fn = "func" /\ g.begin = Running.cursor /\ g.end = Running.end
      /\ g.cursor = 0 /\ g.scopeEnd = 0 /\ g.stmts = <<>>
  <2>1. "func" \in Functions
    BY DEF Functions
  <2>. QED
    BY <1>2, <2>1, NewFrame
<1>4. Call(Running, g)
  BY DEF DeclareFunc
<1>. HIDE DEF g
<1>5. IsFunc(prog, g) /\ InText(prog, g) /\ StatementsAre(prog, g)
  BY <1>2, <1>3, NoStatements DEF IsFunc, InText, Inside, AtBlock
<1>6. FrameIs(prog, g) /\ g.fn \notin ProgramParts \cup Blocks
  BY <1>3, <1>5 DEF FrameIs, Blocks, ProgramParts, Ifs, Loops
<1>7. g.end <= Running.end
  BY <1>2, <1>3
<1>. QED
  BY <1>2, <1>3, <1>4, <1>6, <1>7, CallStatementKeeps

LEMMA DeclareClassKeeps ==
    ASSUME ParserInv, DeclareClass
    PROVE  ParserInv'
<1>1. AtStatement(Blocks, {"class_"}) /\ Blocks \subseteq Blocks
  BY DEF DeclareClass
<1>2. /\ prog \in Seq(STRING) /\ Running.fn \in Blocks /\ Running.cursor \in Nat \ {0}
      /\ Len(prog) \in Nat
      /\ Running.end \in Nat /\ prog[Running.cursor] = "class_"
      /\ AtBlock(Running.cursor, Running.end)
  BY <1>1, AtStatementIs
<1>. DEFINE g == Frame("class_", Running.cursor, Running.end)
<1>3. /\ g \in FrameTypes /\ g.fn = "class_" /\ g.begin = Running.cursor /\ g.end = Running.end
      /\ g.cursor = 0 /\ g.scopeEnd = 0 /\ g.stmts = <<>>
  <2>1. "class_" \in Functions
    BY DEF Functions
  <2>. QED
    BY <1>2, <2>1, NewFrame
<1>4. Call(Running, g)
  BY DEF DeclareClass
<1>. HIDE DEF g
<1>5. IsClass(prog, g) /\ InText(prog, g) /\ StatementsAre(prog, g)
  BY <1>2, <1>3, NoStatements DEF IsClass, InText, Inside, AtBlock
<1>6. FrameIs(prog, g) /\ g.fn \notin ProgramParts \cup Blocks
  BY <1>3, <1>5 DEF FrameIs, Blocks, ProgramParts, Ifs, Loops
<1>7. g.end <= Running.end
  BY <1>2, <1>3
<1>. QED
  BY <1>2, <1>3, <1>4, <1>6, <1>7, CallStatementKeeps

\* The frame of a conditional that starts.
LEMMA ConditionalStarts ==
    ASSUME prog \in Seq(STRING), NEW b \in Nat \ {0}, NEW e \in Nat, b < e, e < Len(prog),
           Nested(prog, b, e), e = b + 1 \/ prog[e - 1] = "eos_" \/ prog[e] = "close_brace_",
           prog[b] = "for_" /\ e = b + 1 => IsEndless(prog, b),
           prog[b] \in Conditionals, NEW g, g = Frame(prog[b], b, e)
    PROVE  /\ FrameIs(prog, g) /\ g.fn = prog[b] /\ g.begin = b /\ g.end = e
           /\ g.fn \notin ProgramParts \cup Blocks
<1>1. /\ g \in FrameTypes /\ g.fn = prog[b] /\ g.begin = b /\ g.end = e
      /\ g.cursor = 0 /\ g.scopeEnd = 0 /\ g.stmts = <<>>
  <2>1. prog[b] \in Functions /\ b \in Nat /\ e \in Nat
    BY DEF Functions
  <2>. QED
    BY ONLY <2>1, NewFrame, g = Frame(prog[b], b, e)
<1>2. Conditional(prog, g) /\ InText(prog, g) /\ StatementsAre(prog, g)
  <2>1. Len(prog) \in Nat
    BY LenProperties
  <2>. QED
    BY <1>1, <2>1, NoStatements DEF InText, Conditional, Inside
<1>3. g.fn \in Ifs \cup Loops => IsBranch(prog, g)
  BY <1>1, <1>2 DEF IsBranch, Conditionals, Ifs, Loops
<1>4. g.fn = "on_" => IsOn(prog, g)
  BY <1>1, <1>2 DEF IsOn
<1>5. g.fn \notin ProgramParts \cup Blocks \cup {"func", "class_"}
  BY <1>1 DEF Conditionals, ProgramParts, Blocks
<1>. QED
  BY <1>1, <1>2, <1>3, <1>4, <1>5 DEF FrameIs

LEMMA ParseConditionalKeeps ==
    ASSUME ParserInv, ParseConditional
    PROVE  ParserInv'
<1>1. AtStatement({"functional"}, Conditionals) /\ {"functional"} \subseteq Blocks
  BY DEF ParseConditional, Blocks
<1>2. /\ prog \in Seq(STRING) /\ Running.fn \in Blocks /\ Running.cursor \in Nat \ {0}
      /\ Len(prog) \in Nat
      /\ Running.end \in Nat /\ prog[Running.cursor] \in Conditionals
      /\ AtBlock(Running.cursor, Running.end)
  BY <1>1, AtStatementIs
<1>3. PICK o \in FindStatement(Running.cursor, Running.end) :
          IF o.is = "ok" THEN Call(Running, Frame(prog[Running.cursor], Running.cursor, o.at))
          ELSE Stop(o.is)
  BY DEF ParseConditional, On
<1>4. /\ o.is # "ok" => o.is \in FailsWith
      /\ o.is = "ok" => /\ o.at \in Nat /\ Running.cursor < o.at /\ o.at <= Running.end
                        /\ o.at = Running.cursor + 1 \/ prog[o.at - 1] = "eos_"
                        /\ o.at = Running.cursor + 1 =>
                               NothingEnds(prog, Running.cursor, Running.end)
  BY <1>2, <1>3, FindStatementGives DEF AtBlock
<1>5. CASE o.is # "ok"
  BY <1>3, <1>4, <1>5, FailsKeeps
<1>6. CASE o.is = "ok"
  <2>. DEFINE b == Running.cursor  e == o.at  g == Frame(prog[b], b, e)
  <2>1. Nested(prog, b, e) /\ e < Len(prog)
    BY <1>2, <1>4, <1>6, NestedPrefix DEF AtBlock
  <2>2. Call(Running, g)
    BY <1>3, <1>6
  <2>4. prog[b] = "for_" /\ e = b + 1 => IsEndless(prog, b)
    <3>1. DOMAIN prog = 1..Len(prog)
      BY <1>2, LenProperties
    <3>2. b \in DOMAIN prog /\ Running.end \in DOMAIN prog /\ b < Running.end
      BY <1>2, <3>1 DEF AtBlock
    <3>. QED
      BY <1>4, <1>6, <3>2 DEF IsEndless
  <2>. HIDE DEF g
  <2>3. /\ FrameIs(prog, g) /\ g.fn = prog[b] /\ g.begin = b /\ g.end = e
        /\ g.fn \notin ProgramParts \cup Blocks
    BY <1>2, <1>4, <1>6, <2>1, <2>4, ConditionalStarts DEF g
  <2>. QED
    BY <1>2, <1>4, <1>6, <2>2, <2>3, CallStatementKeeps
<1>. QED
  BY <1>5, <1>6

-----------------------------------------------------------------------------
(* How a block starts and ends.                                            *)

\* The place of a number among others.
LEMMA NotLast ==
    ASSUME prog \in Seq(STRING), Len(prog) \in Nat, prog[Len(prog)] = "eof_",
           NEW p \in Nat, p <= Len(prog), prog[p] # "eof_"
    PROVE  p < Len(prog)
<1>. PICK n \in Nat : n = Len(prog)
  OBVIOUS
<1>1. prog[n] = "eof_"
  OBVIOUS
<1>2. p # n
  BY <1>1
<1>. QED
  BY <1>2

\* A block that runs has been called.
LEMMA BlockIsCalled ==
    ASSUME ParserInv, Running.fn \in Blocks
    PROVE  /\ prog \in Seq(STRING) /\ Len(prog) \in Nat \ {0} /\ prog[Len(prog)] = "eof_"
           /\ Len(frames) > 1 /\ Len(frames) # 1
           /\ Running \in FrameTypes /\ Caller \in FrameTypes
           /\ FrameIs(prog, Running) /\ FrameIs(prog, Caller)
           /\ Caller.cursor # 0 /\ CallsBlock(Caller, Running)
<1>1. Running.fn \notin ProgramParts
  BY DEF Blocks, ProgramParts
<1>2. Len(frames) # 1 /\ Len(frames) \in Nat \ {0}
  BY <1>1, RunningIs
<1>3. Len(frames) > 1
  <2>. PICK n \in Nat \ {0} : n = Len(frames)
    BY <1>2
  <2>. QED
    BY <1>2
<1>4. FrameIs(prog, Running) /\ FrameIs(prog, Caller) /\ Calls(Caller, Running)
  BY <1>3, RunningIs
<1>. QED
  BY <1>2, <1>3, <1>4, RunningIs DEF FrameIs, Calls

\* The scope that a block has found is that of its caller.
LEMMA BlockReturns ==
    ASSUME prog \in Seq(STRING), NEW c, FrameIs(prog, c), c.cursor # 0, c.fn \notin Blocks \cup {"on_"},
           NEW q \in Nat, ScopeAt(prog, "open_brace_", c.cursor, q), q <= c.scopeEnd,
           NEW p \in Nat, p <= Len(prog) + 1, c.fn = "func" => p = q
    PROVE  Returns(prog, c, p)
<1>1. c \in FrameTypes
  BY DEF FrameIs
<1>2. c.cursor \in Nat \ {0} /\ c.scopeEnd \in Nat /\ c.end \in Nat
  BY <1>1, FrameFields
<1>3. c.cursor <= q
  <2>1. c.cursor + 2 <= q
    BY <1>2, ScopeProperties
  <2>. QED
    BY <1>2, <2>1
<1>4. ASSUME c.fn \in {"enter_", "start_", "class_"}
      PROVE  ScopeAt(prog, "open_brace_", c.cursor, c.scopeEnd)
  <2>1. CASE c.fn \in {"enter_", "start_"}
    <3>1. IsProgram(prog, c)
      BY <2>1 DEF FrameIs, ProgramParts
    <3>2. Agrees(prog, c.cursor, c.scopeEnd)
      BY <3>1 DEF IsProgram
    <3>. QED
      BY <1>2, <1>3, <3>2 DEF Agrees
  <2>2. CASE c.fn = "class_"
    <3>1. IsClass(prog, c)
      BY <2>2 DEF FrameIs
    <3>2. Agrees(prog, c.cursor, c.scopeEnd)
      BY <3>1 DEF IsClass
    <3>. QED
      BY <1>2, <1>3, <3>2 DEF Agrees
  <2>. QED
    BY <1>4, <2>1, <2>2
<1>5. c.fn = "func" => p <= c.end
  <2>1. c.fn = "func" => c.scopeEnd = c.end
    BY DEF FrameIs, IsFunc
  <2>. QED
    BY <1>2, <2>1
<1>. QED
  BY <1>4, <1>5 DEF Returns, Blocks

\* The frame of a block that has found its scope, up to p.
Started(r, p) == [r EXCEPT !.begin = @ + 1, !.end = p - 1, !.cursor = r.begin + 1]

IsStarted(f, r, p) ==
    /\ f \in FrameTypes /\ f.fn = r.fn /\ f.begin = r.begin + 1 /\ f.end = p - 1
    /\ f.cursor = r.begin + 1 /\ f.scopeEnd = r.scopeEnd /\ f.stmts = r.stmts

LEMMA StartedFrame ==
    \A r \in FrameTypes : \A p \in Nat \ {0} : \A f :
        f = Started(r, p) => IsStarted(f, r, p)
<1>. SUFFICES ASSUME NEW r \in FrameTypes, NEW p \in Nat \ {0}, NEW f, f = Started(r, p)
              PROVE  IsStarted(f, r, p)
  OBVIOUS
<1>. PICK x \in Nat, y \in Nat : x = r.begin + 1 /\ y = p - 1
  BY FrameFields
<1>1. f = [r EXCEPT !.begin = x, !.end = y, !.cursor = x]
  BY DEF Started, FrameTypes
<1>. QED
  BY <1>1 DEF FrameTypes, IsStarted

\* A block searches its end again, whoever has searched it before.
LEMMA StartedKeeps ==
    ASSUME ParserInv, Running.fn \in Blocks, Running.cursor = 0,
           NEW p \in Nat, ScopeAt(prog, "open_brace_", Running.begin, p), p <= Running.end,
           p # Running.begin + 2, NEW f, f = Started(Running, p), GoOn(f)
    PROVE  ParserInv'
<1>1. /\ prog \in Seq(STRING) /\ Len(prog) \in Nat \ {0} /\ prog[Len(prog)] = "eof_"
      /\ Running \in FrameTypes /\ FrameIs(prog, Running)
      /\ Len(frames) > 1 /\ Caller.cursor # 0 /\ CallsBlock(Caller, Running)
      /\ Caller \in FrameTypes
  BY BlockIsCalled
<1>2. /\ Running.begin \in Nat /\ Running.end \in Nat /\ Running.scopeEnd \in Nat
      /\ Caller.cursor \in Nat /\ Caller.scopeEnd \in Nat
  BY <1>1, FrameFields
<1>3. /\ Running.begin # 0 /\ Running.end <= Len(prog) + 1 /\ Running.stmts = <<>>
      /\ Running.scopeEnd <= Len(prog) + 1
  BY <1>1 DEF FrameIs, NewBlock, InText
<1>4. /\ prog[p - 1] = "close_brace_" /\ Running.begin + 2 <= p /\ p - 1 \in Nat
  BY <1>1, <1>2, <1>3, ScopeProperties DEF ClosingOf
<1>5. p - 1 < Len(prog)
  <2>1. p - 1 <= Len(prog)
    BY <1>1, <1>2, <1>3
  <2>. QED
    BY <1>1, <1>4, <2>1, NotLast
<1>6. Nested(prog, Running.begin + 1, p - 1)
  BY <1>1, <1>2, <1>3, InsideScope
<1>7. IsStarted(f, Running, p)
  BY <1>1, <1>4, StartedFrame
<1>. PICK r : r = Running
  OBVIOUS
<1>8. /\ f \in FrameTypes /\ f.fn = r.fn /\ f.begin = r.begin + 1 /\ f.end = p - 1
      /\ f.cursor = r.begin + 1 /\ f.scopeEnd = r.scopeEnd /\ f.stmts = <<>>
  BY <1>3, <1>7 DEF IsStarted
<1>9. StartedBlock(prog, f)
  <2>1. f.begin - 1 = r.begin /\ f.end + 1 = p
    BY <1>2, <1>8
  <2>. QED
    BY <1>2, <1>3, <1>4, <1>5, <1>6, <1>8, <2>1 DEF StartedBlock
<1>10. InText(prog, f) /\ StatementsAre(prog, f)
  BY <1>1, <1>2, <1>3, <1>4, <1>5, <1>8, NoStatements DEF InText
<1>11. FrameIs(prog, f)
  <2>1. f.cursor # 0
    BY <1>2, <1>8
  <2>. QED
    BY <1>8, <1>9, <1>10, <2>1 DEF FrameIs, Blocks, ProgramParts, Ifs, Loops
<1>12. Calls(Caller, f)
  <2>1. r.begin = Caller.cursor /\ r.end = Caller.scopeEnd
    BY <1>1 DEF CallsBlock
  <2>2. f.cursor # 0 /\ f.begin = Caller.cursor + 1 /\ f.end + 1 <= Caller.scopeEnd
    BY <1>2, <1>8, <2>1
  <2>. QED
    BY <1>1, <1>8, <2>2 DEF Calls, CallsBlock
<1>13. Len(frames) # 1
  BY BlockIsCalled
<1>. QED
  BY <1>11, <1>12, <1>13, GoOnKeeps

LEMMA StartBlockKeeps ==
    ASSUME ParserInv, StartBlock
    PROVE  ParserInv'
<1>1. PICK fn \in Blocks :
        /\ Starts(fn)
        /\ On(Then(ExpectRaw("open_brace_", Running.begin),
                   LAMBDA b : FindAnyScope("open_brace_", b, Running.end)),
              LAMBDA p : CASE p # Running.begin + 2 ->
                                 GoOn([Running EXCEPT !.begin = @ + 1, !.end = p - 1,
                                                      !.cursor = Running.begin + 1])
                           [] p = Running.begin + 2 /\ fn = "pragmatic"  -> ReturnAt(p)
                           [] p = Running.begin + 2 /\ fn = "functional" -> Stop("refused"))
  BY DEF StartBlock
<1>2. Running.fn \in Blocks /\ Running.cursor = 0 /\ Running.fn = fn
  BY <1>1 DEF Starts
<1>3. /\ prog \in Seq(STRING) /\ Len(prog) \in Nat \ {0} /\ prog[Len(prog)] = "eof_"
      /\ Running \in FrameTypes /\ FrameIs(prog, Running)
      /\ Len(frames) > 1 /\ Caller.cursor # 0 /\ CallsBlock(Caller, Running)
      /\ Caller \in FrameTypes /\ FrameIs(prog, Caller)
  BY <1>2, BlockIsCalled
<1>4. /\ Running.begin \in Nat \ {0} /\ Running.end \in Nat /\ Running.begin <= Len(prog)
      /\ Running.end <= Len(prog) + 1
  BY <1>2, <1>3, FrameFields DEF FrameIs, NewBlock
<1>5. PICK o \in Then(ExpectRaw("open_brace_", Running.begin),
                   LAMBDA b : FindAnyScope("open_brace_", b, Running.end)) :
        IF o.is = "ok"
        THEN CASE o.at # Running.begin + 2 -> GoOn(Started(Running, o.at))
               [] o.at = Running.begin + 2 /\ fn = "pragmatic"  -> ReturnAt(o.at)
               [] o.at = Running.begin + 2 /\ fn = "functional" -> Stop("refused")
        ELSE Stop(o.is)
  BY <1>1 DEF On, Started
<1>6. PICK y \in ExpectRaw("open_brace_", Running.begin) :
        IF y.is = "ok" THEN o \in FindAnyScope("open_brace_", y.at, Running.end) ELSE o = y
  BY <1>5 DEF Then
<1>7. /\ y.is # "ok" => y.is \in FailsWith
      /\ y.is = "ok" => y.at = Running.begin
  BY <1>3, <1>4, <1>6, ExpectRawGives
<1>8. /\ o.is # "ok" => o.is \in FailsWith
      /\ o.is = "ok" => /\ o.at \in Nat /\ o.at <= Running.end
                        /\ ScopeAt(prog, "open_brace_", Running.begin, o.at)
  <2>1. CASE y.is = "ok"
    <3>1. o \in FindAnyScope("open_brace_", Running.begin, Running.end)
      BY <1>6, <1>7, <2>1
    <3>. QED
      BY <1>3, <1>4, <3>1, FindAnyScopeGives
  <2>2. CASE y.is # "ok"
    BY <1>6, <1>7, <2>2
  <2>. QED
    BY <2>1, <2>2
<1>9. CASE o.is # "ok"
  BY <1>5, <1>8, <1>9, FailsKeeps
<1>10. CASE o.is = "ok" /\ o.at # Running.begin + 2
  <2>1. GoOn(Started(Running, o.at))
    BY <1>5, <1>10
  <2>. QED
    BY <1>2, <1>8, <1>10, <2>1, StartedKeeps
<1>11. CASE o.is = "ok" /\ o.at = Running.begin + 2 /\ fn = "functional"
  <2>1. Stop("refused") /\ "refused" \in Outcomes
    BY <1>5, <1>11 DEF Outcomes
  <2>. QED
    BY <2>1, StopKeeps
<1>12. CASE o.is = "ok" /\ o.at = Running.begin + 2 /\ fn = "pragmatic"
  <2>1. ReturnAt(o.at)
    BY <1>5, <1>12
  <2>2. NodeIs(prog, Running)
    BY <1>2, <1>3 DEF NodeIs, FrameIs
  <2>3. /\ Running.begin = Caller.cursor /\ Running.end = Caller.scopeEnd
        /\ Caller.fn \notin Blocks \cup {"on_"} /\ Caller.fn # "func"
    BY <1>2, <1>3, <1>12 DEF CallsBlock
  <2>4. o.at \in Nat /\ o.at <= Caller.scopeEnd /\ o.at <= Len(prog) + 1
    BY <1>3, <1>4, <1>8, <1>12, <2>3
  <2>5. Returns(prog, Caller, o.at)
    BY <1>3, <1>8, <1>12, <2>3, <2>4, BlockReturns
  <2>. QED
    BY <1>3, <2>1, <2>2, <2>4, <2>5, ReturnKeeps
<1>13. fn = "pragmatic" \/ fn = "functional"
  BY DEF Blocks
<1>. QED
  BY <1>9, <1>10, <1>11, <1>12, <1>13

\* A functional block returns the place behind its brace, a pragmatic one the
\* place where it has stopped, which no caller looks at.
LEMMA EndBlockKeeps ==
    ASSUME ParserInv, EndBlock
    PROVE  ParserInv'
<1>1. PICK fn \in Blocks :
        /\ GoesOn(fn)
        /\ Running.cursor >= Running.end \/ prog[Running.cursor] = "eof_"
        /\ ReturnAt(IF fn = "pragmatic" THEN Running.cursor ELSE Running.end + 1)
  BY DEF EndBlock
<1>2. Running.fn \in Blocks /\ Running.cursor # 0 /\ Running.fn = fn
  BY <1>1 DEF GoesOn
<1>3. /\ prog \in Seq(STRING) /\ Len(prog) \in Nat \ {0}
      /\ Running \in FrameTypes /\ FrameIs(prog, Running)
      /\ Len(frames) > 1 /\ Caller.cursor # 0 /\ CallsBlock(Caller, Running)
      /\ Caller \in FrameTypes /\ FrameIs(prog, Caller)
  BY <1>2, BlockIsCalled
<1>4. /\ Running.begin \in Nat /\ Running.end \in Nat /\ Running.cursor \in Nat
      /\ Caller.cursor \in Nat /\ Caller.scopeEnd \in Nat
  BY <1>3, FrameFields
<1>5. StartedBlock(prog, Running)
  BY <1>2, <1>3 DEF FrameIs
<1>6. Running.cursor = Running.end \/ (Running.cursor < Running.end /\ prog[Running.cursor] = "eof_")
  <2>1. Running.cursor <= Running.end
    BY <1>5 DEF StartedBlock
  <2>. QED
    BY <1>1, <1>4, <2>1
<1>7. NodeIs(prog, Running)
  BY <1>3, <1>6 DEF NodeIs, FrameIs
<1>. PICK p : p = (IF fn = "pragmatic" THEN Running.cursor ELSE Running.end + 1)
  OBVIOUS
<1>8. p \in Nat /\ p <= Len(prog) + 1 /\ (fn = "functional" => p = Running.end + 1)
  BY <1>3, <1>4, <1>5 DEF StartedBlock
<1>9. /\ Running.begin = Caller.cursor + 1 /\ Running.end + 1 <= Caller.scopeEnd
      /\ Caller.fn \notin Blocks \cup {"on_"}
      /\ Caller.fn = "func" => fn = "functional"
  BY <1>2, <1>3 DEF CallsBlock
<1>10. ScopeAt(prog, "open_brace_", Caller.cursor, Running.end + 1)
  <2>1. Running.begin - 1 = Caller.cursor
    BY <1>4, <1>9
  <2>. QED
    BY <1>5, <2>1 DEF StartedBlock
<1>11. Running.end + 1 \in Nat
  BY <1>4
<1>12. Returns(prog, Caller, p)
  BY <1>3, <1>8, <1>9, <1>10, <1>11, BlockReturns
<1>13. ReturnAt(p)
  BY <1>1
<1>. QED
  BY <1>3, <1>7, <1>8, <1>12, <1>13, ReturnKeeps

-----------------------------------------------------------------------------
(* The functions and the classes.                                          *)

\* A statement that runs lies in a block.
LEMMA StatementIsCalled ==
    ASSUME ParserInv, Running.fn \in {"func", "class_", "on_"} \cup Ifs \cup Loops
    PROVE  /\ prog \in Seq(STRING) /\ Len(prog) \in Nat \ {0}
           /\ Running \in FrameTypes /\ FrameIs(prog, Running)
           /\ Len(frames) > 1 /\ Len(frames) # 1 /\ Calls(Caller, Running)
           /\ Running.fn \notin Blocks \cup ProgramParts
           /\ Running.begin \in Nat \ {0} /\ Running.end \in Nat
           /\ Running.cursor \in Nat /\ Running.scopeEnd \in Nat
           /\ Running.begin < Running.end /\ Running.end < Len(prog)
           /\ Nested(prog, Running.begin, Running.end)
           /\ InText(prog, Running)
<1>1. /\ prog \in Seq(STRING) /\ Len(prog) \in Nat \ {0}
      /\ Running \in FrameTypes /\ FrameIs(prog, Running) /\ InText(prog, Running)
      /\ Len(frames) \in Nat \ {0}
  BY RunningIs DEF FrameIs
<1>2. Running.fn \notin Blocks \cup ProgramParts
  BY DEF Blocks, ProgramParts, Ifs, Loops
<1>3. Len(frames) # 1
  BY <1>2, RunningIs
<1>4. Len(frames) > 1
  <2>. PICK n \in Nat \ {0} : n = Len(frames)
    BY <1>1
  <2>. QED
    BY <1>3
<1>5. Inside(prog, Running)
  <2>1. CASE Running.fn = "func"
    BY <1>1, <2>1 DEF FrameIs, IsFunc
  <2>2. CASE Running.fn = "class_"
    BY <1>1, <2>2 DEF FrameIs, IsClass
  <2>3. CASE Running.fn = "on_"
    BY <1>1, <2>3 DEF FrameIs, IsOn, Conditional
  <2>4. CASE Running.fn \in Ifs \cup Loops
    BY <1>1, <2>4 DEF FrameIs, IsBranch, Conditional
  <2>. QED
    BY <2>1, <2>2, <2>3, <2>4
<1>. QED
  BY <1>1, <1>2, <1>3, <1>4, <1>5, RunningIs, FrameFields DEF Inside

\* Such a statement calls a block.
LEMMA StatementCallKeeps ==
    ASSUME ParserInv, Running.fn \in {"func", "class_", "on_"} \cup Ifs \cup Loops,
           NEW fn \in {"func", "class_"} \cup Ifs \cup Loops, NEW block \in Blocks,
           NEW b \in Nat \ {0}, NEW e \in Nat, b <= e, e <= Running.end,
           Running.stmts = <<>>, Running.fn \in Ifs => fn \in Ifs, fn = "func" => block = "functional",
           \A f : IsCalling(f, Running, fn, b, e) =>
               /\ fn = "func" => IsFunc(prog, f)
               /\ fn = "class_" => IsClass(prog, f)
               /\ fn \in Ifs \cup Loops => IsBranch(prog, f),
           CallBlock(fn, block, b, e)
    PROVE  ParserInv'
<1>1. /\ Running \in FrameTypes /\ Len(prog) \in Nat \ {0} /\ Running.end \in Nat
      /\ Len(frames) # 1 /\ Len(frames) > 1 /\ Calls(Caller, Running) /\ Running.end < Len(prog)
      /\ Running.fn \notin Blocks /\ InText(prog, Running)
      /\ Running.begin \in Nat
  BY StatementIsCalled
<1>2. fn \in Functions /\ fn \notin Blocks \cup ProgramParts \cup {"on_", "program"}
  BY DEF Functions, Conditionals, Blocks, ProgramParts, Ifs, Loops
<1>. PICK f : f = Calling(Running, fn, b, e)
  OBVIOUS
<1>3. IsCalling(f, Running, fn, b, e)
  BY <1>1, <1>2, CallingFrame
<1>4. /\ f \in FrameTypes /\ f.fn = fn /\ f.begin = Running.begin /\ f.end = Running.end
      /\ f.cursor = b /\ f.scopeEnd = e /\ f.stmts = Running.stmts
  BY <1>3 DEF IsCalling
<1>5. /\ fn = "func" => IsFunc(prog, f)
      /\ fn = "class_" => IsClass(prog, f)
      /\ fn \in Ifs \cup Loops => IsBranch(prog, f)
  BY <1>3
<1>6. b <= Len(prog) /\ e <= Len(prog) + 1
  BY <1>1
<1>7. InText(prog, f) /\ StatementsAre(prog, f)
  BY <1>1, <1>4, <1>6, NoStatements DEF InText
<1>8. FrameIs(prog, f)
  BY <1>2, <1>4, <1>5, <1>7 DEF FrameIs
<1>9. Calls(Caller, f)
  BY <1>1, <1>2, <1>4, CallsSame
<1>. QED
  BY <1>1, <1>2, <1>4, <1>6, <1>8, <1>9, CallBlockKeeps

\* What a function with the range b..(end - 1) has read up to x.
FuncRead(x, b, end) ==
    /\ x.is # "ok" => x.is \in FailsWith
    /\ x.is = "ok" => x.at \in Nat /\ b < x.at /\ x.at <= end /\ Prefix(prog, b, x.at, "close_brace_")

FuncArguments(p, end) ==
    IF p >= end THEN AtEnd
    ELSE IF prog[p] = "open_paren_" THEN FindAnyScope("open_paren_", p, end) ELSE {Ok(p)}
FuncConstraints(p, end) ==
    IF p >= end THEN AtEnd
    ELSE IF StartsConstraint(prog[p]) THEN Constraint(p, end) ELSE {Ok(p)}

\* The head of a function, up to the body.
LEMMA FuncArgumentsGive ==
    ASSUME prog \in Seq(STRING), NEW b \in Nat \ {0}, NEW end \in Nat, end < Len(prog),
           NEW p \in Nat, b < p, p <= end, Prefix(prog, b, p, "close_brace_"),
           NEW x \in FuncArguments(p, end)
    PROVE  FuncRead(x, b, end)
<1>1. CASE p >= end
  <2>1. x \in AtEnd
    BY <1>1 DEF FuncArguments
  <2>2. x.is \in FailsWith /\ x.is # "ok"
    BY <2>1, EndOutcomes
  <2>. QED
    BY <2>2 DEF FuncRead
<1>2. CASE ~(p >= end) /\ prog[p] = "open_paren_"
  <2>0. end <= Len(prog) + 1 /\ p \in Nat \ {0}
    BY LenProperties
  <2>1. x \in FindAnyScope("open_paren_", p, end)
    BY <1>2 DEF FuncArguments
  <2>2. /\ x.is # "ok" => x.is \in FailsWith
        /\ x.is = "ok" => /\ x.at \in Nat /\ p + 2 <= x.at /\ x.at <= end
                          /\ ScopeAt(prog, "open_paren_", p, x.at)
    BY <2>0, <2>1, FindAnyScopeGives
  <2>3. ClosingOf["open_paren_"] # "close_brace_"
    BY DEF ClosingOf
  <2>4. x.is = "ok" => Prefix(prog, b, x.at, "close_brace_") /\ b < x.at
    BY <2>2, <2>3, PrefixScope
  <2>. QED
    BY <2>2, <2>4 DEF FuncRead
<1>3. CASE ~(p >= end) /\ prog[p] # "open_paren_"
  <2>1. x = Ok(p)
    BY <1>3 DEF FuncArguments
  <2>2. x.is = "ok" /\ x.at = p
    BY <2>1, EndOutcomes
  <2>. QED
    BY <2>2 DEF FuncRead
<1>. QED
  BY <1>1, <1>2, <1>3

LEMMA FuncConstraintsGive ==
    ASSUME prog \in Seq(STRING), NEW b \in Nat \ {0}, NEW end \in Nat, end < Len(prog),
           NEW p \in Nat, b < p, p <= end, Prefix(prog, b, p, "close_brace_"),
           NEW x \in FuncConstraints(p, end)
    PROVE  FuncRead(x, b, end)
<1>1. CASE p >= end
  <2>1. x \in AtEnd
    BY <1>1 DEF FuncConstraints
  <2>2. x.is \in FailsWith /\ x.is # "ok"
    BY <2>1, EndOutcomes
  <2>. QED
    BY <2>2 DEF FuncRead
<1>2. CASE ~(p >= end) /\ StartsConstraint(prog[p])
  <2>0. end <= Len(prog) + 1 /\ p \in Nat \ {0} /\ p < end /\ "close_brace_" \in Enders
    BY <1>2, LenProperties DEF Enders
  <2>1. x \in Constraint(p, end)
    BY <1>2 DEF FuncConstraints
  <2>2. /\ x.is # "ok" => x.is \in FailsWith
        /\ x.is = "ok" => x.at \in Nat /\ p < x.at /\ x.at <= end /\ Prefix(prog, p, x.at, "close_brace_")
    BY <2>0, <2>1, ConstraintGives
  <2>3. x.is = "ok" => b < x.at /\ x.at \in Nat \ {0}
    BY <2>2
  <2>4. x.is = "ok" => Prefix(prog, b, x.at, "close_brace_")
    BY <2>0, <2>2, <2>3, PrefixThen
  <2>. QED
    BY <2>2, <2>3, <2>4 DEF FuncRead
<1>3. CASE ~(p >= end) /\ ~StartsConstraint(prog[p])
  <2>1. x = Ok(p)
    BY <1>3 DEF FuncConstraints
  <2>2. x.is = "ok" /\ x.at = p
    BY <2>1, EndOutcomes
  <2>. QED
    BY <2>2 DEF FuncRead
<1>. QED
  BY <1>1, <1>2, <1>3

\* No close brace of the head is outside its scopes, so it is the one of the body
\* that ends the function.
LEMMA StartFuncKeeps ==
    ASSUME ParserInv, StartFunc
    PROVE  ParserInv'
<1>. DEFINE end == Running.end  begin == Running.begin
<1>1. Running.fn = "func" /\ Running.cursor = 0
  BY DEF StartFunc, Starts
<1>2. /\ prog \in Seq(STRING) /\ Len(prog) \in Nat \ {0}
      /\ Running \in FrameTypes /\ FrameIs(prog, Running)
      /\ begin \in Nat \ {0} /\ end \in Nat /\ begin < end /\ end < Len(prog)
      /\ Nested(prog, begin, end)
  BY <1>1, StatementIsCalled
<1>3. /\ IsFunc(prog, Running)
      /\ prog[begin] = "open_bracket_" /\ prog[end] = "close_brace_" /\ Running.stmts = <<>>
  BY <1>1, <1>2 DEF FrameIs, IsFunc
<1>4. PICK o \in Then(FindAnyScope("open_bracket_", begin, end),
                   LAMBDA p : Then(ExpectRaw("alnumus_", p),
                       LAMBDA q : Then(FuncArguments(q + 1, end), LAMBDA r : FuncConstraints(r, end)))) :
        IF o.is = "ok" THEN CallBlock("func", "functional", o.at, end) ELSE Stop(o.is)
  BY DEF StartFunc, On, FuncArguments, FuncConstraints, Then
<1>5. PICK y \in FindAnyScope("open_bracket_", begin, end) :
        IF y.is = "ok"
        THEN o \in Then(ExpectRaw("alnumus_", y.at),
                       LAMBDA q : Then(FuncArguments(q + 1, end), LAMBDA r : FuncConstraints(r, end)))
        ELSE o = y
  BY <1>4 DEF Then
<1>. HIDE DEF end, begin
<1>6. /\ y.is # "ok" => y.is \in FailsWith
      /\ y.is = "ok" => /\ y.at \in Nat /\ begin + 2 <= y.at /\ y.at <= end
                        /\ ScopeAt(prog, "open_bracket_", begin, y.at)
  BY <1>2, <1>5, FindAnyScopeGives
<1>7. CASE y.is # "ok"
  BY <1>4, <1>5, <1>6, <1>7, FailsKeeps
<1>8. ASSUME y.is = "ok" PROVE FuncRead(o, begin, end)
  <2>1. Prefix(prog, begin, y.at, "close_brace_")
    <3>1. Prefix(prog, begin, begin, "close_brace_")
      BY <1>2, PrefixStart
    <3>2. ClosingOf["open_bracket_"] # "close_brace_"
      BY DEF ClosingOf
    <3>. QED
      BY <1>2, <1>6, <1>8, <3>1, <3>2, PrefixScope
  <2>2. PICK z \in ExpectRaw("alnumus_", y.at) :
          IF z.is = "ok"
          THEN o \in Then(FuncArguments(z.at + 1, end), LAMBDA r : FuncConstraints(r, end))
          ELSE o = z
    BY <1>5, <1>8 DEF Then
  <2>3. /\ z.is # "ok" => z.is \in FailsWith
        /\ z.is = "ok" => z.at = y.at /\ prog[y.at] = "alnumus_"
    <3>1. y.at <= Len(prog)
      BY <1>2, <1>6, <1>8
    <3>. QED
      BY <1>2, <1>6, <1>8, <2>2, <3>1, ExpectRawGives
  <2>4. CASE z.is # "ok"
    BY <2>2, <2>3, <2>4 DEF FuncRead
  <2>5. CASE z.is = "ok"
    <3>1. /\ prog[y.at] # "close_brace_"
          /\ ~IsOpeningScope(prog[y.at]) /\ ~IsClosingScope(prog[y.at])
      BY <2>3, <2>5 DEF IsOpeningScope, IsClosingScope, OpeningScopes, ClosingScopes
    <3>2. Prefix(prog, begin, y.at + 1, "close_brace_")
      BY <1>2, <1>6, <1>8, <2>1, <3>1, PrefixToken
    <3>3. y.at # end
      BY <1>3, <3>1 DEF end
    <3>4. y.at + 1 \in Nat /\ begin < y.at + 1 /\ y.at + 1 <= end
      BY <1>2, <1>6, <1>8, <3>3
    <3>5. PICK a \in FuncArguments(y.at + 1, end) :
            IF a.is = "ok" THEN o \in FuncConstraints(a.at, end) ELSE o = a
      BY <2>2, <2>3, <2>5 DEF Then
    <3>6. FuncRead(a, begin, end)
      BY <1>2, <3>2, <3>4, <3>5, FuncArgumentsGive
    <3>7. CASE a.is # "ok"
      BY <3>5, <3>6, <3>7
    <3>8. CASE a.is = "ok"
      BY <1>2, <3>5, <3>6, <3>8, FuncConstraintsGive DEF FuncRead
    <3>. QED
      BY <3>7, <3>8
  <2>. QED
    BY <2>4, <2>5
<1>9. CASE y.is = "ok" /\ o.is # "ok"
  BY <1>4, <1>8, <1>9, FailsKeeps DEF FuncRead
<1>10. CASE y.is = "ok" /\ o.is = "ok"
  <2>1. o.at \in Nat \ {0} /\ begin < o.at /\ o.at <= end /\ Prefix(prog, begin, o.at, "close_brace_")
    BY <1>2, <1>8, <1>10 DEF FuncRead
  <2>2. CallBlock("func", "functional", o.at, end)
    BY <1>4, <1>10
  <2>3. ASSUME NEW f, IsCalling(f, Running, "func", o.at, end)
        PROVE  IsFunc(prog, f)
    <3>1. /\ f.begin = begin /\ f.end = end /\ f.cursor = o.at /\ f.scopeEnd = end
          /\ f.stmts = Running.stmts
      BY <2>3 DEF IsCalling, begin, end
    <3>2. Inside(prog, f)
      BY <1>2, <3>1 DEF Inside
    <3>. QED
      BY <1>3, <2>1, <3>1, <3>2 DEF IsFunc, begin, end
  <2>4. /\ "functional" \in Blocks /\ "func" \notin Ifs \cup Loops
        /\ Running.fn \notin Ifs
    BY <1>1 DEF Blocks, Ifs, Loops
  <2>5. end <= Running.end
    BY <1>2 DEF end
  <2>. QED
    BY <1>1, <1>2, <1>3, <2>1, <2>2, <2>3, <2>4, <2>5, StatementCallKeeps
<1>. QED
  BY <1>7, <1>9, <1>10

LEMMA FuncParsedKeeps ==
    ASSUME ParserInv, FuncParsed
    PROVE  ParserInv'
<1>1. Running.fn = "func" /\ returned # 0 /\ ReturnAt(returned)
  BY DEF FuncParsed, CameBack
<1>2. /\ prog \in Seq(STRING) /\ FrameIs(prog, Running)
      /\ Running.begin \in Nat \ {0} /\ Running.end \in Nat /\ Running.cursor \in Nat
      /\ Nested(prog, Running.begin, Running.end)
      /\ Running.fn \notin Blocks \cup ProgramParts
  BY <1>1, StatementIsCalled
<1>3. returned \in Nat /\ Returns(prog, Running, returned)
  BY <1>1 DEF ParserInv
<1>4. /\ Running.cursor # 0 /\ ScopeAt(prog, "open_brace_", Running.cursor, returned)
      /\ returned <= Running.end
  BY <1>1, <1>3 DEF Returns
<1>5. prog[Running.begin] = "open_bracket_" /\ Prefix(prog, Running.begin, Running.cursor, "close_brace_")
  BY <1>1, <1>2, <1>4 DEF FrameIs, IsFunc
<1>6. Whole(prog, Running.begin, returned)
  BY <1>2, <1>3, <1>4, <1>5, WholeWithBlock
<1>. QED
  BY <1>1, <1>2, <1>3, <1>4, <1>6, StatementReturns

\* A statement up to an eos_ is returned.
LEMMA EosReturns ==
    ASSUME ParserInv, Running.fn \in {"class_", "on_"} \cup Ifs \cup Loops,
           prog[Running.begin] # "open_bracket_",
           NEW p \in Nat, Prefix(prog, Running.begin, p, "eos_"), p < Running.end, prog[p] = "eos_",
           ReturnAt(p + 1)
    PROVE  ParserInv'
<1>1. /\ prog \in Seq(STRING) /\ Running.begin \in Nat \ {0} /\ Running.end \in Nat
      /\ Nested(prog, Running.begin, Running.end)
      /\ Running.fn \notin Blocks \cup ProgramParts
  BY StatementIsCalled
<1>2. Whole(prog, Running.begin, p + 1)
  BY <1>1, WholeWithEos
<1>3. p + 1 \in Nat /\ p + 1 <= Running.end
  BY <1>1
<1>. QED
  BY <1>1, <1>2, <1>3, StatementReturns

\* Where a class has its block, behind its name.
ClassBlock(b, end) ==
    Then(Expect("open_brace_", b, end), LAMBDA q : {Ok(e) : e \in ListScopeEnds(b, end)})
ClassStarts(b, end) ==
    Then(Expect("alnumus_", b - 1, end), LAMBDA p : ClassBlock(b, end))

\* The head of a class, and the end that find_list_scope gives of its body, valid
\* or not.
LEMMA ClassStartsGive ==
    ASSUME prog \in Seq(STRING), NEW b \in Nat \ {0}, b - 1 \in Nat, NEW end \in Nat, end < Len(prog),
           NEW x \in ClassStarts(b, end)
    PROVE  /\ x.is # "ok" => x.is \in FailsWith
           /\ x.is = "ok" => /\ prog[b - 1] = "alnumus_" /\ b < end
                             /\ x.at \in Nat /\ b < x.at /\ x.at <= end /\ Agrees(prog, b, x.at)
                             /\ ScopeAt(prog, "open_brace_", b, x.at) \/ x.at = end \/ x.at = b + 1
<1>1. PICK y \in Expect("alnumus_", b - 1, end) :
        IF y.is = "ok" THEN x \in ClassBlock(b, end) ELSE x = y
  BY DEF ClassStarts, Then
<1>2. /\ y.is # "ok" => y.is \in FailsWith
      /\ y.is = "ok" => prog[b - 1] = "alnumus_"
  BY <1>1, ExpectGives
<1>3. CASE y.is # "ok"
  BY <1>1, <1>2, <1>3
<1>4. CASE y.is = "ok"
  <2>1. PICK z \in Expect("open_brace_", b, end) :
          IF z.is = "ok" THEN x \in {Ok(e) : e \in ListScopeEnds(b, end)} ELSE x = z
    BY <1>1, <1>4 DEF ClassBlock, Then
  <2>2. /\ z.is # "ok" => z.is \in FailsWith
        /\ z.is = "ok" => b < end
    BY <2>1, ExpectGives
  <2>3. CASE z.is # "ok"
    BY <2>1, <2>2, <2>3
  <2>4. CASE z.is = "ok"
    <3>1. PICK e \in ListScopeEnds(b, end) : x = Ok(e)
      BY <2>1, <2>4
    <3>2. x.is = "ok" /\ x.at = e
      BY <3>1, EndOutcomes
    <3>3. Len(prog) \in Nat /\ end <= Len(prog) + 1
      BY LenProperties
    <3>4. /\ e \in Nat /\ b < e /\ e <= end /\ Agrees(prog, b, e)
          /\ ScopeAt(prog, "open_brace_", b, e) \/ e = end \/ e = b + 1
      BY <2>2, <2>4, <3>3, ListScopeAgrees
    <3>. QED
      BY <1>2, <1>4, <2>2, <2>4, <3>2, <3>4
  <2>. QED
    BY <2>3, <2>4
<1>. QED
  BY <1>3, <1>4

LEMMA StartClassKeeps ==
    ASSUME ParserInv, StartClass
    PROVE  ParserInv'
<1>. DEFINE end == Running.end  begin == Running.begin  b == begin + 2
<1>1. Running.fn = "class_" /\ Running.cursor = 0
  BY DEF StartClass, Starts
<1>2. /\ prog \in Seq(STRING) /\ Len(prog) \in Nat \ {0}
      /\ Running \in FrameTypes /\ FrameIs(prog, Running)
      /\ begin \in Nat \ {0} /\ end \in Nat /\ begin < end /\ end < Len(prog)
      /\ Nested(prog, begin, end)
  BY <1>1, StatementIsCalled
<1>3. /\ IsClass(prog, Running)
      /\ prog[begin] = "class_" /\ prog[end] = "close_brace_" /\ Running.stmts = <<>>
  BY <1>1, <1>2 DEF FrameIs, IsClass
<1>4. b \in Nat \ {0} /\ b - 1 = begin + 1 /\ b - 1 \in Nat
  BY <1>2
<1>5. PICK o \in ClassStarts(b, end) :
        IF o.is = "ok"
        THEN IF o.at = b + 2 THEN On(ExpectRaw("eos_", o.at), LAMBDA e : ReturnAt(e + 1))
             ELSE CallBlock("class_", "pragmatic", b, o.at)
        ELSE Stop(o.is)
  BY <1>4 DEF StartClass, On, ClassStarts, ClassBlock
<1>. HIDE DEF b, end, begin
<1>6. /\ o.is # "ok" => o.is \in FailsWith
      /\ o.is = "ok" => /\ prog[begin + 1] = "alnumus_" /\ b < end
                        /\ o.at \in Nat /\ b < o.at /\ o.at <= end /\ Agrees(prog, b, o.at)
                        /\ ScopeAt(prog, "open_brace_", b, o.at) \/ o.at = end \/ o.at = b + 1
  BY <1>2, <1>4, <1>5, ClassStartsGive
<1>7. ASSUME o.is = "ok" PROVE Prefix(prog, begin, b, "eos_")
  <2>1. Prefix(prog, begin, begin, "eos_")
    BY <1>2, PrefixStart
  <2>2. Prefix(prog, begin, begin + 1, "eos_")
    <3>1. prog[begin] # "eos_" /\ ~IsOpeningScope(prog[begin]) /\ ~IsClosingScope(prog[begin])
      BY <1>3 DEF IsOpeningScope, IsClosingScope, OpeningScopes, ClosingScopes
    <3>. QED
      BY <1>2, <2>1, <3>1, PrefixToken
  <2>3. Prefix(prog, begin, begin + 1 + 1, "eos_")
    <3>1. /\ prog[begin + 1] # "eos_" /\ ~IsOpeningScope(prog[begin + 1])
          /\ ~IsClosingScope(prog[begin + 1])
      BY <1>6, <1>7 DEF IsOpeningScope, IsClosingScope, OpeningScopes, ClosingScopes
    <3>2. begin + 1 \in Nat
      BY <1>2
    <3>. QED
      BY <1>2, <2>2, <3>1, <3>2, PrefixToken
  <2>4. begin + 1 + 1 = b
    BY <1>2 DEF b
  <2>. QED
    BY <2>3, <2>4
<1>8. CASE o.is # "ok"
  BY <1>5, <1>6, <1>8, FailsKeeps
<1>9. CASE o.is = "ok" /\ o.at # b + 2
  <2>1. CallBlock("class_", "pragmatic", b, o.at)
    BY <1>5, <1>9
  <2>2. ASSUME NEW f, IsCalling(f, Running, "class_", b, o.at)
        PROVE  IsClass(prog, f)
    <3>1. /\ f.begin = begin /\ f.end = end /\ f.cursor = b /\ f.scopeEnd = o.at
          /\ f.stmts = Running.stmts
      BY <2>2 DEF IsCalling, begin, end
    <3>2. Inside(prog, f)
      BY <1>2, <3>1 DEF Inside
    <3>3. begin < b
      BY <1>2 DEF b
    <3>. QED
      BY <1>3, <1>6, <1>7, <1>9, <3>1, <3>2, <3>3 DEF IsClass
  <2>3. /\ "pragmatic" \in Blocks /\ "class_" \notin Ifs \cup Loops
        /\ Running.fn \notin Ifs
    BY <1>1 DEF Blocks, Ifs, Loops
  <2>4. b <= o.at /\ o.at <= Running.end /\ o.at \in Nat
    BY <1>2, <1>4, <1>6, <1>9 DEF end
  <2>. QED
    BY <1>1, <1>3, <1>4, <2>1, <2>2, <2>3, <2>4, StatementCallKeeps
<1>10. CASE o.is = "ok" /\ o.at = b + 2
  <2>1. PICK e \in ExpectRaw("eos_", o.at) : IF e.is = "ok" THEN ReturnAt(e.at + 1) ELSE Stop(e.is)
    BY <1>5, <1>10 DEF On
  <2>2. /\ e.is # "ok" => e.is \in FailsWith
        /\ e.is = "ok" => e.at = o.at /\ prog[o.at] = "eos_"
    <3>1. o.at <= Len(prog) /\ o.at \in Nat
      BY <1>2, <1>6, <1>10
    <3>. QED
      BY <1>2, <2>1, <3>1, ExpectRawGives
  <2>3. CASE e.is # "ok"
    BY <2>1, <2>2, <2>3, FailsKeeps
  <2>4. CASE e.is = "ok"
    <3>1. o.at # end /\ o.at # b + 1
      BY <1>3, <1>4, <1>10, <2>2, <2>4 DEF end
    <3>2. ScopeAt(prog, "open_brace_", b, o.at) /\ o.at \in Nat
      BY <1>6, <1>10, <3>1
    <3>3. ClosingOf["open_brace_"] # "eos_"
      BY DEF ClosingOf
    <3>4. Prefix(prog, begin, o.at, "eos_")
      BY <1>2, <1>4, <1>7, <1>10, <3>2, <3>3, PrefixScope
    <3>5. o.at < end
      BY <1>2, <1>6, <1>10, <3>1
    <3>6. ReturnAt(o.at + 1)
      BY <2>1, <2>2, <2>4
    <3>7. prog[begin] # "open_bracket_"
      BY <1>3
    <3>. QED
      BY <1>1, <2>2, <2>4, <3>2, <3>4, <3>5, <3>6, <3>7, EosReturns DEF begin, end
  <2>. QED
    BY <2>3, <2>4
<1>. QED
  BY <1>8, <1>9, <1>10

\* The eos_ of a class is the token behind its body.
LEMMA ClassParsedKeeps ==
    ASSUME ParserInv, ClassParsed
    PROVE  ParserInv'
<1>1. Running.fn = "class_" /\ returned # 0
  BY DEF ClassParsed, CameBack
<1>2. /\ prog \in Seq(STRING) /\ Len(prog) \in Nat \ {0} /\ FrameIs(prog, Running)
      /\ Running.begin \in Nat \ {0} /\ Running.end \in Nat /\ Running.cursor \in Nat
      /\ Running.scopeEnd \in Nat /\ Running.end < Len(prog)
  BY <1>1, StatementIsCalled
<1>3. Returns(prog, Running, returned)
  BY <1>1 DEF ParserInv
<1>4. Running.cursor # 0 /\ ScopeAt(prog, "open_brace_", Running.cursor, Running.scopeEnd)
  BY <1>1, <1>3 DEF Returns
<1>5. /\ prog[Running.begin] = "class_" /\ prog[Running.end] = "close_brace_"
      /\ Running.scopeEnd <= Running.end
      /\ Prefix(prog, Running.begin, Running.cursor, "eos_")
  BY <1>1, <1>2, <1>4 DEF FrameIs, IsClass
<1>6. Prefix(prog, Running.begin, Running.scopeEnd, "eos_")
  <2>1. ClosingOf["open_brace_"] # "eos_"
    BY DEF ClosingOf
  <2>. QED
    BY <1>2, <1>4, <1>5, <2>1, PrefixScope
<1>7. PICK e \in ExpectRaw("eos_", Running.scopeEnd) :
        IF e.is = "ok" THEN ReturnAt(e.at + 1) ELSE Stop(e.is)
  BY DEF ClassParsed, On
<1>8. /\ e.is # "ok" => e.is \in FailsWith
      /\ e.is = "ok" => e.at = Running.scopeEnd /\ prog[Running.scopeEnd] = "eos_"
  <2>1. Running.scopeEnd <= Len(prog)
    BY <1>2, <1>5
  <2>. QED
    BY <1>2, <1>7, <2>1, ExpectRawGives
<1>9. CASE e.is # "ok"
  BY <1>7, <1>8, <1>9, FailsKeeps
<1>10. CASE e.is = "ok"
  <2>1. Running.scopeEnd # Running.end
    BY <1>5, <1>8, <1>10
  <2>2. Running.scopeEnd < Running.end
    BY <1>2, <1>5, <2>1
  <2>3. ReturnAt(Running.scopeEnd + 1) /\ prog[Running.begin] # "open_bracket_"
    BY <1>5, <1>7, <1>8, <1>10
  <2>. QED
    BY <1>1, <1>2, <1>6, <1>8, <1>10, <2>2, <2>3, EosReturns
<1>. QED
  BY <1>9, <1>10

-----------------------------------------------------------------------------
(* The conditionals and the loops.                                         *)

\* What an #if or a loop knows when it runs.
LEMMA BranchIs ==
    ASSUME ParserInv, Running.fn \in Ifs \cup Loops
    PROVE  /\ prog \in Seq(STRING) /\ Len(prog) \in Nat \ {0}
           /\ Running \in FrameTypes /\ IsBranch(prog, Running) /\ Conditional(prog, Running)
           /\ Running.stmts = <<>>
           /\ Running.begin \in Nat \ {0} /\ Running.end \in Nat
           /\ Running.cursor \in Nat /\ Running.scopeEnd \in Nat
           /\ Running.begin < Running.end /\ Running.end < Len(prog)
           /\ Nested(prog, Running.begin, Running.end)
           /\ prog[Running.begin] \in {"if_", "while_", "for_"}
<1>1. Running.fn \in {"func", "class_", "on_"} \cup Ifs \cup Loops
  OBVIOUS
<1>2. /\ prog \in Seq(STRING) /\ Len(prog) \in Nat \ {0}
      /\ Running \in FrameTypes /\ FrameIs(prog, Running)
      /\ Running.begin \in Nat \ {0} /\ Running.end \in Nat
      /\ Running.cursor \in Nat /\ Running.scopeEnd \in Nat
      /\ Running.begin < Running.end /\ Running.end < Len(prog)
      /\ Nested(prog, Running.begin, Running.end)
  BY <1>1, StatementIsCalled
<1>3. IsBranch(prog, Running)
  BY <1>2 DEF FrameIs
<1>. QED
  BY <1>2, <1>3 DEF IsBranch

\* A conditional calls the block that it has found behind its condition.
LEMMA BranchCallKeeps ==
    ASSUME ParserInv, Running.fn \in Ifs \cup Loops, NEW fn \in Ifs \cup Loops,
           Running.fn \in Ifs => fn \in Ifs,
           NEW b \in Nat \ {0}, Running.begin < b, Prefix(prog, Running.begin, b, "eos_"),
           NEW e \in Nat, e <= Running.end, ScopeAt(prog, "open_brace_", b, e),
           CallBlock(fn, "functional", b, e)
    PROVE  ParserInv'
<1>1. /\ prog \in Seq(STRING) /\ Running.stmts = <<>>
      /\ IsBranch(prog, Running) /\ Conditional(prog, Running)
      /\ prog[Running.begin] \in {"if_", "while_", "for_"}
      /\ Running.begin \in Nat \ {0} /\ Running.end \in Nat
  BY BranchIs
<1>2. b < e /\ b <= e
  <2>1. b + 2 <= e
    BY <1>1, ScopeProperties
  <2>. QED
    BY <2>1
<1>3. ASSUME NEW f, IsCalling(f, Running, fn, b, e) PROVE IsBranch(prog, f)
  <2>1. /\ f.fn = fn /\ f.begin = Running.begin /\ f.end = Running.end
        /\ f.cursor = b /\ f.scopeEnd = e /\ f.stmts = <<>>
    BY <1>1, <1>3 DEF IsCalling
  <2>2. Conditional(prog, f)
    BY <1>1, <2>1 DEF Conditional, Inside
  <2>3. f.end # f.begin + 1
    BY <1>1, <1>2, <2>1
  <2>. QED
    BY <1>1, <1>2, <2>1, <2>2, <2>3 DEF IsBranch
<1>4. "functional" \in Blocks /\ fn # "func" /\ fn # "class_"
  BY DEF Blocks, Ifs, Loops
<1>. QED
  BY <1>1, <1>2, <1>3, <1>4, StatementCallKeeps

\* A directive is no end and no scope.
LEMMA PrefixDirective ==
    ASSUME NEW s \in Seq(STRING), NEW b \in Nat \ {0}, NEW c \in Nat, Prefix(s, b, c, "eos_"),
           s[c] \in Ifs \cup Conditionals
    PROVE  Prefix(s, b, c + 1, "eos_")
<1>1. s[c] # "eos_" /\ ~IsOpeningScope(s[c]) /\ ~IsClosingScope(s[c])
  BY DEF Ifs, Conditionals, IsOpeningScope, IsClosingScope, OpeningScopes, ClosingScopes
<1>. QED
  BY <1>1, PrefixToken

\* Behind what has been read, a statement is nested.
LEMMA NestedAfter ==
    ASSUME NEW s \in Seq(STRING), NEW b \in Nat \ {0}, NEW e \in Nat, Nested(s, b, e),
           NEW c \in Nat, c <= e, NEW last, Prefix(s, b, c, last)
    PROVE  Nested(s, c, e)
<1>1. c \in b..e /\ Level(s, b, c)
  BY DEF Prefix
<1>. QED
  BY <1>1, NestedBehind

\* What has been read before the block of a directive, up to x.
BranchRead(x, begin, end) ==
    /\ x.is # "ok" => x.is \in FailsWith
    /\ x.is = "ok" => /\ x.at \in Nat \ {0} /\ begin < x.at /\ x.at <= end
                      /\ Prefix(prog, begin, x.at, "eos_")
                      /\ x.at = end => end # begin + 1

\* Condition and block are read without reaching the end of the statement.
LEMMA ConditionReads ==
    ASSUME prog \in Seq(STRING), NEW begin \in Nat \ {0}, NEW end \in Nat, end < Len(prog),
           Nested(prog, begin, end), NEW c \in Nat, begin <= c, c < end,
           Prefix(prog, begin, c + 1, "eos_"), NEW x \in Condition(c, end)
    PROVE  BranchRead(x, begin, end)
<1>1. Len(prog) \in Nat
  BY LenProperties
<1>2. Nested(prog, c + 1, end)
  <2>1. c + 1 \in Nat /\ c + 1 <= end
    OBVIOUS
  <2>. QED
    BY <2>1, NestedAfter
<1>3. /\ x.is # "ok" => x.is \in FailsWith
      /\ x.is = "ok" => /\ x.at \in Nat /\ c + 3 <= x.at /\ x.at <= end
                        /\ ScopeAt(prog, "open_paren_", c + 1, x.at)
  <2>1. c \in Nat \ {0} /\ end <= Len(prog)
    BY <1>1
  <2>. QED
    BY <1>2, <2>1, ConditionGives
<1>4. x.is = "ok" => Prefix(prog, begin, x.at, "eos_")
  <2>1. ClosingOf["open_paren_"] # "eos_" /\ c + 1 \in Nat
    BY DEF ClosingOf
  <2>. QED
    BY <1>3, <2>1, PrefixScope
<1>. QED
  BY <1>3, <1>4 DEF BranchRead

\* A block is searched in the statement only: what is behind it is no brace.
LEMMA NoBlockBehind ==
    ASSUME prog \in Seq(STRING), NEW f, Conditional(prog, f), f.begin \in Nat \ {0}, f.end \in Nat,
           f.end # f.begin + 1, Prefix(prog, f.begin, f.end, "eos_")
    PROVE  prog[f.end] = "close_brace_"
<1>1. f.begin < f.end
  BY DEF Conditional, Inside
<1>2. f.end - 1 \in f.begin..(f.end - 1)
  BY <1>1
<1>3. prog[f.end - 1] # "eos_"
  BY <1>2 DEF Prefix, Level, NoEnd
<1>. QED
  BY <1>3 DEF Conditional

\* A branch of an #if is called with the scope behind its condition.
LEMMA BranchKeeps ==
    ASSUME ParserInv, Running.fn \in Ifs, NEW fn \in Ifs, NEW c \in Nat,
           Running.begin <= c, c < Running.end, Prefix(prog, Running.begin, c, "eos_"),
           prog[c] \in Ifs \cup Conditionals, fn = "else_" => c # Running.begin,
           Branch(fn, c)
    PROVE  ParserInv'
<1>. DEFINE begin == Running.begin  end == Running.end
<1>1. /\ prog \in Seq(STRING) /\ Len(prog) \in Nat \ {0} /\ Conditional(prog, Running)
      /\ begin \in Nat \ {0} /\ end \in Nat /\ end < Len(prog) /\ Nested(prog, begin, end)
      /\ Running.fn \in Ifs \cup Loops
  BY BranchIs
<1>2. PICK o \in (IF fn = "else_" THEN {Ok(Min({c + 1, end}))} ELSE Condition(c, end)) :
        IF o.is = "ok"
        THEN On(FindExact("open_brace_", o.at, end), LAMBDA p : CallBlock(fn, "functional", o.at, p))
        ELSE Stop(o.is)
  BY DEF Branch, On
<1>. HIDE DEF begin, end
<1>3. Prefix(prog, begin, c + 1, "eos_")
  BY <1>1, PrefixDirective DEF begin
<1>4. BranchRead(o, begin, end)
  <2>1. CASE fn = "else_"
    <3>1. c + 1 \in Nat \ {0} /\ c + 1 <= end /\ begin < c + 1
      BY <1>1 DEF begin, end
    <3>2. Min({c + 1, end}) = c + 1
      BY <1>1, <3>1, MinOfTwo
    <3>3. o.is = "ok" /\ o.at = c + 1
      BY <1>2, <2>1, <3>2, EndOutcomes
    <3>4. c + 1 = end => end # begin + 1
      BY <1>1, <2>1 DEF begin
    <3>. QED
      BY <1>3, <3>1, <3>3, <3>4 DEF BranchRead
  <2>2. CASE fn # "else_"
    <3>1. o \in Condition(c, end)
      BY <1>2, <2>2
    <3>2. begin <= c /\ c < end
      BY DEF begin, end
    <3>. QED
      BY <1>1, <1>3, <3>1, <3>2, ConditionReads
  <2>. QED
    BY <2>1, <2>2
<1>5. CASE o.is # "ok"
  BY <1>2, <1>4, <1>5, FailsKeeps DEF BranchRead
<1>6. CASE o.is = "ok"
  <2>. DEFINE b == o.at
  <2>1. b \in Nat \ {0} /\ begin < b /\ b <= end /\ Prefix(prog, begin, b, "eos_") /\ (b = end => end # begin + 1)
    BY <1>4, <1>6 DEF BranchRead
  <2>2. PICK x \in FindExact("open_brace_", b, end) :
          IF x.is = "ok" THEN CallBlock(fn, "functional", b, x.at) ELSE Stop(x.is)
    BY <1>2, <1>6 DEF On
  <2>. HIDE DEF b
  <2>3. Nested(prog, b, end)
    BY <1>1, <2>1, NestedAfter
  <2>4. /\ x.is # "ok" => x.is \in FailsWith
        /\ x.is = "ok" /\ b < end => /\ x.at \in Nat /\ b + 2 <= x.at /\ x.at <= end
                                     /\ ScopeAt(prog, "open_brace_", b, x.at)
        /\ x.is = "ok" /\ ~(b < end) => x.at = b + 1 /\ prog[b] = "open_brace_"
    <3>1. "open_brace_" \in OpeningScopes /\ b <= Len(prog) /\ end <= Len(prog) + 1
      BY <1>1, <2>1 DEF OpeningScopes
    <3>. QED
      BY <1>1, <2>1, <2>2, <2>3, <3>1, FindExactInText
  <2>5. CASE x.is # "ok"
    BY <2>2, <2>4, <2>5, FailsKeeps
  <2>6. CASE x.is = "ok" /\ b < end
    <3>1. CallBlock(fn, "functional", b, x.at)
      BY <2>2, <2>6
    <3>. QED
      BY <1>1, <2>1, <2>4, <2>6, <3>1, BranchCallKeeps DEF begin, end
  <2>7. CASE x.is = "ok" /\ ~(b < end)
    <3>1. b = end
      BY <1>1, <2>1, <2>7
    <3>2. prog[end] = "close_brace_"
      BY <1>1, <2>1, <3>1, NoBlockBehind DEF begin, end
    <3>. QED
      BY <2>4, <2>7, <3>1, <3>2
  <2>. QED
    BY <2>5, <2>6, <2>7
<1>. QED
  BY <1>5, <1>6

LEMMA StartIfKeeps ==
    ASSUME ParserInv, StartIf
    PROVE  ParserInv'
<1>1. Running.fn = "if_" /\ Branch("if_", Running.begin)
  BY DEF StartIf, Starts
<1>2. Running.fn \in Ifs /\ Running.fn \in Ifs \cup Loops /\ "if_" \in Ifs
  BY <1>1 DEF Ifs
<1>3. /\ prog[Running.begin] \in Ifs \cup Conditionals
      /\ Running.begin \in Nat /\ Running.end \in Nat /\ Running.begin < Running.end
      /\ Running.begin <= Running.begin
  BY <1>2, BranchIs DEF Conditionals
<1>4. Prefix(prog, Running.begin, Running.begin, "eos_")
  BY <1>3, PrefixStart
<1>. QED
  BY <1>1, <1>2, <1>3, <1>4, BranchKeeps

\* The block of a directive has been parsed.
LEMMA BranchComesBack ==
    ASSUME ParserInv, Running.fn \in Ifs \cup Loops, returned # 0
    PROVE  /\ Prefix(prog, Running.begin, Running.scopeEnd, "eos_")
           /\ Running.begin < Running.scopeEnd /\ Running.scopeEnd <= Running.end
<1>1. /\ prog \in Seq(STRING) /\ IsBranch(prog, Running)
      /\ Running.begin \in Nat \ {0} /\ Running.end \in Nat
      /\ Running.cursor \in Nat /\ Running.scopeEnd \in Nat
  BY BranchIs
<1>2. Running.cursor # 0
  BY DEF ParserInv, Returns
<1>3. /\ Running.begin < Running.cursor /\ Running.cursor < Running.scopeEnd
      /\ Running.scopeEnd <= Running.end
      /\ Prefix(prog, Running.begin, Running.cursor, "eos_")
      /\ ScopeAt(prog, "open_brace_", Running.cursor, Running.scopeEnd)
  BY <1>1, <1>2 DEF IsBranch
<1>4. ClosingOf["open_brace_"] # "eos_"
  BY DEF ClosingOf
<1>5. Prefix(prog, Running.begin, Running.scopeEnd, "eos_")
  BY <1>1, <1>3, <1>4, PrefixScope
<1>. QED
  BY <1>1, <1>3, <1>5

\* Behind a branch comes another, or the eos_ that ends the statement.
LEMMA BranchParsedKeeps ==
    ASSUME ParserInv, BranchParsed
    PROVE  ParserInv'
<1>1. PICK fn \in {"if_", "elif_", "else_"} :
        /\ CameBack(fn)
        /\ LET p == Running.scopeEnd
           IN  On(IF p >= Running.end THEN AtEnd
                  ELSE {IF prog[p] \in Following(fn) THEN Ok(p) ELSE Refused},
                  LAMBDA q : IF prog[p] = "eos_" THEN ReturnAt(p + 1) ELSE Branch(prog[p], p))
  BY DEF BranchParsed
<1>2. Running.fn = fn /\ Running.fn \in Ifs /\ Running.fn \in Ifs \cup Loops /\ returned # 0
  BY <1>1 DEF CameBack, Ifs
<1>. DEFINE p == Running.scopeEnd
<1>3. PICK o \in (IF p >= Running.end THEN AtEnd
                  ELSE {IF prog[p] \in Following(fn) THEN Ok(p) ELSE Refused}) :
        IF o.is = "ok" THEN (IF prog[p] = "eos_" THEN ReturnAt(p + 1) ELSE Branch(prog[p], p))
        ELSE Stop(o.is)
  BY <1>1 DEF On
<1>4. /\ Running.begin \in Nat \ {0} /\ Running.end \in Nat /\ p \in Nat
      /\ prog[Running.begin] \in {"if_", "while_", "for_"}
  BY <1>2, BranchIs
<1>5. Prefix(prog, Running.begin, p, "eos_") /\ Running.begin < p /\ p <= Running.end
  BY <1>2, BranchComesBack
<1>. HIDE DEF p
<1>6. /\ o.is # "ok" => o.is \in FailsWith
      /\ o.is = "ok" => p < Running.end /\ prog[p] \in Following(fn)
  <2>1. CASE p >= Running.end
    BY <1>3, <2>1, EndOutcomes
  <2>2. CASE ~(p >= Running.end)
    <3>1. o = Ok(p) \/ o = Refused
      BY <1>3, <2>2
    <3>2. o.is = "ok" => prog[p] \in Following(fn)
      BY <1>3, <2>2, EndOutcomes
    <3>3. p < Running.end
      BY <1>4, <2>2
    <3>. QED
      BY <3>1, <3>2, <3>3, EndOutcomes
  <2>. QED
    BY <2>1, <2>2
<1>7. CASE o.is # "ok"
  BY <1>3, <1>6, <1>7, FailsKeeps
<1>8. CASE o.is = "ok" /\ prog[p] = "eos_"
  <2>1. ReturnAt(p + 1) /\ prog[Running.begin] # "open_bracket_"
    BY <1>3, <1>4, <1>8
  <2>. QED
    BY <1>2, <1>4, <1>5, <1>6, <1>8, <2>1, EosReturns
<1>9. CASE o.is = "ok" /\ prog[p] # "eos_"
  <2>1. prog[p] \in Ifs /\ prog[p] \in Ifs \cup Conditionals
    BY <1>6, <1>9 DEF Following, Ifs
  <2>2. Branch(prog[p], p) /\ p # Running.begin /\ Running.begin <= p
    BY <1>3, <1>4, <1>5, <1>9
  <2>. QED
    BY <1>2, <1>4, <1>5, <1>6, <1>9, <2>1, <2>2, BranchKeeps
<1>. QED
  BY <1>7, <1>8, <1>9

\* What has been read before the block of a loop, up to x.
LoopRead(x, begin, end) ==
    /\ x.is # "ok" => x.is \in FailsWith \/ (x.is = "unreturned" /\ HasEndlessFor(prog))
    /\ x.is = "ok" => x.at \in Nat /\ begin + 1 < x.at
    /\ x.is = "ok" /\ x.at <= end => ScopeAt(prog, "open_paren_", begin + 1, x.at)

\* A loop and an #on search their block behind the condition.
LEMMA BlockBehindCondition ==
    ASSUME prog \in Seq(STRING), NEW begin \in Nat \ {0}, NEW end \in Nat, end < Len(prog),
           prog[begin] \in Conditionals,
           NEW c, LoopRead(c, begin, end), c.is = "ok",
           NEW x \in FindAnyScope("open_brace_", c.at, end)
    PROVE  /\ x.is # "ok" => x.is \in FailsWith
           /\ x.is = "ok" => /\ c.at \in Nat \ {0} /\ begin < c.at
                             /\ Prefix(prog, begin, c.at, "eos_")
                             /\ x.at \in Nat /\ c.at + 2 <= x.at /\ x.at <= end
                             /\ ScopeAt(prog, "open_brace_", c.at, x.at)
<1>1. c.at \in Nat \ {0} /\ begin < c.at /\ end <= Len(prog) + 1
  BY LenProperties DEF LoopRead
<1>2. /\ x.is # "ok" => x.is \in FailsWith
      /\ x.is = "ok" => /\ x.at \in Nat /\ c.at + 2 <= x.at /\ x.at <= end
                        /\ ScopeAt(prog, "open_brace_", c.at, x.at)
  BY <1>1, FindAnyScopeGives
<1>3. ASSUME x.is = "ok" PROVE Prefix(prog, begin, c.at, "eos_")
  <2>1. c.at <= end
    BY <1>1, <1>2, <1>3
  <2>2. ScopeAt(prog, "open_paren_", begin + 1, c.at)
    BY <2>1 DEF LoopRead
  <2>3. Prefix(prog, begin, begin, "eos_")
    BY PrefixStart
  <2>4. Prefix(prog, begin, begin + 1, "eos_")
    BY <2>3, PrefixDirective
  <2>5. ClosingOf["open_paren_"] # "eos_" /\ begin + 1 \in Nat
    BY DEF ClosingOf
  <2>. QED
    BY <1>1, <2>2, <2>4, <2>5, PrefixScope
<1>. QED
  BY <1>1, <1>2, <1>3

\* A loop calls its body as a branch does.
LEMMA LoopKeeps ==
    ASSUME ParserInv, Running.fn \in Loops, NEW C,
           \A c \in C : LoopRead(c, Running.begin, Running.end),
           LoopOver(Running.fn, C)
    PROVE  ParserInv'
<1>. DEFINE begin == Running.begin  end == Running.end
<1>1. /\ prog \in Seq(STRING)
      /\ begin \in Nat \ {0} /\ end \in Nat /\ end < Len(prog)
      /\ Running.fn \in Ifs \cup Loops /\ prog[begin] \in Conditionals
  BY BranchIs DEF Conditionals
<1>2. PICK c \in C :
        IF c.is = "ok"
        THEN On(FindAnyScope("open_brace_", c.at, end),
                LAMBDA p : CallBlock(Running.fn, "functional", c.at, p))
        ELSE Stop(c.is)
  BY DEF LoopOver, On
<1>3. LoopRead(c, begin, end)
  OBVIOUS
<1>4. CASE c.is # "ok"
  <2>1. Stop(c.is)
    BY <1>2, <1>4
  <2>2. CASE c.is \in FailsWith
    BY <2>1, <2>2, FailsKeeps
  <2>3. CASE c.is = "unreturned" /\ HasEndlessFor(prog)
    <3>1. c.is \in Outcomes
      BY <2>3 DEF Outcomes
    <3>. QED
      BY <2>1, <2>3, <3>1, StopKeeps
  <2>. QED
    BY <1>3, <1>4, <2>2, <2>3 DEF LoopRead
<1>5. CASE c.is = "ok"
  <2>1. PICK x \in FindAnyScope("open_brace_", c.at, end) :
          IF x.is = "ok" THEN CallBlock(Running.fn, "functional", c.at, x.at) ELSE Stop(x.is)
    BY <1>2, <1>5 DEF On
  <2>. HIDE DEF begin, end
  <2>2. /\ x.is # "ok" => x.is \in FailsWith
        /\ x.is = "ok" => /\ c.at \in Nat \ {0} /\ begin < c.at
                          /\ Prefix(prog, begin, c.at, "eos_")
                          /\ x.at \in Nat /\ x.at <= end
                          /\ ScopeAt(prog, "open_brace_", c.at, x.at)
    BY <1>1, <1>3, <1>5, <2>1, BlockBehindCondition
  <2>3. CASE x.is # "ok"
    BY <2>1, <2>2, <2>3, FailsKeeps
  <2>4. CASE x.is = "ok"
    <3>1. CallBlock(Running.fn, "functional", c.at, x.at)
      BY <2>1, <2>4
    <3>. QED
      BY <1>1, <2>2, <2>4, <3>1, BranchCallKeeps DEF begin, end
  <2>. QED
    BY <2>3, <2>4
<1>. QED
  BY <1>4, <1>5

LEMMA StartWhileKeeps ==
    ASSUME ParserInv, StartWhile
    PROVE  ParserInv'
<1>. DEFINE begin == Running.begin  end == Running.end  C == Condition(begin, end)
<1>1. Running.fn = "while_" /\ LoopOver(Running.fn, C)
  BY DEF StartWhile, Starts
<1>2. Running.fn \in Loops /\ Running.fn \in Ifs \cup Loops
  BY <1>1 DEF Loops
<1>3. /\ prog \in Seq(STRING) /\ Len(prog) \in Nat
      /\ begin \in Nat \ {0} /\ end \in Nat /\ begin < end /\ end < Len(prog)
      /\ Nested(prog, begin, end) /\ prog[begin] \in Conditionals
  BY <1>2, BranchIs DEF Conditionals
<1>. HIDE DEF begin, end
<1>4. Nested(prog, begin + 1, end)
  <2>1. Prefix(prog, begin, begin, "eos_")
    BY <1>3, PrefixStart
  <2>2. Prefix(prog, begin, begin + 1, "eos_")
    BY <1>3, <2>1, PrefixDirective
  <2>3. begin + 1 \in Nat /\ begin + 1 <= end
    BY <1>3
  <2>. QED
    BY <1>3, <2>2, <2>3, NestedAfter
<1>5. ASSUME NEW c \in C PROVE LoopRead(c, begin, end)
  <2>1. end <= Len(prog)
    BY <1>3
  <2>2. /\ c.is # "ok" => c.is \in FailsWith
        /\ c.is = "ok" => /\ c.at \in Nat /\ begin + 3 <= c.at /\ c.at <= end
                          /\ ScopeAt(prog, "open_paren_", begin + 1, c.at)
    BY <1>3, <1>4, <2>1, ConditionGives
  <2>3. c.is = "ok" => begin + 1 < c.at
    BY <1>3, <2>2
  <2>. QED
    BY <2>2, <2>3 DEF LoopRead
<1>. HIDE DEF C
<1>. QED
  BY <1>1, <1>2, <1>5, LoopKeeps DEF begin, end

LEMMA StartForKeeps ==
    ASSUME ParserInv, StartFor
    PROVE  ParserInv'
<1>. DEFINE begin == Running.begin  end == Running.end  C == ForConditions(begin, end)
<1>1. Running.fn = "for_" /\ LoopOver(Running.fn, C)
  BY DEF StartFor, Starts
<1>2. Running.fn \in Loops /\ Running.fn \in Ifs \cup Loops
  BY <1>1 DEF Loops
<1>3. /\ prog \in Seq(STRING) /\ Len(prog) \in Nat
      /\ begin \in Nat \ {0} /\ end \in Nat /\ begin < end /\ end < Len(prog)
      /\ Nested(prog, begin, end) /\ prog[begin] \in Conditionals
  BY <1>2, BranchIs DEF Conditionals
<1>. HIDE DEF begin, end
<1>4. Nested(prog, begin + 1, end)
  <2>1. Prefix(prog, begin, begin, "eos_")
    BY <1>3, PrefixStart
  <2>2. Prefix(prog, begin, begin + 1, "eos_")
    BY <1>3, <2>1, PrefixDirective
  <2>3. begin + 1 \in Nat /\ begin + 1 <= end
    BY <1>3
  <2>. QED
    BY <1>3, <2>2, <2>3, NestedAfter
<1>5. ASSUME NEW c \in C PROVE LoopRead(c, begin, end)
  <2>1. end <= Len(prog)
    BY <1>3
  <2>2. /\ c.is # "ok" =>
              \/ c.is \in FailsWith
              \/ c.is = "unreturned" /\ end = begin + 1 /\ prog[begin + 1] = "open_paren_"
        /\ c.is = "ok" => c.at \in Nat /\ begin + 1 < c.at
        /\ c.is = "ok" /\ c.at <= end => ScopeAt(prog, "open_paren_", begin + 1, c.at)
    BY <1>3, <1>4, <2>1, ForConditionsGives
  <2>3. ASSUME end = begin + 1, prog[begin + 1] = "open_paren_" PROVE HasEndlessFor(prog)
    <3>1. IsBranch(prog, Running)
      BY <1>2, BranchIs
    <3>2. IsEndless(prog, begin)
      BY <1>1, <2>3, <3>1 DEF IsBranch, begin, end
    <3>. QED
      BY <2>3, <3>2 DEF IsEndless, HasEndlessFor
  <2>. QED
    BY <2>2, <2>3 DEF LoopRead
<1>. HIDE DEF C
<1>. QED
  BY <1>1, <1>2, <1>5, LoopKeeps DEF begin, end

LEMMA EndLoopKeeps ==
    ASSUME ParserInv, EndLoop
    PROVE  ParserInv'
<1>1. Running.fn \in Ifs \cup Loops /\ returned # 0
  BY DEF EndLoop, CameBack, Loops
<1>2. PICK o \in Expect("eos_", Running.scopeEnd, Running.end) :
        IF o.is = "ok" THEN ReturnAt(o.at + 1) ELSE Stop(o.is)
  BY DEF EndLoop, On
<1>3. /\ Running.end \in Nat /\ Running.scopeEnd \in Nat
      /\ prog[Running.begin] # "open_bracket_"
  BY <1>1, BranchIs
<1>4. Prefix(prog, Running.begin, Running.scopeEnd, "eos_")
  BY <1>1, BranchComesBack
<1>5. /\ o.is # "ok" => o.is \in FailsWith
      /\ o.is = "ok" => /\ o.at = Running.scopeEnd /\ Running.scopeEnd < Running.end
                        /\ prog[Running.scopeEnd] = "eos_"
  BY <1>2, <1>3, ExpectGives
<1>6. CASE o.is # "ok"
  BY <1>2, <1>5, <1>6, FailsKeeps
<1>7. CASE o.is = "ok"
  <2>1. ReturnAt(Running.scopeEnd + 1)
    BY <1>2, <1>5, <1>7
  <2>. QED
    BY <1>1, <1>3, <1>4, <1>5, <1>7, <2>1, EosReturns
<1>. QED
  BY <1>6, <1>7

-----------------------------------------------------------------------------
(* #on.                                                                    *)

\* What an #on knows when it runs.
LEMMA OnIs ==
    ASSUME ParserInv, Running.fn = "on_"
    PROVE  /\ prog \in Seq(STRING) /\ Len(prog) \in Nat \ {0}
           /\ Running \in FrameTypes /\ IsOn(prog, Running) /\ FrameIs(prog, Running)
           /\ Running.begin \in Nat \ {0} /\ Running.end \in Nat
           /\ Running.cursor \in Nat /\ Running.scopeEnd \in Nat
           /\ Running.begin < Running.end /\ Running.end < Len(prog)
           /\ Nested(prog, Running.begin, Running.end)
           /\ prog[Running.begin] = "on_" /\ InText(prog, Running)
<1>1. /\ prog \in Seq(STRING) /\ Len(prog) \in Nat \ {0}
      /\ Running \in FrameTypes /\ FrameIs(prog, Running)
      /\ Running.begin \in Nat \ {0} /\ Running.end \in Nat
      /\ Running.cursor \in Nat /\ Running.scopeEnd \in Nat
      /\ Running.begin < Running.end /\ Running.end < Len(prog)
      /\ Nested(prog, Running.begin, Running.end)
      /\ InText(prog, Running)
  BY StatementIsCalled
<1>2. IsOn(prog, Running)
  BY <1>1 DEF FrameIs
<1>. QED
  BY <1>1, <1>2 DEF IsOn

\* The frame of an #on that has found its scope.
OnStarted(r, b, p) == [r EXCEPT !.cursor = b, !.scopeEnd = p]

IsOnStarted(f, r, b, p) ==
    /\ f \in FrameTypes /\ f.fn = r.fn /\ f.begin = r.begin /\ f.end = r.end
    /\ f.cursor = b /\ f.scopeEnd = p /\ f.stmts = r.stmts

LEMMA OnStartedFrame ==
    \A r \in FrameTypes : \A b, p \in Nat : \A f :
        f = OnStarted(r, b, p) => IsOnStarted(f, r, b, p)
BY DEF FrameTypes, OnStarted, IsOnStarted

\* The branches of an #on lie between its braces.
LEMMA OnStartedKeeps ==
    ASSUME ParserInv, Running.fn = "on_", Running.cursor = 0,
           NEW b \in Nat \ {0}, Running.begin < b, Prefix(prog, Running.begin, b, "eos_"),
           NEW p \in Nat, b + 2 <= p, p <= Running.end, ScopeAt(prog, "open_brace_", b, p),
           GoOn(OnStarted(Running, b + 1, p))
    PROVE  ParserInv'
<1>1. /\ prog \in Seq(STRING) /\ Len(prog) \in Nat \ {0} /\ IsOn(prog, Running)
      /\ Running \in FrameTypes /\ InText(prog, Running)
      /\ Running.begin \in Nat \ {0} /\ Running.end \in Nat /\ Running.end < Len(prog)
      /\ prog[Running.begin] = "on_"
  BY OnIs
<1>2. /\ Running.stmts = <<>> /\ Conditional(prog, Running)
  BY <1>1 DEF IsOn
<1>3. b + 1 \in Nat \ {0} /\ b + 1 < p /\ Running.begin < b + 1 /\ b + 1 <= Len(prog) + 1
      /\ p <= Len(prog) + 1
  BY <1>1
<1>4. Nested(prog, b + 1, p - 1) /\ prog[p - 1] = "close_brace_"
  <2>1. Nested(prog, b + 1, p - 1)
    BY <1>1, InsideScope
  <2>2. prog[p - 1] = ClosingOf["open_brace_"]
    BY <1>1, ScopeProperties
  <2>. QED
    BY <2>1, <2>2 DEF ClosingOf
<1>5. Prefix(prog, Running.begin, p, "eos_")
  <2>1. ClosingOf["open_brace_"] # "eos_"
    BY DEF ClosingOf
  <2>. QED
    BY <1>1, <2>1, PrefixScope
<1>. PICK f : f = OnStarted(Running, b + 1, p)
  OBVIOUS
<1>6. IsOnStarted(f, Running, b + 1, p)
  BY <1>1, <1>3, OnStartedFrame
<1>7. /\ f \in FrameTypes /\ f.fn = "on_" /\ f.begin = Running.begin /\ f.end = Running.end
      /\ f.cursor = b + 1 /\ f.scopeEnd = p /\ f.stmts = <<>>
  BY <1>2, <1>6 DEF IsOnStarted
<1>8. IsOn(prog, f)
  <2>1. Conditional(prog, f)
    BY <1>2, <1>7 DEF Conditional, Inside
  <2>. QED
    BY <1>1, <1>3, <1>4, <1>5, <1>7, <2>1 DEF IsOn
<1>9. InText(prog, f) /\ StatementsAre(prog, f)
  BY <1>1, <1>3, <1>7, NoStatements DEF InText
<1>10. FrameIs(prog, f)
  BY <1>7, <1>8, <1>9 DEF FrameIs, Blocks, ProgramParts, Ifs, Loops
<1>11. Len(frames) # 1 /\ Calls(Caller, Running) /\ Running.fn \notin Blocks \cup Ifs
  BY StatementIsCalled DEF Ifs
<1>12. Calls(Caller, f)
  <2>1. f.fn \notin Blocks \cup ProgramParts
    BY <1>7 DEF Blocks, ProgramParts
  <2>. QED
    BY <1>7, <1>11, <2>1, CallsSame
<1>. QED
  BY <1>10, <1>11, <1>12, GoOnKeeps

LEMMA StartOnKeeps ==
    ASSUME ParserInv, StartOn
    PROVE  ParserInv'
<1>. DEFINE begin == Running.begin  end == Running.end
<1>1. Running.fn = "on_" /\ Running.cursor = 0
  BY DEF StartOn, Starts
<1>2. /\ prog \in Seq(STRING) /\ Len(prog) \in Nat
      /\ begin \in Nat \ {0} /\ end \in Nat /\ begin < end /\ end < Len(prog)
      /\ Nested(prog, begin, end) /\ prog[begin] \in Conditionals
  BY <1>1, OnIs DEF Conditionals
<1>3. PICK c \in Condition(begin, end) :
        IF c.is = "ok"
        THEN On(FindAnyScope("open_brace_", c.at, end), LAMBDA p : GoOn(OnStarted(Running, c.at + 1, p)))
        ELSE Stop(c.is)
  BY DEF StartOn, On, OnStarted
<1>. HIDE DEF begin, end
<1>4. Nested(prog, begin + 1, end)
  <2>1. Prefix(prog, begin, begin, "eos_")
    BY <1>2, PrefixStart
  <2>2. Prefix(prog, begin, begin + 1, "eos_")
    BY <1>2, <2>1, PrefixDirective
  <2>3. begin + 1 \in Nat /\ begin + 1 <= end
    BY <1>2
  <2>. QED
    BY <1>2, <2>2, <2>3, NestedAfter
<1>5. LoopRead(c, begin, end) /\ (c.is # "ok" => c.is \in FailsWith)
  <2>1. end <= Len(prog)
    BY <1>2
  <2>2. /\ c.is # "ok" => c.is \in FailsWith
        /\ c.is = "ok" => /\ c.at \in Nat /\ begin + 3 <= c.at /\ c.at <= end
                          /\ ScopeAt(prog, "open_paren_", begin + 1, c.at)
    BY <1>2, <1>3, <1>4, <2>1, ConditionGives
  <2>3. c.is = "ok" => begin + 1 < c.at
    BY <1>2, <2>2
  <2>. QED
    BY <2>2, <2>3 DEF LoopRead
<1>6. CASE c.is # "ok"
  BY <1>3, <1>5, <1>6, FailsKeeps
<1>7. CASE c.is = "ok"
  <2>1. PICK x \in FindAnyScope("open_brace_", c.at, end) :
          IF x.is = "ok" THEN GoOn(OnStarted(Running, c.at + 1, x.at)) ELSE Stop(x.is)
    BY <1>3, <1>7 DEF On
  <2>2. /\ x.is # "ok" => x.is \in FailsWith
        /\ x.is = "ok" => /\ c.at \in Nat \ {0} /\ begin < c.at
                          /\ Prefix(prog, begin, c.at, "eos_")
                          /\ x.at \in Nat /\ c.at + 2 <= x.at /\ x.at <= end
                          /\ ScopeAt(prog, "open_brace_", c.at, x.at)
    BY <1>2, <1>5, <1>7, <2>1, BlockBehindCondition
  <2>3. CASE x.is # "ok"
    BY <2>1, <2>2, <2>3, FailsKeeps
  <2>4. CASE x.is = "ok"
    <3>1. GoOn(OnStarted(Running, c.at + 1, x.at))
      BY <2>1, <2>4
    <3>. QED
      BY <1>1, <2>2, <2>4, <3>1, OnStartedKeeps DEF begin, end
  <2>. QED
    BY <2>3, <2>4
<1>. QED
  BY <1>6, <1>7

LEMMA ParseOnKeeps ==
    ASSUME ParserInv, ParseOn
    PROVE  ParserInv'
<1>1. /\ Running.fn = "on_" /\ Running.cursor # 0 /\ Running.cursor < Running.scopeEnd - 1
      /\ IF prog[Running.cursor] = "if_"
         THEN Call(Running, Frame("if_", Running.cursor, Running.scopeEnd - 1))
         ELSE Stop("refused")
  BY DEF ParseOn, GoesOn
<1>. DEFINE b == Running.cursor  e == Running.scopeEnd - 1  g == Frame(prog[b], b, e)
<1>2. /\ prog \in Seq(STRING) /\ Len(prog) \in Nat \ {0} /\ IsOn(prog, Running)
      /\ b \in Nat \ {0} /\ Running.scopeEnd \in Nat /\ Running.end < Len(prog) /\ Running.end \in Nat
  BY <1>1, OnIs
<1>3. /\ Running.scopeEnd <= Running.end
      /\ prog[e] = "close_brace_" /\ Nested(prog, b, e)
  BY <1>1, <1>2 DEF IsOn
<1>4. e \in Nat /\ b < e /\ e < Len(prog)
  BY <1>1, <1>2, <1>3
<1>5. CASE prog[b] # "if_"
  <2>1. Stop("refused") /\ "refused" \in Outcomes
    BY <1>1, <1>5 DEF Outcomes
  <2>. QED
    BY <2>1, StopKeeps
<1>6. CASE prog[b] = "if_"
  <2>1. Call(Running, g)
    BY <1>1, <1>6
  <2>2. prog[b] \in Conditionals
    BY <1>6 DEF Conditionals
  <2>5. prog[b] # "for_"
    BY <1>6
  <2>. HIDE DEF g
  <2>3. /\ FrameIs(prog, g) /\ g.fn = prog[b] /\ g.begin = b /\ g.end = e
        /\ g.fn \notin ProgramParts \cup Blocks
    BY <1>2, <1>3, <1>4, <2>2, <2>5, ConditionalStarts DEF g
  <2>4. g.fn \in Ifs /\ Running.fn \in Blocks \cup {"on_"}
    BY <1>1, <1>6, <2>3 DEF Ifs
  <2>. QED
    BY <1>1, <2>1, <2>3, <2>4, CallStatementKeeps
<1>. QED
  BY <1>5, <1>6

LEMMA OnParsedKeeps ==
    ASSUME ParserInv, OnParsed
    PROVE  ParserInv'
<1>1. returned # 0 /\ Running.fn = "on_" /\ GoOn(Took(returned))
  BY DEF OnParsed, CameBack
<1>2. returned \in Nat /\ Returns(prog, Running, returned)
  BY <1>1 DEF ParserInv
<1>3. Running.cursor # 0 /\ Whole(prog, Running.cursor, returned) /\ returned < Running.scopeEnd
  BY <1>1, <1>2 DEF Returns
<1>4. Running.fn \notin Blocks
  BY <1>1 DEF Blocks
<1>. QED
  BY <1>1, <1>2, <1>3, <1>4, TookKeeps

LEMMA EndOnKeeps ==
    ASSUME ParserInv, EndOn
    PROVE  ParserInv'
<1>1. Running.fn = "on_" /\ Running.cursor # 0
  BY DEF EndOn, GoesOn
<1>2. PICK o \in Expect("eos_", Running.scopeEnd, Running.end) :
        IF o.is = "ok" THEN ReturnAt(o.at + 1) ELSE Stop(o.is)
  BY DEF EndOn, On
<1>3. /\ Running.end \in Nat /\ Running.scopeEnd \in Nat /\ IsOn(prog, Running)
      /\ prog[Running.begin] # "open_bracket_"
  BY <1>1, OnIs
<1>4. Prefix(prog, Running.begin, Running.scopeEnd, "eos_")
  BY <1>1, <1>3 DEF IsOn
<1>5. /\ o.is # "ok" => o.is \in FailsWith
      /\ o.is = "ok" => /\ o.at = Running.scopeEnd /\ Running.scopeEnd < Running.end
                        /\ prog[Running.scopeEnd] = "eos_"
  BY <1>2, <1>3, ExpectGives
<1>6. CASE o.is # "ok"
  BY <1>2, <1>5, <1>6, FailsKeeps
<1>7. CASE o.is = "ok"
  <2>1. ReturnAt(Running.scopeEnd + 1)
    BY <1>2, <1>5, <1>7
  <2>. QED
    BY <1>1, <1>3, <1>4, <1>5, <1>7, <2>1, EosReturns
<1>. QED
  BY <1>6, <1>7

-----------------------------------------------------------------------------
(* The invariant holds from the start, and every step keeps it.            *)

\* The first call is given the whole program.
LEMMA ParserStarts ==
    ASSUME ParserInit
    PROVE  ParserInv
<1>1. /\ prog \in Programs /\ frames = <<Frame("program", 1, Len(prog) + 1)>>
      /\ returned = 0 /\ nodes = {} /\ outcome = "none"
  BY DEF ParserInit
<1>2. prog \in Seq(STRING) /\ Len(prog) \in Nat
  BY <1>1, ProgramsAssumption, LenProperties
<1>. DEFINE f == Frame("program", 1, Len(prog) + 1)
<1>3. /\ f \in FrameTypes /\ f.fn = "program" /\ f.begin = 1 /\ f.end = Len(prog) + 1
      /\ f.cursor = 0 /\ f.scopeEnd = 0 /\ f.stmts = <<>>
  <2>1. "program" \in Functions /\ Len(prog) + 1 \in Nat
    BY <1>2 DEF Functions
  <2>. QED
    BY <2>1, NewFrame
<1>4. frames = <<f>>
  BY <1>1
<1>. HIDE DEF f
<1>5. FrameIs(prog, f)
  <2>1. IsProgram(prog, f) /\ InText(prog, f) /\ StatementsAre(prog, f)
    BY <1>2, <1>3, NoStatements DEF IsProgram, InText
  <2>. QED
    BY <1>3, <2>1 DEF FrameIs, Blocks, Ifs, Loops
<1>6. FramesAre(prog, frames)
  <2>1. frames \in Seq(FrameTypes) /\ Len(frames) = 1 /\ frames[1] = f /\ frames # <<>>
    BY <1>3, <1>4
  <2>2. f.fn \in ProgramParts
    BY <1>3 DEF ProgramParts
  <2>3. \A i \in 1..Len(frames) : i = 1
    BY <2>1
  <2>4. 2..Len(frames) = {}
    BY <2>1
  <2>. QED
    BY <1>5, <2>1, <2>2, <2>3, <2>4 DEF FramesAre
<1>. QED
  BY <1>1, <1>6 DEF ParserInv, Outcomes

\* Action by action.
LEMMA ParserSteps ==
    ASSUME ParserInv, [ParserNext]_parser_vars
    PROVE  ParserInv'
<1>1. CASE UNCHANGED parser_vars
  BY <1>1 DEF ParserInv, parser_vars, Running
<1>2. CASE StartProgram \/ EnterParsed \/ StartParsed
  BY <1>2, StartProgramKeeps, EnterParsedKeeps, StartParsedKeeps
<1>3. CASE StartBlock \/ EndBlock \/ RefuseStatement \/ StatementParsed
  BY <1>3, StartBlockKeeps, EndBlockKeeps, RefuseStatementKeeps, StatementParsedKeeps
<1>4. CASE DeclareVar \/ DeclareType \/ DeclareFunc \/ DeclareClass
  BY <1>4, DeclareVarKeeps, DeclareTypeKeeps, DeclareFuncKeeps, DeclareClassKeeps
<1>5. CASE ParseReturn \/ ParseConditional
  BY <1>5, ParseReturnKeeps, ParseConditionalKeeps
<1>6. CASE StartFunc \/ FuncParsed \/ StartClass \/ ClassParsed
  BY <1>6, StartFuncKeeps, FuncParsedKeeps, StartClassKeeps, ClassParsedKeeps
<1>7. CASE StartIf \/ BranchParsed
  BY <1>7, StartIfKeeps, BranchParsedKeeps
<1>8. CASE StartWhile \/ StartFor \/ EndLoop
  BY <1>8, StartWhileKeeps, StartForKeeps, EndLoopKeeps
<1>9. CASE StartOn \/ ParseOn \/ OnParsed \/ EndOn
  BY <1>9, StartOnKeeps, ParseOnKeeps, OnParsedKeeps, EndOnKeeps
<1>10. CASE Finished
  <2>1. UNCHANGED parser_vars
    BY <1>10 DEF Finished
  <2>. QED
    BY <1>1, <2>1
<1>. QED
  BY <1>1, <1>2, <1>3, <1>4, <1>5, <1>6, <1>7, <1>8, <1>9, <1>10 DEF ParserNext

LEMMA ParserKeepsInv == ParserSpec => []ParserInv
<1>1. ParserInit => ParserInv
  BY ParserStarts
<1>2. ParserInv /\ [ParserNext]_parser_vars => ParserInv'
  BY ParserSteps
<1>. QED
  BY <1>1, <1>2, PTL DEF ParserSpec

-----------------------------------------------------------------------------
(* What the invariant says of the parser.                                  *)

\* What is known of the frames and of those that have returned.
LEMMA EveryFrame ==
    ASSUME ParserInv, NEW f \in ToSet(frames) \cup nodes
    PROVE  f \in FrameTypes /\ InText(prog, f) /\ StatementsAre(prog, f)
<1>1. CASE f \in nodes
  BY <1>1 DEF ParserInv, NodeIs
<1>2. CASE f \in ToSet(frames)
  <2>1. PICK i \in DOMAIN frames : f = frames[i]
    BY <1>2 DEF ToSet
  <2>2. DOMAIN frames = 1..Len(frames)
    BY LenProperties DEF ParserInv, FramesAre
  <2>. QED
    BY <2>1, <2>2 DEF ParserInv, FramesAre, FrameIs
<1>. QED
  BY <1>1, <1>2

\* The same of a statement of any call, on the stack or returned.
LEMMA EveryStatement ==
    ASSUME ParserInv, NEW f \in ToSet(frames) \cup nodes, NEW i \in DOMAIN f.stmts
    PROVE  /\ f.stmts[i] \in Nat \X Nat
           /\ f.stmts[i][1] \in Nat \ {0} /\ f.stmts[i][2] \in Nat /\ f.stmts[i][2] <= Len(prog)
           /\ f.stmts[i][1] < f.stmts[i][2]
           /\ Whole(prog, f.stmts[i][1], f.stmts[i][2])
           /\ i > 1 => f.stmts[i][1] = f.stmts[i - 1][2]
<1>1. f \in FrameTypes /\ StatementsAre(prog, f)
  BY EveryFrame
<1>2. f.stmts \in Seq(Nat \X Nat)
  BY <1>1, FrameFields
<1>3. f.stmts[i] \in Nat \X Nat
  BY <1>2
<1>4. /\ f.stmts[i][1] # 0 /\ f.stmts[i][2] <= Len(prog)
      /\ Whole(prog, f.stmts[i][1], f.stmts[i][2])
      /\ i > 1 => f.stmts[i][1] = f.stmts[i - 1][2]
  BY <1>1 DEF StatementsAre
<1>5. f.stmts[i][1] < f.stmts[i][2]
  BY <1>4 DEF Whole
<1>. QED
  BY <1>3, <1>4, <1>5

\* The range of a call lies in that of the caller.
LEMMA CallsInside ==
    ASSUME NEW s \in Seq(STRING), NEW f, FrameIs(s, f), NEW g, FrameIs(s, g), Calls(f, g)
    PROVE  f.begin <= g.begin /\ g.end <= f.end
<1>1. /\ f.begin \in Nat /\ f.end \in Nat /\ f.cursor \in Nat \ {0} /\ f.scopeEnd \in Nat
      /\ g.begin \in Nat /\ g.end \in Nat /\ f.fn \in Functions
  <2>1. f \in FrameTypes /\ g \in FrameTypes /\ f.cursor # 0
    BY DEF FrameIs, Calls
  <2>. QED
    BY <2>1, FrameFields
<1>2. ASSUME CallsBlock(f, g) PROVE f.begin <= f.cursor /\ f.scopeEnd <= f.end
  <2>1. f.fn \in {"enter_", "start_", "func", "class_"} \cup Ifs \cup Loops
    BY <1>1, <1>2 DEF CallsBlock, Functions, Conditionals, Blocks, Ifs, Loops
  <2>2. CASE f.fn \in {"enter_", "start_"}
    <3>1. IsProgram(s, f)
      BY <2>2 DEF FrameIs, ProgramParts
    <3>. QED
      BY <1>1, <3>1 DEF IsProgram
  <2>3. CASE f.fn = "func"
    BY <1>1, <2>3 DEF FrameIs, IsFunc
  <2>4. CASE f.fn = "class_"
    BY <1>1, <2>4 DEF FrameIs, IsClass
  <2>5. CASE f.fn \in Ifs \cup Loops
    <3>1. IsBranch(s, f)
      BY <2>5 DEF FrameIs
    <3>. QED
      BY <1>1, <3>1 DEF IsBranch
  <2>. QED
    BY <2>1, <2>2, <2>3, <2>4, <2>5
<1>3. CASE g.fn \in Blocks
  <2>1. CallsBlock(f, g)
    BY <1>3 DEF Calls
  <2>2. f.begin <= f.cursor /\ f.scopeEnd <= f.end
    BY <1>2, <2>1
  <2>. QED
    BY <1>1, <2>1, <2>2 DEF CallsBlock
<1>4. CASE g.fn \notin Blocks
  <2>1. CallsStatement(f, g)
    BY <1>4 DEF Calls
  <2>2. CASE f.fn \in Blocks /\ g.end <= f.end
    <3>1. StartedBlock(s, f)
      BY <1>1, <2>2 DEF FrameIs
    <3>. QED
      BY <1>1, <2>1, <2>2, <3>1 DEF StartedBlock, CallsStatement
  <2>3. CASE f.fn = "on_" /\ g.end = f.scopeEnd - 1
    <3>1. IsOn(s, f)
      BY <2>3 DEF FrameIs
    <3>2. f.begin < f.cursor /\ f.scopeEnd <= f.end
      BY <1>1, <3>1 DEF IsOn
    <3>. QED
      BY <1>1, <2>1, <2>3, <3>2 DEF CallsStatement
  <2>. QED
    BY <2>1, <2>2, <2>3 DEF CallsStatement
<1>. QED
  BY <1>3, <1>4

\* The five invariants that TLC checks follow from this one.
LEMMA InvGivesTypes ==
    ASSUME ParserInv
    PROVE  ParserTypes
<1>1. prog \in Seq(STRING) /\ Len(prog) \in Nat
  BY RunningIs
<1>2. ASSUME NEW f \in ToSet(frames) \cup nodes
      PROVE  /\ f.fn \in Functions
             /\ {f.begin, f.end, f.cursor, f.scopeEnd} \subseteq Places
             /\ \A i \in DOMAIN f.stmts : f.stmts[i] \in Places \X Places
  <2>1. f \in FrameTypes /\ InText(prog, f)
    BY EveryFrame
  <2>2. /\ f.fn \in Functions
        /\ f.begin \in Places /\ f.end \in Places /\ f.cursor \in Places /\ f.scopeEnd \in Places
    BY <1>1, <2>1, FrameFields DEF InText, Places
  <2>3. ASSUME NEW i \in DOMAIN f.stmts PROVE f.stmts[i] \in Places \X Places
    <3>. PICK x \in Nat, y \in Nat : f.stmts[i] = <<x, y>>
      BY EveryStatement
    <3>1. x < y /\ y <= Len(prog)
      BY EveryStatement
    <3>2. x \in Places /\ y \in Places
      BY <1>1, <3>1 DEF Places
    <3>. QED
      BY <3>2
  <2>. QED
    BY <2>2, <2>3
<1>3. ASSUME NEW i \in 2..Len(frames)
      PROVE  frames[i - 1].begin <= frames[i].begin /\ frames[i].end <= frames[i - 1].end
  <2>1. Len(frames) \in Nat
    BY RunningIs
  <2>2. i \in 1..Len(frames) /\ i - 1 \in 1..Len(frames)
    BY <2>1
  <2>3. FrameIs(prog, frames[i]) /\ FrameIs(prog, frames[i - 1]) /\ Calls(frames[i - 1], frames[i])
    BY <2>2 DEF ParserInv, FramesAre
  <2>. QED
    BY <1>1, <2>3, CallsInside
<1>4. returned \in Places
  <2>1. returned \in Nat /\ (returned # 0 => returned <= Len(prog) + 1)
    BY DEF ParserInv, Returns
  <2>. QED
    BY <1>1, <2>1 DEF Places
<1>5. /\ frames # <<>>
      /\ outcome \in {"none", "parsed", "no expression", "refused", "dangling", "stray",
                     "unreturned"}
  BY DEF ParserInv, FramesAre, Outcomes
<1>. QED
  BY <1>2, <1>3, <1>4, <1>5 DEF ParserTypes

\* Whole, by the heights of the text, is what IsStatement says of the part.
LEMMA WholeIsStatement ==
    ASSUME prog \in Seq(STRING), NEW b \in Nat \ {0}, NEW p \in Nat, p <= Len(prog), Whole(prog, b, p)
    PROVE  IsStatement(b, p)
<1>. DEFINE r == Part(prog, b, p)  n == p - b
<1>1. Len(prog) \in Nat /\ b < p
  BY LenProperties DEF Whole
<1>2. b \in 1..(Len(prog) + 1) /\ p \in b..(Len(prog) + 1) /\ n \in Nat \ {0} /\ n \in 0..(p - b) /\ n \in 1..(p - b)
      /\ b + n = p /\ b + n - 1 = p - 1
  BY <1>1
<1>3. /\ Len(r) = n
      /\ \A i \in 1..n : r[i] = prog[b + i - 1]
      /\ \A i \in 0..n : Height(r, i) = Height(prog, b + i - 1) - Height(prog, b - 1)
  BY <1>2, PartOfText
<1>4. WellNested(r, n)
  BY <1>2, PartNested DEF Whole
<1>5. r = SubSeq(prog, b, p - 1)
  BY DEF Part
<1>. DEFINE last == LastOf(prog, b)
<1>6. Height(prog, b - 1) \in Int /\ \A i \in 0..n : Height(prog, b + i - 1) \in Int
  <2>1. b - 1 \in Nat /\ \A i \in 0..n : b + i - 1 \in Nat
    OBVIOUS
  <2>. QED
    BY <2>1, HeightType
<1>7. Level(prog, b, p) /\ prog[p - 1] = last /\ NoEnd(prog, b, p - 1, last)
  BY DEF Whole
<1>. HIDE DEF r, n, last
<1>8. Height(r, n) = 0 /\ r[n] = last
  <2>1. n \in 0..n /\ n \in 1..n
    BY <1>2
  <2>2. Height(r, n) = Height(prog, p - 1) - Height(prog, b - 1) /\ r[n] = prog[p - 1]
    BY <1>2, <1>3, <2>1
  <2>3. Height(prog, p - 1) = Height(prog, b - 1)
    BY <1>7 DEF Level
  <2>. QED
    BY <1>6, <1>7, <2>2, <2>3
<1>9. ASSUME NEW i \in 1..(n - 1) PROVE ~(Height(r, i) = 0 /\ r[i] = last)
  <2>1. i \in 0..n /\ i \in 1..n /\ b + i - 1 \in b..(p - 1 - 1)
    BY <1>2 DEF n
  <2>2. Height(r, i) = Height(prog, b + i - 1) - Height(prog, b - 1) /\ r[i] = prog[b + i - 1]
    BY <1>3, <2>1
  <2>3. prog[b + i - 1] = last => Height(prog, b + i - 1) # Height(prog, b - 1)
    BY <1>7, <2>1 DEF NoEnd
  <2>. QED
    BY <1>6, <2>1, <2>2, <2>3
<1>. QED
  BY <1>3, <1>4, <1>5, <1>8, <1>9 DEF IsStatement, last, LastOf

LEMMA InvGivesStatements ==
    ASSUME ParserInv
    PROVE  StatementsAreWhole
<1>1. prog \in Seq(STRING)
  BY RunningIs
<1>2. ASSUME NEW f \in ToSet(frames) \cup nodes, NEW i \in DOMAIN f.stmts
      PROVE  /\ f.stmts[i][1] < f.stmts[i][2]
             /\ IsStatement(f.stmts[i][1], f.stmts[i][2])
             /\ i > 1 => f.stmts[i][1] = f.stmts[i - 1][2]
  BY <1>1, EveryStatement, WholeIsStatement
<1>. QED
  BY <1>2 DEF StatementsAreWhole

LEMMA InvGivesCovered ==
    ASSUME ParserInv
    PROVE  BlocksAreCovered
BY DEF ParserInv, NodeIs, BlocksAreCovered

LEMMA InvGivesSearches ==
    ASSUME ParserInv
    PROVE  SearchesAgree
<1>1. prog \in Seq(STRING) /\ Len(frames) \in Nat
  BY RunningIs
<1>3. ASSUME NEW i \in 2..Len(frames), frames[i].fn \in Blocks, frames[i].cursor # 0,
             frames[i - 1].fn # "func"
      PROVE  frames[i].end + 1 = frames[i - 1].scopeEnd
  <2>. DEFINE g == frames[i]  f == frames[i - 1]
  <2>1. i \in 1..Len(frames) /\ i - 1 \in 1..Len(frames)
    BY <1>1
  <2>2. FrameIs(prog, g) /\ FrameIs(prog, f) /\ Calls(f, g)
    BY <2>1 DEF ParserInv, FramesAre
  <2>3. g.fn \in Blocks /\ g.cursor # 0 /\ f.fn # "func"
    BY <1>3
  <2>. HIDE DEF f, g
  <2>4. /\ g.begin \in Nat /\ g.end \in Nat /\ f.fn \in Functions
        /\ f.cursor \in Nat \ {0} /\ f.scopeEnd \in Nat
    <3>1. f \in FrameTypes /\ g \in FrameTypes /\ f.cursor # 0
      BY <2>2 DEF FrameIs, Calls
    <3>. QED
      BY <3>1, FrameFields
  <2>5. /\ g.begin = f.cursor + 1 /\ g.end + 1 <= f.scopeEnd
        /\ f.fn \notin Blocks \cup {"program", "on_"}
    BY <2>2, <2>3 DEF Calls, CallsBlock
  <2>6. f.cursor = g.begin - 1 /\ g.end + 1 \in Nat
    BY <2>4, <2>5
  <2>7. ScopeAt(prog, "open_brace_", f.cursor, g.end + 1)
    <3>1. StartedBlock(prog, g)
      BY <2>2, <2>3 DEF FrameIs
    <3>. QED
      BY <2>6, <3>1 DEF StartedBlock
  <2>8. f.fn \in {"enter_", "start_", "class_"} \cup Ifs \cup Loops
    BY <2>3, <2>4, <2>5 DEF Functions, Conditionals, Blocks, Ifs, Loops
  <2>9. ScopeAt(prog, "open_brace_", f.cursor, f.scopeEnd)
    <3>1. CASE f.fn \in {"enter_", "start_", "class_"}
      <4>1. /\ f.cursor # 0 /\ f.fn \notin Blocks \cup {"on_"} /\ f.fn # "func"
            /\ 0 <= Len(prog) + 1
        BY <1>1, <2>3, <2>4, <2>5, LenProperties
      <4>2. Returns(prog, f, 0)
        BY <1>1, <2>2, <2>5, <2>6, <2>7, <4>1, BlockReturns
      <4>. QED
        BY <3>1, <4>2 DEF Returns
    <3>2. CASE f.fn \in Ifs \cup Loops
      <4>1. IsBranch(prog, f)
        BY <2>2, <3>2 DEF FrameIs
      <4>. QED
        BY <2>4, <4>1 DEF IsBranch
    <3>. QED
      BY <2>8, <3>1, <3>2
  <2>10. g.end + 1 = f.scopeEnd
    BY <1>1, <2>4, <2>6, <2>7, <2>9, OneScope
  <2>. QED
    BY <2>10 DEF f, g
<1>. QED
  BY <1>3 DEF SearchesAgree

LEMMA InvGivesReads ==
    ASSUME ParserInv
    PROVE  ReadsStayInside
BY DEF ParserInv, Outcomes, ReadsStayInside

-----------------------------------------------------------------------------
(* Theorems about the parser.                                              *)

\* What a function of parser.hpp is given, where its cursor stands and what
\* it has parsed lie in the tokens, and in the range of its caller.
THEOREM ParserTypesHold == ParserSpec => []ParserTypes
BY ParserKeepsInv, InvGivesTypes, PTL

\* A block that is reported as parsed has been read up to its end or to an
\* eof_ in it: no statement of it reaches over its close brace.
THEOREM BlocksCovered == ParserSpec => []BlocksAreCovered
BY ParserKeepsInv, InvGivesCovered, PTL

\* Whichever finders have found its parts, every statement that a block or
\* an #on has parsed is one whole statement, behind the one before.
THEOREM StatementsWhole == ParserSpec => []StatementsAreWhole
BY ParserKeepsInv, InvGivesStatements, PTL

\* find_exact and find_list_scope find the same end of a block.
THEOREM SearchesFindTheSame == ParserSpec => []SearchesAgree
BY ParserKeepsInv, InvGivesSearches, PTL

\* Nothing is read behind the tokens or from an empty stack, and the one
\* function that may be left without a value is left so in programs with a
\* #for that no `;` ends, and in no others.
THEOREM NothingStrayIsRead == ParserSpec => []ReadsStayInside
BY ParserKeepsInv, InvGivesReads, PTL
=============================================================================
