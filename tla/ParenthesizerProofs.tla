------------------------ MODULE ParenthesizerProofs ------------------------
(***************************************************************************)
(* Proofs about the Parenthesizer, for all expressions, also the ones that *)
(* are not well formed: its closures wait in order of priority; its        *)
(* outputs hold the tokens read so far in their order; no call, index or   *)
(* type constraint is split.                                               *)
(*                                                                         *)
(* The last two need an invariant of all parenthesizers that run or wait   *)
(* (RewritingInv): where their heads are among the scopes of the text,     *)
(* what their outputs hold, and that no closure starts or ends inside a    *)
(* call. Resolving inserts parentheses only at closures (IsRewriting), so  *)
(* that it keeps what is said of the output; a head that moves on adds     *)
(* text behind it (PutsOut), and an operand entered or left is a stretch   *)
(* of that text.                                                           *)
(***************************************************************************)
EXTENDS Parenthesizer, Lemmas

\* A closure, and the priority of its operator.
Closures == [front : Int, back : Int]
PriorityOf(c) == Priority(TypeOf(c.front))

\* A closure list: the sentinel, then operators in order of priority.
IsClosureList(cl) ==
    /\ cl \in Seq(Closures) /\ cl # <<>>
    /\ cl[1].front = Sentinel
    /\ \A k \in 2..Len(cl) : Operation(TypeOf(cl[k].front)) # "none_"
    /\ \A k \in 2..Len(cl) : PriorityOf(cl[k - 1]) <= PriorityOf(cl[k])

\* What holds of one parenthesizer.
IsParenthesizer(q) ==
    /\ DOMAIN q = {"head", "end", "expected", "output", "closures"}
    /\ q.head \in Nat \ {0} /\ q.end \in Nat
    /\ IsClosureList(q.closures)

\* The strengthening of ClosuresInOrder.
ClosuresInv ==
    /\ IsParenthesizer(p)
    /\ \E S : callers \in Seq(S)
    /\ \A k \in 1..Len(callers) : IsParenthesizer(callers[k])

-----------------------------------------------------------------------------
(* The tables.                                                             *)

\* Every priority is a number, and only an operator has one above 0.
LEMMA PriorityType ==
    /\ \A t : Priority(t) \in Nat
    /\ Priority("none_") = 0
    /\ \A t : Operation(t) # "none_" => Priority(t) > 0
<1>1. \A t : Priority(t) \in Nat
  BY DEF Priority, MaxPriority
<1>2. Priority("none_") = 0
  BY DEF Priority, ScopeTokens, OpeningScopes, ClosingScopes
<1>3. ASSUME NEW t, Operation(t) # "none_" PROVE Priority(t) > 0
  <2>1. t # "none_"
    BY <1>3 DEF Operation, ScopeTokens, OpeningScopes, ClosingScopes
  <2>. QED
    BY <2>1 DEF Priority, MaxPriority
<1>. QED
  BY <1>1, <1>2, <1>3

\* Every token type has an operation; an opening scope is a postfix operator.
LEMMA OperationType ==
    /\ \A t : Operation(t) \in {"binary_", "prefix_", "postfix_", "none_"}
    /\ \A t \in OpeningScopes : Operation(t) = "postfix_"
<1>1. \A t : Operation(t) \in {"binary_", "prefix_", "postfix_", "none_"}
  BY DEF Operation
<1>2. \A t \in OpeningScopes : Operation(t) = "postfix_"
  BY DEF Operation, ScopeTokens, OpeningScopes, ClosingScopes
<1>. QED
  BY <1>1, <1>2

-----------------------------------------------------------------------------
(* What resolving leaves of the closures.                                  *)

\* The first closures of a list are a list.
LEMMA PrefixIsList ==
    ASSUME NEW cl, IsClosureList(cl), NEW n \in 1..Len(cl)
    PROVE  IsClosureList(SubSeq(cl, 1, n))
<1>1. cl \in Seq(Closures) /\ Len(cl) \in Nat
  BY DEF IsClosureList
<1>. DEFINE s == SubSeq(cl, 1, n)
<1>2. s \in Seq(Closures) /\ Len(s) = n /\ \A k \in 1..n : s[k] = cl[k]
  <2>1. \A k \in 1..n : cl[k] \in Closures
    BY <1>1, ElementOfSeq
  <2>2. /\ s \in Seq(Closures) /\ Len(s) = IF 1 <= n THEN n - 1 + 1 ELSE 0
        /\ \A k \in 1..(n - 1 + 1) : s[k] = cl[1 + k - 1]
    BY <2>1, SubSeqProperties
  <2>. QED
    BY <2>2
<1>3. s # <<>>
  BY <1>2
<1>. HIDE DEF s
<1>4. IsClosureList(s)
  <2>1. s[1].front = Sentinel
    BY <1>1, <1>2 DEF IsClosureList
  <2>2. ASSUME NEW k \in 2..Len(s)
        PROVE  /\ Operation(TypeOf(s[k].front)) # "none_"
               /\ PriorityOf(s[k - 1]) <= PriorityOf(s[k])
    <3>1. k \in 2..Len(cl) /\ s[k] = cl[k] /\ s[k - 1] = cl[k - 1]
      BY <1>1, <1>2
    <3>. QED
      BY <3>1 DEF IsClosureList
  <2>. QED
    BY <1>2, <1>3, <2>1, <2>2 DEF IsClosureList
<1>. QED
  BY <1>4 DEF s

\* The last closure is not the sentinel if something waits in front of it.
LEMMA LastIsOperator ==
    ASSUME IsParenthesizer(p), Depth > 1
    PROVE  /\ Depth \in Nat /\ p.closures \in Seq(Closures)
           /\ Operation(TypeOf(last_closure.front)) # "none_"
           /\ ClosurePriority(last_closure) \in Nat
           /\ ClosurePriority(last_closure) > 0
           /\ PriorityOf(p.closures[1]) = 0
<1>1. p.closures \in Seq(Closures) /\ Depth \in Nat
  BY LenProperties DEF IsParenthesizer, IsClosureList, Depth
<1>2. Operation(TypeOf(last_closure.front)) # "none_"
  BY <1>1 DEF IsParenthesizer, IsClosureList, last_closure, Depth
<1>3. PriorityOf(p.closures[1]) = 0
  BY PriorityType DEF IsParenthesizer, IsClosureList, PriorityOf, TypeOf
<1>. QED
  BY <1>1, <1>2, <1>3, PriorityType DEF ClosurePriority

\* A run is shorter than the list: the sentinel belongs to none.
LEMMA RunIsShort ==
    ASSUME IsParenthesizer(p), Depth > 1
    PROVE  RunLength \in 1..(Depth - 1)
<1>. DEFINE R == {k \in 1..Depth :
        \A j \in k..Depth : ClosurePriority(p.closures[j]) = ClosurePriority(last_closure)}
<1>1. Depth \in Nat /\ ClosurePriority(p.closures[1]) # ClosurePriority(last_closure)
  BY LastIsOperator DEF PriorityOf, ClosurePriority
<1>2. R \subseteq 2..Depth
  <2>1. 1 \notin R
    BY <1>1
  <2>. QED
    BY <1>1, <2>1
<1>3. Depth \in R
  BY <1>1 DEF last_closure
<1>4. /\ IsFiniteSet(2..Depth) /\ Cardinality(2..Depth) = Depth - 1
      /\ IsFiniteSet({Depth}) /\ Cardinality({Depth}) = 1
  <2>1. 2 \in Int /\ Depth \in Int /\ ~(2 > Depth)
    BY <1>1
  <2>2. /\ IsFiniteSet(2..Depth)
        /\ Cardinality(2..Depth) = IF 2 > Depth THEN 0 ELSE Depth - 2 + 1
    BY <2>1, FS_Interval
  <2>3. IsFiniteSet(2..Depth) /\ Cardinality(2..Depth) = Depth - 1
    BY <2>1, <2>2
  <2>4. IsFiniteSet({Depth}) /\ Cardinality({Depth}) = 1
    BY FS_Singleton
  <2>. QED
    BY <2>3, <2>4
<1>5. IsFiniteSet(R) /\ Cardinality(R) \in Nat /\ Cardinality(R) <= Depth - 1
  <2>1. IsFiniteSet(R) /\ Cardinality(R) <= Cardinality(2..Depth)
    BY <1>2, <1>4, FS_Subset
  <2>. QED
    BY <1>4, <2>1, FS_CardinalityType
<1>6. 1 <= Cardinality(R)
  <2>1. {Depth} \subseteq R
    BY <1>3
  <2>. QED
    BY <1>4, <1>5, <2>1, FS_Subset
<1>. QED
  BY <1>1, <1>5, <1>6 DEF RunLength

\* KeptOf is the function that its definition asks for.
LEMMA KeptUnfolds ==
    ASSUME Depth \in Nat
    PROVE  KeptOf = [k \in 0..Depth |->
                IF k = 0 THEN <<>>
                ELSE IF ClosurePriority(p.closures[k]) = ClosurePriority(last_closure)
                     THEN KeptOf[k - 1]
                ELSE Append(KeptOf[k - 1], p.closures[k])]
<1>. DEFINE N == Depth
            step(e, k) ==
                IF ClosurePriority(p.closures[k]) = ClosurePriority(last_closure)
                THEN e ELSE Append(e, p.closures[k])
            is(f, n) == f = [k \in 0..n |-> IF k = 0 THEN <<>> ELSE step(f[k - 1], k)]
            T == {n \in 0..N : \E f : is(f, n)}
<1>1. 0 \in T
  <2>1. is([k \in 0..0 |-> <<>>], 0)
    OBVIOUS
  <2>2. \E f : is(f, 0)
    BY <2>1
  <2>3. 0 \in 0..N
    OBVIOUS
  <2>. HIDE DEF step, N
  <2>. QED
    BY <2>2, <2>3
<1>2. ASSUME NEW n \in 1..N, n - 1 \in T PROVE n \in T
  <2>1. PICK f : is(f, n - 1)
    BY <1>2
  <2>. DEFINE g == [k \in 0..n |-> IF k = n THEN step(f[n - 1], n) ELSE f[k]]
  <2>. HIDE DEF step
  <2>2. \A k \in 0..n : g[k] = IF k = 0 THEN <<>> ELSE step(g[k - 1], k)
    BY <2>1
  <2>3. is(g, n)
    BY <2>2
  <2>4. \E h : is(h, n)
    BY <2>3
  <2>. QED
    BY <2>4
<1>3. \E f : is(f, N)
  <2>. HIDE DEF step
  <2>1. N \in T
    <3>. HIDE DEF T
    <3>1. 0..N \subseteq T
      BY <1>1, <1>2, InductionUpTo
    <3>. QED
      BY <3>1
  <2>. QED
    BY <2>1
<1>. QED
  BY <1>3 DEF KeptOf

\* KeptOf at the start and at each closure.
LEMMA KeptStep ==
    ASSUME Depth \in Nat
    PROVE  /\ KeptOf[0] = <<>>
           /\ \A k \in 1..Depth :
                KeptOf[k] =
                    IF ClosurePriority(p.closures[k]) = ClosurePriority(last_closure)
                    THEN KeptOf[k - 1] ELSE Append(KeptOf[k - 1], p.closures[k])
<1>. DEFINE step(e, k) ==
                IF ClosurePriority(p.closures[k]) = ClosurePriority(last_closure)
                THEN e ELSE Append(e, p.closures[k])
            F == [k \in 0..Depth |-> IF k = 0 THEN <<>> ELSE step(KeptOf[k - 1], k)]
<1>1. KeptOf = F
  BY KeptUnfolds
<1>. HIDE DEF step
<1>2. F[0] = <<>> /\ \A k \in 1..Depth : F[k] = step(KeptOf[k - 1], k)
  OBVIOUS
<1>3. KeptOf[0] = <<>> /\ \A k \in 1..Depth : KeptOf[k] = step(KeptOf[k - 1], k)
  BY <1>1, <1>2
<1>. QED
  BY <1>3 DEF step

\* A list is one still with an operator of no lower priority behind it.
LEMMA LongerList ==
    ASSUME NEW cl, IsClosureList(cl), NEW c \in Closures,
           Operation(TypeOf(c.front)) # "none_",
           PriorityOf(cl[Len(cl)]) <= PriorityOf(c)
    PROVE  IsClosureList(Append(cl, c))
<1>1. cl \in Seq(Closures) /\ Len(cl) \in Nat \ {0}
  BY DEF IsClosureList
<1>. DEFINE s == Append(cl, c)
<1>2. /\ s \in Seq(Closures) /\ s # <<>> /\ Len(s) = Len(cl) + 1
      /\ s[Len(cl) + 1] = c /\ \A k \in 1..Len(cl) : s[k] = cl[k]
  BY <1>1, AppendProperties
<1>. HIDE DEF s
<1>3. s[1].front = Sentinel
  BY <1>1, <1>2 DEF IsClosureList
<1>4. ASSUME NEW k \in 2..Len(s)
      PROVE  /\ Operation(TypeOf(s[k].front)) # "none_"
             /\ PriorityOf(s[k - 1]) <= PriorityOf(s[k])
  <2>1. CASE k = Len(cl) + 1
    BY <1>1, <1>2, <2>1
  <2>2. CASE k # Len(cl) + 1
    <3>1. k \in 2..Len(cl) /\ s[k] = cl[k] /\ s[k - 1] = cl[k - 1]
      BY <1>1, <1>2, <2>2
    <3>. QED
      BY <3>1 DEF IsClosureList
  <2>. QED
    BY <2>1, <2>2
<1>5. IsClosureList(s)
  BY <1>2, <1>3, <1>4 DEF IsClosureList
<1>. QED
  BY <1>5 DEF s

\* pop_if leaves a list behind.
LEMMA KeptIsList ==
    ASSUME IsParenthesizer(p), Depth > 1
    PROVE  IsClosureList(WithoutLastPriority)
<1>. DEFINE last(k)  == KeptOf[k][Len(KeptOf[k])]
            good(k)  == /\ IsClosureList(KeptOf[k])
                        /\ PriorityOf(last(k)) <= PriorityOf(p.closures[k])
            T == {n \in 0..Depth : n > 0 => good(n)}
<1>1. /\ Depth \in Nat /\ p.closures \in Seq(Closures) /\ Depth = Len(p.closures)
      /\ PriorityOf(p.closures[1]) # ClosurePriority(last_closure)
  BY LastIsOperator DEF Depth
<1>2. /\ p.closures[1].front = Sentinel
      /\ \A k \in 2..Depth : /\ Operation(TypeOf(p.closures[k].front)) # "none_"
                             /\ PriorityOf(p.closures[k - 1]) <= PriorityOf(p.closures[k])
  BY <1>1 DEF IsParenthesizer, IsClosureList
<1>3. \A k \in 1..Depth : p.closures[k] \in Closures
  BY <1>1, ElementOfSeq
<1>4. \A c : PriorityOf(c) \in Nat
  BY PriorityType DEF PriorityOf
<1>5. 0 \in T
  BY <1>1
<1>6. ASSUME NEW n \in 1..Depth, n - 1 \in T PROVE n \in T
  <2>1. CASE n = 1
    <3>1. KeptOf[1] = Append(<<>>, p.closures[1])
      <4>1. KeptOf[1 - 1] = <<>> /\ 1 \in 1..Depth
        BY <1>1, KeptStep
      <4>. QED
        BY <1>1, <4>1, KeptStep DEF PriorityOf, ClosurePriority
    <3>2. KeptOf[1] = <<p.closures[1]>>
      BY <3>1
    <3>3. IsClosureList(KeptOf[1]) /\ last(1) = p.closures[1]
      BY <1>1, <1>2, <1>3, <3>2 DEF IsClosureList
    <3>. QED
      BY <1>4, <2>1, <3>3
  <2>2. CASE n > 1
    <3>1. good(n - 1) /\ n \in 2..Depth
      BY <1>1, <1>6, <2>2
    <3>. HIDE DEF Closures
    <3>2. PriorityOf(last(n - 1)) <= PriorityOf(p.closures[n])
      BY <1>2, <1>4, <3>1
    <3>3. CASE ClosurePriority(p.closures[n]) = ClosurePriority(last_closure)
      <4>1. KeptOf[n] = KeptOf[n - 1]
        BY <1>1, <3>3, KeptStep
      <4>. QED
        BY <3>1, <3>2, <4>1
    <3>4. CASE ClosurePriority(p.closures[n]) # ClosurePriority(last_closure)
      <4>1. KeptOf[n] = Append(KeptOf[n - 1], p.closures[n])
        BY <1>1, <3>4, KeptStep
      <4>2. IsClosureList(KeptOf[n])
        BY <1>2, <1>3, <3>1, <3>2, <4>1, LongerList
      <4>3. last(n) = p.closures[n]
        <5>1. KeptOf[n - 1] \in Seq(Closures) /\ p.closures[n] \in Closures
          BY <1>3, <3>1 DEF IsClosureList
        <5>. QED
          BY <4>1, <5>1, AppendProperties
      <4>. QED
        BY <1>4, <4>2, <4>3
    <3>. QED
      BY <3>3, <3>4
  <2>. QED
    BY <2>1, <2>2
<1>7. Depth \in T
  <2>. HIDE DEF T
  <2>1. 0..Depth \subseteq T
    BY <1>1, <1>5, <1>6, InductionUpTo
  <2>. QED
    BY <1>1, <2>1
<1>. QED
  BY <1>7 DEF WithoutLastPriority

\* resolve_next removes operators and leaves a list.
LEMMA ResolveKeeps ==
    ASSUME IsParenthesizer(p), Depth > 1
    PROVE  IsParenthesizer(resolve_next)
<1>1. IsClosureList(p.closures) /\ Depth = Len(p.closures)
  BY DEF IsParenthesizer, Depth
<1>2. \A n \in 1..(Depth - 1) : IsClosureList(SubSeq(p.closures, 1, Depth - n))
  <2>. TAKE n \in 1..(Depth - 1)
  <2>1. Depth - n \in 1..Len(p.closures)
    BY <1>1, LastIsOperator
  <2>. QED
    BY <1>1, <2>1, PrefixIsList
<1>3. /\ IsClosureList(SubSeq(p.closures, 1, Depth - RunLength))
      /\ IsClosureList(SubSeq(p.closures, 1, Depth - 1))
      /\ IsClosureList(WithoutLastPriority)
  BY <1>2, RunIsShort, LastIsOperator, KeptIsList
<1>4. \A output, closures : IsClosureList(closures) =>
          IsParenthesizer(Resolved(output, closures))
  BY DEF Resolved, IsParenthesizer
<1>5. /\ IsParenthesizer(resolve_prefix)
      /\ IsParenthesizer(resolve_postfix)
      /\ IsParenthesizer(resolve_binary_single)
      /\ IsParenthesizer(resolve_binary_left_associative)
      /\ IsParenthesizer(resolve_binary_right_associative)
  BY <1>3, <1>4 DEF resolve_prefix, resolve_postfix, resolve_binary_single,
     resolve_binary_left_associative, resolve_binary_right_associative
<1>6. IsParenthesizer(resolve_binary)
  BY <1>5 DEF resolve_binary
<1>7. ClosureOperation(last_closure) \in {"prefix_", "postfix_", "binary_"}
  BY LastIsOperator, OperationType DEF ClosureOperation
<1>. QED
  BY <1>5, <1>6, <1>7 DEF resolve_next

-----------------------------------------------------------------------------
(* The steps.                                                              *)

\* The parenthesizer of a new operand.
LEMMA NewIsParenthesizer ==
    ASSUME NEW head \in Nat \ {0}, NEW end \in Nat
    PROVE  IsParenthesizer(NewParenthesizer(head, end))
<1>. DEFINE cl == <<[front |-> Sentinel, back |-> Sentinel]>>
<1>1. cl \in Seq(Closures) /\ Len(cl) = 1 /\ cl[1].front = Sentinel /\ cl # <<>>
  BY DEF Closures, Sentinel
<1>. HIDE DEF cl
<1>2. IsClosureList(cl)
  BY <1>1 DEF IsClosureList
<1>. QED
  BY <1>2 DEF NewParenthesizer, IsParenthesizer, cl

\* What is said of a parenthesizer speaks of the tokens only, which stay.
LEMMA ToksKept ==
    ASSUME toks' = toks, IsParenthesizer(p'), \E S : callers' \in Seq(S),
           \A k \in 1..Len(callers') : IsParenthesizer(callers'[k])
    PROVE  ClosuresInv'
<1>1. IsParenthesizer(p)'
  BY DEF IsParenthesizer, IsClosureList, PriorityOf, TypeOf
<1>2. \A k \in 1..Len(callers') : IsParenthesizer(callers[k])'
  BY DEF IsParenthesizer, IsClosureList, PriorityOf, TypeOf
<1>. QED
  BY <1>1, <1>2 DEF ClosuresInv

\* A closure that binds tighter than the head is no sentinel.
LEMMA TighterIsOperator ==
    ASSUME ClosuresInv, MustResolve
    PROVE  Depth > 1
<1>1. IsParenthesizer(p)
  BY DEF ClosuresInv
<1>2. p.closures \in Seq(Closures) /\ Depth = Len(p.closures) /\ Depth \in Nat \ {0}
  BY <1>1 DEF IsParenthesizer, IsClosureList, Depth
<1>3. ASSUME Depth = 1 PROVE ClosurePriority(last_closure) = 0
  <2>1. last_closure = p.closures[1] /\ p.closures[1].front = Sentinel
    BY <1>1, <1>3 DEF last_closure, IsParenthesizer, IsClosureList
  <2>. QED
    BY <2>1, PriorityType DEF ClosurePriority, TypeOf
<1>4. Priority(HeadType) \in Nat /\ Priority(HeadType) < ClosurePriority(last_closure)
  BY PriorityType DEF MustResolve
<1>5. Depth # 1
  BY <1>3, <1>4
<1>6. Depth \in Nat \ {0}
  BY <1>2
<1>. QED
  BY <1>5, <1>6

\* An operator that is put out becomes a closure when no closure binds tighter.
LEMMA CheckKeeps ==
    ASSUME ClosuresInv, NEW last \in Nat, NEW expected,
           Operation(HeadType) # "none_", action_check(last, expected)
    PROVE  ClosuresInv'
<1>1. toks' = toks /\ callers' = callers
  BY DEF action_check, action_resolve, action_store
<1>2. IsParenthesizer(p)
  BY DEF ClosuresInv
<1>3. p.closures \in Seq(Closures) /\ Depth = Len(p.closures) /\ Depth \in Nat \ {0}
  BY <1>2 DEF IsParenthesizer, IsClosureList, Depth
<1>4. CASE action_resolve
  <2>1. Depth > 1
    BY <1>4, TighterIsOperator DEF action_resolve
  <2>2. IsParenthesizer(p')
    BY <1>2, <1>4, <2>1, ResolveKeeps DEF action_resolve
  <2>. QED
    BY <1>1, <2>2, ToksKept DEF ClosuresInv
<1>5. CASE action_store(last, expected)
  <2>. DEFINE c == [front |-> p.head, back |-> last]
  <2>1. c \in Closures /\ p.head \in Nat \ {0} /\ c.front = p.head
    BY <1>2 DEF Closures, IsParenthesizer
  <2>2. TypeOf(c.front) = HeadType
    BY <2>1 DEF TypeOf, HeadType, Sentinel
  <2>3. PriorityOf(p.closures[Len(p.closures)]) <= PriorityOf(c)
    <3>1. ~(Priority(HeadType) < ClosurePriority(last_closure))
      BY <1>5 DEF action_store, MustResolve
    <3>2. /\ ClosurePriority(last_closure) = PriorityOf(p.closures[Len(p.closures)])
          /\ PriorityOf(c) = Priority(HeadType)
      BY <1>3, <2>2 DEF ClosurePriority, PriorityOf, last_closure
    <3>3. Priority(HeadType) \in Nat /\ ClosurePriority(last_closure) \in Nat
      BY PriorityType DEF ClosurePriority
    <3>. QED
      BY <3>1, <3>2, <3>3
  <2>. HIDE DEF c
  <2>4. IsClosureList(Append(p.closures, c))
    <3>1. IsClosureList(p.closures)
      BY <1>2 DEF IsParenthesizer
    <3>. QED
      BY <2>1, <2>2, <2>3, <3>1, LongerList
  <2>5. /\ DOMAIN p' = DOMAIN p /\ p'.head = last + 1 /\ p'.end = p.end
        /\ p'.closures = Append(p.closures, c)
    BY <1>2, <1>5 DEF action_store, IsParenthesizer, c
  <2>6. IsParenthesizer(p')
    BY <1>2, <2>4, <2>5 DEF IsParenthesizer
  <2>. QED
    BY <1>1, <2>6, ToksKept DEF ClosuresInv
<1>. QED
  BY <1>4, <1>5 DEF action_check

\* A step that changes neither the closures nor the callers.
LEMMA HeadMovesOn ==
    ASSUME ClosuresInv, UNCHANGED <<toks, callers>>,
           DOMAIN p' = DOMAIN p, p'.end = p.end, p'.closures = p.closures,
           p'.head \in Nat \ {0}
    PROVE  ClosuresInv'
<1>1. IsParenthesizer(p')
  BY DEF ClosuresInv, IsParenthesizer
<1>. QED
  BY <1>1, ToksKept DEF ClosuresInv

\* An operand is entered: its parenthesizer is a new one.
LEMMA EnterKeeps ==
    ASSUME ClosuresInv, EnterOperand
    PROVE  ClosuresInv'
<1>1. PICK c \in ScopeCloses :
        /\ callers' = Append(callers, [p EXCEPT !.head = c + 1, !.expected = "operator_"])
        /\ p' = NewParenthesizer(p.head + 1, c)
  BY DEF EnterOperand
<1>. DEFINE caller == [p EXCEPT !.head = c + 1, !.expected = "operator_"]
<1>2. IsParenthesizer(p) /\ p.head \in Nat \ {0} /\ p.end \in Nat
  BY DEF ClosuresInv, IsParenthesizer
<1>3. c \in Nat \ {0}
  BY <1>2 DEF ScopeCloses
<1>4. IsParenthesizer(p')
  BY <1>1, <1>2, <1>3, NewIsParenthesizer
<1>5. IsParenthesizer(caller)
  BY <1>2, <1>3 DEF IsParenthesizer
<1>. HIDE DEF caller
<1>6. PICK S : callers \in Seq(S)
  BY DEF ClosuresInv
<1>7. callers \in Seq(S \cup {caller}) /\ caller \in S \cup {caller}
  <2>1. Len(callers) \in Nat /\ callers \in [1..Len(callers) -> S]
    BY <1>6, LenProperties
  <2>2. callers \in [1..Len(callers) -> S \cup {caller}]
    BY <2>1
  <2>. QED
    BY <2>1, <2>2, SeqDef
<1>8. /\ callers' \in Seq(S \cup {caller}) /\ Len(callers') = Len(callers) + 1
      /\ Len(callers) \in Nat /\ callers'[Len(callers) + 1] = caller
      /\ \A k \in 1..Len(callers) : callers'[k] = callers[k]
  BY <1>1, <1>7, AppendProperties, LenProperties DEF caller
<1>9. \A k \in 1..Len(callers') : IsParenthesizer(callers'[k])
  <2>. TAKE k \in 1..Len(callers')
  <2>1. k \in 1..Len(callers) \/ k = Len(callers) + 1
    BY <1>8
  <2>. QED
    BY <1>5, <1>8, <2>1 DEF ClosuresInv
<1>10. toks' = toks
  BY DEF EnterOperand
<1>. QED
  BY <1>4, <1>8, <1>9, <1>10, ToksKept

\* An operand is left: its caller goes on.
LEMMA LeaveKeeps ==
    ASSUME ClosuresInv, LeaveOperand
    PROVE  ClosuresInv'
<1>1. PICK S : callers \in Seq(S)
  BY DEF ClosuresInv
<1>. DEFINE n == Len(callers)
<1>2. n \in Nat \ {0}
  BY <1>1 DEF LeaveOperand
<1>3. /\ callers' = SubSeq(callers, 1, n - 1) /\ toks' = toks
      /\ p' = [callers[n] EXCEPT !.output = @ \o Tail(p.output)]
  BY DEF LeaveOperand
<1>4. IsParenthesizer(callers[n])
  BY <1>2 DEF ClosuresInv
<1>5. IsParenthesizer(p')
  BY <1>3, <1>4 DEF IsParenthesizer
<1>6. /\ callers' \in Seq(S) /\ Len(callers') = n - 1
      /\ \A k \in 1..(n - 1) : callers'[k] = callers[k]
  <2>1. \A k \in 1..(n - 1) : callers[k] \in S
    BY <1>1, <1>2, ElementOfSeq
  <2>2. /\ SubSeq(callers, 1, n - 1) \in Seq(S)
        /\ Len(SubSeq(callers, 1, n - 1)) = IF 1 <= n - 1 THEN n - 1 - 1 + 1 ELSE 0
        /\ \A k \in 1..(n - 1 - 1 + 1) : SubSeq(callers, 1, n - 1)[k] = callers[1 + k - 1]
    <3>1. 1 \in Int /\ n - 1 \in Int
      BY <1>2
    <3>. QED
      BY <2>1, <3>1, SubSeqProperties
  <2>. HIDE DEF n
  <2>. QED
    BY <1>2, <1>3, <2>2
<1>7. \A k \in 1..Len(callers') : IsParenthesizer(callers'[k])
  BY <1>2, <1>6 DEF ClosuresInv
<1>. QED
  BY <1>3, <1>5, <1>6, <1>7, ToksKept

\* ClosuresInv is inductive.
LEMMA ClosuresInvariant ==
    /\ Init => ClosuresInv
    /\ ClosuresInv /\ [Next]_vars => ClosuresInv'
<1>1. ASSUME Init PROVE ClosuresInv
  <2>1. toks \in Seq(TkTypes) /\ Len(toks) \in Nat
    BY <1>1, ExpressionsAssumption, LenProperties DEF Init
  <2>2. IsParenthesizer(p)
    BY <1>1, <2>1, NewIsParenthesizer DEF Init
  <2>3. callers = <<>> /\ callers \in Seq({})
    BY <1>1 DEF Init
  <2>. QED
    BY <2>2, <2>3 DEF ClosuresInv
<1>2. ClosuresInv /\ [Next]_vars => ClosuresInv'
  <2>. SUFFICES ASSUME ClosuresInv, [Next]_vars PROVE ClosuresInv'
    OBVIOUS
  <2>0. IsParenthesizer(p) /\ p.head \in Nat \ {0} /\ p.end \in Nat
    BY DEF ClosuresInv, IsParenthesizer
  <2>1. CASE SkipOperand
    BY <2>0, <2>1, HeadMovesOn DEF SkipOperand, IsParenthesizer
  <2>2. CASE EnterOperand
    BY <2>2, EnterKeeps
  <2>3. CASE SkipList
    BY <2>0, <2>3, HeadMovesOn DEF SkipList, IsParenthesizer
  <2>4. CASE CheckPrefix
    BY <2>0, <2>4, CheckKeeps DEF CheckPrefix
  <2>5. CASE CheckScope
    <3>1. PICK c \in ScopeCloses : action_check(c, "operator_")
      BY <2>5 DEF CheckScope
    <3>2. c \in Nat
      BY <2>0 DEF ScopeCloses
    <3>3. Operation(HeadType) # "none_"
      BY <2>5, OperationType DEF CheckScope, IsOpeningScope
    <3>. QED
      BY <3>1, <3>2, <3>3, CheckKeeps
  <2>6. CASE CheckBinary
    BY <2>0, <2>6, CheckKeeps DEF CheckBinary
  <2>7. CASE CheckPostfix
    BY <2>0, <2>7, CheckKeeps DEF CheckPostfix
  <2>8. CASE ResolveAtEnd
    <3>1. IsParenthesizer(p')
      BY <2>0, <2>8, ResolveKeeps DEF ResolveAtEnd
    <3>. QED
      BY <2>8, <3>1, ToksKept DEF ResolveAtEnd, ClosuresInv
  <2>9. CASE LeaveOperand
    BY <2>9, LeaveKeeps
  <2>10. CASE RejectHead \/ Finish \/ UNCHANGED vars
    <3>1. UNCHANGED <<toks, p, callers>>
      BY <2>10 DEF RejectHead, Throw, Finish, vars
    <3>. QED
      BY <2>0, <3>1, HeadMovesOn
  <2>. QED
    BY <2>1, <2>2, <2>3, <2>4, <2>5, <2>6, <2>7, <2>8, <2>9, <2>10 DEF Next
<1>. QED
  BY <1>1, <1>2

\* Closures wait in order of priority, in the parenthesizer that runs and in
\* every one that waits for an operand: the equals that resolve_binary takes
\* from the end of the list are all that pop_if removes from it.
THEOREM ParenthesizerClosuresInOrder == Spec => []ClosuresInOrder
<1>1. ClosuresInv => ClosuresInOrder
  <2>. SUFFICES ASSUME ClosuresInv, NEW q \in Parenthesizers
                PROVE  \A k \in 2..Len(q.closures) :
                          Priority(TypeOf(q.closures[k - 1].front))
                            <= Priority(TypeOf(q.closures[k].front))
    BY DEF ClosuresInOrder
  <2>1. IsParenthesizer(q)
    BY DEF ClosuresInv, Parenthesizers
  <2>. QED
    BY <2>1 DEF IsParenthesizer, IsClosureList, PriorityOf
<1>. QED
  BY <1>1, ClosuresInvariant, PTL DEF Spec

-----------------------------------------------------------------------------
(* Insert: marks woven into an output.                                     *)

\* FlattenSeq is the last of the sequences that one piece after the other gives.
LEMMA FlattenUnfolds ==
    ASSUME NEW ss, NEW n \in Nat \ {0}, Len(ss) = n
    PROVE  \E F : /\ F = [i \in 1..n |-> IF i = 1 THEN ss[i] ELSE F[i - 1] \o ss[i]]
                  /\ FlattenSeq(ss) = F[n]
<1>. DEFINE step(f, i) == IF i = 1 THEN ss[i] ELSE f[i - 1] \o ss[i]
            is(f, m) == f = [i \in 1..m |-> step(f, i)]
            T == {m \in 0..n : \E f : is(f, m)}
<1>1. 0 \in T
  <2>1. is([i \in 1..0 |-> <<>>], 0)
    OBVIOUS
  <2>2. \E f : is(f, 0)
    BY <2>1
  <2>. HIDE DEF is
  <2>. QED
    BY <2>2
<1>2. ASSUME NEW m \in 1..n, m - 1 \in T PROVE m \in T
  <2>1. PICK f : is(f, m - 1)
    BY <1>2
  <2>. DEFINE g == [i \in 1..m |-> step(f, i)]
  <2>2. \A i \in 1..(m - 1) : f[i] = g[i]
    <3>. HIDE DEF step
    <3>. QED
      BY <2>1
  <2>3. \A i \in 1..m : step(f, i) = step(g, i)
    <3>. TAKE i \in 1..m
    <3>1. i # 1 => i - 1 \in 1..(m - 1)
      OBVIOUS
    <3>. HIDE DEF g
    <3>. QED
      BY <2>2, <3>1
  <2>4. is(g, m)
    <3>. HIDE DEF step
    <3>. QED
      BY <2>3
  <2>5. \E h : is(h, m)
    BY <2>4
  <2>. HIDE DEF is
  <2>. QED
    BY <2>5
<1>3. \E f : is(f, n)
  <2>1. n \in T
    <3>. HIDE DEF T
    <3>1. 0..n \subseteq T
      BY <1>1, <1>2, InductionUpTo
    <3>. QED
      BY <3>1
  <2>. QED
    BY <2>1
<1>. DEFINE F == CHOOSE f : is(f, n)
<1>4. is(F, n)
  BY <1>3
<1>5. FlattenSeq(ss) = F[n]
  BY DEF FlattenSeq
<1>. HIDE DEF F
<1>. QED
  BY <1>4, <1>5

\* The parentheses inserted.
Marks == {OpenParen, CloseParen}

\* A sequence that holds the first n of s and marks: the k-th of s at f[k].
IsWoven(s, n, f, out) ==
    /\ \A k \in 1..n : f[k] \in 1..Len(out) /\ out[f[k]] = s[k]
    /\ \A j, k \in 1..n : j < k => f[j] < f[k]
    /\ \A i \in 1..Len(out) : out[i] \in Marks \/ \E k \in 1..n : i = f[k]

\* One token with its marks.
\* A token x at place n, with marks around it.
IsPiece(x, n, piece) ==
    /\ piece \in Seq(Int) /\ n \in 1..Len(piece) /\ piece[n] = x
    /\ \A i \in 1..Len(piece) : i # n => piece[i] \in Marks

\* Marks are numbers, as tokens are.
LEMMA MarksAreNumbers == Marks \subseteq Int /\ Seq(Marks) \subseteq Seq(Int)
<1>1. Marks \subseteq Int
  BY DEF Marks, OpenParen, CloseParen
<1>. QED
  BY <1>1, SeqMonotonic

\* What stands for one token: marks, the token, marks.
LEMMA PieceProperties ==
    ASSUME NEW x \in Int, NEW b \in Seq(Marks), NEW a \in Seq(Marks)
    PROVE  LET piece == b \o <<x>> \o a
           IN  /\ Len(b) \in Nat /\ Len(a) \in Nat /\ Len(piece) = Len(b) + 1 + Len(a)
               /\ IsPiece(x, Len(b) + 1, piece)
<1>. DEFINE h == b \o <<x>>
<1>1. b \in Seq(Int) /\ a \in Seq(Int) /\ <<x>> \in Seq(Int) /\ Len(<<x>>) = 1
  BY MarksAreNumbers
<1>2. Len(b) \in Nat /\ Len(a) \in Nat
  BY LenProperties
<1>3. /\ h \in Seq(Int) /\ Len(h) = Len(b) + 1
      /\ \A i \in 1..(Len(b) + 1) : h[i] = IF i <= Len(b) THEN b[i] ELSE <<x>>[i - Len(b)]
  BY <1>1, ConcatProperties
<1>4. \A i \in 1..Len(b) : h[i] \in Marks
  BY <1>2, <1>3, ElementOfSeq
<1>5. h[Len(b) + 1] = x
  BY <1>2, <1>3
<1>. HIDE DEF h
<1>6. /\ h \o a \in Seq(Int) /\ Len(h \o a) = Len(h) + Len(a)
      /\ \A i \in 1..(Len(h) + Len(a)) : (h \o a)[i] = IF i <= Len(h) THEN h[i] ELSE a[i - Len(h)]
  <2>1. h \in Seq(Int) /\ a \in Seq(Int)
    BY <1>1, <1>3
  <2>. QED
    BY <2>1, ConcatProperties
<1>7. \A i \in 1..Len(h \o a) : i # Len(b) + 1 => (h \o a)[i] \in Marks
  <2>. TAKE i \in 1..Len(h \o a)
  <2>1. CASE i <= Len(b)
    BY <1>2, <1>3, <1>4, <1>6, <2>1
  <2>2. CASE i > Len(b) + 1
    <3>1. i - Len(h) \in 1..Len(a) /\ ~(i <= Len(h)) /\ i \in 1..(Len(h) + Len(a))
      BY <1>2, <1>3, <1>6, <2>2
    <3>2. a[i - Len(h)] \in Marks
      BY <3>1, ElementOfSeq
    <3>. QED
      BY <1>6, <3>1, <3>2
  <2>. QED
    BY <1>2, <2>1, <2>2
<1>8. (h \o a)[Len(b) + 1] = x
  <2>1. Len(b) + 1 \in 1..(Len(h) + Len(a)) /\ Len(b) + 1 <= Len(h)
    BY <1>2, <1>3
  <2>. QED
    BY <1>5, <1>6, <2>1
<1>9. Len(b) + 1 \in 1..Len(h \o a)
  BY <1>2, <1>3, <1>6
<1>. QED
  BY <1>2, <1>3, <1>6, <1>7, <1>8, <1>9 DEF h, IsPiece

\* Places in a sequence of two parts, the first of them le long.
LEMMA PlacesOfParts ==
    ASSUME NEW le \in Nat, NEW lp \in Nat
    PROVE  /\ \A i \in Int : i - le \in 1..lp <=> i \in 1..(le + lp) /\ i > le
           /\ \A i \in Int : i > le <=> ~(i <= le)
           /\ \A i \in 1..le : i \in 1..(le + lp) /\ i <= le
           /\ \A i, j \in Int : i # j => i - le # j - le
           /\ \A i \in 1..le, j \in Int : j > le => i < j
OBVIOUS

\* One more token, with marks around it, at the end.
LEMMA WovenLonger ==
    ASSUME NEW s \in Seq(Int), NEW f, NEW m \in 1..Len(s), NEW e \in Seq(Int), NEW piece,
           IsWoven(s, m - 1, f, e), IsPiece(s[m], f[m] - Len(e), piece), f[m] \in Int
    PROVE  IsWoven(s, m, f, e \o piece)
<1>1. Len(e) \in Nat /\ Len(s) \in Nat /\ Len(piece) \in Nat
  BY LenProperties DEF IsPiece
<1>. PICK z : z = f[m] /\ z \in Int
  OBVIOUS
<1>2. PICK g : g = e \o piece
  OBVIOUS
<1>3. \A k \in 1..(m - 1) : f[k] \in 1..Len(e) /\ e[f[k]] = s[k]
  BY DEF IsWoven
<1>4. /\ g \in Seq(Int) /\ Len(g) = Len(e) + Len(piece)
      /\ \A i \in 1..(Len(e) + Len(piece)) :
            g[i] = IF i <= Len(e) THEN e[i] ELSE piece[i - Len(e)]
  <2>1. e \in Seq(Int) /\ piece \in Seq(Int)
    BY DEF IsPiece
  <2>2. /\ e \o piece \in Seq(Int) /\ Len(e \o piece) = Len(e) + Len(piece)
        /\ \A i \in 1..(Len(e) + Len(piece)) :
              (e \o piece)[i] = IF i <= Len(e) THEN e[i] ELSE piece[i - Len(e)]
    BY <2>1, ConcatProperties
  <2>. QED
    BY <1>2, <2>2
<1>0. Len(g) = Len(e) + Len(piece)
  BY <1>4
<1>5. f[m] \in 1..Len(g) /\ g[f[m]] = s[m]
  <2>1. z - Len(e) \in 1..Len(piece) /\ piece[z - Len(e)] = s[m]
    BY DEF IsPiece
  <2>2. z \in 1..(Len(e) + Len(piece)) /\ ~(z <= Len(e))
    BY <1>1, <2>1
  <2>. QED
    BY <1>4, <2>1, <2>2
<1>6. \A k \in 1..(m - 1) : f[k] \in 1..Len(g) /\ g[f[k]] = s[k] /\ f[k] < z
  <2>. TAKE k \in 1..(m - 1)
  <2>1. f[k] \in 1..Len(e) /\ e[f[k]] = s[k] /\ z - Len(e) \in 1..Len(piece)
    BY <1>3 DEF IsPiece
  <2>2. /\ f[k] \in 1..Len(g) /\ f[k] <= Len(e) /\ f[k] < z
        /\ f[k] \in 1..(Len(e) + Len(piece))
    <3>1. z > Len(e)
      BY <1>1, <2>1, PlacesOfParts
    <3>. QED
      BY <1>0, <1>1, <2>1, <3>1, PlacesOfParts
  <2>. QED
    BY <1>4, <2>1, <2>2
<1>7. \A i \in 1..Len(g) : g[i] \in Marks \/ \E k \in 1..m : i = f[k]
  <2>. TAKE i \in 1..Len(g)
  <2>1. CASE i <= Len(e)
    <3>1. i \in 1..Len(e) /\ i \in 1..(Len(e) + Len(piece))
      BY <1>1, <1>4, <2>1
    <3>2. g[i] = e[i]
      BY <1>4, <2>1, <3>1
    <3>3. \A k \in 1..(m - 1) : k \in 1..m
      BY <1>1
    <3>. QED
      BY <3>1, <3>2, <3>3 DEF IsWoven
  <2>2. CASE i > Len(e)
    <3>1. /\ i - Len(e) \in 1..Len(piece) /\ i \in 1..(Len(e) + Len(piece)) /\ ~(i <= Len(e))
          /\ i # z => i - Len(e) # z - Len(e)
      <4>1. i \in 1..(Len(e) + Len(piece)) /\ i > Len(e)
        BY <1>0, <2>2
      <4>. QED
        BY <1>1, <4>1, PlacesOfParts
    <3>2. g[i] = piece[i - Len(e)]
      BY <1>4, <3>1
    <3>3. i # z => g[i] \in Marks
      BY <3>1, <3>2 DEF IsPiece
    <3>4. m \in 1..m
      BY <1>1
    <3>. QED
      BY <3>3, <3>4
  <2>3. i <= Len(e) \/ i > Len(e)
    BY <1>1, <1>4
  <2>. QED
    BY <2>1, <2>2, <2>3
<1>8. \A k \in 1..m : k \in 1..(m - 1) \/ k = m
  BY <1>1
<1>9. \A j, k \in 1..m : j < k => f[j] < f[k]
  <2>. SUFFICES ASSUME NEW j \in 1..m, NEW k \in 1..m, j < k PROVE f[j] < f[k]
    OBVIOUS
  <2>1. j \in 1..(m - 1)
    BY <1>1
  <2>2. CASE k = m
    BY <1>6, <2>1, <2>2
  <2>3. CASE k \in 1..(m - 1)
    BY <2>1, <2>3 DEF IsWoven
  <2>. QED
    BY <1>8, <2>2, <2>3
<1>10. \A k \in 1..m : f[k] \in 1..Len(g) /\ g[f[k]] = s[k]
  BY <1>5, <1>6, <1>8
<1>. QED
  BY <1>2, <1>7, <1>9, <1>10 DEF IsWoven

\* The pieces of s, each token with its marks b in front and a behind it.
Weave(s, b, a) == FlattenSeq([k \in 1..Len(s) |-> b[k] \o <<s[k]>> \o a[k]])

\* b and a have the marks before and after each element of s, t those at the end.
IsMarking(s, b, a, t) ==
    t \in Seq(Marks) /\ \A k \in 1..Len(s) : b[k] \in Seq(Marks) /\ a[k] \in Seq(Marks)

\* With marks behind them: s woven into marks, and two tokens without a mark
\* between them stay neighbours.
LEMMA FlattenWeaves ==
    ASSUME NEW s \in Seq(Int), s # <<>>, NEW b, NEW a, NEW t, IsMarking(s, b, a, t)
    PROVE  /\ Weave(s, b, a) \in Seq(Int) /\ Weave(s, b, a) \o t \in Seq(Int)
           /\ \E f : /\ IsWoven(s, Len(s), f, Weave(s, b, a) \o t)
                     /\ b[1] = <<>> => f[1] = 1
                     /\ \A k \in 1..(Len(s) - 1) :
                           a[k] = <<>> /\ b[k + 1] = <<>> => f[k + 1] = f[k] + 1
<1>. PICK n \in Nat \ {0} : Len(s) = n
  BY EmptySeq
<1>0. t \in Seq(Marks) /\ \A k \in 1..n : b[k] \in Seq(Marks) /\ a[k] \in Seq(Marks)
  BY DEF IsMarking
<1>. DEFINE ss == [k \in 1..n |-> b[k] \o <<s[k]>> \o a[k]]
<1>1. Len(ss) = n
  OBVIOUS
<1>2. PICK F : /\ F = [i \in 1..n |-> IF i = 1 THEN ss[i] ELSE F[i - 1] \o ss[i]]
               /\ FlattenSeq(ss) = F[n]
  <2>. HIDE DEF ss
  <2>. QED
    BY <1>1, FlattenUnfolds
<1>. DEFINE E == [i \in 0..n |-> IF i = 0 THEN <<>> ELSE F[i]]
            f == [k \in 1..n |-> Len(E[k - 1]) + Len(b[k]) + 1]
            good(m) == /\ E[m] \in Seq(Int)
                       /\ m > 0 => Len(E[m]) = f[m] + Len(a[m])
                       /\ IsWoven(s, m, f, E[m])
            T == {m \in 0..n : good(m)}
<1>3. \A k \in 1..n :
         /\ ss[k] \in Seq(Int) /\ ss[k] = b[k] \o <<s[k]>> \o a[k]
         /\ IsPiece(s[k], Len(b[k]) + 1, ss[k])
         /\ Len(b[k]) \in Nat /\ Len(a[k]) \in Nat /\ Len(ss[k]) = Len(b[k]) + 1 + Len(a[k])
  <2>. TAKE k \in 1..n
  <2>1. s[k] \in Int /\ b[k] \in Seq(Marks) /\ a[k] \in Seq(Marks)
    BY <1>0, ElementOfSeq
  <2>2. ss[k] = b[k] \o <<s[k]>> \o a[k]
    OBVIOUS
  <2>. HIDE DEF ss
  <2>. QED
    <3>1. \A x \in Int, u, v \in Seq(Marks) : LET piece == u \o <<x>> \o v
           IN  /\ Len(u) \in Nat /\ Len(v) \in Nat /\ Len(piece) = Len(u) + 1 + Len(v)
               /\ IsPiece(x, Len(u) + 1, piece)
      BY PieceProperties
    <3>2. /\ Len(b[k]) \in Nat /\ Len(a[k]) \in Nat /\ Len(ss[k]) = Len(b[k]) + 1 + Len(a[k])
          /\ IsPiece(s[k], Len(b[k]) + 1, ss[k])
      BY <2>1, <2>2, <3>1
    <3>. QED
      BY <2>2, <3>2 DEF IsPiece
<1>. HIDE DEF ss
<1>4. E[0] = <<>> /\ E[n] = F[n]
  OBVIOUS
<1>5. \A m \in 1..n : E[m] = E[m - 1] \o ss[m]
  <2>. TAKE m \in 1..n
  <2>1. CASE m = 1
    <3>1. E[m] = ss[1] /\ E[m - 1] = <<>> /\ ss[1] \in Seq(Int)
      <4>1. F[1] = ss[1] /\ ss[1] \in Seq(Int)
        BY <1>2, <1>3, <2>1
      <4>. QED
        BY <2>1, <4>1
    <3>2. <<>> \o ss[1] = ss[1]
      BY <3>1, ConcatEmptySeq
    <3>. QED
      BY <2>1, <3>1, <3>2
  <2>2. CASE m # 1
    <3>1. E[m] = F[m] /\ E[m - 1] = F[m - 1]
      BY <2>2
    <3>2. F[m] = F[m - 1] \o ss[m]
      BY <1>2, <2>2
    <3>. QED
      BY <3>1, <3>2
  <2>. QED
    BY <2>1, <2>2
<1>. HIDE DEF E
<1>6. \A k \in 1..n : f[k] = Len(E[k - 1]) + Len(b[k]) + 1
  OBVIOUS
<1>. HIDE DEF f
<1>7. 0 \in T
  <2>1. E[0] \in Seq(Int) /\ Len(E[0]) = 0
    BY <1>4
  <2>2. good(0) /\ 0 \in 0..n
    BY <2>1 DEF IsWoven
  <2>. QED
    BY <2>2
<1>8. ASSUME NEW m \in 1..n, m - 1 \in T PROVE m \in T
  <2>1. E[m - 1] \in Seq(Int) /\ IsWoven(s, m - 1, f, E[m - 1]) /\ m \in 1..Len(s)
    BY <1>8
  <2>2. Len(E[m - 1]) \in Nat
    BY <2>1, LenProperties
  <2>3. /\ ss[m] \in Seq(Int) /\ IsPiece(s[m], Len(b[m]) + 1, ss[m])
        /\ Len(b[m]) \in Nat /\ Len(a[m]) \in Nat /\ Len(ss[m]) = Len(b[m]) + 1 + Len(a[m])
    BY <1>3
  <2>4. f[m] \in Int /\ f[m] - Len(E[m - 1]) = Len(b[m]) + 1
    <3>1. f[m] = Len(E[m - 1]) + Len(b[m]) + 1
      BY <1>6
    <3>2. \A i, j \in Nat : \A z : z = i + j + 1 => z \in Int /\ z - i = j + 1
      OBVIOUS
    <3>. QED
      BY <2>2, <2>3, <3>1, <3>2, Zenon
  <2>5. IsWoven(s, m, f, E[m - 1] \o ss[m])
    BY <2>1, <2>3, <2>4, WovenLonger
  <2>6. /\ E[m - 1] \o ss[m] \in Seq(Int)
        /\ Len(E[m - 1] \o ss[m]) = Len(E[m - 1]) + Len(ss[m])
    BY <2>1, <2>3, ConcatProperties
  <2>7. /\ E[m] \in Seq(Int) /\ Len(E[m]) = f[m] + Len(a[m])
        /\ IsWoven(s, m, f, E[m])
    <3>1. E[m] = E[m - 1] \o ss[m]
      BY <1>5
    <3>2. Len(E[m]) = f[m] + Len(a[m])
      <4>1. \A z \in Int : \A i, j, k \in Nat : z - i = j + 1 => i + (j + 1 + k) = z + k
        OBVIOUS
      <4>2. Len(E[m]) = Len(E[m - 1]) + (Len(b[m]) + 1 + Len(a[m]))
        BY <2>3, <2>6, <3>1
      <4>3. Len(E[m - 1]) + (Len(b[m]) + 1 + Len(a[m])) = f[m] + Len(a[m])
        <5>1. Len(b[m]) \in Nat /\ Len(a[m]) \in Nat
          BY <2>3
        <5>2. \A i, j, k \in Nat : f[m] - i = j + 1 => i + (j + 1 + k) = f[m] + k
          BY <2>4, <4>1, Zenon
        <5>. QED
          BY <2>2, <2>4, <5>1, <5>2, Zenon
      <4>. QED
        BY <4>2, <4>3, Zenon
    <3>. QED
      BY <2>5, <2>6, <3>1, <3>2
  <2>. QED
    BY <2>7
<1>9. 0..n \subseteq T
  <2>. HIDE DEF T
  <2>. QED
    BY <1>7, <1>8, InductionUpTo
<1>10. \A m \in 0..n : good(m)
  BY <1>9
<1>. DEFINE out == E[n] \o t
<1>11. /\ out \in Seq(Int) /\ Len(out) = Len(E[n]) + Len(t)
       /\ Len(E[n]) \in Nat /\ Len(t) \in Nat
       /\ \A i \in 1..(Len(E[n]) + Len(t)) :
             out[i] = IF i <= Len(E[n]) THEN E[n][i] ELSE t[i - Len(E[n])]
  <2>1. E[n] \in Seq(Int) /\ t \in Seq(Int)
    BY <1>0, <1>10, MarksAreNumbers
  <2>2. Len(E[n]) \in Nat /\ Len(t) \in Nat
    BY <2>1, LenProperties
  <2>. QED
    BY <2>1, <2>2, ConcatProperties
<1>12. Weave(s, b, a) = E[n] /\ out = E[n] \o t
  BY <1>2, <1>4 DEF ss, Weave
<1>16. E[n] \in Seq(Int)
  BY <1>10
<1>. HIDE DEF out
<1>13. IsWoven(s, n, f, out)
  <2>1. good(n)
    <3>1. n \in 0..n
      OBVIOUS
    <3>. HIDE DEF good
    <3>. QED
      BY <1>10, <3>1
  <2>2. \A k \in 1..n : f[k] \in 1..Len(out) /\ out[f[k]] = s[k]
    <3>. TAKE k \in 1..n
    <3>1. f[k] \in 1..Len(E[n]) /\ E[n][f[k]] = s[k]
      BY <2>1 DEF IsWoven
    <3>2. f[k] \in 1..(Len(E[n]) + Len(t)) /\ f[k] <= Len(E[n])
      BY <1>11, <3>1
    <3>. QED
      BY <1>11, <3>1, <3>2
  <2>3. \A m \in 1..Len(out) : out[m] \in Marks \/ \E k \in 1..n : m = f[k]
    <3>. TAKE m \in 1..Len(out)
    <3>1. CASE m <= Len(E[n])
      <4>1. m \in 1..Len(E[n]) /\ m \in 1..(Len(E[n]) + Len(t))
        BY <1>11, <3>1
      <4>2. out[m] = E[n][m]
        BY <1>11, <3>1, <4>1
      <4>. QED
        BY <2>1, <4>1, <4>2 DEF IsWoven
    <3>2. CASE m > Len(E[n])
      <4>1. m - Len(E[n]) \in 1..Len(t) /\ ~(m <= Len(E[n])) /\ m \in 1..(Len(E[n]) + Len(t))
        BY <1>11, <3>2
      <4>2. out[m] = t[m - Len(E[n])]
        BY <1>11, <4>1
      <4>. QED
        BY <1>0, <4>1, <4>2, ElementOfSeq
    <3>. QED
      BY <1>11, <3>1, <3>2
  <2>. QED
    BY <2>1, <2>2, <2>3 DEF IsWoven
<1>14. b[1] = <<>> => f[1] = 1
  <2>1. 1 \in 1..n /\ 1 - 1 = 0 /\ Len(<<>>) = 0
    OBVIOUS
  <2>2. f[1] = Len(E[0]) + Len(b[1]) + 1
    BY <1>6, <2>1
  <2>. QED
    BY <1>4, <2>1, <2>2
<1>15. ASSUME NEW k \in 1..(n - 1), a[k] = <<>>, b[k + 1] = <<>> PROVE f[k + 1] = f[k] + 1
  <2>1. k \in 1..n /\ k + 1 \in 1..n /\ (k + 1) - 1 = k /\ k > 0 /\ k \in 0..n
    OBVIOUS
  <2>2. f[k + 1] = Len(E[k]) + Len(b[k + 1]) + 1
    BY <1>6, <2>1
  <2>3. Len(E[k]) = f[k] + Len(a[k])
    BY <1>10, <2>1
  <2>4. f[k] \in Nat
    <3>1. E[k] \in Seq(Int) /\ f[k] \in 1..Len(E[k])
      BY <1>10, <2>1 DEF IsWoven
    <3>. QED
      BY <3>1
  <2>5. Len(a[k]) = 0 /\ Len(b[k + 1]) = 0
    BY <1>15
  <2>. QED
    BY <2>2, <2>3, <2>4, <2>5
<1>. QED
  BY <1>11, <1>12, <1>13, <1>14, <1>15, <1>16

-----------------------------------------------------------------------------
(* Where the parenthesizers are in the text, and what they have put out.   *)

\* Every scope opened in front of h is closed in front of h, but for the
\* parentheses of the operands that the head is in, which close at e or later.
Passed(h, e) ==
    \A k \in 1..(h - 1) : \A c \in ClosedBy(k) :
        c < h \/ (k \in OperandParens /\ c >= e)

\* What is expected follows from the token in front; a list is read where an
\* operand is expected and put out where an operator is.
AsExpected(q) ==
    /\ q.expected = "operative_" =>
          q.head = 1 \/ ~EndsOperand(toks[q.head - 1])
    /\ q.expected = "operator_" /\ q.head < q.end =>
          \/ toks[q.head] = "open_brace_"
          \/ q.head > 1 /\ EndsOperand(toks[q.head - 1])

\* A caller waits behind the parenthesis at e, which closes its operand.
Waits(q, e) ==
    /\ q.head = e + 1 /\ q.expected = "operator_"
    /\ \E k \in OperandParens : e \in ClosedBy(k) /\ Passed(k, q.end)

\* Where the parenthesizers fs, innermost last, are in the text.
AreReading(fs) ==
    LET n == Len(fs)
    IN  /\ \A i \in 1..n : /\ fs[i].end \in 1..(Len(toks) + 1)
                           /\ fs[i].head \in 1..fs[i].end
                           /\ fs[i].expected \in {"operative_", "operator_"}
        /\ Passed(fs[n].head, fs[n].end) /\ AsExpected(fs[n])
        /\ \A i \in 1..(n - 1) : Waits(fs[i], fs[i + 1].end)

\* An output starts with the sentinel.
IsOutput(output) ==
    /\ output \in Seq(CloseParen..Len(toks)) /\ output # <<>>
    /\ output[1] = Sentinel
    /\ IsInOrder(output)

\* What they have put out: the text in front of the head.
HaveWritten(fs) ==
    LET n == Len(fs)
    IN  /\ \A i \in 1..n : IsOutput(fs[i].output)
        /\ \A i, j \in 1..n : i < j =>
              \A x \in TokensOf(fs[i].output), y \in TokensOf(fs[j].output) : x < y
        /\ UNION {TokensOf(fs[i].output) : i \in 1..n}
             = (1..(fs[n].head - 1)) \ OperandBrackets

\* A closure in front of h that neither starts nor ends inside of a call.
IsWhole(c, h) ==
    /\ {c.front, c.back} \subseteq 0..(h - 1)
    /\ {c.front - 1, c.back} \cap Inner(h) = {}

\* They have split no call, and will not at any closure.
HaveSplitNone(fs) ==
    LET h == fs[Len(fs)].head
    IN  /\ \A i \in 1..Len(fs) : \A k \in 1..Len(fs[i].closures) :
              IsWhole(fs[i].closures[k], h)
        /\ \A x \in Inner(h) : \E i \in 1..Len(fs) : AreNeighbours(x, fs[i].output)

\* A sequence with its elements in a set is one over that set.
LEMMA SeqOver ==
    ASSUME NEW S, NEW s \in Seq(S), NEW T, \A i \in 1..Len(s) : s[i] \in T
    PROVE  s \in Seq(T)
<1>1. Len(s) \in Nat /\ s \in [1..Len(s) -> S]
  BY LenProperties
<1>2. s \in [1..Len(s) -> T]
  BY <1>1
<1>. QED
  BY <1>1, <1>2, SeqDef

\* Tokens are no marks.
LEMMA TokensAndMarks ==
    ASSUME NEW out
    PROVE  /\ \A i \in 1..Len(out) : out[i] \in Marks => out[i] \notin TokensOf(out)
           /\ \A x : x \in TokensOf(out) <=>
                 /\ \E i \in 1..Len(out) : out[i] = x
                 /\ x # Sentinel /\ x \notin Marks
BY DEF TokensOf, Marks

\* Marks woven into an output, with none in front of the sentinel, leave it an
\* output of the same tokens.
LEMMA WovenIsOutput ==
    ASSUME toks \in Seq(TkTypes),
           NEW s, IsOutput(s), NEW out \in Seq(Int), NEW f,
           IsWoven(s, Len(s), f, out), f[1] = 1
    PROVE  IsOutput(out) /\ TokensOf(out) = TokensOf(s)
<1>. DEFINE n == Len(s)
<1>1. /\ n \in Nat \ {0} /\ s \in Seq(CloseParen..Len(toks)) /\ s[1] = Sentinel
      /\ Len(toks) \in Nat
  BY EmptySeq, LenProperties DEF IsOutput
<1>2. Len(out) \in Nat
  BY LenProperties
<1>3. /\ \A k \in 1..n : f[k] \in 1..Len(out) /\ out[f[k]] = s[k]
      /\ \A j, k \in 1..n : j < k => f[j] < f[k]
      /\ \A i \in 1..Len(out) : out[i] \in Marks \/ \E k \in 1..n : i = f[k]
  BY DEF IsWoven
<1>. HIDE DEF n
<1>4. \A x : x \in TokensOf(out) <=> x \in TokensOf(s)
  <2>. TAKE x
  <2>1. ASSUME x \in TokensOf(out) PROVE x \in TokensOf(s)
    <3>1. PICK i \in 1..Len(out) : out[i] = x /\ x # Sentinel /\ x \notin Marks
      BY <2>1, TokensAndMarks
    <3>2. PICK k \in 1..n : i = f[k]
      BY <1>3, <3>1
    <3>3. s[k] = x
      BY <1>3, <3>1, <3>2
    <3>. QED
      BY <3>1, <3>3, TokensAndMarks DEF n
  <2>2. ASSUME x \in TokensOf(s) PROVE x \in TokensOf(out)
    <3>1. PICK k \in 1..n : s[k] = x /\ x # Sentinel /\ x \notin Marks
      BY <2>2, TokensAndMarks DEF n
    <3>2. f[k] \in 1..Len(out) /\ out[f[k]] = x
      BY <1>3, <3>1
    <3>. QED
      BY <3>1, <3>2, TokensAndMarks
  <2>. QED
    BY <2>1, <2>2
<1>5. TokensOf(out) = TokensOf(s)
  BY <1>4
<1>6. IsInOrder(out)
  <2>. SUFFICES ASSUME NEW m \in 1..Len(out), NEW k \in 1..Len(out), m < k,
                       out[m] \in TokensOf(out), out[k] \in TokensOf(out)
                PROVE  out[m] < out[k]
    BY DEF IsInOrder
  <2>1. PICK i \in 1..n : m = f[i]
    BY <1>3, TokensAndMarks
  <2>2. PICK j \in 1..n : k = f[j]
    BY <1>3, TokensAndMarks
  <2>3. i < j
    <3>1. i # j
      BY <2>1, <2>2
    <3>2. ~(j < i)
      <4>1. ASSUME j < i PROVE FALSE
        <5>1. k < m
          BY <1>3, <2>1, <2>2, <4>1
        <5>. QED
          BY <1>2, <5>1
      <4>. QED
        BY <4>1
    <3>. QED
      BY <1>1, <3>1, <3>2
  <2>4. s[i] = out[m] /\ s[j] = out[k] /\ IsInOrder(s)
    BY <1>3, <2>1, <2>2 DEF IsOutput
  <2>. QED
    BY <1>5, <2>3, <2>4 DEF IsInOrder, n
<1>7. out # <<>> /\ out[1] = Sentinel
  <2>1. 1 \in 1..n
    BY <1>1
  <2>2. 1 \in 1..Len(out) /\ out[1] = s[1]
    BY <1>3, <2>1
  <2>. QED
    BY <1>1, <2>2, EmptySeq
<1>8. out \in Seq(CloseParen..Len(toks))
  <2>1. \A i \in 1..Len(out) : out[i] \in CloseParen..Len(toks)
    <3>. TAKE i \in 1..Len(out)
    <3>1. CASE out[i] \in Marks
      BY <1>1, <3>1 DEF Marks, OpenParen, CloseParen
    <3>2. CASE \E k \in 1..n : i = f[k]
      <4>1. PICK k \in 1..n : i = f[k]
        BY <3>2
      <4>2. s[k] \in CloseParen..Len(toks)
        BY <1>1, ElementOfSeq DEF n
      <4>. QED
        BY <1>3, <4>1, <4>2
    <3>. QED
      BY <1>3, <3>1, <3>2
  <2>. QED
    BY <2>1, SeqOver
<1>. QED
  BY <1>5, <1>6, <1>7, <1>8 DEF IsOutput

\* What Insert gives, with marks t behind it.
LEMMA InsertKeeps ==
    ASSUME toks \in Seq(TkTypes), NEW s, IsOutput(s),
           NEW b, NEW a, NEW t, IsMarking(s, b, a, t), b[1] = <<>>
    PROVE  LET out == Weave(s, b, a) \o t
           IN  /\ Weave(s, b, a) \in Seq(Int)
               /\ IsOutput(out) /\ TokensOf(out) = TokensOf(s)
               /\ \A k \in 1..(Len(s) - 1) :
                     a[k] = <<>> /\ b[k + 1] = <<>> /\ s[k + 1] = s[k] + 1
                        => AreNeighbours(s[k], out)
<1>1. /\ s \in Seq(Int) /\ s # <<>> /\ Len(s) \in Nat \ {0}
  <2>1. s \in Seq(CloseParen..Len(toks)) /\ s # <<>> /\ Len(toks) \in Nat
    BY LenProperties DEF IsOutput
  <2>2. CloseParen..Len(toks) \subseteq Int
    BY DEF CloseParen
  <2>. QED
    BY <2>1, <2>2, EmptySeq, SeqMonotonic
<1>. DEFINE out == Weave(s, b, a) \o t
<1>2. /\ Weave(s, b, a) \in Seq(Int) /\ out \in Seq(Int)
      /\ \E f : /\ IsWoven(s, Len(s), f, out)
                /\ b[1] = <<>> => f[1] = 1
                /\ \A k \in 1..(Len(s) - 1) :
                      a[k] = <<>> /\ b[k + 1] = <<>> => f[k + 1] = f[k] + 1
  BY <1>1, FlattenWeaves
<1>3. PICK f : /\ IsWoven(s, Len(s), f, out) /\ f[1] = 1
               /\ \A k \in 1..(Len(s) - 1) :
                     a[k] = <<>> /\ b[k + 1] = <<>> => f[k + 1] = f[k] + 1
  BY <1>2
<1>. HIDE DEF out
<1>4. IsOutput(out) /\ TokensOf(out) = TokensOf(s)
  BY <1>2, <1>3, WovenIsOutput
<1>5. ASSUME NEW k \in 1..(Len(s) - 1), a[k] = <<>>, b[k + 1] = <<>>, s[k + 1] = s[k] + 1
      PROVE  AreNeighbours(s[k], out)
  <2>1. k \in 1..Len(s) /\ k + 1 \in 1..Len(s) /\ f[k + 1] = f[k] + 1
    BY <1>1, <1>3, <1>5
  <2>2. /\ f[k] \in 1..Len(out) /\ out[f[k]] = s[k]
        /\ f[k + 1] \in 1..Len(out) /\ out[f[k + 1]] = s[k + 1]
    BY <1>3, <2>1 DEF IsWoven
  <2>3. f[k] \in 1..(Len(out) - 1) /\ out[f[k] + 1] = s[k] + 1
    <3>1. Len(out) \in Nat
      BY <1>2, LenProperties
    <3>2. \A l \in Nat : \A i, j \in 1..l : j = i + 1 => i \in 1..(l - 1)
      OBVIOUS
    <3>3. f[k] \in 1..(Len(out) - 1)
      <4>1. f[k] \in 1..Len(out) /\ f[k + 1] \in 1..Len(out) /\ f[k + 1] = f[k] + 1
        BY <2>1, <2>2
      <4>2. \A i, j \in 1..Len(out) : j = i + 1 => i \in 1..(Len(out) - 1)
        BY <3>1, <3>2, Zenon
      <4>. QED
        BY <4>1, <4>2, Zenon
    <3>. QED
      BY <1>5, <2>1, <2>2, <3>3
  <2>. QED
    BY <2>2, <2>3 DEF AreNeighbours
<1>. QED
  BY <1>2, <1>4, <1>5 DEF out

-----------------------------------------------------------------------------
(* Resolving rewrites the output.                                          *)

\* The marks b and a of an output stand where closures start and end.
AreAtClosures(b, a) ==
    \A k \in 1..Len(p.output) :
        /\ b[k] # <<>> => \E i \in 2..Depth : p.output[k] = p.closures[i].front
        /\ a[k] # <<>> => \E i \in 1..Depth : p.output[k] = p.closures[i].back

\* The same tokens, those apart only that a closure separates.
IsRewriting(out) ==
    /\ IsOutput(out) /\ TokensOf(out) = TokensOf(p.output)
    /\ \A x : AreNeighbours(x, p.output)
              /\ (\A i \in 1..Depth : p.closures[i].front # x + 1 /\ p.closures[i].back # x)
                 => AreNeighbours(x, out)

\* The parenthesizer has something to resolve.
CanResolve ==
    toks \in Seq(TkTypes) /\ IsParenthesizer(p) /\ Depth > 1 /\ IsOutput(p.output)

\* Marks at closures only make a rewriting of the output.
LEMMA MarkingRewrites ==
    ASSUME CanResolve, NEW b, NEW a, NEW t,
           IsMarking(p.output, b, a, t), AreAtClosures(b, a)
    PROVE  Weave(p.output, b, a) \in Seq(Int) /\ IsRewriting(Weave(p.output, b, a) \o t)
<1>. DEFINE s == p.output
            out == Weave(s, b, a) \o t
<1>1. toks \in Seq(TkTypes) /\ IsOutput(s)
  BY DEF CanResolve
<1>2. Len(s) \in Nat \ {0} /\ s[1] = Sentinel
  BY <1>1, EmptySeq DEF IsOutput
<1>3. b[1] = <<>>
  <2>1. \A i \in 2..Depth : p.closures[i].front # Sentinel
    <3>1. TypeOf(Sentinel) = "none_" /\ Operation("none_") = "none_"
      BY DEF TypeOf, Operation, ScopeTokens, OpeningScopes, ClosingScopes
    <3>. QED
      BY <3>1 DEF CanResolve, IsParenthesizer, IsClosureList, Depth
  <2>2. 1 \in 1..Len(p.output) /\ p.output[1] = Sentinel
    BY <1>2
  <2>. QED
    BY <2>1, <2>2 DEF AreAtClosures
<1>4. /\ Weave(s, b, a) \in Seq(Int)
      /\ IsOutput(out) /\ TokensOf(out) = TokensOf(s)
      /\ \A k \in 1..(Len(s) - 1) :
            a[k] = <<>> /\ b[k + 1] = <<>> /\ s[k + 1] = s[k] + 1
               => AreNeighbours(s[k], out)
  BY <1>1, <1>3, InsertKeeps
<1>. HIDE DEF out
<1>5. ASSUME NEW x, AreNeighbours(x, s),
             \A i \in 1..Depth : p.closures[i].front # x + 1 /\ p.closures[i].back # x
      PROVE  AreNeighbours(x, out)
  <2>1. PICK m \in 1..(Len(s) - 1) : s[m] = x /\ s[m + 1] = x + 1
    BY <1>5 DEF AreNeighbours
  <2>2. m \in 1..Len(s) /\ m + 1 \in 1..Len(s)
    BY <1>2
  <2>3. \A i \in 2..Depth : i \in 1..Depth
    OBVIOUS
  <2>4. a[m] = <<>> /\ b[m + 1] = <<>>
    BY <1>5, <2>1, <2>2, <2>3 DEF AreAtClosures
  <2>. QED
    BY <1>4, <2>1, <2>4
<1>. QED
  BY <1>4, <1>5 DEF IsRewriting, out

\* What is read of the closures when the last ones are resolved.
LEMMA RunClosures ==
    ASSUME CanResolve
    PROVE  /\ Depth \in Nat /\ RunLength \in 1..(Depth - 1)
           /\ last_closure = p.closures[Depth] /\ Depth \in 2..Depth /\ Depth \in 1..Depth
           /\ \E i \in 1..Depth : Before(RunLength) = p.closures[i]
           /\ \A c \in RunOf(RunLength) : \E i \in 2..Depth : c = p.closures[i]
<1>1. Depth \in Nat /\ RunLength \in 1..(Depth - 1) /\ Depth > 1
  BY LastIsOperator, RunIsShort DEF CanResolve
<1>2. last_closure = p.closures[Depth]
  BY DEF last_closure
<1>3. Depth - RunLength \in 1..Depth /\ Before(RunLength) = p.closures[Depth - RunLength]
  BY <1>1 DEF Before
<1>4. \A k \in (Depth - RunLength + 1)..Depth : k \in 2..Depth
  BY <1>1
<1>5. \A c \in RunOf(RunLength) : \E i \in 2..Depth : c = p.closures[i]
  BY <1>4 DEF RunOf
<1>. QED
  BY <1>1, <1>2, <1>3, <1>5

\* Marks in a row, and one or none.
LEMMA MarkSequences ==
    /\ <<>> \in Seq(Marks) /\ <<OpenParen>> \in Seq(Marks) /\ <<CloseParen>> \in Seq(Marks)
    /\ \A n \in Nat : Parens(OpenParen, n) \in Seq(Marks) /\ Parens(CloseParen, n) \in Seq(Marks)
<1>1. OpenParen \in Marks /\ CloseParen \in Marks
  BY DEF Marks
<1>2. \A n \in Nat : Parens(OpenParen, n) \in Seq(Marks) /\ Parens(CloseParen, n) \in Seq(Marks)
  <2>. TAKE n \in Nat
  <2>1. \A x \in Marks : [k \in 1..n |-> x] \in [1..n -> Marks]
    OBVIOUS
  <2>. QED
    BY <1>1, <2>1, SeqDef DEF Parens
<1>. QED
  BY <1>1, <1>2

\* With nothing, or one mark, behind it.
LEMMA EndOfWeave ==
    ASSUME NEW flat \in Seq(Int)
    PROVE  flat \o <<>> = flat /\ Append(flat, CloseParen) = flat \o <<CloseParen>>
<1>1. flat \o <<>> = flat
  BY ConcatEmptySeq
<1>2. CloseParen \in Int
  BY DEF CloseParen
<1>. QED
  BY <1>1, <1>2

\* resolve_postfix rewrites.
LEMMA PostfixRewrites ==
    ASSUME CanResolve
    PROVE  IsRewriting(resolve_postfix.output)
<1>. DEFINE n == RunLength
            after(x) == IF x = Before(n).back THEN Parens(OpenParen, n)
                        ELSE IF \E c \in RunOf(n) : x = c.back THEN <<CloseParen>>
                        ELSE <<>>
            b == [k \in 1..Len(p.output) |-> <<>>]
            a == [k \in 1..Len(p.output) |-> after(p.output[k])]
<1>1. resolve_postfix.output = Weave(p.output, b, a)
  BY DEF resolve_postfix, Resolved, Insert, Nothing, Weave, CanResolve, IsParenthesizer
<1>2. IsMarking(p.output, b, a, <<>>)
  <2>1. Parens(OpenParen, n) \in Seq(Marks) /\ Parens(CloseParen, n) \in Seq(Marks)
    <3>1. n \in Nat
      BY RunClosures
    <3>. QED
      BY <3>1, MarkSequences
  <2>. HIDE DEF n
  <2>. QED
    BY <2>1, MarkSequences DEF IsMarking
<1>3. AreAtClosures(b, a)
  <2>. SUFFICES ASSUME NEW k \in 1..Len(p.output), a[k] # <<>>
                PROVE  \E i \in 1..Depth : p.output[k] = p.closures[i].back
    BY DEF AreAtClosures
  <2>1. PICK c \in RunOf(n) \cup {Before(n)} : p.output[k] = c.back
    OBVIOUS
  <2>2. \A i \in 2..Depth : i \in 1..Depth
    OBVIOUS
  <2>3. \E i \in 1..Depth : c = p.closures[i]
    BY <2>2, RunClosures
  <2>. QED
    BY <2>1, <2>3
<1>. HIDE DEF b, a
<1>4. Weave(p.output, b, a) \in Seq(Int) /\ IsRewriting(Weave(p.output, b, a) \o <<>>)
  BY <1>2, <1>3, MarkingRewrites
<1>. QED
  BY <1>1, <1>4, EndOfWeave

\* resolve_binary rewrites a run that associates to the left.
LEMMA LeftRewrites ==
    ASSUME CanResolve
    PROVE  IsRewriting(resolve_binary_left_associative.output)
<1>. DEFINE n == RunLength
            first == p.closures[Depth - n + 1]
            before(x) == IF \E c \in RunOf(n) \ {first} : x = c.front
                         THEN <<CloseParen>> ELSE <<>>
            after(x)  == IF x = Before(n).back THEN Parens(OpenParen, n) ELSE <<>>
            b == [k \in 1..Len(p.output) |-> before(p.output[k])]
            a == [k \in 1..Len(p.output) |-> after(p.output[k])]
<1>1. resolve_binary_left_associative.output = Append(Weave(p.output, b, a), CloseParen)
  BY DEF resolve_binary_left_associative, Resolved, Insert, Weave, CanResolve, IsParenthesizer
<1>2. IsMarking(p.output, b, a, <<CloseParen>>)
  <2>1. Parens(OpenParen, n) \in Seq(Marks) /\ Parens(CloseParen, n) \in Seq(Marks)
    <3>1. n \in Nat
      BY RunClosures
    <3>. QED
      BY <3>1, MarkSequences
  <2>. HIDE DEF n
  <2>. QED
    BY <2>1, MarkSequences DEF IsMarking
<1>3. AreAtClosures(b, a)
  BY RunClosures DEF AreAtClosures
<1>. HIDE DEF b, a
<1>4. /\ Weave(p.output, b, a) \in Seq(Int)
      /\ IsRewriting(Weave(p.output, b, a) \o <<CloseParen>>)
  BY <1>2, <1>3, MarkingRewrites
<1>. QED
  BY <1>1, <1>4, EndOfWeave

\* resolve_binary rewrites a run that associates to the right.
LEMMA RightRewrites ==
    ASSUME CanResolve
    PROVE  IsRewriting(resolve_binary_right_associative.output)
<1>. DEFINE n == RunLength
            after(x) == IF \E c \in (RunOf(n) \ {last_closure}) \cup {Before(n)} : x = c.back
                        THEN <<OpenParen>> ELSE <<>>
            b == [k \in 1..Len(p.output) |-> <<>>]
            a == [k \in 1..Len(p.output) |-> after(p.output[k])]
<1>1. resolve_binary_right_associative.output = Weave(p.output, b, a) \o Parens(CloseParen, n)
  BY DEF resolve_binary_right_associative, Resolved, Insert, Nothing, Weave, CanResolve,
         IsParenthesizer
<1>2. IsMarking(p.output, b, a, Parens(CloseParen, n))
  <2>1. Parens(OpenParen, n) \in Seq(Marks) /\ Parens(CloseParen, n) \in Seq(Marks)
    <3>1. n \in Nat
      BY RunClosures
    <3>. QED
      BY <3>1, MarkSequences
  <2>. HIDE DEF n
  <2>. QED
    BY <2>1, MarkSequences DEF IsMarking
<1>3. AreAtClosures(b, a)
  <2>. SUFFICES ASSUME NEW k \in 1..Len(p.output), a[k] # <<>>
                PROVE  \E i \in 1..Depth : p.output[k] = p.closures[i].back
    BY DEF AreAtClosures
  <2>1. PICK c \in (RunOf(n) \ {last_closure}) \cup {Before(n)} : p.output[k] = c.back
    OBVIOUS
  <2>2. \A i \in 2..Depth : i \in 1..Depth
    OBVIOUS
  <2>3. \E i \in 1..Depth : c = p.closures[i]
    BY <2>2, RunClosures
  <2>. QED
    BY <2>1, <2>3
<1>. HIDE DEF b, a
<1>4. IsRewriting(Weave(p.output, b, a) \o Parens(CloseParen, n))
  BY <1>2, <1>3, MarkingRewrites
<1>. QED
  BY <1>1, <1>4

\* The last of a set of numbers up to N.
LEMMA LastNumber ==
    ASSUME NEW N \in Nat, NEW Q, 1 \in Q, 1 <= N
    PROVE  \E k \in 1..N : k \in Q /\ \A j \in (k + 1)..N : j \notin Q
<1>. DEFINE T == {N - k : k \in Q \cap 1..N}
<1>1. T \subseteq Nat /\ T # {}
  OBVIOUS
<1>2. PICK x \in T : \A y \in T : x <= y
  BY <1>1, LeastNumber
<1>3. PICK k \in Q \cap 1..N : x = N - k
  BY <1>2
<1>4. \A j \in (k + 1)..N : j \notin Q
  <2>. SUFFICES ASSUME NEW j \in (k + 1)..N, j \in Q PROVE FALSE
    OBVIOUS
  <2>1. N - j \in T
    OBVIOUS
  <2>2. N - k <= N - j
    BY <1>2, <1>3, <2>1
  <2>. QED
    BY <2>2
<1>. QED
  BY <1>3, <1>4

\* A single binary operator opens after a closure in front of it.
LEMMA OpensAfterIsClosure ==
    ASSUME CanResolve
    PROVE  OpensAfter \in 1..Depth
<1>. DEFINE is(k, op)  == ClosurePriority(p.closures[k]) = Priority(op)
            Q(op) == {k \in 1..Depth : ~is(k, op)}
            isLast(k, op, n) == ~is(k, op) /\ \A j \in (k + 1)..n : is(j, op)
            past == CHOOSE k \in 1..(Depth - 1) : isLast(k, "increment_", Depth - 1)
<1>1. /\ Depth \in Nat /\ Depth > 1 /\ ClosurePriority(p.closures[1]) = 0
      /\ Priority("increment_") # 0 /\ Priority("negation_") # 0
  BY LastIsOperator DEF CanResolve, PriorityOf, ClosurePriority, Priority, ScopeTokens,
     OpeningScopes, ClosingScopes
<1>. HIDE DEF is
<1>2. ASSUME NEW op \in {"increment_", "negation_"}, NEW n \in 1..(Depth - 1)
      PROVE  \E k \in 1..n : isLast(k, op, n)
  <2>1. 1 \in Q(op) /\ n \in Nat /\ 1 <= n
    BY <1>1, <1>2 DEF is
  <2>2. PICK k \in 1..n : k \in Q(op) /\ \A j \in (k + 1)..n : j \notin Q(op)
    <3>. HIDE DEF Q
    <3>. QED
      BY <2>1, LastNumber
  <2>3. \A j \in (k + 1)..n : j \in 1..Depth
    BY <1>1
  <2>. QED
    BY <2>2, <2>3
<1>3. past \in 1..(Depth - 1)
  <2>1. Depth - 1 \in 1..(Depth - 1)
    BY <1>1
  <2>2. \E k \in 1..(Depth - 1) : isLast(k, "increment_", Depth - 1)
    BY <1>2, <2>1
  <2>. HIDE DEF isLast
  <2>. QED
    BY <2>2
<1>4. (CHOOSE k \in 1..past : isLast(k, "negation_", past)) \in 1..past
  <2>. HIDE DEF past
  <2>1. \E k \in 1..past : isLast(k, "negation_", past)
    BY <1>2, <1>3
  <2>. HIDE DEF isLast
  <2>. QED
    BY <2>1
<1>5. OpensAfter = CHOOSE k \in 1..past : isLast(k, "negation_", past)
  BY DEF OpensAfter, is
<1>. HIDE DEF past
<1>. QED
  BY <1>1, <1>3, <1>4, <1>5

\* resolve_binary rewrites a single operator.
LEMMA SingleRewrites ==
    ASSUME CanResolve
    PROVE  IsRewriting(resolve_binary_single.output)
<1>. DEFINE after(x) == IF x = p.closures[OpensAfter].back THEN <<OpenParen>> ELSE <<>>
            b == [k \in 1..Len(p.output) |-> <<>>]
            a == [k \in 1..Len(p.output) |-> after(p.output[k])]
<1>1. resolve_binary_single.output = Append(Weave(p.output, b, a), CloseParen)
  BY DEF resolve_binary_single, Resolved, Insert, Nothing, Weave, CanResolve, IsParenthesizer
<1>2. IsMarking(p.output, b, a, <<CloseParen>>)
  BY MarkSequences DEF IsMarking
<1>3. AreAtClosures(b, a)
  BY OpensAfterIsClosure DEF AreAtClosures
<1>. HIDE DEF b, a
<1>4. /\ Weave(p.output, b, a) \in Seq(Int)
      /\ IsRewriting(Weave(p.output, b, a) \o <<CloseParen>>)
  BY <1>2, <1>3, MarkingRewrites
<1>. QED
  BY <1>1, <1>4, EndOfWeave

\* resolve_prefix rewrites.
LEMMA PrefixRewrites ==
    ASSUME CanResolve
    PROVE  IsRewriting(resolve_prefix.output)
<1>. DEFINE before(x) == IF x = last_closure.front THEN <<OpenParen>> ELSE <<>>
            b == [k \in 1..Len(p.output) |-> before(p.output[k])]
            a == [k \in 1..Len(p.output) |-> <<>>]
<1>1. resolve_prefix.output = Append(Weave(p.output, b, a), CloseParen)
  BY DEF resolve_prefix, Resolved, Insert, Nothing, Weave, CanResolve, IsParenthesizer
<1>2. IsMarking(p.output, b, a, <<CloseParen>>)
  BY MarkSequences DEF IsMarking
<1>3. AreAtClosures(b, a)
  BY RunClosures DEF AreAtClosures
<1>. HIDE DEF b, a
<1>4. /\ Weave(p.output, b, a) \in Seq(Int)
      /\ IsRewriting(Weave(p.output, b, a) \o <<CloseParen>>)
  BY <1>2, <1>3, MarkingRewrites
<1>. QED
  BY <1>1, <1>4, EndOfWeave

\* The closures left were there before.
LEMMA KeptWereThere ==
    ASSUME CanResolve
    PROVE  \A i \in 1..Len(WithoutLastPriority) :
              \E j \in 1..Depth : WithoutLastPriority[i] = p.closures[j]
<1>. DEFINE from(k) == /\ KeptOf[k] \in Seq(Closures)
                       /\ \A i \in 1..Len(KeptOf[k]) : \E j \in 1..Depth : KeptOf[k][i] = p.closures[j]
            T == {k \in 0..Depth : from(k)}
<1>1. Depth \in Nat /\ p.closures \in Seq(Closures) /\ Depth = Len(p.closures)
  BY LastIsOperator DEF CanResolve, Depth
<1>2. 0 \in T
  <2>1. KeptOf[0] = <<>>
    BY <1>1, KeptStep
  <2>2. from(0) /\ 0 \in 0..Depth
    BY <1>1, <2>1
  <2>. QED
    BY <2>2
<1>3. ASSUME NEW k \in 1..Depth, k - 1 \in T PROVE k \in T
  <2>1. from(k - 1)
    BY <1>3
  <2>2. p.closures[k] \in Closures
    BY <1>1, ElementOfSeq
  <2>3. CASE KeptOf[k] = KeptOf[k - 1]
    BY <2>1, <2>3
  <2>4. CASE KeptOf[k] = Append(KeptOf[k - 1], p.closures[k])
    <3>. PICK g : g = KeptOf[k - 1]
      OBVIOUS
    <3>. PICK c : c = p.closures[k]
      OBVIOUS
    <3>1. /\ g \in Seq(Closures) /\ c \in Closures
          /\ \A i \in 1..Len(g) : \E j \in 1..Depth : g[i] = p.closures[j]
      BY <2>1, <2>2
    <3>2. /\ Append(g, c) \in Seq(Closures) /\ Len(Append(g, c)) = Len(g) + 1
          /\ \A i \in 1..Len(g) : Append(g, c)[i] = g[i]
          /\ Append(g, c)[Len(g) + 1] = c /\ Len(g) \in Nat
      BY <3>1, AppendProperties, LenProperties
    <3>3. \A i \in 1..Len(Append(g, c)) : i \in 1..Len(g) \/ i = Len(g) + 1
      BY <3>2
    <3>4. \A i \in 1..Len(Append(g, c)) : \E j \in 1..Depth : Append(g, c)[i] = p.closures[j]
      BY <3>1, <3>2, <3>3
    <3>5. KeptOf[k] = Append(g, c)
      BY <2>4
    <3>6. from(k) /\ k \in 0..Depth
      BY <1>1, <3>2, <3>4, <3>5
    <3>. HIDE DEF from
    <3>. QED
      BY <3>6
  <2>. HIDE DEF T, from
  <2>. QED
    BY <1>1, <2>3, <2>4, KeptStep
<1>4. Depth \in T
  <2>. HIDE DEF T
  <2>1. 0..Depth \subseteq T
    BY <1>1, <1>2, <1>3, InductionUpTo
  <2>. QED
    BY <1>1, <2>1
<1>. QED
  BY <1>4 DEF WithoutLastPriority

\* The first closures of a list are closures of the list.
LEMMA FirstWereThere ==
    ASSUME CanResolve, NEW n \in 1..(Depth - 1)
    PROVE  \A i \in 1..Len(SubSeq(p.closures, 1, Depth - n)) :
              \E j \in 1..Depth : SubSeq(p.closures, 1, Depth - n)[i] = p.closures[j]
<1>1. Depth \in Nat /\ p.closures \in Seq(Closures) /\ Depth = Len(p.closures)
  BY LastIsOperator DEF CanResolve, Depth
<1>0. Depth - n \in 1..Depth
  BY <1>1
<1>. PICK m \in 1..Depth : m = Depth - n
  BY <1>0
<1>2. \A k \in 1..m : p.closures[k] \in Closures
  BY <1>1, ElementOfSeq
<1>3. /\ Len(SubSeq(p.closures, 1, m)) = m
      /\ \A i \in 1..m : SubSeq(p.closures, 1, m)[i] = p.closures[i]
  <2>1. 1 \in Int /\ m \in Int /\ 1 <= m /\ m - 1 + 1 = m /\ \A i \in 1..m : 1 + i - 1 = i
    OBVIOUS
  <2>2. /\ Len(SubSeq(p.closures, 1, m)) = IF 1 <= m THEN m - 1 + 1 ELSE 0
        /\ \A i \in 1..(m - 1 + 1) : SubSeq(p.closures, 1, m)[i] = p.closures[1 + i - 1]
    BY <1>2, SubSeqProperties
  <2>. QED
    BY <2>1, <2>2
<1>4. \A i \in 1..m : i \in 1..Depth
  BY <1>1
<1>. QED
  BY <1>3, <1>4

\* resolve_next: the same tokens with more marks, and fewer closures.
LEMMA ResolveRewrites ==
    ASSUME CanResolve
    PROVE  /\ IsRewriting(resolve_next.output)
           /\ resolve_next.head = p.head /\ resolve_next.end = p.end
           /\ resolve_next.expected = p.expected
           /\ \A i \in 1..Len(resolve_next.closures) :
                 \E j \in 1..Depth : resolve_next.closures[i] = p.closures[j]
<1>. DEFINE were(cl) == \A i \in 1..Len(cl) : \E j \in 1..Depth : cl[i] = p.closures[j]
            good(q) == /\ IsRewriting(q.output) /\ were(q.closures)
                       /\ q.head = p.head /\ q.end = p.end /\ q.expected = p.expected
<1>1. /\ DOMAIN p = {"head", "end", "expected", "output", "closures"}
      /\ RunLength \in 1..(Depth - 1) /\ 1 \in 1..(Depth - 1)
  BY RunClosures DEF CanResolve, IsParenthesizer
<1>2. /\ were(WithoutLastPriority) /\ were(SubSeq(p.closures, 1, Depth - 1))
      /\ were(SubSeq(p.closures, 1, Depth - RunLength))
  BY <1>1, KeptWereThere, FirstWereThere
<1>. HIDE DEF were
<1>3. \A q : IsRewriting(q.output) /\ were(q.closures)
              /\ (\E output, closures : q = Resolved(output, closures)) => good(q)
  BY <1>1 DEF Resolved
<1>4. good(resolve_postfix)
  <2>1. resolve_postfix.closures = SubSeq(p.closures, 1, Depth - RunLength)
    BY <1>1 DEF resolve_postfix, Resolved
  <2>2. \E output, closures : resolve_postfix = Resolved(output, closures)
    BY DEF resolve_postfix
  <2>. QED
    BY <1>2, <1>3, <2>1, <2>2, PostfixRewrites
<1>5. good(resolve_prefix)
  <2>1. resolve_prefix.closures = SubSeq(p.closures, 1, Depth - 1)
    BY <1>1 DEF resolve_prefix, Resolved
  <2>2. \E output, closures : resolve_prefix = Resolved(output, closures)
    BY DEF resolve_prefix
  <2>. QED
    BY <1>2, <1>3, <2>1, <2>2, PrefixRewrites
<1>6. good(resolve_binary_single)
  <2>1. resolve_binary_single.closures = SubSeq(p.closures, 1, Depth - 1)
    BY <1>1 DEF resolve_binary_single, Resolved
  <2>2. \E output, closures : resolve_binary_single = Resolved(output, closures)
    BY DEF resolve_binary_single
  <2>. QED
    BY <1>2, <1>3, <2>1, <2>2, SingleRewrites
<1>7. good(resolve_binary_left_associative)
  <2>1. resolve_binary_left_associative.closures = WithoutLastPriority
    BY <1>1 DEF resolve_binary_left_associative, Resolved
  <2>2. \E output, closures : resolve_binary_left_associative = Resolved(output, closures)
    BY DEF resolve_binary_left_associative
  <2>. QED
    BY <1>2, <1>3, <2>1, <2>2, LeftRewrites
<1>8. good(resolve_binary_right_associative)
  <2>1. resolve_binary_right_associative.closures = WithoutLastPriority
    BY <1>1 DEF resolve_binary_right_associative, Resolved
  <2>2. \E output, closures : resolve_binary_right_associative = Resolved(output, closures)
    BY DEF resolve_binary_right_associative
  <2>. QED
    BY <1>2, <1>3, <2>1, <2>2, RightRewrites
<1>9. good(resolve_binary)
  BY <1>6, <1>7, <1>8 DEF resolve_binary
<1>10. ClosureOperation(last_closure) \in {"prefix_", "postfix_", "binary_"}
  BY LastIsOperator, OperationType DEF ClosureOperation, CanResolve
<1>11. good(resolve_next)
  BY <1>4, <1>5, <1>9, <1>10 DEF resolve_next
<1>. QED
  BY <1>11 DEF were

-----------------------------------------------------------------------------
(* Outputs that are put together.                                          *)

\* A part of an output: tokens in order, with marks.
IsPart(t) == t \in Seq(CloseParen..Len(toks)) /\ IsInOrder(t)

\* An output with a part of later tokens behind it is an output.
LEMMA LongerOutput ==
    ASSUME toks \in Seq(TkTypes), NEW s, IsOutput(s), NEW t, IsPart(t),
           \A x \in TokensOf(s), y \in TokensOf(t) : x < y
    PROVE  /\ IsOutput(s \o t)
           /\ TokensOf(s \o t) = TokensOf(s) \cup TokensOf(t)
           /\ \A x : AreNeighbours(x, s) \/ AreNeighbours(x, t) => AreNeighbours(x, s \o t)
<1>. PICK g : g = s \o t
  OBVIOUS
<1>1. /\ s \in Seq(CloseParen..Len(toks)) /\ t \in Seq(CloseParen..Len(toks))
      /\ s # <<>> /\ s[1] = Sentinel /\ IsInOrder(s) /\ IsInOrder(t)
  BY DEF IsOutput, IsPart
<1>2. /\ g \in Seq(CloseParen..Len(toks)) /\ Len(g) = Len(s) + Len(t)
      /\ \A i \in 1..(Len(s) + Len(t)) : g[i] = IF i <= Len(s) THEN s[i] ELSE t[i - Len(s)]
  <2>1. s \in Seq(CloseParen..Len(toks)) /\ t \in Seq(CloseParen..Len(toks))
    BY <1>1
  <2>. QED
    BY <2>1, ConcatProperties
<1>3. Len(s) \in Nat \ {0} /\ Len(t) \in Nat
  BY <1>1, EmptySeq, LenProperties
<1>. PICK ls \in Nat \ {0} : ls = Len(s)
  BY <1>3
<1>. PICK lt \in Nat : lt = Len(t)
  BY <1>3
<1>4. \A i \in 1..ls : i \in 1..Len(g) /\ g[i] = s[i]
  BY <1>2
<1>5. \A i \in 1..lt : ls + i \in 1..Len(g) /\ g[ls + i] = t[i]
  <2>. TAKE i \in 1..lt
  <2>1. ls + i \in 1..(ls + lt) /\ ~(ls + i <= ls) /\ ls + i - ls = i
    OBVIOUS
  <2>. QED
    BY <1>2, <2>1
<1>6. \A i \in 1..Len(g) : i \in 1..ls \/ \E j \in 1..lt : i = ls + j
  <2>. TAKE i \in 1..Len(g)
  <2>1. i \in 1..(ls + lt)
    BY <1>2
  <2>2. i \in 1..ls \/ (i - ls \in 1..lt /\ i = ls + (i - ls))
    BY <2>1
  <2>. QED
    BY <2>2
<1>7. TokensOf(g) = TokensOf(s) \cup TokensOf(t)
  <2>1. \A x : (\E i \in 1..Len(g) : g[i] = x)
                 <=> (\E i \in 1..ls : s[i] = x) \/ (\E j \in 1..lt : t[j] = x)
    <3>. TAKE x
    <3>1. ASSUME NEW i \in 1..Len(g), g[i] = x
          PROVE  (\E k \in 1..ls : s[k] = x) \/ (\E j \in 1..lt : t[j] = x)
      <4>1. CASE i \in 1..ls
        BY <1>4, <3>1, <4>1
      <4>2. CASE \E j \in 1..lt : i = ls + j
        BY <1>5, <3>1, <4>2
      <4>. QED
        BY <1>6, <4>1, <4>2
    <3>2. ASSUME NEW i \in 1..ls, s[i] = x PROVE \E k \in 1..Len(g) : g[k] = x
      BY <1>4, <3>2
    <3>3. ASSUME NEW j \in 1..lt, t[j] = x PROVE \E k \in 1..Len(g) : g[k] = x
      <4>1. ls + j \in 1..Len(g) /\ g[ls + j] = x
        BY <1>5, <3>3
      <4>. QED
        BY <4>1
    <3>. QED
      BY <3>1, <3>2, <3>3
  <2>2. \A x : x \in TokensOf(g) <=> x \in TokensOf(s) \/ x \in TokensOf(t)
    <3>. TAKE x
    <3>1. x \in TokensOf(g) <=>
             (\E i \in 1..Len(g) : g[i] = x) /\ x # Sentinel /\ x \notin Marks
      BY TokensAndMarks
    <3>2. x \in TokensOf(s) <=>
             (\E i \in 1..ls : s[i] = x) /\ x # Sentinel /\ x \notin Marks
      BY TokensAndMarks
    <3>3. x \in TokensOf(t) <=>
             (\E i \in 1..lt : t[i] = x) /\ x # Sentinel /\ x \notin Marks
      BY TokensAndMarks
    <3>. QED
      BY <2>1, <3>1, <3>2, <3>3
  <2>. QED
    BY <2>2
<1>8. IsInOrder(g)
  <2>. SUFFICES ASSUME NEW m \in 1..Len(g), NEW n \in 1..Len(g), m < n,
                       g[m] \in TokensOf(g), g[n] \in TokensOf(g)
                PROVE  g[m] < g[n]
    BY DEF IsInOrder
  <2>1. g[m] \notin {Sentinel} \cup Marks /\ g[n] \notin {Sentinel} \cup Marks
    BY TokensAndMarks
  <2>2. \A i \in 1..ls : s[i] \notin {Sentinel} \cup Marks => s[i] \in TokensOf(s)
    BY TokensAndMarks
  <2>3. \A i \in 1..lt : t[i] \notin {Sentinel} \cup Marks => t[i] \in TokensOf(t)
    BY TokensAndMarks
  <2>4. CASE m \in 1..ls /\ n \in 1..ls
    BY <1>1, <1>4, <2>1, <2>2, <2>4 DEF IsInOrder
  <2>5. CASE m \in 1..ls /\ \E j \in 1..lt : n = ls + j
    BY <1>4, <1>5, <2>1, <2>2, <2>3, <2>5
  <2>6. CASE (\E i \in 1..lt : m = ls + i) /\ \E j \in 1..lt : n = ls + j
    <3>1. PICK i \in 1..lt : m = ls + i
      BY <2>6
    <3>2. PICK j \in 1..lt : n = ls + j
      BY <2>6
    <3>3. i < j
      BY <3>1, <3>2
    <3>4. g[m] = t[i] /\ g[n] = t[j]
      BY <1>5, <3>1, <3>2
    <3>5. t[i] \in TokensOf(t) /\ t[j] \in TokensOf(t)
      BY <2>1, <2>3, <3>4
    <3>. QED
      BY <1>1, <3>3, <3>4, <3>5 DEF IsInOrder
  <2>7. CASE (\E i \in 1..lt : m = ls + i) /\ n \in 1..ls
    BY <2>7
  <2>. QED
    BY <1>6, <2>4, <2>5, <2>6, <2>7
<1>9. IsOutput(g)
  <2>1. 1 \in 1..ls
    OBVIOUS
  <2>2. 1 \in 1..Len(g) /\ g[1] = Sentinel
    BY <1>1, <1>4, <2>1
  <2>3. g # <<>>
    BY <2>2, EmptySeq
  <2>. QED
    BY <1>2, <1>8, <2>2, <2>3 DEF IsOutput
<1>10. ASSUME NEW x, AreNeighbours(x, s) PROVE AreNeighbours(x, g)
  <2>1. PICK m \in 1..(ls - 1) : s[m] = x /\ s[m + 1] = x + 1
    BY <1>10 DEF AreNeighbours
  <2>2. m \in 1..ls /\ m + 1 \in 1..ls /\ m \in 1..(ls + lt - 1)
    OBVIOUS
  <2>3. g[m] = x /\ g[m + 1] = x + 1 /\ m \in 1..(Len(g) - 1)
    BY <1>2, <1>4, <2>1, <2>2
  <2>. QED
    BY <2>3 DEF AreNeighbours
<1>11. ASSUME NEW x, AreNeighbours(x, t) PROVE AreNeighbours(x, g)
  <2>1. PICK m \in 1..(lt - 1) : t[m] = x /\ t[m + 1] = x + 1
    BY <1>11 DEF AreNeighbours
  <2>2. /\ m \in 1..lt /\ m + 1 \in 1..lt /\ ls + m \in 1..(ls + lt - 1)
        /\ ls + (m + 1) = (ls + m) + 1
    OBVIOUS
  <2>3. g[ls + m] = x /\ g[(ls + m) + 1] = x + 1 /\ ls + m \in 1..(Len(g) - 1)
    BY <1>2, <1>5, <2>1, <2>2
  <2>. QED
    BY <2>3 DEF AreNeighbours
<1>. QED
  BY <1>7, <1>9, <1>10, <1>11

\* Tokens h..l of the text, as action_store puts them out.
LEMMA TextIsPart ==
    ASSUME toks \in Seq(TkTypes), NEW h \in 1..Len(toks), NEW l \in h..Len(toks)
    PROVE  LET t == [k \in 1..(l - h + 1) |-> h + k - 1]
           IN  /\ IsPart(t) /\ TokensOf(t) = h..l
               /\ \A x \in h..(l - 1) : AreNeighbours(x, t)
<1>0. Len(toks) \in Nat
  BY LenProperties
<1>. PICK n \in Nat \ {0} : n = l - h + 1
  BY <1>0
<1>. DEFINE t == [k \in 1..n |-> h + k - 1]
<1>1. \A k \in 1..n : t[k] = h + k - 1 /\ t[k] \in h..l /\ t[k] \in 1..Len(toks)
  BY <1>0
<1>2. t \in Seq(1..Len(toks)) /\ Len(t) = n
  <2>1. t \in [1..n -> 1..Len(toks)] /\ DOMAIN t = 1..n
    BY <1>1
  <2>2. t \in Seq(1..Len(toks))
    BY <2>1, SeqDef
  <2>. HIDE DEF t
  <2>. QED
    BY <2>1, <2>2, LenProperties
<1>3. \A x \in h..l : \E k \in 1..n : t[k] = x
  <2>. TAKE x \in h..l
  <2>1. x - h + 1 \in 1..n /\ h + (x - h + 1) - 1 = x
    BY <1>0
  <2>. QED
    BY <2>1
<1>4. \A x \in 1..Len(toks) : x # Sentinel /\ x \notin Marks
  BY DEF Sentinel, Marks, OpenParen, CloseParen
<1>. HIDE DEF t
<1>5. t \in Seq(CloseParen..Len(toks))
  <2>1. 1..Len(toks) \subseteq CloseParen..Len(toks)
    BY <1>0 DEF CloseParen
  <2>. QED
    BY <1>2, <2>1, SeqMonotonic
<1>6. TokensOf(t) = h..l
  <2>1. \A x : x \in TokensOf(t) <=> x \in h..l
    <3>. TAKE x
    <3>1. x \in h..l => x \in 1..Len(toks)
      BY <1>0
    <3>2. x \in TokensOf(t) <=>
             (\E i \in 1..n : t[i] = x) /\ x # Sentinel /\ x \notin Marks
      BY <1>2, TokensAndMarks
    <3>3. (\E i \in 1..n : t[i] = x) => x \in h..l
      BY <1>1
    <3>. QED
      BY <1>3, <1>4, <3>1, <3>2, <3>3
  <2>. QED
    BY <2>1
<1>7. IsInOrder(t)
  <2>. SUFFICES ASSUME NEW i \in 1..n, NEW j \in 1..n, i < j PROVE t[i] < t[j]
    BY <1>2 DEF IsInOrder
  <2>. QED
    BY <1>0, <1>1
<1>8. ASSUME NEW x \in h..(l - 1) PROVE AreNeighbours(x, t)
  <2>. PICK k \in 1..(n - 1) : k = x - h + 1
    <3>1. x - h + 1 \in 1..(n - 1)
      BY <1>0
    <3>. QED
      BY <3>1
  <2>1. k \in 1..n /\ k + 1 \in 1..n /\ h + k - 1 = x /\ h + (k + 1) - 1 = x + 1
    BY <1>0
  <2>2. t[k] = x /\ t[k + 1] = x + 1
    BY <1>1, <2>1
  <2>. QED
    BY <1>2, <2>2 DEF AreNeighbours
<1>. QED
  BY <1>5, <1>6, <1>7, <1>8 DEF IsPart, t

\* An output without its sentinel.
LEMMA TailIsPart ==
    ASSUME toks \in Seq(TkTypes), NEW s, IsOutput(s)
    PROVE  /\ IsPart(Tail(s)) /\ TokensOf(Tail(s)) = TokensOf(s)
           /\ \A x : x # Sentinel /\ AreNeighbours(x, s) => AreNeighbours(x, Tail(s))
<1>1. /\ s \in Seq(CloseParen..Len(toks)) /\ s # <<>> /\ s[1] = Sentinel /\ IsInOrder(s)
  BY DEF IsOutput
<1>2. Len(s) \in Nat \ {0}
  BY <1>1, EmptySeq
<1>. PICK t : t = Tail(s)
  OBVIOUS
<1>0. Len(s) - 1 \in Nat
  BY <1>2
<1>. PICK n \in Nat : n = Len(s) - 1
  BY <1>0
<1>3. /\ t \in Seq(CloseParen..Len(toks)) /\ Len(t) = n
      /\ \A i \in 1..n : t[i] = s[i + 1]
  BY <1>1, HeadTailProperties
<1>4. \A i \in 1..n : i + 1 \in 1..Len(s)
  BY <1>2
<1>5. \A i \in 1..Len(s) : i = 1 \/ \E j \in 1..n : i = j + 1
  <2>. TAKE i \in 1..Len(s)
  <2>1. i = 1 \/ (i - 1 \in 1..n /\ i = (i - 1) + 1)
    BY <1>2
  <2>. QED
    BY <2>1
<1>6. \A x : x \in TokensOf(t) <=> x \in TokensOf(s)
  <2>. TAKE x
  <2>1. x # Sentinel => ((\E i \in 1..Len(s) : s[i] = x) <=> (\E j \in 1..n : t[j] = x))
    <3>1. ASSUME x # Sentinel, NEW i \in 1..Len(s), s[i] = x PROVE \E j \in 1..n : t[j] = x
      <4>1. i # 1
        BY <1>1, <3>1
      <4>2. PICK j \in 1..n : i = j + 1
        BY <1>5, <4>1
      <4>. QED
        BY <1>3, <3>1, <4>2
    <3>2. ASSUME NEW j \in 1..n, t[j] = x PROVE \E i \in 1..Len(s) : s[i] = x
      <4>1. j + 1 \in 1..Len(s) /\ s[j + 1] = x
        BY <1>3, <1>4, <3>2
      <4>. QED
        BY <4>1
    <3>. QED
      BY <3>1, <3>2
  <2>2. x \in TokensOf(t) <=>
           (\E i \in 1..n : t[i] = x) /\ x # Sentinel /\ x \notin Marks
    <3>1. Len(t) = n
      BY <1>3
    <3>2. x \in TokensOf(t) <=>
             (\E i \in 1..Len(t) : t[i] = x) /\ x # Sentinel /\ x \notin Marks
      BY TokensAndMarks, Zenon
    <3>. QED
      BY <3>1, <3>2
  <2>3. x \in TokensOf(s) <=>
           (\E i \in 1..Len(s) : s[i] = x) /\ x # Sentinel /\ x \notin Marks
    BY TokensAndMarks
  <2>. QED
    BY <2>1, <2>2, <2>3
<1>7. TokensOf(t) = TokensOf(s)
  BY <1>6
<1>8. IsInOrder(t)
  <2>. SUFFICES ASSUME NEW i \in 1..n, NEW j \in 1..n, i < j,
                       t[i] \in TokensOf(t), t[j] \in TokensOf(t)
                PROVE  t[i] < t[j]
    BY <1>3 DEF IsInOrder
  <2>1. i + 1 \in 1..Len(s) /\ j + 1 \in 1..Len(s) /\ i + 1 < j + 1
    BY <1>2
  <2>2. t[i] = s[i + 1] /\ t[j] = s[j + 1]
    BY <1>3
  <2>. QED
    BY <1>1, <1>7, <2>1, <2>2 DEF IsInOrder
<1>9. ASSUME NEW x, x # Sentinel, AreNeighbours(x, s) PROVE AreNeighbours(x, t)
  <2>1. PICK m \in 1..(Len(s) - 1) : s[m] = x /\ s[m + 1] = x + 1
    BY <1>9 DEF AreNeighbours
  <2>2. m # 1
    BY <1>1, <1>9, <2>1
  <2>. PICK k \in 1..(n - 1) : m = k + 1
    <3>1. m - 1 \in 1..(n - 1) /\ m = (m - 1) + 1
      BY <1>2, <2>2
    <3>. QED
      BY <3>1
  <2>3. k \in 1..n /\ k + 1 \in 1..n
    OBVIOUS
  <2>4. t[k] = x /\ t[k + 1] = x + 1
    BY <1>3, <2>1, <2>3
  <2>. QED
    BY <1>3, <2>4 DEF AreNeighbours
<1>. QED
  BY <1>3, <1>7, <1>8, <1>9 DEF IsPart

-----------------------------------------------------------------------------
(* Scopes in the text.                                                     *)

\* The place where a scope closes, and the height of the text between.
LEMMA ClosedByProperties ==
    ASSUME toks \in Seq(TkTypes), NEW k \in Nat \ {0}, NEW c \in ClosedBy(k)
    PROVE  /\ c \in Nat /\ k < c /\ c \in 1..Len(toks) /\ k \in 1..Len(toks)
           /\ IsOpeningScope(toks[k]) /\ IsClosingScope(toks[c])
           /\ ~IsOpeningScope(toks[c])
           /\ Height(toks, c) = Height(toks, k) - 1
           /\ \A m \in k..(c - 1) : Height(toks, m) >= Height(toks, k)
<1>1. Len(toks) \in Nat
  BY LenProperties
<1>2. c \in k..Len(toks) /\ ClosesAt(toks, k, c)
  BY DEF ClosedBy
<1>3. c \in Nat /\ k < c /\ c \in 1..Len(toks) /\ k \in 1..Len(toks)
  BY <1>1, <1>2 DEF ClosesAt
<1>. QED
  BY <1>2, <1>3, ScopeTypes DEF ClosesAt, IsOpeningScope, IsClosingScope

\* A scope closes once.
LEMMA ClosesOnce ==
    ASSUME toks \in Seq(TkTypes), NEW k \in Nat \ {0},
           NEW c \in ClosedBy(k), NEW d \in ClosedBy(k)
    PROVE  c = d
<1>1. \A x, y \in ClosedBy(k) : ~(x < y)
  <2>. SUFFICES ASSUME NEW x \in ClosedBy(k), NEW y \in ClosedBy(k), x < y PROVE FALSE
    OBVIOUS
  <2>1. x \in Nat /\ k < x /\ Height(toks, x) = Height(toks, k) - 1
    BY ClosedByProperties
  <2>2. y \in Nat /\ \A m \in k..(y - 1) : Height(toks, m) >= Height(toks, k)
    BY ClosedByProperties
  <2>3. Height(toks, x) >= Height(toks, k)
    <3>1. x \in k..(y - 1)
      BY <2>1, <2>2
    <3>. QED
      BY <2>2, <3>1
  <2>4. Height(toks, k) \in Int
    BY HeightType
  <2>. QED
    BY <2>1, <2>3, <2>4
<1>2. c \in Nat /\ d \in Nat
  BY ClosedByProperties
<1>3. ~(c < d) /\ ~(d < c)
  BY <1>1
<1>. QED
  BY <1>2, <1>3

\* A scope that opens inside of another one closes inside of it.
LEMMA ScopesNest ==
    ASSUME toks \in Seq(TkTypes), NEW j \in Nat \ {0}, NEW k \in Nat \ {0},
           NEW d \in ClosedBy(j), NEW c \in ClosedBy(k), j < k, k < d
    PROVE  c < d
<1>1. /\ d \in Nat /\ Height(toks, d) = Height(toks, j) - 1
      /\ \A m \in j..(d - 1) : Height(toks, m) >= Height(toks, j)
  BY ClosedByProperties
<1>2. /\ c \in Nat /\ IsOpeningScope(toks[k]) /\ Height(toks, c) = Height(toks, k) - 1
      /\ \A m \in k..(c - 1) : Height(toks, m) >= Height(toks, k)
  BY ClosedByProperties
<1>3. /\ Height(toks, j) \in Int /\ Height(toks, k) \in Int /\ Height(toks, k - 1) \in Int
      /\ Height(toks, c) \in Int /\ Height(toks, d) \in Int
  <2>1. k - 1 \in Nat /\ j \in Nat /\ k \in Nat
    OBVIOUS
  <2>. QED
    BY <1>1, <1>2, <2>1, HeightType
<1>4. Height(toks, k) = Height(toks, k - 1) + 1
  BY <1>2, HeightStep
<1>5. Height(toks, k - 1) >= Height(toks, j)
  <2>1. k - 1 \in j..(d - 1)
    BY <1>1
  <2>. QED
    BY <1>1, <2>1
<1>6. Height(toks, k) >= Height(toks, j) + 1
  BY <1>3, <1>4, <1>5
<1>7. c # d
  BY <1>1, <1>2, <1>3, <1>6
<1>8. ~(d < c)
  <2>. SUFFICES ASSUME d < c PROVE FALSE
    OBVIOUS
  <2>1. d \in k..(c - 1)
    BY <1>1, <1>2
  <2>2. Height(toks, d) >= Height(toks, k)
    BY <1>2, <2>1
  <2>. QED
    BY <1>1, <1>3, <1>6, <2>2
<1>. QED
  BY <1>1, <1>2, <1>7, <1>8

\* Heights in a part of the text.
LEMMA HeightOfPart ==
    ASSUME toks \in Seq(TkTypes), NEW h \in 1..Len(toks), NEW e \in h..Len(toks)
    PROVE  LET s == SubSeq(toks, h, e)
           IN  /\ s \in Seq(TkTypes) /\ Len(s) = e - h + 1
               /\ \A i \in 1..(e - h + 1) : s[i] = toks[h + i - 1]
               /\ \A i \in 0..(e - h + 1) :
                     Height(s, i) = Height(toks, h + i - 1) - Height(toks, h - 1)
<1>. DEFINE s == SubSeq(toks, h, e)
<1>0. Len(toks) \in Nat
  BY LenProperties
<1>1. /\ s \in Seq(TkTypes) /\ Len(s) = e - h + 1
      /\ \A i \in 1..(e - h + 1) : s[i] = toks[h + i - 1]
  <2>1. \A i \in h..e : toks[i] \in TkTypes
    <3>. TAKE i \in h..e
    <3>1. i \in 1..Len(toks)
      BY <1>0
    <3>. QED
      BY <3>1, ElementOfSeq
  <2>2. h \in Int /\ e \in Int /\ h <= e
    BY <1>0
  <2>. QED
    BY <2>1, <2>2, SubSeqProperties
<1>. HIDE DEF s
<1>. DEFINE N == e - h + 1
            T == {i \in 0..N : Height(s, i) = Height(toks, h + i - 1) - Height(toks, h - 1)}
<1>2. N \in Nat
  BY <1>0
<1>3. h - 1 \in Nat /\ Height(toks, h - 1) \in Int
  <2>1. h - 1 \in Nat
    BY <1>0
  <2>. QED
    BY <2>1, HeightType
<1>4. 0 \in T
  <2>1. h + 0 - 1 = h - 1 /\ 0 \in 0..N
    BY <1>0, <1>2
  <2>2. Height(s, 0) = Height(toks, h + 0 - 1) - Height(toks, h - 1)
    BY <1>3, <2>1, HeightZero
  <2>. QED
    BY <2>1, <2>2
<1>5. ASSUME NEW i \in 1..N, i - 1 \in T PROVE i \in T
  <2>. PICK g \in Nat \ {0} : g = h + i - 1
    <3>1. h + i - 1 \in Nat \ {0}
      BY <1>0
    <3>. QED
      BY <3>1
  <2>1. i \in Nat \ {0} /\ g - 1 = h + (i - 1) - 1 /\ i - 1 \in Nat /\ g - 1 \in Nat /\ i \in 0..N
    BY <1>0
  <2>2. s[i] = toks[g]
    BY <1>1
  <2>3. /\ IsOpeningScope(s[i]) => Height(s, i) = Height(s, i - 1) + 1
        /\ IsClosingScope(s[i]) => Height(s, i) = Height(s, i - 1) - 1
        /\ ~IsOpeningScope(s[i]) /\ ~IsClosingScope(s[i]) => Height(s, i) = Height(s, i - 1)
    BY <1>1, <2>1, HeightStep
  <2>4. /\ IsOpeningScope(s[i]) => Height(toks, g) = Height(toks, g - 1) + 1
        /\ IsClosingScope(s[i]) => Height(toks, g) = Height(toks, g - 1) - 1
        /\ ~IsOpeningScope(s[i]) /\ ~IsClosingScope(s[i])
              => Height(toks, g) = Height(toks, g - 1)
    BY <2>1, <2>2, HeightStep
  <2>5. Height(s, i - 1) \in Int /\ Height(toks, g - 1) \in Int
    BY <1>1, <2>1, HeightType
  <2>6. Height(s, i - 1) = Height(toks, g - 1) - Height(toks, h - 1)
    BY <1>5, <2>1
  <2>7. Height(s, i) = Height(toks, g) - Height(toks, h - 1)
    BY <1>3, <2>3, <2>4, <2>5, <2>6
  <2>. QED
    BY <2>1, <2>7
<1>6. 0..N \subseteq T
  <2>. HIDE DEF T, N
  <2>. QED
    BY <1>2, <1>4, <1>5, InductionUpTo
<1>. QED
  BY <1>1, <1>6 DEF s

\* What closes in a part of the text closes in the text.
LEMMA ClosesInPart ==
    ASSUME toks \in Seq(TkTypes), NEW h \in 1..Len(toks), NEW e \in h..Len(toks),
           NEW c \in h..e, ClosesAt(SubSeq(toks, h, e), 1, c - h + 1)
    PROVE  c \in ClosedBy(h) /\ c \in (h + 1)..e
<1>. DEFINE s == SubSeq(toks, h, e)
<1>0. Len(toks) \in Nat
  BY LenProperties
<1>. PICK b \in Int : b = c - h + 1
  BY <1>0
<1>2. /\ s \in Seq(TkTypes) /\ Len(s) = e - h + 1
      /\ \A i \in 1..(e - h + 1) : s[i] = toks[h + i - 1]
      /\ \A i \in 0..(e - h + 1) :
            Height(s, i) = Height(toks, h + i - 1) - Height(toks, h - 1)
  BY HeightOfPart
<1>3. ClosesAt(s, 1, b)
  OBVIOUS
<1>. HIDE DEF s
<1>4. 1 < b
  BY <1>3 DEF ClosesAt
<1>5. /\ b \in 2..(e - h + 1) /\ h + b - 1 = c /\ h + 1 - 1 = h
      /\ h - 1 \in Nat /\ c \in Nat /\ h \in Nat /\ h < c
      /\ 1 \in 0..(e - h + 1) /\ b \in 0..(e - h + 1)
      /\ 1 \in 1..(e - h + 1) /\ b \in 1..(e - h + 1)
  BY <1>0, <1>4
<1>6. s[1] = toks[h] /\ s[b] = toks[c]
  BY <1>2, <1>5
<1>7. /\ Height(s, 1) = Height(toks, h) - Height(toks, h - 1)
      /\ Height(s, b) = Height(toks, c) - Height(toks, h - 1)
  BY <1>2, <1>5
<1>8. Height(toks, h) \in Int /\ Height(toks, h - 1) \in Int /\ Height(toks, c) \in Int
  BY <1>5, HeightType
<1>9. Height(toks, c) = Height(toks, h) - 1
  BY <1>3, <1>7, <1>8 DEF ClosesAt
<1>10. \A m \in h..(c - 1) : Height(toks, m) >= Height(toks, h)
  <2>. TAKE m \in h..(c - 1)
  <2>1. /\ m - h + 1 \in 1..(b - 1) /\ m - h + 1 \in 0..(e - h + 1)
        /\ h + (m - h + 1) - 1 = m /\ m \in Nat
    BY <1>0, <1>5
  <2>2. Height(s, m - h + 1) >= Height(s, 1)
    BY <1>3, <2>1 DEF ClosesAt
  <2>3. Height(s, m - h + 1) = Height(toks, m) - Height(toks, h - 1)
    BY <1>2, <2>1
  <2>4. Height(toks, m) \in Int
    BY <2>1, HeightType
  <2>. QED
    BY <1>7, <1>8, <2>2, <2>3, <2>4
<1>11. ClosesAt(toks, h, c)
  BY <1>3, <1>5, <1>6, <1>9, <1>10 DEF ClosesAt
<1>12. c \in h..Len(toks) /\ c \in (h + 1)..e
  BY <1>0, <1>5
<1>. QED
  BY <1>11, <1>12 DEF ClosedBy

\* What find_paren, find_brace and find_bracket find is where the text closes.
LEMMA FoundIsClosing ==
    ASSUME toks \in Seq(TkTypes), p.end \in 1..(Len(toks) + 1), p.head \in 1..(p.end - 1),
           NEW c \in ScopeCloses
    PROVE  c \in ClosedBy(p.head) /\ c \in (p.head + 1)..(p.end - 1)
<1>0. Len(toks) \in Nat
  BY LenProperties
<1>1. p.head \in 1..Len(toks) /\ p.end - 1 \in p.head..Len(toks)
  BY <1>0
<1>2. c \in p.head..(p.end - 1) /\ ClosesAt(SubSeq(toks, p.head, p.end - 1), 1, c - p.head + 1)
  BY DEF ScopeCloses, IsScope
<1>. QED
  BY <1>1, <1>2, ClosesInPart

-----------------------------------------------------------------------------
(* The head that moves on in the text.                                     *)

\* A call is no operand, and the places of both are in the text.
LEMMA CallsAndOperands ==
    /\ CallOpens \subseteq 1..Len(toks) /\ OperandParens \subseteq 1..Len(toks)
    /\ CallOpens \cap OperandParens = {}
    /\ \A k \in OperandParens : k \notin Arguments /\ toks[k] = "open_paren_"
    /\ \A k \in CallOpens : IsOpeningScope(toks[k])
    /\ \A k \in CallOpens : \A m \in (k + 1)..Len(toks) :
          (\E c \in ClosedBy(k) : m <= c) => m \in Arguments
BY DEF CallOpens, OperandParens, Arguments, ArgumentsOf

\* What is inside of a call was put out with the whole call.
LEMMA InnerIsBehind ==
    ASSUME toks \in Seq(TkTypes), NEW h \in Nat \ {0}, NEW e, Passed(h, e)
    PROVE  \A x \in Inner(h) : x \in Nat \ {0} /\ x + 1 < h
<1>. SUFFICES ASSUME NEW x \in Inner(h) PROVE x \in Nat \ {0} /\ x + 1 < h
  OBVIOUS
<1>0. Len(toks) \in Nat
  BY LenProperties
<1>1. x \in Nat \ {0}
  BY <1>0 DEF Inner
<1>2. PICK k \in CallOpens : k < h /\ k <= x /\ \E c \in ClosedBy(k) : x < c
  BY DEF Inner
<1>3. PICK c \in ClosedBy(k) : x < c
  BY <1>2
<1>4. k \in 1..(h - 1) /\ k \in Nat \ {0} /\ k \notin OperandParens
  BY <1>0, <1>2, CallsAndOperands
<1>5. c < h
  BY <1>4 DEF Passed
<1>6. c \in Nat
  BY <1>4, ClosedByProperties
<1>. QED
  BY <1>1, <1>3, <1>5, <1>6

\* A token that opens no scope is passed.
LEMMA PassToken ==
    ASSUME toks \in Seq(TkTypes), NEW h \in 1..Len(toks), NEW e \in Int, h < e,
           Passed(h, e), ~IsOpeningScope(toks[h])
    PROVE  /\ Passed(h + 1, e) /\ h \notin OperandBrackets
           /\ Inner(h + 1) = Inner(h)
<1>0. Len(toks) \in Nat /\ h \in Nat \ {0}
  BY LenProperties
<1>1. ClosedBy(h) = {}
  BY <1>0, ClosedByProperties
<1>2. Passed(h + 1, e)
  <2>. SUFFICES ASSUME NEW k \in 1..(h + 1 - 1), NEW c \in ClosedBy(k)
                PROVE  c < h + 1 \/ (k \in OperandParens /\ c >= e)
    BY DEF Passed
  <2>1. k \in 1..(h - 1) /\ k \in Nat \ {0}
    BY <1>0, <1>1
  <2>2. c \in Nat
    BY <2>1, ClosedByProperties
  <2>. QED
    BY <1>0, <2>1, <2>2 DEF Passed
<1>3. h \notin OperandBrackets
  <2>1. h \notin OperandParens
    BY CallsAndOperands DEF IsOpeningScope, OpeningScopes
  <2>2. ASSUME NEW k \in OperandParens, h \in ClosedBy(k) PROVE FALSE
    <3>1. k \in Nat \ {0}
      BY <1>0, CallsAndOperands
    <3>2. k < h
      BY <2>2, <3>1, ClosedByProperties
    <3>3. k \in 1..(h - 1)
      BY <1>0, <3>1, <3>2
    <3>4. h < h \/ h >= e
      BY <2>2, <3>3 DEF Passed
    <3>. QED
      BY <1>0, <3>4
  <2>. QED
    BY <2>1, <2>2 DEF OperandBrackets
<1>4. h \notin CallOpens
  BY CallsAndOperands
<1>5. \A k \in CallOpens : k < h + 1 <=> k < h
  BY <1>0, <1>4, CallsAndOperands
<1>6. Inner(h + 1) = Inner(h)
  BY <1>5 DEF Inner
<1>. QED
  BY <1>2, <1>3, <1>6

\* A call is passed as a whole.
LEMMA PassCall ==
    ASSUME toks \in Seq(TkTypes), NEW h \in 1..Len(toks), NEW e \in Int,
           Passed(h, e), h \in CallOpens, NEW c \in ClosedBy(h), c < e
    PROVE  /\ Passed(c + 1, e) /\ (h..c) \cap OperandBrackets = {}
           /\ Inner(c + 1) \subseteq Inner(h) \cup h..(c - 1)
<1>0. Len(toks) \in Nat /\ h \in Nat \ {0}
  BY LenProperties
<1>1. c \in Nat /\ h < c /\ c \in 1..Len(toks) /\ ~IsOpeningScope(toks[c])
  BY <1>0, ClosedByProperties
<1>2. \A k \in h..c : \A d \in ClosedBy(k) : d <= c
  <2>. TAKE k \in h..c
  <2>. TAKE d \in ClosedBy(k)
  <2>1. k \in Nat \ {0} /\ d \in Nat
    <3>1. k \in Nat \ {0}
      BY <1>0, <1>1
    <3>. QED
      BY <3>1, ClosedByProperties
  <2>2. CASE k = h
    BY <1>0, <1>1, <2>2, ClosesOnce
  <2>3. CASE k = c
    BY <1>1, <2>1, <2>3, ClosedByProperties
  <2>4. CASE h < k /\ k < c
    BY <1>0, <1>1, <2>1, <2>4, ScopesNest
  <2>. QED
    BY <1>0, <1>1, <2>1, <2>2, <2>3, <2>4
<1>3. Passed(c + 1, e)
  <2>. PICK i \in Int : i = c + 1
    BY <1>1
  <2>. SUFFICES ASSUME NEW k \in 1..(i - 1), NEW d \in ClosedBy(k)
                PROVE  d < i \/ (k \in OperandParens /\ d >= e)
    BY DEF Passed
  <2>1. k \in Nat \ {0} /\ d \in Nat /\ k <= c
    <3>1. k \in Nat \ {0} /\ k <= c
      BY <1>1
    <3>. QED
      BY <3>1, ClosedByProperties
  <2>2. CASE k < h
    <3>1. k \in 1..(h - 1)
      BY <1>0, <2>1, <2>2
    <3>2. d < h \/ (k \in OperandParens /\ d >= e)
      BY <3>1 DEF Passed
    <3>. QED
      BY <1>0, <1>1, <2>1, <3>2
  <2>3. CASE k >= h
    <3>1. k \in h..c
      BY <1>0, <1>1, <2>1, <2>3
    <3>. QED
      BY <1>1, <1>2, <2>1, <3>1
  <2>. QED
    BY <1>0, <2>1, <2>2, <2>3
<1>4. \A x \in (h + 1)..c : x \in Arguments
  <2>. TAKE x \in (h + 1)..c
  <2>1. x \in (h + 1)..Len(toks) /\ x <= c
    BY <1>0, <1>1
  <2>. QED
    BY <2>1, CallsAndOperands
<1>5. \A k \in OperandParens : k < h \/ k > c
  <2>. TAKE k \in OperandParens
  <2>1. k # h /\ k \notin (h + 1)..c /\ k \in 1..Len(toks)
    BY <1>4, CallsAndOperands
  <2>. QED
    BY <1>0, <1>1, <2>1
<1>6. ASSUME NEW x \in h..c, x \in OperandBrackets PROVE FALSE
  <2>1. x \in Nat /\ h <= x /\ x <= c
    BY <1>0, <1>1
  <2>2. x \notin OperandParens
    BY <1>0, <1>1, <1>5, <2>1
  <2>3. PICK k \in OperandParens : x \in ClosedBy(k)
    BY <1>6, <2>2 DEF OperandBrackets
  <2>4. k \in Nat \ {0} /\ k \in Nat
    BY <1>0, CallsAndOperands
  <2>5. k < x
    BY <2>3, <2>4, ClosedByProperties
  <2>6. k \in 1..(h - 1)
    BY <1>0, <1>1, <1>5, <2>1, <2>4, <2>5
  <2>7. x < h \/ x >= e
    BY <2>3, <2>6 DEF Passed
  <2>. QED
    BY <1>0, <1>1, <2>1, <2>7
<1>7. ASSUME NEW x \in Inner(c + 1) PROVE x \in Inner(h) \cup h..(c - 1)
  <2>1. x \in 1..Len(toks)
    BY DEF Inner
  <2>2. PICK k \in CallOpens : k < c + 1 /\ k <= x /\ \E d \in ClosedBy(k) : x < d
    BY DEF Inner
  <2>3. PICK d \in ClosedBy(k) : x < d
    BY <2>2
  <2>4. k \in Nat \ {0} /\ k \in Nat
    BY <1>0, CallsAndOperands
  <2>5. CASE k < h
    BY <2>1, <2>2, <2>5 DEF Inner
  <2>6. CASE k >= h
    <3>1. k \in h..c
      BY <1>0, <1>1, <2>2, <2>4, <2>6
    <3>2. d <= c /\ d \in Nat
      BY <1>2, <2>4, <3>1, ClosedByProperties
    <3>3. x \in h..(c - 1)
      BY <1>0, <1>1, <2>1, <2>2, <2>3, <2>4, <2>6, <3>2
    <3>. QED
      BY <3>3
  <2>. QED
    BY <1>0, <2>4, <2>5, <2>6
<1>. QED
  BY <1>3, <1>6, <1>7

\* Any other parenthesis holds an operand, which is then read.
LEMMA PassOpenParen ==
    ASSUME toks \in Seq(TkTypes), NEW h \in 1..Len(toks), NEW e \in Int,
           Passed(h, e), toks[h] = "open_paren_", h \notin CallOpens,
           NEW c \in ClosedBy(h), c < e
    PROVE  h \in OperandParens /\ Passed(h + 1, c) /\ Inner(h + 1) = Inner(h)
<1>0. Len(toks) \in Nat /\ h \in Nat \ {0}
  BY LenProperties
<1>1. c \in Nat /\ h < c
  BY <1>0, ClosedByProperties
<1>2. h \notin Arguments
  <2>. SUFFICES ASSUME NEW k \in CallOpens, h \in ArgumentsOf(k) PROVE FALSE
    BY DEF Arguments
  <2>1. PICK d \in ClosedBy(k) : h <= d
    BY DEF ArgumentsOf
  <2>2. k \in Nat \ {0} /\ k \in 1..(h - 1) /\ k \notin OperandParens
    <3>1. k \in 1..Len(toks) /\ k \notin OperandParens
      BY CallsAndOperands
    <3>2. h \in (k + 1)..Len(toks)
      BY DEF ArgumentsOf
    <3>. QED
      BY <1>0, <3>1, <3>2
  <2>3. d < h /\ d \in Nat
    BY <2>2, ClosedByProperties DEF Passed
  <2>. QED
    BY <1>0, <2>1, <2>3
<1>3. h \in OperandParens
  BY <1>2 DEF OperandParens
<1>4. Passed(h + 1, c)
  <2>. SUFFICES ASSUME NEW k \in 1..(h + 1 - 1), NEW d \in ClosedBy(k)
                PROVE  d < h + 1 \/ (k \in OperandParens /\ d >= c)
    BY DEF Passed
  <2>1. k \in Nat \ {0} /\ d \in Nat
    <3>1. k \in Nat \ {0}
      BY <1>0
    <3>. QED
      BY <3>1, ClosedByProperties
  <2>2. CASE k = h
    <3>1. d = c
      BY <1>0, <2>2, ClosesOnce
    <3>. QED
      BY <1>1, <1>3, <2>2, <3>1
  <2>3. CASE k # h
    <3>1. k \in 1..(h - 1)
      BY <1>0, <2>1, <2>3
    <3>2. d < h \/ (k \in OperandParens /\ d >= e)
      BY <3>1 DEF Passed
    <3>. QED
      BY <1>0, <1>1, <2>1, <3>2
  <2>. QED
    BY <2>2, <2>3
<1>5. \A k \in CallOpens : k < h + 1 <=> k < h
  BY <1>0, CallsAndOperands
<1>6. Inner(h + 1) = Inner(h)
  BY <1>5 DEF Inner
<1>. QED
  BY <1>3, <1>4, <1>6

\* The parenthesis at e ends an operand, and what is around it goes on.
LEMMA PassCloseParen ==
    ASSUME toks \in Seq(TkTypes), NEW e \in Nat \ {0}, Passed(e, e),
           NEW k \in OperandParens, e \in ClosedBy(k), NEW E \in Int, Passed(k, E)
    PROVE  /\ Passed(e + 1, E) /\ e \in OperandBrackets /\ Inner(e + 1) = Inner(e)
           /\ e \in 1..Len(toks) /\ IsClosingScope(toks[e])
<1>0. Len(toks) \in Nat /\ k \in Nat \ {0}
  BY LenProperties, CallsAndOperands
<1>1. k < e /\ e \in 1..Len(toks) /\ ~IsOpeningScope(toks[e]) /\ IsClosingScope(toks[e])
  BY <1>0, ClosedByProperties
<1>2. Passed(e + 1, E)
  <2>. SUFFICES ASSUME NEW j \in 1..(e + 1 - 1), NEW d \in ClosedBy(j)
                PROVE  d < e + 1 \/ (j \in OperandParens /\ d >= E)
    BY DEF Passed
  <2>1. j \in Nat \ {0} /\ d \in Nat
    <3>1. j \in Nat \ {0}
      OBVIOUS
    <3>. QED
      BY <3>1, ClosedByProperties
  <2>. SUFFICES ASSUME d > e PROVE j \in OperandParens /\ d >= E
    BY <2>1
  <2>2. j # e
    BY <1>1, <2>1, ClosedByProperties
  <2>3. j # k
    <3>1. j = k => d = e
      BY <1>0, ClosesOnce
    <3>. QED
      BY <2>1, <3>1
  <2>4. ~(k < j)
    <3>1. k < j => d < e
      BY <1>0, <2>1, <2>2, ScopesNest
    <3>. QED
      BY <2>1, <3>1
  <2>5. j \in 1..(k - 1)
    BY <1>0, <2>1, <2>3, <2>4
  <2>6. d < k \/ (j \in OperandParens /\ d >= E)
    BY <2>5 DEF Passed
  <2>. QED
    BY <1>0, <1>1, <2>1, <2>6
<1>3. e \in OperandBrackets
  BY DEF OperandBrackets
<1>4. \A j \in CallOpens : j < e + 1 <=> j < e
  <2>1. e \notin CallOpens
    BY <1>1, CallsAndOperands
  <2>. QED
    BY <1>0, <2>1, CallsAndOperands
<1>5. Inner(e + 1) = Inner(e)
  BY <1>4 DEF Inner
<1>. QED
  BY <1>1, <1>2, <1>3, <1>5

-----------------------------------------------------------------------------
(* The steps.  fs are the parenthesizers before a step and gs after it.    *)

\* All that is said of the parenthesizers fs.
IsState(fs) == AreReading(fs) /\ HaveWritten(fs) /\ HaveSplitNone(fs)

\* The innermost parenthesizer takes the step.
OnlyLastChanges(fs, gs) ==
    LET n == Len(fs)
    IN  /\ n \in Nat \ {0} /\ Len(gs) = n
        /\ \A i \in 1..(n - 1) : gs[i] = fs[i]
        /\ gs[n].end = fs[n].end
        /\ gs[n].expected \in {"operative_", "operator_"} /\ AsExpected(gs[n])

\* Resolving, and a list that is skipped: the head stays.
Rewrites(fs, gs) ==
    LET n == Len(fs)
    IN  /\ OnlyLastChanges(fs, gs)
        /\ gs[n].head = fs[n].head
        /\ IsOutput(gs[n].output) /\ TokensOf(gs[n].output) = TokensOf(fs[n].output)
        /\ \A x \in Inner(fs[n].head) :
              AreNeighbours(x, fs[n].output) => AreNeighbours(x, gs[n].output)
        /\ \A k \in 1..Len(gs[n].closures) : \E j \in 1..Len(fs[n].closures) :
              gs[n].closures[k] = fs[n].closures[j]

\* A rewriting by the innermost parenthesizer keeps the state.
LEMMA RewriteKeeps ==
    ASSUME NEW fs, NEW gs, IsState(fs), Rewrites(fs, gs)
    PROVE  IsState(gs)
<1>1. PICK n \in Nat \ {0} : n = Len(fs)
  BY DEF Rewrites, OnlyLastChanges
<1>2. /\ Len(gs) = n /\ n - 1 \in Nat
      /\ \A i \in 1..(n - 1) : gs[i] = fs[i]
      /\ gs[n].end = fs[n].end /\ gs[n].head = fs[n].head
      /\ \A i \in 1..n : i \in 1..(n - 1) \/ i = n
      /\ \A i \in 1..(n - 1) : i \in 1..n /\ i + 1 \in 1..n
      /\ n \in 1..n
  BY <1>1 DEF Rewrites, OnlyLastChanges
<1>3. \A i \in 1..n : /\ gs[i].end = fs[i].end /\ gs[i].head = fs[i].head
                      /\ TokensOf(gs[i].output) = TokensOf(fs[i].output)
  BY <1>1, <1>2 DEF Rewrites
<1>4. AreReading(gs)
  <2>1. \A i \in 1..n : /\ gs[i].end \in 1..(Len(toks) + 1) /\ gs[i].head \in 1..gs[i].end
                        /\ gs[i].expected \in {"operative_", "operator_"}
    BY <1>1, <1>2, <1>3 DEF IsState, AreReading, Rewrites, OnlyLastChanges
  <2>2. \A i \in 1..(n - 1) : Waits(gs[i], gs[i + 1].end)
    BY <1>1, <1>2, <1>3 DEF IsState, AreReading
  <2>3. Passed(gs[n].head, gs[n].end) /\ AsExpected(gs[n])
    BY <1>1, <1>2 DEF IsState, AreReading, Rewrites, OnlyLastChanges
  <2>. QED
    BY <1>2, <2>1, <2>2, <2>3 DEF AreReading
<1>5. HaveWritten(gs)
  <2>1. \A i \in 1..n : IsOutput(gs[i].output)
    BY <1>1, <1>2 DEF IsState, HaveWritten, Rewrites
  <2>2. \A i, j \in 1..n : i < j =>
           \A x \in TokensOf(gs[i].output), y \in TokensOf(gs[j].output) : x < y
    BY <1>1, <1>3 DEF IsState, HaveWritten
  <2>3. UNION {TokensOf(gs[i].output) : i \in 1..n}
           = UNION {TokensOf(fs[i].output) : i \in 1..n}
    BY <1>3
  <2>4. UNION {TokensOf(gs[i].output) : i \in 1..n} = (1..(gs[n].head - 1)) \ OperandBrackets
    BY <1>1, <1>2, <2>3 DEF IsState, HaveWritten
  <2>. QED
    BY <1>2, <2>1, <2>2, <2>4 DEF HaveWritten
<1>6. HaveSplitNone(gs)
  <2>1. /\ \A i \in 1..n : \A k \in 1..Len(fs[i].closures) : IsWhole(fs[i].closures[k], fs[n].head)
        /\ \A x \in Inner(fs[n].head) : \E i \in 1..n : AreNeighbours(x, fs[i].output)
    BY <1>1 DEF IsState, HaveSplitNone
  <2>2. \A i \in 1..n : \A k \in 1..Len(gs[i].closures) : IsWhole(gs[i].closures[k], gs[n].head)
    <3>. TAKE i \in 1..n
    <3>1. CASE i \in 1..(n - 1)
      BY <1>2, <2>1, <3>1
    <3>2. CASE i = n
      BY <1>1, <1>2, <2>1, <3>2 DEF Rewrites
    <3>. QED
      BY <1>2, <3>1, <3>2
  <2>3. \A x \in Inner(gs[n].head) : \E i \in 1..n : AreNeighbours(x, gs[i].output)
    <3>. TAKE x \in Inner(gs[n].head)
    <3>1. PICK i \in 1..n : AreNeighbours(x, fs[i].output)
      BY <1>2, <2>1
    <3>2. AreNeighbours(x, gs[i].output)
      BY <1>1, <1>2, <3>1 DEF Rewrites
    <3>. QED
      BY <3>2
  <2>. QED
    BY <1>2, <2>2, <2>3 DEF HaveSplitNone
<1>. QED
  BY <1>4, <1>5, <1>6 DEF IsState

\* The head, up to token l, is put out and may become a closure.
PutsOut(fs, gs, l) ==
    LET n == Len(fs)
        h == fs[n].head
    IN  /\ OnlyLastChanges(fs, gs)
        /\ gs[n].head = l + 1
        /\ gs[n].output = fs[n].output \o [k \in 1..(l - h + 1) |-> h + k - 1]
        /\ \A k \in 1..Len(gs[n].closures) :
              \/ gs[n].closures[k].front = h /\ gs[n].closures[k].back = l
              \/ \E j \in 1..Len(fs[n].closures) : gs[n].closures[k] = fs[n].closures[j]
        /\ Passed(l + 1, fs[n].end)
        /\ (h..l) \cap OperandBrackets = {}
        /\ Inner(l + 1) \subseteq Inner(h) \cup h..(l - 1)

\* One of the parenthesizers' numbers.
LEMMA HeadProperties ==
    ASSUME toks \in Seq(TkTypes), NEW fs, Len(fs) \in Nat \ {0}, IsState(fs)
    PROVE  /\ fs[Len(fs)].head \in Nat \ {0} /\ fs[Len(fs)].end \in Nat
           /\ fs[Len(fs)].head <= fs[Len(fs)].end /\ fs[Len(fs)].end <= Len(toks) + 1
           /\ Len(toks) \in Nat
<1>1. Len(toks) \in Nat
  BY LenProperties
<1>2. Len(fs) \in 1..Len(fs)
  OBVIOUS
<1>3. fs[Len(fs)].end \in 1..(Len(toks) + 1) /\ fs[Len(fs)].head \in 1..fs[Len(fs)].end
  BY <1>2 DEF IsState, AreReading
<1>. QED
  BY <1>1, <1>3

\* So does text that it puts out.
LEMMA PutOutKeeps ==
    ASSUME toks \in Seq(TkTypes), NEW fs, NEW gs, IsState(fs),
           NEW l \in fs[Len(fs)].head..(fs[Len(fs)].end - 1), PutsOut(fs, gs, l)
    PROVE  IsState(gs)
<1>1. PICK n \in Nat \ {0} : n = Len(fs)
  BY DEF PutsOut, OnlyLastChanges
<1>2. PICK h \in Nat \ {0} : h = fs[n].head
  BY <1>1, HeadProperties
<1>3. /\ Len(toks) \in Nat /\ l \in Nat /\ h <= l /\ l <= Len(toks)
      /\ fs[n].end \in Nat /\ l + 1 <= fs[n].end
  <2>1. /\ fs[n].end \in Nat /\ Len(toks) \in Nat /\ fs[n].end <= Len(toks) + 1
        /\ l \in h..(fs[n].end - 1)
    BY <1>1, <1>2, HeadProperties
  <2>. QED
    BY <2>1
<1>4. /\ Len(gs) = n /\ n - 1 \in Nat
      /\ \A i \in 1..(n - 1) : gs[i] = fs[i]
      /\ gs[n].end = fs[n].end /\ gs[n].head = l + 1
      /\ \A i \in 1..n : i \in 1..(n - 1) \/ i = n
      /\ \A i \in 1..(n - 1) : i \in 1..n /\ i + 1 \in 1..n
      /\ n \in 1..n
  BY <1>1 DEF PutsOut, OnlyLastChanges
<1>. DEFINE t == [k \in 1..(l - h + 1) |-> h + k - 1]
<1>5. gs[n].output = fs[n].output \o t
  BY <1>1, <1>2 DEF PutsOut
<1>6. IsPart(t) /\ TokensOf(t) = h..l /\ \A x \in h..(l - 1) : AreNeighbours(x, t)
  <2>1. h \in 1..Len(toks) /\ l \in h..Len(toks)
    BY <1>3
  <2>. QED
    BY <2>1, TextIsPart
<1>. HIDE DEF t
<1>7. /\ \A i \in 1..n : IsOutput(fs[i].output)
      /\ \A i, j \in 1..n : i < j =>
            \A x \in TokensOf(fs[i].output), y \in TokensOf(fs[j].output) : x < y
      /\ UNION {TokensOf(fs[i].output) : i \in 1..n} = (1..(h - 1)) \ OperandBrackets
  BY <1>1, <1>2 DEF IsState, HaveWritten
<1>8. \A i \in 1..n : \A x \in TokensOf(fs[i].output) : x \in Nat /\ x < h
  <2>. TAKE i \in 1..n
  <2>1. \A x \in TokensOf(fs[i].output) : x \in 1..(h - 1)
    BY <1>7
  <2>. QED
    BY <2>1
<1>13. \A i \in 1..n : \A x \in TokensOf(fs[i].output), y \in h..l : x < y
  <2>1. \A x \in Nat, y \in h..l : x < h => x < y
    BY <1>3
  <2>. QED
    BY <1>8, <2>1
<1>9. /\ IsOutput(gs[n].output)
      /\ TokensOf(gs[n].output) = TokensOf(fs[n].output) \cup h..l
      /\ \A x : AreNeighbours(x, fs[n].output) \/ AreNeighbours(x, t)
                   => AreNeighbours(x, gs[n].output)
  <2>1. IsOutput(fs[n].output)
    BY <1>4, <1>7
  <2>2. \A x \in TokensOf(fs[n].output), y \in TokensOf(t) : x < y
    BY <1>4, <1>6, <1>13
  <2>. QED
    BY <1>5, <1>6, <2>1, <2>2, LongerOutput
<1>10. AreReading(gs)
  <2>1. \A i \in 1..n : /\ gs[i].end \in 1..(Len(toks) + 1) /\ gs[i].head \in 1..gs[i].end
                        /\ gs[i].expected \in {"operative_", "operator_"}
    <3>. TAKE i \in 1..n
    <3>1. CASE i \in 1..(n - 1)
      BY <1>1, <1>4, <3>1 DEF IsState, AreReading
    <3>2. CASE i = n
      <4>1. fs[n].end \in 1..(Len(toks) + 1)
        BY <1>1, <1>4 DEF IsState, AreReading
      <4>2. l + 1 \in 1..fs[n].end
        BY <1>3
      <4>3. gs[n].expected \in {"operative_", "operator_"}
        BY <1>1 DEF PutsOut, OnlyLastChanges
      <4>. QED
        BY <1>4, <3>2, <4>1, <4>2, <4>3
    <3>. QED
      BY <1>4, <3>1, <3>2
  <2>2. \A i \in 1..(n - 1) : Waits(gs[i], gs[i + 1].end)
    <3>. TAKE i \in 1..(n - 1)
    <3>1. gs[i + 1].end = fs[i + 1].end
      BY <1>4
    <3>. QED
      BY <1>1, <1>4, <3>1 DEF IsState, AreReading
  <2>3. Passed(gs[n].head, gs[n].end) /\ AsExpected(gs[n])
    BY <1>1, <1>4 DEF PutsOut, OnlyLastChanges
  <2>. QED
    BY <1>4, <2>1, <2>2, <2>3 DEF AreReading
<1>11. HaveWritten(gs)
  <2>1. \A i \in 1..n : IsOutput(gs[i].output)
    BY <1>4, <1>7, <1>9
  <2>2. ASSUME NEW i \in 1..n, NEW j \in 1..n, i < j
        PROVE  \A x \in TokensOf(gs[i].output), y \in TokensOf(gs[j].output) : x < y
    <3>1. i \in 1..(n - 1) /\ gs[i] = fs[i]
      BY <1>4, <2>2
    <3>2. CASE j \in 1..(n - 1)
      BY <1>4, <1>7, <2>2, <3>1, <3>2
    <3>3. CASE j = n
      <4>1. \A x \in TokensOf(fs[i].output), y \in TokensOf(fs[n].output) : x < y
        BY <1>7, <2>2, <3>3
      <4>2. \A x \in TokensOf(fs[i].output), y \in h..l : x < y
        BY <1>13
      <4>. QED
        BY <1>9, <3>1, <3>3, <4>1, <4>2
    <3>. QED
      BY <1>4, <3>2, <3>3
  <2>3. \A x : (\E i \in 1..n : x \in TokensOf(gs[i].output))
                 <=> x \in (1..l) \ OperandBrackets
    <3>. TAKE x
    <3>1. (\E i \in 1..n : x \in TokensOf(fs[i].output)) <=> x \in (1..(h - 1)) \ OperandBrackets
      BY <1>7
    <3>2. (\E i \in 1..n : x \in TokensOf(gs[i].output))
             <=> (\E i \in 1..n : x \in TokensOf(fs[i].output)) \/ x \in h..l
      <4>1. ASSUME NEW i \in 1..n, x \in TokensOf(gs[i].output)
            PROVE  (\E j \in 1..n : x \in TokensOf(fs[j].output)) \/ x \in h..l
        BY <1>4, <1>9, <4>1
      <4>2. ASSUME NEW i \in 1..n, x \in TokensOf(fs[i].output)
            PROVE  \E j \in 1..n : x \in TokensOf(gs[j].output)
        BY <1>4, <1>9, <4>2
      <4>3. x \in h..l => \E j \in 1..n : x \in TokensOf(gs[j].output)
        BY <1>4, <1>9
      <4>. QED
        BY <4>1, <4>2, <4>3
    <3>3. x \in h..l => x \notin OperandBrackets
      BY <1>1, <1>2 DEF PutsOut
    <3>4. x \in 1..l <=> x \in 1..(h - 1) \/ x \in h..l
      BY <1>3
    <3>. QED
      BY <3>1, <3>2, <3>3, <3>4
  <2>4. UNION {TokensOf(gs[i].output) : i \in 1..n} = (1..(gs[n].head - 1)) \ OperandBrackets
    <3>1. gs[n].head - 1 = l
      BY <1>3, <1>4
    <3>2. \A x : x \in UNION {TokensOf(gs[i].output) : i \in 1..n}
                    <=> \E i \in 1..n : x \in TokensOf(gs[i].output)
      OBVIOUS
    <3>. QED
      BY <2>3, <3>1, <3>2
  <2>. QED
    BY <1>4, <2>1, <2>2, <2>4 DEF HaveWritten
<1>12. HaveSplitNone(gs)
  <2>1. /\ \A i \in 1..n : \A k \in 1..Len(fs[i].closures) : IsWhole(fs[i].closures[k], h)
        /\ \A x \in Inner(h) : \E i \in 1..n : AreNeighbours(x, fs[i].output)
    BY <1>1, <1>2 DEF IsState, HaveSplitNone
  <2>2. Inner(l + 1) \subseteq Inner(h) \cup h..(l - 1)
    BY <1>1, <1>2 DEF PutsOut
  <2>3. \A x \in Inner(h) : x \in Nat \ {0} /\ x + 1 < h
    <3>1. Passed(h, fs[n].end)
      BY <1>1, <1>2 DEF IsState, AreReading
    <3>. QED
      BY <3>1, InnerIsBehind
  <2>4. \A c : IsWhole(c, h) => IsWhole(c, l + 1)
    <3>. SUFFICES ASSUME NEW c, IsWhole(c, h) PROVE IsWhole(c, l + 1)
      OBVIOUS
    <3>1. /\ c.front \in 0..(h - 1) /\ c.back \in 0..(h - 1)
          /\ c.front - 1 \notin Inner(h) /\ c.back \notin Inner(h)
      BY DEF IsWhole
    <3>2. c.front \in 0..(l + 1 - 1) /\ c.back \in 0..(l + 1 - 1)
      BY <1>3, <3>1
    <3>3. c.front - 1 \notin h..(l - 1) /\ c.back \notin h..(l - 1)
      BY <1>3, <3>1
    <3>. QED
      BY <2>2, <3>1, <3>2, <3>3 DEF IsWhole
  <2>5. \A c : c.front = h /\ c.back = l => IsWhole(c, l + 1)
    <3>1. h \in 0..(l + 1 - 1) /\ l \in 0..(l + 1 - 1)
      BY <1>3
    <3>2. h - 1 \notin Inner(h) /\ l \notin Inner(h)
      BY <1>3, <2>3
    <3>3. h - 1 \notin h..(l - 1) /\ l \notin h..(l - 1)
      BY <1>3
    <3>. QED
      BY <2>2, <3>1, <3>2, <3>3 DEF IsWhole
  <2>6. \A i \in 1..n : \A k \in 1..Len(gs[i].closures) : IsWhole(gs[i].closures[k], l + 1)
    <3>. TAKE i \in 1..n
    <3>1. CASE i \in 1..(n - 1)
      BY <1>4, <2>1, <2>4, <3>1
    <3>2. CASE i = n
      <4>. SUFFICES ASSUME NEW k \in 1..Len(gs[n].closures)
                    PROVE  IsWhole(gs[n].closures[k], l + 1)
        BY <3>2
      <4>1. \/ gs[n].closures[k].front = h /\ gs[n].closures[k].back = l
            \/ \E j \in 1..Len(fs[n].closures) : gs[n].closures[k] = fs[n].closures[j]
        BY <1>1, <1>2 DEF PutsOut
      <4>. QED
        BY <1>4, <2>1, <2>4, <2>5, <4>1
    <3>. QED
      BY <1>4, <3>1, <3>2
  <2>7. \A x \in Inner(l + 1) : \E i \in 1..n : AreNeighbours(x, gs[i].output)
    <3>. TAKE x \in Inner(l + 1)
    <3>1. CASE x \in Inner(h)
      <4>1. PICK i \in 1..n : AreNeighbours(x, fs[i].output)
        BY <2>1, <3>1
      <4>2. AreNeighbours(x, gs[i].output)
        BY <1>4, <1>9, <4>1
      <4>. QED
        BY <4>2
    <3>2. CASE x \in h..(l - 1)
      BY <1>4, <1>6, <1>9, <3>2
    <3>. QED
      BY <2>2, <3>1, <3>2
  <2>. QED
    BY <1>4, <2>6, <2>7 DEF HaveSplitNone
<1>. QED
  BY <1>10, <1>11, <1>12 DEF IsState

\* A closure stays whole as long as no call is put out.
LEMMA StaysWhole ==
    ASSUME NEW h \in Nat \ {0}, Inner(h + 1) = Inner(h), NEW c, IsWhole(c, h)
    PROVE  IsWhole(c, h + 1)
<1>1. c.front \in 0..(h - 1) /\ c.back \in 0..(h - 1)
  BY DEF IsWhole
<1>2. c.front \in 0..(h + 1 - 1) /\ c.back \in 0..(h + 1 - 1)
  BY <1>1
<1>. QED
  BY <1>2 DEF IsWhole

\* An operand is entered: its parenthesis is at h and closes at c.
Enters(fs, gs, c) ==
    LET n == Len(fs)
        h == fs[n].head
    IN  /\ n \in Nat \ {0} /\ Len(gs) = n + 1
        /\ \A i \in 1..(n - 1) : gs[i] = fs[i]
        /\ gs[n].end = fs[n].end /\ gs[n].head = c + 1 /\ gs[n].expected = "operator_"
        /\ gs[n].output = fs[n].output /\ gs[n].closures = fs[n].closures
        /\ gs[n + 1] = NewParenthesizer(h + 1, c)
        /\ h \in OperandParens /\ c \in ClosedBy(h)
        /\ Passed(h + 1, c) /\ Inner(h + 1) = Inner(h)

\* A new parenthesizer has put nothing out.
IsNew(q, h, c) ==
    /\ q.head = h /\ q.end = c /\ q.expected = "operative_"
    /\ IsOutput(q.output) /\ TokensOf(q.output) = {}
    /\ Len(q.closures) = 1
    /\ q.closures[1].front = Sentinel /\ q.closures[1].back = Sentinel

\* NewParenthesizer makes a new one.
LEMMA NewProperties ==
    ASSUME toks \in Seq(TkTypes), NEW h, NEW c
    PROVE  IsNew(NewParenthesizer(h, c), h, c)
<1>1. Len(toks) \in Nat
  BY LenProperties
<1>. DEFINE s == <<Sentinel>>
<1>2. s \in Seq(CloseParen..Len(toks)) /\ Len(s) = 1 /\ s[1] = Sentinel /\ s # <<>>
  BY <1>1 DEF Sentinel, CloseParen
<1>. HIDE DEF s
<1>3. \A i \in 1..Len(s) : s[i] = Sentinel
  BY <1>2
<1>4. TokensOf(s) = {}
  <2>1. \A x : x \notin TokensOf(s)
    BY <1>3, TokensAndMarks
  <2>. QED
    BY <2>1
<1>5. IsOutput(s)
  BY <1>2, <1>4 DEF IsOutput, IsInOrder
<1>. QED
  BY <1>4, <1>5 DEF NewParenthesizer, IsNew, s

\* The state is kept when an operand is entered.
LEMMA EnterKeepsState ==
    ASSUME toks \in Seq(TkTypes), NEW fs, NEW gs, IsState(fs),
           NEW c \in (fs[Len(fs)].head + 1)..(fs[Len(fs)].end - 1), Enters(fs, gs, c)
    PROVE  IsState(gs)
<1>1. PICK n \in Nat \ {0} : n = Len(fs)
  BY DEF Enters
<1>2. PICK h \in Nat \ {0} : h = fs[n].head
  BY <1>1, HeadProperties
<1>3. /\ Len(toks) \in Nat /\ c \in Nat /\ h < c /\ c <= Len(toks)
      /\ fs[n].end \in Nat /\ c + 1 <= fs[n].end
  <2>1. /\ fs[n].end \in Nat /\ Len(toks) \in Nat /\ fs[n].end <= Len(toks) + 1
        /\ c \in (h + 1)..(fs[n].end - 1)
    BY <1>1, <1>2, HeadProperties
  <2>. QED
    BY <2>1
<1>4. /\ \A i \in 1..(n - 1) : gs[i] = fs[i]
      /\ gs[n].end = fs[n].end /\ gs[n].head = c + 1 /\ gs[n].expected = "operator_"
      /\ gs[n].output = fs[n].output /\ gs[n].closures = fs[n].closures
      /\ gs[n + 1] = NewParenthesizer(h + 1, c)
      /\ h \in OperandParens /\ c \in ClosedBy(h)
      /\ Passed(h + 1, c) /\ Inner(h + 1) = Inner(h)
  BY <1>1, <1>2 DEF Enters
<1>5. PICK m \in Nat \ {0} : m = n + 1
  OBVIOUS
<1>6. /\ Len(gs) = m /\ m - 1 = n /\ n \in 1..n /\ m \in 1..m /\ h + 1 - 1 = h
      /\ \A i \in 1..m : i \in 1..n \/ i = m
      /\ \A i \in 1..n : i \in 1..(n - 1) \/ i = n
      /\ \A i \in 1..(n - 1) : i \in 1..n /\ i + 1 \in 1..n
      /\ \A i \in 1..n : i \in 1..m
  BY <1>1, <1>5 DEF Enters
<1>7. LET q == gs[m]
      IN  /\ q.head = h + 1 /\ q.end = c /\ q.expected = "operative_"
          /\ IsOutput(q.output) /\ TokensOf(q.output) = {}
          /\ Len(q.closures) = 1
          /\ q.closures[1].front = Sentinel /\ q.closures[1].back = Sentinel
  <2>1. gs[m] = NewParenthesizer(h + 1, c)
    BY <1>4, <1>5
  <2>2. IsNew(NewParenthesizer(h + 1, c), h + 1, c)
    BY NewProperties
  <2>. QED
    BY <2>1, <2>2 DEF IsNew
<1>8. /\ \A i \in 1..n : gs[i].end = fs[i].end
      /\ \A i \in 1..n : gs[i].output = fs[i].output /\ gs[i].closures = fs[i].closures
  BY <1>4, <1>6
<1>9. AreReading(gs)
  <2>1. \A i \in 1..m : /\ gs[i].end \in 1..(Len(toks) + 1) /\ gs[i].head \in 1..gs[i].end
                        /\ gs[i].expected \in {"operative_", "operator_"}
    <3>. TAKE i \in 1..m
    <3>1. CASE i \in 1..(n - 1)
      BY <1>1, <1>4, <1>6, <3>1 DEF IsState, AreReading
    <3>2. CASE i = n
      <4>1. fs[n].end \in 1..(Len(toks) + 1)
        BY <1>1, <1>6 DEF IsState, AreReading
      <4>2. c + 1 \in 1..fs[n].end
        BY <1>3
      <4>. QED
        BY <1>4, <3>2, <4>1, <4>2
    <3>3. CASE i = m
      <4>1. c \in 1..(Len(toks) + 1) /\ h + 1 \in 1..c
        BY <1>3
      <4>. QED
        BY <1>7, <3>3, <4>1
    <3>. QED
      BY <1>6, <3>1, <3>2, <3>3
  <2>2. \A i \in 1..n : Waits(gs[i], gs[i + 1].end)
    <3>. TAKE i \in 1..n
    <3>1. CASE i \in 1..(n - 1)
      <4>1. gs[i + 1].end = fs[i + 1].end
        BY <1>6, <1>8, <3>1
      <4>. QED
        BY <1>1, <1>4, <3>1, <4>1 DEF IsState, AreReading
    <3>2. CASE i = n
      <4>1. Passed(h, fs[n].end)
        BY <1>1, <1>2 DEF IsState, AreReading
      <4>2. gs[n + 1].end = c
        BY <1>5, <1>7
      <4>3. Waits(gs[n], c)
        BY <1>4, <4>1 DEF Waits
      <4>. QED
        BY <3>2, <4>2, <4>3
    <3>. QED
      BY <1>6, <3>1, <3>2
  <2>3. Passed(gs[m].head, gs[m].end)
    BY <1>4, <1>7
  <2>4. AsExpected(gs[m])
    <3>1. ~EndsOperand(toks[h])
      BY <1>4, CallsAndOperands DEF EndsOperand, OpeningScopes
    <3>2. toks[gs[m].head - 1] = toks[h]
      BY <1>6, <1>7
    <3>. QED
      BY <1>7, <3>1, <3>2 DEF AsExpected
  <2>. QED
    BY <1>6, <2>1, <2>2, <2>3, <2>4 DEF AreReading
<1>10. HaveWritten(gs)
  <2>0. /\ \A i \in 1..n : IsOutput(fs[i].output)
        /\ \A i, j \in 1..n : i < j =>
              \A x \in TokensOf(fs[i].output), y \in TokensOf(fs[j].output) : x < y
        /\ UNION {TokensOf(fs[i].output) : i \in 1..n} = (1..(h - 1)) \ OperandBrackets
    BY <1>1, <1>2 DEF IsState, HaveWritten
  <2>1. \A i \in 1..m : IsOutput(gs[i].output)
    BY <1>6, <1>7, <1>8, <2>0
  <2>2. ASSUME NEW i \in 1..m, NEW j \in 1..m, i < j
        PROVE  \A x \in TokensOf(gs[i].output), y \in TokensOf(gs[j].output) : x < y
    <3>1. i \in 1..n
      BY <1>5, <2>2
    <3>2. CASE j \in 1..n
      BY <1>8, <2>0, <2>2, <3>1, <3>2
    <3>3. CASE j = m
      BY <1>7, <3>3
    <3>. QED
      BY <1>6, <3>2, <3>3
  <2>3. UNION {TokensOf(gs[i].output) : i \in 1..m}
           = UNION {TokensOf(fs[i].output) : i \in 1..n}
    <3>1. \A x : (\E i \in 1..m : x \in TokensOf(gs[i].output))
                   <=> \E i \in 1..n : x \in TokensOf(fs[i].output)
      <4>. TAKE x
      <4>1. ASSUME NEW i \in 1..m, x \in TokensOf(gs[i].output)
            PROVE  \E j \in 1..n : x \in TokensOf(fs[j].output)
        BY <1>6, <1>7, <1>8, <4>1
      <4>2. ASSUME NEW i \in 1..n, x \in TokensOf(fs[i].output)
            PROVE  \E j \in 1..m : x \in TokensOf(gs[j].output)
        BY <1>6, <1>8, <4>2
      <4>. QED
        BY <4>1, <4>2
    <3>. QED
      BY <3>1
  <2>4. (1..(h - 1)) \ OperandBrackets = (1..h) \ OperandBrackets
    <3>1. h \in OperandBrackets
      BY <1>4 DEF OperandBrackets
    <3>2. \A x \in 1..h : x \in 1..(h - 1) \/ x = h
      OBVIOUS
    <3>3. 1..(h - 1) \subseteq 1..h
      OBVIOUS
    <3>. QED
      BY <3>1, <3>2, <3>3
  <2>5. gs[m].head - 1 = h
    BY <1>6, <1>7
  <2>. QED
    BY <1>6, <2>0, <2>1, <2>2, <2>3, <2>4, <2>5 DEF HaveWritten
<1>11. HaveSplitNone(gs)
  <2>1. /\ \A i \in 1..n : \A k \in 1..Len(fs[i].closures) : IsWhole(fs[i].closures[k], h)
        /\ \A x \in Inner(h) : \E i \in 1..n : AreNeighbours(x, fs[i].output)
    BY <1>1, <1>2 DEF IsState, HaveSplitNone
  <2>2. \A c2 : IsWhole(c2, h) => IsWhole(c2, h + 1)
    BY <1>4, StaysWhole
  <2>3. \A i \in 1..m : \A k \in 1..Len(gs[i].closures) : IsWhole(gs[i].closures[k], h + 1)
    <3>. TAKE i \in 1..m
    <3>1. CASE i \in 1..n
      BY <1>8, <2>1, <2>2, <3>1
    <3>2. CASE i = m
      <4>. SUFFICES ASSUME NEW k \in 1..Len(gs[m].closures)
                    PROVE  IsWhole(gs[m].closures[k], h + 1)
        BY <3>2
      <4>1. gs[m].closures[k].front = 0 /\ gs[m].closures[k].back = 0
        BY <1>7 DEF Sentinel
      <4>2. 0 \notin Inner(h + 1) /\ 0 - 1 \notin Inner(h + 1)
        BY DEF Inner
      <4>3. 0 \in 0..(h + 1 - 1)
        OBVIOUS
      <4>. QED
        BY <4>1, <4>2, <4>3 DEF IsWhole
    <3>. QED
      BY <1>6, <3>1, <3>2
  <2>4. \A x \in Inner(h + 1) : \E i \in 1..m : AreNeighbours(x, gs[i].output)
    <3>. TAKE x \in Inner(h + 1)
    <3>1. PICK i \in 1..n : AreNeighbours(x, fs[i].output)
      BY <1>4, <2>1
    <3>2. i \in 1..m /\ AreNeighbours(x, gs[i].output)
      BY <1>6, <1>8, <3>1
    <3>. QED
      BY <3>2
  <2>. QED
    BY <1>6, <1>7, <2>3, <2>4 DEF HaveSplitNone
<1>. QED
  BY <1>9, <1>10, <1>11 DEF IsState

\* An operand is left.
Leaves(fs, gs) ==
    LET n == Len(fs)
    IN  /\ n \in Nat \ {0, 1} /\ Len(gs) = n - 1
        /\ \A i \in 1..(n - 2) : gs[i] = fs[i]
        /\ gs[n - 1].end = fs[n - 1].end /\ gs[n - 1].head = fs[n - 1].head
        /\ gs[n - 1].expected = fs[n - 1].expected
        /\ gs[n - 1].closures = fs[n - 1].closures
        /\ gs[n - 1].output = fs[n - 1].output \o Tail(fs[n].output)
        /\ fs[n].head = fs[n].end

\* The state is kept when an operand is left.
LEMMA LeaveKeepsState ==
    ASSUME toks \in Seq(TkTypes), NEW fs, NEW gs, IsState(fs), Leaves(fs, gs)
    PROVE  IsState(gs)
<1>1. PICK n \in Nat \ {0, 1} : n = Len(fs)
  BY DEF Leaves
<1>2. PICK e \in Nat \ {0} : e = fs[n].end
  <2>1. n \in Nat \ {0}
    OBVIOUS
  <2>2. fs[n].head \in Nat \ {0} /\ fs[n].head = fs[n].end
    BY <1>1, <2>1, HeadProperties DEF Leaves
  <2>. QED
    BY <2>2
<1>3. PICK m \in Nat \ {0} : m = n - 1
  <2>1. n - 1 \in Nat \ {0}
    OBVIOUS
  <2>. QED
    BY <2>1
<1>4. /\ Len(gs) = m /\ m + 1 = n /\ n - 2 = m - 1 /\ m \in 1..m /\ m < n /\ n \in 1..n
      /\ \A i \in 1..m : i \in 1..(m - 1) \/ i = m
      /\ \A i \in 1..m : i \in 1..n /\ i < n /\ i \in 1..(n - 1)
      /\ \A i \in 1..n : i \in 1..m \/ i = n
      /\ \A i \in 1..(m - 1) : i \in 1..m /\ i + 1 \in 1..m
  BY <1>1, <1>3 DEF Leaves
<1>5. /\ \A i \in 1..(m - 1) : gs[i] = fs[i]
      /\ gs[m].end = fs[m].end /\ gs[m].head = fs[m].head
      /\ gs[m].expected = fs[m].expected /\ gs[m].closures = fs[m].closures
      /\ gs[m].output = fs[m].output \o Tail(fs[n].output)
      /\ fs[n].head = e
  BY <1>1, <1>2, <1>3, <1>4 DEF Leaves
<1>6. \A i \in 1..m : /\ gs[i].end = fs[i].end /\ gs[i].head = fs[i].head
                      /\ gs[i].expected = fs[i].expected /\ gs[i].closures = fs[i].closures
  BY <1>4, <1>5
<1>7. /\ \A i \in 1..n : /\ fs[i].end \in 1..(Len(toks) + 1) /\ fs[i].head \in 1..fs[i].end
                         /\ fs[i].expected \in {"operative_", "operator_"}
      /\ Passed(e, e)
      /\ \A i \in 1..(n - 1) : Waits(fs[i], fs[i + 1].end)
  BY <1>1, <1>2, <1>5 DEF IsState, AreReading
<1>8. Waits(fs[m], e)
  BY <1>2, <1>4, <1>7
<1>9. /\ fs[m].head = e + 1 /\ fs[m].expected = "operator_"
      /\ Passed(e + 1, fs[m].end) /\ e \in OperandBrackets /\ Inner(e + 1) = Inner(e)
      /\ IsClosingScope(toks[e])
  <2>1. PICK k \in OperandParens : e \in ClosedBy(k) /\ Passed(k, fs[m].end)
    BY <1>8 DEF Waits
  <2>2. fs[m].end \in Int
    BY <1>4, <1>7
  <2>3. /\ Passed(e + 1, fs[m].end) /\ e \in OperandBrackets /\ Inner(e + 1) = Inner(e)
        /\ IsClosingScope(toks[e])
    BY <1>7, <2>1, <2>2, PassCloseParen
  <2>. QED
    BY <1>8, <2>3 DEF Waits
<1>10. AreReading(gs)
  <2>1. \A i \in 1..m : /\ gs[i].end \in 1..(Len(toks) + 1) /\ gs[i].head \in 1..gs[i].end
                        /\ gs[i].expected \in {"operative_", "operator_"}
    BY <1>4, <1>6, <1>7
  <2>2. \A i \in 1..(m - 1) : Waits(gs[i], gs[i + 1].end)
    <3>. TAKE i \in 1..(m - 1)
    <3>1. gs[i + 1].end = fs[i + 1].end /\ gs[i] = fs[i] /\ i \in 1..(n - 1)
      BY <1>4, <1>5, <1>6
    <3>. QED
      BY <1>7, <3>1
  <2>3. Passed(gs[m].head, gs[m].end)
    BY <1>5, <1>9
  <2>4. AsExpected(gs[m])
    <3>1. EndsOperand(toks[e])
      BY <1>9 DEF EndsOperand, Operation, ScopeTokens, IsClosingScope, OpeningScopes,
         ClosingScopes
    <3>2. gs[m].head - 1 = e /\ gs[m].head > 1
      BY <1>5, <1>9
    <3>. QED
      BY <1>5, <1>9, <3>1, <3>2 DEF AsExpected
  <2>. QED
    BY <1>4, <2>1, <2>2, <2>3, <2>4 DEF AreReading
<1>11. /\ \A i \in 1..n : IsOutput(fs[i].output)
       /\ \A i, j \in 1..n : i < j =>
             \A x \in TokensOf(fs[i].output), y \in TokensOf(fs[j].output) : x < y
       /\ UNION {TokensOf(fs[i].output) : i \in 1..n} = (1..(e - 1)) \ OperandBrackets
  BY <1>1, <1>2, <1>5 DEF IsState, HaveWritten
<1>12. /\ IsPart(Tail(fs[n].output)) /\ TokensOf(Tail(fs[n].output)) = TokensOf(fs[n].output)
       /\ \A x : x # Sentinel /\ AreNeighbours(x, fs[n].output)
                    => AreNeighbours(x, Tail(fs[n].output))
  BY <1>4, <1>11, TailIsPart
<1>13. /\ IsOutput(gs[m].output)
       /\ TokensOf(gs[m].output) = TokensOf(fs[m].output) \cup TokensOf(fs[n].output)
       /\ \A x : AreNeighbours(x, fs[m].output) \/ AreNeighbours(x, Tail(fs[n].output))
                    => AreNeighbours(x, gs[m].output)
  <2>1. IsOutput(fs[m].output)
    BY <1>4, <1>11
  <2>2. \A x \in TokensOf(fs[m].output), y \in TokensOf(Tail(fs[n].output)) : x < y
    BY <1>4, <1>11, <1>12
  <2>. QED
    BY <1>5, <1>12, <2>1, <2>2, LongerOutput
<1>14. HaveWritten(gs)
  <2>1. \A i \in 1..m : IsOutput(gs[i].output)
    BY <1>4, <1>5, <1>11, <1>13
  <2>2. ASSUME NEW i \in 1..m, NEW j \in 1..m, i < j
        PROVE  \A x \in TokensOf(gs[i].output), y \in TokensOf(gs[j].output) : x < y
    <3>1. i \in 1..(m - 1) /\ gs[i] = fs[i] /\ i \in 1..n /\ i < n /\ j \in 1..n
      <4>1. i \in 1..(m - 1)
        BY <2>2
      <4>. QED
        BY <1>4, <1>5, <4>1
    <3>2. \A x \in TokensOf(fs[i].output), y \in TokensOf(fs[j].output) : x < y
      BY <1>11, <2>2, <3>1
    <3>3. \A x \in TokensOf(fs[i].output), y \in TokensOf(fs[n].output) : x < y
      BY <1>4, <1>11, <3>1
    <3>4. CASE j \in 1..(m - 1)
      BY <1>5, <3>1, <3>2, <3>4
    <3>5. CASE j = m
      BY <1>13, <3>1, <3>2, <3>3, <3>5
    <3>. QED
      BY <1>4, <3>4, <3>5
  <2>3. UNION {TokensOf(gs[i].output) : i \in 1..m}
           = UNION {TokensOf(fs[i].output) : i \in 1..n}
    <3>1. \A x : (\E i \in 1..m : x \in TokensOf(gs[i].output))
                   <=> \E i \in 1..n : x \in TokensOf(fs[i].output)
      <4>. TAKE x
      <4>1. ASSUME NEW i \in 1..m, x \in TokensOf(gs[i].output)
            PROVE  \E j \in 1..n : x \in TokensOf(fs[j].output)
        <5>1. CASE i \in 1..(m - 1)
          BY <1>4, <1>5, <4>1, <5>1
        <5>2. CASE i = m
          BY <1>4, <1>13, <4>1, <5>2
        <5>. QED
          BY <1>4, <5>1, <5>2
      <4>2. ASSUME NEW i \in 1..n, x \in TokensOf(fs[i].output)
            PROVE  \E j \in 1..m : x \in TokensOf(gs[j].output)
        <5>1. CASE i \in 1..(m - 1)
          BY <1>4, <1>5, <4>2, <5>1
        <5>2. CASE i = m \/ i = n
          BY <1>4, <1>13, <4>2, <5>2
        <5>. QED
          BY <1>4, <5>1, <5>2
      <4>. QED
        BY <4>1, <4>2
    <3>. QED
      BY <3>1
  <2>4. (1..(e - 1)) \ OperandBrackets = (1..e) \ OperandBrackets
    <3>1. \A x \in 1..e : x \in 1..(e - 1) \/ x = e
      OBVIOUS
    <3>2. 1..(e - 1) \subseteq 1..e
      OBVIOUS
    <3>. QED
      BY <1>9, <3>1, <3>2
  <2>5. gs[m].head - 1 = e
    BY <1>5, <1>9
  <2>. QED
    BY <1>4, <1>11, <2>1, <2>2, <2>3, <2>4, <2>5 DEF HaveWritten
<1>15. HaveSplitNone(gs)
  <2>1. /\ \A i \in 1..n : \A k \in 1..Len(fs[i].closures) : IsWhole(fs[i].closures[k], e)
        /\ \A x \in Inner(e) : \E i \in 1..n : AreNeighbours(x, fs[i].output)
    BY <1>1, <1>5 DEF IsState, HaveSplitNone
  <2>2. \A c : IsWhole(c, e) => IsWhole(c, e + 1)
    BY <1>9, StaysWhole
  <2>3. \A i \in 1..m : \A k \in 1..Len(gs[i].closures) : IsWhole(gs[i].closures[k], e + 1)
    BY <1>4, <1>6, <2>1, <2>2
  <2>4. \A x \in Inner(e + 1) : \E i \in 1..m : AreNeighbours(x, gs[i].output)
    <3>. TAKE x \in Inner(e + 1)
    <3>1. PICK i \in 1..n : AreNeighbours(x, fs[i].output)
      BY <1>9, <2>1
    <3>2. x # Sentinel
      BY DEF Inner, Sentinel
    <3>3. CASE i \in 1..(m - 1)
      BY <1>4, <1>5, <3>1, <3>3
    <3>4. CASE i = m \/ i = n
      BY <1>4, <1>12, <1>13, <3>1, <3>2, <3>4
    <3>. QED
      BY <1>4, <3>3, <3>4
  <2>. QED
    BY <1>4, <1>5, <1>9, <2>3, <2>4 DEF HaveSplitNone
<1>. QED
  BY <1>10, <1>14, <1>15 DEF IsState

-----------------------------------------------------------------------------
(* The invariant, and the steps of Next.                                   *)

\* The strengthening of TypeOK, KeepsTokens and ScopesStayWhole.
RewritingInv ==
    /\ ClosuresInv
    /\ toks \in Seq(TkTypes) /\ verdict \in {"none", "done", "throws"}
    /\ IsState(Frames)

\* The parenthesizers, innermost last.
LEMMA FramesAre ==
    ASSUME NEW cs, NEW q, \E S : cs \in Seq(S)
    PROVE  /\ Len(cs) \in Nat /\ Len(Append(cs, q)) = Len(cs) + 1
           /\ Append(cs, q)[Len(cs) + 1] = q
           /\ \A i \in 1..Len(cs) : Append(cs, q)[i] = cs[i]
<1>1. PICK S : cs \in Seq(S)
  OBVIOUS
<1>2. cs \in Seq(S \cup {q}) /\ q \in S \cup {q}
  <2>1. Len(cs) \in Nat /\ cs \in [1..Len(cs) -> S]
    BY <1>1, LenProperties
  <2>2. cs \in [1..Len(cs) -> S \cup {q}]
    BY <2>1
  <2>. QED
    BY <2>1, <2>2, SeqDef
<1>. QED
  BY <1>2, AppendProperties, LenProperties

\* What the invariant says of p.
LEMMA RunningIs ==
    ASSUME RewritingInv
    PROVE  /\ Len(Frames) \in Nat \ {0} /\ Frames[Len(Frames)] = p
           /\ Len(Frames) = Len(callers) + 1 /\ Len(callers) \in Nat
           /\ \A i \in 1..Len(callers) : Frames[i] = callers[i]
           /\ IsParenthesizer(p) /\ IsOutput(p.output)
           /\ p.head \in Nat \ {0} /\ p.end \in Nat /\ p.head <= p.end
           /\ p.end <= Len(toks) + 1 /\ Len(toks) \in Nat
           /\ Passed(p.head, p.end) /\ AsExpected(p)
           /\ p.expected \in {"operative_", "operator_"}
           /\ \A k \in 1..Len(p.closures) : IsWhole(p.closures[k], p.head)
<1>1. /\ Len(callers) \in Nat /\ Len(Frames) = Len(callers) + 1
      /\ Frames[Len(callers) + 1] = p
      /\ \A i \in 1..Len(callers) : Frames[i] = callers[i]
  BY FramesAre DEF RewritingInv, ClosuresInv, Frames
<1>2. PICK n \in Nat \ {0} : n = Len(Frames)
  BY <1>1
<1>3. Frames[n] = p /\ n \in 1..n
  BY <1>1, <1>2
<1>4. /\ Passed(p.head, p.end) /\ AsExpected(p)
      /\ p.expected \in {"operative_", "operator_"}
  BY <1>2, <1>3 DEF RewritingInv, IsState, AreReading
<1>5. IsOutput(p.output)
  BY <1>2, <1>3 DEF RewritingInv, IsState, HaveWritten
<1>6. \A k \in 1..Len(p.closures) : IsWhole(p.closures[k], p.head)
  BY <1>2, <1>3 DEF RewritingInv, IsState, HaveSplitNone
<1>7. /\ p.head \in Nat \ {0} /\ p.end \in Nat /\ p.head <= p.end
      /\ p.end <= Len(toks) + 1 /\ Len(toks) \in Nat
  BY <1>2, <1>3, HeadProperties DEF RewritingInv
<1>. QED
  BY <1>1, <1>2, <1>3, <1>4, <1>5, <1>6, <1>7 DEF RewritingInv, ClosuresInv

\* Only the parenthesizer that runs takes the step.
LEMMA RunningSteps ==
    ASSUME RewritingInv, callers' = callers, p'.end = p.end,
           p'.expected \in {"operative_", "operator_"}, AsExpected(p')
    PROVE  /\ OnlyLastChanges(Frames, Frames')
           /\ Frames[Len(Frames)] = p /\ Frames'[Len(Frames)] = p'
<1>1. /\ Len(callers) \in Nat /\ Len(Frames') = Len(callers) + 1
      /\ Frames'[Len(callers) + 1] = p'
      /\ \A i \in 1..Len(callers) : Frames'[i] = callers[i]
  <2>1. \E S : callers \in Seq(S)
    BY DEF RewritingInv, ClosuresInv
  <2>2. Frames' = Append(callers, p')
    BY DEF Frames
  <2>. QED
    BY <2>1, <2>2, FramesAre
<1>2. PICK n \in Nat \ {0} : n = Len(Frames)
  BY RunningIs
<1>3. /\ Len(callers) + 1 = n /\ Len(callers) = n - 1 /\ Frames[n] = p
      /\ \A i \in 1..Len(callers) : Frames[i] = callers[i]
  BY <1>2, RunningIs
<1>4. /\ Len(Frames') = n /\ Frames'[n] = p'
      /\ \A i \in 1..(n - 1) : Frames'[i] = Frames[i]
  BY <1>1, <1>3
<1>. QED
  BY <1>2, <1>3, <1>4 DEF OnlyLastChanges

\* resolve_next keeps what is said of the output.
LEMMA ResolveKeepsState ==
    ASSUME RewritingInv, Depth > 1, callers' = callers, p' = resolve_next
    PROVE  IsState(Frames')
<1>1. CanResolve
  BY RunningIs DEF CanResolve, RewritingInv
<1>2. /\ IsRewriting(p'.output)
      /\ p'.head = p.head /\ p'.end = p.end /\ p'.expected = p.expected
      /\ \A i \in 1..Len(p'.closures) :
            \E j \in 1..Len(p.closures) : p'.closures[i] = p.closures[j]
  BY <1>1, ResolveRewrites DEF Depth
<1>3. p.expected \in {"operative_", "operator_"} /\ AsExpected(p')
  BY <1>2, RunningIs DEF AsExpected
<1>4. /\ OnlyLastChanges(Frames, Frames')
      /\ Frames[Len(Frames)] = p /\ Frames'[Len(Frames)] = p'
  BY <1>2, <1>3, RunningSteps
<1>5. \A x \in Inner(p.head) : AreNeighbours(x, p.output) => AreNeighbours(x, p'.output)
  <2>. SUFFICES ASSUME NEW x \in Inner(p.head), AreNeighbours(x, p.output)
                PROVE  AreNeighbours(x, p'.output)
    OBVIOUS
  <2>1. x \in Int
    BY DEF Inner
  <2>2. \A i \in 1..Depth : p.closures[i].front # x + 1 /\ p.closures[i].back # x
    <3>. TAKE i \in 1..Depth
    <3>1. IsWhole(p.closures[i], p.head)
      BY RunningIs DEF Depth
    <3>2. p.closures[i].front - 1 # x /\ p.closures[i].back # x /\ p.closures[i].front \in Int
      BY <3>1 DEF IsWhole
    <3>3. \A y \in Int : y - 1 # x => y # x + 1
      BY <2>1
    <3>. QED
      BY <3>2, <3>3
  <2>. QED
    BY <1>2, <2>2 DEF IsRewriting
<1>6. Rewrites(Frames, Frames')
  BY <1>2, <1>4, <1>5 DEF Rewrites, IsRewriting
<1>. QED
  BY <1>6, RewriteKeeps DEF RewritingInv

\* What is put out, up to token l, and what is expected then.
MayPutOut(l, expected) ==
    /\ l \in p.head..(p.end - 1)
    /\ Passed(l + 1, p.end)
    /\ (p.head..l) \cap OperandBrackets = {}
    /\ Inner(l + 1) \subseteq Inner(p.head) \cup p.head..(l - 1)
    /\ \/ expected = "operative_" /\ ~EndsOperand(toks[l])
       \/ expected = "operator_" /\ EndsOperand(toks[l])

\* What may be put out leaves a state.
LEMMA PutOutState ==
    ASSUME RewritingInv, NEW l, NEW expected, MayPutOut(l, expected), callers' = callers,
           p'.head = l + 1, p'.end = p.end, p'.expected = expected,
           p'.output = p.output \o [k \in 1..(l - p.head + 1) |-> p.head + k - 1],
           \/ p'.closures = p.closures
           \/ p'.closures = Append(p.closures, [front |-> p.head, back |-> l])
    PROVE  IsState(Frames')
<1>1. l \in Nat \ {0} /\ l + 1 - 1 = l /\ l + 1 > 1
  <2>1. l \in p.head..(p.end - 1) /\ p.head \in Nat \ {0} /\ p.end \in Nat
    BY RunningIs DEF MayPutOut
  <2>. QED
    BY <2>1
<1>2. AsExpected(p')
  BY <1>1 DEF AsExpected, MayPutOut
<1>3. /\ OnlyLastChanges(Frames, Frames')
      /\ Frames[Len(Frames)] = p /\ Frames'[Len(Frames)] = p'
  BY <1>2, RunningSteps DEF MayPutOut
<1>4. \A k \in 1..Len(p'.closures) :
         \/ p'.closures[k].front = p.head /\ p'.closures[k].back = l
         \/ \E j \in 1..Len(p.closures) : p'.closures[k] = p.closures[j]
  <2>1. CASE p'.closures = p.closures
    BY <2>1
  <2>2. CASE p'.closures = Append(p.closures, [front |-> p.head, back |-> l])
    <3>. DEFINE c == [front |-> p.head, back |-> l]
    <3>1. c \in Closures /\ p.closures \in Seq(Closures) /\ c.front = p.head /\ c.back = l
      BY <1>1, RunningIs DEF Closures, IsParenthesizer, IsClosureList
    <3>. HIDE DEF c
    <3>2. /\ Len(Append(p.closures, c)) = Len(p.closures) + 1 /\ Len(p.closures) \in Nat
          /\ Append(p.closures, c)[Len(p.closures) + 1] = c
          /\ \A k \in 1..Len(p.closures) : Append(p.closures, c)[k] = p.closures[k]
      BY <3>1, AppendProperties, LenProperties
    <3>3. p'.closures = Append(p.closures, c)
      BY <2>2 DEF c
    <3>4. \A k \in 1..Len(p'.closures) : k \in 1..Len(p.closures) \/ k = Len(p.closures) + 1
      BY <3>2, <3>3
    <3>. QED
      BY <3>1, <3>2, <3>3, <3>4
  <2>. QED
    BY <2>1, <2>2
<1>5. PutsOut(Frames, Frames', l)
  BY <1>3, <1>4 DEF PutsOut, MayPutOut
<1>6. l \in Frames[Len(Frames)].head..(Frames[Len(Frames)].end - 1)
  BY <1>3 DEF MayPutOut
<1>. QED
  BY <1>5, <1>6, PutOutKeeps DEF RewritingInv

\* action_check, for a head up to token l.
LEMMA CheckState ==
    ASSUME RewritingInv, NEW l, NEW expected, MayPutOut(l, expected),
           action_check(l, expected)
    PROVE  IsState(Frames')
<1>1. CASE action_resolve
  BY <1>1, TighterIsOperator, ResolveKeepsState DEF action_resolve, RewritingInv
<1>2. CASE action_store(l, expected)
  <2>1. DOMAIN p = {"head", "end", "expected", "output", "closures"}
    BY RunningIs DEF IsParenthesizer
  <2>2. /\ callers' = callers
        /\ p'.head = l + 1 /\ p'.end = p.end /\ p'.expected = expected
        /\ p'.output = p.output \o [k \in 1..(l - p.head + 1) |-> p.head + k - 1]
        /\ p'.closures = Append(p.closures, [front |-> p.head, back |-> l])
    BY <1>2, <2>1 DEF action_store
  <2>. QED
    BY <2>2, PutOutState
<1>. QED
  BY <1>1, <1>2 DEF action_check

\* The head, where it is not at the end.
LEMMA HeadIsToken ==
    ASSUME RewritingInv, NEW what, Expecting(what)
    PROVE  /\ p.head \in 1..Len(toks) /\ p.head \in p.head..(p.end - 1)
           /\ p.head < p.end /\ p.expected = what /\ p.end \in Int
           /\ p.end \in 1..(Len(toks) + 1) /\ p.head \in 1..(p.end - 1)
<1>1. /\ p.head \in Nat \ {0} /\ p.end \in Nat /\ p.head <= p.end
      /\ p.end <= Len(toks) + 1 /\ Len(toks) \in Nat /\ p.head # p.end
  BY RunningIs DEF Expecting, AtEnd
<1>. QED
  BY <1>1 DEF Expecting

\* A token that opens no scope may be put out.
LEMMA TokenMayGo ==
    ASSUME RewritingInv, NEW what, Expecting(what), ~IsOpeningScope(HeadType), NEW expected,
           \/ expected = "operative_" /\ ~EndsOperand(HeadType)
           \/ expected = "operator_" /\ EndsOperand(HeadType)
    PROVE  MayPutOut(p.head, expected)
<1>1. p.head \in 1..Len(toks) /\ p.head \in p.head..(p.end - 1) /\ p.head < p.end /\ p.end \in Int
  BY HeadIsToken
<1>2. Passed(p.head, p.end) /\ toks \in Seq(TkTypes)
  BY RunningIs DEF RewritingInv
<1>3. /\ Passed(p.head + 1, p.end) /\ p.head \notin OperandBrackets
      /\ Inner(p.head + 1) = Inner(p.head)
  BY <1>1, <1>2, PassToken DEF HeadType
<1>4. (p.head..p.head) \cap OperandBrackets = {}
  <2>1. \A x \in p.head..p.head : x = p.head
    BY <1>1
  <2>. QED
    BY <1>3, <2>1
<1>. QED
  BY <1>1, <1>3, <1>4 DEF MayPutOut, HeadType

\* A call may be put out.
LEMMA CallMayGo ==
    ASSUME RewritingInv, Expecting("operator_"), IsOpeningScope(HeadType),
           NEW c \in ScopeCloses
    PROVE  MayPutOut(c, "operator_")
<1>1. /\ p.head \in 1..Len(toks) /\ p.head < p.end /\ p.end \in Int /\ p.head \in Nat
      /\ p.end \in 1..(Len(toks) + 1) /\ p.head \in 1..(p.end - 1)
      /\ p.expected = "operator_"
  BY HeadIsToken, RunningIs
<1>2. Passed(p.head, p.end) /\ toks \in Seq(TkTypes) /\ AsExpected(p)
  BY RunningIs DEF RewritingInv
<1>3. c \in ClosedBy(p.head) /\ c \in (p.head + 1)..(p.end - 1)
  BY <1>1, <1>2, FoundIsClosing
<1>4. p.head \in CallOpens
  BY <1>1, <1>2 DEF AsExpected, CallOpens, HeadType
<1>5. c < p.end /\ c \in p.head..(p.end - 1) /\ p.head \in Nat \ {0}
  BY <1>1, <1>3
<1>6. /\ Passed(c + 1, p.end) /\ (p.head..c) \cap OperandBrackets = {}
      /\ Inner(c + 1) \subseteq Inner(p.head) \cup p.head..(c - 1)
  BY <1>1, <1>2, <1>3, <1>4, <1>5, PassCall
<1>7. EndsOperand(toks[c])
  <2>1. IsClosingScope(toks[c])
    BY <1>2, <1>3, <1>5, ClosedByProperties
  <2>. QED
    BY <2>1 DEF EndsOperand, Operation, ScopeTokens, IsClosingScope, OpeningScopes, ClosingScopes
<1>. QED
  BY <1>5, <1>6, <1>7 DEF MayPutOut

\* What a step says of the frames holds after it: the text stays.
LEMMA StateAfter ==
    ASSUME RewritingInv, [Next]_vars, verdict' \in {"none", "done", "throws"}, toks' = toks,
           IsState(Frames')
    PROVE  RewritingInv'
<1>1. ClosuresInv'
  BY ClosuresInvariant DEF RewritingInv
<1>2. (toks \in Seq(TkTypes))'
  BY DEF RewritingInv
<1>3. IsState(Frames)'
  <2>1. /\ (\A k : ClosedBy(k)' = ClosedBy(k)) /\ CallOpens' = CallOpens
    BY DEF ClosedBy, CallOpens
  <2>2. Arguments' = Arguments
    BY <2>1 DEF Arguments, ArgumentsOf, ClosedBy, CallOpens
  <2>3. OperandParens' = OperandParens
    BY <2>1, <2>2 DEF OperandParens
  <2>4. OperandBrackets' = OperandBrackets
    BY <2>1, <2>3 DEF OperandBrackets, ClosedBy
  <2>5. AreReading(Frames')  => AreReading(Frames)'
    BY <2>3 DEF AreReading, Passed, AsExpected, Waits, ClosedBy
  <2>6. HaveWritten(Frames') => HaveWritten(Frames)'
    BY <2>4 DEF HaveWritten, IsOutput
  <2>7. HaveSplitNone(Frames') => HaveSplitNone(Frames)'
    BY <2>1 DEF HaveSplitNone, IsWhole, Inner, ClosedBy
  <2>. QED
    BY <2>5, <2>6, <2>7 DEF IsState
<1>. QED
  BY <1>1, <1>2, <1>3 DEF RewritingInv

\* An operand that is one token.
LEMMA SkipState ==
    ASSUME RewritingInv, SkipOperand
    PROVE  IsState(Frames')
<1>1. Expecting("operative_") /\ Operation(HeadType) = "none_" /\ callers' = callers
  BY DEF SkipOperand
<1>2. HeadType \notin OpeningScopes
  BY <1>1, OperationType
<1>3. ~IsOpeningScope(HeadType) /\ EndsOperand(HeadType)
  BY <1>1, <1>2 DEF IsOpeningScope, EndsOperand
<1>4. MayPutOut(p.head, "operator_")
  BY <1>1, <1>3, TokenMayGo
<1>5. p.head \in Nat \ {0} /\ p.output \in Seq(CloseParen..Len(toks))
  BY RunningIs DEF IsOutput
<1>6. Append(p.output, p.head)
        = p.output \o [k \in 1..(p.head - p.head + 1) |-> p.head + k - 1]
  <2>1. [k \in 1..(p.head - p.head + 1) |-> p.head + k - 1] = <<p.head>>
    <3>1. p.head - p.head + 1 = 1 /\ \A k \in 1..1 : p.head + k - 1 = p.head
      BY <1>5
    <3>2. [k \in 1..1 |-> p.head + k - 1] = [k \in 1..1 |-> p.head]
      BY <3>1
    <3>3. [k \in 1..1 |-> p.head] = <<p.head>>
      OBVIOUS
    <3>. QED
      BY <3>1, <3>2, <3>3
  <2>2. Append(p.output, p.head) = p.output \o <<p.head>>
    BY <1>5
  <2>. QED
    BY <2>1, <2>2
<1>7. DOMAIN p = {"head", "end", "expected", "output", "closures"}
  BY RunningIs DEF IsParenthesizer
<1>8. /\ p'.head = p.head + 1 /\ p'.end = p.end /\ p'.expected = "operator_"
      /\ p'.output = Append(p.output, p.head) /\ p'.closures = p.closures
  BY <1>7 DEF SkipOperand
<1>. QED
  BY <1>1, <1>4, <1>6, <1>8, PutOutState

\* A list that is skipped: nothing but what is expected changes.
LEMMA ListState ==
    ASSUME RewritingInv, SkipList
    PROVE  IsState(Frames')
<1>1. DOMAIN p = {"head", "end", "expected", "output", "closures"}
  BY RunningIs DEF IsParenthesizer
<1>2. /\ p' = [p EXCEPT !.expected = "operator_"] /\ callers' = callers
      /\ toks[p.head] = "open_brace_"
  BY DEF SkipList, HeadType
<1>3. /\ p'.head = p.head /\ p'.end = p.end /\ p'.expected = "operator_"
      /\ p'.output = p.output /\ p'.closures = p.closures
  BY <1>1, <1>2
<1>4. AsExpected(p')
  BY <1>2, <1>3 DEF AsExpected
<1>5. /\ OnlyLastChanges(Frames, Frames')
      /\ Frames[Len(Frames)] = p /\ Frames'[Len(Frames)] = p'
  BY <1>2, <1>3, <1>4, RunningSteps
<1>6. Rewrites(Frames, Frames')
  BY <1>3, <1>5, RunningIs DEF Rewrites
<1>. QED
  BY <1>6, RewriteKeeps DEF RewritingInv

\* An operand is entered.
LEMMA EnterState ==
    ASSUME RewritingInv, EnterOperand
    PROVE  IsState(Frames')
<1>. DEFINE caller(c) == [p EXCEPT !.head = c + 1, !.expected = "operator_"]
<1>1. PICK c \in ScopeCloses : /\ callers' = Append(callers, caller(c))
                               /\ p' = NewParenthesizer(p.head + 1, c)
  BY DEF EnterOperand
<1>2. Expecting("operative_") /\ toks[p.head] = "open_paren_"
  BY DEF EnterOperand, HeadType
<1>3. /\ p.head \in 1..Len(toks) /\ p.head < p.end /\ p.end \in Int
      /\ p.end \in 1..(Len(toks) + 1) /\ p.head \in 1..(p.end - 1)
      /\ p.expected = "operative_"
  BY <1>2, HeadIsToken
<1>4. Passed(p.head, p.end) /\ toks \in Seq(TkTypes) /\ AsExpected(p)
  BY RunningIs DEF RewritingInv
<1>5. c \in ClosedBy(p.head) /\ c \in (p.head + 1)..(p.end - 1) /\ c < p.end
  <2>1. c \in ClosedBy(p.head) /\ c \in (p.head + 1)..(p.end - 1)
    BY <1>3, <1>4, FoundIsClosing
  <2>. QED
    BY <1>3, <2>1
<1>6. p.head \notin CallOpens
  BY <1>2, <1>3, <1>4 DEF AsExpected, CallOpens
<1>7. /\ p.head \in OperandParens /\ Passed(p.head + 1, c)
      /\ Inner(p.head + 1) = Inner(p.head)
  BY <1>2, <1>3, <1>4, <1>5, <1>6, PassOpenParen
<1>8. /\ Len(callers) \in Nat /\ Len(Frames) = Len(callers) + 1
      /\ Frames[Len(Frames)] = p /\ \A i \in 1..Len(callers) : Frames[i] = callers[i]
      /\ DOMAIN p = {"head", "end", "expected", "output", "closures"}
  BY RunningIs DEF IsParenthesizer
<1>9. /\ caller(c).end = p.end /\ caller(c).head = c + 1
      /\ caller(c).expected = "operator_"
      /\ caller(c).output = p.output /\ caller(c).closures = p.closures
  BY <1>8
<1>. HIDE DEF caller
<1>10. PICK n \in Nat \ {0} : n = Len(Frames)
  BY <1>8
<1>11. /\ Len(callers) = n - 1 /\ Len(callers) + 1 = n /\ Frames[n] = p
       /\ \A i \in 1..(n - 1) : Frames[i] = callers[i]
  BY <1>8, <1>10
<1>12. /\ Len(callers') = n /\ callers'[n] = caller(c)
       /\ \A i \in 1..(n - 1) : callers'[i] = callers[i]
  <2>1. \E S : callers \in Seq(S)
    BY DEF RewritingInv, ClosuresInv
  <2>. QED
    BY <1>1, <1>11, <2>1, FramesAre
<1>13. /\ Len(Frames') = n + 1 /\ Frames'[n + 1] = p' /\ Frames'[n] = caller(c)
       /\ \A i \in 1..(n - 1) : Frames'[i] = Frames[i]
  <2>1. \E S : callers' \in Seq(S)
    BY ClosuresInvariant DEF RewritingInv, ClosuresInv, Next
  <2>2. Frames' = Append(callers', p')
    BY DEF Frames
  <2>3. \A i \in 1..(n - 1) : i \in 1..n
    OBVIOUS
  <2>4. n \in 1..n
    OBVIOUS
  <2>. QED
    BY <1>11, <1>12, <2>1, <2>2, <2>3, <2>4, FramesAre
<1>14. Enters(Frames, Frames', c)
  BY <1>1, <1>5, <1>7, <1>9, <1>10, <1>11, <1>13 DEF Enters
<1>. QED
  BY <1>5, <1>8, <1>14, EnterKeepsState DEF RewritingInv

\* An operand is left.
LEMMA LeaveState ==
    ASSUME RewritingInv, LeaveOperand
    PROVE  IsState(Frames')
<1>1. /\ Len(callers) \in Nat /\ Len(Frames) = Len(callers) + 1
      /\ Frames[Len(Frames)] = p /\ \A i \in 1..Len(callers) : Frames[i] = callers[i]
  BY RunningIs
<1>2. callers # <<>> /\ p.head = p.end
  BY DEF LeaveOperand, AtEnd
<1>3. PICK S : callers \in Seq(S)
  BY DEF RewritingInv, ClosuresInv
<1>4. Len(callers) \in Nat \ {0}
  BY <1>2, <1>3, EmptySeq, LenProperties
<1>5. PICK m \in Nat \ {0} : m = Len(callers)
  BY <1>4
<1>6. PICK n \in Nat \ {0, 1} : n = m + 1
  <2>1. m + 1 \in Nat \ {0, 1}
    OBVIOUS
  <2>. QED
    BY <2>1
<1>7. /\ n - 1 = m /\ n - 2 = m - 1 /\ m \in 1..m
      /\ \A i \in 1..(m - 1) : i \in 1..m
  BY <1>6
<1>8. /\ p' = [callers[m] EXCEPT !.output = @ \o Tail(p.output)]
      /\ callers' = SubSeq(callers, 1, m - 1)
  BY <1>5 DEF LeaveOperand
<1>9. IsParenthesizer(callers[m])
  BY <1>5, <1>7 DEF RewritingInv, ClosuresInv
<1>10. /\ p'.end = callers[m].end /\ p'.head = callers[m].head
       /\ p'.expected = callers[m].expected /\ p'.closures = callers[m].closures
       /\ p'.output = callers[m].output \o Tail(p.output)
  BY <1>8, <1>9 DEF IsParenthesizer
<1>11. /\ callers' \in Seq(S) /\ Len(callers') = m - 1
       /\ \A i \in 1..(m - 1) : callers'[i] = callers[i]
  <2>1. \A i \in 1..(m - 1) : callers[i] \in S
    BY <1>3, <1>5, <1>7, ElementOfSeq
  <2>2. 1 \in Int /\ m - 1 \in Int
    OBVIOUS
  <2>3. /\ SubSeq(callers, 1, m - 1) \in Seq(S)
        /\ Len(SubSeq(callers, 1, m - 1)) = IF 1 <= m - 1 THEN m - 1 - 1 + 1 ELSE 0
        /\ \A i \in 1..(m - 1 - 1 + 1) : SubSeq(callers, 1, m - 1)[i] = callers[1 + i - 1]
    BY <2>1, <2>2, SubSeqProperties
  <2>. QED
    BY <1>8, <2>3
<1>12. /\ Len(Frames') = m /\ Frames'[m] = p'
       /\ \A i \in 1..(m - 1) : Frames'[i] = callers[i]
  <2>1. \E T : callers' \in Seq(T)
    BY <1>11
  <2>2. Frames' = Append(callers', p')
    BY DEF Frames
  <2>3. m - 1 + 1 = m
    OBVIOUS
  <2>. QED
    BY <1>11, <2>1, <2>2, <2>3, FramesAre
<1>13. /\ Len(Frames) = n /\ Frames[n] = p /\ Frames[m] = callers[m]
       /\ \A i \in 1..(m - 1) : Frames[i] = callers[i]
  BY <1>1, <1>5, <1>6, <1>7
<1>14. Leaves(Frames, Frames')
  BY <1>2, <1>6, <1>7, <1>10, <1>12, <1>13 DEF Leaves
<1>. QED
  BY <1>14, LeaveKeepsState DEF RewritingInv

\* RewritingInv holds at the start.
LEMMA RewritingStarts ==
    ASSUME Init
    PROVE  RewritingInv
<1>1. toks \in Seq(TkTypes) /\ Len(toks) \in Nat
  BY ExpressionsAssumption, LenProperties DEF Init
<1>2. Len(Frames) = 1 /\ Frames[1] = p /\ p = NewParenthesizer(1, Len(toks) + 1)
  BY DEF Init, Frames
<1>3. IsNew(p, 1, Len(toks) + 1)
  BY <1>1, <1>2, NewProperties
<1>4. Inner(1) = {}
  <2>1. \A k \in CallOpens : ~(k < 1)
    BY <1>1 DEF CallOpens
  <2>. QED
    BY <2>1 DEF Inner
<1>5. \A i \in 1..1 : i = 1
  OBVIOUS
<1>6. AreReading(Frames)
  <2>1. p.end \in 1..(Len(toks) + 1) /\ p.head \in 1..p.end
    BY <1>1, <1>3 DEF IsNew
  <2>2. Passed(p.head, p.end)
    BY <1>3 DEF IsNew, Passed
  <2>3. AsExpected(p) /\ p.expected \in {"operative_", "operator_"}
    BY <1>3 DEF IsNew, AsExpected
  <2>4. \A i \in 1..(1 - 1) : Waits(Frames[i], Frames[i + 1].end)
    OBVIOUS
  <2>. QED
    BY <1>2, <1>5, <2>1, <2>2, <2>3, <2>4 DEF AreReading
<1>7. HaveWritten(Frames)
  <2>1. UNION {TokensOf(Frames[i].output) : i \in 1..1} = {}
    BY <1>2, <1>3, <1>5 DEF IsNew
  <2>2. (1..(p.head - 1)) \ OperandBrackets = {}
    BY <1>3 DEF IsNew
  <2>3. \A i, j \in 1..1 : ~(i < j)
    OBVIOUS
  <2>. QED
    BY <1>2, <1>3, <1>5, <2>1, <2>2, <2>3 DEF HaveWritten, IsNew
<1>8. HaveSplitNone(Frames)
  <2>1. \A k \in 1..Len(p.closures) : IsWhole(p.closures[k], 1)
    <3>1. \A k \in 1..Len(p.closures) :
             p.closures[k].front = 0 /\ p.closures[k].back = 0
      BY <1>3, <1>5 DEF IsNew, Sentinel
    <3>2. 0 \in 0..(1 - 1)
      OBVIOUS
    <3>. QED
      BY <1>4, <3>1, <3>2 DEF IsWhole
  <2>2. p.head = 1
    BY <1>3 DEF IsNew
  <2>. QED
    BY <1>2, <1>4, <1>5, <2>1, <2>2 DEF HaveSplitNone
<1>9. verdict \in {"none", "done", "throws"}
  BY DEF Init
<1>. QED
  BY <1>1, <1>6, <1>7, <1>8, <1>9, ClosuresInvariant DEF RewritingInv, IsState

\* RewritingInv is inductive.
LEMMA RewritingGoesOn ==
    ASSUME RewritingInv, [Next]_vars
    PROVE  RewritingInv'
<1>1. ASSUME NEW what, Expecting(what), NEW t, HeadType = t,
             Operation(t) \in {"prefix_", "binary_"}
      PROVE  ~IsOpeningScope(t) /\ ~EndsOperand(t)
  BY <1>1, OperationType DEF IsOpeningScope, EndsOperand
<1>2. ASSUME SkipOperand PROVE RewritingInv'
  BY <1>2, SkipState, StateAfter DEF SkipOperand, Expecting
<1>3. ASSUME EnterOperand PROVE RewritingInv'
  BY <1>3, EnterState, StateAfter DEF EnterOperand, Expecting
<1>4. ASSUME SkipList PROVE RewritingInv'
  BY <1>4, ListState, StateAfter DEF SkipList, Expecting
<1>5. ASSUME NEW l, NEW expected, action_check(l, expected), MayPutOut(l, expected),
             verdict = "none"
      PROVE  RewritingInv'
  <2>1. toks' = toks /\ verdict' = verdict
    BY <1>5 DEF action_check, action_resolve, action_store
  <2>. QED
    BY <1>5, <2>1, CheckState, StateAfter
<1>6. ASSUME CheckPrefix PROVE RewritingInv'
  <2>1. MayPutOut(p.head, "operative_")
    BY <1>1, <1>6, TokenMayGo DEF CheckPrefix
  <2>. QED
    BY <1>5, <1>6, <2>1 DEF CheckPrefix, Expecting
<1>7. ASSUME CheckScope PROVE RewritingInv'
  <2>1. PICK c \in ScopeCloses : action_check(c, "operator_")
    BY <1>7 DEF CheckScope
  <2>2. MayPutOut(c, "operator_")
    BY <1>7, CallMayGo DEF CheckScope
  <2>. QED
    BY <1>5, <1>7, <2>1, <2>2 DEF CheckScope, Expecting
<1>8. ASSUME CheckBinary PROVE RewritingInv'
  <2>1. MayPutOut(p.head, "operative_")
    BY <1>1, <1>8, TokenMayGo DEF CheckBinary
  <2>. QED
    BY <1>5, <1>8, <2>1 DEF CheckBinary, Expecting
<1>9. ASSUME CheckPostfix PROVE RewritingInv'
  <2>1. EndsOperand(HeadType)
    BY <1>9 DEF CheckPostfix, EndsOperand, IsOpeningScope
  <2>2. MayPutOut(p.head, "operator_")
    BY <1>9, <2>1, TokenMayGo DEF CheckPostfix
  <2>. QED
    BY <1>5, <1>9, <2>2 DEF CheckPostfix, Expecting
<1>10. ASSUME ResolveAtEnd PROVE RewritingInv'
  <2>1. IsState(Frames')
    BY <1>10, ResolveKeepsState DEF ResolveAtEnd
  <2>. QED
    BY <1>10, <2>1, StateAfter DEF ResolveAtEnd
<1>11. ASSUME LeaveOperand PROVE RewritingInv'
  BY <1>11, LeaveState, StateAfter DEF LeaveOperand
<1>12. ASSUME RejectHead \/ Finish \/ UNCHANGED vars PROVE RewritingInv'
  <2>1. /\ toks' = toks /\ Frames' = Frames
        /\ verdict' \in {"none", "done", "throws"}
    BY <1>12 DEF RejectHead, Throw, Finish, vars, Frames, RewritingInv
  <2>2. IsState(Frames')
    BY <2>1 DEF RewritingInv
  <2>. QED
    BY <2>1, <2>2, StateAfter
<1>. QED
  BY <1>2, <1>3, <1>4, <1>6, <1>7, <1>8, <1>9, <1>10, <1>11, <1>12 DEF Next

\* The parenthesizers are the frames.
LEMMA ParenthesizersAre ==
    ASSUME RewritingInv
    PROVE  /\ \A q \in Parenthesizers : \E i \in 1..Len(Frames) : q = Frames[i]
           /\ \A i \in 1..Len(Frames) : Frames[i] \in Parenthesizers
           /\ Len(Frames) \in Nat \ {0} /\ Frames[Len(Frames)] = p
<1>1. /\ Len(callers) \in Nat /\ Len(Frames) = Len(callers) + 1
      /\ Frames[Len(Frames)] = p /\ \A i \in 1..Len(callers) : Frames[i] = callers[i]
  BY RunningIs
<1>2. \A i \in 1..Len(Frames) : i \in 1..Len(callers) \/ i = Len(Frames)
  BY <1>1
<1>3. Len(Frames) \in 1..Len(Frames) /\ \A i \in 1..Len(callers) : i \in 1..Len(Frames)
  BY <1>1
<1>. QED
  BY <1>1, <1>2, <1>3 DEF Parenthesizers

-----------------------------------------------------------------------------
(* What the invariant gives.                                               *)

\* The head of every parenthesizer stays in its range, and its output and its
\* closures speak of tokens of the text.
THEOREM ParenthesizerTypeOK == Spec => []TypeOK
<1>1. RewritingInv => TypeOK
  <2>. SUFFICES ASSUME RewritingInv, NEW q \in Parenthesizers
                PROVE  /\ q.end \in 1..(Len(toks) + 1) /\ q.head \in 1..q.end
                       /\ q.expected \in {"operative_", "operator_"}
                       /\ q.output \in Seq(CloseParen..Len(toks))
                       /\ \A k \in 1..Len(q.closures) :
                             /\ q.closures[k].front \in 0..Len(toks)
                             /\ q.closures[k].back \in 0..Len(toks)
    BY DEF TypeOK, RewritingInv
  <2>1. PICK i \in 1..Len(Frames) : q = Frames[i]
    BY ParenthesizersAre
  <2>2. IsState(Frames) /\ Len(toks) \in Nat
    BY RunningIs DEF RewritingInv
  <2>3. /\ q.end \in 1..(Len(toks) + 1) /\ q.head \in 1..q.end
        /\ q.expected \in {"operative_", "operator_"}
    BY <2>1, <2>2 DEF IsState, AreReading
  <2>4. q.output \in Seq(CloseParen..Len(toks))
    BY <2>1, <2>2 DEF IsState, HaveWritten, IsOutput
  <2>5. ASSUME NEW k \in 1..Len(q.closures)
        PROVE  /\ q.closures[k].front \in 0..Len(toks)
               /\ q.closures[k].back \in 0..Len(toks)
    <3>1. IsWhole(q.closures[k], p.head)
      BY <2>1, <2>2, ParenthesizersAre DEF IsState, HaveSplitNone
    <3>2. p.head \in Nat /\ p.head <= Len(toks) + 1
      BY RunningIs
    <3>. QED
      BY <2>2, <3>1, <3>2 DEF IsWhole
  <2>. QED
    BY <2>3, <2>4, <2>5
<1>. QED
  BY <1>1, RewritingStarts, RewritingGoesOn, PTL DEF Spec

\* No token is lost, repeated or moved at any step, through every nested
\* operand, however the marks are inserted.
THEOREM ParenthesizerKeepsTokens == Spec => []KeepsTokens
<1>1. RewritingInv => KeepsTokens
  <2>. SUFFICES ASSUME RewritingInv PROVE KeepsTokens
    OBVIOUS
  <2>1. /\ \A i \in 1..Len(Frames) : IsInOrder(Frames[i].output)
        /\ \A i, j \in 1..Len(Frames) : i < j =>
              \A x \in TokensOf(Frames[i].output), y \in TokensOf(Frames[j].output) : x < y
        /\ UNION {TokensOf(Frames[i].output) : i \in 1..Len(Frames)}
             = (1..(p.head - 1)) \ OperandBrackets
    BY ParenthesizersAre DEF RewritingInv, IsState, HaveWritten, IsOutput
  <2>2. UNION {TokensOf(q.output) : q \in Parenthesizers}
          = UNION {TokensOf(Frames[i].output) : i \in 1..Len(Frames)}
    BY ParenthesizersAre
  <2>. QED
    BY <2>1, <2>2, ParenthesizersAre DEF KeepsTokens
<1>. QED
  BY <1>1, RewritingStarts, RewritingGoesOn, PTL DEF Spec

\* A call, an index or a type constraint is never split by a parenthesis.
THEOREM ParenthesizerScopesStayWhole == Spec => []ScopesStayWhole
<1>1. RewritingInv => ScopesStayWhole
  BY ParenthesizersAre DEF RewritingInv, IsState, HaveSplitNone, ScopesStayWhole
<1>. QED
  BY <1>1, RewritingStarts, RewritingGoesOn, PTL DEF Spec
=============================================================================
