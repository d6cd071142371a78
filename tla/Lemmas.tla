------------------------------- MODULE Lemmas --------------------------------
(***************************************************************************)
(* What the proofs about several modules rest on.                          *)
(*                                                                         *)
(* Induction over numbers, for recursive functions: what is shown of every *)
(* number is given as the set of the numbers that have it.  And, about     *)
(* module Scopes, how the height moves and what one more token does to a   *)
(* scanned prefix: the loops of TkScope, TkStatement and TkSeparated keep  *)
(* the same stack.                                                         *)
(***************************************************************************)
EXTENDS Scopes, FiniteSetTheorems, SequenceTheorems, WellFoundedInduction, TLAPS

-----------------------------------------------------------------------------
(* Lemmas about numbers.                                                   *)

\* Every set of numbers has a least element.
LEMMA LeastNumber ==
    ASSUME NEW T, T \subseteq Nat, T # {}
    PROVE  \E x \in T : \A y \in T : x <= y
<1>. DEFINE R == {ss \in Nat \X Nat : ss[1] < ss[2]}
<1>1. IsWellFoundedOn(R, Nat)
  BY NatLessThanWellFounded DEF OpToRel
<1>. HIDE DEF R
<1>2. \E x \in T : \A y \in T : ~(<<y, x>> \in R)
  BY <1>1, WFMin
<1>3. \A x, y \in Nat : ~(<<y, x>> \in R) => x <= y
  BY DEF R
<1>. QED
  BY <1>2, <1>3

\* Induction up to N, for a property given as the set T of what has it.
LEMMA InductionUpTo ==
    ASSUME NEW N \in Nat, NEW T, 0 \in T,
           \A n \in 1..N : n - 1 \in T => n \in T
    PROVE  0..N \subseteq T
<1>. DEFINE bad == {n \in 0..N : n \notin T}
<1>1. SUFFICES ASSUME bad # {} PROVE FALSE
  OBVIOUS
<1>2. bad \subseteq Nat
  OBVIOUS
<1>3. PICK n \in bad : \A m \in bad : n <= m
  BY <1>1, <1>2, LeastNumber
<1>4. n \in 1..N /\ n - 1 \notin bad
  BY <1>3
<1>. QED
  BY <1>3, <1>4

-----------------------------------------------------------------------------
(* Lemmas about the counting definition of nesting (module Scopes).        *)

\* A token type does not open and close at once, and types are distinct.
LEMMA ScopeTypes ==
    /\ OpeningScopes \cap ClosingScopes = {}
    /\ \A o \in OpeningScopes : ClosingOf[o] \in ClosingScopes
BY DEF OpeningScopes, ClosingScopes, ClosingOf

\* The sets that Height counts are finite.
LEMMA CountsFinite ==
    ASSUME NEW T, NEW s \in Seq(T), NEW i \in Nat
    PROVE  /\ IsFiniteSet(Opens(s, i)) /\ Cardinality(Opens(s, i)) \in Nat
           /\ IsFiniteSet(Closes(s, i)) /\ Cardinality(Closes(s, i)) \in Nat
<1>1. IsFiniteSet(1..i)
  BY FS_Interval
<1>2. Opens(s, i) \subseteq 1..i /\ Closes(s, i) \subseteq 1..i
  BY DEF Opens, Closes
<1>3. IsFiniteSet(Opens(s, i)) /\ IsFiniteSet(Closes(s, i))
  BY <1>1, <1>2, FS_Subset
<1>. QED
  BY <1>3, FS_CardinalityType

LEMMA HeightType ==
    ASSUME NEW T, NEW s \in Seq(T), NEW i \in Nat
    PROVE  Height(s, i) \in Int
BY CountsFinite DEF Height

LEMMA HeightZero == \A s : Height(s, 0) = 0
<1>. SUFFICES ASSUME NEW s PROVE Height(s, 0) = 0
  OBVIOUS
<1>1. Opens(s, 0) = {} /\ Closes(s, 0) = {}
  BY DEF Opens, Closes
<1>. QED
  BY <1>1, FS_EmptySet DEF Height

\* Reading one more token moves the height by one, or not at all.
LEMMA HeightStep ==
    ASSUME NEW T, NEW s \in Seq(T), NEW i \in Nat \ {0}
    PROVE  /\ IsOpeningScope(s[i]) => Height(s, i) = Height(s, i - 1) + 1
           /\ IsClosingScope(s[i]) => Height(s, i) = Height(s, i - 1) - 1
           /\ ~IsOpeningScope(s[i]) /\ ~IsClosingScope(s[i])
                 => Height(s, i) = Height(s, i - 1)
<1>. DEFINE Os == Opens(s, i - 1)  Cs == Closes(s, i - 1)
<1>1. /\ IsFiniteSet(Os) /\ Cardinality(Os) \in Nat
      /\ IsFiniteSet(Cs) /\ Cardinality(Cs) \in Nat
  <2>1. i - 1 \in Nat
    OBVIOUS
  <2>. QED
    BY <2>1, CountsFinite
<1>2. i \notin Os /\ i \notin Cs
  BY DEF Opens, Closes
<1>3. Opens(s, i) = IF IsOpeningScope(s[i]) THEN Os \cup {i} ELSE Os
  BY DEF Opens
<1>4. Closes(s, i) = IF IsClosingScope(s[i]) THEN Cs \cup {i} ELSE Cs
  BY DEF Closes
<1>5. /\ Cardinality(Os \cup {i}) = Cardinality(Os) + 1
      /\ Cardinality(Cs \cup {i}) = Cardinality(Cs) + 1
  BY <1>1, <1>2, FS_AddElement
<1>6. ~(IsOpeningScope(s[i]) /\ IsClosingScope(s[i]))
  BY ScopeTypes DEF IsOpeningScope, IsClosingScope
<1>. HIDE DEF Os, Cs
<1>7. CASE IsOpeningScope(s[i])
  <2>1. Height(s, i) = Cardinality(Os) + 1 - Cardinality(Cs)
    BY <1>1, <1>3, <1>4, <1>5, <1>6, <1>7 DEF Height
  <2>. QED
    BY <2>1, <1>1, <1>6, <1>7 DEF Height, Os, Cs
<1>8. CASE IsClosingScope(s[i])
  <2>1. Height(s, i) = Cardinality(Os) - (Cardinality(Cs) + 1)
    BY <1>1, <1>3, <1>4, <1>5, <1>6, <1>8 DEF Height
  <2>. QED
    BY <2>1, <1>1, <1>6, <1>8 DEF Height, Os, Cs
<1>9. CASE ~IsOpeningScope(s[i]) /\ ~IsClosingScope(s[i])
  BY <1>3, <1>4, <1>9 DEF Height, Os, Cs
<1>. QED
  BY <1>7, <1>8, <1>9

\* A stack one shorter is still a stack of open tokens.
LEMMA PopType ==
    ASSUME NEW S, NEW h \in Seq(S), h # <<>>
    PROVE  /\ Len(h) \in Nat \ {0}
           /\ SubSeq(h, 1, Len(h) - 1) \in Seq(S)
           /\ Len(SubSeq(h, 1, Len(h) - 1)) = Len(h) - 1
           /\ \A k \in 1..(Len(h) - 1) : SubSeq(h, 1, Len(h) - 1)[k] = h[k]
           /\ h[Len(h)] \in S
<1>1. Len(h) \in Nat \ {0}
  BY EmptySeq
<1>2. \A k \in 1..(Len(h) - 1) : h[k] \in S
  BY <1>1, ElementOfSeq
<1>3. h[Len(h)] \in S
  BY <1>1, ElementOfSeq
<1>. DEFINE n == Len(h) - 1  g == SubSeq(h, 1, Len(h) - 1)
<1>4. n \in Nat
  BY <1>1
<1>5. /\ g \in Seq(S)
      /\ Len(g) = IF 1 <= n THEN n - 1 + 1 ELSE 0
      /\ \A k \in 1..(n - 1 + 1) : g[k] = h[1 + k - 1]
  BY <1>2, <1>4, SubSeqProperties
<1>. HIDE DEF n, g
<1>6. Len(g) = n
  BY <1>4, <1>5
<1>7. ASSUME NEW k \in 1..n PROVE g[k] = h[k]
  <2>1. k \in 1..(n - 1 + 1) /\ 1 + k - 1 = k
    BY <1>4
  <2>. QED
    BY <2>1, <1>5
<1>. QED
  BY <1>1, <1>3, <1>5, <1>6, <1>7 DEF n, g

-----------------------------------------------------------------------------
(* The scanned prefix: what reading one more token does to Scanned.        *)

\* A prefix in which every close token is matched stays so when the next
\* token does not close, or closes an open token of its own type.
LEMMA WellNestedStep ==
    ASSUME NEW s, NEW n \in Nat, WellNested(s, n),
           IsClosingScope(s[n + 1]) =>
              \E k \in 1..n : /\ ClosesAt(s, k, n + 1)
                              /\ IsClosingScopeOf(s[k], s[n + 1])
    PROVE  WellNested(s, n + 1)
<1>. SUFFICES ASSUME NEW j \in 1..(n + 1), IsClosingScope(s[j])
              PROVE  \E k \in 1..(j - 1) : /\ ClosesAt(s, k, j)
                                           /\ IsClosingScopeOf(s[k], s[j])
  BY DEF WellNested
<1>1. CASE j \in 1..n
  BY <1>1 DEF WellNested
<1>2. CASE j = n + 1
  <2>1. j - 1 = n
    BY <1>2
  <2>. QED
    BY <1>2, <2>1
<1>. QED
  BY <1>1, <1>2

LEMMA ScannedSkip ==
    ASSUME NEW d \in Nat, NEW T, NEW s \in Seq(T), NEW n \in Nat \ {0},
           NEW h \in Seq(OpeningScopes), Scanned(d, s, n, h),
           ~IsOpeningScope(s[n + 1]), ~IsClosingScope(s[n + 1])
    PROVE  Scanned(d, s, n + 1, h)
<1>1. Height(s, n + 1) = Height(s, n) /\ Height(s, n) \in Int
  <2>1. n + 1 \in Nat \ {0} /\ (n + 1) - 1 = n
    OBVIOUS
  <2>. QED
    BY <2>1, HeightStep, HeightType
<1>2. Len(h) \in Nat
  OBVIOUS
<1>3. WellNested(s, n + 1)
  BY WellNestedStep DEF Scanned
<1>4. \A m \in 1..(n + 1) : m \in 1..n \/ m = n + 1
  OBVIOUS
<1>5. \A m \in 1..(n + 1) : Height(s, m) >= d
  BY <1>1, <1>2, <1>4 DEF Scanned
<1>6. ASSUME NEW k \in 1..Len(h)
      PROVE  \E q \in 1..(n + 1) : /\ s[q] = h[k]
                                   /\ Height(s, q) = k + d
                                   /\ \A m \in q..(n + 1) : Height(s, m) >= k + d
  <2>1. PICK q \in 1..n : /\ s[q] = h[k]
                         /\ Height(s, q) = k + d
                         /\ \A m \in q..n : Height(s, m) >= k + d
    BY DEF Scanned
  <2>2. Height(s, n + 1) >= k + d
    BY <1>1, <1>2 DEF Scanned
  <2>3. \A m \in q..(n + 1) : m \in q..n \/ m = n + 1
    OBVIOUS
  <2>4. \A m \in q..(n + 1) : Height(s, m) >= k + d
    BY <2>1, <2>2, <2>3
  <2>5. q \in 1..(n + 1)
    OBVIOUS
  <2>. QED
    BY <2>1, <2>4, <2>5
<1>. QED
  BY <1>1, <1>3, <1>5, <1>6 DEF Scanned

LEMMA ScannedPush ==
    ASSUME NEW d \in Nat, NEW T, NEW s \in Seq(T), NEW n \in Nat \ {0},
           NEW h \in Seq(OpeningScopes), Scanned(d, s, n, h),
           IsOpeningScope(s[n + 1])
    PROVE  Scanned(d, s, n + 1, Append(h, s[n + 1]))
<1>. DEFINE g == Append(h, s[n + 1])
<1>1. Height(s, n + 1) = Height(s, n) + 1 /\ Height(s, n) \in Int
  <2>1. n + 1 \in Nat \ {0} /\ (n + 1) - 1 = n
    OBVIOUS
  <2>. QED
    BY <2>1, HeightStep, HeightType
<1>2. /\ Len(h) \in Nat /\ Len(g) = Len(h) + 1 /\ g[Len(h) + 1] = s[n + 1]
      /\ \A k \in 1..Len(h) : g[k] = h[k]
  BY DEF IsOpeningScope
<1>. HIDE DEF g
<1>3. WellNested(s, n + 1)
  <2>1. ~IsClosingScope(s[n + 1])
    BY ScopeTypes DEF IsOpeningScope, IsClosingScope
  <2>. QED
    BY <2>1, WellNestedStep DEF Scanned
<1>4. \A m \in 1..(n + 1) : m \in 1..n \/ m = n + 1
  OBVIOUS
<1>5. /\ Height(s, n + 1) = Len(h) + 1 + d
      /\ \A m \in 1..(n + 1) : Height(s, m) >= d
  <2>1. Height(s, n) = Len(h) + d /\ \A m \in 1..n : Height(s, m) >= d
    BY DEF Scanned
  <2>2. Height(s, n + 1) = Len(h) + 1 + d /\ Height(s, n + 1) >= d
    BY <1>1, <1>2, <2>1
  <2>. QED
    BY <1>4, <2>1, <2>2
<1>6. ASSUME NEW k \in 1..Len(g)
      PROVE  \E q \in 1..(n + 1) : /\ s[q] = g[k]
                                   /\ Height(s, q) = k + d
                                   /\ \A m \in q..(n + 1) : Height(s, m) >= k + d
  <2>1. CASE k \in 1..Len(h)
    <3>1. PICK q \in 1..n : /\ s[q] = h[k]
                           /\ Height(s, q) = k + d
                           /\ \A m \in q..n : Height(s, m) >= k + d
      BY <2>1 DEF Scanned
    <3>2. Height(s, n + 1) >= k + d
      BY <1>2, <1>5, <2>1
    <3>3. \A m \in q..(n + 1) : m \in q..n \/ m = n + 1
      OBVIOUS
    <3>4. s[q] = g[k]
      BY <1>2, <2>1, <3>1
    <3>5. \A m \in q..(n + 1) : Height(s, m) >= k + d
      BY <3>1, <3>2, <3>3
    <3>6. q \in 1..(n + 1)
      OBVIOUS
    <3>. QED
      BY <3>1, <3>4, <3>5, <3>6
  <2>2. CASE k = Len(h) + 1
    <3>1. n + 1 \in 1..(n + 1)
      OBVIOUS
    <3>2. \A m \in (n + 1)..(n + 1) : m = n + 1
      OBVIOUS
    <3>3. s[n + 1] = g[k] /\ Height(s, n + 1) = k + d /\ Height(s, n + 1) >= k + d
      BY <1>2, <1>5, <2>2
    <3>. QED
      BY <3>1, <3>2, <3>3
  <2>. QED
    BY <1>2, <2>1, <2>2
<1>7. Height(s, n + 1) = Len(g) + d
  BY <1>2, <1>5
<1>8. Scanned(d, s, n + 1, g)
  BY <1>3, <1>5, <1>6, <1>7 DEF Scanned
<1>. QED
  BY <1>8 DEF g

LEMMA ScannedPop ==
    ASSUME NEW d \in Nat, NEW T, NEW s \in Seq(T), NEW n \in Nat \ {0},
           NEW h \in Seq(OpeningScopes), Scanned(d, s, n, h), h # <<>>,
           IsClosingScope(s[n + 1]), IsClosingScopeOf(h[Len(h)], s[n + 1])
    PROVE  Scanned(d, s, n + 1, SubSeq(h, 1, Len(h) - 1))
<1>. DEFINE g == SubSeq(h, 1, Len(h) - 1)
<1>1. Height(s, n + 1) = Height(s, n) - 1 /\ Height(s, n) \in Int
  <2>1. n + 1 \in Nat \ {0} /\ (n + 1) - 1 = n
    OBVIOUS
  <2>. QED
    BY <2>1, HeightStep, HeightType
<1>2. /\ Len(h) \in Nat \ {0} /\ Len(g) = Len(h) - 1
      /\ \A k \in 1..(Len(h) - 1) : g[k] = h[k]
  BY PopType
<1>. HIDE DEF g
<1>3. /\ Height(s, n) = Len(h) + d
      /\ Height(s, n + 1) = Len(h) + d - 1
  BY <1>1, <1>2 DEF Scanned
<1>4. WellNested(s, n + 1)
  <2>1. PICK q \in 1..n : /\ s[q] = h[Len(h)]
                         /\ Height(s, q) = Len(h) + d
                         /\ \A m \in q..n : Height(s, m) >= Len(h) + d
    BY <1>2 DEF Scanned
  <2>2. h[Len(h)] \in OpeningScopes
    BY PopType
  <2>3. ClosesAt(s, q, n + 1)
    <3>1. q < n + 1 /\ (n + 1) - 1 = n
      OBVIOUS
    <3>2. Height(s, n + 1) = Height(s, q) - 1
      BY <1>2, <1>3, <2>1
    <3>. QED
      BY <2>1, <2>2, <3>1, <3>2 DEF ClosesAt, IsOpeningScope
  <2>4. q \in 1..n
    OBVIOUS
  <2>. QED
    BY <2>1, <2>3, <2>4, WellNestedStep DEF Scanned
<1>5. \A m \in 1..(n + 1) : m \in 1..n \/ m = n + 1
  OBVIOUS
<1>6. \A m \in 1..(n + 1) : Height(s, m) >= d
  BY <1>2, <1>3, <1>5 DEF Scanned
<1>7. ASSUME NEW k \in 1..Len(g)
      PROVE  \E q \in 1..(n + 1) : /\ s[q] = g[k]
                                   /\ Height(s, q) = k + d
                                   /\ \A m \in q..(n + 1) : Height(s, m) >= k + d
  <2>1. k \in 1..Len(h) /\ k \in 1..(Len(h) - 1)
    BY <1>2
  <2>2. PICK q \in 1..n : /\ s[q] = h[k]
                         /\ Height(s, q) = k + d
                         /\ \A m \in q..n : Height(s, m) >= k + d
    BY <2>1 DEF Scanned
  <2>3. Height(s, n + 1) >= k + d
    BY <1>2, <1>3, <2>1
  <2>4. \A m \in q..(n + 1) : m \in q..n \/ m = n + 1
    OBVIOUS
  <2>5. s[q] = g[k]
    BY <1>2, <2>1, <2>2
  <2>6. \A m \in q..(n + 1) : Height(s, m) >= k + d
    BY <2>2, <2>3, <2>4
  <2>7. q \in 1..(n + 1)
    OBVIOUS
  <2>. QED
    BY <2>2, <2>5, <2>6, <2>7
<1>8. Height(s, n + 1) = Len(g) + d
  BY <1>2, <1>3
<1>9. Scanned(d, s, n + 1, g)
  BY <1>4, <1>6, <1>7, <1>8 DEF Scanned
<1>. QED
  BY <1>9 DEF g

\* The height after the first token, when it opens the scope looked for.
LEMMA HeightOne ==
    ASSUME NEW T, NEW s \in Seq(T), IsOpeningScope(s[1])
    PROVE  Height(s, 1) = 1
<1>1. 1 \in Nat \ {0} /\ 1 - 1 = 0
  OBVIOUS
<1>. QED
  BY <1>1, HeightStep, HeightZero

\* The scan starts right: the first token alone is a scanned prefix.
LEMMA ScannedStart ==
    ASSUME NEW T, NEW s \in Seq(T), IsOpeningScope(s[1])
    PROVE  Scanned(1, s, 1, <<>>)
<1>1. Height(s, 1) = 1
  BY HeightOne
<1>2. WellNested(s, 1)
  BY ScopeTypes DEF WellNested, IsOpeningScope, IsClosingScope
<1>. QED
  BY <1>1, <1>2 DEF Scanned

\* An own close token with nothing else open is the scope's close token.
LEMMA FoundIsScope ==
    ASSUME NEW T, NEW s \in Seq(T), NEW n \in 1..(Len(s) - 1),
           NEW o \in OpeningScopes, s[1] = o,
           Scanned(1, s, n, <<>>), s[n + 1] = ClosingOf[o]
    PROVE  IsScope(s, o, n + 1)
<1>1. /\ n + 1 \in Nat \ {0} /\ (n + 1) - 1 = n
      /\ n \in Nat /\ 1 < n + 1 /\ 1 \in 1..n /\ n + 1 \in 1..Len(s)
  OBVIOUS
<1>2. IsOpeningScope(s[1]) /\ IsClosingScope(s[n + 1])
  BY ScopeTypes DEF IsOpeningScope, IsClosingScope
<1>3. Height(s, 1) = 1 /\ Height(s, n) = 1
  BY <1>2, HeightOne DEF Scanned
<1>4. Height(s, n + 1) = 0
  <2>1. Height(s, n + 1) = Height(s, n) - 1
    BY <1>1, <1>2, HeightStep
  <2>. QED
    BY <1>3, <2>1
<1>5. ClosesAt(s, 1, n + 1)
  BY <1>1, <1>2, <1>3, <1>4 DEF ClosesAt, Scanned
<1>6. IsClosingScopeOf(s[1], s[n + 1])
  BY DEF IsClosingScopeOf
<1>7. WellNested(s, n + 1)
  BY <1>1, <1>5, <1>6, WellNestedStep DEF Scanned
<1>. QED
  BY <1>1, <1>5, <1>7 DEF IsScope

\* A range starts with one scope at most.
LEMMA ScopeIsUnique ==
    ASSUME NEW T, NEW s \in Seq(T), NEW o,
           NEW b \in Nat, IsScope(s, o, b), NEW c \in Nat, IsScope(s, o, c)
    PROVE  ~(b < c)
<1>. SUFFICES ASSUME b < c PROVE FALSE
  OBVIOUS
<1>1. Height(s, 1) = 1
  BY HeightOne DEF IsScope, ClosesAt
<1>2. Height(s, b) = 0 /\ 1 < b
  BY <1>1 DEF IsScope, ClosesAt
<1>3. b \in 1..(c - 1)
  BY <1>2
<1>4. Height(s, b) >= Height(s, 1)
  BY <1>3 DEF IsScope, ClosesAt
<1>. QED
  BY <1>1, <1>2, <1>4

\* No scope ends inside a scanned prefix.
LEMMA NoScopeInPrefix ==
    ASSUME NEW T, NEW s \in Seq(T), NEW n \in Nat, NEW h, NEW o,
           Scanned(1, s, n, h), NEW c \in 1..n
    PROVE  ~IsScope(s, o, c)
<1>. SUFFICES ASSUME IsScope(s, o, c) PROVE FALSE
  OBVIOUS
<1>1. Height(s, 1) = 1
  BY HeightOne DEF IsScope, ClosesAt
<1>2. Height(s, c) = 0
  BY <1>1 DEF IsScope, ClosesAt
<1>3. Height(s, c) >= 1
  BY DEF Scanned
<1>. QED
  BY <1>2, <1>3

\* Only the innermost open scope, the top of the stack, can be closed next.
LEMMA OnlyTopCloses ==
    ASSUME NEW d \in Nat, NEW T, NEW s \in Seq(T), NEW n \in Nat \ {0},
           NEW h \in Seq(OpeningScopes), Scanned(d, s, n, h),
           IsClosingScope(s[n + 1]),
           NEW k \in 1..n, ClosesAt(s, k, n + 1)
    PROVE  /\ h # <<>> => s[k] = h[Len(h)]
           /\ h = <<>> => d # 0 /\ k = 1
<1>1. /\ n + 1 \in Nat \ {0} /\ (n + 1) - 1 = n
      /\ Len(h) \in Nat
  OBVIOUS
<1>3. /\ Height(s, n) = Len(h) + d /\ Height(s, n + 1) = Len(h) + d - 1
      /\ IsOpeningScope(s[k])
      /\ Height(s, k) = Len(h) + d
      /\ \A m \in k..n : Height(s, m) >= Len(h) + d
  <2>1. Height(s, n) = Len(h) + d /\ Height(s, n + 1) = Height(s, n) - 1
    BY <1>1, HeightStep DEF Scanned
  <2>2. Height(s, k) \in Int /\ Height(s, n + 1) = Height(s, k) - 1
    BY HeightType DEF ClosesAt
  <2>. QED
    BY <1>1, <2>1, <2>2 DEF ClosesAt
<1>4. ASSUME NEW q \in 1..n, IsOpeningScope(s[q]), Height(s, q) = Len(h) + d,
             NEW r \in 0..n, r < q,
             \A m \in r..n : Height(s, m) >= Len(h) + d
      PROVE  FALSE
  <2>1. q \in Nat \ {0} /\ q - 1 \in Nat /\ q - 1 \in r..n
    BY <1>4
  <2>2. Height(s, q) = Height(s, q - 1) + 1 /\ Height(s, q - 1) \in Int
    BY <1>4, <2>1, HeightStep, HeightType
  <2>3. Height(s, q - 1) >= Len(h) + d
    BY <1>4, <2>1
  <2>. QED
    BY <1>1, <1>4, <2>2, <2>3
<1>5. CASE h = <<>>
  <2>1. Len(h) = 0 /\ Height(s, k) = d
    BY <1>3, <1>5
  <2>2. \A m \in 1..n : Height(s, m) >= Len(h) + d
    BY <2>1 DEF Scanned
  <2>3. d # 0
    <3>. SUFFICES ASSUME d = 0 PROVE FALSE
      OBVIOUS
    <3>1. \A m \in 0..n : m = 0 \/ m \in 1..n
      OBVIOUS
    <3>2. \A m \in 0..n : Height(s, m) >= Len(h) + d
      BY <2>1, <2>2, <3>1, HeightZero
    <3>3. 0 \in 0..n /\ 0 < k
      OBVIOUS
    <3>. QED
      BY <1>3, <1>4, <3>2, <3>3
  <2>4. k = 1
    <3>. SUFFICES ASSUME 1 < k PROVE FALSE
      OBVIOUS
    <3>1. 1 \in 0..n
      OBVIOUS
    <3>. QED
      BY <1>3, <1>4, <2>2, <3>1
  <2>. QED
    BY <1>5, <2>3, <2>4
<1>6. CASE h # <<>>
  <2>1. Len(h) \in 1..Len(h)
    BY <1>6, EmptySeq
  <2>2. PICK q \in 1..n : /\ s[q] = h[Len(h)]
                         /\ Height(s, q) = Len(h) + d
                         /\ \A m \in q..n : Height(s, m) >= Len(h) + d
    BY <2>1 DEF Scanned
  <2>3. q \in 0..n /\ k \in 0..n /\ IsOpeningScope(s[q])
    BY <2>1, <2>2, ElementOfSeq DEF IsOpeningScope
  <2>4. ~(k < q)
    BY <1>3, <1>4, <2>2, <2>3
  <2>5. ~(q < k)
    BY <1>3, <1>4, <2>2, <2>3
  <2>6. k = q
    BY <2>4, <2>5
  <2>. QED
    BY <1>6, <2>2, <2>6
<1>. QED
  BY <1>5, <1>6

\* A close token that does not fit: no scope ends there or later.
LEMMA NoScopeAfterWrongClose ==
    ASSUME NEW T, NEW s \in Seq(T), NEW n \in Nat \ {0},
           NEW h \in Seq(OpeningScopes), NEW o \in OpeningScopes,
           s[1] = o, Scanned(1, s, n, h), IsClosingScope(s[n + 1]),
           h = <<>> => s[n + 1] # ClosingOf[o],
           h # <<>> => ~IsClosingScopeOf(h[Len(h)], s[n + 1]),
           NEW c \in Int, c >= n + 1
    PROVE  ~IsScope(s, o, c)
<1>. SUFFICES ASSUME IsScope(s, o, c) PROVE FALSE
  OBVIOUS
<1>1. (n + 1) - 1 = n /\ n + 1 \in 1..c
  OBVIOUS
<1>2. PICK k \in 1..n : /\ ClosesAt(s, k, n + 1)
                       /\ IsClosingScopeOf(s[k], s[n + 1])
  BY <1>1 DEF IsScope, WellNested
<1>3. /\ h # <<>> => s[k] = h[Len(h)]
      /\ h = <<>> => k = 1
  BY <1>2, OnlyTopCloses
<1>. QED
  BY <1>2, <1>3 DEF IsClosingScopeOf

\* Nor is any prefix with it well nested, when no scope is open below the stack.
LEMMA WrongCloseNotNested ==
    ASSUME NEW T, NEW s \in Seq(T), NEW n \in Nat \ {0},
           NEW h \in Seq(OpeningScopes), Scanned(0, s, n, h),
           IsClosingScope(s[n + 1]),
           h # <<>> => ~IsClosingScopeOf(h[Len(h)], s[n + 1]),
           NEW c \in Int, c >= n + 1
    PROVE  ~WellNested(s, c)
<1>. SUFFICES ASSUME WellNested(s, c) PROVE FALSE
  OBVIOUS
<1>1. (n + 1) - 1 = n /\ n + 1 \in 1..c
  OBVIOUS
<1>2. PICK k \in 1..n : /\ ClosesAt(s, k, n + 1)
                       /\ IsClosingScopeOf(s[k], s[n + 1])
  BY <1>1 DEF WellNested
<1>3. h # <<>> => s[k] = h[Len(h)]
  BY <1>2, OnlyTopCloses
<1>4. h # <<>>
  BY <1>2, OnlyTopCloses
<1>. QED
  BY <1>2, <1>3, <1>4
=============================================================================
