------------------------- MODULE MacroExpanderProofs -------------------------
(***************************************************************************)
(* Proofs about MacroExpander, for all names and all programs that end     *)
(* with a token that is neither a name nor a directive.                    *)
(*                                                                         *)
(* Inside and Expansion are recursive functions.  A property of all their  *)
(* values is given as the set T of the places that have it, and shown of   *)
(* all places by InductionUpTo; that they satisfy their own equations is   *)
(* shown in the same way, T holding the places up to which there is such a *)
(* function.                                                               *)
(***************************************************************************)
EXTENDS MacroExpander, Lemmas

-----------------------------------------------------------------------------
(* The recursive functions have the values that their equations say.       *)

\* Inside is the function that its definition asks for.
LEMMA InsideUnfolds ==
    ASSUME Len(code) \in Nat
    PROVE  Inside = [k \in 0..Len(code) |->
                IF k = 0 THEN 0
                ELSE LET d == Inside[k - 1]
                     IN  CASE d = 0 /\ code[k] = "macro_"                 -> k
                           [] d # 0 /\ code[k] = "endmacro_" /\ k > d + 1 -> 0
                           [] OTHER                                       -> d]
<1>. DEFINE N == Len(code)
            step(d, k) == CASE d = 0 /\ code[k] = "macro_"                 -> k
                            [] d # 0 /\ code[k] = "endmacro_" /\ k > d + 1 -> 0
                            [] OTHER                                       -> d
            is(f, n) == f = [k \in 0..n |-> IF k = 0 THEN 0 ELSE step(f[k - 1], k)]
            T == {n \in 0..N : \E f : is(f, n)}
<1>1. 0 \in T
  <2>1. is([k \in 0..0 |-> 0], 0)
    OBVIOUS
  <2>2. \E f : is(f, 0)
    BY <2>1
  <2>3. 0 \in 0..N
    OBVIOUS
  <2>. HIDE DEF step, N
  <2>. QED
    BY <2>2, <2>3
<1>2. ASSUME NEW n \in 1..N, n - 1 \in T PROVE n \in T
  <2>1. PICK f : is(f, n - 1)
    BY <1>2
  <2>. DEFINE g == [k \in 0..n |-> IF k = n THEN step(f[n - 1], n) ELSE f[k]]
  <2>. HIDE DEF step
  <2>2. \A k \in 0..n : g[k] = IF k = 0 THEN 0 ELSE step(g[k - 1], k)
    BY <2>1
  <2>3. is(g, n)
    BY <2>2
  <2>4. \E h : is(h, n)
    BY <2>3
  <2>. QED
    BY <2>4
<1>3. \E f : is(f, N)
  BY <1>1, <1>2, InductionUpTo
<1>. QED
  BY <1>3 DEF Inside

\* What the definition of Inside says of the place k.
InsideEquation(k) ==
    Inside[k] = LET d == Inside[k - 1]
                IN  CASE d = 0 /\ code[k] = "macro_"                 -> k
                      [] d # 0 /\ code[k] = "endmacro_" /\ k > d + 1 -> 0
                      [] OTHER                                       -> d

\* Inside at the start and at each place.
LEMMA InsideStep ==
    ASSUME Len(code) \in Nat
    PROVE  Inside[0] = 0 /\ \A k \in Places : InsideEquation(k)
<1>. DEFINE F == [k \in 0..Len(code) |->
                IF k = 0 THEN 0
                ELSE LET d == Inside[k - 1]
                     IN  CASE d = 0 /\ code[k] = "macro_"                 -> k
                           [] d # 0 /\ code[k] = "endmacro_" /\ k > d + 1 -> 0
                           [] OTHER                                       -> d]
<1>1. Inside = F
  BY InsideUnfolds
<1>2. F[0] = 0
  OBVIOUS
<1>3. ASSUME NEW k \in Places PROVE InsideEquation(k)
  <2>1. k \in 0..Len(code) /\ k # 0
    BY DEF Places
  <2>2. F[k] = LET d == Inside[k - 1]
               IN  CASE d = 0 /\ code[k] = "macro_"                 -> k
                     [] d # 0 /\ code[k] = "endmacro_" /\ k > d + 1 -> 0
                     [] OTHER                                       -> d
    BY <2>1
  <2>3. Inside[k] = F[k]
    BY <1>1
  <2>. QED
    BY <2>2, <2>3 DEF InsideEquation
<1>. QED
  BY <1>1, <1>2, <1>3

\* The place of a definition is one that has been read.
LEMMA InsideType ==
    ASSUME Len(code) \in Nat
    PROVE  \A k \in 0..Len(code) : Inside[k] \in 0..k
<1>. DEFINE T == {n \in 0..Len(code) : Inside[n] \in 0..n}
<1>1. 0 \in T
  BY InsideStep
<1>2. ASSUME NEW n \in 1..Len(code), n - 1 \in T PROVE n \in T
  <2>1. InsideEquation(n)
    BY InsideStep DEF Places
  <2>. QED
    BY <1>2, <2>1 DEF InsideEquation
<1>3. 0..Len(code) \subseteq T
  BY <1>1, <1>2, InductionUpTo
<1>. QED
  BY <1>3

\* What is left is not entered again.
LEMMA InsideNoReturn ==
    ASSUME Len(code) \in Nat, NEW j \in Places, Inside[j] = 0
    PROVE  \A k \in j..Len(code) : Inside[k] = 0 \/ Inside[k] > j
<1>. DEFINE T == {n \in 0..Len(code) : n >= j => Inside[n] = 0 \/ Inside[n] > j}
<1>1. 0 \in T
  BY InsideStep
<1>2. ASSUME NEW n \in 1..Len(code), n - 1 \in T PROVE n \in T
  <2>1. InsideEquation(n)
    BY InsideStep DEF Places
  <2>2. Inside[n - 1] \in Nat /\ j \in Nat
    BY InsideType DEF Places
  <2>. QED
    BY <1>2, <2>1, <2>2 DEF InsideEquation
<1>3. 0..Len(code) \subseteq T
  BY <1>1, <1>2, InductionUpTo
<1>. QED
  BY <1>3 DEF Places

\* Expansion is the function that its definition asks for.
LEMMA ExpansionUnfolds ==
    ASSUME Len(code) \in Nat
    PROVE  Expansion = [k \in 0..Len(code) |->
                IF k = 0 THEN <<>>
                ELSE IF ~IsText(k) THEN Expansion[k - 1]
                ELSE IF code[k] \notin Names THEN Append(Expansion[k - 1], k)
                ELSE Expansion[k - 1] \o InOrder(BodyOf(FirstOf(DefinitionsOf(k))))]
<1>. DEFINE N == Len(code)
            step(e, k) == IF ~IsText(k) THEN e
                          ELSE IF code[k] \notin Names THEN Append(e, k)
                          ELSE e \o InOrder(BodyOf(FirstOf(DefinitionsOf(k))))
            is(f, n) == f = [k \in 0..n |-> IF k = 0 THEN <<>> ELSE step(f[k - 1], k)]
            T == {n \in 0..N : \E f : is(f, n)}
<1>1. 0 \in T
  <2>1. is([k \in 0..0 |-> <<>>], 0)
    OBVIOUS
  <2>2. \E f : is(f, 0)
    BY <2>1
  <2>3. 0 \in 0..N
    OBVIOUS
  <2>. HIDE DEF step, N
  <2>. QED
    BY <2>2, <2>3
<1>2. ASSUME NEW n \in 1..N, n - 1 \in T PROVE n \in T
  <2>1. PICK f : is(f, n - 1)
    BY <1>2
  <2>. DEFINE g == [k \in 0..n |-> IF k = n THEN step(f[n - 1], n) ELSE f[k]]
  <2>. HIDE DEF step
  <2>2. \A k \in 0..n : g[k] = IF k = 0 THEN <<>> ELSE step(g[k - 1], k)
    BY <2>1
  <2>3. is(g, n)
    BY <2>2
  <2>4. \E h : is(h, n)
    BY <2>3
  <2>. QED
    BY <2>4
<1>3. \E f : is(f, N)
  <2>. HIDE DEF step
  <2>1. N \in T
    <3>. HIDE DEF T
    <3>1. 0..N \subseteq T
      BY <1>1, <1>2, InductionUpTo
    <3>. QED
      BY <3>1
  <2>. QED
    BY <2>1
<1>. QED
  BY <1>3 DEF Expansion

\* Expansion at the start and at each place.
LEMMA ExpansionStep ==
    ASSUME Len(code) \in Nat
    PROVE  /\ Expansion[0] = <<>>
           /\ \A k \in Places :
                 /\ ~IsText(k) => Expansion[k] = Expansion[k - 1]
                 /\ IsText(k) /\ code[k] \notin Names =>
                       Expansion[k] = Append(Expansion[k - 1], k)
                 /\ IsText(k) /\ code[k] \in Names =>
                       Expansion[k] = Expansion[k - 1]
                                        \o InOrder(BodyOf(FirstOf(DefinitionsOf(k))))
<1>. DEFINE body(k) == InOrder(BodyOf(FirstOf(DefinitionsOf(k))))
            step(e, k) == IF ~IsText(k) THEN e
                          ELSE IF code[k] \notin Names THEN Append(e, k)
                          ELSE e \o body(k)
            F == [k \in 0..Len(code) |-> IF k = 0 THEN <<>> ELSE step(Expansion[k - 1], k)]
<1>1. Expansion = F
  BY ExpansionUnfolds
<1>. HIDE DEF step
<1>2. F[0] = <<>> /\ \A k \in Places : F[k] = step(Expansion[k - 1], k)
  BY DEF Places
<1>3. Expansion[0] = <<>> /\ \A k \in Places : Expansion[k] = step(Expansion[k - 1], k)
  BY <1>1, <1>2
<1>. HIDE DEF body
<1>4. \A e, k : /\ ~IsText(k) => step(e, k) = e
                /\ IsText(k) /\ code[k] \notin Names => step(e, k) = Append(e, k)
                /\ IsText(k) /\ code[k] \in Names => step(e, k) = e \o body(k)
  <2>. TAKE e, k
  <2>1. CASE ~IsText(k)
    BY <2>1 DEF step
  <2>2. CASE IsText(k) /\ code[k] \notin Names
    BY <2>2 DEF step
  <2>3. CASE IsText(k) /\ code[k] \in Names
    BY <2>3 DEF step
  <2>. QED
    BY <2>1, <2>2, <2>3
<1>5. \A k \in Places :
        /\ ~IsText(k) => Expansion[k] = Expansion[k - 1]
        /\ IsText(k) /\ code[k] \notin Names => Expansion[k] = Append(Expansion[k - 1], k)
        /\ IsText(k) /\ code[k] \in Names => Expansion[k] = Expansion[k - 1] \o body(k)
  BY <1>3, <1>4, Zenon
<1>. QED
  BY <1>3, <1>5 DEF body

\* The places of an interval, in order.
LEMMA IntervalInOrder ==
    ASSUME NEW a \in Nat \ {0}, NEW b \in Nat, a <= b + 1
    PROVE  InOrder(a..b) = [m \in 1..(b - a + 1) |-> a + m - 1]
<1>0. \A n \in Int : Cardinality(a..n) = IF a > n THEN 0 ELSE n - a + 1
  BY FS_Interval
<1>1. Cardinality(a..b) = b - a + 1
  BY <1>0
<1>2. \A k \in a..b : Cardinality({j \in a..b : j < k}) = k - a
  <2>. TAKE k \in a..b
  <2>1. {j \in a..b : j < k} = a..(k - 1)
    OBVIOUS
  <2>2. Cardinality(a..(k - 1)) = k - a
    BY <1>0
  <2>. QED
    BY <2>1, <2>2
<1>3. ASSUME NEW m \in 1..(b - a + 1)
      PROVE  (CHOOSE k \in a..b : Cardinality({j \in a..b : j < k}) = m - 1) = a + m - 1
  <2>1. \A k : k \in a..b /\ Cardinality({j \in a..b : j < k}) = m - 1 <=> k = a + m - 1
    BY <1>2
  <2>. QED
    BY <2>1
<1>. QED
  BY <1>1, <1>3 DEF InOrder

\* One more place after those of an interval.
LEMMA AppendNext ==
    ASSUME NEW a \in Nat, NEW n \in Nat
    PROVE  Append([m \in 1..n |-> a + m], a + n + 1) = [m \in 1..(n + 1) |-> a + m]
<1>. DEFINE short == [m \in 1..n |-> a + m]
            long  == [m \in 1..(n + 1) |-> a + m]
<1>1. short \in Seq(Nat) /\ Len(short) = n
  <2>1. short \in [1..n -> Nat]
    OBVIOUS
  <2>2. short \in Seq(Nat)
    BY <2>1, SeqDef
  <2>. QED
    BY <2>1, <2>2, LenProperties
<1>2. long \in Seq(Nat) /\ Len(long) = n + 1
  <2>1. long \in [1..(n + 1) -> Nat] /\ n + 1 \in Nat
    OBVIOUS
  <2>2. long \in Seq(Nat)
    BY <2>1, SeqDef
  <2>. QED
    BY <2>1, <2>2, LenProperties
<1>3. /\ \A m \in 1..n : short[m] = a + m
      /\ \A m \in 1..(n + 1) : long[m] = a + m
  OBVIOUS
<1>. HIDE DEF short, long
<1>4. /\ Append(short, a + n + 1) \in Seq(Nat) /\ Len(Append(short, a + n + 1)) = n + 1
      /\ \A m \in 1..n : Append(short, a + n + 1)[m] = short[m]
      /\ Append(short, a + n + 1)[n + 1] = a + n + 1
  <2>1. a + n + 1 \in Nat
    OBVIOUS
  <2>. QED
    BY <1>1, <2>1, AppendProperties
<1>5. \A m \in 1..(n + 1) : Append(short, a + n + 1)[m] = long[m]
  <2>. TAKE m \in 1..(n + 1)
  <2>1. m \in 1..n \/ m = n + 1
    OBVIOUS
  <2>. QED
    BY <1>3, <1>4, <2>1
<1>6. Append(short, a + n + 1) = long
  BY <1>2, <1>4, <1>5, SeqEqual
<1>. QED
  BY <1>6 DEF short, long

-----------------------------------------------------------------------------
(* Type correctness.                                                       *)

\* The cursor stays at or right behind the tokens, bodies and output hold places
\* of the code, and no more than names are defined.
THEOREM MacroExpanderTypeOK == Spec => []TypeOK
<1>. DEFINE Tks == Names \cup Others \cup {"macro_", "endmacro_"}
<1>1. ASSUME Init PROVE TypeOK
  <2>1. code \in Seq(Tks) /\ code # <<>> /\ code[Len(code)] \in Others
    BY <1>1, CodesAssumption DEF Init
  <2>2. Len(code) \in Nat
    BY <2>1
  <2>3. <<>> \in Seq(Places)
    OBVIOUS
  <2>4. Defined = {}
    BY <1>1 DEF Init, Defined
  <2>. QED
    BY <1>1, <2>1, <2>2, <2>3, <2>4 DEF Init, TypeOK
<1>2. TypeOK /\ [Next]_vars => TypeOK'
  <2>. SUFFICES ASSUME TypeOK, [Next]_vars PROVE TypeOK'
    OBVIOUS
  <2>0. /\ code \in Seq(Tks) /\ code # <<>> /\ code[Len(code)] \in Others
        /\ c \in 1..(Len(code) + 1)
        /\ output \in Seq(Places) /\ macro_body \in Seq(Places)
        /\ Defined \subseteq Names
        /\ \A n \in Defined : defined_macros[n] \in Seq(Places)
        /\ macro_name \in Names \cup {NoMacro}
        /\ verdict \in {"none", "expanded", "failed", "undefined"}
    BY DEF TypeOK
  <2>. HIDE DEF Tks
  <2>00. Len(code) \in Nat
    BY <2>0, LenProperties
  <2>. USE <2>00
  <2>1. code' = code => Places' = Places
    BY DEF Places
  <2>2. ~AtEnd => c \in Places
    BY <2>0 DEF AtEnd, Places
  <2>3. OnMacro => c < Len(code)
    <3>1. SUFFICES ASSUME OnMacro PROVE c # Len(code)
      BY <2>0, <2>2 DEF OnMacro, At, Places
    <3>. QED
      BY <2>0, <3>1, CodesAssumption DEF OnMacro, At
  <2>4. CASE FailDefinition
    BY <2>0, <2>1, <2>3, <2>4 DEF FailDefinition, TypeOK, definitions, Defined
  <2>5. CASE BeginMacro
    <3>1. macro_body' \in Seq(Places)
      BY <2>5 DEF BeginMacro
    <3>. QED
      BY <2>0, <2>1, <2>3, <2>5, <3>1 DEF BeginMacro, TypeOK, Defined
  <2>6. CASE CollectToken
    <3>1. macro_body' \in Seq(Places)
      BY <2>0, <2>2, <2>6 DEF CollectToken
    <3>. QED
      BY <2>0, <2>1, <2>2, <2>6, <3>1 DEF CollectToken, TypeOK, Defined, Places
  <2>7. CASE CollectPastEnd
    BY <2>0, <2>1, <2>7 DEF CollectPastEnd, TypeOK, definitions, Defined
  <2>8. CASE EndMacro
    <3>1. macro_name \in Names /\ ~AtEnd
      BY <2>0, <2>8 DEF EndMacro, Collecting, At
    <3>2. Defined' = Defined \cup {macro_name}
      BY <2>8 DEF EndMacro, Defined
    <3>3. \A n \in Defined' : defined_macros'[n] \in Seq(Places)
      BY <2>0, <2>8, <3>2 DEF EndMacro, Defined
    <3>. QED
      BY <2>0, <2>1, <2>2, <2>8, <3>1, <3>2, <3>3 DEF EndMacro, TypeOK, Places
  <2>9. CASE InvokeMacro
    <3>1. output' \in Seq(Places)
      BY <2>0, <2>9, ConcatProperties DEF InvokeMacro
    <3>. QED
      BY <2>0, <2>1, <2>2, <2>9, <3>1 DEF InvokeMacro, TypeOK, definitions, Defined, Places
  <2>10. CASE StayOnName
    BY <2>0, <2>1, <2>10 DEF StayOnName, TypeOK, vars, Defined
  <2>11. CASE CopyToken
    <3>1. output' \in Seq(Places)
      BY <2>0, <2>2, <2>11 DEF CopyToken
    <3>. QED
      BY <2>0, <2>1, <2>2, <2>11, <3>1 DEF CopyToken, TypeOK, definitions, Defined, Places
  <2>12. CASE Finish
    BY <2>0, <2>1, <2>12 DEF Finish, TypeOK, definitions, Defined
  <2>13. CASE UNCHANGED vars
    BY <2>0, <2>1, <2>13 DEF TypeOK, vars, Defined
  <2>. QED
    BY <2>4, <2>5, <2>6, <2>7, <2>8, <2>9, <2>10, <2>11, <2>12, <2>13 DEF Next
<1>. QED
  BY <1>1, <1>2, PTL DEF Spec

-----------------------------------------------------------------------------
(* The expansion.                                                          *)

\* What is read from the code alone stays as it is.
LEMMA CodeKept ==
    ASSUME code' = code
    PROVE  /\ Inside' = Inside /\ Expansion' = Expansion
           /\ Places' = Places /\ Definitions' = Definitions
           /\ \A k : /\ DefinitionsOf(k)' = DefinitionsOf(k)
                     /\ BodyOf(k)' = BodyOf(k) /\ NameOf(k)' = NameOf(k)
                     /\ IsText(k)' = IsText(k) /\ IsMacro(k)' = IsMacro(k)
                     /\ IsBad(k)' = IsBad(k)
<1>1. Places' = Places
  BY DEF Places
<1>2. Inside' = Inside
  BY DEF Inside
<1>3. Definitions' = Definitions
  BY <1>1, <1>2 DEF Definitions
<1>4. \A k : DefinitionsOf(k)' = DefinitionsOf(k) /\ NameOf(k)' = NameOf(k)
  BY <1>3 DEF DefinitionsOf, NameOf
<1>5. \A k : BodyOf(k)' = BodyOf(k)
  BY <1>1, <1>2 DEF BodyOf
<1>6. \A k : IsText(k)' = IsText(k)
  BY <1>2, <1>3 DEF IsText
<1>7. \A k : IsMacro(k)' = IsMacro(k)
  BY <1>4, <1>6 DEF IsMacro
<1>8. \A k : IsBad(k)' = IsBad(k)
  BY <1>4 DEF IsBad
<1>9. Expansion' = Expansion
  BY DEF Expansion, IsText, Inside, Definitions, DefinitionsOf, NameOf, BodyOf, Places
<1>. QED
  BY <1>1, <1>2, <1>3, <1>4, <1>5, <1>6, <1>7, <1>8, <1>9

\* A definition begins at a place of the code, with its own number.
LEMMA DefinitionType ==
    ASSUME NEW d \in Definitions
    PROVE  d \in Places /\ d \in Nat \ {0} /\ Inside[d] = d
BY DEF Definitions, Places

\* Facts about the token at the cursor.
LEMMA AtCursor ==
    ASSUME TypeOK, ~AtEnd
    PROVE  /\ Len(code) \in Nat /\ c \in Places /\ c \in Nat \ {0}
           /\ Inside[c - 1] \in 0..(c - 1)
           /\ InsideEquation(c)
<1>1. Len(code) \in Nat /\ c \in 1..(Len(code) + 1)
  BY LenProperties DEF TypeOK
<1>2. c \in 1..Len(code)
  BY <1>1 DEF AtEnd
<1>. QED
  BY <1>1, <1>2, InsideType, InsideStep DEF Places

\* A token that begins and ends no definition.
LEMMA ReadOn ==
    ASSUME TypeOK, DefinitionsRead, MacrosDefined, ~AtEnd,
           Inside[c] = Inside[c - 1], Inside[c - 1] # c - 1 \/ Inside[c - 1] = 0,
           code' = code, c' = c + 1, defined_macros' = defined_macros
    PROVE  DefinitionsRead' /\ MacrosDefined'
<1>1. c \in Nat \ {0} /\ Inside' = Inside /\ Definitions' = Definitions
      /\ c' - 1 = c /\ Defined' = Defined
  BY AtCursor, CodeKept DEF Defined
<1>2. ASSUME NEW d \in Definitions, d < c PROVE d < c - 1
  <2>1. d # c - 1
    BY DefinitionType
  <2>. QED
    BY <1>1, <1>2, <2>1, DefinitionType
<1>3. DefinitionsRead'
  <2>. SUFFICES ASSUME NEW d \in Definitions, d < c
                PROVE  /\ ~IsBad(d)
                       /\ d # Inside[c] =>
                             /\ NameOf(d) \in Defined
                             /\ defined_macros[NameOf(d)] = InOrder(BodyOf(d))
    BY <1>1, CodeKept DEF DefinitionsRead
  <2>. QED
    BY <1>2 DEF DefinitionsRead
<1>4. MacrosDefined'
  <2>. SUFFICES ASSUME NEW n \in Defined
                PROVE  \E d \in Definitions : d < c /\ d # Inside[c] /\ NameOf(d) = n
    BY <1>1, CodeKept DEF MacrosDefined
  <2>1. PICK d \in Definitions : d < c - 1 /\ d # Inside[c - 1] /\ NameOf(d) = n
    BY DEF MacrosDefined
  <2>2. d < c
    BY <1>1, <2>1, DefinitionType
  <2>. QED
    BY <2>1, <2>2
<1>. QED
  BY <1>3, <1>4

\* A step over one token after which the output is what has been read.
LEMMA ExpandsOn ==
    ASSUME TypeOK, ExpandsMacros, ~AtEnd, code' = code, c' = c + 1,
           verdict' = "none", output' = Expansion[c], IsMacro(c)
    PROVE  ExpandsMacros'
<1>1. c \in Nat \ {0} /\ c' - 1 = c
  BY AtCursor
<1>2. \A k \in 1..c : IsMacro(k)
  <2>. TAKE k \in 1..c
  <2>1. k \in 1..(c - 1) \/ k = c
    BY <1>1
  <2>. QED
    BY <2>1 DEF ExpandsMacros
<1>3. \A k \in 1..(c' - 1) : IsMacro(k)'
  BY <1>1, <1>2, CodeKept
<1>4. output' = Expansion'[c' - 1]
  BY <1>1, CodeKept
<1>. QED
  BY <1>3, <1>4 DEF ExpandsMacros

\* A token inside of a definition.
LEMMA CollectKeeps ==
    ASSUME TypeOK, MacroInv, ExpandsMacros, CollectToken \/ EndMacro
    PROVE  MacroInv' /\ ExpandsMacros'
<1>. PICK d0 : d0 = Inside[c - 1]
  OBVIOUS
<1>0. /\ verdict = "none" /\ macro_name # NoMacro /\ ~AtEnd
      /\ code' = code /\ c' = c + 1 /\ output' = output /\ verdict' = "none"
  BY DEF CollectToken, EndMacro, Collecting, At
<1>1. /\ Len(code) \in Nat /\ c \in Places /\ c \in Nat \ {0}
      /\ c' - 1 = c /\ InsideEquation(c)
  BY <1>0, AtCursor
<1>2. /\ d0 \in Definitions /\ d0 < c - 1
      /\ macro_name = NameOf(d0) /\ macro_body = Collected(d0)
      /\ \A k \in d0..(c - 1) : Inside[k] = d0
  BY <1>0 DEF MacroInv
<1>3. d0 \in Nat \ {0}
  BY <1>2, DefinitionType
<1>4. DefinitionsRead /\ MacrosDefined
  BY DEF MacroInv
<1>5. ~IsText(c)
  BY <1>3 DEF IsText
<1>6. ExpandsMacros'
  <2>1. Expansion[c] = Expansion[c - 1]
    BY <1>1, <1>5, ExpansionStep
  <2>2. output = Expansion[c - 1]
    BY DEF ExpandsMacros
  <2>3. IsMacro(c)
    BY <1>5 DEF IsMacro
  <2>. QED
    BY <1>0, <2>1, <2>2, <2>3, ExpandsOn
<1>7. CASE CollectToken
  <2>1. /\ code[c] # "endmacro_" /\ macro_body' = Append(macro_body, c)
        /\ defined_macros' = defined_macros /\ macro_name' = macro_name
    BY <1>7 DEF CollectToken
  <2>2. Inside[c] = d0
    BY <1>1, <1>3, <2>1 DEF InsideEquation
  <2>3. DefinitionsRead' /\ MacrosDefined'
    <3>1. Inside[c - 1] # c - 1
      BY <1>1, <1>2, <1>3
    <3>. QED
      BY <1>0, <1>4, <2>1, <2>2, <3>1, ReadOn
  <2>4. macro_body' = [m \in 1..(c' - d0 - 2) |-> d0 + 1 + m]
    <3>. DEFINE n == c - d0 - 2
                body == [m \in 1..n |-> d0 + 1 + m]
    <3>1. n \in Nat /\ macro_body = body
      BY <1>1, <1>2, <1>3 DEF Collected
    <3>2. d0 + 1 \in Nat /\ c = (d0 + 1) + n + 1
      BY <1>1, <1>3
    <3>3. Append(body, c) = [m \in 1..(n + 1) |-> d0 + 1 + m]
      BY <3>1, <3>2, AppendNext
    <3>. QED
      <4>1. c' - d0 - 2 = n + 1
        BY <1>0, <1>1, <1>3
      <4>. HIDE DEF n
      <4>. QED
        BY <2>1, <3>1, <3>3, <4>1
  <2>5. \A k \in d0..c : Inside[k] = d0
    <3>. TAKE k \in d0..c
    <3>1. k \in d0..(c - 1) \/ k = c
      BY <1>1, <1>3
    <3>. QED
      BY <1>2, <2>2, <3>1
  <2>6. d0 < c
    BY <1>1, <1>2, <1>3
  <2>7. /\ Inside' = Inside /\ Definitions' = Definitions
        /\ \A d : NameOf(d)' = NameOf(d)
    BY <1>0, CodeKept
  <2>8. Inside'[c' - 1] = d0
    BY <1>1, <2>2, <2>7
  <2>9. /\ d0 \in Definitions' /\ d0 < c' - 1
        /\ macro_name' = NameOf(d0)' /\ macro_body' = Collected(d0)'
        /\ \A k \in d0..(c' - 1) : Inside'[k] = d0
    BY <1>1, <1>2, <2>1, <2>4, <2>5, <2>6, <2>7 DEF Collected
  <2>. QED
    BY <1>0, <1>6, <2>1, <2>3, <2>8, <2>9
    DEF MacroInv
<1>8. CASE EndMacro
  <2>1. /\ code[c] = "endmacro_" /\ macro_name' = NoMacro
        /\ defined_macros' = [n \in Defined \cup {macro_name} |->
                                 IF n = macro_name THEN macro_body ELSE defined_macros[n]]
    BY <1>8 DEF EndMacro, At
  <2>2. Inside[c] = 0
    BY <1>1, <1>2, <1>3, <2>1 DEF InsideEquation
  <2>3. Defined' = Defined \cup {macro_name}
    BY <2>1 DEF Defined
  <2>4. Inside' = Inside /\ Definitions' = Definitions /\ Inside'[c' - 1] = 0
    BY <1>0, <1>1, <2>2, CodeKept
  <2>5. ASSUME NEW d \in Definitions, d < c PROVE d < c - 1
    <3>1. d # c - 1
      BY <1>1, <1>2, <1>3, DefinitionType
    <3>. QED
      BY <1>1, <2>5, <3>1, DefinitionType
  <2>6. macro_body = InOrder(BodyOf(d0))
    <3>1. BodyOf(d0) = (d0 + 2)..(c - 1)
      <4>1. ASSUME NEW k \in BodyOf(d0) PROVE k \in (d0 + 2)..(c - 1)
        <5>1. k \in Places /\ k \in Nat /\ k > d0 + 1 /\ Inside[k] = d0
          BY <4>1 DEF BodyOf, Places
        <5>2. ~(k >= c)
          <6>1. k >= c => Inside[k] = 0 \/ Inside[k] > c
            BY <1>1, <2>2, <5>1, InsideNoReturn DEF Places
          <6>. QED
            BY <1>1, <1>2, <1>3, <5>1, <6>1
        <5>. QED
          BY <1>1, <1>3, <5>1, <5>2
      <4>2. ASSUME NEW k \in (d0 + 2)..(c - 1) PROVE k \in BodyOf(d0)
        <5>1. k \in d0..(c - 1) /\ k \in Places /\ k > d0 + 1
          BY <1>1, <1>3, <4>2 DEF Places
        <5>. QED
          BY <1>2, <5>1 DEF BodyOf
      <4>. QED
        BY <4>1, <4>2
    <3>2. InOrder((d0 + 2)..(c - 1))
            = [m \in 1..((c - 1) - (d0 + 2) + 1) |-> (d0 + 2) + m - 1]
      <4>1. d0 + 2 \in Nat \ {0} /\ c - 1 \in Nat /\ d0 + 2 <= (c - 1) + 1
        BY <1>1, <1>2, <1>3
      <4>. QED
        BY <4>1, IntervalInOrder
    <3>3. [m \in 1..((c - 1) - (d0 + 2) + 1) |-> (d0 + 2) + m - 1] = Collected(d0)
      <4>1. (c - 1) - (d0 + 2) + 1 = c - d0 - 2
        BY <1>1, <1>3
      <4>2. \A m \in 1..(c - d0 - 2) : (d0 + 2) + m - 1 = d0 + 1 + m
        BY <1>3
      <4>. QED
        BY <4>1, <4>2 DEF Collected
    <3>. QED
      BY <1>2, <3>1, <3>2, <3>3
  <2>7. ASSUME NEW d \in Definitions, d < c - 1
        PROVE  /\ ~IsBad(d) /\ NameOf(d) \in Defined'
               /\ defined_macros'[NameOf(d)] = InOrder(BodyOf(d))
    <3>1. ~IsBad(d) /\ ~IsBad(d0)
      BY <1>2, <1>4, <2>7 DEF DefinitionsRead
    <3>2. CASE d = d0
      BY <1>2, <2>1, <2>3, <2>6, <3>1, <3>2
    <3>3. CASE d # d0
      <4>1. NameOf(d) \in Defined /\ defined_macros[NameOf(d)] = InOrder(BodyOf(d))
        BY <1>4, <2>7, <3>3 DEF DefinitionsRead
      <4>2. NameOf(d) # NameOf(d0)
        <5>1. d \in Nat /\ d0 \in Nat
          BY DefinitionType, <1>3
        <5>2. d < d0 \/ d0 < d
          BY <3>3, <5>1
        <5>. QED
          BY <1>2, <3>1, <5>1, <5>2 DEF IsBad, DefinitionsOf, NameOf
      <4>. QED
        BY <1>2, <2>1, <2>3, <3>1, <4>1, <4>2
    <3>. QED
      BY <3>2, <3>3
  <2>8. DefinitionsRead'
    <3>. SUFFICES ASSUME NEW d \in Definitions, d < c
                  PROVE  /\ ~IsBad(d) /\ NameOf(d) \in Defined'
                         /\ defined_macros'[NameOf(d)] = InOrder(BodyOf(d))
      BY <1>0, <1>1, CodeKept DEF DefinitionsRead
    <3>. QED
      BY <2>5, <2>7
  <2>9. MacrosDefined'
    <3>. SUFFICES ASSUME NEW n \in Defined'
                  PROVE  \E d \in Definitions : d < c /\ d # 0 /\ NameOf(d) = n
      BY <1>0, <1>1, <2>4, CodeKept DEF MacrosDefined
    <3>1. CASE n \in Defined
      <4>1. PICK d \in Definitions : d < c - 1 /\ NameOf(d) = n
        BY <1>4, <3>1 DEF MacrosDefined
      <4>2. d < c /\ d # 0
        BY <1>1, <4>1, DefinitionType
      <4>. QED
        BY <4>1, <4>2
    <3>2. CASE n = macro_name
      <4>1. d0 < c /\ d0 # 0
        BY <1>1, <1>2, <1>3
      <4>. QED
        BY <1>2, <3>2, <4>1
    <3>. QED
      BY <2>3, <3>1, <3>2
  <2>. QED
    BY <1>6, <2>1, <2>4, <2>8, <2>9 DEF MacroInv
<1>. QED
  BY <1>6, <1>7, <1>8

\* A token of the program: a use of a macro, or one that is copied.
LEMMA TextKeeps ==
    ASSUME TypeOK, MacroInv, ExpandsMacros, InvokeMacro \/ CopyToken
    PROVE  MacroInv' /\ ExpandsMacros'
<1>0. /\ verdict = "none" /\ macro_name = NoMacro /\ ~AtEnd
      /\ code' = code /\ c' = c + 1 /\ verdict' = "none" /\ macro_name' = macro_name
      /\ defined_macros' = defined_macros /\ code[c] # "macro_"
  <2>1. CASE InvokeMacro
    <3>1. code[c] \in Names
      BY <2>1 DEF InvokeMacro, TypeOK
    <3>. QED
      BY <2>1, <3>1, CodesAssumption DEF InvokeMacro, Scanning, definitions
  <2>2. CASE CopyToken
    BY <2>2 DEF CopyToken, Scanning, definitions
  <2>. QED
    BY <2>1, <2>2
<1>1. /\ Len(code) \in Nat /\ c \in Places /\ c \in Nat \ {0}
      /\ c' - 1 = c /\ InsideEquation(c)
  BY <1>0, AtCursor
<1>2. Inside[c - 1] = 0
  BY <1>0 DEF MacroInv
<1>3. Inside[c] = 0
  BY <1>0, <1>1, <1>2 DEF InsideEquation
<1>4. DefinitionsRead /\ MacrosDefined
  BY DEF MacroInv
<1>5. DefinitionsRead' /\ MacrosDefined'
  BY <1>0, <1>2, <1>3, <1>4, ReadOn
<1>6. Inside'[c' - 1] = 0
  BY <1>0, <1>1, <1>3, CodeKept
<1>7. MacroInv'
  BY <1>0, <1>5, <1>6 DEF MacroInv
<1>8. IsText(c)
  BY <1>1, <1>2, <1>3, DefinitionType DEF IsText
<1>9. output = Expansion[c - 1]
  BY DEF ExpandsMacros
<1>10. CASE CopyToken
  <2>1. code[c] \notin Names /\ output' = Append(output, c)
    BY <1>10 DEF CopyToken
  <2>2. IsMacro(c)
    BY <2>1 DEF IsMacro
  <2>3. output' = Expansion[c]
    BY <1>1, <1>8, <1>9, <2>1, ExpansionStep
  <2>. QED
    BY <1>0, <1>7, <2>2, <2>3, ExpandsOn
<1>11. CASE InvokeMacro
  <2>1. /\ code[c] \in Defined /\ code[c] \in Names
        /\ output' = output \o defined_macros[code[c]]
    BY <1>11 DEF InvokeMacro, TypeOK
  <2>2. PICK d \in Definitions : d < c - 1 /\ NameOf(d) = code[c]
    BY <1>4, <2>1 DEF MacrosDefined
  <2>3. d \in Nat \ {0} /\ d # Inside[c - 1]
    BY <1>2, DefinitionType
  <2>4. defined_macros[code[c]] = InOrder(BodyOf(d)) /\ ~IsBad(d)
    BY <1>4, <2>2, <2>3 DEF DefinitionsRead
  <2>5. DefinitionsOf(c) = {d}
    <3>1. d \in DefinitionsOf(c)
      BY <1>1, <2>2, <2>3 DEF DefinitionsOf
    <3>2. ASSUME NEW e \in DefinitionsOf(c) PROVE e = d
      <4>1. /\ e \in Definitions /\ e \in Nat /\ e < c - 1
            /\ NameOf(e) = NameOf(d)
        BY <1>1, <2>2, <3>2, DefinitionType DEF DefinitionsOf
      <4>2. ~IsBad(e)
        BY <1>4, <4>1 DEF DefinitionsRead
      <4>3. ~(e < d) /\ ~(d < e)
        BY <2>2, <2>3, <2>4, <4>1, <4>2 DEF IsBad, DefinitionsOf, NameOf
      <4>. QED
        BY <2>3, <4>1, <4>3
    <3>. QED
      BY <3>1, <3>2
  <2>6. FirstOf(DefinitionsOf(c)) = d
    BY <2>3, <2>5 DEF FirstOf
  <2>7. IsMacro(c)
    BY <2>5 DEF IsMacro
  <2>8. output' = Expansion[c]
    BY <1>1, <1>8, <1>9, <2>1, <2>4, <2>6, ExpansionStep
  <2>. QED
    BY <1>0, <1>7, <2>7, <2>8, ExpandsOn
<1>. QED
  BY <1>10, <1>11

\* A directive with a new name: the definition at the cursor is entered.
LEMMA BeginKeeps ==
    ASSUME TypeOK, MacroInv, ExpandsMacros, BeginMacro
    PROVE  MacroInv' /\ ExpandsMacros'
<1>. PICK d0 : d0 = c
  OBVIOUS
<1>0. /\ verdict = "none" /\ macro_name = NoMacro /\ ~AtEnd
      /\ code[c] = "macro_" /\ code[c + 1] \in Names \ Defined
      /\ code' = code /\ c' = c + 2 /\ output' = output /\ verdict' = "none"
      /\ macro_name' = code[c + 1] /\ macro_body' = <<>>
      /\ defined_macros' = defined_macros
  BY DEF BeginMacro, OnMacro, Scanning, At, Named
<1>1. /\ Len(code) \in Nat /\ c \in Places /\ c \in Nat \ {0}
      /\ c' - 1 = c + 1 /\ InsideEquation(c)
  BY <1>0, AtCursor
<1>2. Inside[c - 1] = 0
  BY <1>0 DEF MacroInv
<1>3. Inside[c] = c /\ c \in Definitions
  BY <1>0, <1>1, <1>2 DEF InsideEquation, Definitions
<1>4. c + 1 \in Places
  <2>1. c # Len(code)
    BY <1>0, CodesAssumption DEF TypeOK
  <2>. QED
    BY <1>1, <2>1 DEF Places
<1>5. Inside[c + 1] = c
  <2>1. InsideEquation(c + 1) /\ (c + 1) - 1 = c
    BY <1>1, <1>4, InsideStep
  <2>2. code[c + 1] # "macro_" /\ ~(c + 1 > c + 1) /\ c # 0
    BY <1>0, <1>1, CodesAssumption
  <2>. QED
    BY <1>3, <2>1, <2>2 DEF InsideEquation
<1>6. ~IsText(c) /\ ~IsText(c + 1)
  BY <1>1, <1>3 DEF IsText
<1>7. ASSUME NEW d \in Definitions, d < c
      PROVE  /\ d < c - 1 /\ ~IsBad(d) /\ NameOf(d) \in Defined
             /\ defined_macros[NameOf(d)] = InOrder(BodyOf(d))
  <2>1. d \in Nat \ {0} /\ Inside[d] = d
    BY DefinitionType
  <2>2. d # c - 1
    BY <1>2, <2>1
  <2>3. d < c - 1 /\ d # Inside[c - 1]
    BY <1>1, <1>2, <1>7, <2>1, <2>2
  <2>. QED
    BY <2>3 DEF MacroInv, DefinitionsRead
<1>8. ~IsBad(c) /\ NameOf(c) = code[c + 1]
  <2>1. NameOf(c) = code[c + 1]
    BY DEF NameOf
  <2>2. DefinitionsOf(c + 1) = {}
    <3>. SUFFICES ASSUME NEW d \in DefinitionsOf(c + 1) PROVE FALSE
      OBVIOUS
    <3>1. d \in Definitions /\ d < c /\ NameOf(d) = code[c + 1]
      BY <1>1, DefinitionType DEF DefinitionsOf
    <3>. QED
      BY <1>0, <1>7, <3>1
  <2>. QED
    BY <1>0, <2>1, <2>2 DEF IsBad
<1>9. /\ Inside' = Inside /\ Definitions' = Definitions /\ Expansion' = Expansion
      /\ Defined' = Defined /\ \A d : NameOf(d)' = NameOf(d)
      /\ Inside'[c' - 1] = d0
  <2>1. Inside' = Inside /\ Definitions' = Definitions /\ Expansion' = Expansion
        /\ \A d : NameOf(d)' = NameOf(d)
    BY <1>0, CodeKept
  <2>. QED
    BY <1>0, <1>1, <1>5, <2>1 DEF Defined
<1>10. DefinitionsRead'
  <2>. SUFFICES ASSUME NEW d \in Definitions, d < c + 1
                PROVE  /\ ~IsBad(d)
                       /\ d # c =>
                             /\ NameOf(d) \in Defined
                             /\ defined_macros[NameOf(d)] = InOrder(BodyOf(d))
    BY <1>0, <1>1, <1>9, CodeKept DEF DefinitionsRead
  <2>1. d < c \/ d = c
    BY <1>1, DefinitionType
  <2>. QED
    BY <1>7, <1>8, <2>1
<1>11. MacrosDefined'
  <2>. SUFFICES ASSUME NEW n \in Defined
                PROVE  \E d \in Definitions : d < c + 1 /\ d # c /\ NameOf(d) = n
    BY <1>1, <1>9 DEF MacrosDefined
  <2>1. PICK d \in Definitions : d < c - 1 /\ NameOf(d) = n
    BY DEF MacroInv, MacrosDefined
  <2>2. d < c + 1 /\ d # c
    BY <1>1, <2>1, DefinitionType
  <2>. QED
    BY <2>1, <2>2
<1>12. MacroInv'
  <2>1. macro_body' = Collected(d0)'
    <3>1. c' - d0 - 2 = 0
      BY <1>0, <1>1
    <3>2. Collected(d0)' = [m \in 1..0 |-> d0 + 1 + m]
      BY <3>1 DEF Collected
    <3>. QED
      BY <1>0, <3>2
  <2>2. /\ d0 \in Definitions' /\ d0 < c' - 1 /\ macro_name' = NameOf(d0)'
        /\ \A k \in d0..(c' - 1) : Inside'[k] = d0
    <3>1. \A k \in c..(c + 1) : k = c \/ k = c + 1
      BY <1>1
    <3>. QED
      BY <1>0, <1>1, <1>3, <1>5, <1>8, <1>9, <3>1
  <2>3. macro_name' # NoMacro
    BY <1>0, CodesAssumption
  <2>. QED
    BY <1>0, <1>9, <1>10, <1>11, <2>1, <2>2, <2>3
    DEF MacroInv
<1>13. ExpandsMacros'
  <2>1. Expansion[c] = Expansion[c - 1]
    BY <1>1, <1>6, ExpansionStep
  <2>2. Expansion[c + 1] = Expansion[c]
    <3>1. (c + 1) - 1 = c
      BY <1>1
    <3>. QED
      BY <1>1, <1>4, <1>6, <3>1, ExpansionStep
  <2>3. output' = Expansion'[c' - 1]
    BY <1>0, <1>1, <1>9, <2>1, <2>2 DEF ExpandsMacros
  <2>4. \A k \in 1..(c + 1) : IsMacro(k)
    <3>. TAKE k \in 1..(c + 1)
    <3>1. k \in 1..(c - 1) \/ k = c \/ k = c + 1
      BY <1>1
    <3>. QED
      BY <1>6, <3>1 DEF ExpandsMacros, IsMacro
  <2>5. \A k \in 1..(c' - 1) : IsMacro(k)'
    BY <1>0, <1>1, <2>4, CodeKept
  <2>. QED
    BY <1>0, <2>3, <2>5 DEF ExpandsMacros
<1>. QED
  BY <1>12, <1>13

\* A directive without a new name ends the call behind it.
LEMMA FailKeeps ==
    ASSUME TypeOK, MacroInv, ExpandsMacros, FailDefinition
    PROVE  MacroInv' /\ ExpandsMacros'
<1>0. /\ verdict = "none" /\ macro_name = NoMacro /\ ~AtEnd
      /\ code[c] = "macro_" /\ code[c + 1] \notin Names \ Defined
      /\ code' = code /\ c' = c + 1 /\ output' = output /\ verdict' = "failed"
      /\ defined_macros' = defined_macros
  BY DEF FailDefinition, OnMacro, Scanning, At, Named, definitions
<1>1. /\ Len(code) \in Nat /\ c \in Places /\ c \in Nat \ {0}
      /\ c' - 1 = c /\ InsideEquation(c)
  BY <1>0, AtCursor
<1>2. Inside[c - 1] = 0
  BY <1>0 DEF MacroInv
<1>3. Inside[c] = c /\ c \in Definitions
  BY <1>0, <1>1, <1>2 DEF InsideEquation, Definitions
<1>4. ~IsText(c)
  BY <1>3 DEF IsText
<1>5. ASSUME NEW d \in Definitions, d < c
      PROVE  /\ ~IsBad(d) /\ NameOf(d) \in Defined
             /\ defined_macros[NameOf(d)] = InOrder(BodyOf(d))
  <2>1. d \in Nat \ {0} /\ Inside[d] = d
    BY DefinitionType
  <2>2. d # c - 1
    BY <1>2, <2>1
  <2>3. d < c - 1 /\ d # Inside[c - 1]
    BY <1>1, <1>2, <1>5, <2>1, <2>2
  <2>. QED
    BY <2>3 DEF MacroInv, DefinitionsRead
<1>6. Defined' = Defined /\ Inside' = Inside /\ Definitions' = Definitions
  BY <1>0, CodeKept DEF Defined
<1>7. DefinitionsRead'
  <2>. SUFFICES ASSUME NEW d \in Definitions, d < c
                PROVE  /\ ~IsBad(d) /\ NameOf(d) \in Defined
                       /\ defined_macros[NameOf(d)] = InOrder(BodyOf(d))
    BY <1>0, <1>1, <1>6, CodeKept DEF DefinitionsRead
  <2>. QED
    BY <1>5
<1>8. MacrosDefined'
  <2>. SUFFICES ASSUME NEW n \in Defined
                PROVE  \E d \in Definitions : d < c /\ d # c /\ NameOf(d) = n
    BY <1>0, <1>1, <1>3, <1>6, CodeKept DEF MacrosDefined
  <2>1. PICK d \in Definitions : d < c - 1 /\ NameOf(d) = n
    BY DEF MacroInv, MacrosDefined
  <2>2. d < c /\ d # c
    BY <1>1, <2>1, DefinitionType
  <2>. QED
    BY <2>1, <2>2
<1>9. MacroInv'
  BY <1>0, <1>7, <1>8 DEF MacroInv
<1>10. IsBad(c)
  <2>. SUFFICES ASSUME code[c + 1] \in Defined PROVE DefinitionsOf(c + 1) # {}
    BY <1>0 DEF IsBad, NameOf
  <2>1. PICK d \in Definitions : d < c - 1 /\ NameOf(d) = code[c + 1]
    BY DEF MacroInv, MacrosDefined
  <2>2. d + 1 < c + 1
    BY <1>1, <2>1, DefinitionType
  <2>. QED
    BY <2>1, <2>2 DEF DefinitionsOf
<1>11. ExpandsMacros'
  <2>1. output' = Expansion'[c' - 1]
    <3>1. Expansion[c] = Expansion[c - 1]
      BY <1>1, <1>4, ExpansionStep
    <3>. QED
      BY <1>0, <1>1, <3>1, CodeKept DEF ExpandsMacros
  <2>2. \A k \in 1..(c' - 1) : IsMacro(k)'
    <3>1. \A k \in 1..c : IsMacro(k)
      <4>. TAKE k \in 1..c
      <4>1. k \in 1..(c - 1) \/ k = c
        BY <1>1
      <4>. QED
        BY <1>4, <4>1 DEF ExpandsMacros, IsMacro
    <3>. QED
      BY <1>0, <1>1, <3>1, CodeKept
  <2>3. Inside'[c' - 1] = c' - 1 /\ IsBad(c - 1)'
    <3>1. Inside'[c' - 1] = c' - 1
      BY <1>0, <1>1, <1>3, <1>6
    <3>2. IsBad(c - 1)'
      BY <1>0, <1>1, <1>6, <1>10 DEF IsBad, NameOf, DefinitionsOf
    <3>. QED
      BY <3>1, <3>2
  <2>4. \A d \in Definitions' : d < c' - 1 => ~IsBad(d)'
    BY <1>0, <1>1, <1>5, <1>6, CodeKept
  <2>. QED
    BY <1>0, <2>1, <2>2, <2>3, <2>4 DEF ExpandsMacros
<1>. QED
  BY <1>9, <1>11

\* The end of the code, well or inside of a definition.
LEMMA EndKeeps ==
    ASSUME TypeOK, MacroInv, ExpandsMacros, CollectPastEnd \/ Finish
    PROVE  MacroInv' /\ ExpandsMacros'
<1>0. /\ verdict = "none" /\ AtEnd /\ code' = code /\ c' = c /\ output' = output
      /\ defined_macros' = defined_macros /\ macro_name' = macro_name
  BY DEF CollectPastEnd, Finish, Collecting, Scanning, definitions
<1>1. c \in Nat \ {0} /\ Len(code) = c - 1
  <2>1. Len(code) \in Nat /\ c \in 1..(Len(code) + 1)
    BY LenProperties DEF TypeOK
  <2>. QED
    BY <1>0, <2>1 DEF AtEnd
<1>2. /\ Inside' = Inside /\ Definitions' = Definitions /\ Expansion' = Expansion
      /\ Defined' = Defined /\ AtEnd'
      /\ \A k : /\ NameOf(k)' = NameOf(k) /\ BodyOf(k)' = BodyOf(k)
                /\ IsBad(k)' = IsBad(k) /\ IsMacro(k)' = IsMacro(k)
  BY <1>0, CodeKept DEF Defined, AtEnd
<1>3. verdict' # "none"
  BY DEF CollectPastEnd, Finish
<1>4. MacroInv'
  <2>1. DefinitionsRead /\ MacrosDefined
    BY DEF MacroInv
  <2>2. DefinitionsRead'
    BY <1>0, <1>2, <2>1 DEF DefinitionsRead
  <2>3. MacrosDefined'
    BY <1>0, <1>2, <2>1 DEF MacrosDefined
  <2>. QED
    BY <1>3, <2>2, <2>3 DEF MacroInv
<1>5. \A d \in Definitions : d < c - 1 => ~IsBad(d)
  BY DEF MacroInv, DefinitionsRead
<1>6. CASE CollectPastEnd
  <2>1. verdict' = "undefined" /\ macro_name # NoMacro
    BY <1>6 DEF CollectPastEnd, Collecting
  <2>2. Inside[c - 1] \in Definitions
    BY <1>0, <2>1 DEF MacroInv
  <2>3. Inside[c - 1] # 0
    BY <2>2, DefinitionType
  <2>. QED
    BY <1>0, <1>1, <1>2, <1>4, <1>5, <2>1, <2>3 DEF ExpandsMacros
<1>7. CASE Finish
  <2>1. verdict' = "expanded" /\ Inside[c - 1] = 0
    BY <1>7 DEF Finish, Scanning, MacroInv
  <2>. QED
    BY <1>0, <1>1, <1>2, <1>4, <1>5, <2>1 DEF ExpandsMacros
<1>. QED
  BY <1>6, <1>7

\* At every step of macro_expand the output is the expansion of the tokens read,
\* and the call ends well, fails or runs past the end exactly where the code
\* says so.
THEOREM MacroExpanderExpands == Spec => []ExpandsMacros
<1>. DEFINE IInv == MacroInv /\ ExpandsMacros
<1>1. ASSUME Init PROVE IInv
  <2>1. c = 1 /\ c - 1 = 0 /\ verdict = "none" /\ macro_name = NoMacro
        /\ output = <<>> /\ Defined = {}
    BY <1>1 DEF Init, Defined
  <2>2. code \in Seq(Names \cup Others \cup {"macro_", "endmacro_"})
    BY <1>1, CodesAssumption DEF Init
  <2>3. Len(code) \in Nat
    BY <2>2, LenProperties
  <2>4. Inside[0] = 0 /\ Expansion[0] = <<>>
    BY <2>3, InsideStep, ExpansionStep
  <2>5. \A d \in Definitions : ~(d < 0)
    BY DefinitionType
  <2>6. MacroInv
    BY <2>1, <2>4, <2>5 DEF MacroInv, DefinitionsRead, MacrosDefined
  <2>7. ExpandsMacros
    BY <2>1, <2>4 DEF ExpandsMacros
  <2>. QED
    BY <2>6, <2>7
<1>2. TypeOK /\ IInv /\ [Next]_vars => IInv'
  <2>. SUFFICES ASSUME TypeOK, IInv, [Next]_vars PROVE IInv'
    OBVIOUS
  <2>1. CASE FailDefinition
    BY <2>1, FailKeeps
  <2>2. CASE BeginMacro
    BY <2>2, BeginKeeps
  <2>3. CASE CollectToken \/ EndMacro
    BY <2>3, CollectKeeps
  <2>4. CASE InvokeMacro \/ CopyToken
    BY <2>4, TextKeeps
  <2>5. CASE CollectPastEnd \/ Finish
    BY <2>5, EndKeeps
  <2>6. CASE StayOnName \/ UNCHANGED vars
    <3>1. UNCHANGED vars
      BY <2>6 DEF StayOnName
    <3>2. /\ Inside' = Inside /\ Definitions' = Definitions /\ Expansion' = Expansion
          /\ Defined' = Defined /\ AtEnd' = AtEnd
          /\ \A k : /\ NameOf(k)' = NameOf(k) /\ BodyOf(k)' = BodyOf(k)
                    /\ IsBad(k)' = IsBad(k) /\ IsMacro(k)' = IsMacro(k)
      BY <3>1, CodeKept DEF vars, Defined, AtEnd
    <3>3. MacroInv'
      BY <3>1, <3>2 DEF MacroInv, DefinitionsRead, MacrosDefined, Collected, vars
    <3>4. ExpandsMacros'
      BY <3>1, <3>2 DEF ExpandsMacros, vars
    <3>. QED
      BY <3>3, <3>4
  <2>. QED
    BY <2>1, <2>2, <2>3, <2>4, <2>5, <2>6 DEF Next
<1>3. IInv => ExpandsMacros
  OBVIOUS
<1>. QED
  BY <1>1, <1>2, <1>3, MacroExpanderTypeOK, PTL DEF Spec
=============================================================================
