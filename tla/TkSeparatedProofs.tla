------------------------- MODULE TkSeparatedProofs --------------------------
(***************************************************************************)
(* Proofs about TkSeparated: a scope is cut exactly at the separators of   *)
(* its own level, for every range of tokens and every separator.           *)
(***************************************************************************)
EXTENDS TkSeparated, Lemmas

-----------------------------------------------------------------------------
(* Type correctness.                                                       *)

\* The variables keep their types; the cursor and the pieces never reach
\* behind the end of the range, whatever the tokens are.
THEOREM TkSeparatedTypeOK == Spec => []TypeOK
<1>. DEFINE Piece == {"valid", "invalid"} \X (1..End) \X (1..End)
<1>1. ASSUME Init PROVE TypeOK
  <2>1. toks \in Seq(TkTypes) /\ toks # <<>>
    BY <1>1, RangesAssumption DEF Init
  <2>2. Len(toks) \in Nat \ {0}
    BY <2>1, EmptySeq
  <2>3. scopes \in Seq(Piece) /\ history \in Seq(OpeningScopes)
    BY <1>1 DEF Init
  <2>4. i \in 2..End /\ lastClosed \in 1..End
    BY <1>1, <2>2 DEF Init, End
  <2>. QED
    BY <1>1, <2>1, <2>3, <2>4 DEF Init, TypeOK
<1>2. TypeOK /\ [Next]_vars => TypeOK'
  <2>. SUFFICES ASSUME TypeOK, [Next]_vars PROVE TypeOK'
    OBVIOUS
  <2>0. /\ toks \in Seq(TkTypes) /\ Len(toks) \in Nat
        /\ End \in Nat /\ End = Len(toks) + 1
    BY DEF TypeOK, End
  <2>. USE <2>0
  <2>1. CASE NotAScope
    <3>1. <<"invalid", 1, End>> \in Piece
      OBVIOUS
    <3>2. scopes' \in Seq(Piece)
      BY <2>1, <3>1 DEF NotAScope
    <3>. QED
      BY <2>1, <3>2 DEF TypeOK, NotAScope, Return, End
  <2>2. CASE EnterLoop
    BY <2>2 DEF TypeOK, EnterLoop, End
  <2>3. CASE Separate
    <3>1. <<"valid", lastClosed, i + 1>> \in Piece
      BY <2>3 DEF TypeOK, Separate
    <3>2. scopes' \in Seq(Piece)
      BY <2>3, <3>1 DEF TypeOK, Separate
    <3>. QED
      BY <2>3, <3>2 DEF TypeOK, Separate, End
  <2>4. CASE PushOpen
    BY <2>4 DEF TypeOK, PushOpen, IsOpeningScope, End
  <2>5. CASE PopClose
    <3>1. history' \in Seq(OpeningScopes)
      BY <2>5, PopType DEF PopClose, TypeOK
    <3>. QED
      BY <2>5, <3>1 DEF TypeOK, PopClose, End
  <2>6. CASE WrongClose
    <3>1. <<"invalid", i, End>> \in Piece
      BY <2>6 DEF TypeOK, WrongClose
    <3>2. scopes' \in Seq(Piece)
      BY <2>6, <3>1 DEF TypeOK, WrongClose
    <3>. QED
      BY <2>6, <3>2 DEF TypeOK, WrongClose, Return, End
  <2>7. CASE CloseList
    <3>1. <<"valid", lastClosed, i + 1>> \in Piece
      BY <2>7 DEF TypeOK, CloseList
    <3>2. scopes' \in Seq(Piece)
      BY <2>7, <3>1 DEF TypeOK, CloseList
    <3>. QED
      BY <2>7, <3>2 DEF TypeOK, CloseList, Return, End
  <2>8. CASE SkipToken
    BY <2>8 DEF TypeOK, SkipToken, End
  <2>9. CASE FallOff
    BY <2>9 DEF TypeOK, FallOff, End
  <2>10. CASE UNCHANGED vars
    BY <2>10 DEF TypeOK, vars, End
  <2>. QED
    BY <2>1, <2>2, <2>3, <2>4, <2>5, <2>6, <2>7, <2>8, <2>9, <2>10
       DEF Next, find_seperated_paren, find_seperated_brace,
           find_seperated_bracket, FindSeperated
<1>. QED
  BY <1>1, <1>2, PTL DEF Spec

-----------------------------------------------------------------------------
(* Cuts.                                                                   *)

\* One more cut behind all others is one more piece, from the last cut to it.
LEMMA CutMore ==
    ASSUME NEW P, NEW pieces \in Seq(P), NEW cuts, IsFiniteSet(cuts),
           cuts \subseteq Nat, CutAt(pieces, cuts),
           NEW last \in cuts, \A k \in cuts : k <= last,
           pieces # <<>> => pieces[Len(pieces)][3] - 1 = last,
           NEW at \in Nat, last < at,
           <<"valid", last, at + 1>> \in P
    PROVE  CutAt(Append(pieces, <<"valid", last, at + 1>>), cuts \cup {at})
<1>. DEFINE new  == <<"valid", last, at + 1>>
            more == Append(pieces, new)
<1>1. /\ Len(pieces) \in Nat /\ Len(more) = Len(pieces) + 1
      /\ more[Len(pieces) + 1] = new
      /\ \A n \in 1..Len(pieces) : more[n] = pieces[n]
  OBVIOUS
<1>2. /\ new[1] = "valid" /\ new[2] = last /\ new[3] = at + 1
      /\ new[3] - 1 = at
  OBVIOUS
<1>. HIDE DEF new, more
<1>3. Len(more) = Cardinality(cuts \cup {at}) - 1
  <2>1. at \notin cuts
    OBVIOUS
  <2>2. Cardinality(cuts \cup {at}) = Cardinality(cuts) + 1
    BY <2>1, FS_AddElement
  <2>3. Len(pieces) = Cardinality(cuts) - 1 /\ Cardinality(cuts) \in Nat
    BY FS_CardinalityType DEF CutAt
  <2>. QED
    BY <1>1, <2>2, <2>3
<1>4. ASSUME NEW n \in 1..Len(more)
      PROVE  /\ more[n][1] = "valid"
             /\ more[n][2] \in cuts \cup {at} /\ more[n][3] - 1 \in cuts \cup {at}
             /\ more[n][2] < more[n][3] - 1
             /\ \A k \in cuts \cup {at} : k <= more[n][2] \/ k >= more[n][3] - 1
             /\ n < Len(more) => more[n + 1][2] = more[n][3] - 1
  <2>1. CASE n = Len(pieces) + 1
    BY <1>1, <1>2, <2>1
  <2>2. CASE n \in 1..Len(pieces)
    <3>1. more[n] = pieces[n]
      BY <1>1, <2>2
    <3>2. /\ pieces[n][1] = "valid"
          /\ pieces[n][2] \in cuts /\ pieces[n][3] - 1 \in cuts
          /\ pieces[n][2] < pieces[n][3] - 1
          /\ \A k \in cuts : k <= pieces[n][2] \/ k >= pieces[n][3] - 1
          /\ n < Len(pieces) => pieces[n + 1][2] = pieces[n][3] - 1
      BY <2>2 DEF CutAt
    <3>3. at >= pieces[n][3] - 1
      <4>. DEFINE e == pieces[n][3] - 1
      <4>1. e \in Nat /\ e <= last /\ last \in Nat
        BY <3>2
      <4>. HIDE DEF e
      <4>2. at >= e
        BY <4>1
      <4>. QED
        BY <4>2 DEF e
    <3>4. more[n + 1][2] = pieces[n][3] - 1
      <4>1. CASE n < Len(pieces)
        <5>1. n + 1 \in 1..Len(pieces)
          BY <1>1, <2>2, <4>1
        <5>. QED
          BY <1>1, <3>2, <4>1, <5>1
      <4>2. CASE n = Len(pieces)
        <5>1. pieces # <<>>
          BY <1>1, <2>2, <4>2
        <5>. QED
          BY <1>1, <1>2, <4>2, <5>1
      <4>. QED
        BY <1>1, <2>2, <4>1, <4>2
    <3>. QED
      BY <3>1, <3>2, <3>3, <3>4
  <2>. QED
    BY <1>1, <2>1, <2>2
<1>5. CutAt(more, cuts \cup {at})
  BY <1>3, <1>4 DEF CutAt
<1>. QED
  BY <1>5 DEF more, new

\* The cuts so far are finitely many positions of the range.
LEMMA CutsFinite ==
    ASSUME TypeOK
    PROVE  IsFiniteSet(CutsSoFar) /\ CutsSoFar \subseteq 1..(i - 1)
<1>1. i \in Nat /\ 2 <= i
  BY DEF TypeOK
<1>2. CutsSoFar \subseteq 1..(i - 1)
  BY <1>1 DEF CutsSoFar, SeparatorsOf
<1>3. IsFiniteSet(1..(i - 1))
  <2>1. 1 \in Int /\ i - 1 \in Int
    BY <1>1
  <2>. QED
    BY <2>1, FS_Interval
<1>. QED
  BY <1>2, <1>3, FS_Subset

\* The next token is a cut when it is the separator, outside nested scopes.
LEMMA CutsNext ==
    ASSUME TypeOK
    PROVE  SeparatorsOf(i + 1) =
              IF toks[i] = separator /\ Height(toks, i) = 1
              THEN SeparatorsOf(i) \cup {i} ELSE SeparatorsOf(i)
<1>1. i \in Nat /\ 2 <= i /\ (i + 1) - 1 = i
  BY DEF TypeOK
<1>2. \A k : k \in 2..i <=> k \in 2..(i - 1) \/ k = i
  BY <1>1
<1>. QED
  BY <1>1, <1>2 DEF SeparatorsOf

-----------------------------------------------------------------------------
(* The invariant of the loop, and that the scope is split at its end.      *)

\* A token that does not cut moves the cursor only.
LEMMA SplitMoves ==
    ASSUME TypeOK, SplitSoFar, toks[i] # "eof_",
           Scanned(1, toks, i, history'),
           ~(toks[i] = separator /\ Height(toks, i) = 1),
           i' = i + 1, UNCHANGED <<toks, open, separator, lastClosed, scopes>>
    PROVE  SplitSoFar'
<1>1. i \in Nat /\ 2 <= i /\ i' - 1 = i
  BY DEF TypeOK
<1>2. CutsSoFar' = CutsSoFar
  <2>1. SeparatorsOf(i + 1) = SeparatorsOf(i)
    BY CutsNext
  <2>. QED
    BY <2>1 DEF CutsSoFar, SeparatorsOf
<1>3. \A k \in 1..i : toks[k] # "eof_"
  <2>1. \A k \in 1..i : k \in 1..(i - 1) \/ k = i
    BY <1>1
  <2>. QED
    BY <2>1 DEF SplitSoFar
<1>4. Scanned(1, toks', i' - 1, history') /\ \A k \in 1..(i' - 1) : toks'[k] # "eof_"
  BY <1>1, <1>3
<1>. QED
  BY <1>2, <1>4 DEF SplitSoFar

LEMMA SeparateSplits ==
    ASSUME TypeOK, SplitSoFar, Separate
    PROVE  SplitSoFar'
<1>0. /\ toks \in Seq(TkTypes) /\ Len(toks) \in Nat /\ End = Len(toks) + 1
      /\ i \in Nat /\ 2 <= i /\ i < End /\ i' = i + 1 /\ i' - 1 = i
      /\ (i - 1) + 1 = i /\ i - 1 \in Nat \ {0}
      /\ UNCHANGED <<toks, open, separator, history>>
      /\ toks[i] = separator /\ history = <<>> /\ lastClosed' = i
  BY DEF TypeOK, Separate, End
<1>1. /\ ~IsOpeningScope(toks[i]) /\ ~IsClosingScope(toks[i]) /\ toks[i] # "eof_"
  BY <1>0, SeparatorsAssumption DEF TypeOK, IsOpeningScope, IsClosingScope
<1>2. Scanned(1, toks, i, history)
  <2>1. history \in Seq(OpeningScopes) /\ Scanned(1, toks, i - 1, history)
    BY DEF TypeOK, SplitSoFar
  <2>. QED
    BY <1>0, <1>1, <2>1, ScannedSkip
<1>3. Height(toks, i) = 1
  BY <1>0, <1>2 DEF Scanned
<1>4. CutsSoFar' = CutsSoFar \cup {i}
  <2>1. SeparatorsOf(i + 1) = SeparatorsOf(i) \cup {i}
    BY <1>0, <1>3, CutsNext
  <2>. QED
    BY <1>0, <2>1 DEF CutsSoFar, SeparatorsOf
<1>5. /\ IsFiniteSet(CutsSoFar) /\ CutsSoFar \subseteq 1..(i - 1)
      /\ CutsSoFar \subseteq Nat /\ i \notin CutsSoFar
  BY <1>0, CutsFinite
<1>6. CutAt(scopes', CutsSoFar') /\ scopes'[Len(scopes')][3] - 1 = lastClosed'
  <2>. DEFINE P == {"valid", "invalid"} \X (1..End) \X (1..End)
  <2>1. scopes \in Seq(P) /\ <<"valid", lastClosed, i + 1>> \in P
    BY <1>0 DEF TypeOK
  <2>2. lastClosed < i /\ scopes' = Append(scopes, <<"valid", lastClosed, i + 1>>)
    BY <1>0, <1>5 DEF SplitSoFar, Separate
  <2>. HIDE DEF P
  <2>3. CutAt(scopes', CutsSoFar \cup {i})
    BY <1>0, <1>5, <2>1, <2>2, CutMore DEF SplitSoFar
  <2>4. scopes'[Len(scopes')][3] = i + 1
    BY <2>1, <2>2
  <2>. QED
    BY <1>0, <1>4, <2>3, <2>4 DEF CutAt
<1>7. /\ lastClosed' \in CutsSoFar'
      /\ \A k \in CutsSoFar' : k <= lastClosed'
  BY <1>0, <1>4, <1>5
<1>8. \A k \in 1..i : toks[k] # "eof_"
  <2>1. \A k \in 1..i : k \in 1..(i - 1) \/ k = i
    BY <1>0
  <2>. QED
    BY <1>1, <2>1 DEF SplitSoFar
<1>9. /\ toks'[1] = open' /\ Scanned(1, toks', i' - 1, history')
      /\ \A k \in 1..(i' - 1) : toks'[k] # "eof_"
  BY <1>0, <1>2, <1>8 DEF SplitSoFar
<1>. QED
  BY <1>6, <1>7, <1>9 DEF SplitSoFar

\* The loop stops at the scope's own close token with the whole scope cut.
LEMMA CloseListSplits ==
    ASSUME TypeOK, SplitSoFar, CloseList
    PROVE  SplitsTheScope'
<1>0. /\ toks \in Seq(TkTypes) /\ Len(toks) \in Nat /\ End = Len(toks) + 1
      /\ i \in Nat /\ 2 <= i /\ i < End
      /\ (i - 1) + 1 = i /\ i - 1 \in 1..(Len(toks) - 1)
      /\ UNCHANGED <<toks, open, separator>>
      /\ open \in OpeningScopes /\ toks[1] = open
      /\ history = <<>> /\ toks[i] = ClosingOf[open] /\ returned' = TRUE
  BY DEF TypeOK, CloseList, Return, End, SplitSoFar
<1>1. IsScope(toks, open, i)
  <2>1. Scanned(1, toks, i - 1, <<>>)
    BY <1>0 DEF SplitSoFar
  <2>. QED
    BY <1>0, <2>1, FoundIsScope
<1>2. toks[i] # "eof_"
  BY <1>0 DEF OpeningScopes, ClosingOf
<1>3. \A k \in 1..i : toks[k] # "eof_"
  <2>1. \A k \in 1..i : k \in 1..(i - 1) \/ k = i
    BY <1>0
  <2>. QED
    BY <1>2, <2>1 DEF SplitSoFar
<1>4. CutAt(scopes', CutsSoFar \cup {i})
  <2>. DEFINE P == {"valid", "invalid"} \X (1..End) \X (1..End)
  <2>1. scopes \in Seq(P) /\ <<"valid", lastClosed, i + 1>> \in P
    BY <1>0 DEF TypeOK
  <2>2. /\ IsFiniteSet(CutsSoFar) /\ CutsSoFar \subseteq 1..(i - 1)
        /\ CutsSoFar \subseteq Nat
    BY <1>0, CutsFinite
  <2>3. lastClosed < i /\ scopes' = Append(scopes, <<"valid", lastClosed, i + 1>>)
    BY <1>0, <2>2 DEF SplitSoFar, CloseList
  <2>. HIDE DEF P
  <2>. QED
    BY <1>0, <2>1, <2>2, <2>3, CutMore DEF SplitSoFar
<1>5. CutsSoFar \cup {i} = {1, i} \cup SeparatorsOf(i)
  BY DEF CutsSoFar
<1>6. ASSUME NEW c \in 1..Len(toks), IsScope(toks, open, c)
      PROVE  c = i
  <2>1. ~(c < i) /\ ~(i < c)
    BY <1>0, <1>1, <1>6, ScopeIsUnique
  <2>. QED
    BY <1>0, <2>1
<1>7. ASSUME NEW c \in 1..Len(toks), IsScope(toks, open, c)
      PROVE  /\ CutAt(scopes', {1, c} \cup SeparatorsOf(c)')
             /\ \A k \in 1..c : toks'[k] # "eof_"
  <2>1. c = i
    BY <1>6, <1>7
  <2>2. SeparatorsOf(c)' = SeparatorsOf(c)
    BY <1>0 DEF SeparatorsOf
  <2>. QED
    BY <1>0, <1>3, <1>4, <1>5, <2>1, <2>2
<1>. QED
  BY <1>0, <1>7 DEF SplitsTheScope

\* A close token of another scope, or an eof_: no scope ends there or before,
\* and whatever scope ends behind an eof_ contains it.
LEMMA WrongCloseSplits ==
    ASSUME TypeOK, SplitSoFar, WrongClose
    PROVE  SplitsTheScope'
<1>0. /\ toks \in Seq(TkTypes) /\ Len(toks) \in Nat /\ End = Len(toks) + 1
      /\ i \in Nat /\ 2 <= i /\ i < End
      /\ (i - 1) + 1 = i /\ i - 1 \in Nat \ {0}
      /\ UNCHANGED <<toks, open, separator>>
      /\ open \in OpeningScopes /\ toks[1] = open
      /\ history \in Seq(OpeningScopes) /\ Scanned(1, toks, i - 1, history)
      /\ scopes' = Append(scopes, <<"invalid", i, End>>) /\ returned' = TRUE
  BY DEF TypeOK, WrongClose, Return, End, SplitSoFar
<1>1. scopes' # <<>> /\ scopes'[Len(scopes')][1] = "invalid"
  <2>1. /\ scopes \in Seq({"valid", "invalid"} \X (1..End) \X (1..End))
        /\ <<"invalid", i, End>> \in {"valid", "invalid"} \X (1..End) \X (1..End)
    BY <1>0 DEF TypeOK
  <2>2. scopes'[Len(scopes')] = <<"invalid", i, End>> /\ Len(scopes') # 0
    BY <1>0, <2>1
  <2>. QED
    BY <2>2
<1>2. ASSUME NEW c \in 1..Len(toks), IsScope(toks, open, c)
      PROVE  i \in 1..c
  <2>1. ~(c \in 1..(i - 1))
    BY <1>0, <1>2, NoScopeInPrefix
  <2>. QED
    BY <1>0, <2>1
<1>3. CASE toks[i] = "eof_"
  BY <1>0, <1>1, <1>2, <1>3 DEF SplitsTheScope
<1>4. CASE toks[i] # "eof_"
  <2>1. /\ IsClosingScope(toks[i]) /\ history # <<>>
        /\ ~IsClosingScopeOf(history[Len(history)], toks[i])
    BY <1>4 DEF WrongClose, Top
  <2>2. \A c \in Int : c >= (i - 1) + 1 => ~IsScope(toks, open, c)
    BY <1>0, <2>1, NoScopeAfterWrongClose
  <2>3. \A c \in 1..Len(toks) : ~IsScope(toks, open, c)
    BY <1>0, <1>2, <2>2
  <2>. QED
    BY <1>0, <2>3 DEF SplitsTheScope
<1>. QED
  BY <1>3, <1>4

LEMMA SplitIsRight == Spec => [](SplitInv /\ SplitsTheScope)
<1>1. Init => SplitInv /\ SplitsTheScope
  BY DEF Init, SplitInv, SplitsTheScope
<1>2. TypeOK /\ SplitInv /\ SplitsTheScope /\ [Next]_vars
      => SplitInv' /\ SplitsTheScope'
  <2>. SUFFICES ASSUME TypeOK, SplitInv, SplitsTheScope, [Next]_vars
                PROVE  SplitInv' /\ SplitsTheScope'
    OBVIOUS
  <2>0. /\ toks \in Seq(TkTypes) /\ Len(toks) \in Nat /\ End = Len(toks) + 1
        /\ i \in Nat /\ 2 <= i /\ (i - 1) + 1 = i /\ i - 1 \in Nat \ {0}
        /\ open \in OpeningScopes /\ history \in Seq(OpeningScopes)
    BY DEF TypeOK, End
  <2>1. CASE UNCHANGED vars
    <3>1. SplitInv'
      BY <2>1 DEF vars, SplitInv, NoScope, SplitSoFar, CutsSoFar, SeparatorsOf
    <3>2. SplitsTheScope'
      BY <2>1 DEF vars, SplitsTheScope, SeparatorsOf
    <3>. QED
      BY <3>1, <3>2
  <2>2. CASE NotAScope
    <3>1. \A c \in 1..Len(toks) : ~IsScope(toks, open, c)
      BY <2>2 DEF NotAScope, IsScope
    <3>. QED
      BY <2>2, <3>1 DEF NotAScope, Return, SplitInv, SplitsTheScope
  <2>3. CASE EnterLoop
    <3>1. /\ toks[1] = open /\ i = 2 /\ history = <<>> /\ lastClosed = 1
          /\ scopes = <<>> /\ pc' = "scan"
          /\ UNCHANGED <<toks, open, separator, i, history, lastClosed, scopes>>
      BY <2>3 DEF EnterLoop, SplitInv
    <3>2. IsOpeningScope(toks[1])
      BY <2>0, <3>1 DEF IsOpeningScope
    <3>3. Scanned(1, toks, 1, <<>>)
      BY <2>0, <3>2, ScannedStart
    <3>4. CutsSoFar = {1}
      BY <3>1 DEF CutsSoFar, SeparatorsOf
    <3>5. CutAt(<<>>, {1})
      <4>1. Cardinality({1}) = 1
        BY FS_Singleton
      <4>. QED
        BY <4>1 DEF CutAt
    <3>6. toks[1] # "eof_"
      BY <2>0, <3>1 DEF OpeningScopes
    <3>7. SplitSoFar
      <4>1. \A k \in 1..(i - 1) : k = 1
        BY <3>1
      <4>2. Scanned(1, toks, i - 1, history)
        BY <3>1, <3>3
      <4>. QED
        BY <3>1, <3>4, <3>5, <3>6, <4>1, <4>2 DEF SplitSoFar
    <3>8. SplitSoFar'
      BY <3>1, <3>7 DEF SplitSoFar, CutsSoFar, SeparatorsOf
    <3>. QED
      BY <3>1, <3>8 DEF SplitInv, SplitsTheScope
  <2>4. CASE NoScope /\ pc = "scan"
    <3>1. UNCHANGED <<toks, open>> /\ pc' \in {"scan", "done"}
      BY <2>1, <2>2, <2>3, <2>4
         DEF Next, find_seperated_paren, find_seperated_brace,
             find_seperated_bracket, FindSeperated, NotAScope, EnterLoop, Separate,
             PushOpen, PopClose, WrongClose, CloseList, SkipToken, FallOff, Return,
             vars
    <3>2. NoScope'
      BY <2>4, <3>1 DEF NoScope
    <3>. QED
      BY <3>1, <3>2 DEF SplitInv, SplitsTheScope, NoScope
  <2>5. CASE SplitSoFar /\ pc = "scan"
    <3>. USE <2>5
    <3>0. Scanned(1, toks, i - 1, history) /\ toks[1] = open
      BY DEF SplitSoFar
    <3>1. CASE Separate
      BY <3>1, SeparateSplits DEF Separate, SplitInv, SplitsTheScope
    <3>2. CASE PushOpen
      <4>1. /\ IsOpeningScope(toks[i]) /\ i' = i + 1 /\ pc' = "scan"
            /\ history' = Append(history, toks[i])
            /\ UNCHANGED <<toks, open, separator, lastClosed, scopes>>
        BY <3>2 DEF PushOpen
      <4>2. toks[i] # "eof_" /\ toks[i] # separator
        BY <4>1, SeparatorsAssumption DEF TypeOK, IsOpeningScope, OpeningScopes
      <4>3. Scanned(1, toks, i, history')
        BY <2>0, <3>0, <4>1, ScannedPush
      <4>. QED
        BY <4>1, <4>2, <4>3, SplitMoves DEF SplitInv, SplitsTheScope
    <3>3. CASE PopClose
      <4>1. /\ history # <<>> /\ IsClosingScopeOf(history[Len(history)], toks[i])
            /\ i' = i + 1 /\ pc' = "scan"
            /\ history' = SubSeq(history, 1, Len(history) - 1)
            /\ UNCHANGED <<toks, open, separator, lastClosed, scopes>>
        BY <3>3 DEF PopClose, Top
      <4>2. IsClosingScope(toks[i])
        BY <4>1, ScopeTypes DEF IsClosingScopeOf, IsClosingScope
      <4>3. toks[i] # "eof_" /\ toks[i] # separator
        BY <4>2, SeparatorsAssumption DEF TypeOK, IsClosingScope, ClosingScopes
      <4>4. Scanned(1, toks, i, history')
        BY <2>0, <3>0, <4>1, <4>2, ScannedPop
      <4>. QED
        BY <4>1, <4>3, <4>4, SplitMoves DEF SplitInv, SplitsTheScope
    <3>4. CASE WrongClose
      BY <3>4, WrongCloseSplits DEF WrongClose, Return, SplitInv
    <3>5. CASE CloseList
      BY <3>5, CloseListSplits DEF CloseList, Return, SplitInv
    <3>6. CASE SkipToken
      <4>1. /\ ~IsOpeningScope(toks[i]) /\ toks[i] # "eof_"
            /\ (IsClosingScope(toks[i]) => history = <<>> /\ toks[i] # ClosingOf[open])
            /\ (toks[i] = separator => history # <<>>)
            /\ i' = i + 1 /\ pc' = "scan" /\ history' = history
            /\ UNCHANGED <<toks, open, separator, lastClosed, scopes>>
        BY <3>6 DEF SkipToken
      <4>2. CASE IsClosingScope(toks[i])
        <5>1. \A c \in 1..Len(toks) : ~IsScope(toks, open, c)
          <6>1. \A c \in 1..(i - 1) : ~IsScope(toks, open, c)
            BY <2>0, <3>0, NoScopeInPrefix
          <6>2. \A c \in Int : c >= (i - 1) + 1 => ~IsScope(toks, open, c)
            BY <2>0, <3>0, <4>1, <4>2, NoScopeAfterWrongClose
          <6>. QED
            BY <2>0, <6>1, <6>2
        <5>2. NoScope'
          BY <4>1, <5>1 DEF NoScope
        <5>. QED
          BY <4>1, <5>2 DEF SplitInv, SplitsTheScope
      <4>3. CASE ~IsClosingScope(toks[i])
        <5>1. Scanned(1, toks, i, history)
          BY <2>0, <3>0, <4>1, <4>3, ScannedSkip
        <5>2. ~(toks[i] = separator /\ Height(toks, i) = 1)
          <6>. SUFFICES ASSUME toks[i] = separator PROVE Height(toks, i) # 1
            OBVIOUS
          <6>1. history # <<>> /\ Len(history) \in Nat \ {0}
            BY <2>0, <4>1, EmptySeq
          <6>. QED
            BY <5>1, <6>1 DEF Scanned
        <5>. QED
          BY <4>1, <5>1, <5>2, SplitMoves DEF SplitInv, SplitsTheScope
      <4>. QED
        BY <4>2, <4>3
    <3>7. CASE FallOff
      <4>1. i - 1 = Len(toks) /\ UNCHANGED <<toks, open>> /\ pc' = "done"
        BY <2>0, <3>7 DEF FallOff
      <4>2. \A c \in 1..Len(toks) : ~IsScope(toks, open, c)
        BY <2>0, <3>0, <4>1, NoScopeInPrefix
      <4>. QED
        BY <4>1, <4>2 DEF SplitInv, SplitsTheScope
    <3>. QED
      BY <2>1, <2>2, <2>3, <3>1, <3>2, <3>3, <3>4, <3>5, <3>6, <3>7
         DEF Next, find_seperated_paren, find_seperated_brace,
             find_seperated_bracket, FindSeperated
  <2>6. CASE pc \notin {"enter", "scan"}
    BY <2>1, <2>6
       DEF Next, find_seperated_paren, find_seperated_brace,
           find_seperated_bracket, FindSeperated, NotAScope, EnterLoop, Separate,
           PushOpen, PopClose, WrongClose, CloseList, SkipToken, FallOff
  <2>7. CASE pc = "enter"
    BY <2>1, <2>2, <2>3, <2>7
       DEF Next, find_seperated_paren, find_seperated_brace,
           find_seperated_bracket, FindSeperated, Separate, PushOpen, PopClose,
           WrongClose, CloseList, SkipToken, FallOff
  <2>. QED
    BY <2>4, <2>5, <2>6, <2>7 DEF SplitInv
<1>. QED
  BY <1>1, <1>2, TkSeparatedTypeOK, PTL DEF Spec

\* find_seperated_paren, find_seperated_brace and find_seperated_bracket cut
\* a scope at the separators of its own level and nowhere else, whatever is
\* nested in it, and never fall off their end on one.
THEOREM TkSeparatedSplits == Spec => []SplitsTheScope
BY SplitIsRight, PTL
=============================================================================
