--------------------------- MODULE FrontEndProofs ---------------------------
(***************************************************************************)
(* Proofs about the two parts that make the tokens of a program: Tokenizer,*)
(* for every text of the characters it knows, and Preprocessor, for every  *)
(* system of files that end with an eof_ token, whatever they include.     *)
(* That such a file does end with one is the last theorem of Tokenizer.    *)
(***************************************************************************)
EXTENDS Tokenizer, Preprocessor, Lemmas

-----------------------------------------------------------------------------
(* Reading the text.                                                       *)

\* The characters a text is made of.
Chars == Keywords \cup Characters

\* A text: what every state keeps of Texts.
IsText == text \in Seq(Chars)

\* The places of a text hold characters; behind them Get gives eof.
LEMMA TextTypes ==
    ASSUME IsText
    PROVE  /\ Len(text) \in Nat /\ End \in Nat \ {0}
           /\ \A i \in 1..Len(text) : text[i] \in Chars /\ Get(i) = text[i]
           /\ \A i \in Int : Get(i) # "eof" => i \in 1..Len(text)
BY DEF IsText, Get, End

\* The least element of a set of numbers.
LEMMA MinIsLeast ==
    ASSUME NEW S, S \subseteq Nat, S # {}
    PROVE  Min(S) \in S /\ \A x \in S : Min(S) <= x
<1>1. \E x \in S : \A y \in S : x <= y
  BY LeastNumber
<1>. QED
  BY <1>1 DEF Min

\* After stops at the first place from i on that holds none of the characters.
LEMMA AfterStops ==
    ASSUME IsText, NEW i \in 1..End, NEW chars, "eof" \notin chars
    PROVE  /\ After(i, chars) \in i..End
           /\ Get(After(i, chars)) \notin chars
           /\ \A k \in i..(After(i, chars) - 1) : text[k] \in chars
<1>. DEFINE S == {j \in i..End : Get(j) \notin chars}
<1>1. Len(text) \in Nat /\ End = Len(text) + 1
  BY TextTypes DEF End
<1>2. S \subseteq Nat /\ End \in S
  BY <1>1 DEF Get
<1>3. PICK j \in S : \A k \in S : j <= k
  BY <1>2, LeastNumber
<1>4. \A k \in i..(j - 1) : text[k] \in chars
  <2>. TAKE k \in i..(j - 1)
  <2>1. k \in i..End /\ k \notin S /\ k \in 1..Len(text)
    BY <1>1, <1>3
  <2>. QED
    BY <2>1 DEF Get
<1>. QED
  BY <1>3, <1>4 DEF After

\* The characters of a part of the text, one by one.
LEMMA PartOfText ==
    ASSUME IsText, NEW i \in 1..End, NEW j \in i..End
    PROVE  /\ SubSeq(text, i, j - 1) \in Seq(Chars)
           /\ Len(SubSeq(text, i, j - 1)) = j - i
           /\ \A k \in 1..(j - i) : SubSeq(text, i, j - 1)[k] = text[i + k - 1]
<1>1. Len(text) \in Nat /\ End = Len(text) + 1 /\ text \in Seq(Chars)
  BY TextTypes DEF End, IsText
<1>. QED
  BY <1>1, SubSeqProperties

\* find_forward of two characters, place by place.
LEMMA FindForwardTwo ==
    ASSUME IsText, NEW i \in 1..End, NEW a, NEW b
    PROVE  FindForward(i, <<a, b>>) <=> i + 2 <= End /\ text[i] = a /\ text[i + 1] = b
<1>1. End \in Nat
  BY TextTypes
<1>2. ASSUME i + 2 <= End
      PROVE  (SubSeq(text, i, i + 1) = <<a, b>>) <=> (text[i] = a /\ text[i + 1] = b)
  <2>. DEFINE s == SubSeq(text, i, i + 1)
  <2>1. s \in Seq(Chars) /\ Len(s) = 2 /\ \A k \in 1..2 : s[k] = text[i + k - 1]
    <3>1. i + 2 \in i..End /\ (i + 2) - 1 = i + 1 /\ (i + 2) - i = 2
      BY <1>1, <1>2
    <3>. QED
      BY <3>1, PartOfText
  <2>2. s[1] = text[i] /\ s[2] = text[i + 1]
    BY <2>1
  <2>. HIDE DEF s
  <2>3. s = <<a, b>> <=> (text[i] = a /\ text[i + 1] = b)
    BY <2>1, <2>2
  <2>. QED
    BY <2>3 DEF s
<1>. QED
  BY <1>1, <1>2 DEF FindForward

\* find_forward of three characters, place by place.
LEMMA FindForwardThree ==
    ASSUME IsText, NEW i \in 1..End, NEW a, NEW b, NEW c
    PROVE  FindForward(i, <<a, b, c>>) <=>
               i + 3 <= End /\ text[i] = a /\ text[i + 1] = b /\ text[i + 2] = c
<1>1. End \in Nat
  BY TextTypes
<1>2. ASSUME i + 3 <= End
      PROVE  (SubSeq(text, i, i + 2) = <<a, b, c>>) <=>
                 (text[i] = a /\ text[i + 1] = b /\ text[i + 2] = c)
  <2>. DEFINE s == SubSeq(text, i, i + 2)
  <2>1. s \in Seq(Chars) /\ Len(s) = 3 /\ \A k \in 1..3 : s[k] = text[i + k - 1]
    <3>1. i + 3 \in i..End /\ (i + 3) - 1 = i + 2 /\ (i + 3) - i = 3
      BY <1>1, <1>2
    <3>. QED
      BY <3>1, PartOfText
  <2>2. s[1] = text[i] /\ s[2] = text[i + 1] /\ s[3] = text[i + 2]
    BY <2>1
  <2>. HIDE DEF s
  <2>3. s = <<a, b, c>> <=> (text[i] = a /\ text[i + 1] = b /\ text[i + 2] = c)
    BY <2>1, <2>2
  <2>. QED
    BY <2>3 DEF s
<1>. QED
  BY <1>1, <1>2 DEF FindForward

-----------------------------------------------------------------------------
(* The lexemes, by the characters of the text they are made of.            *)

\* The characters from i up to j are all of them in chars.
AllIn(i, j, chars) == \A k \in i..(j - 1) : text[k] \in chars

\* From the quote at i up to the first quote that no backslash precedes.
Quoted(i, j) ==
    /\ j >= i + 2 /\ text[i] = "'" /\ text[j - 1] = "'" /\ text[j - 2] # "\\"
    /\ \A k \in (i + 1)..(j - 2) : text[k] = "'" => text[k - 1] = "\\"

\* Three solidus from i on.
Solidus(i) == text[i] = "/" /\ text[i + 1] = "/" /\ text[i + 2] = "/"

\* The spellings of the operators, place by place.
OperatorFirst == {"/"} \cup DOMAIN SecondOf
Spelled(i, j) ==
    \/ j = i + 1 /\ text[i] \in OperatorFirst
    \/ /\ j = i + 2
       /\ \/ text[i] = "/" /\ text[i + 1] = "="
          \/ text[i] \in DOMAIN SecondOf /\ text[i + 1] \in SecondOf[text[i]]
    \/ /\ j = i + 3
       /\ text[i] \in DOMAIN SecondOf /\ text[i + 1] \in SecondOf[text[i]]
       /\ text[i + 2] \in ThirdOf(text[i], text[i + 1])

\* IsLexeme, said of the places of the text instead of the part between them.
Shape(type, i, j) ==
    CASE type = "line_comment_" ->
            /\ j >= i + 2 /\ text[i] = "/" /\ text[i + 1] = "/" /\ Get(i + 2) # "/"
            /\ \A k \in i..(j - 1) : text[k] \notin Newlines \cup {"eof"}
      [] type = "block_comment_" ->
            /\ j >= i + 6 /\ Solidus(i) /\ Solidus(j - 3)
            /\ \A k \in (i + 3)..(j - 4) : ~Solidus(k)
      [] type = "string_literal_" -> Quoted(i, j)
      [] type = "byte_literal_" ->
            /\ j >= i + 2 /\ text[j - 1] = "c"
            /\ Quoted(i, j - 1) \/ AllIn(i, j - 1, Numeric)
      [] type = "operator"    -> Spelled(i, j)
      [] type = "newline_"    -> AllIn(i, j, Newlines)
      [] type = "whitespace_" -> AllIn(i, j, Whitespace)
      [] type = "eof_"        -> j = i + 1 /\ text[i] = "eof"
      [] type = "bit_literal_" -> j = i + 2 /\ text[i] = "1" /\ text[i + 1] = "b"
      [] type = "unsigned_literal_" ->
            j >= i + 2 /\ text[j - 1] = "u" /\ AllIn(i, j - 1, Numeric)
      [] type = "number_literal_" -> AllIn(i, j, Numeric)
      [] type = "real_literal_" ->
            \E k \in (i + 1)..(j - 1) :
                /\ text[k] = "." /\ ~FindForward(k, <<".", ".", ".">>)
                /\ \A m \in (i..(j - 1)) \ {k} : text[m] \in Numeric
      [] type = "alnumus_" ->
            /\ text[i] \in Alphabetic /\ AllIn(i, j, Alnumus)
            /\ ~(j = i + 1 /\ text[i] \in Keywords)
      [] type = "keyword" ->
            \/ j = i + 1 /\ text[i] \in Keywords
            \/ j = i + 2 /\ text[i] = "#" /\ text[i + 1] \in Keywords
      [] type = "scope"      -> j = i + 1 /\ text[i] \in Scopes
      [] type = "semicolon_" -> j = i + 1 /\ text[i] = ";"
      [] type = "comma_"     -> j = i + 1 /\ text[i] = ","
      [] type = "ellipsis_"  ->
            j = i + 3 /\ text[i] = "." /\ text[i + 1] = "." /\ text[i + 2] = "."
      [] type = "period_"    -> j = i + 1 /\ text[i] = "."

\* Sequences of one, two and three elements.
LEMMA ShortSequences ==
    ASSUME NEW S, NEW s \in Seq(S)
    PROVE  /\ \A a : s = <<a>> <=> Len(s) = 1 /\ s[1] = a
           /\ \A a, b : s = <<a, b>> <=> Len(s) = 2 /\ s[1] = a /\ s[2] = b
           /\ \A a, b, c : s = <<a, b, c>> <=>
                  Len(s) = 3 /\ s[1] = a /\ s[2] = b /\ s[3] = c
<1>1. ASSUME NEW a PROVE s = <<a>> <=> Len(s) = 1 /\ s[1] = a
  OBVIOUS
<1>2. ASSUME NEW a, NEW b PROVE s = <<a, b>> <=> Len(s) = 2 /\ s[1] = a /\ s[2] = b
  OBVIOUS
<1>3. ASSUME NEW a, NEW b, NEW c
      PROVE s = <<a, b, c>> <=> Len(s) = 3 /\ s[1] = a /\ s[2] = b /\ s[3] = c
  OBVIOUS
<1>. QED
  BY <1>1, <1>2, <1>3

\* A part of the text that consists of the given characters, or is a given one.
LEMMA PartConsists ==
    ASSUME IsText, NEW i \in 1..End, NEW j \in (i + 1)..End
    PROVE  /\ \A chars : Consists(SubSeq(text, i, j - 1), chars) <=> AllIn(i, j, chars)
           /\ j >= i + 2 => Front(SubSeq(text, i, j - 1)) = SubSeq(text, i, (j - 1) - 1)
           /\ \A a : SubSeq(text, i, j - 1) = <<a>> <=> j = i + 1 /\ text[i] = a
           /\ \A a, b : SubSeq(text, i, j - 1) = <<a, b>> <=>
                            j = i + 2 /\ text[i] = a /\ text[i + 1] = b
           /\ \A a, b, c : SubSeq(text, i, j - 1) = <<a, b, c>> <=>
                            j = i + 3 /\ text[i] = a /\ text[i + 1] = b /\ text[i + 2] = c
<1>. DEFINE s == SubSeq(text, i, j - 1)
<1>1. End \in Nat /\ Len(text) \in Nat /\ End = Len(text) + 1
  BY TextTypes DEF End
<1>2. s \in Seq(Chars) /\ Len(s) = j - i /\ \A k \in 1..(j - i) : s[k] = text[i + k - 1]
  BY <1>1, PartOfText
<1>0. s \in Seq(Chars)
  BY <1>2
<1>3. \A k \in i..(j - 1) : k - i + 1 \in 1..(j - i) /\ i + (k - i + 1) - 1 = k
  BY <1>1
<1>4. ASSUME j >= i + 2 PROVE Front(s) = SubSeq(text, i, (j - 1) - 1)
  <2>1. j - 1 \in i..End /\ Len(s) - 1 = j - i - 1
    BY <1>1, <1>2, <1>4
  <2>. DEFINE t == SubSeq(text, i, (j - 1) - 1)
              u == SubSeq(s, 1, Len(s) - 1)
  <2>2. t \in Seq(Chars) /\ Len(t) = (j - 1) - i
        /\ \A k \in 1..((j - 1) - i) : t[k] = text[i + k - 1]
    BY <2>1, PartOfText
  <2>3. u \in Seq(Chars) /\ Len(u) = j - i - 1 /\ \A k \in 1..(j - i - 1) : u[k] = s[k]
    BY <1>1, <1>2, <1>4, SubSeqProperties
  <2>. HIDE DEF s, t, u
  <2>4. t = u
    BY <1>1, <1>2, <2>2, <2>3, SeqEqual
  <2>. QED
    BY <2>4 DEF Front, s, t, u
<1>5. ASSUME NEW chars PROVE Consists(s, chars) <=> AllIn(i, j, chars)
  <2>1. ASSUME Consists(s, chars), NEW k \in i..(j - 1) PROVE text[k] \in chars
    BY <1>1, <1>2, <1>3, <2>1 DEF Consists
  <2>2. ASSUME AllIn(i, j, chars), NEW k \in 1..(j - i) PROVE s[k] \in chars
    BY <1>1, <1>2, <2>2 DEF AllIn
  <2>. QED
    BY <1>2, <2>1, <2>2 DEF Consists, AllIn
<1>. HIDE DEF s
<1>6. ASSUME NEW a PROVE s = <<a>> <=> j = i + 1 /\ text[i] = a
  <2>1. s = <<a>> <=> Len(s) = 1 /\ s[1] = a
    BY <1>0, ShortSequences, SMTT(20)
  <2>2. s[1] = text[i + 1 - 1] /\ i + 1 - 1 = i
    BY <1>1, <1>2
  <2>. QED
    BY <1>1, <1>2, <2>1, <2>2
<1>7. ASSUME NEW a, NEW b PROVE s = <<a, b>> <=> j = i + 2 /\ text[i] = a /\ text[i + 1] = b
  <2>1. s = <<a, b>> <=> Len(s) = 2 /\ s[1] = a /\ s[2] = b
    BY <1>0, ShortSequences, SMTT(20)
  <2>2. j = i + 2 => s[1] = text[i] /\ s[2] = text[i + 1]
    BY <1>1, <1>2
  <2>. QED
    BY <1>1, <1>2, <2>1, <2>2
<1>8. ASSUME NEW a, NEW b, NEW c
      PROVE s = <<a, b, c>> <=> j = i + 3 /\ text[i] = a /\ text[i + 1] = b /\ text[i + 2] = c
  <2>1. s = <<a, b, c>> <=> Len(s) = 3 /\ s[1] = a /\ s[2] = b /\ s[3] = c
    BY <1>0, ShortSequences, SMTT(20)
  <2>2. j = i + 3 => s[1] = text[i] /\ s[2] = text[i + 1] /\ s[3] = text[i + 2]
    BY <1>1, <1>2
  <2>. QED
    BY <1>1, <1>2, <2>1, <2>2
<1>. QED
  BY <1>4, <1>5, <1>6, <1>7, <1>8 DEF s

\* The two definitions of a lexeme agree.
LEMMA LexemeShape ==
    ASSUME IsText, NEW i \in 1..End, NEW j \in (i + 1)..End, NEW type \in TokenTypes
    PROVE  IsLexeme(type, i, j) <=> Shape(type, i, j)
<1>. DEFINE s == SubSeq(text, i, j - 1)
<1>1. End \in Nat /\ Len(text) \in Nat /\ End = Len(text) + 1
  BY TextTypes DEF End
<1>2. Len(s) = j - i /\ \A k \in 1..(j - i) : s[k] = text[i + k - 1]
  BY <1>1, PartOfText
<1>3. /\ \A chars : Consists(s, chars) <=> AllIn(i, j, chars)
      /\ j >= i + 2 => Front(s) = SubSeq(text, i, (j - 1) - 1)
      /\ \A a : s = <<a>> <=> j = i + 1 /\ text[i] = a
      /\ \A a, b : s = <<a, b>> <=> j = i + 2 /\ text[i] = a /\ text[i + 1] = b
      /\ \A a, b, c : s = <<a, b, c>> <=>
             j = i + 3 /\ text[i] = a /\ text[i + 1] = b /\ text[i + 2] = c
  BY PartConsists
<1>4. ASSUME j >= i + 2
      PROVE  \A chars : Consists(Front(s), chars) <=> AllIn(i, j - 1, chars)
  <2>1. j - 1 \in (i + 1)..End
    BY <1>1, <1>4
  <2>2. \A chars : Consists(SubSeq(text, i, (j - 1) - 1), chars) <=> AllIn(i, j - 1, chars)
    BY <2>1, PartConsists
  <2>3. Front(s) = SubSeq(text, i, (j - 1) - 1)
    BY <1>3, <1>4
  <2>. QED
    BY <2>2, <2>3
<1>5. ASSUME NEW m \in (i + 1)..End PROVE IsQuotation(SubSeq(text, i, m - 1)) <=> Quoted(i, m)
  <2>. DEFINE t == SubSeq(text, i, m - 1)
  <2>1. Len(t) = m - i /\ \A k \in 1..(m - i) : t[k] = text[i + k - 1]
    BY <1>1, PartOfText
  <2>2. t[1] = text[i] /\ t[m - i] = text[m - 1]
    BY <1>1, <2>1
  <2>3. m >= i + 2 => t[m - i - 1] = text[m - 2]
    BY <1>1, <2>1
  <2>. HIDE DEF t
  <2>4. ASSUME m >= i + 2
        PROVE  (\A k \in 2..(Len(t) - 1) : t[k] = "'" => t[k - 1] = "\\")
               <=> \A k \in (i + 1)..(m - 2) : text[k] = "'" => text[k - 1] = "\\"
    <3>1. ASSUME \A k \in 2..(m - i - 1) : t[k] = "'" => t[k - 1] = "\\",
                 NEW k \in (i + 1)..(m - 2)
          PROVE  text[k] = "'" => text[k - 1] = "\\"
      <4>1. /\ k - i + 1 \in 2..(m - i - 1)
            /\ t[k - i + 1] = text[k] /\ t[(k - i + 1) - 1] = text[k - 1]
        BY <1>1, <2>1
      <4>. QED
        BY <3>1, <4>1
    <3>2. ASSUME \A k \in (i + 1)..(m - 2) : text[k] = "'" => text[k - 1] = "\\",
                 NEW k \in 2..(m - i - 1)
          PROVE  t[k] = "'" => t[k - 1] = "\\"
      <4>1. /\ i + k - 1 \in (i + 1)..(m - 2)
            /\ t[k] = text[i + k - 1] /\ t[k - 1] = text[(i + k - 1) - 1]
        BY <1>1, <2>1
      <4>. QED
        BY <3>2, <4>1
    <3>. QED
      BY <2>1, <3>1, <3>2
  <2>5. IsQuotation(t) <=> Quoted(i, m)
    <3>1. CASE m < i + 2
      BY <1>1, <2>1, <3>1 DEF IsQuotation, Quoted
    <3>2. CASE m >= i + 2
      <4>1. IsQuotation(t) <=>
                /\ t[1] = "'" /\ t[m - i] = "'" /\ t[m - i - 1] # "\\"
                /\ \A k \in 2..(Len(t) - 1) : t[k] = "'" => t[k - 1] = "\\"
        BY <1>1, <2>1, <3>2 DEF IsQuotation
      <4>. QED
        BY <2>2, <2>3, <2>4, <3>2, <4>1 DEF Quoted
    <3>. QED
      BY <1>1, <3>1, <3>2
  <2>. QED
    BY <2>5 DEF t
<1>. HIDE DEF s
<1>6. CASE type = "line_comment_"
  <2>1. j >= i + 2 => s[1] = text[i] /\ s[2] = text[i + 1]
    BY <1>1, <1>2
  <2>2. (\A k \in 1..Len(s) : s[k] \notin Newlines \cup {"eof"})
        <=> \A k \in i..(j - 1) : text[k] \notin Newlines \cup {"eof"}
    <3>1. ASSUME \A k \in 1..(j - i) : s[k] \notin Newlines \cup {"eof"}, NEW k \in i..(j - 1)
          PROVE  text[k] \notin Newlines \cup {"eof"}
      <4>1. k - i + 1 \in 1..(j - i) /\ s[k - i + 1] = text[k]
        BY <1>1, <1>2
      <4>. QED
        BY <3>1, <4>1
    <3>2. ASSUME \A k \in i..(j - 1) : text[k] \notin Newlines \cup {"eof"}, NEW k \in 1..(j - i)
          PROVE  s[k] \notin Newlines \cup {"eof"}
      <4>1. i + k - 1 \in i..(j - 1) /\ s[k] = text[i + k - 1]
        BY <1>1, <1>2
      <4>. QED
        BY <3>2, <4>1
    <3>. QED
      BY <1>2, <3>1, <3>2
  <2>3. IsLexeme(type, i, j) <=>
            /\ Len(s) >= 2 /\ s[1] = "/" /\ s[2] = "/" /\ Get(i + 2) # "/"
            /\ \A k \in 1..Len(s) : s[k] \notin Newlines \cup {"eof"}
    BY <1>6 DEF IsLexeme, s
  <2>. QED
    BY <1>1, <1>2, <1>6, <2>1, <2>2, <2>3 DEF Shape
<1>7. CASE type = "block_comment_"
  <2>0. IsLexeme(type, i, j) <=> IsBlockComment(s)
    BY <1>7 DEF IsLexeme, s
  <2>1. CASE j < i + 6
    BY <1>1, <1>2, <1>7, <2>0, <2>1 DEF IsBlockComment, Shape
  <2>2. CASE j >= i + 6
    <3>1. /\ s[1] = text[i] /\ s[2] = text[i + 1] /\ s[3] = text[i + 2]
          /\ s[Len(s) - 2] = text[j - 3] /\ s[Len(s) - 1] = text[j - 2] /\ s[Len(s)] = text[j - 1]
      BY <1>1, <1>2, <2>2
    <3>2. (\A k \in 1..3 : s[k] = "/" /\ s[Len(s) - 3 + k] = "/") <=> Solidus(i) /\ Solidus(j - 3)
      <4>1. (\A k \in 1..3 : s[k] = "/" /\ s[Len(s) - 3 + k] = "/") <=>
                /\ s[1] = "/" /\ s[2] = "/" /\ s[3] = "/"
                /\ s[Len(s) - 2] = "/" /\ s[Len(s) - 1] = "/" /\ s[Len(s)] = "/"
        BY <1>1, <1>2, <2>2
      <4>2. (j - 3) + 1 = j - 2 /\ (j - 3) + 2 = j - 1
        BY <1>1
      <4>. QED
        BY <3>1, <4>1, <4>2 DEF Solidus
    <3>3. ASSUME NEW k \in 4..(Len(s) - 3)
          PROVE  SubSeq(s, k, k + 2) = <<"/", "/", "/">> <=> Solidus(i + k - 1)
      <4>. DEFINE u == SubSeq(s, k, k + 2)
      <4>1. s \in Seq(Chars)
        BY <1>1, PartOfText DEF s
      <4>2. u \in Seq(Chars) /\ Len(u) = 3 /\ \A m \in 1..3 : u[m] = s[k + m - 1]
        BY <1>1, <1>2, <2>2, <4>1, SubSeqProperties
      <4>3. u[1] = text[i + k - 1] /\ u[2] = text[i + k] /\ u[3] = text[i + k + 1]
        <5>1. /\ k \in 1..(j - i) /\ k + 1 \in 1..(j - i) /\ k + 2 \in 1..(j - i)
              /\ i + (k + 1) - 1 = i + k /\ i + (k + 2) - 1 = i + k + 1
          BY <1>1, <1>2, <2>2
        <5>2. /\ s[k] = text[i + k - 1] /\ s[k + 1] = text[i + (k + 1) - 1]
              /\ s[k + 2] = text[i + (k + 2) - 1]
          BY <1>2, <5>1
        <5>3. u[1] = s[k] /\ u[2] = s[k + 1] /\ u[3] = s[k + 2]
          <6>1. k + 1 - 1 = k /\ k + 2 - 1 = k + 1 /\ k + 3 - 1 = k + 2
            BY <1>1, <1>2, <2>2
          <6>2. u[1] = s[k + 1 - 1] /\ u[2] = s[k + 2 - 1] /\ u[3] = s[k + 3 - 1]
            BY <4>2
          <6>. QED
            BY <6>1, <6>2
        <5>. QED
          BY <5>1, <5>2, <5>3
      <4>4. (i + k - 1) + 1 = i + k /\ (i + k - 1) + 2 = i + k + 1
        BY <1>1, <1>2
      <4>. HIDE DEF u
      <4>5. u \in Seq(Chars)
        BY <4>2
      <4>6. u = <<"/", "/", "/">> <=> Len(u) = 3 /\ u[1] = "/" /\ u[2] = "/" /\ u[3] = "/"
        BY <4>5, ShortSequences, SMTT(20)
      <4>. QED
        BY <4>2, <4>3, <4>4, <4>6 DEF Solidus, u
    <3>4. ASSUME NEW k \in (i + 3)..(j - 4)
          PROVE  k - i + 1 \in 4..(Len(s) - 3) /\ i + (k - i + 1) - 1 = k
      BY <1>1, <1>2, <2>2
    <3>5. ASSUME NEW k \in 4..(Len(s) - 3) PROVE i + k - 1 \in (i + 3)..(j - 4)
      BY <1>1, <1>2, <2>2
    <3>6. (\A k \in 4..(Len(s) - 3) : SubSeq(s, k, k + 2) # <<"/", "/", "/">>)
          <=> \A k \in (i + 3)..(j - 4) : ~Solidus(k)
      <4>1. ASSUME \A k \in 4..(Len(s) - 3) : SubSeq(s, k, k + 2) # <<"/", "/", "/">>,
                   NEW k \in (i + 3)..(j - 4)
            PROVE  ~Solidus(k)
        <5>. DEFINE m == k - i + 1
        <5>1. m \in 4..(Len(s) - 3) /\ i + m - 1 = k
          BY <3>4
        <5>. HIDE DEF m
        <5>. QED
          BY <3>3, <4>1, <5>1
      <4>2. ASSUME \A k \in (i + 3)..(j - 4) : ~Solidus(k), NEW k \in 4..(Len(s) - 3)
            PROVE  SubSeq(s, k, k + 2) # <<"/", "/", "/">>
        BY <3>3, <3>5, <4>2
      <4>. QED
        BY <4>1, <4>2
    <3>. QED
      <4>1. IsBlockComment(s) <=>
                /\ Len(s) >= 6 /\ \A k \in 1..3 : s[k] = "/" /\ s[Len(s) - 3 + k] = "/"
                /\ \A k \in 4..(Len(s) - 3) : SubSeq(s, k, k + 2) # <<"/", "/", "/">>
        BY DEF IsBlockComment
      <4>2. Shape(type, i, j) <=>
                /\ j >= i + 6 /\ Solidus(i) /\ Solidus(j - 3)
                /\ \A k \in (i + 3)..(j - 4) : ~Solidus(k)
        BY <1>7 DEF Shape
      <4>3. Len(s) >= 6
        BY <1>1, <1>2, <2>2
      <4>. QED
        BY <2>0, <2>2, <3>2, <3>6, <4>1, <4>2, <4>3
  <2>. QED
    BY <1>1, <2>1, <2>2
<1>8. CASE type = "string_literal_"
  <2>1. IsLexeme(type, i, j) <=> IsQuotation(s)
    BY <1>8 DEF IsLexeme, s
  <2>. QED
    BY <1>5, <1>8, <2>1 DEF Shape, s
<1>9. CASE type = "byte_literal_"
  <2>1. IsLexeme(type, i, j) <=>
            /\ Len(s) >= 2 /\ s[Len(s)] = "c"
            /\ IsQuotation(Front(s)) \/ Consists(Front(s), Numeric)
    BY <1>9 DEF IsLexeme, s
  <2>2. s[Len(s)] = text[j - 1]
    BY <1>1, <1>2
  <2>3. ASSUME j >= i + 2 PROVE IsQuotation(Front(s)) <=> Quoted(i, j - 1)
    <3>1. j - 1 \in (i + 1)..End
      BY <1>1, <2>3
    <3>. QED
      BY <1>3, <1>5, <2>3, <3>1
  <2>. QED
    BY <1>1, <1>2, <1>4, <1>9, <2>1, <2>2, <2>3 DEF Shape
<1>10. CASE type = "operator"
  <2>1. IsLexeme(type, i, j) <=> s \in OperatorSpellings
    BY <1>10 DEF IsLexeme, s
  <2>2. (\E c \in OperatorFirst : s = <<c>>) <=> j = i + 1 /\ text[i] \in OperatorFirst
    BY <1>3
  <2>3. (\/ \E c \in {"=", "+", "-", "*", "/", "%", "&", "|", "^", "<", ">", "!"} : s = <<c, "=">>
         \/ \E c \in {"+", "-", "&", "|", "<", ">"} : s = <<c, c>>)
        <=> /\ j = i + 2
            /\ \/ text[i] = "/" /\ text[i + 1] = "="
               \/ text[i] \in DOMAIN SecondOf /\ text[i + 1] \in SecondOf[text[i]]
    <3>. DEFINE a == text[i]
                b == text[i + 1]
    <3>1. (\/ \E c \in {"=", "+", "-", "*", "/", "%", "&", "|", "^", "<", ">", "!"} : s = <<c, "=">>
           \/ \E c \in {"+", "-", "&", "|", "<", ">"} : s = <<c, c>>)
          <=> /\ j = i + 2
              /\ \/ /\ a \in {"=", "+", "-", "*", "/", "%", "&", "|", "^", "<", ">", "!"}
                    /\ b = "="
                 \/ a \in {"+", "-", "&", "|", "<", ">"} /\ b = a
      BY <1>3
    <3>. HIDE DEF a, b
    <3>2. (\/ /\ a \in {"=", "+", "-", "*", "/", "%", "&", "|", "^", "<", ">", "!"}
              /\ b = "="
           \/ a \in {"+", "-", "&", "|", "<", ">"} /\ b = a)
          <=> \/ a = "/" /\ b = "="
              \/ a \in DOMAIN SecondOf /\ b \in SecondOf[a]
      BY DEF SecondOf
    <3>. QED
      BY <3>1, <3>2 DEF a, b
  <2>4. s \in {<<"<", "<", "=">>, <<">", ">", "=">>, <<"<", "=", ">">>}
        <=> /\ j = i + 3
            /\ text[i] \in DOMAIN SecondOf /\ text[i + 1] \in SecondOf[text[i]]
            /\ text[i + 2] \in ThirdOf(text[i], text[i + 1])
    <3>. DEFINE a == text[i]
                b == text[i + 1]
                c == text[i + 2]
    <3>1. s \in {<<"<", "<", "=">>, <<">", ">", "=">>, <<"<", "=", ">">>}
          <=> j = i + 3 /\ \/ a = "<" /\ b = "<" /\ c = "="
                           \/ a = ">" /\ b = ">" /\ c = "="
                           \/ a = "<" /\ b = "=" /\ c = ">"
      <4>1. \A d, e, f : s = <<d, e, f>> <=> j = i + 3 /\ a = d /\ b = e /\ c = f
        BY <1>3
      <4>. HIDE DEF a, b, c
      <4>. QED
        BY <4>1
    <3>. HIDE DEF a, b, c
    <3>2. (\/ a = "<" /\ b = "<" /\ c = "="
           \/ a = ">" /\ b = ">" /\ c = "="
           \/ a = "<" /\ b = "=" /\ c = ">")
          <=> a \in DOMAIN SecondOf /\ b \in SecondOf[a] /\ c \in ThirdOf(a, b)
      BY DEF SecondOf, ThirdOf
    <3>. QED
      BY <3>1, <3>2 DEF a, b, c
  <2>5. s \in OperatorSpellings <=>
            \/ \E c \in OperatorFirst : s = <<c>>
            \/ \E c \in {"=", "+", "-", "*", "/", "%", "&", "|", "^", "<", ">", "!"} :
                  s = <<c, "=">>
            \/ \E c \in {"+", "-", "&", "|", "<", ">"} : s = <<c, c>>
            \/ s \in {<<"<", "<", "=">>, <<">", ">", "=">>, <<"<", "=", ">">>}
    BY DEF OperatorSpellings, OperatorFirst
  <2>. HIDE DEF OperatorFirst
  <2>. QED
    BY <1>10, <2>1, <2>2, <2>3, <2>4, <2>5 DEF Shape, Spelled
<1>11. CASE type = "newline_"
  <2>1. IsLexeme(type, i, j) <=> Len(s) >= 1 /\ Consists(s, Newlines)
    BY <1>11 DEF IsLexeme, s
  <2>. QED
    BY <1>1, <1>2, <1>3, <1>11, <2>1 DEF Shape
<1>12. CASE type = "whitespace_"
  <2>1. IsLexeme(type, i, j) <=> Len(s) >= 1 /\ Consists(s, Whitespace)
    BY <1>12 DEF IsLexeme, s
  <2>. QED
    BY <1>1, <1>2, <1>3, <1>12, <2>1 DEF Shape
<1>13. CASE type = "eof_"
  <2>1. IsLexeme(type, i, j) <=> s = <<"eof">>
    BY <1>13 DEF IsLexeme, s
  <2>. QED
    BY <1>3, <1>13, <2>1 DEF Shape
<1>14. CASE type = "bit_literal_"
  <2>1. IsLexeme(type, i, j) <=> s = <<"1", "b">>
    BY <1>14 DEF IsLexeme, s
  <2>. QED
    BY <1>3, <1>14, <2>1 DEF Shape
<1>15. CASE type = "unsigned_literal_"
  <2>1. IsLexeme(type, i, j) <=> Len(s) >= 2 /\ s[Len(s)] = "u" /\ Consists(Front(s), Numeric)
    BY <1>15 DEF IsLexeme, s
  <2>2. s[Len(s)] = text[j - 1]
    BY <1>1, <1>2
  <2>. QED
    BY <1>1, <1>2, <1>4, <1>15, <2>1, <2>2 DEF Shape
<1>16. CASE type = "number_literal_"
  <2>1. IsLexeme(type, i, j) <=> Len(s) >= 1 /\ Consists(s, Numeric)
    BY <1>16 DEF IsLexeme, s
  <2>. QED
    BY <1>1, <1>2, <1>3, <1>16, <2>1 DEF Shape
<1>17. CASE type = "real_literal_"
  <2>1. IsLexeme(type, i, j) <=>
            \E k \in 2..Len(s) : /\ s[k] = "." /\ ~FindForward(i + k - 1, <<".", ".", ".">>)
                                 /\ \A m \in (1..Len(s)) \ {k} : s[m] \in Numeric
    BY <1>17 DEF IsLexeme, s
  <2>. DEFINE Real(k) == /\ s[k] = "." /\ ~FindForward(i + k - 1, <<".", ".", ".">>)
                         /\ \A m \in (1..(j - i)) \ {k} : s[m] \in Numeric
              RealAt(k) == /\ text[k] = "." /\ ~FindForward(k, <<".", ".", ".">>)
                           /\ \A m \in (i..(j - 1)) \ {k} : text[m] \in Numeric
  <2>2. ASSUME NEW k \in 2..(j - i), Real(k)
        PROVE  i + k - 1 \in (i + 1)..(j - 1) /\ RealAt(i + k - 1)
    <3>1. i + k - 1 \in (i + 1)..(j - 1) /\ text[i + k - 1] = "."
      BY <1>1, <1>2, <2>2
    <3>2. ASSUME NEW m \in (i..(j - 1)) \ {i + k - 1} PROVE text[m] \in Numeric
      <4>0. m - i + 1 \in (1..(j - i)) \ {k} /\ i + (m - i + 1) - 1 = m
        BY <1>1, <3>2
      <4>1. m - i + 1 \in (1..(j - i)) \ {k} /\ s[m - i + 1] = text[m]
        BY <1>2, <4>0
      <4>. QED
        BY <2>2, <4>1
    <3>. QED
      BY <2>2, <3>1, <3>2
  <2>3. ASSUME NEW k \in (i + 1)..(j - 1), RealAt(k)
        PROVE  k - i + 1 \in 2..(j - i) /\ Real(k - i + 1)
    <3>1. k - i + 1 \in 2..(j - i) /\ s[k - i + 1] = "." /\ i + (k - i + 1) - 1 = k
      BY <1>1, <1>2, <2>3
    <3>2. ASSUME NEW m \in (1..(j - i)) \ {k - i + 1} PROVE s[m] \in Numeric
      <4>1. i + m - 1 \in (i..(j - 1)) \ {k} /\ s[m] = text[i + m - 1]
        BY <1>1, <1>2
      <4>. QED
        BY <2>3, <4>1
    <3>. QED
      BY <2>3, <3>1, <3>2
  <2>4. IsLexeme(type, i, j) <=> \E k \in 2..(j - i) : Real(k)
    BY <1>2, <2>1
  <2>5. Shape(type, i, j) <=> \E k \in (i + 1)..(j - 1) : RealAt(k)
    BY <1>17 DEF Shape
  <2>. HIDE DEF Real, RealAt
  <2>. QED
    BY <2>2, <2>3, <2>4, <2>5
<1>18. CASE type = "alnumus_"
  <2>1. IsLexeme(type, i, j) <=>
            /\ Len(s) >= 1 /\ s[1] \in Alphabetic /\ Consists(s, Alnumus)
            /\ ~(Len(s) = 1 /\ s[1] \in Keywords)
    BY <1>18 DEF IsLexeme, s
  <2>2. s[1] = text[i]
    BY <1>1, <1>2
  <2>. QED
    BY <1>1, <1>2, <1>3, <1>18, <2>1, <2>2 DEF Shape
<1>19. CASE type = "keyword"
  <2>1. IsLexeme(type, i, j) <=> \E w \in Keywords : s \in {<<w>>, <<"#", w>>}
    BY <1>19 DEF IsLexeme, s
  <2>2. (\E w \in Keywords : s \in {<<w>>, <<"#", w>>}) <=>
            (\E w \in Keywords : s = <<w>>) \/ (\E w \in Keywords : s = <<"#", w>>)
    OBVIOUS
  <2>. QED
    BY <1>3, <1>19, <2>1, <2>2 DEF Shape
<1>20. CASE type = "scope"
  <2>1. IsLexeme(type, i, j) <=> Len(s) = 1 /\ s[1] \in Scopes
    BY <1>20 DEF IsLexeme, s
  <2>2. s[1] = text[i]
    BY <1>1, <1>2
  <2>. QED
    BY <1>1, <1>2, <1>20, <2>1, <2>2 DEF Shape
<1>21. CASE type \in {"semicolon_", "comma_", "period_"}
  <2>1. IsLexeme(type, i, j) <=> s = <<IF type = "semicolon_" THEN ";"
                                       ELSE IF type = "comma_" THEN "," ELSE ".">>
    BY <1>21 DEF IsLexeme, s
  <2>2. Shape(type, i, j) <=>
            j = i + 1 /\ text[i] = (IF type = "semicolon_" THEN ";"
                                    ELSE IF type = "comma_" THEN "," ELSE ".")
    BY <1>21 DEF Shape
  <2>. QED
    BY <1>3, <2>1, <2>2
<1>22. CASE type = "ellipsis_"
  <2>1. IsLexeme(type, i, j) <=> s = <<".", ".", ".">>
    BY <1>22 DEF IsLexeme, s
  <2>. QED
    BY <1>3, <1>22, <2>1 DEF Shape
<1>. QED
  BY <1>6, <1>7, <1>8, <1>9, <1>10, <1>11, <1>12, <1>13, <1>14, <1>15, <1>16, <1>17,
     <1>18, <1>19, <1>20, <1>21, <1>22 DEF TokenTypes

\* With which character a lexeme of a type begins.
BeginsWith(type, c) ==
    /\ type \in {"line_comment_", "block_comment_"} => c = "/"
    /\ type = "string_literal_" => c = "'"
    /\ type = "byte_literal_" => c = "'" \/ c \in Numeric
    /\ type = "operator" => c = "/" \/ c \in DOMAIN SecondOf
    /\ type = "newline_" => c \in Newlines
    /\ type = "whitespace_" => c \in Whitespace
    /\ type = "eof_" => c = "eof"
    /\ type \in {"bit_literal_", "unsigned_literal_", "number_literal_", "real_literal_"}
           => c \in Numeric
    /\ type = "alnumus_" => c \in Alphabetic
    /\ type = "keyword" => c = "#" \/ c \in Keywords
    /\ type = "scope" => c \in Scopes
    /\ type = "semicolon_" => c = ";"
    /\ type = "comma_" => c = ","
    /\ type \in {"ellipsis_", "period_"} => c = "."

\* A lexeme begins with a character of its type.
LEMMA FirstCharacter ==
    ASSUME IsText, NEW i \in 1..End, NEW j \in (i + 1)..End, NEW type \in TokenTypes,
           Shape(type, i, j)
    PROVE  BeginsWith(type, text[i])
<1>1. End \in Nat /\ Len(text) \in Nat /\ End = Len(text) + 1
  BY TextTypes DEF End
<1>2. \A chars : \A m \in Int : m > i /\ AllIn(i, m, chars) => text[i] \in chars
  <2>. SUFFICES ASSUME NEW chars, NEW m \in Int, m > i, AllIn(i, m, chars)
                PROVE  text[i] \in chars
    OBVIOUS
  <2>1. i \in i..(m - 1)
    BY <1>1
  <2>. QED
    BY <2>1 DEF AllIn
<1>3. j \in Int /\ j - 1 \in Int /\ j > i /\ (j >= i + 2 => j - 1 > i)
  BY <1>1
<1>4. CASE type \in {"line_comment_", "block_comment_"}
  BY <1>4 DEF BeginsWith, Shape, Solidus
<1>5. CASE type = "string_literal_"
  BY <1>5 DEF BeginsWith, Shape, Quoted
<1>6. CASE type = "byte_literal_"
  <2>1. j >= i + 2 /\ (Quoted(i, j - 1) \/ AllIn(i, j - 1, Numeric))
    BY <1>6 DEF Shape
  <2>. QED
    BY <1>2, <1>3, <1>6, <2>1 DEF BeginsWith, Quoted
<1>7. CASE type = "operator"
  <2>1. Spelled(i, j)
    BY <1>7 DEF Shape
  <2>2. text[i] = "/" \/ text[i] \in DOMAIN SecondOf
    BY <2>1 DEF Spelled, OperatorFirst
  <2>. QED
    BY <1>7, <2>2 DEF BeginsWith
<1>8. CASE type \in {"newline_", "whitespace_", "number_literal_"}
  <2>1. AllIn(i, j, IF type = "newline_" THEN Newlines
                    ELSE IF type = "whitespace_" THEN Whitespace ELSE Numeric)
    BY <1>8 DEF Shape
  <2>2. text[i] \in (IF type = "newline_" THEN Newlines
                     ELSE IF type = "whitespace_" THEN Whitespace ELSE Numeric)
    BY <1>2, <1>3, <2>1
  <2>. QED
    BY <1>8, <2>2 DEF BeginsWith
<1>9. CASE type = "unsigned_literal_"
  <2>1. j >= i + 2 /\ AllIn(i, j - 1, Numeric)
    BY <1>9 DEF Shape
  <2>2. text[i] \in Numeric
    BY <1>2, <1>3, <2>1
  <2>. QED
    BY <1>9, <2>2 DEF BeginsWith
<1>10. CASE type = "real_literal_"
  <2>1. PICK k \in (i + 1)..(j - 1) : \A m \in (i..(j - 1)) \ {k} : text[m] \in Numeric
    BY <1>10 DEF Shape
  <2>2. i \in (i..(j - 1)) \ {k}
    BY <1>1
  <2>. QED
    BY <1>10, <2>1, <2>2 DEF BeginsWith
<1>11. CASE type = "bit_literal_"
  BY <1>11 DEF BeginsWith, Shape, Numeric
<1>12. CASE type \in {"eof_", "alnumus_", "keyword", "scope", "semicolon_", "comma_",
                      "ellipsis_", "period_"}
  BY <1>12 DEF BeginsWith, Shape
<1>. QED
  BY <1>4, <1>5, <1>6, <1>7, <1>8, <1>9, <1>10, <1>11, <1>12 DEF TokenTypes

\* Only an eof_ ends with the end of the file.
LEMMA LastCharacter ==
    ASSUME IsText, NEW i \in 1..End, NEW j \in (i + 1)..End, NEW type \in TokenTypes,
           Shape(type, i, j), text[j - 1] = "eof"
    PROVE  type = "eof_"
<1>1. End \in Nat /\ Len(text) \in Nat /\ End = Len(text) + 1
  BY TextTypes DEF End
<1>2. \A chars : \A m \in Int : m > i /\ AllIn(i, m, chars) => text[m - 1] \in chars
  <2>. SUFFICES ASSUME NEW chars, NEW m \in Int, m > i, AllIn(i, m, chars)
                PROVE  text[m - 1] \in chars
    OBVIOUS
  <2>1. m - 1 \in i..(m - 1)
    BY <1>1
  <2>. QED
    BY <2>1 DEF AllIn
<1>3. j \in Int /\ j > i
  BY <1>1
<1>4. "eof" \notin Newlines \cup Whitespace \cup Numeric \cup Alnumus
  BY TextsAssumption DEF Newlines, Whitespace, Numeric, Alnumus, Alus, Alphabetic, Characters
<1>5. CASE type = "line_comment_"
  <2>1. \A k \in i..(j - 1) : text[k] \notin Newlines \cup {"eof"}
    BY <1>5 DEF Shape
  <2>2. j - 1 \in i..(j - 1)
    BY <1>1
  <2>. QED
    BY <2>1, <2>2
<1>6. CASE type = "block_comment_"
  <2>1. Solidus(j - 3) /\ (j - 3) + 2 = j - 1
    BY <1>1, <1>6 DEF Shape
  <2>. QED
    BY <2>1 DEF Solidus
<1>7. CASE type = "string_literal_"
  BY <1>7 DEF Shape, Quoted
<1>8. CASE type \in {"byte_literal_", "unsigned_literal_"}
  BY <1>8 DEF Shape
<1>9. CASE type = "operator"
  <2>1. Spelled(i, j)
    BY <1>9 DEF Shape
  <2>2. /\ "eof" \notin OperatorFirst
        /\ \A a \in DOMAIN SecondOf : "eof" \notin SecondOf[a]
        /\ \A a, b : "eof" \notin ThirdOf(a, b)
    BY DEF OperatorFirst, SecondOf, ThirdOf
  <2>3. (i + 1) - 1 = i /\ (i + 2) - 1 = i + 1 /\ (i + 3) - 1 = i + 2
    BY <1>1
  <2>. QED
    BY <2>1, <2>2, <2>3 DEF Spelled
<1>10. CASE type \in {"newline_", "whitespace_", "number_literal_"}
  <2>1. AllIn(i, j, IF type = "newline_" THEN Newlines
                    ELSE IF type = "whitespace_" THEN Whitespace ELSE Numeric)
    BY <1>10 DEF Shape
  <2>2. text[j - 1] \in Newlines \cup Whitespace \cup Numeric
    BY <1>2, <1>3, <2>1
  <2>. QED
    BY <1>4, <2>2
<1>11. CASE type = "alnumus_"
  <2>1. AllIn(i, j, Alnumus)
    BY <1>11 DEF Shape
  <2>. QED
    BY <1>2, <1>3, <1>4, <2>1
<1>12. CASE type = "real_literal_"
  <2>1. PICK k \in (i + 1)..(j - 1) :
            text[k] = "." /\ \A m \in (i..(j - 1)) \ {k} : text[m] \in Numeric
    BY <1>12 DEF Shape
  <2>2. j - 1 \in i..(j - 1)
    BY <1>1
  <2>. QED
    BY <1>4, <2>1, <2>2
<1>13. CASE type = "keyword"
  <2>1. "eof" \notin Keywords
    BY TextsAssumption DEF Characters
  <2>2. (i + 1) - 1 = i /\ (i + 2) - 1 = i + 1
    BY <1>1
  <2>. QED
    BY <1>13, <2>1, <2>2 DEF Shape
<1>14. CASE type \in {"bit_literal_", "scope", "semicolon_", "comma_", "ellipsis_", "period_"}
  <2>1. (i + 1) - 1 = i /\ (i + 2) - 1 = i + 1 /\ (i + 3) - 1 = i + 2
    BY <1>1
  <2>. QED
    BY <1>14, <2>1 DEF Shape, Scopes
<1>. QED
  BY <1>5, <1>6, <1>7, <1>8, <1>9, <1>10, <1>11, <1>12, <1>13, <1>14 DEF TokenTypes

-----------------------------------------------------------------------------
(* What the lexers answer, each where it is the one to match.              *)

\* No lexeme begins at i.
NoLexeme(i) == \A j \in (i + 1)..End, type \in TokenTypes : ~Shape(type, i, j)

\* t is a lexeme that begins at i and, unless it has no meaning, no longer
\* one begins there.
Longest(i, t) ==
    /\ Shape(t.type, i, t.end)
    /\ t.type \notin Redundant =>
          \A j \in (t.end + 1)..End, type \in TokenTypes : ~Shape(type, i, j)

\* A token that begins at i.
TokenAt(i, t) ==
    /\ t.type \in TokenTypes /\ t.begin = i /\ t.end \in (i + 1)..End
    /\ t = [type |-> t.type, begin |-> t.begin, end |-> t.end]
    /\ text[t.end - 1] = "eof" => t.type = "eof_"
    /\ LongerThanKeyword(i) \/ Longest(i, t)

\* At i begins a quotation or a block comment that is never closed.
Unclosed(i) ==
    /\ text[i] = "'" \/ FindForward(i, <<"/", "/", "/">>)
    /\ \A j \in (i + 1)..End : ~Shape("string_literal_", i, j) /\ ~Shape("block_comment_", i, j)

\* What a lexer that matches at i may answer.
Answers(i, t) ==
    \/ TokenAt(i, t)
    \/ t.type = "never_ends" /\ Unclosed(i)
    \/ t.type \in {"none_", "invalid_"} /\ NoLexeme(i)

\* A lexeme than which none is longer is a right answer.
LEMMA LongestAnswers ==
    ASSUME IsText, NEW i \in 1..Len(text), NEW e \in (i + 1)..End, NEW type \in TokenTypes,
           Shape(type, i, e),
           type \notin Redundant =>
               \A j \in (e + 1)..End, ty \in TokenTypes : ~Shape(ty, i, j)
    PROVE  Answers(i, Token(type, i, e))
<1>1. i \in 1..End
  BY TextTypes DEF End
<1>2. text[e - 1] = "eof" => type = "eof_"
  BY <1>1, LastCharacter
<1>. QED
  BY <1>2 DEF Answers, TokenAt, Longest, Token

\* The classes of characters do not overlap.
Punctuation == {"/", "'", "eof", "#", ";", ",", "."}

\* The classes of characters by which the lexers match do not overlap, but for
\* the newlines, which are whitespace too.
LEMMA CharacterClasses ==
    /\ \A a \in Keywords   : a \notin Numeric \cup {"_", "c", "u", "b"}
    /\ \A a \in Alphabetic : a \notin Numeric \cup Whitespace \cup Scopes \cup DOMAIN SecondOf
                                      \cup Punctuation
    /\ \A a \in Numeric    : a \notin Whitespace \cup Scopes \cup DOMAIN SecondOf
                                      \cup Punctuation \cup {"b", "c", "u"}
    /\ \A a \in Whitespace : a \notin Scopes \cup DOMAIN SecondOf \cup Punctuation
    /\ \A a \in Scopes     : a \notin DOMAIN SecondOf \cup Punctuation
    /\ \A a \in DOMAIN SecondOf : a \notin Punctuation
    /\ Newlines \subseteq Whitespace /\ Keywords \subseteq Alphabetic
    /\ Alphabetic \subseteq Alus /\ Alus \subseteq Alnumus /\ Numeric \subseteq Alnumus
    /\ "eof" \notin Alnumus /\ Alnumus \cap Punctuation = {}
<1>1. DOMAIN SecondOf = {"=", "+", "-", "*", "%", "&", "|", "^", "<", ">", "!", "~", "@"}
  BY DEF SecondOf
<1>2. ASSUME NEW a \in Keywords
      PROVE  a \notin Numeric \cup {"_", "c", "u", "b"} \cup Whitespace \cup Scopes
                      \cup DOMAIN SecondOf \cup Punctuation
  <2>1. a \notin Characters
    BY TextsAssumption
  <2>. QED
    BY <1>1, <2>1 DEF Characters, Numeric, Whitespace, Newlines, Scopes, Punctuation
<1>3. ASSUME NEW a \in {"x", "b", "u", "c"}
      PROVE  a \notin Numeric \cup Whitespace \cup Scopes \cup DOMAIN SecondOf \cup Punctuation
  BY <1>1 DEF Numeric, Whitespace, Newlines, Scopes, Punctuation
<1>4. ASSUME NEW a \in Numeric
      PROVE  a \notin Whitespace \cup Scopes \cup DOMAIN SecondOf
                      \cup Punctuation \cup {"b", "c", "u"}
  BY <1>1 DEF Numeric, Whitespace, Newlines, Scopes, Punctuation
<1>5. ASSUME NEW a \in Whitespace
      PROVE  a \notin Scopes \cup DOMAIN SecondOf \cup Punctuation
  BY <1>1 DEF Whitespace, Newlines, Scopes, Punctuation
<1>6. ASSUME NEW a \in Scopes PROVE a \notin DOMAIN SecondOf \cup Punctuation
  BY <1>1 DEF Scopes, Punctuation
<1>7. ASSUME NEW a \in DOMAIN SecondOf PROVE a \notin Punctuation
  BY <1>1 DEF Punctuation
<1>8. /\ Newlines \subseteq Whitespace /\ Keywords \subseteq Alphabetic
      /\ Alphabetic \subseteq Alus /\ Alus \subseteq Alnumus /\ Numeric \subseteq Alnumus
  BY DEF Whitespace, Alphabetic, Alus, Alnumus
<1>9. Alnumus \cap Punctuation = {}
  <2>1. "_" \notin Punctuation
    BY DEF Punctuation
  <2>. QED
    BY <1>2, <1>3, <1>4, <2>1 DEF Alphabetic, Alus, Alnumus
<1>10. "eof" \notin Alnumus
  BY <1>9 DEF Punctuation
<1>. QED
  BY <1>2, <1>3, <1>4, <1>5, <1>6, <1>7, <1>8, <1>9, <1>10 DEF Alphabetic

\* A line comment, a block comment, /= or /, or a block comment not closed.
LEMMA SolidusAnswers ==
    ASSUME IsText, NEW i \in 1..Len(text), text[i] = "/"
    PROVE  Answers(i, lex_solidus(i))
<1>1. /\ End \in Nat /\ Len(text) \in Nat /\ End = Len(text) + 1 /\ i \in 1..End
      /\ \A k \in 1..Len(text) : Get(k) = text[k]
  BY TextTypes DEF End
<1>2. \A j \in (i + 1)..End, type \in TokenTypes : Shape(type, i, j) =>
          type \in {"line_comment_", "block_comment_", "operator"}
  <2>. TAKE j \in (i + 1)..End, type \in TokenTypes
  <2>1. "/" \in Punctuation /\ "/" \notin {"'", "#", "eof", ";", ",", "."}
    BY DEF Punctuation
  <2>2. "/" \notin Numeric \cup Whitespace \cup Newlines \cup Alphabetic \cup Keywords \cup Scopes
    BY <2>1, CharacterClasses
  <2>. QED
    BY <1>1, <2>1, <2>2, FirstCharacter DEF TokenTypes, BeginsWith
<1>3. \A j \in 1..End : /\ FindForward(j, <<"/", "/", "/">>) <=> j + 3 <= End /\ Solidus(j)
                        /\ FindForward(j, <<"/", "/">>) <=>
                               j + 2 <= End /\ text[j] = "/" /\ text[j + 1] = "/"
                        /\ FindForward(j, <<"/", "=">>) <=>
                               j + 2 <= End /\ text[j] = "/" /\ text[j + 1] = "="
  BY FindForwardTwo, FindForwardThree DEF Solidus
<1>4. CASE FindForward(i, <<"/", "/", "/">>)
  <2>. DEFINE closings == {j \in (i + 3)..Len(text) : FindForward(j, <<"/", "/", "/">>)}
  <2>1. lex_solidus(i) = IF closings = {} THEN NeverEnds(i)
                         ELSE Token("block_comment_", i, Min(closings) + 3)
    <3>1. lex_solidus(i) = BlockComment(i)
      <4>1. ~(Get(i + 2) # "/") /\ ~FindForward(i, <<"/", "=">>) /\ Get(i) = "/"
        BY <1>1, <1>3, <1>4 DEF Solidus
      <4>. QED
        BY <1>4, <4>1 DEF lex_solidus
    <3>. QED
      BY <3>1 DEF BlockComment
  <2>2. \A j \in (i + 3)..Len(text) : j \in closings <=> j + 3 <= End /\ Solidus(j)
    BY <1>1, <1>3
  <2>3. closings \subseteq (i + 3)..Len(text) /\ closings \subseteq Nat
    BY <1>1
  <2>. HIDE DEF closings
  <2>4. CASE closings = {}
    <3>1. ASSUME NEW j \in (i + 1)..End PROVE ~Shape("block_comment_", i, j)
      <4>1. SUFFICES ASSUME Shape("block_comment_", i, j) PROVE FALSE
        OBVIOUS
      <4>2. j >= i + 6 /\ Solidus(j - 3)
        BY <4>1 DEF Shape
      <4>3. j - 3 \in closings
        BY <1>1, <2>2, <4>2
      <4>. QED
        BY <2>4, <4>3
    <3>2. \A j \in (i + 1)..End : ~Shape("string_literal_", i, j)
      BY <1>2 DEF TokenTypes
    <3>. QED
      BY <1>4, <2>1, <2>4, <3>1, <3>2 DEF Answers, Unclosed, NeverEnds, Token
  <2>5. CASE closings # {}
    <3>. DEFINE m == Min(closings)
    <3>1. m \in closings /\ \A k \in closings : m <= k
      BY <2>3, <2>5, MinIsLeast
    <3>. HIDE DEF m
    <3>2. m \in (i + 3)..Len(text) /\ m + 3 <= End /\ Solidus(m)
      BY <2>2, <2>3, <3>1
    <3>3. \A k \in (i + 3)..((m + 3) - 4) : ~Solidus(k)
      BY <1>1, <2>2, <3>1, <3>2
    <3>4. m + 3 \in (i + 1)..End /\ (m + 3) - 3 = m /\ m + 3 >= i + 6
      BY <1>1, <3>2
    <3>5. Solidus(i)
      BY <1>1, <1>3, <1>4
    <3>6. Shape("block_comment_", i, m + 3)
      BY <3>2, <3>3, <3>4, <3>5 DEF Shape
    <3>7. Answers(i, Token("block_comment_", i, m + 3))
      BY <3>4, <3>6, LongestAnswers DEF TokenTypes, Redundant
    <3>. QED
      BY <2>1, <2>5, <3>7 DEF m
  <2>. QED
    BY <2>4, <2>5
<1>5. CASE /\ ~FindForward(i, <<"/", "/", "/">>)
           /\ FindForward(i, <<"/", "/">>) /\ Get(i + 2) # "/"
  <2>. DEFINE ends == {j \in i..End : Get(j) \in Newlines \cup {"eof"}}
  <2>1. lex_solidus(i) = Token("line_comment_", i, Min(ends))
    <3>1. Get(i) = "/" /\ ~FindForward(i, <<"/", "=">>)
      BY <1>1, <1>3, <1>5
    <3>2. lex_solidus(i) = LineComment(i)
      BY <1>5, <3>1 DEF lex_solidus
    <3>. QED
      BY <3>2 DEF LineComment
  <2>2. ends \subseteq Nat /\ End \in ends
    BY <1>1 DEF Get
  <2>. DEFINE m == Min(ends)
  <2>3. m \in ends /\ \A k \in ends : m <= k
    BY <2>2, MinIsLeast
  <2>4. /\ m \in i..End /\ Get(m) \in Newlines \cup {"eof"}
        /\ \A k \in i..End : Get(k) \in Newlines \cup {"eof"} => m <= k
    BY <2>3
  <2>. HIDE DEF m, ends
  <2>5. text[i + 1] = "/" /\ i + 2 <= End
    BY <1>1, <1>3, <1>5
  <2>6. Get(i) = "/" /\ Get(i + 1) = "/" /\ "/" \notin Newlines \cup {"eof"}
    <3>1. i + 1 \in 1..Len(text)
      BY <1>1, <2>5
    <3>. QED
      BY <1>1, <2>5, <3>1 DEF Newlines
  <2>7. m # i /\ m # i + 1
    BY <2>4, <2>6
  <2>8. m >= i + 2 /\ m \in (i + 1)..End
    BY <1>1, <2>4, <2>7
  <2>9. ASSUME NEW k \in i..(m - 1) PROVE text[k] \notin Newlines \cup {"eof"}
    <3>1. k \in i..End /\ k \in 1..Len(text) /\ ~(m <= k)
      BY <1>1, <2>8
    <3>. QED
      BY <1>1, <2>4, <3>1
  <2>10. Shape("line_comment_", i, m)
    BY <1>5, <2>5, <2>8, <2>9 DEF Shape
  <2>11. Answers(i, Token("line_comment_", i, m))
    BY <2>8, <2>10, LongestAnswers DEF TokenTypes, Redundant
  <2>. QED
    BY <2>1, <2>11 DEF m
<1>6. CASE /\ ~FindForward(i, <<"/", "/", "/">>)
           /\ ~(FindForward(i, <<"/", "/">>) /\ Get(i + 2) # "/")
  <2>1. ~FindForward(i, <<"/", "/">>)
    <3>1. SUFFICES ASSUME FindForward(i, <<"/", "/">>) PROVE FALSE
      OBVIOUS
    <3>2. Get(i + 2) = "/"
      BY <1>6, <3>1
    <3>3. i + 2 \in 1..Len(text)
      BY <1>1, <3>2, TextTypes
    <3>4. text[i + 2] = "/" /\ i + 3 <= End /\ text[i + 1] = "/"
      BY <1>1, <1>3, <3>1, <3>2, <3>3
    <3>. QED
      BY <1>1, <1>3, <1>6, <3>4 DEF Solidus
  <2>2. \A j \in (i + 1)..End : /\ ~Shape("line_comment_", i, j)
                                /\ ~Shape("block_comment_", i, j)
    <3>. TAKE j \in (i + 1)..End
    <3>1. j >= i + 2 => ~(text[i + 1] = "/")
      BY <1>1, <1>3, <2>1
    <3>. QED
      BY <3>1, <1>1 DEF Shape, Solidus
  <2>3. \A j \in (i + 1)..End, type \in TokenTypes : Shape(type, i, j) =>
            type = "operator" /\ Spelled(i, j)
    <3>1. \A j \in (i + 1)..End : Shape("operator", i, j) <=> Spelled(i, j)
      BY DEF Shape
    <3>. QED
      BY <1>2, <2>2, <3>1
  <2>4. "/" \notin DOMAIN SecondOf
    BY CharacterClasses DEF Punctuation
  <2>. DEFINE e == IF FindForward(i, <<"/", "=">>) THEN i + 2 ELSE i + 1
  <2>5. lex_solidus(i) = Token("operator", i, e)
    BY <1>1, <1>6, <2>1 DEF lex_solidus
  <2>6. e \in (i + 1)..End
    BY <1>1, <1>3
  <2>7. Spelled(i, e)
    BY <1>1, <1>3 DEF Spelled, OperatorFirst
  <2>8. \A j \in (e + 1)..End : ~Spelled(i, j)
    BY <1>1, <1>3, <2>4 DEF Spelled
  <2>. HIDE DEF e
  <2>9. \A j \in (e + 1)..End : j \in (i + 1)..End
    BY <1>1, <2>6
  <2>10. Shape("operator", i, e)
    BY <2>7 DEF Shape
  <2>11. \A j \in (e + 1)..End, type \in TokenTypes : ~Shape(type, i, j)
    BY <2>3, <2>8, <2>9
  <2>12. Answers(i, Token("operator", i, e))
    BY <2>6, <2>10, <2>11, LongestAnswers DEF TokenTypes
  <2>. QED
    BY <2>5, <2>12
<1>. QED
  BY <1>4, <1>5, <1>6

\* A quotation ends at the first quote that closes it, or never.
LEMMA QuotationAnswers ==
    ASSUME IsText, NEW i \in 1..Len(text), text[i] = "'"
    PROVE  Answers(i, lex_quotation(i))
<1>1. /\ End \in Nat /\ Len(text) \in Nat /\ End = Len(text) + 1 /\ i \in 1..End
      /\ \A k \in 1..Len(text) : Get(k) = text[k]
      /\ \A k \in Int : Get(k) # "eof" => k \in 1..Len(text)
  BY TextTypes DEF End
<1>2. "'" \in Punctuation /\ "'" \notin {"/", "#", "eof", ";", ",", "."}
  BY DEF Punctuation
<1>3. "'" \notin Numeric \cup Whitespace \cup Newlines \cup Alphabetic \cup Keywords
                 \cup Scopes \cup DOMAIN SecondOf
  BY <1>2, CharacterClasses
<1>4. \A j \in (i + 1)..End, type \in TokenTypes : Shape(type, i, j) =>
          type \in {"string_literal_", "byte_literal_"}
  <2>. TAKE j \in (i + 1)..End, type \in TokenTypes
  <2>1. SUFFICES ASSUME Shape(type, i, j) PROVE type \in {"string_literal_", "byte_literal_"}
    OBVIOUS
  <2>2. BeginsWith(type, text[i])
    BY <1>1, <2>1, FirstCharacter
  <2>. QED
    BY <1>2, <1>3, <2>2 DEF TokenTypes, BeginsWith
<1>5. ASSUME NEW j \in (i + 1)..End
      PROVE  /\ Shape("string_literal_", i, j) <=> Quoted(i, j)
             /\ Shape("byte_literal_", i, j) <=>
                    j >= i + 2 /\ text[j - 1] = "c" /\ Quoted(i, j - 1)
             /\ ~Shape("block_comment_", i, j)
  <2>1. j >= i + 2 => ~AllIn(i, j - 1, Numeric)
    <3>1. j >= i + 2 => i \in i..((j - 1) - 1)
      BY <1>1
    <3>. QED
      BY <1>3, <3>1 DEF AllIn
  <2>2. ~Shape("block_comment_", i, j)
    BY <1>4 DEF TokenTypes
  <2>3. Shape("byte_literal_", i, j) <=>
            /\ j >= i + 2 /\ text[j - 1] = "c"
            /\ Quoted(i, j - 1) \/ AllIn(i, j - 1, Numeric)
    BY DEF Shape
  <2>4. Shape("string_literal_", i, j) <=> Quoted(i, j)
    BY DEF Shape
  <2>. QED
    BY <2>1, <2>2, <2>3, <2>4
<1>. DEFINE closings == {j \in (i + 1)..Len(text) : text[j] = "'" /\ text[j - 1] # "\\"}
<1>6. lex_quotation(i) =
          IF closings = {} THEN NeverEnds(i)
          ELSE IF Get(Min(closings) + 1) = "c" THEN Token("byte_literal_", i, Min(closings) + 2)
          ELSE Token("string_literal_", i, Min(closings) + 1)
  <2>. DEFINE c == closings
  <2>1. lex_quotation(i) =
            CASE Get(i) # "'" -> None(i)
              [] Get(i) = "'" /\ c = {} -> NeverEnds(i)
              [] OTHER -> IF Get(Min(c) + 1) = "c" THEN Token("byte_literal_", i, Min(c) + 2)
                          ELSE Token("string_literal_", i, Min(c) + 1)
    BY DEF lex_quotation
  <2>2. Get(i) = "'"
    BY <1>1
  <2>3. closings = c
    OBVIOUS
  <2>. HIDE DEF c, closings
  <2>. QED
    BY <2>1, <2>2, <2>3
<1>7. /\ closings \subseteq Nat
      /\ \A j \in (i + 1)..Len(text) : j \in closings <=> text[j] = "'" /\ text[j - 1] # "\\"
      /\ closings \subseteq (i + 1)..Len(text)
  BY <1>1
<1>. HIDE DEF closings
<1>8. CASE closings = {}
  <2>1. ASSUME NEW j \in (i + 1)..End PROVE ~Quoted(i, j)
    <3>1. SUFFICES ASSUME Quoted(i, j) PROVE FALSE
      OBVIOUS
    <3>2. j >= i + 2 /\ text[j - 1] = "'" /\ text[(j - 1) - 1] # "\\"
      BY <1>1, <3>1 DEF Quoted
    <3>3. j - 1 \in (i + 1)..Len(text)
      BY <1>1, <3>2
    <3>. QED
      BY <1>7, <1>8, <3>2, <3>3
  <2>2. Unclosed(i)
    BY <1>5, <2>1 DEF Unclosed
  <2>. QED
    BY <1>6, <1>8, <2>2 DEF Answers, NeverEnds, Token
<1>9. CASE closings # {}
  <2>. DEFINE m == Min(closings)
  <2>1. m \in closings /\ \A k \in closings : m <= k
    BY <1>7, <1>9, MinIsLeast
  <2>. HIDE DEF m
  <2>2. /\ m \in (i + 1)..Len(text) /\ text[m] = "'" /\ text[m - 1] # "\\"
        /\ \A k \in (i + 1)..(m - 1) : text[k] = "'" => text[k - 1] = "\\"
    <3>1. m \in (i + 1)..Len(text) /\ text[m] = "'" /\ text[m - 1] # "\\"
      BY <1>7, <2>1
    <3>2. ASSUME NEW k \in (i + 1)..(m - 1), text[k] = "'" PROVE text[k - 1] = "\\"
      <4>1. k \in (i + 1)..Len(text) /\ k < m
        BY <1>1, <3>1
      <4>. QED
        BY <1>1, <1>7, <2>1, <3>1, <3>2, <4>1
    <3>. QED
      BY <3>1, <3>2
  <2>3. m + 1 \in (i + 1)..End /\ (m + 1) - 1 = m /\ (m + 1) - 2 = m - 1
    BY <1>1, <2>2
  <2>4. Quoted(i, m + 1)
    BY <1>1, <2>2, <2>3 DEF Quoted
  <2>5. ASSUME NEW j \in Int, j > m + 1 PROVE ~Quoted(i, j)
    <3>1. m \in (i + 1)..(j - 2)
      BY <1>1, <2>2, <2>5
    <3>. QED
      BY <2>2, <3>1 DEF Quoted
  <2>6. CASE Get(m + 1) = "c"
    <3>1. m + 1 \in 1..Len(text) /\ text[m + 1] = "c"
      BY <1>1, <2>2, <2>6
    <3>2. m + 2 \in (i + 1)..End /\ (m + 2) - 1 = m + 1 /\ m + 2 >= i + 2
      BY <1>1, <2>2, <3>1
    <3>3. Shape("byte_literal_", i, m + 2)
      BY <1>5, <2>4, <3>1, <3>2
    <3>4. ASSUME NEW j \in ((m + 2) + 1)..End, NEW type \in TokenTypes PROVE ~Shape(type, i, j)
      <4>1. j \in (i + 1)..End /\ j \in Int /\ j - 1 \in Int /\ j > m + 1 /\ j - 1 > m + 1
        BY <1>1, <2>2
      <4>. QED
        BY <1>4, <1>5, <2>5, <4>1
    <3>5. Answers(i, Token("byte_literal_", i, m + 2))
      BY <3>2, <3>3, <3>4, LongestAnswers DEF TokenTypes
    <3>. QED
      BY <1>6, <1>9, <2>6, <3>5 DEF m
  <2>7. CASE Get(m + 1) # "c"
    <3>1. Shape("string_literal_", i, m + 1)
      BY <1>5, <2>3, <2>4
    <3>2. ASSUME NEW j \in ((m + 1) + 1)..End, NEW type \in TokenTypes PROVE ~Shape(type, i, j)
      <4>1. j \in (i + 1)..End /\ j \in Int /\ j - 1 \in Int /\ j > m + 1
        BY <1>1, <2>2
      <4>2. j - 1 > m + 1 \/ j - 1 = m + 1
        BY <2>2, <4>1
      <4>3. j - 1 = m + 1 => Get(m + 1) = text[j - 1]
        BY <1>1, <2>2, <4>1
      <4>. QED
        BY <1>4, <1>5, <2>5, <2>7, <4>1, <4>2, <4>3
    <3>3. Answers(i, Token("string_literal_", i, m + 1))
      BY <2>3, <3>1, <3>2, LongestAnswers DEF TokenTypes
    <3>. QED
      BY <1>6, <1>9, <2>7, <3>3 DEF m
  <2>. QED
    BY <2>6, <2>7
<1>. QED
  BY <1>8, <1>9

\* Newlines and whitespace: one after another, as far as they go.
LEMMA BlankAnswers ==
    ASSUME IsText, NEW i \in 1..Len(text)
    PROVE  /\ text[i] \in Newlines => Answers(i, lex_newline(i))
           /\ text[i] \in Whitespace => Answers(i, lex_whitespace(i))
<1>1. End \in Nat /\ Len(text) \in Nat /\ End = Len(text) + 1 /\ i \in 1..End
      /\ Get(i) = text[i]
  BY TextTypes DEF End
<1>2. ASSUME NEW chars, NEW type \in {"newline_", "whitespace_"},
             "eof" \notin chars, text[i] \in chars,
             \A j \in (i + 1)..End : Shape(type, i, j) <=> AllIn(i, j, chars)
      PROVE  Answers(i, Token(type, i, After(i, chars)))
  <2>. DEFINE e == After(i, chars)
  <2>1. e \in i..End /\ Get(e) \notin chars /\ \A k \in i..(e - 1) : text[k] \in chars
    BY <1>1, <1>2, AfterStops
  <2>. HIDE DEF e
  <2>2. e \in (i + 1)..End
    BY <1>1, <1>2, <2>1
  <2>3. Shape(type, i, e)
    BY <1>2, <2>1, <2>2 DEF AllIn
  <2>4. Answers(i, Token(type, i, e))
    BY <2>2, <2>3, LongestAnswers DEF TokenTypes, Redundant
  <2>. QED
    BY <2>4 DEF e
<1>3. ASSUME text[i] \in Newlines PROVE Answers(i, lex_newline(i))
  <2>1. "eof" \notin Newlines
    BY DEF Newlines
  <2>2. \A j \in (i + 1)..End : Shape("newline_", i, j) <=> AllIn(i, j, Newlines)
    BY DEF Shape
  <2>3. Answers(i, Token("newline_", i, After(i, Newlines)))
    BY <1>2, <1>3, <2>1, <2>2
  <2>. QED
    BY <1>1, <1>3, <2>3 DEF lex_newline
<1>4. ASSUME text[i] \in Whitespace PROVE Answers(i, lex_whitespace(i))
  <2>1. "eof" \notin Whitespace
    BY DEF Newlines, Whitespace
  <2>2. \A j \in (i + 1)..End : Shape("whitespace_", i, j) <=> AllIn(i, j, Whitespace)
    BY DEF Shape
  <2>3. Answers(i, Token("whitespace_", i, After(i, Whitespace)))
    BY <1>2, <1>4, <2>1, <2>2
  <2>. QED
    BY <1>1, <1>4, <2>3 DEF lex_whitespace
<1>. QED
  BY <1>3, <1>4

\* The tokens of one character.
LEMMA SingleAnswers ==
    ASSUME IsText, NEW i \in 1..Len(text)
    PROVE  /\ text[i] = "eof" => Answers(i, lex_eof(i))
           /\ text[i] \in Scopes => Answers(i, lex_scopes(i))
           /\ text[i] = ";" => Answers(i, lex_eos(i))
           /\ text[i] = "," => Answers(i, lex_comma(i))
<1>1. End \in Nat /\ Len(text) \in Nat /\ End = Len(text) + 1 /\ i \in 1..End
      /\ Get(i) = text[i] /\ i + 1 \in (i + 1)..End
  BY TextTypes DEF End
<1>2. ASSUME NEW type \in {"eof_", "scope", "semicolon_", "comma_"}, Shape(type, i, i + 1),
             \A j \in (i + 1)..End, ty \in TokenTypes : Shape(ty, i, j) => ty = type
      PROVE  Answers(i, Token(type, i, i + 1))
  <2>1. ASSUME NEW j \in ((i + 1) + 1)..End, NEW ty \in TokenTypes PROVE ~Shape(ty, i, j)
    <3>1. j \in (i + 1)..End /\ j # i + 1
      BY <1>1
    <3>2. ~Shape(type, i, j)
      BY <1>2, <3>1 DEF Shape
    <3>. QED
      BY <1>2, <3>1, <3>2
  <2>. QED
    BY <1>1, <1>2, <2>1, LongestAnswers DEF TokenTypes
<1>3. ASSUME text[i] \in Punctuation
      PROVE  text[i] \notin Numeric \cup Whitespace \cup Newlines \cup Alphabetic \cup Keywords
                            \cup Scopes \cup DOMAIN SecondOf
  BY <1>3, CharacterClasses
<1>4. ASSUME text[i] = "eof" PROVE Answers(i, lex_eof(i))
  <2>1. \A j \in (i + 1)..End, ty \in TokenTypes : Shape(ty, i, j) => ty = "eof_"
    <3>. TAKE j \in (i + 1)..End, ty \in TokenTypes
    <3>1. SUFFICES ASSUME Shape(ty, i, j) PROVE ty = "eof_"
      OBVIOUS
    <3>2. BeginsWith(ty, text[i])
      BY <1>1, <3>1, FirstCharacter
    <3>. QED
      BY <1>3, <1>4, <3>2 DEF TokenTypes, BeginsWith, Punctuation
  <2>2. Shape("eof_", i, i + 1)
    BY <1>4 DEF Shape
  <2>3. lex_eof(i) = Token("eof_", i, i + 1)
    BY <1>1, <1>4 DEF lex_eof
  <2>. QED
    BY <1>2, <2>1, <2>2, <2>3
<1>5. ASSUME text[i] \in Scopes PROVE Answers(i, lex_scopes(i))
  <2>0. text[i] \notin Numeric \cup Whitespace \cup Newlines \cup Alphabetic \cup Keywords
                       \cup DOMAIN SecondOf \cup Punctuation
    BY <1>5, CharacterClasses
  <2>1. \A j \in (i + 1)..End, ty \in TokenTypes : Shape(ty, i, j) => ty = "scope"
    <3>. TAKE j \in (i + 1)..End, ty \in TokenTypes
    <3>1. SUFFICES ASSUME Shape(ty, i, j) PROVE ty = "scope"
      OBVIOUS
    <3>2. BeginsWith(ty, text[i])
      BY <1>1, <3>1, FirstCharacter
    <3>. QED
      BY <2>0, <3>2 DEF TokenTypes, BeginsWith, Punctuation
  <2>2. Shape("scope", i, i + 1)
    BY <1>5 DEF Shape
  <2>3. lex_scopes(i) = Token("scope", i, i + 1)
    BY <1>1, <1>5 DEF lex_scopes
  <2>. QED
    BY <1>2, <2>1, <2>2, <2>3
<1>6. ASSUME text[i] = ";" PROVE Answers(i, lex_eos(i))
  <2>1. \A j \in (i + 1)..End, ty \in TokenTypes : Shape(ty, i, j) => ty = "semicolon_"
    <3>. TAKE j \in (i + 1)..End, ty \in TokenTypes
    <3>1. SUFFICES ASSUME Shape(ty, i, j) PROVE ty = "semicolon_"
      OBVIOUS
    <3>2. BeginsWith(ty, text[i])
      BY <1>1, <3>1, FirstCharacter
    <3>. QED
      BY <1>3, <1>6, <3>2 DEF TokenTypes, BeginsWith, Punctuation
  <2>2. Shape("semicolon_", i, i + 1)
    BY <1>6 DEF Shape
  <2>3. lex_eos(i) = Token("semicolon_", i, i + 1)
    BY <1>1, <1>6 DEF lex_eos
  <2>. QED
    BY <1>2, <2>1, <2>2, <2>3
<1>7. ASSUME text[i] = "," PROVE Answers(i, lex_comma(i))
  <2>1. \A j \in (i + 1)..End, ty \in TokenTypes : Shape(ty, i, j) => ty = "comma_"
    <3>. TAKE j \in (i + 1)..End, ty \in TokenTypes
    <3>1. SUFFICES ASSUME Shape(ty, i, j) PROVE ty = "comma_"
      OBVIOUS
    <3>2. BeginsWith(ty, text[i])
      BY <1>1, <3>1, FirstCharacter
    <3>. QED
      BY <1>3, <1>7, <3>2 DEF TokenTypes, BeginsWith, Punctuation
  <2>2. Shape("comma_", i, i + 1)
    BY <1>7 DEF Shape
  <2>3. lex_comma(i) = Token("comma_", i, i + 1)
    BY <1>1, <1>7 DEF lex_comma
  <2>. QED
    BY <1>2, <2>1, <2>2, <2>3
<1>. QED
  BY <1>4, <1>5, <1>6, <1>7

\* Three periods are an ellipsis; fewer are a period each.
LEMMA PeriodAnswers ==
    ASSUME IsText, NEW i \in 1..Len(text), text[i] = "."
    PROVE  Answers(i, lex_period(i))
<1>1. End \in Nat /\ Len(text) \in Nat /\ End = Len(text) + 1 /\ i \in 1..End
      /\ Get(i) = text[i] /\ i + 1 \in (i + 1)..End
  BY TextTypes DEF End
<1>2. "." \in Punctuation /\ "." \notin {"/", "#", "eof", ";", ",", "'"}
  BY DEF Punctuation
<1>3. "." \notin Numeric \cup Whitespace \cup Newlines \cup Alphabetic \cup Keywords
                 \cup Scopes \cup DOMAIN SecondOf
  BY <1>2, CharacterClasses
<1>4. \A j \in (i + 1)..End, type \in TokenTypes : Shape(type, i, j) =>
          type \in {"ellipsis_", "period_"}
  <2>. TAKE j \in (i + 1)..End, type \in TokenTypes
  <2>1. SUFFICES ASSUME Shape(type, i, j) PROVE type \in {"ellipsis_", "period_"}
    OBVIOUS
  <2>2. BeginsWith(type, text[i])
    BY <1>1, <2>1, FirstCharacter
  <2>. QED
    BY <1>2, <1>3, <2>2 DEF TokenTypes, BeginsWith
<1>5. \A j : /\ Shape("ellipsis_", i, j) <=>
                     j = i + 3 /\ text[i] = "." /\ text[i + 1] = "." /\ text[i + 2] = "."
             /\ Shape("period_", i, j) <=> j = i + 1 /\ text[i] = "."
  BY DEF Shape
<1>6. /\ FindForward(i, <<".", ".", ".">>) <=>
             i + 3 <= End /\ text[i] = "." /\ text[i + 1] = "." /\ text[i + 2] = "."
      /\ FindForward(i, <<".", ".", ".">>) => i + 3 \in (i + 1)..End
  BY <1>1, FindForwardThree
<1>7. CASE FindForward(i, <<".", ".", ".">>)
  <2>1. lex_period(i) = Token("ellipsis_", i, i + 3)
    BY <1>7 DEF lex_period
  <2>2. Shape("ellipsis_", i, i + 3)
    BY <1>5, <1>6, <1>7
  <2>3. ASSUME NEW j \in ((i + 3) + 1)..End, NEW type \in TokenTypes PROVE ~Shape(type, i, j)
    <3>1. j \in (i + 1)..End /\ j # i + 3 /\ j # i + 1
      BY <1>1
    <3>. QED
      BY <1>4, <1>5, <3>1
  <2>. QED
    BY <1>6, <1>7, <2>1, <2>2, <2>3, LongestAnswers DEF TokenTypes
<1>8. CASE ~FindForward(i, <<".", ".", ".">>)
  <2>1. lex_period(i) = Token("period_", i, i + 1)
    BY <1>1, <1>8 DEF lex_period
  <2>2. Shape("period_", i, i + 1)
    BY <1>5
  <2>3. ASSUME NEW j \in ((i + 1) + 1)..End, NEW type \in TokenTypes PROVE ~Shape(type, i, j)
    <3>1. j \in (i + 1)..End /\ j # i + 1 /\ (j = i + 3 => i + 3 <= End)
      BY <1>1
    <3>. QED
      BY <1>4, <1>5, <1>6, <1>8, <3>1
  <2>. QED
    BY <1>1, <2>1, <2>2, <2>3, LongestAnswers DEF TokenTypes
<1>. QED
  BY <1>7, <1>8

\* An operator takes the second and the third character that it can.
LEMMA OperatorAnswers ==
    ASSUME IsText, NEW i \in 1..Len(text), text[i] \in DOMAIN SecondOf
    PROVE  Answers(i, lex_operator(i))
<1>1. /\ End \in Nat /\ Len(text) \in Nat /\ End = Len(text) + 1 /\ i \in 1..End
      /\ \A k \in 1..Len(text) : Get(k) = text[k]
      /\ \A k \in Int : Get(k) # "eof" => k \in 1..Len(text)
  BY TextTypes DEF End
<1>2. text[i] \notin Numeric \cup Whitespace \cup Newlines \cup Alphabetic \cup Keywords
                     \cup Scopes \cup Punctuation
  BY CharacterClasses
<1>3. \A j \in (i + 1)..End, type \in TokenTypes : Shape(type, i, j) =>
          type = "operator" /\ Spelled(i, j)
  <2>. TAKE j \in (i + 1)..End, type \in TokenTypes
  <2>1. Shape("operator", i, j) <=> Spelled(i, j)
    BY DEF Shape
  <2>2. Shape(type, i, j) => BeginsWith(type, text[i])
    BY <1>1, FirstCharacter
  <2>3. BeginsWith(type, text[i]) => type = "operator"
    BY <1>2 DEF TokenTypes, BeginsWith, Punctuation
  <2>. QED
    BY <2>1, <2>2, <2>3
<1>4. \A e \in (i + 1)..End : Spelled(i, e) /\ (\A j \in (e + 1)..End : ~Spelled(i, j))
                                  => Answers(i, Token("operator", i, e))
  <2>. SUFFICES ASSUME NEW e \in (i + 1)..End, Spelled(i, e),
                       \A j \in (e + 1)..End : ~Spelled(i, j)
                PROVE  Answers(i, Token("operator", i, e))
    OBVIOUS
  <2>1. Shape("operator", i, e)
    BY DEF Shape
  <2>2. \A j \in (e + 1)..End, type \in TokenTypes : ~Shape(type, i, j)
    <3>1. \A j \in (e + 1)..End : j \in (i + 1)..End
      BY <1>1
    <3>. QED
      BY <1>3, <3>1
  <2>. QED
    BY <2>1, <2>2, LongestAnswers DEF TokenTypes
<1>5. text[i] # "/"
  BY <1>2 DEF Punctuation
<1>6. /\ \A a \in DOMAIN SecondOf : "eof" \notin SecondOf[a]
      /\ \A a, b : "eof" \notin ThirdOf(a, b)
  BY DEF SecondOf, ThirdOf
<1>7. /\ Get(i + 1) \in SecondOf[text[i]] =>
             i + 1 \in 1..Len(text) /\ Get(i + 1) = text[i + 1]
      /\ Get(i + 2) \in ThirdOf(text[i], Get(i + 1)) =>
             i + 2 \in 1..Len(text) /\ Get(i + 2) = text[i + 2]
  BY <1>1, <1>6
<1>8. CASE Get(i + 1) \notin SecondOf[text[i]]
  <2>1. lex_operator(i) = Token("operator", i, i + 1)
    BY <1>1, <1>8 DEF lex_operator
  <2>2. i + 1 \in (i + 1)..End /\ Spelled(i, i + 1)
    BY <1>1 DEF Spelled, OperatorFirst
  <2>3. ASSUME NEW j \in ((i + 1) + 1)..End PROVE ~Spelled(i, j)
    <3>1. j # i + 1 /\ i + 1 \in 1..Len(text)
      BY <1>1
    <3>2. text[i + 1] \notin SecondOf[text[i]]
      BY <1>1, <1>8, <3>1
    <3>. QED
      BY <1>5, <3>1, <3>2 DEF Spelled
  <2>. QED
    BY <1>4, <2>1, <2>2, <2>3
<1>9. CASE /\ Get(i + 1) \in SecondOf[text[i]]
           /\ Get(i + 2) \in ThirdOf(text[i], Get(i + 1))
  <2>1. lex_operator(i) = Token("operator", i, i + 3)
    BY <1>1, <1>9 DEF lex_operator
  <2>2. i + 3 \in (i + 1)..End /\ Spelled(i, i + 3)
    BY <1>1, <1>7, <1>9 DEF Spelled
  <2>3. \A j \in ((i + 3) + 1)..End : ~Spelled(i, j)
    BY <1>1 DEF Spelled
  <2>. QED
    BY <1>4, <2>1, <2>2, <2>3
<1>10. CASE /\ Get(i + 1) \in SecondOf[text[i]]
            /\ Get(i + 2) \notin ThirdOf(text[i], Get(i + 1))
  <2>1. lex_operator(i) = Token("operator", i, i + 2)
    BY <1>1, <1>10 DEF lex_operator
  <2>2. i + 2 \in (i + 1)..End /\ Spelled(i, i + 2)
    BY <1>1, <1>7, <1>10 DEF Spelled
  <2>3. ASSUME NEW j \in ((i + 2) + 1)..End PROVE ~Spelled(i, j)
    <3>1. j # i + 1 /\ j # i + 2 /\ i + 2 \in 1..Len(text)
      BY <1>1
    <3>2. text[i + 2] \notin ThirdOf(text[i], text[i + 1])
      BY <1>1, <1>7, <1>10, <3>1
    <3>. QED
      BY <3>1, <3>2 DEF Spelled
  <2>. QED
    BY <1>4, <2>1, <2>2, <2>3
<1>. QED
  BY <1>8, <1>9, <1>10

\* A word goes on as long as its characters do.
LEMMA WordAnswers ==
    ASSUME IsText, NEW i \in 1..Len(text), text[i] \in Alphabetic \ Keywords
    PROVE  Answers(i, lex_alnumus(i))
<1>1. End \in Nat /\ Len(text) \in Nat /\ End = Len(text) + 1 /\ i \in 1..End
      /\ \A k \in 1..Len(text) : Get(k) = text[k]
  BY TextTypes DEF End
<1>2. text[i] \notin Numeric \cup Whitespace \cup Newlines \cup Scopes \cup DOMAIN SecondOf
                     \cup Punctuation
  BY CharacterClasses
<1>3. \A j \in (i + 1)..End, type \in TokenTypes : Shape(type, i, j) => type = "alnumus_"
  <2>. SUFFICES ASSUME NEW j \in (i + 1)..End, NEW type \in TokenTypes, Shape(type, i, j)
                PROVE  type = "alnumus_"
    OBVIOUS
  <2>1. BeginsWith(type, text[i])
    BY <1>1, FirstCharacter
  <2>2. text[i] \notin {"/", "'", "eof", "#", ";", ",", "."}
    BY <1>2 DEF Punctuation
  <2>3. text[i] \notin Keywords
    OBVIOUS
  <2>. QED
    BY <1>2, <2>1, <2>2, <2>3 DEF TokenTypes, BeginsWith
<1>4. \A j : Shape("alnumus_", i, j) <=> AllIn(i, j, Alnumus)
  BY DEF Shape
<1>. DEFINE e == After(i, Alnumus)
<1>5. e \in i..End /\ Get(e) \notin Alnumus /\ \A k \in i..(e - 1) : text[k] \in Alnumus
  BY <1>1, AfterStops, CharacterClasses
<1>6. lex_alnumus(i) = Token("alnumus_", i, e)
  BY <1>1 DEF lex_alnumus
<1>. HIDE DEF e
<1>7. e \in (i + 1)..End
  <2>1. text[i] \in Alnumus
    BY CharacterClasses
  <2>. QED
    BY <1>1, <1>5, <2>1
<1>8. Shape("alnumus_", i, e)
  BY <1>4, <1>5 DEF AllIn
<1>9. ASSUME NEW j \in (e + 1)..End, NEW type \in TokenTypes PROVE ~Shape(type, i, j)
  <2>1. j \in (i + 1)..End /\ e \in i..(j - 1) /\ Get(e) = text[e]
    BY <1>1, <1>7
  <2>. QED
    BY <1>3, <1>4, <1>5, <2>1 DEF AllIn
<1>. QED
  BY <1>6, <1>7, <1>8, <1>9, LongestAnswers DEF TokenTypes

\* A keyword, or a '#' before one.
LEMMA DirectiveAnswers ==
    ASSUME IsText, NEW i \in 1..Len(text), text[i] \in Keywords \cup {"#"}
    PROVE  Answers(i, lex_directive(i))
<1>1. /\ End \in Nat /\ Len(text) \in Nat /\ End = Len(text) + 1 /\ i \in 1..End
      /\ \A k \in 1..Len(text) : Get(k) = text[k]
      /\ \A k \in Int : Get(k) # "eof" => k \in 1..Len(text)
  BY TextTypes DEF End
<1>2. "#" \notin Keywords /\ "#" \notin Alphabetic /\ "eof" \notin Keywords
  BY CharacterClasses DEF Punctuation
<1>3. text[i] \notin Numeric \cup Whitespace \cup Newlines \cup Scopes \cup DOMAIN SecondOf
                     \cup {"/", "'", "eof", ";", ",", "."}
  BY CharacterClasses DEF Punctuation
<1>4. \A j \in (i + 1)..End, type \in TokenTypes : Shape(type, i, j) =>
          type \in {"alnumus_", "keyword"}
  <2>. TAKE j \in (i + 1)..End, type \in TokenTypes
  <2>1. SUFFICES ASSUME Shape(type, i, j) PROVE type \in {"alnumus_", "keyword"}
    OBVIOUS
  <2>2. BeginsWith(type, text[i])
    BY <1>1, <2>1, FirstCharacter
  <2>. QED
    BY <1>3, <2>2 DEF TokenTypes, BeginsWith
<1>5. \A j : /\ Shape("keyword", i, j) <=>
                    \/ j = i + 1 /\ text[i] \in Keywords
                    \/ j = i + 2 /\ text[i] = "#" /\ text[i + 1] \in Keywords
             /\ Shape("alnumus_", i, j) <=>
                    /\ text[i] \in Alphabetic /\ AllIn(i, j, Alnumus)
                    /\ ~(j = i + 1 /\ text[i] \in Keywords)
  BY DEF Shape
<1>. DEFINE at == IF text[i] = "#" THEN i + 1 ELSE i
<1>6. CASE Get(at) \notin Keywords
  <2>1. text[i] = "#" /\ Get(i + 1) \notin Keywords
    BY <1>1, <1>6
  <2>2. lex_directive(i) = Invalid(i)
    BY <1>1, <1>2, <2>1 DEF lex_directive
  <2>3. NoLexeme(i)
    <3>1. ASSUME NEW j \in (i + 1)..End PROVE ~Shape("keyword", i, j) /\ ~Shape("alnumus_", i, j)
      <4>1. j = i + 2 => Get(i + 1) = text[i + 1]
        BY <1>1
      <4>. QED
        BY <1>2, <1>5, <2>1, <4>1
    <3>. QED
      BY <1>4, <3>1 DEF NoLexeme
  <2>. QED
    BY <2>2, <2>3 DEF Answers, Invalid, Token
<1>7. CASE Get(at) \in Keywords
  <2>1. at \in 1..Len(text) /\ at \in i..(i + 1) /\ text[at] \in Keywords
    BY <1>1, <1>2, <1>7
  <2>. DEFINE e == After(at, Alus)
  <2>2. lex_directive(i) = Token("keyword", i, e)
    <3>1. text[i] = "#" => Get(i) = "#" /\ Get(i + 1) \in Keywords
      BY <1>1, <1>7
    <3>2. text[i] # "#" => Get(i) # "#" /\ Get(i) \in Keywords
      BY <1>1, <1>7
    <3>3. text[i] = "#" => lex_directive(i) = Token("keyword", i, After(i + 1, Alus))
      BY <1>2, <3>1 DEF lex_directive
    <3>4. text[i] # "#" => lex_directive(i) = Token("keyword", i, After(i, Alus))
      BY <1>2, <3>2 DEF lex_directive
    <3>. QED
      BY <3>3, <3>4
  <2>3. e \in at..End /\ Get(e) \notin Alus /\ \A k \in at..(e - 1) : text[k] \in Alus
    <3>1. at \in 1..End
      BY <1>1, <2>1
    <3>2. "eof" \notin Alus
      BY CharacterClasses
    <3>. HIDE DEF at
    <3>. QED
      BY <3>1, <3>2, AfterStops
  <2>4. e \in (at + 1)..End
    <3>1. Get(at) \in Alus
      BY <1>7, CharacterClasses
    <3>. QED
      BY <1>1, <2>1, <2>3, <3>1
  <2>. HIDE DEF e
  <2>5. e \in (i + 1)..End
    BY <1>1, <2>1, <2>4
  <2>6. text[e - 1] # "eof"
    <3>1. e - 1 \in at..(e - 1)
      BY <1>1, <2>1, <2>4
    <3>. QED
      BY <2>3, <3>1, CharacterClasses
  <2>7. CASE LongerThanKeyword(i)
    BY <2>2, <2>5, <2>6, <2>7 DEF Answers, TokenAt, Token, TokenTypes
  <2>8. CASE ~LongerThanKeyword(i)
    <3>1. Get(at + 1) \notin Alnumus
      BY <1>1, <1>7, <2>8 DEF LongerThanKeyword
    <3>2. e = at + 1
      <4>1. e > at + 1 => /\ at + 1 \in at..(e - 1) /\ at + 1 \in 1..Len(text)
                           /\ Get(at + 1) = text[at + 1]
        BY <1>1, <2>1, <2>4
      <4>2. Alus \subseteq Alnumus
        BY CharacterClasses
      <4>. QED
        <5>1. ~(e > at + 1)
          BY <2>3, <3>1, <4>1, <4>2
        <5>. QED
          BY <2>1, <2>4, <5>1
    <3>3. Shape("keyword", i, e)
      BY <1>1, <1>5, <2>1, <3>2
    <3>4. ASSUME NEW j \in (e + 1)..End, NEW type \in TokenTypes PROVE ~Shape(type, i, j)
      <4>1. j \in (i + 1)..End /\ j > at + 1 /\ at + 1 \in 1..Len(text)
        BY <1>1, <2>1, <2>5, <3>2
      <4>2. ~Shape("keyword", i, j)
        BY <1>1, <1>2, <1>5, <2>1, <4>1
      <4>3. ~Shape("alnumus_", i, j)
        <5>1. text[i] \in Alphabetic => at = i /\ i + 1 \in i..(j - 1) /\ text[i + 1] \notin Alnumus
          BY <1>1, <1>2, <3>1, <4>1
        <5>. QED
          BY <1>5, <5>1 DEF AllIn
      <4>. QED
        BY <1>4, <4>1, <4>2, <4>3
    <3>. QED
      BY <2>2, <2>5, <3>3, <3>4, LongestAnswers DEF TokenTypes
  <2>. QED
    BY <2>7, <2>8
<1>. QED
  BY <1>6, <1>7

\* A number takes its fraction or the letter behind it, and leaves an ellipsis
\* alone.
LEMMA NumberAnswers ==
    ASSUME IsText, NEW i \in 1..Len(text), text[i] \in Numeric
    PROVE  Answers(i, lex_number(i))
<1>1. /\ End \in Nat /\ Len(text) \in Nat /\ End = Len(text) + 1 /\ i \in 1..End
      /\ \A k \in 1..Len(text) : Get(k) = text[k]
      /\ \A k \in Int : Get(k) # "eof" => k \in 1..Len(text)
  BY TextTypes DEF End
<1>2. text[i] \notin Whitespace \cup Newlines \cup Alphabetic \cup Keywords \cup Scopes
                     \cup DOMAIN SecondOf \cup Punctuation
  BY CharacterClasses
<1>3. \A a \in {"u", "c", "b", ".", "eof", "'"} : a \notin Numeric
  BY DEF Numeric
<1>4. \A j \in (i + 1)..End, type \in TokenTypes : Shape(type, i, j) =>
          type \in {"byte_literal_", "bit_literal_", "unsigned_literal_",
                    "number_literal_", "real_literal_"}
  <2>. TAKE j \in (i + 1)..End, type \in TokenTypes
  <2>1. Shape(type, i, j) => BeginsWith(type, text[i])
    BY <1>1, FirstCharacter
  <2>. QED
    BY <1>2, <2>1 DEF TokenTypes, BeginsWith, Punctuation
<1>. DEFINE n == After(i, Numeric)
<1>5. lex_number(i) =
          CASE Get(i) \notin Numeric -> None(i)
            [] Get(i) = "1" /\ Get(i + 1) = "b" -> Token("bit_literal_", i, i + 2)
            [] Get(i) \in Numeric /\ Get(n) = "u" -> Token("unsigned_literal_", i, n + 1)
            [] Get(i) \in Numeric /\ Get(n) = "c" -> Token("byte_literal_", i, n + 1)
            [] Get(i) \in Numeric /\ FindForward(n, <<".", ".", ".">>) ->
                  Token("number_literal_", i, n)
            [] Get(i) \in Numeric /\ Get(n) = "." /\ ~FindForward(n, <<".", ".", ".">>) ->
                  Token("real_literal_", i, After(n + 1, Numeric))
            [] OTHER -> Token("number_literal_", i, n)
  BY DEF lex_number
<1>6. n \in i..End /\ Get(n) \notin Numeric /\ \A k \in i..(n - 1) : text[k] \in Numeric
  BY <1>1, <1>3, AfterStops
<1>. HIDE DEF n
<1>7. n \in (i + 1)..End /\ Get(i) \in Numeric /\ (n \in 1..Len(text) => Get(n) = text[n])
  BY <1>1, <1>6
<1>8. ASSUME NEW j \in i..End, AllIn(i, j, Numeric) PROVE j <= n
  <2>1. j > n => n \in i..(j - 1) /\ n \in 1..Len(text)
    BY <1>1, <1>7
  <2>. QED
    BY <1>1, <1>6, <1>7, <1>8, <2>1 DEF AllIn
<1>9. ASSUME NEW j \in (i + 1)..End, text[j - 1] \notin Numeric, AllIn(i, j - 1, Numeric)
      PROVE  j = n + 1 /\ Get(n) = text[j - 1]
  <2>1. j - 1 <= n
    BY <1>1, <1>8, <1>9
  <2>2. ~(j - 1 < n)
    <3>1. j - 1 < n => j - 1 \in i..(n - 1)
      BY <1>1, <1>7
    <3>. QED
      BY <1>6, <1>9, <3>1
  <2>3. j - 1 = n /\ n \in 1..Len(text)
    BY <1>1, <1>7, <2>1, <2>2
  <2>. QED
    BY <1>1, <1>7, <2>3
\* Where every lexeme ends that begins with the digit.
<1>10. ASSUME NEW j \in (i + 1)..End, NEW type \in TokenTypes, Shape(type, i, j)
       PROVE  \/ type = "number_literal_" /\ j <= n
              \/ type = "unsigned_literal_" /\ j = n + 1 /\ Get(n) = "u"
              \/ type = "byte_literal_" /\ j = n + 1 /\ Get(n) = "c"
              \/ type = "bit_literal_" /\ j = i + 2 /\ Get(i) = "1" /\ Get(i + 1) = "b"
              \/ /\ type = "real_literal_" /\ Get(n) = "." /\ j >= n + 1
                 /\ ~FindForward(n, <<".", ".", ".">>)
                 /\ \A k \in (n + 1)..(j - 1) : text[k] \in Numeric
  <2>1. CASE type = "number_literal_"
    <3>1. AllIn(i, j, Numeric) /\ j \in i..End
      BY <1>1, <1>10, <2>1 DEF Shape
    <3>. QED
      BY <1>8, <2>1, <3>1
  <2>2. CASE type = "unsigned_literal_"
    <3>1. text[j - 1] = "u" /\ AllIn(i, j - 1, Numeric)
      BY <1>10, <2>2 DEF Shape
    <3>. QED
      BY <1>3, <1>9, <2>2, <3>1
  <2>3. CASE type = "byte_literal_"
    <3>1. text[j - 1] = "c" /\ (Quoted(i, j - 1) \/ AllIn(i, j - 1, Numeric))
      BY <1>10, <2>3 DEF Shape
    <3>2. ~Quoted(i, j - 1)
      <4>1. text[i] # "'"
        BY <1>3
      <4>. QED
        BY <4>1 DEF Quoted
    <3>. QED
      BY <1>3, <1>9, <2>3, <3>1, <3>2
  <2>4. CASE type = "bit_literal_"
    <3>1. j = i + 2 /\ text[i] = "1" /\ text[i + 1] = "b"
      BY <1>10, <2>4 DEF Shape
    <3>. QED
      BY <1>1, <2>4, <3>1
  <2>5. CASE type = "real_literal_"
    <3>1. PICK k \in (i + 1)..(j - 1) :
              /\ text[k] = "." /\ ~FindForward(k, <<".", ".", ".">>)
              /\ \A m \in (i..(j - 1)) \ {k} : text[m] \in Numeric
      BY <1>10, <2>5 DEF Shape
    <3>2. ~(k < n)
      <4>1. k < n => k \in i..(n - 1)
        BY <1>1, <1>7
      <4>. QED
        BY <1>3, <1>6, <3>1, <4>1
    <3>3. ~(n < k)
      <4>1. n < k => n \in (i..(j - 1)) \ {k} /\ n \in 1..Len(text)
        BY <1>1, <1>7
      <4>. QED
        BY <1>6, <1>7, <3>1, <4>1
    <3>4. k = n /\ n \in 1..Len(text) /\ j >= n + 1
      BY <1>1, <1>7, <3>2, <3>3
    <3>5. \A m \in (n + 1)..(j - 1) : m \in (i..(j - 1)) \ {k}
      BY <1>1, <1>7, <3>4
    <3>. QED
      BY <1>7, <2>5, <3>1, <3>4, <3>5
  <2>. QED
    BY <1>4, <1>10, <2>1, <2>2, <2>3, <2>4, <2>5
<1>11. ASSUME NEW e \in (i + 1)..End, NEW type \in TokenTypes, Shape(type, i, e),
              \A j \in (e + 1)..End, ty \in TokenTypes : ~Shape(ty, i, j)
       PROVE  Answers(i, Token(type, i, e))
  BY <1>11, LongestAnswers
<1>12. FindForward(n, <<".", ".", ".">>) => Get(n) = "." /\ n + 1 <= End
  <2>1. n \in 1..End
    BY <1>1, <1>7
  <2>2. FindForward(n, <<".", ".", ".">>) => n + 3 <= End /\ text[n] = "."
    BY <2>1, FindForwardThree
  <2>. QED
    BY <1>1, <1>7, <2>2
<1>13. CASE Get(i) = "1" /\ Get(i + 1) = "b"
  <2>1. i + 1 \in 1..Len(text) /\ text[i + 1] = "b" /\ text[i] = "1"
    BY <1>1, <1>13
  <2>2. n = i + 1
    <3>1. n > i + 1 => i + 1 \in i..(n - 1)
      BY <1>1, <1>7
    <3>2. ~(n > i + 1)
      BY <1>3, <1>6, <2>1, <3>1
    <3>. QED
      BY <1>7, <3>2
  <2>3. Get(n) = "b"
    BY <1>13, <2>2
  <2>4. lex_number(i) = Token("bit_literal_", i, i + 2)
    BY <1>5, <1>7, <1>12, <1>13, <2>3
  <2>5. Shape("bit_literal_", i, i + 2) /\ i + 2 \in (i + 1)..End
    BY <1>1, <2>1 DEF Shape
  <2>6. ASSUME NEW j \in ((i + 2) + 1)..End, NEW type \in TokenTypes PROVE ~Shape(type, i, j)
    <3>1. j \in (i + 1)..End /\ j > i + 2 /\ ~(j <= n) /\ j # n + 1
      BY <1>1, <2>2
    <3>. QED
      BY <1>10, <2>3, <3>1
  <2>. QED
    BY <1>11, <2>4, <2>5, <2>6 DEF TokenTypes
<1>14. CASE ~(Get(i) = "1" /\ Get(i + 1) = "b") /\ Get(n) \in {"u", "c"}
  <2>. DEFINE type == IF Get(n) = "u" THEN "unsigned_literal_" ELSE "byte_literal_"
  <2>1. n \in 1..Len(text) /\ text[n] = Get(n) /\ ~FindForward(n, <<".", ".", ".">>)
    BY <1>1, <1>7, <1>12, <1>14
  <2>2. lex_number(i) = Token(type, i, n + 1)
    BY <1>5, <1>7, <1>14, <2>1
  <2>3. n + 1 \in (i + 1)..End /\ (n + 1) - 1 = n /\ n + 1 >= i + 2
    BY <1>1, <1>7, <2>1
  <2>4. Shape(type, i, n + 1)
    <3>1. AllIn(i, (n + 1) - 1, Numeric)
      BY <1>6, <2>3 DEF AllIn
    <3>2. CASE Get(n) = "u"
      BY <2>1, <2>3, <3>1, <3>2 DEF Shape
    <3>3. CASE Get(n) = "c"
      BY <2>1, <2>3, <3>1, <3>3 DEF Shape
    <3>. QED
      BY <1>14, <3>2, <3>3
  <2>5. ASSUME NEW j \in ((n + 1) + 1)..End, NEW ty \in TokenTypes PROVE ~Shape(ty, i, j)
    <3>1. j \in (i + 1)..End /\ ~(j <= n) /\ j # n + 1
      BY <1>1, <1>7
    <3>2. Get(n) # "."
      BY <1>14
    <3>. QED
      BY <1>10, <1>14, <3>1, <3>2
  <2>6. type \in TokenTypes
    BY DEF TokenTypes
  <2>. HIDE DEF type
  <2>. QED
    BY <1>11, <2>2, <2>3, <2>4, <2>5, <2>6
<1>15. CASE /\ ~(Get(i) = "1" /\ Get(i + 1) = "b")
            /\ Get(n) = "." /\ ~FindForward(n, <<".", ".", ".">>)
  <2>. DEFINE e == After(n + 1, Numeric)
  <2>1. n \in 1..Len(text) /\ text[n] = "." /\ n + 1 \in 1..End
    BY <1>1, <1>7, <1>15
  <2>2. lex_number(i) = Token("real_literal_", i, e)
    BY <1>5, <1>7, <1>15
  <2>3. /\ e \in (n + 1)..End /\ Get(e) \notin Numeric
        /\ \A k \in (n + 1)..(e - 1) : text[k] \in Numeric
    BY <1>3, <2>1, AfterStops
  <2>. HIDE DEF e
  <2>4. e \in (i + 1)..End /\ n \in (i + 1)..(e - 1)
    BY <1>1, <1>7, <2>1, <2>3
  <2>5. \A m \in (i..(e - 1)) \ {n} : text[m] \in Numeric
    <3>1. \A m \in (i..(e - 1)) \ {n} : m \in i..(n - 1) \/ m \in (n + 1)..(e - 1)
      BY <1>1, <1>7, <2>3
    <3>. QED
      BY <1>6, <2>3, <3>1
  <2>6. Shape("real_literal_", i, e)
    BY <1>15, <2>1, <2>4, <2>5 DEF Shape
  <2>7. ASSUME NEW j \in (e + 1)..End, NEW ty \in TokenTypes PROVE ~Shape(ty, i, j)
    <3>1. j \in (i + 1)..End /\ ~(j <= n) /\ j # n + 1
          /\ e \in (n + 1)..(j - 1) /\ e \in 1..Len(text)
      BY <1>1, <1>7, <2>3
    <3>2. text[e] \notin Numeric
      BY <1>1, <2>3, <3>1
    <3>. QED
      BY <1>10, <1>15, <3>1, <3>2
  <2>. QED
    BY <1>11, <2>2, <2>4, <2>6, <2>7 DEF TokenTypes
<1>16. CASE /\ ~(Get(i) = "1" /\ Get(i + 1) = "b") /\ Get(n) \notin {"u", "c"}
            /\ Get(n) = "." => FindForward(n, <<".", ".", ".">>)
  <2>1. lex_number(i) = Token("number_literal_", i, n)
    BY <1>5, <1>7, <1>12, <1>16
  <2>2. Shape("number_literal_", i, n)
    BY <1>6 DEF Shape, AllIn
  <2>3. ASSUME NEW j \in (n + 1)..End, NEW ty \in TokenTypes PROVE ~Shape(ty, i, j)
    <3>1. j \in (i + 1)..End /\ ~(j <= n)
      BY <1>1, <1>7
    <3>. QED
      BY <1>10, <1>16, <3>1
  <2>. QED
    BY <1>7, <1>11, <2>1, <2>2, <2>3 DEF TokenTypes
<1>. QED
  BY <1>13, <1>14, <1>15, <1>16

-----------------------------------------------------------------------------
(* What the first lexer that matches answers.                              *)

\* The characters at which each of the lexers matches.
Classes == <<{"/"}, {"'"}, Newlines, Whitespace, {"eof"}, Keywords \cup {"#"}, Numeric,
             Alphabetic, DOMAIN SecondOf, Scopes, {";"}, {","}, {"."}>>

\* The n-th lexer matches at the characters of the n-th class, and no others.
LEMMA MatchesClass ==
    ASSUME IsText, NEW i \in 1..Len(text)
    PROVE  \A n \in 1..13 : Lexers(i)[n].type # "none_" <=> Get(i) \in Classes[n]
<1>. DEFINE Matches(t, class) == t.type # "none_" <=> Get(i) \in class
<1>0. \A type, j : Token(type, i, j).type = type
  BY DEF Token
<1>1. Matches(lex_solidus(i), {"/"})
  <2>1. Get(i) # "/" => lex_solidus(i) = None(i)
    <3>1. i \in 1..End /\ Get(i) = text[i]
      BY TextTypes DEF End
    <3>2. /\ FindForward(i, <<"/", "/", "/">>) => Get(i) = "/"
          /\ FindForward(i, <<"/", "/">>) => Get(i) = "/"
          /\ FindForward(i, <<"/", "=">>) => Get(i) = "/"
      BY <3>1, FindForwardTwo, FindForwardThree
    <3>. QED
      BY <3>2 DEF lex_solidus
  <2>2. Get(i) = "/" => lex_solidus(i).type # "none_"
    BY DEF lex_solidus, BlockComment, LineComment, NeverEnds, Token
  <2>. QED
    BY <2>1, <2>2 DEF None, Token
<1>2. Matches(lex_quotation(i), {"'"})
  BY DEF lex_quotation, None, NeverEnds, Token
<1>3. Matches(lex_newline(i), Newlines)
  BY DEF lex_newline, None, Token
<1>4. Matches(lex_whitespace(i), Whitespace)
  BY DEF lex_whitespace, None, Token
<1>5. Matches(lex_eof(i), {"eof"})
  BY DEF lex_eof, None, Token
<1>6. Matches(lex_directive(i), Keywords \cup {"#"})
  BY DEF lex_directive, None, Invalid, Token
<1>7. Matches(lex_number(i), Numeric)
  BY DEF lex_number, None, Token, Numeric
<1>8. Matches(lex_alnumus(i), Alphabetic)
  BY DEF lex_alnumus, None, Token
<1>9. Matches(lex_operator(i), DOMAIN SecondOf)
  BY DEF lex_operator, None, Token
<1>10. Matches(lex_scopes(i), Scopes)
  BY DEF lex_scopes, None, Token
<1>11. Matches(lex_eos(i), {";"})
  BY DEF lex_eos, None, Token
<1>12. Matches(lex_comma(i), {","})
  BY DEF lex_comma, None, Token
<1>13. Matches(lex_period(i), {"."})
  <2>1. i \in 1..End /\ Get(i) = text[i]
    BY TextTypes DEF End
  <2>2. FindForward(i, <<".", ".", ".">>) => Get(i) = "."
    BY <2>1, FindForwardThree
  <2>. QED
    BY <2>2 DEF lex_period, None, Token
<1>14. /\ Lexers(i)[1] = lex_solidus(i) /\ Lexers(i)[2] = lex_quotation(i)
       /\ Lexers(i)[3] = lex_newline(i) /\ Lexers(i)[4] = lex_whitespace(i)
       /\ Lexers(i)[5] = lex_eof(i) /\ Lexers(i)[6] = lex_directive(i)
       /\ Lexers(i)[7] = lex_number(i) /\ Lexers(i)[8] = lex_alnumus(i)
       /\ Lexers(i)[9] = lex_operator(i) /\ Lexers(i)[10] = lex_scopes(i)
       /\ Lexers(i)[11] = lex_eos(i) /\ Lexers(i)[12] = lex_comma(i)
       /\ Lexers(i)[13] = lex_period(i)
  BY DEF Lexers
<1>15. /\ Classes[1] = {"/"} /\ Classes[2] = {"'"} /\ Classes[3] = Newlines
       /\ Classes[4] = Whitespace /\ Classes[5] = {"eof"} /\ Classes[6] = Keywords \cup {"#"}
       /\ Classes[7] = Numeric /\ Classes[8] = Alphabetic /\ Classes[9] = DOMAIN SecondOf
       /\ Classes[10] = Scopes /\ Classes[11] = {";"} /\ Classes[12] = {","}
       /\ Classes[13] = {"."}
  BY DEF Classes
<1>. HIDE DEF Matches
<1>16. ASSUME NEW n \in 1..13 PROVE Matches(Lexers(i)[n], Classes[n])
  <2>1. CASE n = 1
    BY <1>1, <1>14, <1>15, <2>1
  <2>2. CASE n = 2
    BY <1>2, <1>14, <1>15, <2>2
  <2>3. CASE n = 3
    BY <1>3, <1>14, <1>15, <2>3
  <2>4. CASE n = 4
    BY <1>4, <1>14, <1>15, <2>4
  <2>5. CASE n = 5
    BY <1>5, <1>14, <1>15, <2>5
  <2>6. CASE n = 6
    BY <1>6, <1>14, <1>15, <2>6
  <2>7. CASE n = 7
    BY <1>7, <1>14, <1>15, <2>7
  <2>8. CASE n = 8
    BY <1>8, <1>14, <1>15, <2>8
  <2>9. CASE n = 9
    BY <1>9, <1>14, <1>15, <2>9
  <2>10. CASE n = 10
    BY <1>10, <1>14, <1>15, <2>10
  <2>11. CASE n = 11
    BY <1>11, <1>14, <1>15, <2>11
  <2>12. CASE n = 12
    BY <1>12, <1>14, <1>15, <2>12
  <2>13. CASE n = 13
    BY <1>13, <1>14, <1>15, <2>13
  <2>. QED
    BY <2>1, <2>2, <2>3, <2>4, <2>5, <2>6, <2>7, <2>8, <2>9, <2>10, <2>11, <2>12, <2>13
<1>. QED
  BY <1>16 DEF Matches

\* The first lexer to match answers; where none does there is no lexeme.
LEMMA FirstAnswers ==
    ASSUME IsText, NEW i \in 1..Len(text), NEW n \in 1..13, Get(i) \in Classes[n],
           \A m \in 1..(n - 1) : Get(i) \notin Classes[m]
    PROVE  Answers(i, Lexers(i)[n])
<1>1. Get(i) = text[i]
  BY TextTypes
<1>2. /\ Classes[1] = {"/"} /\ Classes[2] = {"'"} /\ Classes[3] = Newlines
      /\ Classes[4] = Whitespace /\ Classes[5] = {"eof"} /\ Classes[6] = Keywords \cup {"#"}
      /\ Classes[7] = Numeric /\ Classes[8] = Alphabetic /\ Classes[9] = DOMAIN SecondOf
      /\ Classes[10] = Scopes /\ Classes[11] = {";"} /\ Classes[12] = {","}
      /\ Classes[13] = {"."}
  BY DEF Classes
<1>3. CASE n = 1
  BY <1>1, <1>2, <1>3, SolidusAnswers DEF Lexers
<1>4. CASE n = 2
  BY <1>1, <1>2, <1>4, QuotationAnswers DEF Lexers
<1>5. CASE n = 3
  BY <1>1, <1>2, <1>5, BlankAnswers DEF Lexers
<1>6. CASE n = 4
  BY <1>1, <1>2, <1>6, BlankAnswers DEF Lexers
<1>7. CASE n = 5
  BY <1>1, <1>2, <1>7, SingleAnswers DEF Lexers
<1>8. CASE n = 6
  BY <1>1, <1>2, <1>8, DirectiveAnswers DEF Lexers
<1>9. CASE n = 7
  BY <1>1, <1>2, <1>9, NumberAnswers DEF Lexers
<1>10. CASE n = 8
  <2>1. 6 \in 1..(n - 1)
    BY <1>10
  <2>2. text[i] \in Alphabetic \ Keywords
    BY <1>1, <1>2, <1>10, <2>1
  <2>. QED
    BY <1>10, <2>2, WordAnswers DEF Lexers
<1>11. CASE n = 9
  BY <1>1, <1>2, <1>11, OperatorAnswers DEF Lexers
<1>12. CASE n = 10
  BY <1>1, <1>2, <1>12, SingleAnswers DEF Lexers
<1>13. CASE n = 11
  BY <1>1, <1>2, <1>13, SingleAnswers DEF Lexers
<1>14. CASE n = 12
  BY <1>1, <1>2, <1>14, SingleAnswers DEF Lexers
<1>15. CASE n = 13
  BY <1>1, <1>2, <1>15, PeriodAnswers DEF Lexers
<1>. QED
  BY <1>3, <1>4, <1>5, <1>6, <1>7, <1>8, <1>9, <1>10, <1>11, <1>12, <1>13, <1>14, <1>15

\* What tokenize takes from its lexers is right wherever the cursor is, though
\* they are tried in a fixed order.
LEMMA LexedAnswers ==
    ASSUME IsText, it \in 1..Len(text)
    PROVE  /\ Answers(it, Lexed)
           /\ Lexed.type \in TokenTypes \cup {"none_", "invalid_", "never_ends"}
<1>. SUFFICES Answers(it, Lexed)
  BY DEF Answers, TokenAt
<1>. DEFINE tried   == Lexers(it)
            matched == {n \in DOMAIN tried : tried[n].type # "none_"}
<1>1. Lexed = IF matched = {} THEN None(it) ELSE tried[Min(matched)]
  BY DEF Lexed
<1>2. DOMAIN tried = 1..13
  BY DEF Lexers
<1>3. \A n \in 1..13 : n \in matched <=> Get(it) \in Classes[n]
  BY <1>2, MatchesClass
<1>4. matched \subseteq 1..13 /\ matched \subseteq Nat
  BY <1>2
<1>. HIDE DEF matched
<1>5. CASE matched # {}
  <2>. DEFINE n == Min(matched)
  <2>1. n \in matched /\ \A m \in matched : n <= m
    BY <1>4, <1>5, MinIsLeast
  <2>. HIDE DEF n
  <2>2. n \in 1..13 /\ Get(it) \in Classes[n]
    BY <1>3, <1>4, <2>1
  <2>3. \A m \in 1..(n - 1) : Get(it) \notin Classes[m]
    <3>1. \A m \in 1..(n - 1) : m \in 1..13 /\ ~(n <= m)
      BY <2>2
    <3>. QED
      BY <1>3, <2>1, <3>1
  <2>4. Answers(it, Lexers(it)[n])
    BY <2>2, <2>3, FirstAnswers
  <2>. QED
    BY <1>1, <1>5, <2>4 DEF n
<1>6. CASE matched = {}
  <2>1. \A n \in 1..13 : Get(it) \notin Classes[n]
    BY <1>3, <1>6
  <2>2. Get(it) = text[it] /\ it \in 1..End
    BY TextTypes DEF End
  <2>3. text[it] \notin {"/", "'", "eof", "#", ";", ",", "."} \cup Newlines \cup Whitespace
                        \cup Keywords \cup Numeric \cup Alphabetic \cup DOMAIN SecondOf \cup Scopes
    <3>1. /\ Classes[1] = {"/"} /\ Classes[2] = {"'"} /\ Classes[3] = Newlines
          /\ Classes[4] = Whitespace /\ Classes[5] = {"eof"} /\ Classes[6] = Keywords \cup {"#"}
          /\ Classes[7] = Numeric /\ Classes[8] = Alphabetic /\ Classes[9] = DOMAIN SecondOf
          /\ Classes[10] = Scopes /\ Classes[11] = {";"} /\ Classes[12] = {","}
          /\ Classes[13] = {"."}
      BY DEF Classes
    <3>2. /\ Get(it) \notin Classes[1] /\ Get(it) \notin Classes[2] /\ Get(it) \notin Classes[3]
          /\ Get(it) \notin Classes[4] /\ Get(it) \notin Classes[5] /\ Get(it) \notin Classes[6]
          /\ Get(it) \notin Classes[7] /\ Get(it) \notin Classes[8] /\ Get(it) \notin Classes[9]
          /\ Get(it) \notin Classes[10] /\ Get(it) \notin Classes[11]
          /\ Get(it) \notin Classes[12] /\ Get(it) \notin Classes[13]
      BY <2>1
    <3>. QED
      BY <2>2, <3>1, <3>2
  <2>4. NoLexeme(it)
    <3>1. SUFFICES ASSUME NEW j \in (it + 1)..End, NEW type \in TokenTypes, Shape(type, it, j)
                   PROVE  FALSE
      BY DEF NoLexeme
    <3>2. BeginsWith(type, text[it])
      BY <2>2, <3>1, FirstCharacter
    <3>. QED
      BY <2>3, <3>2 DEF TokenTypes, BeginsWith
  <2>. QED
    BY <1>1, <1>6, <2>4 DEF Answers, None, Token
<1>. QED
  BY <1>5, <1>6

-----------------------------------------------------------------------------
(* The tokens without meaning are dropped.                                 *)

\* What the loop of Sanitize pushes: every token with a meaning, no other, and
\* the last one stays the last.
LEMMA SanitizedKeeps ==
    ASSUME NEW S, NEW tokens \in Seq(S)
    PROVE  /\ Sanitized(tokens) \in Seq(S)
           /\ \A k \in 1..Len(Sanitized(tokens)) : \E m \in 1..Len(tokens) :
                  Sanitized(tokens)[k] = tokens[m]
           /\ \A m \in 1..Len(tokens) : tokens[m].type \notin Redundant =>
                  \E k \in 1..Len(Sanitized(tokens)) : Sanitized(tokens)[k] = tokens[m]
           /\ tokens # <<>> /\ Last(tokens).type \notin Redundant =>
                  /\ Sanitized(tokens) # <<>>
                  /\ Last(Sanitized(tokens)) = Last(tokens)
<1>. DEFINE L == Len(tokens)
            pushed(f, k) == IF k = 0 THEN <<>>
                            ELSE IF tokens[k].type \in Redundant THEN f[k - 1]
                            ELSE Append(f[k - 1], tokens[k])
            is(f, n) == f = [k \in 0..n |-> pushed(f, k)]
            T == {n \in 0..L : \E f : is(f, n)}
<1>1. L \in Nat /\ \A n \in 1..L : tokens[n] \in S
  BY ElementOfSeq
<1>2. 0 \in T
  <2>1. is([k \in 0..0 |-> <<>>], 0)
    OBVIOUS
  <2>2. \E f : is(f, 0)
    BY <2>1
  <2>. QED
    BY <1>1, <2>2
<1>3. ASSUME NEW n \in 1..L, n - 1 \in T PROVE n \in T
  <2>1. PICK f : is(f, n - 1)
    BY <1>3
  <2>. DEFINE g == [k \in 0..n |-> IF k = n THEN pushed(f, n) ELSE f[k]]
  <2>2. \A k \in 0..n : g[k] = pushed(g, k)
    <3>1. \A k \in 1..n : g[k - 1] = f[k - 1]
      OBVIOUS
    <3>2. \A k \in 0..(n - 1) : f[k] = pushed(f, k)
      BY <2>1
    <3>. QED
      BY <3>1, <3>2
  <2>3. is(g, n)
    <3>. HIDE DEF pushed
    <3>. QED
      BY <2>2
  <2>. HIDE DEF g, is
  <2>4. (\E h : is(h, n)) /\ n \in 0..L
    BY <1>1, <2>3
  <2>. QED
    BY <2>4
<1>4. \E f : is(f, L)
  <2>. HIDE DEF T
  <2>1. 0..L \subseteq T
    BY <1>1, <1>2, <1>3, InductionUpTo
  <2>. QED
    BY <1>1, <2>1 DEF T
<1>5. PICK o : is(o, L) /\ Sanitized(tokens) = o[L]
  <2>. DEFINE new_output == CHOOSE f : is(f, L)
  <2>1. is(new_output, L)
    BY <1>4
  <2>2. Sanitized(tokens) = new_output[L]
    BY DEF Sanitized
  <2>. QED
    BY <2>1, <2>2
<1>6. /\ o[0] = <<>>
      /\ \A n \in 1..L : o[n] = IF tokens[n].type \in Redundant THEN o[n - 1]
                                ELSE Append(o[n - 1], tokens[n])
  <2>1. \A n \in 0..L : o[n] = pushed(o, n)
    BY <1>5
  <2>. QED
    BY <1>1, <2>1
<1>. HIDE DEF is
<1>. DEFINE holds(n) ==
              /\ o[n] \in Seq(S)
              /\ \A k \in 1..Len(o[n]) : \E m \in 1..n : o[n][k] = tokens[m]
              /\ \A m \in 1..n : tokens[m].type \notin Redundant =>
                    \E k \in 1..Len(o[n]) : o[n][k] = tokens[m]
            H == {n \in 0..L : holds(n)}
<1>7. 0 \in H
  <2>1. o[0] = <<>> /\ <<>> \in Seq(S) /\ Len(<<>>) = 0
    BY <1>6
  <2>2. holds(0)
    BY <2>1
  <2>. HIDE DEF holds
  <2>. QED
    BY <1>1, <2>2
<1>8. ASSUME NEW n \in 1..L, n - 1 \in H PROVE n \in H
  <2>1. /\ o[n - 1] \in Seq(S) /\ tokens[n] \in S /\ Len(o[n - 1]) \in Nat
        /\ \A k \in 1..Len(o[n - 1]) : \E m \in 1..(n - 1) : o[n - 1][k] = tokens[m]
        /\ \A m \in 1..(n - 1) : tokens[m].type \notin Redundant =>
              \E k \in 1..Len(o[n - 1]) : o[n - 1][k] = tokens[m]
    BY <1>1, <1>8
  <2>. SUFFICES holds(n)
    <3>. HIDE DEF holds
    <3>. QED
      BY <1>1
  <2>2. CASE tokens[n].type \in Redundant
    <3>1. o[n] = o[n - 1]
      BY <1>6, <2>2
    <3>. QED
      BY <2>1, <2>2, <3>1
  <2>3. CASE tokens[n].type \notin Redundant
    <3>1. o[n] = Append(o[n - 1], tokens[n])
      BY <1>6, <2>3
    <3>2. /\ o[n] \in Seq(S) /\ Len(o[n]) = Len(o[n - 1]) + 1
          /\ o[n][Len(o[n - 1]) + 1] = tokens[n]
          /\ \A k \in 1..Len(o[n - 1]) : o[n][k] = o[n - 1][k]
      BY <2>1, <3>1, AppendProperties
    <3>3. \A k \in 1..Len(o[n]) : k \in 1..Len(o[n - 1]) \/ k = Len(o[n - 1]) + 1
      BY <2>1, <3>2
    <3>4. \A k \in 1..Len(o[n]) : \E m \in 1..n : o[n][k] = tokens[m]
      BY <2>1, <3>2, <3>3
    <3>5. \A m \in 1..n : tokens[m].type \notin Redundant =>
              \E k \in 1..Len(o[n]) : o[n][k] = tokens[m]
      BY <2>1, <3>2
    <3>. QED
      BY <3>2, <3>4, <3>5
  <2>. QED
    BY <2>2, <2>3
<1>9. holds(L)
  <2>. HIDE DEF H
  <2>1. 0..L \subseteq H
    BY <1>1, <1>7, <1>8, InductionUpTo
  <2>. QED
    BY <1>1, <2>1 DEF H
<1>10. ASSUME tokens # <<>>, Last(tokens).type \notin Redundant
       PROVE  Sanitized(tokens) # <<>> /\ Last(Sanitized(tokens)) = Last(tokens)
  <2>1. L \in 1..L /\ Last(tokens) = tokens[L]
    BY <1>1, <1>10, EmptySeq DEF Last
  <2>2. o[L] = Append(o[L - 1], tokens[L])
    BY <1>6, <1>10, <2>1
  <2>3. L - 1 \in H
    <3>. HIDE DEF H
    <3>1. 0..L \subseteq H
      BY <1>1, <1>7, <1>8, InductionUpTo
    <3>. QED
      BY <2>1, <3>1
  <2>4. o[L - 1] \in Seq(S) /\ tokens[L] \in S
    BY <1>1, <2>1, <2>3
  <2>5. /\ Len(o[L]) = Len(o[L - 1]) + 1 /\ Len(o[L - 1]) \in Nat
        /\ o[L][Len(o[L - 1]) + 1] = tokens[L]
    BY <2>2, <2>4, AppendProperties
  <2>. QED
    BY <1>5, <2>1, <2>5 DEF Last
<1>. QED
  BY <1>5, <1>9, <1>10

-----------------------------------------------------------------------------
(* The inductive invariant.                                                *)

\* The ways a call can stand, and the tokens of the text.
States == {"lex", "done", "empty_input", "mixed_syntax", "invalid_directive",
           "invalid_character", "never_ends"}
Tokens == [type : TokenTypes, begin : 1..End, end : 1..End]

\* Every token in the output is one that a lexer answers where it begins.
TokensAnswered ==
    /\ output \in Seq(Tokens)
    /\ \A k \in 1..Len(output) :
          output[k].begin \in 1..Len(text) /\ TokenAt(output[k].begin, output[k])

\* The switch says what the keywords of the output are, once there is one.
SwitchAgrees ==
    /\ syntax \in {"none", "directive", "keyword"}
    /\ \A k \in 1..Len(output) : IsKeyword(output[k]) => syntax = SyntaxOf(output[k])
    /\ syntax # "none" =>
          \E k \in 1..Len(output) : IsKeyword(output[k]) /\ syntax = SyntaxOf(output[k])

\* A call refused for its keywords stands at one that disagrees with another.
RefusedForKeyword ==
    pc = "mixed_syntax" =>
        \E k \in 1..Len(output) :
            /\ IsKeyword(output[k])
            /\ HasHash(output[k]) <=> text[it] # "#"
            /\ text[it] \in Reserved \cup {"#"}

\* A call that failed stands where no lexeme begins, or none that is closed.
StandsAtFailure ==
    /\ pc # "lex" /\ pc # "done" /\ pc # "empty_input" => it \in 1..Len(text)
    /\ pc \in {"invalid_character", "invalid_directive"} => NoLexeme(it)
    /\ pc = "never_ends" => Unclosed(it)

\* When the text is used up, its last token is the one of its last character.
EofIsLast ==
    /\ pc = "lex" => text # <<>>
    /\ pc = "done" => it = End
    /\ pc \in {"lex", "done"} /\ it = End /\ text[Len(text)] = "eof" =>
          output # <<>> /\ Last(output).type = "eof_"

\* The invariant: the text, and all of the above.
TokenizerInv ==
    /\ IsText /\ it \in 1..End /\ pc \in States
    /\ TokensAnswered /\ SwitchAgrees /\ RefusedForKeyword /\ StandsAtFailure /\ EofIsLast

\* What is said of the text alone stays true while the text stays.
LEMMA SameText ==
    ASSUME text' = text
    PROVE  /\ IsText' <=> IsText
           /\ End' = End
           /\ \A i, t : TokenAt(i, t)' <=> TokenAt(i, t)
           /\ \A i : (NoLexeme(i)' <=> NoLexeme(i)) /\ (Unclosed(i)' <=> Unclosed(i))
           /\ \A t : (IsKeyword(t)' <=> IsKeyword(t)) /\ SyntaxOf(t)' = SyntaxOf(t)
           /\ \A t : HasHash(t)' <=> HasHash(t)
<1>1. End' = End /\ \A i : Get(i)' = Get(i)
  BY DEF End, Get
<1>2. \A i, chars : FindForward(i, chars)' <=> FindForward(i, chars)
  BY <1>1 DEF FindForward
<1>3. \A i, j, chars : AllIn(i, j, chars)' <=> AllIn(i, j, chars)
  BY DEF AllIn
<1>4. \A i, j : Quoted(i, j)' <=> Quoted(i, j)
  BY DEF Quoted
<1>5. \A i : Solidus(i)' <=> Solidus(i)
  BY DEF Solidus
<1>6. \A i, j : Spelled(i, j)' <=> Spelled(i, j)
  BY DEF Spelled
<1>7. \A i, j : \A type \in TokenTypes : Shape(type, i, j)' <=> Shape(type, i, j)
  BY <1>1, <1>2, <1>3, <1>4, <1>5, <1>6 DEF Shape, TokenTypes
<1>8. \A i : LongerThanKeyword(i)' <=> LongerThanKeyword(i)
  BY <1>1 DEF LongerThanKeyword
<1>9. \A i, t : t.type \in TokenTypes => (Longest(i, t)' <=> Longest(i, t))
  BY <1>1, <1>7 DEF Longest
<1>10. \A i, t : TokenAt(i, t)' <=> TokenAt(i, t)
  BY <1>1, <1>8, <1>9 DEF TokenAt
<1>11. \A i : NoLexeme(i)' <=> NoLexeme(i)
  BY <1>1, <1>7 DEF NoLexeme
<1>12. \A i : Unclosed(i)' <=> Unclosed(i)
  <2>1. "string_literal_" \in TokenTypes /\ "block_comment_" \in TokenTypes
    BY DEF TokenTypes
  <2>. QED
    BY <1>1, <1>2, <1>7, <2>1 DEF Unclosed
<1>13. /\ \A t : HasHash(t)' <=> HasHash(t)
       /\ \A t : (IsKeyword(t)' <=> IsKeyword(t)) /\ SyntaxOf(t)' = SyntaxOf(t)
  BY DEF HasHash, IsKeyword, SyntaxOf
<1>14. IsText' <=> IsText
  BY DEF IsText
<1>. QED
  BY <1>1, <1>10, <1>11, <1>12, <1>13, <1>14

\* What the lexers answer at the cursor of a call that goes on.
LEMMA AtCursor ==
    ASSUME TokenizerInv, pc = "lex", it # End
    PROVE  /\ it \in 1..Len(text)
           /\ Lexed.type \in TokenTypes => TokenAt(it, Lexed) /\ Lexed \in Tokens
           /\ Lexed.type \in {"none_", "invalid_"} => NoLexeme(it)
           /\ Lexed.type = "never_ends" => Unclosed(it)
<1>1. IsText /\ it \in 1..End
  BY DEF TokenizerInv
<1>2. Len(text) \in Nat /\ End = Len(text) + 1
  BY <1>1, TextTypes DEF End
<1>3. it \in 1..Len(text)
  BY <1>1, <1>2
<1>4. Answers(it, Lexed)
  BY <1>1, <1>3, LexedAnswers
<1>5. {"none_", "invalid_", "never_ends"} \cap TokenTypes = {}
  BY DEF TokenTypes
<1>6. Lexed.type \in TokenTypes => TokenAt(it, Lexed)
  BY <1>4, <1>5 DEF Answers
<1>7. Lexed.type \in TokenTypes => Lexed \in Tokens
  <2>1. SUFFICES ASSUME TokenAt(it, Lexed) PROVE Lexed \in Tokens
    BY <1>6
  <2>2. Lexed.type \in TokenTypes /\ Lexed.begin \in 1..End /\ Lexed.end \in 1..End
    BY <1>1, <1>2, <2>1 DEF TokenAt
  <2>. QED
    BY <2>1, <2>2 DEF TokenAt, Tokens
<1>8. Lexed.type \in {"none_", "invalid_"} => NoLexeme(it)
  BY <1>4, <1>5 DEF Answers, TokenAt
<1>9. Lexed.type = "never_ends" => Unclosed(it)
  BY <1>4, <1>5 DEF Answers, TokenAt
<1>. QED
  BY <1>3, <1>6, <1>7, <1>8, <1>9

\* It holds before the first token.
LEMMA InvInit == TokenizerInit => TokenizerInv
<1>. SUFFICES ASSUME TokenizerInit PROVE TokenizerInv
  OBVIOUS
<1>1. IsText
  BY TextsAssumption DEF TokenizerInit, IsText, Chars
<1>2. Len(text) \in Nat /\ End = Len(text) + 1
  BY <1>1, TextTypes DEF End
<1>3. /\ it = 1 /\ output = <<>> /\ syntax = "none"
      /\ pc = IF text = <<>> THEN "empty_input" ELSE "lex"
  BY DEF TokenizerInit
<1>4. it \in 1..End /\ pc \in States
  BY <1>2, <1>3 DEF States
<1>5. output \in Seq(Tokens) /\ Len(output) = 0
  BY <1>3
<1>6. TokensAnswered /\ SwitchAgrees /\ RefusedForKeyword /\ StandsAtFailure
  BY <1>3, <1>5 DEF TokensAnswered, SwitchAgrees, RefusedForKeyword, StandsAtFailure
<1>7. EofIsLast
  <2>1. pc = "lex" => text # <<>>
    BY <1>3
  <2>2. text # <<>> => it # End
    BY <1>1, <1>2, <1>3, EmptySeq DEF IsText
  <2>3. pc # "done"
    BY <1>3
  <2>. QED
    BY <2>1, <2>2, <2>3 DEF EofIsLast
<1>. QED
  BY <1>1, <1>4, <1>6, <1>7 DEF TokenizerInv

\* A token is put in the output.
LEMMA InvEmplace == TokenizerInv /\ Emplace => TokenizerInv'
<1>. SUFFICES ASSUME TokenizerInv, Emplace PROVE TokenizerInv'
  OBVIOUS
<1>. DEFINE t == Lexed
            n == Len(output)
<1>1. /\ text' = text /\ pc' = pc /\ pc = "lex" /\ it # End
      /\ output' = Append(output, t) /\ it' = t.end /\ syntax' = SwappedBy(t)
      /\ t.type \in TokenTypes /\ ~MixesSyntax(t)
  BY DEF Emplace
<1>2. it \in 1..Len(text) /\ TokenAt(it, t) /\ t \in Tokens
  BY <1>1, AtCursor
<1>3. IsText /\ TokensAnswered /\ SwitchAgrees /\ EofIsLast
  BY DEF TokenizerInv
<1>4. Len(text) \in Nat /\ End = Len(text) + 1
  BY <1>3, TextTypes DEF End
<1>. HIDE DEF t
<1>5. /\ output' \in Seq(Tokens) /\ Len(output') = n + 1 /\ n \in Nat
      /\ output'[n + 1] = t /\ \A k \in 1..n : output'[k] = output[k]
  BY <1>1, <1>2, <1>3, AppendProperties DEF TokensAnswered
<1>6. t.begin = it /\ t.end \in (it + 1)..End /\ (text[t.end - 1] = "eof" => t.type = "eof_")
  BY <1>2 DEF TokenAt
<1>7. \A k \in 1..(n + 1) : k \in 1..n \/ k = n + 1
  BY <1>5
<1>8. IsText' /\ End' = End /\ it' \in 1..End' /\ pc' \in States
  BY <1>1, <1>2, <1>3, <1>4, <1>6, SameText DEF States
<1>9. TokensAnswered'
  <2>1. output' \in Seq(Tokens')
    BY <1>5, <1>8 DEF Tokens
  <2>2. ASSUME NEW k \in 1..Len(output')
        PROVE  (output[k].begin \in 1..Len(text) /\ TokenAt(output[k].begin, output[k]))'
    <3>. DEFINE o == output'[k]
    <3>1. o.begin \in 1..Len(text) /\ TokenAt(o.begin, o)
      <4>1. CASE k \in 1..n
        <5>1. o = output[k]
          BY <1>5, <4>1
        <5>. QED
          BY <1>3, <4>1, <5>1 DEF TokensAnswered
      <4>2. CASE k = n + 1
        <5>1. o = t
          BY <1>5, <4>2
        <5>. QED
          BY <1>2, <1>6, <5>1
      <4>. QED
        BY <1>5, <1>7, <2>2, <4>1, <4>2
    <3>2. TokenAt(output[k].begin, output[k])' <=> TokenAt(o.begin, o)
      BY <1>1, SameText
    <3>. QED
      BY <1>1, <3>1, <3>2
  <2>. QED
    BY <2>1, <2>2 DEF TokensAnswered
<1>10. SwitchAgrees'
  <2>1. \A s : (IsKeyword(s)' <=> IsKeyword(s)) /\ SyntaxOf(s)' = SyntaxOf(s)
    BY <1>1, SameText
  <2>2. /\ syntax' \in {"none", "directive", "keyword"}
        /\ IsKeyword(t) => syntax' = SyntaxOf(t)
        /\ syntax # "none" => syntax' = syntax
        /\ ~IsKeyword(t) => syntax' = syntax
    BY <1>1, <1>3 DEF SwappedBy, MixesSyntax, SyntaxOf, SwitchAgrees
  <2>3. ASSUME NEW k \in 1..(n + 1), IsKeyword(output'[k])
        PROVE  syntax' = SyntaxOf(output'[k])
    <3>1. CASE k \in 1..n
      <4>0. output'[k] = output[k]
        BY <1>5, <3>1
      <4>1. IsKeyword(output[k]) /\ syntax = SyntaxOf(output[k])
        BY <1>3, <2>3, <3>1, <4>0 DEF SwitchAgrees
      <4>2. syntax # "none"
        BY <4>1 DEF SyntaxOf
      <4>. QED
        BY <2>2, <4>0, <4>1, <4>2
    <3>2. CASE k = n + 1
      <4>1. output'[k] = t
        BY <1>5, <3>2
      <4>. QED
        BY <2>2, <2>3, <4>1
    <3>. QED
      BY <1>7, <3>1, <3>2
  <2>4. ASSUME syntax' # "none"
        PROVE  \E k \in 1..(n + 1) : IsKeyword(output'[k]) /\ syntax' = SyntaxOf(output'[k])
    <3>1. CASE IsKeyword(t)
      BY <1>5, <2>2, <3>1
    <3>2. CASE ~IsKeyword(t)
      <4>1. PICK k \in 1..n : IsKeyword(output[k]) /\ syntax = SyntaxOf(output[k])
        BY <1>3, <2>2, <2>4, <3>2 DEF SwitchAgrees
      <4>2. k \in 1..(n + 1) /\ output'[k] = output[k]
        BY <1>5
      <4>. QED
        BY <2>2, <3>2, <4>1, <4>2
    <3>. QED
      BY <3>1, <3>2
  <2>. QED
    BY <1>5, <2>1, <2>2, <2>3, <2>4 DEF SwitchAgrees
<1>11. RefusedForKeyword' /\ StandsAtFailure'
  BY <1>1 DEF RefusedForKeyword, StandsAtFailure
<1>12. EofIsLast'
  <2>1. output' # <<>> /\ Last(output') = t
    BY <1>5 DEF Last
  <2>2. text # <<>>
    BY <1>1, <1>3 DEF EofIsLast
  <2>3. it' = End' /\ text'[Len(text')] = "eof" => t.type = "eof_"
    BY <1>1, <1>4, <1>6, <1>8
  <2>. QED
    BY <1>1, <2>1, <2>2, <2>3 DEF EofIsLast
<1>. QED
  BY <1>8, <1>9, <1>10, <1>11, <1>12 DEF TokenizerInv

\* The tokens without meaning leave the output; no keyword is among them.
LEMMA InvSanitize == TokenizerInv /\ Sanitize => TokenizerInv'
<1>. SUFFICES ASSUME TokenizerInv, Sanitize PROVE TokenizerInv'
  OBVIOUS
<1>1. /\ text' = text /\ it' = it /\ syntax' = syntax /\ pc' = "done"
      /\ pc = "lex" /\ it = End /\ output' = Sanitized(output)
  BY DEF Sanitize
<1>2. IsText /\ it \in 1..End /\ TokensAnswered /\ SwitchAgrees /\ EofIsLast
  BY DEF TokenizerInv
<1>3. output \in Seq(Tokens)
  BY <1>2 DEF TokensAnswered
<1>. DEFINE o == output'
<1>4. /\ o \in Seq(Tokens)
      /\ \A k \in 1..Len(o) : \E m \in 1..Len(output) : o[k] = output[m]
      /\ \A m \in 1..Len(output) : output[m].type \notin Redundant =>
            \E k \in 1..Len(o) : o[k] = output[m]
      /\ output # <<>> /\ Last(output).type \notin Redundant =>
            o # <<>> /\ Last(o) = Last(output)
  BY <1>1, <1>3, SanitizedKeeps
<1>5. IsText' /\ End' = End /\ it' \in 1..End' /\ pc' \in States
  BY <1>1, <1>2, SameText DEF States
<1>6. TokensAnswered'
  <2>1. o \in Seq(Tokens')
    BY <1>4, <1>5 DEF Tokens
  <2>2. ASSUME NEW k \in 1..Len(o)
        PROVE  (output[k].begin \in 1..Len(text) /\ TokenAt(output[k].begin, output[k]))'
    <3>. DEFINE s == o[k]
    <3>1. s.begin \in 1..Len(text) /\ TokenAt(s.begin, s)
      <4>1. PICK m \in 1..Len(output) : s = output[m]
        BY <1>4
      <4>. QED
        BY <1>2, <4>1 DEF TokensAnswered
    <3>2. TokenAt(output[k].begin, output[k])' <=> TokenAt(s.begin, s)
      BY <1>1, SameText
    <3>. QED
      BY <1>1, <3>1, <3>2
  <2>. QED
    BY <2>1, <2>2 DEF TokensAnswered
<1>7. SwitchAgrees'
  <2>1. \A s : (IsKeyword(s)' <=> IsKeyword(s)) /\ SyntaxOf(s)' = SyntaxOf(s)
    BY <1>1, SameText
  <2>2. \A s : IsKeyword(s) => s.type \notin Redundant
    BY DEF IsKeyword, Redundant
  <2>3. ASSUME NEW k \in 1..Len(o), IsKeyword(o[k])
        PROVE  syntax' = SyntaxOf(o[k])
    <3>1. PICK m \in 1..Len(output) : o[k] = output[m]
      BY <1>4
    <3>2. IsKeyword(output[m])
      BY <2>3, <3>1
    <3>3. syntax = SyntaxOf(output[m])
      BY <1>2, <3>2 DEF SwitchAgrees
    <3>. QED
      BY <1>1, <3>1, <3>3
  <2>4. ASSUME syntax' # "none"
        PROVE  \E k \in 1..Len(o) : IsKeyword(o[k]) /\ syntax' = SyntaxOf(o[k])
    <3>1. PICK m \in 1..Len(output) : IsKeyword(output[m]) /\ syntax = SyntaxOf(output[m])
      BY <1>1, <1>2, <2>4 DEF SwitchAgrees
    <3>2. output[m].type \notin Redundant
      BY <2>2, <3>1
    <3>3. PICK k \in 1..Len(o) : o[k] = output[m]
      BY <1>4, <3>2
    <3>4. IsKeyword(o[k]) /\ syntax' = SyntaxOf(o[k])
      BY <1>1, <3>1, <3>3
    <3>. QED
      BY <3>4
  <2>. QED
    BY <1>1, <1>2, <2>1, <2>3, <2>4 DEF SwitchAgrees
<1>8. RefusedForKeyword' /\ StandsAtFailure'
  BY <1>1 DEF RefusedForKeyword, StandsAtFailure
<1>9. EofIsLast'
  <2>1. ASSUME text[Len(text)] = "eof" PROVE o # <<>> /\ Last(o).type = "eof_"
    <3>1. output # <<>> /\ Last(output).type = "eof_"
      BY <1>1, <1>2, <2>1 DEF EofIsLast
    <3>2. "eof_" \notin Redundant
      BY DEF Redundant
    <3>. QED
      BY <1>4, <3>1, <3>2
  <2>. QED
    BY <1>1, <1>5, <2>1 DEF EofIsLast
<1>. QED
  BY <1>5, <1>6, <1>7, <1>8, <1>9 DEF TokenizerInv

\* A call that fails leaves everything as it is but pc.
LEMMA InvFail ==
    ASSUME TokenizerInv, NEW how \in States \ {"lex", "done", "empty_input"}, Refuse(how),
           pc = "lex", it # End,
           how = "mixed_syntax" => Lexed.type \in TokenTypes /\ MixesSyntax(Lexed),
           how \in {"invalid_character", "invalid_directive"} =>
               Lexed.type \in {"none_", "invalid_"},
           how = "never_ends" => Lexed.type = "never_ends"
    PROVE  TokenizerInv'
<1>1. text' = text /\ it' = it /\ output' = output /\ syntax' = syntax /\ pc' = how
  BY DEF Refuse
<1>2. IsText /\ it \in 1..End /\ TokensAnswered /\ SwitchAgrees
  BY DEF TokenizerInv
<1>3. IsText' /\ End' = End /\ it' \in 1..End' /\ pc' \in States
  BY <1>1, <1>2, SameText DEF States
<1>4. TokensAnswered'
  <2>1. Tokens' = Tokens
    BY <1>3 DEF Tokens
  <2>2. \A i, t : TokenAt(i, t)' <=> TokenAt(i, t)
    BY <1>1, SameText
  <2>. QED
    BY <1>1, <1>2, <2>1, <2>2 DEF TokensAnswered
<1>5. /\ \A t : (IsKeyword(t)' <=> IsKeyword(t)) /\ SyntaxOf(t)' = SyntaxOf(t)
      /\ \A t : HasHash(t)' <=> HasHash(t)
  BY <1>1, SameText
<1>6. SwitchAgrees'
  BY <1>1, <1>2, <1>5 DEF SwitchAgrees
<1>7. RefusedForKeyword'
  <2>1. SUFFICES ASSUME how = "mixed_syntax"
        PROVE  \E k \in 1..Len(output) :
                  /\ IsKeyword(output[k])
                  /\ HasHash(output[k]) <=> text[it] # "#"
                  /\ text[it] \in Reserved \cup {"#"}
    BY <1>1, <1>5 DEF RefusedForKeyword
  <2>2. /\ IsKeyword(Lexed) /\ syntax # "none" /\ syntax # SyntaxOf(Lexed)
        /\ Lexed.begin = it
    BY <2>1, AtCursor DEF MixesSyntax, TokenAt
  <2>3. PICK k \in 1..Len(output) : IsKeyword(output[k]) /\ syntax = SyntaxOf(output[k])
    BY <1>2, <2>2 DEF SwitchAgrees
  <2>4. HasHash(output[k]) <=> ~HasHash(Lexed)
    BY <2>2, <2>3 DEF SyntaxOf
  <2>5. HasHash(output[k]) <=> text[it] # "#"
    BY <2>2, <2>4 DEF HasHash
  <2>6. text[it] \in Reserved \cup {"#"}
    BY <2>2 DEF IsKeyword, HasHash
  <2>. QED
    BY <2>3, <2>5, <2>6
<1>8. StandsAtFailure'
  <2>1. it \in 1..Len(text)
    BY AtCursor
  <2>2. how \in {"invalid_character", "invalid_directive"} => NoLexeme(it)
    BY AtCursor
  <2>3. how = "never_ends" => Unclosed(it)
    BY AtCursor
  <2>4. \A i : (NoLexeme(i)' <=> NoLexeme(i)) /\ (Unclosed(i)' <=> Unclosed(i))
    BY <1>1, SameText
  <2>. QED
    BY <1>1, <2>1, <2>2, <2>3, <2>4 DEF StandsAtFailure
<1>9. EofIsLast'
  BY <1>1 DEF EofIsLast
<1>. QED
  BY <1>3, <1>4, <1>6, <1>7, <1>8, <1>9 DEF TokenizerInv

\* It is about the variables only.
LEMMA InvStutter == TokenizerInv /\ UNCHANGED tokenizer_vars => TokenizerInv'
<1>. SUFFICES ASSUME TokenizerInv, UNCHANGED tokenizer_vars PROVE TokenizerInv'
  OBVIOUS
<1>1. text' = text /\ it' = it /\ output' = output /\ syntax' = syntax /\ pc' = pc
  BY DEF tokenizer_vars
<1>2. /\ IsText' <=> IsText
      /\ End' = End
      /\ \A i, t : TokenAt(i, t)' <=> TokenAt(i, t)
      /\ \A i : (NoLexeme(i)' <=> NoLexeme(i)) /\ (Unclosed(i)' <=> Unclosed(i))
      /\ \A t : (IsKeyword(t)' <=> IsKeyword(t)) /\ SyntaxOf(t)' = SyntaxOf(t)
      /\ \A t : HasHash(t)' <=> HasHash(t)
  BY <1>1, SameText
<1>3. IsText' /\ it' \in 1..End' /\ pc' \in States
  BY <1>1, <1>2 DEF TokenizerInv, States
<1>4. TokensAnswered'
  <2>1. Tokens' = Tokens
    BY <1>2 DEF Tokens
  <2>. QED
    BY <1>1, <1>2, <2>1 DEF TokensAnswered, TokenizerInv
<1>5. SwitchAgrees'
  BY <1>1, <1>2 DEF SwitchAgrees, TokenizerInv
<1>6. RefusedForKeyword'
  BY <1>1, <1>2 DEF RefusedForKeyword, TokenizerInv
<1>7. StandsAtFailure'
  BY <1>1, <1>2 DEF StandsAtFailure, TokenizerInv
<1>8. EofIsLast'
  BY <1>1, <1>2 DEF EofIsLast, TokenizerInv
<1>. QED
  BY <1>3, <1>4, <1>5, <1>6, <1>7, <1>8 DEF TokenizerInv

\* The invariant holds throughout.
LEMMA InvHolds == TokenizerSpec => []TokenizerInv
<1>1. TokenizerInit => TokenizerInv
  BY InvInit
<1>2. TokenizerInv /\ [tokenize]_tokenizer_vars => TokenizerInv'
  <2>. SUFFICES ASSUME TokenizerInv, [tokenize]_tokenizer_vars PROVE TokenizerInv'
    OBVIOUS
  <2>1. CASE Emplace
    BY <2>1, InvEmplace
  <2>2. CASE Sanitize
    BY <2>2, InvSanitize
  <2>3. CASE MixedSyntax
    BY <2>3, InvFail DEF MixedSyntax, States
  <2>4. CASE InvalidDirective
    BY <2>4, InvFail DEF InvalidDirective, States
  <2>5. CASE InvalidCharacter
    BY <2>5, InvFail DEF InvalidCharacter, States
  <2>6. CASE RunsPastTheEnd
    BY <2>6, InvFail DEF RunsPastTheEnd, States
  <2>7. CASE UNCHANGED tokenizer_vars
    BY <2>7, InvStutter
  <2>. QED
    BY <2>1, <2>2, <2>3, <2>4, <2>5, <2>6, <2>7 DEF tokenize
<1>. QED
  BY <1>1, <1>2, PTL DEF TokenizerSpec

-----------------------------------------------------------------------------
(* The theorems.                                                           *)

\* The variables keep their types: no token and no cursor reaches behind the
\* end of the text.
THEOREM TokenizerTypeOK == TokenizerSpec => []TokenizerTypes
<1>1. TokenizerInv => TokenizerTypes
  BY DEF TokenizerInv, TokensAnswered, SwitchAgrees, TokenizerTypes, Tokens, States
<1>. QED
  BY <1>1, InvHolds, PTL

\* Every token is the longest lexeme where it begins.
THEOREM TokenizerLongestLexemes == TokenizerSpec => []LongestLexemes
<1>1. TokenizerInv => LongestLexemes
  <2>. SUFFICES ASSUME TokenizerInv, NEW k \in 1..Len(output)
                PROVE  LET t == output[k] IN
                       \/ LongerThanKeyword(t.begin)
                       \/ /\ IsLexeme(t.type, t.begin, t.end)
                          /\ t.type \notin Redundant =>
                                \A j \in (t.end + 1)..End, type \in TokenTypes :
                                    ~IsLexeme(type, t.begin, j)
    BY DEF LongestLexemes
  <2>. DEFINE t == output[k]
  <2>1. IsText /\ t.begin \in 1..Len(text) /\ TokenAt(t.begin, t)
    BY DEF TokenizerInv, TokensAnswered
  <2>. HIDE DEF t
  <2>2. CASE LongerThanKeyword(t.begin)
    BY <2>2 DEF t
  <2>3. CASE Longest(t.begin, t)
    <3>1. t.type \in TokenTypes /\ t.end \in (t.begin + 1)..End
      BY <2>1 DEF TokenAt
    <3>2. t.begin \in 1..End /\ End \in Nat
      BY <2>1, TextTypes DEF End
    <3>3. IsLexeme(t.type, t.begin, t.end)
      BY <2>1, <2>3, <3>1, <3>2, LexemeShape DEF Longest
    <3>4. ASSUME t.type \notin Redundant, NEW j \in (t.end + 1)..End, NEW type \in TokenTypes
          PROVE  ~IsLexeme(type, t.begin, j)
      <4>1. ~Shape(type, t.begin, j)
        BY <2>3, <3>4 DEF Longest
      <4>2. j \in (t.begin + 1)..End
        BY <3>1, <3>2
      <4>. QED
        BY <2>1, <3>2, <4>1, <4>2, LexemeShape
    <3>. QED
      BY <3>3, <3>4 DEF t
  <2>. QED
    BY <2>1, <2>2, <2>3 DEF TokenAt
<1>. QED
  BY <1>1, InvHolds, PTL

\* The keywords of one file are all of one syntax, and a file is refused only
\* at a keyword that disagrees with one before it.
THEOREM TokenizerOneKeywordSyntax == TokenizerSpec => []OneKeywordSyntax
<1>1. TokenizerInv => OneKeywordSyntax
  <2>. SUFFICES ASSUME TokenizerInv PROVE OneKeywordSyntax
    OBVIOUS
  <2>1. ASSUME NEW j \in 1..Len(output), NEW k \in 1..Len(output),
               IsKeyword(output[j]), IsKeyword(output[k])
        PROVE  HasHash(output[j]) <=> HasHash(output[k])
    <3>1. SyntaxOf(output[j]) = SyntaxOf(output[k])
      BY <2>1 DEF TokenizerInv, SwitchAgrees
    <3>. QED
      BY <3>1 DEF SyntaxOf
  <2>2. RefusedForKeyword
    BY DEF TokenizerInv
  <2>. QED
    BY <2>1, <2>2 DEF OneKeywordSyntax, RefusedForKeyword
<1>. QED
  BY <1>1, InvHolds, PTL

\* A call fails only where no lexeme begins, and runs past the end only at a
\* quotation or a block comment that is never closed.
THEOREM TokenizerFailsForAReason == TokenizerSpec => []FailsForAReason
<1>1. TokenizerInv => FailsForAReason
  <2>. SUFFICES ASSUME TokenizerInv PROVE FailsForAReason
    OBVIOUS
  <2>1. IsText /\ StandsAtFailure
    BY DEF TokenizerInv
  <2>2. ASSUME pc \in {"invalid_character", "invalid_directive", "never_ends"},
               NEW j \in (it + 1)..End, NEW type \in TokenTypes
        PROVE  IsLexeme(type, it, j) <=> Shape(type, it, j)
    <3>1. it \in 1..Len(text)
      BY <2>1, <2>2 DEF StandsAtFailure
    <3>2. it \in 1..End
      BY <2>1, <3>1, TextTypes DEF End
    <3>. QED
      BY <2>1, <3>2, LexemeShape
  <2>3. ASSUME pc \in {"invalid_character", "invalid_directive"}
        PROVE  \A j \in (it + 1)..End, type \in TokenTypes : ~IsLexeme(type, it, j)
    BY <2>1, <2>2, <2>3 DEF StandsAtFailure, NoLexeme
  <2>4. ASSUME pc = "never_ends"
        PROVE  /\ text[it] = "'" \/ FindForward(it, <<"/", "/", "/">>)
               /\ \A j \in (it + 1)..End :
                     ~IsLexeme("string_literal_", it, j) /\ ~IsLexeme("block_comment_", it, j)
    <3>1. "string_literal_" \in TokenTypes /\ "block_comment_" \in TokenTypes
      BY DEF TokenTypes
    <3>. QED
      BY <2>1, <2>2, <2>4, <3>1 DEF StandsAtFailure, Unclosed
  <2>. QED
    BY <2>3, <2>4 DEF FailsForAReason
<1>. QED
  BY <1>1, InvHolds, PTL

\* The eof_ token of a loaded file is the last of the output: what the
\* preprocessor takes for granted of every file it reads.
THEOREM TokenizerEndsWithEof == TokenizerSpec => []EndsWithEof
<1>1. TokenizerInv => EndsWithEof
  BY DEF TokenizerInv, EofIsLast, EndsWithEof
<1>. QED
  BY <1>1, InvHolds, PTL

-----------------------------------------------------------------------------
(* Chains of finite sets, and flattened sequences.                         *)

\* A chain of N + 1 subsets of a finite set stands still somewhere, or each of
\* its sets has one element more than the one before.
LEMMA ChainGrows ==
    ASSUME NEW N \in Nat, NEW D, IsFiniteSet(D), NEW W,
           \A n \in 0..N : W[n] \subseteq D,
           \A n \in 1..N : W[n - 1] \subseteq W[n]
    PROVE  \/ \E n \in 1..N : W[n - 1] = W[n]
           \/ Cardinality(W[N]) >= Cardinality(W[0]) + N
<1>. SUFFICES ASSUME \A n \in 1..N : W[n - 1] # W[n]
              PROVE  Cardinality(W[N]) >= Cardinality(W[0]) + N
  OBVIOUS
<1>. DEFINE T == {n \in 0..N : Cardinality(W[n]) >= Cardinality(W[0]) + n}
<1>1. \A n \in 0..N : IsFiniteSet(W[n]) /\ Cardinality(W[n]) \in Nat
  BY FS_Subset, FS_CardinalityType
<1>2. 0 \in T
  BY <1>1
<1>3. ASSUME NEW n \in 1..N, n - 1 \in T PROVE n \in T
  <2>1. /\ n \in 0..N /\ n - 1 \in 0..N
        /\ Cardinality(W[n - 1]) >= Cardinality(W[0]) + (n - 1)
    BY <1>3
  <2>2. /\ Cardinality(W[n - 1]) <= Cardinality(W[n])
        /\ Cardinality(W[n - 1]) # Cardinality(W[n])
    BY <1>1, <2>1, FS_Subset
  <2>3. /\ Cardinality(W[n - 1]) \in Nat /\ Cardinality(W[n]) \in Nat
        /\ Cardinality(W[0]) \in Nat
    BY <1>1, <2>1
  <2>4. Cardinality(W[n]) >= Cardinality(W[0]) + n
    BY <2>1, <2>2, <2>3
  <2>. QED
    BY <2>1, <2>4
<1>4. 0..N \subseteq T
  BY <1>2, <1>3, InductionUpTo
<1>. QED
  BY <1>4

\* The pieces up to m, one after the other.
Joined(pieces, m) == FlattenSeq([j \in 1..m |-> pieces[j]])

\* f joins the pieces one after another: f[i] is what the first i make.
Plus(s, t) == s \o t
JoinedBy(f, pieces, m) ==
    f = [i \in 1..m |-> IF i = 1 THEN pieces[i] ELSE Plus(f[i - 1], pieces[i])]

\* JoinedBy takes one more piece at each step.
LEMMA JoinedByStep ==
    ASSUME NEW f, NEW pieces, NEW m \in Nat, JoinedBy(f, pieces, m)
    PROVE  \A i \in 1..m : f[i] = IF i = 1 THEN pieces[i] ELSE Plus(f[i - 1], pieces[i])
BY DEF JoinedBy

\* There is such a function.
LEMMA JoinedExists ==
    ASSUME NEW L \in Nat, NEW pieces
    PROVE  \A m \in 0..L : \E f : JoinedBy(f, pieces, m)
<1>. DEFINE T == {m \in 0..L : \E f : JoinedBy(f, pieces, m)}
<1>1. 0 \in T
  <2>1. JoinedBy([i \in 1..0 |-> <<>>], pieces, 0)
    BY DEF JoinedBy
  <2>. QED
    BY <2>1
<1>2. ASSUME NEW m \in 1..L, m - 1 \in T PROVE m \in T
  <2>1. PICK f : JoinedBy(f, pieces, m - 1)
    BY <1>2
  <2>. DEFINE x == IF m = 1 THEN pieces[m] ELSE Plus(f[m - 1], pieces[m])
              g == [i \in 1..m |-> IF i = m THEN x ELSE f[i]]
  <2>2. \A i \in 1..(m - 1) : f[i] = IF i = 1 THEN pieces[i] ELSE Plus(f[i - 1], pieces[i])
    BY <2>1, JoinedByStep
  <2>3. \A i \in 1..m : g[i] = IF i = 1 THEN pieces[i] ELSE Plus(g[i - 1], pieces[i])
    <3>. TAKE i \in 1..m
    <3>1. CASE i = 1
      BY <2>2, <3>1
    <3>2. CASE i > 1 /\ i = m
      <4>1. g[i] = x /\ x = Plus(f[i - 1], pieces[i]) /\ g[i - 1] = f[i - 1]
        BY <3>2
      <4>. HIDE DEF g, x
      <4>. QED
        BY <3>2, <4>1
    <3>3. CASE i > 1 /\ i # m
      <4>1. g[i] = f[i] /\ g[i - 1] = f[i - 1]
        BY <3>3
      <4>2. f[i] = Plus(f[i - 1], pieces[i])
        BY <2>2, <3>3
      <4>. HIDE DEF g
      <4>. QED
        BY <3>3, <4>1, <4>2
    <3>. QED
      BY <3>1, <3>2, <3>3
  <2>4. JoinedBy(g, pieces, m)
    BY <2>3 DEF JoinedBy
  <2>. QED
    BY <2>4
<1>. HIDE DEF T
<1>3. 0..L \subseteq T
  BY <1>1, <1>2, InductionUpTo
<1>. QED
  BY <1>3 DEF T

\* There is one only.
LEMMA JoinedUnique ==
    ASSUME NEW pieces, NEW n \in Nat, NEW m \in 0..n, NEW f, NEW g,
           JoinedBy(f, pieces, m), JoinedBy(g, pieces, n)
    PROVE  \A i \in 1..m : f[i] = g[i]
<1>. DEFINE T == {i \in 0..m : i > 0 => f[i] = g[i]}
<1>1. 0 \in T
  OBVIOUS
<1>2. ASSUME NEW i \in 1..m, i - 1 \in T PROVE i \in T
  <2>1. f[i] = IF i = 1 THEN pieces[i] ELSE Plus(f[i - 1], pieces[i])
    BY JoinedByStep
  <2>2. g[i] = IF i = 1 THEN pieces[i] ELSE Plus(g[i - 1], pieces[i])
    BY JoinedByStep
  <2>3. i = 1 \/ f[i - 1] = g[i - 1]
    BY <1>2
  <2>. QED
    BY <2>1, <2>2, <2>3
<1>. HIDE DEF T
<1>3. 0..m \subseteq T
  BY <1>1, <1>2, InductionUpTo
<1>. QED
  BY <1>3 DEF T

\* What JoinedBy makes of the first m pieces.
LEMMA JoinedValue ==
    ASSUME NEW pieces, NEW m \in Nat \ {0}
    PROVE  \E f : JoinedBy(f, pieces, m) /\ Joined(pieces, m) = f[m]
<1>. DEFINE s == [j \in 1..m |-> pieces[j]]
            F == CHOOSE f : f = [i \in 1..Len(s) |->
                                   IF i = 1 THEN s[i] ELSE f[i - 1] \o s[i]]
<1>1. Len(s) = m
  BY LenProperties
<1>2. \A f : (f = [i \in 1..Len(s) |-> IF i = 1 THEN s[i] ELSE f[i - 1] \o s[i]])
             <=> JoinedBy(f, pieces, m)
  BY <1>1 DEF JoinedBy, Plus
<1>3. Joined(pieces, m) = FlattenSeq(s)
  BY DEF Joined
<1>. HIDE DEF s
<1>4. \E f : f = [i \in 1..Len(s) |-> IF i = 1 THEN s[i] ELSE f[i - 1] \o s[i]]
  <2>1. m \in 0..m /\ m \in Nat
    OBVIOUS
  <2>2. \E f : JoinedBy(f, pieces, m)
    BY <2>1, JoinedExists
  <2>. QED
    BY <1>2, <2>2
<1>5. JoinedBy(F, pieces, m)
  BY <1>2, <1>4
<1>6. Joined(pieces, m) = F[m]
  BY <1>1, <1>3 DEF FlattenSeq
<1>. QED
  BY <1>5, <1>6

\* Joined, with one more piece.
LEMMA JoinedStep ==
    ASSUME NEW S, NEW L \in Nat, NEW pieces, \A j \in 1..L : pieces[j] \in Seq(S)
    PROVE  /\ Joined(pieces, 0) = <<>>
           /\ \A m \in 1..L : Joined(pieces, m) = Joined(pieces, m - 1) \o pieces[m]
           /\ \A m \in 0..L : Joined(pieces, m) \in Seq(S)
<1>1. Joined(pieces, 0) = <<>>
  <2>1. [j \in 1..0 |-> pieces[j]] = <<>>
    OBVIOUS
  <2>. QED
    BY <2>1 DEF Joined, FlattenSeq
<1>. DEFINE Parts == Seq(S)
<1>2. <<>> \in Parts /\ \A s, t \in Parts : Plus(s, t) \in Parts /\ Plus(<<>>, s) = s
  BY ConcatProperties, ConcatEmptySeq DEF Plus
<1>3. \A j \in 1..L : pieces[j] \in Parts
  OBVIOUS
<1>. HIDE DEF Parts
<1>4. ASSUME NEW m \in 1..L
      PROVE  Joined(pieces, m) = Plus(Joined(pieces, m - 1), pieces[m])
  <2>1. PICK f : JoinedBy(f, pieces, m) /\ Joined(pieces, m) = f[m]
    BY JoinedValue
  <2>2. f[m] = IF m = 1 THEN pieces[m] ELSE Plus(f[m - 1], pieces[m])
    BY <2>1, JoinedByStep
  <2>3. CASE m = 1
    BY <1>1, <1>2, <1>3, <2>1, <2>2, <2>3
  <2>4. CASE m > 1
    <3>0. m \in Nat /\ m - 1 \in Nat \ {0} /\ m - 1 \in 0..m /\ m - 1 \in 1..(m - 1)
      BY <2>4
    <3>1. PICK g : JoinedBy(g, pieces, m - 1) /\ Joined(pieces, m - 1) = g[m - 1]
      BY <3>0, JoinedValue
    <3>2. \A i \in 1..(m - 1) : g[i] = f[i]
      BY <2>1, <3>0, <3>1, JoinedUnique
    <3>3. g[m - 1] = f[m - 1]
      BY <3>0, <3>2
    <3>. QED
      BY <2>1, <2>2, <2>4, <3>1, <3>3
  <2>. QED
    BY <2>3, <2>4
<1>5. \A m \in 0..L : Joined(pieces, m) \in Parts
  <2>. DEFINE T == {m \in 0..L : Joined(pieces, m) \in Parts}
  <2>1. 0 \in T
    BY <1>1, <1>2
  <2>2. ASSUME NEW m \in 1..L, m - 1 \in T PROVE m \in T
    BY <1>2, <1>3, <1>4, <2>2
  <2>. HIDE DEF T
  <2>3. 0..L \subseteq T
    BY <2>1, <2>2, InductionUpTo
  <2>. QED
    BY <2>3 DEF T
<1>. QED
  BY <1>1, <1>4, <1>5 DEF Plus, Parts

-----------------------------------------------------------------------------
(* The files.                                                              *)

\* How many names there are, and the files of the state.
N     == Cardinality(Names)
Files == DOMAIN source

\* The files, their number and their tokens.
LEMMA FileTypes ==
    ASSUME source \in Sources
    PROVE  /\ N \in Nat \ {0} /\ Root \in Files /\ Files \subseteq Names
           /\ IsFiniteSet(Files) /\ Cardinality(Files) \in Nat /\ Cardinality(Files) <= N
           /\ \A f \in Files :
                 /\ Len(source[f]) \in Nat \ {0}
                 /\ \A k \in 1..Len(source[f]) : source[f][k] \in Names \cup Others
                 /\ ~IsDirective(f, Len(source[f]))
<1>1. Root \in Files /\ Files \subseteq Names /\ IsFiniteSet(Names)
  BY SourcesAssumption DEF Files
<1>2. IsFiniteSet(Files) /\ Cardinality(Files) \in Nat /\ Cardinality(Files) <= N /\ N \in Nat
  BY <1>1, FS_Subset, FS_CardinalityType DEF N
<1>3. N # 0
  BY <1>1, FS_EmptySet DEF N
<1>4. ASSUME NEW f \in Files
      PROVE  /\ Len(source[f]) \in Nat \ {0}
             /\ \A k \in 1..Len(source[f]) : source[f][k] \in Names \cup Others
             /\ ~IsDirective(f, Len(source[f]))
  <2>. DEFINE TokensOf == Names \cup Others
  <2>1. source[f] \in Seq(TokensOf) /\ source[f] # <<>> /\ Last(source[f]) = "eof_"
    BY SourcesAssumption DEF Files
  <2>. HIDE DEF TokensOf
  <2>2. Len(source[f]) \in Nat \ {0} /\ \A k \in 1..Len(source[f]) : source[f][k] \in TokensOf
    BY <2>1, EmptySeq, ElementOfSeq
  <2>3. ~IsDirective(f, Len(source[f]))
    BY <2>1 DEF IsDirective, Last
  <2>. QED
    BY <2>2, <2>3 DEF TokensOf
<1>. QED
  BY <1>1, <1>2, <1>3, <1>4

\* The files whose inclusions are all right and nest no deeper than n.
AllIncluded(W) == {f \in Files : \A k \in FirstIncludes(f) : source[f][k + 1] \in W \ {f}}

\* Whole[n]: the files that are complete at n levels of inclusion.
Whole[n \in 0..N] == IF n = 0 THEN AllIncluded({}) ELSE AllIncluded(Whole[n - 1])

\* Whole has the values that its definition says.
LEMMA WholeStep ==
    ASSUME N \in Nat
    PROVE  /\ Whole[0] = AllIncluded({})
           /\ \A n \in 1..N : Whole[n] = AllIncluded(Whole[n - 1])
<1>. DEFINE is(f, n) == f = [k \in 0..n |-> IF k = 0 THEN AllIncluded({})
                                            ELSE AllIncluded(f[k - 1])]
            T == {n \in 0..N : \E f : is(f, n)}
<1>1. 0 \in T
  <2>1. is([k \in 0..0 |-> AllIncluded({})], 0)
    OBVIOUS
  <2>2. \E f : is(f, 0)
    BY <2>1
  <2>. QED
    BY <2>2
<1>2. ASSUME NEW n \in 1..N, n - 1 \in T PROVE n \in T
  <2>1. PICK f : is(f, n - 1)
    BY <1>2
  <2>. DEFINE g == [k \in 0..n |-> IF k = n THEN AllIncluded(f[n - 1]) ELSE f[k]]
  <2>2. \A k \in 0..n : g[k] = IF k = 0 THEN AllIncluded({}) ELSE AllIncluded(g[k - 1])
    BY <2>1
  <2>3. is(g, n)
    BY <2>2
  <2>4. \E h : is(h, n)
    BY <2>3
  <2>. QED
    BY <2>4
<1>3. \E f : is(f, N)
  <2>. HIDE DEF T
  <2>1. 0..N \subseteq T
    BY <1>1, <1>2, InductionUpTo
  <2>. QED
    BY <2>1 DEF T
<1>4. is(Whole, N)
  BY <1>3 DEF Whole
<1>. QED
  BY <1>4

\* A file that is complete at some level is so at the next.
LEMMA WholeGrows ==
    ASSUME source \in Sources
    PROVE  \A n \in 1..N : Whole[n - 1] \subseteq Whole[n]
<1>1. N \in Nat
  BY FileTypes
<1>. DEFINE T == {n \in 0..N : n > 0 => Whole[n - 1] \subseteq Whole[n]}
<1>2. 0 \in T
  BY <1>1
<1>3. ASSUME NEW n \in 1..N, n - 1 \in T PROVE n \in T
  <2>1. CASE n = 1
    <3>1. Whole[0] = AllIncluded({}) /\ Whole[1] = AllIncluded(Whole[0])
      BY <1>1, <2>1, WholeStep
    <3>. QED
      BY <2>1, <3>1 DEF AllIncluded
  <2>2. CASE n > 1
    <3>1. /\ Whole[n] = AllIncluded(Whole[n - 1])
          /\ Whole[n - 1] = AllIncluded(Whole[n - 2])
      <4>1. n - 1 \in 1..N /\ (n - 1) - 1 = n - 2
        BY <1>1, <2>2
      <4>. QED
        BY <1>1, <4>1, WholeStep
    <3>2. Whole[n - 2] \subseteq Whole[n - 1]
      BY <1>3, <2>2
    <3>. QED
      BY <3>1, <3>2 DEF AllIncluded
  <2>. QED
    BY <2>1, <2>2
<1>. HIDE DEF T
<1>4. 0..N \subseteq T
  BY <1>1, <1>2, <1>3, InductionUpTo
<1>. QED
  BY <1>4 DEF T

\* A file is whole when all that it includes is: no inclusion without a circle
\* nests deeper than there are names.
LEMMA WholeClosed ==
    ASSUME source \in Sources
    PROVE  Whole[N] = AllIncluded(Whole[N])
<1>1. /\ N \in Nat \ {0} /\ IsFiniteSet(Files)
      /\ Cardinality(Files) \in Nat /\ Cardinality(Files) <= N
  BY FileTypes
<1>2. \A n \in 1..N : Whole[n] = AllIncluded(Whole[n - 1]) /\ Whole[n - 1] \subseteq Whole[n]
  BY <1>1, WholeStep, WholeGrows
<1>3. \A n \in 0..N : Whole[n] \subseteq Files
  <2>. TAKE n \in 0..N
  <2>1. CASE n = 0
    BY <1>1, <2>1, WholeStep DEF AllIncluded
  <2>2. CASE n > 0
    BY <1>2, <2>2 DEF AllIncluded
  <2>. QED
    BY <2>1, <2>2
<1>4. CASE \E n \in 1..N : Whole[n - 1] = Whole[n]
  <2>1. PICK n \in 1..N : Whole[n - 1] = Whole[n]
    BY <1>4
  <2>2. AllIncluded(Whole[n]) = Whole[n]
    BY <1>2, <2>1
  <2>. DEFINE T == {m \in 0..N : m >= n => Whole[m] = Whole[n]}
  <2>3. 0 \in T
    BY <1>1
  <2>4. ASSUME NEW m \in 1..N, m - 1 \in T PROVE m \in T
    <3>1. CASE m > n
      BY <1>2, <2>2, <2>4, <3>1
    <3>2. CASE m = n
      BY <3>2
    <3>. QED
      BY <3>1, <3>2
  <2>. HIDE DEF T
  <2>5. 0..N \subseteq T
    BY <1>1, <2>3, <2>4, InductionUpTo
  <2>. QED
    BY <1>1, <2>2, <2>5 DEF T
<1>5. CASE Cardinality(Whole[N]) >= Cardinality(Whole[0]) + N
  <2>1. 0 \in 0..N /\ N \in 0..N
    BY <1>1
  <2>2. /\ Cardinality(Whole[0]) \in Nat /\ Cardinality(Whole[N]) \in Nat
        /\ Cardinality(Whole[N]) <= Cardinality(Files)
        /\ Cardinality(Whole[N]) = Cardinality(Files) => Whole[N] = Files
    BY <1>1, <1>3, <2>1, FS_Subset, FS_CardinalityType
  <2>3. Whole[N] = Files
    BY <1>1, <1>5, <2>2
  <2>4. AllIncluded(Whole[N - 1]) \subseteq AllIncluded(Whole[N])
    BY <1>1, <1>2 DEF AllIncluded
  <2>5. Whole[N] = AllIncluded(Whole[N - 1])
    BY <1>1, <1>2
  <2>. QED
    BY <2>3, <2>4, <2>5 DEF AllIncluded
<1>. QED
  BY <1>1, <1>2, <1>3, <1>4, <1>5, ChainGrows

\* ReachedIn has the values that its definition says.
LEMMA ReachedInStep ==
    ASSUME N \in Nat
    PROVE  \A f \in Files :
              /\ ReachedIn[0][f] = {f}
              /\ \A n \in 1..N :
                    ReachedIn[n][f] = UNION {IncludedBy(g) \cap Files : g \in ReachedIn[n - 1][f]}
<1>. DEFINE level(r, k) == [f \in DOMAIN source |->
                IF k = 0 THEN {f}
                ELSE UNION {IncludedBy(g) \cap DOMAIN source : g \in r[f]}]
            is(r, n) == r = [k \in 0..n |-> level(r[k - 1], k)]
            T == {n \in 0..N : \E r : is(r, n)}
<1>0. \A r, q : level(r, 0) = level(q, 0)
  OBVIOUS
<1>1. 0 \in T
  <2>. DEFINE r == [k \in 0..0 |-> level({}, 0)]
  <2>1. level(r[-1], 0) = level({}, 0)
    BY <1>0
  <2>2. \A k \in 0..0 : k = 0 /\ r[k] = level({}, 0)
    OBVIOUS
  <2>. HIDE DEF level
  <2>3. is(r, 0)
    BY <2>1, <2>2
  <2>4. \E q : is(q, 0)
    BY <2>3
  <2>. QED
    BY <2>4
<1>2. ASSUME NEW n \in 1..N, n - 1 \in T PROVE n \in T
  <2>. HIDE DEF level
  <2>1. PICK r : is(r, n - 1)
    BY <1>2
  <2>. DEFINE q == [k \in 0..n |-> IF k = n THEN level(r[n - 1], n) ELSE r[k]]
  <2>2. \A k \in 0..n : q[k] = level(q[k - 1], k)
    <3>. TAKE k \in 0..n
    <3>1. CASE k = 0
      <4>1. r[0] = level(r[-1], 0) /\ q[0] = r[0]
        BY <2>1
      <4>. QED
        BY <1>0, <3>1, <4>1
    <3>2. CASE k # 0
      <4>1. q[k - 1] = r[k - 1]
        BY <3>2
      <4>2. k # n => r[k] = level(r[k - 1], k)
        BY <2>1
      <4>. QED
        BY <4>1, <4>2
    <3>. QED
      BY <3>1, <3>2
  <2>3. is(q, n)
    BY <2>2
  <2>4. \E p : is(p, n)
    BY <2>3
  <2>. QED
    BY <2>4
<1>3. \E r : is(r, N)
  <2>. HIDE DEF T, level
  <2>1. 0..N \subseteq T
    BY <1>1, <1>2, InductionUpTo
  <2>2. N \in T
    BY <2>1
  <2>. QED
    BY <2>2 DEF T
<1>4. is(ReachedIn, N)
  BY <1>3 DEF ReachedIn, N
<1>5. \A n \in 0..N : ReachedIn[n] = level(ReachedIn[n - 1], n)
  <2>. HIDE DEF level
  <2>. QED
    BY <1>4
<1>6. \A f \in Files : ReachedIn[0][f] = {f}
  <2>1. ReachedIn[0] = level(ReachedIn[-1], 0)
    <3>. HIDE DEF level
    <3>1. 0 \in 0..N /\ 0 - 1 = -1
      OBVIOUS
    <3>. QED
      BY <1>5, <3>1
  <2>. QED
    BY <2>1 DEF Files
<1>7. ASSUME NEW f \in Files, NEW n \in 1..N
      PROVE  ReachedIn[n][f] = UNION {IncludedBy(g) \cap Files : g \in ReachedIn[n - 1][f]}
  <2>1. n \in 0..N /\ n # 0
    OBVIOUS
  <2>2. ReachedIn[n] = level(ReachedIn[n - 1], n)
    BY <1>5, <2>1
  <2>. QED
    BY <2>1, <2>2 DEF Files
<1>. QED
  BY <1>6, <1>7

\* What can be reached is closed under inclusion: no file is reached the first
\* time by more inclusions than there are names.
LEMMA ReachedClosed ==
    ASSUME source \in Sources
    PROVE  /\ Root \in Reached /\ Reached \subseteq Files
           /\ \A f \in Reached : IncludedBy(f) \cap Files \subseteq Reached
<1>. DEFINE R == [n \in 0..N |-> UNION {ReachedIn[m][Root] : m \in 0..n}]
<1>1. /\ N \in Nat \ {0} /\ Root \in Files /\ IsFiniteSet(Files)
      /\ Cardinality(Files) \in Nat /\ Cardinality(Files) <= N
  BY FileTypes
<1>2. /\ ReachedIn[0][Root] = {Root}
      /\ \A n \in 1..N : ReachedIn[n][Root]
                            = UNION {IncludedBy(g) \cap Files : g \in ReachedIn[n - 1][Root]}
  BY <1>1, ReachedInStep
<1>3. \A n \in 0..N : ReachedIn[n][Root] \subseteq Files
  <2>. TAKE n \in 0..N
  <2>1. n = 0 \/ n \in 1..N
    BY <1>1
  <2>. QED
    BY <1>1, <1>2, <2>1
<1>4. \A n \in 0..N : R[n] = UNION {ReachedIn[m][Root] : m \in 0..n}
  OBVIOUS
<1>5. Reached = R[N]
  BY <1>1, <1>4 DEF Reached, N
<1>. HIDE DEF R
<1>6. \A n \in 0..N : R[n] \subseteq Files
  BY <1>1, <1>3, <1>4
<1>7. \A n \in 1..N : R[n - 1] \subseteq R[n]
  BY <1>1, <1>4
<1>8. R[0] = {Root}
  BY <1>1, <1>2, <1>4
<1>9. PICK n \in 1..N : R[n - 1] = R[n]
  <2>1. Cardinality(R[0]) = 1
    BY <1>8, FS_Singleton
  <2>2. Cardinality(R[N]) \in Nat /\ Cardinality(R[N]) <= Cardinality(Files)
    BY <1>1, <1>6, FS_Subset, FS_CardinalityType
  <2>3. ~(Cardinality(R[N]) >= Cardinality(R[0]) + N)
    BY <1>1, <2>1, <2>2
  <2>. QED
    BY <1>1, <1>6, <1>7, <2>3, ChainGrows
<1>10. \A g \in R[n - 1] : IncludedBy(g) \cap Files \subseteq R[n - 1]
  <2>. TAKE g \in R[n - 1]
  <2>1. PICK m \in 0..(n - 1) : g \in ReachedIn[m][Root]
    BY <1>1, <1>4
  <2>2. m + 1 \in 1..N /\ (m + 1) - 1 = m /\ m + 1 \in 0..n
    BY <1>1
  <2>3. IncludedBy(g) \cap Files \subseteq ReachedIn[m + 1][Root]
    BY <1>2, <2>1, <2>2
  <2>4. ReachedIn[m + 1][Root] \subseteq R[n]
    BY <1>1, <1>4, <2>2
  <2>. QED
    BY <1>9, <2>3, <2>4
<1>11. \A m \in 0..N : ReachedIn[m][Root] \subseteq R[n - 1]
  <2>. DEFINE T == {m \in 0..N : ReachedIn[m][Root] \subseteq R[n - 1]}
  <2>1. 0 \in T
    BY <1>1, <1>4
  <2>2. ASSUME NEW m \in 1..N, m - 1 \in T PROVE m \in T
    BY <1>2, <1>10, <2>2
  <2>. HIDE DEF T
  <2>3. 0..N \subseteq T
    BY <1>1, <2>1, <2>2, InductionUpTo
  <2>. QED
    BY <2>3 DEF T
<1>12. R[N] = R[n - 1]
  <2>1. R[N] \subseteq R[n - 1]
    BY <1>1, <1>4, <1>11
  <2>2. R[n - 1] \subseteq R[N]
    BY <1>1, <1>4
  <2>. QED
    BY <2>1, <2>2
<1>13. Root \in R[N]
  BY <1>1, <1>2, <1>4
<1>. QED
  BY <1>1, <1>5, <1>6, <1>10, <1>12, <1>13

-----------------------------------------------------------------------------
(* The text of a file with its inclusions in their place.                  *)

\* What stands in the place of each token of f when the files have the texts e.
Pieces(e, f) ==
    [k \in 1..Len(source[f]) |->
        IF k \in FirstIncludes(f) THEN e[source[f][k + 1]]
        ELSE IF IsDirective(f, k) \/ (k > 1 /\ IsDirective(f, k - 1)) THEN <<>>
        ELSE <<<<f, k>>>>]

\* Expansion has the values that its definition says.
LEMMA ExpansionStep ==
    ASSUME N \in Nat
    PROVE  \A f \in Files :
              /\ FirstIncludes(f) = {} =>
                    \A e : Expansion[0][f] = Joined(Pieces(e, f), Len(source[f]))
              /\ \A n \in 1..N :
                    Expansion[n][f] = Joined(Pieces(Expansion[n - 1], f), Len(source[f]))
<1>. DEFINE level(e, k) == [f \in DOMAIN source |->
                FlattenSeq([j \in 1..Len(source[f]) |->
                    IF j \in FirstIncludes(f) /\ k > 0 THEN e[source[f][j + 1]]
                    ELSE IF IsDirective(f, j) \/ (j > 1 /\ IsDirective(f, j - 1)) THEN <<>>
                    ELSE <<<<f, j>>>>])]
            is(e, n) == e = [k \in 0..n |-> level(e[k - 1], k)]
            T == {n \in 0..N : \E e : is(e, n)}
<1>0. \A d, e : level(d, 0) = level(e, 0)
  OBVIOUS
<1>1. 0 \in T
  <2>. DEFINE e == [k \in 0..0 |-> level({}, 0)]
  <2>1. level(e[-1], 0) = level({}, 0)
    BY <1>0
  <2>2. \A k \in 0..0 : k = 0 /\ e[k] = level({}, 0)
    OBVIOUS
  <2>. HIDE DEF level
  <2>3. is(e, 0)
    BY <2>1, <2>2
  <2>4. \E d : is(d, 0)
    BY <2>3
  <2>. QED
    BY <2>4
<1>2. ASSUME NEW n \in 1..N, n - 1 \in T PROVE n \in T
  <2>. HIDE DEF level
  <2>1. PICK e : is(e, n - 1)
    BY <1>2
  <2>. DEFINE d == [k \in 0..n |-> IF k = n THEN level(e[n - 1], n) ELSE e[k]]
  <2>2. \A k \in 0..n : d[k] = level(d[k - 1], k)
    <3>. TAKE k \in 0..n
    <3>1. CASE k = 0
      <4>1. e[0] = level(e[-1], 0) /\ d[0] = e[0]
        BY <2>1
      <4>. QED
        BY <1>0, <3>1, <4>1
    <3>2. CASE k # 0
      <4>1. d[k - 1] = e[k - 1]
        BY <3>2
      <4>2. k # n => e[k] = level(e[k - 1], k)
        BY <2>1
      <4>. QED
        BY <4>1, <4>2
    <3>. QED
      BY <3>1, <3>2
  <2>3. is(d, n)
    BY <2>2
  <2>4. \E p : is(p, n)
    BY <2>3
  <2>. QED
    BY <2>4
<1>3. \E e : is(e, N)
  <2>. HIDE DEF T, level
  <2>1. 0..N \subseteq T
    BY <1>1, <1>2, InductionUpTo
  <2>2. N \in T
    BY <2>1
  <2>. QED
    BY <2>2 DEF T
<1>4. is(Expansion, N)
  BY <1>3 DEF Expansion, N
<1>5. \A n \in 0..N : Expansion[n] = level(Expansion[n - 1], n)
  <2>. HIDE DEF level
  <2>. QED
    BY <1>4
<1>6. ASSUME NEW f \in Files, NEW e
      PROVE  Joined(Pieces(e, f), Len(source[f])) = FlattenSeq(Pieces(e, f))
  <2>1. [j \in 1..Len(source[f]) |-> Pieces(e, f)[j]] = Pieces(e, f)
    BY DEF Pieces
  <2>. QED
    BY <2>1 DEF Joined
<1>7. ASSUME NEW f \in Files, FirstIncludes(f) = {}, NEW e
      PROVE  Expansion[0][f] = Joined(Pieces(e, f), Len(source[f]))
  <2>1. Expansion[0] = level(Expansion[-1], 0)
    <3>. HIDE DEF level
    <3>1. 0 \in 0..N /\ 0 - 1 = -1
      OBVIOUS
    <3>. QED
      BY <1>5, <3>1
  <2>2. level(Expansion[-1], 0)[f] = FlattenSeq(Pieces(e, f))
    BY <1>7 DEF Pieces, Files
  <2>. QED
    BY <1>6, <2>1, <2>2
<1>8. ASSUME NEW f \in Files, NEW n \in 1..N
      PROVE  Expansion[n][f] = Joined(Pieces(Expansion[n - 1], f), Len(source[f]))
  <2>1. n \in 0..N /\ n > 0
    OBVIOUS
  <2>2. Expansion[n] = level(Expansion[n - 1], n)
    BY <1>5, <2>1
  <2>3. level(Expansion[n - 1], n)[f] = FlattenSeq(Pieces(Expansion[n - 1], f))
    BY <2>1 DEF Pieces, Files
  <2>. QED
    BY <1>6, <2>2, <2>3
<1>. QED
  BY <1>7, <1>8

\* The text of f up to the token m.
TextUpTo(f, m) == Joined(Pieces(Expansion[N], f), m)

\* The pieces of a file of which the inclusions up to m have texts.
LEMMA PiecesType ==
    ASSUME source \in Sources, NEW f \in Files, NEW m \in 1..Len(source[f]), NEW e,
           \A k \in FirstIncludes(f) : k <= m => e[source[f][k + 1]] \in Seq(Origins)
    PROVE  \A k \in 1..m : Pieces(e, f)[k] \in Seq(Origins)
<1>. TAKE k \in 1..m
<1>1. k \in 1..Len(source[f]) /\ k <= m
  BY FileTypes
<1>2. Pieces(e, f)[k] = IF k \in FirstIncludes(f) THEN e[source[f][k + 1]]
                        ELSE IF IsDirective(f, k) \/ (k > 1 /\ IsDirective(f, k - 1)) THEN <<>>
                        ELSE <<<<f, k>>>>
  BY <1>1 DEF Pieces
<1>3. <<f, k>> \in Origins
  BY <1>1 DEF Origins, Files
<1>4. <<>> \in Seq(Origins) /\ <<<<f, k>>>> \in Seq(Origins)
  BY <1>3
<1>. QED
  BY <1>1, <1>2, <1>4

\* The expansion of a file that is whole does not depend on the level.
LEMMA ExpansionOfWhole ==
    ASSUME source \in Sources
    PROVE  /\ \A n \in 1..N : \A f \in Whole[n - 1] : Expansion[n][f] = Expansion[n - 1][f]
           /\ \A n \in 0..N : \A f \in Whole[n] : Expansion[n][f] \in Seq(Origins)
<1>1. N \in Nat \ {0} /\ \A f \in Files : Len(source[f]) \in Nat \ {0}
  BY FileTypes
<1>2. \A n \in 0..N : Whole[n] \subseteq Files
  <2>. TAKE n \in 0..N
  <2>1. n = 0 \/ n \in 1..N
    BY <1>1
  <2>. QED
    BY <1>1, <2>1, WholeStep DEF AllIncluded
<1>3. \A f \in Whole[0] : f \in Files /\ FirstIncludes(f) = {}
  BY <1>1, WholeStep DEF AllIncluded
<1>4. ASSUME NEW n \in 1..N, NEW f \in Whole[n]
      PROVE  f \in Files /\ \A k \in FirstIncludes(f) : source[f][k + 1] \in Whole[n - 1]
  BY <1>1, WholeStep DEF AllIncluded
<1>. DEFINE T == {n \in 0..N : n > 0 =>
                    \A f \in Whole[n - 1] : Expansion[n][f] = Expansion[n - 1][f]}
            S == {n \in 0..N : \A f \in Whole[n] : Expansion[n][f] \in Seq(Origins)}
<1>5. 0 \in T
  BY <1>1
<1>6. ASSUME NEW n \in 1..N, n - 1 \in T PROVE n \in T
  <2>. SUFFICES ASSUME NEW f \in Whole[n - 1] PROVE Expansion[n][f] = Expansion[n - 1][f]
    BY <1>1
  <2>1. n - 1 \in 0..N /\ n \in Nat /\ f \in Files
    BY <1>1, <1>2
  <2>2. Expansion[n][f] = Joined(Pieces(Expansion[n - 1], f), Len(source[f]))
    BY <1>1, <2>1, ExpansionStep
  <2>3. CASE n = 1
    BY <1>1, <1>3, <2>1, <2>2, <2>3, ExpansionStep
  <2>4. CASE n > 1
    <3>1. n - 1 \in 1..N /\ (n - 1) - 1 = n - 2
      BY <2>1, <2>4, <1>1
    <3>2. Expansion[n - 1][f] = Joined(Pieces(Expansion[n - 2], f), Len(source[f]))
      BY <1>1, <2>1, <3>1, ExpansionStep
    <3>3. \A k \in FirstIncludes(f) :
             Expansion[n - 1][source[f][k + 1]] = Expansion[n - 2][source[f][k + 1]]
      BY <1>4, <1>6, <3>1
    <3>4. Pieces(Expansion[n - 1], f) = Pieces(Expansion[n - 2], f)
      BY <3>3 DEF Pieces
    <3>. QED
      BY <2>2, <3>2, <3>4
  <2>. QED
    BY <2>1, <2>3, <2>4
<1>7. ASSUME NEW f \in Files, NEW e,
             \A k \in FirstIncludes(f) : e[source[f][k + 1]] \in Seq(Origins)
      PROVE  Joined(Pieces(e, f), Len(source[f])) \in Seq(Origins)
  <2>1. Len(source[f]) \in 1..Len(source[f]) /\ Len(source[f]) \in Nat
    BY <1>1
  <2>2. \A k \in 1..Len(source[f]) : Pieces(e, f)[k] \in Seq(Origins)
    BY <1>7, <2>1, PiecesType
  <2>. DEFINE L == Len(source[f])
              expanded == Pieces(e, f)
  <2>. HIDE DEF S, L, expanded
  <2>3. L \in Nat /\ \A k \in 1..L : expanded[k] \in Seq(Origins)
    BY <2>1, <2>2 DEF L, expanded
  <2>4. \A m \in 0..L : Joined(expanded, m) \in Seq(Origins)
    BY <2>3, JoinedStep
  <2>. QED
    BY <2>3, <2>4 DEF L, expanded
<1>8. 0 \in S
  BY <1>1, <1>3, <1>7, ExpansionStep
<1>9. ASSUME NEW n \in 1..N, n - 1 \in S PROVE n \in S
  <2>. SUFFICES ASSUME NEW f \in Whole[n] PROVE Expansion[n][f] \in Seq(Origins)
    OBVIOUS
  <2>1. f \in Files /\ \A k \in FirstIncludes(f) : Expansion[n - 1][source[f][k + 1]] \in Seq(Origins)
    BY <1>4, <1>9
  <2>2. Expansion[n][f] = Joined(Pieces(Expansion[n - 1], f), Len(source[f]))
    BY <1>1, <2>1, ExpansionStep
  <2>. QED
    BY <1>7, <2>1, <2>2
<1>. HIDE DEF T, S
<1>10. 0..N \subseteq T /\ 0..N \subseteq S
  BY <1>1, <1>5, <1>6, <1>8, <1>9, InductionUpTo
<1>. QED
  BY <1>1, <1>10 DEF T, S

\* What is known of whole files: their inclusions are whole and their text is
\* made of those of the files that they include; nothing in them is wrong.
LEMMA WholeFiles ==
    ASSUME source \in Sources
    PROVE  /\ Whole[N] \subseteq Files
           /\ \A f \in Whole[N] :
                 /\ Expansion[N][f] \in Seq(Origins)
                 /\ Expansion[N][f] = TextUpTo(f, Len(source[f]))
                 /\ ~Wrong(f)
           /\ \A f \in Files :
                 (\A k \in FirstIncludes(f) : source[f][k + 1] \in Whole[N] \ {f}) => f \in Whole[N]
           /\ Root \in Whole[N] => Reached \subseteq Whole[N]
<1>1. N \in Nat \ {0} /\ Root \in Files
  BY FileTypes
<1>2. Whole[N] = AllIncluded(Whole[N])
  BY WholeClosed
<1>3. Whole[N] \subseteq Files
  BY <1>2 DEF AllIncluded
<1>4. ASSUME NEW f \in Whole[N] PROVE Expansion[N][f] \in Seq(Origins)
  BY <1>1, ExpansionOfWhole
<1>5. ASSUME NEW f \in Whole[N] PROVE Expansion[N][f] = TextUpTo(f, Len(source[f]))
  <2>1. Expansion[N][f] = Joined(Pieces(Expansion[N - 1], f), Len(source[f]))
    BY <1>1, <1>3, ExpansionStep
  <2>2. \A k \in FirstIncludes(f) : source[f][k + 1] \in Whole[N - 1]
    BY <1>1, WholeStep DEF AllIncluded
  <2>3. \A g \in Whole[N - 1] : Expansion[N][g] = Expansion[N - 1][g]
    BY <1>1, ExpansionOfWhole
  <2>4. Pieces(Expansion[N - 1], f) = Pieces(Expansion[N], f)
    BY <2>2, <2>3 DEF Pieces
  <2>. QED
    BY <2>1, <2>4 DEF TextUpTo
<1>6. ASSUME NEW f \in Whole[N] PROVE ~Wrong(f)
  BY <1>2, <1>3 DEF Wrong, AllIncluded, Files
<1>7. ASSUME NEW f \in Files, \A k \in FirstIncludes(f) : source[f][k + 1] \in Whole[N] \ {f}
      PROVE  f \in Whole[N]
  BY <1>2, <1>7 DEF AllIncluded
<1>8. ASSUME Root \in Whole[N] PROVE Reached \subseteq Whole[N]
  <2>. DEFINE T == {n \in 0..N : ReachedIn[n][Root] \subseteq Whole[N]}
  <2>1. 0 \in T
    BY <1>1, <1>8, ReachedInStep
  <2>2. ASSUME NEW n \in 1..N, n - 1 \in T PROVE n \in T
    <3>1. ReachedIn[n][Root] = UNION {IncludedBy(g) \cap Files : g \in ReachedIn[n - 1][Root]}
      BY <1>1, ReachedInStep
    <3>2. \A g \in Whole[N] : IncludedBy(g) \subseteq Whole[N]
      BY <1>2 DEF IncludedBy, AllIncluded
    <3>. QED
      BY <2>2, <3>1, <3>2
  <2>. HIDE DEF T
  <2>3. 0..N \subseteq T
    BY <1>1, <2>1, <2>2, InductionUpTo
  <2>. QED
    BY <2>3 DEF T, Reached, N
<1>. QED
  BY <1>3, <1>4, <1>5, <1>6, <1>7, <1>8

\* One more token of a file of which the inclusions so far are whole.
LEMMA TextStep ==
    ASSUME source \in Sources, NEW f \in Files, NEW p \in 1..Len(source[f]),
           \A k \in FirstIncludes(f) : k <= p => source[f][k + 1] \in Whole[N]
    PROVE  /\ TextUpTo(f, p) = TextUpTo(f, p - 1) \o Pieces(Expansion[N], f)[p]
           /\ TextUpTo(f, p - 1) \in Seq(Origins)
           /\ Pieces(Expansion[N], f)[p] \in Seq(Origins)
           /\ TextUpTo(f, 0) = <<>>
<1>. DEFINE expanded == Pieces(Expansion[N], f)
<1>1. p \in Nat \ {0} /\ p \in 1..p /\ p - 1 \in 0..p
  BY FileTypes
<1>2. \A k \in FirstIncludes(f) : k <= p => Expansion[N][source[f][k + 1]] \in Seq(Origins)
  BY WholeFiles
<1>3. \A k \in 1..p : expanded[k] \in Seq(Origins)
  BY <1>2, PiecesType
<1>. HIDE DEF expanded
<1>4. /\ Joined(expanded, 0) = <<>>
      /\ \A m \in 1..p : Joined(expanded, m) = Joined(expanded, m - 1) \o expanded[m]
      /\ \A m \in 0..p : Joined(expanded, m) \in Seq(Origins)
  BY <1>1, <1>3, JoinedStep
<1>5. /\ Joined(expanded, 0) = <<>> /\ Joined(expanded, p) = Joined(expanded, p - 1) \o expanded[p]
      /\ Joined(expanded, p - 1) \in Seq(Origins) /\ expanded[p] \in Seq(Origins)
  BY <1>1, <1>3, <1>4
<1>. QED
  BY <1>5 DEF expanded, TextUpTo

-----------------------------------------------------------------------------
(* The stack of calls.                                                     *)

\* Another frame for the one on top.
LEMMA TopReplaced ==
    ASSUME NEW F, NEW s \in Seq(F), Len(s) >= 1, NEW x \in F
    PROVE  LET t == [s EXCEPT ![Len(s)] = x]
           IN  /\ t \in Seq(F) /\ Len(t) = Len(s) /\ t[Len(s)] = x
               /\ \A k \in 1..(Len(s) - 1) : t[k] = s[k]
<1>1. Len(s) \in Nat
  BY LenProperties
<1>2. Len(s) \in 1..Len(s)
  BY <1>1
<1>. QED
  BY <1>1, <1>2, ExceptSeq

\* A frame put on top.
LEMMA TopPushed ==
    ASSUME NEW F, NEW s \in Seq(F), NEW y \in F
    PROVE  LET t == Append(s, y)
           IN  /\ t \in Seq(F) /\ Len(t) = Len(s) + 1 /\ t[Len(s) + 1] = y
               /\ \A k \in 1..Len(s) : t[k] = s[k]
BY AppendProperties

\* The two frames on top replaced by one.
LEMMA TopLeft ==
    ASSUME NEW F, NEW s \in Seq(F), Len(s) > 1, NEW x \in F
    PROVE  LET t == Append(SubSeq(s, 1, Len(s) - 2), x)
           IN  /\ t \in Seq(F) /\ Len(t) = Len(s) - 1 /\ t[Len(s) - 1] = x
               /\ \A k \in 1..(Len(s) - 2) : t[k] = s[k]
<1>. DEFINE n == Len(s) - 2
            r == SubSeq(s, 1, n)
<1>1. n \in Nat /\ Len(s) = n + 2 /\ Len(s) \in Nat
  BY LenProperties
<1>2. \A k \in 1..n : s[k] \in F
  BY <1>1, ElementOfSeq
<1>3. r \in Seq(F) /\ Len(r) = n /\ \A k \in 1..n : r[k] = s[k]
  BY <1>1, <1>2, SubSeqProperties
<1>. HIDE DEF r, n
<1>4. /\ Append(r, x) \in Seq(F) /\ Len(Append(r, x)) = n + 1 /\ Append(r, x)[n + 1] = x
      /\ \A k \in 1..n : Append(r, x)[k] = s[k]
  BY <1>3, AppendProperties
<1>5. Len(s) - 2 = n /\ Len(s) - 1 = n + 1
  BY <1>1
<1>. QED
  BY <1>4, <1>5 DEF r

\* A call on the stack.
Frames == [file : Files, c : Nat, output : Seq(Origins), included : SUBSET Names]

\* The callers rest on a token: the name of the file that they included.
CallsTyped ==
    /\ frames \in Seq(Frames)
    /\ \A k \in 1..(Depth - 1) : frames[k].c <= Len(source[frames[k].file])

\* The inductive invariant of the type invariant.
TypeInv == TypeOK /\ CallsTyped

\* The call on top, and a token that is a directive.
LEMMA TopTypes ==
    ASSUME TypeInv
    PROVE  /\ Depth \in Nat \ {0} /\ Depth <= MaxDepth /\ MaxDepth \in Nat
           /\ source \in Sources
           /\ Top \in Frames /\ Top.file \in Files
           /\ Top.c \in Nat \ {0} /\ Top.c <= Len(Code) + 1 /\ Len(Code) \in Nat \ {0}
           /\ Top.output \in Seq(Origins) /\ Top.included \subseteq Names
           /\ ~AtEnd => /\ <<Top.file, Top.c>> \in Origins
                        /\ Code[Top.c] = "include_" => Top.c < Len(Code)
<1>1. /\ Depth \in Nat \ {0} /\ Depth <= MaxDepth /\ MaxDepth \in Nat
      /\ Depth \in 1..Depth /\ source \in Sources
  BY SourcesAssumption DEF TypeInv, TypeOK
<1>2. Top \in Frames
  <2>. DEFINE F == Frames
  <2>1. frames \in Seq(F)
    BY DEF TypeInv, CallsTyped
  <2>. HIDE DEF F
  <2>2. Top \in F
    BY <1>1, <2>1, ElementOfSeq DEF Top, Depth
  <2>. QED
    BY <2>2 DEF F
<1>3. /\ Top.file \in Files /\ Top.c \in 1..(Len(Code) + 1)
      /\ Top.output \in Seq(Origins) /\ Top.included \subseteq Names
  BY <1>1 DEF TypeInv, TypeOK, Top, Code, Files
<1>4. Len(Code) \in Nat \ {0} /\ ~IsDirective(Top.file, Len(Code))
  BY <1>1, <1>3, FileTypes DEF Code
<1>5. ASSUME ~AtEnd
      PROVE  /\ <<Top.file, Top.c>> \in Origins
             /\ Code[Top.c] = "include_" => Top.c < Len(Code)
  <2>1. Top.c \in 1..Len(Code)
    BY <1>3, <1>4, <1>5 DEF AtEnd
  <2>2. <<Top.file, Top.c>> \in Origins
    BY <1>3, <2>1 DEF Origins, Code, Files
  <2>3. Code[Top.c] = "include_" => Top.c # Len(Code)
    BY <1>4 DEF IsDirective, Code
  <2>. QED
    BY <1>4, <2>1, <2>2, <2>3
<1>. QED
  BY <1>1, <1>2, <1>3, <1>4, <1>5

\* What is to be shown of the stack after a step.
LEMMA TypeOfStack ==
    ASSUME TypeInv, source' = source, verdict' \in {"none", "preprocessed", "failed"},
           frames' \in Seq(Frames), NEW d \in 1..MaxDepth, Len(frames') = d,
           frames'[1].file = Root, frames'[d].c \in 1..(Len(source[frames'[d].file]) + 1),
           \A k \in 1..(d - 1) : frames'[k].c \in 1..Len(source[frames'[k].file])
    PROVE  TypeInv'
<1>. DEFINE F == Frames
<1>1. frames' \in Seq(F) /\ F' = F /\ Depth' = d /\ Origins' = Origins
  BY DEF Frames, Files, Origins, Depth
<1>2. \A k \in 1..d : frames'[k] \in F
  <2>. HIDE DEF F
  <2>. QED
    BY <1>1, ElementOfSeq
<1>3. d \in Nat \ {0} /\ source \in Sources
  BY SourcesAssumption DEF TypeInv, TypeOK
<1>4. ASSUME NEW k \in 1..d
      PROVE  /\ frames'[k].file \in Files
             /\ frames'[k].c \in 1..(Len(source[frames'[k].file]) + 1)
             /\ frames'[k].included \subseteq Names
             /\ frames'[k].output \in Seq(Origins)
  <2>1. /\ frames'[k].file \in Files /\ frames'[k].included \subseteq Names
        /\ frames'[k].output \in Seq(Origins)
    BY <1>2 DEF Frames
  <2>2. Len(source[frames'[k].file]) \in Nat
    BY <1>3, <2>1, FileTypes
  <2>3. k = d \/ k \in 1..(d - 1)
    BY <1>3
  <2>. QED
    BY <2>1, <2>2, <2>3
<1>5. TypeOK'
  <2>1. source' \in Sources
    BY <1>3
  <2>2. /\ Depth' \in 1..MaxDepth
        /\ \A k \in 1..Depth' :
              /\ frames'[k].file \in DOMAIN source'
              /\ frames'[k].c \in 1..(Len(source'[frames'[k].file]) + 1)
              /\ frames'[k].included \subseteq Names
              /\ frames'[k].output \in Seq(Origins')
    BY <1>1, <1>4 DEF Files
  <2>. QED
    BY <2>1, <2>2 DEF TypeOK
<1>6. CallsTyped'
  <2>1. \A k \in 1..(d - 1) : frames'[k].c <= Len(source[frames'[k].file])
    <3>. TAKE k \in 1..(d - 1)
    <3>1. Len(source[frames'[k].file]) \in Nat
      BY <1>2, <1>3, FileTypes DEF Frames
    <3>. QED
      BY <3>1
  <2>. QED
    BY <1>1, <2>1 DEF CallsTyped
<1>. QED
  BY <1>5, <1>6 DEF TypeInv

\* What is known of the stack before it.
LEMMA StackTypes ==
    ASSUME TypeInv
    PROVE  /\ frames \in Seq(Frames) /\ frames[1].file = Root
           /\ \A k \in 1..(Depth - 1) :
                 /\ frames[k] \in Frames
                 /\ frames[k].c \in 1..Len(source[frames[k].file])
<1>. DEFINE F == Frames
<1>1. frames \in Seq(F) /\ frames[1].file = Root /\ source \in Sources
  BY DEF TypeInv, TypeOK, CallsTyped
<1>2. ASSUME NEW k \in 1..(Depth - 1)
      PROVE  frames[k] \in F /\ frames[k].c \in 1..Len(source[frames[k].file])
  <2>1. k \in 1..Depth
    BY TopTypes
  <2>2. frames[k] \in F
    <3>. HIDE DEF F
    <3>. QED
      BY <1>1, <2>1, ElementOfSeq DEF Depth
  <2>3. Len(source[frames[k].file]) \in Nat
    BY <1>1, <2>2, FileTypes
  <2>4. frames[k].c \in 1..(Len(source[frames[k].file]) + 1)
        /\ frames[k].c <= Len(source[frames[k].file])
    BY <2>1 DEF TypeInv, TypeOK, CallsTyped
  <2>. QED
    BY <2>2, <2>3, <2>4
<1>. QED
  BY <1>1, <1>2

\* The three things that steps do to the stack.
LEMMA StackAfterTop ==
    ASSUME TypeInv, NEW fr \in Frames, frames' = [frames EXCEPT ![Depth] = fr]
    PROVE  /\ frames' \in Seq(Frames) /\ Len(frames') = Depth /\ frames'[Depth] = fr
           /\ \A k \in 1..(Depth - 1) : frames'[k] = frames[k]
<1>. DEFINE F == Frames
<1>1. frames \in Seq(F) /\ fr \in F /\ Depth \in Nat \ {0}
  BY StackTypes, TopTypes
<1>. HIDE DEF F
<1>2. /\ frames' \in Seq(F) /\ Len(frames') = Depth /\ frames'[Depth] = fr
      /\ \A k \in 1..(Depth - 1) : frames'[k] = frames[k]
  BY <1>1, TopReplaced DEF Depth
<1>. QED
  BY <1>2 DEF F

\* The stack of calls after one is entered.
LEMMA StackAfterEnter ==
    ASSUME TypeInv, NEW fr \in Frames, NEW call \in Frames,
           frames' = Append([frames EXCEPT ![Depth] = fr], call)
    PROVE  /\ frames' \in Seq(Frames) /\ Len(frames') = Depth + 1
           /\ frames'[Depth] = fr /\ frames'[Depth + 1] = call
           /\ \A k \in 1..(Depth - 1) : frames'[k] = frames[k]
<1>. DEFINE F == Frames
            s == [frames EXCEPT ![Depth] = fr]
<1>1. frames \in Seq(F) /\ fr \in F /\ call \in F /\ Depth \in Nat \ {0}
  BY StackTypes, TopTypes
<1>. HIDE DEF F
<1>2. /\ s \in Seq(F) /\ Len(s) = Depth /\ s[Depth] = fr
      /\ \A k \in 1..(Depth - 1) : s[k] = frames[k]
  BY <1>1, TopReplaced DEF Depth
<1>. HIDE DEF s
<1>3. /\ Append(s, call) \in Seq(F) /\ Len(Append(s, call)) = Depth + 1
      /\ Append(s, call)[Depth + 1] = call
      /\ \A k \in 1..Depth : Append(s, call)[k] = s[k]
  BY <1>1, <1>2, TopPushed
<1>4. \A k \in 1..(Depth - 1) : k \in 1..Depth
  BY <1>1
<1>5. Depth \in 1..Depth
  BY <1>1
<1>. QED
  BY <1>2, <1>3, <1>4, <1>5 DEF F, s

\* The stack of calls after one returns.
LEMMA StackAfterLeave ==
    ASSUME TypeInv, Depth > 1, NEW fr \in Frames,
           frames' = Append(SubSeq(frames, 1, Depth - 2), fr)
    PROVE  /\ frames' \in Seq(Frames) /\ Len(frames') = Depth - 1 /\ frames'[Depth - 1] = fr
           /\ \A k \in 1..(Depth - 2) : frames'[k] = frames[k]
<1>. DEFINE F == Frames
<1>1. frames \in Seq(F) /\ fr \in F /\ Len(frames) > 1
  BY StackTypes DEF Depth
<1>. HIDE DEF F
<1>2. /\ frames' \in Seq(F) /\ Len(frames') = Depth - 1 /\ frames'[Depth - 1] = fr
      /\ \A k \in 1..(Depth - 2) : frames'[k] = frames[k]
  BY <1>1, TopLeft DEF Depth
<1>. QED
  BY <1>2 DEF F

\* A step that changes the call on top only.
LEMMA TypeOfTop ==
    ASSUME TypeInv, NEW fr \in Frames, SetTop(fr),
           fr.file = Top.file, fr.c >= 1, fr.c <= Len(Code) + 1
    PROVE  TypeInv'
<1>1. /\ frames[1].file = Root
      /\ \A k \in 1..(Depth - 1) : frames[k].c \in 1..Len(source[frames[k].file])
  BY StackTypes
<1>2. /\ Depth \in Nat \ {0} /\ Depth <= MaxDepth /\ MaxDepth \in Nat
      /\ Len(Code) \in Nat /\ fr.c \in Nat
  BY TopTypes DEF Frames
<1>3. /\ frames' \in Seq(Frames) /\ Len(frames') = Depth /\ frames'[Depth] = fr
      /\ \A k \in 1..(Depth - 1) : frames'[k] = frames[k]
  BY StackAfterTop DEF SetTop
<1>4. frames'[1].file = Root
  BY <1>1, <1>2, <1>3 DEF Top
<1>5. frames'[Depth].c \in 1..(Len(source[frames'[Depth].file]) + 1)
  BY <1>2, <1>3 DEF Code
<1>6. source' = source /\ verdict' \in {"none", "preprocessed", "failed"}
  BY DEF SetTop, TypeInv, TypeOK
<1>. QED
  BY <1>1, <1>2, <1>3, <1>4, <1>5, <1>6, TypeOfStack

\* The frames that steps make.
FrameType(texts) == [file : Files, c : Nat, output : texts, included : SUBSET Names]

\* The call that is entered.
LEMMA NewFrame ==
    ASSUME NEW f \in Files
    PROVE  /\ Call(f) \in Frames /\ Call(f).file = f /\ Call(f).c = 1
           /\ Call(f).included = {} /\ Call(f).output = <<>>
<1>. DEFINE texts == Seq(Origins)
<1>1. <<>> \in texts /\ Frames = FrameType(texts)
  BY DEF Frames, FrameType
<1>. HIDE DEF texts
<1>. QED
  BY <1>1 DEF Call, FrameType

\* A call with its cursor moved.
LEMMA MovedFrame ==
    ASSUME NEW fr \in Frames, NEW c \in Nat, NEW r, r = [fr EXCEPT !.c = c]
    PROVE  /\ r \in Frames /\ r.file = fr.file /\ r.c = c
           /\ r.output = fr.output /\ r.included = fr.included
<1>. DEFINE texts == Seq(Origins)
<1>1. Frames = FrameType(texts)
  BY DEF Frames, FrameType
<1>. HIDE DEF texts
<1>. QED
  BY <1>1 DEF FrameType

\* The frames that each action leaves behind.
LEMMA CopyStep ==
    ASSUME TypeInv, CopyToken
    PROVE  \E fr \in Frames :
              /\ SetTop(fr) /\ fr.file = Top.file /\ fr.c = Top.c + 1
              /\ fr.output = Append(Top.output, <<Top.file, Top.c>>)
              /\ fr.included = Top.included
<1>. DEFINE o  == Append(Top.output, <<Top.file, Top.c>>)
            n  == Top.c + 1
            fr == [Top EXCEPT !.output = o, !.c = n]
<1>1. o \in Seq(Origins) /\ Top \in Frames /\ n \in Nat
  BY TopTypes, AppendProperties DEF CopyToken, Running
<1>2. SetTop(fr)
  BY DEF CopyToken
<1>. HIDE DEF fr
<1>3. /\ fr \in Frames /\ fr.file = Top.file /\ fr.c = n
      /\ fr.output = o /\ fr.included = Top.included
  <2>1. fr = [Top EXCEPT !.output = o, !.c = n]
    BY DEF fr
  <2>. DEFINE texts == Seq(Origins)
  <2>2. Frames = FrameType(texts) /\ o \in texts
    BY <1>1 DEF Frames, FrameType
  <2>. HIDE DEF o, n, texts
  <2>. QED
    BY <1>1, <2>1, <2>2 DEF FrameType
<1>. QED
  BY <1>2, <1>3 DEF o, n

\* A directive whose file is included already.
LEMMA IgnoreStep ==
    ASSUME TypeInv, AlreadyIncluded
    PROVE  \E fr \in Frames :
              /\ SetTop(fr) /\ fr.file = Top.file /\ fr.c = Top.c + 2
              /\ fr.output = Top.output /\ fr.included = Top.included
<1>. DEFINE fr == [Top EXCEPT !.c = Top.c + 2]
<1>1. Top \in Frames /\ Top.c + 2 \in Nat
  BY TopTypes
<1>2. SetTop(fr)
  BY DEF AlreadyIncluded
<1>3. /\ fr \in Frames /\ fr.file = Top.file /\ fr.c = Top.c + 2
      /\ fr.output = Top.output /\ fr.included = Top.included
  BY <1>1, MovedFrame
<1>. QED
  BY <1>2, <1>3

\* A call entered.
LEMMA EnterStep ==
    ASSUME TypeInv, EnterFile
    PROVE  \E fr \in Frames :
              /\ frames' = Append([frames EXCEPT ![Depth] = fr], Call(Named))
              /\ fr.file = Top.file /\ fr.c = Top.c + 1 /\ fr.output = Top.output
              /\ fr.included = Top.included \cup {Named}
              /\ Call(Named) \in Frames /\ Call(Named).file = Named /\ Call(Named).c = 1
<1>. DEFINE i  == Top.included \cup {Named}
            n  == Top.c + 1
            fr == [Top EXCEPT !.included = i, !.c = n]
<1>1. i \in SUBSET Names /\ Top \in Frames /\ n \in Nat /\ Named \in Files
  BY TopTypes DEF EnterFile, NewInclude, Files
<1>2. frames' = Append([frames EXCEPT ![Depth] = fr], Call(Named))
  BY DEF EnterFile
<1>. HIDE DEF fr
<1>3. /\ fr \in Frames /\ fr.file = Top.file /\ fr.c = n
      /\ fr.output = Top.output /\ fr.included = i
  <2>1. fr = [Top EXCEPT !.included = i, !.c = n]
    BY DEF fr
  <2>. DEFINE texts == Seq(Origins)
  <2>2. Frames = FrameType(texts)
    BY <1>1 DEF Frames, FrameType
  <2>. HIDE DEF i, n, texts
  <2>. QED
    BY <1>1, <2>1, <2>2 DEF FrameType
<1>. QED
  BY <1>1, <1>2, <1>3, NewFrame DEF i, n

\* A call left.
LEMMA LeaveStep ==
    ASSUME TypeInv, LeaveFile
    PROVE  \E fr \in Frames :
              /\ frames' = Append(SubSeq(frames, 1, Depth - 2), fr)
              /\ fr.file = frames[Depth - 1].file /\ fr.c = frames[Depth - 1].c + 1
              /\ fr.output = frames[Depth - 1].output \o Top.output
              /\ fr.included = frames[Depth - 1].included
<1>. DEFINE caller == frames[Depth - 1]
            o  == caller.output \o Top.output
            n  == caller.c + 1
            fr == [caller EXCEPT !.output = o, !.c = n]
<1>1. Depth - 1 \in 1..(Depth - 1)
  BY TopTypes DEF LeaveFile
<1>2. caller \in Frames
  BY <1>1, StackTypes
<1>3. n \in Nat /\ caller.output \in Seq(Origins) /\ Top.output \in Seq(Origins)
  BY <1>2, TopTypes DEF Frames
<1>4. o \in Seq(Origins)
  BY <1>3, ConcatProperties
<1>5. frames' = Append(SubSeq(frames, 1, Depth - 2), fr)
  BY DEF LeaveFile
<1>. HIDE DEF fr
<1>6. /\ fr \in Frames /\ fr.file = caller.file /\ fr.c = n
      /\ fr.output = o /\ fr.included = caller.included
  <2>1. fr = [caller EXCEPT !.output = o, !.c = n]
    BY DEF fr
  <2>. DEFINE texts == Seq(Origins)
  <2>2. Frames = FrameType(texts) /\ o \in texts
    BY <1>2, <1>3, <1>4 DEF Frames, FrameType
  <2>. HIDE DEF o, n, caller, texts
  <2>. QED
    BY <1>2, <1>3, <1>4, <2>1, <2>2 DEF FrameType
<1>. QED
  BY <1>5, <1>6 DEF o, n, caller

\* Types are kept, and the frames stay calls on files that can be loaded.
LEMMA TypesKept == TypeInv /\ [Next]_vars => TypeInv'
<1>. SUFFICES ASSUME TypeInv, [Next]_vars PROVE TypeInv'
  OBVIOUS
<1>1. /\ Depth \in Nat \ {0} /\ Depth <= MaxDepth /\ MaxDepth \in Nat
      /\ Top.c \in Nat \ {0} /\ Len(Code) \in Nat \ {0} /\ Top.c <= Len(Code) + 1
      /\ ~AtEnd /\ Code[Top.c] = "include_" => Top.c < Len(Code)
  BY TopTypes
<1>2. /\ frames \in Seq(Frames) /\ frames[1].file = Root
      /\ \A k \in 1..(Depth - 1) :
            frames[k] \in Frames /\ frames[k].c \in 1..Len(source[frames[k].file])
  BY StackTypes
<1>3. CASE CopyToken
  <2>1. Top.c + 1 >= 1 /\ Top.c + 1 <= Len(Code) + 1
    BY <1>1, <1>3 DEF CopyToken, Running, AtEnd
  <2>. QED
    BY <1>3, <2>1, CopyStep, TypeOfTop
<1>4. CASE AlreadyIncluded
  <2>1. Top.c + 2 >= 1 /\ Top.c + 2 <= Len(Code) + 1
    BY <1>1, <1>4 DEF AlreadyIncluded, OnInclude, Running
  <2>. QED
    BY <1>4, <2>1, IgnoreStep, TypeOfTop
<1>5. CASE EnterFile
  <2>1. PICK fr \in Frames :
           /\ frames' = Append([frames EXCEPT ![Depth] = fr], Call(Named))
           /\ fr.file = Top.file /\ fr.c = Top.c + 1
           /\ Call(Named) \in Frames /\ Call(Named).file = Named /\ Call(Named).c = 1
    BY <1>5, EnterStep
  <2>2. /\ frames' \in Seq(Frames) /\ Len(frames') = Depth + 1
        /\ frames'[Depth] = fr /\ frames'[Depth + 1] = Call(Named)
        /\ \A k \in 1..(Depth - 1) : frames'[k] = frames[k]
    BY <2>1, StackAfterEnter
  <2>3. Depth + 1 \in 1..MaxDepth /\ source' = source /\ verdict' = verdict
    BY <1>1, <1>5 DEF EnterFile
  <2>4. frames'[1].file = Root
    BY <1>1, <1>2, <2>1, <2>2 DEF Top
  <2>5. Len(source[Named]) \in Nat
    BY <1>5, FileTypes DEF TypeInv, TypeOK, EnterFile, Files
  <2>6. frames'[Depth + 1].c \in 1..(Len(source[frames'[Depth + 1].file]) + 1)
    BY <2>1, <2>2, <2>5
  <2>7. fr.c \in 1..Len(source[fr.file])
    BY <1>1, <1>5, <2>1 DEF EnterFile, NewInclude, OnInclude, Running, Code
  <2>8. \A k \in 1..((Depth + 1) - 1) : frames'[k].c \in 1..Len(source[frames'[k].file])
    <3>. TAKE k \in 1..((Depth + 1) - 1)
    <3>1. k = Depth \/ k \in 1..(Depth - 1)
      BY <1>1
    <3>. QED
      BY <1>2, <2>2, <2>7, <3>1
  <2>9. verdict' \in {"none", "preprocessed", "failed"}
    BY <2>3 DEF TypeInv, TypeOK
  <2>. QED
    BY <2>2, <2>3, <2>4, <2>6, <2>8, <2>9, TypeOfStack
<1>6. CASE LeaveFile
  <2>1. PICK fr \in Frames :
           /\ frames' = Append(SubSeq(frames, 1, Depth - 2), fr)
           /\ fr.file = frames[Depth - 1].file /\ fr.c = frames[Depth - 1].c + 1
    BY <1>6, LeaveStep
  <2>2. Depth > 1 /\ source' = source /\ verdict' = verdict
    BY <1>6 DEF LeaveFile
  <2>3. /\ frames' \in Seq(Frames) /\ Len(frames') = Depth - 1 /\ frames'[Depth - 1] = fr
        /\ \A k \in 1..(Depth - 2) : frames'[k] = frames[k]
    BY <2>1, <2>2, StackAfterLeave
  <2>4. Depth - 1 \in 1..MaxDepth /\ Depth - 1 \in 1..(Depth - 1)
    BY <1>1, <2>2
  <2>5. frames'[1].file = Root
    <3>1. Depth - 1 = 1 \/ 1 \in 1..(Depth - 2)
      BY <1>1, <2>2
    <3>. QED
      BY <1>2, <2>1, <2>3, <3>1
  <2>6. Len(source[fr.file]) \in Nat
    <3>1. fr.file \in Files
      BY DEF Frames
    <3>. QED
      BY <3>1, FileTypes DEF TypeInv, TypeOK
  <2>7. fr.c \in 1..(Len(source[fr.file]) + 1)
    <3>1. frames[Depth - 1].c \in 1..Len(source[fr.file])
      BY <1>2, <2>1, <2>4
    <3>. QED
      BY <2>1, <2>6, <3>1
  <2>8. \A k \in 1..((Depth - 1) - 1) : frames'[k].c \in 1..Len(source[frames'[k].file])
    <3>. TAKE k \in 1..((Depth - 1) - 1)
    <3>1. k \in 1..(Depth - 1) /\ k \in 1..(Depth - 2)
      BY <1>1
    <3>. QED
      BY <1>2, <2>3, <3>1
  <2>9. verdict' \in {"none", "preprocessed", "failed"}
    BY <2>2 DEF TypeInv, TypeOK
  <2>. QED
    BY <2>2, <2>3, <2>4, <2>5, <2>7, <2>8, <2>9, TypeOfStack
<1>7. CASE NotNamed \/ IncludeSelf \/ LoadFails
  <2>1. source' = source /\ verdict' = "failed" /\ frames' = <<Head(frames)>>
    BY <1>7 DEF NotNamed, IncludeSelf, LoadFails, Fail
  <2>2. Head(frames) = frames[1] /\ frames[1] \in Frames
    <3>. DEFINE F == Frames
    <3>1. frames \in Seq(F) /\ 1 \in 1..Len(frames)
      BY <1>1, <1>2 DEF Depth
    <3>. HIDE DEF F
    <3>2. frames[1] \in F
      BY <3>1, ElementOfSeq
    <3>. QED
      BY <3>2 DEF F
  <2>3. frames' \in Seq(Frames) /\ Len(frames') = 1 /\ frames'[1] = frames[1]
    <3>. DEFINE F == Frames
    <3>1. frames[1] \in F
      BY <2>2
    <3>. HIDE DEF F
    <3>2. <<frames[1]>> \in Seq(F) /\ Len(<<frames[1]>>) = 1 /\ <<frames[1]>>[1] = frames[1]
      BY <3>1
    <3>. QED
      BY <2>1, <2>2, <3>2 DEF F
  <2>4. frames[1].c \in 1..(Len(source[frames[1].file]) + 1)
    BY <1>1 DEF TypeInv, TypeOK
  <2>5. 1 \in 1..MaxDepth
    BY <1>1
  <2>. QED
    BY <1>2, <2>1, <2>3, <2>4, <2>5, TypeOfStack
<1>8. CASE Finish \/ UNCHANGED vars
  <2>1. source' = source /\ frames' = frames /\ verdict' \in {"none", "preprocessed", "failed"}
    BY <1>8 DEF Finish, vars, TypeInv, TypeOK
  <2>2. frames[Depth].c \in 1..(Len(source[frames[Depth].file]) + 1)
    BY <1>1 DEF TypeInv, TypeOK
  <2>3. Depth \in 1..MaxDepth /\ Len(frames') = Depth
    BY <1>1, <2>1 DEF Depth
  <2>. QED
    BY <1>2, <2>1, <2>2, <2>3, TypeOfStack
<1>. QED
  BY <1>3, <1>4, <1>5, <1>6, <1>7, <1>8 DEF Next

\* It holds of the outermost call alone.
LEMMA TypesAtFirst == Init => TypeInv
<1>. SUFFICES ASSUME Init PROVE TypeInv
  OBVIOUS
<1>1. source \in Sources /\ frames = <<Call(Root)>> /\ verdict = "none"
  BY DEF Init
<1>2. Root \in Files /\ Len(source[Root]) \in Nat
  BY <1>1, FileTypes
<1>3. <<>> \in Seq(Origins)
  OBVIOUS
<1>4. /\ Call(Root) \in Frames /\ Call(Root).file = Root /\ Call(Root).c = 1
      /\ Call(Root).included = {} /\ Call(Root).output = <<>>
  BY <1>2, NewFrame
<1>5. frames \in Seq(Frames) /\ Depth = 1 /\ frames[1] = Call(Root)
  <2>. DEFINE F == Frames
  <2>1. Call(Root) \in F
    BY <1>4
  <2>. HIDE DEF F
  <2>2. <<Call(Root)>> \in Seq(F) /\ Len(<<Call(Root)>>) = 1 /\ <<Call(Root)>>[1] = Call(Root)
    BY <2>1
  <2>. QED
    BY <1>1, <2>2 DEF Depth, F
<1>6. CallsTyped
  BY <1>5 DEF CallsTyped
<1>7. \A k \in 1..Depth :
          /\ frames[k].file \in DOMAIN source
          /\ frames[k].c \in 1..(Len(source[frames[k].file]) + 1)
          /\ frames[k].included \subseteq Names
          /\ frames[k].output \in Seq(Origins)
  <2>. TAKE k \in 1..Depth
  <2>1. k = 1
    BY <1>5
  <2>2. frames[k] = Call(Root) /\ 1 \in 1..(Len(source[Root]) + 1)
    BY <1>2, <1>5, <2>1
  <2>. QED
    BY <1>2, <1>3, <1>4, <2>2 DEF Files
<1>8. 1 \in 1..MaxDepth
  BY SourcesAssumption
<1>. QED
  BY <1>1, <1>4, <1>5, <1>6, <1>7, <1>8 DEF TypeInv, TypeOK

\* Every call is one of a file that can be loaded, its cursor stays at or right
\* behind its tokens, and what is put out are tokens of the files.
THEOREM PreprocessorTypeOK == Spec => []TypeOK
<1>1. Init => TypeInv
  BY TypesAtFirst
<1>2. TypeInv /\ [Next]_vars => TypeInv'
  BY TypesKept
<1>3. TypeInv => TypeOK
  BY DEF TypeInv
<1>. QED
  BY <1>1, <1>2, <1>3, PTL DEF Spec

-----------------------------------------------------------------------------
(* What is put out.                                                        *)

\* The names that the directives before p give.
NamesBefore(f, p) == {source[f][k + 1] : k \in {k \in 1..(p - 1) : IsDirective(f, k)}}

\* The directives that count are those of a new name.
LEMMA FirstByNames ==
    ASSUME source \in Sources, NEW f \in Files, NEW p \in 1..Len(source[f]), IsDirective(f, p)
    PROVE  /\ p < Len(source[f])
           /\ p \in FirstIncludes(f) <=> source[f][p + 1] \notin NamesBefore(f, p)
<1>1. Len(source[f]) \in Nat /\ ~IsDirective(f, Len(source[f]))
  BY FileTypes
<1>2. p < Len(source[f])
  BY <1>1
<1>3. p \in 1..(Len(source[f]) - 1)
  BY <1>1, <1>2
<1>. QED
  BY <1>2, <1>3 DEF FirstIncludes, NamesBefore

\* What is known of f when its tokens before p are read and all is well so far.
ReadWell(f, p) ==
    /\ p > 1 => ~IsDirective(f, p - 1)
    /\ NamesBefore(f, p) \subseteq Whole[N] \ {f}

\* A token that is not a directive.
LEMMA ReadToken ==
    ASSUME source \in Sources, NEW f \in Files, NEW p \in 1..Len(source[f]),
           ReadWell(f, p), ~IsDirective(f, p)
    PROVE  /\ ReadWell(f, p + 1) /\ NamesBefore(f, p + 1) = NamesBefore(f, p)
           /\ TextUpTo(f, p) = Append(TextUpTo(f, p - 1), <<f, p>>)
<1>1. Len(source[f]) \in Nat /\ p \in Nat
  BY FileTypes
<1>2. NamesBefore(f, p + 1) = NamesBefore(f, p)
  <2>1. {k \in 1..((p + 1) - 1) : IsDirective(f, k)} = {k \in 1..(p - 1) : IsDirective(f, k)}
    BY <1>1
  <2>. QED
    BY <2>1 DEF NamesBefore
<1>3. p \notin FirstIncludes(f)
  BY DEF FirstIncludes
<1>4. ASSUME NEW k \in FirstIncludes(f), k <= p PROVE source[f][k + 1] \in Whole[N]
  <2>1. k \in 1..(p - 1) /\ IsDirective(f, k)
    BY <1>1, <1>3, <1>4 DEF FirstIncludes
  <2>. QED
    BY <2>1 DEF ReadWell, NamesBefore
<1>5. /\ TextUpTo(f, p) = TextUpTo(f, p - 1) \o Pieces(Expansion[N], f)[p]
      /\ TextUpTo(f, p - 1) \in Seq(Origins)
  BY <1>4, TextStep
<1>6. Pieces(Expansion[N], f)[p] = <<<<f, p>>>>
  BY <1>3 DEF Pieces, ReadWell
<1>7. <<f, p>> \in Origins
  BY DEF Origins, Files
<1>8. TextUpTo(f, p - 1) \o <<<<f, p>>>> = Append(TextUpTo(f, p - 1), <<f, p>>)
  <2>. DEFINE s == TextUpTo(f, p - 1)
              e == <<f, p>>
  <2>1. s \in Seq(Origins) /\ e \in Origins
    BY <1>5, <1>7
  <2>. HIDE DEF s, e
  <2>2. s \o <<e>> = Append(s, e)
    BY <2>1, AppendIsConcat
  <2>. QED
    BY <2>2 DEF s, e
<1>9. ReadWell(f, p + 1)
  <2>1. (p + 1) - 1 = p
    BY <1>1
  <2>. QED
    BY <1>2, <2>1 DEF ReadWell
<1>. QED
  BY <1>2, <1>5, <1>6, <1>8, <1>9

\* A directive with the name of a file that is whole, another one than f.
LEMMA ReadDirective ==
    ASSUME source \in Sources, NEW f \in Files, NEW p \in 1..Len(source[f]),
           ReadWell(f, p), IsDirective(f, p), source[f][p + 1] \in Whole[N] \ {f}
    PROVE  /\ ReadWell(f, p + 2)
           /\ NamesBefore(f, p + 2) = NamesBefore(f, p) \cup {source[f][p + 1]}
           /\ source[f][p + 1] \in NamesBefore(f, p) =>
                 TextUpTo(f, p + 1) = TextUpTo(f, p - 1)
           /\ source[f][p + 1] \notin NamesBefore(f, p) =>
                 TextUpTo(f, p + 1) = TextUpTo(f, p - 1) \o Expansion[N][source[f][p + 1]]
<1>. DEFINE name == source[f][p + 1]
<1>1. /\ Len(source[f]) \in Nat /\ p \in Nat /\ p < Len(source[f])
      /\ p \in FirstIncludes(f) <=> name \notin NamesBefore(f, p)
  BY FileTypes, FirstByNames
<1>2. ~IsDirective(f, p + 1)
  <2>1. name \in Names
    BY WholeFiles, FileTypes
  <2>. QED
    BY <2>1, SourcesAssumption DEF IsDirective
<1>3. NamesBefore(f, p + 2) = NamesBefore(f, p) \cup {name}
  <2>1. {k \in 1..((p + 2) - 1) : IsDirective(f, k)}
           = {k \in 1..(p - 1) : IsDirective(f, k)} \cup {p}
    <3>1. \A k : k \in 1..((p + 2) - 1) <=> k \in 1..(p - 1) \/ k = p \/ k = p + 1
      BY <1>1
    <3>. QED
      BY <1>2, <3>1
  <2>. QED
    BY <2>1 DEF NamesBefore
<1>4. ReadWell(f, p + 2)
  <2>1. (p + 2) - 1 = p + 1
    BY <1>1
  <2>. QED
    BY <1>2, <1>3, <2>1 DEF ReadWell
<1>5. p + 1 \notin FirstIncludes(f)
  BY <1>2 DEF FirstIncludes
<1>6. ASSUME NEW k \in FirstIncludes(f), k <= p + 1 PROVE source[f][k + 1] \in Whole[N]
  <2>1. (k \in 1..(p - 1) /\ IsDirective(f, k)) \/ k = p
    BY <1>1, <1>5, <1>6 DEF FirstIncludes
  <2>. QED
    BY <2>1 DEF ReadWell, NamesBefore
<1>7. p + 1 \in 1..Len(source[f]) /\ (p + 1) - 1 = p /\ p + 1 > 1
  BY <1>1
<1>8. /\ TextUpTo(f, p) = TextUpTo(f, p - 1) \o Pieces(Expansion[N], f)[p]
      /\ TextUpTo(f, p - 1) \in Seq(Origins) /\ Pieces(Expansion[N], f)[p] \in Seq(Origins)
  <2>1. \A k \in FirstIncludes(f) : k <= p => source[f][k + 1] \in Whole[N]
    BY <1>1, <1>6 DEF FirstIncludes
  <2>. QED
    BY <2>1, TextStep
<1>9. /\ TextUpTo(f, p + 1) = TextUpTo(f, p) \o Pieces(Expansion[N], f)[p + 1]
      /\ TextUpTo(f, p) \in Seq(Origins)
  BY <1>6, <1>7, TextStep
<1>10. Pieces(Expansion[N], f)[p + 1] = <<>>
  BY <1>5, <1>7 DEF Pieces
<1>11. TextUpTo(f, p + 1) = TextUpTo(f, p)
  BY <1>9, <1>10, ConcatEmptySeq
<1>12. CASE name \in NamesBefore(f, p)
  <2>1. Pieces(Expansion[N], f)[p] = <<>>
    BY <1>1, <1>12 DEF Pieces
  <2>2. TextUpTo(f, p) = TextUpTo(f, p - 1)
    BY <1>8, <2>1, ConcatEmptySeq
  <2>. QED
    BY <1>3, <1>4, <1>11, <1>12, <2>2
<1>13. CASE name \notin NamesBefore(f, p)
  <2>1. Pieces(Expansion[N], f)[p] = Expansion[N][name]
    BY <1>1, <1>13 DEF Pieces
  <2>. QED
    BY <1>3, <1>4, <1>8, <1>11, <1>13, <2>1
<1>. QED
  BY <1>12, <1>13

\* The end of a file.
LEMMA ReadAll ==
    ASSUME source \in Sources, NEW f \in Files, ReadWell(f, Len(source[f]) + 1)
    PROVE  /\ f \in Whole[N]
           /\ TextUpTo(f, Len(source[f])) = Expansion[N][f]
<1>1. Len(source[f]) \in Nat
  BY FileTypes
<1>2. ASSUME NEW k \in FirstIncludes(f) PROVE source[f][k + 1] \in Whole[N] \ {f}
  <2>1. k \in 1..((Len(source[f]) + 1) - 1) /\ IsDirective(f, k)
    BY <1>1 DEF FirstIncludes
  <2>. QED
    BY <2>1 DEF ReadWell, NamesBefore
<1>3. f \in Whole[N]
  BY <1>2, WholeFiles
<1>. QED
  BY <1>3, WholeFiles

\* A call that has dealt with the tokens before p.
Reads(fr, p) ==
    /\ fr.file \in Reached /\ p \in 1..(Len(source[fr.file]) + 1)
    /\ ReadWell(fr.file, p)
    /\ fr.output = TextUpTo(fr.file, p - 1)

\* The call on top.
Runs(fr) == Reads(fr, fr.c) /\ fr.included = NamesBefore(fr.file, fr.c)

\* A call that waits for the one of the file f that it includes.
Waits(fr, f) ==
    /\ Reads(fr, fr.c - 1) /\ fr.c <= Len(source[fr.file])
    /\ IsDirective(fr.file, fr.c - 1) /\ source[fr.file][fr.c] = f
    /\ f \notin NamesBefore(fr.file, fr.c - 1) \cup {fr.file}
    /\ fr.included = NamesBefore(fr.file, fr.c - 1) \cup {f}

\* Every call has read its file as far as its cursor, and waits for the next.
CallsRead ==
    /\ Runs(frames[Depth])
    /\ \A k \in 1..(Depth - 1) : Waits(frames[k], frames[k + 1].file)

\* While no call has failed.
IncludesInv == verdict = "none" => CallsRead

\* The files stay as they are, and with them what is read of them.
LEMMA SourceKept ==
    ASSUME source' = source
    PROVE  /\ Reached' = Reached /\ Expansion' = Expansion
           /\ \A f : Wrong(f)' = Wrong(f)
           /\ \A fr : Runs(fr)' = Runs(fr)
           /\ \A fr, f : Waits(fr, f)' = Waits(fr, f)
<1>1. /\ \A f, k : IsDirective(f, k)' = IsDirective(f, k)
      /\ \A f : FirstIncludes(f)' = FirstIncludes(f)
  BY DEF FirstIncludes, IsDirective
<1>2. ReachedIn' = ReachedIn
  BY DEF ReachedIn, IncludedBy, FirstIncludes, IsDirective
<1>3. Reached' = Reached
  BY <1>2 DEF Reached
<1>4. Expansion' = Expansion
  BY DEF Expansion, FirstIncludes, IsDirective
<1>5. Whole' = Whole
  BY DEF Whole, AllIncluded, FirstIncludes, IsDirective, Files
<1>6. \A f : Wrong(f)' = Wrong(f)
  BY <1>1 DEF Wrong
<1>7. \A f, p : NamesBefore(f, p)' = NamesBefore(f, p)
  BY DEF NamesBefore, IsDirective
<1>8. \A f, p : TextUpTo(f, p)' = TextUpTo(f, p)
  BY <1>4 DEF TextUpTo, Joined, Pieces, FirstIncludes, IsDirective
<1>9. \A f, p : ReadWell(f, p)' = ReadWell(f, p)
  BY <1>1, <1>5, <1>7 DEF ReadWell
<1>10. \A fr, p : Reads(fr, p)' = Reads(fr, p)
  BY <1>3, <1>8, <1>9 DEF Reads
<1>11. \A fr : Runs(fr)' = Runs(fr)
  BY <1>7, <1>10 DEF Runs
<1>12. \A fr, f : Waits(fr, f)' = Waits(fr, f)
  BY <1>1, <1>7, <1>10 DEF Waits
<1>. QED
  BY <1>3, <1>4, <1>6, <1>11, <1>12

\* The call on top at a token.
LEMMA AtToken ==
    ASSUME TypeInv, CallsRead, Running
    PROVE  /\ source \in Sources /\ Top.file \in Files /\ Top.file \in Reached
           /\ Code = source[Top.file] /\ Top.c \in 1..Len(Code)
           /\ Reads(Top, Top.c) /\ ReadWell(Top.file, Top.c)
           /\ Top.included = NamesBefore(Top.file, Top.c)
           /\ Top.included \subseteq Whole[N] \ {Top.file}
           /\ Top.output = TextUpTo(Top.file, Top.c - 1)
           /\ OnInclude <=> IsDirective(Top.file, Top.c)
           /\ OnInclude => Named = source[Top.file][Top.c + 1]
<1>1. /\ source \in Sources /\ Top.file \in Files /\ Code = source[Top.file]
      /\ Top.c \in 1..Len(Code)
  BY TopTypes DEF Running, AtEnd, Code
<1>2. /\ Reads(Top, Top.c) /\ Top.included = NamesBefore(Top.file, Top.c)
  BY DEF CallsRead, Runs, Top
<1>3. Top.file \in Reached /\ ReadWell(Top.file, Top.c) /\ Top.output = TextUpTo(Top.file, Top.c - 1)
  BY <1>2 DEF Reads
<1>. QED
  BY <1>1, <1>2, <1>3 DEF ReadWell, OnInclude, IsDirective, Named

\* A step of the call on top.
LEMMA TopKeeps ==
    ASSUME TypeInv, CallsRead, NEW fr \in Frames, SetTop(fr), fr.file = Top.file, Runs(fr)
    PROVE  CallsRead'
<1>1. /\ Len(frames') = Depth /\ frames'[Depth] = fr
      /\ \A k \in 1..(Depth - 1) : frames'[k] = frames[k]
  BY StackAfterTop DEF SetTop
<1>2. Depth' = Depth /\ Depth \in Nat \ {0} /\ source' = source
  BY <1>1, TopTypes DEF Depth, SetTop
<1>3. Runs(frames[Depth])'
  BY <1>1, <1>2, SourceKept
<1>4. ASSUME NEW k \in 1..(Depth - 1) PROVE Waits(frames[k], frames[k + 1].file)'
  <2>1. Waits(frames[k], frames[k + 1].file)
    BY DEF CallsRead
  <2>2. frames'[k] = frames[k] /\ frames'[k + 1].file = frames[k + 1].file
    <3>1. k + 1 = Depth \/ k + 1 \in 1..(Depth - 1)
      BY <1>2
    <3>. QED
      BY <1>1, <3>1 DEF Top
  <2>. QED
    BY <1>2, <2>1, <2>2, SourceKept
<1>. QED
  BY <1>2, <1>3, <1>4 DEF CallsRead

\* A token copied.
LEMMA CopyKeeps ==
    ASSUME TypeInv, CallsRead, CopyToken
    PROVE  CallsRead'
<1>1. PICK fr \in Frames :
         /\ SetTop(fr) /\ fr.file = Top.file /\ fr.c = Top.c + 1
         /\ fr.output = Append(Top.output, <<Top.file, Top.c>>)
         /\ fr.included = Top.included
  BY CopyStep
<1>. DEFINE f == Top.file
            p == Top.c
<1>2. /\ source \in Sources /\ f \in Files /\ f \in Reached /\ Code = source[f]
      /\ p \in 1..Len(source[f]) /\ ReadWell(f, p)
      /\ Top.included = NamesBefore(f, p) /\ Top.output = TextUpTo(f, p - 1)
  BY AtToken DEF CopyToken
<1>3. ~IsDirective(f, p)
  BY <1>2 DEF CopyToken, IsDirective
<1>. HIDE DEF f, p
<1>4. /\ ReadWell(f, p + 1) /\ NamesBefore(f, p + 1) = NamesBefore(f, p)
      /\ TextUpTo(f, p) = Append(TextUpTo(f, p - 1), <<f, p>>)
  BY <1>2, <1>3, ReadToken
<1>5. (p + 1) - 1 = p /\ p + 1 \in 1..(Len(source[f]) + 1)
  BY <1>2, FileTypes
<1>6. Runs(fr)
  BY <1>1, <1>2, <1>4, <1>5 DEF Runs, Reads, f, p
<1>. QED
  BY <1>1, <1>6, TopKeeps

\* A directive whose file is included already.
LEMMA IgnoreKeeps ==
    ASSUME TypeInv, CallsRead, AlreadyIncluded
    PROVE  CallsRead'
<1>1. PICK fr \in Frames :
         /\ SetTop(fr) /\ fr.file = Top.file /\ fr.c = Top.c + 2
         /\ fr.output = Top.output /\ fr.included = Top.included
  BY IgnoreStep
<1>. DEFINE f == Top.file
            p == Top.c
<1>2. /\ source \in Sources /\ f \in Files /\ f \in Reached
      /\ p \in 1..Len(source[f]) /\ ReadWell(f, p) /\ IsDirective(f, p)
      /\ Top.included = NamesBefore(f, p) /\ Top.output = TextUpTo(f, p - 1)
      /\ Named = source[f][p + 1]
      /\ NamesBefore(f, p) \subseteq Whole[N] \ {f}
      /\ source[f][p + 1] \in NamesBefore(f, p)
  BY AtToken DEF AlreadyIncluded, OnInclude, Code
<1>. HIDE DEF f, p
<1>3. /\ ReadWell(f, p + 2) /\ NamesBefore(f, p + 2) = NamesBefore(f, p)
      /\ TextUpTo(f, p + 1) = TextUpTo(f, p - 1)
  <2>1. source[f][p + 1] \in Whole[N] \ {f}
    BY <1>2
  <2>2. /\ ReadWell(f, p + 2)
        /\ NamesBefore(f, p + 2) = NamesBefore(f, p) \cup {source[f][p + 1]}
        /\ TextUpTo(f, p + 1) = TextUpTo(f, p - 1)
    BY <1>2, <2>1, ReadDirective
  <2>. QED
    BY <1>2, <2>2
<1>4. (p + 2) - 1 = p + 1 /\ p + 2 \in 1..(Len(source[f]) + 1)
  BY <1>2, FileTypes, FirstByNames
<1>5. Runs(fr)
  BY <1>1, <1>2, <1>3, <1>4 DEF Runs, Reads, f, p
<1>. QED
  BY <1>1, <1>5, TopKeeps

\* A directive that counts: its file is preprocessed first.
LEMMA EnterKeeps ==
    ASSUME TypeInv, CallsRead, EnterFile
    PROVE  CallsRead'
<1>1. PICK fr \in Frames :
         /\ frames' = Append([frames EXCEPT ![Depth] = fr], Call(Named))
         /\ fr.file = Top.file /\ fr.c = Top.c + 1 /\ fr.output = Top.output
         /\ fr.included = Top.included \cup {Named}
         /\ Call(Named) \in Frames
  BY EnterStep
<1>. DEFINE f == Top.file
            p == Top.c
            g == Named
<1>2. /\ source \in Sources /\ f \in Files /\ f \in Reached
      /\ p \in 1..Len(source[f]) /\ ReadWell(f, p) /\ IsDirective(f, p)
      /\ Top.included = NamesBefore(f, p) /\ Top.output = TextUpTo(f, p - 1)
      /\ g = source[f][p + 1] /\ g \in Files /\ g \notin NamesBefore(f, p) \cup {f}
  BY AtToken DEF EnterFile, NewInclude, OnInclude, Code, Files
<1>. HIDE DEF f, p, g
<1>3. p < Len(source[f]) /\ p \in FirstIncludes(f) /\ Len(source[f]) \in Nat /\ p \in Nat
  BY <1>2, FirstByNames, FileTypes
<1>4. g \in Reached
  <2>1. g \in IncludedBy(f)
    BY <1>2, <1>3 DEF IncludedBy
  <2>. QED
    BY <1>2, <2>1, ReachedClosed
<1>5. Waits(fr, g)
  <2>1. fr.c - 1 = p /\ fr.c = p + 1 /\ fr.c <= Len(source[f]) /\ p \in 1..(Len(source[f]) + 1)
    <3>1. fr.c = p + 1
      BY <1>1 DEF p
    <3>2. p \in 1..Len(source[f])
      BY <1>2
    <3>. QED
      BY <1>3, <3>1, <3>2
  <2>2. fr.file = f /\ fr.output = TextUpTo(f, p - 1) /\ fr.included = NamesBefore(f, p) \cup {g}
    BY <1>1, <1>2 DEF f, g
  <2>. QED
    BY <1>2, <2>1, <2>2 DEF Waits, Reads
<1>6. Runs(Call(g))
  <2>1. /\ Call(g).file = g /\ Call(g).c = 1
        /\ Call(g).included = {} /\ Call(g).output = <<>>
    BY <1>2, NewFrame
  <2>2. NamesBefore(g, 1) = {} /\ ReadWell(g, 1)
    BY DEF NamesBefore, ReadWell
  <2>3. TextUpTo(g, 0) = <<>>
    BY <1>2 DEF TextUpTo, Joined, FlattenSeq
  <2>4. 1 \in 1..(Len(source[g]) + 1) /\ 1 - 1 = 0
    BY <1>2, FileTypes
  <2>. QED
    BY <1>4, <2>1, <2>2, <2>3, <2>4 DEF Runs, Reads
<1>7. /\ Len(frames') = Depth + 1
      /\ frames'[Depth] = fr /\ frames'[Depth + 1] = Call(g)
      /\ \A k \in 1..(Depth - 1) : frames'[k] = frames[k]
  BY <1>1, StackAfterEnter DEF g
<1>8. Depth' = Depth + 1 /\ Depth \in Nat \ {0} /\ source' = source
  BY <1>7, TopTypes DEF Depth, EnterFile
<1>9. Runs(frames[Depth])'
  BY <1>6, <1>7, <1>8, SourceKept
<1>10. ASSUME NEW k \in 1..((Depth + 1) - 1) PROVE Waits(frames[k], frames[k + 1].file)'
  <2>1. CASE k = Depth
    <3>1. frames'[k] = fr /\ frames'[k + 1].file = g
      BY <1>2, <1>7, <2>1, NewFrame
    <3>. QED
      BY <1>5, <1>8, <3>1, SourceKept
  <2>2. CASE k # Depth
    <3>1. k \in 1..(Depth - 1) /\ (k + 1 = Depth \/ k + 1 \in 1..(Depth - 1))
      BY <1>8, <2>2
    <3>2. Waits(frames[k], frames[k + 1].file)
      BY <3>1 DEF CallsRead
    <3>3. frames'[k] = frames[k] /\ frames'[k + 1].file = frames[k + 1].file
      BY <1>1, <1>7, <3>1 DEF Top
    <3>. QED
      BY <1>8, <3>2, <3>3, SourceKept
  <2>. QED
    BY <2>1, <2>2
<1>. QED
  BY <1>8, <1>9, <1>10 DEF CallsRead

\* The file is done, and its text put in its place.
LEMMA LeaveKeeps ==
    ASSUME TypeInv, CallsRead, LeaveFile
    PROVE  CallsRead'
<1>1. PICK fr \in Frames :
         /\ frames' = Append(SubSeq(frames, 1, Depth - 2), fr)
         /\ fr.file = frames[Depth - 1].file /\ fr.c = frames[Depth - 1].c + 1
         /\ fr.output = frames[Depth - 1].output \o Top.output
         /\ fr.included = frames[Depth - 1].included
  BY LeaveStep
<1>2. /\ Depth \in Nat /\ Depth > 1 /\ source \in Sources /\ source' = source
      /\ Top.file \in Files /\ Top.c = Len(Code) + 1
  BY TopTypes DEF LeaveFile, AtEnd
<1>. DEFINE caller == frames[Depth - 1]
            f == caller.file
            p == caller.c - 1
            g == Top.file
<1>3. g \in Whole[N] /\ Top.output = Expansion[N][g]
  <2>1. Reads(Top, Top.c)
    BY DEF CallsRead, Runs, Top
  <2>2. Top.c = Len(source[g]) + 1 /\ Len(source[g]) \in Nat
    BY <1>2, FileTypes DEF Code
  <2>3. ReadWell(g, Len(source[g]) + 1) /\ Top.output = TextUpTo(g, Len(source[g]))
    BY <2>1, <2>2 DEF Reads
  <2>. QED
    BY <1>2, <2>3, ReadAll
<1>4. Waits(caller, g)
  <2>1. Depth - 1 \in 1..(Depth - 1) /\ (Depth - 1) + 1 = Depth
    BY <1>2
  <2>. QED
    BY <2>1 DEF CallsRead, Top
<1>5. caller.c \in Nat
  <2>1. Depth - 1 \in 1..(Depth - 1)
    BY <1>2
  <2>2. caller \in Frames
    BY <2>1, StackTypes
  <2>. QED
    BY <2>2 DEF Frames
<1>6. /\ f \in Reached /\ f \in Files
      /\ p \in 1..(Len(source[f]) + 1) /\ caller.c <= Len(source[f]) /\ caller.c = p + 1
      /\ Len(source[f]) \in Nat
      /\ ReadWell(f, p) /\ IsDirective(f, p) /\ source[f][p + 1] = g
      /\ caller.output = TextUpTo(f, p - 1)
      /\ g \notin NamesBefore(f, p) \cup {f}
      /\ caller.included = NamesBefore(f, p) \cup {g}
  <2>1. f \in Reached /\ f \in Files
    BY <1>2, <1>4, ReachedClosed DEF Waits, Reads
  <2>2. caller.c = p + 1 /\ Len(source[f]) \in Nat
    BY <1>2, <1>5, <2>1, FileTypes
  <2>. QED
    BY <1>4, <2>1, <2>2 DEF Waits, Reads
<1>7. /\ fr.file = f /\ fr.c = p + 2 /\ fr.output = TextUpTo(f, p - 1) \o Expansion[N][g]
      /\ fr.included = NamesBefore(f, p) \cup {g}
  <2>1. caller.c + 1 = p + 2
    BY <1>5
  <2>. QED
    BY <1>1, <1>3, <1>6, <2>1
<1>. HIDE DEF caller, f, p, g
<1>8. p \in 1..Len(source[f]) /\ p + 2 \in 1..(Len(source[f]) + 1) /\ (p + 2) - 1 = p + 1
  BY <1>6
<1>9. /\ ReadWell(f, p + 2) /\ NamesBefore(f, p + 2) = NamesBefore(f, p) \cup {g}
      /\ TextUpTo(f, p + 1) = TextUpTo(f, p - 1) \o Expansion[N][g]
  <2>1. source[f][p + 1] \in Whole[N] \ {f}
    BY <1>3, <1>6
  <2>2. source[f][p + 1] \notin NamesBefore(f, p)
    BY <1>6
  <2>3. /\ ReadWell(f, p + 2)
        /\ NamesBefore(f, p + 2) = NamesBefore(f, p) \cup {source[f][p + 1]}
        /\ TextUpTo(f, p + 1) = TextUpTo(f, p - 1) \o Expansion[N][source[f][p + 1]]
    BY <1>2, <1>6, <1>8, <2>1, <2>2, ReadDirective
  <2>. QED
    BY <1>6, <2>3
<1>10. Runs(fr)
  BY <1>6, <1>7, <1>8, <1>9 DEF Runs, Reads
<1>11. /\ Len(frames') = Depth - 1 /\ frames'[Depth - 1] = fr
       /\ \A k \in 1..(Depth - 2) : frames'[k] = frames[k]
  BY <1>1, <1>2, StackAfterLeave
<1>12. Depth' = Depth - 1
  BY <1>11 DEF Depth
<1>13. Runs(frames[Depth])'
  BY <1>2, <1>10, <1>11, <1>12, SourceKept
<1>14. ASSUME NEW k \in 1..((Depth - 1) - 1) PROVE Waits(frames[k], frames[k + 1].file)'
  <2>1. k \in 1..(Depth - 1) /\ k \in 1..(Depth - 2) /\ (k + 1 = Depth - 1 \/ k + 1 \in 1..(Depth - 2))
    BY <1>2
  <2>2. Waits(frames[k], frames[k + 1].file)
    BY <2>1 DEF CallsRead
  <2>3. frames'[k] = frames[k] /\ frames'[k + 1].file = frames[k + 1].file
    BY <1>1, <1>11, <2>1
  <2>. QED
    BY <1>2, <2>2, <2>3, SourceKept
<1>. QED
  BY <1>12, <1>13, <1>14 DEF CallsRead

\* A call that fails has met something wrong.
LEMMA FailsForReason ==
    ASSUME TypeInv, CallsRead, NotNamed \/ IncludeSelf \/ LoadFails
    PROVE  Wrong(Top.file) /\ Top.file \in Reached
<1>. DEFINE f == Top.file
            p == Top.c
<1>1. OnInclude /\ Running
  BY DEF NotNamed, IncludeSelf, LoadFails, NewInclude, OnInclude
<1>2. /\ source \in Sources /\ f \in Files /\ f \in Reached
      /\ p \in 1..Len(source[f]) /\ IsDirective(f, p)
      /\ Named = source[f][p + 1] /\ Top.included = NamesBefore(f, p)
      /\ NamesBefore(f, p) \subseteq Whole[N] \ {f}
  BY <1>1, AtToken
<1>3. Named \notin Files \ {f} /\ Named \notin NamesBefore(f, p)
  <2>1. Whole[N] \subseteq Files /\ Files \subseteq Names
    BY <1>2, WholeFiles, FileTypes
  <2>2. CASE NotNamed
    BY <1>2, <2>1, <2>2 DEF NotNamed
  <2>3. CASE IncludeSelf
    BY <1>2, <2>3 DEF IncludeSelf
  <2>4. CASE LoadFails
    BY <1>2, <2>1, <2>4 DEF LoadFails, Files
  <2>. QED
    BY <2>2, <2>3, <2>4
<1>4. p \in FirstIncludes(f)
  BY <1>2, <1>3, FirstByNames
<1>. QED
  BY <1>2, <1>3, <1>4 DEF Wrong, Files

\* The outermost call returns when all is read.
LEMMA FinishesWhole ==
    ASSUME TypeInv, CallsRead, Finish
    PROVE  /\ \A f \in Reached : ~Wrong(f)
           /\ Head(frames).output = Expansion[N][Root]
<1>1. /\ source \in Sources /\ Depth = 1 /\ Top.file = Root /\ Root \in Files
      /\ Top.c = Len(Code) + 1 /\ Code = source[Root] /\ Len(Code) \in Nat
  BY TopTypes, StackTypes, FileTypes DEF Finish, AtEnd, Top, Code
<1>2. Reads(Top, Top.c)
  BY DEF CallsRead, Runs, Top
<1>3. (Len(source[Root]) + 1) - 1 = Len(source[Root])
  BY <1>1
<1>4. /\ ReadWell(Root, Len(source[Root]) + 1)
      /\ Top.output = TextUpTo(Root, Len(source[Root]))
  BY <1>1, <1>2, <1>3 DEF Reads
<1>5. Root \in Whole[N] /\ Top.output = Expansion[N][Root]
  BY <1>1, <1>4, ReadAll
<1>6. \A f \in Reached : ~Wrong(f)
  BY <1>1, <1>5, WholeFiles
<1>7. Head(frames) = Top
  BY <1>1 DEF Top
<1>. QED
  BY <1>5, <1>6, <1>7

\* What is returned is the whole text with each file in the place of its first
\* directive, and preprocess fails only where something is wrong.
THEOREM PreprocessorExpands == Spec => []ExpandsIncludes
<1>. DEFINE IInv == IncludesInv /\ ExpandsIncludes
<1>1. TypeInv /\ Init => IInv
  <2>. SUFFICES ASSUME TypeInv, Init PROVE IInv
    OBVIOUS
  <2>1. /\ source \in Sources /\ frames[Depth] = Call(Root) /\ Depth = 1 /\ verdict = "none"
    BY DEF Init, Depth
  <2>2. Root \in Files /\ Root \in Reached /\ Len(source[Root]) \in Nat
    BY <2>1, FileTypes, ReachedClosed
  <2>3. Runs(Call(Root))
    <3>1. /\ Call(Root).file = Root /\ Call(Root).c = 1
          /\ Call(Root).included = {} /\ Call(Root).output = <<>>
      BY <2>2, NewFrame
    <3>2. NamesBefore(Root, 1) = {} /\ ReadWell(Root, 1)
      BY DEF NamesBefore, ReadWell
    <3>3. TextUpTo(Root, 0) = <<>>
      BY DEF TextUpTo, Joined, FlattenSeq
    <3>4. 1 \in 1..(Len(source[Root]) + 1) /\ 1 - 1 = 0
      BY <2>2
    <3>. QED
      BY <2>2, <3>1, <3>2, <3>3, <3>4 DEF Runs, Reads
  <2>4. CallsRead
    BY <2>1, <2>3 DEF CallsRead
  <2>. QED
    BY <2>1, <2>4 DEF IncludesInv, ExpandsIncludes
<1>2. TypeInv /\ IInv /\ [Next]_vars => IInv'
  <2>. SUFFICES ASSUME TypeInv, IInv, [Next]_vars PROVE IInv'
    OBVIOUS
  <2>1. CASE CopyToken \/ AlreadyIncluded \/ EnterFile \/ LeaveFile
    <3>1. verdict = "none" /\ verdict' = "none"
      BY <2>1 DEF CopyToken, AlreadyIncluded, EnterFile, NewInclude, OnInclude, Running,
                  LeaveFile, SetTop
    <3>2. CallsRead
      BY <3>1 DEF IncludesInv
    <3>3. CallsRead'
      BY <2>1, <3>2, CopyKeeps, IgnoreKeeps, EnterKeeps, LeaveKeeps
    <3>. QED
      BY <3>1, <3>3 DEF IncludesInv, ExpandsIncludes
  <2>2. CASE NotNamed \/ IncludeSelf \/ LoadFails
    <3>1. verdict = "none" /\ verdict' = "failed" /\ source' = source
      BY <2>2 DEF NotNamed, IncludeSelf, LoadFails, NewInclude, OnInclude, Running, Fail
    <3>2. \E f \in Reached : Wrong(f)
      BY <2>2, <3>1, FailsForReason DEF IncludesInv
    <3>3. (\E f \in Reached : Wrong(f))'
      BY <3>1, <3>2, SourceKept
    <3>. QED
      BY <3>1, <3>3 DEF IncludesInv, ExpandsIncludes
  <2>3. CASE Finish
    <3>1. verdict = "none" /\ verdict' = "preprocessed" /\ source' = source /\ frames' = frames
      BY <2>3 DEF Finish
    <3>2. /\ \A f \in Reached : ~Wrong(f)
          /\ Head(frames).output = Expansion[N][Root]
      BY <2>3, <3>1, FinishesWhole DEF IncludesInv
    <3>3. /\ (\A f \in Reached : ~Wrong(f))'
          /\ Head(frames').output = Expansion'[Cardinality(Names)][Root]
      BY <3>1, <3>2, SourceKept DEF N
    <3>. QED
      BY <3>1, <3>3 DEF IncludesInv, ExpandsIncludes
  <2>4. CASE UNCHANGED vars
    <3>1. source' = source /\ frames' = frames /\ verdict' = verdict
      BY <2>4 DEF vars
    <3>2. IncludesInv'
      BY <3>1, SourceKept DEF IncludesInv, CallsRead, Depth
    <3>3. ExpandsIncludes'
      BY <3>1, SourceKept DEF ExpandsIncludes
    <3>. QED
      BY <3>2, <3>3
  <2>. QED
    BY <2>1, <2>2, <2>3, <2>4 DEF Next
<1>3. Init => TypeInv
  BY TypesAtFirst
<1>4. TypeInv /\ [Next]_vars => TypeInv'
  BY TypesKept
<1>5. IInv => ExpandsIncludes
  OBVIOUS
<1>. QED
  BY <1>1, <1>2, <1>3, <1>4, <1>5, PTL DEF Spec

=============================================================================
