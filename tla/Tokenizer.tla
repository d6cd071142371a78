------------------------------ MODULE Tokenizer ------------------------------
(***************************************************************************)
(* tokenizer::tokenize (tokenizer.hpp): the lexers are tried in a fixed    *)
(* order at the cursor, the first that matches gives the next token, and   *)
(* the tokens without meaning are dropped at the end.                      *)
(*                                                                         *)
(* A text is a sequence of characters.  The letters of a keyword, one      *)
(* after another, are one character here (a member of Keywords); "x" is    *)
(* any other letter, "b", "u" and "c" are those that end a literal, "1" is *)
(* 0 or 1, "7" another digit and "eof" the character '\0'.  A token is its *)
(* type, where it begins and where it ends; the type of a keyword, of an   *)
(* operator and of a scope is left to the characters between the two.  The *)
(* line and the column of a token are left out, and so are the keywords    *)
(* that begin with b, u or c right behind a digit, which takes the letter. *)
(***************************************************************************)
EXTENDS Integers, SequencesExt

CONSTANTS
    Texts,     (* the texts to be tokenized                                *)
    Keywords,  (* the words of grammar::keywords                           *)
    Reserved   (* those whose token type tk_type_is_keyword knows          *)

Alphabetic == Keywords \cup {"x", "b", "u", "c"}
Numeric    == {"1", "7"}
Alus       == Alphabetic \cup {"_"}
Alnumus    == Alus \cup Numeric
Newlines   == {"\n", "\r"}
Whitespace == Newlines \cup {" ", "\t"}
Scopes     == {"(", ")", "{", "}", "[", "]"}

TokenTypes ==
    {"line_comment_", "block_comment_", "operator", "string_literal_",
     "byte_literal_", "newline_", "whitespace_", "eof_", "bit_literal_",
     "unsigned_literal_", "number_literal_", "real_literal_", "alnumus_",
     "keyword", "scope", "semicolon_", "comma_", "ellipsis_", "period_"}
Redundant == {"whitespace_", "line_comment_", "block_comment_", "newline_"}

\* The characters that are no keywords; ":" is any one that no lexer takes.
Characters ==
    {"x", "b", "u", "c", "_", "\t", " ", "eof", "#", "'", "\\", ";", ",", ".", ":",
     "/", "=", "+", "-", "*", "%", "&", "|", "^", "<", ">", "!", "~", "@"}
    \cup Numeric \cup Newlines \cup Scopes

\* A text is made of these characters, and a keyword is none of them.
ASSUME TextsAssumption ==
    /\ Reserved \subseteq Keywords /\ Keywords \cap Characters = {}
    /\ Texts \subseteq Seq(Keywords \cup Characters)

VARIABLES
    text,    (* the characters in [beg_, end_)                          *)
    it,      (* the cursor                                              *)
    output,  (* output_tokens                                           *)
    syntax,  (* keyword_syntax_switch; "none" while not switched        *)
    pc       (* "lex", or how the call ended: "done" or a failure       *)

tokenizer_vars == <<text, it, output, syntax, pc>>

End == Len(text) + 1

Get(i) == IF i \in 1..Len(text) THEN text[i] ELSE "eof"
FindForward(i, chars) ==
    i + Len(chars) <= End /\ SubSeq(text, i, i + Len(chars) - 1) = chars

\* The first place from i on whose character is not one of chars.
After(i, chars) ==
    CHOOSE j \in i..End :
        Get(j) \notin chars /\ \A k \in i..(j - 1) : text[k] \in chars

Token(type, i, j) == [type |-> type, begin |-> i, end |-> j]
None(i)    == Token("none_", i, i)
Invalid(i) == Token("invalid_", i, i)
\* advance() goes on past end_, where get() gives '\0' for ever.
NeverEnds(i) == Token("never_ends", i, i)

-----------------------------------------------------------------------------

\* A seeded fault: a line comment takes the end of the file with it.
LineCommentWithEof(i) ==
    LET ends == {j \in i..Len(text) : text[j] \in Newlines}
    IN  Token("line_comment_", i, IF ends = {} THEN End ELSE Min(ends))

LineComment(i) ==
    Token("line_comment_", i, Min({j \in i..End : Get(j) \in Newlines \cup {"eof"}}))

\* A seeded fault: the search for the end begins one character late.
BlockCommentLate(i) ==
    LET closings == {j \in (i + 4)..Len(text) : FindForward(j, <<"/", "/", "/">>)}
    IN  IF closings = {} THEN NeverEnds(i)
        ELSE Token("block_comment_", i, Min(closings) + 3)

BlockComment(i) ==
    LET closings == {j \in (i + 3)..Len(text) : FindForward(j, <<"/", "/", "/">>)}
    IN  IF closings = {} THEN NeverEnds(i)
        ELSE Token("block_comment_", i, Min(closings) + 3)

lex_solidus(i) ==
    CASE Get(i) # "/" -> None(i)
      [] FindForward(i, <<"/", "/", "/">>) -> BlockComment(i)
      [] FindForward(i, <<"/", "/">>) /\ Get(i + 2) # "/" -> LineComment(i)
      [] FindForward(i, <<"/", "=">>) -> Token("operator", i, i + 2)
      [] OTHER -> Token("operator", i, i + 1)

\* The loop for the closing quote has no test for the end of the text.
lex_quotation(i) ==
    LET closings == {j \in (i + 1)..Len(text) : text[j] = "'" /\ text[j - 1] # "\\"}
    IN  CASE Get(i) # "'"   -> None(i)
          [] Get(i) = "'" /\ closings = {} -> NeverEnds(i)
          [] OTHER ->
                IF Get(Min(closings) + 1) = "c"
                THEN Token("byte_literal_", i, Min(closings) + 2)
                ELSE Token("string_literal_", i, Min(closings) + 1)

lex_newline(i) ==
    IF Get(i) \in Newlines THEN Token("newline_", i, After(i, Newlines)) ELSE None(i)

lex_whitespace(i) ==
    IF Get(i) \in Whitespace
    THEN Token("whitespace_", i, After(i, Whitespace)) ELSE None(i)

lex_eof(i) == IF Get(i) = "eof" THEN Token("eof_", i, i + 1) ELSE None(i)

\* A keyword and everything of the word behind it: find_forward compares the
\* beginning of the word only.
lex_directive(i) ==
    CASE Get(i) = "#" ->
            IF Get(i + 1) \in Keywords THEN Token("keyword", i, After(i + 1, Alus))
            ELSE Invalid(i)
      [] Get(i) \in Keywords -> Token("keyword", i, After(i, Alus))
      [] OTHER -> None(i)

\* A seeded fault: a number before an ellipsis takes its first period.
NumberTakesPeriod(i) ==
    LET j == After(i, Numeric)
    IN  IF Get(i) \notin Numeric THEN None(i)
        ELSE IF Get(j) = "." THEN Token("real_literal_", i, After(j + 1, Numeric))
        ELSE Token("number_literal_", i, j)

lex_number(i) ==
    LET j == After(i, Numeric)
    IN  CASE Get(i) \notin Numeric -> None(i)
          [] Get(i) = "1" /\ Get(i + 1) = "b" -> Token("bit_literal_", i, i + 2)
          [] Get(i) \in Numeric /\ Get(j) = "u" -> Token("unsigned_literal_", i, j + 1)
          [] Get(i) \in Numeric /\ Get(j) = "c" -> Token("byte_literal_", i, j + 1)
          [] Get(i) \in Numeric /\ FindForward(j, <<".", ".", ".">>) ->
                Token("number_literal_", i, j)
          [] Get(i) \in Numeric /\ Get(j) = "." /\ ~FindForward(j, <<".", ".", ".">>) ->
                Token("real_literal_", i, After(j + 1, Numeric))
          [] OTHER -> Token("number_literal_", i, j)

lex_alnumus(i) ==
    IF Get(i) \in Alphabetic THEN Token("alnumus_", i, After(i, Alnumus)) ELSE None(i)

\* The characters that may follow the first one of an operator, and the third.
SecondOf == [c \in {"=", "+", "-", "*", "%", "&", "|", "^", "<", ">", "!", "~", "@"} |->
                CASE c \in {"+", "-", "&", "|"} -> {c, "="}
                  [] c \in {"<", ">"} -> {c, "="}
                  [] c \in {"=", "*", "%", "^", "!"} -> {"="}
                  [] OTHER -> {}]
ThirdOf(c, d) ==
    CASE c \in {"<", ">"} /\ d = c -> {"="}
      [] c = "<" /\ d = "="        -> {">"}
      [] OTHER                     -> {}

lex_operator(i) ==
    CASE Get(i) \notin DOMAIN SecondOf -> None(i)
      [] Get(i) \in DOMAIN SecondOf /\ Get(i + 1) \notin SecondOf[Get(i)] ->
            Token("operator", i, i + 1)
      [] OTHER ->
            IF Get(i + 2) \in ThirdOf(Get(i), Get(i + 1))
            THEN Token("operator", i, i + 3) ELSE Token("operator", i, i + 2)

lex_scopes(i) == IF Get(i) \in Scopes THEN Token("scope", i, i + 1) ELSE None(i)
lex_eos(i)    == IF Get(i) = ";" THEN Token("semicolon_", i, i + 1) ELSE None(i)
lex_comma(i)  == IF Get(i) = "," THEN Token("comma_", i, i + 1) ELSE None(i)

\* A seeded fault: two periods are enough for an ellipsis.
EllipsisOfTwo(i) ==
    CASE FindForward(i, <<".", ".">>) -> Token("ellipsis_", i, i + 3)
      [] Get(i) = "." /\ ~FindForward(i, <<".", ".">>) -> Token("period_", i, i + 1)
      [] OTHER -> None(i)

lex_period(i) ==
    CASE FindForward(i, <<".", ".", ".">>) -> Token("ellipsis_", i, i + 3)
      [] Get(i) = "." /\ ~FindForward(i, <<".", ".", ".">>) -> Token("period_", i, i + 1)
      [] OTHER -> None(i)

\* What the first lexer that matches at the cursor says; none_ if none does.
Lexers(i) ==
    <<lex_solidus(i), lex_quotation(i), lex_newline(i), lex_whitespace(i),
      lex_eof(i), lex_directive(i), lex_number(i), lex_alnumus(i),
      lex_operator(i), lex_scopes(i), lex_eos(i), lex_comma(i), lex_period(i)>>
Lexed ==
    LET tried   == Lexers(it)
        matched == {n \in DOMAIN tried : tried[n].type # "none_"}
    IN  IF matched = {} THEN None(it) ELSE tried[Min(matched)]

-----------------------------------------------------------------------------

\* Is a token a keyword for tk_type_is_keyword, and in which of the syntaxes?
HasHash(t) == text[t.begin] = "#"
IsKeyword(t) ==
    /\ t.type = "keyword"
    /\ text[IF HasHash(t) THEN t.begin + 1 ELSE t.begin] \in Reserved
SyntaxOf(t) == IF HasHash(t) THEN "directive" ELSE "keyword"

\* swap_keyword_syntax: the first keyword of the file decides for all.
MixesSyntax(t) == IsKeyword(t) /\ syntax \notin {"none", SyntaxOf(t)}
SwappedBy(t)   == IF IsKeyword(t) THEN SyntaxOf(t) ELSE syntax

TokenizerInit ==
    /\ text \in Texts
    /\ it = 1
    /\ output = <<>>
    /\ syntax = "none"
    /\ pc = IF text = <<>> THEN "empty_input" ELSE "lex"

Refuse(how) ==
    /\ pc' = how
    /\ UNCHANGED <<text, it, output, syntax>>

\* A seeded fault: keywords of both syntaxes are taken.
EmplaceAny ==
    /\ pc = "lex" /\ it # End
    /\ Lexed.type \in TokenTypes
    /\ output' = Append(output, Lexed)
    /\ it' = Lexed.end
    /\ syntax' = SwappedBy(Lexed)
    /\ UNCHANGED <<text, pc>>

Emplace ==
    /\ pc = "lex" /\ it # End
    /\ Lexed.type \in TokenTypes /\ ~MixesSyntax(Lexed)
    /\ output' = Append(output, Lexed)
    /\ it' = Lexed.end
    /\ syntax' = SwappedBy(Lexed)
    /\ UNCHANGED <<text, pc>>

MixedSyntax ==
    /\ pc = "lex" /\ it # End
    /\ Lexed.type \in TokenTypes /\ MixesSyntax(Lexed)
    /\ Refuse("mixed_syntax")

InvalidDirective ==
    /\ pc = "lex" /\ it # End
    /\ Lexed.type = "invalid_"
    /\ Refuse("invalid_directive")

\* A seeded fault: a character that no lexer takes is not reported.
IgnoreCharacter ==
    /\ pc = "lex" /\ it # End
    /\ Lexed.type = "none_"
    /\ UNCHANGED tokenizer_vars

InvalidCharacter ==
    /\ pc = "lex" /\ it # End
    /\ Lexed.type = "none_"
    /\ Refuse("invalid_character")

RunsPastTheEnd ==
    /\ pc = "lex" /\ it # End
    /\ Lexed.type = "never_ends"
    /\ Refuse("never_ends")

\* The loop that pushes the tokens with a meaning on a new vector.
Sanitized(tokens) ==
    LET new_output[n \in 0..Len(tokens)] ==
            IF n = 0 THEN <<>>
            ELSE IF tokens[n].type \in Redundant THEN new_output[n - 1]
            ELSE Append(new_output[n - 1], tokens[n])
    IN  new_output[Len(tokens)]

Sanitize ==
    /\ pc = "lex" /\ it = End
    /\ output' = Sanitized(output)
    /\ pc' = "done"
    /\ UNCHANGED <<text, it, syntax>>

tokenize ==
    \/ Emplace \/ Sanitize
    \/ MixedSyntax \/ InvalidDirective \/ InvalidCharacter \/ RunsPastTheEnd

TokenizerSpec == TokenizerInit /\ [][tokenize]_tokenizer_vars
FairTokenizerSpec == TokenizerSpec /\ WF_tokenizer_vars(tokenize)

-----------------------------------------------------------------------------
(* The lexemes of the language, each as a set of sequences of characters. *)

Consists(s, chars) == \A k \in 1..Len(s) : s[k] \in chars
OperatorSpellings ==
    {<<c>> : c \in {"/"} \cup DOMAIN SecondOf}
    \cup {<<c, "=">> : c \in {"=", "+", "-", "*", "/", "%", "&", "|", "^", "<", ">", "!"}}
    \cup {<<c, c>> : c \in {"+", "-", "&", "|", "<", ">"}}
    \cup {<<"<", "<", "=">>, <<">", ">", "=">>, <<"<", "=", ">">>}

\* A quotation ends at its first quote that no backslash precedes.
IsQuotation(s) ==
    /\ Len(s) >= 2 /\ s[1] = "'" /\ s[Len(s)] = "'" /\ s[Len(s) - 1] # "\\"
    /\ \A k \in 2..(Len(s) - 1) : s[k] = "'" => s[k - 1] = "\\"

\* A block comment ends at the first three solidus after the first three.
IsBlockComment(s) ==
    /\ Len(s) >= 6
    /\ \A k \in 1..3 : s[k] = "/" /\ s[Len(s) - 3 + k] = "/"
    /\ \A k \in 4..(Len(s) - 3) : SubSeq(s, k, k + 2) # <<"/", "/", "/">>

\* The characters from i up to j are a lexeme of the type.
IsLexeme(type, i, j) ==
    LET s == SubSeq(text, i, j - 1)
        n == Len(s)
    IN CASE type = "line_comment_" ->
              /\ n >= 2 /\ s[1] = "/" /\ s[2] = "/" /\ Get(i + 2) # "/"
              /\ \A k \in 1..n : s[k] \notin Newlines \cup {"eof"}
         [] type = "block_comment_"  -> IsBlockComment(s)
         [] type = "string_literal_" -> IsQuotation(s)
         [] type = "byte_literal_" ->
              /\ n >= 2 /\ s[n] = "c"
              /\ IsQuotation(Front(s)) \/ Consists(Front(s), Numeric)
         [] type = "operator"    -> s \in OperatorSpellings
         [] type = "newline_"    -> n >= 1 /\ Consists(s, Newlines)
         [] type = "whitespace_" -> n >= 1 /\ Consists(s, Whitespace)
         [] type = "eof_"        -> s = <<"eof">>
         [] type = "bit_literal_" -> s = <<"1", "b">>
         [] type = "unsigned_literal_" -> n >= 2 /\ s[n] = "u" /\ Consists(Front(s), Numeric)
         [] type = "number_literal_"   -> n >= 1 /\ Consists(s, Numeric)
         [] type = "real_literal_" ->
              \E k \in 2..n : /\ s[k] = "." /\ ~FindForward(i + k - 1, <<".", ".", ".">>)
                              /\ \A m \in (1..n) \ {k} : s[m] \in Numeric
         [] type = "alnumus_" ->
              n >= 1 /\ s[1] \in Alphabetic /\ Consists(s, Alnumus) /\ ~(n = 1 /\ s[1] \in Keywords)
         [] type = "keyword" ->
              \E w \in Keywords : s \in {<<w>>, <<"#", w>>}
         [] type = "scope"      -> n = 1 /\ s[1] \in Scopes
         [] type = "semicolon_" -> s = <<";">>
         [] type = "comma_"     -> s = <<",">>
         [] type = "ellipsis_"  -> s = <<".", ".", ".">>
         [] type = "period_"    -> s = <<".">>

\* A word that begins with a keyword and is longer than it.
LongerThanKeyword(i) ==
    LET j == IF Get(i) = "#" THEN i + 1 ELSE i
    IN  Get(j) \in Keywords /\ Get(j + 1) \in Alnumus

TokenizerTypes ==
    /\ it \in 1..End
    /\ output \in Seq([type : TokenTypes, begin : 1..End, end : 1..End])
    /\ syntax \in {"none", "directive", "keyword"}
    /\ pc \in {"lex", "done", "empty_input", "mixed_syntax", "invalid_directive",
               "invalid_character", "never_ends"}

\* Every token is a lexeme of its type, and the longest one that begins where
\* it begins, whatever the order in which the lexers are tried.  Exempt are
\* the words longer than a keyword, which have a run of their own, and blanks.
LongestLexemes ==
    \A k \in 1..Len(output) :
        LET t == output[k] IN
        \/ LongerThanKeyword(t.begin)
        \/ /\ IsLexeme(t.type, t.begin, t.end)
           /\ t.type \notin Redundant =>
                \A j \in (t.end + 1)..End, type \in TokenTypes :
                    ~IsLexeme(type, t.begin, j)

\* No tokens of keywords in both syntaxes, and no file is refused unless a
\* keyword at the cursor disagrees with one before it.
OneKeywordSyntax ==
    /\ \A j, k \in 1..Len(output) :
          IsKeyword(output[j]) /\ IsKeyword(output[k]) =>
              (HasHash(output[j]) <=> HasHash(output[k]))
    /\ pc = "mixed_syntax" =>
          \E k \in 1..Len(output) :
              /\ IsKeyword(output[k])
              /\ HasHash(output[k]) <=> text[it] # "#"
              /\ text[it] \in Reserved \cup {"#"}

\* A call fails only where the text has no lexeme, and runs past the end only
\* at a quotation or a block comment that is never closed.
FailsForAReason ==
    /\ pc \in {"invalid_character", "invalid_directive"} =>
          \A j \in (it + 1)..End, type \in TokenTypes : ~IsLexeme(type, it, j)
    /\ pc = "never_ends" =>
          /\ text[it] = "'" \/ FindForward(it, <<"/", "/", "/">>)
          /\ \A j \in (it + 1)..End :
                ~IsLexeme("string_literal_", it, j) /\ ~IsLexeme("block_comment_", it, j)

\* The end of a loaded file, where the loops of the parser stop, reaches the
\* output: no comment, blank or word before it takes it along.
EndsWithEof ==
    pc = "done" /\ text[Len(text)] = "eof" => output # <<>> /\ Last(output).type = "eof_"

\* Every text is accepted or refused, or runs past the end.
TokenizerEnds == <>(pc # "lex")

\* tokenizer.hpp:407, of a word after '#': "From beg to it must be one of the
\* candi directive keywords, otherwise error."
DirectivesAreKeywords ==
    \A k \in 1..Len(output) :
        output[k].type = "keyword" /\ HasHash(output[k]) =>
            IsLexeme("keyword", output[k].begin, output[k].end)
=============================================================================
