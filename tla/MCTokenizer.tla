----------------------------- MODULE MCTokenizer -----------------------------
(* Bounded instance of Tokenizer: for each part of the language, every text  *)
(* of its characters up to the length at which its lexemes meet, with and    *)
(* without the '\0' that a loaded file ends with.                            *)
EXTENDS Tokenizer

CONSTANT MaxLen

MCKeywords == {"if", "array"}
MCReserved == {"if"}

TextsOver(chars, len) == UNION {[1..n -> chars] : n \in 0..len}

Words      == TextsOver({"if", "array", "x", "_", "7", "#", " "}, MaxLen)
Quotations == TextsOver({"'", "\\", "c", " ", ";"}, MaxLen)
Comments   == TextsOver({"/", "x", "\n"}, MaxLen + 3)
Divisions  == TextsOver({"/", "=", "\r", ","}, MaxLen)
Numbers    == TextsOver({"1", "7", "b", "u", "c", "."}, MaxLen)
Signs      == TextsOver({"<", ">", "=", "+", "&", "!"}, 4)
Rest       == TextsOver({"~", "@", "*", "^", "(", "]", ":", "\t", "\n", "eof"}, 3)

MCTexts ==
    LET all == UNION {Words, Quotations, Comments, Divisions, Numbers, Signs, Rest}
    IN  all \cup {Append(s, "eof") : s \in all}

DirectiveTexts == TextsOver({"if", "x", "#", "eof"}, MaxLen)
=============================================================================
