--------------------------- MODULE MCPreprocessor ----------------------------
(* Bounded instance of Preprocessor: up to three files, each of at most     *)
(* MaxLen items before its eof_; an item is a token, an include of one of   *)
(* the names (one of which no file has) or an include without a name.       *)
EXTENDS Preprocessor, TLC

CONSTANT MaxLen

MCNames == {"main", "a", "b", "missing"}
MCRoot  == "main"
MCOthers == {"alnumus_", "include_", "eof_"}

Items(names) ==
    {<<"alnumus_">>} \cup {<<"include_", n>> : n \in names}
Texts(names, len) ==
    {Append(FlattenSeq(s), "eof_") : s \in UNION {[1..n -> Items(names)] : n \in 0..len}}
Bare == <<"include_", "alnumus_", "eof_">>

MCSources ==
    {("main" :> m) @@ ("a" :> a) @@ ("b" :> b) :
        m \in Texts({"a", "b"}, MaxLen) \cup Texts({"a", "main", "missing"}, MaxLen - 1),
        a \in Texts({"b", "missing"}, 2) \cup {Bare},
        b \in Texts({"a", "main"}, 1) \cup {Bare}}
=============================================================================
