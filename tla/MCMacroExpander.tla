--------------------------- MODULE MCMacroExpander ---------------------------
(* Bounded instance of MacroExpander: up to MaxLen items before the eof_.   *)
(* An item is a token or a definition: empty, with another macro's name or  *)
(* a directive in its body, without a name, or without an end.             *)
EXTENDS MacroExpander, SequencesExt

CONSTANT MaxLen

MCNames  == {"M", "N"}
MCOthers == {"plus_", "eof_"}

Define(n, body) == <<"macro_", n>> \o body \o <<"endmacro_">>
Items ==
    {<<"M">>, <<"N">>, <<"plus_">>, <<"endmacro_">>, <<"macro_">>, <<"macro_", "M">>,
     Define("M", <<>>), Define("M", <<"plus_", "N">>), Define("M", <<"macro_">>),
     Define("N", <<"M">>), Define("N", <<"plus_">>)}

MCCodes ==
    {Append(FlattenSeq(s), "eof_") : s \in UNION {[1..n -> Items] : n \in 0..MaxLen}}
=============================================================================
