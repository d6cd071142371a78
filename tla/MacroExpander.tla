---------------------------- MODULE MacroExpander ----------------------------
(***************************************************************************)
(* macro_expand() of macro_expander.hpp: takes the definitions out of a    *)
(* token vector and puts the body of a macro in the place of its name.     *)
(*                                                                         *)
(* An alnumus_ token is its literal, any other its type; a token of the    *)
(* output or of a body is the place in the code it was copied from.        *)
(***************************************************************************)
EXTENDS Integers, Sequences, FiniteSets

CONSTANTS
    Names,      (* the literals of alnumus_ tokens                          *)
    Others,     (* the other tokens, without macro_ and endmacro_           *)
    Codes       (* the token vectors that are expanded                      *)

NoMacro == ""   \* no literal of a token

\* A file that is loaded ends with an eof_ token.
ASSUME CodesAssumption ==
    /\ Names \cap (Others \cup {"macro_", "endmacro_", NoMacro}) = {}
    /\ "macro_" \notin Others /\ "endmacro_" \notin Others
    /\ Codes \subseteq Seq(Names \cup Others \cup {"macro_", "endmacro_"})
    /\ \A s \in Codes : s # <<>> /\ s[Len(s)] \in Others

VARIABLES
    code,
    c,              (* the cursor                                           *)
    output,
    defined_macros, (* the bodies, by name                                  *)
    macro_name,     (* the macro whose body is collected, or NoMacro        *)
    macro_body,
    verdict         (* "none", then how the call ended                      *)

vars == <<code, c, output, defined_macros, macro_name, macro_body, verdict>>
definitions == <<defined_macros, macro_name, macro_body>>

Init ==
    /\ code \in Codes
    /\ c = 1 /\ output = <<>>
    /\ defined_macros = [n \in {} |-> <<>>]
    /\ macro_name = NoMacro /\ macro_body = <<>>
    /\ verdict = "none"

-----------------------------------------------------------------------------

AtEnd    == c > Len(code)
Scanning == verdict = "none" /\ macro_name = NoMacro
At(type) == ~AtEnd /\ code[c] = type
Defined  == DOMAIN defined_macros

\* The token after the directive; it exists, for eof_ is the last one.
OnMacro == Scanning /\ At("macro_")
Named   == code[c + 1]

\* No name, or one that is taken: the cursor rests on the token after it.
FailDefinition ==
    /\ OnMacro /\ Named \notin Names \ Defined
    /\ verdict' = "failed"
    /\ c' = c + 1
    /\ UNCHANGED <<code, output, definitions>>

\* A seeded fault: the last body is not cleared.
BeginMacroWithOld ==
    /\ OnMacro /\ Named \in Names \ Defined
    /\ macro_name' = Named
    /\ c' = c + 2
    /\ UNCHANGED <<code, output, defined_macros, macro_body, verdict>>

BeginMacro ==
    /\ OnMacro /\ Named \in Names \ Defined
    /\ macro_name' = Named /\ macro_body' = <<>>
    /\ c' = c + 2
    /\ UNCHANGED <<code, output, defined_macros, verdict>>

Collecting == verdict = "none" /\ macro_name # NoMacro

\* A seeded fault: the cursor moves two tokens on.
CollectAndSkip ==
    /\ Collecting /\ ~AtEnd /\ code[c] # "endmacro_"
    /\ macro_body' = Append(macro_body, c)
    /\ c' = c + 2
    /\ UNCHANGED <<code, output, defined_macros, macro_name, verdict>>

CollectToken ==
    /\ Collecting /\ ~AtEnd /\ code[c] # "endmacro_"
    /\ macro_body' = Append(macro_body, c)
    /\ c' = c + 1
    /\ UNCHANGED <<code, output, defined_macros, macro_name, verdict>>

\* The loop has no test for the end: past it, get() returns a reference to a
\* token that is gone.
CollectPastEnd ==
    /\ Collecting /\ AtEnd
    /\ verdict' = "undefined"
    /\ UNCHANGED <<code, c, output, definitions>>

EndMacro ==
    /\ Collecting /\ At("endmacro_")
    /\ defined_macros' = [n \in Defined \cup {macro_name} |->
                             IF n = macro_name THEN macro_body ELSE defined_macros[n]]
    /\ macro_name' = NoMacro
    /\ c' = c + 1
    /\ UNCHANGED <<code, output, macro_body, verdict>>

\* A seeded fault: the cursor is advanced in the loop over the body.
InvokeWithinLoop ==
    /\ Scanning /\ ~AtEnd /\ code[c] \in Defined
    /\ output' = output \o defined_macros[code[c]]
    /\ c' = IF defined_macros[code[c]] = <<>> THEN c ELSE c + 1
    /\ UNCHANGED <<code, definitions, verdict>>

\* The body is copied as it stands; names in it are not expanded.
InvokeMacro ==
    /\ Scanning /\ ~AtEnd /\ code[c] \in Defined
    /\ output' = output \o defined_macros[code[c]]
    /\ c' = c + 1
    /\ UNCHANGED <<code, definitions, verdict>>

\* A name that is no macro is neither copied nor passed.
StayOnName ==
    /\ Scanning /\ ~AtEnd /\ code[c] \in Names \ Defined
    /\ UNCHANGED vars

CopyToken ==
    /\ Scanning /\ ~AtEnd /\ code[c] \notin Names \cup {"macro_"}
    /\ output' = Append(output, c)
    /\ c' = c + 1
    /\ UNCHANGED <<code, definitions, verdict>>

Finish ==
    /\ Scanning /\ AtEnd
    /\ verdict' = "expanded"
    /\ UNCHANGED <<code, c, output, definitions>>

Next ==
    \/ FailDefinition \/ BeginMacro \/ CollectToken \/ CollectPastEnd \/ EndMacro
    \/ InvokeMacro \/ StayOnName \/ CopyToken \/ Finish

Spec     == Init /\ [][Next]_vars
FairSpec == Spec /\ WF_vars(Next)

-----------------------------------------------------------------------------

Places == 1..Len(code)

TypeOK ==
    /\ code \in Seq(Names \cup Others \cup {"macro_", "endmacro_"})
    /\ code # <<>> /\ code[Len(code)] \in Others
    /\ c \in 1..(Len(code) + 1)
    /\ output \in Seq(Places) /\ macro_body \in Seq(Places)
    /\ Defined \subseteq Names
    /\ \A n \in Defined : defined_macros[n] \in Seq(Places)
    /\ macro_name \in Names \cup {NoMacro}
    /\ verdict \in {"none", "expanded", "failed", "undefined"}

-----------------------------------------------------------------------------
(* Expansion, read from the code alone.                                    *)

\* The definition that the first k tokens are inside of, by the place of its
\* macro_; 0 if none.  A definition goes on to the first endmacro_ behind its name.
Inside[k \in 0..Len(code)] ==
    IF k = 0 THEN 0
    ELSE LET d == Inside[k - 1]
         IN  CASE d = 0 /\ code[k] = "macro_"                 -> k
               [] d # 0 /\ code[k] = "endmacro_" /\ k > d + 1 -> 0
               [] OTHER                                       -> d

Definitions == {d \in Places : Inside[d] = d}
BodyOf(d)   == {k \in Places : k > d + 1 /\ Inside[k] = d}
NameOf(d)   == code[d + 1]

\* Earlier definitions of the name that is read at place k.
DefinitionsOf(k) == {d \in Definitions : d + 1 < k /\ NameOf(d) = code[k]}

\* A use of a macro, or a token that stands for itself.
IsText(k) == Inside[k - 1] = 0 /\ k \notin Definitions

FirstOf(places) == CHOOSE k \in places : \A j \in places : k <= j
InOrder(places) ==
    [m \in 1..Cardinality(places) |->
        CHOOSE k \in places : Cardinality({j \in places : j < k}) = m - 1]

\* What the first k tokens say: each use means the first definition of its
\* name, each other token outside the definitions means itself.
Expansion[k \in 0..Len(code)] ==
    IF k = 0 THEN <<>>
    ELSE IF ~IsText(k) THEN Expansion[k - 1]
    ELSE IF code[k] \notin Names THEN Append(Expansion[k - 1], k)
    ELSE Expansion[k - 1] \o InOrder(BodyOf(FirstOf(DefinitionsOf(k))))

IsMacro(k) == IsText(k) /\ code[k] \in Names => DefinitionsOf(k) # {}

\* A definition without a name, or with one that is taken.
IsBad(d) == NameOf(d) \notin Names \/ DefinitionsOf(d + 1) # {}

\* At every step the output is the expansion of what has been read, each use
\* replaced by the body that was defined for its name; and a call ends as the
\* code deserves: well, at the first bad definition, or undefined inside a
\* definition that nothing ends.
ExpandsMacros ==
    /\ \A k \in 1..(c - 1) : IsMacro(k)
    /\ output = Expansion[c - 1]
    /\ verdict = "failed" => Inside[c - 1] = c - 1 /\ IsBad(c - 1)
    /\ verdict # "none" => \A d \in Definitions : d < c - 1 => ~IsBad(d)
    /\ verdict = "expanded"  => AtEnd /\ Inside[Len(code)] = 0
    /\ verdict = "undefined" => AtEnd /\ Inside[Len(code)] # 0

\* The strengthening that makes it inductive: where the cursor stands, which
\* body is being collected, and that the macros are the definitions read.
Collected(d) == [m \in 1..(c - d - 2) |-> d + 1 + m]

\* The definitions read; the one that is being collected is not a macro yet.
DefinitionsRead ==
    \A d \in Definitions : d < c - 1 =>
        /\ ~IsBad(d)
        /\ d # Inside[c - 1] =>
              NameOf(d) \in Defined /\ defined_macros[NameOf(d)] = InOrder(BodyOf(d))
MacrosDefined ==
    \A n \in Defined : \E d \in Definitions :
        d < c - 1 /\ d # Inside[c - 1] /\ NameOf(d) = n

MacroInv ==
    /\ verdict = "none" /\ macro_name = NoMacro => Inside[c - 1] = 0
    /\ verdict = "none" /\ macro_name # NoMacro =>
          LET d == Inside[c - 1]
          IN  /\ d \in Definitions /\ d < c - 1
              /\ macro_name = NameOf(d) /\ macro_body = Collected(d)
              /\ \A k \in d..(c - 1) : Inside[k] = d
    /\ DefinitionsRead
    /\ MacrosDefined

\* Expansion comes to an end if every name outside the definitions is one of
\* an earlier macro.
Terminates == (\A k \in Places : IsMacro(k)) => <>(verdict # "none")
=============================================================================
