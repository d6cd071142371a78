--------------------------- MODULE MCBlockParser ----------------------------
(* Bounded instance of BlockParser: programs of every kind of statement,    *)
(* each in every block that may hold it, also in the formats that comments  *)
(* give and the code refuses; and programs with one token taken out or put  *)
(* in.                                                                      *)
EXTENDS BlockParser

A    == "alnumus_"
Set  == "simple_assignment_"
Eos  == "eos_"
Open  == "open_paren_"
Close == "close_paren_"
Begin == "open_brace_"
Done  == "close_brace_"

MCExpressionTokens == {A, "addition_", "number_literal_"} \cup OpeningScopes \cup ClosingScopes

AnInt  == <<"aint_">>
RangeOf(type, low, high) ==
    <<type, "open_bracket_">> \o low \o <<"ellipsis_">> \o high \o <<"close_bracket_">>
Number == <<"number_literal_">>
Minus  == <<"subtraction_", "number_literal_">>
Ranged == RangeOf("aint_", Number, Minus)
Ranges == {RangeOf("aint_", Minus, Minus), RangeOf("aint_", Minus, Number)}
Uints  == {<<"auint_">>, RangeOf("auint_", Number, Number)}
Framed == <<"open_bracket_", A, "close_bracket_">>
Value  == <<A>>
Group  == <<Open, A, Close>>

Block(stmts)   == <<Begin>> \o stmts \o <<Done>>
Paren(tokens)  == <<Open>> \o tokens \o <<Close>>

Simple ==
    {<<A>> \o t \o v \o <<Eos>> :
        t \in {<<>>, <<A>>, Framed, AnInt, Ranged}, v \in {<<>>, <<Set>> \o Value, <<Set>> \o Group}}
    \cup {<<"use_", A, Set>> \o Value \o <<Eos>>}

FuncOf(body) ==
    {Framed \o <<A>> \o a \o t \o Block(body) :
        a \in {<<>>, Paren(<<>>), Paren(Value)}, t \in {<<>>, <<A>>, Framed, AnInt, Ranged}}
ClassOf(body) == {<<"class_", A>> \o Block(body) \o <<Eos>>}

If(body)   == <<"if_">> \o Group \o Block(body)
ElifOn(c, body) == <<"elif_">> \o c \o Block(body)
Elif(body) == ElifOn(Group, body)
Else(body) == <<"else_">> \o Block(body)
IfsOf(body) ==
    {If(body) \o rest \o <<Eos>> :
        rest \in {<<>>, Else(body), Elif(body) \o Else(body),
                  Elif(body) \o Elif(body) \o Else(body)}}
LoopsOf(body) ==
    {<<"while_">> \o Group \o Block(body) \o <<Eos>>,
     <<"for_">> \o Paren(<<A, Eos, Open, A, Close, Eos, A>>) \o Block(body) \o <<Eos>>,
     <<"on_">> \o Group \o Block(<<>>) \o <<Eos>>,
     <<"on_">> \o Group \o Block(If(body) \o <<Eos>>) \o <<Eos>>}
    \cup {<<"on_">> \o Group \o Block(i \o i) \o <<Eos>> : i \in IfsOf(body)}

Short == <<A, Eos>>

\* A statement for each format, the bodies of those with blocks as given.
Pragmatic(bodies, classes) ==
    Simple \cup UNION {FuncOf(b) : b \in bodies} \cup UNION {ClassOf(b) : b \in classes}
Functional(bodies, classes) ==
    Pragmatic(bodies, classes) \cup {<<"return_">> \o v \o <<Eos>> : v \in {Value, Group}}
    \cup UNION {IfsOf(b) \cup LoopsOf(b) : b \in bodies}

\* Two levels of nesting: inside come one of each kind, and two of them.
Inner ==
    {Short, <<"return_", A, Eos>>, If(Short) \o <<Eos>>, If(Short) \o Else(Short) \o <<Eos>>,
     <<"while_">> \o Group \o Block(Short) \o <<Eos>>,
     Framed \o <<A>> \o Block(Short), Short \o Short,
     If(Short) \o <<Eos>> \o Short \o If(Short) \o <<Eos>>}
InClass == {<<>>, Short, Framed \o <<A>> \o Block(Short) \o Short,
            <<"class_", A>> \o Block(<<>>) \o <<Eos>> \o Short}

Program(enter, start) ==
    <<"enter_">> \o Block(enter) \o <<"start_">> \o Block(start) \o <<"eof_">>

\* What the comments allow, too, and the code refuses.
Bare == {Value, <<A, "addition_", A>>, Group \o <<"addition_", A>>}
FuncEos == {f \o <<Eos>> : f \in FuncOf(Short)}
Declared ==
    {<<A>> \o t \o v \o <<Eos>> : t \in Ranges \cup Uints, v \in {<<>>, <<Set>> \o Value}}
    \cup {Framed \o <<A>> \o a \o t \o Block(Short) :
              a \in {<<>>, Paren(Value)}, t \in Ranges \cup Uints}
Commented ==
    UNION {{Program(s, Short), Program(<<>>, s), Program(<<>>, Short \o s \o Short)} :
              s \in FuncEos \cup FuncOf(<<>>) \cup Declared}
    \cup {Program(<<>>, If(Short) \o e \o Else(Short) \o <<Eos>>) :
              e \in {ElifOn(c, Short) : c \in Bare} \cup {Elif(Short) \o ElifOn(c, Short) : c \in Bare}}
    \cup {Program(s, <<>>) : s \in {<<>>, Short}}
    \cup {Program(<<>>, s) : s \in IfsOf(<<>>) \cup LoopsOf(<<>>)}
    \cup UNION {{s \o <<"eof_">>, Block(s) \o <<"eof_">>} :
              s \in {<<>>} \cup Pragmatic({Short}, InClass)}

Outer == Functional(Inner, InClass)
MCWellFormed ==
    Commented \cup
    {Program(p, Short) : p \in {<<>>} \cup Pragmatic(Inner, InClass)}
    \cup {Program(<<>>, s) : s \in Outer}
    \cup {Program(<<>>, s \o Short \o t) : s, t \in Functional({Short}, {<<>>})}

\* One token out, or one in.
Without(p) == {RemoveAt(p, i) : i \in 1..(Len(p) - 1)}
Inserted   == {"eof_", Eos, A, "if_", "elif_", "aint_"} \cup OpeningScopes \cup ClosingScopes
With(p)    == {InsertAt(p, i, t) : i \in 1..Len(p), t \in Inserted}

Edited ==
    {Program(Short, Short)} \cup
    {Program(s, Short) :
        s \in {Framed \o <<A>> \o a \o Block(Short) :
                  a \in {<<>>, Paren(<<>>) \o <<A>>, Paren(Value) \o Ranged, Framed}}
             \cup ClassOf(<<>>) \cup ClassOf(Short)}
    \cup {Program(<<>>, s) : s \in IfsOf(Short) \cup LoopsOf(Short) \cup
        {<<"return_">> \o Group \o <<Eos>>, <<A>> \o Ranged \o <<Set>> \o Group \o <<Eos>>,
         <<"use_", A, Set>> \o Value \o <<Eos>>}}

\* The block ends in the middle of its last statement, before a `;`.
CutShort ==
    {Program(<<>>, s \o Short) :
        s \in UNION {ClassOf(b) \cup {If(b) \o <<Eos>>} \cup {Framed \o <<A>> \o Block(b) \o <<Eos>>} :
            b \in {<<A>>, <<A, A>>, <<A, Set>>, <<"use_", A, Set>>, <<"return_">>, <<"if_">>,
                  Framed, Framed \o <<A>>, <<"class_">>, <<"class_", A>>, <<"while_">> \o Group}}}

MCPrograms == MCWellFormed \cup CutShort \cup UNION {Without(p) \cup With(p) : p \in Edited}
=============================================================================
