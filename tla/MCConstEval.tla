----------------------------- MODULE MCConstEval ----------------------------
(* Bounded instance of ConstEval: the same names for variables, classes,    *)
(* functions and members, so that each meets each.                         *)
EXTENDS ConstEval

Literal(type, n)  == [op |-> "literal_", type |-> type, val |-> n]
Name(n)           == [op |-> "alnumus_", name |-> n]
Node(op, l, r)   == [op |-> op, left |-> l, right |-> r]

Three     == Literal("NUMBER", 3)
Bit       == Literal("BIT", 1)
Byte      == Literal("BYTE", 3)       \* the greatest in two bits
Unsigned  == Literal("UNSIGNED", 5)
Variables == {Name("a"), Name("b"), Name("F")}

\* Results that wrap, overflow, divide by zero or are of no use afterwards,
\* and what is not implemented; with the operands of these.
Zero       == Node("subtraction_", Name("b"), Name("b"))
Negated    == Node("bitwise_NOT_", Name("a"), Name("a"))
Operations ==
    {Zero, Negated,
     Node("addition_", Bit, Bit),
     Node("multiplication_", Name("a"), Name("b")),
     Node("division_", Name("a"), Zero),
     Node("remainder_", Three, Name("a")),
     Node("equal_", Literal("NUMBER", 8), Three),
     Node("addition_", Name("a"), Negated)}

MCExprs == {Three, Bit, Byte, Unsigned, Literal("NUMBER", 8)} \cup Variables \cup Operations

MCArguments == {Three, Zero}

Member(n, x) == [name |-> n, init |-> x]
MCBodies ==
    {<<>>} \cup {<<Member("a", x), Member("b", Name("a"))>> : x \in {Three, Name("F")}}
=============================================================================
