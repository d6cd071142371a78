-------------------------- MODULE MCParenthesizer ---------------------------
(* Bounded instance of Parenthesizer: all well-formed expressions of up to  *)
(* MaxLen tokens over one operator of each class, and some that are not.    *)
EXTENDS ExpressionParser

CONSTANTS MaxLen, Binary

Call   == <<"open_paren_", "close_paren_">>
Access == <<"period_", "alnumus_">>   \* parenthesizer.hpp:6: only an identifier

\* Words[n][s][d]: the ways to go on for n tokens, in state s of the reader
\* ("x" expects an operand, "o" an operator) inside d operands.
Words[n \in Nat] ==
    [s \in {"x", "o"} |-> [d \in 0..MaxLen |->
        LET then(t, s2, d2) == {t \o w : w \in Words[n - Len(t)][s2][d2]}
        IN  IF n = 0 THEN IF s = "o" /\ d = 0 THEN {<<>>} ELSE {}
            ELSE IF d >= n THEN {}
            ELSE IF s = "x"
            THEN then(<<"alnumus_">>, "o", d)
                 \cup then(<<"negation_">>, "x", d)
                 \cup then(<<"open_paren_">>, "x", d + 1)
            ELSE UNION {then(<<b>>, "x", d) : b \in Binary \ {"period_"}}
                 \cup (IF n > 1 /\ "period_" \in Binary
                       THEN then(Access, "o", d) ELSE {})
                 \cup then(<<"increment_">>, "o", d)
                 \cup (IF n > 1 THEN then(Call, "o", d) ELSE {})
                 \cup (IF d > 0 THEN then(<<"close_paren_">>, "o", d - 1) ELSE {})]]

WellFormed == UNION {Words[n]["x"][0] : n \in 1..MaxLen}
MCTkTypes == ScopeTokens \cup Binary
                \cup {"alnumus_", "negation_", "increment_", "none_"}

\* Heads that cannot stand where they are, and scopes that do not close.
Rejected ==
    {<<"addition_">>, <<"alnumus_", "alnumus_">>, <<"alnumus_", "negation_">>,
     <<"open_paren_", "alnumus_">>, <<"alnumus_", "open_brace_", "close_paren_">>,
     <<"open_brace_", "close_brace_", "alnumus_">>}

\* Calls, indices and type constraints with something inside.
F    == <<"alnumus_">>
Round(w)  == <<"open_paren_">> \o w \o <<"close_paren_">>
Curly(w)  == <<"open_brace_">> \o w \o <<"close_brace_">>
Square(w) == <<"open_bracket_">> \o w \o <<"close_bracket_">>
Scoped ==
    {F \o first \o second \o rest :
        first  \in {Round(F), Curly(F), Square(F), Round(Round(F)), Curly(Square(<<>>))},
        second \in {<<>>, Square(F), Round(<<"negation_">>)},
        rest   \in {<<>>, <<"increment_">>, <<"addition_">> \o F \o Curly(F),
                    <<"simple_assignment_">> \o Round(F \o <<"addition_">> \o F)}}

MCExpressions == WellFormed \cup Scoped \cup Rejected
NoPrefix == {w \in WellFormed : \A k \in 1..Len(w) : w[k] # "negation_"}
=============================================================================
