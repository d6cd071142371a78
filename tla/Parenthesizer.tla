--------------------------- MODULE Parenthesizer ----------------------------
(***************************************************************************)
(* The parenthesizer of parenthesizer.hpp: reads an expression left to     *)
(* right and rewrites it with a pair of parentheses around every           *)
(* operation, so that the parser needs no priorities.                      *)
(*                                                                         *)
(* Tokens are their positions in `toks`.  An output list holds tokens and  *)
(* the parentheses inserted; a closure, an operator waiting for its        *)
(* operands, is the first and the last token of the operator (a call, an   *)
(* index or a type constraint is a whole scope).  A parenthesized operand  *)
(* is rewritten by a parenthesizer of its own: `callers` are the ones that *)
(* wait for it.                                                            *)
(***************************************************************************)
EXTENDS Scopes, SequencesExt

CONSTANTS
    TkTypes,      (* the token types that occur         *)
    Expressions   (* the token ranges to be rewritten   *)

ASSUME ExpressionsAssumption == Expressions \subseteq Seq(TkTypes)

VARIABLES
    toks,      (* the token range                                    *)
    p,         (* the parenthesizer that runs                        *)
    callers,   (* the ones suspended in action_skip (innermost last) *)
    verdict    (* "none", "done" or "throws"                         *)

vars == <<toks, p, callers, verdict>>

-----------------------------------------------------------------------------
(* tk_type_operation, tk_type_priority and tk_type_assoc: one or two token *)
(* types of each class.  A closure that opens a scope is a postfix         *)
(* operator, which is also what the tables say of a scope token.           *)

ScopeTokens == OpeningScopes \cup ClosingScopes

Operation(t) ==
    CASE t \in {"simple_assignment_", "addition_", "multiplication_",
                "equal_", "period_", "ellipsis_"}         -> "binary_"
      [] t \in {"negation_", "commerical_at_"}            -> "prefix_"
      [] t \in ScopeTokens \cup {"increment_"}            -> "postfix_"
      [] OTHER                                            -> "none_"

MaxPriority == 2147483647

Priority(t) ==
    CASE t = "none_"                              -> 0
      [] t = "simple_assignment_"                 -> 20000
      [] t = "equal_"                             -> 120000
      [] t = "addition_"                          -> 140000
      [] t = "multiplication_"                    -> 150000
      [] t = "negation_"                          -> 160000
      [] t \in ScopeTokens \cup {"increment_"}    -> 170000
      [] t = "period_"                            -> 190000
      [] OTHER                                    -> MaxPriority

LeftAssoc(t) == t \in {"addition_", "multiplication_", "equal_", "period_"}

-----------------------------------------------------------------------------
(* The output list and the closures over it.                               *)

Sentinel   == 0     \* the e_tk::none_ token in front of the output
OpenParen  == -1    \* a parenthesis inserted
CloseParen == -2

TypeOf(x)       == IF x = Sentinel THEN "none_" ELSE toks[x]
ClosurePriority(c)  == Priority(TypeOf(c.front))
ClosureOperation(c) == Operation(TypeOf(c.front))

NewParenthesizer(head, end) ==
    [head     |-> head,
     end      |-> end,
     expected |-> "operative_",
     output   |-> <<Sentinel>>,
     closures |-> <<[front |-> Sentinel, back |-> Sentinel]>>]

\* The output with markers inserted right before and right after its tokens.
Insert(before(_), after(_)) ==
    FlattenSeq([k \in 1..Len(p.output) |->
        before(p.output[k]) \o <<p.output[k]>> \o after(p.output[k])])

Nothing(x) == <<>>
Parens(paren, n) == [k \in 1..n |-> paren]

Depth == Len(p.closures)
last_closure  == p.closures[Depth]

\* find_backward_consecutive: the closures at the end with one priority.
RunLength ==
    Cardinality({k \in 1..Depth :
        \A j \in k..Depth : ClosurePriority(p.closures[j]) = ClosurePriority(last_closure)})
RunOf(n)  == {p.closures[k] : k \in (Depth - n + 1)..Depth}
Before(n) == p.closures[Depth - n]      \* the closure in front of that run

\* Of the first k closures, those left when pop_if removes all of the priority
\* just resolved.
KeptOf[k \in 0..Depth] ==
    IF k = 0 THEN <<>>
    ELSE IF ClosurePriority(p.closures[k]) = ClosurePriority(last_closure) THEN KeptOf[k - 1]
    ELSE Append(KeptOf[k - 1], p.closures[k])

WithoutLastPriority == KeptOf[Depth]

Resolved(output, closures) ==
    [p EXCEPT !.output = output, !.closures = closures]

\* A seeded fault: a postfix operator closes after its first token.
resolve_postfix_at_front ==
    LET n == RunLength
        after(x) == IF x = Before(n).back THEN Parens(OpenParen, n)
                    ELSE IF \E c \in RunOf(n) : x = c.front THEN <<CloseParen>>
                    ELSE <<>>
    IN  Resolved(Insert(Nothing, after), SubSeq(p.closures, 1, Depth - n))

\* (((a X) Y) Z): each postfix operator of the run closes at its own back.
resolve_postfix ==
    LET n == RunLength
        after(x) == IF x = Before(n).back THEN Parens(OpenParen, n)
                    ELSE IF \E c \in RunOf(n) : x = c.back THEN <<CloseParen>>
                    ELSE <<>>
    IN  Resolved(Insert(Nothing, after), SubSeq(p.closures, 1, Depth - n))

\* ((a + b) + c): all open in front, each closes before the next operator.
resolve_binary_left_associative ==
    LET n == RunLength
        first == p.closures[Depth - n + 1]
        before(x) == IF \E c \in RunOf(n) \ {first} : x = c.front
                     THEN <<CloseParen>> ELSE <<>>
        after(x)  == IF x = Before(n).back THEN Parens(OpenParen, n) ELSE <<>>
    IN  Resolved(Append(Insert(before, after), CloseParen), WithoutLastPriority)

\* (a = (b = c)): each opens after the operator before it, all close at the end.
resolve_binary_right_associative ==
    LET n == RunLength
        after(x) == IF \E c \in (RunOf(n) \ {last_closure}) \cup {Before(n)} : x = c.back
                    THEN <<OpenParen>> ELSE <<>>
    IN  Resolved(Insert(Nothing, after) \o Parens(CloseParen, n), WithoutLastPriority)

\* Where a single binary operator opens: after the last closure in front of it
\* that is neither one of its postfix operators nor one of their prefixes.
OpensAfter ==
    LET is(k, op)  == ClosurePriority(p.closures[k]) = Priority(op)
        pastPostfix == CHOOSE k \in 1..(Depth - 1) :
                          /\ ~is(k, "increment_")
                          /\ \A j \in (k + 1)..(Depth - 1) : is(j, "increment_")
    IN  CHOOSE k \in 1..pastPostfix :
            /\ ~is(k, "negation_")
            /\ \A j \in (k + 1)..pastPostfix : is(j, "negation_")

resolve_binary_single ==
    LET after(x) == IF x = p.closures[OpensAfter].back THEN <<OpenParen>> ELSE <<>>
    IN  Resolved(Append(Insert(Nothing, after), CloseParen),
                 SubSeq(p.closures, 1, Depth - 1))

resolve_binary ==
    IF RunLength = 1 THEN resolve_binary_single
    ELSE IF LeftAssoc(TypeOf(last_closure.front)) THEN resolve_binary_left_associative
    ELSE resolve_binary_right_associative

resolve_prefix ==
    LET before(x) == IF x = last_closure.front THEN <<OpenParen>> ELSE <<>>
    IN  Resolved(Append(Insert(before, Nothing), CloseParen),
                 SubSeq(p.closures, 1, Depth - 1))

resolve_next ==
    CASE ClosureOperation(last_closure) = "prefix_"  -> resolve_prefix
      [] ClosureOperation(last_closure) = "postfix_" -> resolve_postfix
      [] ClosureOperation(last_closure) = "binary_"  -> resolve_binary

-----------------------------------------------------------------------------
(* choose_action: one step per head, and one per resolve_next.             *)

Init ==
    /\ toks \in Expressions
    /\ p = NewParenthesizer(1, Len(toks) + 1)
    /\ callers = <<>>
    /\ verdict = "none"

AtEnd == p.head = p.end
HeadType  == toks[p.head]

\* What find_paren, find_brace and find_bracket return for the head (TkScope).
ScopeCloses ==
    {c \in p.head..(p.end - 1) :
        IsScope(SubSeq(toks, p.head, p.end - 1), HeadType, c - p.head + 1)}

Expecting(what) == verdict = "none" /\ ~AtEnd /\ p.expected = what

Throw ==
    /\ verdict' = "throws"
    /\ UNCHANGED <<toks, p, callers>>

\* Seeded faults: the head is stored at once, or resolves its equals too.
NeverResolve   == FALSE
ResolvesEquals == Priority(HeadType) <= ClosurePriority(last_closure)

\* action_check first resolves the closures that bind tighter than the head.
MustResolve == Priority(HeadType) < ClosurePriority(last_closure)

action_resolve ==
    /\ MustResolve
    /\ p' = resolve_next
    /\ UNCHANGED <<toks, callers, verdict>>

\* Then the head, up to token `last`, is put out and becomes a closure.  (The
\* first operator is stored without a check: only the sentinel, which binds
\* the least, could be resolved.)
action_store(last, expected) ==
    /\ ~MustResolve
    /\ p' = [p EXCEPT
          !.output   = @ \o [k \in 1..(last - p.head + 1) |-> p.head + k - 1],
          !.closures = Append(@, [front |-> p.head, back |-> last]),
          !.head     = last + 1,
          !.expected = expected]
    /\ UNCHANGED <<toks, callers, verdict>>

action_check(last, expected) == action_resolve \/ action_store(last, expected)

\* A seeded fault: the head moves two tokens on.
SkipTwoTokens ==
    /\ Expecting("operative_") /\ Operation(HeadType) = "none_"
    /\ p' = [p EXCEPT !.output = Append(@, p.head), !.head = @ + 2,
                      !.expected = "operator_"]
    /\ UNCHANGED <<toks, callers, verdict>>

SkipOperand ==
    /\ Expecting("operative_") /\ Operation(HeadType) = "none_"
    /\ p' = [p EXCEPT !.output = Append(@, p.head), !.head = @ + 1,
                      !.expected = "operator_"]
    /\ UNCHANGED <<toks, callers, verdict>>

\* A parenthesized operand: a new parenthesizer runs on what it contains.
EnterOperand ==
    /\ Expecting("operative_") /\ HeadType = "open_paren_"
    /\ \E c \in ScopeCloses :
          /\ callers' = Append(callers, [p EXCEPT !.head = c + 1,
                                                  !.expected = "operator_"])
          /\ p' = NewParenthesizer(p.head + 1, c)
    /\ UNCHANGED <<toks, verdict>>

\* A list operand: action_skip does nothing, so the head stays on its brace.
SkipList ==
    /\ Expecting("operative_") /\ HeadType = "open_brace_"
    /\ ScopeCloses # {}
    /\ p' = [p EXCEPT !.expected = "operator_"]
    /\ UNCHANGED <<toks, callers, verdict>>

CheckPrefix ==
    /\ Expecting("operative_") /\ Operation(HeadType) = "prefix_"
    /\ action_check(p.head, "operative_")

CheckScope ==
    /\ Expecting("operator_") /\ IsOpeningScope(HeadType)
    /\ \E c \in ScopeCloses : action_check(c, "operator_")

CheckBinary ==
    /\ Expecting("operator_") /\ Operation(HeadType) = "binary_"
    /\ action_check(p.head, "operative_")

CheckPostfix ==
    /\ Expecting("operator_") /\ Operation(HeadType) = "postfix_"
    /\ ~IsOpeningScope(HeadType)
    /\ action_check(p.head, "operator_")

\* A head that cannot stand where it is, or a scope that does not close.
RejectHead ==
    /\ \/ /\ Expecting("operative_")
          /\ \/ Operation(HeadType) = "binary_"
             \/ /\ Operation(HeadType) = "postfix_"
                /\ HeadType \notin {"open_paren_", "open_brace_"}
             \/ HeadType \in {"open_paren_", "open_brace_"} /\ ScopeCloses = {}
       \/ /\ Expecting("operator_")
          /\ \/ Operation(HeadType) \in {"prefix_", "none_"}
             \/ IsOpeningScope(HeadType) /\ ScopeCloses = {}
    /\ Throw

\* At the end all closures are resolved, whatever was expected next.
ResolveAtEnd ==
    /\ verdict = "none" /\ AtEnd /\ Depth > 1
    /\ p' = resolve_next
    /\ UNCHANGED <<toks, callers, verdict>>

\* A seeded fault: the operand is put out in front of what precedes it.
LeaveOperandInFront ==
    /\ verdict = "none" /\ AtEnd /\ Depth = 1 /\ callers # <<>>
    /\ LET caller == callers[Len(callers)]
       IN  p' = [caller EXCEPT !.output = <<Sentinel>> \o Tail(p.output) \o Tail(@)]
    /\ callers' = SubSeq(callers, 1, Len(callers) - 1)
    /\ UNCHANGED <<toks, verdict>>

\* An operand is finished: its output goes to the parenthesizer it is part of.
LeaveOperand ==
    /\ verdict = "none" /\ AtEnd /\ Depth = 1 /\ callers # <<>>
    /\ LET caller == callers[Len(callers)]
       IN  p' = [caller EXCEPT !.output = @ \o Tail(p.output)]
    /\ callers' = SubSeq(callers, 1, Len(callers) - 1)
    /\ UNCHANGED <<toks, verdict>>

\* A seeded fault: finished is never set.
FinishForgotten ==
    /\ verdict = "none" /\ AtEnd /\ Depth = 1 /\ callers = <<>>
    /\ UNCHANGED vars

Finish ==
    /\ verdict = "none" /\ AtEnd /\ Depth = 1 /\ callers = <<>>
    /\ verdict' = "done"
    /\ UNCHANGED <<toks, p, callers>>

Next ==
    \/ SkipOperand \/ EnterOperand \/ SkipList
    \/ CheckPrefix \/ CheckScope \/ CheckBinary \/ CheckPostfix \/ RejectHead
    \/ ResolveAtEnd \/ LeaveOperand \/ Finish

Spec     == Init /\ [][Next]_vars
FairSpec == Spec /\ WF_vars(Next)

-----------------------------------------------------------------------------
(* What the rewriting promises.                                            *)

Parenthesizers == {p} \cup {callers[k] : k \in 1..Len(callers)}

TypeOK ==
    /\ toks \in Seq(TkTypes)
    /\ verdict \in {"none", "done", "throws"}
    /\ \A q \in Parenthesizers :
          /\ q.end \in 1..(Len(toks) + 1) /\ q.head \in 1..q.end
          /\ q.expected \in {"operative_", "operator_"}
          /\ q.output \in Seq(CloseParen..Len(toks))
          /\ \A k \in 1..Len(q.closures) :
                /\ q.closures[k].front \in 0..Len(toks)
                /\ q.closures[k].back \in 0..Len(toks)

-----------------------------------------------------------------------------
(* The expression read by its text alone.                                  *)

\* A token that may be the last one of an operand.
EndsOperand(t) == t \notin OpeningScopes /\ Operation(t) \in {"none_", "postfix_"}
ClosedBy(k)    == {c \in k..Len(toks) : ClosesAt(toks, k, c)}
PairedWith(k)  == CHOOSE c \in ClosedBy(k) : TRUE

\* A scope right after an operand is a call, an index or a type constraint; so
\* is every list for the code (SkipList).
CallOpens ==
    {k \in 1..Len(toks) : /\ IsOpeningScope(toks[k])
                          /\ \/ toks[k] = "open_brace_"
                             \/ k > 1 /\ EndsOperand(toks[k - 1])}
ArgumentsOf(k) == {m \in (k + 1)..Len(toks) : \E c \in ClosedBy(k) : m <= c}
Arguments      == UNION {ArgumentsOf(k) : k \in CallOpens}

\* Any other parenthesis holds an operand, and does not reach the output.
OperandParens   == {k \in 1..Len(toks) : toks[k] = "open_paren_"} \ (CallOpens \cup Arguments)
OperandBrackets == OperandParens \cup UNION {ClosedBy(k) : k \in OperandParens}
OperandIn(k)    == ((k + 1)..(PairedWith(k) - 1)) \ OperandBrackets

Operators == {k \in 1..Len(toks) : Operation(toks[k]) # "none_"} \ (Arguments \cup OperandBrackets)
Operands  == 1..Len(toks) \ (Operators \cup Arguments \cup OperandBrackets)

-----------------------------------------------------------------------------
(* The rewriting, at every step.                                           *)

Frames == Append(callers, p)

TokensOf(output) == {output[m] : m \in 1..Len(output)} \ {Sentinel, OpenParen, CloseParen}

IsInOrder(output) ==
    \A m, n \in 1..Len(output) :
        m < n /\ {output[m], output[n]} \subseteq TokensOf(output) => output[m] < output[n]

\* No token is lost, repeated or moved, through every nested operand: the
\* outputs, innermost last, hold the tokens read so far in order, without the
\* parentheses of operands.
KeepsTokens ==
    /\ UNION {TokensOf(q.output) : q \in Parenthesizers}
         = (1..(p.head - 1)) \ OperandBrackets
    /\ \A q \in Parenthesizers : IsInOrder(q.output)
    /\ \A i, j \in 1..Len(Frames) : i < j =>
          \A x \in TokensOf(Frames[i].output), y \in TokensOf(Frames[j].output) : x < y

\* The tokens put out that are, with the next one, in one call, index or type
\* constraint opened before h.
Inner(h) ==
    {x \in 1..Len(toks) : \E k \in CallOpens :
        k < h /\ k <= x /\ \E c \in ClosedBy(k) : x < c}

AreNeighbours(x, output) ==
    \E m \in 1..(Len(output) - 1) : output[m] = x /\ output[m + 1] = x + 1

\* "A closure is a range of tokens representing a singular ast node": a call,
\* an index or a type constraint that was put out stays one range of the
\* output, resolved or not: no parenthesis is ever inserted between two of its
\* tokens.
ScopesStayWhole ==
    \A x \in Inner(p.head) : \E q \in Parenthesizers : AreNeighbours(x, q.output)

\* The closures wait in order of priority, those of one priority together:
\* what find_backward_consecutive finds is all that pop_if removes.
ClosuresInOrder ==
    \A q \in Parenthesizers : \A k \in 2..Len(q.closures) :
        Priority(TypeOf(q.closures[k - 1].front)) <= Priority(TypeOf(q.closures[k].front))

-----------------------------------------------------------------------------
(* The result.                                                             *)

Result == Tail(p.output)

Level(k) ==
    Cardinality({j \in 1..k : Result[j] = OpenParen})
        - Cardinality({j \in 1..k : Result[j] = CloseParen})

\* A group: the places of a parenthesis inserted and of the one that closes it.
Groups ==
    {g \in (1..Len(Result)) \X (1..Len(Result)) :
        /\ g[1] < g[2]
        /\ Result[g[1]] = OpenParen /\ Result[g[2]] = CloseParen
        /\ Level(g[2]) = Level(g[1]) - 1
        /\ \A m \in g[1]..(g[2] - 1) : Level(m) >= Level(g[1])}

TokensIn(g)  == {Result[k] : k \in g[1]..g[2]} \ {OpenParen, CloseParen}
Children(g)  == {h \in Groups : g[1] < h[1] /\ h[2] < g[2] /\ Level(h[1]) = Level(g[1]) + 1}
OwnTokens(g) == TokensIn(g) \ UNION {TokensIn(h) : h \in Children(g)}
OwnOperators(g) == OwnTokens(g) \cap Operators
OperatorOf(g)   == CHOOSE x \in OwnOperators(g) : TRUE

\* What stands left and right of the operator: single operands and groups.
LeftOf(g)   == {h \in Children(g) : \A x \in TokensIn(h) : x < OperatorOf(g)}
RightOf(g)  == Children(g) \ LeftOf(g)
LeftCount(g)  == Cardinality(LeftOf(g))
                   + Cardinality({x \in OwnTokens(g) \cap Operands : x < OperatorOf(g)})
RightCount(g) == Cardinality(RightOf(g))
                   + Cardinality({x \in OwnTokens(g) \cap Operands : x > OperatorOf(g)})

\* One operator, with an operand on each side that its operation asks for.
IsOneOperation(g) ==
    /\ Cardinality(OwnOperators(g)) = 1
    /\ <<LeftCount(g), RightCount(g)>> =
            CASE Operation(toks[OperatorOf(g)]) = "binary_"  -> <<1, 1>>
              [] Operation(toks[OperatorOf(g)]) = "prefix_"  -> <<0, 1>>
              [] Operation(toks[OperatorOf(g)]) = "postfix_" -> <<1, 0>>

\* The program itself wrote parentheses around this group.
IsExplicit(g) == \E k \in OperandParens : OperandIn(k) = TokensIn(g)

\* An operand may be a group that binds tighter, or as tight on the side to
\* which the operator associates.  What its text alone delimits may always be
\* one: a postfix operation on the left, a prefix operation on the right.
OperandsBindTighter(g) ==
    LET op      == toks[OperatorOf(g)]
        of(h)   == toks[OperatorOf(h)]
        may(h, delimited, asTight) ==
            \/ IsExplicit(h)
            \/ Operation(of(h)) = delimited
            \/ Priority(of(h)) > Priority(op)
            \/ Priority(of(h)) = Priority(op) /\ asTight
    IN  /\ \A h \in LeftOf(g)  : may(h, "postfix_", LeftAssoc(op))
        /\ \A h \in RightOf(g) : may(h, "prefix_", ~LeftAssoc(op))

\* A group is inside, outside or around parentheses of the program.
RespectsParens(g) ==
    \A k \in OperandParens :
        \/ OperandIn(k) \subseteq TokensIn(g)
        \/ TokensIn(g) \subseteq OperandIn(k)
        \/ OperandIn(k) \cap TokensIn(g) = {}

\* The result says, with its parentheses alone, what the priorities and the
\* associativity of the operators and the parentheses of the program say.
IsFullyParenthesized ==
    /\ Cardinality(Groups) = Cardinality(Operators)
    /\ \A g \in Groups :
          IsOneOperation(g) /\ OperandsBindTighter(g) /\ RespectsParens(g)
    /\ Groups # {} => <<1, Len(Result)>> \in Groups

\* Operators x and y, in this order, belong to one operand: only unary
\* operators and accesses stand between them, inside the same parentheses.
Around(x) == {k \in OperandParens : k < x /\ x < PairedWith(k)}
OfOneOperand(x, y) ==
    /\ x < y /\ Around(x) = Around(y)
    /\ \A z \in Operators \cap (x + 1)..(y - 1) :
          \/ Operation(toks[z]) # "binary_" \/ toks[z] = "period_"
          \/ Around(z) # Around(x)

\* A member access on an operand with a prefix operator, or two in a row on
\* one with a postfix operator: MemberAccessFromLeftToRight is about these.
AccessAfterOperator ==
    \E x, y \in Operators :
        /\ OfOneOperand(x, y) /\ toks[y] = "period_"
        /\ \/ Operation(toks[x]) = "prefix_"
           \/ /\ Operation(toks[x]) = "postfix_"
              /\ y + 2 \in Operators /\ toks[y + 2] = "period_"

\* Every other well-formed expression is parenthesized as its operators say.
ParenthesizesRight ==
    verdict = "done" /\ ~AccessAfterOperator
        => IsFullyParenthesized

\* test.cpp:1249: "left-to-right associativity of member access".
MemberAccessFromLeftToRight == verdict = "done" => IsFullyParenthesized

\* The rewriting always comes to an end, with a result or a throw.
Terminates == <>(verdict # "none")
=============================================================================
