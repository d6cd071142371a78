-------------------------- MODULE ExpressionParser --------------------------
(***************************************************************************)
(* parse_expression_impl of parenthesizer.hpp: builds the tree of an       *)
(* expression from the output of the Parenthesizer, which it relies on for *)
(* the priorities.                                                         *)
(*                                                                         *)
(* The function changes nothing, so it is an operator here: it returns the *)
(* set that holds the node, or the empty set if the code throws.  A node   *)
(* is the token it is made from and its operands; the node that stands for *)
(* the arguments of a call, which are not parsed yet, is left out.         *)
(***************************************************************************)
EXTENDS Parenthesizer

Node(token, operands) == [token |-> token, operands |-> operands]

\* Token k of the range e, as tk_iterator::get gives it; eof_ past the end.
EndToken == -3
TokenAt(e, k) == IF k > Len(e) THEN EndToken ELSE e[k]
TypeAt(e, k) ==
    LET x == TokenAt(e, k)
    IN  CASE x = OpenParen  -> "open_paren_"
          [] x = CloseParen -> "close_paren_"
          [] x = EndToken   -> "eof_"
          [] OTHER          -> toks[x]
OperationAt(e, k) == Operation(TypeAt(e, k))

\* What find_paren, find_brace and find_bracket return for token k (TkScope).
ScopesAt(e, k) ==
    {c \in k..Len(e) :
        IsScope([j \in 1..(Len(e) - k + 1) |-> TypeAt(e, k + j - 1)],
                TypeAt(e, k), c - k + 1)}
Contained(e, k, c) == SubSeq(e, k + 1, c - 1)

RECURSIVE Parse(_)

\* A seeded fault: contained_end() is taken for the last token, not its end.
OperandAtShort(e, k) ==
    CASE TypeAt(e, k) = "open_paren_"   ->
            UNION {Parse(Contained(e, k, c - 1)) : c \in ScopesAt(e, k)}
      [] OperationAt(e, k) = "none_"    -> {Node(TokenAt(e, k), <<>>)}
      [] OTHER                          -> {}

\* The operand behind a binary or prefix operator.
OperandAt(e, k) ==
    CASE TypeAt(e, k) = "open_paren_"   ->
            UNION {Parse(Contained(e, k, c)) : c \in ScopesAt(e, k)}
      [] OperationAt(e, k) = "none_"    -> {Node(TokenAt(e, k), <<>>)}
      [] OTHER                          -> {}

\* The operation whose first operand ends before token k: a call, an index, a
\* type constraint, another postfix operation or a binary one.  What follows
\* it in e is not looked at.
OperationOf(e, operand, k) ==
    LET ends == IF IsOpeningScope(TypeAt(e, k)) THEN ScopesAt(e, k) ELSE {k}
    IN  CASE OperationAt(e, k) = "postfix_" -> {Node(e[k], <<operand>>) : c \in ends}
          [] OperationAt(e, k) = "binary_"  -> {Node(e[k], <<operand, right>>) :
                                                   right \in OperandAt(e, k + 1)}
          [] OTHER                          -> {}

\* Parentheses around the whole of e are redundant.
Parse(e) ==
    CASE TypeAt(e, 1) = "open_paren_" ->
            UNION {IF c = Len(e) THEN Parse(Contained(e, 1, c))
                   ELSE UNION {OperationOf(e, operand, c + 1) :
                                  operand \in Parse(Contained(e, 1, c))} :
                   c \in ScopesAt(e, 1)}
      [] OperationAt(e, 1) = "none_" ->
            LET operand == Node(TokenAt(e, 1), <<>>)
            IN  IF Len(e) <= 1 THEN {operand} ELSE OperationOf(e, operand, 2)
      [] OperationAt(e, 1) = "prefix_" ->
            {Node(e[1], <<operand>>) : operand \in OperandAt(e, 2)}
      [] OTHER -> {}

-----------------------------------------------------------------------------
(* What the tree says.                                                     *)

\* The tokens of a tree in the order in which they were written.
RECURSIVE ReadOff(_)
ReadOff(node) ==
    LET text(k) == ReadOff(node.operands[k])
    IN  CASE node.operands = <<>>        -> <<node.token>>
          [] Len(node.operands) = 2      -> text(1) \o <<node.token>> \o text(2)
          [] Operation(toks[node.token]) = "prefix_" -> <<node.token>> \o text(1)
          [] OTHER                       -> text(1) \o <<node.token>>

\* The operators that a tree applies to the operation of token x.
RECURSIVE AppliedTo(_, _)
AppliedTo(x, node) ==
    UNION {IF node.operands[k].token = x THEN {node.token}
           ELSE AppliedTo(x, node.operands[k]) : k \in 1..Len(node.operands)}

\* The tree holds every operator and every operand once and in order: none is
\* dropped, though the code never looks at what follows an operation.  And the
\* operators in it are applied as the groups of the parenthesizer say.
ParsesWhole ==
    verdict = "done" /\ ~AccessAfterOperator =>
        \E tree \in Parse(Result) :
            /\ ReadOff(tree) = SetToSortSeq(Operators \cup Operands, <)
            /\ \A g \in Groups : \A h \in Children(g) :
                   AppliedTo(OperatorOf(h), tree) = {OperatorOf(g)}
=============================================================================
