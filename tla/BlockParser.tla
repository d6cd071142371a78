----------------------------- MODULE BlockParser -----------------------------
(***************************************************************************)
(* parser.hpp: parse_program, the pragmatic and functional blocks and the  *)
(* statements in them.                                                     *)
(*                                                                         *)
(* Nearly every function here searches the end of something (a scope, a    *)
(* statement, a block) with one of the finders, hands the range to another *)
(* function that searches again, and goes on from the end it found itself. *)
(* The frames of the calls are the state, the last one running.            *)
(* The finders are given by what they return (module TkScope shows it for  *)
(* those of scopes, TkStatement for those of statements).  The scope       *)
(* tokens are named as in Scopes: this token class calls them scope_,      *)
(* list_ and frame_.                                                       *)
(***************************************************************************)
EXTENDS Scopes, FiniteSetsExt, SequencesExt

CONSTANTS
    Programs,          (* sequences of token types                          *)
    WellFormed,        (* those of them that are written in the formats     *)
    ExpressionTokens   (* tokens of expressions; {} while the parser of     *)
                       (* expressions refuses everything                    *)

ASSUME ProgramsAssumption ==
    /\ WellFormed \subseteq Programs
    /\ \A p \in Programs : p \in Seq(STRING) /\ p # <<>> /\ p[Len(p)] = "eof_"

\* No expression reaches over the end of its statement.
ASSUME ExpressionsAssumption == "eos_" \notin ExpressionTokens

VARIABLES
    prog,       (* the tokens; the vector ends after its last one           *)
    frames,     (* the functions called: see Frame                          *)
    returned,   (* always() of the call that just returned, or 0            *)
    nodes,      (* what has been parsed: the frames that have returned      *)
    outcome     (* "none", "parsed" or what ended the parser                *)

parser_vars == <<prog, frames, returned, nodes, outcome>>

-----------------------------------------------------------------------------
(* What a function comes to: success with a position, or an end of all.    *)
(* Failures are handed on by every caller up to parse_program, which       *)
(* throws; an exception is caught once, to be handed on as a failure.      *)

Ok(p)    == [is |-> "ok", at |-> p]
EndOf(how) == [is |-> how, at |-> 0]

Refused  == EndOf("refused")
NoExpr   == EndOf("no expression")   \* refused by the parser of expressions
Stray    == EndOf("stray")           \* read behind the tokens, or an empty stack

\* A function has been left without the value that its caller goes on with.
Unreturned == EndOf("unreturned")

\* tk_cursor::get at the end returns a reference to a temporary eof_, which
\* is gone when it is looked at; were it there, each caller would refuse.
AtEnd == {Refused, EndOf("dangling")}

Then(outcomes, F(_)) ==
    UNION {IF o.is = "ok" THEN F(o.at) ELSE {o} : o \in outcomes}

\* The token at p, read through a cursor and through an iterator.
Expect(type, p, end) ==
    IF p >= end THEN AtEnd ELSE {IF prog[p] = type THEN Ok(p) ELSE Refused}
ExpectRaw(type, p) ==
    {IF p > Len(prog) THEN Stray ELSE IF prog[p] = type THEN Ok(p) ELSE Refused}

-----------------------------------------------------------------------------
(* The finders, on the range b..(end - 1).                                 *)

Ends(open, b, end) ==
    LET r == SubSeq(prog, b, end - 1)
    IN  {b + c : c \in {k \in 1..Len(r) : IsScope(r, open, k)}}

\* find_paren_scope, find_list_scope, find_frame_scope.
FindAnyScope(open, b, end) ==
    IF b >= end THEN AtEnd
    ELSE IF Ends(open, b, end) = {} THEN {Refused} ELSE {Ok(e) : e \in Ends(open, b, end)}

\* The end of a list scope that may be invalid.
ListScopeEnds(b, end) ==
    IF Ends("open_brace_", b, end) = {} THEN {end, b + 1} ELSE Ends("open_brace_", b, end)

\* A seeded fault: the last close token is taken, as the comment has it.
ExactToLast(open, b, end) ==
    LET closing == {i \in b..(end - 1) : prog[i] = ClosingOf[open]}
    IN  [valid |-> closing # {}, end |-> IF closing = {} THEN b + 1 ELSE Max(closing) + 1]

\* find_exact looks at one type of scope only; nothing to look at is valid.
Exact(open, b, end) ==
    LET Count(type, i) == Cardinality({j \in b..i : prog[j] = type})
        closing == {i \in b..(end - 1) : prog[i] = ClosingOf[open]}
        even    == {i \in closing : Count(open, i) = Count(prog[i], i)}
    IN  [valid |-> even # {} \/ b >= end,
         end   |-> IF even # {} THEN Min(even) + 1
                   ELSE IF closing # {} THEN Max(closing) + 1 ELSE b + 1]

\* find_scope and find_list, which throw if not at an open token.
FindExact(open, b, end) ==
    Then(ExpectRaw(open, b),
         LAMBDA p : {IF Exact(open, b, end).valid THEN Ok(Exact(open, b, end).end)
                     ELSE Refused})

\* The close token r[i] has nothing of its own to close.
Unmatched(r, i) ==
    /\ IsClosingScope(r[i])
    /\ ~\E k \in 1..(i - 1) : ClosesAt(r, k, i) /\ IsClosingScopeOf(r[k], r[i])

\* find_statement, up to eos_.  One that is never closed is a valid one of a
\* single token.
FindStatement(b, end) ==
    LET r     == SubSeq(prog, b + 1, end - 1)
        stops == {i \in 1..Len(r) :
                     Unmatched(r, i) \/ (Height(r, i) = 0 /\ r[i] \in {"eos_", prog[b]})}
    IN  IF b + 1 > Len(prog) THEN {Stray}
        ELSE IF prog[b + 1] = "eos_" THEN {Ok(b + 2)}
        ELSE IF stops # {} /\ r[Min(stops)] = "eos_" THEN {Ok(b + Min(stops) + 1)}
        ELSE IF stops = {} /\ Height(r, Len(r)) = 0 THEN {Ok(b + 1)}
        ELSE {Refused}

\* find_open_statement, up to eos_, for whatever token is at b.  A bracket or
\* brace closed outside every scope reads the top of an empty stack.
FindOpenStatement(b, end) ==
    LET first == IF IsOpeningScope(prog[b]) THEN b ELSE b + 1
        r     == SubSeq(prog, first, end - 1)
        stops == {i \in 1..Len(r) :
                     /\ first + i - 1 > b
                     /\ Unmatched(r, i) \/ (Height(r, i) = 0 /\ r[i] = "eos_")}
        stop  == Min(stops)
    IN  IF b + 1 = end THEN {Refused}
        ELSE IF b + 1 > Len(prog) THEN {Stray}
        ELSE IF prog[b + 1] = "eos_" THEN {Ok(b + 2)}
        ELSE IF stops = {} THEN {Refused}
        ELSE IF r[stop] = "eos_" THEN {Ok(first + stop)}
        ELSE IF Height(r, stop - 1) = 0 /\ r[stop] # "close_paren_" THEN {Stray}
        ELSE {Refused}

\* The expressions between the separators of a #for, as find_seperated_paren
\* cuts them; an eof_ ends the list with what is behind it.  The statement
\* that contains the scope has been found, so that the scope is well nested.
\* Where that statement is a single token, so is the scope: nothing is cut.
Conditions(b, end) ==
    LET r    == SubSeq(prog, b + 1, end - 1)
        eofs == {i \in (b + 1)..(end - 1) : prog[i] = "eof_"}
        stop == IF eofs = {} THEN end - 1 ELSE Min(eofs)
        cuts == {b} \cup {i \in (b + 1)..(stop - 1) :
                              prog[i] = "eos_" /\ Height(r, i - b) = 0}
                    \cup (IF eofs = {} THEN {stop} ELSE {})
    IN  {<<x[1] + 1, x[2]>> : x \in {c \in cuts \X cuts :
                            c[1] < c[2] /\ cuts \cap (c[1] + 1)..(c[2] - 1) = {}}}
        \cup (IF eofs = {} THEN {} ELSE {<<stop + 1, end - 1>>})

-----------------------------------------------------------------------------
(* The statements that call no block.                                      *)

\* expression_split_and_simplify2.  What it refuses is any expression.
Expression(b, end) ==
    LET r == SubSeq(prog, b, end - 1)
    IN  {NoExpr} \cup
        (IF {r[i] : i \in 1..Len(r)} \subseteq ExpressionTokens
              /\ WellNested(r, Len(r)) /\ Height(r, Len(r)) = 0
         THEN {Ok(end)} ELSE {})

\* The parentheses around the whole are taken off one after another, until
\* there are none or nothing is between them.
parse_primary_expression(begin, end) ==
    LET Wrapped(n) ==
            /\ begin + n + 2 < end - n
            /\ prog[begin + n] = "open_paren_"
            /\ Exact("open_paren_", begin + n, end - n) = [valid |-> TRUE, end |-> end - n]
        n == Min({k \in 0..Len(prog) : ~Wrapped(k)})
        b == begin + n
        e == end - n
    IN  IF b >= e THEN AtEnd
        ELSE IF prog[b] # "open_paren_" THEN Expression(b, e)
        ELSE Then(FindExact("open_paren_", b, e),
                  LAMBDA p : IF p = b + 2 THEN {Refused} ELSE Expression(b, e))

\* A seeded fault: the end of the expression is returned for the statement's.
value_without_eos(b, end) ==
    Then(FindOpenStatement(b, end), LAMBDA p : parse_primary_expression(b, p - 1))

parse_value_statement(b, end) ==
    Then(FindOpenStatement(b, end),
         LAMBDA p : Then(parse_primary_expression(b, p - 1), LAMBDA q : {Ok(p)}))

\* scan_tokens_pack, one mask: the place behind it, or 0.
ScanToken(type, p, end) ==
    IF p # 0 /\ p < end /\ prog[p] = type THEN p + 1 ELSE 0

\* One that is optional is taken where it is found; at the end none is.
ScanOptional(type, p, end) ==
    IF p # 0 /\ p < end THEN (IF prog[p] = type THEN p + 1 ELSE p) ELSE 0

\* aint[-n ... -n], or aint alone.
parse_cso_int(b, end) ==
    LET Token(type, p) == ScanToken(type, p, end)
        Number(p)  == Token("number_literal_", ScanOptional("subtraction_", p, end))
        bracket    == Token("open_bracket_", Token("aint_", b))
        constraint == Token("close_bracket_", Number(Token("ellipsis_", Number(bracket))))
    IN  {Ok(IF constraint = 0 THEN b + 1 ELSE constraint)}

KeywordTypes == {"aint_", "auint_", "areal_", "abyte_", "abit_", "astr_"}
StartsConstraint(type) == type \in {"alnumus_", "open_bracket_"} \cup KeywordTypes

\* parse_operand, as far as types get there (it takes one of the keyword
\* types), or everything between brackets.
Constraint(b, end) ==
    CASE prog[b] = "alnumus_"      -> {Ok(b + 1)}
      [] prog[b] = "aint_"         -> parse_cso_int(b, end)
      [] prog[b] = "open_bracket_" -> FindAnyScope("open_bracket_", b, end)
      [] OTHER                     -> {Refused}

parse_directive_var(b, end) ==
    LET Assigned(p) ==
            IF p >= end THEN AtEnd
            ELSE CASE prog[p] = "eos_"               -> {Ok(p + 1)}
                   [] prog[p] = "simple_assignment_" -> parse_value_statement(p + 1, end)
                   [] OTHER                          -> {Refused}
    IN  IF b + 1 < end /\ StartsConstraint(prog[b + 1])
        THEN Then(Constraint(b + 1, end), Assigned)
        ELSE Assigned(b + 1)

parse_directive_type(b, end) ==
    Then(Expect("alnumus_", b + 1, end), LAMBDA p :
        Then(Expect("simple_assignment_", p + 1, end), LAMBDA q :
            parse_value_statement(q + 1, end)))

\* In the statement that find_statement has found.
parse_directive_return(b, end) ==
    Then(FindStatement(b, end), LAMBDA p : parse_value_statement(Min({b + 1, p}), p))

-----------------------------------------------------------------------------
(* Calls.                                                                  *)

\* A seeded fault: the cursor ends with the tokens.
FrameToTheEnd(fn, b, e) ==
    [fn |-> fn, begin |-> b, end |-> Len(prog) + 1,
     cursor |-> 0, scopeEnd |-> 0, stmts |-> <<>>]

\* A function `fn` on the tokens begin..(end - 1): its cursor (0 before the
\* first step), where the scope ends that it has handed on, and for a block
\* the statements so far.
Frame(fn, b, e) ==
    [fn |-> fn, begin |-> b, end |-> e, cursor |-> 0, scopeEnd |-> 0, stmts |-> <<>>]

Running == frames[Len(frames)]
Blocks  == {"pragmatic", "functional"}

ParserInit ==
    /\ prog \in Programs
    /\ frames = <<Frame("program", 1, Len(prog) + 1)>>
    /\ returned = 0
    /\ nodes = {}
    /\ outcome = "none"

\* The running function fn is to start, to go on, or has called.
Starts(fn)   == outcome = "none" /\ Running.fn = fn /\ Running.cursor = 0
GoesOn(fn)   == outcome = "none" /\ Running.fn = fn /\ Running.cursor # 0 /\ returned = 0
CameBack(fn) == outcome = "none" /\ Running.fn = fn /\ returned # 0

Stop(how) == outcome' = how /\ UNCHANGED <<prog, frames, returned, nodes>>

\* One of the outcomes: the parser stops, or A goes on from the position.
On(outcomes, A(_)) ==
    \E o \in outcomes : IF o.is = "ok" THEN A(o.at) ELSE Stop(o.is)

GoOn(frame) ==
    /\ frames' = [frames EXCEPT ![Len(frames)] = frame]
    /\ returned' = 0
    /\ UNCHANGED <<prog, nodes, outcome>>

Call(frame, callee) ==
    /\ frames' = Append(Front(frames), frame) \o <<callee>>
    /\ returned' = 0
    /\ UNCHANGED <<prog, nodes, outcome>>

ReturnAt(p) ==
    /\ frames' = Front(frames)
    /\ returned' = p
    /\ nodes' = nodes \cup {Running}
    /\ UNCHANGED <<prog, outcome>>

\* The running function, now fn, calls a block on b..(end - 1); it goes on
\* from that end.
CallBlock(fn, block, b, end) ==
    Call([Running EXCEPT !.fn = fn, !.cursor = b, !.scopeEnd = end], Frame(block, b, end))

\* What the running function has parsed: from its cursor up to p.
Took(p) == [Running EXCEPT !.cursor = p, !.stmts = Append(@, <<Running.cursor, p>>)]

-----------------------------------------------------------------------------
(* parse_program.  The scopes of its two blocks are not asked whether they *)
(* are valid.                                                              *)

StartProgram ==
    /\ Starts("program")
    /\ On(Then(Expect("enter_", 1, Running.end), LAMBDA p : ExpectRaw("open_brace_", 2)),
          LAMBDA b : CallBlock("enter_", "pragmatic", b, Exact("open_brace_", b, Running.end).end))

EnterParsed ==
    /\ CameBack("enter_")
    /\ On(Then(Expect("start_", Running.scopeEnd, Running.end),
               LAMBDA p : ExpectRaw("open_brace_", p + 1)),
          LAMBDA b : CallBlock("start_", "functional", b, Exact("open_brace_", b, Running.end).end))

\* What comes behind the block is not looked at.
StartParsed ==
    /\ CameBack("start_")
    /\ Stop("parsed")

-----------------------------------------------------------------------------
(* parse_pragmatic_block and parse_functional_block.                       *)

\* A seeded fault: the range of the statements has the close brace in it.
StartBlockToTheBrace ==
    \E fn \in Blocks :
        /\ Starts(fn)
        /\ On(Then(ExpectRaw("open_brace_", Running.begin),
                   LAMBDA b : FindAnyScope("open_brace_", b, Running.end)),
              LAMBDA p : CASE p # Running.begin + 2 ->
                                 GoOn([Running EXCEPT !.begin = @ + 1, !.end = p,
                                                      !.cursor = Running.begin + 1])
                           [] p = Running.begin + 2 /\ fn = "pragmatic"  -> ReturnAt(p)
                           [] p = Running.begin + 2 /\ fn = "functional" -> Stop("refused"))

\* Only a pragmatic block may be empty.  Then its frame returns not started.
StartBlock ==
    \E fn \in Blocks :
        /\ Starts(fn)
        /\ On(Then(ExpectRaw("open_brace_", Running.begin),
                   LAMBDA b : FindAnyScope("open_brace_", b, Running.end)),
              LAMBDA p : CASE p # Running.begin + 2 ->
                                 GoOn([Running EXCEPT !.begin = @ + 1, !.end = p - 1,
                                                      !.cursor = Running.begin + 1])
                           [] p = Running.begin + 2 /\ fn = "pragmatic"  -> ReturnAt(p)
                           [] p = Running.begin + 2 /\ fn = "functional" -> Stop("refused"))

AtStatement(blocks, types) ==
    \E fn \in blocks :
        /\ GoesOn(fn)
        /\ Running.cursor < Running.end
        /\ prog[Running.cursor] \in types

Declarations == {"alnumus_", "use_", "open_bracket_", "class_"}
Conditionals == {"if_", "while_", "on_", "for_"}

DeclareVar ==
    /\ AtStatement(Blocks, {"alnumus_"})
    /\ On(parse_directive_var(Running.cursor, Running.end), LAMBDA p : GoOn(Took(p)))

DeclareType ==
    /\ AtStatement(Blocks, {"use_"})
    /\ On(parse_directive_type(Running.cursor, Running.end), LAMBDA p : GoOn(Took(p)))

DeclareFunc ==
    /\ AtStatement(Blocks, {"open_bracket_"})
    /\ Call(Running, Frame("func", Running.cursor, Running.end))

DeclareClass ==
    /\ AtStatement(Blocks, {"class_"})
    /\ Call(Running, Frame("class_", Running.cursor, Running.end))

ParseReturn ==
    /\ AtStatement({"functional"}, {"return_"})
    /\ On(parse_directive_return(Running.cursor, Running.end), LAMBDA p : GoOn(Took(p)))

\* The function parses what find_statement has found.
ParseConditional ==
    /\ AtStatement({"functional"}, Conditionals)
    /\ On(FindStatement(Running.cursor, Running.end),
          LAMBDA p : Call(Running, Frame(prog[Running.cursor], Running.cursor, p)))

NotOf(types) == {prog[i] : i \in 1..Len(prog)} \ types

RefuseStatement ==
    /\ \/ AtStatement({"pragmatic"}, NotOf({"eof_"} \cup Declarations))
       \/ AtStatement({"functional"},
                      NotOf({"eof_", "return_"} \cup Declarations \cup Conditionals))
    /\ Stop("refused")

StatementParsed ==
    \E fn \in Blocks : CameBack(fn) /\ GoOn(Took(returned))

\* An eof_ ends a block, too: that of an included file does.
EndBlock ==
    \E fn \in Blocks :
        /\ GoesOn(fn)
        /\ Running.cursor >= Running.end \/ prog[Running.cursor] = "eof_"
        /\ ReturnAt(IF fn = "pragmatic" THEN Running.cursor ELSE Running.end + 1)

-----------------------------------------------------------------------------
(* parse_directive_func and parse_directive_class.                         *)

StartFunc ==
    LET end == Running.end
        Arguments(p) ==
            IF p >= end THEN AtEnd
            ELSE IF prog[p] = "open_paren_" THEN FindAnyScope("open_paren_", p, end) ELSE {Ok(p)}
        Constraints(p) ==
            IF p >= end THEN AtEnd
            ELSE IF StartsConstraint(prog[p]) THEN Constraint(p, end) ELSE {Ok(p)}
    IN  /\ Starts("func")
        /\ On(Then(FindAnyScope("open_bracket_", Running.begin, end),
                   LAMBDA p : Then(ExpectRaw("alnumus_", p),
                       LAMBDA q : Then(Arguments(q + 1), Constraints))),
              LAMBDA p : CallBlock("func", "functional", p, end))

FuncParsed ==
    /\ CameBack("func")
    /\ ReturnAt(returned)

\* The scope is not asked whether it is valid; the block will.
StartClass ==
    LET b == Running.begin + 2
    IN  /\ Starts("class_")
        /\ On(Then(Expect("alnumus_", Running.begin + 1, Running.end),
                   LAMBDA p : Then(Expect("open_brace_", b, Running.end),
                       LAMBDA q : {Ok(e) : e \in ListScopeEnds(b, Running.end)})),
              LAMBDA p : IF p = b + 2
                         THEN On(ExpectRaw("eos_", p), LAMBDA e : ReturnAt(e + 1))
                         ELSE CallBlock("class_", "pragmatic", b, p))

\* A seeded fault: the eos_ is stepped over unseen.
ClassEndsUnseen ==
    /\ CameBack("class_")
    /\ ReturnAt(Running.scopeEnd + 1)

ClassParsed ==
    /\ CameBack("class_")
    /\ On(ExpectRaw("eos_", Running.scopeEnd), LAMBDA e : ReturnAt(e + 1))

-----------------------------------------------------------------------------
(* parse_directive_if, _while, _for and _on.                               *)

\* The condition behind the directive at c; the position is behind its `)`.
Condition(c, end) ==
    LET b == Min({c + 1, end})
    IN  Then(FindExact("open_paren_", b, end),
             LAMBDA p : Then(parse_primary_expression(b + 1, p - 1), LAMBDA q : {Ok(p)}))

\* parse_conditional for the directive fn at c.
Branch(fn, c) ==
    LET end == Running.end
    IN  On(IF fn = "else_" THEN {Ok(Min({c + 1, end}))} ELSE Condition(c, end),
           LAMBDA b : On(FindExact("open_brace_", b, end),
                         LAMBDA p : CallBlock(fn, "functional", b, p)))

StartIf ==
    /\ Starts("if_")
    /\ Branch("if_", Running.begin)

\* A seeded fault: no #elif behind the block of the #if.
FollowingWithoutElif(fn) ==
    CASE fn = "if_" -> {"eos_", "else_"} [] fn = "elif_" -> {"elif_", "else_"}
      [] fn = "else_" -> {"eos_"}

\* What may follow the block of the directive: with an #elif, an #else must.
Following(fn) ==
    CASE fn = "if_"   -> {"eos_", "elif_", "else_"}
      [] fn = "elif_" -> {"elif_", "else_"}
      [] fn = "else_" -> {"eos_"}

BranchParsed ==
    \E fn \in {"if_", "elif_", "else_"} :
        /\ CameBack(fn)
        /\ LET p == Running.scopeEnd
           IN  On(IF p >= Running.end THEN AtEnd
                  ELSE {IF prog[p] \in Following(fn) THEN Ok(p) ELSE Refused},
                  LAMBDA q : IF prog[p] = "eos_" THEN ReturnAt(p + 1) ELSE Branch(prog[p], p))

\* The conditions of a #for, up to the first that fails.  With the range of a
\* single token the scope is one that Exact has not looked at; behind its open
\* token find_seperated_paren falls off its end and returns no list, or
\* whatever is in its place: what is left of the empty one, at best.
ForConditions(c, end) ==
    LET b == Min({c + 1, end})
        Parsed(s) == parse_primary_expression(s[1], s[2])
        Passes(s) == \E o \in Parsed(s) : o.is = "ok"
        All(p) == LET scopes  == Conditions(b, p)
                      reached == {s \in scopes : \A t \in scopes : t[1] < s[1] => Passes(t)}
                  IN  {o \in UNION {Parsed(s) : s \in reached} : o.is # "ok"}
                      \cup (IF \A s \in scopes : Passes(s) THEN {Ok(p)} ELSE {})
                      \cup (IF p = b + 1 THEN {Unreturned} ELSE {})
    IN  Then(FindExact("open_paren_", b, end), All)

LoopOver(fn, condition) ==
    On(condition,
       LAMBDA b : On(FindAnyScope("open_brace_", b, Running.end),
                     LAMBDA p : CallBlock(fn, "functional", b, p)))

StartWhile ==
    /\ Starts("while_")
    /\ LoopOver("while_", Condition(Running.begin, Running.end))

StartFor ==
    /\ Starts("for_")
    /\ LoopOver("for_", ForConditions(Running.begin, Running.end))

EndLoop ==
    /\ CameBack("while_") \/ CameBack("for_")
    /\ On(Expect("eos_", Running.scopeEnd, Running.end), LAMBDA p : ReturnAt(p + 1))

\* Inside #on come #if statements only, and may be none.
StartOn ==
    /\ Starts("on_")
    /\ On(Condition(Running.begin, Running.end),
          LAMBDA b : On(FindAnyScope("open_brace_", b, Running.end),
              LAMBDA p : GoOn([Running EXCEPT !.cursor = b + 1, !.scopeEnd = p])))

ParseOn ==
    /\ GoesOn("on_")
    /\ Running.cursor < Running.scopeEnd - 1
    /\ IF prog[Running.cursor] = "if_"
       THEN Call(Running, Frame("if_", Running.cursor, Running.scopeEnd - 1))
       ELSE Stop("refused")

OnParsed ==
    /\ CameBack("on_")
    /\ GoOn(Took(returned))

EndOn ==
    /\ GoesOn("on_")
    /\ Running.cursor >= Running.scopeEnd - 1
    /\ On(Expect("eos_", Running.scopeEnd, Running.end), LAMBDA p : ReturnAt(p + 1))

-----------------------------------------------------------------------------
Finished == outcome # "none" /\ UNCHANGED parser_vars

ParserNext ==
    \/ StartProgram \/ EnterParsed \/ StartParsed
    \/ StartBlock \/ EndBlock \/ RefuseStatement \/ StatementParsed
    \/ DeclareVar \/ DeclareType \/ DeclareFunc \/ DeclareClass
    \/ ParseReturn \/ ParseConditional
    \/ StartFunc \/ FuncParsed \/ StartClass \/ ClassParsed
    \/ StartIf \/ BranchParsed
    \/ StartWhile \/ StartFor \/ EndLoop
    \/ StartOn \/ ParseOn \/ OnParsed \/ EndOn
    \/ Finished

ParserSpec == ParserInit /\ [][ParserNext]_parser_vars

-----------------------------------------------------------------------------
(* Properties.                                                             *)

Functions == Blocks \cup Conditionals \cup
             {"program", "enter_", "start_", "func", "class_", "elif_", "else_"}
Places    == 0..(Len(prog) + 1)

\* Type invariant of parser.hpp's call stack; the tokens a function is given
\* lie among those of its caller.
ParserTypes ==
    /\ frames # <<>>
    /\ \A f \in ToSet(frames) \cup nodes :
           /\ f.fn \in Functions
           /\ {f.begin, f.end, f.cursor, f.scopeEnd} \subseteq Places
           /\ \A i \in DOMAIN f.stmts : f.stmts[i] \in Places \X Places
    /\ \A i \in 2..Len(frames) : /\ frames[i - 1].begin <= frames[i].begin
                                 /\ frames[i].end <= frames[i - 1].end
    /\ returned \in Places
    /\ outcome \in {"none", "parsed", "no expression", "refused", "dangling", "stray",
                   "unreturned"}

\* A block that parse_pragmatic_block or parse_functional_block reports as
\* parsed was read up to its last token or to an eof_ in it: the last
\* statement reaches over no close brace, though it is asked for its end
\* only (parser.hpp: `it = ....always()`, `while (it < end ...)`).
BlocksAreCovered ==
    \A f \in nodes : f.fn \in Blocks /\ f.cursor # 0 =>
        f.cursor = f.end \/ (f.cursor < f.end /\ prog[f.cursor] = "eof_")

\* The tokens from b to p - 1 are one statement: well nested, and the first
\* token outside its scopes that can end it is its last.
IsStatement(b, p) ==
    LET r       == SubSeq(prog, b, p - 1)
        last    == IF prog[b] = "open_bracket_" THEN "close_brace_" ELSE "eos_"
        ends(i) == Height(r, i) = 0 /\ r[i] = last
    IN  /\ WellNested(r, Len(r))
        /\ ends(Len(r))
        /\ \A i \in 1..(Len(r) - 1) : ~ends(i)

\* The statements of a block lie one behind the other, each of them whole,
\* whichever of the finders has found its end and its parts (parser.hpp: the
\* loops of the blocks and of #on).
StatementsAreWhole ==
    \A f \in ToSet(frames) \cup nodes : \A i \in DOMAIN f.stmts :
        /\ f.stmts[i][1] < f.stmts[i][2]
        /\ IsStatement(f.stmts[i][1], f.stmts[i][2])
        /\ i > 1 => f.stmts[i][1] = f.stmts[i - 1][2]

\* A block ends where the function that called it says: find_exact, which
\* counts one type of scope only, and find_list_scope, with which the block
\* searches its end again, find the same one (parser.hpp: find_list,
\* parse_functional_block).
SearchesAgree ==
    \A i \in 2..Len(frames) :
        frames[i].fn \in Blocks /\ frames[i].cursor # 0 /\ frames[i - 1].fn # "func" =>
            frames[i].end + 1 = frames[i - 1].scopeEnd

\* No `;` ends what the token at b starts: up to the close brace at e, which
\* closes nothing behind b, each is inside of a scope.
NothingEnds(text, b, e) ==
    LET r == SubSeq(text, b + 1, e - 1)
    IN  /\ text[e] = "close_brace_"
        /\ WellNested(r, Len(r)) /\ Height(r, Len(r)) = 0
        /\ \A i \in 1..Len(r) : r[i] = "eos_" => Height(r, i) # 0

HasEndlessFor(text) ==
    \E b, e \in DOMAIN text :
        b < e /\ text[b] = "for_" /\ text[b + 1] = "open_paren_" /\ NothingEnds(text, b, e)

\* Whatever the program, nothing is read behind its tokens nor from the empty
\* stack of find_open_statement; find_seperated_paren_scopes falls off its end
\* for one kind of program only, those with a #for that no `;` ends, which
\* find_statement answers as a whole statement (parser_utils.hpp:
\* find_statement, find_open_statement, find_seperated_paren_scopes; the reads
\* of a cursor at its end are another matter, "dangling").
ReadsStayInside ==
    /\ outcome # "stray"
    /\ outcome = "unreturned" => HasEndlessFor(prog)

\* What those comments allow and the code refuses: a pragmatic block that is
\* the program, an empty functional block, an #elif whose expression is not
\* one pair of parentheses, a `;` behind a function, and as a constraint the
\* keyword types that parse_operand does not take.
NotAsCommented ==
    LET c       == Running.cursor
        Keyword == KeywordTypes \ {"aint_"}
        Behind  == UNION {{p + 1} \cup Ends("open_paren_", p + 1, Running.end) :
                             p \in Ends("open_bracket_", Running.begin, Running.end)}
    IN  \/ Running.fn = "program" /\ prog[1] # "enter_"
        \/ Running.fn = "functional" /\ c = 0 /\ prog[Running.begin + 1] = "close_brace_"
        \/ /\ Running.fn \in {"if_", "elif_"}
           /\ prog[Running.scopeEnd] = "elif_"
           /\ \A p \in Ends("open_paren_", Running.scopeEnd + 1, Running.end) :
                  prog[p] # "open_brace_"
        \/ /\ Running.fn \in Blocks /\ Running.stmts # <<>>
           /\ prog[c] = "eos_" /\ prog[Last(Running.stmts)[1]] = "open_bracket_"
        \/ Running.fn \in Blocks /\ c # 0 /\ prog[c + 1] \in Keyword
        \/ Running.fn = "func" /\ \E p \in Behind : prog[p] \in Keyword

\* A program in the formats that the comments of parser.hpp give at the heads
\* of parse_program, parse_pragmatic_block, parse_directive_type, _if and _func
\* and of parse_cso_int and _uint is refused for its expressions, or for one of
\* the five things that the code does not take, and for nothing else.
ParsesTheFormats ==
    outcome \in {"refused", "dangling", "stray", "unreturned"} =>
        prog \notin WellFormed \/ (outcome = "refused" /\ NotAsCommented)

=============================================================================
