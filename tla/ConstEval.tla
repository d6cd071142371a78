------------------------------ MODULE ConstEval ------------------------------
(***************************************************************************)
(* constant_evaluator.hpp: the tree of runtime environments and the        *)
(* evaluators that declare variables, classes and functions in it.         *)
(*                                                                         *)
(* Statements are evaluated in the global environment one after another,   *)
(* the members of a class one after another in the environment of the      *)
(* class.  Any of them may throw; what was declared before stays.          *)
(***************************************************************************)
EXTENDS Integers, Sequences

CONSTANTS
    Names,      (* alnumus literals                                         *)
    Exprs,      (* expression nodes, see Leaves and Binary below            *)
    Arguments,  (* those of them that are given to a function               *)
    Bodies,     (* class bodies: sequences of [name |-> , init |-> ]        *)
    MaxEnvs,    (* bound on the environments; the code has none             *)
    IntBits,    (* width of int and of unsigned                             *)
    ByteBits    (* width of unsigned char                                   *)

\* A node of operation none_ is a literal, with type and number, or a name;
\* a node with operands has them as left and right (one that has only one
\* operand has it as both, for it is front() and back() of the children).
Leaves == {"literal_", "alnumus_"}
\* The binary operators that CBinopEval evaluates, and one for all the others,
\* for which it throws alike.
Binary == {"addition_", "subtraction_", "multiplication_", "division_",
           "remainder_", "equal_"}

\* What the literals of each type may say.
LiteralRange == [NUMBER |-> Nat, UNSIGNED |-> Nat, BYTE |-> Nat, BIT |-> {0, 1},
                 REAL |-> {0}, STRING |-> Nat, NONE |-> {0}]

ASSUME ExprsAssumption ==
    /\ \A x \in Exprs :
          \/ x.op = "alnumus_"
          \/ x.op = "literal_" /\ x.type \in DOMAIN LiteralRange
                              /\ x.val \in LiteralRange[x.type]
          \/ x.op \notin Leaves /\ {x.left, x.right} \subseteq Exprs
    /\ Arguments \subseteq Exprs

\* A node is a tree: no node is found again below itself, however far down.
ASSUME TreesAssumption ==
    \A S \in SUBSET Exprs : S # {} =>
        \E x \in S : x.op \in Leaves \/ {x.left, x.right} \cap S = {}

\* What is declared in the body of a class.
Members == [name : Names, init : Exprs]

ASSUME BodiesAssumption == Bodies \subseteq Seq(Members)
ASSUME BoundsAssumption ==
    /\ MaxEnvs \in Nat \ {0}
    /\ IntBits \in Nat \ {0} /\ ByteBits \in Nat \ {0}
    /\ {2^IntBits, 2^ByteBits} \subseteq Nat \ {0}

VARIABLES
    envs,       (* the rtenvs: name_, the way to the root, variables_       *)
    class,      (* the class whose body is evaluated, and what is left      *)
    result      (* what the last statement was and what it returned         *)

vars == <<envs, class, result>>

-----------------------------------------------------------------------------
(* Values, RTValue: a type and what it holds.  Reals hold nothing here and  *)
(* strings their length.  OBJECT and FUNCTION hold their scope.             *)

Thrown    == [type |-> "throws", val |-> 0]
Undefined == [type |-> "undefined", val |-> 0]
Failures  == {Thrown, Undefined}

IsInt(n) == n \in -(2^(IntBits - 1))..(2^(IntBits - 1) - 1)

\* A seeded fault: bytes and unsigned numbers do not wrap.
RTValueUnwrapped(type, n) ==
    IF type = "NUMBER" /\ ~IsInt(n) THEN Undefined ELSE [type |-> type, val |-> n]

\* The result n of an operation as a value: signed overflow is undefined.
RTValue(type, n) ==
    CASE type = "NUMBER"   -> IF IsInt(n) THEN [type |-> type, val |-> n] ELSE Undefined
      [] type = "UNSIGNED" -> [type |-> type, val |-> n % 2^IntBits]
      [] type = "BYTE"     -> [type |-> type, val |-> n % 2^ByteBits]
      [] type = "REAL"     -> [type |-> type, val |-> 0]
      [] OTHER             -> [type |-> type, val |-> n]

\* A literal: stoi, for a byte too, and stou throw out of range.
LiteralValue(type, n) ==
    IF \/ type \in {"NUMBER", "BYTE"} /\ ~IsInt(n)
       \/ type = "UNSIGNED" /\ n \notin 0..(2^IntBits - 1)
    THEN Thrown ELSE RTValue(type, n)

AreBoth(types, l, r) == l.type = r.type /\ l.type \in types
Numeric  == {"NUMBER", "REAL", "BYTE", "UNSIGNED"}
Integral == Numeric \ {"REAL"}

\* The sum of two bits is tagged BIT but holds an int: std::get<bool> of it
\* throws, so that no operation takes it, whatever the other operand.
CAddOpEval(l, r) ==
    CASE AreBoth({"BIT"}, l, r)                 -> RTValue("BIT_HOLDING_INT", l.val + r.val)
      [] AreBoth(Numeric \cup {"STRING"}, l, r) -> RTValue(l.type, l.val + r.val)
      [] OTHER                                  -> Thrown

CSubOpEval(l, r) ==
    IF AreBoth(Numeric, l, r) THEN RTValue(l.type, l.val - r.val) ELSE Thrown

CMultOpEval(l, r) ==
    IF AreBoth(Numeric, l, r) THEN RTValue(l.type, l.val * r.val) ELSE Thrown

\* Division of C++ truncates.
Abs(n) == IF n < 0 THEN -n ELSE n
Quotient(a, b) ==
    LET q == Abs(a) \div Abs(b) IN IF (a < 0) = (b < 0) THEN q ELSE -q

CDivOpEval(l, r) ==
    CASE AreBoth({"REAL"}, l, r)   -> RTValue("REAL", 0)
      [] AreBoth(Integral, l, r)   -> IF r.val = 0 THEN Undefined
                                      ELSE RTValue(l.type, Quotient(l.val, r.val))
      [] OTHER                     -> Thrown

\* The remainder is undefined where the quotient is.
CModOpEval(l, r) ==
    IF ~AreBoth(Integral, l, r) THEN Thrown
    ELSE IF CDivOpEval(l, r) = Undefined THEN Undefined
    ELSE RTValue(l.type, l.val - r.val * Quotient(l.val, r.val))

-----------------------------------------------------------------------------
(* rtenv.                                                                  *)

Global == 1

\* `chain` stands for the parent_ pointers: the environments on the way to
\* the root, itself included.  Later ones are further in.  The name is kept
\* by the object or the function too, and only read from there.
Env(name, chain) == [name |-> name, chain |-> chain, vars |-> [n \in {} |-> Thrown]]

add_subenv(es, e, name) ==
    Append(es, Env(name, es[e].chain \cup {Len(es) + 1}))

\* A seeded fault: insert_or_assign.
create_or_assign(es, e, name, value) ==
    [es EXCEPT ![e].vars =
        [n \in DOMAIN @ \cup {name} |-> IF n = name THEN value ELSE @[n]]]

\* std::map::insert: a variable that exists is left as it is.
create_variable(es, e, name, value) ==
    [es EXCEPT ![e].vars =
        [n \in DOMAIN @ \cup {name} |-> IF n \in DOMAIN @ THEN @[n] ELSE value]]

Holders(es, e, name) == {k \in es[e].chain : name \in DOMAIN es[k].vars}
IsResolved(es, e, name) == Holders(es, e, name) # {}

\* The variable found first on the way out.
resolve_variable(es, e, name) ==
    LET owner == CHOOSE k \in Holders(es, e, name) :
                    \A j \in Holders(es, e, name) : j <= k
    IN  es[owner].vars[name]

-----------------------------------------------------------------------------
(* Expressions.                                                            *)

CLiteralEval(es, e, x) ==
    CASE x.op = "literal_"  -> LiteralValue(x.type, x.val)
      [] x.op = "alnumus_"  -> IF IsResolved(es, e, x.name)
                               THEN resolve_variable(es, e, x.name) ELSE Thrown

Operation(op, l, r) ==
    CASE op = "addition_"       -> CAddOpEval(l, r)
      [] op = "subtraction_"    -> CSubOpEval(l, r)
      [] op = "multiplication_" -> CMultOpEval(l, r)
      [] op = "division_"       -> CDivOpEval(l, r)
      [] op = "remainder_"      -> CModOpEval(l, r)
      [] OTHER                  -> Thrown

\* Left before right; the operator is looked at after both.
Apply(op, l, r) ==
    IF l \in Failures THEN l ELSE IF r \in Failures THEN r ELSE Operation(op, l, r)

\* The value of node x, if its operands that have operands have the values f.
Evaluation(es, e, f, x) ==
    LET operand(y) == CASE y.op \in Leaves -> CLiteralEval(es, e, y)
                        [] y.op \in Binary -> f[y]
                        [] OTHER           -> Thrown
    IN  IF x.op \in Leaves THEN CLiteralEval(es, e, x)
        ELSE Apply(x.op, operand(x.left), operand(x.right))

CBinopEval(es, e) ==
    LET eval[x \in Exprs] == Evaluation(es, e, eval, x) IN eval

-----------------------------------------------------------------------------
(* Statements.                                                             *)

NoClass   == [scope |-> 0, name |-> "", todo |-> <<>>]
NoResult  == [by |-> "", of |-> "", value |-> Thrown]
Return(by, name, value) == result' = [by |-> by, of |-> name, value |-> value]

Init ==
    /\ envs = <<Env("global", {Global})>>
    /\ class = NoClass
    /\ result = NoResult

\* Between two statements; after undefined behaviour there is no next one.
Idle == class = NoClass /\ result.value # Undefined

\* A seeded fault: only the environment itself is searched for the name.
VariableOfUnusedHere(e, name, init) ==
    IF name \in DOMAIN envs[e].vars THEN Thrown ELSE CBinopEval(envs, e)[init]

\* The value of a variable declared in e: a name that can be seen from there
\* is not declared again.
VariableOf(e, name, init) ==
    IF IsResolved(envs, e, name) THEN Thrown ELSE CBinopEval(envs, e)[init]

CVarDeclEval(name, init) ==
    /\ Idle
    /\ LET value == VariableOf(Global, name, init)
       IN  /\ envs' = IF value \in Failures THEN envs
                      ELSE create_variable(envs, Global, name, value)
           /\ Return("var", name, value)
    /\ UNCHANGED class

\* add_subenv and create_variable for what a class or a function holds.
DeclareScope(type, name) ==
    LET scope == Len(envs) + 1
    IN  /\ scope <= MaxEnvs
        /\ envs' = create_variable(add_subenv(envs, Global, name), Global, name,
                                   [type |-> type, val |-> scope])

\* A class is created before its body is evaluated.
CClassDeclEval(name, body) ==
    /\ Idle
    /\ DeclareScope("OBJECT", name)
    /\ class' = [scope |-> Len(envs) + 1, name |-> name, todo |-> body]
    /\ result' = NoResult

\* A seeded fault: the body is evaluated in the environment around the class.
DeclareMemberOutside ==
    /\ class.todo # <<>>
    /\ LET member == Head(class.todo)
           value  == VariableOf(class.scope, member.name, member.init)
       IN  IF value \in Failures
           THEN /\ Return("class", class.name, value)
                /\ class' = NoClass
                /\ UNCHANGED envs
           ELSE /\ envs' = create_variable(envs, Global, member.name, value)
                /\ class' = [class EXCEPT !.todo = Tail(@)]
                /\ UNCHANGED result

\* One statement of the body; if it throws, so does the declaration.
DeclareMember ==
    /\ class.todo # <<>>
    /\ LET member == Head(class.todo)
           value  == VariableOf(class.scope, member.name, member.init)
       IN  IF value \in Failures
           THEN /\ Return("class", class.name, value)
                /\ class' = NoClass
                /\ UNCHANGED envs
           ELSE /\ envs' = create_variable(envs, class.scope, member.name, value)
                /\ class' = [class EXCEPT !.todo = Tail(@)]
                /\ UNCHANGED result

\* A seeded fault: the object made here is returned, created or not.
EndClassWithNew ==
    /\ class # NoClass /\ class.todo = <<>>
    /\ Return("class", class.name, [type |-> "OBJECT", val |-> class.scope])
    /\ class' = NoClass
    /\ UNCHANGED envs

\* What create_variable found or made under the name is returned.
EndClass ==
    /\ class # NoClass /\ class.todo = <<>>
    /\ Return("class", class.name, envs[Global].vars[class.name])
    /\ class' = NoClass
    /\ UNCHANGED envs

\* `*(begin()++)` is the node of the name, so the function has no arguments.
CFunctionDeclEval(name) ==
    /\ Idle
    /\ DeclareScope("FUNCTION", name)
    /\ Return("function", name, envs'[Global].vars[name])
    /\ UNCHANGED class

\* No variable, or one that holds no function, throws.  A function has no
\* arguments, and args().front() of none is undefined; the expression given
\* as argument may be evaluated before that, and fail.
CFunctionCallEval(name, arg) ==
    /\ Idle
    /\ \E outcome \in
           IF IsResolved(envs, Global, name)
                 /\ resolve_variable(envs, Global, name).type = "FUNCTION"
           THEN {Undefined} \cup ({CBinopEval(envs, Global)[arg]} \cap Failures)
           ELSE {Thrown} :
          Return("call", name, outcome)
    /\ UNCHANGED <<envs, class>>

Next ==
    \/ \E name \in Names :
          \/ \E init \in Exprs : CVarDeclEval(name, init)
          \/ \E arg \in Arguments : CFunctionCallEval(name, arg)
          \/ \E body \in Bodies : CClassDeclEval(name, body)
          \/ CFunctionDeclEval(name)
    \/ DeclareMember
    \/ EndClass

Spec == Init /\ [][Next]_vars

-----------------------------------------------------------------------------
(* What the evaluator promises.                                            *)

Scopes == 1..Len(envs)

\* What a variable may hold: a value that is no scope, or a scope.
IsPlain(v) ==
    CASE v.type = "NUMBER"           -> IsInt(v.val)
      [] v.type = "UNSIGNED"         -> v.val \in 0..(2^IntBits - 1)
      [] v.type = "BYTE"             -> v.val \in 0..(2^ByteBits - 1)
      [] v.type = "BIT"              -> v.val \in {0, 1}
      [] v.type = "BIT_HOLDING_INT"  -> v.val \in 0..2
      [] v.type \in {"REAL", "NONE"} -> v.val = 0
      [] v.type = "STRING"           -> v.val \in Nat
      [] OTHER                       -> FALSE
HoldsScope(v) == v.type \in {"OBJECT", "FUNCTION"}
IsValue(v)    == IsPlain(v) \/ (HoldsScope(v) /\ v.val \in 2..Len(envs))

\* Variables hold values of their type's range, never the outcome of a
\* failure; every scope is in the global environment.
TypeOK ==
    /\ Len(envs) \in 1..MaxEnvs
    /\ envs[Global].chain = {Global}
    /\ \A e \in Scopes :
          /\ e # Global => envs[e].chain = {Global, e} /\ envs[e].name \in Names
          /\ DOMAIN envs[e].vars \subseteq Names
          /\ \A n \in DOMAIN envs[e].vars : IsValue(envs[e].vars[n])
    /\ class = NoClass \/ /\ class.scope \in 2..Len(envs)
                          /\ class.name \in DOMAIN envs[Global].vars
                          /\ class.todo \in Seq(Members)
    /\ result.value \in Failures \/ IsValue(result.value)

\* "Variable already declared": no statement, whether it fails half-way or
\* not, changes what a name means in an environment that exists.
BindingsStand ==
    [][\A e \in Scopes, n \in Names :
          IsResolved(envs, e, n) =>
              /\ IsResolved(envs', e, n)
              /\ resolve_variable(envs', e, n) = resolve_variable(envs, e, n)]_vars

\* What a declaration returns is what the name means from then on, also when
\* a class or a function is declared a second time.
ReturnsTheBinding ==
    result.by \in {"var", "class", "function"} /\ result.value \notin Failures =>
        resolve_variable(envs, Global, result.of) = result.value

\* An object or function that a variable holds, a copy too, is the one that
\* its own name means where it was declared: a class whose declaration was
\* repeated leaves no second object behind.
ValuesAreCurrent ==
    \A e \in Scopes : \A n \in DOMAIN envs[e].vars :
        LET value == envs[e].vars[n]
        IN  HoldsScope(value) =>
                resolve_variable(envs, Global, envs[value.val].name) = value

\* Seen from the global environment, the evaluator does what Environment
\* says: the scopes it makes, the members it declares in them and the order
\* in which it looks names up never show, and a class whose body throws has
\* bound its own name and no other.
MeaningIn(es) ==
    [n \in Names |-> IF IsResolved(es, Global, n)
                     THEN {resolve_variable(es, Global, n)} ELSE {}]

Promise == INSTANCE Environment
               WITH meaning <- MeaningIn(envs),
                    begun   <- IF class = NoClass THEN {} ELSE {class.name},
                    of      <- result.of,
                    answer  <- {result.value} \ Failures

ImplementsEnvironment == Promise!Spec

\* "Bind the arguments to the function": a call of a function that was
\* declared gets as far as its arguments.
CallsAreDefined == result.by = "call" => result.value # Undefined
=============================================================================
