--------------------------- MODULE ConstEvalProofs ---------------------------
(***************************************************************************)
(* Proofs about ConstEval, for all names, expressions and class bodies: no *)
(* statement changes what a name means, and a declaration returns what its *)
(* name means from then on, whatever the values of expressions; and these  *)
(* values lie in the range of their types and hold current scopes.         *)
(***************************************************************************)
EXTENDS ConstEval, SequenceTheorems, TLAPS

-----------------------------------------------------------------------------
(* The tree of environments.                                               *)

\* The tree of environments: those declared in the global one, and itself.
IsTree(es) ==
    /\ Len(es) \in Nat \ {0}
    /\ es = [e \in 1..Len(es) |-> es[e]]
    /\ \A e \in 1..Len(es) :
          DOMAIN es[e] = {"name", "chain", "vars"} /\ es[e].chain = {Global, e}

LEMMA TreeIsSeq ==
    ASSUME NEW es, IsTree(es)
    PROVE  es \in Seq({es[e] : e \in 1..Len(es)})
<1>. DEFINE S == {es[e] : e \in 1..Len(es)}
<1>1. es \in [1..Len(es) -> S]
  BY DEF IsTree
<1>2. Len(es) \in Nat
  BY DEF IsTree
<1>. QED
  BY <1>1, <1>2, SeqDef

\* A name is looked up in an environment itself, then in the global one.
LEMMA Resolution ==
    ASSUME NEW es, IsTree(es), NEW e \in 1..Len(es), NEW n
    PROVE  /\ IsResolved(es, e, n) <=> \/ n \in DOMAIN es[e].vars
                                       \/ n \in DOMAIN es[Global].vars
           /\ n \in DOMAIN es[e].vars =>
                 resolve_variable(es, e, n) = es[e].vars[n]
           /\ n \notin DOMAIN es[e].vars /\ n \in DOMAIN es[Global].vars =>
                 resolve_variable(es, e, n) = es[Global].vars[n]
<1>1. es[e].chain = {Global, e} /\ Len(es) \in Nat \ {0}
  BY DEF IsTree
<1>2. Global = 1 /\ e \in Nat /\ 1 <= e
  BY <1>1 DEF Global
<1>3. \A k : k \in Holders(es, e, n) <=>
        (k = Global \/ k = e) /\ n \in DOMAIN es[k].vars
  BY <1>1 DEF Holders
<1>4. ASSUME n \in DOMAIN es[e].vars
      PROVE  resolve_variable(es, e, n) = es[e].vars[n]
  <2>1. \A k : /\ k \in Holders(es, e, n)
               /\ \A j \in Holders(es, e, n) : j <= k
               <=> k = e
    BY <1>2, <1>3, <1>4
  <2>. QED
    BY <2>1 DEF resolve_variable
<1>5. ASSUME n \notin DOMAIN es[e].vars, n \in DOMAIN es[Global].vars
      PROVE  resolve_variable(es, e, n) = es[Global].vars[n]
  <2>1. \A k : /\ k \in Holders(es, e, n)
               /\ \A j \in Holders(es, e, n) : j <= k
               <=> k = Global
    BY <1>2, <1>3, <1>5
  <2>. QED
    BY <2>1 DEF resolve_variable
<1>. QED
  BY <1>3, <1>4, <1>5 DEF IsResolved

\* create_variable adds one name to one environment, if it is new there.
LEMMA Creation ==
    ASSUME NEW es, IsTree(es), NEW e \in 1..Len(es), NEW n, NEW v,
           NEW fs, fs = create_variable(es, e, n, v)
    PROVE  /\ IsTree(fs)
           /\ Len(fs) = Len(es)
           /\ \A k \in 1..Len(es) \ {e} : fs[k] = es[k]
           /\ DOMAIN fs[e].vars = DOMAIN es[e].vars \cup {n}
           /\ \A m \in DOMAIN es[e].vars : fs[e].vars[m] = es[e].vars[m]
           /\ n \notin DOMAIN es[e].vars => fs[e].vars[n] = v
<1>. DEFINE new == [m \in DOMAIN es[e].vars \cup {n} |->
                        IF m \in DOMAIN es[e].vars THEN es[e].vars[m] ELSE v]
            env == [es[e] EXCEPT !.vars = new]
<1>1. Len(es) \in Nat \ {0} /\ DOMAIN es = 1..Len(es)
  BY DEF IsTree
<1>2. fs = [k \in 1..Len(es) |-> IF k = e THEN env ELSE es[k]]
  BY <1>1 DEF create_variable
<1>3. DOMAIN es[e] = {"name", "chain", "vars"} /\ es[e].chain = {Global, e}
  BY DEF IsTree
<1>4. DOMAIN env = {"name", "chain", "vars"} /\ env.chain = {Global, e} /\ env.vars = new
  BY <1>3
<1>. HIDE DEF env
<1>5. Len(fs) = Len(es)
  <2>. DEFINE T == {fs[k] : k \in 1..Len(es)}
  <2>1. fs \in [1..Len(es) -> T]
    BY <1>2
  <2>2. fs \in Seq(T)
    BY <2>1, <1>1, SeqDef
  <2>. QED
    BY <2>1, <2>2, <1>1, LenProperties
<1>6. fs[e] = env /\ \A k \in 1..Len(es) \ {e} : fs[k] = es[k]
  BY <1>2
<1>7. IsTree(fs)
  BY <1>1, <1>2, <1>4, <1>5, <1>6 DEF IsTree
<1>. QED
  BY <1>4, <1>5, <1>6, <1>7

LEMMA Addition ==
    ASSUME NEW es, IsTree(es), NEW name,
           NEW fs, fs = add_subenv(es, Global, name)
    PROVE  /\ IsTree(fs)
           /\ Len(fs) = Len(es) + 1
           /\ \A k \in 1..Len(es) : fs[k] = es[k]
           /\ DOMAIN fs[Len(fs)].vars = {}
<1>. DEFINE env == Env(name, es[Global].chain \cup {Len(es) + 1})
            S   == {es[e] : e \in 1..Len(es)}
            T   == S \cup {env}
<1>1. Len(es) \in Nat \ {0} /\ DOMAIN es = 1..Len(es) /\ es[Global].chain = {Global}
  BY DEF IsTree, Global
<1>2. es \in Seq(T) /\ env \in T
  <2>1. es \in Seq(S)
    BY TreeIsSeq
  <2>. QED
    BY <2>1, <1>1, SeqDef
<1>3. fs = Append(es, env)
  BY DEF add_subenv
<1>. HIDE DEF T, env
<1>4. /\ fs \in Seq(T) /\ Len(fs) = Len(es) + 1
      /\ \A k \in 1..Len(es) : fs[k] = es[k]
      /\ fs[Len(es) + 1] = env
  BY <1>1, <1>2, <1>3, AppendProperties
<1>5. fs = [k \in 1..Len(fs) |-> fs[k]]
  BY <1>4, LenProperties
<1>6. DOMAIN env = {"name", "chain", "vars"} /\ env.chain = {Global, Len(es) + 1}
        /\ DOMAIN env.vars = {}
  BY <1>1 DEF env, Env
<1>7. \A k \in 1..Len(fs) : DOMAIN fs[k] = {"name", "chain", "vars"} /\ fs[k].chain = {Global, k}
  <2>. TAKE k \in 1..Len(fs)
  <2>1. CASE k \in 1..Len(es)
    BY <2>1, <1>4 DEF IsTree
  <2>2. CASE k = Len(es) + 1
    BY <2>2, <1>4, <1>6
  <2>. QED
    BY <2>1, <2>2, <1>1, <1>4
<1>. QED
  BY <1>1, <1>4, <1>5, <1>6, <1>7 DEF IsTree

-----------------------------------------------------------------------------
(* What names mean.                                                        *)

\* The names that can be seen in es mean the same in fs.
Keeps(es, fs) ==
    \A e \in 1..Len(es), n \in Names :
        IsResolved(es, e, n) =>
            /\ IsResolved(fs, e, n)
            /\ resolve_variable(fs, e, n) = resolve_variable(es, e, n)

\* A variable is new where it is declared: those inside that have the name
\* as a variable of their own do not see it, and no one else saw the name.
LEMMA VariableKeeps ==
    ASSUME NEW es, IsTree(es), NEW e \in 1..Len(es), NEW name, NEW v,
           ~IsResolved(es, e, name)
    PROVE  Keeps(es, create_variable(es, e, name, v))
<1>. DEFINE fs == create_variable(es, e, name, v)
<1>1. /\ IsTree(fs)
      /\ Len(fs) = Len(es)
      /\ \A k \in 1..Len(es) \ {e} : fs[k] = es[k]
      /\ DOMAIN fs[e].vars = DOMAIN es[e].vars \cup {name}
      /\ \A m \in DOMAIN es[e].vars : fs[e].vars[m] = es[e].vars[m]
  BY Creation
<1>. HIDE DEF fs
<1>2. Global \in 1..Len(es)
  BY DEF IsTree, Global
<1>3. name \notin DOMAIN es[e].vars /\ name \notin DOMAIN es[Global].vars
  BY Resolution
<1>4. SUFFICES ASSUME NEW k \in 1..Len(es), NEW n \in Names, IsResolved(es, k, n)
               PROVE  /\ IsResolved(fs, k, n)
                      /\ resolve_variable(fs, k, n) = resolve_variable(es, k, n)
  BY DEF Keeps, fs
<1>5. \A j \in 1..Len(es) :
        /\ DOMAIN es[j].vars \subseteq DOMAIN fs[j].vars
        /\ \A m \in DOMAIN es[j].vars : fs[j].vars[m] = es[j].vars[m]
  BY <1>1
<1>6. CASE n \in DOMAIN es[k].vars
  BY <1>1, <1>5, <1>6, Resolution
<1>7. CASE n \notin DOMAIN es[k].vars
  <2>1. n \in DOMAIN es[Global].vars
    BY <1>4, <1>7, Resolution
  <2>2. n \notin DOMAIN fs[k].vars
    BY <1>1, <1>3, <1>7, <2>1
  <2>3. resolve_variable(es, k, n) = es[Global].vars[n]
    BY <1>7, <2>1, Resolution
  <2>4. n \in DOMAIN fs[Global].vars /\ fs[Global].vars[n] = es[Global].vars[n]
    BY <1>2, <1>5, <2>1
  <2>. QED
    BY <1>1, <2>2, <2>3, <2>4, Resolution
<1>. QED
  BY <1>6, <1>7

\* A class or a function is declared in the global environment, where a name
\* that exists is kept, and those inside look at themselves first.
LEMMA ScopeKeeps ==
    ASSUME NEW es, IsTree(es), NEW name, NEW v,
           NEW fs, fs = create_variable(add_subenv(es, Global, name), Global, name, v)
    PROVE  /\ IsTree(fs)
           /\ Len(fs) = Len(es) + 1
           /\ name \in DOMAIN fs[Global].vars
           /\ Keeps(es, fs)
<1>. DEFINE gs == add_subenv(es, Global, name)
<1>1. Len(es) \in Nat \ {0} /\ Global \in 1..Len(es)
  BY DEF IsTree, Global
<1>2. /\ IsTree(gs)
      /\ Len(gs) = Len(es) + 1
      /\ \A k \in 1..Len(es) : gs[k] = es[k]
  BY Addition
<1>. HIDE DEF gs
<1>3. Global \in 1..Len(gs)
  BY <1>1, <1>2
<1>4. /\ IsTree(fs)
      /\ Len(fs) = Len(gs)
      /\ \A k \in 1..Len(gs) \ {Global} : fs[k] = gs[k]
      /\ DOMAIN fs[Global].vars = DOMAIN gs[Global].vars \cup {name}
      /\ \A m \in DOMAIN gs[Global].vars : fs[Global].vars[m] = gs[Global].vars[m]
  BY <1>2, <1>3, Creation DEF gs
<1>5. Keeps(es, fs)
  <2>1. SUFFICES ASSUME NEW k \in 1..Len(es), NEW n \in Names, IsResolved(es, k, n)
                 PROVE  /\ IsResolved(fs, k, n)
                        /\ resolve_variable(fs, k, n) = resolve_variable(es, k, n)
    BY DEF Keeps
  <2>2. k \in 1..Len(fs) /\ k \in 1..Len(gs)
    BY <1>1, <1>2, <1>4
  <2>3. /\ n \in DOMAIN es[k].vars =>
              n \in DOMAIN fs[k].vars /\ fs[k].vars[n] = es[k].vars[n]
        /\ n \in DOMAIN es[Global].vars =>
              n \in DOMAIN fs[Global].vars /\ fs[Global].vars[n] = es[Global].vars[n]
    BY <1>1, <1>2, <1>4, <2>2
  <2>4. CASE n \in DOMAIN es[k].vars
    BY <1>4, <2>2, <2>3, <2>4, Resolution
  <2>5. CASE n \notin DOMAIN es[k].vars
    <3>1. n \in DOMAIN es[Global].vars /\ k # Global
      BY <2>1, <2>5, Resolution
    <3>2. n \notin DOMAIN fs[k].vars
      BY <1>2, <1>4, <2>2, <2>5, <3>1
    <3>3. resolve_variable(es, k, n) = es[Global].vars[n]
      BY <2>5, <3>1, Resolution
    <3>. QED
      BY <1>4, <2>2, <2>3, <3>1, <3>2, <3>3, Resolution
  <2>. QED
    BY <2>4, <2>5
<1>. QED
  BY <1>2, <1>4, <1>5

LEMMA SameKeeps == \A es : Keeps(es, es)
BY DEF Keeps

-----------------------------------------------------------------------------
(* The declarations.                                                       *)

Tagged == [scope : Nat, name : Names \cup {""}, todo : Seq(Members)]

\* The inductive invariant of the declarations: the scope and the name of the
\* class whose body is evaluated exist, and nothing is returned before its end.
DeclarationInv ==
    /\ IsTree(envs)
    /\ class \in Tagged
    /\ class # NoClass =>
          /\ class.scope \in 2..Len(envs)
          /\ class.name \in Names \cap DOMAIN envs[Global].vars
          /\ result = NoResult
    /\ ReturnsTheBinding

LEMMA NoClassTagged == NoClass \in Tagged
<1>1. <<>> \in Seq(Members)
  BY EmptySeq
<1>. QED
  BY <1>1 DEF NoClass, Tagged

LEMMA InitDeclarationInv == Init => DeclarationInv
<1>. SUFFICES ASSUME Init PROVE DeclarationInv
  OBVIOUS
<1>1. Len(envs) = 1 /\ envs = [e \in 1..Len(envs) |-> envs[e]]
        /\ envs[1] = Env("global", {Global})
  BY DEF Init
<1>2. IsTree(envs)
  BY <1>1 DEF IsTree, Env, Global
<1>3. class = NoClass /\ class \in Tagged
  BY NoClassTagged DEF Init
<1>4. ReturnsTheBinding
  BY DEF Init, NoResult, ReturnsTheBinding
<1>. QED
  BY <1>2, <1>3, <1>4 DEF DeclarationInv, Tagged

\* Every step keeps the invariant, and what each name means.
LEMMA StepKeeps ==
    ASSUME DeclarationInv, [Next]_vars
    PROVE  DeclarationInv' /\ Keeps(envs, envs')
<1>1. /\ IsTree(envs)
      /\ class \in Tagged
      /\ class # NoClass => /\ class.scope \in 2..Len(envs)
                            /\ class.name \in Names \cap DOMAIN envs[Global].vars
                            /\ result = NoResult
      /\ ReturnsTheBinding
  BY DEF DeclarationInv, Tagged
<1>2. Len(envs) \in Nat \ {0} /\ Global \in 1..Len(envs) /\ Global = 1
  BY <1>1 DEF IsTree, Global
<1>3. NoClass \in Tagged
  BY NoClassTagged
<1>4. CASE UNCHANGED vars
  BY <1>1, <1>4, SameKeeps DEF vars, DeclarationInv, Tagged, ReturnsTheBinding
<1>5. ASSUME NEW name \in Names, NEW init \in Exprs, CVarDeclEval(name, init)
      PROVE  DeclarationInv' /\ Keeps(envs, envs')
  <2>. DEFINE value == VariableOf(Global, name, init)
  <2>1. /\ class = NoClass /\ class' = NoClass
        /\ result' = [by |-> "var", of |-> name, value |-> value]
        /\ envs' = IF value \in Failures THEN envs
                   ELSE create_variable(envs, Global, name, value)
    BY <1>5 DEF CVarDeclEval, Idle, Return
  <2>2. ~IsResolved(envs, Global, name) \/ value \in Failures
    BY DEF VariableOf, Failures
  <2>. HIDE DEF value
  <2>3. CASE value \in Failures
    <3>1. ReturnsTheBinding'
      BY <2>1, <2>3 DEF ReturnsTheBinding
    <3>. QED
      BY <1>1, <1>3, <2>1, <2>3, <3>1, SameKeeps DEF DeclarationInv, Tagged
  <2>4. CASE value \notin Failures
    <3>1. /\ IsTree(envs') /\ name \in DOMAIN envs'[Global].vars
          /\ name \notin DOMAIN envs[Global].vars => envs'[Global].vars[name] = value
          /\ Len(envs') = Len(envs)
      BY <1>1, <1>2, <2>1, <2>4, Creation
    <3>2. name \notin DOMAIN envs[Global].vars
      BY <1>1, <1>2, <2>2, <2>4, Resolution
    <3>3. resolve_variable(envs', Global, name) = value
      BY <1>2, <3>1, <3>2, Resolution
    <3>4. Keeps(envs, envs')
      BY <1>1, <1>2, <2>1, <2>2, <2>4, VariableKeeps
    <3>5. ReturnsTheBinding'
      BY <2>1, <3>3 DEF ReturnsTheBinding
    <3>. QED
      BY <1>3, <2>1, <3>1, <3>4, <3>5 DEF DeclarationInv, Tagged
  <2>. QED
    BY <2>3, <2>4
<1>6. ASSUME NEW name \in Names, NEW body \in Bodies, CClassDeclEval(name, body)
      PROVE  DeclarationInv' /\ Keeps(envs, envs')
  <2>1. /\ class' = [scope |-> Len(envs) + 1, name |-> name, todo |-> body]
        /\ result' = NoResult
        /\ envs' = create_variable(add_subenv(envs, Global, name), Global, name,
                                   [type |-> "OBJECT", val |-> Len(envs) + 1])
    BY <1>6 DEF CClassDeclEval, DeclareScope
  <2>2. /\ IsTree(envs') /\ Len(envs') = Len(envs) + 1
        /\ name \in DOMAIN envs'[Global].vars
        /\ Keeps(envs, envs')
    BY <1>1, <2>1, ScopeKeeps
  <2>3. class' \in Tagged
    <3>1. body \in Seq(Members) /\ Len(envs) + 1 \in Nat
      BY <1>2, BodiesAssumption
    <3>. QED
      BY <2>1, <3>1 DEF Tagged
  <2>4. class'.scope \in 2..Len(envs') /\ class'.name = name
    BY <1>2, <2>1, <2>2
  <2>5. ReturnsTheBinding'
    BY <2>1 DEF NoResult, ReturnsTheBinding
  <2>. QED
    BY <2>1, <2>2, <2>3, <2>4, <2>5 DEF DeclarationInv, Tagged, NoResult
<1>7. ASSUME NEW name \in Names, CFunctionDeclEval(name)
      PROVE  DeclarationInv' /\ Keeps(envs, envs')
  <2>1. /\ class = NoClass /\ class' = NoClass
        /\ result' = [by |-> "function", of |-> name, value |-> envs'[Global].vars[name]]
        /\ envs' = create_variable(add_subenv(envs, Global, name), Global, name,
                                   [type |-> "FUNCTION", val |-> Len(envs) + 1])
    BY <1>7 DEF CFunctionDeclEval, DeclareScope, Idle, Return
  <2>2. /\ IsTree(envs') /\ Len(envs') = Len(envs) + 1
        /\ name \in DOMAIN envs'[Global].vars
        /\ Keeps(envs, envs')
    BY <1>1, <2>1, ScopeKeeps
  <2>3. resolve_variable(envs', Global, name) = envs'[Global].vars[name]
    <3>1. Global \in 1..Len(envs')
      BY <1>2, <2>2
    <3>. QED
      BY <2>2, <3>1, Resolution
  <2>4. ReturnsTheBinding'
    BY <2>1, <2>3 DEF ReturnsTheBinding
  <2>. QED
    BY <1>3, <2>1, <2>2, <2>4 DEF DeclarationInv, Tagged
<1>8. ASSUME NEW name \in Names, NEW arg \in Arguments, CFunctionCallEval(name, arg)
      PROVE  DeclarationInv' /\ Keeps(envs, envs')
  <2>1. /\ class = NoClass /\ class' = class /\ envs' = envs
        /\ result'.by = "call"
    BY <1>8 DEF CFunctionCallEval, Idle, Return
  <2>2. ReturnsTheBinding'
    BY <2>1 DEF ReturnsTheBinding
  <2>. QED
    BY <1>1, <2>1, <2>2, SameKeeps DEF DeclarationInv, Tagged
<1>9. CASE DeclareMember
  <2>. DEFINE member == Head(class.todo)
              value  == VariableOf(class.scope, member.name, member.init)
  <2>1. class.todo # <<>> /\ class # NoClass
    <3>1. class.todo # <<>>
      BY <1>9 DEF DeclareMember
    <3>2. NoClass.todo = <<>>
      BY DEF NoClass
    <3>. QED
      BY <3>1, <3>2
  <2>2. class.scope \in 2..Len(envs) /\ class.scope \in 1..Len(envs) /\ class.scope # Global
    BY <1>1, <1>2, <2>1
  <2>3. ~IsResolved(envs, class.scope, member.name) \/ value \in Failures
    BY DEF VariableOf, Failures
  <2>4. IF value \in Failures
        THEN /\ result' = [by |-> "class", of |-> class.name, value |-> value]
             /\ class' = NoClass /\ envs' = envs
        ELSE /\ envs' = create_variable(envs, class.scope, member.name, value)
             /\ class' = [class EXCEPT !.todo = Tail(@)]
             /\ result' = result
    BY <1>9 DEF DeclareMember, Return
  <2>. HIDE DEF value, member
  <2>5. CASE value \in Failures
    <3>1. ReturnsTheBinding'
      BY <2>4, <2>5 DEF ReturnsTheBinding
    <3>. QED
      BY <1>1, <1>3, <2>4, <2>5, <3>1, SameKeeps DEF DeclarationInv, Tagged
  <2>6. CASE value \notin Failures
    <3>1. /\ IsTree(envs') /\ Len(envs') = Len(envs)
          /\ envs'[Global] = envs[Global]
      BY <1>1, <1>2, <2>2, <2>4, <2>6, Creation
    <3>2. Keeps(envs, envs')
      BY <1>1, <2>2, <2>3, <2>4, <2>6, VariableKeeps
    <3>3. /\ class' \in Tagged
          /\ class'.scope = class.scope /\ class'.name = class.name
      <4>1. Tail(class.todo) \in Seq(Members)
        <5>1. class.todo \in Seq(Members)
          BY <1>1 DEF Tagged
        <5>. QED
          BY <2>1, <5>1, HeadTailProperties
      <4>. QED
        BY <1>1, <2>4, <2>6, <4>1 DEF Tagged
    <3>4. result' = NoResult
      BY <1>1, <2>1, <2>4, <2>6
    <3>5. ReturnsTheBinding'
      BY <3>4 DEF NoResult, ReturnsTheBinding
    <3>. QED
      BY <1>1, <2>1, <3>1, <3>2, <3>3, <3>4, <3>5 DEF DeclarationInv, Tagged, NoResult
  <2>. QED
    BY <2>5, <2>6
<1>10. CASE EndClass
  <2>1. /\ class # NoClass /\ class' = NoClass /\ envs' = envs
        /\ result' = [by |-> "class", of |-> class.name,
                      value |-> envs[Global].vars[class.name]]
    BY <1>10 DEF EndClass, Return
  <2>2. resolve_variable(envs', Global, class.name) = envs[Global].vars[class.name]
    BY <1>1, <1>2, <2>1, Resolution
  <2>3. ReturnsTheBinding'
    BY <2>1, <2>2 DEF ReturnsTheBinding
  <2>. QED
    BY <1>1, <1>3, <2>1, <2>3, SameKeeps DEF DeclarationInv, Tagged
<1>. QED
  BY <1>4, <1>5, <1>6, <1>7, <1>8, <1>9, <1>10 DEF Next

\* It holds throughout.
LEMMA DeclarationInvariant == Spec => []DeclarationInv
<1>1. Init => DeclarationInv
  BY InitDeclarationInv
<1>2. DeclarationInv /\ [Next]_vars => DeclarationInv'
  BY StepKeeps
<1>. QED
  BY <1>1, <1>2, PTL DEF Spec

\* A declaration, of a variable, a class or a function, new or repeated,
\* returns what its name means afterwards.
THEOREM DeclarationsReturnTheBinding == Spec => []ReturnsTheBinding
<1>1. DeclarationInv => ReturnsTheBinding
  BY DEF DeclarationInv
<1>. QED
  BY <1>1, DeclarationInvariant, PTL

\* No statement, whether it succeeds, throws at once or throws half-way
\* through the body of a class, changes what a name means anywhere.
THEOREM DeclarationsKeepBindings == Spec => BindingsStand
<1>1. DeclarationInv /\ [Next]_vars =>
        [\A e \in Scopes, n \in Names :
            IsResolved(envs, e, n) =>
                /\ IsResolved(envs', e, n)
                /\ resolve_variable(envs', e, n) = resolve_variable(envs, e, n)]_vars
  BY StepKeeps DEF Keeps, Scopes
<1>. QED
  BY <1>1, DeclarationInvariant, PTL DEF Spec, BindingsStand

-----------------------------------------------------------------------------
(* ConstEval implements Environment.                                       *)

LEMMA MeaningOf ==
    ASSUME NEW es, IsTree(es)
    PROVE  MeaningIn(es) = [n \in Names |-> IF n \in DOMAIN es[Global].vars
                                            THEN {es[Global].vars[n]} ELSE {}]
<1>1. Global \in 1..Len(es)
  BY DEF IsTree, Global
<1>2. ASSUME NEW n \in Names
      PROVE  /\ IsResolved(es, Global, n) <=> n \in DOMAIN es[Global].vars
             /\ n \in DOMAIN es[Global].vars =>
                   resolve_variable(es, Global, n) = es[Global].vars[n]
  BY <1>1, Resolution
<1>. QED
  BY <1>2 DEF MeaningIn

\* Environments that differ from es by one name bound in the global one.
Binds(es, fs, name) ==
    /\ DOMAIN fs[Global].vars = DOMAIN es[Global].vars \cup {name}
    /\ \A n \in DOMAIN es[Global].vars : fs[Global].vars[n] = es[Global].vars[n]

LEMMA BindingIsAbstract ==
    ASSUME NEW es, IsTree(es), NEW fs, IsTree(fs), NEW name \in Names,
           Binds(es, fs, name)
    PROVE  /\ MeaningIn(fs)[name] = {fs[Global].vars[name]}
           /\ IF MeaningIn(es)[name] # {} THEN MeaningIn(fs) = MeaningIn(es)
              ELSE MeaningIn(fs) =
                     [MeaningIn(es) EXCEPT ![name] = MeaningIn(fs)[name]]
<1>. DEFINE M(gs) == [n \in Names |-> IF n \in DOMAIN gs[Global].vars
                                      THEN {gs[Global].vars[n]} ELSE {}]
<1>1. MeaningIn(es) = M(es) /\ MeaningIn(fs) = M(fs)
  BY MeaningOf
<1>2. M(fs)[name] = {fs[Global].vars[name]}
  BY DEF Binds
<1>3. \A n \in Names : n # name => M(fs)[n] = M(es)[n]
  BY DEF Binds
<1>4. M(es)[name] # {} => M(fs)[name] = M(es)[name]
  BY DEF Binds
<1>5. /\ M(es) = [n \in Names |-> M(es)[n]]
      /\ M(fs) = [n \in Names |-> M(fs)[n]]
  OBVIOUS
<1>. HIDE DEF M
<1>. QED
  BY <1>1, <1>2, <1>3, <1>4, <1>5

LEMMA BindIsAbstract ==
    ASSUME IsTree(envs), IsTree(envs'), MeaningIn(envs)' = MeaningIn(envs'),
           NEW name \in Names, Binds(envs, envs', name)
    PROVE  /\ Promise!Bind(name)
           /\ MeaningIn(envs)'[name] = {envs'[Global].vars[name]}
<1>1. /\ MeaningIn(envs')[name] = {envs'[Global].vars[name]}
      /\ IF MeaningIn(envs)[name] # {} THEN MeaningIn(envs') = MeaningIn(envs)
         ELSE MeaningIn(envs') =
                [MeaningIn(envs) EXCEPT ![name] = MeaningIn(envs')[name]]
  BY BindingIsAbstract
<1>2. MeaningIn(envs')[name] # {}
  BY <1>1
<1>. QED
  BY <1>1, <1>2 DEF Promise!Bind

\* A class or a function binds its own name.
LEMMA ScopeBinds ==
    ASSUME NEW es, IsTree(es), NEW name, NEW v,
           NEW fs, fs = create_variable(add_subenv(es, Global, name), Global, name, v)
    PROVE  Binds(es, fs, name)
<1>. DEFINE gs == add_subenv(es, Global, name)
<1>1. Global \in 1..Len(es) /\ Len(es) \in Nat
  BY DEF IsTree, Global
<1>2. IsTree(gs) /\ Len(gs) = Len(es) + 1 /\ gs[Global] = es[Global]
  BY <1>1, Addition
<1>3. Global \in 1..Len(gs)
  BY <1>1, <1>2
<1>. HIDE DEF gs
<1>4. fs = create_variable(gs, Global, name, v)
  BY DEF gs
<1>. QED
  BY <1>2, <1>3, <1>4, Creation DEF Binds

\* What is bound if the name is new; an object or a function is no failure.
LEMMA ScopeValue ==
    ASSUME NEW es, IsTree(es), NEW name, NEW v,
           NEW fs, fs = create_variable(add_subenv(es, Global, name), Global, name, v)
    PROVE  /\ name \notin DOMAIN es[Global].vars => fs[Global].vars[name] = v
           /\ v.type \in {"OBJECT", "FUNCTION"} => v \notin Failures
<1>. DEFINE gs == add_subenv(es, Global, name)
<1>1. Global \in 1..Len(es) /\ Len(es) \in Nat
  BY DEF IsTree, Global
<1>2. IsTree(gs) /\ Len(gs) = Len(es) + 1 /\ gs[Global] = es[Global]
  BY <1>1, Addition
<1>3. Global \in 1..Len(gs)
  BY <1>1, <1>2
<1>. HIDE DEF gs
<1>4. fs = create_variable(gs, Global, name, v)
  BY DEF gs
<1>5. name \notin DOMAIN es[Global].vars => fs[Global].vars[name] = v
  BY <1>2, <1>3, <1>4, Creation
<1>6. v.type \in {"OBJECT", "FUNCTION"} => v \notin Failures
  BY DEF Failures, Thrown, Undefined
<1>. QED
  BY <1>5, <1>6

\* No name is bound to a failure.
NoneFailed == \A n \in DOMAIN envs[Global].vars : envs[Global].vars[n] \notin Failures

\* Every step of the evaluator is a step of Environment, or none.
LEMMA StepIsAbstract ==
    ASSUME DeclarationInv, DeclarationInv', NoneFailed, [Next]_vars
    PROVE  NoneFailed' /\ [Promise!Next]_(Promise!vars)
<1>. DEFINE M == MeaningIn(envs)
            begun == IF class = NoClass THEN {} ELSE {class.name}
            answer == {result.value} \ Failures
<1>0. M' = MeaningIn(envs')
  BY DEF MeaningIn, IsResolved, Holders, resolve_variable
<1>1. /\ IsTree(envs) /\ IsTree(envs') /\ Global \in 1..Len(envs)
      /\ class \in Tagged
      /\ class # NoClass => /\ class.scope \in 2..Len(envs)
                            /\ class.name \in Names \cap DOMAIN envs[Global].vars
                            /\ result = NoResult
  <2>1. /\ IsTree(envs) /\ class \in Tagged
        /\ class # NoClass => /\ class.scope \in 2..Len(envs)
                              /\ class.name \in Names \cap DOMAIN envs[Global].vars
                              /\ result = NoResult
    BY DEF DeclarationInv, Tagged
  <2>2. IsTree(envs)'
    BY DEF DeclarationInv
  <2>3. IsTree(envs')
    BY <2>2 DEF IsTree
  <2>4. Global \in 1..Len(envs)
    BY <2>1 DEF IsTree, Global
  <2>. QED
    BY <2>1, <2>3, <2>4
<1>2. SUFFICES NoneFailed' /\ (Promise!Next \/ UNCHANGED <<M, begun, result.of, answer>>)
  BY DEF Promise!vars
<1>3. ASSUME UNCHANGED envs PROVE NoneFailed'
  BY <1>3 DEF NoneFailed
<1>4. CASE UNCHANGED vars
  BY <1>3, <1>4 DEF vars
<1>5. ASSUME NEW name \in Names, NEW init \in Exprs, CVarDeclEval(name, init)
      PROVE  NoneFailed' /\ Promise!Next
  <2>. DEFINE value == VariableOf(Global, name, init)
  <2>1. /\ class = NoClass /\ class' = NoClass
        /\ result' = [by |-> "var", of |-> name, value |-> value]
        /\ envs' = IF value \in Failures THEN envs
                   ELSE create_variable(envs, Global, name, value)
    BY <1>5 DEF CVarDeclEval, Idle, Return
  <2>2. ~IsResolved(envs, Global, name) \/ value \in Failures
    BY DEF VariableOf, Failures
  <2>. HIDE DEF value
  <2>3. CASE value \in Failures
    <3>1. UNCHANGED envs
      BY <2>1, <2>3
    <3>2. Promise!Refuse
      BY <2>1, <2>3, <3>1 DEF Promise!Refuse
    <3>. QED
      BY <1>3, <3>1, <3>2 DEF Promise!Next
  <2>4. CASE value \notin Failures
    <3>1. name \notin DOMAIN envs[Global].vars
      BY <1>1, <2>2, <2>4, Resolution
    <3>2. Binds(envs, envs', name) /\ envs'[Global].vars[name] = value
      BY <1>1, <2>1, <2>4, <3>1, Creation DEF Binds
    <3>3. Promise!Bind(name) /\ M'[name] = {value}
      BY <1>0, <1>1, <3>2, BindIsAbstract
    <3>4. answer' = {value} /\ result'.of = name
      BY <2>1, <2>4
    <3>5. NoneFailed'
      BY <2>4, <3>2 DEF Binds, NoneFailed
    <3>. QED
      BY <2>1, <3>3, <3>4, <3>5 DEF Promise!Next, Promise!Declare
  <2>. QED
    BY <2>3, <2>4
<1>6. ASSUME NEW name \in Names, NEW body \in Bodies, CClassDeclEval(name, body)
      PROVE  NoneFailed' /\ Promise!Next
  <2>. DEFINE value == [type |-> "OBJECT", val |-> Len(envs) + 1]
  <2>1. /\ class = NoClass
        /\ class' = [scope |-> Len(envs) + 1, name |-> name, todo |-> body]
        /\ result' = NoResult
        /\ envs' = create_variable(add_subenv(envs, Global, name), Global, name, value)
    BY <1>6 DEF CClassDeclEval, DeclareScope, Idle
  <2>2. Binds(envs, envs', name)
    BY <1>1, <2>1, ScopeBinds
  <2>3. Promise!Bind(name)
    BY <1>0, <1>1, <2>2, BindIsAbstract
  <2>4. class' # NoClass /\ class'.name = name
    <3>1. class'.scope = Len(envs) + 1 /\ NoClass.scope = 0 /\ Len(envs) \in Nat
      BY <1>1, <2>1 DEF NoClass, IsTree
    <3>. QED
      BY <2>1, <3>1
  <2>5. result'.of = "" /\ answer' = {}
    BY <2>1 DEF NoResult, Failures
  <2>6. Promise!Begin(name)
    BY <2>1, <2>3, <2>4, <2>5 DEF Promise!Begin
  <2>7. NoneFailed'
    BY <1>1, <2>1, <2>2, ScopeValue DEF Binds, NoneFailed
  <2>. QED
    BY <2>6, <2>7 DEF Promise!Next
<1>7. ASSUME NEW name \in Names, CFunctionDeclEval(name)
      PROVE  NoneFailed' /\ Promise!Next
  <2>. DEFINE value == [type |-> "FUNCTION", val |-> Len(envs) + 1]
  <2>1. /\ class = NoClass /\ class' = NoClass
        /\ result' = [by |-> "function", of |-> name, value |-> envs'[Global].vars[name]]
        /\ envs' = create_variable(add_subenv(envs, Global, name), Global, name, value)
    BY <1>7 DEF CFunctionDeclEval, DeclareScope, Idle, Return
  <2>2. Binds(envs, envs', name)
    BY <1>1, <2>1, ScopeBinds
  <2>3. Promise!Bind(name) /\ M'[name] = {envs'[Global].vars[name]}
    BY <1>0, <1>1, <2>2, BindIsAbstract
  <2>4. NoneFailed'
    BY <1>1, <2>1, <2>2, ScopeValue DEF Binds, NoneFailed
  <2>5. answer' = {envs'[Global].vars[name]} /\ result'.of = name
    <3>1. name \in DOMAIN envs'[Global].vars
      BY <2>2 DEF Binds
    <3>. QED
      BY <2>1, <2>4, <3>1 DEF NoneFailed
  <2>. QED
    BY <2>1, <2>3, <2>4, <2>5 DEF Promise!Next, Promise!Declare
<1>8. ASSUME NEW name \in Names, NEW arg \in Arguments, CFunctionCallEval(name, arg)
      PROVE  NoneFailed' /\ Promise!Next
  <2>1. /\ class = NoClass /\ class' = class /\ envs' = envs
        /\ result'.of = name /\ result'.value \in Failures
    BY <1>8 DEF CFunctionCallEval, Idle, Return, Failures
  <2>2. Promise!Refuse
    BY <2>1 DEF Promise!Refuse
  <2>. QED
    BY <1>3, <2>1, <2>2 DEF Promise!Next
<1>9. CASE DeclareMember
  <2>. DEFINE member == Head(class.todo)
              value  == VariableOf(class.scope, member.name, member.init)
  <2>1. class.todo # <<>> /\ class # NoClass
    <3>1. class.todo # <<>>
      BY <1>9 DEF DeclareMember
    <3>2. NoClass.todo = <<>>
      BY DEF NoClass
    <3>. QED
      BY <3>1, <3>2
  <2>2. class.scope \in 1..Len(envs) /\ class.scope # Global
    BY <1>1, <2>1 DEF Global
  <2>3. IF value \in Failures
        THEN /\ result' = [by |-> "class", of |-> class.name, value |-> value]
             /\ class' = NoClass /\ envs' = envs
        ELSE /\ envs' = create_variable(envs, class.scope, member.name, value)
             /\ class' = [class EXCEPT !.todo = Tail(@)]
             /\ result' = result
    BY <1>9 DEF DeclareMember, Return
  <2>. HIDE DEF value, member
  <2>4. CASE value \in Failures
    <3>1. class.name \in Names
      BY <1>1, <2>1
    <3>2. /\ UNCHANGED envs /\ class' = NoClass
          /\ result'.of = class.name /\ result'.value \in Failures
      BY <2>3, <2>4
    <3>3. M' = M
      BY <3>2 DEF MeaningIn, IsResolved, Holders, resolve_variable
    <3>4. Promise!Refuse
      BY <3>1, <3>2, <3>3 DEF Promise!Refuse
    <3>. QED
      BY <1>3, <3>2, <3>4 DEF Promise!Next
  <2>5. CASE value \notin Failures
    <3>1. envs'[Global] = envs[Global]
      BY <1>1, <2>2, <2>3, <2>5, Creation
    <3>2. M' = M
      BY <1>0, <1>1, <3>1, MeaningOf
    <3>3. class'.scope = class.scope /\ class'.name = class.name
      BY <1>1, <2>3, <2>5 DEF Tagged
    <3>4. class' # NoClass
      <4>1. NoClass.scope = 0
        BY DEF NoClass
      <4>2. Len(envs) \in Nat /\ class.scope \in 2..Len(envs)
        BY <1>1, <2>1 DEF IsTree
      <4>. QED
        BY <3>3, <4>1, <4>2
    <3>5. UNCHANGED <<M, begun, result.of, answer>>
      BY <2>1, <2>3, <2>5, <3>2, <3>3, <3>4
    <3>. QED
      BY <3>1, <3>5 DEF NoneFailed
  <2>. QED
    BY <2>4, <2>5
<1>10. CASE EndClass
  <2>1. /\ class # NoClass /\ class' = NoClass /\ envs' = envs
        /\ result' = [by |-> "class", of |-> class.name,
                      value |-> envs[Global].vars[class.name]]
    BY <1>10 DEF EndClass, Return
  <2>2. class.name \in DOMAIN envs[Global].vars /\ class.name \in Names
    BY <1>1, <2>1
  <2>3. M[class.name] = {envs[Global].vars[class.name]}
    BY <1>1, <2>2, MeaningOf
  <2>4. answer' = M[class.name] /\ result'.of = class.name
    BY <2>1, <2>2, <2>3 DEF NoneFailed
  <2>5. M' = M
    BY <2>1 DEF MeaningIn, IsResolved, Holders, resolve_variable
  <2>6. Promise!Finish(class.name)
    BY <2>1, <2>4, <2>5 DEF Promise!Finish
  <2>. QED
    BY <1>3, <2>1, <2>2, <2>6 DEF Promise!Next
<1>. QED
  BY <1>4, <1>5, <1>6, <1>7, <1>8, <1>9, <1>10 DEF Next

\* ConstEval implements Environment: whatever is declared, in whatever order
\* and however it fails, names are bound one at a time and stay bound, the
\* members of a class bind no name outside it, and what a declaration answers
\* is what its name means.
THEOREM ConstEvalImplementsEnvironment == Spec => ImplementsEnvironment
<1>1. ASSUME Init PROVE Promise!Init /\ NoneFailed
  <2>1. /\ envs[Global].vars = [n \in {} |-> Thrown]
        /\ class = NoClass /\ result = NoResult
    BY <1>1 DEF Init, Env, Global
  <2>2. IsTree(envs)
    BY <1>1, InitDeclarationInv DEF DeclarationInv
  <2>3. MeaningIn(envs) = [n \in Names |-> {}]
    BY <2>1, <2>2, MeaningOf
  <2>. QED
    BY <2>1, <2>3 DEF Promise!Init, NoneFailed, NoResult, Failures
<1>2. /\ DeclarationInv /\ DeclarationInv' /\ NoneFailed /\ [Next]_vars
      => NoneFailed' /\ [Promise!Next]_(Promise!vars)
  BY StepIsAbstract
<1>. QED
  BY <1>1, <1>2, DeclarationInvariant, PTL
     DEF Spec, ImplementsEnvironment, Promise!Spec

-----------------------------------------------------------------------------
(* The values of expressions.                                              *)

\* The value of a node depends on the values of its operands only.
LEMMA EvaluationLocal ==
    ASSUME NEW es, NEW e, NEW f, NEW g, NEW x,
           x.op \in Leaves \/ (f[x.left] = g[x.left] /\ f[x.right] = g[x.right])
    PROVE  Evaluation(es, e, f, x) = Evaluation(es, e, g, x)
<1>1. CASE x.op \in Leaves
  BY <1>1 DEF Evaluation
<1>2. CASE x.op \notin Leaves /\ f[x.left] = g[x.left] /\ f[x.right] = g[x.right]
  BY <1>2 DEF Evaluation
<1>. QED
  BY <1>1, <1>2

\* f evaluates the nodes of D, and with each of them its operands.
Evaluates(es, e, f, D) ==
    /\ D \subseteq Exprs
    /\ \A x \in D : x.op \in Leaves \/ {x.left, x.right} \subseteq D
    /\ f = [x \in D |-> Evaluation(es, e, f, x)]

\* A node has one value.
LEMMA EvaluationUnique ==
    ASSUME NEW es, NEW e, NEW f, NEW D, Evaluates(es, e, f, D),
           NEW g, NEW E, Evaluates(es, e, g, E)
    PROVE  \A x \in D \cap E : f[x] = g[x]
<1>. DEFINE S == {x \in D \cap E : f[x] # g[x]}
<1>1. SUFFICES ASSUME S # {} PROVE FALSE
  OBVIOUS
<1>2. S \in SUBSET Exprs
  BY DEF Evaluates
<1>3. PICK x \in S : x.op \in Leaves \/ {x.left, x.right} \cap S = {}
  <2>. HIDE DEF S
  <2>. QED
    BY <1>1, <1>2, TreesAssumption
<1>4. x.op \in Leaves \/ (f[x.left] = g[x.left] /\ f[x.right] = g[x.right])
  BY <1>3 DEF Evaluates
<1>5. f[x] = Evaluation(es, e, f, x) /\ g[x] = Evaluation(es, e, g, x)
  BY <1>3 DEF Evaluates
<1>6. Evaluation(es, e, f, x) = Evaluation(es, e, g, x)
  BY <1>4, EvaluationLocal
<1>. QED
  BY <1>3, <1>5, <1>6

\* A node has a value.
LEMMA EvaluationExists ==
    ASSUME NEW es, NEW e
    PROVE  \A x \in Exprs : \E D, f : Evaluates(es, e, f, D) /\ x \in D
<1>. DEFINE S == {x \in Exprs : ~\E D, f : Evaluates(es, e, f, D) /\ x \in D}
<1>1. SUFFICES ASSUME S # {} PROVE FALSE
  OBVIOUS
<1>2. PICK x \in S : x.op \in Leaves \/ {x.left, x.right} \cap S = {}
  <2>1. S \in SUBSET Exprs
    OBVIOUS
  <2>. HIDE DEF S
  <2>. QED
    BY <1>1, <2>1, TreesAssumption
<1>3. x \in Exprs /\ ~\E D, f : Evaluates(es, e, f, D) /\ x \in D
  BY <1>2
<1>4. CASE x.op \in Leaves
  <2>. DEFINE f == [y \in {x} |-> Evaluation(es, e, <<>>, y)]
  <2>1. Evaluation(es, e, <<>>, x) = Evaluation(es, e, f, x)
    BY <1>4, EvaluationLocal
  <2>2. f = [y \in {x} |-> Evaluation(es, e, f, y)]
    <3>1. \A y \in {x} : Evaluation(es, e, <<>>, y) = Evaluation(es, e, f, y)
      BY <2>1
    <3>2. [y \in {x} |-> Evaluation(es, e, <<>>, y)] = [y \in {x} |-> Evaluation(es, e, f, y)]
      BY <3>1
    <3>. QED
      BY <3>2
  <2>. HIDE DEF f
  <2>3. Evaluates(es, e, f, {x})
    BY <1>3, <1>4, <2>2 DEF Evaluates
  <2>. QED
    BY <1>3, <2>3
<1>5. CASE x.op \notin Leaves
  <2>1. x.left \in Exprs \ S /\ x.right \in Exprs \ S
    <3>1. {x.left, x.right} \subseteq Exprs
      BY <1>3, <1>5, ExprsAssumption DEF Leaves
    <3>. QED
      BY <1>2, <1>5, <3>1
  <2>2. PICK D1, f1 : Evaluates(es, e, f1, D1) /\ x.left \in D1
    BY <2>1
  <2>3. PICK D2, f2 : Evaluates(es, e, f2, D2) /\ x.right \in D2
    BY <2>1
  <2>. DEFINE D == D1 \cup D2 \cup {x}
              h == [y \in D1 \cup D2 |-> IF y \in D1 THEN f1[y] ELSE f2[y]]
              f == [y \in D |-> Evaluation(es, e, h, y)]
  <2>4. \A y \in D1 \cap D2 : f1[y] = f2[y]
    BY <2>2, <2>3, EvaluationUnique
  <2>5. \A y \in D1 : h[y] = f1[y]
    OBVIOUS
  <2>6. \A y \in D2 : h[y] = f2[y]
    BY <2>4
  <2>. HIDE DEF h
  <2>7. ASSUME NEW y \in D PROVE y.op \in Leaves \/ {y.left, y.right} \subseteq D1 \cup D2
    BY <2>2, <2>3, <2>7 DEF Evaluates
  <2>8. \A y \in D1 : Evaluation(es, e, h, y) = f1[y]
    <3>. TAKE y \in D1
    <3>1. y.op \in Leaves \/ (h[y.left] = f1[y.left] /\ h[y.right] = f1[y.right])
      BY <2>2, <2>5 DEF Evaluates
    <3>2. Evaluation(es, e, h, y) = Evaluation(es, e, f1, y)
      BY <3>1, EvaluationLocal
    <3>3. f1[y] = Evaluation(es, e, f1, y)
      BY <2>2 DEF Evaluates
    <3>. QED
      BY <3>2, <3>3
  <2>9. \A y \in D2 : Evaluation(es, e, h, y) = f2[y]
    <3>. TAKE y \in D2
    <3>1. y.op \in Leaves \/ (h[y.left] = f2[y.left] /\ h[y.right] = f2[y.right])
      BY <2>3, <2>6 DEF Evaluates
    <3>2. Evaluation(es, e, h, y) = Evaluation(es, e, f2, y)
      BY <3>1, EvaluationLocal
    <3>3. f2[y] = Evaluation(es, e, f2, y)
      BY <2>3 DEF Evaluates
    <3>. QED
      BY <3>2, <3>3
  <2>10. \A y \in D1 \cup D2 : f[y] = h[y]
    BY <2>5, <2>6, <2>8, <2>9
  <2>11. \A y \in D : Evaluation(es, e, h, y) = Evaluation(es, e, f, y)
    <3>. TAKE y \in D
    <3>1. y.op \in Leaves \/ (h[y.left] = f[y.left] /\ h[y.right] = f[y.right])
      <4>. HIDE DEF f
      <4>. QED
        BY <2>7, <2>10
    <3>. HIDE DEF f
    <3>. QED
      BY <3>1, EvaluationLocal
  <2>12. f = [y \in D |-> Evaluation(es, e, f, y)]
    <3>1. [y \in D |-> Evaluation(es, e, h, y)] = [y \in D |-> Evaluation(es, e, f, y)]
      <4>. HIDE DEF f, D
      <4>. QED
        BY <2>11
    <3>. QED
      BY <3>1
  <2>13. D \subseteq Exprs
    BY <1>3, <2>2, <2>3 DEF Evaluates
  <2>14. \A y \in D : y.op \in Leaves \/ {y.left, y.right} \subseteq D
    BY <2>7
  <2>15. x \in D
    OBVIOUS
  <2>. HIDE DEF f, D
  <2>16. Evaluates(es, e, f, D)
    BY <2>12, <2>13, <2>14 DEF Evaluates
  <2>. QED
    BY <1>3, <2>15, <2>16
<1>. QED
  BY <1>4, <1>5

\* CBinopEval is the function that its definition asks for.
LEMMA EvaluationUnfolds ==
    ASSUME NEW es, NEW e
    PROVE  Evaluates(es, e, CBinopEval(es, e), Exprs)
<1>. DEFINE is(x, D, f) == Evaluates(es, e, f, D) /\ x \in D
            V(x) == CHOOSE v : \E D, f : is(x, D, f) /\ f[x] = v
            F == [x \in Exprs |-> V(x)]
<1>1. ASSUME NEW D, NEW f, Evaluates(es, e, f, D)
      PROVE  \A x \in D : V(x) = f[x]
  <2>. TAKE x \in D
  <2>1. \E v : \E E, g : is(x, E, g) /\ g[x] = v
    BY <1>1
  <2>2. \E E, g : is(x, E, g) /\ g[x] = V(x)
    <3>. HIDE DEF is
    <3>. QED
      BY <2>1
  <2>3. PICK E, g : is(x, E, g) /\ g[x] = V(x)
    BY <2>2
  <2>. HIDE DEF V
  <2>. QED
    BY <1>1, <2>3, EvaluationUnique
<1>2. ASSUME NEW x \in Exprs PROVE V(x) = Evaluation(es, e, F, x)
  <2>1. PICK D, f : Evaluates(es, e, f, D) /\ x \in D
    BY EvaluationExists
  <2>2. D \subseteq Exprs /\ f[x] = Evaluation(es, e, f, x)
    BY <2>1 DEF Evaluates
  <2>3. \A y \in D : V(y) = f[y]
    BY <1>1, <2>1
  <2>. HIDE DEF V
  <2>4. \A y \in D : F[y] = f[y]
    BY <2>2, <2>3
  <2>. HIDE DEF F
  <2>5. x.op \in Leaves \/ (F[x.left] = f[x.left] /\ F[x.right] = f[x.right])
    BY <2>1, <2>4 DEF Evaluates
  <2>6. Evaluation(es, e, F, x) = Evaluation(es, e, f, x)
    BY <2>5, EvaluationLocal
  <2>. QED
    BY <2>1, <2>2, <2>3, <2>6
<1>3. F = [x \in Exprs |-> Evaluation(es, e, F, x)]
  <2>1. [x \in Exprs |-> V(x)] = [x \in Exprs |-> Evaluation(es, e, F, x)]
    <3>. HIDE DEF F, V
    <3>. QED
      BY <1>2
  <2>. QED
    BY <2>1
<1>4. \E f : f = [x \in Exprs |-> Evaluation(es, e, f, x)]
  <2>. HIDE DEF F
  <2>. QED
    BY <1>3
<1>5. CBinopEval(es, e) = CHOOSE f : f = [x \in Exprs |-> Evaluation(es, e, f, x)]
  BY DEF CBinopEval
<1>6. CBinopEval(es, e) = [x \in Exprs |-> Evaluation(es, e, CBinopEval(es, e), x)]
  BY <1>4, <1>5
<1>7. \A x \in Exprs : x.op \in Leaves \/ {x.left, x.right} \subseteq Exprs
  BY ExprsAssumption DEF Leaves
<1>. QED
  BY <1>6, <1>7 DEF Evaluates

-----------------------------------------------------------------------------
(* The types of values.                                                    *)

\* Every number has a value of every type, or none.
LEMMA RTValueType ==
    ASSUME NEW type, NEW n,
           \/ type \in Numeric /\ n \in Int
           \/ type = "STRING" /\ n \in Nat
           \/ type = "BIT" /\ n \in {0, 1}
           \/ type = "BIT_HOLDING_INT" /\ n \in 0..2
           \/ type = "NONE" /\ n = 0
    PROVE  RTValue(type, n) \in Failures \/ IsPlain(RTValue(type, n))
<1>1. n \in Int => /\ n % 2^IntBits \in 0..(2^IntBits - 1)
                   /\ n % 2^ByteBits \in 0..(2^ByteBits - 1)
  <2>1. ASSUME NEW k \in Nat \ {0}, n \in Int PROVE n % k \in 0..(k - 1)
    BY <2>1
  <2>2. 2^IntBits \in Nat \ {0} /\ 2^ByteBits \in Nat \ {0}
    BY BoundsAssumption
  <2>. QED
    BY <2>1, <2>2
<1>. DEFINE a == n % 2^IntBits
            b == n % 2^ByteBits
            A == 2^IntBits - 1
            B == 2^ByteBits - 1
<1>2. n \in Int => a \in 0..A /\ b \in 0..B
  BY <1>1
<1>3. /\ type = "UNSIGNED" => RTValue(type, n) = [type |-> "UNSIGNED", val |-> a]
      /\ type = "BYTE" => RTValue(type, n) = [type |-> "BYTE", val |-> b]
      /\ \A v : v.type = "UNSIGNED" /\ v.val \in 0..A => IsPlain(v)
      /\ \A v : v.type = "BYTE" /\ v.val \in 0..B => IsPlain(v)
  BY DEF RTValue, IsPlain
<1>. HIDE DEF a, b, A, B
<1>4. CASE type \in {"UNSIGNED", "BYTE"}
  <2>1. type \in Numeric /\ n \in Int
    BY <1>4 DEF Numeric
  <2>. QED
    BY <1>2, <1>3, <1>4, <2>1
<1>5. CASE type = "NUMBER"
  BY <1>5 DEF RTValue, IsPlain, Failures
<1>6. CASE type = "REAL"
  BY <1>6 DEF RTValue, IsPlain
<1>7. CASE type \in {"STRING", "BIT", "BIT_HOLDING_INT", "NONE"}
  BY <1>7 DEF RTValue, IsPlain, Numeric
<1>. QED
  BY <1>4, <1>5, <1>6, <1>7 DEF Numeric

\* What a plain value of one of the types holds.
LEMMA PlainHolds ==
    ASSUME NEW v, IsPlain(v)
    PROVE  /\ v.type \in Numeric => v.val \in Int
           /\ v.type = "STRING" => v.val \in Nat
           /\ v.type = "BIT" => v.val \in {0, 1}
           /\ ~HoldsScope(v)
<1>. DEFINE A == 2^IntBits - 1
            B == 2^ByteBits - 1
            C == -(2^(IntBits - 1))
            D == 2^(IntBits - 1) - 1
<1>1. /\ v.type = "NUMBER" => v.val \in C..D
      /\ v.type = "UNSIGNED" => v.val \in 0..A
      /\ v.type = "BYTE" => v.val \in 0..B
      /\ v.type = "REAL" => v.val = 0
      /\ v.type = "STRING" => v.val \in Nat
      /\ v.type = "BIT" => v.val \in {0, 1}
      /\ ~HoldsScope(v)
  BY DEF IsPlain, HoldsScope, IsInt
<1>. HIDE DEF A, B, C, D
<1>2. v.type \in Numeric => v.val \in Int
  BY <1>1 DEF Numeric
<1>. QED
  BY <1>1, <1>2

LEMMA QuotientType ==
    ASSUME NEW a \in Int, NEW b \in Int, b # 0
    PROVE  Quotient(a, b) \in Int
<1>1. Abs(a) \in Nat /\ Abs(b) \in Nat \ {0}
  BY DEF Abs
<1>2. Abs(a) \div Abs(b) \in Int
  BY <1>1
<1>. HIDE DEF Abs
<1>. QED
  BY <1>2 DEF Quotient

\* No operation gives a value outside the range of its type, nor a scope.
LEMMA OperationPlain ==
    ASSUME NEW op, NEW l, IsPlain(l) \/ HoldsScope(l), NEW r, IsPlain(r) \/ HoldsScope(r)
    PROVE  Operation(op, l, r) \in Failures \/ IsPlain(Operation(op, l, r))
<1>1. \A types : AreBoth(types, l, r) /\ types \subseteq Numeric \cup {"STRING", "BIT"} =>
        IsPlain(l) /\ IsPlain(r) /\ l.type = r.type /\ l.type \in types
  BY DEF AreBoth, HoldsScope, Numeric
<1>2. \A types : AreBoth(types, l, r) /\ types \subseteq Numeric =>
        /\ l.type \in Numeric /\ l.val \in Int /\ r.val \in Int
        /\ l.val + r.val \in Int /\ l.val - r.val \in Int /\ l.val * r.val \in Int
        /\ r.val # 0 => /\ Quotient(l.val, r.val) \in Int
                        /\ l.val - r.val * Quotient(l.val, r.val) \in Int
  <2>. SUFFICES ASSUME NEW types, AreBoth(types, l, r), types \subseteq Numeric
                PROVE  /\ l.type \in Numeric /\ l.val \in Int /\ r.val \in Int
                       /\ l.val + r.val \in Int /\ l.val - r.val \in Int /\ l.val * r.val \in Int
                       /\ r.val # 0 => /\ Quotient(l.val, r.val) \in Int
                                       /\ l.val - r.val * Quotient(l.val, r.val) \in Int
    OBVIOUS
  <2>1. l.type \in Numeric /\ l.val \in Int /\ r.val \in Int
    BY <1>1, PlainHolds
  <2>2. l.val + r.val \in Int /\ l.val - r.val \in Int /\ l.val * r.val \in Int
    BY <2>1
  <2>3. ASSUME r.val # 0
        PROVE  /\ Quotient(l.val, r.val) \in Int
               /\ l.val - r.val * Quotient(l.val, r.val) \in Int
    <3>1. Quotient(l.val, r.val) \in Int
      BY <2>1, <2>3, QuotientType
    <3>. QED
      BY <2>1, <3>1
  <2>. QED
    BY <2>1, <2>2, <2>3
<1>. DEFINE Good(v) == v \in Failures \/ IsPlain(v)
<1>3. \A n \in Int, type \in Numeric : Good(RTValue(type, n))
  BY RTValueType
<1>4. Good(Thrown) /\ Good(Undefined)
  BY DEF Failures
<1>5. Good(CAddOpEval(l, r))
  <2>1. CASE AreBoth({"BIT"}, l, r)
    <3>1. l.val + r.val \in 0..2
      BY <1>1, <2>1, PlainHolds
    <3>2. Good(RTValue("BIT_HOLDING_INT", l.val + r.val))
      BY <3>1, RTValueType
    <3>. HIDE DEF Good
    <3>. QED
      BY <2>1, <3>2 DEF CAddOpEval, AreBoth, Numeric
  <2>2. CASE AreBoth({"STRING"}, l, r)
    <3>1. l.val + r.val \in Nat /\ l.type = "STRING" /\ r.type = "STRING"
      BY <1>1, <2>2, PlainHolds
    <3>2. Good(RTValue(l.type, l.val + r.val))
      BY <3>1, RTValueType
    <3>. HIDE DEF Good
    <3>. QED
      BY <3>1, <3>2 DEF CAddOpEval, AreBoth
  <2>3. CASE AreBoth(Numeric, l, r)
    <3>1. Good(RTValue(l.type, l.val + r.val))
      BY <1>2, <1>3, <2>3
    <3>. HIDE DEF Good
    <3>. QED
      BY <2>3, <3>1 DEF CAddOpEval, AreBoth, Numeric
  <2>4. CASE ~AreBoth({"BIT"}, l, r) /\ ~AreBoth(Numeric \cup {"STRING"}, l, r)
    <3>. HIDE DEF Good
    <3>. QED
      BY <1>4, <2>4 DEF CAddOpEval
  <2>. QED
    BY <2>1, <2>2, <2>3, <2>4 DEF AreBoth
<1>6. Good(CSubOpEval(l, r)) /\ Good(CMultOpEval(l, r))
  <2>1. AreBoth(Numeric, l, r) =>
          Good(RTValue(l.type, l.val - r.val)) /\ Good(RTValue(l.type, l.val * r.val))
    BY <1>2, <1>3
  <2>. HIDE DEF Good
  <2>. QED
    BY <1>4, <2>1 DEF CSubOpEval, CMultOpEval
<1>7. Integral \subseteq Numeric /\ "REAL" \in Numeric
  BY DEF Integral, Numeric
<1>8. Good(CDivOpEval(l, r))
  <2>1. AreBoth(Integral, l, r) /\ r.val # 0 => Good(RTValue(l.type, Quotient(l.val, r.val)))
    BY <1>2, <1>3, <1>7
  <2>2. Good(RTValue("REAL", 0))
    BY <1>3, <1>7
  <2>3. AreBoth(Integral, l, r) => ~AreBoth({"REAL"}, l, r)
    BY DEF AreBoth, Integral
  <2>. HIDE DEF Good
  <2>. QED
    BY <1>4, <2>1, <2>2, <2>3 DEF CDivOpEval
<1>9. Good(CModOpEval(l, r))
  <2>1. AreBoth(Integral, l, r) /\ r.val # 0 =>
          Good(RTValue(l.type, l.val - r.val * Quotient(l.val, r.val)))
    BY <1>2, <1>3, <1>7
  <2>2. AreBoth(Integral, l, r) /\ r.val = 0 => CDivOpEval(l, r) = Undefined
    BY DEF CDivOpEval, AreBoth, Integral
  <2>. HIDE DEF Good
  <2>. QED
    BY <1>4, <2>1, <2>2 DEF CModOpEval
<1>10. Good(Operation(op, l, r))
  <2>. HIDE DEF Good
  <2>. QED
    BY <1>4, <1>5, <1>6, <1>8, <1>9 DEF Operation
<1>. QED
  BY <1>10

\* The values that variables hold.
Held(es) == UNION {{es[e].vars[n] : n \in DOMAIN es[e].vars} : e \in 1..Len(es)}

\* An expression has a plain value, or one that a variable holds, or fails.
LEMMA EvaluationType ==
    ASSUME NEW es, IsTree(es), NEW e \in 1..Len(es),
           \A v \in Held(es) : IsPlain(v) \/ HoldsScope(v)
    PROVE  \A x \in Exprs : \/ CBinopEval(es, e)[x] \in Failures \cup Held(es)
                            \/ IsPlain(CBinopEval(es, e)[x])
<1>. DEFINE eval == CBinopEval(es, e)
            Good(v) == v \in Failures \cup Held(es) \/ IsPlain(v)
            S == {x \in Exprs : ~Good(eval[x])}
<1>1. SUFFICES ASSUME S # {} PROVE FALSE
  OBVIOUS
<1>2. PICK x \in S : x.op \in Leaves \/ {x.left, x.right} \cap S = {}
  <2>1. S \in SUBSET Exprs
    OBVIOUS
  <2>. HIDE DEF S
  <2>. QED
    BY <1>1, <2>1, TreesAssumption
<1>3. x \in Exprs /\ ~Good(eval[x])
  BY <1>2
<1>4. Good(Thrown)
  BY DEF Failures
<1>5. \A y \in Exprs : y.op \in Leaves => Good(CLiteralEval(es, e, y))
  <2>. SUFFICES ASSUME NEW y \in Exprs, y.op \in Leaves PROVE Good(CLiteralEval(es, e, y))
    OBVIOUS
  <2>1. CASE y.op = "alnumus_"
    <3>1. IsResolved(es, e, y.name) => resolve_variable(es, e, y.name) \in Held(es)
      <4>1. Global \in 1..Len(es)
        BY DEF IsTree, Global
      <4>2. \A k \in 1..Len(es) : \A n \in DOMAIN es[k].vars : es[k].vars[n] \in Held(es)
        BY DEF Held
      <4>. QED
        BY <4>1, <4>2, Resolution
    <3>. HIDE DEF Good
    <3>2. CLiteralEval(es, e, y) = IF IsResolved(es, e, y.name)
                                   THEN resolve_variable(es, e, y.name) ELSE Thrown
      BY <2>1 DEF CLiteralEval
    <3>3. CASE IsResolved(es, e, y.name)
      BY <3>1, <3>2, <3>3 DEF Good
    <3>. QED
      BY <1>4, <3>2, <3>3
  <2>2. CASE y.op = "literal_"
    <3>1. y.type \in DOMAIN LiteralRange /\ y.val \in LiteralRange[y.type]
      BY <2>2, ExprsAssumption DEF Leaves
    <3>2. Good(RTValue(y.type, y.val))
      <4>1. \/ y.type \in Numeric /\ y.val \in Int
            \/ y.type = "STRING" /\ y.val \in Nat
            \/ y.type = "BIT" /\ y.val \in {0, 1}
            \/ y.type = "NONE" /\ y.val = 0
        BY <3>1 DEF LiteralRange, Numeric
      <4>. QED
        BY <4>1, RTValueType
    <3>. HIDE DEF Good
    <3>. QED
      BY <1>4, <2>2, <3>2 DEF CLiteralEval, LiteralValue
  <2>. QED
    BY <2>1, <2>2 DEF Leaves
<1>6. eval[x] = Evaluation(es, e, eval, x)
  <2>1. Evaluates(es, e, eval, Exprs)
    BY EvaluationUnfolds
  <2>. HIDE DEF eval
  <2>. QED
    BY <1>3, <2>1 DEF Evaluates
<1>7. CASE x.op \in Leaves
  <2>1. eval[x] = CLiteralEval(es, e, x)
    <3>. HIDE DEF eval
    <3>. QED
      BY <1>6, <1>7 DEF Evaluation
  <2>. HIDE DEF Good
  <2>. QED
    BY <1>3, <1>5, <1>7, <2>1
<1>8. CASE x.op \notin Leaves
  <2>. DEFINE operand(y) == CASE y.op \in Leaves -> CLiteralEval(es, e, y)
                              [] y.op \in Binary -> eval[y]
                              [] OTHER           -> Thrown
              l == operand(x.left)
              r == operand(x.right)
  <2>1. {x.left, x.right} \subseteq Exprs \ S
    <3>1. {x.left, x.right} \subseteq Exprs
      BY <1>3, <1>8, ExprsAssumption DEF Leaves
    <3>. QED
      BY <1>2, <1>8, <3>1
  <2>2. ASSUME NEW y \in Exprs \ S PROVE Good(operand(y))
    <3>1. Good(eval[y])
      OBVIOUS
    <3>. HIDE DEF eval, Good
    <3>. QED
      BY <1>4, <1>5, <3>1 DEF Leaves, Binary
  <2>3. eval[x] = Apply(x.op, l, r)
    <3>. HIDE DEF eval
    <3>. QED
      BY <1>6, <1>8 DEF Evaluation
  <2>4. Good(l) /\ Good(r)
    <3>. HIDE DEF Good, operand, S
    <3>. QED
      BY <2>1, <2>2
  <2>. HIDE DEF l, r, eval
  <2>5. \A v : Good(v) /\ v \notin Failures => IsPlain(v) \/ HoldsScope(v)
    OBVIOUS
  <2>6. CASE l \notin Failures /\ r \notin Failures
    <3>1. Operation(x.op, l, r) \in Failures \/ IsPlain(Operation(x.op, l, r))
      BY <2>4, <2>5, <2>6, OperationPlain
    <3>. QED
      BY <1>3, <2>3, <2>6, <3>1 DEF Apply
  <2>7. CASE l \in Failures \/ r \in Failures
    BY <1>3, <2>3, <2>7 DEF Apply
  <2>. QED
    BY <2>6, <2>7
<1>. QED
  BY <1>7, <1>8

-----------------------------------------------------------------------------
(* The values of variables.                                                *)

\* The scope that v holds is what its name means in the global environment.
IsCurrent(es, v) ==
    /\ HoldsScope(v) /\ v.val \in 2..Len(es)
    /\ es[v.val].name \in DOMAIN es[Global].vars
    /\ es[Global].vars[es[v.val].name] = v

\* Names are names, and variables hold plain values and current scopes.
IsTyped(es) ==
    /\ \A e \in 2..Len(es) : es[e].name \in Names
    /\ \A e \in 1..Len(es) : DOMAIN es[e].vars \subseteq Names
    /\ \A v \in Held(es) : IsPlain(v) \/ IsCurrent(es, v)

\* create_variable names nothing, and forgets no value.
LEMMA CreationHolds ==
    ASSUME NEW es, IsTree(es), NEW e \in 1..Len(es), NEW n, NEW v,
           NEW fs, fs = create_variable(es, e, n, v)
    PROVE  /\ \A k \in 1..Len(es) : fs[k].name = es[k].name
           /\ Held(es) \subseteq Held(fs)
           /\ Held(fs) \subseteq Held(es) \cup {fs[e].vars[n]}
           /\ fs[e].vars[n] \in Held(fs)
           /\ n \in DOMAIN es[e].vars => fs[e].vars[n] \in Held(es)
<1>1. /\ Len(fs) = Len(es)
      /\ \A k \in 1..Len(es) \ {e} : fs[k] = es[k]
      /\ DOMAIN fs[e].vars = DOMAIN es[e].vars \cup {n}
      /\ \A m \in DOMAIN es[e].vars : fs[e].vars[m] = es[e].vars[m]
  BY Creation
<1>2. fs[e].name = es[e].name
  <2>. DEFINE new == [m \in DOMAIN es[e].vars \cup {n} |->
                        IF m \in DOMAIN es[e].vars THEN es[e].vars[m] ELSE v]
  <2>1. e \in DOMAIN es /\ DOMAIN es[e] = {"name", "chain", "vars"}
    BY DEF IsTree
  <2>2. fs[e] = [es[e] EXCEPT !.vars = new]
    BY <2>1 DEF create_variable
  <2>. HIDE DEF new
  <2>. QED
    BY <2>1, <2>2
<1>3. \A k \in 1..Len(es) : \A m \in DOMAIN es[k].vars :
        m \in DOMAIN fs[k].vars /\ fs[k].vars[m] = es[k].vars[m]
  BY <1>1
<1>4. \A k \in 1..Len(fs) : \A m \in DOMAIN fs[k].vars :
        \/ m \in DOMAIN es[k].vars /\ fs[k].vars[m] = es[k].vars[m]
        \/ k = e /\ m = n
  BY <1>1
<1>. QED
  BY <1>1, <1>2, <1>3, <1>4 DEF Held

\* What is current stays so: its name keeps its meaning.
LEMMA StaysCurrent ==
    ASSUME NEW es, NEW fs, Len(es) \in Nat \ {0}, Len(es) <= Len(fs), Len(fs) \in Nat,
           \A k \in 1..Len(es) : fs[k].name = es[k].name,
           \A m \in DOMAIN es[Global].vars :
              m \in DOMAIN fs[Global].vars /\ fs[Global].vars[m] = es[Global].vars[m],
           NEW v, IsCurrent(es, v)
    PROVE  IsCurrent(fs, v)
<1>1. v.val \in 1..Len(es) /\ v.val \in 2..Len(fs)
  BY DEF IsCurrent
<1>. QED
  BY <1>1 DEF IsCurrent

\* A variable that is created with a plain value or a current scope.
LEMMA CreationTyped ==
    ASSUME NEW es, IsTree(es), IsTyped(es), NEW e \in 1..Len(es), NEW n \in Names, NEW v,
           NEW fs, fs = create_variable(es, e, n, v),
           n \notin DOMAIN es[e].vars => IsPlain(v) \/ IsCurrent(fs, v)
    PROVE  IsTyped(fs)
<1>1. /\ Len(fs) = Len(es)
      /\ \A k \in 1..Len(es) \ {e} : fs[k] = es[k]
      /\ DOMAIN fs[e].vars = DOMAIN es[e].vars \cup {n}
      /\ \A m \in DOMAIN es[e].vars : fs[e].vars[m] = es[e].vars[m]
      /\ n \notin DOMAIN es[e].vars => fs[e].vars[n] = v
  BY Creation
<1>2. /\ \A k \in 1..Len(es) : fs[k].name = es[k].name
      /\ Held(fs) \subseteq Held(es) \cup {fs[e].vars[n]}
      /\ n \in DOMAIN es[e].vars => fs[e].vars[n] \in Held(es)
  BY CreationHolds
<1>3. Len(es) \in Nat \ {0} /\ Global \in 1..Len(es)
  BY DEF IsTree, Global
<1>4. \A w : IsCurrent(es, w) => IsCurrent(fs, w)
  <2>1. \A m \in DOMAIN es[Global].vars :
          m \in DOMAIN fs[Global].vars /\ fs[Global].vars[m] = es[Global].vars[m]
    BY <1>1, <1>3
  <2>2. Len(es) <= Len(fs) /\ Len(fs) \in Nat
    BY <1>1, <1>3
  <2>. QED
    BY <1>2, <1>3, <2>1, <2>2, StaysCurrent
<1>5. \A w \in Held(fs) : IsPlain(w) \/ IsCurrent(fs, w)
  BY <1>1, <1>2, <1>4 DEF IsTyped
<1>6. \A k \in 2..Len(fs) : fs[k].name \in Names
  BY <1>1, <1>2, <1>3 DEF IsTyped
<1>7. \A k \in 1..Len(fs) : DOMAIN fs[k].vars \subseteq Names
  BY <1>1 DEF IsTyped
<1>. QED
  BY <1>5, <1>6, <1>7 DEF IsTyped

\* A class or a function: a scope that is not bound to its name, for the name
\* was bound before, is held by no variable.
LEMMA ScopeTyped ==
    ASSUME NEW es, IsTree(es), IsTyped(es), NEW name \in Names,
           NEW type \in {"OBJECT", "FUNCTION"},
           NEW v, v = [type |-> type, val |-> Len(es) + 1],
           NEW fs, fs = create_variable(add_subenv(es, Global, name), Global, name, v)
    PROVE  IsTyped(fs) /\ Held(es) \subseteq Held(fs) /\ fs[Global].vars[name] \in Held(fs)
<1>. DEFINE gs == add_subenv(es, Global, name)
<1>1. /\ IsTree(gs)
      /\ Len(gs) = Len(es) + 1
      /\ \A k \in 1..Len(es) : gs[k] = es[k]
      /\ DOMAIN gs[Len(gs)].vars = {}
  BY Addition
<1>2. Len(es) \in Nat \ {0} /\ Global \in 1..Len(es) /\ Global \in 1..Len(gs) /\ Global = 1
  BY <1>1 DEF IsTree, Global
<1>3. gs[Len(es) + 1].name = name
  <2>. DEFINE env == Env(name, es[Global].chain \cup {Len(es) + 1})
              S   == {es[e] : e \in 1..Len(es)}
              T   == S \cup {env}
  <2>1. es \in Seq(T) /\ env \in T
    <3>1. es \in Seq(S)
      BY TreeIsSeq
    <3>. QED
      BY <1>2, <3>1, SeqDef
  <2>2. gs = Append(es, env)
    BY DEF add_subenv
  <2>3. env.name = name
    BY DEF Env
  <2>. HIDE DEF T, env, gs
  <2>4. gs[Len(es) + 1] = env
    BY <1>2, <2>1, <2>2, AppendProperties
  <2>. QED
    BY <2>3, <2>4
<1>4. fs = create_variable(gs, Global, name, v)
  OBVIOUS
<1>. HIDE DEF gs
<1>5. Held(gs) = Held(es)
  <2>1. 1..Len(gs) = 1..Len(es) \cup {Len(gs)}
    BY <1>1, <1>2
  <2>. QED
    BY <1>1, <2>1 DEF Held
<1>6. IsTyped(gs)
  <2>1. \A w : IsCurrent(es, w) => IsCurrent(gs, w)
    <3>1. Len(es) <= Len(gs) /\ Len(gs) \in Nat
      BY <1>1, <1>2
    <3>. QED
      BY <1>1, <1>2, <3>1, StaysCurrent
  <2>2. \A k \in 1..Len(gs) : k \in 1..Len(es) \/ k = Len(es) + 1
    BY <1>1, <1>2
  <2>3. \A k \in 2..Len(gs) : gs[k].name \in Names
    BY <1>1, <1>2, <1>3, <2>2 DEF IsTyped
  <2>4. \A k \in 1..Len(gs) : DOMAIN gs[k].vars \subseteq Names
    BY <1>1, <1>2, <2>2 DEF IsTyped
  <2>. QED
    BY <1>5, <2>1, <2>3, <2>4 DEF IsTyped
<1>7. ASSUME name \notin DOMAIN gs[Global].vars PROVE IsCurrent(fs, v)
  <2>1. /\ Len(fs) = Len(gs) /\ name \in DOMAIN fs[Global].vars
        /\ fs[Global].vars[name] = v
    BY <1>1, <1>2, <1>4, <1>7, Creation
  <2>2. fs[Len(es) + 1].name = name
    BY <1>1, <1>2, <1>3, <1>4, CreationHolds
  <2>3. v.val = Len(es) + 1 /\ HoldsScope(v) /\ v.val \in 2..Len(fs)
    BY <1>1, <1>2, <2>1 DEF HoldsScope
  <2>. QED
    BY <2>1, <2>2, <2>3 DEF IsCurrent
<1>8. IsTyped(fs)
  BY <1>1, <1>2, <1>4, <1>6, <1>7, CreationTyped
<1>9. Held(gs) \subseteq Held(fs) /\ fs[Global].vars[name] \in Held(fs)
  BY <1>1, <1>2, <1>4, CreationHolds
<1>. QED
  BY <1>5, <1>8, <1>9

\* What DeclarationInv says of the tree and of the class.
LEMMA DeclarationParts ==
    ASSUME DeclarationInv
    PROVE  /\ IsTree(envs) /\ Len(envs) \in Nat \ {0} /\ Global \in 1..Len(envs) /\ Global = 1
           /\ class \in Tagged
           /\ class # NoClass => /\ class.scope \in 2..Len(envs)
                                 /\ class.name \in Names \cap DOMAIN envs[Global].vars
<1>1. /\ IsTree(envs) /\ class \in Tagged
      /\ class # NoClass => /\ class.scope \in 2..Len(envs)
                            /\ class.name \in Names \cap DOMAIN envs[Global].vars
  BY DEF DeclarationInv, Tagged
<1>2. Len(envs) \in Nat \ {0} /\ Global \in 1..Len(envs) /\ Global = 1
  BY <1>1 DEF IsTree, Global
<1>. QED
  BY <1>1, <1>2

\* The strengthening of TypeOK and of ValuesAreCurrent.
ValuesInv ==
    /\ Len(envs) <= MaxEnvs
    /\ IsTyped(envs)
    /\ result.value \in Failures \cup Held(envs)

\* A variable of a scope: VariableOf is no value, or one that may be held.
LEMMA VariableTyped ==
    ASSUME DeclarationInv, ValuesInv, NEW e \in 1..Len(envs), NEW name \in Names,
           NEW init \in Exprs, NEW value, value = VariableOf(e, name, init),
           value \notin Failures,
           NEW fs, fs = create_variable(envs, e, name, value)
    PROVE  /\ IsTyped(fs) /\ Len(fs) = Len(envs)
           /\ Held(envs) \subseteq Held(fs) /\ value \in Held(fs)
<1>1. IsTree(envs) /\ Len(envs) \in Nat \ {0} /\ Global \in 1..Len(envs)
  BY DeclarationParts
<1>2. ~IsResolved(envs, e, name) /\ value = CBinopEval(envs, e)[init]
  BY DEF VariableOf, Failures
<1>3. name \notin DOMAIN envs[e].vars
  BY <1>1, <1>2, Resolution
<1>4. \A v \in Held(envs) : IsPlain(v) \/ IsCurrent(envs, v)
  BY DEF ValuesInv, IsTyped
<1>5. IsPlain(value) \/ IsCurrent(envs, value)
  <2>1. \A v \in Held(envs) : IsPlain(v) \/ HoldsScope(v)
    BY <1>4 DEF IsCurrent
  <2>2. value \in Failures \cup Held(envs) \/ IsPlain(value)
    BY <1>1, <1>2, <2>1, EvaluationType
  <2>. QED
    BY <1>4, <2>2
<1>6. /\ Len(fs) = Len(envs) /\ fs[e].vars[name] = value
      /\ \A k \in 1..Len(envs) : \A m \in DOMAIN envs[k].vars :
            m \in DOMAIN fs[k].vars /\ fs[k].vars[m] = envs[k].vars[m]
  BY <1>1, <1>3, Creation
<1>7. /\ \A k \in 1..Len(envs) : fs[k].name = envs[k].name
      /\ Held(envs) \subseteq Held(fs) /\ fs[e].vars[name] \in Held(fs)
  BY <1>1, CreationHolds
<1>8. IsPlain(value) \/ IsCurrent(fs, value)
  <2>1. Len(envs) <= Len(fs) /\ Len(fs) \in Nat
    BY <1>1, <1>6
  <2>. QED
    BY <1>1, <1>5, <1>6, <1>7, <2>1, StaysCurrent
<1>9. IsTyped(fs)
  BY <1>1, <1>8, CreationTyped DEF ValuesInv
<1>. QED
  BY <1>6, <1>7, <1>9

\* Every step keeps the values.
LEMMA StepKeepsValues ==
    ASSUME DeclarationInv, ValuesInv, [Next]_vars
    PROVE  ValuesInv'
<1>1. /\ IsTree(envs) /\ Len(envs) \in Nat \ {0} /\ Global \in 1..Len(envs)
      /\ class \in Tagged
      /\ class # NoClass => /\ class.scope \in 2..Len(envs)
                            /\ class.name \in Names \cap DOMAIN envs[Global].vars
  BY DeclarationParts
<1>2. /\ IsTyped(envs) /\ Len(envs) <= MaxEnvs
      /\ result.value \in Failures \cup Held(envs)
  BY DEF ValuesInv
<1>3. SUFFICES /\ Len(envs') <= MaxEnvs
               /\ IsTyped(envs')
               /\ result'.value \in Failures \cup Held(envs')
  BY DEF ValuesInv, IsTyped, Held, IsPlain, IsInt, IsCurrent, HoldsScope, Global, Failures, Thrown, Undefined
<1>4. CASE UNCHANGED vars
  BY <1>2, <1>4 DEF vars
<1>5. ASSUME NEW name \in Names, NEW init \in Exprs, CVarDeclEval(name, init)
      PROVE  /\ Len(envs') <= MaxEnvs /\ IsTyped(envs')
             /\ result'.value \in Failures \cup Held(envs')
  <2>. DEFINE value == VariableOf(Global, name, init)
  <2>1. /\ result'.value = value
        /\ envs' = IF value \in Failures THEN envs
                   ELSE create_variable(envs, Global, name, value)
    BY <1>5 DEF CVarDeclEval, Return
  <2>2. value \notin Failures =>
          LET fs == create_variable(envs, Global, name, value)
          IN  /\ IsTyped(fs) /\ Len(fs) = Len(envs)
              /\ Held(envs) \subseteq Held(fs) /\ value \in Held(fs)
    BY <1>1, VariableTyped
  <2>. HIDE DEF value
  <2>. QED
    BY <1>2, <2>1, <2>2
<1>6. ASSUME NEW name \in Names, NEW body \in Bodies, CClassDeclEval(name, body)
      PROVE  /\ Len(envs') <= MaxEnvs /\ IsTyped(envs')
             /\ result'.value \in Failures \cup Held(envs')
  <2>1. /\ result'.value = Thrown
        /\ envs' = create_variable(add_subenv(envs, Global, name), Global, name,
                                   [type |-> "OBJECT", val |-> Len(envs) + 1])
        /\ Len(envs) + 1 <= MaxEnvs
    BY <1>6 DEF CClassDeclEval, DeclareScope, NoResult
  <2>2. IsTyped(envs') /\ Len(envs') = Len(envs) + 1
    BY <1>1, <1>2, <2>1, ScopeTyped, ScopeKeeps
  <2>. QED
    BY <2>1, <2>2 DEF Failures
<1>7. ASSUME NEW name \in Names, CFunctionDeclEval(name)
      PROVE  /\ Len(envs') <= MaxEnvs /\ IsTyped(envs')
             /\ result'.value \in Failures \cup Held(envs')
  <2>1. /\ result'.value = envs'[Global].vars[name]
        /\ envs' = create_variable(add_subenv(envs, Global, name), Global, name,
                                   [type |-> "FUNCTION", val |-> Len(envs) + 1])
        /\ Len(envs) + 1 <= MaxEnvs
    BY <1>7 DEF CFunctionDeclEval, DeclareScope, Return
  <2>2. IsTyped(envs') /\ envs'[Global].vars[name] \in Held(envs')
    BY <1>1, <1>2, <2>1, ScopeTyped
  <2>3. Len(envs') = Len(envs) + 1
    BY <1>1, <2>1, ScopeKeeps
  <2>. QED
    BY <2>1, <2>2, <2>3
<1>8. ASSUME NEW name \in Names, NEW arg \in Arguments, CFunctionCallEval(name, arg)
      PROVE  /\ Len(envs') <= MaxEnvs /\ IsTyped(envs')
             /\ result'.value \in Failures \cup Held(envs')
  <2>1. envs' = envs /\ result'.value \in Failures
    BY <1>8 DEF CFunctionCallEval, Return, Failures
  <2>. QED
    BY <1>2, <2>1
<1>9. CASE DeclareMember
  <2>. DEFINE member == Head(class.todo)
              value  == VariableOf(class.scope, member.name, member.init)
  <2>1. /\ class.todo # <<>> /\ class.todo \in Seq(Members) /\ class # NoClass
    <3>1. class.todo # <<>> /\ class.todo \in Seq(Members)
      BY <1>1, <1>9 DEF DeclareMember, Tagged
    <3>2. NoClass.todo = <<>>
      BY DEF NoClass
    <3>. QED
      BY <3>1, <3>2
  <2>2. member.name \in Names /\ member.init \in Exprs
    <3>1. member \in Members
      BY <2>1, HeadTailProperties
    <3>. HIDE DEF member
    <3>. QED
      BY <3>1 DEF Members
  <2>3. class.scope \in 1..Len(envs)
    BY <1>1, <2>1
  <2>4. IF value \in Failures
        THEN result'.value = value /\ envs' = envs
        ELSE /\ envs' = create_variable(envs, class.scope, member.name, value)
             /\ result' = result
    BY <1>9 DEF DeclareMember, Return
  <2>5. value \notin Failures =>
          LET fs == create_variable(envs, class.scope, member.name, value)
          IN  /\ IsTyped(fs) /\ Len(fs) = Len(envs)
              /\ Held(envs) \subseteq Held(fs) /\ value \in Held(fs)
    <3>. HIDE DEF member
    <3>. QED
      BY <2>2, <2>3, VariableTyped
  <2>. HIDE DEF value, member
  <2>. QED
    BY <1>2, <2>4, <2>5
<1>10. CASE EndClass
  <2>1. /\ class # NoClass /\ envs' = envs
        /\ result'.value = envs[Global].vars[class.name]
    BY <1>10 DEF EndClass, Return
  <2>2. class.name \in DOMAIN envs[Global].vars
    BY <1>1, <2>1
  <2>. QED
    BY <1>1, <1>2, <2>1, <2>2 DEF Held
<1>. QED
  BY <1>4, <1>5, <1>6, <1>7, <1>8, <1>9, <1>10 DEF Next

LEMMA ValuesInvariant == Spec => [](DeclarationInv /\ ValuesInv)
<1>1. Init => ValuesInv
  <2>. SUFFICES ASSUME Init PROVE ValuesInv
    OBVIOUS
  <2>1. Len(envs) = 1 /\ DOMAIN envs[1].vars = {} /\ result.value = Thrown
    BY DEF Init, Env, NoResult
  <2>2. Held(envs) = {}
    BY <2>1 DEF Held
  <2>3. 1 <= MaxEnvs
    BY BoundsAssumption
  <2>. QED
    BY <2>1, <2>2, <2>3 DEF ValuesInv, IsTyped, Failures
<1>2. DeclarationInv /\ ValuesInv /\ [Next]_vars => ValuesInv'
  BY StepKeepsValues
<1>. QED
  BY <1>1, <1>2, DeclarationInvariant, PTL DEF Spec

\* The values of variables and of declarations lie in the range of their
\* types, whatever is computed from what, no failure is ever held, and
\* nothing is declared in an environment that does not exist.
THEOREM ConstEvalTypeOK == Spec => []TypeOK
<1>1. ASSUME DeclarationInv, ValuesInv PROVE TypeOK
  <2>1. /\ IsTree(envs) /\ Len(envs) \in Nat \ {0} /\ Global = 1
        /\ class \in Tagged
        /\ class # NoClass => /\ class.scope \in 2..Len(envs)
                              /\ class.name \in Names \cap DOMAIN envs[Global].vars
    BY <1>1, DeclarationParts
  <2>2. \A v \in Held(envs) : IsValue(v)
    BY <1>1 DEF ValuesInv, IsTyped, IsCurrent, IsValue
  <2>3. Len(envs) \in 1..MaxEnvs
    BY <1>1, <2>1, BoundsAssumption DEF ValuesInv
  <2>4. \A e \in Scopes :
          /\ e # Global => envs[e].chain = {Global, e} /\ envs[e].name \in Names
          /\ DOMAIN envs[e].vars \subseteq Names
          /\ \A n \in DOMAIN envs[e].vars : IsValue(envs[e].vars[n])
    <3>. SUFFICES ASSUME NEW e \in Scopes
                  PROVE  /\ e # Global => envs[e].chain = {Global, e} /\ envs[e].name \in Names
                         /\ DOMAIN envs[e].vars \subseteq Names
                         /\ \A n \in DOMAIN envs[e].vars : IsValue(envs[e].vars[n])
      OBVIOUS
    <3>1. e \in 1..Len(envs) /\ (e # Global => e \in 2..Len(envs))
      BY <2>1 DEF Scopes
    <3>2. \A n \in DOMAIN envs[e].vars : envs[e].vars[n] \in Held(envs)
      BY <3>1 DEF Held
    <3>. QED
      BY <1>1, <2>1, <2>2, <3>1, <3>2 DEF ValuesInv, IsTyped, IsTree
  <2>5. envs[Global].chain = {Global}
    BY <2>1 DEF IsTree
  <2>6. class = NoClass \/ /\ class.scope \in 2..Len(envs)
                           /\ class.name \in DOMAIN envs[Global].vars
                           /\ class.todo \in Seq(Members)
    BY <2>1 DEF Tagged
  <2>7. result.value \in Failures \/ IsValue(result.value)
    BY <1>1, <2>2 DEF ValuesInv
  <2>. QED
    BY <2>3, <2>4, <2>5, <2>6, <2>7 DEF TypeOK
<1>. QED
  BY <1>1, ValuesInvariant, PTL

\* An object or a function that a variable holds, however often it was copied,
\* is the one that its own name means: the scope of a declaration that came too
\* late for its name is held by no variable.
THEOREM ConstEvalValuesAreCurrent == Spec => []ValuesAreCurrent
<1>1. ASSUME DeclarationInv, ValuesInv PROVE ValuesAreCurrent
  <2>. SUFFICES ASSUME NEW e \in Scopes, NEW n \in DOMAIN envs[e].vars,
                       NEW v, v = envs[e].vars[n], HoldsScope(v)
                PROVE  resolve_variable(envs, Global, envs[v.val].name) = v
    BY DEF ValuesAreCurrent
  <2>1. IsTree(envs) /\ Global \in 1..Len(envs)
    BY <1>1, DeclarationParts
  <2>2. v \in Held(envs)
    BY DEF Held, Scopes
  <2>3. ~IsPlain(v)
    BY PlainHolds
  <2>4. IsCurrent(envs, v)
    BY <1>1, <2>2, <2>3 DEF ValuesInv, IsTyped
  <2>. QED
    BY <2>1, <2>4, Resolution DEF IsCurrent
<1>. QED
  BY <1>1, ValuesInvariant, PTL
=============================================================================
