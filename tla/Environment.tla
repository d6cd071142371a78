---------------------------- MODULE Environment -----------------------------
(***************************************************************************)
(* What the declarations of a program do, seen from outside: names are     *)
(* bound one at a time, what is bound stays, and a declaration answers     *)
(* with what its name means.  No tree of environments, no evaluation.      *)
(* Module ConstEval implements this specification.                         *)
(***************************************************************************)

CONSTANT Names

VARIABLES
    meaning,    (* of each name, what it is bound to, in a set; {} unbound  *)
    begun,      (* {n} while the declaration of class n is under way        *)
    of,         (* the name the last answer is about ...                    *)
    answer      (* ... and what it is bound to, in a set; {} for no answer  *)

vars == <<meaning, begun, of, answer>>

Init ==
    /\ meaning = [n \in Names |-> {}]
    /\ begun = {}
    /\ of = "" /\ answer = {}

\* Afterwards n is bound; if it was before, to the same.
Bind(n) ==
    IF meaning[n] # {} THEN UNCHANGED meaning
    ELSE /\ meaning'[n] # {}
         /\ meaning' = [meaning EXCEPT ![n] = meaning'[n]]

Declare(n) ==
    /\ begun = {} /\ begun' = {}
    /\ of' = n /\ answer' = meaning'[n]
    /\ Bind(n)

\* A class is bound before its body is evaluated.
Begin(n) ==
    /\ begun = {} /\ begun' = {n}
    /\ of' = "" /\ answer' = {}
    /\ Bind(n)

Finish(n) ==
    /\ begun = {n} /\ begun' = {}
    /\ of' = n /\ answer' = meaning[n]
    /\ UNCHANGED meaning

\* A statement that throws; a class whose body throws remains bound.
Refuse ==
    /\ begun' = {}
    /\ of' \in Names \cup {""} /\ answer' = {}
    /\ UNCHANGED meaning

Next == Refuse \/ \E n \in Names : Declare(n) \/ Begin(n) \/ Finish(n)

Spec == Init /\ [][Next]_vars
=============================================================================
