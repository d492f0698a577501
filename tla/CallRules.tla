----------------------------- MODULE CallRules -----------------------------
(***************************************************************************)
(* What the language asks of a call: a function f has parameters, which    *)
(* may have a default, and a type; a call c gives arguments without and    *)
(* then with names, of which only the types count here.                    *)
(***************************************************************************)
EXTENDS Naturals, Sequences

CONSTANT NoType   \* of a parameter or result whose type was not found

(* The first parameter of f with the name of the k-th named argument of c. *)
HasName(f, c, k, j) == f.params[j].name = c.named[k].name
MeantBy(f, c, k, j) == HasName(f, c, k, j) /\ \A i \in 1..(j - 1) : ~HasName(f, c, k, i)

(* What parameter j of f should get from c, by the two of them alone.      *)
ArgumentsFor(f, c, j) ==
  {<<"positional", k>> : k \in DOMAIN c.positional \cap {j}}
    \cup {<<"named", k>> : k \in {n \in DOMAIN c.named : MeantBy(f, c, n, j)}}

TypeOf(c, source) ==
  IF source[1] = "named" THEN c.named[source[2]].type ELSE c.positional[source[2]]

(* A call fits a function if every argument has a parameter, no parameter  *)
(* has two, the types agree, and what is not given has a default.          *)
FitsCall(f, c) ==
  /\ f.result # NoType
  /\ DOMAIN c.positional \subseteq DOMAIN f.params
  /\ \A k \in DOMAIN c.named : \E j \in DOMAIN f.params : MeantBy(f, c, k, j)
  /\ \A j \in DOMAIN f.params :
       LET given == ArgumentsFor(f, c, j) IN
       /\ \A s \in given : TypeOf(c, s) = f.params[j].type /\ given = {s}
       /\ given = {} => f.params[j].default
=============================================================================
