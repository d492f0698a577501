-------------------------- MODULE SourceSemantics --------------------------
(***************************************************************************)
(* What a malin function promises to do, independent of any generator: the *)
(* statements of its body take effect one after the other, conditions may  *)
(* turn out either way, and a return ends the call.  This is the abstract  *)
(* specification that the code of both back ends is shown to implement.    *)
(***************************************************************************)
EXTENDS StatementStream

CONSTANT Bodies     \* the function bodies considered

VARIABLES
  body,   \* the function's statements
  at      \* the statement about to take effect; see Returned

vars == <<body, at>>

Returned == 0                \* a return statement ended the call
FellOff == Len(body) + 1     \* control reached the closing brace

TypeOK ==
  /\ body \in Bodies
  /\ at \in 0..FellOff

Init ==
  /\ body \in Bodies
  /\ at = Arrive(body, 1)

At(ops) == at \in 1..Len(body) /\ body[at].op \in ops

(* Declarations, assignments and expression statements take effect and     *)
(* control goes to the next statement.                                     *)
Effect ==
  /\ At({"let", "assign", "use"})
  /\ at' = Arrive(body, at + 1)
  /\ UNCHANGED body

(* return takes effect and nothing after it does. *)
Return ==
  /\ At({"return"})
  /\ at' = Returned
  /\ UNCHANGED body

(* A condition holds: control enters the statement's first list. *)
Holds ==
  /\ At({"if", "ifelse", "while"})
  /\ at' = Arrive(body, at + 1)
  /\ UNCHANGED body

(* It does not: control goes to the else list or behind the statement. *)
Fails ==
  /\ At({"if", "ifelse", "while"})
  /\ at' = ArriveElse(body, at)
  /\ UNCHANGED body

Next == Effect \/ Return \/ Holds \/ Fails

Spec == Init /\ [][Next]_vars
=============================================================================
