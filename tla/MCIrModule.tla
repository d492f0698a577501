----------------------------- MODULE MCIrModule ----------------------------
(* Instances of IrModule, with IrGen and IrRun in it. *)
EXTENDS IrModule

Const(op) == Statement(op, "none", "const")

(* All statement lists of up to 6 symbols, and those of up to 9 that only  *)
(* return, branch both ways and loop.                                      *)
ControlBodies ==
  ListsUpTo({Const("use"), Const("return")},
            {Const(op) : op \in {"if", "ifelse", "while", "block"}}, 6)
  \cup ListsUpTo({Const("return")}, {Const("ifelse"), Const("while")}, 9)

(* Lists with declarations as the decorator lets them through: every name  *)
(* that is used has one, and no list has one twice.  a is an argument or a *)
(* local; its second declaration takes the name that a1 may have.          *)
Declared(list) ==
  /\ \A p \in DOMAIN list : \A n \in UsedNames(list, p) : DeclOf(list, p, n, {}) # Undeclared
  /\ \A p, q \in DOMAIN list :
       p < q /\ list[p].op \in {"arg", "let"} /\ list[q].op = "let" /\ list[p].name = list[q].name
         => Depth(list, p) # Depth(list, q) \/ ListEnd(list, p) < q

DataBodies ==
  { b \in { args \o list :
              args \in {<<>>, <<Statement("arg", "a", "none")>>},
              list \in ListsUpTo({Statement("let", "a", "const"), Statement("let", "a1", "a"),
                                  Statement("use", "none", "a1"), Statement("assign", "a", "a1"),
                                  Const("return")},
                                 {Statement("ifelse", "none", "a"), Statement("while", "none", "a1"),
                                  Statement("block", "none", "none")}, 5) } : Declared(b) }

AllBodies == ControlBodies \cup DataBodies

(* Every list that these bodies open is closed. *)
ASSUME AllBodiesAreBalanced == \A b \in AllBodies : Balanced(b)

(* What comes with a body: short ones get every combination of up to two   *)
(* globals and of the default values of the arguments.                     *)
AllHeadings(b) ==
  LET args == {p \in DOMAIN b : b[p].op = "arg"}
      plain == [globals |-> <<>>, defaults |-> [p \in args |-> "none"]]
  IN IF Len(b) > 3 THEN {plain}
     ELSE [globals : SeqOf({"number", "string", "other"}, 2),
           defaults : [args -> {"none", "number", "other", "string"}]]
=============================================================================
