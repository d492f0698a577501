----------------------------- MODULE MCLlvmRun -----------------------------
(* Instances of LlvmRun. *)
EXTENDS LlvmRun

Const(op) == Statement(op, "none", "const")

(* All statement lists of up to 6 symbols, and those of up to 9 that only  *)
(* return, branch both ways and loop.                                      *)
ControlBodies ==
  ListsUpTo({Const("use"), Const("return")},
            {Const(op) : op \in {"if", "ifelse", "while", "block"}}, 6)
  \cup ListsUpTo({Const("return")}, {Const("ifelse"), Const("while")}, 9)

(* Arguments, locals that shadow them, a numeric global n that a local may *)
(* shadow as well, and a global t that genGlobal skips.                    *)
NameBodies ==
  { args \o list :
      args \in {<<>>, <<Statement("arg", "a", "none")>>},
      list \in ListsUpTo({Statement("let", "a", "const"), Statement("let", "n", "n"),
                          Statement("assign", "n", "a"), Statement("assign", "t", "const"),
                          Statement("use", "none", "n"), Statement("use", "none", "t"),
                          Statement("return", "none", "a")},
                         {Statement("ifelse", "none", "n"), Statement("while", "none", "n"),
                          Statement("block", "none", "none")}, 4) }

(* An argument of type str. *)
StringBodies ==
  { <<Statement("arg", "s", "none")>> \o list :
      list \in ListsUpTo({Statement("assign", "s", "t"), Statement("assign", "s", "const"),
                          Statement("use", "none", "s"), Const("return")}, {Const("ifelse")}, 4) }

(* Those in which every name has a declaration, as the decorator makes sure. *)
DeclaredBodies ==
  { b \in NameBodies :
      \A p \in DOMAIN b : \A n \in UsedNames(b, p) : DeclOf(b, p, n, {"n", "t"}) # Undeclared }

AllBodies == ControlBodies \cup DeclaredBodies \cup StringBodies

(* Every list that these bodies open is closed.                            *)
ASSUME AllBodiesAreBalanced == \A b \in AllBodies : Balanced(b)
=============================================================================
