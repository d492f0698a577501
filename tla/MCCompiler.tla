----------------------------- MODULE MCCompiler -----------------------------
(* Instances of Compiler: every body up to a length over small alphabets,  *)
(* as the parser delivers them.                                            *)
EXTENDS Compiler

Const(op) == Statement(op, "none", "const")
Let(name, reads) == Statement("let", name, reads)
Args == {<<>>, <<Statement("arg", "a", "none")>>,
         <<Statement("arg", "a", "none"), Statement("arg", "a", "none")>>}

(* Control: all nestings of lists, with returns of a value or of none, or  *)
(* with nothing but returns in longer bodies.                              *)
ControlBodies ==
  LET nested == {Const(op) : op \in {"if", "ifelse", "while"}} \cup {Statement("block", "none", "none")}
      ending(r) == ListsUpTo({Const("use"), r}, nested, 6)
  IN ending(Const("return")) \cup ending(Statement("return", "none", "none"))
       \cup ListsUpTo({Const("use"), Const("return"), Statement("return", "none", "none")}, nested, 5)
       \cup ListsUpTo({Const("return")}, {Const("ifelse"), Const("if"), Const("while")}, 7)

(* Scopes: arguments, shadowing, duplicates, unknown names, a global g and *)
(* a function f, whose name a local may take.                              *)
ScopeBodies ==
  { args \o list :
      args \in Args,
      list \in ListsUpTo({Let("a", "const"), Let("b", "a"), Let("f", "g"),
                          Statement("use", "none", "b"), Statement("assign", "a", "f")},
                         {Statement("if", "none", "a"), Statement("ifelse", "none", "b"),
                          Statement("block", "none", "none")}, 5) }

(* Storage: a numeric global n, which may be shadowed, and a global t that *)
(* genGlobal skips.                                                        *)
StorageBodies ==
  { args \o list :
      args \in {<<>>, <<Statement("arg", "a", "none")>>},
      list \in ListsUpTo({Let("a", "const"), Let("n", "a"),
                          Statement("assign", "n", "a"), Statement("assign", "t", "const"),
                          Statement("use", "none", "t"), Statement("return", "none", "n")},
                         {Statement("ifelse", "none", "n"), Statement("while", "none", "a"),
                          Statement("block", "none", "none")}, 4) }

(* Variables of type str. *)
StringBodies ==
  ListsUpTo({Let("s", "const"), Statement("assign", "s", "const"), Statement("assign", "s", "t"),
             Statement("assign", "t", "s"), Const("return")},
            {Const("ifelse"), Statement("block", "none", "none")}, 4)

AllBodies == ControlBodies \cup ScopeBodies \cup StorageBodies \cup StringBodies
=============================================================================
