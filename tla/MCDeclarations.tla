--------------------------- MODULE MCDeclarations ---------------------------
(* Instances of Declarations: which classes hold which, and which names and *)
(* types meet.                                                             *)
EXTENDS Declarations

UpTo(s, n) == UNION {[1..k -> s] : k \in 0..n}

Var(n, t, i) == [name |-> n, typeName |-> t, init |-> i]
Fun(n, t, a) == [name |-> n, typeName |-> t, args |-> a, extern |-> FALSE]
Extern(f) == [f EXCEPT !.extern = TRUE]
Class(n, m, f) == [name |-> n, members |-> m, functions |-> f]
Program(g, f, c) == [globals |-> g, functions |-> f, classes |-> c]

Main == Fun("main", "i32", <<>>)

(* All programs of three classes with up to two members of any of them.    *)
Members(n) == {<<>>} \cup {<<Var("x", t, "none")>> : t \in {"i32", "A", "B", "C"}}
              \cup {<<Var("x", t, "none"), Var("y", u, "none")>> : t, u \in n}

Layouts ==
  { Program(<<>>, <<Main>>, <<Class("A", a, <<>>), Class("B", b, <<>>), Class("C", c, <<>>)>>) :
      a \in Members({"i32", "A", "B", "C"}), b \in Members({"A", "B", "C"}), c \in Members({"A", "C"}) }

(* All kinds of variables, as a global and as a member. *)
AllVariables ==
  { Var(n, t, i) : n \in {"x", "f", "A"}, t \in {Infer, "i32", "A", "U", "f"},
                   i \in {"i32", "bool", "other"} }

VariablePrograms ==
  { Program(<<v>>, <<Main, Fun("f", "void", <<>>)>>, <<Class("A", <<>>, <<>>)>>) : v \in AllVariables }
  \cup { Program(<<>>, <<Main, Fun("f", "void", <<>>)>>,
                 <<Class("A", <<v, Var("x", "i32", "none")>>, <<>>), Class("B", <<w>>, <<>>)>>) :
           v \in AllVariables \cup {Var("this", "A", "none"), Var("y", Infer, "none")},
           w \in {Var("y", "A", "none"), Var("y", "i32", "i32")} }

(* All kinds of functions, also a second one called main, and as members.  *)
AllFunctions ==
  { Fun(n, t, a) : n \in {"main", "f", "A"}, t \in {"i32", "void", "A", "U"},
                   a \in UpTo({"i32", "A", "U"}, 1) }

FunctionPrograms ==
  { Program(<<>>, fs, <<Class("A", <<>>, <<>>)>>) : fs \in UpTo(AllFunctions, 2) }
  \cup { Program(<<Var("x", "i32", "i32")>>, <<Main>>, <<Class("A", <<Var("f", "i32", "none")>>, <<f>>)>>) :
           f \in AllFunctions \cup {Extern(g) : g \in AllFunctions} }
  \cup { Program(<<>>, <<Main, Extern(f)>>, <<Class("A", <<>>, <<>>)>>) : f \in AllFunctions }

(* Members and arguments of type void, beside others that are refused. *)
VoidPrograms ==
  LET functions == {Fun("f", "void", <<"i32">>), Fun("C", "void", <<"i32", "void">>), Fun("U", "i32", <<"void", "A">>)}
  IN { Program(<<>>, <<Main>> \o fs, <<Class("A", m, gs), Class("B", <<Var("x", "A", "none")>>, <<>>)>>) :
         fs \in UpTo(functions, 1), gs \in UpTo(functions, 3),
         m \in {<<>>, <<Var("x", "void", "none")>>, <<Var("x", "i32", "none"), Var("y", "void", "i32")>>,
                <<Var("x", "i32", "none"), Var("y", "void", "none")>>, <<Var("x", "B", "none"), Var("y", "void", "none")>>} }

MCPrograms == VoidPrograms \cup Layouts \cup VariablePrograms \cup FunctionPrograms
=============================================================================
