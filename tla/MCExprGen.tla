----------------------------- MODULE MCExprGen -----------------------------
(* Instances of ExprGen: two classes, functions of several signatures, and *)
(* expressions of all shapes with up to two operators, in a function and   *)
(* in a method; all short calls of all functions with few parameters.      *)
EXTENDS ExprGen

UpTo(s, n) == UNION {[1..k -> s] : k \in 0..n}

Param(n, t, d) == [name |-> n, type |-> t, default |-> d]
Local(n, t) == Declaration("variable", NoClass, n, t, <<>>)
Function(n, t, ps) == Declaration("function", NoClass, n, t, ps)
Constructor(c) == Declaration("class", NoClass, c, c, <<>>)

Named(ds) == [n \in {d.name : d \in ds} |-> CHOOSE d \in ds : d.name = n]

Variables(c) ==
  IF c = "A"
  THEN Named({[Local("x", "i32") EXCEPT !.of = "A"], [Local("y", NoType) EXCEPT !.of = "A"],
              [Local("o", "B") EXCEPT !.of = "A"]})
  ELSE Named({[Local("z", "bool") EXCEPT !.of = "B"]})
Methods(c) ==
  IF c = "A" THEN Named({[Function("m", "i32", <<Param("p", "i32", "i32")>>) EXCEPT !.of = "A"]})
             ELSE Named({[Function("k", "void", <<>>) EXCEPT !.of = "B"]})

MCClasses == [c \in {"A", "B"} |-> [variables |-> Variables(c), functions |-> Methods(c)]]

Globals ==
  Named({Function("f", "i32", <<Param("p", "i32", NoDefault), Param("q", "bool", "bool")>>),
         Function("k", "bool", <<>>),
         Function("d", "i32", <<Param("p", "i32", "bool")>>),
         Function("u", NoType, <<Param("p", NoType, NoDefault)>>),
         Local("n", "f32"), Constructor("A"), Constructor("B")})

InFunction == <<Globals, Named({Local("a", "A"), Local("b", "bool"), Local("x", "f32")})>>
InMethod ==
  <<Globals,
    Variables("A") @@ Methods("A") @@ [t \in {"this"} |-> This("A")],
    Named({Local("n", "i32"), Local("b", "bool")})>>

Leaves == {Const("i32"), Const("bool"), Const("f32"), Hole}
          \cup {Var(n) : n \in {"n", "x", "y", "o", "a", "b", "this", "q", "f"}}

(* One operator over anything; a few of those below another operator.      *)
Over(s) ==
  {Not(t) : t \in s}
  \cup {Binary(op, t, u) : op \in {"+", "<", "&&"}, t, u \in s}
  \cup {Member(t, m) : t \in s, m \in {"x", "o", "y", "q"}}
  \cup {MemberCall(t, "m", as, <<>>) : t \in s, as \in UpTo(s, 1)}

Few == {Const("i32"), Var("x"), Var("b"), Var("o")}
FewOver ==
  {Not(t) : t \in Few} \cup {Binary(op, Var("x"), Const("i32")) : op \in {"+", "<"}}
  \cup {Member(t, "z") : t \in {Var("o"), Var("b")}} \cup {Member(Var("this"), "o")}
  \cup {Call(c, <<>>, <<>>) : c \in {"A", "k", "d", "n", "m"}}
  \cup {Call("f", <<Var("x")>>, <<>>), Call("u", <<Var("x")>>, <<>>),
        MemberCall(Var("o"), "k", <<>>, <<>>), MemberCall(Call("A", <<>>, <<>>), "m", <<Var("x")>>, <<>>),
        Call("m", <<Const("i32")>>, <<"p">>)}

Shapes == Leaves \cup Over(Leaves) \cup FewOver \cup Over(Few \cup FewOver)
          \cup {Call("f", as, <<>>) : as \in UpTo(Few \cup FewOver, 2)}
          \cup {Call("f", <<t, u>>, ns) : t, u \in Few \cup {Not(Var("x"))}, ns \in {<<"p", "q">>, <<"q", "p">>, <<"q">>}}

(* All lists of two parameters over two names, also the same name twice    *)
(* and unknown types; three parameters with any of them optional.          *)
Defaults == {"i32", NoDefault}
Signatures ==
  { Function("g", "i32", ps) :
      ps \in {<<Param("a", t, d)>> : t \in {"i32", NoType}, d \in Defaults}
               \cup {<<Param("a", "i32", d), Param(n, t, e)>> :
                        n \in {"a", "b"}, t \in {"i32", NoType}, d, e \in Defaults}
               \cup {<<Param("a", "i32", d), Param("b", "i32", e), Param("c", "i32", NoDefault)>> : d, e \in Defaults} }
  \cup {Function("g", NoType, ps) : ps \in {<<>>, <<Param("a", "i32", "i32")>>}}

Calls ==
  { Call("g", ps \o ns, names) :
      ps \in UpTo({Const("i32"), Const("bool"), Var("unknown")}, 2),
      ns \in {<<>>}, names \in {<<>>} }
  \cup { Call("g", ps \o <<t>>, <<n>>) :
      ps \in UpTo({Const("i32"), Const("bool")}, 2),
      t \in {Const("i32"), Const("bool"), Var("unknown")}, n \in {"a", "b", "c", "x"} }
  \cup { Call("g", ps \o <<t, u>>, <<n, l>>) :
      ps \in UpTo({Const("i32")}, 2), t, u \in {Const("i32"), Const("bool")},
      n, l \in {"a", "b", "c", "x"} }

MCCases ==
  [place : {InFunction, InMethod}, tree : Shapes]
  \cup [place : {<<[g \in {"g"} |-> s]>> : s \in Signatures}, tree : Calls]
=============================================================================
