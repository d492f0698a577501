-------------------------- MODULE ExpressionTrees --------------------------
(***************************************************************************)
(* The expressions the parser delivers.  A tree is a sequence of nodes,    *)
(* the root first and children behind their parents.  The children of a    *)
(* call are the object it is made on, for a member call, the arguments     *)
(* without name and then those with a name; names are those of the last.   *)
(***************************************************************************)
EXTENDS SequencesExt

Node(kind, what, names, kids) == [kind |-> kind, what |-> what, names |-> names, kids |-> kids]

Leaf(kind, what) == <<Node(kind, what, <<>>, <<>>)>>

ShiftedBy(n, tree) ==
  [i \in DOMAIN tree |-> [tree[i] EXCEPT !.kids = [k \in DOMAIN @ |-> @[k] + n]]]

(* A node above some trees. *)
Join(kind, what, names, trees) ==
  FoldLeft(LAMBDA tree, t : [tree EXCEPT ![1].kids = Append(@, Len(tree) + 1)]
                              \o ShiftedBy(Len(tree), t),
           <<Node(kind, what, names, <<>>)>>, trees)

Const(type) == Leaf("const", type)
Var(name) == Leaf("var", name)
Not(t) == Join("not", "!", <<>>, <<t>>)
Binary(op, t, u) == Join("binary", op, <<>>, <<t, u>>)
Member(t, name) == Join("member", name, <<>>, <<t>>)
Call(name, args, names) == Join("call", name, names, args)
MemberCall(t, name, args, names) == Join("membercall", name, names, <<t>> \o args)

(* Empty parentheses, which the parser takes for an expression. *)
Hole == Leaf("hole", "()")
=============================================================================
