------------------------------- MODULE Parser -------------------------------
(***************************************************************************)
(* Parser: a whole file.  A declaration or statement in the making is a    *)
(* frame of the same stack of calls as the expressions inside it; what is  *)
(* already parsed of it stands in args.  Its node is named by the position *)
(* of its name if it has one, otherwise of its first token, an assignment  *)
(* by the one of '='.  The type in a declaration is a node "type".  The    *)
(* tree keeps the members of a class, and the declarations of the file, in *)
(* one list for each kind of them, here they are one list.                 *)
(***************************************************************************)
EXTENDS ExprParser

Init ==
  /\ tokens \in Inputs
  /\ pos = 1
  /\ calls = <<Frame("root", 0, 0, NoNode)>>
  /\ doing = "item"
  /\ value = NoNode
  /\ nodes = [p \in {} |-> 0]
  /\ phase = "parsing"

(* The innermost of cs gets a node, or none where one is allowed. *)
Give(cs, node) == [cs EXCEPT ![Len(cs)].args = Append(@, node)]

Go(cs, p, what) == calls' = cs /\ pos' = p /\ doing' = what /\ UNCHANGED <<tokens, value, phase>>

(* An expression or a block is wanted next, for the innermost of cs. *)
Expect(cs, p) == Go(Append(cs, Frame("expr", 0, 0, NoNode)), p, "primary")
Enter(cs, at) == Go(Append(cs, Frame("block", 0, at, NoNode)), at + 1, "item")

(* The innermost call returns its node to the list it was called from. *)
Finish(node, p) ==
  nodes' = Having(nodes, Top.at, node) /\ Go(Give(Below, Top.at), p, "item")

At(kinds, type) == Doing("item") /\ Top.kind \in kinds /\ Tok(pos) = type

(* Behind position p a type may be given: its token, as a node, and the    *)
(* position behind it.                                                     *)
TypeIsMissing(p) == Tok(p + 1) = "colon" /\ Tok(p + 2) # "id"
Type(p) == IF Tok(p + 1) = "colon" THEN <<p + 2>> ELSE <<>>
Behind(p) == IF Tok(p + 1) = "colon" THEN p + 3 ELSE p + 1
WithType(p) ==
  IF Tok(p + 1) = "colon" THEN Having(nodes, p + 2, Node("type", NoNode, NoNode, <<>>)) ELSE nodes

(* The call of the declaration whose name stands at p. *)
Declared(kind, p) == [Frame(kind, 0, p, NoNode) EXCEPT !.args = Type(p)]

----------------------------------------------------------------------------
(* parseVariableDeclaration: a member has no 'let', and may have no value. *)
AtVariable == At({"root", "block"}, "let") \/ At({"class"}, "id")
VariableName == IF Tok(pos) = "let" THEN pos + 1 ELSE pos
VariableHasName == AtVariable /\ Tok(VariableName) = "id" /\ ~TypeIsMissing(VariableName)

ParseVariable ==
  /\ VariableHasName
  /\ Tok(Behind(VariableName)) = "assign"
  /\ nodes' = WithType(VariableName)
  /\ Expect(Append(calls, Declared("let", VariableName)), Behind(VariableName) + 1)

ParseMember ==
  /\ VariableHasName /\ Top.kind = "class"
  /\ Tok(Behind(VariableName)) = "semicolon"
  /\ nodes' = Having(WithType(VariableName), VariableName, Node("let", NoNode, NoNode, Type(VariableName)))
  /\ Go(Give(calls, VariableName), Behind(VariableName) + 1, "item")

VariableIsWrong ==
  \/ AtVariable /\ ~VariableHasName
  \/ /\ VariableHasName
     /\ Tok(Behind(VariableName)) # "assign"
     /\ ~(Top.kind = "class" /\ Tok(Behind(VariableName)) = "semicolon")

----------------------------------------------------------------------------
(* parseFunctionDeclaration. *)
AtFunction == At({"root", "class"}, "fun")
IsExtern == Tok(pos + 1) = "extern"
FunctionName == IF IsExtern THEN pos + 2 ELSE pos + 1
FunctionHasName == AtFunction /\ Tok(FunctionName) = "id" /\ Tok(FunctionName + 1) = "lp"

ParseFunction ==
  /\ FunctionHasName
  /\ LET func == Frame(IF IsExtern THEN "extern" ELSE "fun", 0, FunctionName, NoNode)
     IN Go(Append(calls, func), FunctionName + 2, "parameter")
  /\ UNCHANGED nodes

(* parseFunctionParamDeclaration: a name, a type and perhaps a default.    *)
ParameterHasType ==
  Doing("parameter") /\ Tok(pos) = "id" /\ Tok(pos + 1) = "colon" /\ Tok(pos + 2) = "id"

ParseParameter ==
  /\ ParameterHasType /\ Tok(Behind(pos)) # "assign"
  /\ nodes' = Having(WithType(pos), pos, Node("param", NoNode, NoNode, Type(pos)))
  /\ Go(Give(calls, pos), Behind(pos), "comma")

ParseDefault ==
  /\ ParameterHasType /\ Tok(Behind(pos)) = "assign"
  /\ nodes' = WithType(pos)
  /\ Expect(Append(calls, Declared("param", pos)), Behind(pos) + 1)

(* The default has to be a constant.  Fault: it only has to be there. *)
AnyDefault == value # NoNode
IsConstant == value # NoNode /\ nodes[value].kind = "literal"

EndDefault ==
  /\ Doing("value") /\ InCall("param") /\ IsConstant
  /\ nodes' = Having(nodes, Top.at, Node("param", NoNode, value, Top.args))
  /\ Go(Give(Below, Top.at), pos, "comma")

NextParameter ==
  /\ Doing("comma") /\ Tok(pos) = "comma"
  /\ Go(calls, pos + 1, "parameter")
  /\ UNCHANGED nodes

(* The list is over behind a parameter, or at once, or behind a comma. *)
AtListEnd == (Doing("parameter") \/ Doing("comma")) /\ Tok(pos) = "rp"
Signature == Top.args \o Type(pos)

EndExtern ==
  /\ AtListEnd /\ ~TypeIsMissing(pos) /\ Top.kind = "extern"
  /\ nodes' = Having(WithType(pos), Top.at, Node("extern", NoNode, NoNode, Signature))
  /\ Go(Give(Below, Top.at), Behind(pos), "item")

BeginBody ==
  /\ AtListEnd /\ ~TypeIsMissing(pos) /\ Top.kind = "fun"
  /\ Tok(Behind(pos)) = "lb"
  /\ nodes' = WithType(pos)
  /\ Enter(Append(Below, [Top EXCEPT !.args = Signature]), Behind(pos))

FunctionIsWrong ==
  \/ AtFunction /\ ~FunctionHasName
  \/ Doing("parameter") /\ Tok(pos) # "rp" /\ ~ParameterHasType
  \/ Doing("value") /\ InCall("param") /\ ~IsConstant
  \/ Doing("comma") /\ Tok(pos) \notin {"comma", "rp"}
  \/ AtListEnd /\ (TypeIsMissing(pos) \/ (Top.kind = "fun" /\ Tok(Behind(pos)) # "lb"))

----------------------------------------------------------------------------
(* parseClassDeclaration; its items are members and functions. *)
ClassBegins == At({"root"}, "class") /\ Tok(pos + 1) = "id" /\ Tok(pos + 2) = "lb"

ParseClass ==
  /\ ClassBegins
  /\ Go(Append(calls, Frame("class", 0, pos + 1, NoNode)), pos + 3, "item")
  /\ UNCHANGED nodes

EndClass ==
  /\ At({"class"}, "rb")
  /\ Finish(Node("class", NoNode, NoNode, Top.args), pos + 1)

ClassIsWrong ==
  \/ At({"root"}, "class") /\ ~ClassBegins
  \/ Doing("item") /\ InCall("class") /\ Tok(pos) \notin {"fun", "id", "rb"}

----------------------------------------------------------------------------
(* parseStatement and the functions it calls. *)
ParseBlock ==
  /\ At({"block"}, "lb")
  /\ Enter(calls, pos)
  /\ UNCHANGED nodes

(* The condition of an 'if' or 'while', or the value of a 'return'. *)
ParseKeyword ==
  /\ Doing("item") /\ InCall("block")
  /\ Tok(pos) \in {"if", "while"} \/ (Tok(pos) = "return" /\ Tok(pos + 1) # "semicolon")
  /\ Expect(Append(calls, Frame(Tok(pos), 0, pos, NoNode)), pos + 1)
  /\ UNCHANGED nodes

EndCondition ==
  /\ Doing("value") /\ (InCall("if") \/ InCall("while"))
  /\ Tok(pos) = "lb"
  /\ Enter(Give(calls, value), pos)
  /\ UNCHANGED nodes

ReturnNothing ==
  /\ At({"block"}, "return") /\ Tok(pos + 1) = "semicolon"
  /\ nodes' = Having(nodes, pos, Node("return", NoNode, NoNode, <<>>))
  /\ Go(Give(calls, pos), pos + 2, "item")

(* What begins like nothing else is an expression, and perhaps the         *)
(* variable of an assignment.                                              *)
ParseExpressionStatement ==
  /\ Doing("item") /\ InCall("block")
  /\ Tok(pos) \notin {"let", "return", "if", "while", "lb", "rb", "eof"}
  /\ Expect(Append(calls, Frame("statement", 0, 0, NoNode)), pos)
  /\ UNCHANGED nodes

IsAssigned == value # NoNode /\ nodes[value].kind = "name" /\ Tok(pos) = "assign"

BeginAssign ==
  /\ Doing("value") /\ InCall("statement") /\ IsAssigned
  /\ Expect(Append(Below, Frame("assign", 0, pos, value)), pos + 1)
  /\ UNCHANGED nodes

AtSemicolon == Doing("value") /\ Tok(pos) = "semicolon"

EndStatement ==
  /\ AtSemicolon /\ Top.kind = "statement"
  /\ Go(Give(Below, value), pos + 1, "item")
  /\ UNCHANGED nodes

EndWithSemicolon ==
  /\ AtSemicolon /\ Top.kind \in {"let", "assign", "return"}
  /\ Finish(Node(Top.kind, Top.lhs, value, Top.args), pos + 1)

----------------------------------------------------------------------------
(* A block ends, and with it mostly what it is the body of. *)
EndBlock ==
  /\ At({"block"}, "rb")
  /\ nodes' = Having(nodes, Top.at, Node("block", NoNode, NoNode, Top.args))
  /\ value' = Top.at /\ calls' = Below /\ pos' = pos + 1 /\ doing' = "block"
  /\ UNCHANGED <<tokens, phase>>

EndNestedBlock ==
  /\ Doing("block") /\ InCall("block")
  /\ Go(Give(calls, value), pos, "item")
  /\ UNCHANGED nodes

(* Behind the first body there may be a second. *)
ElseFollows == InCall("if") /\ Len(Top.args) = 1 /\ Tok(pos) = "else"

ParseElse ==
  /\ Doing("block") /\ ElseFollows
  /\ Tok(pos + 1) = "lb"
  /\ Enter(Give(calls, value), pos + 1)
  /\ UNCHANGED nodes

EndWithBlock ==
  /\ Doing("block") /\ Top.kind \in {"fun", "if", "while"} /\ ~ElseFollows
  /\ Finish(Node(Top.kind, NoNode, NoNode, Append(Top.args, value)), pos)

StatementIsWrong ==
  \/ Doing("item") /\ InCall("block") /\ Tok(pos) = "eof"
  \/ Doing("value") /\ (InCall("if") \/ InCall("while")) /\ Tok(pos) # "lb"
  \/ Doing("value") /\ Tok(pos) # "semicolon" /\ (InCall("let") \/ InCall("assign") \/ InCall("return"))
  \/ Doing("value") /\ Tok(pos) # "semicolon" /\ InCall("statement") /\ ~IsAssigned
  \/ Doing("block") /\ ElseFollows /\ Tok(pos + 1) # "lb"

----------------------------------------------------------------------------
(* parse: the loop over the declarations, and how it ends. *)
EndFile ==
  /\ At({"root"}, "eof")
  /\ phase' = "accepted"
  /\ UNCHANGED <<tokens, pos, calls, doing, value, nodes>>

Throw ==
  /\ \/ ExpressionIsWrong \/ VariableIsWrong \/ FunctionIsWrong \/ ClassIsWrong \/ StatementIsWrong
     \/ Doing("item") /\ InCall("root") /\ Tok(pos) \notin {"let", "fun", "class", "eof"}
  /\ phase' = "rejected"
  /\ UNCHANGED <<tokens, pos, calls, doing, value, nodes>>

ParseDeclaration ==
  \/ ParseVariable \/ ParseMember \/ ParseClass \/ EndClass
  \/ ParseFunction \/ ParseParameter \/ ParseDefault \/ EndDefault \/ NextParameter
  \/ EndExtern \/ BeginBody

ParseStatement ==
  \/ ParseBlock \/ ParseKeyword \/ EndCondition \/ ReturnNothing
  \/ ParseExpressionStatement \/ BeginAssign \/ EndStatement \/ EndWithSemicolon
  \/ EndBlock \/ EndNestedBlock \/ ParseElse \/ EndWithBlock

Next == ParseExpression \/ ParseDeclaration \/ ParseStatement \/ EndFile \/ Throw

Spec == Init /\ [][Next]_vars
FairSpec == Spec /\ WF_vars(Next)

----------------------------------------------------------------------------
Kinds ==
  {"literal", "name", "call", "not", "binary", "type", "let", "param", "fun", "extern", "class",
   "block", "if", "while", "return", "assign"}

TypeOK ==
  /\ tokens \in Seq(TokenTypes)
  /\ pos \in 1..(Len(tokens) + 1)
  /\ value \in DOMAIN nodes \cup {NoNode}
  /\ \A p \in DOMAIN nodes :
       /\ p \in 1..Len(tokens) /\ nodes[p].kind \in Kinds
       /\ {nodes[p].lhs, nodes[p].rhs} \cup Range(nodes[p].args) \subseteq DOMAIN nodes \cup {NoNode}
  /\ doing \in {"item", "primary", "member", "argument", "parameter", "comma", "value", "block"}
  /\ phase \in {"parsing", "accepted", "rejected"}

(* The tree below p, written down again: a left operand, the node itself,  *)
(* what it has in a list, and a right operand or value.                    *)
Unwritten == {"block", "param", "assign"}

Reading ==
  LET R[p \in DOMAIN nodes \cup {NoNode}] ==
        IF p = NoNode THEN <<>>
        ELSE R[nodes[p].lhs] \o (IF nodes[p].kind \in Unwritten THEN <<>> ELSE <<p>>)
               \o FlattenSeq([i \in DOMAIN nodes[p].args |-> R[nodes[p].args[i]]])
               \o R[nodes[p].rhs]
  IN FlattenSeq([i \in DOMAIN calls[1].args |-> R[calls[1].args[i]]])

(* No declaration, statement, operand or operator is lost, moved or used   *)
(* twice: the tree of an accepted file reads like the source, without      *)
(* punctuation, the minus sign in front of a number and the names of       *)
(* arguments and parameters.                                               *)
IsSign(p) == Tok(p) = "minus" /\ Tok(p - 1) \notin {"id", "number", "literal", "rp"}
IsArgName(p) == Tok(p) = "id" /\ Tok(p - 1) \in {"lp", "comma"} /\ Tok(p + 1) \in {"assign", "colon"}

TreeReadsLikeTheSource ==
  phase = "accepted" =>
    Reading = SelectSeq([p \in 1..Len(tokens) |-> p],
                        LAMBDA p : /\ \/ IsOperator(p)
                                      \/ Tok(p) \in {"id", "number", "literal", "not", "return", "if", "while"}
                                   /\ ~IsSign(p) /\ ~IsArgName(p))

(* A statement or variable lacks its expression exactly where the source   *)
(* has only empty parentheses for it, and a return where it has nothing.   *)
HoleBehind(p) == \E j \in p..Len(tokens) : Hole(p + 1, j)

StatementsHaveTheirExpressions ==
  \A p \in DOMAIN nodes :
    /\ nodes[p].kind \in {"if", "while"} => (nodes[p].args[1] = NoNode <=> HoleBehind(p))
    /\ nodes[p].kind = "assign" => (nodes[p].rhs = NoNode <=> HoleBehind(p))
    /\ nodes[p].kind = "return" =>
         (nodes[p].rhs = NoNode <=> HoleBehind(p) \/ Tok(p + 1) = "semicolon")
    /\ nodes[p].kind = "let" =>
         (nodes[p].rhs = NoNode <=> HoleBehind(Behind(p)) \/ Tok(Behind(p)) = "semicolon")

(* At every step the nodes made so far have whatever the source has for    *)
(* them, and at the end the tree has all of it in its order.               *)
ParserInv ==
  TypeOK /\ HolesAreEmptyParens /\ StatementsHaveTheirExpressions /\ TreeReadsLikeTheSource

(* Parsing comes to an end for every list of tokens. *)
ParsingEnds == <>(phase # "parsing")

----------------------------------------------------------------------------
(* A file as a grammar: whether the tokens from i to j are such a part.    *)
(* The type in a declaration may be missing between i and k.               *)
Typed(i, k) == k = i \/ (k = i + 2 /\ Tok(i + 1) = "colon" /\ Tok(k) = "id")

Parts ==
  {"file", "declaration", "members", "member", "variable", "function", "params", "param", "constant",
   "block", "statements", "statement", "target"}

Reads[part \in Parts, i \in Nat, j \in Nat] ==
  LET Block(k) == Tok(k) = "lb" /\ Reads["block", k, j]
      Closed == i < j /\ Tok(j) = "semicolon"
      Several(one) ==
        \/ j < i
        \/ \E k \in i..j : Reads[one, i, k] /\ Reads[part, k + 1, j]
      HasValue(k) == Tok(k) = "assign" /\ Fits["expr", k + 1, j - 1]
  IN
  \/ part = "file" /\ Several("declaration")
  \/ part = "members" /\ Several("member")
  \/ part = "statements" /\ Several("statement")
  \/ /\ part = "declaration"
     /\ \/ Reads["variable", i, j] \/ Reads["function", i, j]
        \/ /\ i + 2 < j /\ Tok(i) = "class" /\ Tok(i + 1) = "id" /\ Tok(i + 2) = "lb"
           /\ Tok(j) = "rb" /\ Reads["members", i + 3, j - 1]
  \/ /\ part = "member"
     /\ \/ Reads["function", i, j]
        \/ Closed /\ Tok(i) = "id" /\ \E k \in i..j : Typed(i, k) /\ (k + 1 = j \/ HasValue(k + 1))
  \/ /\ part = "variable" /\ Closed /\ Tok(i) = "let" /\ Tok(i + 1) = "id"
     /\ \E k \in i..j : Typed(i + 1, k) /\ HasValue(k + 1)
  \/ /\ part = "function" /\ Tok(i) = "fun"
     /\ LET extern == Tok(i + 1) = "extern"
            name == IF extern THEN i + 2 ELSE i + 1
        IN /\ Tok(name) = "id" /\ Tok(name + 1) = "lp"
           /\ \E r \in name..j, k \in name..j :
                /\ Tok(r) = "rp" /\ Typed(r, k)
                /\ IF extern THEN k = j ELSE Block(k + 1)
                /\ Reads["params", name + 2, r - 1]
  \/ /\ part = "params"
     /\ \/ j < i
        \/ Reads["param", i, j]
        \/ \E k \in i..j : Tok(k) = "comma" /\ Reads["param", i, k - 1] /\ Reads["params", k + 1, j]
  \/ /\ part = "param" /\ Tok(i) = "id" /\ Typed(i, i + 2)
     /\ j = i + 2 \/ (i + 3 < j /\ Tok(i + 3) = "assign" /\ Reads["constant", i + 4, j])
  \/ /\ part = "constant"
     /\ \/ i = j /\ Tok(i) \in {"number", "literal"}
        \/ i + 1 = j /\ Tok(i) = "minus" /\ Tok(j) = "number"
        \/ i + 1 < j /\ Tok(i) = "lp" /\ Tok(j) = "rp" /\ Reads["constant", i + 1, j - 1]
  \/ part = "block" /\ i < j /\ Tok(i) = "lb" /\ Tok(j) = "rb" /\ Reads["statements", i + 1, j - 1]
  \/ /\ part = "statement"
     /\ \/ Reads["variable", i, j] \/ Block(i)
        \/ Closed /\ Fits["expr", i, j - 1]
        \/ Closed /\ \E k \in i..j : HasValue(k) /\ Reads["target", i, k - 1]
        \/ Closed /\ Tok(i) = "return" /\ (i + 1 = j \/ Fits["expr", i + 1, j - 1])
        \/ Tok(i) = "while" /\ \E k \in i..j : Block(k) /\ Fits["expr", i + 1, k - 1]
        \/ Tok(i) = "if" /\ \E k \in i..j :
             /\ Tok(k) = "lb" /\ Fits["expr", i + 1, k - 1]
             /\ \/ Block(k)
                \/ \E e \in k..j : Tok(e) = "else" /\ Reads["block", k, e - 1] /\ Block(e + 1)
  \/ /\ part = "target" /\ i <= j
     /\ \/ Tok(j) = "id" /\ Fits["names", i, j]
        \/ Tok(i) = "lp" /\ Tok(j) = "rp" /\ Reads["target", i + 1, j - 1]

(* The parser accepts the grammar and nothing else. *)
AcceptsTheGrammar ==
  phase # "parsing" => (phase = "accepted" <=> Reads["file", 1, Len(tokens)])
=============================================================================
