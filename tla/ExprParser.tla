----------------------------- MODULE ExprParser -----------------------------
(***************************************************************************)
(* Parser: the parse...Expression functions, which the statements and      *)
(* declarations of module Parser call.  The recursion is an explicit stack *)
(* of calls.  Tokens are abstracted to their types; a node of the AST is   *)
(* named by the position of the token it is made of, and a missing node    *)
(* (nullptr) is position 0.  The literals "true", "false" and of a text    *)
(* are one token, "literal"; a number that stoi or stof refuses is "huge". *)
(***************************************************************************)
EXTENDS Integers, Sequences, FiniteSets, SequencesExt

CONSTANT Inputs     \* the token lists considered, without the one for the end of file

(* BinaryExpressionOp: the value of an operator is its precedence. *)
Precedence ==
  [or |-> 5, and |-> 10, equals |-> 20, notequals |-> 25, greater |-> 30, greatereq |-> 35,
   less |-> 40, lesseq |-> 45, plus |-> 50, minus |-> 60, div |-> 70, mul |-> 80]
Operators == DOMAIN Precedence
TokenTypes ==
  Operators \cup {"id", "number", "huge", "literal", "not", "lp", "rp", "comma", "assign", "dot"}
    \cup {"let", "fun", "extern", "class", "return", "if", "else", "while", "lb", "rb", "colon", "semicolon"}

ASSUME InputsAreTokens == Inputs \subseteq Seq(TokenTypes)

VARIABLES
  tokens,  \* the tokens of the file
  pos,     \* the next one
  calls,   \* the active parse... calls
  doing,   \* what the innermost call does next; "value": it gets a result
  value,   \* the node last parsed
  nodes,   \* the nodes made so far
  phase    \* "parsing", "accepted" or "rejected" (ParseException)

vars == <<tokens, pos, calls, doing, value, nodes, phase>>

NoNode == 0

Tok(p) == IF p <= Len(tokens) THEN tokens[p] ELSE "eof"
IsOperator(p) == Tok(p) \in Operators
Prec(p) == Precedence[Tok(p)]

Node(kind, lhs, rhs, args) == [kind |-> kind, lhs |-> lhs, rhs |-> rhs, args |-> args]

(* The nodes made, and the one of the token at p. *)
Having(made, p, node) == [q \in DOMAIN made \cup {p} |-> IF q = p THEN node ELSE made[q]]

(* The locals of a call: of parseBinaryExpressionRHS the precedence it     *)
(* needs at least, its lhs and operator, and whether a nested call parses  *)
(* the rhs; of parseCallExpression the name, the expression before the dot *)
(* and the arguments.                                                      *)
Frame(kind, min, at, lhs) ==
  [kind |-> kind, min |-> min, at |-> at, lhs |-> lhs,
   nested |-> FALSE, args |-> <<>>, named |-> FALSE]

Top == calls[Len(calls)]
Below == SubSeq(calls, 1, Len(calls) - 1)
InCall(kind) == Top.kind = kind

Doing(what) == phase = "parsing" /\ doing = what

Return(node, p) == doing' = "value" /\ value' = node /\ pos' = p

----------------------------------------------------------------------------
(* A number, or a minus sign directly followed by one. *)
ParseNumber ==
  /\ Doing("primary")
  /\ LET at == IF Tok(pos) = "minus" THEN pos + 1 ELSE pos
     IN /\ Tok(at) = "number"
        /\ nodes' = Having(nodes, at, Node("literal", NoNode, NoNode, <<>>))
        /\ Return(at, at + 1)
  /\ UNCHANGED <<tokens, calls, phase>>

(* "true", "false" or a text has no sign. *)
ParseLiteral ==
  /\ Doing("primary")
  /\ Tok(pos) = "literal"
  /\ nodes' = Having(nodes, pos, Node("literal", NoNode, NoNode, <<>>))
  /\ Return(pos, pos + 1)
  /\ UNCHANGED <<tokens, calls, phase>>

(* Behind a name or call a dot is followed by the name of a member. *)
Follow(node, p) ==
  IF Tok(p) = "dot" THEN doing' = "member" /\ value' = node /\ pos' = p + 1
  ELSE Return(node, p)

AtName == (Doing("primary") \/ Doing("member")) /\ Tok(pos) = "id"

(* Fault: a member forgets what stands before its dot. *)
ParentLost == NoNode
Parent == IF doing = "member" THEN value ELSE NoNode

ParseName ==
  /\ AtName
  /\ Tok(pos + 1) # "lp"
  /\ nodes' = Having(nodes, pos, Node("name", Parent, NoNode, <<>>))
  /\ Follow(pos, pos + 1)
  /\ UNCHANGED <<tokens, calls, phase>>

(* parseCallExpression up to its argument list. *)
ParseCall ==
  /\ AtName
  /\ Tok(pos + 1) = "lp"
  /\ calls' = Append(calls, Frame("call", 0, pos, Parent))
  /\ pos' = pos + 2
  /\ doing' = "argument"
  /\ UNCHANGED <<tokens, value, nodes, phase>>

NamedHere == Tok(pos) = "id" /\ Tok(pos + 1) \in {"assign", "colon"}

(* Fault: an argument without name may follow one with a name. *)
ParseArgumentAnyOrder ==
  /\ Doing("argument")
  /\ Tok(pos) \notin {"rp", "eof"}
  /\ calls' = Append(Append(Below, [Top EXCEPT !.named = @ \/ NamedHere]), Frame("expr", 0, 0, NoNode))
  /\ pos' = IF NamedHere THEN pos + 2 ELSE pos
  /\ doing' = "primary"
  /\ UNCHANGED <<tokens, value, nodes, phase>>

ParseArgument ==
  /\ Doing("argument")
  /\ Tok(pos) \notin {"rp", "eof"}
  /\ NamedHere \/ ~Top.named
  /\ calls' = Append(Append(Below, [Top EXCEPT !.named = NamedHere]), Frame("expr", 0, 0, NoNode))
  /\ pos' = IF NamedHere THEN pos + 2 ELSE pos
  /\ doing' = "primary"
  /\ UNCHANGED <<tokens, value, nodes, phase>>

NextArgument ==
  /\ Doing("value") /\ InCall("call")
  /\ Tok(pos) = "comma"
  /\ calls' = Append(Below, [Top EXCEPT !.args = Append(@, value)])
  /\ pos' = pos + 1
  /\ doing' = "argument"
  /\ UNCHANGED <<tokens, value, nodes, phase>>

(* The list is over behind an argument, or at once, or behind a comma. *)
EndCall ==
  /\ (Doing("value") \/ Doing("argument")) /\ InCall("call")
  /\ Tok(pos) = "rp"
  /\ LET args == IF doing = "value" THEN Append(Top.args, value) ELSE Top.args
     IN nodes' = Having(nodes, Top.at, Node("call", Top.lhs, NoNode, args))
  /\ Follow(Top.at, pos + 1)
  /\ calls' = Below
  /\ UNCHANGED <<tokens, phase>>

ParseNot ==
  /\ Doing("primary")
  /\ Tok(pos) = "not"
  /\ calls' = Append(calls, Frame("not", 0, pos, NoNode))
  /\ pos' = pos + 1
  /\ UNCHANGED <<tokens, doing, value, nodes, phase>>

EndNot ==
  /\ Doing("value") /\ InCall("not")
  /\ nodes' = Having(nodes, Top.at, Node("not", NoNode, value, <<>>))
  /\ Return(Top.at, pos)
  /\ calls' = Below
  /\ UNCHANGED <<tokens, phase>>

(* parseParenExpression; empty parentheses are no node. *)
ParseParen ==
  /\ Doing("primary")
  /\ Tok(pos) = "lp" /\ Tok(pos + 1) # "rp"
  /\ calls' = calls \o <<Frame("paren", 0, 0, NoNode), Frame("expr", 0, 0, NoNode)>>
  /\ pos' = pos + 1
  /\ UNCHANGED <<tokens, doing, value, nodes, phase>>

ParseEmptyParen ==
  /\ Doing("primary")
  /\ Tok(pos) = "lp" /\ Tok(pos + 1) = "rp"
  /\ Return(NoNode, pos + 2)
  /\ UNCHANGED <<tokens, calls, nodes, phase>>

EndParen ==
  /\ Doing("value") /\ InCall("paren")
  /\ Tok(pos) = "rp"
  /\ pos' = pos + 1
  /\ calls' = Below
  /\ UNCHANGED <<tokens, doing, value, nodes, phase>>

(* parseExpression has its first primary and goes on with the chain of     *)
(* operators, unless there is no node.                                     *)
BeginChain ==
  /\ Doing("value") /\ InCall("expr")
  /\ calls' = IF value = NoNode THEN Below ELSE Append(Below, Frame("rhs", 0, 0, NoNode))
  /\ UNCHANGED <<tokens, pos, doing, value, nodes, phase>>

----------------------------------------------------------------------------
(* parseBinaryExpressionRHS. *)

(* Fault: a chain goes on with an operator of any precedence. *)
GoesOnAlways == IsOperator(pos)
GoesOn == IsOperator(pos) /\ Prec(pos) >= Top.min

TakeOperator ==
  /\ Doing("value") /\ InCall("rhs") /\ Top.at = NoNode
  /\ GoesOn
  /\ calls' = Append(Below, [Top EXCEPT !.at = pos, !.lhs = value])
  /\ pos' = pos + 1
  /\ doing' = "primary"
  /\ UNCHANGED <<tokens, value, nodes, phase>>

EndChain ==
  /\ Doing("value") /\ InCall("rhs") /\ Top.at = NoNode
  /\ ~GoesOn
  /\ calls' = Below
  /\ UNCHANGED <<tokens, pos, doing, value, nodes, phase>>

(* The operator behind the rhs binds stronger than the current one. *)
StrongerFollows == IsOperator(pos) /\ Prec(Top.at) < Prec(pos)

ParseStronger ==
  /\ Doing("value") /\ InCall("rhs") /\ Top.at # NoNode /\ ~Top.nested
  /\ StrongerFollows
  /\ calls' = Append(Append(Below, [Top EXCEPT !.nested = TRUE]),
                     Frame("rhs", Prec(Top.at) + 1, 0, NoNode))
  /\ UNCHANGED <<tokens, pos, doing, value, nodes, phase>>

(* Fault: the operator is merged again and again. *)
MergeSidesForever ==
  /\ Doing("value") /\ InCall("rhs") /\ Top.at # NoNode
  /\ Top.nested \/ ~StrongerFollows
  /\ nodes' = Having(nodes, Top.at, Node("binary", Top.lhs, value, <<>>))
  /\ value' = Top.at
  /\ UNCHANGED <<tokens, pos, calls, doing, phase>>

MergeSides ==
  /\ Doing("value") /\ InCall("rhs") /\ Top.at # NoNode
  /\ Top.nested \/ ~StrongerFollows
  /\ nodes' = Having(nodes, Top.at, Node("binary", Top.lhs, value, <<>>))
  /\ value' = Top.at
  /\ calls' = Append(Below, Frame("rhs", Top.min, 0, NoNode))
  /\ UNCHANGED <<tokens, pos, doing, phase>>

----------------------------------------------------------------------------
ParseExpression ==
  \/ ParseNumber \/ ParseLiteral
  \/ ParseName \/ ParseCall \/ ParseArgument \/ NextArgument \/ EndCall
  \/ ParseNot \/ EndNot \/ ParseParen \/ ParseEmptyParen \/ EndParen
  \/ BeginChain \/ TakeOperator \/ EndChain \/ ParseStronger \/ MergeSides

(* No expression goes on like this, nor with a number that is huge.        *)
(* Behind a dot the token after the next is looked at first, even behind   *)
(* the last one; whatever is there, a name is missing.                     *)
ExpressionIsWrong ==
  \/ Doing("primary") /\ Tok(pos) \notin {"id", "number", "literal", "not", "lp"}
                      /\ ~(Tok(pos) = "minus" /\ Tok(pos + 1) = "number")
  \/ Doing("member") /\ Tok(pos) # "id"
  \/ Doing("argument") /\ Tok(pos) = "eof"
  \/ Doing("argument") /\ Tok(pos) # "rp" /\ Top.named /\ ~NamedHere
  \/ Doing("value") /\ InCall("call") /\ Tok(pos) \notin {"comma", "rp"}
  \/ Doing("value") /\ InCall("paren") /\ Tok(pos) # "rp"

----------------------------------------------------------------------------
(* How many parentheses are open just before position p. *)
Depth(p) == Cardinality({i \in 1..(p - 1) : tokens[i] = "lp"})
              - Cardinality({i \in 1..(p - 1) : tokens[i] = "rp"})

(* q is the operator of a child of p that stands in the same parentheses.  *)
BareOperator(p, q) == q # NoNode /\ nodes[q].kind = "binary" /\ Depth(q) = Depth(p)

(* The tree is the one that the precedences mean: without parentheses the  *)
(* operator of a left operand binds at least as strong, that of a right    *)
(* operand stronger, and a negation has no bare operator below it.         *)
TreeFollowsPrecedence ==
  \A p \in DOMAIN nodes :
    /\ nodes[p].kind = "binary" =>
         /\ BareOperator(p, nodes[p].lhs) => Prec(nodes[p].lhs) >= Prec(p)
         /\ BareOperator(p, nodes[p].rhs) => Prec(nodes[p].rhs) > Prec(p)
    /\ nodes[p].kind = "not" => ~BareOperator(p, nodes[p].rhs)

(* Parentheses around nothing. *)
Hole(i, j) ==
  \E k \in 1..Len(tokens) :
    /\ j - i + 1 = 2 * k
    /\ \A p \in i..(i + k - 1) : Tok(p) = "lp" /\ Tok(p + k) = "rp"

(* A node lacks an operand, which the decorator would then look for,       *)
(* exactly where the source has nothing but empty parentheses for it: no   *)
(* other way through the parser loses one.  Of two operators next to the   *)
(* parentheses the stronger one is meant.                                  *)
Binds(p, q) == IsOperator(q) /\ Prec(p) < Prec(q)

HolesAreEmptyParens ==
  \A p \in DOMAIN nodes :
    /\ nodes[p].kind = "not" =>
         (nodes[p].rhs = NoNode <=> \E j \in p..Len(tokens) : Hole(p + 1, j))
    /\ nodes[p].kind = "binary" =>
         /\ nodes[p].rhs = NoNode <=> \E j \in p..Len(tokens) : Hole(p + 1, j) /\ ~Binds(p, j + 1)
         /\ nodes[p].lhs = NoNode <=>
              \E i \in 2..p : Hole(i, p - 1) /\ IsOperator(i - 1) /\ Binds(i - 1, p)

----------------------------------------------------------------------------
(* The expressions as a grammar: whether the tokens from i to j are one.   *)
(* A chain of operators does not begin with a hole, arguments with names   *)
(* come last, and a list of arguments may end in a comma.                  *)
Fits[part \in {"primary", "chain", "names", "link", "expr", "args", "named"}, i \in Nat, j \in Nat] ==
  LET Argument(from, rest) ==     \* an argument, and behind its comma the rest
        \/ Fits["expr", from, j]
        \/ \E k \in i..j : Tok(k) = "comma" /\ Fits["expr", from, k - 1] /\ Fits[rest, k + 1, j]
  IN
  \/ /\ part = "link" /\ Tok(i) = "id"
     /\ \/ i = j
        \/ i + 1 < j /\ Tok(i + 1) = "lp" /\ Tok(j) = "rp" /\ Fits["args", i + 2, j - 1]
  \/ /\ part = "names"
     /\ \/ Fits["link", i, j]
        \/ \E k \in i..j : Tok(k) = "dot" /\ Fits["link", i, k - 1] /\ Fits["names", k + 1, j]
  \/ /\ part = "primary"
     /\ \/ i = j /\ Tok(i) \in {"number", "literal"}
        \/ i + 1 = j /\ Tok(i) = "minus" /\ Tok(j) = "number"
        \/ Hole(i, j)
        \/ i < j /\ Tok(i) = "not" /\ Fits["primary", i + 1, j]
        \/ i + 1 < j /\ Tok(i) = "lp" /\ Tok(j) = "rp" /\ Fits["expr", i + 1, j - 1]
        \/ Fits["names", i, j]
  \/ /\ part = "chain"
     /\ \/ Fits["primary", i, j] /\ ~Hole(i, j)
        \/ \E k \in i..j : IsOperator(k) /\ Fits["primary", k + 1, j] /\ Fits["chain", i, k - 1]
  \/ part = "expr" /\ i <= j /\ (Hole(i, j) \/ Fits["chain", i, j])
  \/ part = "args" /\ (j < i \/ Argument(i, "args") \/ Fits["named", i, j])
  \/ part = "named" /\ (j < i \/ (Tok(i) = "id" /\ Tok(i + 1) \in {"assign", "colon"} /\ Argument(i + 2, "named")))
=============================================================================
