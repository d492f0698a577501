---------------------------- MODULE Expressions ----------------------------
(***************************************************************************)
(* AstDecorator::doExpression and the functions it calls: an expression is *)
(* walked down its nodes, which get their types and declarations, plain    *)
(* names of members are replaced by member expressions, and the arguments  *)
(* of calls are moved into the order of the parameters.  Nodes are found   *)
(* through the pointers that own them, as in the code: holds says which    *)
(* node a pointer owns, a node's self where its own pointer is.            *)
(*                                                                         *)
(* The second parameter of the functions, isolated, is left out: what is   *)
(* decorated with it was required to be a constant before.                 *)
(***************************************************************************)
EXTENDS ExpressionTrees

CONSTANTS
  Cases,    \* expressions, and the scopes open around each, the innermost last
  Classes,  \* what each class declares: variables and functions
  NoType, NoDefault, NoClass, Bad

VARIABLES
  place, tree,
  judged,    \* what the rules of the language say of tree: only for the properties
  nodes,     \* the nodes made so far
  holds,     \* the node each pointer owns, 0 if it is null
  frames,    \* the activations of doExpression
  answer,    \* what the last activation to end returned
  reported,  \* an error was reported
  phase

(* The parser makes a tree, each node with the children its kind has.      *)
IsTree(t) ==
  /\ t # <<>> /\ t \in Seq(Range(t))
  /\ \A i \in DOMAIN t :
       /\ t[i].kids \in Seq((i + 1)..Len(t)) /\ t[i].names \in Seq(STRING)
       /\ t[i].kind = "binary" => Len(t[i].kids) = 2
       /\ t[i].kind \in {"not", "member"} => Len(t[i].kids) = 1
       /\ t[i].kind = "call" => Len(t[i].names) <= Len(t[i].kids)
       /\ t[i].kind = "membercall" => Len(t[i].names) < Len(t[i].kids)
  /\ \A i, j \in DOMAIN t : \A k \in DOMAIN t[i].kids, l \in DOMAIN t[j].kids :
       t[i].kids[k] = t[j].kids[l] => i = j /\ k = l

(* A declaration; of is the class it is a member of, params and type are   *)
(* those of the constructor for a class.                                   *)
Declaration(is, of, name, type, params) ==
  [is |-> is, of |-> of, name |-> name, type |-> type, params |-> params]
Nobody == Declaration("nothing", NoClass, "", NoType, <<>>)
This(class) == Declaration("variable", NoClass, "this", class, <<>>)

(* A scope, or a part of a class: each name declares something, whose      *)
(* parameters are a list.                                                  *)
IsScope(scope) ==
  \A n \in DOMAIN scope : scope[n] # Nobody /\ scope[n].params \in Seq(Range(scope[n].params))

ASSUME CasesAreTrees ==
  \A c \in Cases : /\ IsTree(c.tree)
                   /\ c.place \in Seq(Range(c.place))
                   /\ \A s \in DOMAIN c.place : IsScope(c.place[s])
ASSUME ClassesAreScopes ==
  \A c \in DOMAIN Classes : IsScope(Classes[c].variables) /\ IsScope(Classes[c].functions)

inputs == <<place, tree, judged>>
vars == <<inputs, nodes, holds, frames, answer, reported, phase>>

(* NamesStack::findName. *)
FindName(name) ==
  LET having == {s \in DOMAIN place : name \in DOMAIN place[s]}
  IN IF having = {} THEN Nobody ELSE place[Max(having)][name]

FindMember(class, part, name) ==
  IF name \in DOMAIN Classes[class][part] THEN Classes[class][part][name] ELSE Nobody

(* BinaryOpSupportedTypes.h. *)
ResultType(op, type) ==
  CASE op \in {"<", ">", "==", "!=", "<=", ">="} /\ type \in {"i32", "f32"} -> "bool"
    [] op \in {"+", "-", "*", "/"} /\ type \in {"i32", "f32"} -> type
    [] op \in {"&&", "||"} /\ type = "bool" -> "bool"
    [] OTHER -> NoType

Kid(i, k) == <<i, "kid", k>>   \* the pointers of a node as the parser made it
Variable(name) == LET d == FindName(name) IN IF d.is = "variable" THEN d ELSE Nobody

IsCall(node) == node.kind \in {"call", "membercall"}

(* The places of the arguments among the children of call i. *)
FirstArgument(i) == IF tree[i].kind = "membercall" THEN 2 ELSE 1
NamedFrom(i) == Len(tree[i].kids) - Len(tree[i].names) + 1
Positional(i) == 1..(NamedFrom(i) - FirstArgument(i))
PositionalAt(i, k) == Kid(i, FirstArgument(i) + k - 1)
NamedAt(i, k) == Kid(i, NamedFrom(i) + k - 1)

(* The judgement of the language on each node of the tree as it was        *)
(* parsed: the type it has, if any, and whether it is free of errors.      *)
Signature(d) ==
  [params |-> [j \in DOMAIN d.params |->
                 [name |-> d.params[j].name, type |-> d.params[j].type,
                  default |-> d.params[j].default # NoDefault]],
   result |-> d.type]

R == INSTANCE CallRules

Typing ==
  LET judge[i \in DOMAIN tree] ==
        LET n == tree[i]
            kid(k) == judge[n.kids[k]]
            has(k) == IF kid(k).type = NoType THEN Bad ELSE kid(k).type
            own(part) == IF has(1) \in DOMAIN Classes THEN FindMember(has(1), part, n.what) ELSE Nobody
            callee == IF n.kind = "membercall" THEN own("functions") ELSE FindName(n.what)
            arguments == [positional |-> [k \in Positional(i) |-> has(FirstArgument(i) + k - 1)],
                          named |-> [k \in DOMAIN n.names |->
                                       [name |-> n.names[k], type |-> has(NamedFrom(i) + k - 1)]]]
            type ==
              CASE n.kind = "const" -> n.what
                [] n.kind = "not" -> IF kid(1).type = NoType THEN NoType ELSE "bool"
                [] n.kind = "binary" ->
                     IF has(1) = has(2) THEN ResultType(n.what, has(1)) ELSE NoType
                [] n.kind = "var" -> Variable(n.what).type
                [] n.kind = "member" -> own("variables").type
                [] IsCall(n) -> IF callee.is # "variable" /\ callee # Nobody /\ R!FitsCall(Signature(callee), arguments)
                                THEN callee.type ELSE NoType
                [] OTHER -> NoType
        IN [type |-> type, callee |-> callee, arguments |-> arguments,
            fine |-> type # NoType /\ (n.kind = "not" => has(1) = "bool")
                       /\ \A k \in DOMAIN n.kids : kid(k).fine]
  IN judge

----------------------------------------------------------------------------
Arg(i, j) == <<i, "arg", j>>   \* callArgs, which become the arguments of call i
Root == Kid(0, 1)
NoSelf == Kid(0, 0)

KidsOf(t) == {Root} \cup UNION {{Kid(i, k) : k \in DOMAIN t[i].kids} : i \in DOMAIN t}
Held(t, s) == IF s = Root THEN 1 ELSE t[s[1]].kids[s[3]]
SelfIn(t, i) == CHOOSE s \in KidsOf(t) : Held(t, s) = i

(* Pointer s owns node n. *)
Owning(h, s, n) == [t \in DOMAIN h \cup {s} |-> IF t = s THEN n ELSE h[t]]

NewNode(kind, what, type, link, self) ==
  [kind |-> kind, what |-> what, type |-> type, link |-> link, self |-> self]

(* An activation: the pointer it was given, what it did of its work.       *)
Frame(i) == [node |-> i, at |-> "operands", index |-> 1, ok |-> TRUE, callee |-> Nobody]

Init ==
  /\ \E c \in Cases : place = c.place /\ tree = c.tree
  /\ judged = Typing
  /\ nodes = [i \in DOMAIN tree |->
                NewNode(tree[i].kind, tree[i].what, NoType, Nobody, SelfIn(tree, i))]
  /\ holds = [s \in KidsOf(tree) |-> Held(tree, s)]
  /\ frames = <<Frame(1)>>
  /\ answer = "none"
  /\ reported = FALSE
  /\ phase = "decorating"

top == Last(frames)
ThisNode == nodes[top.node]
TypeAt(s) == nodes[holds[s]].type

Enter(s, resume) ==
  /\ frames' = Append(Append(Front(frames), resume), Frame(holds[s]))
  /\ answer' = "none"
  /\ UNCHANGED <<inputs, nodes, holds, reported, phase>>

GoOn(resume) == frames' = Append(Front(frames), resume) /\ answer' = "none" /\ UNCHANGED phase

(* The activation ends; the last one is kept to be looked at. *)
Return(good) ==
  /\ answer' = IF good THEN "good" ELSE "bad"
  /\ IF Len(frames) = 1 THEN phase' = "done" /\ UNCHANGED frames
                        ELSE frames' = Front(frames) /\ UNCHANGED phase

Keep == UNCHANGED <<inputs, holds>>

Type(i, type, link) == nodes' = [nodes EXCEPT ![i].type = type, ![i].link = link]

Good(type, link) == Type(top.node, type, link) /\ Return(TRUE)
Refuse(report) == Return(FALSE) /\ reported' = (reported \/ report) /\ UNCHANGED nodes

Crash ==
  /\ phase' = "crashed"
  /\ UNCHANGED <<inputs, nodes, holds, frames, answer, reported>>

----------------------------------------------------------------------------
(* The operands come first: of a negation, of a binary expression, and the *)
(* object in front of a member.  Both operands of a binary expression are  *)
(* decorated, also if the first is refused.                                *)
Operands == CASE ThisNode.kind = "binary" -> 2
              [] ThisNode.kind \in {"not", "member", "membercall"} -> 1
              [] OTHER -> 0

Running(at) == phase = "decorating" /\ top.at = at

DoOperand ==
  /\ Running("operands") /\ answer = "none" /\ top.index <= Operands
  /\ Enter(Kid(top.node, top.index), top)

TakeOperand ==
  /\ Running("operands") /\ answer # "none"
  /\ GoOn([top EXCEPT !.index = @ + 1, !.ok = @ /\ answer = "good"])
  /\ Keep /\ UNCHANGED <<nodes, reported>>

OperandsDone == Running("operands") /\ answer = "none" /\ top.index > Operands

RefusedOperand ==
  /\ OperandsDone /\ ~top.ok
  /\ Keep /\ Refuse(FALSE)

Ready(kind) == OperandsDone /\ top.ok /\ ThisNode.kind = kind

DoConst == Ready("const") /\ Keep /\ Good(ThisNode.what, Nobody) /\ UNCHANGED reported

(* The location of a node that is not there is asked for. *)
DoHole == Ready("hole") /\ Crash

(* doUnaryExpression: an operand of another type is reported, and yet the  *)
(* expression counts as decorated.                                         *)
DoNot ==
  /\ Ready("not") /\ Keep
  /\ reported' = (reported \/ TypeAt(Kid(top.node, 1)) # "bool")
  /\ Good("bool", Nobody)

(* Fault: the types of the nodes there were before are read. *)
LeftTypeBefore == nodes[tree[top.node].kids[1]].type

LeftType == TypeAt(Kid(top.node, 1))

DoBinary ==
  /\ Ready("binary") /\ Keep
  /\ LET result == ResultType(ThisNode.what, LeftType) IN
     IF LeftType = TypeAt(Kid(top.node, 2)) /\ result # NoType
     THEN Good(result, Nobody) /\ UNCHANGED reported
     ELSE Refuse(TRUE)

(* A member of an object; a member whose own type was not found has none   *)
(* to clone.                                                               *)
DoMember ==
  /\ Ready("member")
  /\ LET class == TypeAt(Kid(top.node, 1))
         found == class \in DOMAIN Classes /\ ThisNode.what \in DOMAIN Classes[class].variables
         member == Classes[class].variables[ThisNode.what]
     IN IF ~found THEN Keep /\ Refuse(TRUE)
        ELSE IF member.type = NoType THEN Crash
        ELSE Keep /\ Good(member.type, member) /\ UNCHANGED reported

(* Fault: refused without a word. *)
DoUnknownNameQuietly ==
  /\ Ready("var") /\ Variable(ThisNode.what) = Nobody
  /\ Keep /\ Refuse(FALSE)

DoUnknownName ==
  /\ Ready("var") /\ Variable(ThisNode.what) = Nobody
  /\ Keep /\ Refuse(TRUE)

DoName ==
  /\ Ready("var")
  /\ LET d == Variable(ThisNode.what) IN
     /\ d # Nobody /\ d.of = NoClass
     /\ Type(top.node, d.type, d) /\ Return(d.type # NoType)
  /\ Keep /\ UNCHANGED reported

(* Fault: the new node is not told where the pointer to it is. *)
ReplaceUntold(i, d) ==
  LET self == nodes[i].self
      member == Len(nodes) + 1
      this == Len(nodes) + 2
  IN /\ nodes' = nodes \o << NewNode("member", nodes[i].what, d.type, d, NoSelf),
                             NewNode("var", "this", d.of, This(d.of), NoSelf) >>
     /\ holds' = Owning(Owning(holds, self, member), Kid(member, 1), this)

(* Replacable::replaceNode: the pointer that owns node i gets a member     *)
(* expression of this instead.                                             *)
Replace(i, d) ==
  LET self == nodes[i].self
      member == Len(nodes) + 1
      this == Len(nodes) + 2
  IN /\ nodes' = nodes \o << NewNode("member", nodes[i].what, d.type, d, self),
                             NewNode("var", "this", d.of, This(d.of), NoSelf) >>
     /\ holds' = Owning(Owning(holds, self, member), Kid(member, 1), this)

(* Fault: it is left as it is. *)
DoOwnMemberAsName ==
  /\ Ready("var")
  /\ LET d == Variable(ThisNode.what) IN
     /\ d.of # NoClass
     /\ Type(top.node, d.type, d) /\ Return(d.type # NoType)
  /\ Keep /\ UNCHANGED reported

DoOwnMember ==
  /\ Ready("var")
  /\ LET d == Variable(ThisNode.what) IN
     /\ d.of # NoClass
     /\ Replace(top.node, d) /\ Return(d.type # NoType)
  /\ UNCHANGED <<inputs, reported>>

----------------------------------------------------------------------------
(* resolveFunctionDeclOfCall: a method, a function, or the constructor of  *)
(* a class.                                                                *)
Callee ==
  IF ThisNode.kind = "membercall"
  THEN LET class == TypeAt(Kid(top.node, 1)) IN
       IF class \in DOMAIN Classes THEN FindMember(class, "functions", ThisNode.what) ELSE Nobody
  ELSE LET d == FindName(ThisNode.what) IN IF d.is = "variable" THEN Nobody ELSE d

Resolve ==
  /\ OperandsDone /\ top.ok /\ IsCall(ThisNode)
  /\ IF Callee = Nobody THEN Keep /\ Refuse(TRUE)
     ELSE /\ GoOn([top EXCEPT !.at = "positional", !.index = 1, !.callee = Callee])
          /\ LET callArgs == {Arg(top.node, j) : j \in DOMAIN Callee.params} IN
             holds' = [s \in DOMAIN holds \cup callArgs |-> IF s \in callArgs THEN 0 ELSE holds[s]]
          /\ UNCHANGED <<inputs, nodes, reported>>

Params == top.callee.params

(* The argument being looked at, if there is a parameter to bind it to:    *)
(* where it is, and the parameters it may go to.                           *)
Given(at) == IF at = "positional" THEN PositionalAt(top.node, top.index)
                                  ELSE NamedAt(top.node, top.index)

HasName(j) == Params[j].name = tree[top.node].names[top.index]

(* Fault: a parameter is taken twice. *)
TakersAgain(at) ==
  IF at = "positional" THEN {top.index} \cap DOMAIN Params \cap Positional(top.node)
  ELSE {j \in DOMAIN Params : /\ top.index \in DOMAIN tree[top.node].names
                              /\ HasName(j) /\ \A i \in 1..(j - 1) : ~HasName(i)}

Takers(at) ==
  IF at = "positional" THEN {top.index} \cap DOMAIN Params \cap Positional(top.node)
  ELSE {j \in DOMAIN Params : /\ top.index \in DOMAIN tree[top.node].names
                              /\ HasName(j) /\ \A i \in 1..(j - 1) : ~HasName(i)
                              /\ holds[Arg(top.node, j)] = 0}

DoArgument ==
  \E at \in {"positional", "named"} :
    /\ Running(at) /\ answer = "none" /\ Takers(at) # {}
    /\ Enter(Given(at), top)

(* The type the argument turned out to have is that of parameter j. *)
Matches(at, j) == answer = "good" /\ TypeAt(Given(at)) = Params[j].type

(* Fault: only the last argument decides. *)
BindForgetting ==
  \E at \in {"positional", "named"} :
    /\ Running(at) /\ answer # "none"
    /\ \E j \in Takers(at) :
         /\ answer = "good" => Params[j].type # NoType
         /\ holds' = [holds EXCEPT ![Arg(top.node, j)] = holds[Given(at)], ![Given(at)] = 0]
         /\ GoOn([top EXCEPT !.index = @ + 1, !.ok = Matches(at, j)])
    /\ UNCHANGED <<inputs, nodes>>
    /\ \E j \in Takers(at) : reported' = (reported \/ (answer = "good" /\ ~Matches(at, j)))

(* The argument is moved: its pointer becomes null. *)
Bind ==
  \E at \in {"positional", "named"} :
    /\ Running(at) /\ answer # "none"
    /\ \E j \in Takers(at) :
         /\ answer = "good" => Params[j].type # NoType
         /\ holds' = [holds EXCEPT ![Arg(top.node, j)] = holds[Given(at)], ![Given(at)] = 0]
         /\ GoOn([top EXCEPT !.index = @ + 1, !.ok = @ /\ Matches(at, j)])
    /\ UNCHANGED <<inputs, nodes>>
    /\ \E j \in Takers(at) : reported' = (reported \/ (answer = "good" /\ ~Matches(at, j)))

(* The message takes the text of the parameter's type, and the name of the *)
(* argument, whether or not there is one.                                  *)
CrashInMessage ==
  \E at \in {"positional", "named"} :
    /\ Running(at) /\ answer = "good"
    /\ \E j \in Takers(at) : ~Matches(at, j) /\ (at = "positional" \/ Params[j].type = NoType)
    /\ Crash

(* There are more arguments than parameters, or none are left. *)
EndPositional ==
  /\ Running("positional") /\ answer = "none" /\ Takers("positional") = {}
  /\ LET tooMany == top.index \in Positional(top.node) IN
     /\ GoOn([top EXCEPT !.at = "named", !.index = 1, !.ok = @ /\ ~tooMany])
     /\ reported' = (reported \/ tooMany)
  /\ Keep /\ UNCHANGED nodes

(* There is no such parameter, or it was bound before. *)
RefuseNamed ==
  /\ Running("named") /\ answer = "none"
  /\ top.index \in DOMAIN tree[top.node].names /\ Takers("named") = {}
  /\ GoOn([top EXCEPT !.index = @ + 1, !.ok = FALSE])
  /\ reported' = TRUE
  /\ Keep /\ UNCHANGED nodes

EndNamed ==
  /\ Running("named") /\ answer = "none" /\ top.index \notin DOMAIN tree[top.node].names
  /\ GoOn([top EXCEPT !.at = "defaults", !.index = 1])
  /\ Keep /\ UNCHANGED <<nodes, reported>>

(* Clones of the default values go to the parameters still unset, without  *)
(* a look at their types; all that was given and not moved is deleted.     *)
Unset == {j \in DOMAIN Params : holds[Arg(top.node, j)] = 0}
Filled == {j \in Unset : Params[j].default # NoDefault}
RankIn(S, j) == Cardinality({k \in S : k <= j})   \* clones are made in order

FillDefaults ==
  LET i == top.node
      given == {PositionalAt(i, k) : k \in Positional(i)}
                 \cup {NamedAt(i, k) : k \in DOMAIN tree[i].names}
      clone(n) == LET default == Params[CHOOSE j \in Filled : RankIn(Filled, j) = n].default
                  IN NewNode("const", default, default, Nobody, NoSelf)
  IN /\ Running("defaults") /\ answer = "none"
     /\ nodes' = nodes \o [n \in 1..Cardinality(Filled) |-> clone(n)]
     /\ holds' = [s \in DOMAIN holds |->
                    IF s \in given THEN 0
                    ELSE IF s \in {Arg(i, j) : j \in Filled} THEN Len(nodes) + RankIn(Filled, s[3])
                    ELSE holds[s]]
     /\ GoOn([top EXCEPT !.at = "bound", !.ok = @ /\ Filled = Unset])
     /\ reported' = (reported \/ Filled # Unset)
     /\ UNCHANGED <<inputs>>

(* Only now is it asked whether the type of the result is known. *)
EndCall ==
  /\ Running("bound")
  /\ Keep /\ UNCHANGED reported
  /\ IF top.ok /\ top.callee.type # NoType
     THEN Good(top.callee.type, top.callee)
     ELSE Return(FALSE) /\ UNCHANGED nodes

Next ==
  \/ DoOperand \/ TakeOperand \/ RefusedOperand
  \/ DoConst \/ DoHole \/ DoNot \/ DoBinary \/ DoMember
  \/ DoUnknownName \/ DoName \/ DoOwnMember
  \/ Resolve \/ DoArgument \/ Bind \/ CrashInMessage \/ EndPositional
  \/ RefuseNamed \/ EndNamed \/ FillDefaults \/ EndCall

Spec == Init /\ [][Next]_vars

----------------------------------------------------------------------------
Done == phase = "done"
Accepted == Done /\ answer = "good" /\ ~reported

(* The walk over the nodes, with its early returns, accepts exactly the    *)
(* expressions the rules of the language give a type without an error, and *)
(* the type it leaves at the pointer to the root is the one they give.     *)
TypesAreJudged ==
  Done => /\ Accepted <=> judged[1].fine
          /\ answer = "good" => TypeAt(Root) = judged[1].type

(* The declarations a tree could mean, by name. *)
Mentioned ==
  LET parts == {"variables", "functions"} IN
  UNION {{FindName(tree[i].what)}
           \cup {FindMember(c, p, tree[i].what) : c \in DOMAIN Classes, p \in parts} : i \in DOMAIN tree}

MentionsUntyped ==
  \E d \in Mentioned \ {Nobody} :
    d.type = NoType \/ \E j \in DOMAIN d.params : d.params[j].type = NoType

(* The compiler refuses nothing without a report: not here only if some    *)
(* declaration has no type, which was reported there.  It dies only of     *)
(* those, of empty parentheses, and of the message about an argument       *)
(* without name.                                                           *)
FailuresAreExplained ==
  /\ Done /\ answer = "bad" => reported \/ MentionsUntyped
  /\ phase = "crashed" =>
       \/ MentionsUntyped
       \/ \E i \in DOMAIN tree : tree[i].kind = "hole"
       \/ top.at = "positional" /\ TypeAt(Given("positional")) # Params[top.index].type

(* No node has two owners.  A pointer the walk may still come by owns a    *)
(* node that knows where its pointer is, so replacing the node reaches it; *)
(* and no activation works on a node that was replaced.                    *)
NodesHaveOneOwner ==
  /\ \A s, t \in DOMAIN holds : holds[s] = holds[t] /\ holds[s] # 0 => s = t
  /\ \A s \in DOMAIN holds :
       s[2] = "kid" /\ s[1] \in {0} \cup DOMAIN tree /\ holds[s] # 0 => nodes[holds[s]].self = s
  /\ phase = "decorating" => \A k \in DOMAIN frames : \E s \in DOMAIN holds : holds[s] = frames[k].node

----------------------------------------------------------------------------
(* The call at the root seen as CallArgs sees it, once it is resolved: the *)
(* arguments are their types, and only the way they are brought in order   *)
(* is left.                                                                *)
Called == frames[1].callee
Meant == IF IsCall(tree[1]) THEN Signature(judged[1].callee) ELSE Signature(Nobody)
Binds == IsCall(tree[1]) /\ Called # Nobody

SourceOf(s) ==
  IF holds[s] = 0 THEN <<"unset", 0>>
  ELSE LET self == nodes[holds[s]].self IN
       IF self = NoSelf THEN <<"default", 0>>
       ELSE IF self[3] >= NamedFrom(1) THEN <<"named", self[3] - NamedFrom(1) + 1>>
       ELSE <<"positional", self[3] - FirstArgument(1) + 1>>

(* The types of the arguments are asked for where the call is on its way;  *)
(* before, there is none.                                                  *)
AbstractPhase ==
  CASE ~Binds -> "positional"
    [] phase = "done" -> IF answer = "good" THEN "accepted" ELSE "refused"
    [] phase = "crashed" /\ Len(frames) = 1 -> "crashed"
    [] OTHER -> frames[1].at

C == INSTANCE CallArgs WITH
       Functions <- [params : Seq([name : STRING, type : STRING, default : BOOLEAN]), result : STRING],
       CallsMade <- [positional : Seq(STRING), named : Seq([name : STRING, type : STRING])],
       func <- Meant,
       call <- IF IsCall(tree[1]) THEN judged[1].arguments
               ELSE [positional |-> <<>>, named |-> <<>>],
       index <- IF Binds /\ frames[1].at \in {"positional", "named"} THEN frames[1].index ELSE 1,
       slots <- IF Binds THEN [j \in DOMAIN Called.params |-> SourceOf(Arg(1, j))]
                ELSE [j \in DOMAIN Meant.params |-> <<"unset", 0>>],
       ok <- ~Binds \/ frames[1].ok,
       phase <- AbstractPhase

(* Moving the arguments of a call, with their walks in between, does what  *)
(* the three passes of CallArgs do.                                        *)
BindsLikeCallArgs == C!Spec

(* Every argument of an accepted call ends at the parameter it is for. *)
ArgumentsReachTheirParameters == Binds => C!ArgumentsReachTheirParameters
=============================================================================
