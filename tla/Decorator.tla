----------------------------- MODULE Decorator -----------------------------
(***************************************************************************)
(* AstDecorator::doFunctionDeclarationBody and the statement walk below    *)
(* it: names are linked to declarations through a stack of scopes, errors  *)
(* and warnings are collected, and a return analysis decides whether the   *)
(* function needs an implicit return.  Types are abstracted to "has one";  *)
(* isMutable is true for every declaration, so the error for assigning to  *)
(* an immutable variable cannot occur.                                     *)
(***************************************************************************)
EXTENDS StatementStream

CONSTANTS
  Bodies,      \* the function bodies considered, arguments first
  Names,       \* all names
  Globals,     \* those of global variables
  Functions    \* those of global functions or classes

ASSUME BodiesAreStreams == Bodies \subseteq Seq(StatementsOver(Names))
(* A declaration and an assignment have a name, and what has no expression *)
(* reads nothing.                                                          *)
ASSUME BodiesAreParsed ==
  \A b \in Bodies : \A p \in DOMAIN b :
    /\ b[p].op \in {"arg", "let", "assign"} => b[p].name \in Names
    /\ b[p].op \in {"arg", "block", "else", "end"} => b[p].reads = "none"
(* Every list that a statement opens is closed where it ends.              *)
ASSUME BodiesAreBalanced == \A b \in Bodies : Balanced(b)
ASSUME GlobalNames == /\ Globals \subseteq Names /\ Functions \subseteq Names
                      /\ Globals \cap Functions = {}
(* What an expression without a variable reads is not a name.              *)
ASSUME NamesAreWords == "none" \notin Names /\ "const" \notin Names

VARIABLES
  body,      \* the function's statements
  result,    \* its return type: "void" or "value"
  pc,        \* the next statement to decorate
  calls,     \* the active do...Statement calls, the function's body first
  scopes,    \* NamesStack: what each scope maps its names to
  links,     \* variableDeclaration of the names in statements done so far
  typed,     \* the declarations that were given a type
  errors,    \* the errors reported, with their statement
  warned,    \* the statements warned about
  phase      \* "decorating" or "done"

vars == <<body, result, pc, calls, scopes, links, typed, errors, warned, phase>>

NotAVariable == -2   \* the name of a function or class

(* A call of doCompoundStatement for a list: its hasReturn, and that of    *)
(* the ifBody while it walks the else list.                                *)
Call(kind, thenReturn) == [kind |-> kind, hasReturn |-> FALSE, thenReturn |-> thenReturn]

Top == calls[Len(calls)]
Below == SubSeq(calls, 1, Len(calls) - 1)
Scope == scopes[Len(scopes)]
OuterScopes == SubSeq(scopes, 1, Len(scopes) - 1)

EmptyScope == [n \in {} |-> 0]
GlobalScope ==
  [n \in Globals \cup Functions |-> IF n \in Globals THEN Global ELSE NotAVariable]

Init ==
  /\ body \in Bodies
  /\ result \in {"void", "value"}
  /\ pc = 1
  /\ calls = <<Call("body", FALSE)>>
  /\ scopes = <<GlobalScope, EmptyScope>>
  /\ links = [use \in {} |-> 0]
  /\ typed = {Global}
  /\ errors = {}
  /\ warned = {}
  /\ phase = "decorating"

----------------------------------------------------------------------------
At(ops) == phase = "decorating" /\ pc \in 1..Len(body) /\ body[pc].op \in ops

(* A map with the entries of another one for what it does not have. *)
With(old, new) == [x \in DOMAIN old \cup DOMAIN new |-> IF x \in DOMAIN old THEN old[x] ELSE new[x]]

(* NamesScope::addName keeps the first declaration of a name. *)
AddName(scope, name, decl) == With(scope, [n \in {name} |-> decl])

Having(name) == {i \in DOMAIN scopes : name \in DOMAIN scopes[i]}

(* Fault: the outermost scope is asked first. *)
FindNameOutermost(name) ==
  IF Having(name) = {} THEN Undeclared ELSE scopes[Min(Having(name))][name]

(* NamesStack::findName asks the innermost scope first. *)
FindName(name) ==
  IF Having(name) = {} THEN Undeclared ELSE scopes[Max(Having(name))][name]

IsName(n) == n \notin {"none", "const"}

(* Fault: an unknown name is not reported. *)
ExpressionErrorsUnknown(n) ==
  IF IsName(n) /\ FindName(n) = NotAVariable THEN {<<"not a variable", pc>>} ELSE {}

(* doVariableExpression: an unknown name or one of a function is reported; *)
(* a variable whose declaration got no type fails without a report.        *)
ExpressionErrors(n) ==
  IF ~IsName(n) THEN {}
  ELSE IF FindName(n) = Undeclared THEN {<<"not found", pc>>}
  ELSE IF FindName(n) = NotAVariable THEN {<<"not a variable", pc>>}
  ELSE {}

ExpressionOk(n) == IsName(n) => FindName(n) \in typed

LinksOf(n) == [use \in {u \in {<<pc, n>>} : IsName(n) /\ FindName(n) >= Global} |-> FindName(n)]

(* The loop of doCompoundStatement: a statement behind one that has        *)
(* returned is warned about, and decorated all the same.                   *)
WarnAfterReturn == warned' = IF Top.hasReturn THEN warned \cup {pc} ELSE warned

AfterStatement(stack, hasReturn) ==
  /\ calls' = [stack EXCEPT ![Len(stack)].hasReturn = @ \/ hasReturn]
  /\ pc' = pc + 1

(* Arguments enter the function's scope; a second one of the same name is  *)
(* dropped without a report.                                               *)
DoArgument ==
  /\ At({"arg"})
  /\ scopes' = Append(OuterScopes, AddName(Scope, body[pc].name, pc))
  /\ typed' = typed \cup {pc}
  /\ pc' = pc + 1
  /\ UNCHANGED <<body, result, calls, links, errors, warned, phase>>

(* Fault: only the names of globals are taken. *)
DuplicateErrorsGlobal(n) == IF n \in DOMAIN scopes[1] THEN {<<"already declared", pc>>} ELSE {}

(* addName's answer false: the scope on top has the name. *)
DuplicateErrors(n) == IF n \in DOMAIN Scope THEN {<<"already declared", pc>>} ELSE {}

(* doVariableDeclaration, then addName even if the initial value failed. *)
DoVariableDeclaration ==
  /\ At({"let"})
  /\ LET s == body[pc]
     IN /\ links' = With(links, LinksOf(s.reads))
        /\ typed' = IF ExpressionOk(s.reads) THEN typed \cup {pc} ELSE typed
        /\ errors' = errors \cup ExpressionErrors(s.reads)
                       \cup DuplicateErrors(s.name)
        /\ scopes' = Append(OuterScopes, AddName(Scope, s.name, pc))
  /\ WarnAfterReturn
  /\ AfterStatement(calls, FALSE)
  /\ UNCHANGED <<body, result, phase>>

(* doVariableAssignStatement looks at the value only if the target is ok. *)
DoVariableAssign ==
  /\ At({"assign"})
  /\ LET s == body[pc]
         targetOk == ExpressionOk(s.name)
     IN /\ links' = With(With(links, LinksOf(s.name)), IF targetOk THEN LinksOf(s.reads) ELSE <<>>)
        /\ errors' = errors \cup ExpressionErrors(s.name)
                       \cup (IF targetOk THEN ExpressionErrors(s.reads) ELSE {})
  /\ WarnAfterReturn
  /\ AfterStatement(calls, FALSE)
  /\ UNCHANGED <<body, result, scopes, typed, phase>>

DoExpression ==
  /\ At({"use"})
  /\ links' = With(links, LinksOf(body[pc].reads))
  /\ errors' = errors \cup ExpressionErrors(body[pc].reads)
  /\ WarnAfterReturn
  /\ AfterStatement(calls, FALSE)
  /\ UNCHANGED <<body, result, scopes, typed, phase>>

(* doReturnStatement compares the type unless the expression failed; the   *)
(* statement counts as a return either way.                                *)
DoReturn ==
  /\ At({"return"})
  /\ LET value == body[pc].reads
         given == IF value = "none" THEN "void" ELSE "value"
     IN /\ links' = With(links, LinksOf(value))
        /\ errors' = errors \cup ExpressionErrors(value)
             \cup (IF ExpressionOk(value) /\ given # result THEN {<<"return type", pc>>} ELSE {})
  /\ WarnAfterReturn
  /\ AfterStatement(calls, TRUE)
  /\ UNCHANGED <<body, result, scopes, typed, phase>>

OpenList(kind) ==
  /\ calls' = Append(calls, Call(kind, FALSE))
  /\ scopes' = Append(scopes, EmptyScope)
  /\ pc' = pc + 1
  /\ WarnAfterReturn

DoCompound ==
  /\ At({"block"})
  /\ OpenList("block")
  /\ UNCHANGED <<body, result, links, typed, errors, phase>>

(* doIfStatement and doWhileStatement: the condition, in the outer scope,  *)
(* then the list in a scope of its own.                                    *)
DoCondition ==
  /\ At({"if", "ifelse", "while"})
  /\ links' = With(links, LinksOf(body[pc].reads))
  /\ errors' = errors \cup ExpressionErrors(body[pc].reads)
  /\ OpenList(CASE body[pc].op = "if" -> "if" [] body[pc].op = "ifelse" -> "then"
                [] body[pc].op = "while" -> "loop")
  /\ UNCHANGED <<body, result, typed, phase>>

DoElse ==
  /\ At({"else"})
  /\ Top.kind = "then"
  /\ calls' = Append(Below, Call("else", Top.hasReturn))
  /\ scopes' = Append(OuterScopes, EmptyScope)
  /\ pc' = pc + 1
  /\ UNCHANGED <<body, result, links, typed, errors, warned, phase>>

(* Faults: a compound forgets its return; one list of an if is enough. *)
EndHasReturnNoBlock ==
  CASE Top.kind \in {"block", "loop"} -> FALSE
    [] Top.kind = "if" -> Top.hasReturn
    [] Top.kind = "else" -> Top.thenReturn /\ Top.hasReturn
EndHasReturnEither ==
  CASE Top.kind \in {"block", "if"} -> Top.hasReturn
    [] Top.kind = "else" -> Top.thenReturn \/ Top.hasReturn
    [] Top.kind = "loop" -> FALSE

(* removeNamesScope; a compound returns what its list does, and so does an *)
(* if without else; with else both lists have to return; a loop never      *)
(* counts.                                                                 *)
EndHasReturn ==
  CASE Top.kind \in {"block", "if"} -> Top.hasReturn
    [] Top.kind = "else" -> Top.thenReturn /\ Top.hasReturn
    [] Top.kind = "loop" -> FALSE

DoEnd ==
  /\ At({"end"})
  /\ Top.kind \in {"block", "if", "else", "loop"}
  /\ scopes' = OuterScopes
  /\ AfterStatement(Below, EndHasReturn)
  /\ UNCHANGED <<body, result, links, typed, errors, warned, phase>>

(* A void function that has not returned gets an implicit return at the    *)
(* end, any other one is reported.                                         *)
WithImplicitReturn ==
  IF ~Top.hasReturn /\ result = "void"
  THEN Append(body, Statement("return", "none", "none")) ELSE body

EndFunction ==
  /\ phase = "decorating" /\ pc = Len(body) + 1
  /\ Top.kind = "body"
  /\ body' = WithImplicitReturn
  /\ errors' = IF ~Top.hasReturn /\ result # "void"
               THEN errors \cup {<<"no return at the end", pc>>} ELSE errors
  /\ scopes' = OuterScopes
  /\ phase' = "done"
  /\ UNCHANGED <<result, pc, calls, links, typed, warned>>

Next ==
  \/ DoArgument \/ DoVariableDeclaration \/ DoVariableAssign \/ DoExpression \/ DoReturn
  \/ DoCompound \/ DoCondition \/ DoElse \/ DoEnd \/ EndFunction

Spec == Init /\ [][Next]_vars

----------------------------------------------------------------------------
Accepted == phase = "done" /\ errors = {}

(* The body as it was written, without the implicit return. *)
Written == SubSeq(body, 1, pc - 1)

TypeOK ==
  /\ body \in Seq(StatementsOver(Names))
  /\ result \in {"void", "value"}
  /\ pc \in 1..(Len(body) + 1)
  /\ \A i \in DOMAIN scopes : DOMAIN scopes[i] \subseteq Names
  /\ DOMAIN links \subseteq (1..Len(body)) \X Names
  /\ typed \subseteq 0..Len(body)
  /\ warned \subseteq 1..Len(body)
  /\ phase \in {"decorating", "done"}

(* The stack of scopes computes lexical scoping: every link made is the    *)
(* declaration the name denotes by position alone, through shadowing,      *)
(* lists that have ended, and declarations that were refused.              *)
LinksAreLexical ==
  \A u \in DOMAIN links : links[u] = DeclOf(body, u[1], u[2], Globals)

(* An accepted body leaves nothing for the back ends to guess: every name  *)
(* used is linked to a declaration with a type.  Since an untyped variable *)
(* fails silently, this rests on an error having been reported before.     *)
AcceptedIsLinked ==
  Accepted => \A p \in 1..Len(body) : \A n \in UsedNames(body, p) :
                <<p, n>> \in DOMAIN links /\ links[<<p, n>>] \in typed

(* An accepted body declares no local twice in one list, nor one with the  *)
(* name of an argument in the function's own list.                         *)
AcceptedHasNoDuplicates ==
  Accepted => \A p \in 1..Len(body), q \in 1..Len(body) :
     /\ p < q /\ body[q].op = "let" /\ DeclaresName(body, p, body[q].name)
     /\ Depth(body, p) = Depth(body, q)
     => ListEnd(body, p) < q

(* Names are linked to what they denote, and in the end all of them, and   *)
(* to one declaration only.                                                *)
DecoratorInv == TypeOK /\ LinksAreLexical /\ AcceptedIsLinked /\ AcceptedHasNoDuplicates

(* The return analysis rejects no function for a missing return, and adds  *)
(* no implicit one, unless some path really reaches the closing brace; it  *)
(* is exact for bodies in which every if has an else.                      *)
ReturnAnalysisErrsOneWay ==
  phase = "done" =>
    LET open == Len(Written) + 1 \in Reachable(Written)
    IN /\ ~Top.hasReturn => open
       /\ (\A p \in 1..Len(Written) : Written[p].op # "if") => (Top.hasReturn <=> ~open)

(* Every statement that no path reaches lies in or behind a statement of   *)
(* its list that was warned about.                                         *)
DeadCodeIsWarned ==
  phase = "done" =>
    \A p \in 1..Len(Written) :
      \/ Written[p].op \in {"arg", "block", "else", "end"}
      \/ p \in Reachable(Written)
      \/ \E w \in warned : w <= p /\ ListEnd(Written, w) >= p

----------------------------------------------------------------------------
(* "a non void function has to return something at the end": said of every *)
(* accepted one.                                                           *)
AcceptedValueFunctionReturns ==
  Accepted /\ result = "value" => Len(body) + 1 \notin Reachable(body)
=============================================================================
