-------------------------- MODULE StatementStream --------------------------
(***************************************************************************)
(* The body of a malin function as the linear stream of statements that    *)
(* the passes over the AST walk in order.  A compound statement, an if and *)
(* a while open a nested list that "end" closes; "else" separates the two  *)
(* lists of an if.  Expressions are abstracted to the one variable they    *)
(* read.  The module has no state: the passes share these operators.       *)
(***************************************************************************)
EXTENDS Integers, Sequences, FiniteSets, SequencesExt

(* A statement: what it is, the name it declares or assigns, and what its *)
(* expression reads: a name, a constant ("const"), or no expression.      *)
Statement(op, name, reads) == [op |-> op, name |-> name, reads |-> reads]

ElseMark == Statement("else", "none", "none")
EndMark  == Statement("end", "none", "none")

Openers == {"block", "if", "ifelse", "while"}
Ops == {"arg", "let", "assign", "use", "return", "else", "end"} \cup Openers

(* All statements over a set of names. *)
StatementsOver(names) ==
  [op : Ops, name : names \cup {"none"}, reads : names \cup {"none", "const"}]

----------------------------------------------------------------------------
(* Parser::parseStatement, parseCompoundStatement, parseIfStatement and    *)
(* parseWhileStatement as a grammar.  With lists[j + 1] the statement lists *)
(* of j symbols, the single statements of k symbols are:                   *)
SingleStatements(simple, openers, lists, k) ==
  IF k = 1 THEN {<<s>> : s \in simple}
  ELSE { <<o>> \o list \o <<EndMark>> :
           o \in {x \in openers : x.op # "ifelse"}, list \in lists[k - 1] }
       \cup UNION { { <<o>> \o then \o <<ElseMark>> \o else \o <<EndMark>> :
                        o \in {x \in openers : x.op = "ifelse"},
                        then \in lists[m + 1], else \in lists[k - 2 - m] } : m \in 0..(k - 3) }

(* The statement lists of up to n symbols, by length, built from the given *)
(* simple statements and openers.                                          *)
ListsByLength(simple, openers, n) ==
  LET AddLength(lists, k) ==
        Append(lists, UNION { { first \o rest :
                                  first \in SingleStatements(simple, openers, lists, j),
                                  rest \in lists[k - j + 1] } : j \in 1..k })
  IN FoldLeft(AddLength, << {<<>>} >>, [k \in 1..n |-> k])

(* The lists with at most n symbols. *)
ListsUpTo(simple, openers, n) ==
  UNION Range(ListsByLength(simple, openers, n))

----------------------------------------------------------------------------
(* How many nested lists are open just before position p. *)
Depth(body, p) ==
  Cardinality({i \in 1..(p - 1) : body[i].op \in Openers})
    - Cardinality({i \in 1..(p - 1) : body[i].op = "end"})

(* The position of the mark that closes the list position p lies in; the   *)
(* function's own list is closed by the end of the stream.                 *)
ListEnd(body, p) ==
  Min({ j \in p..Len(body) : /\ body[j].op \in {"else", "end"}
                             /\ Depth(body, j) = Depth(body, p) } \cup {Len(body) + 1})

(* The statement that an "else" or "end" at p belongs to. *)
OpenerOf(body, p) ==
  Max({ i \in 1..(p - 1) : /\ body[i].op \in Openers
                           /\ Depth(body, i) = Depth(body, p) - 1 })

(* The "end" of the if whose "else" is at p. *)
ElseEnd(body, p) == ListEnd(body, p + 1)

(* Every list that is opened is closed, by the mark that its statement has. *)
Balanced(body) ==
  /\ ListEnd(body, 1) = Len(body) + 1
  /\ \A p \in DOMAIN body : body[p].op \in Openers \cup {"else"} =>
       LET e == ListEnd(body, p + 1)
       IN e \in DOMAIN body /\ body[e].op = IF body[p].op = "ifelse" THEN "else" ELSE "end"

----------------------------------------------------------------------------
(* Lexical scoping, as a definition over positions: the declaration that a *)
(* name at p denotes is the first one of that name, before p, in the       *)
(* innermost list that has one and still is open at p.                     *)
DeclaresName(body, i, n) == body[i].op \in {"arg", "let"} /\ body[i].name = n

InScope(body, p, n) ==
  { i \in 1..(p - 1) : DeclaresName(body, i, n) /\ ListEnd(body, i) >= p }

(* The names the statement at p uses: what its expression reads and, for   *)
(* an assignment, the target.                                              *)
UsedNames(body, p) ==
  ({body[p].reads} \cup (IF body[p].op = "assign" THEN {body[p].name} ELSE {}))
    \ {"none", "const"}

Global == 0        \* the declaration is a global variable
Undeclared == -1   \* no declaration is visible

DeclOf(body, p, n, globals) ==
  LET visible == InScope(body, p, n)
      inner == Max({Depth(body, i) : i \in visible})
  IN IF visible # {} THEN Min({i \in visible : Depth(body, i) = inner})
     ELSE IF n \in globals THEN Global ELSE Undeclared

----------------------------------------------------------------------------
(* The successor of a position in the source program. *)

(* Where control arrives when it reaches p: an argument and a compound     *)
(* have no effect of their own, the end of a loop body goes back to the    *)
(* condition, the end of any other list continues behind its statement.    *)
Arrive(body, p) ==
  LET A[q \in 1..(Len(body) + 1)] ==
        IF q = Len(body) + 1 THEN q
        ELSE IF body[q].op \in {"arg", "block"} THEN A[q + 1]
        ELSE IF body[q].op = "else" THEN A[ElseEnd(body, q) + 1]
        ELSE IF body[q].op # "end" THEN q
        ELSE IF body[OpenerOf(body, q)].op = "while" THEN OpenerOf(body, q)
        ELSE A[q + 1]
  IN A[p]

(* Where control arrives when the condition at p does not hold. *)
ArriveElse(body, p) == Arrive(body, ListEnd(body, p + 1) + 1)

(* The positions control can reach from the start, conditions being free. *)
Reachable(body) ==
  LET Succ(p) == IF p > Len(body) \/ body[p].op = "return" THEN {}
                 ELSE {Arrive(body, p + 1)}
                      \cup (IF body[p].op \in {"if", "ifelse", "while"}
                            THEN {ArriveElse(body, p)} ELSE {})
      R[k \in 0..(Len(body) + 1)] ==
        IF k = 0 THEN {Arrive(body, 1)}
        ELSE LET before == R[k - 1]
             IN before \cup UNION {Succ(p) : p \in before}
  IN R[Len(body) + 1]
=============================================================================
