----------------------------- MODULE IrModule ------------------------------
(***************************************************************************)
(* A module of the compiler's own IR from the root declarations to its     *)
(* listing: IRGenerator::visitRootDecl defines the global variables and    *)
(* the function, gives both their constant values, then generates the body *)
(* (IrGen); IRPrinter lists the module and finds names for its values with *)
(* ValueNamesScope.  What the listing says is then called (IrRun).         *)
(***************************************************************************)
EXTENDS IrRun, TLC

CONSTANT Headings(_)   \* the globals and default values a body may come with

VARIABLES
  globals,   \* the initial values of the global variables, by kind
  defaults,  \* the default values of the arguments, by kind
  defined,   \* the globals that have an IRGlobalVar
  valued,    \* the globals that have their initial value
  stage,     \* "globals", "signature", "bodies", "listed", "thrown" or "crashed"
  names,     \* the names printed for arguments and allocations
  unknown    \* the lines printed with an operand that has no name

headVars == <<globals, defaults, defined, valued>>
listing == <<names, unknown>>
moduleVars == <<allVars, headVars, stage, listing>>

ModuleInit ==
  /\ RunInit
  /\ \E heading \in Headings(body) :
       globals = heading.globals /\ defaults = heading.defaults
  /\ defined = {} /\ valued = {}
  /\ stage = "globals"
  /\ names = <<>> /\ unknown = {}

----------------------------------------------------------------------------
(* Fault: the kind of the initial value is not asked for. *)
GenEveryGlobalDefinition ==
  /\ stage = "globals"
  /\ defined' = DOMAIN globals
  /\ stage' = "signature"
  /\ UNCHANGED <<allVars, globals, defaults, valued, listing>>

(* A value is a number, a string, or some other one: for a default another *)
(* constant, for a global any expression.  Globals of another kind than a  *)
(* number are reported as ignored.                                         *)
GenGlobalVariableDefinitions ==
  /\ stage = "globals"
  /\ defined' = {g \in DOMAIN globals : globals[g] = "number"}
  /\ stage' = "signature"
  /\ UNCHANGED <<allVars, globals, defaults, valued, listing>>

(* The next argument, unless its default value throws. *)
VisitFunctionParamDeclaration ==
  /\ stage = "signature"
  /\ IF At({"arg"}) /\ defaults[pc] = "string"
     THEN stage' = "thrown" /\ UNCHANGED vars
     ELSE VisitArgument /\ UNCHANGED stage
  /\ UNCHANGED <<runVars, headVars, listing>>

(* The next global to get its initial value, whether it was defined or not. *)
NextGlobal == Min(DOMAIN globals \ valued)

(* The value is generated into a block of its own and moved out of it; it  *)
(* is then written to the IRGlobalVar without asking if there is one.      *)
VisitGlobalVariableDecl ==
  /\ stage = "signature" /\ ~At({"arg"}) /\ DOMAIN globals \ valued # {}
  /\ LET g == NextGlobal IN
     IF globals[g] = "string" THEN stage' = "thrown" /\ UNCHANGED valued
     ELSE IF g \notin defined THEN stage' = "crashed" /\ UNCHANGED valued
     ELSE valued' = valued \cup {g} /\ UNCHANGED stage
  /\ UNCHANGED <<allVars, globals, defaults, defined, listing>>

VisitFunctionDecl ==
  /\ stage = "signature" /\ ~At({"arg"}) /\ valued = DOMAIN globals
  /\ stage' = "bodies"
  /\ UNCHANGED <<allVars, headVars, listing>>

Generate ==
  /\ stage = "bodies"
  /\ VisitBody
  /\ UNCHANGED <<runVars, headVars, stage, listing>>

----------------------------------------------------------------------------
(* IRNamesScope: how often a name was asked for, and the names given.      *)
NoNames == [last |-> <<>>, given |-> <<>>]

(* Fault: repetitions are not counted. *)
CreateWithoutCounting(scope, value, name) ==
  LET again == name \in DOMAIN scope.last
  IN [last |-> (name :> 0) @@ scope.last,
      given |-> (value :> IF again THEN name \o ToString(0) ELSE name) @@ scope.given]

(* createIRElementName: the name itself at first, then with the number of  *)
(* its repetition behind it.                                               *)
CreateIRElementName(scope, value, name) ==
  LET again == name \in DOMAIN scope.last
      n == IF again THEN scope.last[name] + 1 ELSE 0
  IN [last |-> (name :> n) @@ scope.last,
      given |-> (value :> IF again THEN name \o ToString(n) ELSE name) @@ scope.given]

(* One line of a block: an allocation gets its name, and operands are      *)
(* printed by the names they have by now.  Values without a name of their  *)
(* own are numbered, and void ones have none.                              *)
Line(printed, at) ==
  LET i == blocks[at[1]][at[2]] IN
  IF i.op = "alloca"
  THEN [printed EXCEPT !.scope = CreateIRElementName(@, i.at, body[i.at].name)]
  ELSE [printed EXCEPT !.unknown =
          IF i.uses \subseteq DOMAIN printed.scope.given THEN @ ELSE @ \cup {at}]

(* visitIRFunction: the arguments, then the blocks in the order of their   *)
(* making.  Default values are constants, which have no operands.          *)
IRPrint ==
  /\ phase = "passed" /\ stage = "bodies"
  /\ LET args == SetToSortSeq({p \in DOMAIN body : body[p].op = "arg"}, <)
         scope == FoldLeft(LAMBDA s, p : CreateIRElementName(s, p, body[p].name), NoNames, args)
         lines == FlattenSeq([b \in DOMAIN blocks |-> [k \in DOMAIN blocks[b] |-> <<b, k>>]])
         printed == FoldLeft(Line, [scope |-> scope, unknown |-> {}], lines)
     IN names' = printed.scope.given /\ unknown' = printed.unknown
  /\ stage' = "listed"
  /\ UNCHANGED <<allVars, headVars>>

CallFunction ==
  /\ stage = "listed"
  /\ Run
  /\ UNCHANGED <<headVars, stage, listing>>

ModuleNext ==
  \/ GenGlobalVariableDefinitions \/ VisitFunctionParamDeclaration \/ VisitGlobalVariableDecl
  \/ VisitFunctionDecl \/ Generate \/ IRPrint \/ CallFunction

ModuleSpec == ModuleInit /\ [][ModuleNext]_moduleVars

----------------------------------------------------------------------------
(* No module is listed without a global that was reported to be ignored:   *)
(* giving it its initial value ends the compiler before.                   *)
ListedGlobalsHaveValues ==
  stage = "listed" => \A g \in DOMAIN globals : globals[g] = "number" /\ g \in valued

(* How often the name of a declaration was printed before, by the order of *)
(* the source.                                                             *)
Repetition(d) == Cardinality({e \in DOMAIN names : e < d /\ body[e].name = body[d].name})

(* Two values of a function are printed with one name exactly if one was   *)
(* declared with a name that ends in a number, and the other repeats the   *)
(* name before that number as many times.                                  *)
NamesCollideOnlyByNumber ==
  stage = "listed" =>
    \A d, e \in DOMAIN names : d # e =>
      (names[d] = names[e] <=>
         \E p \in {<<d, e>>, <<e, d>>} :
           /\ Repetition(p[1]) = 0 /\ Repetition(p[2]) > 0
           /\ body[p[1]].name = body[p[2]].name \o ToString(Repetition(p[2])))

(* The blocks control can get to. *)
ReachableBlocks ==
  LET after(bs) == bs \cup UNION {UNION {Targets(blocks[b][k]) : k \in DOMAIN blocks[b]} : b \in bs}
  IN FoldLeft(LAMBDA bs, b : after(bs), {1}, [b \in DOMAIN blocks |-> b])

(* An operand is printed as unknown only in code that never runs, if the   *)
(* pass removed its allocation from a block in front of it.                *)
UnknownOperandsNeverRun ==
  stage = "listed" =>
    \A at \in unknown : at[1] \notin ReachableBlocks
=============================================================================
