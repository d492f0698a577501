---------------------------- MODULE Declarations ----------------------------
(***************************************************************************)
(* The declarations of a program on their way through the compiler: the    *)
(* decorator (linkNames) collects the global names, resolves the types of  *)
(* signatures and variables and looks for main, each in a pass over one    *)
(* list; the code generator (generateCode) then declares functions,        *)
(* searches the classes for loops and lays them out.  What happens inside  *)
(* a body is in Decorator and LlvmGen; here bodies have no errors.         *)
(***************************************************************************)
EXTENDS Naturals, Sequences, FiniteSets, SequencesExt

CONSTANTS
  SourcePrograms,  \* the programs considered
  Names      \* what functions, classes and variables may be called

BuiltIn == {"i32", "f32", "void", "bool", "str"}
Infer == "infer"    \* no type is given
NoType == "notype"  \* the type is null

TypeNames == BuiltIn \cup Names
Literals == BuiltIn \ {"void"}    \* the types of constants

(* An initial value is a constant of a built-in type, another expression,  *)
(* or, of a member, missing.  The parser allows nothing else.              *)
Variables == [name : Names, typeName : TypeNames \cup {Infer}, init : Literals \cup {"other", "none"}]
Functions == [name : Names, typeName : TypeNames, args : Seq(TypeNames), extern : BOOLEAN]
Classes == [name : Names, members : Seq(Variables), functions : Seq(Functions)]

AllPrograms ==
  [globals : Seq({v \in Variables : v.init # "none"}), functions : Seq(Functions), classes : Seq(Classes)]

ASSUME ProgramsAssumption ==
  /\ Names \cap (BuiltIn \cup {Infer, NoType}) = {}
  /\ SourcePrograms \subseteq AllPrograms

VARIABLES
  prog,        \* the program; list 0 is the global one, list c that of class c
  phase, at,   \* the pass, and its next declaration
  scope,       \* the global names
  types,       \* the types of variables, by list and position
  signatures,  \* of functions: the type of the result, then of the arguments
  errors,      \* whether one was reported
  main,        \* mainFunction, 0 if there is none
  frames,      \* the active checkClassDecl_member_loop calls
  looped,      \* whether they have found a loop
  bodies,      \* the classes whose struct has its members
  sized        \* and whose size is known

resolved == <<scope, types, signatures, errors, main>>
layout == <<frames, looped, bodies, sized>>
declarationVars == <<prog, phase, at, resolved, layout>>

VariablesOf(c) == IF c = 0 THEN prog.globals ELSE prog.classes[c].members
FunctionsOf(c) == IF c = 0 THEN prog.functions ELSE prog.classes[c].functions

DeclarationsInit ==
  /\ prog \in SourcePrograms
  /\ phase = "names" /\ at = 1
  /\ scope = [n \in {} |-> ""]
  /\ types = [p \in {} |-> NoType]
  /\ signatures = [p \in {} |-> <<>>]
  /\ errors = FALSE /\ main = 0
  /\ frames = <<>> /\ looped = FALSE
  /\ bodies = {} /\ sized = {}

----------------------------------------------------------------------------
NamesOf(list) == [k \in DOMAIN list |-> list[k].name]

(* In the order in which linkNames adds them, each with what it is. *)
Kinds == [k \in DOMAIN prog.globals |-> "variable"] \o [k \in DOMAIN prog.functions |-> "function"]
           \o [k \in DOMAIN prog.classes |-> "class"]
Declared == NamesOf(prog.globals) \o NamesOf(prog.functions) \o NamesOf(prog.classes)

(* The passes of linkNames and generateCode in their order. *)
Passes == <<"names", "classes", "functions", "globals", "classBodies", "bodies", "main",
            "genGlobals", "genFunctions", "genClasses", "genSizes", "genBodies", "done">>

ListOf(pass) ==
  CASE pass = "names" -> Declared
    [] pass \in {"functions", "bodies", "genFunctions"} -> prog.functions
    [] pass \in {"globals", "genGlobals"} -> prog.globals
    [] OTHER -> prog.classes

In(pass) == phase = pass /\ at \in DOMAIN ListOf(pass)

(* The pass is through its list. *)
NextPass ==
  /\ phase \in ToSet(Passes) \ {"main", "done"} /\ at = Len(ListOf(phase)) + 1
  /\ \E i \in DOMAIN Passes : phase = Passes[i] /\ phase' = Passes[i + 1]
  /\ at' = 1
  /\ UNCHANGED <<prog, resolved, layout>>

(* The tables only grow: f, and what g has for something new to f. *)
Adding(f, g) == [x \in DOMAIN f \cup DOMAIN g |-> IF x \in DOMAIN f THEN f[x] ELSE g[x]]

(* Fault: a later declaration replaces an earlier one. *)
AddNameReplacing ==
  /\ In("names")
  /\ scope' = Adding([n \in {Declared[at]} |-> Kinds[at]], scope)
  /\ at' = at + 1
  /\ UNCHANGED <<prog, phase, types, signatures, errors, main, layout>>

(* The first declaration keeps the name. *)
AddName ==
  /\ In("names")
  /\ scope' = Adding(scope, [n \in {Declared[at]} |-> Kinds[at]])
  /\ errors' = (errors \/ Declared[at] \in DOMAIN scope)
  /\ at' = at + 1
  /\ UNCHANGED <<prog, phase, types, signatures, main, layout>>

(* makeTypeForName; a class type is named like its class. *)
TypeFor(n) ==
  IF n \in BuiltIn \/ (n \in DOMAIN scope /\ scope[n] = "class") THEN n ELSE NoType

Signature(f) == <<TypeFor(f.typeName)>> \o [j \in DOMAIN f.args |-> TypeFor(f.args[j])]

(* doVariableDeclaration, where the initial value has to be constant. *)
TypeOfVariable(v) ==
  IF v.init = "other" THEN NoType
  ELSE IF v.typeName # Infer THEN TypeFor(v.typeName)
  ELSE IF v.init # "none" THEN v.init ELSE NoType

VariableIsOk(v) == TypeOfVariable(v) # NoType /\ v.init \in {"none", TypeOfVariable(v)}

(* The message about an initial value of another type takes the text of    *)
(* the type, found or not.                                                 *)
MessageCrashes(v) ==
  v.init \in Literals /\ v.typeName # Infer /\ TypeFor(v.typeName) = NoType

(* doClassDeclarationSignature: member functions, then member variables. *)
ResolveClass ==
  /\ In("classes")
  /\ LET variables == VariablesOf(at)
         functions == FunctionsOf(at)
     IN /\ \A j \in DOMAIN variables : ~MessageCrashes(variables[j])
        /\ types' = Adding(types, [p \in {at} \X DOMAIN variables |-> TypeOfVariable(variables[p[2]])])
        /\ signatures' = Adding(signatures, [p \in {at} \X DOMAIN functions |-> Signature(functions[p[2]])])
        /\ errors' = (\/ errors
                      \/ \E v \in ToSet(variables) : ~VariableIsOk(v)
                      \/ \E f \in ToSet(functions) : NoType \in ToSet(Signature(f)))
  /\ at' = at + 1
  /\ UNCHANGED <<prog, phase, scope, main, layout>>

ResolveFunction ==
  /\ In("functions")
  /\ signatures' = Adding(signatures, [p \in {<<0, at>>} |-> Signature(prog.functions[at])])
  /\ errors' = (errors \/ NoType \in ToSet(Signature(prog.functions[at])))
  /\ at' = at + 1
  /\ UNCHANGED <<prog, phase, scope, types, main, layout>>

ResolveGlobal ==
  /\ In("globals")
  /\ ~MessageCrashes(prog.globals[at])
  /\ types' = Adding(types, [p \in {<<0, at>>} |-> TypeOfVariable(prog.globals[at])])
  /\ errors' = (errors \/ ~VariableIsOk(prog.globals[at]))
  /\ at' = at + 1
  /\ UNCHANGED <<prog, phase, scope, signatures, main, layout>>

CrashInMessage ==
  /\ \/ In("globals") /\ MessageCrashes(prog.globals[at])
     \/ In("classes") /\ \E v \in ToSet(VariablesOf(at)) : MessageCrashes(v)
  /\ phase' = "crashed"
  /\ UNCHANGED <<prog, at, resolved, layout>>

(* doFunctionDeclarationBody asks for the signature of main, also of a     *)
(* member function; without a type for the result it does nothing.         *)
HasBody(c, k) == signatures[<<c, k>>][1] # NoType
IsMain(c, k) == FunctionsOf(c)[k].name = "main" /\ signatures[<<c, k>>] = <<"i32">>
WrongMain(c, k) == FunctionsOf(c)[k].name = "main" /\ HasBody(c, k) /\ ~IsMain(c, k)

CheckClassBody ==
  /\ In("classBodies")
  /\ LET inClass == NamesOf(VariablesOf(at)) \o <<"this">> \o NamesOf(FunctionsOf(at))
     IN errors' = (\/ errors
                   \/ ~IsInjective(inClass)
                   \/ \E k \in DOMAIN FunctionsOf(at) : WrongMain(at, k))
  /\ at' = at + 1
  /\ UNCHANGED <<prog, phase, scope, types, signatures, main, layout>>

CheckBody ==
  /\ In("bodies")
  /\ main' = IF IsMain(0, at) THEN at ELSE main
  /\ errors' = (errors \/ WrongMain(0, at))
  /\ at' = at + 1
  /\ UNCHANGED <<prog, phase, scope, types, signatures, layout>>

(* linkNames is done, and code is only generated without errors. *)
CheckMain ==
  /\ phase = "main"
  /\ errors' = (errors \/ main = 0)
  /\ phase' = IF errors' THEN "refused" ELSE "genGlobals"
  /\ UNCHANGED <<prog, at, scope, types, signatures, main, layout>>

----------------------------------------------------------------------------
(* getLLvmTypeFor knows built-in types only and throws for any other.      *)
Unsupported(f) == \E t \in ToSet(f) : t \notin BuiltIn

(* genFunctionDeclaration.  LLVM has no arguments of type void: asked for  *)
(* one, FunctionType::get fails an assertion of its own or, built without  *)
(* them, goes on with a type that is none; the run is "broken" and what    *)
(* may follow is left out.                                                 *)
Declare(f) ==
  IF Unsupported(f) THEN "thrown" ELSE IF "void" \in ToSet(Tail(f)) THEN "broken" ELSE "declared"

GenGlobal ==
  /\ In("genGlobals")
  /\ IF prog.globals[at].init \in {"i32", "f32"} /\ types[<<0, at>>] \notin BuiltIn
     THEN phase' = "thrown" ELSE UNCHANGED phase
  /\ at' = at + 1
  /\ UNCHANGED <<prog, resolved, layout>>

GenFunctionDeclaration ==
  /\ In("genFunctions")
  /\ LET outcome == Declare(signatures[<<0, at>>])
     IN phase' = IF outcome = "declared" THEN phase ELSE outcome
  /\ at' = at + 1
  /\ UNCHANGED <<prog, resolved, layout>>

(* A call of checkClassDecl_member_loop: its class, its next member, and   *)
(* parentClassDecls, which has the class itself unless it is the outermost.*)
Frame(c, parents) == [class |-> c, next |-> 1, parents |-> parents]

Top == frames[Len(frames)]
Below == SubSeq(frames, 1, Len(frames) - 1)
Searching == phase = "search" /\ frames # <<>> /\ Top.next \in DOMAIN VariablesOf(Top.class)
MemberType == types[<<Top.class, Top.next>>]
MemberClass == CHOOSE d \in DOMAIN prog.classes : prog.classes[d].name = MemberType

BeginSearch ==
  /\ In("genClasses")
  /\ phase' = "search"
  /\ frames' = <<Frame(at, {})>>
  /\ looped' = FALSE
  /\ UNCHANGED <<prog, at, resolved, bodies, sized>>

SkipMember ==
  /\ Searching /\ MemberType \in BuiltIn
  /\ frames' = [frames EXCEPT ![Len(frames)].next = @ + 1]
  /\ UNCHANGED <<prog, phase, at, resolved, looped, bodies, sized>>

(* The class of the member is searched next. *)
EnterMember ==
  /\ Searching /\ MemberType \notin BuiltIn
  /\ MemberClass \notin Top.parents
  /\ frames' = Append(Below, [Top EXCEPT !.next = @ + 1])
                 \o <<Frame(MemberClass, Top.parents \cup {MemberClass})>>
  /\ UNCHANGED <<prog, phase, at, resolved, looped, bodies, sized>>

(* Fault: what the members of members found is lost. *)
FindLoopHere ==
  /\ Searching /\ MemberType \notin BuiltIn
  /\ MemberClass \in Top.parents
  /\ frames' = Below
  /\ looped' = (Len(frames) <= 2)
  /\ UNCHANGED <<prog, phase, at, resolved, bodies, sized>>

(* It is being searched already; the other members are not looked at.      *)
FindLoop ==
  /\ Searching /\ MemberType \notin BuiltIn
  /\ MemberClass \in Top.parents
  /\ frames' = Below
  /\ looped' = TRUE
  /\ UNCHANGED <<prog, phase, at, resolved, bodies, sized>>

LeaveClass ==
  /\ phase = "search" /\ frames # <<>>
  /\ Top.next \notin DOMAIN VariablesOf(Top.class)
  /\ frames' = Below
  /\ UNCHANGED <<prog, phase, at, resolved, looped, bodies, sized>>

(* The struct gets its members, of which none may be void either, then the *)
(* member functions are declared in their order.                           *)
HasVoidMember(c) == \E j \in DOMAIN VariablesOf(c) : types[<<c, j>>] = "void"
Declares(c, k) == Declare(signatures[<<c, k>>])

GenMembers(c) ==
  \/ HasVoidMember(c) /\ phase' = "broken"
  \/ /\ ~HasVoidMember(c) /\ phase' = "genClasses"
     /\ \A k \in DOMAIN FunctionsOf(c) : Declares(c, k) = "declared"
  \/ /\ ~HasVoidMember(c)
     /\ \E k \in DOMAIN FunctionsOf(c) :
          /\ \A j \in 1..(k - 1) : Declares(c, j) = "declared"
          /\ Declares(c, k) # "declared" /\ phase' = Declares(c, k)

AfterSearch(sizes) ==
  /\ phase = "search" /\ frames = <<>>
  /\ IF looped THEN phase' = "thrown" /\ UNCHANGED <<bodies, sized>>
     ELSE bodies' = bodies \cup {at} /\ sized' = sized \cup sizes /\ GenMembers(at)
  /\ at' = at + 1
  /\ UNCHANGED <<prog, resolved, frames, looped>>

(* Fault: the size is taken together with the members. *)
LayOutAndSize == AfterSearch({at})

(* genClassDeclTypeMembers after its check. *)
LayOut == AfterSearch({})

(* getTypeAllocSize. *)
TakeSize ==
  /\ In("genSizes")
  /\ sized' = sized \cup {at}
  /\ at' = at + 1
  /\ UNCHANGED <<prog, phase, resolved, frames, looped, bodies>>

(* genClassDeclMemberFunctions generates the bodies of all member          *)
(* functions, also of one declared extern, which has none.                 *)
GenMemberBodies ==
  /\ In("genBodies")
  /\ IF \E f \in ToSet(FunctionsOf(at)) : f.extern THEN phase' = "broken" ELSE UNCHANGED phase
  /\ at' = at + 1
  /\ UNCHANGED <<prog, resolved, layout>>

DeclarationsNext ==
  \/ NextPass
  \/ AddName \/ ResolveClass \/ ResolveFunction \/ ResolveGlobal \/ CrashInMessage
  \/ CheckClassBody \/ CheckBody \/ CheckMain
  \/ GenGlobal \/ GenFunctionDeclaration
  \/ BeginSearch \/ SkipMember \/ EnterMember \/ FindLoop \/ LeaveClass \/ LayOut
  \/ TakeSize \/ GenMemberBodies

DeclarationsSpec == DeclarationsInit /\ [][DeclarationsNext]_declarationVars

----------------------------------------------------------------------------
(* The type invariant.  A call of the search has searched none of the      *)
(* classes above it again, so that there are never more calls than classes *)
(* and one: the search ends.                                               *)
DeclarationsTypeOK ==
  /\ prog \in AllPrograms
  /\ phase \in ToSet(Passes) \cup {"search", "refused", "crashed", "thrown", "broken"}
  /\ at \in Nat \ {0}
  /\ DOMAIN scope \subseteq Names
  /\ \A p \in DOMAIN types : types[p] \in TypeNames \cup {NoType}
  /\ \A p \in DOMAIN signatures : signatures[p] \in Seq(TypeNames \cup {NoType}) \ {<<>>}
  /\ errors \in BOOLEAN /\ looped \in BOOLEAN
  /\ main \in {0} \cup DOMAIN prog.functions
  /\ Len(frames) <= Len(prog.classes) + 1
  /\ \A i \in DOMAIN frames : Cardinality(frames[i].parents) = i - 1
  /\ bodies \cup sized \subseteq DOMAIN prog.classes

(* What the declarations have to satisfy, without an order of passes.      *)
Lists == {0} \cup DOMAIN prog.classes
IsClass(n) == \E k \in DOMAIN prog.classes : prog.classes[k].name = n
Known(n) == n \in BuiltIn \/ IsClass(n)

WellDeclared ==
  /\ IsInjective(Declared)
  /\ \A c \in DOMAIN prog.classes :
       IsInjective(NamesOf(VariablesOf(c)) \o NamesOf(FunctionsOf(c)) \o <<"this">>)
  /\ \A c \in Lists, v \in UNION {ToSet(VariablesOf(d)) : d \in Lists} :
       v \in ToSet(VariablesOf(c)) =>
         /\ v.typeName = Infer \/ Known(v.typeName)
         /\ v.init \in IF v.typeName = Infer THEN Literals ELSE {"none"} \cup ({v.typeName} \cap Literals)
  /\ \A f \in UNION {ToSet(FunctionsOf(c)) : c \in Lists} :
       /\ {f.typeName} \cup ToSet(f.args) \subseteq {n \in TypeNames : Known(n)}
       /\ f.name = "main" => f.typeName = "i32" /\ f.args = <<>>
  /\ \E f \in ToSet(prog.functions) : f.name = "main"

Generating == {"genGlobals", "genFunctions", "genClasses", "search", "genSizes", "genBodies",
               "done", "thrown", "broken"}

(* The passes of the decorator together accept exactly the programs whose  *)
(* declarations are in order, whatever refers to what before it is         *)
(* declared, and main is then the global function of that name.            *)
AcceptsWellDeclared ==
  /\ phase \in Generating => WellDeclared /\ prog.functions[main].name = "main"
  /\ phase \in {"refused", "crashed"} => ~WellDeclared

(* The classes of the members of a class, and all it consists of, directly *)
(* or not: what every set has that holds the one and lacks no member.      *)
MemberClasses(c) ==
  {d \in DOMAIN prog.classes :
     \E v \in ToSet(VariablesOf(c)) : v.typeName = prog.classes[d].name}

HasAllParts(c, S) == MemberClasses(c) \subseteq S /\ \A e \in S : MemberClasses(e) \subseteq S

Embedded(c) ==
  {d \in DOMAIN prog.classes : \A S \in SUBSET DOMAIN prog.classes : HasAllParts(c, S) => d \in S}

(* An accepted program is only given up by the generator for a class that  *)
(* contains itself or for an object passed to or from a function, which    *)
(* the README lists as missing, and breaks it only by an extern member     *)
(* function or by a member or argument of type void; and the generator     *)
(* gets to the end of no other program.                                    *)
HasLoop == \E c \in DOMAIN prog.classes : c \in Embedded(c)
AllFunctionsIn == UNION {ToSet(FunctionsOf(c)) : c \in Lists}
PassesObjects ==
  \E f \in AllFunctionsIn : \E n \in {f.typeName} \cup ToSet(f.args) : IsClass(n)
HasExternMember == \E c \in DOMAIN prog.classes : \E f \in ToSet(FunctionsOf(c)) : f.extern

VoidIsData ==
  \/ \E c \in DOMAIN prog.classes : \E v \in ToSet(VariablesOf(c)) : v.typeName = "void"
  \/ \E f \in AllFunctionsIn : "void" \in ToSet(f.args)

ThrowsForLoopsAndObjects ==
  /\ phase = "thrown" => HasLoop \/ PassesObjects
  /\ phase = "broken" => HasExternMember \/ VoidIsData
  /\ phase = "done" => ~HasLoop /\ ~PassesObjects /\ ~HasExternMember /\ ~VoidIsData

(* A size is only asked for when all parts of the class have their members *)
(* and none contains itself; no order of the classes in the source leads   *)
(* to the size of an incomplete struct.                                    *)
SizesAreDefined ==
  \A c \in sized : \A d \in {c} \cup Embedded(c) : d \in bodies /\ d \notin Embedded(d)

(* The search for loops remembers every class it is inside of, once, and   *)
(* lets no size of a struct be taken that is not defined.                  *)
DeclarationsInv == DeclarationsTypeOK /\ SizesAreDefined
=============================================================================
