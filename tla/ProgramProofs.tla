---------------------------- MODULE ProgramProofs ----------------------------
(***************************************************************************)
(* Proofs about the two modules that follow whole programs: Driver, for    *)
(* any set of invocations that run side by side and any programs, and      *)
(* Declarations, for any program.                                          *)
(*                                                                         *)
(* Driver: an action changes the entries of one invocation; of the others  *)
(* it at most disturbs the object file.                                    *)
(*                                                                         *)
(* Declarations: the invariant says of every pass what it is through with. *)
(* Of the scope, the types and the signatures it says that they are what   *)
(* the program alone determines once all names are known; of errors that   *)
(* the program has one; of the search for loops that every call is inside  *)
(* of its parents and has clean members behind it.                         *)
(***************************************************************************)
EXTENDS Driver, Declarations, FiniteSetTheorems, SequenceTheorems, TLAPS

----------------------------------------------------------------------------
(***************************************************************************)
(* Driver.                                                                 *)
(***************************************************************************)

(* Inv for one invocation, and for the two files. *)
Local(c) ==
  /\ built[c] \in Programs => Accepted(built[c])
  /\ ran[c] \in Programs => Accepted(ran[c])
  /\ status[c] = "ok" =>
       /\ Accepted(program[c]) /\ "use-ir" \notin options[c]
       /\ "not-create-object-file" \notin options[c] => built[c] \in Programs
  /\ built[c] \notin {program[c], None} => disturbed[c]
  /\ FailsAt[program[c]] \notin Passed(stage[c])
  /\ stage[c] \in BackEnd => Accepted(program[c]) /\ "use-ir" \notin options[c]
  /\ stage[c] \in {"viewing", "running"} /\ "not-create-object-file" \notin options[c]
       => built[c] \in Programs
  /\ stage[c] \in {"emitting", "writing", "linking"} => built[c] = None
  /\ stage[c] \notin BackEnd \cup {"ended"} => built[c] = None
  /\ stage[c] # "ended" => status[c] = "none"
  /\ ~disturbed[c] => /\ stage[c] = "writing" => output = Broken
                      /\ stage[c] = "linking" => output \in {program[c], Broken}

FilesAreAccepted ==
  /\ output \in Programs => Accepted(output)
  /\ bin \in Programs => Accepted(bin)

(* Inv, invocation by invocation. *)
LEMMA InvParts ==
  /\ Inv => TypeOK /\ FilesAreAccepted /\ \A c \in Compilers : Local(c)
  /\ TypeOK /\ FilesAreAccepted /\ (\A c \in Compilers : Local(c)) => Inv
<1>1. ASSUME Inv PROVE TypeOK /\ FilesAreAccepted
  BY <1>1 DEF Inv, FilesAreAccepted, OnlyAcceptedProgramsAreBuilt
<1>2. ASSUME Inv, NEW c \in Compilers PROVE Local(c)
  BY <1>2 DEF Inv, Local, OnlyAcceptedProgramsAreBuilt, SuccessIsEarned,
              OnlyDisturbedBuildsGoWrong, StagesAreEarned, OutputIsOwn
<1>3. ASSUME TypeOK, FilesAreAccepted, \A c \in Compilers : Local(c) PROVE Inv
  BY <1>3 DEF Inv, FilesAreAccepted, Local, OnlyAcceptedProgramsAreBuilt, SuccessIsEarned,
              OnlyDisturbedBuildsGoWrong, StagesAreEarned, OutputIsOwn
<1> QED BY <1>1, <1>2, <1>3

(* Before the first invocation nothing is built. *)
LEMMA InitInv == Init => Inv
  BY DriverAssumption
     DEF Init, Inv, TypeOK, OnlyAcceptedProgramsAreBuilt, SuccessIsEarned,
         OnlyDisturbedBuildsGoWrong, StagesAreEarned, OutputIsOwn, Contents, BackEnd, Options, FrontEnd, Passed

(* What a step of another invocation leaves of one's entries. *)
Same(d) ==
  /\ stage'[d] = stage[d] /\ program'[d] = program[d] /\ options'[d] = options[d]
  /\ status'[d] = status[d] /\ built'[d] = built[d] /\ ran'[d] = ran[d]
  /\ disturbed'[d] \/ (disturbed'[d] = disturbed[d] /\ output' = output)

(* Being disturbed breaks nothing that holds of an invocation. *)
LEMMA SameLocal ==
  ASSUME NEW d \in Compilers, Local(d), Same(d)
  PROVE  Local(d)'
  BY DEF Local, Same, Accepted

(* So a step is judged by the invocation that takes it. *)
LEMMA OneMoves ==
  ASSUME Inv, TypeOK', FilesAreAccepted', NEW c \in Compilers, Local(c)',
         \A d \in Compilers \ {c} : Same(d)
  PROVE  Inv'
<1>1. \A d \in Compilers : Local(d)'
  BY InvParts, SameLocal
<1> QED
  BY <1>1 DEF Inv, FilesAreAccepted, Local, OnlyAcceptedProgramsAreBuilt, SuccessIsEarned,
              OnlyDisturbedBuildsGoWrong, StagesAreEarned, OutputIsOwn

(* Leaving with another exit status than 0 is always sound. *)
LEMMA ExitStep ==
  ASSUME Inv, NEW c \in Compilers, stage[c] # "ended",
         NEW code \in {"error", "aborted", "not implemented"}, Exit(c, code),
         UNCHANGED <<files, results>>
  PROVE  Inv'
<1>1. TypeOK /\ FilesAreAccepted /\ Local(c)
  BY InvParts
<1>2. TypeOK'
  BY <1>1 DEF TypeOK, Exit, files, results
<1>3. \A d \in Compilers \ {c} : Same(d)
  BY <1>1 DEF TypeOK, Same, Exit, files, results
<1>4. Local(c)'
  <2>1. /\ stage'[c] = "ended" /\ status'[c] = code /\ status'[c] # "ok"
        /\ program' = program /\ options' = options /\ output' = output
        /\ built' = built /\ ran' = ran /\ disturbed' = disturbed
    BY <1>1 DEF TypeOK, Exit, files, results
  <2> QED BY <1>1, <2>1 DEF Local, BackEnd, Passed, Accepted
<1>5. FilesAreAccepted'
  BY <1>1 DEF FilesAreAccepted, Accepted, files
<1> QED BY <1>2, <1>3, <1>4, <1>5, OneMoves

Stages == FrontEnd \cup {"saving", "generating", "emitting", "viewing", "running"}

(* Going on to a stage without touching a file is sound if the program has *)
(* earned that stage.                                                      *)
LEMMA GoToStep ==
  ASSUME Inv, NEW c \in Compilers, stage[c] # "ended", NEW next \in Stages,
         GoTo(c, next), UNCHANGED <<files, results>>,
         FailsAt[program[c]] \notin Passed(next),
         next \in BackEnd => Accepted(program[c]) /\ "use-ir" \notin options[c],
         next \in {"viewing", "running"} /\ "not-create-object-file" \notin options[c]
           => built[c] \in Programs,
         next \notin {"viewing", "running"} => built[c] = None
  PROVE  Inv'
<1>1. TypeOK /\ FilesAreAccepted /\ Local(c)
  BY InvParts
<1>2. TypeOK'
  BY <1>1 DEF TypeOK, GoTo, files, results, Stages
<1>3. \A d \in Compilers \ {c} : Same(d)
  BY <1>1 DEF TypeOK, Same, GoTo, files, results
<1>4. Local(c)'
  <2>1. /\ stage'[c] = next /\ program' = program /\ options' = options /\ status' = status
        /\ output' = output /\ built' = built /\ ran' = ran /\ disturbed' = disturbed
    BY <1>1 DEF TypeOK, GoTo, files, results
  <2>2. next \notin {"writing", "linking", "ended"}
    BY DEF Stages, FrontEnd
  <2> QED BY <1>1, <2>1, <2>2 DEF Local, BackEnd, Accepted
<1>5. FilesAreAccepted'
  BY <1>1 DEF FilesAreAccepted, Accepted, files
<1> QED BY <1>2, <1>3, <1>4, <1>5, OneMoves

(* A program that goes on has passed one stage more. *)
LEMMA CheckStep == ASSUME Inv, NEW c \in Compilers, Check(c) PROVE Inv'
<1>1. stage[c] \in FrontEnd /\ UNCHANGED <<files, results>> /\ stage[c] # "ended"
  BY DEF Check, FrontEnd
<1>2. CASE Fails(c)
  BY <1>1, <1>2, ExitStep DEF Check
<1>3. CASE ~Fails(c)
  <2> DEFINE next == After[stage[c]]
  <2>1. Local(c) /\ FailsAt[program[c]] # stage[c] /\ GoTo(c, next)
    BY <1>1, <1>3, InvParts DEF Fails, Check
  <2>2. \/ stage[c] = "reading" /\ next = "lexing"
        \/ stage[c] = "lexing" /\ next = "parsing"
        \/ stage[c] = "parsing" /\ next = "decorating"
        \/ stage[c] = "decorating" /\ next = "saving"
    BY <1>1 DEF FrontEnd, After
  <2> HIDE DEF next
  <2>3. next \in Stages /\ next \notin BackEnd
    BY <2>2 DEF Stages, FrontEnd, BackEnd
  <2>4. built[c] = None
    BY <1>1, <2>1 DEF Local, BackEnd, FrontEnd
  <2>5. FailsAt[program[c]] \notin Passed(next)
    BY <2>1, <2>2 DEF Local, Passed, FrontEnd
  <2> QED BY <1>1, <2>1, <2>3, <2>4, <2>5, GoToStep DEF BackEnd
<1> QED BY <1>2, <1>3

(* Saving the source changes neither object nor executable. *)
LEMMA SaveAstStep == ASSUME Inv, NEW c \in Compilers, SaveAst(c) PROVE Inv'
<1>1. stage[c] = "saving" /\ UNCHANGED <<files, results>> /\ Local(c)
  BY InvParts DEF SaveAst
<1>2. CASE Exit(c, "aborted")
  BY <1>1, <1>2, ExitStep
<1>3. CASE GoTo(c, "generating")
  <2>1. FailsAt[program[c]] \notin Passed("generating") /\ built[c] = None
    BY <1>1 DEF Local, Passed, BackEnd
  <2> QED BY <1>1, <1>3, <2>1, GoToStep DEF Stages, BackEnd
<1> QED BY <1>2, <1>3 DEF SaveAst

(* Only a program that no stage refuses leaves the code generator. *)
LEMMA GenerateStep ==
  ASSUME Inv, NEW c \in Compilers, GenerateIr(c) \/ GenerateCode(c) PROVE Inv'
<1>1. stage[c] = "generating" /\ UNCHANGED <<files, results>> /\ TypeOK /\ Local(c)
  BY InvParts DEF GenerateIr, GenerateCode
<1>2. CASE \E code \in {"error", "aborted", "not implemented"} : Exit(c, code)
  BY <1>1, <1>2, ExitStep
<1>3. CASE /\ "use-ir" \notin options[c] /\ ~Fails(c) /\ FailsAt[program[c]] # "crash"
           /\ GoTo(c, IF "not-create-object-file" \in options[c] THEN "viewing" ELSE "emitting")
  <2>1. FailsAt[program[c]] \in FrontEnd \cup {"generating", "crash", "none"}
    BY <1>1, DriverAssumption DEF TypeOK
  <2>2. FailsAt[program[c]] \notin FrontEnd
    BY <1>1 DEF Local, Passed
  <2>3. Accepted(program[c])
    BY <1>1, <1>3, <2>1, <2>2 DEF Fails, Accepted
  <2>4. built[c] = None
    BY <1>1 DEF Local, BackEnd
  <2>5. "viewing" \in Stages /\ "emitting" \in Stages
    BY DEF Stages
  <2>6. Passed("viewing") = {} /\ Passed("emitting") = {}
    BY DEF Passed
  <2>7. CASE "not-create-object-file" \in options[c]
    BY <1>1, <1>3, <2>3, <2>4, <2>5, <2>6, <2>7, GoToStep
  <2>8. CASE "not-create-object-file" \notin options[c]
    BY <1>1, <1>3, <2>3, <2>4, <2>5, <2>6, <2>8, GoToStep
  <2> QED BY <2>7, <2>8
<1> QED BY <1>2, <1>3 DEF GenerateIr, GenerateCode

(* A new invocation has built nothing yet. *)
LEMMA InvokeStep == ASSUME Inv, NEW c \in Compilers, Invoke(c) PROVE Inv'
<1>1. TypeOK /\ FilesAreAccepted /\ Local(c)
  BY InvParts
<1>2. TypeOK'
  <2>1. PICK p \in Programs, o \in OptionSets :
          program' = [program EXCEPT ![c] = p] /\ options' = [options EXCEPT ![c] = o]
    BY DEF Invoke
  <2>2. o \in SUBSET Options
    BY DriverAssumption
  <2>3. program' \in [Compilers -> Programs] /\ options' \in [Compilers -> SUBSET Options]
    BY <1>1, <2>1, <2>2 DEF TypeOK
  <2> QED BY <1>1, <2>3 DEF TypeOK, Invoke, files, FrontEnd
<1>3. \A d \in Compilers \ {c} : Same(d)
  BY <1>1 DEF TypeOK, Same, Invoke, files
<1>4. Local(c)'
  BY <1>1, DriverAssumption DEF TypeOK, Local, Accepted, BackEnd, Passed, Invoke, files
<1>5. FilesAreAccepted'
  BY <1>1, DriverAssumption DEF FilesAreAccepted, Accepted, Invoke, files
<1> QED BY <1>2, <1>3, <1>4, <1>5, OneMoves

(* An invocation that does not write output.o is disturbed. *)
LEMMA FailToOpenStep == ASSUME Inv, NEW c \in Compilers, FailToOpen(c) PROVE Inv'
<1>1. TypeOK /\ FilesAreAccepted /\ Local(c)
  BY InvParts
<1>2. TypeOK'
  BY <1>1 DEF TypeOK, Contents, FailToOpen, GoTo, files
<1>3. \A d \in Compilers \ {c} : Same(d)
  BY <1>1 DEF TypeOK, Same, FailToOpen, GoTo, files
<1>4. Local(c)'
  BY <1>1, DriverAssumption
     DEF TypeOK, Local, Accepted, BackEnd, Passed, FailToOpen, GoTo, files
<1>5. FilesAreAccepted'
  BY <1>1, DriverAssumption DEF FilesAreAccepted, Accepted, FailToOpen, GoTo, files
<1> QED BY <1>2, <1>3, <1>4, <1>5, OneMoves

(* Opening disturbs all others and leaves no valid object. *)
LEMMA OpenObjectStep == ASSUME Inv, NEW c \in Compilers, OpenObject(c) PROVE Inv'
<1>1. TypeOK /\ FilesAreAccepted /\ Local(c)
  BY InvParts
<1>2. TypeOK'
  BY <1>1 DEF TypeOK, Contents, OpenObject, GoTo
<1>3. \A d \in Compilers \ {c} : Same(d)
  BY <1>1 DEF TypeOK, Same, OpenObject, GoTo
<1>4. Local(c)'
  BY <1>1, DriverAssumption DEF TypeOK, Local, Accepted, BackEnd, Passed, OpenObject, GoTo
<1>5. FilesAreAccepted'
  BY <1>1, DriverAssumption DEF FilesAreAccepted, Accepted, OpenObject, GoTo
<1> QED BY <1>2, <1>3, <1>4, <1>5, OneMoves

(* What is written is the accepted program, or no object at all. *)
LEMMA WriteObjectStep == ASSUME Inv, NEW c \in Compilers, WriteObject(c) PROVE Inv'
<1>1. TypeOK /\ FilesAreAccepted /\ Local(c)
  BY InvParts
<1>2. TypeOK'
  <2>1. program[c] \in Programs
    BY <1>1 DEF TypeOK
  <2>2. output' \in Contents
    BY <1>1, <2>1 DEF TypeOK, WriteObject, Contents
  <2>3. disturbed' \in [Compilers -> BOOLEAN]
    BY <1>1 DEF TypeOK, WriteObject
  <2> QED BY <1>1, <2>2, <2>3 DEF TypeOK, WriteObject, GoTo
<1>3. \A d \in Compilers \ {c} : Same(d)
  BY <1>1 DEF TypeOK, Same, WriteObject, GoTo
<1>4. Local(c)'
  BY <1>1, DriverAssumption DEF TypeOK, Local, Accepted, BackEnd, Passed, WriteObject, GoTo
<1>5. FilesAreAccepted'
  BY <1>1, DriverAssumption DEF FilesAreAccepted, Accepted, WriteObject, GoTo, Local, BackEnd
<1> QED BY <1>2, <1>3, <1>4, <1>5, OneMoves

(* Undisturbed, the object that is linked is the invocation's own. *)
LEMMA LinkStep == ASSUME Inv, NEW c \in Compilers, Link(c) PROVE Inv'
<1>1. TypeOK /\ FilesAreAccepted /\ Local(c)
  BY InvParts
<1>2. TypeOK'
  BY <1>1 DEF TypeOK, Contents, Link, Exit, GoTo
<1>3. \A d \in Compilers \ {c} : Same(d)
  BY <1>1 DEF TypeOK, Same, Link, Exit, GoTo
<1>4. Local(c)'
  <2>1. /\ stage[c] = "linking" /\ program' = program /\ options' = options /\ output' = output
        /\ ran' = ran /\ disturbed' = disturbed
    BY DEF Link, Exit, GoTo
  <2>2. CASE /\ output \in Programs /\ built' = [built EXCEPT ![c] = output] /\ GoTo(c, "viewing")
    <3>1. built'[c] = output /\ stage'[c] = "viewing" /\ status' = status
      BY <1>1, <2>2 DEF TypeOK, GoTo
    <3>2. ~disturbed[c] => output = program[c]
      BY <1>1, <2>1, <2>2, DriverAssumption DEF Local
    <3>3. Accepted(output)
      BY <1>1, <2>2 DEF FilesAreAccepted
    <3> QED BY <1>1, <2>1, <2>2, <3>1, <3>2, <3>3 DEF Local, BackEnd, Passed, Accepted
  <2>3. CASE built' = built /\ Exit(c, "error")
    <3>1. stage'[c] = "ended" /\ status'[c] = "error"
      BY <1>1, <2>3 DEF TypeOK, Exit
    <3> QED BY <1>1, <2>1, <2>3, <3>1 DEF Local, BackEnd, Passed, Accepted
  <2> QED BY <2>2, <2>3 DEF Link
<1>5. FilesAreAccepted'
  BY <1>1, DriverAssumption DEF FilesAreAccepted, Accepted, Link, Exit, GoTo
<1> QED BY <1>2, <1>3, <1>4, <1>5, OneMoves

(* Behind the link the exit status 0 is earned. *)
LEMMA ViewGraphStep == ASSUME Inv, NEW c \in Compilers, ViewGraph(c) PROVE Inv'
<1>1. TypeOK /\ FilesAreAccepted /\ Local(c)
  BY InvParts
<1>2. TypeOK'
  BY <1>1 DEF TypeOK, Contents, ViewGraph, Exit, GoTo, files, results
<1>3. \A d \in Compilers \ {c} : Same(d)
  BY <1>1 DEF TypeOK, Same, ViewGraph, Exit, GoTo, files, results
<1>4. Local(c)'
  BY <1>1, DriverAssumption
     DEF TypeOK, Local, Accepted, BackEnd, Passed, ViewGraph, Exit, GoTo, files, results
<1>5. FilesAreAccepted'
  BY <1>1, DriverAssumption
     DEF FilesAreAccepted, Accepted, ViewGraph, Exit, GoTo, files, results
<1> QED BY <1>2, <1>3, <1>4, <1>5, OneMoves

(* Whatever bin.o holds, it was accepted once. *)
LEMMA RunStep == ASSUME Inv, NEW c \in Compilers, Run(c) PROVE Inv'
<1>1. TypeOK /\ FilesAreAccepted /\ Local(c)
  BY InvParts
<1>2. TypeOK'
  BY <1>1 DEF TypeOK, Contents, Run, Exit, files
<1>3. \A d \in Compilers \ {c} : Same(d)
  BY <1>1 DEF TypeOK, Same, Run, Exit, files
<1>4. Local(c)'
  BY <1>1, DriverAssumption
     DEF TypeOK, Local, Accepted, BackEnd, Passed, Run, Exit, files, FilesAreAccepted
<1>5. FilesAreAccepted'
  BY <1>1, DriverAssumption DEF FilesAreAccepted, Accepted, Run, Exit, files
<1> QED BY <1>2, <1>3, <1>4, <1>5, OneMoves

(* Every step of some invocation preserves Inv. *)
LEMMA NextInv == Inv /\ [Next]_vars => Inv'
<1> SUFFICES ASSUME Inv, [Next]_vars PROVE Inv'
  OBVIOUS
<1>1. CASE Next
  <2>1. PICK c \in Compilers : Invoke(c) \/ Step(c)
    BY <1>1 DEF Next
  <2> QED BY <2>1, InvokeStep, CheckStep, SaveAstStep, GenerateStep, FailToOpenStep, OpenObjectStep,
             WriteObjectStep, LinkStep, ViewGraphStep, RunStep DEF Step
<1>2. CASE UNCHANGED vars
  <2>1. /\ output' = output /\ bin' = bin /\ stage' = stage /\ program' = program /\ options' = options
        /\ status' = status /\ built' = built /\ ran' = ran /\ disturbed' = disturbed
    BY <1>2 DEF vars
  <2>2. TypeOK' /\ OnlyAcceptedProgramsAreBuilt'
    BY <2>1 DEF Inv, TypeOK, OnlyAcceptedProgramsAreBuilt
  <2>3. SuccessIsEarned' /\ OnlyDisturbedBuildsGoWrong'
    BY <2>1 DEF Inv, SuccessIsEarned, OnlyDisturbedBuildsGoWrong
  <2>4. StagesAreEarned' /\ OutputIsOwn'
    BY <2>1 DEF Inv, StagesAreEarned, OutputIsOwn
  <2> QED BY <2>2, <2>3, <2>4 DEF Inv
<1> QED BY <1>1, <1>2

(* Inv is an invariant, however many invocations share the directory. *)
THEOREM DriverInvariant == Spec => []Inv
<1> QED BY InitInv, NextInv, PTL DEF Spec

(* No refused program is ever built or run. *)
THEOREM NothingRefusedIsBuilt == Spec => []OnlyAcceptedProgramsAreBuilt
<1>1. Inv => OnlyAcceptedProgramsAreBuilt
  BY DEF Inv
<1> QED BY <1>1, DriverInvariant, PTL

(* The exit status 0 is only given to a program that was accepted and, if  *)
(* wanted, linked.                                                         *)
THEOREM SuccessIsAlwaysEarned == Spec => []SuccessIsEarned
<1>1. Inv => SuccessIsEarned
  BY DEF Inv
<1> QED BY <1>1, DriverInvariant, PTL

(* Only an unopened or shared object file makes a build take the wrong     *)
(* program.                                                                *)
THEOREM UndisturbedBuildsAreRight == Spec => []OnlyDisturbedBuildsGoWrong
<1>1. Inv => OnlyDisturbedBuildsGoWrong
  BY DEF Inv
<1> QED BY <1>1, DriverInvariant, PTL

----------------------------------------------------------------------------
(***************************************************************************)
(* Declarations.                                                           *)
(***************************************************************************)

(* The phases behind each pass; a program that was given up is behind none. *)
AfterBodies == {"main"} \cup Generating
AfterClassBodies == {"bodies"} \cup AfterBodies
AfterGlobals == {"classBodies"} \cup AfterClassBodies
AfterFunctions == {"globals"} \cup AfterGlobals
AfterClasses == {"functions"} \cup AfterFunctions
AfterNames == {"classes"} \cup AfterClasses
AfterGenBodies == {"done"}
AfterGenClasses == {"genSizes", "genBodies", "done"}
AfterGenFunctions == {"genClasses", "search"} \cup AfterGenClasses

(* The pass is done with its k-th declaration. *)
Done(pass, after, k) == phase \in after \/ (phase = pass /\ k < at)

(* The global names so far, each as what it was declared first. *)
ScopeIsFirst ==
  \A n \in DOMAIN scope : \E k \in DOMAIN Declared :
    /\ Declared[k] = n /\ scope[n] = Kinds[k]
    /\ \A i \in 1..(k - 1) : Declared[i] # n
    /\ phase = "names" => k < at

ScopeIsFull ==
  \A k \in DOMAIN Declared : Done("names", AfterNames, k) =>
    /\ Declared[k] \in DOMAIN scope
    /\ ~errors => \A i \in 1..(k - 1) : Declared[i] # Declared[k]

(* Whatever is resolved is what the final scope says. *)
TypesAreRight ==
  \A p \in DOMAIN types :
    /\ p[1] \in Lists /\ p[2] \in DOMAIN VariablesOf(p[1])
    /\ types[p] = TypeOfVariable(VariablesOf(p[1])[p[2]])
    /\ phase # "names"

SignaturesAreRight ==
  \A p \in DOMAIN signatures :
    /\ p[1] \in Lists /\ p[2] \in DOMAIN FunctionsOf(p[1])
    /\ signatures[p] = Signature(FunctionsOf(p[1])[p[2]])
    /\ phase # "names"

(* Of list c everything is resolved, and in order unless one was reported. *)
VariablesResolved(c, j) ==
  /\ <<c, j>> \in DOMAIN types
  /\ ~errors => VariableIsOk(VariablesOf(c)[j])

FunctionResolved(c, k) ==
  /\ <<c, k>> \in DOMAIN signatures
  /\ ~errors => NoType \notin ToSet(Signature(FunctionsOf(c)[k]))

AllResolved ==
  /\ \A c \in DOMAIN prog.classes : Done("classes", AfterClasses, c) =>
       /\ \A j \in DOMAIN VariablesOf(c) : VariablesResolved(c, j)
       /\ \A k \in DOMAIN FunctionsOf(c) : FunctionResolved(c, k)
  /\ \A k \in DOMAIN FunctionsOf(0) : Done("functions", AfterFunctions, k) => FunctionResolved(0, k)
  /\ \A j \in DOMAIN VariablesOf(0) : Done("globals", AfterGlobals, j) => VariablesResolved(0, j)

(* A function called main is the main function, or its result is unknown. *)
MainIsRight(f) ==
  f.name = "main" => Signature(f)[1] = NoType \/ Signature(f) = <<"i32">>

BodiesChecked ==
  /\ \A c \in DOMAIN prog.classes : Done("classBodies", AfterClassBodies, c) /\ ~errors =>
       /\ IsInjective(NamesOf(VariablesOf(c)) \o <<"this">> \o NamesOf(FunctionsOf(c)))
       /\ \A k \in DOMAIN FunctionsOf(c) : MainIsRight(FunctionsOf(c)[k])
  /\ \A k \in DOMAIN FunctionsOf(0) : Done("bodies", AfterBodies, k) =>
       /\ ~errors => MainIsRight(FunctionsOf(0)[k])
       /\ FunctionsOf(0)[k].name = "main" /\ Signature(FunctionsOf(0)[k]) = <<"i32">> => main # 0

MainIsMain ==
  main # 0 => /\ phase # "names" /\ main \in DOMAIN prog.functions
              /\ prog.functions[main].name = "main"

(* Errors are real, and none is left behind. *)
Judged ==
  /\ errors => ~WellDeclared
  /\ phase \in {"refused", "crashed"} => ~WellDeclared
  /\ phase \in Generating => WellDeclared /\ ~errors /\ main # 0

DecoratedInv ==
  /\ ScopeIsFirst /\ ScopeIsFull /\ TypesAreRight /\ SignaturesAreRight /\ AllResolved
  /\ BodiesChecked /\ MainIsMain /\ Judged

(* No class inside of d, nor d itself, is inside of itself. *)
Clean(d) == \A e \in {d} \cup Embedded(d) : e \notin Embedded(e)

HasPlainSignature(f) == ToSet(Signature(f)) \subseteq BuiltIn /\ "void" \notin ToSet(f.args)

HasPlainParts(c) ==
  /\ \A j \in DOMAIN VariablesOf(c) : VariablesOf(c)[j].typeName # "void"
  /\ \A k \in DOMAIN FunctionsOf(c) : HasPlainSignature(FunctionsOf(c)[k])

(* What is generated of the functions and classes, up to where it is. *)
GeneratedInv ==
  /\ \A k \in DOMAIN FunctionsOf(0) :
       Done("genFunctions", AfterGenFunctions, k) => HasPlainSignature(FunctionsOf(0)[k])
  /\ \A c \in DOMAIN prog.classes :
       Done("genClasses", AfterGenClasses, c) \/ Done("search", {}, c) =>
         c \in bodies /\ Clean(c) /\ HasPlainParts(c)
  /\ \A c \in DOMAIN prog.classes : Done("genBodies", AfterGenBodies, c) =>
       \A k \in DOMAIN FunctionsOf(c) : ~FunctionsOf(c)[k].extern
  /\ ThrowsForLoopsAndObjects

(* Member j of class c is no object, or one of a clean class. *)
ClassOfMember(c, j, d) ==
  types[<<c, j>>] = prog.classes[d].name
MemberIsClean(c, j) ==
  \A d \in DOMAIN prog.classes : ClassOfMember(c, j, d) => Clean(d)

(* One call of the search for loops, the i-th, and the call above it. *)
FrameOK(f, i) ==
  /\ f.class \in DOMAIN prog.classes
  /\ f.next \in 1..(Len(VariablesOf(f.class)) + 1)
  /\ f.parents \subseteq DOMAIN prog.classes
  /\ Cardinality(f.parents) = i - 1
  /\ \A p \in f.parents : p = f.class \/ f.class \in Embedded(p)

FrameIsClean(f, last) ==
  \A j \in 1..(f.next - 1) : last \/ j # f.next - 1 => MemberIsClean(f.class, j)

FrameWaits(f, above) == f.next > 1 /\ ClassOfMember(f.class, f.next - 1, above.class)

Calls == [class : Nat, next : Nat, parents : SUBSET Nat]

SearchInv ==
  /\ frames \in Seq(Calls)
  /\ phase # "search" => frames = <<>>
  /\ phase = "search" => at \in DOMAIN prog.classes
  /\ \A i \in DOMAIN frames : FrameOK(frames[i], i)
  /\ ~looped => \A i \in DOMAIN frames : FrameIsClean(frames[i], i = Len(frames))
  /\ \A i \in 1..(Len(frames) - 1) : FrameWaits(frames[i], frames[i + 1])
  /\ phase = "search" /\ frames # <<>> => frames[1].class = at
  /\ phase = "search" /\ frames = <<>> /\ ~looped => Clean(at)
  /\ phase = "search" /\ looped => HasLoop

----------------------------------------------------------------------------
(* The lists of a program are lists. *)
LEMMA ProgramShape ==
  ASSUME prog \in AllPrograms
  PROVE  /\ prog.classes \in Seq(Classes) /\ prog.globals \in Seq(Variables)
         /\ prog.functions \in Seq(Functions)
         /\ Lists = 0..Len(prog.classes) /\ DOMAIN prog.classes = 1..Len(prog.classes)
         /\ \A c \in Lists : /\ VariablesOf(c) \in Seq(Variables)
                             /\ FunctionsOf(c) \in Seq(Functions)
<1>1. /\ prog.classes \in Seq(Classes) /\ prog.globals \in Seq(Variables)
      /\ prog.functions \in Seq(Functions)
  <2>1. prog.globals \in Seq({v \in Variables : v.init # "none"})
    BY DEF AllPrograms
  <2>2. Seq({v \in Variables : v.init # "none"}) \subseteq Seq(Variables)
    BY SeqMonotonic
  <2>. QED  BY <2>1, <2>2 DEF AllPrograms
<1>2. DOMAIN prog.classes = 1..Len(prog.classes)
  BY <1>1
<1>3. Lists = 0..Len(prog.classes)
  <2>1. Len(prog.classes) \in Nat
    BY <1>1
  <2>. QED  BY <1>2, <2>1 DEF Lists
<1>4. ASSUME NEW c \in Lists PROVE VariablesOf(c) \in Seq(Variables) /\ FunctionsOf(c) \in Seq(Functions)
  <2>1. CASE c = 0
    BY <1>1, <2>1 DEF VariablesOf, FunctionsOf
  <2>2. CASE c # 0
    <3>1. prog.classes[c] \in Classes
      BY <1>1, <1>2, <2>2 DEF Lists
    <3>. QED  BY <2>2, <3>1 DEF VariablesOf, FunctionsOf, Classes
  <2>. QED  BY <2>1, <2>2
<1>. QED  BY <1>1, <1>2, <1>3, <1>4

LEMMA NamesAre ==
  ASSUME NEW S, NEW list \in Seq(S), \A x \in S : x.name \in Names
  PROVE  /\ NamesOf(list) \in Seq(Names) /\ Len(NamesOf(list)) = Len(list)
         /\ \A k \in 1..Len(list) : NamesOf(list)[k] = list[k].name
<1>1. Len(list) \in Nat /\ DOMAIN list = 1..Len(list) /\ \A k \in 1..Len(list) : list[k] \in S
  BY LenProperties, ElementOfSeq
<1>2. NamesOf(list) \in [1..Len(list) -> Names]
  BY <1>1 DEF NamesOf
<1>. QED  BY <1>1, <1>2, IsASeq, LenProperties DEF NamesOf

(* The positions of the globals, the functions and the classes in Declared. *)
BeforeFunctions == Len(prog.globals)
BeforeClasses == Len(prog.globals) + Len(prog.functions)
NumberOfNames == Len(prog.globals) + Len(prog.functions) + Len(prog.classes)

LEMMA DeclaredIs ==
  ASSUME prog \in AllPrograms
  PROVE  /\ DOMAIN Declared = 1..NumberOfNames /\ DOMAIN Kinds = 1..NumberOfNames
         /\ Len(Declared) = NumberOfNames
         /\ \A k \in 1..NumberOfNames : Declared[k] \in Names
         /\ \A k \in 1..NumberOfNames : Kinds[k] = "class" <=> k > BeforeClasses
         /\ \A k \in 1..Len(prog.globals) : Declared[k] = prog.globals[k].name
         /\ \A k \in 1..Len(prog.functions) : Declared[BeforeFunctions + k] = prog.functions[k].name
         /\ \A k \in 1..Len(prog.classes) : Declared[BeforeClasses + k] = prog.classes[k].name
<1>. DEFINE a == NamesOf(prog.globals)
            b == NamesOf(prog.functions)
            c == NamesOf(prog.classes)
            ka == [k \in DOMAIN prog.globals |-> "variable"]
            kb == [k \in DOMAIN prog.functions |-> "function"]
            kc == [k \in DOMAIN prog.classes |-> "class"]
            l == Len(prog.globals)
            m == Len(prog.functions)
            n == Len(prog.classes)
            Word == {"variable", "function", "class"}
<1>. HIDE DEF a, b, c
<1>1. /\ a \in Seq(Names) /\ Len(a) = l /\ \A k \in 1..l : a[k] = prog.globals[k].name
  <2>1. \A x \in Variables : x.name \in Names
    BY DEF Variables
  <2>. QED  BY <2>1, ProgramShape, NamesAre DEF a
<1>2. /\ b \in Seq(Names) /\ Len(b) = m /\ \A k \in 1..m : b[k] = prog.functions[k].name
  <2>1. \A x \in Functions : x.name \in Names
    BY DEF Functions
  <2>. QED  BY <2>1, ProgramShape, NamesAre DEF b
<1>3. /\ c \in Seq(Names) /\ Len(c) = n /\ \A k \in 1..n : c[k] = prog.classes[k].name
  <2>1. \A x \in Classes : x.name \in Names
    BY DEF Classes
  <2>. QED  BY <2>1, ProgramShape, NamesAre DEF c
<1>4. /\ l \in Nat /\ m \in Nat /\ n \in Nat
      /\ DOMAIN prog.globals = 1..l /\ DOMAIN prog.functions = 1..m /\ DOMAIN prog.classes = 1..n
  BY ProgramShape, LenProperties
<1>. HIDE DEF l, m, n
<1>5. /\ ka \in Seq(Word) /\ Len(ka) = l /\ \A k \in 1..l : ka[k] = "variable"
      /\ kb \in Seq(Word) /\ Len(kb) = m /\ \A k \in 1..m : kb[k] = "function"
      /\ kc \in Seq(Word) /\ Len(kc) = n /\ \A k \in 1..n : kc[k] = "class"
  <2>1. ka \in [1..l -> Word] /\ kb \in [1..m -> Word] /\ kc \in [1..n -> Word]
    BY <1>4
  <2>2. ka \in Seq(Word) /\ kb \in Seq(Word) /\ kc \in Seq(Word)
    BY <1>4, <2>1, IsASeq
  <2>3. Len(ka) = l /\ Len(kb) = m /\ Len(kc) = n
    BY <1>4, <2>1, <2>2, LenProperties
  <2>. QED  BY <1>4, <2>2, <2>3
<1>. HIDE DEF ka, kb, kc, Word
<1>6. /\ a \o b \in Seq(Names) /\ Len(a \o b) = l + m
      /\ \A k \in 1..(l + m) : (a \o b)[k] = IF k <= l THEN a[k] ELSE b[k - l]
  BY <1>1, <1>2, ConcatProperties
<1>7. /\ (a \o b) \o c \in Seq(Names) /\ Len((a \o b) \o c) = l + m + n
      /\ \A k \in 1..(l + m + n) :
           ((a \o b) \o c)[k] = IF k <= l + m THEN (a \o b)[k] ELSE c[k - (l + m)]
  <2>. DEFINE ab == a \o b
  <2>1. ab \in Seq(Names) /\ Len(ab) = l + m
    BY <1>6
  <2>. HIDE DEF ab
  <2>2. /\ ab \o c \in Seq(Names) /\ Len(ab \o c) = (l + m) + n
        /\ \A k \in 1..((l + m) + n) : (ab \o c)[k] = IF k <= l + m THEN ab[k] ELSE c[k - (l + m)]
    <3>1. c \in Seq(Names)
      BY <1>3
    <3>2. /\ ab \o c \in Seq(Names) /\ Len(ab \o c) = Len(ab) + Len(c)
          /\ \A k \in 1..(Len(ab) + Len(c)) :
               (ab \o c)[k] = IF k <= Len(ab) THEN ab[k] ELSE c[k - Len(ab)]
      BY <2>1, <3>1, ConcatProperties
    <3>. QED  BY <1>3, <2>1, <3>2
  <2>. QED  BY <2>2 DEF ab
<1>8. /\ ka \o kb \in Seq(Word) /\ Len(ka \o kb) = l + m
      /\ \A k \in 1..(l + m) : (ka \o kb)[k] = IF k <= l THEN ka[k] ELSE kb[k - l]
  BY <1>5, ConcatProperties
<1>9. /\ (ka \o kb) \o kc \in Seq(Word) /\ Len((ka \o kb) \o kc) = l + m + n
      /\ \A k \in 1..(l + m + n) :
           ((ka \o kb) \o kc)[k] = IF k <= l + m THEN (ka \o kb)[k] ELSE kc[k - (l + m)]
  <2>. DEFINE kab == ka \o kb
  <2>1. kab \in Seq(Word) /\ Len(kab) = l + m
    BY <1>8
  <2>. HIDE DEF kab
  <2>2. /\ kab \o kc \in Seq(Word) /\ Len(kab \o kc) = (l + m) + n
        /\ \A k \in 1..((l + m) + n) : (kab \o kc)[k] = IF k <= l + m THEN kab[k] ELSE kc[k - (l + m)]
    <3>1. kc \in Seq(Word)
      BY <1>5
    <3>2. /\ kab \o kc \in Seq(Word) /\ Len(kab \o kc) = Len(kab) + Len(kc)
          /\ \A k \in 1..(Len(kab) + Len(kc)) :
               (kab \o kc)[k] = IF k <= Len(kab) THEN kab[k] ELSE kc[k - Len(kab)]
      BY <2>1, <3>1, ConcatProperties
    <3>. QED  BY <1>5, <2>1, <3>2
  <2>. QED  BY <2>2 DEF kab
<1>10. Declared = (a \o b) \o c /\ Kinds = (ka \o kb) \o kc
  BY DEF Declared, Kinds, a, b, c, ka, kb, kc
<1>11. NumberOfNames = l + m + n /\ BeforeClasses = l + m /\ BeforeFunctions = l
  BY DEF NumberOfNames, BeforeClasses, BeforeFunctions, l, m, n
<1>12. /\ DOMAIN Declared = 1..NumberOfNames /\ DOMAIN Kinds = 1..NumberOfNames /\ Len(Declared) = NumberOfNames
       /\ \A k \in 1..NumberOfNames : Declared[k] \in Names
  BY <1>4, <1>7, <1>9, <1>10, <1>11, LenProperties, ElementOfSeq
<1>13. \A k \in 1..NumberOfNames : Kinds[k] = "class" <=> k > BeforeClasses
  <2>1. ASSUME NEW k \in 1..NumberOfNames PROVE Kinds[k] = "class" <=> k > BeforeClasses
    <3>1. CASE k <= l
      BY <1>4, <1>5, <1>8, <1>9, <1>10, <1>11, <3>1
    <3>2. CASE k > l /\ k <= l + m
      BY <1>4, <1>5, <1>8, <1>9, <1>10, <1>11, <3>2
    <3>3. CASE k > l + m
      BY <1>4, <1>5, <1>9, <1>10, <1>11, <3>3
    <3>. QED  BY <1>4, <1>11, <3>1, <3>2, <3>3
  <2>. QED  BY <2>1
<1>14. \A k \in 1..l : Declared[k] = prog.globals[k].name
  BY <1>1, <1>4, <1>6, <1>7, <1>10
<1>15. \A k \in 1..m : Declared[BeforeFunctions + k] = prog.functions[k].name
  BY <1>2, <1>4, <1>6, <1>7, <1>10, <1>11
<1>16. \A k \in 1..n : Declared[BeforeClasses + k] = prog.classes[k].name
  <2>1. ASSUME NEW k \in 1..n PROVE Declared[BeforeClasses + k] = c[k]
    <3>1. (l + m) + k \in 1..(l + m + n) /\ ~((l + m) + k <= l + m) /\ ((l + m) + k) - (l + m) = k
      BY <1>4
    <3>. QED  BY <1>7, <1>10, <1>11, <3>1
  <2>. QED  BY <1>3, <2>1
<1>. QED  BY <1>12, <1>13, <1>14, <1>15, <1>16 DEF l, m, n

(* A program is the same after a step, and all that is asked of it alone. *)
LEMMA SameProgram ==
  ASSUME prog' = prog
  PROVE  /\ VariablesOf(0)' = VariablesOf(0) /\ FunctionsOf(0)' = FunctionsOf(0)
         /\ \A c : VariablesOf(c)' = VariablesOf(c) /\ FunctionsOf(c)' = FunctionsOf(c)
         /\ Declared' = Declared /\ Kinds' = Kinds /\ Lists' = Lists
         /\ WellDeclared' <=> WellDeclared
         /\ \A c : Embedded(c)' = Embedded(c) /\ MemberClasses(c)' = MemberClasses(c)
         /\ \A d : Clean(d)' <=> Clean(d)
         /\ HasLoop' <=> HasLoop
         /\ PassesObjects' <=> PassesObjects
         /\ HasExternMember' <=> HasExternMember
         /\ VoidIsData' <=> VoidIsData
<1>1. /\ VariablesOf(0)' = VariablesOf(0) /\ FunctionsOf(0)' = FunctionsOf(0)
      /\ \A c : VariablesOf(c)' = VariablesOf(c) /\ FunctionsOf(c)' = FunctionsOf(c)
  BY DEF VariablesOf, FunctionsOf
<1>2. Declared' = Declared /\ Kinds' = Kinds /\ Lists' = Lists
  BY DEF Declared, Kinds, Lists
<1>3. WellDeclared' <=> WellDeclared
  BY DEF WellDeclared, Known, IsClass, VariablesOf, FunctionsOf, Declared, Lists, NamesOf, ToSet
<1>4. \A c : MemberClasses(c)' = MemberClasses(c)
  BY <1>1 DEF MemberClasses
<1>5. \A c : Embedded(c)' = Embedded(c)
  BY <1>4 DEF Embedded, HasAllParts
<1>6. \A d : Clean(d)' <=> Clean(d)
  BY <1>5 DEF Clean
<1>7. HasLoop' <=> HasLoop
  BY <1>5 DEF HasLoop
<1>8. PassesObjects' <=> PassesObjects
  BY <1>1, <1>2 DEF PassesObjects, AllFunctionsIn, IsClass
<1>9. HasExternMember' <=> HasExternMember
  BY <1>1 DEF HasExternMember
<1>10. VoidIsData' <=> VoidIsData
  BY <1>1, <1>2 DEF VoidIsData, AllFunctionsIn
<1>. QED  BY <1>1, <1>2, <1>3, <1>4, <1>5, <1>6, <1>7, <1>8, <1>9, <1>10

----------------------------------------------------------------------------
(* What a class consists of.                                               *)
LEMMA PartsAreEmbedded ==
  ASSUME NEW c
  PROVE  HasAllParts(c, Embedded(c)) /\ Embedded(c) \subseteq DOMAIN prog.classes
<1>1. MemberClasses(c) \subseteq Embedded(c)
  BY DEF Embedded, HasAllParts, MemberClasses
<1>2. ASSUME NEW e \in Embedded(c), NEW d \in MemberClasses(e) PROVE d \in Embedded(c)
  BY <1>2 DEF Embedded, HasAllParts, MemberClasses
<1>. QED  BY <1>1, <1>2 DEF HasAllParts, Embedded

(* Parts of parts are parts. *)
LEMMA EmbeddedIsTransitive ==
  ASSUME NEW c, NEW e \in MemberClasses(c) \cup Embedded(c), NEW d \in Embedded(e)
  PROVE  d \in Embedded(c)
<1>1. e \in Embedded(c)
  BY PartsAreEmbedded DEF HasAllParts
<1>2. ASSUME NEW S \in SUBSET DOMAIN prog.classes, HasAllParts(c, S) PROVE d \in S
  <2>1. e \in S
    BY <1>1, <1>2 DEF Embedded
  <2>2. HasAllParts(e, S)
    BY <1>2, <2>1 DEF HasAllParts
  <2>. QED  BY <2>2 DEF Embedded
<1>. QED  BY <1>2 DEF Embedded

(* A part is a member's class or a part of one. *)
LEMMA EmbeddedByMembers ==
  ASSUME NEW c, NEW d \in Embedded(c)
  PROVE  \E e \in MemberClasses(c) : d \in {e} \cup Embedded(e)
<1>. DEFINE S == {x \in DOMAIN prog.classes : \E e \in MemberClasses(c) : x \in {e} \cup Embedded(e)}
<1>1. MemberClasses(c) \subseteq S
  BY DEF MemberClasses
<1>2. ASSUME NEW x \in S, NEW y \in MemberClasses(x) PROVE y \in S
  <2>1. PICK e \in MemberClasses(c) : x \in {e} \cup Embedded(e)
    OBVIOUS
  <2>2. y \in Embedded(e)
    BY <2>1, PartsAreEmbedded DEF HasAllParts
  <2>3. y \in DOMAIN prog.classes
    BY DEF MemberClasses
  <2>. QED  BY <2>2, <2>3
<1>3. HasAllParts(c, S)
  BY <1>1, <1>2 DEF HasAllParts
<1>4. d \in S
  <2>. HIDE DEF S
  <2>1. S \in SUBSET DOMAIN prog.classes
    BY DEF S
  <2>. QED  BY <1>3, <2>1 DEF Embedded
<1>. QED  BY <1>4

(* A class whose members are clean is. *)
LEMMA CleanByMembers ==
  ASSUME NEW c \in DOMAIN prog.classes, \A e \in MemberClasses(c) : Clean(e)
  PROVE  Clean(c)
<1>1. ASSUME NEW d \in Embedded(c) PROVE d \notin Embedded(d)
  BY EmbeddedByMembers DEF Clean
<1>. QED  BY <1>1 DEF Clean

----------------------------------------------------------------------------
(* What resolving means.                                                   *)
NamesKnown ==
  prog \in AllPrograms /\ ScopeIsFirst /\ ScopeIsFull /\ phase \in AfterNames

LEMMA ClassPositions ==
  ASSUME prog \in AllPrograms
  PROVE  /\ BeforeClasses \in Nat /\ Len(prog.classes) \in Nat /\ NumberOfNames = BeforeClasses + Len(prog.classes)
         /\ DOMAIN prog.classes = 1..Len(prog.classes)
<1>1. /\ Len(prog.globals) \in Nat /\ Len(prog.functions) \in Nat /\ Len(prog.classes) \in Nat
      /\ DOMAIN prog.classes = 1..Len(prog.classes)
  BY ProgramShape, LenProperties
<1>2. NumberOfNames = BeforeClasses + Len(prog.classes)
  BY DEF NumberOfNames, BeforeClasses
<1>3. BeforeClasses \in Nat
  <2>1. \A a, b \in Nat : a + b \in Nat
    OBVIOUS
  <2>. QED  BY <1>1, <2>1 DEF BeforeClasses
<1>. QED  BY <1>1, <1>2, <1>3

LEMMA TypeForIs ==
  ASSUME prog \in AllPrograms, ScopeIsFirst, NEW n \in TypeNames
  PROVE  /\ TypeFor(n) \in {n, NoType} /\ n # NoType
         /\ TypeFor(n) = n => Known(n)
<1>1. n # NoType
  BY ProgramsAssumption DEF TypeNames, BuiltIn, NoType
<1>2. ASSUME n \in DOMAIN scope, scope[n] = "class" PROVE IsClass(n)
  <2>1. PICK k \in DOMAIN Declared : Declared[k] = n /\ scope[n] = Kinds[k]
    BY <1>2 DEF ScopeIsFirst
  <2>2. /\ BeforeClasses \in Nat /\ Len(prog.classes) \in Nat /\ NumberOfNames = BeforeClasses + Len(prog.classes)
        /\ DOMAIN prog.classes = 1..Len(prog.classes)
    BY ClassPositions
  <2>3. k \in 1..NumberOfNames /\ k > BeforeClasses
    BY <1>2, <2>1, DeclaredIs
  <2>4. k - BeforeClasses \in 1..Len(prog.classes) /\ BeforeClasses + (k - BeforeClasses) = k
    BY <2>2, <2>3
  <2>. QED  BY <2>1, <2>2, <2>4, DeclaredIs DEF IsClass
<1>. QED  BY <1>1, <1>2 DEF TypeFor, Known

LEMMA KnownIsFound ==
  ASSUME NamesKnown, IsInjective(Declared), NEW n \in TypeNames, Known(n)
  PROVE  TypeFor(n) = n
<1>1. CASE n \in BuiltIn
  BY <1>1 DEF TypeFor
<1>2. CASE IsClass(n)
  <2>1. PICK k \in DOMAIN prog.classes : prog.classes[k].name = n
    BY <1>2 DEF IsClass
  <2>2. /\ BeforeClasses \in Nat /\ Len(prog.classes) \in Nat /\ NumberOfNames = BeforeClasses + Len(prog.classes)
        /\ DOMAIN prog.classes = 1..Len(prog.classes)
    BY ClassPositions DEF NamesKnown
  <2>3. BeforeClasses + k \in 1..NumberOfNames /\ BeforeClasses + k > BeforeClasses
    BY <2>2
  <2>4. BeforeClasses + k \in DOMAIN Declared /\ Declared[BeforeClasses + k] = n /\ Kinds[BeforeClasses + k] = "class"
    BY <2>1, <2>2, <2>3, DeclaredIs DEF NamesKnown
  <2>5. n \in DOMAIN scope
    BY <2>4 DEF NamesKnown, ScopeIsFull, Done
  <2>6. PICK i \in DOMAIN Declared : Declared[i] = n /\ scope[n] = Kinds[i]
    BY <2>5 DEF NamesKnown, ScopeIsFirst
  <2>7. i = BeforeClasses + k
    BY <2>4, <2>6 DEF IsInjective
  <2>. QED  BY <2>4, <2>5, <2>6, <2>7 DEF TypeFor
<1>. QED  BY <1>1, <1>2 DEF Known

(* What WellDeclared asks of a variable and of a function. *)
GoodVariable(v) ==
  /\ v.typeName = Infer \/ Known(v.typeName)
  /\ v.init \in IF v.typeName = Infer THEN Literals ELSE {"none"} \cup ({v.typeName} \cap Literals)

GoodFunction(f) ==
  /\ {f.typeName} \cup ToSet(f.args) \subseteq {n \in TypeNames : Known(n)}
  /\ f.name = "main" => f.typeName = "i32" /\ f.args = <<>>

LEMMA OkIsGood ==
  ASSUME prog \in AllPrograms, ScopeIsFirst, NEW v \in Variables, VariableIsOk(v)
  PROVE  /\ GoodVariable(v)
         /\ TypeOfVariable(v) = IF v.typeName = Infer THEN v.init ELSE v.typeName
<1>1. v.typeName \in TypeNames \cup {Infer} /\ v.init \in Literals \cup {"other", "none"}
  BY DEF Variables
<1>2. TypeOfVariable(v) # NoType /\ v.init \in {"none", TypeOfVariable(v)}
  BY DEF VariableIsOk
<1>3. v.init # "other"
  BY <1>2 DEF TypeOfVariable
<1>4. CASE v.typeName = Infer
  BY <1>1, <1>2, <1>3, <1>4 DEF TypeOfVariable, GoodVariable
<1>5. CASE v.typeName # Infer
  <2>1. TypeOfVariable(v) = TypeFor(v.typeName) /\ v.typeName \in TypeNames
    BY <1>1, <1>3, <1>5 DEF TypeOfVariable
  <2>2. TypeFor(v.typeName) = v.typeName /\ Known(v.typeName)
    BY <1>2, <2>1, TypeForIs
  <2>. QED  BY <1>1, <1>2, <1>3, <1>5, <2>1, <2>2 DEF GoodVariable
<1>. QED  BY <1>4, <1>5

LEMMA GoodIsOk ==
  ASSUME NamesKnown, IsInjective(Declared), NEW v \in Variables, GoodVariable(v)
  PROVE  VariableIsOk(v) /\ ~MessageCrashes(v)
<1>1. v.typeName \in TypeNames \cup {Infer} /\ v.init \in Literals \cup {"other", "none"}
  BY DEF Variables
<1>2. v.init # "other"
  BY DEF GoodVariable, Literals, BuiltIn
<1>3. CASE v.typeName = Infer
  BY <1>2, <1>3 DEF GoodVariable, VariableIsOk, TypeOfVariable, MessageCrashes, Literals, BuiltIn, NoType, Infer
<1>4. CASE v.typeName # Infer
  <2>1. v.typeName \in TypeNames /\ v.typeName # NoType /\ TypeFor(v.typeName) = v.typeName
    BY <1>1, <1>4, KnownIsFound, TypeForIs DEF GoodVariable, NamesKnown
  <2>2. TypeOfVariable(v) = v.typeName
    BY <1>2, <1>4, <2>1 DEF TypeOfVariable
  <2>. QED  BY <1>4, <2>1, <2>2 DEF GoodVariable, VariableIsOk, MessageCrashes
<1>. QED  BY <1>3, <1>4

LEMMA SignatureIs ==
  ASSUME NEW f \in Functions
  PROVE  /\ f.args \in Seq(TypeNames) /\ f.typeName \in TypeNames
         /\ DOMAIN Signature(f) = 1..(1 + Len(f.args)) /\ Len(Signature(f)) = 1 + Len(f.args)
         /\ Signature(f)[1] = TypeFor(f.typeName)
         /\ \A j \in 1..Len(f.args) : Signature(f)[1 + j] = TypeFor(f.args[j])
         /\ ToSet(Signature(f)) = {TypeFor(n) : n \in {f.typeName} \cup ToSet(f.args)}
<1>1. f.args \in Seq(TypeNames) /\ f.typeName \in TypeNames
  BY DEF Functions
<1>. DEFINE A == {TypeFor(n) : n \in TypeNames}
            h == <<TypeFor(f.typeName)>>
            t == [j \in DOMAIN f.args |-> TypeFor(f.args[j])]
<1>2. Len(f.args) \in Nat /\ DOMAIN f.args = 1..Len(f.args) /\ \A j \in 1..Len(f.args) : f.args[j] \in TypeNames
  BY <1>1, LenProperties, ElementOfSeq
<1>3. h \in Seq(A) /\ Len(h) = 1 /\ h[1] = TypeFor(f.typeName)
  <2>. HIDE DEF A
  <2>1. TypeFor(f.typeName) \in A
    BY <1>1 DEF A
  <2>. QED  BY <2>1
<1>4. t \in Seq(A) /\ Len(t) = Len(f.args) /\ \A j \in 1..Len(f.args) : t[j] = TypeFor(f.args[j])
  <2>1. t \in [1..Len(f.args) -> A]
    BY <1>2
  <2>. HIDE DEF A
  <2>2. t \in Seq(A)
    BY <1>2, <2>1, IsASeq
  <2>. QED  BY <1>2, <2>2, LenProperties
<1>. HIDE DEF A, h, t
<1>5. /\ h \o t \in Seq(A) /\ Len(h \o t) = Len(h) + Len(t)
      /\ \A j \in 1..(Len(h) + Len(t)) : (h \o t)[j] = IF j <= Len(h) THEN h[j] ELSE t[j - Len(h)]
  <2>1. h \in Seq(A) /\ t \in Seq(A)
    BY <1>3, <1>4
  <2>. QED  BY <2>1, ConcatProperties
<1>6. Signature(f) = h \o t
  BY DEF Signature, h, t
<1>7. DOMAIN Signature(f) = 1..(1 + Len(f.args)) /\ Len(Signature(f)) = 1 + Len(f.args)
  BY <1>2, <1>3, <1>4, <1>5, <1>6, LenProperties
<1>8. Signature(f)[1] = TypeFor(f.typeName)
  BY <1>2, <1>3, <1>4, <1>5, <1>6
<1>9. \A j \in 1..Len(f.args) : Signature(f)[1 + j] = TypeFor(f.args[j])
  BY <1>2, <1>3, <1>4, <1>5, <1>6
<1>10. ASSUME NEW j \in 1..(1 + Len(f.args))
       PROVE  \E n \in {f.typeName} \cup ToSet(f.args) : Signature(f)[j] = TypeFor(n)
  <2>1. CASE j = 1
    BY <1>8, <2>1
  <2>2. CASE j # 1
    <3>1. j - 1 \in 1..Len(f.args) /\ 1 + (j - 1) = j
      BY <1>2, <2>2
    <3>2. Signature(f)[j] = TypeFor(f.args[j - 1]) /\ f.args[j - 1] \in ToSet(f.args)
      BY <1>2, <1>9, <3>1 DEF ToSet
    <3>. QED  BY <3>2
  <2>. QED  BY <2>1, <2>2
<1>11. ASSUME NEW n \in {f.typeName} \cup ToSet(f.args)
       PROVE  \E j \in 1..(1 + Len(f.args)) : Signature(f)[j] = TypeFor(n)
  <2>1. CASE n = f.typeName
    <3>1. 1 \in 1..(1 + Len(f.args))
      BY <1>2
    <3>. QED  BY <1>8, <2>1, <3>1
  <2>2. CASE n \in ToSet(f.args)
    <3>1. PICK j \in 1..Len(f.args) : n = f.args[j]
      BY <1>2, <2>2 DEF ToSet
    <3>2. 1 + j \in 1..(1 + Len(f.args))
      BY <1>2
    <3>. QED  BY <1>9, <3>1, <3>2
  <2>. QED  BY <2>1, <2>2
<1>12. ToSet(Signature(f)) = {TypeFor(n) : n \in {f.typeName} \cup ToSet(f.args)}
  BY <1>7, <1>10, <1>11 DEF ToSet
<1>. QED  BY <1>1, <1>7, <1>8, <1>9, <1>12

LEMMA SignatureIsTyped ==
  ASSUME NEW f \in Functions
  PROVE  Signature(f) \in Seq(TypeNames \cup {NoType}) /\ Signature(f) # <<>>
<1>. DEFINE S == TypeNames \cup {NoType}
            h == <<TypeFor(f.typeName)>>
            t == [j \in DOMAIN f.args |-> TypeFor(f.args[j])]
<1>1. /\ f.typeName \in TypeNames /\ Len(f.args) \in Nat /\ DOMAIN f.args = 1..Len(f.args)
      /\ \A j \in 1..Len(f.args) : f.args[j] \in TypeNames
  BY SignatureIs, LenProperties, ElementOfSeq
<1>2. \A n \in TypeNames : TypeFor(n) \in S
  BY DEF TypeFor
<1>3. TypeFor(f.typeName) \in S /\ t \in [1..Len(f.args) -> S]
  BY <1>1, <1>2
<1>4. Signature(f) = h \o t
  BY DEF Signature
<1>. HIDE DEF S
<1>5. h \in Seq(S)
  BY <1>3
<1>6. t \in Seq(S)
  BY <1>1, <1>3, IsASeq
<1>. HIDE DEF h, t
<1>7. Signature(f) \in Seq(S)
  BY <1>4, <1>5, <1>6, ConcatProperties
<1>8. Len(Signature(f)) = 1 + Len(f.args) /\ Len(f.args) \in Nat
  BY <1>1, SignatureIs
<1>9. Len(Signature(f)) # 0
  BY <1>8
<1>. QED  BY <1>7, <1>9 DEF S

LEMMA SignatureIsMains ==
  ASSUME prog \in AllPrograms, ScopeIsFirst, NEW f \in Functions
  PROVE  Signature(f) = <<"i32">> <=> f.typeName = "i32" /\ f.args = <<>>
<1>1. "i32" # NoType /\ "i32" \in BuiltIn
  BY DEF NoType, BuiltIn
<1>2. f.args \in Seq(TypeNames) /\ Len(f.args) \in Nat
  BY SignatureIs, LenProperties
<1>3. ASSUME Signature(f) = <<"i32">> PROVE f.typeName = "i32" /\ f.args = <<>>
  <2>1. Len(Signature(f)) = 1 /\ Signature(f)[1] = "i32"
    BY <1>3
  <2>2. Len(f.args) = 0
    BY <1>2, <2>1, SignatureIs
  <2>3. f.typeName = "i32"
    BY <1>1, <2>1, SignatureIs, TypeForIs
  <2>. QED  BY <1>2, <2>2, <2>3, EmptySeq
<1>4. ASSUME f.typeName = "i32", f.args = <<>> PROVE Signature(f) = <<"i32">>
  <2>1. TypeFor("i32") = "i32"
    BY <1>1 DEF TypeFor
  <2>2. [j \in DOMAIN f.args |-> TypeFor(f.args[j])] = <<>>
    BY <1>4
  <2>3. <<"i32">> \in Seq(BuiltIn)
    BY <1>1
  <2>. QED  BY <1>4, <2>1, <2>2, <2>3, ConcatEmptySeq DEF Signature
<1>. QED  BY <1>3, <1>4

LEMMA FoundIsGood ==
  ASSUME prog \in AllPrograms, ScopeIsFirst, NEW f \in Functions,
         NoType \notin ToSet(Signature(f)), MainIsRight(f)
  PROVE  /\ GoodFunction(f)
         /\ ToSet(Signature(f)) = {f.typeName} \cup ToSet(f.args)
<1>1. {f.typeName} \cup ToSet(f.args) \subseteq TypeNames
  BY SignatureIs, ElementOfSeq, LenProperties DEF ToSet
<1>2. ASSUME NEW n \in {f.typeName} \cup ToSet(f.args) PROVE TypeFor(n) = n /\ Known(n)
  BY <1>1, TypeForIs, SignatureIs
<1>3. ToSet(Signature(f)) = {f.typeName} \cup ToSet(f.args)
  BY <1>2, SignatureIs
<1>4. f.name = "main" => Signature(f) = <<"i32">>
  <2>1. Signature(f)[1] # NoType
    BY <1>2, <1>1, SignatureIs, TypeForIs
  <2>. QED  BY <2>1 DEF MainIsRight
<1>. QED  BY <1>1, <1>2, <1>3, <1>4, SignatureIsMains DEF GoodFunction

LEMMA GoodIsFound ==
  ASSUME NamesKnown, IsInjective(Declared), NEW f \in Functions, GoodFunction(f)
  PROVE  NoType \notin ToSet(Signature(f)) /\ MainIsRight(f)
<1>1. ASSUME NEW n \in {f.typeName} \cup ToSet(f.args) PROVE TypeFor(n) = n /\ n # NoType
  BY KnownIsFound, TypeForIs DEF GoodFunction, NamesKnown
<1>2. MainIsRight(f)
  BY SignatureIsMains DEF GoodFunction, MainIsRight, NamesKnown
<1>. QED  BY <1>1, <1>2, SignatureIs

----------------------------------------------------------------------------
(* Of the variables and functions of a program a step that leaves the      *)
(* scope alone changes nothing.                                            *)
LEMMA SameScope ==
  ASSUME prog' = prog, scope' = scope
  PROVE  /\ \A v : TypeOfVariable(v)' = TypeOfVariable(v) /\ (VariableIsOk(v)' <=> VariableIsOk(v))
         /\ \A f : Signature(f)' = Signature(f) /\ (MainIsRight(f)' <=> MainIsRight(f))
         /\ \A c, j : /\ TypeOfVariable(VariablesOf(c)[j])' = TypeOfVariable(VariablesOf(c)[j])
                      /\ VariableIsOk(VariablesOf(c)[j])' <=> VariableIsOk(VariablesOf(c)[j])
         /\ \A c, k : /\ Signature(FunctionsOf(c)[k])' = Signature(FunctionsOf(c)[k])
                      /\ MainIsRight(FunctionsOf(c)[k])' <=> MainIsRight(FunctionsOf(c)[k])
<1>1. \A v : TypeOfVariable(v)' = TypeOfVariable(v)
  BY DEF TypeOfVariable, TypeFor
<1>2. \A v : VariableIsOk(v)' <=> VariableIsOk(v)
  BY DEF VariableIsOk, TypeOfVariable, TypeFor
<1>3. \A f : Signature(f)' = Signature(f)
  BY DEF Signature, TypeFor
<1>4. \A f : MainIsRight(f)' <=> MainIsRight(f)
  BY DEF MainIsRight, Signature, TypeFor
<1>5. \A c, j : TypeOfVariable(VariablesOf(c)[j])' = TypeOfVariable(VariablesOf(c)[j])
  BY DEF VariablesOf, TypeOfVariable, TypeFor
<1>6. \A c, j : VariableIsOk(VariablesOf(c)[j])' <=> VariableIsOk(VariablesOf(c)[j])
  BY DEF VariablesOf, VariableIsOk, TypeOfVariable, TypeFor
<1>7. \A c, k : Signature(FunctionsOf(c)[k])' = Signature(FunctionsOf(c)[k])
  BY DEF FunctionsOf, Signature, TypeFor
<1>8. \A c, k : MainIsRight(FunctionsOf(c)[k])' <=> MainIsRight(FunctionsOf(c)[k])
  BY DEF FunctionsOf, MainIsRight, Signature, TypeFor
<1>. QED  BY <1>1, <1>2, <1>3, <1>4, <1>5, <1>6, <1>7, <1>8

(* The passes go one way. *)
LEMMA PassesFollow ==
  ASSUME NextPass
  PROVE  \/ phase = "names" /\ phase' = "classes"
         \/ phase = "classes" /\ phase' = "functions"
         \/ phase = "functions" /\ phase' = "globals"
         \/ phase = "globals" /\ phase' = "classBodies"
         \/ phase = "classBodies" /\ phase' = "bodies"
         \/ phase = "bodies" /\ phase' = "main"
         \/ phase = "genGlobals" /\ phase' = "genFunctions"
         \/ phase = "genFunctions" /\ phase' = "genClasses"
         \/ phase = "genClasses" /\ phase' = "genSizes"
         \/ phase = "genSizes" /\ phase' = "genBodies"
         \/ phase = "genBodies" /\ phase' = "done"
<1>1. PICK i \in DOMAIN Passes : phase = Passes[i] /\ phase' = Passes[i + 1]
  BY DEF NextPass
<1>2. phase \notin {"main", "done"}
  BY DEF NextPass
<1>3. i \in 1..13
  BY <1>1 DEF Passes
<1>4. \/ i = 1 \/ i = 2 \/ i = 3 \/ i = 4 \/ i = 5 \/ i = 6 \/ i = 7 \/ i = 8 \/ i = 9 \/ i = 10
      \/ i = 11 \/ i = 12 \/ i = 13
  BY <1>3
<1>. QED  BY <1>1, <1>2, <1>4 DEF Passes

(* What a pass was through with stays so. *)
Kept(pass, after, list) == \A k \in DOMAIN list : Done(pass, after, k)' => Done(pass, after, k)

DecoratingKept ==
  /\ Kept("names", AfterNames, Declared)
  /\ Kept("classes", AfterClasses, prog.classes)
  /\ Kept("functions", AfterFunctions, prog.functions)
  /\ Kept("globals", AfterGlobals, prog.globals)
  /\ Kept("classBodies", AfterClassBodies, prog.classes)
  /\ Kept("bodies", AfterBodies, prog.functions)

GeneratingKept ==
  /\ Kept("genFunctions", AfterGenFunctions, prog.functions)
  /\ Kept("genBodies", AfterGenBodies, prog.classes)

LEMMA NextPassKeeps ==
  ASSUME NextPass, prog \in AllPrograms, at \in Nat
  PROVE  /\ DecoratingKept /\ GeneratingKept
         /\ \A c \in DOMAIN prog.classes :
              Done("genClasses", AfterGenClasses, c)' \/ Done("search", {}, c)' =>
                Done("genClasses", AfterGenClasses, c) \/ Done("search", {}, c)
<1>1. at = Len(ListOf(phase)) + 1 /\ at' = 1 /\ prog' = prog
  BY DEF NextPass
<1>2. /\ \A k \in DOMAIN Declared : k \in Nat /\ k >= 1 /\ k <= Len(Declared)
      /\ \A k \in DOMAIN prog.classes : k \in Nat /\ k >= 1 /\ k <= Len(prog.classes)
      /\ \A k \in DOMAIN prog.functions : k \in Nat /\ k >= 1 /\ k <= Len(prog.functions)
      /\ \A k \in DOMAIN prog.globals : k \in Nat /\ k >= 1 /\ k <= Len(prog.globals)
      /\ Len(Declared) \in Nat /\ Len(prog.classes) \in Nat
      /\ Len(prog.functions) \in Nat /\ Len(prog.globals) \in Nat
  <2>1. /\ Len(prog.classes) \in Nat /\ Len(prog.functions) \in Nat /\ Len(prog.globals) \in Nat
        /\ DOMAIN prog.classes = 1..Len(prog.classes)
        /\ DOMAIN prog.functions = 1..Len(prog.functions)
        /\ DOMAIN prog.globals = 1..Len(prog.globals)
    BY ProgramShape, LenProperties
  <2>2. Len(Declared) \in Nat /\ DOMAIN Declared = 1..Len(Declared)
    <3>1. NumberOfNames \in Nat
      BY ClassPositions
    <3>. QED  BY <3>1, DeclaredIs
  <2>. QED  BY <2>1, <2>2
<1>3. /\ ListOf("names") = Declared /\ ListOf("classes") = prog.classes
      /\ ListOf("functions") = prog.functions /\ ListOf("globals") = prog.globals
      /\ ListOf("classBodies") = prog.classes /\ ListOf("bodies") = prog.functions
      /\ ListOf("genFunctions") = prog.functions /\ ListOf("genClasses") = prog.classes
      /\ ListOf("genBodies") = prog.classes
  BY DEF ListOf
<1>. QED  BY <1>1, <1>2, <1>3, PassesFollow
     DEF DecoratingKept, GeneratingKept, Kept, Done, AfterNames, AfterClasses, AfterFunctions,
         AfterGlobals, AfterClassBodies, AfterBodies, Generating, AfterGenFunctions, AfterGenClasses,
         AfterGenBodies

(* So it does when only the generator or an end is reached. *)
LEMMA GeneratingKeeps ==
  ASSUME phase \in Generating \/ phase' \in {"crashed", "refused"}
                              \/ (phase = "main" /\ phase' = "genGlobals"),
         phase' \in Generating \cup {"crashed", "refused"}
  PROVE  DecoratingKept
  BY DEF DecoratingKept, Kept, Done, AfterNames, AfterClasses, AfterFunctions, AfterGlobals,
         AfterClassBodies, AfterBodies, Generating

LEMMA ScopeStays ==
  ASSUME ScopeIsFirst, ScopeIsFull, prog' = prog, scope' = scope, errors => errors',
         phase' # "names", Kept("names", AfterNames, Declared)
  PROVE  ScopeIsFirst' /\ ScopeIsFull'
<1>1. Declared' = Declared /\ Kinds' = Kinds
  BY SameProgram
<1>2. ScopeIsFirst'
  BY <1>1 DEF ScopeIsFirst
<1>3. ScopeIsFull'
  BY <1>1 DEF ScopeIsFull, Kept
<1>. QED  BY <1>2, <1>3

LEMMA TypesStay ==
  ASSUME TypesAreRight, prog' = prog, scope' = scope, phase' # "names",
         \A p \in DOMAIN types' :
           \/ p \in DOMAIN types /\ types'[p] = types[p]
           \/ /\ p[1] \in Lists /\ p[2] \in DOMAIN VariablesOf(p[1])
              /\ types'[p] = TypeOfVariable(VariablesOf(p[1])[p[2]])
  PROVE  TypesAreRight'
<1>1. \A p \in DOMAIN types' :
        /\ p[1] \in Lists /\ p[2] \in DOMAIN VariablesOf(p[1])
        /\ types'[p] = TypeOfVariable(VariablesOf(p[1])[p[2]])
  BY DEF TypesAreRight
<1>. QED  BY <1>1, SameProgram, SameScope DEF TypesAreRight

LEMMA SignaturesStay ==
  ASSUME SignaturesAreRight, prog' = prog, scope' = scope, phase' # "names",
         \A p \in DOMAIN signatures' :
           \/ p \in DOMAIN signatures /\ signatures'[p] = signatures[p]
           \/ /\ p[1] \in Lists /\ p[2] \in DOMAIN FunctionsOf(p[1])
              /\ signatures'[p] = Signature(FunctionsOf(p[1])[p[2]])
  PROVE  SignaturesAreRight'
<1>1. \A p \in DOMAIN signatures' :
        /\ p[1] \in Lists /\ p[2] \in DOMAIN FunctionsOf(p[1])
        /\ signatures'[p] = Signature(FunctionsOf(p[1])[p[2]])
  BY DEF SignaturesAreRight
<1>. QED  BY <1>1, SameProgram, SameScope DEF SignaturesAreRight

(* What was resolved stays so, and a step only has to say what is new. *)
LEMMA ResolvedStays ==
  ASSUME AllResolved, prog' = prog, scope' = scope, errors => errors',
         DOMAIN types \subseteq DOMAIN types', DOMAIN signatures \subseteq DOMAIN signatures',
         \A c \in DOMAIN prog.classes : Done("classes", AfterClasses, c)' =>
           \/ Done("classes", AfterClasses, c)
           \/ /\ \A j \in DOMAIN VariablesOf(c) :
                   /\ <<c, j>> \in DOMAIN types'
                   /\ ~errors' => VariableIsOk(VariablesOf(c)[j])
              /\ \A k \in DOMAIN FunctionsOf(c) :
                   /\ <<c, k>> \in DOMAIN signatures'
                   /\ ~errors' => NoType \notin ToSet(Signature(FunctionsOf(c)[k])),
         \A k \in DOMAIN FunctionsOf(0) : Done("functions", AfterFunctions, k)' =>
           \/ Done("functions", AfterFunctions, k)
           \/ /\ <<0, k>> \in DOMAIN signatures'
              /\ ~errors' => NoType \notin ToSet(Signature(FunctionsOf(0)[k])),
         \A j \in DOMAIN VariablesOf(0) : Done("globals", AfterGlobals, j)' =>
           \/ Done("globals", AfterGlobals, j)
           \/ /\ <<0, j>> \in DOMAIN types'
              /\ ~errors' => VariableIsOk(VariablesOf(0)[j])
  PROVE  AllResolved'
<1>1. ASSUME NEW c, NEW j, VariablesResolved(c, j) PROVE VariablesResolved(c, j)'
  BY <1>1, SameScope DEF VariablesResolved
<1>2. ASSUME NEW c, NEW k, FunctionResolved(c, k) PROVE FunctionResolved(c, k)'
  BY <1>2, SameScope DEF FunctionResolved
<1>3. ASSUME NEW c, NEW j, <<c, j>> \in DOMAIN types', ~errors' => VariableIsOk(VariablesOf(c)[j])
      PROVE  VariablesResolved(c, j)'
  BY <1>3, SameScope DEF VariablesResolved
<1>4. ASSUME NEW c, NEW k, <<c, k>> \in DOMAIN signatures',
             ~errors' => NoType \notin ToSet(Signature(FunctionsOf(c)[k]))
      PROVE  FunctionResolved(c, k)'
  BY <1>4, SameScope DEF FunctionResolved
<1>5. \A c \in DOMAIN prog.classes : Done("classes", AfterClasses, c)' =>
       /\ \A j \in DOMAIN VariablesOf(c) : VariablesResolved(c, j)'
       /\ \A k \in DOMAIN FunctionsOf(c) : FunctionResolved(c, k)'
  BY <1>1, <1>2, <1>3, <1>4 DEF AllResolved
<1>6. \A k \in DOMAIN FunctionsOf(0) : Done("functions", AfterFunctions, k)' => FunctionResolved(0, k)'
  BY <1>2, <1>4 DEF AllResolved
<1>7. \A j \in DOMAIN VariablesOf(0) : Done("globals", AfterGlobals, j)' => VariablesResolved(0, j)'
  BY <1>1, <1>3 DEF AllResolved
<1>. QED  BY <1>5, <1>6, <1>7, SameProgram DEF AllResolved

LEMMA BodiesStay ==
  ASSUME BodiesChecked, prog' = prog, scope' = scope, errors => errors', main # 0 => main' # 0,
         \A c \in DOMAIN prog.classes : Done("classBodies", AfterClassBodies, c)' =>
           \/ Done("classBodies", AfterClassBodies, c)
           \/ ~errors' =>
                /\ IsInjective(NamesOf(VariablesOf(c)) \o <<"this">> \o NamesOf(FunctionsOf(c)))
                /\ \A k \in DOMAIN FunctionsOf(c) : MainIsRight(FunctionsOf(c)[k]),
         \A k \in DOMAIN FunctionsOf(0) : Done("bodies", AfterBodies, k)' =>
           \/ Done("bodies", AfterBodies, k)
           \/ /\ ~errors' => MainIsRight(FunctionsOf(0)[k])
              /\ FunctionsOf(0)[k].name = "main" /\ Signature(FunctionsOf(0)[k]) = <<"i32">> => main' # 0
  PROVE  BodiesChecked'
<1>1. \A c : (NamesOf(VariablesOf(c)) \o <<"this">> \o NamesOf(FunctionsOf(c)))'
               = NamesOf(VariablesOf(c)) \o <<"this">> \o NamesOf(FunctionsOf(c))
  BY DEF VariablesOf, FunctionsOf, NamesOf
<1>2. \A c \in DOMAIN prog.classes : Done("classBodies", AfterClassBodies, c)' /\ ~errors' =>
        /\ IsInjective(NamesOf(VariablesOf(c)) \o <<"this">> \o NamesOf(FunctionsOf(c)))
        /\ \A k \in DOMAIN FunctionsOf(c) : MainIsRight(FunctionsOf(c)[k])
  BY DEF BodiesChecked
<1>3. \A k \in DOMAIN FunctionsOf(0) : Done("bodies", AfterBodies, k)' =>
        /\ ~errors' => MainIsRight(FunctionsOf(0)[k])
        /\ FunctionsOf(0)[k].name = "main" /\ Signature(FunctionsOf(0)[k]) = <<"i32">> => main' # 0
  BY DEF BodiesChecked
<1>. QED  BY <1>1, <1>2, <1>3, SameProgram, SameScope DEF BodiesChecked

----------------------------------------------------------------------------
(* Names are given once, in whatever order they are written.               *)
LEMMA InjectiveConcat ==
  ASSUME NEW S, NEW s \in Seq(S), NEW t \in Seq(S)
  PROVE  IsInjective(s \o t) <=>
           /\ IsInjective(s) /\ IsInjective(t)
           /\ \A i \in DOMAIN s, j \in DOMAIN t : s[i] # t[j]
<1>1. /\ Len(s) \in Nat /\ Len(t) \in Nat /\ DOMAIN s = 1..Len(s) /\ DOMAIN t = 1..Len(t)
      /\ DOMAIN (s \o t) = 1..(Len(s) + Len(t))
      /\ \A i \in 1..(Len(s) + Len(t)) : (s \o t)[i] = IF i <= Len(s) THEN s[i] ELSE t[i - Len(s)]
  BY ConcatProperties, LenProperties
<1>. DEFINE l == Len(s)
            m == Len(t)
            u == s \o t
<1>. HIDE DEF l, m, u
<1>2. /\ l \in Nat /\ m \in Nat /\ DOMAIN s = 1..l /\ DOMAIN t = 1..m /\ DOMAIN u = 1..(l + m)
      /\ \A i \in 1..l : u[i] = s[i]
      /\ \A j \in 1..m : u[l + j] = t[j]
  <2>1. l \in Nat /\ m \in Nat /\ DOMAIN s = 1..l /\ DOMAIN t = 1..m /\ DOMAIN u = 1..(l + m)
    BY <1>1 DEF l, m, u
  <2>2. \A i \in 1..(l + m) : u[i] = IF i <= l THEN s[i] ELSE t[i - l]
    BY <1>1 DEF l, m, u
  <2>3. \A i \in 1..l : u[i] = s[i]
    BY <2>1, <2>2
  <2>4. ASSUME NEW j \in 1..m PROVE u[l + j] = t[j]
    <3>1. l + j \in 1..(l + m) /\ ~(l + j <= l) /\ (l + j) - l = j
      BY <2>1
    <3>. QED  BY <2>2, <3>1
  <2>. QED  BY <2>1, <2>3, <2>4
<1>3. ASSUME IsInjective(u)
      PROVE  IsInjective(s) /\ IsInjective(t) /\ \A i \in DOMAIN s, j \in DOMAIN t : s[i] # t[j]
  <2>1. ASSUME NEW i \in DOMAIN s, NEW j \in DOMAIN s, s[i] = s[j] PROVE i = j
    BY <1>2, <1>3, <2>1 DEF IsInjective
  <2>2. ASSUME NEW i \in DOMAIN t, NEW j \in DOMAIN t, t[i] = t[j] PROVE i = j
    <3>1. l + i = l + j
      BY <1>2, <1>3, <2>2 DEF IsInjective
    <3>. QED  BY <1>2, <3>1
  <2>3. ASSUME NEW i \in DOMAIN s, NEW j \in DOMAIN t, s[i] = t[j] PROVE FALSE
    <3>1. i = l + j
      BY <1>2, <1>3, <2>3 DEF IsInjective
    <3>. QED  BY <1>2, <3>1
  <2>. QED  BY <2>1, <2>2, <2>3 DEF IsInjective
<1>4. ASSUME IsInjective(s), IsInjective(t), \A i \in DOMAIN s, j \in DOMAIN t : s[i] # t[j]
      PROVE  IsInjective(u)
  <2>1. ASSUME NEW i \in 1..(l + m)
        PROVE  \/ i \in 1..l /\ u[i] = s[i]
               \/ \E j \in 1..m : i = l + j /\ u[i] = t[j]
    <3>1. CASE i <= l
      BY <1>2, <3>1
    <3>2. CASE i > l
      <4>1. i - l \in 1..m /\ i = l + (i - l)
        BY <1>2, <3>2
      <4>. QED  BY <1>2, <4>1
    <3>. QED  BY <1>2, <3>1, <3>2
  <2>2. ASSUME NEW a \in DOMAIN u, NEW b \in DOMAIN u, u[a] = u[b] PROVE a = b
    BY <1>2, <1>4, <2>1, <2>2 DEF IsInjective
  <2>. QED  BY <2>2 DEF IsInjective
<1>. QED  BY <1>3, <1>4 DEF u

Lacks(s, y) == \A i \in DOMAIN s : s[i] # y

LEMMA ValuesOfConcat ==
  ASSUME NEW S, NEW s \in Seq(S), NEW t \in Seq(S), NEW u, u = s \o t
  PROVE  \A y : Lacks(u, y) <=> Lacks(s, y) /\ Lacks(t, y)
<1>1. /\ Len(s) \in Nat /\ Len(t) \in Nat /\ DOMAIN s = 1..Len(s) /\ DOMAIN t = 1..Len(t)
      /\ DOMAIN (s \o t) = 1..(Len(s) + Len(t))
      /\ \A i \in 1..(Len(s) + Len(t)) : (s \o t)[i] = IF i <= Len(s) THEN s[i] ELSE t[i - Len(s)]
  BY ConcatProperties, LenProperties
<1>. DEFINE l == Len(s)
            m == Len(t)
<1>. HIDE DEF l, m
<1>2. l \in Nat /\ m \in Nat /\ DOMAIN s = 1..l /\ DOMAIN t = 1..m /\ DOMAIN u = 1..(l + m)
  BY <1>1 DEF l, m
<1>3. \A i \in 1..(l + m) : u[i] = IF i <= l THEN s[i] ELSE t[i - l]
  BY <1>1 DEF l, m
<1>4. ASSUME NEW y, \A i \in DOMAIN u : u[i] # y
      PROVE  (\A i \in DOMAIN s : s[i] # y) /\ (\A i \in DOMAIN t : t[i] # y)
  <2>1. \A i \in DOMAIN s : s[i] # y
    BY <1>2, <1>3, <1>4
  <2>2. ASSUME NEW i \in DOMAIN t PROVE t[i] # y
    <3>1. l + i \in 1..(l + m) /\ ~(l + i <= l) /\ (l + i) - l = i
      BY <1>2
    <3>. QED  BY <1>2, <1>3, <1>4, <3>1
  <2>. QED  BY <2>1, <2>2
<1>5. ASSUME NEW y, \A i \in DOMAIN s : s[i] # y, \A i \in DOMAIN t : t[i] # y
      PROVE  \A i \in DOMAIN u : u[i] # y
  BY <1>2, <1>3, <1>5
<1>6. \A y : (\A i \in DOMAIN u : u[i] # y) <=>
              (\A i \in DOMAIN s : s[i] # y) /\ (\A i \in DOMAIN t : t[i] # y)
  BY <1>4, <1>5
<1>. QED  BY <1>6 DEF Lacks

LEMMA InjectiveAround ==
  ASSUME NEW S, NEW s \in Seq(S), NEW t \in Seq(S), NEW x \in S
  PROVE  IsInjective(s \o <<x>> \o t) <=> IsInjective(s \o t \o <<x>>)
<1>. DEFINE o == <<x>>
            so == s \o o
            st == s \o t
<1>1. o \in Seq(S) /\ DOMAIN o = {1} /\ o[1] = x
  OBVIOUS
<1>. HIDE DEF o
<1>2. so \in Seq(S) /\ st \in Seq(S)
  BY <1>1, ConcatProperties
<1>5. IsInjective(so) <=> IsInjective(s) /\ IsInjective(o) /\ \A i \in DOMAIN s : s[i] # x
  BY <1>1, InjectiveConcat
<1>6. IsInjective(st) <=>
        IsInjective(s) /\ IsInjective(t) /\ \A i \in DOMAIN s, j \in DOMAIN t : s[i] # t[j]
  BY InjectiveConcat
<1>. DEFINE Joined == so = s \o o /\ st = s \o t
<1>. SUFFICES ASSUME Joined PROVE IsInjective(so \o t) <=> IsInjective(st \o o)
  BY DEF o
<1>. HIDE DEF so, st
<1>3. \A y : Lacks(so, y) <=> Lacks(s, y) /\ x # y
  <2>1. ASSUME NEW y PROVE Lacks(so, y) <=> Lacks(s, y) /\ Lacks(o, y)
    BY <1>1, ValuesOfConcat, Zenon
  <2>2. \A y : Lacks(o, y) <=> x # y
    BY <1>1 DEF Lacks
  <2>. QED  BY <2>1, <2>2
<1>4. \A y : Lacks(st, y) <=> Lacks(s, y) /\ Lacks(t, y)
  <2>1. ASSUME NEW y PROVE Lacks(st, y) <=> Lacks(s, y) /\ Lacks(t, y)
    BY ValuesOfConcat, Zenon
  <2>. QED  BY <2>1
<1>7. IsInjective(so \o t) <=>
        IsInjective(so) /\ IsInjective(t) /\ \A i \in DOMAIN so, j \in DOMAIN t : so[i] # t[j]
  <2>1. \A q \in Seq(S) : IsInjective(q \o t) <=>
          IsInjective(q) /\ IsInjective(t) /\ \A i \in DOMAIN q, j \in DOMAIN t : q[i] # t[j]
    BY InjectiveConcat
  <2>. QED  BY <1>2, <2>1
<1>8. IsInjective(st \o o) <=>
        IsInjective(st) /\ IsInjective(o) /\ \A i \in DOMAIN st, j \in DOMAIN o : st[i] # o[j]
  <2>1. \A q \in Seq(S) : IsInjective(q \o o) <=>
          IsInjective(q) /\ IsInjective(o) /\ \A i \in DOMAIN q, j \in DOMAIN o : q[i] # o[j]
    BY <1>1, InjectiveConcat
  <2>. QED  BY <1>2, <2>1
<1>9. (\A i \in DOMAIN so, j \in DOMAIN t : so[i] # t[j]) <=>
        (\A i \in DOMAIN s, j \in DOMAIN t : s[i] # t[j]) /\ \A j \in DOMAIN t : t[j] # x
  <2>1. (\A i \in DOMAIN so, j \in DOMAIN t : so[i] # t[j]) <=> \A j \in DOMAIN t : Lacks(so, t[j])
    BY DEF Lacks
  <2>2. (\A i \in DOMAIN s, j \in DOMAIN t : s[i] # t[j]) <=> \A j \in DOMAIN t : Lacks(s, t[j])
    BY DEF Lacks
  <2>. QED  BY <1>3, <2>1, <2>2
<1>10. (\A i \in DOMAIN st, j \in DOMAIN o : st[i] # o[j]) <=>
        (\A i \in DOMAIN s : s[i] # x) /\ (\A j \in DOMAIN t : t[j] # x)
  <2>1. (\A i \in DOMAIN st, j \in DOMAIN o : st[i] # o[j]) <=> Lacks(st, x)
    BY <1>1 DEF Lacks
  <2>2. Lacks(s, x) /\ Lacks(t, x) <=> (\A i \in DOMAIN s : s[i] # x) /\ (\A j \in DOMAIN t : t[j] # x)
    BY DEF Lacks
  <2>. QED  BY <1>4, <2>1, <2>2
<1>. QED  BY <1>5, <1>6, <1>7, <1>8, <1>9, <1>10

(* WellDeclared, list by list. *)
InOrder ==
  /\ IsInjective(Declared)
  /\ \A c \in DOMAIN prog.classes :
       IsInjective(NamesOf(VariablesOf(c)) \o <<"this">> \o NamesOf(FunctionsOf(c)))
  /\ \A c \in Lists : /\ \A j \in DOMAIN VariablesOf(c) : GoodVariable(VariablesOf(c)[j])
                      /\ \A k \in DOMAIN FunctionsOf(c) : GoodFunction(FunctionsOf(c)[k])
  /\ \E k \in DOMAIN prog.functions : prog.functions[k].name = "main"

LEMMA WellDeclaredIs ==
  ASSUME prog \in AllPrograms
  PROVE  WellDeclared <=> InOrder
<1>1. ASSUME NEW c \in DOMAIN prog.classes
      PROVE  IsInjective(NamesOf(VariablesOf(c)) \o NamesOf(FunctionsOf(c)) \o <<"this">>) <=>
             IsInjective(NamesOf(VariablesOf(c)) \o <<"this">> \o NamesOf(FunctionsOf(c)))
  <2>1. c \in Lists
    BY DEF Lists
  <2>2. VariablesOf(c) \in Seq(Variables) /\ FunctionsOf(c) \in Seq(Functions)
    BY <2>1, ProgramShape
  <2>3. (\A x \in Variables : x.name \in Names) /\ (\A x \in Functions : x.name \in Names)
    BY DEF Variables, Functions
  <2>4. NamesOf(VariablesOf(c)) \in Seq(Names) /\ NamesOf(FunctionsOf(c)) \in Seq(Names)
    BY <2>2, <2>3, NamesAre
  <2>5. Seq(Names) \subseteq Seq(Names \cup {"this"})
    BY SeqMonotonic
  <2>. QED  BY <2>4, <2>5, InjectiveAround
<1>2. (\A c \in Lists, v \in UNION {ToSet(VariablesOf(d)) : d \in Lists} :
         v \in ToSet(VariablesOf(c)) => GoodVariable(v)) <=>
      \A c \in Lists : \A j \in DOMAIN VariablesOf(c) : GoodVariable(VariablesOf(c)[j])
  BY DEF ToSet
<1>3. (\A f \in UNION {ToSet(FunctionsOf(c)) : c \in Lists} : GoodFunction(f)) <=>
      \A c \in Lists : \A k \in DOMAIN FunctionsOf(c) : GoodFunction(FunctionsOf(c)[k])
  BY DEF ToSet
<1>4. (\E f \in ToSet(prog.functions) : f.name = "main") <=>
      \E k \in DOMAIN prog.functions : prog.functions[k].name = "main"
  BY DEF ToSet
<1>5. WellDeclared <=>
        /\ IsInjective(Declared)
        /\ \A c \in DOMAIN prog.classes :
             IsInjective(NamesOf(VariablesOf(c)) \o NamesOf(FunctionsOf(c)) \o <<"this">>)
        /\ \A c \in Lists, v \in UNION {ToSet(VariablesOf(d)) : d \in Lists} :
             v \in ToSet(VariablesOf(c)) => GoodVariable(v)
        /\ \A f \in UNION {ToSet(FunctionsOf(c)) : c \in Lists} : GoodFunction(f)
        /\ \E f \in ToSet(prog.functions) : f.name = "main"
  BY DEF WellDeclared, GoodVariable, GoodFunction
<1>. QED  BY <1>1, <1>2, <1>3, <1>4, <1>5 DEF InOrder

----------------------------------------------------------------------------
(* The rest of the inductive invariant, and all of it. *)
Base ==
  /\ prog \in AllPrograms
  /\ phase \in ToSet(Passes) \cup {"search", "refused", "crashed", "thrown", "broken"}
  /\ at \in Nat \ {0}
  /\ errors \in BOOLEAN /\ looped \in BOOLEAN
  /\ bodies \cup sized \subseteq DOMAIN prog.classes

WholeInv == Base /\ DecoratedInv /\ GeneratedInv /\ SearchInv /\ SizesAreDefined

(* Once the names are known, errors come of the program alone. *)
LEMMA NamesAreKnown ==
  ASSUME Base, DecoratedInv, phase \in AfterNames
  PROVE  /\ NamesKnown
         /\ ~errors => IsInjective(Declared)
<1>1. NamesKnown
  BY DEF Base, DecoratedInv, NamesKnown
<1>2. ASSUME ~errors PROVE IsInjective(Declared)
  <2>1. NumberOfNames \in Nat /\ DOMAIN Declared = 1..NumberOfNames
    BY ClassPositions, DeclaredIs DEF Base
  <2>2. \A k \in DOMAIN Declared : \A i \in 1..(k - 1) : Declared[i] # Declared[k]
    BY <1>2 DEF DecoratedInv, ScopeIsFull, Done
  <2>3. ASSUME NEW a \in DOMAIN Declared, NEW b \in DOMAIN Declared, Declared[a] = Declared[b]
        PROVE  a = b
    BY <2>1, <2>2, <2>3
  <2>. QED  BY <2>3 DEF IsInjective
<1>. QED  BY <1>1, <1>2

(* An error about a variable or a function is one of the program. *)
LEMMA ErrorIsReal ==
  ASSUME Base, DecoratedInv, phase \in AfterNames, NEW c \in Lists
  PROVE  /\ \A j \in DOMAIN VariablesOf(c) :
              ~VariableIsOk(VariablesOf(c)[j]) \/ MessageCrashes(VariablesOf(c)[j]) => ~WellDeclared
         /\ \A k \in DOMAIN FunctionsOf(c) :
              \/ NoType \in ToSet(Signature(FunctionsOf(c)[k]))
              \/ ~MainIsRight(FunctionsOf(c)[k])
              => ~WellDeclared
<1>1. NamesKnown /\ prog \in AllPrograms
  BY NamesAreKnown DEF Base
<1>2. WellDeclared => InOrder
  BY <1>1, WellDeclaredIs
<1>3. /\ \A j \in DOMAIN VariablesOf(c) : VariablesOf(c)[j] \in Variables
      /\ \A k \in DOMAIN FunctionsOf(c) : FunctionsOf(c)[k] \in Functions
  BY <1>1, ProgramShape, ElementOfSeq, LenProperties
<1>4. ASSUME NEW j \in DOMAIN VariablesOf(c), WellDeclared
      PROVE  VariableIsOk(VariablesOf(c)[j]) /\ ~MessageCrashes(VariablesOf(c)[j])
  <2>1. GoodVariable(VariablesOf(c)[j]) /\ IsInjective(Declared)
    BY <1>2, <1>4 DEF InOrder
  <2>. QED  BY <1>1, <1>3, <2>1, GoodIsOk
<1>5. ASSUME NEW k \in DOMAIN FunctionsOf(c), WellDeclared
      PROVE  NoType \notin ToSet(Signature(FunctionsOf(c)[k])) /\ MainIsRight(FunctionsOf(c)[k])
  <2>1. GoodFunction(FunctionsOf(c)[k]) /\ IsInjective(Declared)
    BY <1>2, <1>5 DEF InOrder
  <2>. QED  BY <1>1, <1>3, <2>1, GoodIsFound
<1>. QED  BY <1>4, <1>5

LEMMA DeclarationsStart ==
  ASSUME DeclarationsInit
  PROVE  WholeInv
<1>1. Base
  <2>1. prog \in AllPrograms
    BY ProgramsAssumption DEF DeclarationsInit
  <2>2. "names" \in ToSet(Passes)
    <3>1. Passes[1] = "names" /\ 1 \in DOMAIN Passes
      BY DEF Passes
    <3>. QED  BY <3>1 DEF ToSet
  <2>3. /\ at \in Nat \ {0} /\ errors \in BOOLEAN /\ looped \in BOOLEAN
        /\ bodies \cup sized \subseteq DOMAIN prog.classes
    <3>1. at = 1 /\ errors = FALSE /\ looped = FALSE /\ bodies = {} /\ sized = {}
      BY DEF DeclarationsInit
    <3>2. at \in Nat \ {0}
      BY <3>1
    <3>. QED  BY <3>1, <3>2, Zenon
  <2>4. phase = "names"
    BY DEF DeclarationsInit
  <2>. QED  BY <2>1, <2>2, <2>3, <2>4 DEF Base
<1>2. DOMAIN scope = {} /\ DOMAIN types = {} /\ DOMAIN signatures = {}
  BY DEF DeclarationsInit
<1>3. \A k : Done("names", AfterNames, k) => ~(k \in 1..NumberOfNames)
  BY DEF DeclarationsInit, Done, AfterNames, AfterClasses, AfterFunctions, AfterGlobals, AfterClassBodies,
         AfterBodies, Generating
<1>4. \A k : /\ ~Done("classes", AfterClasses, k) /\ ~Done("functions", AfterFunctions, k)
             /\ ~Done("globals", AfterGlobals, k) /\ ~Done("classBodies", AfterClassBodies, k)
             /\ ~Done("bodies", AfterBodies, k)
  BY DEF DeclarationsInit, Done, AfterClasses, AfterFunctions, AfterGlobals, AfterClassBodies,
         AfterBodies, Generating
<1>5. \A k : /\ ~Done("genFunctions", AfterGenFunctions, k) /\ ~Done("genClasses", AfterGenClasses, k)
             /\ ~Done("search", {}, k) /\ ~Done("genBodies", AfterGenBodies, k)
  BY DEF DeclarationsInit, Done, AfterGenFunctions, AfterGenClasses, AfterGenBodies
<1>6. ScopeIsFirst /\ TypesAreRight /\ SignaturesAreRight
  BY <1>2 DEF ScopeIsFirst, TypesAreRight, SignaturesAreRight
<1>7. ScopeIsFull
  BY <1>1, <1>3, DeclaredIs DEF ScopeIsFull, Base
<1>8. AllResolved /\ BodiesChecked /\ MainIsMain
  BY <1>4 DEF AllResolved, BodiesChecked, MainIsMain, DeclarationsInit
<1>9. Judged
  BY DEF Judged, DeclarationsInit, Generating
<1>10. GeneratedInv
  BY <1>5 DEF GeneratedInv, ThrowsForLoopsAndObjects, DeclarationsInit
<1>11. SearchInv
  BY DEF SearchInv, DeclarationsInit
<1>12. SizesAreDefined
  BY DEF SizesAreDefined, DeclarationsInit
<1>. QED  BY <1>1, <1>6, <1>7, <1>8, <1>9, <1>10, <1>11, <1>12 DEF WholeInv, DecoratedInv

----------------------------------------------------------------------------
(* The decorator: while it works, and when it gives up, nothing generated  *)
(* is touched.                                                             *)
Decorating == {"names", "classes", "functions", "globals", "classBodies", "bodies", "main"}

LEMMA LayoutStays ==
  ASSUME WholeInv, prog' = prog, UNCHANGED layout, phase \in Decorating,
         phase' \in Decorating \cup {"genGlobals", "refused", "crashed"}
  PROVE  GeneratedInv' /\ SearchInv' /\ SizesAreDefined'
<1>1. \A k : /\ ~Done("genFunctions", AfterGenFunctions, k)' /\ ~Done("genClasses", AfterGenClasses, k)'
             /\ ~Done("search", {}, k)' /\ ~Done("genBodies", AfterGenBodies, k)'
  BY DEF Done, AfterGenFunctions, AfterGenClasses, AfterGenBodies, Decorating
<1>2. GeneratedInv'
  BY <1>1 DEF GeneratedInv, ThrowsForLoopsAndObjects, Decorating
<1>3. frames = <<>> /\ frames' = <<>>
  BY DEF WholeInv, SearchInv, Decorating, layout
<1>4. SearchInv'
  BY <1>3 DEF SearchInv, Decorating
<1>5. SizesAreDefined'
  BY SameProgram DEF WholeInv, SizesAreDefined, layout
<1>. QED  BY <1>2, <1>4, <1>5

LEMMA AddNameStep ==
  ASSUME WholeInv, AddName
  PROVE  DecoratedInv'
<1>1. /\ phase = "names" /\ phase' = "names" /\ prog' = prog /\ at' = at + 1 /\ main' = main
      /\ types' = types /\ signatures' = signatures
      /\ scope' = Adding(scope, [n \in {Declared[at]} |-> Kinds[at]])
      /\ errors' = (errors \/ Declared[at] \in DOMAIN scope)
      /\ at \in DOMAIN Declared
  BY DEF AddName, In, ListOf
<1>2. /\ DOMAIN scope' = DOMAIN scope \cup {Declared[at]}
      /\ \A n \in DOMAIN scope : scope'[n] = scope[n]
      /\ Declared[at] \notin DOMAIN scope => scope'[Declared[at]] = Kinds[at]
  BY <1>1 DEF Adding
<1>3. NumberOfNames \in Nat /\ DOMAIN Declared = 1..NumberOfNames /\ at \in 1..NumberOfNames
  BY <1>1, ClassPositions, DeclaredIs DEF WholeInv, Base
<1>4. /\ \A k \in 1..(at - 1) : Declared[k] \in DOMAIN scope
      /\ ~errors => \A k \in 1..(at - 1) : \A i \in 1..(k - 1) : Declared[i] # Declared[k]
  BY <1>1, <1>3 DEF WholeInv, DecoratedInv, ScopeIsFull, Done
<1>5. \A n \in DOMAIN scope : \E k \in 1..(at - 1) :
        /\ Declared[k] = n /\ scope[n] = Kinds[k]
        /\ \A i \in 1..(k - 1) : Declared[i] # n
  BY <1>1, <1>3 DEF WholeInv, DecoratedInv, ScopeIsFirst
<1>6. \A n \in DOMAIN scope' : \E k \in 1..at :
        /\ Declared[k] = n /\ scope'[n] = Kinds[k]
        /\ \A i \in 1..(k - 1) : Declared[i] # n
  <2>1. ASSUME NEW n \in DOMAIN scope
        PROVE  \E k \in 1..at : /\ Declared[k] = n /\ scope'[n] = Kinds[k]
                                /\ \A i \in 1..(k - 1) : Declared[i] # n
    BY <1>2, <1>3, <1>5
  <2>2. ASSUME Declared[at] \notin DOMAIN scope
        PROVE  /\ scope'[Declared[at]] = Kinds[at]
               /\ \A i \in 1..(at - 1) : Declared[i] # Declared[at]
    BY <1>2, <1>4, <2>2
  <2>3. at \in 1..at
    BY <1>3
  <2>. QED  BY <1>2, <2>1, <2>2, <2>3
<1>7. ScopeIsFirst'
  <2>1. Declared' = Declared /\ Kinds' = Kinds
    BY <1>1, SameProgram
  <2>2. \A k \in 1..at : k \in DOMAIN Declared /\ k < at'
    BY <1>1, <1>3
  <2>. QED  BY <1>6, <2>1, <2>2 DEF ScopeIsFirst
<1>8. \A k \in 1..at : /\ Declared[k] \in DOMAIN scope'
                       /\ ~errors' => \A i \in 1..(k - 1) : Declared[i] # Declared[k]
  <2>1. ASSUME NEW k \in 1..(at - 1)
        PROVE  /\ Declared[k] \in DOMAIN scope'
               /\ ~errors' => \A i \in 1..(k - 1) : Declared[i] # Declared[k]
    BY <1>1, <1>2, <1>4
  <2>2. /\ Declared[at] \in DOMAIN scope'
        /\ ~errors' => \A i \in 1..(at - 1) : Declared[i] # Declared[at]
    BY <1>1, <1>2, <1>4
  <2>. QED  BY <1>3, <2>1, <2>2
<1>9. ScopeIsFull'
  <2>1. Declared' = Declared
    BY <1>1, SameProgram
  <2>2. \A k \in DOMAIN Declared : Done("names", AfterNames, k)' => k \in 1..at
    BY <1>1, <1>3 DEF Done, AfterNames, AfterClasses, AfterFunctions, AfterGlobals, AfterClassBodies,
                      AfterBodies, Generating
  <2>. QED  BY <1>8, <2>1, <2>2 DEF ScopeIsFull
<1>10. TypesAreRight' /\ SignaturesAreRight'
  <2>1. DOMAIN types = {} /\ DOMAIN signatures = {}
    BY <1>1 DEF WholeInv, DecoratedInv, TypesAreRight, SignaturesAreRight
  <2>. QED  BY <1>1, <2>1 DEF TypesAreRight, SignaturesAreRight
<1>11. AllResolved' /\ BodiesChecked'
  <2>1. \A k : /\ ~Done("classes", AfterClasses, k)' /\ ~Done("functions", AfterFunctions, k)'
               /\ ~Done("globals", AfterGlobals, k)' /\ ~Done("classBodies", AfterClassBodies, k)'
               /\ ~Done("bodies", AfterBodies, k)'
    BY <1>1 DEF Done, AfterClasses, AfterFunctions, AfterGlobals, AfterClassBodies, AfterBodies, Generating
  <2>. QED  BY <2>1 DEF AllResolved, BodiesChecked
<1>12. MainIsMain'
  BY <1>1 DEF WholeInv, DecoratedInv, MainIsMain
<1>13. Judged'
  <2>1. ASSUME Declared[at] \in DOMAIN scope PROVE ~WellDeclared
    <3>1. PICK k \in 1..(at - 1) : Declared[k] = Declared[at]
      BY <1>5, <2>1
    <3>2. ~IsInjective(Declared)
      BY <1>3, <3>1 DEF IsInjective
    <3>. QED  BY <3>2 DEF WellDeclared
  <2>2. errors => ~WellDeclared
    BY DEF WholeInv, DecoratedInv, Judged
  <2>. QED  BY <1>1, <2>1, <2>2, SameProgram DEF Judged, Generating
<1>. QED  BY <1>7, <1>9, <1>10, <1>11, <1>12, <1>13 DEF DecoratedInv

(* A pass that resolves leaves the global scope, so that only the tables   *)
(* and the errors are to be looked at.                                     *)
LEMMA LaterPasses ==
  ASSUME WholeInv, phase \in AfterNames, phase' = phase, at' = at + 1, prog' = prog, scope' = scope
  PROVE  /\ Kept("names", AfterNames, Declared)
         /\ phase # "classes" => Kept("classes", AfterClasses, prog.classes)
         /\ phase # "functions" => Kept("functions", AfterFunctions, prog.functions)
         /\ phase # "globals" => Kept("globals", AfterGlobals, prog.globals)
         /\ phase # "classBodies" => Kept("classBodies", AfterClassBodies, prog.classes)
         /\ phase # "bodies" => Kept("bodies", AfterBodies, prog.functions)
         /\ phase' # "names"
         /\ (errors => errors') => ScopeIsFirst' /\ ScopeIsFull'
<1>1. phase # "names"
  BY DEF AfterNames, AfterClasses, AfterFunctions, AfterGlobals, AfterClassBodies, AfterBodies, Generating
<1>2. Kept("names", AfterNames, Declared)
  BY <1>1 DEF Kept, Done
<1>3. (errors => errors') => ScopeIsFirst' /\ ScopeIsFull'
  BY <1>1, <1>2, ScopeStays DEF WholeInv, DecoratedInv
<1>. QED  BY <1>1, <1>2, <1>3 DEF Kept, Done

(* Of the position only the pass that is working can be done anew. *)
LEMMA NextPosition ==
  ASSUME WholeInv, at' = at + 1, phase' = phase, NEW pass, NEW after, NEW k \in Nat,
         Done(pass, after, k)', ~Done(pass, after, k)
  PROVE  phase = pass /\ k = at
  BY DEF Done, WholeInv, Base

LEMMA DomainsAreNat ==
  ASSUME prog \in AllPrograms
  PROVE  /\ \A c \in Lists : /\ DOMAIN VariablesOf(c) \subseteq Nat \ {0}
                             /\ DOMAIN FunctionsOf(c) \subseteq Nat \ {0}
         /\ DOMAIN prog.classes \subseteq Nat \ {0}
         /\ DOMAIN prog.classes \subseteq Lists /\ 0 \in Lists
         /\ DOMAIN prog.functions = DOMAIN FunctionsOf(0) /\ DOMAIN prog.globals = DOMAIN VariablesOf(0)
<1>1. \A c \in Lists : DOMAIN VariablesOf(c) \subseteq Nat \ {0} /\ DOMAIN FunctionsOf(c) \subseteq Nat \ {0}
  BY ProgramShape, LenProperties
<1>2. DOMAIN prog.classes \subseteq Nat \ {0}
  BY ClassPositions
<1>. QED  BY <1>1, <1>2 DEF Lists, FunctionsOf, VariablesOf

LEMMA ResolveClassStep ==
  ASSUME WholeInv, ResolveClass
  PROVE  DecoratedInv'
<1>. DEFINE variables == VariablesOf(at)
            functions == FunctionsOf(at)
            newTypes == [p \in {at} \X DOMAIN variables |-> TypeOfVariable(variables[p[2]])]
            newSignatures == [p \in {at} \X DOMAIN functions |-> Signature(functions[p[2]])]
<1>1. /\ phase = "classes" /\ phase' = phase /\ at' = at + 1 /\ prog' = prog /\ scope' = scope
      /\ main' = main /\ at \in DOMAIN prog.classes
      /\ types' = Adding(types, newTypes) /\ signatures' = Adding(signatures, newSignatures)
      /\ errors' = (\/ errors
                    \/ \E v \in ToSet(variables) : ~VariableIsOk(v)
                    \/ \E f \in ToSet(functions) : NoType \in ToSet(Signature(f)))
  BY DEF ResolveClass, In, ListOf
<1>2. phase \in AfterNames /\ at \in Lists /\ prog \in AllPrograms
  BY <1>1 DEF AfterNames, Lists, WholeInv, Base
<1>3. /\ errors => errors'
      /\ ~errors' => /\ \A j \in DOMAIN variables : VariableIsOk(variables[j])
                     /\ \A k \in DOMAIN functions : NoType \notin ToSet(Signature(functions[k]))
  BY <1>1 DEF ToSet
<1>4. ScopeIsFirst' /\ ScopeIsFull'
  BY <1>1, <1>2, <1>3, LaterPasses
<1>5. /\ DOMAIN types' = DOMAIN types \cup {at} \X DOMAIN variables
      /\ \A p \in DOMAIN types : types'[p] = types[p]
      /\ \A p \in ({at} \X DOMAIN variables) \ DOMAIN types :
           p[1] = at /\ p[2] \in DOMAIN variables /\ types'[p] = TypeOfVariable(variables[p[2]])
  BY <1>1 DEF Adding
<1>6. /\ DOMAIN signatures' = DOMAIN signatures \cup {at} \X DOMAIN functions
      /\ \A p \in DOMAIN signatures : signatures'[p] = signatures[p]
      /\ \A p \in ({at} \X DOMAIN functions) \ DOMAIN signatures :
           p[1] = at /\ p[2] \in DOMAIN functions /\ signatures'[p] = Signature(functions[p[2]])
  BY <1>1 DEF Adding
<1>7. phase' # "names"
  BY <1>1
<1>8. TypesAreRight'
  <2>1. \A p \in DOMAIN types' :
          \/ p \in DOMAIN types /\ types'[p] = types[p]
          \/ /\ p[1] \in Lists /\ p[2] \in DOMAIN VariablesOf(p[1])
             /\ types'[p] = TypeOfVariable(VariablesOf(p[1])[p[2]])
    BY <1>2, <1>5
  <2>. QED  BY <1>1, <1>7, <2>1, TypesStay DEF WholeInv, DecoratedInv
<1>9. SignaturesAreRight'
  <2>1. \A p \in DOMAIN signatures' :
          \/ p \in DOMAIN signatures /\ signatures'[p] = signatures[p]
          \/ /\ p[1] \in Lists /\ p[2] \in DOMAIN FunctionsOf(p[1])
             /\ signatures'[p] = Signature(FunctionsOf(p[1])[p[2]])
    BY <1>2, <1>6
  <2>. QED  BY <1>1, <1>7, <2>1, SignaturesStay DEF WholeInv, DecoratedInv
<1>10. AllResolved'
  <2>1. ASSUME NEW c \in DOMAIN prog.classes, Done("classes", AfterClasses, c)',
               ~Done("classes", AfterClasses, c)
        PROVE  /\ \A j \in DOMAIN VariablesOf(c) :
                    /\ <<c, j>> \in DOMAIN types'
                    /\ ~errors' => VariableIsOk(VariablesOf(c)[j])
               /\ \A k \in DOMAIN FunctionsOf(c) :
                    /\ <<c, k>> \in DOMAIN signatures'
                    /\ ~errors' => NoType \notin ToSet(Signature(FunctionsOf(c)[k]))
    <3>1. c = at
      BY <1>1, <1>2, <2>1, NextPosition, DomainsAreNat
    <3>. QED  BY <1>3, <1>5, <1>6, <3>1
  <2>2. /\ \A k \in DOMAIN FunctionsOf(0) : Done("functions", AfterFunctions, k)' =>
             Done("functions", AfterFunctions, k)
        /\ \A j \in DOMAIN VariablesOf(0) : Done("globals", AfterGlobals, j)' =>
             Done("globals", AfterGlobals, j)
    BY <1>1, <1>2, LaterPasses, DomainsAreNat DEF Kept
  <2>3. DOMAIN types \subseteq DOMAIN types' /\ DOMAIN signatures \subseteq DOMAIN signatures'
    BY <1>5, <1>6
  <2>. HIDE DEF variables, functions, newTypes, newSignatures
  <2>. QED  BY <1>1, <1>3, <2>1, <2>2, <2>3, ResolvedStays DEF WholeInv, DecoratedInv
<1>11. BodiesChecked' /\ MainIsMain'
  <2>1. BodiesChecked'
    <3>1. /\ \A c \in DOMAIN prog.classes : Done("classBodies", AfterClassBodies, c)' =>
               Done("classBodies", AfterClassBodies, c)
          /\ \A k \in DOMAIN FunctionsOf(0) : Done("bodies", AfterBodies, k)' =>
               Done("bodies", AfterBodies, k)
      BY <1>1, <1>2, LaterPasses, DomainsAreNat DEF Kept
    <3>. HIDE DEF variables, functions, newTypes, newSignatures
    <3>. QED  BY <1>1, <1>3, <3>1, BodiesStay DEF WholeInv, DecoratedInv
  <2>. QED  BY <1>1, <2>1 DEF WholeInv, DecoratedInv, MainIsMain
<1>12. Judged'
  <2>1. errors' => ~WellDeclared
    <3>1. \A v \in ToSet(variables) : ~VariableIsOk(v) => ~WellDeclared
      BY <1>2, ErrorIsReal DEF WholeInv, ToSet
    <3>2. \A f \in ToSet(functions) : NoType \in ToSet(Signature(f)) => ~WellDeclared
      BY <1>2, ErrorIsReal DEF WholeInv, ToSet
    <3>3. errors => ~WellDeclared
      BY DEF WholeInv, DecoratedInv, Judged
    <3>. QED  BY <1>1, <3>1, <3>2, <3>3
  <2>. QED  BY <1>1, <2>1, SameProgram DEF Judged, Generating
<1>. QED  BY <1>4, <1>8, <1>9, <1>10, <1>11, <1>12 DEF DecoratedInv

LEMMA ResolveFunctionStep ==
  ASSUME WholeInv, ResolveFunction
  PROVE  DecoratedInv'
<1>. DEFINE new == [p \in {<<0, at>>} |-> Signature(prog.functions[at])]
<1>1. /\ phase = "functions" /\ phase' = phase /\ at' = at + 1 /\ prog' = prog /\ scope' = scope
      /\ main' = main /\ types' = types /\ at \in DOMAIN prog.functions
      /\ signatures' = Adding(signatures, new)
      /\ errors' = (errors \/ NoType \in ToSet(Signature(prog.functions[at])))
  BY DEF ResolveFunction, In, ListOf
<1>2. /\ phase \in AfterNames /\ prog \in AllPrograms /\ 0 \in Lists
      /\ prog.functions = FunctionsOf(0) /\ at \in DOMAIN FunctionsOf(0)
  BY <1>1 DEF AfterNames, AfterClasses, Lists, FunctionsOf, WholeInv, Base
<1>3. /\ errors => errors'
      /\ ~errors' => NoType \notin ToSet(Signature(FunctionsOf(0)[at]))
  BY <1>1, <1>2
<1>4. ScopeIsFirst' /\ ScopeIsFull'
  BY <1>1, <1>2, <1>3, LaterPasses
<1>5. /\ DOMAIN signatures' = DOMAIN signatures \cup {<<0, at>>}
      /\ \A p \in DOMAIN signatures : signatures'[p] = signatures[p]
      /\ <<0, at>> \notin DOMAIN signatures =>
           signatures'[<<0, at>>] = Signature(FunctionsOf(0)[at])
  BY <1>1, <1>2 DEF Adding
<1>6. phase' # "names"
  BY <1>1
<1>7. TypesAreRight'
  BY <1>1, <1>6, TypesStay DEF WholeInv, DecoratedInv
<1>8. SignaturesAreRight'
  <2>1. ASSUME NEW p \in DOMAIN signatures'
        PROVE  \/ p \in DOMAIN signatures /\ signatures'[p] = signatures[p]
               \/ /\ p[1] \in Lists /\ p[2] \in DOMAIN FunctionsOf(p[1])
                  /\ signatures'[p] = Signature(FunctionsOf(p[1])[p[2]])
    BY <1>2, <1>5
  <2>. QED  BY <1>1, <1>6, <2>1, SignaturesStay DEF WholeInv, DecoratedInv
<1>9. AllResolved'
  <2>1. ASSUME NEW k \in DOMAIN FunctionsOf(0), Done("functions", AfterFunctions, k)',
               ~Done("functions", AfterFunctions, k)
        PROVE  /\ <<0, k>> \in DOMAIN signatures'
               /\ ~errors' => NoType \notin ToSet(Signature(FunctionsOf(0)[k]))
    <3>1. k = at
      BY <1>1, <1>2, <2>1, NextPosition, DomainsAreNat
    <3>. QED  BY <1>3, <1>5, <3>1
  <2>2. /\ \A c \in DOMAIN prog.classes : Done("classes", AfterClasses, c)' =>
             Done("classes", AfterClasses, c)
        /\ \A j \in DOMAIN VariablesOf(0) : Done("globals", AfterGlobals, j)' =>
             Done("globals", AfterGlobals, j)
    BY <1>1, <1>2, LaterPasses, DomainsAreNat DEF Kept
  <2>3. DOMAIN types \subseteq DOMAIN types' /\ DOMAIN signatures \subseteq DOMAIN signatures'
    BY <1>1, <1>5
  <2>. HIDE DEF new
  <2>. QED  BY <1>1, <1>3, <2>1, <2>2, <2>3, ResolvedStays DEF WholeInv, DecoratedInv
<1>10. BodiesChecked' /\ MainIsMain'
  <2>1. BodiesChecked'
    <3>1. /\ \A c \in DOMAIN prog.classes : Done("classBodies", AfterClassBodies, c)' =>
               Done("classBodies", AfterClassBodies, c)
          /\ \A k \in DOMAIN FunctionsOf(0) : Done("bodies", AfterBodies, k)' =>
               Done("bodies", AfterBodies, k)
      BY <1>1, <1>2, LaterPasses, DomainsAreNat DEF Kept
    <3>. HIDE DEF new
    <3>. QED  BY <1>1, <1>3, <3>1, BodiesStay DEF WholeInv, DecoratedInv
  <2>. QED  BY <1>1, <2>1 DEF WholeInv, DecoratedInv, MainIsMain
<1>11. Judged'
  <2>1. errors' => ~WellDeclared
    <3>1. NoType \in ToSet(Signature(FunctionsOf(0)[at])) => ~WellDeclared
      BY <1>2, ErrorIsReal DEF WholeInv
    <3>2. errors => ~WellDeclared
      BY DEF WholeInv, DecoratedInv, Judged
    <3>. QED  BY <1>1, <1>2, <3>1, <3>2
  <2>. QED  BY <1>1, <2>1, SameProgram DEF Judged, Generating
<1>. QED  BY <1>4, <1>7, <1>8, <1>9, <1>10, <1>11 DEF DecoratedInv

LEMMA ResolveGlobalStep ==
  ASSUME WholeInv, ResolveGlobal
  PROVE  DecoratedInv'
<1>. DEFINE new == [p \in {<<0, at>>} |-> TypeOfVariable(prog.globals[at])]
<1>1. /\ phase = "globals" /\ phase' = phase /\ at' = at + 1 /\ prog' = prog /\ scope' = scope
      /\ main' = main /\ signatures' = signatures /\ at \in DOMAIN prog.globals
      /\ types' = Adding(types, new)
      /\ errors' = (errors \/ ~VariableIsOk(prog.globals[at]))
  BY DEF ResolveGlobal, In, ListOf
<1>2. /\ phase \in AfterNames /\ prog \in AllPrograms /\ 0 \in Lists
      /\ prog.globals = VariablesOf(0) /\ at \in DOMAIN VariablesOf(0)
  BY <1>1 DEF AfterNames, AfterClasses, AfterFunctions, Lists, VariablesOf, WholeInv, Base
<1>3. /\ errors => errors'
      /\ ~errors' => VariableIsOk(VariablesOf(0)[at])
  BY <1>1, <1>2
<1>4. ScopeIsFirst' /\ ScopeIsFull'
  BY <1>1, <1>2, <1>3, LaterPasses
<1>5. /\ DOMAIN types' = DOMAIN types \cup {<<0, at>>}
      /\ \A p \in DOMAIN types : types'[p] = types[p]
      /\ <<0, at>> \notin DOMAIN types => types'[<<0, at>>] = TypeOfVariable(VariablesOf(0)[at])
  BY <1>1, <1>2 DEF Adding
<1>6. phase' # "names"
  BY <1>1
<1>7. SignaturesAreRight'
  BY <1>1, <1>6, SignaturesStay DEF WholeInv, DecoratedInv
<1>8. TypesAreRight'
  <2>1. ASSUME NEW p \in DOMAIN types'
        PROVE  \/ p \in DOMAIN types /\ types'[p] = types[p]
               \/ /\ p[1] \in Lists /\ p[2] \in DOMAIN VariablesOf(p[1])
                  /\ types'[p] = TypeOfVariable(VariablesOf(p[1])[p[2]])
    BY <1>2, <1>5
  <2>. QED  BY <1>1, <1>6, <2>1, TypesStay DEF WholeInv, DecoratedInv
<1>9. AllResolved'
  <2>1. ASSUME NEW j \in DOMAIN VariablesOf(0), Done("globals", AfterGlobals, j)',
               ~Done("globals", AfterGlobals, j)
        PROVE  /\ <<0, j>> \in DOMAIN types'
               /\ ~errors' => VariableIsOk(VariablesOf(0)[j])
    <3>1. j = at
      BY <1>1, <1>2, <2>1, NextPosition, DomainsAreNat
    <3>. QED  BY <1>3, <1>5, <3>1
  <2>2. /\ \A c \in DOMAIN prog.classes : Done("classes", AfterClasses, c)' =>
             Done("classes", AfterClasses, c)
        /\ \A k \in DOMAIN FunctionsOf(0) : Done("functions", AfterFunctions, k)' =>
             Done("functions", AfterFunctions, k)
    BY <1>1, <1>2, LaterPasses, DomainsAreNat DEF Kept
  <2>3. DOMAIN types \subseteq DOMAIN types' /\ DOMAIN signatures \subseteq DOMAIN signatures'
    BY <1>1, <1>5
  <2>. HIDE DEF new
  <2>. QED  BY <1>1, <1>3, <2>1, <2>2, <2>3, ResolvedStays DEF WholeInv, DecoratedInv
<1>10. BodiesChecked' /\ MainIsMain'
  <2>1. BodiesChecked'
    <3>1. /\ \A c \in DOMAIN prog.classes : Done("classBodies", AfterClassBodies, c)' =>
               Done("classBodies", AfterClassBodies, c)
          /\ \A k \in DOMAIN FunctionsOf(0) : Done("bodies", AfterBodies, k)' =>
               Done("bodies", AfterBodies, k)
      BY <1>1, <1>2, LaterPasses, DomainsAreNat DEF Kept
    <3>. HIDE DEF new
    <3>. QED  BY <1>1, <1>3, <3>1, BodiesStay DEF WholeInv, DecoratedInv
  <2>. QED  BY <1>1, <2>1 DEF WholeInv, DecoratedInv, MainIsMain
<1>11. Judged'
  <2>1. errors' => ~WellDeclared
    <3>1. ~VariableIsOk(VariablesOf(0)[at]) => ~WellDeclared
      BY <1>2, ErrorIsReal DEF WholeInv
    <3>2. errors => ~WellDeclared
      BY DEF WholeInv, DecoratedInv, Judged
    <3>. QED  BY <1>1, <1>2, <3>1, <3>2
  <2>. QED  BY <1>1, <2>1, SameProgram DEF Judged, Generating
<1>. QED  BY <1>4, <1>7, <1>8, <1>9, <1>10, <1>11 DEF DecoratedInv

----------------------------------------------------------------------------
(* A step that resolves nothing keeps what is resolved.                    *)
LEMMA ResolvedKept ==
  ASSUME WholeInv, prog' = prog, scope' = scope, types' = types, signatures' = signatures,
         main' = main, errors => errors', phase' # "names", DecoratingKept
  PROVE  /\ ScopeIsFirst' /\ ScopeIsFull' /\ TypesAreRight' /\ SignaturesAreRight'
         /\ AllResolved' /\ BodiesChecked' /\ MainIsMain'
<1>1. /\ Kept("names", AfterNames, Declared)
      /\ \A c \in DOMAIN prog.classes : Done("classes", AfterClasses, c)' => Done("classes", AfterClasses, c)
      /\ \A k \in DOMAIN FunctionsOf(0) : Done("functions", AfterFunctions, k)' => Done("functions", AfterFunctions, k)
      /\ \A j \in DOMAIN VariablesOf(0) : Done("globals", AfterGlobals, j)' => Done("globals", AfterGlobals, j)
      /\ \A c \in DOMAIN prog.classes :
           Done("classBodies", AfterClassBodies, c)' => Done("classBodies", AfterClassBodies, c)
      /\ \A k \in DOMAIN FunctionsOf(0) : Done("bodies", AfterBodies, k)' => Done("bodies", AfterBodies, k)
  BY DomainsAreNat DEF DecoratingKept, Kept, WholeInv, Base
<1>2. ScopeIsFirst' /\ ScopeIsFull'
  BY <1>1, ScopeStays DEF WholeInv, DecoratedInv
<1>3. TypesAreRight'
  BY TypesStay DEF WholeInv, DecoratedInv
<1>4. SignaturesAreRight'
  BY SignaturesStay DEF WholeInv, DecoratedInv
<1>5. AllResolved'
  BY <1>1, ResolvedStays DEF WholeInv, DecoratedInv
<1>6. BodiesChecked'
  BY <1>1, BodiesStay DEF WholeInv, DecoratedInv
<1>7. MainIsMain'
  BY DEF WholeInv, DecoratedInv, MainIsMain
<1>. QED  BY <1>2, <1>3, <1>4, <1>5, <1>6, <1>7

LEMMA CrashStep ==
  ASSUME WholeInv, CrashInMessage
  PROVE  DecoratedInv'
<1>1. /\ phase' = "crashed" /\ prog' = prog /\ scope' = scope /\ types' = types
      /\ signatures' = signatures /\ errors' = errors /\ main' = main
  BY DEF CrashInMessage, resolved
<1>2. ~WellDeclared
  <2>1. CASE In("globals") /\ MessageCrashes(prog.globals[at])
    <3>1. /\ phase \in AfterNames /\ 0 \in Lists /\ at \in DOMAIN VariablesOf(0)
          /\ MessageCrashes(VariablesOf(0)[at])
      BY <2>1 DEF In, ListOf, AfterNames, AfterClasses, AfterFunctions, Lists, VariablesOf
    <3>. QED  BY <3>1, ErrorIsReal DEF WholeInv
  <2>2. CASE In("classes") /\ \E v \in ToSet(VariablesOf(at)) : MessageCrashes(v)
    <3>1. phase \in AfterNames /\ at \in Lists
      BY <2>2 DEF In, ListOf, AfterNames, Lists
    <3>2. PICK j \in DOMAIN VariablesOf(at) : MessageCrashes(VariablesOf(at)[j])
      BY <2>2 DEF ToSet
    <3>. QED  BY <3>1, <3>2, ErrorIsReal DEF WholeInv
  <2>. QED  BY <2>1, <2>2 DEF CrashInMessage
<1>3. DecoratingKept
  BY <1>1, GeneratingKeeps
<1>4. Judged'
  <2>1. WellDeclared' <=> WellDeclared
    BY <1>1, SameProgram
  <2>. QED  BY <1>1, <1>2, <2>1 DEF Judged, Generating
<1>. QED  BY <1>1, <1>3, <1>4, ResolvedKept DEF DecoratedInv

LEMMA NextPassDecorates ==
  ASSUME WholeInv, NextPass
  PROVE  DecoratedInv'
<1>1. /\ prog' = prog /\ scope' = scope /\ types' = types
      /\ signatures' = signatures /\ errors' = errors /\ main' = main
  BY DEF NextPass, resolved
<1>2. DecoratingKept
  BY NextPassKeeps DEF WholeInv, Base
<1>3. phase' # "names" /\ phase' \notin {"refused", "crashed"} /\ (phase' \in Generating => phase \in Generating)
  BY PassesFollow DEF Generating
<1>4. Judged'
  <2>1. WellDeclared' <=> WellDeclared
    BY <1>1, SameProgram
  <2>. QED  BY <1>1, <1>3, <2>1 DEF WholeInv, DecoratedInv, Judged
<1>. QED  BY <1>1, <1>2, <1>3, <1>4, ResolvedKept DEF DecoratedInv

(* What doFunctionDeclarationBody sees of a function that is resolved.     *)
LEMMA WrongMainIs ==
  ASSUME WholeInv, phase \in AfterGlobals, NEW c \in Lists, NEW k \in DOMAIN FunctionsOf(c)
  PROVE  /\ signatures[<<c, k>>] = Signature(FunctionsOf(c)[k])
         /\ <<c, k>> \in DOMAIN signatures
         /\ WrongMain(c, k) <=> ~MainIsRight(FunctionsOf(c)[k])
         /\ IsMain(c, k) <=> /\ FunctionsOf(c)[k].name = "main"
                             /\ Signature(FunctionsOf(c)[k]) = <<"i32">>
<1>1. FunctionResolved(c, k)
  <2>1. phase \in AfterClasses /\ phase \in AfterFunctions
    BY DEF AfterClasses, AfterFunctions
  <2>. QED  BY <2>1 DEF WholeInv, DecoratedInv, AllResolved, Done, Lists
<1>2. signatures[<<c, k>>] = Signature(FunctionsOf(c)[k]) /\ <<c, k>> \in DOMAIN signatures
  BY <1>1 DEF FunctionResolved, WholeInv, DecoratedInv, SignaturesAreRight
<1>. QED  BY <1>2 DEF WrongMain, IsMain, HasBody, MainIsRight

LEMMA CheckClassBodyStep ==
  ASSUME WholeInv, CheckClassBody
  PROVE  DecoratedInv'
<1>. DEFINE inClass == NamesOf(VariablesOf(at)) \o <<"this">> \o NamesOf(FunctionsOf(at))
<1>1. /\ phase = "classBodies" /\ phase' = phase /\ at' = at + 1 /\ prog' = prog /\ scope' = scope
      /\ types' = types /\ signatures' = signatures /\ main' = main /\ at \in DOMAIN prog.classes
      /\ errors' = (errors \/ ~IsInjective(inClass) \/ \E k \in DOMAIN FunctionsOf(at) : WrongMain(at, k))
  BY DEF CheckClassBody, In, ListOf
<1>. HIDE DEF inClass
<1>2. phase \in AfterNames /\ phase \in AfterGlobals /\ at \in Lists /\ prog \in AllPrograms
  BY <1>1 DEF AfterNames, AfterClasses, AfterFunctions, AfterGlobals, Lists, WholeInv, Base
<1>3. \A k \in DOMAIN FunctionsOf(at) : WrongMain(at, k) <=> ~MainIsRight(FunctionsOf(at)[k])
  BY <1>2, WrongMainIs
<1>4. /\ errors => errors'
      /\ ~errors' => /\ IsInjective(inClass)
                     /\ \A k \in DOMAIN FunctionsOf(at) : MainIsRight(FunctionsOf(at)[k])
  BY <1>1, <1>3
<1>5. phase' # "names"
  BY <1>1
<1>6. ScopeIsFirst' /\ ScopeIsFull'
  BY <1>1, <1>2, <1>4, LaterPasses
<1>7. TypesAreRight' /\ SignaturesAreRight'
  BY <1>1, <1>5, TypesStay, SignaturesStay DEF WholeInv, DecoratedInv
<1>8. AllResolved'
  <2>1. /\ \A c \in DOMAIN prog.classes : Done("classes", AfterClasses, c)' =>
             Done("classes", AfterClasses, c)
        /\ \A k \in DOMAIN FunctionsOf(0) : Done("functions", AfterFunctions, k)' =>
             Done("functions", AfterFunctions, k)
        /\ \A j \in DOMAIN VariablesOf(0) : Done("globals", AfterGlobals, j)' =>
             Done("globals", AfterGlobals, j)
    BY <1>1, <1>2, LaterPasses, DomainsAreNat DEF Kept
  <2>. QED  BY <1>1, <1>4, <2>1, ResolvedStays DEF WholeInv, DecoratedInv
<1>9. BodiesChecked'
  <2>1. ASSUME NEW c \in DOMAIN prog.classes, Done("classBodies", AfterClassBodies, c)',
               ~Done("classBodies", AfterClassBodies, c)
        PROVE  ~errors' =>
                 /\ IsInjective(NamesOf(VariablesOf(c)) \o <<"this">> \o NamesOf(FunctionsOf(c)))
                 /\ \A k \in DOMAIN FunctionsOf(c) : MainIsRight(FunctionsOf(c)[k])
    <3>1. c = at
      BY <1>1, <1>2, <2>1, NextPosition, DomainsAreNat
    <3>. QED  BY <1>4, <3>1 DEF inClass
  <2>2. \A k \in DOMAIN FunctionsOf(0) : Done("bodies", AfterBodies, k)' => Done("bodies", AfterBodies, k)
    BY <1>1, <1>2, LaterPasses, DomainsAreNat DEF Kept
  <2>. QED  BY <1>1, <1>4, <2>1, <2>2, BodiesStay DEF WholeInv, DecoratedInv
<1>10. MainIsMain'
  BY <1>1 DEF WholeInv, DecoratedInv, MainIsMain
<1>11. Judged'
  <2>1. errors' => ~WellDeclared
    <3>1. ~IsInjective(inClass) => ~WellDeclared
      <4>1. WellDeclared => InOrder
        BY <1>2, WellDeclaredIs
      <4>. QED  BY <1>1, <4>1 DEF InOrder, inClass
    <3>2. \A k \in DOMAIN FunctionsOf(at) : ~MainIsRight(FunctionsOf(at)[k]) => ~WellDeclared
      BY <1>2, ErrorIsReal DEF WholeInv
    <3>3. errors => ~WellDeclared
      BY DEF WholeInv, DecoratedInv, Judged
    <3>. QED  BY <1>1, <1>3, <3>1, <3>2, <3>3
  <2>. QED  BY <1>1, <2>1, SameProgram DEF Judged, Generating
<1>. QED  BY <1>6, <1>7, <1>8, <1>9, <1>10, <1>11 DEF DecoratedInv

LEMMA CheckBodyStep ==
  ASSUME WholeInv, CheckBody
  PROVE  DecoratedInv'
<1>1. /\ phase = "bodies" /\ phase' = phase /\ at' = at + 1 /\ prog' = prog /\ scope' = scope
      /\ types' = types /\ signatures' = signatures /\ at \in DOMAIN prog.functions
      /\ main' = IF IsMain(0, at) THEN at ELSE main
      /\ errors' = (errors \/ WrongMain(0, at))
  BY DEF CheckBody, In, ListOf
<1>2. /\ phase \in AfterNames /\ phase \in AfterGlobals /\ prog \in AllPrograms /\ 0 \in Lists
      /\ prog.functions = FunctionsOf(0) /\ at \in DOMAIN FunctionsOf(0) /\ at # 0
  BY <1>1 DEF AfterNames, AfterClasses, AfterFunctions, AfterGlobals, AfterClassBodies, Lists, FunctionsOf,
              WholeInv, Base
<1>3. /\ WrongMain(0, at) <=> ~MainIsRight(FunctionsOf(0)[at])
      /\ IsMain(0, at) <=> /\ FunctionsOf(0)[at].name = "main"
                           /\ Signature(FunctionsOf(0)[at]) = <<"i32">>
  BY <1>2, WrongMainIs
<1>4. /\ errors => errors'
      /\ ~errors' => MainIsRight(FunctionsOf(0)[at])
      /\ main # 0 => main' # 0
      /\ FunctionsOf(0)[at].name = "main" /\ Signature(FunctionsOf(0)[at]) = <<"i32">> => main' # 0
  BY <1>1, <1>2, <1>3
<1>5. phase' # "names"
  BY <1>1
<1>6. ScopeIsFirst' /\ ScopeIsFull'
  BY <1>1, <1>2, <1>4, LaterPasses
<1>7. TypesAreRight' /\ SignaturesAreRight'
  BY <1>1, <1>5, TypesStay, SignaturesStay DEF WholeInv, DecoratedInv
<1>8. AllResolved'
  <2>1. /\ \A c \in DOMAIN prog.classes : Done("classes", AfterClasses, c)' =>
             Done("classes", AfterClasses, c)
        /\ \A k \in DOMAIN FunctionsOf(0) : Done("functions", AfterFunctions, k)' =>
             Done("functions", AfterFunctions, k)
        /\ \A j \in DOMAIN VariablesOf(0) : Done("globals", AfterGlobals, j)' =>
             Done("globals", AfterGlobals, j)
    BY <1>1, <1>2, LaterPasses, DomainsAreNat DEF Kept
  <2>. QED  BY <1>1, <1>4, <2>1, ResolvedStays DEF WholeInv, DecoratedInv
<1>9. BodiesChecked'
  <2>1. ASSUME NEW k \in DOMAIN FunctionsOf(0), Done("bodies", AfterBodies, k)',
               ~Done("bodies", AfterBodies, k)
        PROVE  /\ ~errors' => MainIsRight(FunctionsOf(0)[k])
               /\ FunctionsOf(0)[k].name = "main" /\ Signature(FunctionsOf(0)[k]) = <<"i32">> => main' # 0
    <3>1. k = at
      BY <1>1, <1>2, <2>1, NextPosition, DomainsAreNat
    <3>. QED  BY <1>4, <3>1
  <2>2. \A c \in DOMAIN prog.classes : Done("classBodies", AfterClassBodies, c)' =>
          Done("classBodies", AfterClassBodies, c)
    BY <1>1, <1>2, LaterPasses, DomainsAreNat DEF Kept
  <2>. QED  BY <1>1, <1>4, <2>1, <2>2, BodiesStay DEF WholeInv, DecoratedInv
<1>10. MainIsMain'
  <2>1. CASE IsMain(0, at)
    BY <1>1, <1>2, <1>3, <1>5, <2>1 DEF MainIsMain
  <2>2. CASE ~IsMain(0, at)
    BY <1>1, <1>5, <2>2 DEF WholeInv, DecoratedInv, MainIsMain
  <2>. QED  BY <2>1, <2>2
<1>11. Judged'
  <2>1. errors' => ~WellDeclared
    <3>1. ~MainIsRight(FunctionsOf(0)[at]) => ~WellDeclared
      BY <1>2, ErrorIsReal DEF WholeInv
    <3>2. errors => ~WellDeclared
      BY DEF WholeInv, DecoratedInv, Judged
    <3>. QED  BY <1>1, <1>3, <3>1, <3>2
  <2>. QED  BY <1>1, <2>1, SameProgram DEF Judged, Generating
<1>. QED  BY <1>6, <1>7, <1>8, <1>9, <1>10, <1>11 DEF DecoratedInv

(* When linkNames is through: what it has seen is the whole of WellDeclared. *)
LEMMA AllSeen ==
  ASSUME WholeInv, phase = "main"
  PROVE  errors \/ main = 0 <=> ~WellDeclared
<1>1. /\ prog \in AllPrograms /\ 0 \in Lists /\ ScopeIsFirst
      /\ DOMAIN prog.functions = DOMAIN FunctionsOf(0) /\ prog.functions = FunctionsOf(0)
  BY DEF WholeInv, Base, DecoratedInv, FunctionsOf, Lists
<1>2. /\ phase \in AfterNames /\ phase \in AfterClasses /\ phase \in AfterFunctions
      /\ phase \in AfterGlobals /\ phase \in AfterClassBodies /\ phase \in AfterBodies
  BY DEF AfterNames, AfterClasses, AfterFunctions, AfterGlobals, AfterClassBodies, AfterBodies
<1>3. WellDeclared <=> InOrder
  BY <1>1, WellDeclaredIs
<1>4. NamesKnown /\ (~errors => IsInjective(Declared))
  BY <1>2, NamesAreKnown DEF WholeInv
<1>5. /\ \A c \in Lists : \A j \in DOMAIN VariablesOf(c) : VariablesOf(c)[j] \in Variables
      /\ \A c \in Lists : \A k \in DOMAIN FunctionsOf(c) : FunctionsOf(c)[k] \in Functions
  BY <1>1, ProgramShape, ElementOfSeq, LenProperties
<1>6. ASSUME main = 0 PROVE ~InOrder
  <2>. SUFFICES ASSUME InOrder PROVE FALSE
    OBVIOUS
  <2>1. PICK k \in DOMAIN FunctionsOf(0) : FunctionsOf(0)[k].name = "main"
    BY <1>1 DEF InOrder
  <2>2. GoodFunction(FunctionsOf(0)[k])
    BY <1>1 DEF InOrder
  <2>3. Signature(FunctionsOf(0)[k]) = <<"i32">>
    BY <1>1, <1>5, <2>1, <2>2, SignatureIsMains DEF GoodFunction
  <2>. QED  BY <1>2, <1>6, <2>1, <2>3 DEF WholeInv, DecoratedInv, BodiesChecked, Done
<1>7. ASSUME ~errors, main # 0 PROVE InOrder
  <2>1. \A c \in DOMAIN prog.classes :
          IsInjective(NamesOf(VariablesOf(c)) \o <<"this">> \o NamesOf(FunctionsOf(c)))
    BY <1>2, <1>7 DEF WholeInv, DecoratedInv, BodiesChecked, Done
  <2>2. ASSUME NEW c \in Lists, NEW j \in DOMAIN VariablesOf(c) PROVE GoodVariable(VariablesOf(c)[j])
    <3>1. VariablesResolved(c, j)
      BY <1>2 DEF WholeInv, DecoratedInv, AllResolved, Done, Lists
    <3>2. VariableIsOk(VariablesOf(c)[j])
      BY <1>7, <3>1 DEF VariablesResolved
    <3>. QED  BY <1>1, <1>5, <3>2, OkIsGood
  <2>3. ASSUME NEW c \in Lists, NEW k \in DOMAIN FunctionsOf(c) PROVE GoodFunction(FunctionsOf(c)[k])
    <3>1. FunctionResolved(c, k)
      BY <1>2 DEF WholeInv, DecoratedInv, AllResolved, Done, Lists
    <3>2. NoType \notin ToSet(Signature(FunctionsOf(c)[k]))
      BY <1>7, <3>1 DEF FunctionResolved
    <3>3. MainIsRight(FunctionsOf(c)[k])
      BY <1>2, <1>7 DEF WholeInv, DecoratedInv, BodiesChecked, Done, Lists
    <3>. QED  BY <1>1, <1>5, <3>2, <3>3, FoundIsGood
  <2>4. \E k \in DOMAIN prog.functions : prog.functions[k].name = "main"
    BY <1>7 DEF WholeInv, DecoratedInv, MainIsMain
  <2>. QED  BY <1>4, <1>7, <2>1, <2>2, <2>3, <2>4 DEF InOrder
<1>8. errors => ~WellDeclared
  BY DEF WholeInv, DecoratedInv, Judged
<1>. QED  BY <1>3, <1>6, <1>7, <1>8

LEMMA CheckMainStep ==
  ASSUME WholeInv, CheckMain
  PROVE  DecoratedInv'
<1>1. /\ phase = "main" /\ prog' = prog /\ scope' = scope /\ types' = types
      /\ signatures' = signatures /\ main' = main /\ errors' = (errors \/ main = 0)
      /\ phase' = IF errors' THEN "refused" ELSE "genGlobals"
  BY DEF CheckMain
<1>2. errors' <=> ~WellDeclared
  BY <1>1, AllSeen
<1>3. DecoratingKept
  BY <1>1, GeneratingKeeps DEF Generating
<1>4. Judged'
  <2>1. WellDeclared' <=> WellDeclared
    BY <1>1, SameProgram
  <2>. QED  BY <1>1, <1>2, <2>1 DEF Judged, Generating
<1>. QED  BY <1>1, <1>3, <1>4, ResolvedKept DEF DecoratedInv

(* The steps of the decorator keep the whole of the invariant.             *)
LEMMA DecoratorSteps ==
  ASSUME WholeInv,
         \/ AddName \/ ResolveClass \/ ResolveFunction \/ ResolveGlobal \/ CrashInMessage
         \/ CheckClassBody \/ CheckBody \/ CheckMain
  PROVE  WholeInv'
<1>1. DecoratedInv'
  BY AddNameStep, ResolveClassStep, ResolveFunctionStep, ResolveGlobalStep, CrashStep,
     CheckClassBodyStep, CheckBodyStep, CheckMainStep
<1>2. /\ prog' = prog /\ UNCHANGED layout /\ phase \in Decorating
      /\ phase' \in {phase, "genGlobals", "refused", "crashed"}
      /\ at' \in {at, at + 1}
  BY DEF AddName, ResolveClass, ResolveFunction, ResolveGlobal, CrashInMessage,
         CheckClassBody, CheckBody, CheckMain, In, Decorating
<1>3. errors' \in BOOLEAN
  BY DEF AddName, ResolveClass, ResolveFunction, ResolveGlobal, CrashInMessage, resolved,
         CheckClassBody, CheckBody, CheckMain, WholeInv, Base
<1>4. "genGlobals" \in ToSet(Passes)
  <2>1. Passes[8] = "genGlobals" /\ 8 \in DOMAIN Passes
    BY DEF Passes
  <2>. QED  BY <2>1 DEF ToSet
<1>5. Base'
  BY <1>2, <1>3, <1>4 DEF WholeInv, Base, layout
<1>6. GeneratedInv' /\ SearchInv' /\ SizesAreDefined'
  BY <1>2, LayoutStays DEF Decorating
<1>. QED  BY <1>1, <1>5, <1>6 DEF WholeInv

----------------------------------------------------------------------------
(* The generator.  What it gets is in order and resolved.                  *)
LEMMA PassNames ==
  ToSet(Passes) = {"names", "classes", "functions", "globals", "classBodies", "bodies", "main",
                   "genGlobals", "genFunctions", "genClasses", "genSizes", "genBodies", "done"}
<1>1. DOMAIN Passes = 1..13
  BY DEF Passes
<1>2. 1..13 = {1, 2, 3, 4, 5, 6, 7, 8, 9, 10, 11, 12, 13}
  OBVIOUS
<1>3. ToSet(Passes) = {Passes[1], Passes[2], Passes[3], Passes[4], Passes[5], Passes[6], Passes[7],
                       Passes[8], Passes[9], Passes[10], Passes[11], Passes[12], Passes[13]}
  BY <1>1, <1>2 DEF ToSet
<1>. QED  BY <1>3 DEF Passes

LEMMA NamesAreNoTypes ==
  ASSUME prog \in AllPrograms
  PROVE  \A d \in DOMAIN prog.classes :
           /\ prog.classes[d].name \in Names
           /\ prog.classes[d].name \notin BuiltIn \cup {Infer, NoType}
<1>1. \A d \in DOMAIN prog.classes : prog.classes[d] \in Classes
  BY ProgramShape, ElementOfSeq, LenProperties
<1>2. \A d \in DOMAIN prog.classes : prog.classes[d].name \in Names
  BY <1>1 DEF Classes
<1>. QED  BY <1>2, ProgramsAssumption

LEMMA ResolvedForGenerator ==
  ASSUME WholeInv, phase \in Generating
  PROVE  /\ InOrder
         /\ \A c \in Lists : \A j \in DOMAIN VariablesOf(c) :
              /\ GoodVariable(VariablesOf(c)[j])
              /\ types[<<c, j>>] = IF VariablesOf(c)[j].typeName = Infer
                                   THEN VariablesOf(c)[j].init ELSE VariablesOf(c)[j].typeName
         /\ \A c \in Lists : \A k \in DOMAIN FunctionsOf(c) :
              /\ GoodFunction(FunctionsOf(c)[k])
              /\ signatures[<<c, k>>] = Signature(FunctionsOf(c)[k])
              /\ ToSet(Signature(FunctionsOf(c)[k]))
                   = {FunctionsOf(c)[k].typeName} \cup ToSet(FunctionsOf(c)[k].args)
<1>1. prog \in AllPrograms /\ ScopeIsFirst /\ ~errors /\ WellDeclared
  BY DEF WholeInv, Base, DecoratedInv, Judged
<1>2. InOrder
  BY <1>1, WellDeclaredIs
<1>3. /\ phase \in AfterClasses /\ phase \in AfterFunctions /\ phase \in AfterGlobals
      /\ phase \in AfterClassBodies /\ phase \in AfterBodies
  BY DEF AfterClasses, AfterFunctions, AfterGlobals, AfterClassBodies, AfterBodies
<1>4. /\ \A c \in Lists : \A j \in DOMAIN VariablesOf(c) : VariablesOf(c)[j] \in Variables
      /\ \A c \in Lists : \A k \in DOMAIN FunctionsOf(c) : FunctionsOf(c)[k] \in Functions
  BY <1>1, ProgramShape, ElementOfSeq, LenProperties
<1>5. ASSUME NEW c \in Lists, NEW j \in DOMAIN VariablesOf(c)
      PROVE  /\ GoodVariable(VariablesOf(c)[j])
             /\ types[<<c, j>>] = IF VariablesOf(c)[j].typeName = Infer
                                  THEN VariablesOf(c)[j].init ELSE VariablesOf(c)[j].typeName
  <2>1. VariablesResolved(c, j)
    BY <1>3 DEF WholeInv, DecoratedInv, AllResolved, Done, Lists
  <2>2. VariableIsOk(VariablesOf(c)[j]) /\ <<c, j>> \in DOMAIN types
    BY <1>1, <2>1 DEF VariablesResolved
  <2>3. types[<<c, j>>] = TypeOfVariable(VariablesOf(c)[j])
    BY <2>2 DEF WholeInv, DecoratedInv, TypesAreRight
  <2>. QED  BY <1>1, <1>4, <2>2, <2>3, OkIsGood
<1>6. ASSUME NEW c \in Lists, NEW k \in DOMAIN FunctionsOf(c)
      PROVE  /\ GoodFunction(FunctionsOf(c)[k])
             /\ signatures[<<c, k>>] = Signature(FunctionsOf(c)[k])
             /\ ToSet(Signature(FunctionsOf(c)[k]))
                  = {FunctionsOf(c)[k].typeName} \cup ToSet(FunctionsOf(c)[k].args)
  <2>1. FunctionResolved(c, k)
    BY <1>3 DEF WholeInv, DecoratedInv, AllResolved, Done, Lists
  <2>2. NoType \notin ToSet(Signature(FunctionsOf(c)[k])) /\ <<c, k>> \in DOMAIN signatures
    BY <1>1, <2>1 DEF FunctionResolved
  <2>3. signatures[<<c, k>>] = Signature(FunctionsOf(c)[k])
    BY <2>2 DEF WholeInv, DecoratedInv, SignaturesAreRight
  <2>4. MainIsRight(FunctionsOf(c)[k])
    BY <1>1, <1>3 DEF WholeInv, DecoratedInv, BodiesChecked, Done, Lists
  <2>. QED  BY <1>1, <1>4, <2>2, <2>3, <2>4, FoundIsGood
<1>. QED  BY <1>2, <1>5, <1>6

(* The type of a member of a class. *)
LEMMA MemberTypes ==
  ASSUME WholeInv, phase \in Generating, NEW c \in Lists, NEW j \in DOMAIN VariablesOf(c)
  PROVE  /\ types[<<c, j>>] \in BuiltIn \/ \E d \in DOMAIN prog.classes : ClassOfMember(c, j, d)
         /\ types[<<c, j>>] \in BuiltIn => \A d \in DOMAIN prog.classes : ~ClassOfMember(c, j, d)
         /\ \A d \in DOMAIN prog.classes :
              ClassOfMember(c, j, d) <=> VariablesOf(c)[j].typeName = prog.classes[d].name
         /\ VariablesOf(c)[j].init \in {"i32", "f32"} => types[<<c, j>>] \in BuiltIn
<1>. DEFINE v == VariablesOf(c)[j]
<1>1. /\ GoodVariable(v)
      /\ types[<<c, j>>] = IF v.typeName = Infer THEN v.init ELSE v.typeName
  BY ResolvedForGenerator
<1>2. \A d \in DOMAIN prog.classes : prog.classes[d].name \notin BuiltIn \cup {Infer, NoType}
  BY NamesAreNoTypes DEF WholeInv, Base
<1>. HIDE DEF v
<1>3. CASE v.typeName = Infer
  <2>1. types[<<c, j>>] \in BuiltIn
    BY <1>1, <1>3 DEF GoodVariable, Literals
  <2>. QED  BY <1>2, <1>3, <2>1 DEF ClassOfMember, v
<1>4. CASE v.typeName # Infer
  <2>1. types[<<c, j>>] = v.typeName /\ Known(v.typeName)
    BY <1>1, <1>4 DEF GoodVariable
  <2>2. v.init \in {"i32", "f32"} => v.init = v.typeName /\ v.init \in BuiltIn
    BY <1>1, <1>4 DEF GoodVariable, Literals
  <2>. QED  BY <1>2, <2>1, <2>2 DEF ClassOfMember, Known, IsClass, v
<1>. QED  BY <1>3, <1>4

LEMMA ClassesDiffer ==
  ASSUME prog \in AllPrograms, IsInjective(Declared),
         NEW d \in DOMAIN prog.classes, NEW e \in DOMAIN prog.classes,
         prog.classes[d].name = prog.classes[e].name
  PROVE  d = e
<1>1. /\ BeforeClasses \in Nat /\ Len(prog.classes) \in Nat /\ NumberOfNames = BeforeClasses + Len(prog.classes)
      /\ DOMAIN prog.classes = 1..Len(prog.classes)
  BY ClassPositions
<1>2. BeforeClasses + d \in 1..NumberOfNames /\ BeforeClasses + e \in 1..NumberOfNames
  BY <1>1
<1>3. /\ BeforeClasses + d \in DOMAIN Declared /\ BeforeClasses + e \in DOMAIN Declared
      /\ Declared[BeforeClasses + d] = Declared[BeforeClasses + e]
  BY <1>1, <1>2, DeclaredIs
<1>4. BeforeClasses + d = BeforeClasses + e
  BY <1>3 DEF IsInjective
<1>. QED  BY <1>1, <1>4

(* The arguments of a signature, and what is void among them.              *)
LEMMA ArgumentsOf ==
  ASSUME NEW f \in Functions
  PROVE  "void" \in ToSet(Tail(Signature(f))) <=> "void" \in ToSet(f.args)
<1>. DEFINE s == Signature(f)
            S == {s[i] : i \in 1..Len(s)}
<1>1. /\ DOMAIN s = 1..(1 + Len(f.args)) /\ Len(s) = 1 + Len(f.args)
      /\ \A j \in 1..Len(f.args) : s[1 + j] = TypeFor(f.args[j])
      /\ f.args \in Seq(TypeNames) /\ Len(f.args) \in Nat /\ DOMAIN f.args = 1..Len(f.args)
  BY SignatureIs, LenProperties
<1>2. s \in Seq(TypeNames \cup {NoType})
  BY SignatureIsTyped
<1>3. /\ Len(Tail(s)) = Len(f.args) /\ DOMAIN Tail(s) = 1..Len(f.args)
      /\ \A j \in 1..Len(f.args) : Tail(s)[j] = TypeFor(f.args[j])
  <2>. HIDE DEF s
  <2>1. s # <<>>
    BY <1>1
  <2>2. /\ Tail(s) \in Seq(TypeNames \cup {NoType}) /\ Len(Tail(s)) = Len(s) - 1
        /\ \A j \in 1..Len(Tail(s)) : Tail(s)[j] = s[j + 1]
    BY <1>2, <2>1, HeadTailProperties
  <2>3. DOMAIN Tail(s) = 1..Len(Tail(s)) /\ Len(Tail(s)) = Len(f.args)
    BY <1>1, <2>2, LenProperties
  <2>4. ASSUME NEW j \in 1..Len(f.args) PROVE Tail(s)[j] = TypeFor(f.args[j])
    <3>1. j + 1 = 1 + j
      OBVIOUS
    <3>. QED  BY <1>1, <2>2, <2>3, <3>1
  <2>. QED  BY <2>3, <2>4
<1>4. \A n : TypeFor(n) = "void" <=> n = "void"
  BY DEF TypeFor, BuiltIn, NoType
<1>. HIDE DEF s
<1>5. ToSet(Tail(s)) = {Tail(s)[j] : j \in 1..Len(f.args)} /\ ToSet(f.args) = {f.args[j] : j \in 1..Len(f.args)}
  BY <1>1, <1>3 DEF ToSet
<1>. QED  BY <1>3, <1>4, <1>5 DEF s

(* A function is declared unless getLLvmTypeFor gets an object or LLVM     *)
(* void as an argument.                                                    *)
LEMMA DeclareIs ==
  ASSUME WholeInv, phase \in Generating, NEW c \in Lists, NEW k \in DOMAIN FunctionsOf(c)
  PROVE  /\ Declare(signatures[<<c, k>>]) \in {"declared", "thrown", "broken"}
         /\ Declare(signatures[<<c, k>>]) = "declared" <=> HasPlainSignature(FunctionsOf(c)[k])
         /\ Declare(signatures[<<c, k>>]) = "thrown" => PassesObjects
         /\ Declare(signatures[<<c, k>>]) = "broken" => VoidIsData
<1>. DEFINE f == FunctionsOf(c)[k]
<1>1. /\ signatures[<<c, k>>] = Signature(f)
      /\ ToSet(Signature(f)) = {f.typeName} \cup ToSet(f.args)
      /\ GoodFunction(f)
  BY ResolvedForGenerator
<1>2. f \in AllFunctionsIn
  BY DEF AllFunctionsIn, ToSet
<1>3. f \in Functions
  BY ProgramShape, ElementOfSeq, LenProperties DEF WholeInv, Base
<1>. HIDE DEF f
<1>4. Unsupported(signatures[<<c, k>>]) <=> ~(ToSet(Signature(f)) \subseteq BuiltIn)
  BY <1>1 DEF Unsupported
<1>5. "void" \in ToSet(Tail(signatures[<<c, k>>])) <=> "void" \in ToSet(f.args)
  BY <1>1, <1>3, ArgumentsOf
<1>6. ASSUME NEW n \in {f.typeName} \cup ToSet(f.args), n \notin BuiltIn PROVE IsClass(n)
  BY <1>1, <1>6 DEF GoodFunction, Known
<1>7. Unsupported(signatures[<<c, k>>]) => PassesObjects
  BY <1>1, <1>2, <1>4, <1>6 DEF PassesObjects
<1>8. "void" \in ToSet(f.args) => VoidIsData
  BY <1>2 DEF VoidIsData
<1>. QED  BY <1>4, <1>5, <1>7, <1>8 DEF Declare, HasPlainSignature, f

(* A member is void when it is declared so. *)
LEMMA VoidMemberIs ==
  ASSUME WholeInv, phase \in Generating, NEW c \in DOMAIN prog.classes
  PROVE  /\ HasVoidMember(c) => VoidIsData
         /\ ~HasVoidMember(c) => \A j \in DOMAIN VariablesOf(c) : VariablesOf(c)[j].typeName # "void"
<1>1. c \in Lists
  BY DEF Lists
<1>2. ASSUME NEW j \in DOMAIN VariablesOf(c)
      PROVE  types[<<c, j>>] = "void" <=> VariablesOf(c)[j].typeName = "void"
  BY <1>1, ResolvedForGenerator DEF GoodVariable, Literals, Infer
<1>. QED  BY <1>2 DEF HasVoidMember, VoidIsData, ToSet

(* With only such signatures no object is passed. *)
LEMMA PlainPassesNothing ==
  ASSUME WholeInv, phase \in Generating,
         \A c \in Lists : \A k \in DOMAIN FunctionsOf(c) : HasPlainSignature(FunctionsOf(c)[k])
  PROVE  ~PassesObjects
<1>1. ASSUME NEW f \in AllFunctionsIn, NEW n \in {f.typeName} \cup ToSet(f.args) PROVE ~IsClass(n)
  <2>1. PICK c \in Lists : f \in ToSet(FunctionsOf(c))
    BY DEF AllFunctionsIn
  <2>2. PICK k \in DOMAIN FunctionsOf(c) : f = FunctionsOf(c)[k]
    BY <2>1 DEF ToSet
  <2>3. n \in BuiltIn
    BY <2>2, ResolvedForGenerator DEF HasPlainSignature
  <2>. QED  BY <2>3, NamesAreNoTypes DEF IsClass, WholeInv, Base
<1>. QED  BY <1>1 DEF PassesObjects

----------------------------------------------------------------------------
(* What the steps of the generator have in common.                         *)
LEMMA GeneratorDecorates ==
  ASSUME WholeInv, phase \in Generating, phase' \in Generating, prog' = prog, UNCHANGED resolved
  PROVE  DecoratedInv'
<1>1. /\ scope' = scope /\ types' = types /\ signatures' = signatures /\ errors' = errors
      /\ main' = main
  BY DEF resolved
<1>2. DecoratingKept
  BY GeneratingKeeps
<1>3. Judged'
  <2>1. WellDeclared' <=> WellDeclared
    BY SameProgram
  <2>. QED  BY <1>1, <2>1 DEF WholeInv, DecoratedInv, Judged, Generating
<1>4. phase' # "names"
  BY DEF Generating
<1>. QED  BY <1>1, <1>2, <1>3, <1>4, ResolvedKept DEF DecoratedInv

(* The pass over the classes, between and in the searches. *)
LaidOut(c) == Done("genClasses", AfterGenClasses, c) \/ Done("search", {}, c)

LEMMA GeneratedStays ==
  ASSUME WholeInv, prog' = prog, UNCHANGED resolved, bodies \subseteq bodies',
         \A k \in DOMAIN FunctionsOf(0) : Done("genFunctions", AfterGenFunctions, k)' =>
           Done("genFunctions", AfterGenFunctions, k) \/ HasPlainSignature(FunctionsOf(0)[k]),
         \A c \in DOMAIN prog.classes : LaidOut(c)' =>
           LaidOut(c) \/ (c \in bodies' /\ Clean(c) /\ HasPlainParts(c)),
         \A c \in DOMAIN prog.classes : Done("genBodies", AfterGenBodies, c)' =>
           \/ Done("genBodies", AfterGenBodies, c)
           \/ \A k \in DOMAIN FunctionsOf(c) : ~FunctionsOf(c)[k].extern,
         phase' = "thrown" => HasLoop \/ PassesObjects,
         phase' = "broken" => HasExternMember \/ VoidIsData,
         phase' = "done" => ~HasLoop /\ ~PassesObjects /\ ~HasExternMember /\ ~VoidIsData
  PROVE  GeneratedInv'
<1>1. \A c, k : HasPlainSignature(FunctionsOf(c)[k])' <=> HasPlainSignature(FunctionsOf(c)[k])
  BY DEF HasPlainSignature, Signature, TypeFor, FunctionsOf, resolved
<1>2. ThrowsForLoopsAndObjects'
  BY SameProgram DEF ThrowsForLoopsAndObjects
<1>3. \A k \in DOMAIN FunctionsOf(0) : Done("genFunctions", AfterGenFunctions, k)' =>
        HasPlainSignature(FunctionsOf(0)[k])
  BY DEF WholeInv, GeneratedInv
<1>4. \A c \in DOMAIN prog.classes :
        Done("genClasses", AfterGenClasses, c)' \/ Done("search", {}, c)' =>
          c \in bodies' /\ Clean(c) /\ HasPlainParts(c)
  BY DEF WholeInv, GeneratedInv, LaidOut
<1>5. \A c \in DOMAIN prog.classes : Done("genBodies", AfterGenBodies, c)' =>
        \A k \in DOMAIN FunctionsOf(c) : ~FunctionsOf(c)[k].extern
  BY DEF WholeInv, GeneratedInv
<1>6. /\ FunctionsOf(0)' = FunctionsOf(0)
      /\ \A c : FunctionsOf(c)' = FunctionsOf(c)
      /\ \A d : Clean(d)' <=> Clean(d)
  BY SameProgram
<1>7. \A c : HasPlainParts(c)' <=> HasPlainParts(c)
  BY <1>1, SameProgram DEF HasPlainParts
<1>. QED  BY <1>1, <1>2, <1>3, <1>4, <1>5, <1>6, <1>7 DEF GeneratedInv

LEMMA NoSearch ==
  ASSUME WholeInv, phase' # "search", frames' = <<>>
  PROVE  SearchInv'
  BY DEF SearchInv, WholeInv

LEMMA SizesStay ==
  ASSUME WholeInv, prog' = prog, sized' = sized, bodies \subseteq bodies'
  PROVE  SizesAreDefined'
<1>1. \A c : Embedded(c)' = Embedded(c)
  BY SameProgram
<1>. QED  BY <1>1 DEF WholeInv, SizesAreDefined

----------------------------------------------------------------------------
(* The steps of the generator outside of the search.                       *)
LEMMA GenGlobalStep ==
  ASSUME WholeInv, GenGlobal
  PROVE  WholeInv'
<1>1. /\ phase = "genGlobals" /\ at' = at + 1 /\ prog' = prog /\ UNCHANGED resolved /\ UNCHANGED layout
      /\ at \in DOMAIN prog.globals
      /\ IF prog.globals[at].init \in {"i32", "f32"} /\ types[<<0, at>>] \notin BuiltIn
         THEN phase' = "thrown" ELSE phase' = phase
  BY DEF GenGlobal, In, ListOf
<1>2. phase \in Generating /\ 0 \in Lists /\ at \in DOMAIN VariablesOf(0) /\ VariablesOf(0) = prog.globals
  BY <1>1 DEF Generating, Lists, VariablesOf
<1>3. phase' = phase
  BY <1>1, <1>2, MemberTypes
<1>4. DecoratedInv'
  BY <1>1, <1>2, <1>3, GeneratorDecorates
<1>5. GeneratedInv'
  <2>1. \A k : /\ ~Done("genFunctions", AfterGenFunctions, k)' /\ ~LaidOut(k)'
               /\ ~Done("genBodies", AfterGenBodies, k)'
    BY <1>1, <1>3 DEF LaidOut, Done, AfterGenFunctions, AfterGenClasses, AfterGenBodies
  <2>. QED  BY <1>1, <1>3, <2>1, GeneratedStays DEF layout
<1>6. SearchInv'
  BY <1>1, <1>3, NoSearch DEF WholeInv, SearchInv, layout
<1>7. SizesAreDefined'
  BY <1>1, SizesStay DEF layout
<1>8. Base'
  BY <1>1, <1>3 DEF WholeInv, Base, resolved, layout
<1>. QED  BY <1>4, <1>5, <1>6, <1>7, <1>8 DEF WholeInv

LEMMA GenFunctionStep ==
  ASSUME WholeInv, GenFunctionDeclaration
  PROVE  WholeInv'
<1>1. /\ phase = "genFunctions" /\ at' = at + 1 /\ prog' = prog /\ UNCHANGED resolved /\ UNCHANGED layout
      /\ at \in DOMAIN prog.functions
      /\ phase' = IF Declare(signatures[<<0, at>>]) = "declared" THEN phase ELSE Declare(signatures[<<0, at>>])
  BY DEF GenFunctionDeclaration, In, ListOf
<1>2. /\ phase \in Generating /\ 0 \in Lists /\ at \in DOMAIN FunctionsOf(0)
      /\ prog \in AllPrograms
  BY <1>1 DEF Generating, Lists, FunctionsOf, WholeInv, Base
<1>3. /\ phase' \in {"genFunctions", "thrown", "broken"} /\ phase' \in Generating
      /\ phase' = "thrown" => PassesObjects
      /\ phase' = "broken" => VoidIsData
      /\ phase' = "genFunctions" => HasPlainSignature(FunctionsOf(0)[at])
  BY <1>1, <1>2, DeclareIs DEF Generating
<1>4. DecoratedInv'
  BY <1>1, <1>2, <1>3, GeneratorDecorates
<1>5. GeneratedInv'
  <2>1. \A k : ~LaidOut(k)' /\ ~Done("genBodies", AfterGenBodies, k)'
    BY <1>1, <1>3 DEF LaidOut, Done, AfterGenClasses, AfterGenBodies
  <2>2. ASSUME NEW k \in DOMAIN FunctionsOf(0), Done("genFunctions", AfterGenFunctions, k)'
        PROVE  Done("genFunctions", AfterGenFunctions, k) \/ HasPlainSignature(FunctionsOf(0)[k])
    <3>1. k \in Nat /\ at \in Nat
      BY <1>2, DomainsAreNat DEF WholeInv, Base
    <3>2. phase' = "genFunctions" /\ k < at'
      BY <1>1, <1>3, <2>2 DEF Done, AfterGenFunctions, AfterGenClasses
    <3>3. k < at \/ k = at
      BY <1>1, <3>1, <3>2
    <3>. QED  BY <1>1, <1>3, <3>2, <3>3 DEF Done
  <2>. QED  BY <1>1, <1>3, <2>1, <2>2, GeneratedStays DEF layout
<1>6. SearchInv'
  BY <1>1, <1>3, NoSearch DEF WholeInv, SearchInv, layout
<1>7. SizesAreDefined'
  BY <1>1, SizesStay DEF layout
<1>8. Base'
  BY <1>1, <1>3 DEF WholeInv, Base, resolved, layout
<1>. QED  BY <1>4, <1>5, <1>6, <1>7, <1>8 DEF WholeInv

LEMMA TakeSizeStep ==
  ASSUME WholeInv, TakeSize
  PROVE  WholeInv'
<1>1. /\ phase = "genSizes" /\ phase' = phase /\ at' = at + 1 /\ prog' = prog /\ UNCHANGED resolved
      /\ at \in DOMAIN prog.classes /\ sized' = sized \cup {at}
      /\ frames' = frames /\ looped' = looped /\ bodies' = bodies
  BY DEF TakeSize, In, ListOf
<1>2. phase \in Generating
  BY <1>1 DEF Generating
<1>3. DecoratedInv'
  BY <1>1, <1>2, GeneratorDecorates
<1>4. GeneratedInv'
  <2>1. /\ \A k : Done("genFunctions", AfterGenFunctions, k)' => Done("genFunctions", AfterGenFunctions, k)
        /\ \A c : LaidOut(c)' => LaidOut(c)
        /\ \A c : Done("genBodies", AfterGenBodies, c)' => Done("genBodies", AfterGenBodies, c)
    BY <1>1 DEF LaidOut, Done
  <2>. QED  BY <1>1, <2>1, GeneratedStays
<1>5. SearchInv'
  BY <1>1, NoSearch DEF WholeInv, SearchInv
<1>6. SizesAreDefined'
  <2>1. \A c \in DOMAIN prog.classes : c \in bodies /\ Clean(c)
    BY <1>1 DEF WholeInv, GeneratedInv, Done, AfterGenClasses
  <2>2. \A d \in {at} \cup Embedded(at) : d \in bodies /\ d \notin Embedded(d)
    BY <1>1, <2>1, PartsAreEmbedded DEF Clean
  <2>3. \A c \in sized' : \A d \in {c} \cup Embedded(c) : d \in bodies' /\ d \notin Embedded(d)
    BY <1>1, <2>2 DEF WholeInv, SizesAreDefined
  <2>4. \A c : Embedded(c)' = Embedded(c)
    BY <1>1, SameProgram
  <2>. QED  BY <2>3, <2>4 DEF SizesAreDefined
<1>7. Base'
  BY <1>1 DEF WholeInv, Base, resolved
<1>. QED  BY <1>3, <1>4, <1>5, <1>6, <1>7 DEF WholeInv

LEMMA GenMemberBodiesStep ==
  ASSUME WholeInv, GenMemberBodies
  PROVE  WholeInv'
<1>1. /\ phase = "genBodies" /\ at' = at + 1 /\ prog' = prog /\ UNCHANGED resolved /\ UNCHANGED layout
      /\ at \in DOMAIN prog.classes
      /\ phase' = IF \E f \in ToSet(FunctionsOf(at)) : f.extern THEN "broken" ELSE phase
  BY DEF GenMemberBodies, In, ListOf
<1>2. phase \in Generating /\ phase' \in Generating /\ prog \in AllPrograms
  BY <1>1 DEF Generating, WholeInv, Base
<1>3. /\ phase' = "broken" => HasExternMember
      /\ phase' # "broken" => \A k \in DOMAIN FunctionsOf(at) : ~FunctionsOf(at)[k].extern
  BY <1>1 DEF HasExternMember, ToSet
<1>4. DecoratedInv'
  BY <1>1, <1>2, GeneratorDecorates
<1>5. GeneratedInv'
  <2>1. /\ \A k : Done("genFunctions", AfterGenFunctions, k)' => Done("genFunctions", AfterGenFunctions, k)
        /\ \A c : LaidOut(c)' => LaidOut(c)
    BY <1>1 DEF LaidOut, Done, AfterGenFunctions, AfterGenClasses
  <2>2. ASSUME NEW c \in DOMAIN prog.classes, Done("genBodies", AfterGenBodies, c)'
        PROVE  \/ Done("genBodies", AfterGenBodies, c)
               \/ \A k \in DOMAIN FunctionsOf(c) : ~FunctionsOf(c)[k].extern
    <3>1. c \in Nat /\ at \in Nat
      BY <1>2, DomainsAreNat DEF WholeInv, Base
    <3>2. phase' = "genBodies" /\ c < at'
      BY <1>1, <2>2 DEF Done, AfterGenBodies
    <3>3. c < at \/ c = at
      BY <1>1, <3>1, <3>2
    <3>. QED  BY <1>1, <1>3, <3>2, <3>3 DEF Done
  <2>3. phase' # "thrown" /\ phase' # "done"
    BY <1>1
  <2>. QED  BY <1>1, <1>3, <2>1, <2>2, <2>3, GeneratedStays DEF layout
<1>6. SearchInv'
  BY <1>1, NoSearch DEF WholeInv, SearchInv, layout
<1>7. SizesAreDefined'
  BY <1>1, SizesStay DEF layout
<1>8. Base'
  BY <1>1 DEF WholeInv, Base, resolved, layout
<1>. QED  BY <1>4, <1>5, <1>6, <1>7, <1>8 DEF WholeInv

(* At its end the generator has seen everything it could give up for.      *)
LEMMA NothingLeft ==
  ASSUME WholeInv, phase = "genBodies", NextPass
  PROVE  ~HasLoop /\ ~PassesObjects /\ ~HasExternMember /\ ~VoidIsData
<1>1. /\ prog \in AllPrograms /\ phase \in Generating /\ at \in Nat
      /\ at = Len(prog.classes) + 1 /\ DOMAIN prog.classes = 1..Len(prog.classes)
      /\ Len(prog.classes) \in Nat
  BY ClassPositions DEF WholeInv, Base, NextPass, ListOf, Generating
<1>2. \A c \in DOMAIN prog.classes :
        /\ Clean(c) /\ \A j \in DOMAIN VariablesOf(c) : VariablesOf(c)[j].typeName # "void"
        /\ \A k \in DOMAIN FunctionsOf(c) : HasPlainSignature(FunctionsOf(c)[k])
  BY DEF WholeInv, GeneratedInv, Done, AfterGenClasses, HasPlainParts
<1>3. \A k \in DOMAIN FunctionsOf(0) : HasPlainSignature(FunctionsOf(0)[k])
  BY DEF WholeInv, GeneratedInv, Done, AfterGenFunctions, AfterGenClasses
<1>4. ~PassesObjects
  BY <1>1, <1>2, <1>3, PlainPassesNothing DEF Lists
<1>5. ~HasLoop
  BY <1>2 DEF HasLoop, Clean
<1>6. \A c \in DOMAIN prog.classes : \A k \in DOMAIN FunctionsOf(c) : ~FunctionsOf(c)[k].extern
  <2>1. \A c \in DOMAIN prog.classes : c < at
    BY <1>1
  <2>. QED  BY <2>1 DEF WholeInv, GeneratedInv, Done
<1>7. ~HasExternMember
  BY <1>6 DEF HasExternMember, ToSet
<1>8. ~VoidIsData
  <2>1. \A f \in AllFunctionsIn : "void" \notin ToSet(f.args)
    BY <1>2, <1>3 DEF AllFunctionsIn, Lists, HasPlainSignature, ToSet
  <2>. QED  BY <1>2, <2>1 DEF VoidIsData, ToSet
<1>. QED  BY <1>4, <1>5, <1>7, <1>8

LEMMA NextPassStep ==
  ASSUME WholeInv, NextPass
  PROVE  WholeInv'
<1>1. prog' = prog /\ UNCHANGED resolved /\ UNCHANGED layout /\ at' = 1 /\ prog \in AllPrograms
  BY DEF NextPass, WholeInv, Base
<1>2. DecoratedInv'
  BY NextPassDecorates
<1>3. GeneratedInv'
  <2>1. GeneratingKept /\ \A c \in DOMAIN prog.classes : LaidOut(c)' => LaidOut(c)
    BY NextPassKeeps DEF WholeInv, Base, LaidOut
  <2>2. DOMAIN prog.functions = DOMAIN FunctionsOf(0)
    BY <1>1, DomainsAreNat
  <2>3. phase' # "thrown" /\ phase' # "broken" /\ (phase' = "done" => phase = "genBodies")
    BY PassesFollow
  <2>4. phase' = "done" => ~HasLoop /\ ~PassesObjects /\ ~HasExternMember /\ ~VoidIsData
    BY <2>3, NothingLeft
  <2>. QED  BY <1>1, <2>1, <2>2, <2>3, <2>4, GeneratedStays DEF GeneratingKept, Kept, layout
<1>4. SearchInv'
  <2>1. phase # "search" /\ phase' # "search"
    BY PassesFollow
  <2>. QED  BY <1>1, <2>1, NoSearch DEF WholeInv, SearchInv, layout
<1>5. SizesAreDefined'
  BY <1>1, SizesStay DEF layout
<1>6. Base'
  <2>1. phase' \in ToSet(Passes)
    BY PassesFollow, PassNames
  <2>. QED  BY <1>1, <2>1 DEF WholeInv, Base, resolved, layout
<1>. QED  BY <1>2, <1>3, <1>4, <1>5, <1>6 DEF WholeInv

----------------------------------------------------------------------------
(* The search for loops, as checkClassDecl_member_loop calls itself.       *)
LEMMA CallsOfSearch ==
  ASSUME WholeInv, phase = "search", frames # <<>>
  PROVE  /\ Len(frames) \in Nat \ {0} /\ DOMAIN frames = 1..Len(frames)
         /\ Len(frames) \in DOMAIN frames /\ Top \in Calls /\ FrameOK(Top, Len(frames))
         /\ Below \in Seq(Calls) /\ Len(Below) = Len(frames) - 1
         /\ \A i \in 1..(Len(frames) - 1) : Below[i] = frames[i]
         /\ Top.class \in DOMAIN prog.classes /\ Top.class \in Lists
         /\ DOMAIN VariablesOf(Top.class) = 1..Len(VariablesOf(Top.class))
         /\ Len(VariablesOf(Top.class)) \in Nat
<1>1. frames \in Seq(Calls) /\ prog \in AllPrograms
  BY DEF WholeInv, SearchInv, Base
<1>2. Len(frames) \in Nat \ {0} /\ DOMAIN frames = 1..Len(frames)
  BY <1>1, EmptySeq, LenProperties
<1>3. Len(frames) \in DOMAIN frames /\ Top \in Calls
  BY <1>1, <1>2, ElementOfSeq DEF Top
<1>4. FrameOK(Top, Len(frames))
  BY <1>3 DEF WholeInv, SearchInv, Top
<1>. DEFINE n == Len(frames)
<1>5. Below \in Seq(Calls) /\ Len(Below) = n - 1 /\ \A i \in 1..(n - 1) : Below[i] = frames[i]
  <2>1. /\ n \in Nat /\ 1 \in 1..(n + 1) /\ n - 1 \in 0..n
    BY <1>2
  <2>2. CASE n = 1
    <3>1. Below = <<>>
      BY <1>1, <2>2, SubSeqProperties DEF Below
    <3>. QED  BY <2>2, <3>1
  <2>3. CASE n # 1
    <3>1. n - 1 \in 1..n
      BY <2>1, <2>3, <1>2
    <3>2. /\ SubSeq(frames, 1, n - 1) \in Seq(Calls)
          /\ Len(SubSeq(frames, 1, n - 1)) = n - 1
          /\ \A i \in 1..(n - 1) : SubSeq(frames, 1, n - 1)[i] = frames[i]
      BY <1>1, <1>2, <3>1
    <3>. QED  BY <3>2 DEF Below
  <2>. QED  BY <2>2, <2>3
<1>6. Top.class \in DOMAIN prog.classes /\ Top.class \in Lists
  BY <1>4 DEF FrameOK, Lists
<1>7. DOMAIN VariablesOf(Top.class) = 1..Len(VariablesOf(Top.class)) /\ Len(VariablesOf(Top.class)) \in Nat
  BY <1>1, <1>6, ProgramShape, LenProperties
<1>. QED  BY <1>2, <1>3, <1>4, <1>5, <1>6, <1>7

(* A step of the search only has to say what its calls are afterwards.     *)
LEMMA SearchGoesOn ==
  ASSUME prog' = prog, types' = types, at' = at, phase' = "search", at \in DOMAIN prog.classes,
         frames' \in Seq(Calls),
         \A i \in DOMAIN frames' : FrameOK(frames'[i], i),
         ~looped' => \A i \in DOMAIN frames' : FrameIsClean(frames'[i], i = Len(frames')),
         \A i \in 1..(Len(frames') - 1) : FrameWaits(frames'[i], frames'[i + 1]),
         frames' # <<>> => frames'[1].class = at,
         frames' = <<>> /\ ~looped' => Clean(at),
         looped' => HasLoop
  PROVE  SearchInv'
<1>1. /\ \A c : Embedded(c)' = Embedded(c)
      /\ \A d : Clean(d)' <=> Clean(d)
      /\ HasLoop' <=> HasLoop
      /\ \A c : VariablesOf(c)' = VariablesOf(c)
  BY SameProgram
<1>2. ASSUME NEW i \in DOMAIN frames' PROVE FrameOK(frames[i], i)'
  <2>1. VariablesOf(frames[i].class)' = VariablesOf(frames'[i].class)
    BY DEF VariablesOf
  <2>2. \A p : (frames[i].class \in Embedded(p))' <=> frames'[i].class \in Embedded(p)
    BY <1>1
  <2>. QED  BY <2>1, <2>2 DEF FrameOK
<1>3. ASSUME NEW c, NEW j PROVE MemberIsClean(c, j)' <=> MemberIsClean(c, j)
  BY <1>1 DEF MemberIsClean, ClassOfMember
<1>4. ASSUME ~looped', NEW i \in DOMAIN frames' PROVE FrameIsClean(frames[i], i = Len(frames))'
  <2>1. \A j : MemberIsClean(frames[i].class, j)' <=> MemberIsClean(frames'[i].class, j)
    BY <1>1 DEF MemberIsClean, ClassOfMember
  <2>. QED  BY <1>4, <2>1 DEF FrameIsClean
<1>5. ASSUME NEW i \in 1..(Len(frames') - 1) PROVE FrameWaits(frames[i], frames[i + 1])'
  BY DEF FrameWaits, ClassOfMember
<1>. QED  BY <1>1, <1>2, <1>4, <1>5 DEF SearchInv

(* All else of the invariant is as it was. *)
LEMMA SearchStays ==
  ASSUME WholeInv, prog' = prog, UNCHANGED <<at, resolved, bodies, sized>>, phase = "search", phase' = phase,
         looped' \in BOOLEAN, SearchInv'
  PROVE  WholeInv'
<1>1. DecoratedInv'
  BY GeneratorDecorates DEF Generating
<1>2. GeneratedInv'
  <2>1. /\ \A k : Done("genFunctions", AfterGenFunctions, k)' => Done("genFunctions", AfterGenFunctions, k)
        /\ \A c : LaidOut(c)' => LaidOut(c)
        /\ \A c : Done("genBodies", AfterGenBodies, c)' => Done("genBodies", AfterGenBodies, c)
    BY DEF LaidOut, Done
  <2>. QED  BY <2>1, GeneratedStays
<1>3. SizesAreDefined'
  BY SizesStay
<1>4. Base'
  BY DEF WholeInv, Base, resolved
<1>. QED  BY <1>1, <1>2, <1>3, <1>4 DEF WholeInv

(* The class of a member that is an object is its only one, and a part of  *)
(* the class that is searched.                                             *)
LEMMA MemberClassIs ==
  ASSUME WholeInv, Searching, MemberType \notin BuiltIn
  PROVE  /\ MemberClass \in DOMAIN prog.classes
         /\ ClassOfMember(Top.class, Top.next, MemberClass)
         /\ MemberClass \in MemberClasses(Top.class) /\ MemberClass \in Embedded(Top.class)
<1>1. phase = "search" /\ frames # <<>> /\ Top.next \in DOMAIN VariablesOf(Top.class)
  BY DEF Searching
<1>2. phase \in Generating /\ Top.class \in Lists
  BY <1>1, CallsOfSearch DEF Generating
<1>3. /\ \E d \in DOMAIN prog.classes : ClassOfMember(Top.class, Top.next, d)
      /\ \A d \in DOMAIN prog.classes : ClassOfMember(Top.class, Top.next, d) <=>
           VariablesOf(Top.class)[Top.next].typeName = prog.classes[d].name
  BY <1>1, <1>2, MemberTypes DEF MemberType
<1>4. \E d \in DOMAIN prog.classes : prog.classes[d].name = MemberType
  BY <1>3 DEF ClassOfMember, MemberType
<1>5. MemberClass \in DOMAIN prog.classes /\ prog.classes[MemberClass].name = MemberType
  BY <1>4 DEF MemberClass
<1>6. ClassOfMember(Top.class, Top.next, MemberClass)
  BY <1>5 DEF ClassOfMember, MemberType
<1>7. MemberClass \in MemberClasses(Top.class)
  BY <1>1, <1>3, <1>5, <1>6 DEF MemberClasses, ToSet
<1>. QED  BY <1>5, <1>6, <1>7, PartsAreEmbedded DEF HasAllParts

LEMMA BeginSearchStep ==
  ASSUME WholeInv, BeginSearch
  PROVE  WholeInv'
<1>1. /\ phase = "genClasses" /\ phase' = "search" /\ at' = at /\ prog' = prog /\ UNCHANGED resolved
      /\ at \in DOMAIN prog.classes /\ frames' = <<Frame(at, {})>> /\ looped' = FALSE
      /\ bodies' = bodies /\ sized' = sized
  BY DEF BeginSearch, In, ListOf
<1>2. phase \in Generating /\ phase' \in Generating /\ prog \in AllPrograms /\ at \in Nat /\ at \in Lists
  BY <1>1 DEF Generating, WholeInv, Base, Lists
<1>3. DecoratedInv'
  BY <1>1, <1>2, GeneratorDecorates
<1>4. GeneratedInv'
  <2>1. /\ \A k : Done("genFunctions", AfterGenFunctions, k)' => Done("genFunctions", AfterGenFunctions, k)
        /\ \A c : LaidOut(c)' => LaidOut(c)
        /\ \A c : ~Done("genBodies", AfterGenBodies, c)'
    BY <1>1 DEF LaidOut, Done, AfterGenFunctions, AfterGenClasses, AfterGenBodies
  <2>. QED  BY <1>1, <2>1, GeneratedStays
<1>5. SearchInv'
  <2>. DEFINE f == Frame(at, {})
  <2>1. f.class = at /\ f.next = 1 /\ f.parents = {} /\ f \in Calls
    BY <1>2 DEF Frame, Calls
  <2>. HIDE DEF f
  <2>2. FrameOK(f, 1)
    <3>1. Len(VariablesOf(at)) \in Nat
      BY <1>2, ProgramShape, LenProperties
    <3>2. Cardinality(f.parents) = 1 - 1
      BY <2>1, FS_EmptySet
    <3>3. f.next \in 1..(Len(VariablesOf(f.class)) + 1)
      BY <2>1, <3>1
    <3>. QED  BY <1>1, <2>1, <3>2, <3>3 DEF FrameOK
  <2>3. FrameIsClean(f, TRUE)
    BY <2>1 DEF FrameIsClean
  <2>4. frames' = <<f>> /\ DOMAIN frames' = {1} /\ Len(frames') = 1 /\ frames'[1] = f /\ frames' \in Seq(Calls)
    BY <1>1, <2>1 DEF f
  <2>5. \A i \in DOMAIN frames' : FrameOK(frames'[i], i)
    BY <2>2, <2>4
  <2>6. \A i \in DOMAIN frames' : FrameIsClean(frames'[i], i = Len(frames'))
    BY <2>3, <2>4 DEF FrameIsClean
  <2>7. frames' # <<>> /\ frames'[1].class = at /\ 1..(Len(frames') - 1) = {}
    BY <2>1, <2>4
  <2>8. types' = types /\ ~looped'
    BY <1>1 DEF resolved
  <2>. QED  BY <1>1, <2>4, <2>5, <2>6, <2>7, <2>8, SearchGoesOn
<1>6. SizesAreDefined'
  BY <1>1, SizesStay
<1>7. Base'
  BY <1>1 DEF WholeInv, Base, resolved
<1>. QED  BY <1>3, <1>4, <1>5, <1>6, <1>7 DEF WholeInv

LEMMA SkipMemberStep ==
  ASSUME WholeInv, SkipMember
  PROVE  WholeInv'
<1>. DEFINE n == Len(frames)
            f == [Top EXCEPT !.next = @ + 1]
<1>1. /\ Searching /\ MemberType \in BuiltIn /\ phase = "search" /\ frames # <<>> /\ phase' = phase
      /\ frames' = [frames EXCEPT ![n] = f] /\ prog' = prog /\ UNCHANGED resolved /\ types' = types
      /\ at' = at /\ looped' = looped /\ UNCHANGED <<at, resolved, bodies, sized>>
      /\ Top.next \in DOMAIN VariablesOf(Top.class)
  BY DEF SkipMember, Searching, resolved, Top
<1>2. /\ n \in Nat \ {0} /\ DOMAIN frames = 1..n /\ Top \in Calls /\ FrameOK(Top, n) /\ Top = frames[n]
      /\ DOMAIN VariablesOf(Top.class) = 1..Len(VariablesOf(Top.class))
      /\ Len(VariablesOf(Top.class)) \in Nat /\ Top.class \in Lists
  BY <1>1, CallsOfSearch DEF Top
<1>3. /\ f \in Calls /\ f.class = Top.class /\ f.next = Top.next + 1 /\ f.parents = Top.parents
      /\ Top.next \in Nat
  BY <1>2 DEF Calls
<1>. HIDE DEF n, f
<1>4. /\ frames' \in Seq(Calls) /\ Len(frames') = n /\ DOMAIN frames' = 1..n
      /\ frames'[n] = f /\ \A i \in 1..(n - 1) : frames'[i] = frames[i]
  <2>1. frames \in Seq(Calls) /\ Len(frames) = n
    BY DEF WholeInv, SearchInv, n
  <2>2. frames' \in [1..n -> Calls]
    BY <1>1, <1>2, <1>3, <2>1
  <2>3. frames' \in Seq(Calls)
    BY <1>2, <2>2, IsASeq
  <2>4. Len(frames') = n
    BY <1>2, <2>2, <2>3, LenProperties
  <2>. QED  BY <1>1, <1>2, <2>2, <2>3, <2>4
<1>5. FrameOK(f, n)
  <2>1. Top.next + 1 \in 1..(Len(VariablesOf(Top.class)) + 1)
    BY <1>1, <1>2
  <2>. QED  BY <1>2, <1>3, <2>1 DEF FrameOK
<1>6. \A i \in DOMAIN frames' : FrameOK(frames'[i], i)
  BY <1>2, <1>4, <1>5 DEF WholeInv, SearchInv
<1>7. ASSUME ~looped' PROVE \A i \in DOMAIN frames' : FrameIsClean(frames'[i], i = Len(frames'))
  <2>1. \A i \in 1..n : FrameIsClean(frames[i], i = n)
    BY <1>1, <1>2, <1>7 DEF WholeInv, SearchInv, n
  <2>2. \A j \in 1..(Top.next - 1) : MemberIsClean(Top.class, j)
    BY <1>2, <2>1 DEF FrameIsClean
  <2>3. MemberIsClean(Top.class, Top.next)
    BY <1>1, <1>2, MemberTypes DEF MemberType, MemberIsClean, Generating
  <2>4. \A j \in 1..(f.next - 1) : j \in 1..(Top.next - 1) \/ j = Top.next
    BY <1>3
  <2>5. FrameIsClean(f, TRUE)
    BY <1>3, <2>2, <2>3, <2>4 DEF FrameIsClean
  <2>6. ASSUME NEW i \in 1..n, i # n PROVE FrameIsClean(frames'[i], FALSE)
    <3>1. FrameIsClean(frames[i], i = n) /\ frames'[i] = frames[i]
      BY <1>2, <1>4, <2>1, <2>6
    <3>. QED  BY <2>6, <3>1 DEF FrameIsClean
  <2>. QED  BY <1>2, <1>4, <2>5, <2>6 DEF FrameIsClean
<1>8. ASSUME NEW i \in 1..(Len(frames') - 1) PROVE FrameWaits(frames'[i], frames'[i + 1])
  <2>1. FrameWaits(frames[i], frames[i + 1])
    BY <1>4 DEF WholeInv, SearchInv, n
  <2>2. frames'[i] = frames[i] /\ frames'[i + 1].class = frames[i + 1].class
    BY <1>2, <1>3, <1>4
  <2>. QED  BY <2>1, <2>2 DEF FrameWaits
<1>9. frames' # <<>> /\ frames'[1].class = at
  <2>1. frames[1].class = at
    BY <1>1 DEF WholeInv, SearchInv
  <2>. QED  BY <1>2, <1>3, <1>4, <2>1
<1>10. looped' => HasLoop
  BY <1>1 DEF WholeInv, SearchInv
<1>11. SearchInv'
  <2>1. at \in DOMAIN prog.classes
    BY <1>1 DEF WholeInv, SearchInv
  <2>. QED  BY <1>1, <1>4, <1>6, <1>7, <1>8, <1>9, <1>10, <2>1, SearchGoesOn
<1>. QED  BY <1>1, <1>11, SearchStays DEF WholeInv, Base

LEMMA EnterMemberStep ==
  ASSUME WholeInv, EnterMember
  PROVE  WholeInv'
<1>. DEFINE n == Len(frames)
            d == MemberClass
            f == [Top EXCEPT !.next = @ + 1]
            g == Frame(d, Top.parents \cup {d})
<1>1. /\ Searching /\ MemberType \notin BuiltIn /\ phase = "search" /\ frames # <<>> /\ phase' = phase
      /\ d \notin Top.parents
      /\ frames' = Append(Below, f) \o <<g>> /\ prog' = prog /\ UNCHANGED resolved /\ types' = types
      /\ at' = at /\ looped' = looped /\ UNCHANGED <<at, resolved, bodies, sized>>
      /\ Top.next \in DOMAIN VariablesOf(Top.class)
  BY DEF EnterMember, Searching, resolved
<1>2. /\ n \in Nat \ {0} /\ DOMAIN frames = 1..n /\ Top \in Calls /\ FrameOK(Top, n) /\ Top = frames[n]
      /\ Below \in Seq(Calls) /\ Len(Below) = n - 1 /\ \A i \in 1..(n - 1) : Below[i] = frames[i]
      /\ DOMAIN VariablesOf(Top.class) = 1..Len(VariablesOf(Top.class))
      /\ Len(VariablesOf(Top.class)) \in Nat /\ Top.class \in Lists
  BY <1>1, CallsOfSearch DEF Top
<1>3. /\ d \in DOMAIN prog.classes /\ ClassOfMember(Top.class, Top.next, d)
      /\ d \in MemberClasses(Top.class) /\ d \in Embedded(Top.class)
  BY <1>1, MemberClassIs
<1>4. /\ prog \in AllPrograms /\ DOMAIN prog.classes = 1..Len(prog.classes) /\ Len(prog.classes) \in Nat
      /\ at \in DOMAIN prog.classes /\ d \in Nat
  <2>1. prog \in AllPrograms /\ at \in DOMAIN prog.classes
    BY <1>1 DEF WholeInv, Base, SearchInv
  <2>2. DOMAIN prog.classes = 1..Len(prog.classes) /\ Len(prog.classes) \in Nat
    BY <2>1, ClassPositions
  <2>. QED  BY <1>3, <2>1, <2>2
<1>. HIDE DEF d
<1>5. /\ f \in Calls /\ f.class = Top.class /\ f.next = Top.next + 1 /\ f.parents = Top.parents
      /\ Top.next \in Nat
  <2>1. Top \in [class : Nat, next : Nat, parents : SUBSET Nat]
    BY <1>2 DEF Calls
  <2>2. f \in [class : Nat, next : Nat, parents : SUBSET Nat]
    BY <2>1
  <2>. QED  BY <2>1, <2>2 DEF Calls
<1>6. g \in Calls /\ g.class = d /\ g.next = 1 /\ g.parents = Top.parents \cup {d}
  BY <1>2, <1>4 DEF Calls, Frame
<1>. HIDE DEF n, f, g
<1>7. /\ frames' \in Seq(Calls) /\ Len(frames') = n + 1 /\ DOMAIN frames' = 1..(n + 1)
      /\ frames'[n] = f /\ frames'[n + 1] = g /\ \A i \in 1..(n - 1) : frames'[i] = frames[i]
  <2>. DEFINE u == Append(Below, f)
  <2>1. /\ u \in Seq(Calls) /\ Len(u) = n /\ u[n] = f /\ \A i \in 1..(n - 1) : u[i] = frames[i]
    BY <1>2, <1>5, AppendProperties
  <2>. HIDE DEF u
  <2>2. /\ u \o <<g>> \in Seq(Calls) /\ Len(u \o <<g>>) = n + 1 /\ (u \o <<g>>)[n + 1] = g
        /\ \A i \in 1..n : (u \o <<g>>)[i] = u[i]
    <3>. DEFINE o == <<g>>
    <3>1. o \in Seq(Calls) /\ Len(o) = 1 /\ o[1] = g
      BY <1>6
    <3>. HIDE DEF o
    <3>2. /\ u \o o \in Seq(Calls) /\ Len(u \o o) = Len(u) + Len(o)
          /\ \A i \in 1..(Len(u) + Len(o)) : (u \o o)[i] = IF i <= Len(u) THEN u[i] ELSE o[i - Len(u)]
      <4>1. u \in Seq(Calls)
        BY <2>1
      <4>. QED  BY <3>1, <4>1, ConcatProperties
    <3>. DEFINE uo == u \o o
    <3>5. /\ uo \in Seq(Calls) /\ Len(uo) = n + 1
          /\ \A i \in 1..(n + 1) : uo[i] = IF i <= n THEN u[i] ELSE o[i - n]
      BY <2>1, <3>1, <3>2
    <3>. HIDE DEF uo
    <3>3. uo[n + 1] = g
      <4>1. n + 1 \in 1..(n + 1) /\ ~(n + 1 <= n) /\ (n + 1) - n = 1
        BY <1>2
      <4>. QED  BY <3>1, <3>5, <4>1
    <3>4. \A i \in 1..n : uo[i] = u[i]
      BY <1>2, <3>5
    <3>. QED  BY <3>5, <3>3, <3>4 DEF o, uo
  <2>3. frames' = u \o <<g>>
    BY <1>1 DEF u
  <2>4. DOMAIN frames' = 1..(n + 1)
    BY <2>2, <2>3, LenProperties
  <2>5. \A i \in 1..(n - 1) : frames'[i] = frames[i]
    <3>1. \A i \in 1..(n - 1) : i \in 1..n
      BY <1>2
    <3>. QED  BY <2>1, <2>2, <2>3, <3>1
  <2>6. frames'[n] = f
    <3>1. n \in 1..n
      BY <1>2
    <3>. QED  BY <2>1, <2>2, <2>3, <3>1
  <2>. QED  BY <2>2, <2>3, <2>4, <2>5, <2>6
<1>8. FrameOK(f, n)
  <2>1. Top.next + 1 \in 1..(Len(VariablesOf(Top.class)) + 1)
    BY <1>1, <1>2
  <2>. QED  BY <1>2, <1>5, <2>1 DEF FrameOK
<1>9. FrameOK(g, n + 1)
  <2>1. /\ Top.parents \subseteq DOMAIN prog.classes /\ Cardinality(Top.parents) = n - 1
        /\ \A p \in Top.parents : p = Top.class \/ Top.class \in Embedded(p)
    BY <1>2 DEF FrameOK
  <2>2. Cardinality(g.parents) = (n + 1) - 1
    <3>1. IsFiniteSet(Top.parents)
      <4>1. IsFiniteSet(1..Len(prog.classes))
        BY <1>4, FS_Interval
      <4>. QED  BY <1>4, <2>1, <4>1, FS_Subset
    <3>2. Cardinality(Top.parents \cup {d}) = (n - 1) + 1
      BY <1>1, <2>1, <3>1, FS_AddElement
    <3>. QED  BY <1>2, <1>6, <3>2
  <2>3. ASSUME NEW p \in g.parents PROVE p = d \/ d \in Embedded(p)
    <3>1. CASE p \in Top.parents
      BY <1>3, <2>1, <3>1, EmbeddedIsTransitive
    <3>. QED  BY <1>6, <3>1
  <2>4. g.next \in 1..(Len(VariablesOf(g.class)) + 1)
    <3>1. d \in Lists
      BY <1>3 DEF Lists
    <3>2. Len(VariablesOf(d)) \in Nat
      BY <1>4, <3>1, ProgramShape, LenProperties
    <3>. QED  BY <1>6, <3>2
  <2>. QED  BY <1>3, <1>6, <2>1, <2>2, <2>3, <2>4 DEF FrameOK
<1>10. \A i \in DOMAIN frames' : FrameOK(frames'[i], i)
  <2>1. ASSUME NEW i \in 1..(n - 1) PROVE FrameOK(frames'[i], i)
    <3>1. i \in DOMAIN frames
      BY <1>2
    <3>. QED  BY <1>7, <3>1 DEF WholeInv, SearchInv
  <2>2. \A i \in DOMAIN frames' : i \in 1..(n - 1) \/ i = n \/ i = n + 1
    BY <1>2, <1>7
  <2>. QED  BY <1>7, <1>8, <1>9, <2>1, <2>2
<1>11. ASSUME ~looped' PROVE \A i \in DOMAIN frames' : FrameIsClean(frames'[i], i = Len(frames'))
  <2>1. \A i \in 1..n : FrameIsClean(frames[i], i = n)
    BY <1>1, <1>2, <1>11 DEF WholeInv, SearchInv, n
  <2>2. \A j \in 1..(Top.next - 1) : MemberIsClean(Top.class, j)
    BY <1>2, <2>1 DEF FrameIsClean
  <2>3. FrameIsClean(f, FALSE)
    <3>1. \A j \in 1..(f.next - 1) : j # f.next - 1 => j \in 1..(Top.next - 1)
      BY <1>5
    <3>. QED  BY <1>5, <2>2, <3>1 DEF FrameIsClean
  <2>4. FrameIsClean(g, TRUE)
    BY <1>6 DEF FrameIsClean
  <2>5. ASSUME NEW i \in 1..(n - 1) PROVE FrameIsClean(frames'[i], FALSE)
    <3>1. FrameIsClean(frames[i], i = n) /\ frames'[i] = frames[i] /\ i # n
      BY <1>2, <1>7, <2>1
    <3>. QED  BY <3>1 DEF FrameIsClean
  <2>. TAKE i \in DOMAIN frames'
  <2>6. CASE i = n + 1
    BY <1>7, <2>4, <2>6 DEF FrameIsClean
  <2>7. CASE i # n + 1
    <3>1. i # Len(frames') /\ (i = n \/ i \in 1..(n - 1))
      BY <1>2, <1>7, <2>7
    <3>2. FrameIsClean(frames'[i], FALSE)
      BY <1>7, <2>3, <2>5, <3>1
    <3>. QED  BY <3>1, <3>2 DEF FrameIsClean
  <2>. QED  BY <2>6, <2>7
<1>12. ASSUME NEW i \in 1..(Len(frames') - 1) PROVE FrameWaits(frames'[i], frames'[i + 1])
  <2>1. CASE i = n
    <3>1. f.next - 1 = Top.next /\ f.next > 1
      BY <1>1, <1>2, <1>5
    <3>. QED  BY <1>3, <1>5, <1>6, <1>7, <2>1, <3>1 DEF FrameWaits, ClassOfMember
  <2>2. CASE i # n
    <3>1. i \in 1..(n - 1)
      BY <1>2, <1>7, <2>2
    <3>2. FrameWaits(frames[i], frames[i + 1])
      BY <3>1 DEF WholeInv, SearchInv, n
    <3>3. frames'[i] = frames[i] /\ frames'[i + 1].class = frames[i + 1].class
      <4>1. i + 1 = n \/ i + 1 \in 1..(n - 1)
        BY <1>2, <3>1
      <4>. QED  BY <1>2, <1>5, <1>7, <3>1, <4>1
    <3>. QED  BY <3>2, <3>3 DEF FrameWaits, ClassOfMember
  <2>. QED  BY <2>1, <2>2
<1>13. frames' # <<>> /\ frames'[1].class = at
  <2>1. frames[1].class = at
    BY <1>1 DEF WholeInv, SearchInv
  <2>2. 1 = n \/ 1 \in 1..(n - 1)
    BY <1>2
  <2>3. Len(frames') # 0
    BY <1>2, <1>7
  <2>. QED  BY <1>2, <1>5, <1>7, <2>1, <2>2, <2>3
<1>14. looped' => HasLoop
  BY <1>1 DEF WholeInv, SearchInv
<1>15. SearchInv'
  BY <1>1, <1>4, <1>7, <1>10, <1>11, <1>12, <1>13, <1>14, SearchGoesOn
<1>. QED  BY <1>1, <1>15, SearchStays DEF WholeInv, Base

(* What a call leaves of those below it. *)
LEMMA ReturnedTo ==
  ASSUME WholeInv, phase = "search", frames # <<>>, frames' = Below
  PROVE  /\ frames' \in Seq(Calls) /\ Len(frames') = Len(frames) - 1
         /\ DOMAIN frames' = 1..(Len(frames) - 1) /\ Len(frames) \in Nat \ {0}
         /\ \A i \in DOMAIN frames' : i \in DOMAIN frames /\ frames'[i] = frames[i]
         /\ \A i \in DOMAIN frames' : FrameOK(frames'[i], i)
         /\ \A i \in 1..(Len(frames') - 1) : FrameWaits(frames'[i], frames'[i + 1])
         /\ frames' # <<>> => frames'[1].class = at
         /\ frames' = <<>> => Top.class = at
<1>. DEFINE n == Len(frames)
<1>1. /\ n \in Nat \ {0} /\ DOMAIN frames = 1..n /\ Top = frames[n]
      /\ Below \in Seq(Calls) /\ Len(Below) = n - 1 /\ \A i \in 1..(n - 1) : Below[i] = frames[i]
  BY CallsOfSearch DEF Top
<1>. HIDE DEF n
<1>2. frames' \in Seq(Calls) /\ Len(frames') = n - 1 /\ DOMAIN frames' = 1..(n - 1)
  BY <1>1, LenProperties
<1>3. \A i \in DOMAIN frames' : i \in DOMAIN frames /\ frames'[i] = frames[i]
  BY <1>1, <1>2
<1>4. \A i \in DOMAIN frames' : FrameOK(frames'[i], i)
  BY <1>3 DEF WholeInv, SearchInv
<1>5. ASSUME NEW i \in 1..(Len(frames') - 1) PROVE FrameWaits(frames'[i], frames'[i + 1])
  <2>1. i \in 1..(n - 1) /\ i \in DOMAIN frames' /\ i + 1 \in DOMAIN frames'
    BY <1>1, <1>2
  <2>2. FrameWaits(frames[i], frames[i + 1])
    BY <2>1 DEF WholeInv, SearchInv, n
  <2>. QED  BY <1>3, <2>1, <2>2
<1>6. frames[1].class = at
  BY DEF WholeInv, SearchInv
<1>7. frames' # <<>> => 1 \in DOMAIN frames'
  BY <1>1, <1>2, EmptySeq
<1>8. frames' = <<>> => n = 1
  BY <1>1, <1>2
<1>. QED  BY <1>1, <1>2, <1>3, <1>4, <1>5, <1>6, <1>7, <1>8 DEF n

LEMMA FindLoopStep ==
  ASSUME WholeInv, FindLoop
  PROVE  WholeInv'
<1>1. /\ Searching /\ MemberType \notin BuiltIn /\ phase = "search" /\ frames # <<>> /\ phase' = phase
      /\ MemberClass \in Top.parents
      /\ frames' = Below /\ prog' = prog /\ UNCHANGED resolved /\ types' = types
      /\ at' = at /\ looped' = TRUE /\ UNCHANGED <<at, resolved, bodies, sized>>
  BY DEF FindLoop, Searching, resolved
<1>2. HasLoop
  <2>1. /\ MemberClass \in DOMAIN prog.classes
        /\ MemberClass \in MemberClasses(Top.class) /\ MemberClass \in Embedded(Top.class)
    BY <1>1, MemberClassIs
  <2>2. MemberClass = Top.class \/ Top.class \in Embedded(MemberClass)
    BY <1>1, CallsOfSearch DEF FrameOK
  <2>3. MemberClass \in Embedded(MemberClass)
    BY <2>1, <2>2, EmbeddedIsTransitive
  <2>. QED  BY <2>1, <2>3 DEF HasLoop
<1>3. at \in DOMAIN prog.classes
  BY <1>1 DEF WholeInv, SearchInv
<1>4. SearchInv'
  BY <1>1, <1>2, <1>3, ReturnedTo, SearchGoesOn
<1>. QED  BY <1>1, <1>4, SearchStays

LEMMA LeaveClassStep ==
  ASSUME WholeInv, LeaveClass
  PROVE  WholeInv'
<1>. DEFINE n == Len(frames)
            c == Top.class
<1>1. /\ phase = "search" /\ frames # <<>> /\ phase' = phase
      /\ Top.next \notin DOMAIN VariablesOf(c)
      /\ frames' = Below /\ prog' = prog /\ UNCHANGED resolved /\ types' = types
      /\ at' = at /\ looped' = looped /\ UNCHANGED <<at, resolved, bodies, sized>>
  BY DEF LeaveClass, resolved
<1>2. /\ n \in Nat \ {0} /\ DOMAIN frames = 1..n /\ n \in DOMAIN frames /\ Top = frames[n] /\ FrameOK(Top, n)
      /\ c \in DOMAIN prog.classes /\ c \in Lists
      /\ DOMAIN VariablesOf(c) = 1..Len(VariablesOf(c)) /\ Len(VariablesOf(c)) \in Nat
  BY <1>1, CallsOfSearch DEF Top
<1>3. Top.next = Len(VariablesOf(c)) + 1
  BY <1>1, <1>2 DEF FrameOK
<1>4. prog \in AllPrograms /\ at \in DOMAIN prog.classes /\ phase \in Generating
  BY <1>1 DEF WholeInv, Base, SearchInv, Generating
<1>5. ASSUME ~looped PROVE Clean(c)
  <2>1. FrameIsClean(Top, TRUE)
    BY <1>2, <1>5 DEF WholeInv, SearchInv, FrameIsClean, n
  <2>2. \A j \in DOMAIN VariablesOf(c) : MemberIsClean(c, j)
    BY <1>2, <1>3, <2>1 DEF FrameIsClean
  <2>3. ASSUME NEW e \in MemberClasses(c) PROVE Clean(e)
    <3>1. PICK j \in DOMAIN VariablesOf(c) : VariablesOf(c)[j].typeName = prog.classes[e].name
      BY <2>3 DEF MemberClasses, ToSet
    <3>2. e \in DOMAIN prog.classes
      BY <2>3 DEF MemberClasses
    <3>3. ClassOfMember(c, j, e)
      BY <1>2, <1>4, <3>1, <3>2, MemberTypes
    <3>. QED  BY <2>2, <3>2, <3>3 DEF MemberIsClean
  <2>. QED  BY <1>2, <2>3, CleanByMembers
<1>6. ASSUME ~looped, NEW i \in DOMAIN frames' PROVE FrameIsClean(frames'[i], i = Len(frames'))
  <2>1. /\ i \in 1..(n - 1) /\ frames'[i] = frames[i] /\ i \in DOMAIN frames /\ Len(frames') = n - 1
    BY <1>1, ReturnedTo DEF n
  <2>2. i # n
    BY <1>2, <2>1
  <2>3. FrameIsClean(frames[i], FALSE)
    <3>1. FrameIsClean(frames[i], i = n)
      BY <1>6, <2>1 DEF WholeInv, SearchInv, n
    <3>. QED  BY <2>2, <3>1 DEF FrameIsClean
  <2>4. CASE i = n - 1
    <3>1. FrameWaits(frames[i], frames[i + 1]) /\ i + 1 = n
      BY <1>2, <2>1, <2>4 DEF WholeInv, SearchInv, n
    <3>2. ClassOfMember(frames[i].class, frames[i].next - 1, c)
      BY <1>2, <3>1 DEF FrameWaits
    <3>3. IsInjective(Declared)
      BY <1>4, ResolvedForGenerator DEF InOrder
    <3>4. ASSUME NEW e \in DOMAIN prog.classes, ClassOfMember(frames[i].class, frames[i].next - 1, e)
          PROVE  e = c
      <4>1. prog.classes[e].name = prog.classes[c].name
        BY <3>2, <3>4 DEF ClassOfMember
      <4>. QED  BY <1>2, <1>4, <3>3, <4>1, ClassesDiffer
    <3>5. MemberIsClean(frames[i].class, frames[i].next - 1)
      BY <1>5, <1>6, <3>4 DEF MemberIsClean
    <3>6. FrameIsClean(frames[i], TRUE)
      BY <2>3, <3>5 DEF FrameIsClean
    <3>. QED  BY <2>1, <3>6 DEF FrameIsClean
  <2>5. CASE i # n - 1
    BY <2>1, <2>3, <2>5 DEF FrameIsClean
  <2>. QED  BY <2>4, <2>5
<1>7. frames' = <<>> /\ ~looped' => Clean(at)
  BY <1>1, <1>5, ReturnedTo
<1>8. looped' => HasLoop
  BY <1>1 DEF WholeInv, SearchInv
<1>. HIDE DEF n, c
<1>9. SearchInv'
  BY <1>1, <1>4, <1>6, <1>7, <1>8, ReturnedTo, SearchGoesOn
<1>. QED  BY <1>1, <1>9, SearchStays DEF WholeInv, Base

LEMMA LayOutStep ==
  ASSUME WholeInv, LayOut
  PROVE  WholeInv'
<1>1. /\ phase = "search" /\ frames = <<>> /\ at' = at + 1 /\ prog' = prog /\ UNCHANGED resolved
      /\ frames' = frames /\ looped' = looped
      /\ looped => phase' = "thrown" /\ bodies' = bodies /\ sized' = sized
      /\ ~looped => /\ bodies' = bodies \cup {at} /\ sized' = sized
                    /\ GenMembers(at)
  BY DEF LayOut, AfterSearch
<1>2. /\ phase \in Generating /\ prog \in AllPrograms /\ at \in DOMAIN prog.classes /\ at \in Nat /\ at \in Lists
      /\ bodies \subseteq bodies' /\ sized' = sized /\ bodies' \subseteq DOMAIN prog.classes
  BY <1>1 DEF WholeInv, Base, SearchInv, Generating, Lists
<1>3. /\ phase' \in {"thrown", "broken", "genClasses"}
      /\ phase' = "thrown" => HasLoop \/ PassesObjects
      /\ phase' = "broken" => VoidIsData
      /\ phase' = "genClasses" => at \in bodies' /\ Clean(at) /\ HasPlainParts(at)
  <2>1. CASE looped
    BY <1>1, <2>1 DEF WholeInv, SearchInv
  <2>2. CASE ~looped
    <3>1. at \in bodies' /\ Clean(at) /\ GenMembers(at)
      BY <1>1, <2>2 DEF WholeInv, SearchInv
    <3>2. CASE HasVoidMember(at)
      BY <1>2, <3>1, <3>2, VoidMemberIs DEF GenMembers
    <3>3. CASE /\ ~HasVoidMember(at) /\ phase' = "genClasses"
               /\ \A k \in DOMAIN FunctionsOf(at) : Declares(at, k) = "declared"
      <4>1. \A j \in DOMAIN VariablesOf(at) : VariablesOf(at)[j].typeName # "void"
        BY <1>2, <3>3, VoidMemberIs
      <4>2. ASSUME NEW k \in DOMAIN FunctionsOf(at) PROVE HasPlainSignature(FunctionsOf(at)[k])
        <5>1. Declare(signatures[<<at, k>>]) = "declared"
          BY <3>3 DEF Declares
        <5>. QED  BY <1>2, <5>1, DeclareIs
      <4>. QED  BY <3>1, <3>3, <4>1, <4>2 DEF HasPlainParts
    <3>4. CASE \E k \in DOMAIN FunctionsOf(at) : Declares(at, k) # "declared" /\ phase' = Declares(at, k)
      BY <1>2, <3>4, DeclareIs DEF Declares
    <3>. QED  BY <3>1, <3>2, <3>3, <3>4 DEF GenMembers
  <2>. QED  BY <2>1, <2>2
<1>4. phase' \in Generating
  BY <1>3 DEF Generating
<1>5. DecoratedInv'
  BY <1>1, <1>2, <1>4, GeneratorDecorates
<1>6. GeneratedInv'
  <2>1. /\ \A k : Done("genFunctions", AfterGenFunctions, k)' => Done("genFunctions", AfterGenFunctions, k)
        /\ \A c : ~Done("genBodies", AfterGenBodies, c)'
    BY <1>1, <1>3 DEF Done, AfterGenFunctions, AfterGenClasses, AfterGenBodies
  <2>2. ASSUME NEW c \in DOMAIN prog.classes, LaidOut(c)'
        PROVE  LaidOut(c) \/ (c \in bodies' /\ Clean(c) /\ HasPlainParts(c))
    <3>1. phase' = "genClasses" /\ c < at' /\ c \in Nat
      BY <1>2, <1>3, <2>2, DomainsAreNat DEF LaidOut, Done, AfterGenClasses
    <3>2. c < at \/ c = at
      BY <1>1, <1>2, <3>1
    <3>3. c < at => LaidOut(c)
      BY <1>1 DEF LaidOut, Done
    <3>. QED  BY <1>3, <3>1, <3>2, <3>3
  <2>3. phase' # "done"
    BY <1>3
  <2>. QED  BY <1>1, <1>2, <1>3, <2>1, <2>2, <2>3, GeneratedStays
<1>7. SearchInv'
  BY <1>1, <1>3, NoSearch
<1>8. SizesAreDefined'
  BY <1>1, <1>2, SizesStay
<1>9. Base'
  BY <1>1, <1>2, <1>3, PassNames DEF WholeInv, Base, resolved
<1>. QED  BY <1>5, <1>6, <1>7, <1>8, <1>9 DEF WholeInv

----------------------------------------------------------------------------
(* The type invariant follows.                                             *)
LEMMA WholeInvIsTyped ==
  ASSUME WholeInv
  PROVE  DeclarationsTypeOK
<1>1. /\ prog \in AllPrograms /\ ScopeIsFirst /\ 0 \in Lists
      /\ phase \in ToSet(Passes) \cup {"search", "refused", "crashed", "thrown", "broken"}
      /\ at \in Nat \ {0} /\ errors \in BOOLEAN /\ looped \in BOOLEAN
      /\ bodies \cup sized \subseteq DOMAIN prog.classes
  BY DEF WholeInv, Base, DecoratedInv, Lists
<1>2. DOMAIN scope \subseteq Names
  BY <1>1, DeclaredIs DEF ScopeIsFirst
<1>3. \A n \in TypeNames : TypeFor(n) \in TypeNames \cup {NoType}
  BY <1>1, TypeForIs
<1>4. ASSUME NEW p \in DOMAIN types PROVE types[p] \in TypeNames \cup {NoType}
  <2>1. /\ p[1] \in Lists /\ p[2] \in DOMAIN VariablesOf(p[1])
        /\ types[p] = TypeOfVariable(VariablesOf(p[1])[p[2]])
    BY DEF WholeInv, DecoratedInv, TypesAreRight
  <2>2. VariablesOf(p[1])[p[2]] \in Variables
    BY <1>1, <2>1, ProgramShape, ElementOfSeq, LenProperties
  <2>3. ASSUME NEW v \in Variables PROVE TypeOfVariable(v) \in TypeNames \cup {NoType}
    <3>1. v.typeName \in TypeNames \cup {Infer} /\ v.init \in Literals \cup {"other", "none"}
      BY DEF Variables
    <3>. QED  BY <1>3, <3>1 DEF TypeOfVariable, TypeNames, Literals
  <2>. QED  BY <2>1, <2>2, <2>3
<1>5. ASSUME NEW p \in DOMAIN signatures PROVE signatures[p] \in Seq(TypeNames \cup {NoType}) \ {<<>>}
  <2>1. /\ p[1] \in Lists /\ p[2] \in DOMAIN FunctionsOf(p[1])
        /\ signatures[p] = Signature(FunctionsOf(p[1])[p[2]])
    BY DEF WholeInv, DecoratedInv, SignaturesAreRight
  <2>2. FunctionsOf(p[1])[p[2]] \in Functions
    BY <1>1, <2>1, ProgramShape, ElementOfSeq, LenProperties
  <2>. QED  BY <2>1, <2>2, SignatureIsTyped
<1>6. main \in {0} \cup DOMAIN prog.functions
  BY DEF WholeInv, DecoratedInv, MainIsMain
<1>7. \A i \in DOMAIN frames : Cardinality(frames[i].parents) = i - 1
  BY DEF WholeInv, SearchInv, FrameOK
<1>8. Len(frames) <= Len(prog.classes) + 1
  <2>1. frames \in Seq(Calls) /\ Len(frames) \in Nat /\ DOMAIN frames = 1..Len(frames)
    BY LenProperties DEF WholeInv, SearchInv
  <2>2. Len(prog.classes) \in Nat /\ DOMAIN prog.classes = 1..Len(prog.classes)
    BY <1>1, ClassPositions
  <2>3. CASE Len(frames) # 0
    <3>. DEFINE parents == frames[Len(frames)].parents
    <3>1. parents \subseteq 1..Len(prog.classes) /\ Cardinality(parents) = Len(frames) - 1
      <4>1. Len(frames) \in DOMAIN frames
        BY <2>1, <2>3
      <4>. QED  BY <2>2, <4>1 DEF WholeInv, SearchInv, FrameOK
    <3>2. IsFiniteSet(1..Len(prog.classes)) /\ Cardinality(1..Len(prog.classes)) = Len(prog.classes)
      <4>1. Cardinality(1..Len(prog.classes)) = IF 1 > Len(prog.classes) THEN 0 ELSE Len(prog.classes) - 1 + 1
        BY <2>2, FS_Interval
      <4>2. IsFiniteSet(1..Len(prog.classes))
        BY <2>2, FS_Interval
      <4>. QED  BY <2>2, <4>1, <4>2
    <3>. HIDE DEF parents
    <3>3. Cardinality(parents) <= Len(prog.classes)
      BY <3>1, <3>2, FS_Subset
    <3>. QED  BY <2>1, <2>2, <3>1, <3>3
  <2>. QED  BY <2>2, <2>3
<1>. QED  BY <1>1, <1>2, <1>4, <1>5, <1>6, <1>7, <1>8 DEF DeclarationsTypeOK

LEMMA StutterKeepsWholeInv ==
  ASSUME WholeInv, UNCHANGED declarationVars
  PROVE  WholeInv'
<1>1. /\ prog' = prog /\ phase' = phase /\ at' = at /\ scope' = scope /\ types' = types
      /\ signatures' = signatures /\ errors' = errors /\ main' = main /\ UNCHANGED resolved
      /\ frames' = frames /\ looped' = looped /\ bodies' = bodies /\ sized' = sized
  BY DEF declarationVars, resolved, layout
<1>2. Base'
  BY <1>1 DEF WholeInv, Base
<1>3. \A pass, after, k : Done(pass, after, k)' <=> Done(pass, after, k)
  BY <1>1 DEF Done
<1>4. ScopeIsFirst' /\ ScopeIsFull'
  <2>1. Declared' = Declared /\ Kinds' = Kinds
    BY <1>1, SameProgram
  <2>2. ScopeIsFirst'
    BY <1>1, <2>1 DEF WholeInv, DecoratedInv, ScopeIsFirst
  <2>3. ScopeIsFull'
    BY <1>1, <1>3, <2>1 DEF WholeInv, DecoratedInv, ScopeIsFull
  <2>. QED  BY <2>2, <2>3
<1>5. TypesAreRight' /\ SignaturesAreRight'
  BY <1>1, SameProgram, SameScope DEF WholeInv, DecoratedInv, TypesAreRight, SignaturesAreRight
<1>6. AllResolved'
  BY <1>1, <1>3, ResolvedStays DEF WholeInv, DecoratedInv
<1>7. BodiesChecked'
  BY <1>1, <1>3, BodiesStay DEF WholeInv, DecoratedInv
<1>8. MainIsMain' /\ Judged'
  <2>1. WellDeclared' <=> WellDeclared
    BY <1>1, SameProgram
  <2>. QED  BY <1>1, <2>1 DEF WholeInv, DecoratedInv, MainIsMain, Judged
<1>9. GeneratedInv'
  <2>1. \A c : LaidOut(c)' <=> LaidOut(c)
    BY <1>1 DEF LaidOut, Done
  <2>2. ThrowsForLoopsAndObjects
    BY DEF WholeInv, GeneratedInv
  <2>. QED  BY <1>1, <1>3, <2>1, <2>2, GeneratedStays DEF ThrowsForLoopsAndObjects
<1>10. SearchInv'
  <2>1. CASE phase = "search"
    BY <1>1, <2>1, SearchGoesOn DEF WholeInv, SearchInv
  <2>2. CASE phase # "search"
    BY <1>1, <2>2, NoSearch DEF WholeInv, SearchInv
  <2>. QED  BY <2>1, <2>2
<1>11. SizesAreDefined'
  BY <1>1, SizesStay
<1>. QED  BY <1>2, <1>4, <1>5, <1>6, <1>7, <1>8, <1>9, <1>10, <1>11 DEF WholeInv, DecoratedInv

LEMMA WholeInvStep ==
  ASSUME WholeInv, [DeclarationsNext]_declarationVars
  PROVE  WholeInv'
<1>1. CASE DeclarationsNext
  BY <1>1, NextPassStep, DecoratorSteps, GenGlobalStep, GenFunctionStep, BeginSearchStep, SkipMemberStep,
     EnterMemberStep, FindLoopStep, LeaveClassStep, LayOutStep, TakeSizeStep, GenMemberBodiesStep
     DEF DeclarationsNext
<1>. QED  BY <1>1, StutterKeepsWholeInv

(* Every state of linkNames and generateCode, whatever is declared and in  *)
(* whatever order, satisfies the inductive invariant.                      *)
THEOREM DeclarationsKeepWholeInv == DeclarationsSpec => []WholeInv
<1>1. DeclarationsInit => WholeInv
  BY DeclarationsStart
<1>2. WholeInv /\ [DeclarationsNext]_declarationVars => WholeInv'
  BY WholeInvStep
<1>. QED  BY <1>1, <1>2, PTL DEF DeclarationsSpec

(* The passes of linkNames together accept exactly the programs whose      *)
(* declarations are in order, and the main function is then the one of     *)
(* that name.                                                              *)
THEOREM DeclarationsAreJudged == DeclarationsSpec => []AcceptsWellDeclared
<1>1. WholeInv => AcceptsWellDeclared
  BY DEF WholeInv, DecoratedInv, Judged, MainIsMain, AcceptsWellDeclared
<1>. QED  BY <1>1, DeclarationsKeepWholeInv, PTL

(* The generator throws for a class that contains itself or an object that *)
(* is passed, breaks what it generates only for an extern member function, *)
(* and gets to its end only without any of the three.                      *)
THEOREM LoopsAndObjectsThrow == DeclarationsSpec => []ThrowsForLoopsAndObjects
<1>1. WholeInv => ThrowsForLoopsAndObjects
  BY DEF WholeInv, GeneratedInv
<1>. QED  BY <1>1, DeclarationsKeepWholeInv, PTL

(* The search for loops calls itself at most once for each class inside    *)
(* of the one it is asked about, and no size is asked for that depends on  *)
(* a struct without members or on itself.                                  *)
THEOREM SearchEndsAndSizesAreDefined == DeclarationsSpec => []DeclarationsInv
<1>1. WholeInv => DeclarationsInv
  BY WholeInvIsTyped DEF WholeInv, DeclarationsInv
<1>. QED  BY <1>1, DeclarationsKeepWholeInv, PTL
=============================================================================
