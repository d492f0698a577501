------------------------------- MODULE Driver -------------------------------
(***************************************************************************)
(* main: one invocation of malinc takes a program through the stages,      *)
(* stops at the first that fails, writes output.o, links it to bin.o and   *)
(* perhaps runs that.  The names of both files are fixed, so what a        *)
(* directory holds passes from one invocation to the next, and between     *)
(* invocations that run side by side (a parallel build).                   *)
(*                                                                         *)
(* The content of a file is the program it was made of, None if there is   *)
(* no file and Broken if it has no valid contents.  Options that only show *)
(* something are left out, and so is the file of --save-llvm-ir, which no  *)
(* stage reads.  A program is what the invocation has read: sources may    *)
(* change from one invocation to the next, and Invoke takes any.           *)
(***************************************************************************)
EXTENDS FiniteSets

CONSTANTS
  Compilers,   \* the invocations that may run side by side
  Programs,
  FailsAt,     \* the stage each program fails in, "none" or "crash"
  OptionSets,  \* the combinations of options considered
  None, Broken

FrontEnd == {"reading", "lexing", "parsing", "decorating"}
Options == {"use-ir", "not-create-object-file", "run", "save-ast-as-code", "view-unknown-function"}

ASSUME DriverAssumption ==
  /\ FailsAt \in [Programs -> FrontEnd \cup {"generating", "crash", "none"}]
  /\ OptionSets \subseteq SUBSET Options
  /\ None \notin Programs /\ Broken \notin Programs

VARIABLES
  output, bin,       \* the contents of output.o and bin.o
  stage,             \* what each invocation does next; "ended" when it does nothing
  program, options,  \* its arguments
  status,            \* its exit status
  built,             \* the program in the bin.o that its link made
  ran,               \* the program it executed
  disturbed          \* history: it did not write output.o, or another did since

vars == <<output, bin, stage, program, options, status, built, ran, disturbed>>
files == <<output, bin>>
results == <<built, ran, disturbed>>

Contents == Programs \cup {None, Broken}

Init ==
  /\ output = None /\ bin = None
  /\ stage = [c \in Compilers |-> "ended"]
  /\ program \in [Compilers -> Programs]
  /\ options = [c \in Compilers |-> {}]
  /\ status = [c \in Compilers |-> "none"]
  /\ built = [c \in Compilers |-> None]
  /\ ran = [c \in Compilers |-> None]
  /\ disturbed = [c \in Compilers |-> FALSE]

(* malinc -f p, with options. *)
Invoke(c) ==
  /\ stage[c] = "ended"
  /\ stage' = [stage EXCEPT ![c] = "reading"]
  /\ \E p \in Programs : program' = [program EXCEPT ![c] = p]
  /\ \E o \in OptionSets : options' = [options EXCEPT ![c] = o]
  /\ status' = [status EXCEPT ![c] = "none"]
  /\ built' = [built EXCEPT ![c] = None]
  /\ ran' = [ran EXCEPT ![c] = None]
  /\ disturbed' = [disturbed EXCEPT ![c] = FALSE]
  /\ UNCHANGED files

GoTo(c, next) ==
  /\ stage' = [stage EXCEPT ![c] = next]
  /\ UNCHANGED <<program, options, status>>

Exit(c, code) ==
  /\ stage' = [stage EXCEPT ![c] = "ended"]
  /\ status' = [status EXCEPT ![c] = code]
  /\ UNCHANGED <<program, options>>

Fails(c) == FailsAt[program[c]] = stage[c]

After == [reading |-> "lexing", lexing |-> "parsing", parsing |-> "decorating",
          decorating |-> "saving"]

(* Fault: the answer of linkNames is ignored. *)
CheckIgnoringErrors(c) ==
  /\ stage[c] \in FrontEnd
  /\ IF Fails(c) /\ stage[c] # "decorating" THEN Exit(c, "error") ELSE GoTo(c, After[stage[c]])
  /\ UNCHANGED <<files, results>>

(* One stage of the front end. *)
Check(c) ==
  /\ stage[c] \in FrontEnd
  /\ IF Fails(c) THEN Exit(c, "error") ELSE GoTo(c, After[stage[c]])
  /\ UNCHANGED <<files, results>>

(* The file written has the name of the source and stands in the working   *)
(* directory, so it may replace the source itself.  This invocation has    *)
(* read it already, and what a later one finds there is any program, see   *)
(* Invoke.  The exception of File::saveFile is not caught.                 *)
SaveAst(c) ==
  /\ stage[c] = "saving"
  /\ \/ GoTo(c, "generating")
     \/ "save-ast-as-code" \in options[c] /\ Exit(c, "aborted")
  /\ UNCHANGED <<files, results>>

(* --use-ir ends here, whether or not the IR could be generated. *)
GenerateIr(c) ==
  /\ stage[c] = "generating" /\ "use-ir" \in options[c]
  /\ Exit(c, "not implemented")
  /\ UNCHANGED <<files, results>>

GenerateCode(c) ==
  /\ stage[c] = "generating" /\ "use-ir" \notin options[c]
  /\ IF Fails(c) THEN Exit(c, "error")
     ELSE IF FailsAt[program[c]] = "crash" THEN Exit(c, "aborted")
     ELSE GoTo(c, IF "not-create-object-file" \in options[c] THEN "viewing" ELSE "emitting")
  /\ UNCHANGED <<files, results>>

(* emitObjectFile returns without a word when there is no target or        *)
(* output.o cannot be opened; main goes on to link.                        *)
FailToOpen(c) ==
  /\ stage[c] = "emitting"
  /\ GoTo(c, "linking")
  /\ disturbed' = [disturbed EXCEPT ![c] = TRUE]
  /\ UNCHANGED <<files, built, ran>>

(* Fault: the file is opened without truncating it. *)
OpenKeepingContents(c) ==
  /\ stage[c] = "emitting"
  /\ disturbed' = [d \in Compilers |-> IF d = c THEN FALSE ELSE TRUE]
  /\ GoTo(c, "writing")
  /\ UNCHANGED <<files, built, ran>>

(* Opening output.o truncates it, also under the hands of others. *)
OpenObject(c) ==
  /\ stage[c] = "emitting"
  /\ output' = Broken
  /\ disturbed' = [d \in Compilers |-> IF d = c THEN FALSE ELSE TRUE]
  /\ GoTo(c, "writing")
  /\ UNCHANGED <<bin, built, ran>>

(* The object is written, mixed with what another wrote since the file was *)
(* opened, or the target machine cannot emit one.                          *)
WriteObject(c) ==
  /\ stage[c] = "writing"
  /\ \/ /\ output' \in {program[c]} \cup (IF output \in Programs THEN {Broken} ELSE {})
        /\ disturbed' = [d \in Compilers |-> d # c \/ disturbed[c]]
     \/ UNCHANGED <<output, disturbed>>
  /\ GoTo(c, "linking")
  /\ UNCHANGED <<bin, built, ran>>

(* Fault: the exit status of the linker is not looked at. *)
LinkUnchecked(c) ==
  /\ stage[c] = "linking"
  /\ \/ output \in Programs /\ bin' = output /\ built' = [built EXCEPT ![c] = output]
     \/ bin' \in {bin, None} /\ UNCHANGED built
  /\ GoTo(c, "viewing")
  /\ UNCHANGED <<output, ran, disturbed>>

(* clang makes bin.o from whatever output.o is; it may fail for reasons of *)
(* its own, such as a missing library, and may then remove bin.o.          *)
Link(c) ==
  /\ stage[c] = "linking"
  /\ \/ /\ output \in Programs
        /\ bin' = output
        /\ built' = [built EXCEPT ![c] = output]
        /\ GoTo(c, "viewing")
     \/ /\ bin' \in {bin, None}
        /\ Exit(c, "error")
        /\ UNCHANGED built
  /\ UNCHANGED <<output, ran, disturbed>>

(* --view-function-graph; then compilation counts as successful. *)
ViewGraph(c) ==
  /\ stage[c] = "viewing"
  /\ IF "view-unknown-function" \in options[c] THEN Exit(c, "error")
     ELSE IF "run" \in options[c] THEN GoTo(c, "running") ELSE Exit(c, "ok")
  /\ UNCHANGED <<files, results>>

(* --run executes the bin.o there is; its exit status is only printed. *)
Run(c) ==
  /\ stage[c] = "running"
  /\ ran' = [ran EXCEPT ![c] = bin]
  /\ Exit(c, "ok")
  /\ UNCHANGED <<files, built, disturbed>>

Step(c) ==
  \/ Check(c) \/ SaveAst(c) \/ GenerateIr(c) \/ GenerateCode(c)
  \/ FailToOpen(c) \/ OpenObject(c) \/ WriteObject(c) \/ Link(c) \/ ViewGraph(c) \/ Run(c)

Next == \E c \in Compilers : Invoke(c) \/ Step(c)

Spec == Init /\ [][Next]_vars

----------------------------------------------------------------------------
Accepted(p) == FailsAt[p] = "none"

TypeOK ==
  /\ output \in Contents /\ bin \in Programs \cup {None}
  /\ stage \in [Compilers -> FrontEnd \cup {"saving", "generating", "emitting", "writing",
                                           "linking", "viewing", "running", "ended"}]
  /\ program \in [Compilers -> Programs] /\ options \in [Compilers -> SUBSET Options]
  /\ status \in [Compilers -> {"none", "ok", "error", "aborted", "not implemented"}]
  /\ built \in [Compilers -> Programs \cup {None}] /\ ran \in [Compilers -> Programs \cup {None}]
  /\ disturbed \in [Compilers -> BOOLEAN]

(* A program that some stage refuses never becomes an object, an           *)
(* executable or a running process: not by a stale file, not by another    *)
(* invocation, whatever the file system and the linker do.                 *)
OnlyAcceptedProgramsAreBuilt ==
  \A p \in {output, bin} \cup {built[c] : c \in Compilers} \cup {ran[c] : c \in Compilers} :
    p \in Programs => Accepted(p)

(* The exit status 0 means that all stages passed and, if an object was    *)
(* wanted, that the linker has made bin.o during this invocation.          *)
SuccessIsEarned ==
  \A c \in Compilers : status[c] = "ok" =>
    /\ Accepted(program[c]) /\ "use-ir" \notin options[c]
    /\ "not-create-object-file" \notin options[c] => built[c] \in Programs

(* Another program than the one compiled is only linked after output.o     *)
(* could not be opened or another invocation has written it in between.    *)
OnlyDisturbedBuildsGoWrong ==
  \A c \in Compilers : built[c] \notin {program[c], None} => disturbed[c]

----------------------------------------------------------------------------
(* What makes them inductive: no stage that is passed refuses the program, *)
(* so that behind the code generator it is an accepted one; nothing is     *)
(* built before the link; and output.o is the invocation's own between its *)
(* two steps and the link, unless disturbed.                               *)
Passed(s) ==
  CASE s = "lexing" -> {"reading"} [] s = "parsing" -> {"reading", "lexing"}
    [] s = "decorating" -> {"reading", "lexing", "parsing"}
    [] s \in {"saving", "generating"} -> FrontEnd [] OTHER -> {}

BackEnd == {"emitting", "writing", "linking", "viewing", "running"}

StagesAreEarned ==
  \A c \in Compilers :
    /\ FailsAt[program[c]] \notin Passed(stage[c])
    /\ stage[c] \in BackEnd => Accepted(program[c]) /\ "use-ir" \notin options[c]
    /\ stage[c] \in {"viewing", "running"} /\ "not-create-object-file" \notin options[c]
         => built[c] \in Programs
    /\ stage[c] \in {"emitting", "writing", "linking"} => built[c] = None
    /\ stage[c] \notin BackEnd \cup {"ended"} => built[c] = None
    /\ stage[c] # "ended" => status[c] = "none"

OutputIsOwn ==
  \A c \in Compilers : ~disturbed[c] =>
    /\ stage[c] = "writing" => output = Broken
    /\ stage[c] = "linking" => output \in {program[c], Broken}

Inv ==
  /\ TypeOK
  /\ OnlyAcceptedProgramsAreBuilt
  /\ SuccessIsEarned
  /\ OnlyDisturbedBuildsGoWrong
  /\ StagesAreEarned
  /\ OutputIsOwn

----------------------------------------------------------------------------
(* README.md: "you can directly compile and run your program at once".     *)
RunsWhatItCompiled ==
  \A c \in Compilers :
    status[c] = "ok" /\ "run" \in options[c] /\ "not-create-object-file" \notin options[c]
      => ran[c] = program[c]
=============================================================================
