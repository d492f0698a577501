------------------------------ MODULE LlvmRun ------------------------------
(***************************************************************************)
(* A call of the function that LlvmGen generated: once generation is done  *)
(* the basic blocks run as LLVM defines them.  The run is shown to do what *)
(* the source promises (SourceSemantics).                                  *)
(***************************************************************************)
EXTENDS LlvmGen

VARIABLES
  block,  \* the block control is in; NoBlock before the call
  index,  \* the instruction of that block about to execute
  live,   \* the declarations whose alloca this call has executed
  result  \* "none", "running" or "returned"

runVars == <<block, index, live, result>>
allVars == <<body, pc, stack, blocks, erased, ins, slots, phase, block, index, live, result>>

RunInit ==
  /\ Init
  /\ block = NoBlock
  /\ index = 0
  /\ live = {}
  /\ result = "none"

Generate == Next /\ UNCHANGED runVars

(* A call enters the first block. *)
Call ==
  /\ phase = "done" /\ result = "none"
  /\ block' = 1
  /\ index' = 1
  /\ result' = "running"
  /\ UNCHANGED <<vars, live>>

Executing(op) ==
  /\ result = "running"
  /\ index \in DOMAIN blocks[block]
  /\ blocks[block][index].op = op

Current == blocks[block][index]

ExecuteDo ==
  /\ Executing("do")
  /\ index' = index + 1
  /\ live' = IF body[Current.at].op \in {"let", "arg"} THEN live \cup {Current.at} ELSE live
  /\ UNCHANGED <<vars, block, result>>

ExecuteBranch ==
  /\ Executing("br") \/ Executing("cond")
  /\ block' \in Targets(Current)
  /\ index' = 1
  /\ UNCHANGED <<vars, live, result>>

ExecuteReturn ==
  /\ Executing("ret")
  /\ result' = "returned"
  /\ UNCHANGED <<vars, block, index, live>>

RunNext == Generate \/ Call \/ ExecuteDo \/ ExecuteBranch \/ ExecuteReturn

RunSpec == RunInit /\ [][RunNext]_allVars

----------------------------------------------------------------------------
(* The statement that takes effect next, from instruction i of block b on: *)
(* behind the arguments and branches the source does not name; a block     *)
(* that just ends is the end of the function.                              *)
NextEffect(b, i) ==
  LET E[place \in (DOMAIN blocks) \X (1..(Len(body) + 2))] ==
        LET code == blocks[place[1]]
            k == place[2]
        IN IF k > Len(code) THEN Len(body) + 1
           ELSE IF code[k].op = "br" THEN E[<<code[k].yes, 1>>]
           ELSE IF body[code[k].at].op = "arg" THEN E[<<place[1], k + 1>>]
           ELSE code[k].at
  IN E[<<b, i>>]

Ahead ==
  CASE result = "none" -> Arrive(body, 1)
    [] result = "running" -> NextEffect(block, index)
    [] result = "returned" -> 0

Source == INSTANCE SourceSemantics WITH at <- Ahead, Bodies <- Seq(StatementsOver(Names))

(* The generated code does exactly what the source says: the same          *)
(* statements in the same order, nothing after a return, both ways at      *)
(* every condition.                                                        *)
ImplementsSource == Source!Spec

(* What genCompoundStatement returns for the body is exact: it says return *)
(* iff no path, whatever the conditions, reaches the closing brace.        *)
ReturnAnalysisIsExact ==
  phase = "done" => (Top.returned <=> Len(body) + 1 \notin Reachable(body))
=============================================================================
