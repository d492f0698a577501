------------------------------- MODULE IrRun -------------------------------
(***************************************************************************)
(* A call of the function that IrGen generated, after the pass.  The IR is *)
(* not lowered any further by this version of the compiler; it runs here   *)
(* by the meaning that IRInstructions.h gives its instructions.  The run   *)
(* is shown to do what the source promises (SourceSemantics).              *)
(***************************************************************************)
EXTENDS IrGen

VARIABLES
  block,  \* the block control is in; 0 before the call
  index,  \* the instruction of that block about to execute
  live,   \* the declarations allocated by this call
  result  \* "none", "running" or "returned"

runVars == <<block, index, live, result>>
allVars == <<body, pc, calls, blocks, ins, phase, block, index, live, result>>

RunInit == Init /\ block = 0 /\ index = 0 /\ live = {} /\ result = "none"

Enter ==
  /\ phase = "passed" /\ result = "none"
  /\ block' = 1
  /\ index' = 1
  /\ live' = {p \in 1..Len(body) : body[p].op = "arg"}
  /\ result' = "running"
  /\ UNCHANGED vars

Current == blocks[block][index]
Executing(ops) == result = "running" /\ index \in DOMAIN blocks[block] /\ Current.op \in ops

Execute ==
  /\ Executing({"alloca", "do"})
  /\ index' = index + 1
  /\ live' = IF Current.op = "alloca" THEN live \cup {Current.at} ELSE live
  /\ UNCHANGED <<vars, block, result>>

ExecuteJump ==
  /\ Executing({"jump", "cond"})
  /\ block' \in Targets(Current)
  /\ index' = 1
  /\ UNCHANGED <<vars, live, result>>

ExecuteReturn ==
  /\ Executing({"ret"})
  /\ result' = "returned"
  /\ UNCHANGED <<vars, block, index, live>>

Run == Enter \/ Execute \/ ExecuteJump \/ ExecuteReturn

----------------------------------------------------------------------------
(* The statement that takes effect next, from instruction i of block b on: *)
(* behind allocations and jumps that the source does not name; a block     *)
(* that just ends ends the function.                                       *)
NextEffect(b, i) ==
  LET E[place \in UNION {{c} \X (1..(Len(blocks[c]) + 1)) : c \in DOMAIN blocks}] ==
        LET code == blocks[place[1]]
            k == place[2]
        IN IF k > Len(code) THEN Len(body) + 1
           ELSE IF code[k].op = "jump" THEN E[<<code[k].yes, 1>>]
           ELSE IF code[k].op = "alloca" THEN E[<<place[1], k + 1>>]
           ELSE code[k].at
  IN E[<<b, i>>]

Ahead ==
  CASE result = "none" -> Arrive(body, 1)
    [] result = "running" -> NextEffect(block, index)
    [] result = "returned" -> 0

Source == INSTANCE SourceSemantics WITH at <- Ahead, Bodies <- Seq(StatementsOver(Names))

(* The IR does exactly what the source says, although the statements       *)
(* behind a return are generated too and jumps are appended behind it.     *)
ImplementsSource == Source!Spec

(* A local is only used after this call has allocated it. *)
UsesFollowAllocations ==
  result = "running" /\ index \in DOMAIN blocks[block] => Current.uses \subseteq live
=============================================================================
