------------------------------- MODULE IrGen -------------------------------
(***************************************************************************)
(* IRGenerator: the walk over a decorated function body that fills basic   *)
(* blocks of the compiler's own IR through IRBuilder, and the pass         *)
(* IRRemoveBBRedundantTermPass that runs on the result.  Unlike the LLVM   *)
(* generator it emits the statements behind a return as well and creates   *)
(* merge blocks late, so jumps are appended to blocks left earlier.        *)
(***************************************************************************)
EXTENDS StatementStream

CONSTANTS Bodies, Names, Globals

ASSUME BodiesAreStreams == Bodies \subseteq Seq(StatementsOver(Names))

VARIABLES
  body,    \* the function's statements
  pc,      \* the next one to generate
  calls,   \* the active visit...Statement calls
  blocks,  \* the instructions of the function's basic blocks
  ins,     \* IRBuilder::currentBasicBlock
  phase    \* "generating", "generated" or "passed"

vars == <<body, pc, calls, blocks, ins, phase>>

----------------------------------------------------------------------------
(* An instruction stands for the statement at a position and uses the      *)
(* allocations of some declarations; a jump the source does not name has   *)
(* position 0; target 0 is a jump target not set yet.                      *)
Instr(op, at, uses, yes, no) == [op |-> op, at |-> at, uses |-> uses, yes |-> yes, no |-> no]
Jump(target) == Instr("jump", 0, {}, target, 0)

Terminators == {"ret", "jump", "cond"}
Targets(i) == IF i.op = "jump" THEN {i.yes} ELSE IF i.op = "cond" THEN {i.yes, i.no} ELSE {}

(* The locals of the visit...Statement around a list: the statement, the   *)
(* block and index of condJump, bbEndOfThen, bbBeforeWhile and bbCond.     *)
Call(kind, at, jump, from) == [kind |-> kind, at |-> at, jump |-> jump, from |-> from]

Top == calls[Len(calls)]
Below == SubSeq(calls, 1, Len(calls) - 1)
NewBlock == Len(blocks) + 1

Init ==
  /\ body \in Bodies
  /\ pc = 1
  /\ calls = <<Call("body", 0, <<0, 0>>, 0)>>
  /\ blocks = << <<>> >>
  /\ ins = 1
  /\ phase = "generating"

At(ops) == phase = "generating" /\ pc \in 1..Len(body) /\ body[pc].op \in ops

(* The irVariablePtr that the names of the statement at p refer to, as     *)
(* declarations; globals are allocated elsewhere.                          *)
UsesOf(p) == { d \in {DeclOf(body, p, n, Globals) : n \in UsedNames(body, p)} : d > 0 }
Uses == UsesOf(pc)

Append1(bs, b, i) == [bs EXCEPT ![b] = Append(@, i)]

(* visitFunctionParamDeclaration gives an argument its IRFunctionArgument  *)
(* outside of any block.                                                   *)
VisitArgument ==
  /\ At({"arg"})
  /\ pc' = pc + 1
  /\ UNCHANGED <<body, calls, blocks, ins, phase>>

(* Fault: the allocation is generated behind the store. *)
VisitVariableDeclLate ==
  /\ At({"let"})
  /\ blocks' = Append1(Append1(blocks, ins, Instr("do", pc, {pc} \cup Uses, 0, 0)), ins,
                       Instr("alloca", pc, {}, 0, 0))
  /\ pc' = pc + 1
  /\ UNCHANGED <<body, calls, ins, phase>>

(* visitVariableDecl: the allocation, the initial value, the store. *)
VisitVariableDecl ==
  /\ At({"let"})
  /\ blocks' = Append1(Append1(blocks, ins, Instr("alloca", pc, {}, 0, 0)), ins,
                       Instr("do", pc, {pc} \cup Uses, 0, 0))
  /\ pc' = pc + 1
  /\ UNCHANGED <<body, calls, ins, phase>>

(* visitVariableAssignStatement and the expression statements. *)
VisitEffect ==
  /\ At({"assign", "use"})
  /\ blocks' = Append1(blocks, ins, Instr("do", pc, Uses, 0, 0))
  /\ pc' = pc + 1
  /\ UNCHANGED <<body, calls, ins, phase>>

(* visitReturnStatement; the walk over the list goes on behind it. *)
VisitReturn ==
  /\ At({"return"})
  /\ blocks' = Append1(blocks, ins, Instr("ret", pc, Uses, 0, 0))
  /\ pc' = pc + 1
  /\ UNCHANGED <<body, calls, ins, phase>>

VisitCompound ==
  /\ At({"block"})
  /\ calls' = Append(calls, Call("block", pc, <<0, 0>>, 0))
  /\ pc' = pc + 1
  /\ UNCHANGED <<body, blocks, ins, phase>>

(* visitIfStatement up to its ifBody: the jump, without a false target     *)
(* yet, and the block ifThen.                                              *)
VisitIf ==
  /\ At({"if", "ifelse"})
  /\ blocks' = Append(Append1(blocks, ins, Instr("cond", pc, Uses, NewBlock, 0)), <<>>)
  /\ ins' = NewBlock
  /\ calls' = Append(calls, Call(IF body[pc].op = "ifelse" THEN "then" ELSE "if", pc,
                                 <<ins, Len(blocks[ins]) + 1>>, 0))
  /\ pc' = pc + 1
  /\ UNCHANGED <<body, phase>>

(* Fault: the false target is not set. *)
SetNoTarget(bs, jump, target) == bs

SetFalseTarget(bs, jump, target) == [bs EXCEPT ![jump[1]][jump[2]].no = target]

(* Block ifElse becomes the false target; bbEndOfThen is remembered. *)
VisitElse ==
  /\ At({"else"})
  /\ Top.kind = "then"
  /\ blocks' = Append(SetFalseTarget(blocks, Top.jump, NewBlock), <<>>)
  /\ ins' = NewBlock
  /\ calls' = Append(Below, [Top EXCEPT !.kind = "else", !.from = ins])
  /\ pc' = pc + 1
  /\ UNCHANGED <<body, phase>>

(* Block ifMerge is the false target, and the end of then jumps to it. *)
EndIf ==
  /\ At({"end"})
  /\ Top.kind = "if"
  /\ blocks' = Append(Append1(SetFalseTarget(blocks, Top.jump, NewBlock), ins, Jump(NewBlock)), <<>>)
  /\ ins' = NewBlock
  /\ calls' = Below
  /\ pc' = pc + 1
  /\ UNCHANGED <<body, phase>>

(* The ends of else and then jump to block ifMerge. *)
EndIfElse ==
  /\ At({"end"})
  /\ Top.kind = "else"
  /\ blocks' = Append(Append1(Append1(blocks, ins, Jump(NewBlock)), Top.from, Jump(NewBlock)), <<>>)
  /\ ins' = NewBlock
  /\ calls' = Below
  /\ pc' = pc + 1
  /\ UNCHANGED <<body, phase>>

WhileBody == NewBlock + 1

(* visitWhileStatement up to its body: blocks whileCond and whileBody,     *)
(* neither of which anything jumps to yet.                                 *)
VisitWhile ==
  /\ At({"while"})
  /\ blocks' = blocks \o << <<>>, <<>> >>
  /\ ins' = WhileBody
  /\ calls' = Append(calls, Call("loop", pc, <<NewBlock, 1>>, ins))
  /\ pc' = pc + 1
  /\ UNCHANGED <<body, phase>>

(* Fault: the body does not go back to the condition. *)
AgainBehind == NewBlock

(* Where the loop's body goes: whileCond. *)
Again == Top.jump[1]

(* The end of the body and the block before the loop jump to whileCond,    *)
(* which branches to whileBody or afterWhile.  The condition was generated *)
(* where the statement stands.                                             *)
EndWhile ==
  /\ At({"end"})
  /\ Top.kind = "loop"
  /\ LET cond == Top.jump[1]
     IN blocks' = Append(Append1(Append1(Append1(blocks, ins, Jump(Again)), Top.from, Jump(cond)),
                                 cond, Instr("cond", Top.at, UsesOf(Top.at), cond + 1, NewBlock)), <<>>)
  /\ ins' = NewBlock
  /\ calls' = Below
  /\ pc' = pc + 1
  /\ UNCHANGED <<body, phase>>

EndCompound ==
  /\ At({"end"})
  /\ Top.kind = "block"
  /\ calls' = Below
  /\ pc' = pc + 1
  /\ UNCHANGED <<body, blocks, ins, phase>>

EndFunction ==
  /\ phase = "generating" /\ pc = Len(body) + 1
  /\ Top.kind = "body"
  /\ phase' = "generated"
  /\ UNCHANGED <<body, pc, calls, blocks, ins>>

(* IRRemoveBBRedundantTermPass::visitBasicBlock cuts a block behind its    *)
(* first terminator; a block without one is left as it is.                 *)
CutAfterTerminator(b) ==
  LET ends == {k \in DOMAIN b : b[k].op \in Terminators}
  IN IF ends = {} THEN b ELSE SubSeq(b, 1, Min(ends))

RunPass ==
  /\ phase = "generated"
  /\ blocks' = [b \in DOMAIN blocks |-> CutAfterTerminator(blocks[b])]
  /\ phase' = "passed"
  /\ UNCHANGED <<body, pc, calls, ins>>

VisitBody ==
  \/ VisitVariableDecl \/ VisitEffect \/ VisitReturn
  \/ VisitCompound \/ EndCompound \/ VisitIf \/ VisitElse \/ EndIf \/ EndIfElse
  \/ VisitWhile \/ EndWhile \/ EndFunction \/ RunPass

Next == VisitArgument \/ VisitBody

Spec == Init /\ [][Next]_vars

----------------------------------------------------------------------------
TypeOK ==
  /\ body \in Seq(StatementsOver(Names))
  /\ pc \in 1..(Len(body) + 1)
  /\ \A b \in DOMAIN blocks : \A k \in DOMAIN blocks[b] :
       /\ blocks[b][k].op \in Terminators \cup {"alloca", "do"}
       /\ blocks[b][k].at \in 0..Len(body)
       /\ blocks[b][k].uses \subseteq 1..Len(body)
  /\ ins \in DOMAIN blocks
  /\ phase \in {"generating", "generated", "passed"}

(* Every jump has its targets once the walk is over, whatever was nested   *)
(* between its creation and the patch of its false target.                 *)
JumpsAreComplete ==
  phase # "generating" =>
    \A b \in DOMAIN blocks : \A k \in DOMAIN blocks[b] :
      Targets(blocks[b][k]) \subseteq DOMAIN blocks

(* The builder stands in a block of the function, and no jump is left      *)
(* without its targets.                                                    *)
IrInv == TypeOK /\ JumpsAreComplete
=============================================================================
