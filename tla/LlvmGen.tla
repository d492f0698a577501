------------------------------ MODULE LlvmGen ------------------------------
(***************************************************************************)
(* CodeGenerator: the walk over a decorated function body that emits LLVM  *)
(* basic blocks.  One action per kind of statement; the recursion of the   *)
(* gen...Statement functions is an explicit stack of their local variables.*)
(***************************************************************************)
EXTENDS StatementStream

CONSTANTS
  Bodies,           \* the decorated bodies that may have to be generated
  Names,            \* the names of variables
  Globals,          \* those declared as global variables
  NumericGlobals,   \* and of these, the ones with a number as initial value
  Strings           \* the names of variables of type str

ASSUME BodiesAreStreams == Bodies \subseteq Seq(StatementsOver(Names))
ASSUME GlobalsAreNames == NumericGlobals \subseteq Globals /\ Globals \subseteq Names
ASSUME StringsAreNames == Strings \subseteq Names \ NumericGlobals

VARIABLES
  body,    \* the function's statements
  pc,      \* the next one to generate
  stack,   \* the active gen...Statement calls, the function's body first
  blocks,  \* the instructions of every basic block, in order of creation
  erased,  \* the blocks removed by eraseFromParent
  ins,     \* the builder's insertion block
  slots,   \* the declarations whose llvmVariable is set
  phase    \* what became of the function

vars == <<body, pc, stack, blocks, erased, ins, slots, phase>>

----------------------------------------------------------------------------
(* Instructions carry the position of the statement they stand for; a      *)
(* branch that the source does not name carries 0.                         *)
Instr(op, at, yes, no) == [op |-> op, at |-> at, yes |-> yes, no |-> no]
Do(at) == Instr("do", at, 0, 0)            \* loads, stores, calls, allocas
Ret(at) == Instr("ret", at, 0, 0)
Br(target) == Instr("br", 0, target, 0)
CondBr(at, yes, no) == Instr("cond", at, yes, no)

Terminator(i) == i.op \in {"ret", "br", "cond"}
Targets(i) == IF i.op = "br" THEN {i.yes} ELSE IF i.op = "cond" THEN {i.yes, i.no} ELSE {}

Instrs == [op : {"do", "ret", "br", "cond"}, at : Nat, yes : Nat, no : Nat]

Terminated(b) == blocks[b] # <<>> /\ Terminator(blocks[b][Len(blocks[b])])

(* A call of genCompoundStatement for a list, with the locals of the       *)
(* gen...Statement call around it: "if" is the only list of an if without  *)
(* else, "then" and "else" are the two lists of one with else.             *)
Frame(kind, merge, other) ==
  [kind |-> kind, merge |-> merge, other |-> other,
   returned |-> FALSE,        \* the last statement generated was a return
   thenReturned |-> FALSE]    \* thenHasReturn, while in the else list

Frames == [kind : {"body", "block", "if", "then", "else", "loop"},
           merge : Nat, other : Nat, returned : BOOLEAN, thenReturned : BOOLEAN]

Top == stack[Len(stack)]
Below == SubSeq(stack, 1, Len(stack) - 1)

NoBlock == 0

Init ==
  /\ body \in Bodies
  /\ pc = 1
  /\ stack = <<Frame("body", NoBlock, NoBlock)>>
  /\ blocks = << <<>> >>
  /\ erased = {}
  /\ ins = 1
  /\ slots = {}
  /\ phase = "generating"

----------------------------------------------------------------------------
At(ops) == phase = "generating" /\ pc \in 1..Len(body) /\ body[pc].op \in ops

Decl(name) == DeclOf(body, pc, name, Globals)

(* genVariableExpression finds storage for a name: a local's alloca, or a  *)
(* global that genGlobal did not skip.                                     *)
HasStorage(name) ==
  \/ Decl(name) \in slots
  \/ Decl(name) = Global /\ name \in NumericGlobals

CanRead == body[pc].reads \in {"none", "const"} \/ HasStorage(body[pc].reads)

AssignsString(p) == body[p].op = "assign" /\ body[p].name \in Strings

Emit(i) == blocks' = [blocks EXCEPT ![ins] = Append(@, i)]

(* Fault: the loop goes on behind a statement that returned. *)
AfterStatementGoesOn(calls, returned, next) ==
  /\ stack' = [calls EXCEPT ![Len(calls)].returned = returned]
  /\ pc' = next

(* The loop of genCompoundStatement after a statement of the list on top   *)
(* of calls: it stops at the first one that returned.                      *)
AfterStatement(calls, returned, next) ==
  /\ stack' = [calls EXCEPT ![Len(calls)].returned = returned]
  /\ pc' = IF returned THEN ListEnd(body, next) ELSE next

(* An argument gets an alloca that its value is stored to. *)
GenArgument ==
  /\ At({"arg"})
  /\ Emit(Do(pc))
  /\ slots' = slots \cup {pc}
  /\ AfterStatement(stack, FALSE, pc + 1)
  /\ UNCHANGED <<body, erased, ins, phase>>

(* Fault: llvmVariable is set although no alloca is generated. *)
GenVariableDeclarationUnallocated ==
  /\ At({"let"})
  /\ CanRead
  /\ slots' = slots \cup {pc}
  /\ AfterStatement(stack, FALSE, pc + 1)
  /\ UNCHANGED <<body, blocks, erased, ins, phase>>

(* genVariableDeclaration: the initial value, then the alloca. *)
GenVariableDeclaration ==
  /\ At({"let"})
  /\ CanRead
  /\ Emit(Do(pc))
  /\ slots' = slots \cup {pc}
  /\ AfterStatement(stack, FALSE, pc + 1)
  /\ UNCHANGED <<body, erased, ins, phase>>

(* genVariableAssignStatement: the target's pointer is taken unchecked. *)
GenVariableAssign ==
  /\ At({"assign"})
  /\ ~AssignsString(pc)
  /\ HasStorage(body[pc].name)
  /\ CanRead
  /\ Emit(Do(pc))
  /\ AfterStatement(stack, FALSE, pc + 1)
  /\ UNCHANGED <<body, erased, ins, slots, phase>>

GenExpression ==
  /\ At({"use"})
  /\ CanRead
  /\ Emit(Do(pc))
  /\ AfterStatement(stack, FALSE, pc + 1)
  /\ UNCHANGED <<body, erased, ins, slots, phase>>

GenReturn ==
  /\ At({"return"})
  /\ CanRead
  /\ Emit(Ret(pc))
  /\ AfterStatement(stack, TRUE, pc + 1)
  /\ UNCHANGED <<body, erased, ins, slots, phase>>

GenCompound ==
  /\ At({"block"})
  /\ stack' = Append(stack, Frame("block", NoBlock, NoBlock))
  /\ pc' = pc + 1
  /\ UNCHANGED <<body, blocks, erased, ins, slots, phase>>

(* genIfStatement up to its ifBody: blocks ifThen, ifMerge and, with else, *)
(* ifElse; without else the condition branches to ifMerge.                 *)
GenIf ==
  /\ At({"if", "ifelse"})
  /\ CanRead
  /\ LET hasElse == body[pc].op = "ifelse"
         then == Len(blocks) + 1
         merge == Len(blocks) + 2
         else == IF hasElse THEN Len(blocks) + 3 ELSE merge
     IN /\ blocks' = [blocks EXCEPT ![ins] = Append(@, CondBr(pc, then, else))]
                       \o IF hasElse THEN << <<>>, <<>>, <<>> >> ELSE << <<>>, <<>> >>
        /\ ins' = then
        /\ stack' = Append(stack, Frame(IF hasElse THEN "then" ELSE "if", merge, else))
  /\ pc' = pc + 1
  /\ UNCHANGED <<body, erased, slots, phase>>

(* Fault: the branch is generated after the builder moved. *)
BranchFromMerge(target) ==
  IF Top.returned THEN UNCHANGED blocks
  ELSE blocks' = [blocks EXCEPT ![Top.merge] = Append(@, Br(target))]

(* A list that did not return continues at the given block. *)
BranchUnlessReturned(target) ==
  IF Top.returned THEN UNCHANGED blocks ELSE Emit(Br(target))

GenElse ==
  /\ At({"else"})
  /\ Top.kind = "then"
  /\ BranchUnlessReturned(Top.merge)
  /\ ins' = Top.other
  /\ stack' = Append(Below, [Top EXCEPT !.kind = "else", !.thenReturned = Top.returned,
                                        !.returned = FALSE])
  /\ pc' = pc + 1
  /\ UNCHANGED <<body, erased, slots, phase>>

(* The end of an if without else never counts as a return. *)
EndIf ==
  /\ At({"end"})
  /\ Top.kind = "if"
  /\ BranchUnlessReturned(Top.merge)
  /\ ins' = Top.merge
  /\ AfterStatement(Below, FALSE, pc + 1)
  /\ UNCHANGED <<body, erased, slots, phase>>

EndIfElseWith(hasReturn, erase) ==
  /\ At({"end"})
  /\ Top.kind = "else"
  /\ BranchUnlessReturned(Top.merge)
  /\ erased' = IF hasReturn THEN erased \cup erase ELSE erased
  /\ ins' = Top.merge
  /\ AfterStatement(Below, hasReturn, pc + 1)
  /\ UNCHANGED <<body, slots, phase>>

(* Faults: one returning list is enough; the block is not erased. *)
EndIfElseEither == EndIfElseWith(Top.thenReturned \/ Top.returned, {Top.merge})
EndIfElseKeepsMerge == EndIfElseWith(Top.thenReturned /\ Top.returned, {})

(* With else it does when both lists returned, and then ifMerge is erased. *)
EndIfElse == EndIfElseWith(Top.thenReturned /\ Top.returned, {Top.merge})

(* genWhileStatement up to its body: blocks loopCheck, loopBody and        *)
(* loopMerge; the condition is generated in loopCheck.                     *)
GenWhile ==
  /\ At({"while"})
  /\ CanRead
  /\ LET check == Len(blocks) + 1
         loop == Len(blocks) + 2
         merge == Len(blocks) + 3
     IN /\ blocks' = [blocks EXCEPT ![ins] = Append(@, Br(check))]
                       \o << <<CondBr(pc, loop, merge)>>, <<>>, <<>> >>
        /\ ins' = loop
        /\ stack' = Append(stack, Frame("loop", merge, check))
  /\ pc' = pc + 1
  /\ UNCHANGED <<body, erased, slots, phase>>

EndWhileWith(next, hasReturn) ==
  /\ At({"end"})
  /\ Top.kind = "loop"
  /\ BranchUnlessReturned(next)
  /\ ins' = Top.merge
  /\ AfterStatement(Below, hasReturn, pc + 1)
  /\ UNCHANGED <<body, erased, slots, phase>>

(* Faults: the body does not go back to the check; a loop counts as return. *)
EndWhileOnce == EndWhileWith(Top.merge, FALSE)
EndWhileReturns == EndWhileWith(Top.other, Top.returned)

EndWhile == EndWhileWith(Top.other, FALSE)

EndCompound ==
  /\ At({"end"})
  /\ Top.kind = "block"
  /\ AfterStatement(Below, Top.returned, pc + 1)
  /\ UNCHANGED <<body, blocks, erased, ins, slots, phase>>

(* genFunctionBody: ClearInsertionPoint; verifyFunction's answer is        *)
(* dropped.                                                                *)
EndFunction ==
  /\ phase = "generating"
  /\ pc = Len(body) + 1
  /\ Top.kind = "body"
  /\ phase' = "done"
  /\ ins' = NoBlock
  /\ UNCHANGED <<body, pc, stack, blocks, erased, slots>>

(* A value without storage ends the whole compilation: reading it throws a *)
(* CodeGenException, storing to it dereferences a null llvm::Value.  A str *)
(* is not stored at all: behind target and value comes a CodeGenException. *)
(* What the statement had emitted before is never used and left out.       *)
Abort ==
  /\ At({"let", "assign", "use", "return", "if", "ifelse", "while"})
  /\ LET throws == ~CanRead \/ AssignsString(pc)
         noTarget == body[pc].op = "assign" /\ ~HasStorage(body[pc].name)
     IN /\ throws \/ noTarget
        /\ phase' = IF throws THEN "thrown" ELSE "crashed"
  /\ UNCHANGED <<body, pc, stack, blocks, erased, ins, slots>>

Next ==
  \/ GenArgument \/ GenVariableDeclaration \/ GenVariableAssign \/ GenExpression
  \/ GenReturn \/ GenCompound \/ EndCompound
  \/ GenIf \/ GenElse \/ EndIf \/ EndIfElse
  \/ GenWhile \/ EndWhile
  \/ EndFunction \/ Abort

Spec == Init /\ [][Next]_vars

----------------------------------------------------------------------------
TypeOK ==
  /\ body \in Seq(StatementsOver(Names))
  /\ pc \in 1..(Len(body) + 1)
  /\ stack \in Seq(Frames) \ {<<>>}
  /\ blocks \in Seq(Seq(Instrs))
  /\ erased \subseteq DOMAIN blocks
  /\ ins \in DOMAIN blocks \cup {NoBlock}
  /\ slots \subseteq Nat
  /\ phase \in {"generating", "done", "thrown", "crashed"}

(* LLVM requires that a terminator is the last instruction of its block:   *)
(* the generator never appends to a block it has already closed, whatever  *)
(* nesting of returning lists it walks through.                            *)
TerminatorsAreLast ==
  \A b \in DOMAIN blocks : \A k \in 1..(Len(blocks[b]) - 1) : ~Terminator(blocks[b][k])

(* While a list has not returned, the builder stands in a live block that  *)
(* is still open, so the next statement has a place to go.  In particular  *)
(* the SetInsertPoint on a merge block just erased is never followed by an *)
(* instruction.                                                            *)
InsertionPointIsOpen ==
  phase = "generating" /\ ~Top.returned => ins \in (DOMAIN blocks \ erased) /\ ~Terminated(ins)

(* No branch in a block that survives leads to an erased one: ifMerge is   *)
(* only erased when neither list of the if continues there.                *)
NoBranchToErased ==
  \A b \in DOMAIN blocks \ erased :
    \A k \in DOMAIN blocks[b] : Targets(blocks[b][k]) \cap erased = {}

(* A block that is erased is empty and stays empty: eraseFromParent never  *)
(* drops generated code.                                                   *)
NothingErased == \A b \in erased : blocks[b] = <<>>

(* The builder only moves on from a block that is closed or erased, and    *)
(* only to one that is still empty, whatever lists end at once: no nesting *)
(* of returns leaves a block behind that falls off its end, and no two     *)
(* lists write to one block.  At the closing brace of a function without a *)
(* return the insertion point is cleared all the same.                     *)
BuilderClosesWhatItLeaves ==
  [][ \A b \in DOMAIN blocks :
        b = ins /\ ins' \notin {ins, NoBlock} =>
          /\ b \in erased \/ Terminated(b)'
          /\ blocks'[ins'] = <<>> ]_vars

(* A function whose body returned is complete: every block that survives   *)
(* ends in a terminator.                                                   *)
ReturnedFunctionIsClosed ==
  phase = "done" /\ Top.returned => \A b \in DOMAIN blocks \ erased : Terminated(b)

----------------------------------------------------------------------------
(* The inductive invariant behind the properties above.                    *)

Open(b) == \A k \in DOMAIN blocks[b] : ~Terminator(blocks[b][k])

(* The blocks a call has created and not yet moved the builder to. *)
Waiting(f) ==
  IF f.kind \in {"if", "else", "loop"} THEN {f.merge}
  ELSE IF f.kind = "then" THEN {f.merge, f.other} ELSE {}

(* Only the function's own list is never inside another; a list that       *)
(* contains the one being walked has not returned; and behind a return the *)
(* walk stands at the end of the list.                                     *)
CallsNest ==
  /\ \A i \in DOMAIN stack : stack[i].kind = "body" <=> i = 1
  /\ \A i \in 1..(Len(stack) - 1) : ~stack[i].returned
  /\ phase = "generating" /\ Top.returned /\ pc \in 1..Len(body)
       => body[pc].op \in {"else", "end"}

(* The builder stands in a live block without a terminator. *)
BuilderIsOpen ==
  phase = "generating" /\ ~Top.returned => ins \in (DOMAIN blocks \ erased) /\ Open(ins)

(* Blocks waiting for the builder are live, empty, not where the builder   *)
(* is, and each waits for one call; in then-else both are different.       *)
WaitingBlocksAreFresh ==
  /\ \A i \in DOMAIN stack : \A m \in Waiting(stack[i]) :
       m \in (DOMAIN blocks \ erased) /\ m # ins /\ blocks[m] = <<>>
  /\ \A i \in DOMAIN stack, j \in DOMAIN stack :
       i # j => Waiting(stack[i]) \cap Waiting(stack[j]) = {}
  /\ \A i \in DOMAIN stack : stack[i].kind = "then" => stack[i].merge # stack[i].other

(* The loopCheck of a loop is live and waits for nobody. *)
ChecksAreLive ==
  \A i \in DOMAIN stack : stack[i].kind = "loop" =>
    /\ stack[i].other \in (DOMAIN blocks \ erased)
    /\ \A j \in DOMAIN stack : stack[i].other \notin Waiting(stack[j])

(* Branches lead to live blocks, and none leads to the ifMerge of an if    *)
(* with else before a list that did not return has ended.                  *)
AwaitsBranch(f) == f.kind = "then" \/ (f.kind = "else" /\ f.thenReturned)

BranchesAreLive ==
  \A b \in DOMAIN blocks : \A k \in DOMAIN blocks[b] : \A m \in Targets(blocks[b][k]) :
    /\ m \in (DOMAIN blocks \ erased)
    /\ \A i \in DOMAIN stack : AwaitsBranch(stack[i]) => m # stack[i].merge

Inv ==
  /\ TypeOK
  /\ TerminatorsAreLast
  /\ NothingErased
  /\ CallsNest
  /\ BuilderIsOpen
  /\ WaitingBlocksAreFresh
  /\ ChecksAreLive
  /\ BranchesAreLive
=============================================================================
