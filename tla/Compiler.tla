------------------------------ MODULE Compiler ------------------------------
(***************************************************************************)
(* One function on its way through the compiler: the decorator walks its   *)
(* body, code is generated only if nothing was reported, and the generated *)
(* code runs.  Decorator and LlvmRun share the body and nothing else.      *)
(***************************************************************************)
EXTENDS Decorator

CONSTANTS
  NumericGlobals,   \* the globals that genGlobal gives storage
  Strings           \* the variables of type str, which cannot be assigned

ASSUME NumericAreGlobals == NumericGlobals \subseteq Globals
ASSUME StringsAreVariables == Strings \subseteq Names \ NumericGlobals

VARIABLES
  gpc, stack, blocks, erased, ins, slots, gphase,   \* LlvmGen
  block, index, live, outcome                       \* LlvmRun

llvmVars == <<gpc, stack, blocks, erased, ins, slots, gphase, block, index, live, outcome>>
compilerVars == <<vars, llvmVars>>

L == INSTANCE LlvmRun WITH pc <- gpc, phase <- gphase, result <- outcome,
                           Bodies <- Seq(StatementsOver(Names))

CompilerInit == Init /\ L!RunInit

Decorate == Next /\ UNCHANGED llvmVars

(* main: the code generator is only started when linkNames returned true,  *)
(* that is with no error counted.                                          *)
Generate == Accepted /\ L!RunNext /\ UNCHANGED <<result, pc, calls, scopes, links, typed, errors, warned, phase>>

CompilerNext == Decorate \/ Generate

CompilerSpec == CompilerInit /\ [][CompilerNext]_compilerVars

----------------------------------------------------------------------------
(* The generator asks for storage by the declaration a name is linked to.  *)
(* For an accepted body it always finds some, unless the name is that of a *)
(* global that genGlobal skipped: no local is ever used before its alloca, *)
(* and no reported name reaches the generator.  Nothing else makes it fail *)
(* but that an assignment to a str is refused.                             *)
OnlySkippedGlobalsLackStorage ==
  gphase \in {"thrown", "crashed"} =>
    \/ gphase = "thrown" /\ L!AssignsString(gpc)
    \/ \E n \in Globals \ NumericGlobals :
      <<gpc, n>> \in DOMAIN links /\ links[<<gpc, n>>] = Global

(* At run time an accepted function touches a local only after this call   *)
(* has executed the alloca of the declaration the decorator linked to.     *)
LinkedAllocasHaveRun ==
  outcome = "running" /\ index \in DOMAIN blocks[block] /\ blocks[block][index].at # 0 =>
    \A u \in DOMAIN links :
      u[1] = blocks[block][index].at /\ links[u] # Global => links[u] \in live

(* The two return analyses agree where it matters: the implicit return the *)
(* decorator inserts is generated, so the generator never takes an earlier *)
(* statement for a return that the decorator did not.                      *)
ImplicitReturnIsGenerated ==
  gphase = "done" /\ Len(body) = pc =>
    \E b \in DOMAIN blocks : \E k \in DOMAIN blocks[b] : blocks[b][k] = L!Ret(pc)

(* What the generator drops is what the decorator warned of: a statement   *)
(* that no instruction of an accepted function stands for lies in or       *)
(* behind a warned statement of its list, although the generator looks at  *)
(* the last statement it generated and the decorator at all so far.        *)
HasInstruction(p) == \E b \in DOMAIN blocks : \E k \in DOMAIN blocks[b] : blocks[b][k].at = p

DroppedCodeIsWarned ==
  gphase = "done" =>
    \A p \in 1..Len(Written) :
      \/ Written[p].op \in {"block", "else", "end"}
      \/ HasInstruction(p)
      \/ \E w \in warned : w <= p /\ ListEnd(Written, w) >= p

(* AST.h says llvmVariable is only null for member variables. *)
EveryGlobalHasStorage == gphase \notin {"thrown", "crashed"}
=============================================================================
