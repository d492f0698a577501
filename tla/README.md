# Verification of the malin compiler

malin is a small statically typed language. Its compiler (`src/src`) is one
sequential C++ program: text goes through the lexer, the parser, the decorator
(names, types, checks) and then through one of two back ends, the LLVM code
generator or the compiler's own, still experimental IR. This directory holds
TLA+ models of its parts, the configurations that TLC checks, and proofs that
TLAPS checks.

## 1. Inventory

| Part | State it keeps | Operations | What makes it correct |
|---|---|---|---|
| `Lexer` | position, line, column | `getNextToken`, `getAllTokens`, `makeString`, comments | no character lost or read twice, positions right, always ends |
| `Parser` | token iterator, AST under construction | `parse...` functions, precedence climbing, named arguments | the tree means what the operators' precedence says; every token is used once |
| AST links | parent and self pointers of each node | `SetAstNodeParentAndSelfPass`, `replaceNode` | a pointer never outlives its node; links mirror the tree |
| `AstDecorator` | `NamesStack`, error count, fields of AST nodes | `linkNames`, one `do...` function per node | names mean what lexical scoping says; nothing incomplete is accepted |
| `CodeGenerator` | LLVM module, `IRBuilder` insertion point, `llvmVariable` of declarations | `generateCode`, one `gen...` function per node | well-formed blocks that do what the source says |
| `IRGenerator`, `IRBuilder` | module, globals, current block, `irVariablePtr` | `generate`, one `visit...` function per node | the same for the compiler's IR; no value is missing |
| IR passes | the IR | `IRRemoveBBRedundantTermPass` | nothing reachable changes |
| IR printer | name counters, names given | `createIRElementName`, `visitIRFunction` | different values have different names, operands have one |
| Driver, `CodeEmitter` | command line, files `output.o`, `bin.o` | `main`, `emitObjectFile` | success is reported only for what was built now |
| Visitors, printers, types, logging | none that others rely on | dispatch, text output | - |

**Interaction.** `main` calls the stages one after the other and stops at the
first that fails. The stages share the AST: the decorator writes into it the
declarations names refer to, types and the implicit return; the generators
write `llvmVariable` and `irVariablePtr` into declarations and read them back
at each use. There are no threads, timeouts or messages.

**What is hard.** The difficulty is in long sequences of legal calls: each
generator is a recursion that moves one insertion point through blocks it
creates, leaves, revisits and erases, and decides from the returns it has seen
what to emit. Two independent return analyses (decorator and generator) have to
agree. Pointers into the AST and the IR are stored by one function and used by
another much later. Failures are often partial: an error is counted and the
walk goes on, or an answer is dropped. `PROJECT.json` lists these hazards at
their lines.

## 2. Modules and what they correspond to

A recursion over the AST is written the same way everywhere: the body of a
function is a stream of statements, `pc` is the node being visited, and the
active C++ calls with their local variables are an explicit stack of records.
Each `gen...`, `do...` or `visit...` function is one action, or, where it calls
itself for nested lists, one action for the part before each nested call and
one for the part behind it. An action carries all the state changes of that part, and its guards
are the conditions of the code.

| Module | Models | State ↔ code |
|---|---|---|
| `StatementStream` | no state: the grammar of bodies, lexical scoping and control flow as definitions over positions | shared by all walks |
| `SourceSemantics` | abstract specification: what a call of a function does, statement by statement | no code; both back ends implement it |
| `Lexer` | `getAllTokens`, `getNextToken` and every `make...` function | `location` ↔ index, line, column; characters are classes |
| `ExprParser` | `parseExpression`, precedence climbing, parentheses, calls with named arguments, members | `calls` ↔ the C++ stack; `nodes` ↔ the AST, named by token positions |
| `Parser` | `parse`, and every function for declarations and statements, around `ExprParser` | the same stack; what a call has parsed so far stands in `args` of its frame |
| `Declarations` | `linkNames` pass by pass over globals, functions and classes, then `generateCode`: function declarations, `checkClassDecl_member_loop`, struct bodies, sizes | `scope` ↔ the global `NamesScope`, `types`, `signatures` ↔ types set in declarations, `frames` ↔ the recursion of the loop search |
| `Decorator` | `doFunctionDeclarationBody` and all `do...Statement` functions, `NamesStack`, `NamesScope` | `scopes` ↔ `namesStack`, `links` ↔ `variableDeclaration`, `typed` ↔ declarations with a type, `calls[..].hasReturn` ↔ `hasReturn`, `errors`, `warned` ↔ messages |
| `ExpressionTrees` | no state: expressions as trees, and what the language says of their types | the subclasses of `Expression` |
| `CallRules` | no state: what the language asks of a call | no code |
| `CallArgs` | abstract specification: the three passes of `doCallExpression` over the arguments of one call | `slots` ↔ `callArgs` |
| `Expressions` | `doExpression` and every function it calls, names replaced by members on the way | `holds` ↔ the `unique_ptr`s and what each owns, `self` of a node ↔ `self1`, `self2`, `self3`; `frames` ↔ the C++ stack |
| `LlvmGen` | `genFunctionBody` and all `gen...Statement` functions | `blocks`, `erased`, `ins` ↔ the LLVM function and the builder's insertion point; `slots` ↔ `llvmVariable`; `stack` ↔ `thenHasReturn`, `ifMerge`, `loopCheck`, ... |
| `LlvmRun` | a call of the generated function | external: LLVM's meaning of loads, branches and returns |
| `ExprGen` | `genExpression` of the code generator, and the `visit...` functions for expressions of `IRGenerator`, on what `Expressions` accepted | the types of values and of operands, or how the generator ended |
| `Compiler` | one function through decorator, generator and call | the body, with its implicit return, is what the stages share |
| `IrGen` | `IRGenerator`'s `visit...` functions over `IRBuilder`, and the pass `IRRemoveBBRedundantTermPass` | `blocks`, `ins` ↔ `currentBasicBlock`; `calls[..].jump` ↔ `condJump`, patched later; `from` ↔ `bbEndOfThen`, `bbBeforeWhile` |
| `IrRun` | a call of the IR function behind the pass | external: the meaning `IRInstructions.h` gives |
| `IrModule` | `generate` and `visitRootDecl`: globals, default values, the function, then the listing by `IRPrinter` and the call of what was listed | `defined` ↔ globals with an `IRGlobalVar`, `names` ↔ `IRNamesScope`, `unknown` ↔ operands printed as `?UNKOWN?` |
| `Driver` | `main` and `emitObjectFile`, several invocations in one directory | `output`, `bin` ↔ `output.o`, `bin.o`; clang is external |
| `StreamLemmas`, `FrontEndProofs`, `ParserProofs`, `DecoratorProofs`, `CallArgsProofs`, `LlvmGenProofs`, `IrGenProofs`, `ProgramProofs` | theorems | section 5 |
| `MC...` | instances for TLC | section 3 |

Modules are composed along the calls of the code. `Parser` EXTENDS `ExprParser`,
whose expressions its statements wait for. `LlvmRun` and `IrRun` EXTEND their
generators and add the run; `IrModule` EXTENDS `IrRun` with what comes before
and behind it. `Compiler` INSTANCEs `Decorator` and `LlvmRun` over one body.
`ExprGen` EXTENDS `Expressions`, which INSTANCEs `CallArgs`: each call at the root
of an expression refines it. `Driver` does not contain the stages but, for each
program, which one refuses it; the other modules say when that happens.

Every module states faults: mutated forms of its actions, marked `Fault` in the
comment and placed before the definition they would replace, such as the branch
generated after the builder has moved. No specification uses them. Each property of
section 3 is violated when one of them takes the place of the real definition,
which shows that the property depends on that piece of code.

### What is abstracted

- The parser sees types of tokens: the text of a name or literal does not count,
  only whether a number is too large (`huge`). `true`, `false` and texts are one
  type (`literal`); numbers are another, as only they may follow a minus.
- In function bodies an expression is the one name it reads, and a condition may
  turn out either way; in `Expressions` and `ExprGen` it is a tree, and what counts are types.
- LLVM instructions between two control transfers are one instruction per statement.
- In `Decorator` a type is present or missing; `Expressions`, `CallArgs` and
  `Declarations` keep the names of types.
- `doExpression` has a parameter `isolated` that is left out: only constants, which
  it does not concern, are decorated with it.
- Values are left out. Of variables of type `str`, `LlvmGen` has that they cannot be assigned
  (`Strings`, the names they have); declaring one is, like any declaration, an alloca with a store,
  without the copy of the text (CodeGenerator.h:412).
- Of type `void`, `Declarations` has that a member or an argument may have it: LLVM then
  stops at an assertion or, built without them, goes on with a type that is none. Either is the end `broken`.
  A local variable of type `void` is left out.
- A file that an invocation of `Driver` reads is not kept as state, since any program may be compiled next. So it is
  nothing special that `--save-ast-as-code`, which writes a file of the source's name into the
  working directory (main.cpp:238), may replace the source.
- Text, messages, source locations (apart from the lexer's) and printed output
  are left out, except where producing a message dereferences a null pointer:
  that is an action (`CrashInMessage`).
- A null pointer that is used is an outcome `crashed`, an exception `thrown`.

## 3. Runs

Every cfg disables the check for deadlock except those of `Driver`, because a
compilation comes to an end; `Driver` can always invoke the compiler again.

| Run | Question | Instance and why it is enough |
|---|---|---|
| `LlvmRun` | Is the LLVM code of every nesting well formed, and does it do what the source says? | All statement lists of up to 6 symbols over use, return, if, if-else, while and block, and up to 9 over return, if-else and while; lists of up to 4 with an argument, shadowing, a numeric global, a skipped one and a text variable. The generator looks at the innermost call and what it returned to the one around it; three levels, each with returning and non-returning lists in both branches, occur. |
| `Compiler` | Does the stack of scopes compute lexical scoping, what does acceptance guarantee, what does the return analysis miss, and do decorator and generator agree on storage and implicit returns? | Control lists of up to 6 (7 with nothing but returns), name lists of up to 5 over two locals, a global, a function and doubled arguments, storage lists of up to 4 with a numeric and a skipped global, and with a text variable; all of them decorated, generated and run. Every relation of two declarations (same list, nested, ended) and a use occurs. |
| `IrModule` | Does the IR behind the pass do what the source says, although code is emitted behind returns? Are globals and names in order? | Control lists as in `LlvmRun`; lists of up to 5 that declare, assign and read `a` and `a1`, the name a second `a` is printed with; lists of up to 3 with every choice of two globals (number, string, other) and default values. |
| `Lexer` | Is a character lost or read twice, is a position wrong, does lexing end? | All texts of up to 5 over comment, string and line characters, up to 4 over words and numbers, up to 3 over operators. A decision of the lexer looks at two characters; `/*/`, `"//"` and an end of text in the middle of each token occur. |
| `Parser` | Is the tree the one that the source means, for exactly the sentences of the grammar? | All chains of three operators out of twelve; all token lists of up to 4 to 6 in the place of an expression, of statements, of parameters and of a file, each over the tokens that decide there; five files that have every declaration and statement, with every single token missing, replaced or added. Climbing compares two neighbouring operators and one around them, and no other function looks further than at two tokens. |
| `ExprGen` | Which expressions are accepted, what becomes of the nodes while names are replaced and arguments moved, and can the generators rely on the types left? | Two classes with typed and untyped members and methods; all expressions of up to two operators (negation, arithmetic, comparison, boolean, member, call) in a function and in a method; all short calls of functions with up to three parameters, the same name twice and unknown types among them. A rule looks at a node and its operands, a replacement at a node and the one around it. |
| `Declarations` | Do the passes together accept exactly the programs that are in order, does the search for loops end and find all? | All programs of three classes with up to two members of any class (chains, diamonds, direct and indirect loops, in every order of declaration); all kinds of one global, one member, two functions, extern or not; `void` as a member or argument of a class or function. |
| `Driver` | What can go wrong between invocations? | Two invocations side by side, each repeated without limit, five programs (two that compile, one refused by the decorator, one by the generator, one that crashes it). All interference is through two files, so two parties suffice. |

What they show; the invariants called `...Inv` combine the type invariant of a
module with what has to hold at every step:

- **LLVM generator.** `ImplementsSource`: with the refinement mapping `Ahead` (the next
  statement to take effect) the generated code does the same statements
  in the same order as `SourceSemantics`. `Inv` is the inductive invariant of section 5;
  `ReturnedFunctionIsClosed`: no block is left open in a function that has returned. `BuilderClosesWhatItLeaves`: at each
  step the builder leaves a block only closed or erased, and only for one that is still empty.
  `ReturnAnalysisIsExact`: what `genCompoundStatement` answers for the body is "return" iff no
  path reaches the closing brace.
- **Compiler.** `DecoratorInv` (names are linked lexically, an accepted body completely, and
  none of its lists declares a name twice, except that of two arguments the first is taken). Code behind a return is warned of by one stage and dropped by another, each with
  a return analysis of its own: `DeadCodeIsWarned` (what no path reaches), `DroppedCodeIsWarned` (what no instruction
  was generated for). `ReturnAnalysisErrsOneWay` says what the
  decorator's return analysis is worth: it is exact without an if that lacks an else, and
  never rejects wrongly. `OnlySkippedGlobalsLackStorage`, `LinkedAllocasHaveRun` and
  `ImplicitReturnIsGenerated` relate what one stage wrote to what the next one relies on.
- **Expressions.** `TypesAreJudged`: an expression is accepted iff the rules of the language
  give it a type, and gets that type. `FailuresAreExplained`: nothing is refused without a report and no null
  pointer is used but for the reasons listed there. `NodesHaveOneOwner`: no pointer the walk
  comes by again owns a node that is gone or knows another pointer for its own.
  `BindsLikeCallArgs`, `ArgumentsReachTheirParameters`: moving arguments between pointers,
  with the walks of the arguments in between, refines the three passes of `CallArgs`.
- **Generated expressions.** `OperandsHaveTheirTypes`: with the types the decorator left, every LLVM
  instruction gets operands of its type. `OnlyPlainMethodCallsThrow`, `OnlyObjectsLackIr`
  say which accepted expressions end a generator.
- **IR.** `ImplementsSource`, as for LLVM; `IrInv` (behind the walk no jump has an empty target),
  `UsesFollowAllocations` (the pass cuts no allocation that reachable code uses),
  `ListedGlobalsHaveValues`, `NamesCollideOnlyByNumber`, `UnknownOperandsNeverRun`.
- **Lexer.** `LexerInv` (positions are true), `TokensCoverTheCode`, `ThrowsIfUnterminated`, `LexingEnds`.
- **Parser.** `TreeFollowsPrecedence`; `ParserInv`: an expression is missing exactly where the source
  has empty parentheses, or nothing where that is allowed, and an accepted tree reads like
  the source; `AcceptsTheGrammar` compares with a grammar that knows no order of steps; `ParsingEnds`.
- **Declarations.** `AcceptsWellDeclared` compares the passes with a definition without
  any order; `ThrowsForLoopsAndObjects` says when generation fails, for loops, objects, extern members and `void`; `DeclarationsInv` bounds the depth of the search for loops and
  says that a size is defined when it is asked for.
- **Driver.** `OnlyAcceptedProgramsAreBuilt`, `SuccessIsEarned`, `OnlyDisturbedBuildsGoWrong`.

### Fairness

Only `Lexer` and `Parser` state liveness, and only they assume fairness,
`WF_vars(Next)`: both are loops of a single thread that nothing else waits
for or interrupts, so a step that is possible is taken. No fairness is assumed
of the generated program (a loop need not end) nor of invocations (one may be
killed or wait forever for a file); their properties are safety properties.

## 4. Disagreements found

| Run | Property | What happens |
|---|---|---|
| `Decorator_returns` | `AcceptedValueFunctionReturns` | `doIfStatement` counts an if without else as a return if its list returns (AstDecorator.h:601). A function with a value whose only return stands in such an if is accepted, against "a non void function has to return something at the end" (AstDecorator.h:741); the generator leaves its last block open and the answer of `verifyFunction` is dropped. |
| `Compiler_globals` | `EveryGlobalHasStorage` | `genGlobal` skips a global whose initial value is a text or bool and leaves `llvmVariable` null (CodeGenerator.h:140); a use of it throws or dereferences null. AST.h:486 says it is only null for member variables. |
| `ExprGen_defaults` | `ArgumentsHaveTheirTypes` | A default value is passed without a look at its type (AstDecorator.h:389), and none is taken at the declaration: with `fun f(a: i32 = true)` the call `f()` is accepted and generated with a bool. Of an argument that is written down the message says that it "needs type" of the parameter (AstDecorator.h:477). |
| `Driver_stale` | `RunsWhatItCompiled` | If `output.o` cannot be opened, `emitObjectFile` returns without an answer (CodeEmitter.h:74) and the object of an earlier invocation is linked and run with exit status 0. README.md:78 says `--run` runs your program. |

Other behaviour that the models contain and a maintainer may want to know:

- The IR's merge block behind an if with two returning lists is created all the
  same and can be left without terminator, against IRFunction.h:43 ("The last
  instruction is either a return or a sume jump instruction"); nothing jumps to
  it once the pass has run.
- An unknown type of a variable with an initial value (`let x: Unknown = 5;`)
  crashes the decorator while it writes the second message (AstDecorator.h:796);
  so does a wrong positional argument, whose name is taken though it has none (AstDecorator.h:477).
  `AcceptsWellDeclared`, `TypesAreJudged` and `FailuresAreExplained` show that only refused programs are affected.
- An assignment to a variable of type `str` is accepted; the code generator throws (CodeGenerator.h:456).
- A member or argument of type `void` is accepted, by the decorator and by `getLLvmTypeFor`, and passed to LLVM, which has none
  (CodeGenerator.h:188, 256).
- A method called by its name alone inside its class is accepted; the code generator throws (CodeGenerator.h:728).
- `!` before something that is no bool is reported, but `doUnaryExpression` answers true (AstDecorator.h:172).
  Only the count of errors keeps such a program from the generators.
- The IR generator writes the initial value of a global it has skipped through a null pointer
  (IRGenerator.h:161), and reads the missing `irFunction` of a constructor or method (IRGenerator.h:408).
  The type of a negation is never set in the IR.
- Printed names of the IR can collide: a second `a` is printed as `a1`, and so is a variable declared
  as `a1` (`NamesCollideOnlyByNumber` says exactly when). Operands whose allocation the pass has
  removed are printed as `?UNKOWN?`, but only in code that never runs.
- All twelve binary operators have a precedence of their own: `a / b * c` is
  `a / (b * c)` and `a - b + c` is `(a - b) + c`.
- A lone `|` or `&` becomes a comma token, and `|&` a logical and (missing breaks, Lexer.h:277).
- Empty parentheses are an expression without a node (`ParserInv`): `();` puts no statement into a
  block, `if () {` leaves an if without condition; of a variable the decorator says that it needs an
  init expression (AstDecorator.h:768).
- An extern member function is generated like any other although it has no body (CodeGenerator.h:235): generation breaks off at a null pointer (`ThrowsForLoopsAndObjects`).

## 5. Proofs

`tlapm` checks every theorem; they hold for all values of the constants under
the assumptions named here.

**`LlvmGenProofs`**: `GenerationInvariant == Spec => []Inv` for every set
`Bodies` of sequences of statements (`BodiesAreStreams`), any names, globals
(`GlobalsAreNames`) and text variables (`StringsAreNames`), any nesting and length; but for the theorems from `GeneratedReturnsAreExact` on the bodies need not even be
balanced. What we want is `TerminatorsAreLast`, `InsertionPointIsOpen`,
`NothingErased` and `NoBranchToErased`; none is inductive. The argument:

1. Nothing is appended to a closed block if the builder's block is open
   whenever the innermost list has not returned (`BuilderIsOpen`).
2. When a list ends, the builder moves to a block that was created earlier. So
   blocks that wait must be live, empty, not the builder's, and wait for one
   call only (`WaitingBlocksAreFresh`), or an inner call could close the block of an
   outer one. `loopCheck` is left and branched to again, so it waits for nobody (`ChecksAreLive`).
3. `ifMerge` may only be erased if nothing branches to it. While the then-list, or the
   else-list behind a returning then-list, is walked, no branch leads to it (`BranchesAreLive`).
4. That the builder stands in an erased block for a moment does no harm because
   the list around has then returned, and behind a return the walk goes straight to the end of the list
   (`CallsNest`).

There is one lemma per kind of action; statements that append one instruction
share `SimpleStep`, those that open a list `PushStep`, those that end one
`EndStep`. `StreamLemmas` has the fact about `ListEnd` that the jump behind a
return rests on. The corollaries are `TypeCorrect`, `TerminatorsStayLast`,
`ErasedBlocksAreEmpty`, `BuilderStaysInOpenBlock` and `BranchesReachLiveBlocks`.

Its last part adds to the same invariant. `LeftBlocksAreClosed == Spec => BuilderClosesWhatItLeaves`: at the end of a list the block
has its branch unless the list returned, and then it has a return or, behind an if whose lists both
returned, it is the erased `ifMerge`; where the builder goes is a block that waited (`LeavesClosed`). `ReturnedFunctionsAreClosed`: if
`genFunctionBody` answers that all paths return, each surviving block ends in a
terminator. For that every open block has to be somebody's: the builder's while
the list has not returned, or one an active call will move the builder to
(`OpenBlocksAreAwaited`). When the outermost call ends nobody is left to wait.

`GeneratedReturnsAreExact`: in runs of the generated code (`LlvmRun`) `genCompoundStatement` answers
"return" for the body iff no path reaches the closing brace. Here and in the theorems that follow, and only there, every list has to
have its end (`BodiesAreBalanced`, a hypothesis of the theorem; TLC checks it for the bodies of `MCLlvmRun`).
The argument is that of the return analysis of the decorator, below, with every note
exact; what is special is the jump behind a return (`NotesSkip`): what it leaves out changes no note.

`LocalsNeverLackStorage`, under the same hypothesis: when generation fails other than by assigning a text, it is for want of storage, and the name is
no local's. `SlotsAreSet` says that every declaration whose list is still open behind the next statement has its slot; what the generator
jumps over is closed where it goes on (`SkippedIsClosed`). `Walks` says for all actions
at once where a step goes on, and that the body's own list returns only by one of its own statements.

`RunImplementsSource == RunSpec => ImplementsSource`, under the same hypothesis: the run of the generated code is shown to
implement `SourceSemantics` by the mapping `Ahead`. The blocks say nothing of the source, so the invariant names for
every block the position of the source it begins at (`lab`). With it every instruction stands somewhere (`Stand`), and:

1. An instruction that stands at `r` belongs to the statement control arrives at from `r`, a branch leads to a block from which control
   arrives at the same place as from `r`, and a condition to the blocks of its two lists (`InstrFits`, `CodeFits`). That a block that is
   still open leads to where its call will join it is what the calls remember (`GenFits`); there is one lemma for each action.
2. `NextEffect` follows branches and arguments until a statement takes effect. It is recursive, over a graph with loops; that such a
   function exists (`FollowsExists`) is shown by giving one, and that there is no other (`FollowsIs`) because among the instructions for which
   it differs one would stand furthest on in the source: a branch leads further, or to the check of a loop, which is a statement.
3. So `Ahead` is where control arrives from where the call stands (`EffectIs`): branches, arguments and the call itself change nothing,
   and every other instruction is the step of the source for its statement (`StepIsSource`).

`VisibleAllocasHaveRun` follows from the same invariant, which also says that the allocas of what is visible where the call stands have run.

**`IrGenProofs`**: `IrJumpsAreComplete == Spec => []IrInv`, for all bodies. A
conditional jump is made without its false target, and arbitrary statements are
visited before it is patched. The invariant says that the jumps that lack a
target are exactly those in the local variables of the active calls
(`OpenOf(calls)`), that what is in a block keeps its place (`Kept`), so that a call finds
its jump again, and that the call of the body is the last one to end and has no jump.
The pass only drops instructions. `DeclOfIsBefore` of `StreamLemmas` types what is read.

`IrImplementsSource == ModuleSpec => ImplementsSource` and `UsesAreAllocated == ModuleSpec => []UsesFollowAllocations`, for bodies in which
every list has its end (`BodiesAreBalanced`; TLC checks it for the bodies of `MCIrModule`). The argument is that of `RunImplementsSource`,
with `lab` and `Stand`, but this generator leaves more to be shown:

- Code behind a return is generated into the same block. Its instructions fit, too (`CodeFits` holds of all code, reached
  or not); the pass then cuts nothing in front of a first terminator (`CutIs`, `RunPassFits`).
- The jumps at the end of a list are appended later, to a block that was left long before: the one before a loop and
  the check of the loop when the loop ends, the one at the end of a then-list when the else-list ends. The invariant says what the calls wait for (`WaitingFits`), that no block
  is awaited twice or is the builder's (`Apart`), and that all others have their end (`OthersEnd`). When the
  body ends only the builder's block is left, so a block without an end stands at the end of the body.
- `Shape` says what a step makes of the blocks (which instruction it appends where, which false target it sets, how many blocks are new);
  `ShapeFits` shows from it, once for all actions, that the code still fits.
- An allocation and its store are neighbours (`PairsFit`), which the pass does not change. So a call that has come to the store has
  allocated the variable; everything else an instruction uses is visible where it stands (`RunsAt`, `ComesThere`).

`ListedGlobalsAreNumbers == ModuleSpec => []ListedGlobalsHaveValues`, without a hypothesis.

**`CallArgsProofs`**: for all functions and calls whose parameters and arguments are lists
(`ListsAreLists`), in an accepted call every parameter has exactly the argument
meant for it, or its default (`ArgumentsArrive`); and if unknown is no type of an argument
(`TypesAreApart`), exactly the calls that `CallRules` allows are accepted (`AcceptanceIsExact`).
There is one invariant for each pass, what the slots hold so far; that at most
one parameter is meant by a name (`OneIsMeant`) makes the passes independent of each other.

**`ParserProofs`**: `TreesFollowPrecedence == Spec => []TreeFollowsPrecedence`, for every set of
token lists (`Inputs`), accepted or not. Whether two operators stand in the same parentheses is a
question about the whole text (`Depth`), while `parseBinaryExpressionRHS` compares neighbours
only. The invariant `ParseInv` therefore gives each active call the depth of the parentheses it works
at, and says of the expression a call waits for how its operator may bind: inside parentheses
of its own behind an operator or `!` (`Inside`), with a precedence that is not below the call's minimum
in a chain (`Chain`). The innermost call gets what it waits for (`Given`), and when a chain is
handed to the right side of an operator the next operator does not bind stronger. No
position of a call that goes on has a node yet (`Ordered`), so nothing is overwritten.
`Step` says once what a change of the stack has to leave as it was; `Stay`, `Pop`, `Replace`, `Push` and
`PushTwo` are its cases, and declarations and statements, whose calls await no operand
(`Outside`), share `Returns`, `Enters` and `Finishes`.

**`ProgramProofs`** is about whole programs: how they are built, and what they declare. `DriverInvariant == Spec => []Inv` for any set of
invocations, programs, ways to fail and options (`DriverAssumption`), and from it
`NothingRefusedIsBuilt`, `SuccessIsAlwaysEarned` and `UndisturbedBuildsAreRight`.
The strengthening says that a stage passed does not refuse the program
(`StagesAreEarned`), and that between opening, writing and linking `output.o` is
the invocation's own unless it was disturbed (`OutputIsOwn`). A step of one
invocation leaves the local part of every other as it is, or marks it as
disturbed; `SameLocal` and `OneMoves` state that once.

`DeclarationsKeepWholeInv == DeclarationsSpec => []WholeInv`, for any set of programs over any names
(`ProgramsAssumption`), and from it `DeclarationsAreJudged`, `LoopsAndObjectsThrow` and
`SearchEndsAndSizesAreDefined`, the three properties of the run of `Declarations`. The parts of the invariant:

1. What a pass is through with is what the program alone determines: the scope has the first declaration of each name
   (`ScopeIsFirst`, `ScopeIsFull`), and once all names are known the types and signatures are those of the text
   (`TypesAreRight`, `SignaturesAreRight`), whatever order the passes come in.
2. An error or a crash is one of the program (`ErrorIsReal`), and when `linkNames` ends without one, the passes have between them seen
   everything `WellDeclared` asks for (`AllSeen`).
3. What a class consists of is the least set that is closed under the classes of members (`Embedded`). So a class whose
   members' classes neither contain themselves nor anything that does is itself free of loops (`CleanByMembers`).
4. A call of the search is for a class inside of each of its parents (`SearchInv`): if a parent is met again it contains itself. There
   are as many parents as calls above, so the search is not deeper than there are classes.
5. The generator goes on only behind a search without a result; with 3, all a size is taken of is complete.

In `WellDeclared` an initial value fits a given type only if that is one of the types of constants: a class could otherwise
have the name of the mark for other expressions, and such a value, which the decorator refuses, would count as in order.

**`DecoratorProofs`**: `NamesMeanTheirDeclarations == Spec => []DecoratorInv`, for every set of bodies in which
declarations have a name and arguments, compounds and marks read nothing
(`BodiesAreParsed`, as `Parser` makes them), any names, globals and functions that are not
globals (`GlobalNames`). What a name means is a question about the
whole text in front of it (`DeclOf`: the first declaration of the innermost list that is still
open and has one), while the decorator has a stack of maps. The invariant (`Scoped`) says
that the stack has one scope for each active call, and that the scope at depth `d` has
exactly the names of `Seen(body, pc, n, d)`, the declarations of the list at that depth that
are visible at `pc`, each with the first of them (`Shows`); and that every list still open at `pc`
is one of an active call (`Nested`). Then `findName`, which asks the innermost scope first,
answers `DeclOf` (`NameFound`), and a name the top scope lacks is new in its list.
`StreamLemmas` has what a statement does to `Depth`, to the lists that are open and to `Seen`
(`DepthSteps`, `OpenSteps`, `SeenSteps`). `Linked` carries what holds while nothing has been
reported: a variable without a type, which fails silently later on, has been reported where it was
declared. The implicit return changes no name's meaning (`SamePrefix`).

The return analysis of the decorator: `ReturnsAreJudgedOneWay == Spec => []ReturnAnalysisErrsOneWay`
and `UnreachableIsWarned == Spec => []DeadCodeIsWarned`, for bodies in which every list has its end (`BodiesAreBalanced`, as
`parseCompoundExpression` leaves them; the other theorems of the module do without). Both compare flags that travel with
the calls to `Reachable(body)`, which unfolds the function `Arrive` backwards over positions. The steps:

1. `Arrive` exists (`DownwardRecursion`, `UpwardRecursion`: a partial function that cannot be extended has a
   least counterexample), and `Reachable` is the least set that is closed under a step of control (`ReachableIsClosed`,
   `ReachableIsLeast`).
2. `Returning(body)` judges each list by the statements in it, as the analysis does: a return, a compound that
   returns, an if both of whose lists return. This
   is the same question: 1 is in `Returning` iff the end of the body is not reachable (`ReturningIsExact`).
3. The flags of the active calls (`Notes`): when a list returns, its flag says so already or the part that is still
   to be walked returns, and without an if that lacks an else (whose list the decorator counts) no flag says more.
   `LiveWalk`: as long as nothing around has returned, the walk stands where control can be.
4. What cannot be reached is inside or behind a statement that was warned about (`Judged`).

Decorator and generator together (`Compiler`): `StorageIsFound == CompilerSpec => []OnlySkippedGlobalsLackStorage` and
`ImplicitReturnsAreGenerated == CompilerSpec => []ImplicitReturnIsGenerated`, under the same assumptions, with
`NamesAreWords` (the marks for "no variable" are no names), `NumericAreGlobals` and `StringsAreVariables`. What is known of the
generator is taken over from `LlvmGenProofs` by instantiation (`G`); `SameText`, `SameDecl`, `SameFlow` and `SameStep`
say that the definitions of the instances are the same. `CompilerInv`: the decorator's invariant, what
it hands over (the body as written, perhaps with a return behind it, all lists closed), and, once
the generator has begun, that the body was accepted and the generator's `WalkInv` holds of it.

- Storage: unless a text is assigned, generation fails because a name has none. Then the generator says that its declaration is a global or missing (`MissingIsNoLocal`); the
  decorator says that an accepted name is linked, to the same declaration, and the missing one has no type. So it is a global,
  and one that `genGlobal` skipped.
- Allocas: `AllocasHaveRun == CompilerSpec => []LinkedAllocasHaveRun`. The generator's side is its invariant of the run (`G!RunInv`, of
  `LlvmGenProofs`): all that is visible to a statement has its alloca behind it when the statement's code runs. The decorator's
  side is that what a name is linked to is a global or visible.
- Implicit return: it is only added where the decorator judges that the body does not return. That errs one way, so some
  path reaches the end of what was written; then no statement in front returns, in the exact sense of the generator, not even
  when a return stands behind them (`ReturnsInFront`), so the walk does not stop before the last statement (`LastReturn`).

`CompilationIsDecoration == CompilerSpec => Spec`: a compilation is a run of the decorator that generating and
running do not disturb, so the other theorems of the module hold for the runs of `Compiler`, too.

**`FrontEndProofs`**, of the lexer: `LexerInvariant == LexerSpec => []LexInv` for every set of texts over the
characters (`TextsAreTexts`) and whatever lies behind them, and from it the three safety properties
of `Lexer`: `PositionsAreReal`, `NothingIsLost` and `OnlyOpenEndsThrow`. What a character belongs to is `Mode`, a
function defined by recursion over the text; the lexer knows no modes and skips many characters
in one step. The invariant says that at every token the mode is code, or that the lexer stands at the newline that
ends a line comment (`Here`), and that the tokens so far cover exactly the code in front of
it (`Covered`). The theorems for induction cannot be used here, but a set of naturals has a least element: that a function as
`Mode` exists at all (`ModeExists`), and that a mode lasts while no character ends it (`ModeLasts`), is
shown by its least counterexample. `SkipToPlace` has the arithmetic of lines and columns, once for all loops;
`Delivered` says what a token has to bring with it, and each kind of token is one lemma.

Of expressions, in the same module (the two parts share nothing): `ExpressionsAreWalked == Spec => []WalkInv`, and from it
`OwnersAreUnique == Spec => []NodesHaveOneOwner` and `NoSilentFailures == Spec => []FailuresAreExplained`;
`GeneratedExpressionsAreSound == GenSpec => [](...)` carries both over to decoration and generation. This
is for all expressions and all declarations around them, under two assumptions that say what the data
are: `CasesAreTrees` (each node has the children its kind has, behind it and with one parent, and a call not more names than
arguments) and `ClassesAreScopes` (a name declares something, with a list of parameters).

`NodesHaveOneOwner` is not inductive: that a member replaces the right node depends on what the pointers own that the walk has
not come to yet. `WalkInv` says where it has been. There is a set of walked nodes, and

1. everything outside of it is as the parser left it (`Untouched`): its pointers own its children, none of them walked;
2. the activations on the stack are of walked nodes, each further down than the one below it, and each but the
   innermost waits for the child its pointer still owns (`Waits`), while the children behind are untouched (`Busy`): so
   a replacement or a move concerns a pointer no other activation depends on;
3. an activation never asks for more operands than its node has (`Asking`).

Owners stay different (`OwnersDiffer`) because a pointer only gets a new node, a clone, or what
another one gives up. For `NoSilentFailures`, `FailInv` adds that an activation with a failed part, or that has just
returned one, has been excused (`Explained`), and that the function it calls is one the expression names.

**Only model-checked.** Liveness (`LexingEnds`, `ParsingEnds`), since tlapm does
not prove liveness under fairness; the refinement
`BindsLikeCallArgs`; `DroppedCodeIsWarned`, which would need that everything reachable has an instruction; `AcceptsTheGrammar`, which would need for `Fits` what `StreamLemmas` has for `Arrive`; `ParserInv`;
`NamesCollideOnlyByNumber` and `UnknownOperandsNeverRun`, which are about strings and folds over the listing
(facts about folds need induction over an operator); `TypesAreJudged` and `ArgumentsReachTheirParameters` of `Expressions`, and the
properties of `ExprGen`, which compare the walk with types given by recursion over the tree.

## 6. Not modelled

- **Child iterator** (`AstNodeChildIterator.h`): `getChildNodes` has no caller; the loop of
  `SetAstNodeParentAndSelfPass::verify` that would use it is commented out.
- **`parentAstNode`** of a node: only the message of the pass that sets it depends on it. The self pointers are in `Expressions`.
- **The values of texts and numbers** in the generators, debug output, and calls into the runtime.
- **Several functions of one IR module**, and in its listing the numbers of values without a
  name and of blocks: `IrModule` has one function, and its names are those of the source.
- **Bodies of methods**: walked and generated like those of functions, but with the members
  in scope; `Expressions` has the expressions in them.
- Visitors, AST printers, logging, types and exceptions as data: no state that another part relies on.
- The standard library glue, build files and examples: no logic of the compiler.
- LLVM, clang and the file system are external and modelled by how the code uses them.

## 7. Plan

What is left, the most important first.

1. Statements with the expressions of `Expressions` in them, in place of single names:
   conditions and assigned variables, and the initial values of variables.
2. Several functions and methods in one module, generated one after the other by both generators.
3. Proofs: the type invariant and the missing
   expressions of `Parser`; `TypesAreJudged`, on top of `WalkInv`.
