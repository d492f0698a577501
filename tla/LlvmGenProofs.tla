--------------------------- MODULE LlvmGenProofs ---------------------------
(***************************************************************************)
(* For every set of bodies and names: Inv is an invariant of LlvmGen, and  *)
(* with it the safety properties of the generated blocks.  The generator's *)
(* return analysis is shown to be exact, and at the end the run of the     *)
(* generated code to do what the source says (LlvmRun).                    *)
(***************************************************************************)
EXTENDS LlvmRun, StreamLemmas

(* What [bs EXCEPT ![b] = Append(@, i)] is. *)
LEMMA EmitIn ==
  ASSUME NEW bs \in Seq(Seq(Instrs)), NEW b \in DOMAIN bs, NEW i \in Instrs,
         NEW new, new = [bs EXCEPT ![b] = Append(@, i)]
  PROVE  /\ new \in Seq(Seq(Instrs))
         /\ DOMAIN new = DOMAIN bs
         /\ Len(new) = Len(bs)
         /\ \A c \in DOMAIN bs \ {b} : new[c] = bs[c]
         /\ new[b] \in Seq(Instrs)
         /\ Len(new[b]) = Len(bs[b]) + 1
         /\ new[b][Len(bs[b]) + 1] = i
         /\ \A k \in 1..Len(bs[b]) : new[b][k] = bs[b][k]
  OBVIOUS

(* What appending blocks does. *)
LEMMA AddBlocks ==
  ASSUME NEW bs \in Seq(Seq(Instrs)), NEW ext \in Seq(Seq(Instrs)), NEW new, new = bs \o ext
  PROVE  /\ new \in Seq(Seq(Instrs))
         /\ Len(new) = Len(bs) + Len(ext)
         /\ DOMAIN new = 1..(Len(bs) + Len(ext))
         /\ \A c \in DOMAIN bs : new[c] = bs[c]
         /\ \A k \in 1..Len(ext) : new[Len(bs) + k] = ext[k]
  OBVIOUS

(* The instructions that are emitted, and where they branch to. *)
LEMMA InstrFacts ==
  ASSUME NEW p \in Nat, NEW y \in Nat, NEW n \in Nat
  PROVE  /\ Do(p) \in Instrs /\ ~Terminator(Do(p)) /\ Targets(Do(p)) = {}
         /\ Ret(p) \in Instrs /\ Terminator(Ret(p)) /\ Targets(Ret(p)) = {}
         /\ Br(y) \in Instrs /\ Terminator(Br(y)) /\ Targets(Br(y)) = {y}
         /\ CondBr(p, y, n) \in Instrs /\ Terminator(CondBr(p, y, n))
         /\ Targets(CondBr(p, y, n)) = {y, n}
  BY DEF Do, Ret, Br, CondBr, Instr, Instrs, Terminator, Targets

(* Initially Inv holds. *)
LEMMA InitInv == Init => Inv
<1> SUFFICES ASSUME Init PROVE Inv
  OBVIOUS
<1>1. TypeOK
  <2>1. body \in Seq(StatementsOver(Names)) /\ pc \in 1..(Len(body) + 1)
    BY BodiesAreStreams DEF Init
  <2>2. stack \in Seq(Frames) \ {<<>>}
    BY DEF Init, Frame, Frames, NoBlock
  <2> QED BY <2>1, <2>2 DEF Init, TypeOK, NoBlock
<1>2. stack = <<Frame("body", NoBlock, NoBlock)>> /\ Len(stack) = 1 /\ stack[1].kind = "body"
      /\ ~stack[1].returned /\ blocks = << <<>> >> /\ Len(blocks) = 1 /\ blocks[1] = <<>>
      /\ DOMAIN blocks = {1} /\ DOMAIN stack = {1} /\ erased = {} /\ ins = 1 /\ Top = stack[1]
      /\ DOMAIN blocks[1] = {}
  BY DEF Init, Frame, Top
<1>3. Waiting(stack[1]) = {}
  BY <1>2 DEF Waiting
<1>4. TerminatorsAreLast /\ NothingErased /\ CallsNest
  BY <1>2 DEF TerminatorsAreLast, NothingErased, CallsNest
<1>5. BuilderIsOpen /\ WaitingBlocksAreFresh /\ ChecksAreLive /\ BranchesAreLive
  BY <1>2, <1>3 DEF BuilderIsOpen, Open, WaitingBlocksAreFresh, ChecksAreLive, BranchesAreLive
<1> QED BY <1>1, <1>4, <1>5 DEF Inv

(* What Inv says of the step about to be taken: before a statement the     *)
(* list being walked has not returned, so the builder's block is open.     *)
LEMMA AtStatement ==
  ASSUME Inv, phase = "generating", pc \in 1..Len(body), body[pc].op \notin {"else", "end"}
  PROVE  /\ ~Top.returned
         /\ ins \in DOMAIN blocks /\ ins \notin erased /\ Open(ins)
  BY DEF Inv, CallsNest, BuilderIsOpen

(* The stack of calls after a statement of the list on top. *)
LEMMA AfterStatementFacts ==
  ASSUME NEW calls \in Seq(Frames) \ {<<>>}, NEW r \in BOOLEAN, NEW next \in Nat \ {0},
         next <= Len(body) + 1, body \in Seq(StatementsOver(Names)),
         AfterStatement(calls, r, next)
  PROVE  /\ stack' \in Seq(Frames) \ {<<>>}
         /\ Len(stack') = Len(calls) /\ DOMAIN stack' = DOMAIN calls
         /\ \A i \in 1..(Len(calls) - 1) : stack'[i] = calls[i]
         /\ \A i \in DOMAIN calls : Waiting(stack'[i]) = Waiting(calls[i])
         /\ \A i \in DOMAIN calls : AwaitsBranch(stack'[i]) = AwaitsBranch(calls[i])
         /\ \A i \in DOMAIN calls : /\ stack'[i].kind = calls[i].kind
                                    /\ stack'[i].merge = calls[i].merge
                                    /\ stack'[i].other = calls[i].other
         /\ stack'[Len(calls)].returned = r
         /\ pc' \in Nat \ {0} /\ pc' <= Len(body) + 1
         /\ r => (pc' \in 1..Len(body) => body[pc'].op \in {"else", "end"})
<1> DEFINE n == Len(calls)
           f == [calls[n] EXCEPT !.returned = r]
<1>a. n \in Nat \ {0} /\ DOMAIN calls = 1..n /\ calls[n] \in Frames
  OBVIOUS
<1>b. /\ f \in Frames /\ f.returned = r /\ f.kind = calls[n].kind /\ f.merge = calls[n].merge
      /\ f.other = calls[n].other /\ f.thenReturned = calls[n].thenReturned
  BY <1>a DEF Frames
<1>c. stack' = [calls EXCEPT ![n] = f]
  BY DEF AfterStatement
<1> HIDE DEF n, f
<1>d. /\ stack' \in Seq(Frames) /\ Len(stack') = n /\ DOMAIN stack' = 1..n
      /\ \A i \in 1..n : stack'[i] = IF i = n THEN f ELSE calls[i]
  BY <1>a, <1>b, <1>c
<1>1. /\ stack' \in Seq(Frames) \ {<<>>}
      /\ Len(stack') = Len(calls) /\ DOMAIN stack' = DOMAIN calls
      /\ \A i \in 1..(Len(calls) - 1) : stack'[i] = calls[i]
      /\ stack'[Len(calls)].returned = r
  <2>1. n = Len(calls) /\ stack' # <<>>
    BY <1>a, <1>d DEF n
  <2>2. stack'[n].returned = r
    BY <1>a, <1>b, <1>d
  <2>3. \A i \in 1..(n - 1) : stack'[i] = calls[i]
    BY <1>a, <1>d
  <2> QED BY <2>1, <2>2, <2>3, <1>a, <1>d
<1>2. \A i \in DOMAIN calls : /\ stack'[i].kind = calls[i].kind
                              /\ stack'[i].merge = calls[i].merge
                              /\ stack'[i].other = calls[i].other
                              /\ stack'[i].thenReturned = calls[i].thenReturned
  BY <1>a, <1>b, <1>d
<1>3. \A i \in DOMAIN calls : /\ Waiting(stack'[i]) = Waiting(calls[i])
                              /\ AwaitsBranch(stack'[i]) = AwaitsBranch(calls[i])
  BY <1>2 DEF Waiting, AwaitsBranch
<1>4. /\ pc' \in Nat \ {0} /\ pc' <= Len(body) + 1
      /\ r => (pc' \in 1..Len(body) => body[pc'].op \in {"else", "end"})
  BY ListEndIsMark DEF AfterStatement
<1> QED BY <1>1, <1>2, <1>3, <1>4

(* Some instruction branches to block m. *)
IsTarget(m) == \E b \in DOMAIN blocks : \E k \in DOMAIN blocks[b] : m \in Targets(blocks[b][k])

LEMMA BranchesByTarget ==
  BranchesAreLive <=>
    \A m : IsTarget(m) =>
      /\ m \in DOMAIN blocks \ erased
      /\ \A i \in DOMAIN stack : AwaitsBranch(stack[i]) => m # stack[i].merge
BY DEF BranchesAreLive, IsTarget

(* Closing or extending the builder's open block, and creating blocks of at *)
(* most one instruction.                                                    *)
LEMMA EmitAndAdd ==
  ASSUME blocks \in Seq(Seq(Instrs)), TerminatorsAreLast,
         ins \in DOMAIN blocks, Open(ins), NEW i \in Instrs,
         NEW ext \in Seq(Seq(Instrs)), \A e \in DOMAIN ext : Len(ext[e]) <= 1,
         blocks' = [blocks EXCEPT ![ins] = Append(@, i)] \o ext
  PROVE  /\ blocks' \in Seq(Seq(Instrs))
         /\ Len(blocks') = Len(blocks) + Len(ext)
         /\ DOMAIN blocks' = 1..(Len(blocks) + Len(ext))
         /\ \A c \in DOMAIN blocks \ {ins} : blocks'[c] = blocks[c]
         /\ \A e \in DOMAIN ext : blocks'[Len(blocks) + e] = ext[e]
         /\ TerminatorsAreLast'
         /\ \A m : IsTarget(m)' =>
              \/ IsTarget(m)
              \/ m \in Targets(i)
              \/ \E e \in DOMAIN ext : ext[e] # <<>> /\ m \in Targets(ext[e][1])
<1> DEFINE mid == [blocks EXCEPT ![ins] = Append(@, i)]
           n == Len(blocks)
<1>1. /\ mid \in Seq(Seq(Instrs)) /\ DOMAIN mid = DOMAIN blocks /\ Len(mid) = n
      /\ \A c \in DOMAIN blocks \ {ins} : mid[c] = blocks[c]
      /\ Len(mid[ins]) = Len(blocks[ins]) + 1
      /\ mid[ins][Len(blocks[ins]) + 1] = i
      /\ \A k \in 1..Len(blocks[ins]) : mid[ins][k] = blocks[ins][k]
  BY EmitIn
<1>2. n \in Nat /\ DOMAIN blocks = 1..n /\ Len(blocks[ins]) \in Nat
      /\ DOMAIN blocks[ins] = 1..Len(blocks[ins]) /\ DOMAIN ext = 1..Len(ext) /\ Len(ext) \in Nat
  OBVIOUS
<1>3. blocks' = mid \o ext
  OBVIOUS
<1> HIDE DEF mid, n
<1>4. /\ blocks' \in Seq(Seq(Instrs)) /\ Len(blocks') = n + Len(ext)
      /\ DOMAIN blocks' = 1..(n + Len(ext))
      /\ \A c \in 1..n : blocks'[c] = mid[c]
      /\ \A e \in DOMAIN ext : blocks'[n + e] = ext[e]
  <2>1. /\ blocks' \in Seq(Seq(Instrs)) /\ Len(blocks') = Len(mid) + Len(ext)
        /\ DOMAIN blocks' = 1..(Len(mid) + Len(ext))
        /\ \A c \in DOMAIN mid : blocks'[c] = mid[c]
        /\ \A e \in 1..Len(ext) : blocks'[Len(mid) + e] = ext[e]
    <3>1. mid \in Seq(Seq(Instrs))
      BY <1>1
    <3>2. \A new : new = mid \o ext =>
            /\ new \in Seq(Seq(Instrs)) /\ Len(new) = Len(mid) + Len(ext)
            /\ DOMAIN new = 1..(Len(mid) + Len(ext))
            /\ \A c \in DOMAIN mid : new[c] = mid[c]
            /\ \A e \in 1..Len(ext) : new[Len(mid) + e] = ext[e]
      BY <3>1, AddBlocks
    <3> QED BY <3>2, <1>3
  <2> QED BY <2>1, <1>1, <1>2
<1>5. \A c \in DOMAIN blocks \ {ins} : blocks'[c] = blocks[c]
  BY <1>1, <1>2, <1>4
<1>6. /\ DOMAIN blocks'[ins] = 1..(Len(blocks[ins]) + 1)
      /\ Len(blocks'[ins]) = Len(blocks[ins]) + 1
      /\ blocks'[ins][Len(blocks[ins]) + 1] = i
      /\ \A k \in 1..Len(blocks[ins]) : blocks'[ins][k] = blocks[ins][k]
  BY <1>1, <1>2, <1>4
<1>7. \A b \in DOMAIN blocks' : \/ b \in DOMAIN blocks
                                \/ \E e \in DOMAIN ext : b = n + e /\ blocks'[b] = ext[e]
  <2>1. ASSUME NEW b \in DOMAIN blocks', b \notin DOMAIN blocks
        PROVE  b - n \in DOMAIN ext /\ b = n + (b - n)
    BY <2>1, <1>2, <1>4
  <2> QED BY <2>1, <1>4
<1>8. TerminatorsAreLast'
  <2>1. ASSUME NEW b \in DOMAIN blocks', NEW k \in 1..(Len(blocks'[b]) - 1)
        PROVE  ~Terminator(blocks'[b][k])
    <3>1. CASE b \in DOMAIN blocks \ {ins}
      BY <3>1, <1>5 DEF TerminatorsAreLast
    <3>2. CASE b = ins
      <4>1. k \in 1..Len(blocks[ins])
        BY <3>2, <1>2, <1>6
      <4>2. blocks'[ins][k] = blocks[ins][k] /\ ~Terminator(blocks[ins][k])
        BY <4>1, <1>2, <1>6 DEF Open
      <4> QED BY <4>2, <3>2
    <3>3. CASE \E e \in DOMAIN ext : b = n + e /\ blocks'[b] = ext[e]
      <4>1. PICK e \in DOMAIN ext : blocks'[b] = ext[e]
        BY <3>3
      <4>2. Len(ext[e]) \in Nat /\ Len(ext[e]) <= 1
        OBVIOUS
      <4>3. k \in 1..(Len(ext[e]) - 1)
        BY <4>1
      <4>4. FALSE
        <5> DEFINE l == Len(ext[e])
        <5>1. l \in Nat /\ l <= 1 /\ k \in 1..(l - 1)
          BY <4>2, <4>3
        <5> HIDE DEF l
        <5> QED BY <5>1
      <4> QED BY <4>4
    <3> QED BY <3>1, <3>2, <3>3, <1>7
  <2> QED BY <2>1 DEF TerminatorsAreLast
<1>9. ASSUME NEW m, IsTarget(m)'
      PROVE  \/ IsTarget(m)
             \/ m \in Targets(i)
             \/ \E e \in DOMAIN ext : ext[e] # <<>> /\ m \in Targets(ext[e][1])
  <2>a. PICK b \in DOMAIN blocks' : \E k \in DOMAIN blocks'[b] : m \in Targets(blocks'[b][k])
    BY <1>9 DEF IsTarget
  <2>1. PICK k \in DOMAIN blocks'[b] : m \in Targets(blocks'[b][k])
    BY <2>a
  <2>2. CASE b \in DOMAIN blocks \ {ins}
    BY <2>1, <2>2, <1>5 DEF IsTarget
  <2>3. CASE b = ins
    <3>1. k \in 1..Len(blocks[ins]) \/ k = Len(blocks[ins]) + 1
      <4>1. k \in 1..(Len(blocks[ins]) + 1)
        BY <2>3, <1>6
      <4> QED BY <4>1, <1>2
    <3> QED BY <3>1, <2>1, <2>3, <1>2, <1>6 DEF IsTarget
  <2>4. CASE \E e \in DOMAIN ext : b = n + e /\ blocks'[b] = ext[e]
    <3>1. PICK e \in DOMAIN ext : blocks'[b] = ext[e]
      BY <2>4
    <3>2. ext[e] \in Seq(Instrs) /\ Len(ext[e]) <= 1
      OBVIOUS
    <3>3. k \in DOMAIN ext[e]
      BY <3>1
    <3>4. k = 1 /\ ext[e] # <<>>
      BY <3>2, <3>3
    <3> QED BY <2>1, <3>1, <3>4
  <2> QED BY <2>2, <2>3, <2>4, <1>7
<1> QED BY <1>4, <1>5, <1>8, <1>9 DEF n

(* Emit alone. *)
LEMMA EmitOnly ==
  ASSUME blocks \in Seq(Seq(Instrs)), TerminatorsAreLast,
         ins \in DOMAIN blocks, Open(ins), NEW i \in Instrs, Emit(i)
  PROVE  /\ blocks' \in Seq(Seq(Instrs))
         /\ Len(blocks') = Len(blocks) /\ DOMAIN blocks' = DOMAIN blocks
         /\ \A c \in DOMAIN blocks \ {ins} : blocks'[c] = blocks[c]
         /\ TerminatorsAreLast'
         /\ ~Terminator(i) => \A k \in DOMAIN blocks'[ins] : ~Terminator(blocks'[ins][k])
         /\ \A m : IsTarget(m)' => IsTarget(m) \/ m \in Targets(i)
<1> DEFINE mid == [blocks EXCEPT ![ins] = Append(@, i)]
           ext == <<>>
<1>1. /\ mid \in Seq(Seq(Instrs)) /\ Len(mid[ins]) = Len(blocks[ins]) + 1
      /\ mid[ins] \in Seq(Instrs)
      /\ mid[ins][Len(blocks[ins]) + 1] = i
      /\ \A k \in 1..Len(blocks[ins]) : mid[ins][k] = blocks[ins][k]
  BY EmitIn
<1>2. ext \in Seq(Seq(Instrs)) /\ Len(ext) = 0 /\ DOMAIN ext = {}
  OBVIOUS
<1>3. blocks' = mid /\ blocks' = mid \o ext
  <2>1. blocks' = mid
    BY DEF Emit
  <2> HIDE DEF mid
  <2> QED BY <2>1, <1>1
<1>4. ~Terminator(i) => \A k \in DOMAIN blocks'[ins] : ~Terminator(blocks'[ins][k])
  <2> HIDE DEF mid
  <2> SUFFICES ASSUME ~Terminator(i), NEW k \in DOMAIN mid[ins] PROVE ~Terminator(mid[ins][k])
    BY <1>3
  <2>1. Len(blocks[ins]) \in Nat /\ DOMAIN blocks[ins] = 1..Len(blocks[ins])
    OBVIOUS
  <2>2. k \in 1..Len(blocks[ins]) \/ k = Len(blocks[ins]) + 1
    BY <1>1, <2>1, SMTT(30)
  <2> QED BY <2>1, <2>2, <1>1 DEF Open
<1>5. \A e \in DOMAIN ext : Len(ext[e]) <= 1
  BY <1>2
<1> HIDE DEF ext
<1>6. /\ blocks' \in Seq(Seq(Instrs))
      /\ Len(blocks') = Len(blocks) + Len(ext)
      /\ DOMAIN blocks' = 1..(Len(blocks) + Len(ext))
      /\ \A c \in DOMAIN blocks \ {ins} : blocks'[c] = blocks[c]
      /\ TerminatorsAreLast'
      /\ \A m : IsTarget(m)' =>
           \/ IsTarget(m)
           \/ m \in Targets(i)
           \/ \E e \in DOMAIN ext : ext[e] # <<>> /\ m \in Targets(ext[e][1])
  BY <1>2, <1>3, <1>5, EmitAndAdd
<1>7. Len(blocks) \in Nat /\ DOMAIN blocks = 1..Len(blocks)
  OBVIOUS
<1> QED BY <1>2, <1>4, <1>6, <1>7

(* A statement without lists: one instruction, a terminator only if it     *)
(* returns.                                                                *)
LEMMA SimpleStep ==
  ASSUME Inv, phase = "generating", pc \in 1..Len(body), body[pc].op \notin {"else", "end"},
         NEW r \in BOOLEAN, NEW i \in {Do(pc), Ret(pc)}, r <=> i = Ret(pc),
         Emit(i), AfterStatement(stack, r, pc + 1),
         slots' \subseteq Nat, UNCHANGED <<body, erased, ins, phase>>
  PROVE  Inv'
<1> USE DEF Inv
<1>1. /\ ~Top.returned /\ ins \in DOMAIN blocks /\ ins \notin erased /\ Open(ins)
      /\ \A k \in DOMAIN blocks[ins] : ~Terminator(blocks[ins][k])
  BY AtStatement DEF Open
<1>2. /\ pc \in Nat /\ body \in Seq(StatementsOver(Names)) /\ stack \in Seq(Frames) \ {<<>>}
      /\ blocks \in Seq(Seq(Instrs)) /\ erased \subseteq DOMAIN blocks
      /\ pc + 1 \in Nat \ {0} /\ pc + 1 <= Len(body) + 1
  BY DEF TypeOK
<1>3. i \in Instrs /\ Targets(i) = {} /\ (Terminator(i) <=> r)
  BY <1>2, InstrFacts
<1>4. /\ blocks' \in Seq(Seq(Instrs)) /\ DOMAIN blocks' = DOMAIN blocks
      /\ \A c \in DOMAIN blocks \ {ins} : blocks'[c] = blocks[c]
      /\ TerminatorsAreLast'
      /\ ~Terminator(i) => \A k \in DOMAIN blocks'[ins] : ~Terminator(blocks'[ins][k])
      /\ \A m : IsTarget(m)' => IsTarget(m)
  BY <1>1, <1>2, <1>3, EmitOnly
<1>5. /\ stack' \in Seq(Frames) \ {<<>>} /\ Len(stack') = Len(stack)
      /\ DOMAIN stack' = DOMAIN stack
      /\ \A j \in 1..(Len(stack) - 1) : stack'[j] = stack[j]
      /\ \A j \in DOMAIN stack : /\ Waiting(stack'[j]) = Waiting(stack[j])
                                 /\ AwaitsBranch(stack'[j]) = AwaitsBranch(stack[j])
                                 /\ stack'[j].kind = stack[j].kind
                                 /\ stack'[j].merge = stack[j].merge
                                 /\ stack'[j].other = stack[j].other
      /\ stack'[Len(stack)].returned = r
      /\ pc' \in Nat \ {0} /\ pc' <= Len(body) + 1
      /\ r => (pc' \in 1..Len(body) => body[pc'].op \in {"else", "end"})
  BY <1>2, AfterStatementFacts
<1>6. TypeOK'
  BY <1>2, <1>4, <1>5 DEF TypeOK
<1>8. NothingErased'
  BY <1>1, <1>2, <1>4 DEF NothingErased
<1>9. CallsNest'
  BY <1>5 DEF CallsNest, Top
<1>10. BuilderIsOpen'
  <2>1. Top'.returned = r
    BY <1>5 DEF Top
  <2> QED BY <2>1, <1>1, <1>3, <1>4 DEF BuilderIsOpen, Open
<1>11. WaitingBlocksAreFresh'
  <2>1. \A j \in DOMAIN stack' : \A m \in Waiting(stack'[j]) :
          m \in (DOMAIN blocks' \ erased') /\ m # ins' /\ blocks'[m] = <<>>
    <3>1. \A j \in DOMAIN stack : \A m \in Waiting(stack[j]) :
            m \in (DOMAIN blocks \ erased) /\ m # ins /\ blocks[m] = <<>>
      BY DEF WaitingBlocksAreFresh
    <3> QED BY <3>1, <1>4, <1>5
  <2>2. /\ \A j \in DOMAIN stack', k \in DOMAIN stack' :
             j # k => Waiting(stack'[j]) \cap Waiting(stack'[k]) = {}
        /\ \A j \in DOMAIN stack' : stack'[j].kind = "then" => stack'[j].merge # stack'[j].other
    <3>1. WaitingBlocksAreFresh
      OBVIOUS
    <3> QED BY ONLY <3>1, <1>5 DEF WaitingBlocksAreFresh
  <2> QED BY ONLY <2>1, <2>2 DEF WaitingBlocksAreFresh
<1>12. ChecksAreLive'
  BY <1>4, <1>5 DEF ChecksAreLive
<1>13. BranchesAreLive'
  <2>1. ASSUME NEW m, IsTarget(m)'
        PROVE  /\ m \in DOMAIN blocks' \ erased'
               /\ \A j \in DOMAIN stack' : AwaitsBranch(stack'[j]) => m # stack'[j].merge
    <3>1. /\ m \in DOMAIN blocks \ erased
          /\ \A j \in DOMAIN stack : AwaitsBranch(stack[j]) => m # stack[j].merge
      BY <2>1, <1>4, BranchesByTarget
    <3> QED BY <3>1, <1>4, <1>5
  <2> QED BY <2>1 DEF BranchesAreLive, IsTarget
<1> QED BY <1>4, <1>6, <1>8, <1>9, <1>10, <1>11, <1>12, <1>13

(* The calls as a list: the one on top and those below it. *)
LEMMA Calls ==
  ASSUME stack \in Seq(Frames) \ {<<>>}
  PROVE  /\ Len(stack) \in Nat \ {0} /\ DOMAIN stack = 1..Len(stack)
         /\ Top = stack[Len(stack)] /\ Top \in Frames
         /\ Below \in Seq(Frames) /\ Len(Below) = Len(stack) - 1
         /\ DOMAIN Below = 1..(Len(stack) - 1)
         /\ \A i \in 1..(Len(stack) - 1) : Below[i] = stack[i]
<1>1. Len(stack) \in Nat \ {0} /\ DOMAIN stack = 1..Len(stack)
  OBVIOUS
<1>2. Top = stack[Len(stack)] /\ Top \in Frames
  BY <1>1 DEF Top
<1>3. /\ Below \in Seq(Frames) /\ Len(Below) = Len(stack) - 1
      /\ \A i \in 1..(Len(stack) - 1) : Below[i] = stack[i]
  BY <1>1 DEF Below
<1> QED BY <1>1, <1>2, <1>3

(* What ends a list of an if or while: a branch unless the list returned. *)
LEMMA BranchStep ==
  ASSUME Inv, phase = "generating", NEW t \in Nat, BranchUnlessReturned(t)
  PROVE  /\ blocks' \in Seq(Seq(Instrs))
         /\ Len(blocks') = Len(blocks) /\ DOMAIN blocks' = DOMAIN blocks
         /\ \A c \in DOMAIN blocks \ {ins} : blocks'[c] = blocks[c]
         /\ TerminatorsAreLast'
         /\ Top.returned => blocks' = blocks
         /\ \A m : IsTarget(m)' => IsTarget(m) \/ (m = t /\ ~Top.returned)
<1>1. blocks \in Seq(Seq(Instrs)) /\ TerminatorsAreLast
  BY DEF Inv, TypeOK
<1>2. CASE Top.returned
  BY <1>1, <1>2 DEF BranchUnlessReturned, TerminatorsAreLast, IsTarget
<1>3. CASE ~Top.returned
  <2>1. ins \in DOMAIN blocks /\ Open(ins) /\ Emit(Br(t))
    BY <1>3 DEF Inv, BuilderIsOpen, BranchUnlessReturned
  <2>2. Br(t) \in Instrs /\ Targets(Br(t)) = {t}
    BY InstrFacts
  <2> HIDE DEF Emit
  <2> QED BY <1>1, <1>3, <2>1, <2>2, EmitOnly
<1> QED BY <1>2, <1>3

(* A list of an if or a loop ends: its call is popped and the builder goes *)
(* on in the merge block, which is erased when both lists of an if with    *)
(* else returned.                                                          *)
LEMMA EndStep ==
  ASSUME Inv, phase = "generating", pc \in 1..Len(body),
         Top.kind \in {"if", "else", "loop"},
         NEW t, t = IF Top.kind = "loop" THEN Top.other ELSE Top.merge,
         NEW r \in BOOLEAN, r => Top.kind = "else" /\ Top.thenReturned /\ Top.returned,
         BranchUnlessReturned(t), ins' = Top.merge, AfterStatement(Below, r, pc + 1),
         erased' = IF r THEN erased \cup {Top.merge} ELSE erased,
         UNCHANGED <<body, slots, phase>>
  PROVE  Inv'
<1> DEFINE n == Len(stack)
<1>1. /\ n \in Nat \ {0} /\ DOMAIN stack = 1..n /\ Top = stack[n] /\ Top \in Frames
      /\ Below \in Seq(Frames) /\ Len(Below) = n - 1 /\ DOMAIN Below = 1..(n - 1)
      /\ \A i \in 1..(n - 1) : Below[i] = stack[i]
      /\ stack \in Seq(Frames) \ {<<>>}
  BY Calls DEF Inv, TypeOK
<1> HIDE DEF n
<1>2. /\ CallsNest /\ WaitingBlocksAreFresh /\ ChecksAreLive /\ BranchesAreLive /\ NothingErased
      /\ TypeOK
  BY DEF Inv
<1>3. n > 1 /\ \A i \in 1..n : stack[i].kind = "body" <=> i = 1
  <2>1. \A i \in 1..n : stack[i].kind = "body" <=> i = 1
    BY <1>1, <1>2 DEF CallsNest
  <2>2. n # 1
    BY <1>1, <2>1
  <2> QED BY <1>1, <2>1, <2>2
<1>4. /\ body \in Seq(StatementsOver(Names)) /\ pc + 1 \in Nat \ {0} /\ pc + 1 <= Len(body) + 1
      /\ Below # <<>>
  <2>1. pc \in 1..Len(body) /\ Len(body) \in Nat
    BY <1>2 DEF TypeOK
  <2> QED BY <1>1, <1>2, <1>3, <2>1 DEF TypeOK
<1>5. /\ stack' \in Seq(Frames) \ {<<>>} /\ Len(stack') = n - 1 /\ DOMAIN stack' = 1..(n - 1)
      /\ \A i \in 1..(n - 2) : stack'[i] = stack[i]
      /\ \A i \in 1..(n - 1) : /\ Waiting(stack'[i]) = Waiting(stack[i])
                               /\ AwaitsBranch(stack'[i]) = AwaitsBranch(stack[i])
                               /\ stack'[i].kind = stack[i].kind
                               /\ stack'[i].merge = stack[i].merge
                               /\ stack'[i].other = stack[i].other
      /\ stack'[n - 1].returned = r
      /\ pc' \in Nat \ {0} /\ pc' <= Len(body) + 1
      /\ r => (pc' \in 1..Len(body) => body[pc'].op \in {"else", "end"})
  <2>1. /\ stack' \in Seq(Frames) \ {<<>>} /\ Len(stack') = Len(Below)
        /\ DOMAIN stack' = DOMAIN Below
        /\ \A i \in 1..(Len(Below) - 1) : stack'[i] = Below[i]
        /\ \A i \in DOMAIN Below : Waiting(stack'[i]) = Waiting(Below[i])
        /\ \A i \in DOMAIN Below : AwaitsBranch(stack'[i]) = AwaitsBranch(Below[i])
        /\ \A i \in DOMAIN Below : /\ stack'[i].kind = Below[i].kind
                                   /\ stack'[i].merge = Below[i].merge
                                   /\ stack'[i].other = Below[i].other
        /\ stack'[Len(Below)].returned = r
        /\ pc' \in Nat \ {0} /\ pc' <= Len(body) + 1
        /\ r => (pc' \in 1..Len(body) => body[pc'].op \in {"else", "end"})
    <3>1. /\ Below \in Seq(Frames) \ {<<>>} /\ body \in Seq(StatementsOver(Names))
          /\ pc + 1 \in Nat \ {0} /\ pc + 1 <= Len(body) + 1
      BY <1>1, <1>4
    <3> QED BY ONLY <3>1, AfterStatementFacts, r \in BOOLEAN, AfterStatement(Below, r, pc + 1)
  <2>2. n - 1 \in 1..n /\ 1..(n - 2) \subseteq 1..(n - 1) /\ 1..((n - 1) - 1) = 1..(n - 2)
    BY <1>1, <1>3
  <2> QED BY <2>1, <2>2, <1>1
<1>6. /\ Top.merge \in Waiting(Top) /\ Top.merge \in Nat /\ Top.other \in Nat /\ t \in Nat
  BY <1>1 DEF Waiting, Frames
<1>7. /\ Top.merge \in DOMAIN blocks /\ Top.merge \notin erased /\ Top.merge # ins
      /\ blocks[Top.merge] = <<>>
      /\ \A i \in 1..(n - 1) : Top.merge \notin Waiting(stack[i])
  <2>1. \A i \in 1..(n - 1) : i \in 1..n /\ i # n /\ n \in 1..n
    BY <1>1
  <2>2. /\ Top.merge \in DOMAIN blocks /\ Top.merge \notin erased /\ Top.merge # ins
        /\ blocks[Top.merge] = <<>>
    BY <1>1, <1>2, <1>6 DEF WaitingBlocksAreFresh
  <2>3. ASSUME NEW i \in 1..(n - 1) PROVE Top.merge \notin Waiting(stack[i])
    BY <2>1, <1>1, <1>2, <1>6 DEF WaitingBlocksAreFresh
  <2> QED BY <2>2, <2>3
<1>8. /\ blocks' \in Seq(Seq(Instrs)) /\ DOMAIN blocks' = DOMAIN blocks
      /\ \A c \in DOMAIN blocks \ {ins} : blocks'[c] = blocks[c]
      /\ TerminatorsAreLast'
      /\ Top.returned => blocks' = blocks
      /\ \A m : IsTarget(m)' => IsTarget(m) \/ (m = t /\ ~Top.returned)
  BY <1>6, BranchStep
<1>9. blocks'[Top.merge] = <<>>
  BY <1>7, <1>8
<1>10. \A i \in 1..(n - 1) : i \in DOMAIN stack /\ i # n
  BY <1>1
<1>11. TypeOK'
  <2>1. erased' \subseteq DOMAIN blocks' /\ ins' \in DOMAIN blocks'
    BY <1>2, <1>7, <1>8 DEF TypeOK
  <2>2. pc' \in 1..(Len(body) + 1)
    BY <1>4, <1>5
  <2> QED BY <2>1, <2>2, <1>2, <1>5, <1>8 DEF TypeOK
<1>12. NothingErased'
  <2>1. ASSUME NEW b \in erased', b # Top.merge PROVE blocks'[b] = <<>>
    <3>1. b \in erased /\ blocks[b] = <<>> /\ b \in DOMAIN blocks
      BY <2>1, <1>2 DEF NothingErased, TypeOK
    <3>2. CASE Top.returned
      BY <3>1, <3>2, <1>8
    <3>3. CASE ~Top.returned
      BY <3>1, <3>3, <1>8 DEF Inv, BuilderIsOpen
    <3> QED BY <3>2, <3>3
  <2> QED BY <2>1, <1>9 DEF NothingErased
<1>13. CallsNest'
  <2>1. Top'.returned = r
    BY <1>5 DEF Top
  <2>2. \A i \in 1..(n - 2) : i \in 1..(n - 1) /\ ~stack[i].returned
    BY <1>1, <1>2 DEF CallsNest
  <2>3. \A i \in DOMAIN stack' : stack'[i].kind = "body" <=> i = 1
    BY <1>1, <1>3, <1>5
  <2>4. (n - 1) - 1 = n - 2
    BY <1>1
  <2>5. \A i \in 1..(Len(stack') - 1) : ~stack'[i].returned
    BY <2>2, <2>4, <1>5
  <2> QED BY <2>1, <2>3, <2>5, <1>5 DEF CallsNest
<1>14. BuilderIsOpen'
  <2>1. ~r => ins' \in DOMAIN blocks' \ erased'
    BY <1>7, <1>8
  <2>2. DOMAIN blocks'[ins'] = {}
    BY <1>9
  <2>3. Top'.returned = r
    BY <1>5 DEF Top
  <2> QED BY <2>1, <2>2, <2>3 DEF BuilderIsOpen, Open
<1>15. WaitingBlocksAreFresh'
  <2>1. ASSUME NEW i \in DOMAIN stack', NEW m \in Waiting(stack'[i])
        PROVE  m \in DOMAIN blocks' \ erased' /\ m # ins' /\ blocks'[m] = <<>>
    <3>1. i \in 1..(n - 1) /\ m \in Waiting(stack[i])
      BY <2>1, <1>5
    <3>2. m \in DOMAIN blocks \ erased /\ m # ins /\ blocks[m] = <<>>
      BY <3>1, <1>2, <1>10 DEF WaitingBlocksAreFresh
    <3> QED BY <3>1, <3>2, <1>7, <1>8
  <2>2. ASSUME NEW i \in DOMAIN stack', NEW j \in DOMAIN stack', i # j
        PROVE  Waiting(stack'[i]) \cap Waiting(stack'[j]) = {}
    BY <2>2, <1>2, <1>5, <1>10 DEF WaitingBlocksAreFresh
  <2>3. \A i \in DOMAIN stack' : stack'[i].kind = "then" => stack'[i].merge # stack'[i].other
    BY <1>2, <1>5, <1>10 DEF WaitingBlocksAreFresh
  <2> QED BY <2>1, <2>2, <2>3 DEF WaitingBlocksAreFresh
<1>16. ChecksAreLive'
  <2>1. ASSUME NEW i \in DOMAIN stack', stack'[i].kind = "loop"
        PROVE  /\ stack'[i].other \in DOMAIN blocks' \ erased'
               /\ \A j \in DOMAIN stack' : stack'[i].other \notin Waiting(stack'[j])
    <3>1. i \in DOMAIN stack /\ stack[i].kind = "loop" /\ stack'[i].other = stack[i].other
      BY <2>1, <1>5, <1>10
    <3>2. /\ stack[i].other \in DOMAIN blocks \ erased
          /\ \A j \in DOMAIN stack : stack[i].other \notin Waiting(stack[j])
      BY <3>1, <1>2 DEF ChecksAreLive
    <3>3. stack[i].other # Top.merge
      <4>1. n \in DOMAIN stack /\ stack[n] = Top
        BY <1>1
      <4> QED BY <3>2, <4>1, <1>6
    <3> QED BY <3>1, <3>2, <3>3, <1>5, <1>8, <1>10
  <2> QED BY <2>1 DEF ChecksAreLive
<1>17. BranchesAreLive'
  <2>1. ASSUME NEW m, IsTarget(m)'
        PROVE  /\ m \in DOMAIN blocks' \ erased'
               /\ \A j \in DOMAIN stack' : AwaitsBranch(stack'[j]) => m # stack'[j].merge
    <3>1. CASE IsTarget(m)
      <4>1. /\ m \in DOMAIN blocks \ erased
            /\ \A j \in DOMAIN stack : AwaitsBranch(stack[j]) => m # stack[j].merge
        BY <3>1, <1>2, BranchesByTarget
      <4>2. r => m # Top.merge
        <5>1. n \in DOMAIN stack /\ stack[n] = Top
          BY <1>1
        <5> QED BY <4>1, <5>1 DEF AwaitsBranch
      <4> QED BY <4>1, <4>2, <1>5, <1>8, <1>10
    <3>2. CASE m = t /\ ~Top.returned
      <4>1. ~r /\ erased' = erased
        BY <3>2
      <4>2. t \in DOMAIN blocks \ erased /\ \A j \in 1..(n - 1) : t \notin Waiting(stack[j])
        <5>1. CASE Top.kind = "loop"
          <6>1. t = Top.other /\ n \in DOMAIN stack /\ stack[n] = Top
            BY <5>1, <1>1
          <6> QED BY <5>1, <6>1, <1>2, <1>10 DEF ChecksAreLive
        <5>2. CASE Top.kind # "loop"
          BY <5>2, <1>7
        <5> QED BY <5>1, <5>2
      <4>3. \A j \in 1..(n - 1) : AwaitsBranch(stack[j]) => stack[j].merge \in Waiting(stack[j])
        BY DEF AwaitsBranch, Waiting
      <4> QED BY <3>2, <4>1, <4>2, <4>3, <1>5, <1>8
    <3> QED BY <2>1, <3>1, <3>2, <1>8
  <2> QED BY <2>1 DEF BranchesAreLive, IsTarget
<1> QED BY <1>8, <1>11, <1>12, <1>13, <1>14, <1>15, <1>16, <1>17, SMTT(30) DEF Inv

(* A compound ends: its call is popped, and it returned if its list did. *)
LEMMA CompoundStep ==
  ASSUME Inv, EndCompound PROVE Inv'
<1> DEFINE n == Len(stack)
<1>1. /\ n \in Nat \ {0} /\ DOMAIN stack = 1..n /\ Top = stack[n] /\ Top \in Frames
      /\ Below \in Seq(Frames) /\ Len(Below) = n - 1 /\ DOMAIN Below = 1..(n - 1)
      /\ \A i \in 1..(n - 1) : Below[i] = stack[i]
      /\ stack \in Seq(Frames) \ {<<>>}
  BY Calls DEF Inv, TypeOK
<1>2. /\ CallsNest /\ WaitingBlocksAreFresh /\ ChecksAreLive /\ BranchesAreLive /\ NothingErased
      /\ TypeOK /\ TerminatorsAreLast /\ BuilderIsOpen
  BY DEF Inv
<1>a. /\ phase = "generating" /\ pc \in 1..Len(body) /\ Top.kind = "block"
      /\ AfterStatement(Below, Top.returned, pc + 1)
      /\ UNCHANGED <<body, blocks, erased, ins, slots, phase>>
  BY DEF EndCompound, At
<1> HIDE DEF n
<1>3. n > 1 /\ \A i \in 1..n : stack[i].kind = "body" <=> i = 1
  <2>1. \A i \in 1..n : stack[i].kind = "body" <=> i = 1
    BY <1>1, <1>2 DEF CallsNest
  <2>2. n # 1
    BY <1>1, <1>a, <2>1
  <2> QED BY <1>1, <2>1, <2>2
<1>4. /\ body \in Seq(StatementsOver(Names)) /\ pc + 1 \in Nat \ {0} /\ pc + 1 <= Len(body) + 1
      /\ Below \in Seq(Frames) \ {<<>>} /\ Top.returned \in BOOLEAN
  <2>1. pc \in 1..Len(body) /\ Len(body) \in Nat
    BY <1>2, <1>a DEF TypeOK
  <2>2. Below # <<>> /\ Top.returned \in BOOLEAN
    BY ONLY <1>1, <1>3 DEF Frames
  <2>3. body \in Seq(StatementsOver(Names))
    BY <1>2 DEF TypeOK
  <2> QED BY ONLY <2>1, <2>2, <2>3, <1>1
<1>5. /\ stack' \in Seq(Frames) \ {<<>>} /\ Len(stack') = n - 1 /\ DOMAIN stack' = 1..(n - 1)
      /\ \A i \in 1..(n - 2) : stack'[i] = stack[i]
      /\ \A i \in 1..(n - 1) : /\ Waiting(stack'[i]) = Waiting(stack[i])
                               /\ AwaitsBranch(stack'[i]) = AwaitsBranch(stack[i])
                               /\ stack'[i].kind = stack[i].kind
                               /\ stack'[i].merge = stack[i].merge
                               /\ stack'[i].other = stack[i].other
      /\ stack'[n - 1].returned = Top.returned
      /\ pc' \in Nat \ {0} /\ pc' <= Len(body) + 1
      /\ Top.returned => (pc' \in 1..Len(body) => body[pc'].op \in {"else", "end"})
  <2>1. /\ stack' \in Seq(Frames) \ {<<>>} /\ Len(stack') = Len(Below)
        /\ DOMAIN stack' = DOMAIN Below
        /\ \A i \in 1..(Len(Below) - 1) : stack'[i] = Below[i]
        /\ \A i \in DOMAIN Below : Waiting(stack'[i]) = Waiting(Below[i])
        /\ \A i \in DOMAIN Below : AwaitsBranch(stack'[i]) = AwaitsBranch(Below[i])
        /\ \A i \in DOMAIN Below : /\ stack'[i].kind = Below[i].kind
                                   /\ stack'[i].merge = Below[i].merge
                                   /\ stack'[i].other = Below[i].other
        /\ stack'[Len(Below)].returned = Top.returned
        /\ pc' \in Nat \ {0} /\ pc' <= Len(body) + 1
        /\ Top.returned => (pc' \in 1..Len(body) => body[pc'].op \in {"else", "end"})
    BY ONLY <1>4, <1>a, AfterStatementFacts
  <2>2. n - 1 \in 1..n /\ 1..(n - 2) \subseteq 1..(n - 1) /\ 1..((n - 1) - 1) = 1..(n - 2)
    BY <1>1, <1>3
  <2> QED BY <2>1, <2>2, <1>1
<1>10. \A i \in 1..(n - 1) : i \in DOMAIN stack /\ i # n
  BY <1>1
<1>11. TypeOK'
  <2>2. pc' \in 1..(Len(body) + 1)
    BY <1>4, <1>5
  <2> QED BY <2>2, <1>2, <1>5, <1>a DEF TypeOK
<1>12. TerminatorsAreLast' /\ NothingErased'
  BY <1>2, <1>a DEF TerminatorsAreLast, NothingErased
<1>13. CallsNest'
  <2>1. Top'.returned = Top.returned
    BY <1>5 DEF Top
  <2>2. \A i \in 1..(n - 2) : i \in 1..(n - 1) /\ ~stack[i].returned
    BY <1>1, <1>2 DEF CallsNest
  <2>3. \A i \in DOMAIN stack' : stack'[i].kind = "body" <=> i = 1
    BY <1>1, <1>3, <1>5
  <2>4. (n - 1) - 1 = n - 2
    BY <1>1
  <2>5. \A i \in 1..(Len(stack') - 1) : ~stack'[i].returned
    BY <2>2, <2>4, <1>5
  <2> QED BY <2>1, <2>3, <2>5, <1>5, <1>a DEF CallsNest
<1>14. BuilderIsOpen'
  <2>3. Top'.returned = Top.returned
    BY <1>5 DEF Top
  <2> QED BY <2>3, <1>2, <1>a DEF BuilderIsOpen, Open
<1>15. WaitingBlocksAreFresh'
  BY <1>2, <1>5, <1>10, <1>a DEF WaitingBlocksAreFresh
<1>16. ChecksAreLive'
  BY <1>2, <1>5, <1>10, <1>a DEF ChecksAreLive
<1>17. BranchesAreLive'
  BY <1>2, <1>5, <1>10, <1>a DEF BranchesAreLive
<1> QED BY <1>11, <1>12, <1>13, <1>14, <1>15, <1>16, <1>17, SMTT(30) DEF Inv

(* A statement with a list: its call is pushed, and the builder moves to a *)
(* new, empty block.                                                       *)
LEMMA PushStep ==
  ASSUME Inv, phase = "generating", pc \in 1..Len(body), ~Top.returned,
         NEW f \in Frames, f.kind # "body", ~f.returned, stack' = Append(stack, f), pc' = pc + 1,
         blocks' \in Seq(Seq(Instrs)), DOMAIN blocks \subseteq DOMAIN blocks',
         \A c \in DOMAIN blocks \ {ins} : blocks'[c] = blocks[c],
         TerminatorsAreLast',
         ins' \in DOMAIN blocks' \ DOMAIN blocks, blocks'[ins'] = <<>>,
         \A m \in Waiting(f) : m \in DOMAIN blocks' \ DOMAIN blocks /\ m # ins' /\ blocks'[m] = <<>>,
         f.kind = "then" => f.merge # f.other,
         f.kind = "loop" => f.other \in DOMAIN blocks' \ DOMAIN blocks /\ f.other \notin Waiting(f),
         \A m : IsTarget(m)' => IsTarget(m) \/ m \in DOMAIN blocks' \ DOMAIN blocks,
         \A m : IsTarget(m)' /\ AwaitsBranch(f) => m # f.merge,
         UNCHANGED <<body, erased, slots, phase>>
  PROVE  Inv'
<1> DEFINE n == Len(stack)
<1>1. /\ n \in Nat \ {0} /\ DOMAIN stack = 1..n /\ Top = stack[n]
      /\ stack \in Seq(Frames) \ {<<>>}
  BY Calls DEF Inv, TypeOK
<1>2. /\ CallsNest /\ WaitingBlocksAreFresh /\ ChecksAreLive /\ BranchesAreLive /\ NothingErased
      /\ TypeOK /\ BuilderIsOpen
  BY DEF Inv
<1>3. /\ stack' \in Seq(Frames) \ {<<>>} /\ Len(stack') = n + 1 /\ DOMAIN stack' = 1..(n + 1)
      /\ stack'[n + 1] = f /\ \A i \in 1..n : stack'[i] = stack[i]
  <2>1. stack' = Append(stack, f) /\ f \in Frames
    OBVIOUS
  <2> QED BY ONLY <1>1, <2>1 DEF n
<1>n. n = Len(stack)
  OBVIOUS
<1> HIDE DEF n
<1>4. ins \in DOMAIN blocks /\ ins \notin erased /\ erased \subseteq DOMAIN blocks
  BY <1>2 DEF BuilderIsOpen, TypeOK
<1>5. \A i \in 1..(n + 1) : (i \in 1..n /\ i \in DOMAIN stack) \/ i = n + 1
  BY <1>1
<1>6. n + 1 \notin 1..n
  BY <1>1
<1>11. TypeOK'
  <2>1. pc' \in 1..(Len(body) + 1)
    <3>1. Len(body) \in Nat
      BY <1>2 DEF TypeOK
    <3> QED BY <3>1
  <2>2. erased' \subseteq DOMAIN blocks'
    BY <1>4
  <2> QED BY <2>1, <2>2, <1>2, <1>3 DEF TypeOK
<1>12. NothingErased'
  BY <1>2, <1>4 DEF NothingErased
<1>13. CallsNest'
  <2>1. ~Top'.returned
    BY <1>3 DEF Top
  <2>2. \A i \in 1..n : ~stack[i].returned
    <3>1. \A i \in 1..(n - 1) : ~stack[i].returned
      BY ONLY <1>n, <1>1, <1>2 DEF CallsNest
    <3> QED BY <3>1, <1>1, SMTT(30)
  <2>3. \A i \in DOMAIN stack' : stack'[i].kind = "body" <=> i = 1
    <3>1. \A i \in 1..n : stack[i].kind = "body" <=> i = 1
      BY ONLY <1>1, <1>2 DEF CallsNest
    <3>2. f.kind # "body" /\ n + 1 # 1
      BY <1>1
    <3> QED BY ONLY <3>1, <3>2, <1>3, <1>5
  <2>4. 1..(Len(stack') - 1) = 1..n
    BY <1>1, <1>3
  <2> QED BY <2>1, <2>2, <2>3, <2>4, <1>3 DEF CallsNest
<1>14. BuilderIsOpen'
  BY <1>4 DEF BuilderIsOpen, Open
<1>15. WaitingBlocksAreFresh'
  <2>1. \A i \in 1..n : \A m \in Waiting(stack[i]) :
          m \in DOMAIN blocks /\ m \notin erased /\ m # ins /\ blocks[m] = <<>>
    BY <1>1, <1>2 DEF WaitingBlocksAreFresh
  <2>2. ASSUME NEW i \in DOMAIN stack', NEW m \in Waiting(stack'[i])
        PROVE  m \in DOMAIN blocks' \ erased' /\ m # ins' /\ blocks'[m] = <<>>
    <3>1. CASE i \in 1..n
      <4>1. m \in Waiting(stack[i])
        BY ONLY <2>2, <3>1, <1>3
      <4>2. m \in DOMAIN blocks /\ m \notin erased /\ m # ins /\ blocks[m] = <<>>
        BY ONLY <2>1, <3>1, <4>1
      <4> QED BY <4>2
    <3>2. CASE i = n + 1
      BY <2>2, <3>2, <1>3, <1>4
    <3> QED BY <3>1, <3>2, <1>3, <1>5
  <2>3. \A i \in 1..n : Waiting(stack[i]) \cap Waiting(f) = {}
    BY <2>1
  <2>4. \A i \in 1..n, j \in 1..n : i # j => Waiting(stack[i]) \cap Waiting(stack[j]) = {}
    BY <1>1, <1>2 DEF WaitingBlocksAreFresh
  <2>5. ASSUME NEW i \in DOMAIN stack', NEW j \in DOMAIN stack', i # j
        PROVE  Waiting(stack'[i]) \cap Waiting(stack'[j]) = {}
    <3>1. Waiting(stack'[n + 1]) = Waiting(f) /\ \A k \in 1..n : Waiting(stack'[k]) = Waiting(stack[k])
      BY <1>3
    <3>2. CASE i \in 1..n /\ j \in 1..n
      BY ONLY <2>4, <2>5, <3>1, <3>2
    <3>3. CASE i \in 1..n /\ j = n + 1
      BY ONLY <2>3, <3>1, <3>3
    <3>4. CASE i = n + 1 /\ j \in 1..n
      BY ONLY <2>3, <3>1, <3>4
    <3> QED BY <2>5, <3>2, <3>3, <3>4, <1>3, <1>5
  <2>6. \A i \in DOMAIN stack' : stack'[i].kind = "then" => stack'[i].merge # stack'[i].other
    BY <1>1, <1>2, <1>3, <1>5 DEF WaitingBlocksAreFresh
  <2> QED BY <2>2, <2>5, <2>6 DEF WaitingBlocksAreFresh
<1>16. ChecksAreLive'
  <2>1. \A i \in 1..n : stack[i].kind = "loop" =>
          /\ stack[i].other \in DOMAIN blocks \ erased
          /\ \A j \in 1..n : stack[i].other \notin Waiting(stack[j])
    BY <1>1, <1>2 DEF ChecksAreLive
  <2>2. \A i \in 1..n : \A m \in Waiting(stack[i]) : m \in DOMAIN blocks
    BY <1>1, <1>2 DEF WaitingBlocksAreFresh
  <2>3. ASSUME NEW i \in DOMAIN stack', stack'[i].kind = "loop", NEW j \in DOMAIN stack'
        PROVE  /\ stack'[i].other \in DOMAIN blocks' \ erased'
               /\ stack'[i].other \notin Waiting(stack'[j])
    <3>1. CASE i \in 1..n /\ j \in 1..n
      BY <2>1, <2>3, <3>1, <1>3
    <3>2. CASE i \in 1..n /\ j = n + 1
      BY <2>1, <2>3, <3>2, <1>3
    <3>3. CASE i = n + 1 /\ j \in 1..n
      BY <2>2, <2>3, <3>3, <1>3, <1>4
    <3>4. CASE i = n + 1 /\ j = n + 1
      BY <2>3, <3>4, <1>3, <1>4
    <3> QED BY <3>1, <3>2, <3>3, <3>4, <1>3, <1>5
  <2> QED BY <2>3 DEF ChecksAreLive
<1>17. BranchesAreLive'
  <2>1. ASSUME NEW m, IsTarget(m)'
        PROVE  /\ m \in DOMAIN blocks' \ erased'
               /\ \A j \in DOMAIN stack' : AwaitsBranch(stack'[j]) => m # stack'[j].merge
    <3>1. \A j \in 1..n : AwaitsBranch(stack[j]) => stack[j].merge \in DOMAIN blocks
      BY <1>1, <1>2 DEF AwaitsBranch, Waiting, WaitingBlocksAreFresh
    <3>2. CASE IsTarget(m)
      <4>1. /\ m \in DOMAIN blocks \ erased
            /\ \A j \in 1..n : AwaitsBranch(stack[j]) => m # stack[j].merge
        BY <3>2, <1>1, <1>2, BranchesByTarget
      <4> QED BY <4>1, <2>1, <1>3, <1>5
    <3>3. CASE m \in DOMAIN blocks' \ DOMAIN blocks
      <4>1. ASSUME NEW j \in 1..n, AwaitsBranch(stack'[j]) PROVE m # stack'[j].merge
        <5>1. stack'[j] = stack[j]
          BY <1>3
        <5>2. AwaitsBranch(stack[j])
          BY <4>1, <5>1
        <5>3. stack[j].merge \in DOMAIN blocks
          BY ONLY <3>1, <4>1, <5>2
        <5> QED BY ONLY <5>1, <5>3, <3>3
      <4>2. AwaitsBranch(f) => m # f.merge
        BY <2>1
      <4> QED BY <3>3, <4>1, <4>2, <1>3, <1>4, <1>5
    <3> QED BY <2>1, <3>2, <3>3
  <2> QED BY <2>1 DEF BranchesAreLive, IsTarget
<1> QED BY <1>11, <1>12, <1>13, <1>14, <1>15, <1>16, <1>17 DEF Inv

LEMMA ElseStep ==
  ASSUME Inv, GenElse PROVE Inv'
<1> DEFINE n == Len(stack)
           f == [Top EXCEPT !.kind = "else", !.thenReturned = Top.returned, !.returned = FALSE]
<1>1. /\ n \in Nat \ {0} /\ DOMAIN stack = 1..n /\ Top = stack[n] /\ Top \in Frames
      /\ Below \in Seq(Frames) /\ Len(Below) = n - 1 /\ DOMAIN Below = 1..(n - 1)
      /\ \A i \in 1..(n - 1) : Below[i] = stack[i]
      /\ stack \in Seq(Frames) \ {<<>>}
  BY Calls DEF Inv, TypeOK
<1>2. /\ CallsNest /\ WaitingBlocksAreFresh /\ ChecksAreLive /\ BranchesAreLive /\ NothingErased
      /\ TypeOK
  BY DEF Inv
<1>a. /\ phase = "generating" /\ pc \in 1..Len(body) /\ Top.kind = "then"
      /\ BranchUnlessReturned(Top.merge) /\ ins' = Top.other /\ stack' = Append(Below, f)
      /\ pc' = pc + 1 /\ UNCHANGED <<body, erased, slots, phase>>
  BY DEF GenElse, At
<1>b. /\ f \in Frames /\ f.kind = "else" /\ f.merge = Top.merge /\ f.other = Top.other
      /\ ~f.returned /\ f.thenReturned = Top.returned
  BY <1>1 DEF Frames
<1> HIDE DEF n, f
<1>3. /\ stack' \in Seq(Frames) \ {<<>>} /\ Len(stack') = n /\ DOMAIN stack' = 1..n
      /\ stack'[n] = f /\ \A i \in 1..(n - 1) : stack'[i] = stack[i]
  <2>1. /\ stack' \in Seq(Frames) \ {<<>>} /\ Len(stack') = Len(Below) + 1
        /\ stack'[Len(Below) + 1] = f /\ \A i \in 1..Len(Below) : stack'[i] = Below[i]
    BY ONLY <1>1, <1>a, <1>b
  <2> QED BY <2>1, <1>1
<1>4. \A i \in 1..n : i \in DOMAIN stack /\ (i \in 1..(n - 1) \/ i = n)
  BY <1>1
<1>5. /\ n \in DOMAIN stack /\ Waiting(Top) = {Top.merge, Top.other} /\ Waiting(f) = {Top.merge}
      /\ AwaitsBranch(Top) /\ (AwaitsBranch(f) <=> Top.returned)
  BY <1>1, <1>a, <1>b DEF Waiting, AwaitsBranch
<1>6. /\ Top.merge \in DOMAIN blocks \ erased /\ Top.merge # ins /\ blocks[Top.merge] = <<>>
      /\ Top.other \in DOMAIN blocks \ erased /\ Top.other # ins /\ blocks[Top.other] = <<>>
      /\ Top.merge # Top.other
  BY <1>1, <1>2, <1>5, <1>a DEF WaitingBlocksAreFresh
<1>7. \A i \in 1..(n - 1) : Top.merge \notin Waiting(stack[i]) /\ Top.other \notin Waiting(stack[i])
  <2>1. \A i \in 1..(n - 1) : i # n
    BY <1>1
  <2> QED BY <2>1, <1>1, <1>2, <1>4, <1>5 DEF WaitingBlocksAreFresh
<1>8. /\ blocks' \in Seq(Seq(Instrs)) /\ DOMAIN blocks' = DOMAIN blocks
      /\ \A c \in DOMAIN blocks \ {ins} : blocks'[c] = blocks[c]
      /\ TerminatorsAreLast'
      /\ Top.returned => blocks' = blocks
      /\ \A m : IsTarget(m)' => IsTarget(m) \/ (m = Top.merge /\ ~Top.returned)
  <2>1. Top.merge \in Nat
    BY <1>1 DEF Frames
  <2> QED BY <2>1, <1>a, BranchStep
<1>11. TypeOK'
  <2>1. ins' \in DOMAIN blocks' /\ erased' \subseteq DOMAIN blocks'
    BY <1>2, <1>6, <1>8, <1>a DEF TypeOK
  <2>2. pc' \in 1..(Len(body) + 1)
    BY <1>2, <1>a DEF TypeOK
  <2> QED BY <2>1, <2>2, <1>2, <1>3, <1>8, <1>a DEF TypeOK
<1>12. NothingErased'
  <2>1. ASSUME NEW b \in erased PROVE blocks'[b] = <<>>
    <3>1. blocks[b] = <<>> /\ b \in DOMAIN blocks
      BY <1>2 DEF NothingErased, TypeOK
    <3>2. CASE Top.returned
      BY <3>1, <3>2, <1>8
    <3>3. CASE ~Top.returned
      BY <3>1, <3>3, <1>8, <1>a DEF Inv, BuilderIsOpen
    <3> QED BY <3>2, <3>3
  <2> QED BY <2>1, <1>a DEF NothingErased
<1>13. CallsNest'
  <2>1. ~Top'.returned
    BY <1>3, <1>b DEF Top
  <2>2. \A i \in 1..(n - 1) : ~stack[i].returned
    BY <1>1, <1>2 DEF CallsNest
  <2>3. ASSUME NEW i \in DOMAIN stack' PROVE stack'[i].kind = "body" <=> i = 1
    <3>1. stack[i].kind = "body" <=> i = 1
      BY <1>1, <1>2, <1>3 DEF CallsNest
    <3>2. CASE i = n
      BY <3>1, <3>2, <1>1, <1>3, <1>a, <1>b
    <3>3. CASE i \in 1..(n - 1)
      BY <3>1, <3>3, <1>3
    <3> QED BY <3>2, <3>3, <1>3, <1>4
  <2> QED BY <2>1, <2>2, <2>3, <1>3 DEF CallsNest
<1>14. BuilderIsOpen'
  <2>1. ins' \in DOMAIN blocks' \ erased' /\ DOMAIN blocks'[ins'] = {}
    BY <1>6, <1>8, <1>a
  <2> QED BY <2>1 DEF BuilderIsOpen, Open
<1>15. WaitingBlocksAreFresh'
  <2>1. \A i \in 1..(n - 1) : \A m \in Waiting(stack[i]) :
          m \in DOMAIN blocks /\ m \notin erased /\ m # ins /\ blocks[m] = <<>>
    BY <1>2, <1>4, <1>1 DEF WaitingBlocksAreFresh
  <2>2. ASSUME NEW i \in DOMAIN stack', NEW m \in Waiting(stack'[i])
        PROVE  m \in DOMAIN blocks' \ erased' /\ m # ins' /\ blocks'[m] = <<>>
    <3>1. CASE i \in 1..(n - 1)
      <4>1. m \in Waiting(stack[i])
        BY <2>2, <3>1, <1>3
      <4> QED BY <2>1, <3>1, <4>1, <1>7, <1>8, <1>a
    <3>2. CASE i = n
      <4>1. m = Top.merge
        BY <2>2, <3>2, <1>3, <1>5
      <4> QED BY <4>1, <1>6, <1>8, <1>a
    <3> QED BY <3>1, <3>2, <1>3, <1>4
  <2>3. \A i \in 1..(n - 1), j \in 1..(n - 1) : i # j => Waiting(stack[i]) \cap Waiting(stack[j]) = {}
    BY <1>2, <1>1 DEF WaitingBlocksAreFresh
  <2>4. ASSUME NEW i \in DOMAIN stack', NEW j \in DOMAIN stack', i # j
        PROVE  Waiting(stack'[i]) \cap Waiting(stack'[j]) = {}
    <3>1. \A k \in 1..(n - 1) : Waiting(stack'[k]) = Waiting(stack[k])
      BY <1>3
    <3>2. Waiting(stack'[n]) = {Top.merge}
      BY <1>3, <1>5
    <3> QED BY <2>3, <2>4, <3>1, <3>2, <1>3, <1>4, <1>7
  <2>5. ASSUME NEW i \in DOMAIN stack', stack'[i].kind = "then"
        PROVE  stack'[i].merge # stack'[i].other
    <3>1. i \in 1..(n - 1)
      BY <2>5, <1>3, <1>4, <1>b
    <3> QED BY <2>5, <3>1, <1>2, <1>3, <1>1 DEF WaitingBlocksAreFresh
  <2> QED BY <2>2, <2>4, <2>5 DEF WaitingBlocksAreFresh
<1>16. ChecksAreLive'
  <2>1. ASSUME NEW i \in DOMAIN stack', stack'[i].kind = "loop"
        PROVE  /\ stack'[i].other \in DOMAIN blocks' \ erased'
               /\ \A j \in DOMAIN stack' : stack'[i].other \notin Waiting(stack'[j])
    <3>1. i \in 1..(n - 1) /\ i \in DOMAIN stack /\ stack'[i] = stack[i]
      BY <2>1, <1>3, <1>4, <1>b
    <3>2. /\ stack[i].other \in DOMAIN blocks \ erased
          /\ \A j \in DOMAIN stack : stack[i].other \notin Waiting(stack[j])
      BY <2>1, <3>1, <1>2 DEF ChecksAreLive
    <3>3. stack[i].other # Top.merge
      BY <3>2, <1>1, <1>5
    <3>4. ASSUME NEW j \in DOMAIN stack' PROVE stack'[i].other \notin Waiting(stack'[j])
      <4>1. CASE j \in 1..(n - 1)
        BY <3>1, <3>2, <4>1, <1>3, <1>4
      <4>2. CASE j = n
        BY <3>1, <3>3, <4>2, <1>3, <1>5
      <4> QED BY <4>1, <4>2, <1>3, <1>4
    <3> QED BY <3>1, <3>2, <3>4, <1>8, <1>a
  <2> QED BY <2>1 DEF ChecksAreLive
<1>17. BranchesAreLive'
  <2>1. ASSUME NEW m, IsTarget(m)'
        PROVE  /\ m \in DOMAIN blocks' \ erased'
               /\ \A j \in DOMAIN stack' : AwaitsBranch(stack'[j]) => m # stack'[j].merge
    <3>1. CASE IsTarget(m)
      <4>1. /\ m \in DOMAIN blocks \ erased
            /\ \A j \in DOMAIN stack : AwaitsBranch(stack[j]) => m # stack[j].merge
        BY <3>1, <1>2, BranchesByTarget
      <4>2. m # f.merge
        BY <4>1, <1>1, <1>5, <1>b
      <4> QED BY <4>1, <4>2, <1>3, <1>4, <1>8, <1>a
    <3>2. CASE m = Top.merge /\ ~Top.returned
      <4>1. ~AwaitsBranch(f)
        BY <3>2, <1>5
      <4>2. \A j \in 1..(n - 1) : AwaitsBranch(stack[j]) => stack[j].merge \in Waiting(stack[j])
        BY DEF AwaitsBranch, Waiting
      <4> QED BY <3>2, <4>1, <4>2, <1>3, <1>4, <1>6, <1>7, <1>8, <1>a
    <3> QED BY <2>1, <3>1, <3>2, <1>8
  <2> QED BY <2>1 DEF BranchesAreLive, IsTarget
<1> QED BY <1>8, <1>11, <1>12, <1>13, <1>14, <1>15, <1>16, <1>17 DEF Inv

(* A compound begins: its call is pushed, nothing is generated. *)
LEMMA BeginCompoundStep ==
  ASSUME Inv, GenCompound PROVE Inv'
<1> DEFINE n == Len(stack)
           f == Frame("block", NoBlock, NoBlock)
<1>1. /\ n \in Nat \ {0} /\ DOMAIN stack = 1..n /\ Top = stack[n]
      /\ stack \in Seq(Frames) \ {<<>>}
  BY Calls DEF Inv, TypeOK
<1>2. /\ CallsNest /\ WaitingBlocksAreFresh /\ ChecksAreLive /\ BranchesAreLive /\ NothingErased
      /\ TypeOK /\ BuilderIsOpen /\ TerminatorsAreLast
  BY DEF Inv
<1>a. /\ phase = "generating" /\ pc \in 1..Len(body) /\ body[pc].op = "block"
      /\ stack' = Append(stack, f) /\ pc' = pc + 1
      /\ UNCHANGED <<body, blocks, erased, ins, slots, phase>>
  BY DEF GenCompound, At
<1>b. ~Top.returned
  BY <1>a, AtStatement
<1>c. f \in Frames /\ f.kind = "block" /\ ~f.returned /\ Waiting(f) = {} /\ ~AwaitsBranch(f)
  BY DEF Frame, Frames, NoBlock, Waiting, AwaitsBranch
<1> HIDE DEF n, f
<1>3. /\ stack' \in Seq(Frames) \ {<<>>} /\ Len(stack') = n + 1 /\ DOMAIN stack' = 1..(n + 1)
      /\ stack'[n + 1] = f /\ \A i \in 1..n : stack'[i] = stack[i]
  BY ONLY <1>1, <1>a, <1>c DEF n
<1>4. \A i \in 1..(n + 1) : (i \in 1..n /\ i \in DOMAIN stack) \/ i = n + 1
  BY <1>1
<1>5. /\ Waiting(stack'[n + 1]) = {} /\ ~AwaitsBranch(stack'[n + 1])
      /\ stack'[n + 1].kind = "block"
      /\ \A i \in 1..n : /\ Waiting(stack'[i]) = Waiting(stack[i])
                         /\ AwaitsBranch(stack'[i]) = AwaitsBranch(stack[i])
                         /\ stack'[i].merge = stack[i].merge
                         /\ stack'[i].other = stack[i].other
                         /\ stack'[i].kind = stack[i].kind
  BY <1>3, <1>c
<1>11. TypeOK'
  <2>1. Len(body) \in Nat /\ pc' \in 1..(Len(body) + 1)
    BY <1>2, <1>a DEF TypeOK
  <2> QED BY <2>1, <1>2, <1>3, <1>a DEF TypeOK
<1>12. TerminatorsAreLast' /\ NothingErased'
  BY <1>2, <1>a DEF TerminatorsAreLast, NothingErased
<1>13. CallsNest'
  <2>1. ~Top'.returned
    BY <1>3, <1>c DEF Top
  <2>2. \A i \in 1..n : ~stack[i].returned
    BY <1>1, <1>2, <1>b DEF CallsNest
  <2>3. \A i \in DOMAIN stack' : stack'[i].kind = "body" <=> i = 1
    BY <1>1, <1>2, <1>3, <1>4, <1>5 DEF CallsNest
  <2>4. 1..(Len(stack') - 1) = 1..n
    BY <1>1, <1>3
  <2> QED BY <2>1, <2>2, <2>3, <2>4, <1>3 DEF CallsNest
<1>14. BuilderIsOpen'
  BY <1>2, <1>a, <1>b DEF BuilderIsOpen, Open
<1>15. WaitingBlocksAreFresh'
  BY <1>2, <1>3, <1>4, <1>5, <1>a DEF WaitingBlocksAreFresh
<1>16. ChecksAreLive'
  BY <1>2, <1>3, <1>4, <1>5, <1>a DEF ChecksAreLive
<1>17. BranchesAreLive'
  BY <1>2, <1>3, <1>4, <1>5, <1>a DEF BranchesAreLive
<1> QED BY <1>11, <1>12, <1>13, <1>14, <1>15, <1>16, <1>17 DEF Inv

(* An if begins: the condition closes the current block, and the blocks of *)
(* its lists and of what follows it are new.                               *)
LEMMA IfStep ==
  ASSUME Inv, GenIf PROVE Inv'
<1> DEFINE n == Len(blocks)
           hasElse == body[pc].op = "ifelse"
           else == IF hasElse THEN n + 3 ELSE n + 2
           i == CondBr(pc, n + 1, else)
           ext == IF hasElse THEN << <<>>, <<>>, <<>> >> ELSE << <<>>, <<>> >>
           f == Frame(IF hasElse THEN "then" ELSE "if", n + 2, else)
<1>a. /\ phase = "generating" /\ pc \in 1..Len(body) /\ body[pc].op \in {"if", "ifelse"}
      /\ blocks' = [blocks EXCEPT ![ins] = Append(@, i)] \o ext
      /\ ins' = n + 1 /\ stack' = Append(stack, f)
      /\ pc' = pc + 1 /\ UNCHANGED <<body, erased, slots, phase>>
  BY DEF GenIf, At
<1>b. ~Top.returned /\ ins \in DOMAIN blocks /\ ins \notin erased /\ Open(ins)
  BY <1>a, AtStatement
<1>c. /\ blocks \in Seq(Seq(Instrs)) /\ TerminatorsAreLast /\ pc \in Nat
      /\ \A m : IsTarget(m) => m \in DOMAIN blocks
  <2>1. \A m : IsTarget(m) => m \in DOMAIN blocks
    BY BranchesByTarget DEF Inv
  <2> QED BY <2>1 DEF Inv, TypeOK
<1>d. n \in Nat /\ DOMAIN blocks = 1..n /\ else \in {n + 2, n + 3} /\ else \in Nat
  BY <1>c
<1>e. /\ f \in Frames /\ f.kind \in {"if", "then"} /\ ~f.returned /\ f.merge = n + 2 /\ f.other = else
      /\ f.kind = "then" => else = n + 3
      /\ AwaitsBranch(f) => else = n + 3
      /\ Waiting(f) \subseteq {n + 2, else}
  BY <1>d DEF Frame, Frames, AwaitsBranch, Waiting
<1>f. /\ ext \in Seq(Seq(Instrs)) /\ Len(ext) \in {2, 3} /\ (else = n + 3 => Len(ext) = 3)
      /\ \A e \in DOMAIN ext : ext[e] = <<>>
  BY <1>d
<1>g. i \in Instrs /\ Targets(i) = {n + 1, else}
  BY <1>c, <1>d, InstrFacts
<1> HIDE DEF n, hasElse, else, i, ext, f
<1>1. /\ blocks' \in Seq(Seq(Instrs)) /\ DOMAIN blocks' = 1..(n + Len(ext))
      /\ \A c \in DOMAIN blocks \ {ins} : blocks'[c] = blocks[c]
      /\ \A e \in DOMAIN ext : blocks'[n + e] = ext[e]
      /\ TerminatorsAreLast'
      /\ \A m : IsTarget(m)' =>
           \/ IsTarget(m) \/ m \in Targets(i)
           \/ \E e \in DOMAIN ext : ext[e] # <<>> /\ m \in Targets(ext[e][1])
  <2>1. \A e \in DOMAIN ext : Len(ext[e]) <= 1
    BY <1>f
  <2> QED BY ONLY <1>a, <1>b, <1>c, <1>f, <1>g, <2>1, EmitAndAdd DEF n
<1>2. \A m : IsTarget(m)' => IsTarget(m) \/ m \in {n + 1, else}
  BY ONLY <1>1, <1>f, <1>g
<1>3. {n + 1, n + 2, else} \subseteq DOMAIN blocks' \ DOMAIN blocks
  <2>1. {n + 1, n + 2, else} \cap 1..n = {} /\ {n + 1, n + 2, else} \subseteq 1..(n + Len(ext))
    <3>1. /\ n \in Nat /\ Len(ext) \in {2, 3} /\ else \in {n + 2, n + 3}
          /\ (else = n + 3 => Len(ext) = 3)
      BY ONLY <1>d, <1>f
    <3>2. {n + 1, n + 2, else} \cap 1..n = {}
      BY ONLY <3>1
    <3>3. n + 1 \in 1..(n + Len(ext)) /\ n + 2 \in 1..(n + Len(ext)) /\ else \in 1..(n + Len(ext))
      <4>1. CASE Len(ext) = 2
        BY ONLY <3>1, <4>1
      <4>2. CASE Len(ext) = 3
        BY ONLY <3>1, <4>2
      <4> QED BY ONLY <3>1, <4>1, <4>2
    <3> QED BY ONLY <3>2, <3>3
  <2> QED BY ONLY <2>1, <1>1, <1>d
<1>4. /\ blocks'[n + 1] = <<>> /\ blocks'[n + 2] = <<>>
      /\ else = n + 3 => blocks'[n + 3] = <<>>
  <2>1. DOMAIN ext = 1..Len(ext)
    BY ONLY <1>f
  <2>2. 1 \in DOMAIN ext /\ 2 \in DOMAIN ext /\ (else = n + 3 => 3 \in DOMAIN ext)
    BY ONLY <2>1, <1>f
  <2> QED BY ONLY <2>2, <1>1, <1>f
<1>5. \A m \in Waiting(f) : m \in DOMAIN blocks' \ DOMAIN blocks /\ m # ins' /\ blocks'[m] = <<>>
  <2>1. n + 2 # n + 1 /\ else # n + 1
    BY ONLY <1>d
  <2>2. blocks'[else] = <<>>
    BY ONLY <1>4, <1>d
  <2>3. \A m \in Waiting(f) : m = n + 2 \/ m = else
    BY ONLY <1>e
  <2> QED BY ONLY <2>1, <2>2, <2>3, <1>3, <1>4, <1>a
<1>6. \A m : IsTarget(m)' /\ AwaitsBranch(f) => m # f.merge
  BY ONLY <1>2, <1>c, <1>d, <1>e
<1>7. \A m : IsTarget(m)' => IsTarget(m) \/ m \in DOMAIN blocks' \ DOMAIN blocks
  BY ONLY <1>2, <1>3
<1>8. DOMAIN blocks \subseteq DOMAIN blocks' /\ ins' \in DOMAIN blocks' \ DOMAIN blocks
  BY ONLY <1>1, <1>3, <1>a, <1>d, <1>f
<1>9. /\ f.kind # "body" /\ blocks'[ins'] = <<>> /\ (f.kind = "then" => f.merge # f.other)
      /\ f.kind # "loop"
  <2>1. n + 2 # n + 3
    BY ONLY <1>d
  <2>2. f.kind # "body" /\ f.kind # "loop" /\ (f.kind = "then" => f.merge # f.other)
    BY ONLY <2>1, <1>e
  <2> QED BY ONLY <2>2, <1>4, <1>a
<1> QED BY ONLY Inv, <1>1, <1>5, <1>6, <1>7, <1>8, <1>9, <1>a, <1>b, <1>e, PushStep

(* A while begins: the current block goes to the check, which goes to the  *)
(* loop's body or behind it.                                               *)
LEMMA WhileStep ==
  ASSUME Inv, GenWhile PROVE Inv'
<1> DEFINE n == Len(blocks)
           i == Br(n + 1)
           check == CondBr(pc, n + 2, n + 3)
           ext == << <<check>>, <<>>, <<>> >>
           f == Frame("loop", n + 3, n + 1)
<1>a. /\ phase = "generating" /\ pc \in 1..Len(body) /\ body[pc].op = "while"
      /\ blocks' = [blocks EXCEPT ![ins] = Append(@, i)] \o ext
      /\ ins' = n + 2 /\ stack' = Append(stack, f)
      /\ pc' = pc + 1 /\ UNCHANGED <<body, erased, slots, phase>>
  BY DEF GenWhile, At
<1>b. ~Top.returned /\ ins \in DOMAIN blocks /\ ins \notin erased /\ Open(ins)
  BY <1>a, AtStatement
<1>c. /\ blocks \in Seq(Seq(Instrs)) /\ TerminatorsAreLast /\ pc \in Nat
  BY DEF Inv, TypeOK
<1>d. n \in Nat /\ DOMAIN blocks = 1..n
  BY <1>c
<1>e. /\ f \in Frames /\ f.kind = "loop" /\ ~f.returned /\ f.merge = n + 3 /\ f.other = n + 1
      /\ ~AwaitsBranch(f) /\ Waiting(f) = {n + 3}
  BY <1>d DEF Frame, Frames, AwaitsBranch, Waiting
<1>g. /\ i \in Instrs /\ Targets(i) = {n + 1}
      /\ check \in Instrs /\ Targets(check) = {n + 2, n + 3}
  BY <1>c, <1>d, InstrFacts
<1> HIDE DEF n, i, check
<1>f. /\ ext \in Seq(Seq(Instrs)) /\ Len(ext) = 3 /\ DOMAIN ext = 1..3
      /\ ext[1] = <<check>> /\ ext[2] = <<>> /\ ext[3] = <<>>
  BY <1>g
<1> HIDE DEF ext, f
<1>h. \A e \in DOMAIN ext : Len(ext[e]) <= 1
  <2>1. \A e \in DOMAIN ext : e = 1 \/ e = 2 \/ e = 3
    BY ONLY <1>f
  <2>2. Len(ext[1]) <= 1 /\ Len(ext[2]) <= 1 /\ Len(ext[3]) <= 1
    BY ONLY <1>f
  <2> QED BY ONLY <2>1, <2>2
<1>i. \A e \in DOMAIN ext : ext[e] # <<>> => ext[e][1] = check
  <2>1. \A e \in DOMAIN ext : e = 1 \/ e = 2 \/ e = 3
    BY ONLY <1>f
  <2>2. ext[1][1] = check
    BY ONLY <1>f
  <2> QED BY ONLY <2>1, <2>2, <1>f
<1>1. /\ blocks' \in Seq(Seq(Instrs)) /\ DOMAIN blocks' = 1..(n + Len(ext))
      /\ \A c \in DOMAIN blocks \ {ins} : blocks'[c] = blocks[c]
      /\ \A e \in DOMAIN ext : blocks'[n + e] = ext[e]
      /\ TerminatorsAreLast'
      /\ \A m : IsTarget(m)' =>
           \/ IsTarget(m) \/ m \in Targets(i)
           \/ \E e \in DOMAIN ext : ext[e] # <<>> /\ m \in Targets(ext[e][1])
  BY ONLY <1>a, <1>b, <1>c, <1>f, <1>g, <1>h, EmitAndAdd DEF n
<1>2. \A m : IsTarget(m)' => IsTarget(m) \/ m \in {n + 1, n + 2, n + 3}
  <2> SUFFICES ASSUME NEW m, IsTarget(m)', ~IsTarget(m), m \notin Targets(i)
               PROVE  m \in Targets(check)
    BY <1>g
  <2>1. PICK e \in DOMAIN ext : ext[e] # <<>> /\ m \in Targets(ext[e][1])
    BY <1>1
  <2>2. ext[e][1] = check
    BY <2>1, <1>i
  <2> QED BY ONLY <2>1, <2>2
<1>3. {n + 1, n + 2, n + 3} \subseteq DOMAIN blocks' \ DOMAIN blocks
  BY ONLY <1>1, <1>d, <1>f
<1>4. blocks'[n + 2] = <<>> /\ blocks'[n + 3] = <<>>
  <2>1. 2 \in DOMAIN ext /\ 3 \in DOMAIN ext
    BY ONLY <1>f
  <2> QED BY ONLY <2>1, <1>1, <1>f
<1>5. \A m \in Waiting(f) : m \in DOMAIN blocks' \ DOMAIN blocks /\ m # ins' /\ blocks'[m] = <<>>
  BY ONLY <1>3, <1>4, <1>a, <1>d, <1>e
<1>6. \A m : IsTarget(m)' /\ AwaitsBranch(f) => m # f.merge
  BY ONLY <1>e
<1>7. \A m : IsTarget(m)' => IsTarget(m) \/ m \in DOMAIN blocks' \ DOMAIN blocks
  BY ONLY <1>2, <1>3
<1>8. DOMAIN blocks \subseteq DOMAIN blocks' /\ ins' \in DOMAIN blocks' \ DOMAIN blocks
  BY ONLY <1>1, <1>3, <1>a, <1>d, <1>f
<1>9. /\ f.kind # "body" /\ blocks'[ins'] = <<>> /\ f.kind # "then"
      /\ f.other \in DOMAIN blocks' \ DOMAIN blocks /\ f.other \notin Waiting(f)
  BY ONLY <1>3, <1>4, <1>a, <1>d, <1>e
<1> QED BY ONLY Inv, <1>1, <1>5, <1>6, <1>7, <1>8, <1>9, <1>a, <1>b, <1>e, PushStep

(* Every step preserves Inv. *)
LEMMA NextInv == Inv /\ [Next]_vars => Inv'
<1> SUFFICES ASSUME Inv, [Next]_vars PROVE Inv'
  OBVIOUS
<1>a. Inv => pc \in Nat /\ slots \subseteq Nat
  BY DEF Inv, TypeOK
<1>b. Do(pc) # Ret(pc)
  BY DEF Do, Ret, Instr
<1>c. pc \in 1..Len(body) => slots \cup {pc} \subseteq Nat
  BY <1>a
<1>1. CASE GenArgument
  <2>1. /\ phase = "generating" /\ pc \in 1..Len(body) /\ body[pc].op \notin {"else", "end"}
        /\ Emit(Do(pc)) /\ AfterStatement(stack, FALSE, pc + 1) /\ slots' \subseteq Nat
        /\ UNCHANGED <<body, erased, ins, phase>>
    BY <1>1, <1>c DEF GenArgument, At
  <2> QED BY ONLY Inv, <2>1, <1>b, SimpleStep
<1>2. CASE GenVariableDeclaration
  <2>1. /\ phase = "generating" /\ pc \in 1..Len(body) /\ body[pc].op \notin {"else", "end"}
        /\ Emit(Do(pc)) /\ AfterStatement(stack, FALSE, pc + 1) /\ slots' \subseteq Nat
        /\ UNCHANGED <<body, erased, ins, phase>>
    BY <1>2, <1>c DEF GenVariableDeclaration, At
  <2> QED BY ONLY Inv, <2>1, <1>b, SimpleStep
<1>3. CASE GenVariableAssign \/ GenExpression
  <2>1. /\ phase = "generating" /\ pc \in 1..Len(body) /\ body[pc].op \notin {"else", "end"}
        /\ Emit(Do(pc)) /\ AfterStatement(stack, FALSE, pc + 1) /\ slots' \subseteq Nat
        /\ UNCHANGED <<body, erased, ins, phase>>
    BY <1>3, <1>a DEF GenVariableAssign, GenExpression, At
  <2> QED BY ONLY Inv, <2>1, <1>b, SimpleStep
<1>4. CASE GenReturn
  <2>1. /\ phase = "generating" /\ pc \in 1..Len(body) /\ body[pc].op \notin {"else", "end"}
        /\ Emit(Ret(pc)) /\ AfterStatement(stack, TRUE, pc + 1) /\ slots' \subseteq Nat
        /\ UNCHANGED <<body, erased, ins, phase>>
    BY <1>4, <1>a DEF GenReturn, At
  <2> QED BY ONLY Inv, <2>1, <1>b, SimpleStep
<1>5. CASE GenCompound
  BY <1>5, BeginCompoundStep
<1>6. CASE EndCompound
  BY <1>6, CompoundStep
<1>7. CASE GenIf
  BY <1>7, IfStep
<1>8. CASE GenElse
  BY <1>8, ElseStep
<1>9. CASE EndIf
  <2>1. /\ phase = "generating" /\ pc \in 1..Len(body) /\ Top.kind \in {"if", "else", "loop"}
        /\ Top.merge = IF Top.kind = "loop" THEN Top.other ELSE Top.merge
        /\ BranchUnlessReturned(Top.merge) /\ ins' = Top.merge
        /\ AfterStatement(Below, FALSE, pc + 1) /\ erased' = erased
        /\ UNCHANGED <<body, slots, phase>>
    BY <1>9 DEF EndIf, At
  <2> QED BY ONLY Inv, <2>1, EndStep
<1>10. CASE EndIfElse
  <2> DEFINE r == Top.thenReturned /\ Top.returned
  <2>1. /\ phase = "generating" /\ pc \in 1..Len(body) /\ Top.kind = "else"
        /\ BranchUnlessReturned(Top.merge) /\ ins' = Top.merge
        /\ AfterStatement(Below, r, pc + 1)
        /\ erased' = IF r THEN erased \cup {Top.merge} ELSE erased
        /\ UNCHANGED <<body, slots, phase>>
    BY <1>10 DEF EndIfElse, EndIfElseWith, At
  <2>2. r \in BOOLEAN /\ (r => Top.thenReturned /\ Top.returned)
    OBVIOUS
  <2> HIDE DEF r
  <2>3. /\ Top.kind \in {"if", "else", "loop"}
        /\ Top.merge = IF Top.kind = "loop" THEN Top.other ELSE Top.merge
        /\ r => Top.kind = "else" /\ Top.thenReturned /\ Top.returned
    BY <2>1, <2>2
  <2> QED BY ONLY Inv, <2>1, <2>2, <2>3, EndStep
<1>11. CASE GenWhile
  BY <1>11, WhileStep
<1>12. CASE EndWhile
  <2>1. /\ phase = "generating" /\ pc \in 1..Len(body) /\ Top.kind \in {"if", "else", "loop"}
        /\ Top.other = IF Top.kind = "loop" THEN Top.other ELSE Top.merge
        /\ BranchUnlessReturned(Top.other) /\ ins' = Top.merge
        /\ AfterStatement(Below, FALSE, pc + 1) /\ erased' = erased
        /\ UNCHANGED <<body, slots, phase>>
    BY <1>12 DEF EndWhile, EndWhileWith, At
  <2> QED BY ONLY Inv, <2>1, EndStep
<1>13. CASE EndFunction
  <2>1. /\ phase' = "done" /\ ins' = NoBlock
        /\ UNCHANGED <<body, pc, stack, blocks, erased, slots>>
    BY <1>13 DEF EndFunction
  <2>2. CallsNest' /\ BuilderIsOpen'
    BY <2>1 DEF Inv, CallsNest, BuilderIsOpen
  <2>3. TypeOK' /\ TerminatorsAreLast' /\ NothingErased'
    BY <2>1 DEF Inv, TypeOK, TerminatorsAreLast, NothingErased
  <2>4. \A i \in DOMAIN stack : \A m \in Waiting(stack[i]) : m # NoBlock
    BY DEF Inv, TypeOK, WaitingBlocksAreFresh, NoBlock
  <2>5. WaitingBlocksAreFresh' /\ ChecksAreLive' /\ BranchesAreLive'
    BY <2>1, <2>4 DEF Inv, WaitingBlocksAreFresh, ChecksAreLive, BranchesAreLive
  <2> QED BY <2>2, <2>3, <2>5 DEF Inv
<1>14. CASE Abort
  <2>1. phase' \in {"thrown", "crashed"} /\ UNCHANGED <<body, pc, stack, blocks, erased, ins, slots>>
    BY <1>14 DEF Abort
  <2>2. CallsNest' /\ BuilderIsOpen'
    BY <2>1 DEF Inv, CallsNest, BuilderIsOpen
  <2>3. TypeOK' /\ TerminatorsAreLast' /\ NothingErased'
    BY <2>1 DEF Inv, TypeOK, TerminatorsAreLast, NothingErased
  <2>4. WaitingBlocksAreFresh' /\ ChecksAreLive' /\ BranchesAreLive'
    BY <2>1 DEF Inv, WaitingBlocksAreFresh, ChecksAreLive, BranchesAreLive
  <2> QED BY <2>2, <2>3, <2>4 DEF Inv
<1>15. CASE UNCHANGED vars
  BY <1>15 DEF vars, Inv, TypeOK, TerminatorsAreLast, NothingErased, CallsNest, Top, BuilderIsOpen,
     Open, WaitingBlocksAreFresh, ChecksAreLive, BranchesAreLive
<1> QED BY <1>1, <1>2, <1>3, <1>4, <1>5, <1>6, <1>7, <1>8, <1>9, <1>10, <1>11, <1>12, <1>13,
           <1>14, <1>15 DEF Next

(* Inv is an invariant: whatever nesting of lists is walked, the builder's  *)
(* block is open and the blocks still to be filled are live and untouched.  *)
THEOREM GenerationInvariant == Spec => []Inv
<1>1. Init => Inv
  BY InitInv
<1>2. Inv /\ [Next]_vars => Inv'
  BY NextInv
<1> QED BY <1>1, <1>2, PTL DEF Spec

(* Every variable of the walk stays in its type. *)
THEOREM TypeCorrect == Spec => []TypeOK
<1>1. Inv => TypeOK
  BY DEF Inv
<1> QED BY <1>1, GenerationInvariant, PTL

(* No generator function appends to a block that is closed already. *)
THEOREM TerminatorsStayLast == Spec => []TerminatorsAreLast
<1>1. Inv => TerminatorsAreLast
  BY DEF Inv
<1> QED BY <1>1, GenerationInvariant, PTL

(* Erasing an ifMerge never removes generated code. *)
THEOREM ErasedBlocksAreEmpty == Spec => []NothingErased
<1>1. Inv => NothingErased
  BY DEF Inv
<1> QED BY <1>1, GenerationInvariant, PTL

(* A list that has not returned goes on in a live block without terminator. *)
THEOREM BuilderStaysInOpenBlock == Spec => []InsertionPointIsOpen
<1>1. Inv => InsertionPointIsOpen
  <2> SUFFICES ASSUME Inv, phase = "generating", ~Top.returned
               PROVE  ins \in DOMAIN blocks \ erased /\ ~Terminated(ins)
    BY DEF InsertionPointIsOpen
  <2>1. ins \in DOMAIN blocks \ erased /\ Open(ins) /\ blocks[ins] \in Seq(Instrs)
    BY DEF Inv, BuilderIsOpen, TypeOK
  <2>2. blocks[ins] # <<>> => Len(blocks[ins]) \in DOMAIN blocks[ins]
    BY <2>1
  <2> QED BY <2>1, <2>2 DEF Open, Terminated
<1> QED BY <1>1, GenerationInvariant, PTL

(* No generated branch leads to an erased block. *)
THEOREM BranchesReachLiveBlocks == Spec => []NoBranchToErased
<1>1. Inv => NoBranchToErased
  BY DEF Inv, BranchesAreLive, NoBranchToErased
<1> QED BY <1>1, GenerationInvariant, PTL

----------------------------------------------------------------------------
(* Two more properties for every set of bodies: code generated is never    *)
(* rewritten, and a function whose body returned has no block without a    *)
(* terminator.                                                             *)

(* A live block that is still open is the one the builder stands in, or    *)
(* some active call will move the builder there.                           *)
Awaited(b) == \E i \in DOMAIN stack : b \in Waiting(stack[i])

OpenBlocksAreAwaited ==
  phase = "generating" =>
    \A b \in DOMAIN blocks \ erased :
      Terminated(b) \/ (b = ins /\ ~Top.returned) \/ Awaited(b)

ClosedInv == Inv /\ OpenBlocksAreAwaited /\ ReturnedFunctionIsClosed

(* Code is never rewritten: a step only appends, to the builder's block. *)
Grows ==
  \A b \in DOMAIN blocks :
    /\ b \in DOMAIN blocks' /\ Len(blocks[b]) <= Len(blocks'[b])
    /\ SubSeq(blocks'[b], 1, Len(blocks[b])) = blocks[b]
    /\ b # ins => blocks'[b] = blocks[b]

----------------------------------------------------------------------------
(* Emitting an instruction and adding blocks, seen from what was there.    *)
LEMMA EmitGrows ==
  ASSUME blocks \in Seq(Seq(Instrs)), ins \in DOMAIN blocks, NEW i \in Instrs,
         NEW ext \in Seq(Seq(Instrs)),
         blocks' = [blocks EXCEPT ![ins] = Append(@, i)] \o ext
  PROVE  /\ Grows
         /\ DOMAIN blocks' = 1..(Len(blocks) + Len(ext))
         /\ \A e \in DOMAIN ext : blocks'[Len(blocks) + e] = ext[e]
         /\ \A b : b = ins /\ Terminator(i) => Terminated(b)'
<1> DEFINE mid == [blocks EXCEPT ![ins] = Append(@, i)]
<1>1. /\ mid \in Seq(Seq(Instrs)) /\ DOMAIN mid = DOMAIN blocks /\ Len(mid) = Len(blocks)
      /\ \A c \in DOMAIN blocks \ {ins} : mid[c] = blocks[c]
      /\ mid[ins] \in Seq(Instrs)
      /\ Len(mid[ins]) = Len(blocks[ins]) + 1
      /\ mid[ins][Len(blocks[ins]) + 1] = i
      /\ \A k \in 1..Len(blocks[ins]) : mid[ins][k] = blocks[ins][k]
  BY EmitIn
<1>2. blocks' = mid \o ext
  OBVIOUS
<1> HIDE DEF mid
<1>3. /\ DOMAIN blocks' = 1..(Len(blocks) + Len(ext))
      /\ \A c \in DOMAIN blocks : c \in DOMAIN blocks' /\ blocks'[c] = mid[c]
      /\ \A e \in DOMAIN ext : blocks'[Len(blocks) + e] = ext[e]
  BY ONLY blocks \in Seq(Seq(Instrs)), ext \in Seq(Seq(Instrs)), <1>1, <1>2
<1>4. blocks[ins] \in Seq(Instrs) /\ \A b \in DOMAIN blocks : blocks[b] \in Seq(Instrs)
  OBVIOUS
<1>5. ASSUME NEW s \in Seq(Instrs) PROVE SubSeq(s, 1, Len(s)) = s
  OBVIOUS
<1>6. SubSeq(mid[ins], 1, Len(blocks[ins])) = blocks[ins]
  <2> DEFINE s == mid[ins]
             t == blocks[ins]
  <2>1. s \in Seq(Instrs) /\ t \in Seq(Instrs) /\ Len(s) = Len(t) + 1
        /\ \A k \in 1..Len(t) : s[k] = t[k]
    BY <1>1, <1>4
  <2> HIDE DEF s, t
  <2>2. SubSeq(s, 1, Len(t)) = t
    BY ONLY <2>1
  <2> QED BY <2>2 DEF s, t
<1>7. Grows
  <2>1. ASSUME NEW b \in DOMAIN blocks
        PROVE  /\ SubSeq(mid[b], 1, Len(blocks[b])) = blocks[b]
               /\ b # ins => mid[b] = blocks[b]
    BY <1>1, <1>4, <1>5, <1>6
  <2> QED BY <1>3, <2>1 DEF Grows
<1>8. Len(mid[ins]) = Len(blocks[ins]) + 1 /\ mid[ins] # <<>>
  BY <1>1, <1>4
<1> QED BY <1>1, <1>3, <1>7, <1>8 DEF Terminated

LEMMA SameGrows ==
  ASSUME blocks \in Seq(Seq(Instrs)), blocks' = blocks
  PROVE  Grows
<1>1. ASSUME NEW s \in Seq(Instrs) PROVE SubSeq(s, 1, Len(s)) = s
  OBVIOUS
<1>2. \A b \in DOMAIN blocks : blocks[b] \in Seq(Instrs)
  OBVIOUS
<1> QED BY <1>1, <1>2 DEF Grows

LEMMA EmitOnlyGrows ==
  ASSUME blocks \in Seq(Seq(Instrs)), ins \in DOMAIN blocks, NEW i \in Instrs, Emit(i)
  PROVE  /\ Grows
         /\ DOMAIN blocks' = DOMAIN blocks
         /\ \A b : b = ins /\ Terminator(i) => Terminated(b)'
<1> DEFINE mid == [blocks EXCEPT ![ins] = Append(@, i)]
           ext == <<>>
<1>1. mid \in Seq(Seq(Instrs))
  BY EmitIn
<1>2. ext \in Seq(Seq(Instrs)) /\ Len(ext) = 0
  OBVIOUS
<1>3. blocks' = mid \o ext
  <2>1. blocks' = mid
    BY DEF Emit
  <2> HIDE DEF mid
  <2> QED BY <2>1, <1>1
<1> HIDE DEF ext
<1>4. /\ Grows
      /\ DOMAIN blocks' = 1..(Len(blocks) + Len(ext))
      /\ \A b : b = ins /\ Terminator(i) => Terminated(b)'
  BY <1>2, <1>3, EmitGrows
<1>5. Len(blocks) \in Nat /\ DOMAIN blocks = 1..Len(blocks)
  OBVIOUS
<1> QED BY <1>2, <1>4, <1>5

(* The end of a list closes the builder's block, if it was not closed.     *)
LEMMA BranchGrows ==
  ASSUME Inv, phase = "generating", NEW t \in Nat, BranchUnlessReturned(t)
  PROVE  /\ Grows
         /\ DOMAIN blocks' = DOMAIN blocks
         /\ \A b : b = ins /\ ~Top.returned => Terminated(b)'
         /\ Top.returned => blocks' = blocks
<1>1. blocks \in Seq(Seq(Instrs))
  BY DEF Inv, TypeOK
<1>2. CASE Top.returned
  BY <1>1, <1>2, SameGrows DEF BranchUnlessReturned
<1>3. CASE ~Top.returned
  <2>1. ins \in DOMAIN blocks /\ Emit(Br(t))
    BY <1>3 DEF Inv, BuilderIsOpen, BranchUnlessReturned
  <2>2. Br(t) \in Instrs /\ Terminator(Br(t))
    BY InstrFacts
  <2> HIDE DEF Emit
  <2> QED BY <1>1, <1>3, <2>1, <2>2, EmitOnlyGrows
<1> QED BY <1>2, <1>3

(* What a statement that opens lists does to the blocks.                   *)
LEMMA IfGrows ==
  ASSUME Inv, GenIf
  PROVE  /\ Grows /\ blocks'[ins'] = <<>>
         /\ \A b : b = ins => Terminated(b)'
         /\ \A b \in DOMAIN blocks' \ DOMAIN blocks : b = ins' \/ b \in Waiting(stack'[Len(stack')])
         /\ ~stack'[Len(stack')].returned
         /\ Len(stack') = Len(stack) + 1 /\ \A j \in DOMAIN stack : stack'[j] = stack[j]
         /\ erased' = erased
<1> DEFINE n == Len(blocks)
           hasElse == body[pc].op = "ifelse"
           else == IF hasElse THEN n + 3 ELSE n + 2
           i == CondBr(pc, n + 1, else)
           ext == IF hasElse THEN << <<>>, <<>>, <<>> >> ELSE << <<>>, <<>> >>
           f == Frame(IF hasElse THEN "then" ELSE "if", n + 2, else)
<1>1. /\ phase = "generating" /\ pc \in 1..Len(body) /\ body[pc].op \in {"if", "ifelse"}
      /\ blocks' = [blocks EXCEPT ![ins] = Append(@, i)] \o ext
      /\ ins' = n + 1 /\ stack' = Append(stack, f) /\ erased' = erased
  BY DEF GenIf, At
<1>2. ins \in DOMAIN blocks
  BY <1>1, AtStatement
<1>3. blocks \in Seq(Seq(Instrs)) /\ pc \in Nat /\ stack \in Seq(Frames)
  BY DEF Inv, TypeOK
<1>4. n \in Nat /\ DOMAIN blocks = 1..n /\ else \in Nat
  BY <1>3
<1>5. i \in Instrs /\ Terminator(i)
  BY <1>3, <1>4, InstrFacts
<1>6. /\ ext \in Seq(Seq(Instrs)) /\ Len(ext) = IF hasElse THEN 3 ELSE 2
      /\ 1 \in DOMAIN ext /\ ext[1] = <<>>
  OBVIOUS
<1>7. /\ f \in Frames /\ ~f.returned
      /\ {n + 2, else} \subseteq Waiting(f)
  BY <1>4 DEF Frame, Frames, Waiting
<1>8. else = IF hasElse THEN n + 3 ELSE n + 2
  OBVIOUS
<1>n. n = Len(blocks)
  OBVIOUS
<1> HIDE DEF n, hasElse, else, i, ext, f
<1>9. /\ Grows /\ DOMAIN blocks' = 1..(n + Len(ext)) /\ blocks'[n + 1] = <<>>
      /\ \A b : b = ins => Terminated(b)'
  <2> QED BY ONLY <1>1, <1>2, <1>3, <1>5, <1>6, <1>n, EmitGrows
<1>10. /\ Len(stack') = Len(stack) + 1 /\ stack'[Len(stack')] = f
       /\ \A j \in DOMAIN stack : stack'[j] = stack[j]
  BY ONLY <1>1, <1>3, <1>7
<1>11. ASSUME NEW b \in DOMAIN blocks' \ DOMAIN blocks PROVE b = ins' \/ b \in Waiting(f)
  <2>1. b \in (n + 1)..(n + Len(ext))
    BY ONLY <1>4, <1>6, <1>9, <1>11
  <2>a. Len(ext) = 2 \/ (Len(ext) = 3 /\ else = n + 3)
    BY ONLY <1>6, <1>8
  <2>b. b = n + 1 \/ b = n + 2 \/ (b = n + 3 /\ else = n + 3)
    <3>1. CASE Len(ext) = 2
      BY ONLY <1>4, <3>1, <2>1
    <3>2. CASE Len(ext) = 3 /\ else = n + 3
      BY ONLY <1>4, <3>2, <2>1
    <3> QED BY ONLY <2>a, <3>1, <3>2
  <2>2. b \in {n + 1, n + 2, else}
    BY ONLY <2>b
  <2> QED BY ONLY <1>1, <1>7, <2>2
<1> QED BY ONLY <1>1, <1>7, <1>9, <1>10, <1>11

LEMMA WhileGrows ==
  ASSUME Inv, GenWhile
  PROVE  /\ Grows /\ blocks'[ins'] = <<>>
         /\ \A b : b = ins => Terminated(b)'
         /\ \A b \in DOMAIN blocks' \ DOMAIN blocks :
              b = ins' \/ b \in Waiting(stack'[Len(stack')]) \/ Terminated(b)'
         /\ ~stack'[Len(stack')].returned
         /\ Len(stack') = Len(stack) + 1 /\ \A j \in DOMAIN stack : stack'[j] = stack[j]
         /\ erased' = erased
<1> DEFINE n == Len(blocks)
           i == Br(n + 1)
           check == CondBr(pc, n + 2, n + 3)
           ext == << <<check>>, <<>>, <<>> >>
           f == Frame("loop", n + 3, n + 1)
<1>1. /\ phase = "generating" /\ pc \in 1..Len(body) /\ body[pc].op = "while"
      /\ blocks' = [blocks EXCEPT ![ins] = Append(@, i)] \o ext
      /\ ins' = n + 2 /\ stack' = Append(stack, f) /\ erased' = erased
  BY DEF GenWhile, At
<1>2. ins \in DOMAIN blocks
  BY <1>1, AtStatement
<1>3. blocks \in Seq(Seq(Instrs)) /\ pc \in Nat /\ stack \in Seq(Frames)
  BY DEF Inv, TypeOK
<1>4. n \in Nat /\ DOMAIN blocks = 1..n
  BY <1>3
<1>5. i \in Instrs /\ Terminator(i) /\ check \in Instrs /\ Terminator(check)
  BY <1>3, <1>4, InstrFacts
<1>7. /\ f \in Frames /\ ~f.returned /\ Waiting(f) = {n + 3}
  BY <1>4 DEF Frame, Frames, Waiting
<1>n. n = Len(blocks)
  OBVIOUS
<1> HIDE DEF n, i, check
<1>6. ext \in Seq(Seq(Instrs)) /\ Len(ext) = 3 /\ 1 \in DOMAIN ext /\ ext[1] = <<check>>
      /\ 2 \in DOMAIN ext /\ ext[2] = <<>>
  BY <1>5
<1> HIDE DEF ext, f
<1>9. /\ Grows /\ DOMAIN blocks' = 1..(n + Len(ext))
      /\ \A b : b = ins => Terminated(b)'
      /\ blocks'[n + 1] = <<check>> /\ blocks'[n + 2] = <<>>
  BY ONLY <1>1, <1>2, <1>3, <1>5, <1>6, <1>n, EmitGrows
<1>10. /\ Len(stack') = Len(stack) + 1 /\ stack'[Len(stack')] = f
       /\ \A j \in DOMAIN stack : stack'[j] = stack[j]
  BY ONLY <1>1, <1>3, <1>7
<1>11. ASSUME NEW b \in DOMAIN blocks' \ DOMAIN blocks
       PROVE  b = ins' \/ b \in Waiting(f) \/ Terminated(b)'
  <2>1. b \in {n + 1, n + 2, n + 3}
    BY ONLY <1>4, <1>6, <1>9, <1>11
  <2>2. blocks'[n + 1] # <<>> /\ Terminator(blocks'[n + 1][Len(blocks'[n + 1])])
    BY ONLY <1>5, <1>9
  <2> QED BY ONLY <1>1, <1>7, <2>1, <2>2 DEF Terminated
<1> QED BY ONLY <1>1, <1>7, <1>9, <1>10, <1>11

(* Every step only appends, and only to the block the builder stands in.   *)
LEMMA NextGrows == Inv /\ [Next]_vars => Grows
<1> SUFFICES ASSUME Inv, [Next]_vars PROVE Grows
  OBVIOUS
<1>1. blocks \in Seq(Seq(Instrs)) /\ pc \in Nat
  BY DEF Inv, TypeOK
<1>2. Do(pc) \in Instrs /\ Ret(pc) \in Instrs
  BY <1>1, InstrFacts
<1>3. CASE GenArgument \/ GenVariableDeclaration \/ GenVariableAssign \/ GenExpression \/ GenReturn
  <2>1. PICK i \in {Do(pc), Ret(pc)} : At({"arg", "let", "assign", "use", "return"}) /\ Emit(i)
    BY <1>3 DEF GenArgument, GenVariableDeclaration, GenVariableAssign, GenExpression, GenReturn, At
  <2>2. ins \in DOMAIN blocks
    BY <2>1, AtStatement DEF At
  <2> HIDE DEF Emit
  <2> QED BY <1>1, <1>2, <2>1, <2>2, EmitOnlyGrows
<1>4. CASE GenCompound \/ EndCompound \/ EndFunction \/ Abort \/ UNCHANGED vars
  <2>1. blocks' = blocks
    BY <1>4 DEF GenCompound, EndCompound, EndFunction, Abort, vars
  <2> QED BY <1>1, <2>1, SameGrows
<1>5. CASE GenElse \/ EndIf \/ EndIfElse \/ EndWhile
  <2>1. phase = "generating" /\ (BranchUnlessReturned(Top.merge) \/ BranchUnlessReturned(Top.other))
    BY <1>5 DEF GenElse, EndIf, EndIfElse, EndIfElseWith, EndWhile, EndWhileWith, At
  <2>2. Top.merge \in Nat /\ Top.other \in Nat
    BY Calls DEF Inv, TypeOK, Frames
  <2> QED BY <2>1, <2>2, BranchGrows
<1>6. CASE GenIf
  BY <1>6, IfGrows
<1>7. CASE GenWhile
  BY <1>7, WhileGrows
<1> QED BY <1>3, <1>4, <1>5, <1>6, <1>7 DEF Next

----------------------------------------------------------------------------
(* A block that is closed stays closed, since the builder's is open.       *)
LEMMA ClosedStays ==
  ASSUME Grows, NEW b \in DOMAIN blocks, Terminated(b), b # ins \/ blocks'[b] = blocks[b]
  PROVE  Terminated(b)'
  BY DEF Grows, Terminated

(* A statement without lists closes the builder's block iff it returns.    *)
LEMMA SimpleCloses ==
  ASSUME Inv, OpenBlocksAreAwaited,
         phase = "generating", pc \in 1..Len(body), body[pc].op \notin {"else", "end"},
         NEW r \in BOOLEAN, NEW i \in {Do(pc), Ret(pc)}, r => i = Ret(pc),
         Emit(i), AfterStatement(stack, r, pc + 1), UNCHANGED <<erased, ins>>
  PROVE  OpenBlocksAreAwaited'
<1>1. /\ blocks \in Seq(Seq(Instrs)) /\ pc \in Nat /\ stack \in Seq(Frames) \ {<<>>}
      /\ body \in Seq(StatementsOver(Names)) /\ pc + 1 \in Nat \ {0} /\ pc + 1 <= Len(body) + 1
  BY DEF Inv, TypeOK
<1>2. ins \in DOMAIN blocks
  BY AtStatement
<1>3. i \in Instrs /\ (r => Terminator(i))
  BY <1>1, InstrFacts
<1>4. /\ Grows /\ DOMAIN blocks' = DOMAIN blocks
      /\ \A b : b = ins /\ Terminator(i) => Terminated(b)'
  BY ONLY <1>1, <1>2, <1>3, EmitOnlyGrows, Emit(i)
<1>5. /\ Len(stack') = Len(stack) /\ DOMAIN stack' = DOMAIN stack
      /\ \A j \in DOMAIN stack : Waiting(stack'[j]) = Waiting(stack[j])
      /\ stack'[Len(stack)].returned = r
  BY <1>1, AfterStatementFacts
<1>6. Top'.returned = r
  BY <1>5 DEF Top
<1>7. ASSUME NEW b \in DOMAIN blocks' \ erased'
      PROVE  Terminated(b)' \/ (b = ins' /\ ~Top'.returned) \/ Awaited(b)'
  <2>1. b \in DOMAIN blocks \ erased
    BY <1>4
  <2>2. CASE b = ins
    BY <2>2, <1>3, <1>4, <1>6
  <2>3. CASE b # ins
    <3>1. Terminated(b) \/ Awaited(b)
      BY <2>1, <2>3 DEF OpenBlocksAreAwaited
    <3>2. Awaited(b) => Awaited(b)'
      BY <1>5 DEF Awaited
    <3> QED BY <2>1, <2>3, <3>1, <3>2, <1>4, ClosedStays
  <2> QED BY <2>2, <2>3
<1> QED BY <1>7 DEF OpenBlocksAreAwaited

(* A list begins: what was awaited still is, the builder's block is closed *)
(* or still the builder's, and new blocks are awaited.                     *)
LEMMA PushCloses ==
  ASSUME Inv, OpenBlocksAreAwaited, phase = "generating",
         Grows, \A b : b = ins => Terminated(b)' \/ b = ins',
         \A b \in DOMAIN blocks' \ DOMAIN blocks :
           b = ins' \/ b \in Waiting(stack'[Len(stack')]) \/ Terminated(b)',
         ~stack'[Len(stack')].returned,
         Len(stack') = Len(stack) + 1, DOMAIN stack' = 1..Len(stack'),
         \A j \in DOMAIN stack : stack'[j] = stack[j], erased' = erased
  PROVE  OpenBlocksAreAwaited'
<1>1. Len(stack) \in Nat /\ DOMAIN stack = 1..Len(stack)
  BY DEF Inv, TypeOK
<1>2. DOMAIN stack \subseteq DOMAIN stack' /\ Len(stack') \in DOMAIN stack'
  BY <1>1
<1>3. ~Top'.returned
  BY DEF Top
<1>4. ASSUME NEW b \in DOMAIN blocks' \ erased'
      PROVE  Terminated(b)' \/ (b = ins' /\ ~Top'.returned) \/ Awaited(b)'
  <2>1. CASE b \notin DOMAIN blocks
    BY <2>1, <1>2, <1>3 DEF Awaited
  <2>2. CASE b = ins
    BY <2>2, <1>3
  <2>3. CASE b \in DOMAIN blocks /\ b # ins
    <3>1. Terminated(b) \/ Awaited(b)
      BY <2>3 DEF OpenBlocksAreAwaited
    <3>2. Awaited(b) => Awaited(b)'
      BY <1>2 DEF Awaited
    <3> QED BY <2>3, <3>1, <3>2, ClosedStays
  <2> QED BY <2>1, <2>2, <2>3
<1> QED BY <1>4 DEF OpenBlocksAreAwaited

(* A list of an if or a loop ends: the block that awaited the builder is   *)
(* now the builder's, or erased.                                           *)
LEMMA EndCloses ==
  ASSUME Inv, OpenBlocksAreAwaited, phase = "generating", pc \in 1..Len(body),
         Top.kind \in {"if", "else", "loop"}, NEW t \in Nat,
         NEW r \in BOOLEAN,
         BranchUnlessReturned(t), ins' = Top.merge, AfterStatement(Below, r, pc + 1),
         erased' = IF r THEN erased \cup {Top.merge} ELSE erased, body' = body
  PROVE  OpenBlocksAreAwaited'
<1> DEFINE n == Len(stack)
<1>1. /\ n \in Nat \ {0} /\ DOMAIN stack = 1..n /\ Top = stack[n]
      /\ Below \in Seq(Frames) /\ Len(Below) = n - 1 /\ DOMAIN Below = 1..(n - 1)
      /\ \A i \in 1..(n - 1) : Below[i] = stack[i]
  BY Calls DEF Inv, TypeOK
<1>2. n # 1
  BY <1>1 DEF Inv, CallsNest
<1>n. n = Len(stack)
  OBVIOUS
<1> HIDE DEF n
<1>3. /\ Below \in Seq(Frames) \ {<<>>} /\ body \in Seq(StatementsOver(Names))
      /\ pc + 1 \in Nat \ {0} /\ pc + 1 <= Len(body) + 1
  BY <1>1, <1>2 DEF Inv, TypeOK
<1>4. /\ Len(stack') = Len(Below) /\ DOMAIN stack' = DOMAIN Below
      /\ \A j \in DOMAIN Below : Waiting(stack'[j]) = Waiting(Below[j])
      /\ stack'[Len(Below)].returned = r
  BY ONLY <1>3, AfterStatementFacts, r \in BOOLEAN, AfterStatement(Below, r, pc + 1)
<1>5. Top'.returned = r
  BY <1>4 DEF Top
<1>6. Waiting(Top) = {Top.merge}
  BY DEF Waiting
<1>7. /\ Grows /\ DOMAIN blocks' = DOMAIN blocks
      /\ \A b : b = ins /\ ~Top.returned => Terminated(b)'
      /\ Top.returned => blocks' = blocks
  BY BranchGrows
<1>8. ASSUME NEW b \in DOMAIN blocks' \ erased'
      PROVE  Terminated(b)' \/ (b = ins' /\ ~Top'.returned) \/ Awaited(b)'
  <2>1. b \in DOMAIN blocks \ erased
    BY <1>7
  <2>2. CASE Terminated(b)
    <3>1. CASE Top.returned
      BY <2>1, <2>2, <3>1, <1>7, ClosedStays
    <3>2. CASE ~Top.returned
      BY <2>1, <2>2, <3>2, <1>7, ClosedStays
    <3> QED BY <3>1, <3>2
  <2>3. CASE b = ins /\ ~Top.returned
    BY <2>3, <1>7
  <2>4. CASE Awaited(b)
    <3>1. PICK i \in 1..n : b \in Waiting(stack[i])
      BY <2>4, <1>1 DEF Awaited
    <3>2. CASE i = n
      BY <3>1, <3>2, <1>1, <1>5, <1>6
    <3>3. CASE i # n
      <4>1. i \in 1..(n - 1)
        BY <3>3, <1>1
      <4> QED BY <4>1, <3>1, <1>1, <1>4 DEF Awaited
    <3> QED BY <3>2, <3>3
  <2> QED BY <2>1, <2>2, <2>3, <2>4 DEF OpenBlocksAreAwaited
<1> QED BY <1>8, SMTT(30) DEF OpenBlocksAreAwaited

(* The list behind else begins: ifElse becomes the builder's, and ifMerge  *)
(* still awaits it.                                                        *)
LEMMA ElseCloses ==
  ASSUME Inv, OpenBlocksAreAwaited, GenElse PROVE OpenBlocksAreAwaited'
<1> DEFINE n == Len(stack)
           f == [Top EXCEPT !.kind = "else", !.thenReturned = Top.returned, !.returned = FALSE]
<1>1. /\ n \in Nat \ {0} /\ DOMAIN stack = 1..n /\ Top = stack[n] /\ Top \in Frames
      /\ Below \in Seq(Frames) /\ Len(Below) = n - 1 /\ DOMAIN Below = 1..(n - 1)
      /\ \A i \in 1..(n - 1) : Below[i] = stack[i]
  BY Calls DEF Inv, TypeOK
<1>2. /\ phase = "generating" /\ Top.kind = "then"
      /\ BranchUnlessReturned(Top.merge) /\ ins' = Top.other /\ stack' = Append(Below, f)
      /\ erased' = erased /\ Top.merge \in Nat
  BY <1>1 DEF GenElse, At, Frames
<1>3. f \in Frames /\ f.kind = "else" /\ f.merge = Top.merge /\ ~f.returned
  BY <1>1 DEF Frames
<1>4. Waiting(Top) = {Top.merge, Top.other} /\ Waiting(f) = {Top.merge}
  BY <1>2, <1>3 DEF Waiting
<1> HIDE DEF n, f
<1>5. /\ Len(stack') = n /\ DOMAIN stack' = 1..n
      /\ stack'[n] = f /\ \A i \in 1..(n - 1) : stack'[i] = stack[i]
  <2>1. /\ Len(stack') = Len(Below) + 1 /\ DOMAIN stack' = 1..(Len(Below) + 1)
        /\ stack'[Len(Below) + 1] = f /\ \A i \in 1..Len(Below) : stack'[i] = Below[i]
    BY ONLY <1>1, <1>2, <1>3
  <2> QED BY <2>1, <1>1
<1>6. ~Top'.returned
  BY <1>3, <1>5 DEF Top
<1>7. /\ Grows /\ DOMAIN blocks' = DOMAIN blocks
      /\ \A b : b = ins /\ ~Top.returned => Terminated(b)'
      /\ Top.returned => blocks' = blocks
  BY <1>2, BranchGrows
<1>8. ASSUME NEW b \in DOMAIN blocks' \ erased'
      PROVE  Terminated(b)' \/ (b = ins' /\ ~Top'.returned) \/ Awaited(b)'
  <2>1. b \in DOMAIN blocks \ erased
    BY <1>2, <1>7
  <2>2. CASE Terminated(b)
    <3>1. CASE Top.returned
      BY <2>1, <2>2, <3>1, <1>7, ClosedStays
    <3>2. CASE ~Top.returned
      BY <2>1, <2>2, <3>2, <1>7, ClosedStays
    <3> QED BY <3>1, <3>2
  <2>3. CASE b = ins /\ ~Top.returned
    BY <2>3, <1>7
  <2>4. CASE Awaited(b)
    <3>1. PICK i \in 1..n : b \in Waiting(stack[i])
      BY <2>4, <1>1 DEF Awaited
    <3>2. CASE i = n
      <4>1. n \in DOMAIN stack'
        BY <1>1, <1>5
      <4>2. b = Top.other \/ b \in Waiting(stack'[n])
        BY <3>1, <3>2, <1>1, <1>4, <1>5
      <4> QED BY <4>1, <4>2, <1>2, <1>6 DEF Awaited
    <3>3. CASE i # n
      <4>1. i \in 1..(n - 1) /\ i \in DOMAIN stack'
        BY <3>3, <1>1, <1>5
      <4> QED BY <4>1, <3>1, <1>5 DEF Awaited
    <3> QED BY <3>2, <3>3
  <2> QED BY <1>2, <2>1, <2>2, <2>3, <2>4 DEF OpenBlocksAreAwaited
<1> QED BY <1>8 DEF OpenBlocksAreAwaited

(* A compound awaits nothing: what it returned is what its list returned.  *)
LEMMA CompoundCloses ==
  ASSUME Inv, OpenBlocksAreAwaited, EndCompound PROVE OpenBlocksAreAwaited'
<1> DEFINE n == Len(stack)
<1>1. /\ n \in Nat \ {0} /\ DOMAIN stack = 1..n /\ Top = stack[n] /\ Top \in Frames
      /\ Below \in Seq(Frames) /\ Len(Below) = n - 1 /\ DOMAIN Below = 1..(n - 1)
      /\ \A i \in 1..(n - 1) : Below[i] = stack[i]
  BY Calls DEF Inv, TypeOK
<1>2. /\ phase = "generating" /\ pc \in 1..Len(body) /\ Top.kind = "block"
      /\ AfterStatement(Below, Top.returned, pc + 1)
      /\ UNCHANGED <<body, blocks, erased, ins>>
  BY DEF EndCompound, At
<1>3. n # 1
  BY <1>1, <1>2 DEF Inv, CallsNest
<1> HIDE DEF n
<1>4. /\ Below \in Seq(Frames) \ {<<>>} /\ body \in Seq(StatementsOver(Names))
      /\ pc + 1 \in Nat \ {0} /\ pc + 1 <= Len(body) + 1 /\ Top.returned \in BOOLEAN
  BY <1>1, <1>2, <1>3 DEF Inv, TypeOK, Frames
<1>5. /\ Len(stack') = Len(Below) /\ DOMAIN stack' = DOMAIN Below
      /\ \A j \in DOMAIN Below : Waiting(stack'[j]) = Waiting(Below[j])
      /\ stack'[Len(Below)].returned = Top.returned
  BY ONLY <1>2, <1>4, AfterStatementFacts
<1>6. Top'.returned = Top.returned
  BY <1>5 DEF Top
<1>7. Waiting(Top) = {}
  BY <1>2 DEF Waiting
<1>8. ASSUME NEW b \in DOMAIN blocks, Awaited(b) PROVE Awaited(b)'
  <2>1. PICK i \in 1..n : b \in Waiting(stack[i])
    BY <1>8, <1>1 DEF Awaited
  <2>2. i \in 1..(n - 1)
    <3>1. i # n
      BY <2>1, <1>1, <1>7
    <3> QED BY <3>1, <1>1
  <2> QED BY <2>1, <2>2, <1>1, <1>5 DEF Awaited
<1> QED BY <1>2, <1>6, <1>8 DEF OpenBlocksAreAwaited, Terminated

(* When the body of the function ends nobody waits any more.               *)
LEMMA FunctionCloses ==
  ASSUME Inv, OpenBlocksAreAwaited, EndFunction PROVE ReturnedFunctionIsClosed'
<1>1. /\ phase = "generating" /\ Top.kind = "body" /\ UNCHANGED <<stack, blocks, erased>>
  BY DEF EndFunction
<1>2. /\ Len(stack) \in Nat \ {0} /\ DOMAIN stack = 1..Len(stack) /\ Top = stack[Len(stack)]
  BY Calls DEF Inv, TypeOK
<1>3. Len(stack) = 1
  BY <1>1, <1>2 DEF Inv, CallsNest
<1>4. \A b : ~Awaited(b)
  BY <1>1, <1>2, <1>3 DEF Awaited, Waiting
<1> QED BY <1>1, <1>4 DEF OpenBlocksAreAwaited, ReturnedFunctionIsClosed, Terminated, Top

----------------------------------------------------------------------------
LEMMA InitCloses == Init => ClosedInv
<1> SUFFICES ASSUME Init PROVE ClosedInv
  OBVIOUS
<1>1. Inv
  BY InitInv
<1>2. DOMAIN blocks = {1} /\ ins = 1 /\ ~Top.returned /\ phase = "generating"
  BY DEF Init, Top, Frame
<1> QED BY <1>1, <1>2 DEF ClosedInv, OpenBlocksAreAwaited, ReturnedFunctionIsClosed

LEMMA NextCloses == ClosedInv /\ [Next]_vars => ClosedInv'
<1> SUFFICES ASSUME ClosedInv, [Next]_vars PROVE ClosedInv'
  OBVIOUS
<1>a. Inv /\ OpenBlocksAreAwaited /\ ReturnedFunctionIsClosed
  BY DEF ClosedInv
<1>b. Inv'
  BY <1>a, NextInv
<1>c. /\ pc \in Nat /\ blocks \in Seq(Seq(Instrs)) /\ stack \in Seq(Frames)
      /\ Top.merge \in Nat /\ Top.other \in Nat
  BY <1>a, Calls DEF Inv, TypeOK, Frames
<1>d. phase' = "generating" => ReturnedFunctionIsClosed'
  BY DEF ReturnedFunctionIsClosed
<1>1. CASE GenArgument \/ GenVariableDeclaration \/ GenVariableAssign \/ GenExpression
  <2>1. /\ phase = "generating" /\ pc \in 1..Len(body) /\ body[pc].op \notin {"else", "end"}
        /\ Emit(Do(pc)) /\ AfterStatement(stack, FALSE, pc + 1) /\ UNCHANGED <<erased, ins, phase>>
    BY <1>1 DEF GenArgument, GenVariableDeclaration, GenVariableAssign, GenExpression, At
  <2>2. OpenBlocksAreAwaited'
    BY ONLY <1>a, <2>1, SimpleCloses
  <2> QED BY <1>b, <1>d, <2>1, <2>2 DEF ClosedInv
<1>2. CASE GenReturn
  <2>1. /\ phase = "generating" /\ pc \in 1..Len(body) /\ body[pc].op \notin {"else", "end"}
        /\ Emit(Ret(pc)) /\ AfterStatement(stack, TRUE, pc + 1) /\ UNCHANGED <<erased, ins, phase>>
    BY <1>2 DEF GenReturn, At
  <2>2. OpenBlocksAreAwaited'
    BY ONLY <1>a, <2>1, SimpleCloses
  <2> QED BY <1>b, <1>d, <2>1, <2>2 DEF ClosedInv
<1>3. CASE GenCompound
  <2> DEFINE f == Frame("block", NoBlock, NoBlock)
  <2>1. /\ phase = "generating" /\ stack' = Append(stack, f)
        /\ UNCHANGED <<blocks, erased, ins, phase>>
    BY <1>3 DEF GenCompound, At
  <2>2. f \in Frames /\ ~f.returned
    BY DEF Frame, Frames, NoBlock
  <2> HIDE DEF f
  <2>3. /\ Len(stack') = Len(stack) + 1 /\ DOMAIN stack' = 1..Len(stack')
        /\ stack'[Len(stack')] = f /\ \A j \in DOMAIN stack : stack'[j] = stack[j]
    BY ONLY <1>c, <2>1, <2>2
  <2>4. Grows
    BY ONLY <1>c, <2>1, SameGrows
  <2>5. OpenBlocksAreAwaited'
    BY ONLY <1>a, <2>1, <2>2, <2>3, <2>4, PushCloses
  <2> QED BY <1>b, <1>d, <2>1, <2>5 DEF ClosedInv
<1>4. CASE GenIf
  <2>1. /\ phase = "generating" /\ phase' = "generating"
        /\ stack' \in Seq(Frames)
    BY <1>4, <1>b DEF GenIf, At, Inv, TypeOK
  <2>2. DOMAIN stack' = 1..Len(stack')
    BY <2>1
  <2>3. OpenBlocksAreAwaited'
    BY ONLY <1>4, <1>a, <2>1, <2>2, IfGrows, PushCloses
  <2> QED BY <1>b, <1>d, <2>1, <2>3 DEF ClosedInv
<1>5. CASE GenWhile
  <2>1. /\ phase = "generating" /\ phase' = "generating"
        /\ stack' \in Seq(Frames)
    BY <1>5, <1>b DEF GenWhile, At, Inv, TypeOK
  <2>2. DOMAIN stack' = 1..Len(stack')
    BY <2>1
  <2>3. OpenBlocksAreAwaited'
    BY ONLY <1>5, <1>a, <2>1, <2>2, WhileGrows, PushCloses
  <2> QED BY <1>b, <1>d, <2>1, <2>3 DEF ClosedInv
<1>6. CASE GenElse
  <2>1. phase' = "generating"
    BY <1>6 DEF GenElse, At
  <2> QED BY <1>6, <1>a, <1>b, <1>d, <2>1, ElseCloses DEF ClosedInv
<1>7. CASE EndIf \/ EndIfElse \/ EndWhile
  <2>1. PICK t \in {Top.merge, Top.other}, r \in BOOLEAN :
          /\ phase = "generating" /\ pc \in 1..Len(body) /\ Top.kind \in {"if", "else", "loop"}
          /\ BranchUnlessReturned(t) /\ ins' = Top.merge /\ AfterStatement(Below, r, pc + 1)
          /\ erased' = IF r THEN erased \cup {Top.merge} ELSE erased
          /\ body' = body /\ phase' = phase
    <3>1. CASE EndIf
      BY <3>1 DEF EndIf, At
    <3>2. CASE EndIfElse
      <4> DEFINE q == Top.thenReturned /\ Top.returned
      <4>1. /\ q \in BOOLEAN /\ phase = "generating" /\ pc \in 1..Len(body)
            /\ Top.kind = "else"
            /\ BranchUnlessReturned(Top.merge) /\ ins' = Top.merge
            /\ AfterStatement(Below, q, pc + 1)
            /\ erased' = IF q THEN erased \cup {Top.merge} ELSE erased
            /\ body' = body /\ phase' = phase
        BY <3>2 DEF EndIfElse, EndIfElseWith, At
      <4> HIDE DEF q
      <4> QED BY <4>1
    <3>3. CASE EndWhile
      BY <3>3 DEF EndWhile, EndWhileWith, At
    <3> QED BY <1>7, <3>1, <3>2, <3>3
  <2>2. t \in Nat
    BY <1>c
  <2>3. OpenBlocksAreAwaited'
    BY ONLY <1>a, <2>1, <2>2, EndCloses
  <2> QED BY <1>b, <1>d, <2>1, <2>3 DEF ClosedInv
<1>8. CASE EndCompound
  <2>1. phase' = "generating"
    BY <1>8 DEF EndCompound, At
  <2> QED BY <1>8, <1>a, <1>b, <1>d, <2>1, CompoundCloses DEF ClosedInv
<1>9. CASE EndFunction
  <2>1. OpenBlocksAreAwaited'
    BY <1>9 DEF EndFunction, OpenBlocksAreAwaited
  <2> QED BY <1>9, <1>a, <1>b, <2>1, FunctionCloses DEF ClosedInv
<1>10. CASE Abort
  <2>1. phase' \in {"thrown", "crashed"}
    BY <1>10 DEF Abort
  <2> QED BY <2>1, <1>b DEF ClosedInv, OpenBlocksAreAwaited, ReturnedFunctionIsClosed
<1>11. CASE UNCHANGED vars
  BY <1>11, <1>a, <1>b DEF vars, ClosedInv, OpenBlocksAreAwaited, Awaited, Waiting,
     ReturnedFunctionIsClosed, Terminated, Top
<1> QED BY <1>1, <1>2, <1>3, <1>4, <1>5, <1>6, <1>7, <1>8, <1>9, <1>10, <1>11 DEF Next

(* A function whose body returned on every path is complete: each of its   *)
(* blocks that survives ends in a terminator, whatever was nested in it.   *)
THEOREM ReturnedFunctionsAreClosed == Spec => []ReturnedFunctionIsClosed
<1>1. Init => ClosedInv
  BY InitCloses
<1>2. ClosedInv /\ [Next]_vars => ClosedInv'
  BY NextCloses
<1>3. ClosedInv => ReturnedFunctionIsClosed
  BY DEF ClosedInv
<1> QED BY <1>1, <1>2, <1>3, PTL DEF Spec

(* What BuilderClosesWhatItLeaves says of one step. *)
LeavesClosed ==
  \A b \in DOMAIN blocks :
    b = ins /\ ins' \notin {ins, NoBlock} =>
      /\ b \in erased \/ Terminated(b)'
      /\ blocks'[ins'] = <<>>

(* The end of a list moves the builder to a block that waited for it.      *)
LEMMA EndLeavesClosed ==
  ASSUME Inv, OpenBlocksAreAwaited, phase = "generating",
         NEW t \in Nat, BranchUnlessReturned(t), ins' \in Waiting(Top)
  PROVE  LeavesClosed
<1>1. /\ Len(stack) \in DOMAIN stack /\ Top = stack[Len(stack)]
  BY Calls DEF Inv, TypeOK
<1>2. /\ ins' \in DOMAIN blocks /\ ins' # ins /\ blocks[ins'] = <<>>
      /\ ~Awaited(ins)
  BY <1>1 DEF Inv, WaitingBlocksAreFresh, Awaited
<1>3. /\ Grows
      /\ \A b : b = ins /\ ~Top.returned => Terminated(b)'
      /\ Top.returned => blocks' = blocks
  BY BranchGrows
<1>4. blocks'[ins'] = <<>>
  BY <1>2, <1>3 DEF Grows
<1>5. ASSUME NEW b \in DOMAIN blocks, b = ins, Top.returned
      PROVE  b \in erased \/ Terminated(b)'
  <2>1. b \in erased \/ Terminated(b)
    BY <1>2, <1>5 DEF OpenBlocksAreAwaited
  <2> QED BY <1>3, <1>5, <2>1 DEF Terminated
<1> QED BY <1>3, <1>4, <1>5 DEF LeavesClosed

LEMMA NextLeavesClosed == ClosedInv /\ [Next]_vars => LeavesClosed
<1> SUFFICES ASSUME ClosedInv, [Next]_vars PROVE LeavesClosed
  OBVIOUS
<1>1. /\ Inv /\ OpenBlocksAreAwaited /\ Top.merge \in Nat /\ Top.other \in Nat
  BY Calls DEF ClosedInv, Inv, TypeOK, Frames
<1>2. CASE ins' \in {ins, NoBlock}
  BY <1>2 DEF LeavesClosed
<1>3. CASE GenIf
  BY <1>1, <1>3, IfGrows DEF LeavesClosed
<1>4. CASE GenWhile
  BY <1>1, <1>4, WhileGrows DEF LeavesClosed
<1>5. CASE GenElse \/ EndIf \/ EndIfElse \/ EndWhile
  <2>1. /\ phase = "generating" /\ (BranchUnlessReturned(Top.merge) \/ BranchUnlessReturned(Top.other))
        /\ ins' \in Waiting(Top)
    BY <1>5 DEF GenElse, EndIf, EndIfElse, EndIfElseWith, EndWhile, EndWhileWith, At, Waiting
  <2> QED BY <1>1, <2>1, EndLeavesClosed
<1>6. CASE GenArgument \/ GenVariableDeclaration \/ GenVariableAssign \/ GenExpression \/ GenReturn
           \/ GenCompound \/ EndCompound \/ EndFunction \/ Abort \/ UNCHANGED vars
  <2>1. ins' \in {ins, NoBlock}
    BY <1>6 DEF GenArgument, GenVariableDeclaration, GenVariableAssign, GenExpression, GenReturn,
                GenCompound, EndCompound, EndFunction, Abort, vars
  <2> QED BY <1>2, <2>1
<1> QED BY <1>3, <1>4, <1>5, <1>6 DEF Next

(* However lists and returns are nested: SetInsertPoint (CodeGenerator.h)  *)
(* only leaves a block that is closed or erased, and goes to an empty one. *)
THEOREM LeftBlocksAreClosed == Spec => BuilderClosesWhatItLeaves
<1>1. Init => ClosedInv
  BY InitCloses
<1>2. ClosedInv /\ [Next]_vars => ClosedInv'
  BY NextCloses
<1>3. ClosedInv /\ [Next]_vars => [LeavesClosed]_vars
  BY NextLeavesClosed
<1> QED BY <1>1, <1>2, <1>3, PTL DEF Spec, BuilderClosesWhatItLeaves, LeavesClosed

----------------------------------------------------------------------------
(* The returns of the generator.  The flags of the active calls, by the    *)
(* depth of their lists:                                                   *)
ReturnedIn(calls) == {k \in 0..(Len(calls) - 1) : calls[k + 1].returned}
ThenReturnedIn(calls) == {k \in 0..(Len(calls) - 1) : calls[k + 1].thenReturned}

Flows(b, q, calls) ==
  /\ Len(calls) = Depth(b, q) + 1
  /\ \A k \in 1..Depth(b, q) : calls[k + 1].kind = KindOf(b, Enclosing(b, q, k), q)
  /\ Notes(b, Returning(b), q, ReturnedIn(calls), ThenReturnedIn(calls), TRUE)

FlowInv ==
  /\ Inv
  /\ phase = "generating" => Balanced(body) /\ Flows(body, pc, stack)
  /\ ReturnAnalysisIsExact

(* Behind a return the generator goes on at the end of the list. *)
LEMMA SkipFlows ==
  ASSUME NEW b, Stream(b), Balanced(b), NEW q \in 1..(Len(b) + 1), NEW calls, Flows(b, q, calls),
         calls[Len(calls)].returned
  PROVE  Flows(b, ListEnd(b, q), calls)
<1>1. PICK D \in Nat : D = Depth(b, q) /\ Len(calls) = D + 1
  BY DepthStarts DEF Flows
<1>2. D \in ReturnedIn(calls)
  <2>1. D \in 0..(Len(calls) - 1)
    BY <1>1
  <2> QED  BY <1>1, <2>1 DEF ReturnedIn
<1>3. Notes(b, Returning(b), q, ReturnedIn(calls), ThenReturnedIn(calls), TRUE)
  BY DEF Flows
<1>4. Returning(b) \in SUBSET (1..Len(b)) /\ IsReturning(b, Returning(b))
  BY ReturningIs
<1>5. Notes(b, Returning(b), ListEnd(b, q), ReturnedIn(calls), ThenReturnedIn(calls), TRUE)
  BY <1>1, <1>2, <1>3, <1>4, NotesSkip
<1>6. Depth(b, ListEnd(b, q)) = Depth(b, q)
      /\ \A k \in 1..Depth(b, q) :
           KindOf(b, Enclosing(b, ListEnd(b, q), k), ListEnd(b, q)) = KindOf(b, Enclosing(b, q, k), q)
  BY SkipStays
<1> QED  BY <1>5, <1>6 DEF Flows

LEMMA StatementFlows ==
  ASSUME NEW b, Stream(b), Balanced(b), NEW q \in 1..Len(b), b[q].op \notin Openers \cup Marks,
         NEW calls, Flows(b, q, calls), ~calls[Len(calls)].returned,
         NEW new, Len(new) = Len(calls),
         \A i \in 1..Len(calls) : new[i].kind = calls[i].kind /\ (new[i].thenReturned <=> calls[i].thenReturned),
         \A i \in 1..(Len(calls) - 1) : new[i].returned <=> calls[i].returned,
         new[Len(calls)].returned <=> b[q].op = "return"
  PROVE  Flows(b, q + 1, new)
<1>1. PICK D \in Nat : D = Depth(b, q) /\ Len(calls) = D + 1
  BY StayingInLists DEF Flows
<1>2. Depth(b, q + 1) = D /\ \A k \in 0..D : StaysIn(b, q, q + 1, k)
  BY <1>1, StayingInLists
<1>3. ThenReturnedIn(new) = ThenReturnedIn(calls)
  <2>1. \A k \in 0..D : k + 1 \in 1..Len(calls)
    BY <1>1
  <2> QED  BY <1>1, <2>1 DEF ThenReturnedIn
<1>4. /\ \A k \in 0..(D - 1) : k \in ReturnedIn(new) <=> k \in ReturnedIn(calls)
      /\ D \in ReturnedIn(new) <=> D \in ReturnedIn(calls) \/ b[q].op = "return"
  <2>1. \A k \in 0..(D - 1) : k + 1 \in 1..(Len(calls) - 1) /\ k \in 0..(Len(calls) - 1)
    BY <1>1
  <2>2. D \in 0..(Len(calls) - 1) /\ D + 1 = Len(calls)
    BY <1>1
  <2> QED  BY <1>1, <2>1, <2>2 DEF ReturnedIn
<1>5. \A k \in 1..D : new[k + 1].kind = KindOf(b, Enclosing(b, q + 1, k), q + 1)
  <2>1. ASSUME NEW k \in 1..D  PROVE new[k + 1].kind = KindOf(b, Enclosing(b, q + 1, k), q + 1)
    <3>1. k \in 1..Depth(b, q) /\ k + 1 \in 1..Len(calls) /\ k \in 0..D
      BY <1>1
    <3>2. KindOf(b, Enclosing(b, q + 1, k), q + 1) = KindOf(b, Enclosing(b, q, k), q)
      BY <1>2, <3>1, KindStays
    <3> QED  BY <3>1, <3>2 DEF Flows
  <2> QED  BY <2>1
<1>6. Notes(b, Returning(b), q + 1, ReturnedIn(new), ThenReturnedIn(new), TRUE)
  <2>1. Notes(b, Returning(b), q, ReturnedIn(calls), ThenReturnedIn(calls), TRUE)
    BY DEF Flows
  <2>2. Returning(b) \in SUBSET (1..Len(b)) /\ IsReturning(b, Returning(b))
    BY ReturningIs
  <2> QED  BY <1>1, <1>3, <1>4, <2>1, <2>2, NotesStatement
<1> QED  BY <1>1, <1>2, <1>5, <1>6 DEF Flows

LEMMA OpenFlows ==
  ASSUME NEW b, Stream(b), Balanced(b), NEW q \in 1..Len(b), b[q].op \in Openers,
         NEW calls, Flows(b, q, calls), NEW new, Len(new) = Len(calls) + 1,
         \A i \in 1..Len(calls) : new[i] = calls[i],
         new[Len(calls) + 1].kind = KindOf(b, q, q + 1), ~new[Len(calls) + 1].returned
  PROVE  Flows(b, q + 1, new)
<1>1. PICK D \in Nat : D = Depth(b, q) /\ Len(calls) = D + 1
  BY StayingInLists DEF Flows
<1>2. Depth(b, q + 1) = D + 1 /\ \A k \in 0..D : StaysIn(b, q, q + 1, k)
  BY <1>1, StayingInLists DEF Openers, Marks
<1>3. Enclosing(b, q + 1, D + 1) = q
  BY <1>1, OpensList
<1>4. Len(new) - 1 = D + 1 /\ Len(calls) - 1 = D /\ Len(calls) + 1 = (D + 1) + 1 /\ Len(new) = (D + 1) + 1
  BY <1>1
<1>5. /\ \A k \in 0..D : /\ k \in ReturnedIn(new) <=> k \in ReturnedIn(calls)
                         /\ k \in ThenReturnedIn(new) <=> k \in ThenReturnedIn(calls)
      /\ D + 1 \notin ReturnedIn(new)
  <2>1. \A k \in 0..D : k + 1 \in 1..Len(calls) /\ k \in 0..(D + 1) /\ new[k + 1] = calls[k + 1]
    BY <1>1
  <2>2. ~new[(D + 1) + 1].returned
    BY <1>4
  <2> QED  BY <1>1, <1>4, <2>1, <2>2 DEF ReturnedIn, ThenReturnedIn
<1>6. \A k \in 1..(D + 1) : new[k + 1].kind = KindOf(b, Enclosing(b, q + 1, k), q + 1)
  <2>1. ASSUME NEW k \in 1..D  PROVE new[k + 1].kind = KindOf(b, Enclosing(b, q + 1, k), q + 1)
    <3>1. k \in 1..Depth(b, q) /\ k + 1 \in 1..Len(calls) /\ k \in 0..D
      BY <1>1
    <3>2. KindOf(b, Enclosing(b, q + 1, k), q + 1) = KindOf(b, Enclosing(b, q, k), q)
      BY <1>2, <3>1, KindStays
    <3> QED  BY <3>1, <3>2 DEF Flows
  <2>2. new[(D + 1) + 1].kind = KindOf(b, Enclosing(b, q + 1, D + 1), q + 1)
    BY <1>3, <1>4
  <2>3. \A k \in 1..(D + 1) : k \in 1..D \/ k = D + 1
    OBVIOUS
  <2> QED  BY <2>1, <2>2, <2>3
<1>7. Notes(b, Returning(b), q + 1, ReturnedIn(new), ThenReturnedIn(new), TRUE)
  <2>1. Notes(b, Returning(b), q, ReturnedIn(calls), ThenReturnedIn(calls), TRUE)
    BY DEF Flows
  <2> QED  BY <1>1, <1>5, <2>1, NotesOpen
<1> QED  BY <1>2, <1>4, <1>6, <1>7 DEF Flows

LEMMA ElseFlows ==
  ASSUME NEW b, Stream(b), Balanced(b), NEW q \in 1..Len(b), b[q].op = "else",
         NEW calls, Flows(b, q, calls), NEW new, Len(new) = Len(calls),
         \A i \in 1..(Len(calls) - 1) : new[i] = calls[i],
         new[Len(calls)].kind = "else", ~new[Len(calls)].returned,
         new[Len(calls)].thenReturned <=> calls[Len(calls)].returned
  PROVE  Flows(b, q + 1, new)
<1>1. PICK D \in Nat \ {0} : D = Depth(b, q) /\ Len(calls) = D + 1
  BY StayingInLists DEF Flows
<1>2. Depth(b, q + 1) = D /\ \A k \in 0..(D - 1) : StaysIn(b, q, q + 1, k)
  BY <1>1, StayingInLists
<1>3. PICK o : o = Enclosing(b, q, D)
  OBVIOUS
<1>4. b[o].op = "ifelse" /\ InElse(b, o, q + 1) /\ Enclosing(b, q + 1, D) = o
  <2>1. o = Enclosing(b, q, Depth(b, q)) /\ b[q].op \in Marks
    BY <1>1, <1>3 DEF Marks
  <2> QED  BY <1>1, <2>1, MarkOf
<1>5. /\ \A k \in 0..(D - 1) : /\ k \in ReturnedIn(new) <=> k \in ReturnedIn(calls)
                               /\ k \in ThenReturnedIn(new) <=> k \in ThenReturnedIn(calls)
      /\ D \notin ReturnedIn(new) /\ (D \in ThenReturnedIn(new) <=> D \in ReturnedIn(calls))
  <2>1. \A k \in 0..(D - 1) : k + 1 \in 1..(Len(calls) - 1) /\ k \in 0..D /\ new[k + 1] = calls[k + 1]
    BY <1>1
  <2>2. D \in 0..D /\ D + 1 = Len(calls) /\ Len(calls) - 1 = D /\ Len(new) - 1 = D
    BY <1>1
  <2> QED  BY <2>1, <2>2 DEF ReturnedIn, ThenReturnedIn
<1>6. \A k \in 1..D : new[k + 1].kind = KindOf(b, Enclosing(b, q + 1, k), q + 1)
  <2>1. ASSUME NEW k \in 1..(D - 1)  PROVE new[k + 1].kind = KindOf(b, Enclosing(b, q + 1, k), q + 1)
    <3>1. k \in 1..Depth(b, q) /\ k + 1 \in 1..(Len(calls) - 1) /\ k \in 0..(D - 1)
      BY <1>1
    <3>2. KindOf(b, Enclosing(b, q + 1, k), q + 1) = KindOf(b, Enclosing(b, q, k), q)
      BY <1>2, <3>1, KindStays
    <3> QED  BY <3>1, <3>2 DEF Flows
  <2>2. new[D + 1].kind = KindOf(b, Enclosing(b, q + 1, D), q + 1)
    BY <1>1, <1>4 DEF KindOf
  <2>3. \A k \in 1..D : k \in 1..(D - 1) \/ k = D
    OBVIOUS
  <2> QED  BY <2>1, <2>2, <2>3
<1>7. Notes(b, Returning(b), q + 1, ReturnedIn(new), ThenReturnedIn(new), TRUE)
  <2>1. Notes(b, Returning(b), q, ReturnedIn(calls), ThenReturnedIn(calls), TRUE)
    BY DEF Flows
  <2>2. Returning(b) \in SUBSET (1..Len(b)) /\ IsReturning(b, Returning(b))
    BY ReturningIs
  <2> QED  BY <1>1, <1>5, <2>1, <2>2, NotesElse
<1> QED  BY <1>1, <1>2, <1>6, <1>7 DEF Flows

(* A list ends, and with it the statement that opened it: r is what its    *)
(* gen...Statement returns.                                                *)
LEMMA EndFlows ==
  ASSUME NEW b, Stream(b), Balanced(b), NEW q \in 1..Len(b), b[q].op = "end",
         NEW calls, Flows(b, q, calls), NEW r,
         LET top == calls[Len(calls)]
         IN /\ top.kind = "block" => (r <=> top.returned)
            /\ top.kind = "else" => (r <=> top.thenReturned /\ top.returned)
            /\ top.kind \in {"if", "loop"} => ~r,
         ~calls[Len(calls) - 1].returned,
         NEW new, Len(new) = Len(calls) - 1,
         \A i \in 1..(Len(calls) - 1) : new[i].kind = calls[i].kind /\ (new[i].thenReturned <=> calls[i].thenReturned),
         \A i \in 1..(Len(calls) - 2) : new[i].returned <=> calls[i].returned,
         new[Len(calls) - 1].returned <=> r
  PROVE  Flows(b, q + 1, new)
<1>1. PICK d \in Nat : /\ d = Depth(b, q) - 1 /\ Depth(b, q) = d + 1
                       /\ Len(calls) = d + 2 /\ Len(calls) - 1 = d + 1 /\ Len(calls) - 2 = d /\ Len(new) = d + 1
  <2>1. Depth(b, q) \in Nat /\ Depth(b, q + 1) \in Nat /\ Depth(b, q + 1) = Depth(b, q) - 1
    BY StayingInLists
  <2>2. Len(calls) = Depth(b, q) + 1 /\ Len(new) = Len(calls) - 1
    BY DEF Flows
  <2>3. PICK n, m : n = Len(calls) /\ m = Len(new)
    OBVIOUS
  <2> QED  BY <2>1, <2>2, <2>3
<1>2. Depth(b, q + 1) = d /\ \A k \in 0..d : StaysIn(b, q, q + 1, k)
  <2>1. \A k \in 0..d : k \in 0..(Depth(b, q) - 1)
    BY <1>1
  <2> QED  BY <1>1, <2>1, StayingInLists
<1>3. PICK o : o = Enclosing(b, q, d + 1)
  OBVIOUS
<1>4. b[o].op \in Openers /\ (b[o].op = "ifelse" => InElse(b, o, q)) /\ o \in 1..(q - 1)
  <2>1. o = Enclosing(b, q, Depth(b, q)) /\ b[q].op \in Marks
    BY <1>1, <1>3 DEF Marks
  <2> QED  BY <2>1, MarkOf
<1>5. calls[d + 2].kind = KindOf(b, o, q)
  <2>1. d + 1 \in 1..Depth(b, q) /\ (d + 1) + 1 = d + 2
    BY <1>1
  <2> QED  BY <1>3, <2>1 DEF Flows
<1>6. /\ \A k \in 0..d : k \in ThenReturnedIn(new) <=> k \in ThenReturnedIn(calls)
      /\ \A k \in 0..(d - 1) : k \in ReturnedIn(new) <=> k \in ReturnedIn(calls)
      /\ d \notin ReturnedIn(calls) /\ (d \in ReturnedIn(new) <=> r)
      /\ d + 1 \in ReturnedIn(calls) <=> calls[d + 2].returned
      /\ d + 1 \in ThenReturnedIn(calls) <=> calls[d + 2].thenReturned
  <2>1. \A k \in 0..d : k + 1 \in 1..(Len(calls) - 1) /\ k \in 0..(Len(calls) - 1) /\ k \in 0..(Len(new) - 1)
    BY <1>1
  <2>2. \A i \in 1..d : new[i].returned <=> calls[i].returned
    BY <1>1
  <2>3. \A k \in 0..(d - 1) : k + 1 \in 1..d /\ k \in 0..d
    OBVIOUS
  <2>4. d \in 0..d /\ d + 1 = Len(calls) - 1 /\ (d + 1) + 1 = d + 2 /\ d + 1 \in 0..(Len(calls) - 1)
    BY <1>1
  <2> QED  BY <2>1, <2>2, <2>3, <2>4 DEF ReturnedIn, ThenReturnedIn
<1>7. /\ b[o].op = "block" => (r <=> d + 1 \in ReturnedIn(calls))
      /\ b[o].op = "ifelse" => (r <=> d + 1 \in ReturnedIn(calls) /\ d + 1 \in ThenReturnedIn(calls))
      /\ b[o].op \in {"if", "while"} => ~r
  BY <1>1, <1>4, <1>5, <1>6 DEF KindOf
<1>8. \A k \in 1..d : new[k + 1].kind = KindOf(b, Enclosing(b, q + 1, k), q + 1)
  <2>1. ASSUME NEW k \in 1..d  PROVE new[k + 1].kind = KindOf(b, Enclosing(b, q + 1, k), q + 1)
    <3>1. k \in 1..Depth(b, q) /\ k + 1 \in 1..(Len(calls) - 1) /\ k \in 0..d
      BY <1>1
    <3>2. KindOf(b, Enclosing(b, q + 1, k), q + 1) = KindOf(b, Enclosing(b, q, k), q)
      BY <1>2, <3>1, KindStays
    <3> QED  BY <3>1, <3>2 DEF Flows
  <2> QED  BY <2>1
<1>9. Notes(b, Returning(b), q + 1, ReturnedIn(new), ThenReturnedIn(new), TRUE)
  <2>1. Notes(b, Returning(b), q, ReturnedIn(calls), ThenReturnedIn(calls), TRUE)
    BY DEF Flows
  <2>2. Returning(b) \in SUBSET (1..Len(b)) /\ IsReturning(b, Returning(b))
    BY ReturningIs
  <2>3. PICK kind : kind = b[Enclosing(b, q, Depth(b, q))].op
    OBVIOUS
  <2>4. kind = b[o].op
    BY <1>1, <1>3, <2>3
  <2>5. /\ kind = "block" => (d \in ReturnedIn(new) <=> d \in ReturnedIn(calls) \/ d + 1 \in ReturnedIn(calls))
        /\ kind = "ifelse" => (d \in ReturnedIn(new) <=> d \in ReturnedIn(calls)
                                 \/ (d + 1 \in ReturnedIn(calls) /\ d + 1 \in ThenReturnedIn(calls)))
        /\ kind = "while" => (d \in ReturnedIn(new) <=> d \in ReturnedIn(calls))
        /\ kind = "if" => (d \in ReturnedIn(calls) => d \in ReturnedIn(new))
                          /\ (TRUE => (d \in ReturnedIn(new) => d \in ReturnedIn(calls)))
    BY <1>6, <1>7, <2>4
  <2> QED  BY <1>1, <1>6, <2>1, <2>2, <2>3, <2>5, NotesEnd
<1>10. Len(new) = d + 1
  BY <1>1
<1> QED  BY <1>2, <1>8, <1>9, <1>10 DEF Flows

(* Where the walk is, in terms of the body. *)
LEMMA GeneratingFacts ==
  ASSUME FlowInv, phase = "generating"
  PROVE  /\ Inv /\ Stream(body) /\ Balanced(body) /\ Flows(body, pc, stack)
         /\ stack \in Seq(Frames) \ {<<>>} /\ Len(stack) \in Nat \ {0} /\ Len(body) \in Nat
         /\ pc \in 1..(Len(body) + 1)
<1>1. Inv /\ TypeOK /\ Balanced(body) /\ Flows(body, pc, stack)
  BY DEF FlowInv, Inv
<1>2. Stream(body) /\ Len(body) \in Nat
  <2>1. body \in Seq(StatementsOver(Names))
    BY <1>1 DEF TypeOK
  <2>2. \A s \in StatementsOver(Names) : s.op \in Ops
    BY DEF StatementsOver
  <2>3. Len(body) \in Nat /\ DOMAIN body = 1..Len(body) /\ \A p \in DOMAIN body : body[p] \in StatementsOver(Names)
    BY <2>1
  <2> QED  BY <2>2, <2>3 DEF Stream
<1>3. stack \in Seq(Frames) \ {<<>>} /\ pc \in 1..(Len(body) + 1)
  BY <1>1 DEF TypeOK
<1>4. Len(stack) \in Nat \ {0}
  BY <1>3, Calls
<1> QED  BY <1>1, <1>2, <1>3, <1>4

(* What a statement that returned r leaves of the calls. *)
LEMMA CallsAfter ==
  ASSUME NEW calls \in Seq(Frames) \ {<<>>}, NEW r \in BOOLEAN, NEW new,
         new = [calls EXCEPT ![Len(calls)].returned = r]
  PROVE  /\ Len(new) = Len(calls)
         /\ \A i \in 1..Len(calls) : new[i].kind = calls[i].kind /\ (new[i].thenReturned <=> calls[i].thenReturned)
         /\ \A i \in 1..(Len(calls) - 1) : new[i].returned <=> calls[i].returned
         /\ new[Len(calls)].returned <=> r
<1>1. PICK n \in Nat \ {0} : n = Len(calls) /\ DOMAIN calls = 1..n
  OBVIOUS
<1>2. PICK f \in Frames : f = calls[n]
  BY <1>1
<1>3. PICK g : g = [f EXCEPT !.returned = r]
  OBVIOUS
<1>4. Len(new) = n /\ (\A i \in 1..(n - 1) : new[i] = calls[i]) /\ new[n] = g
  BY <1>1, <1>2, <1>3
<1>5. g.kind = f.kind /\ (g.thenReturned <=> f.thenReturned) /\ (g.returned <=> r)
  BY <1>2, <1>3 DEF Frames
<1>6. \A i \in 1..n : i \in 1..(n - 1) \/ i = n
  BY <1>1
<1> QED  BY <1>1, <1>2, <1>4, <1>5, <1>6

(* A step to q that leaves the calls as they should be, or to the end of   *)
(* the list that q is in if that has returned.                             *)
LEMMA FlowSteps ==
  ASSUME FlowInv, phase = "generating", Inv', body' = body, phase' = phase,
         NEW q \in 1..(Len(body) + 1), NEW r \in BOOLEAN, pc' = IF r THEN ListEnd(body, q) ELSE q,
         NEW calls, stack' = calls, Flows(body, q, calls), r => calls[Len(calls)].returned
  PROVE  FlowInv'
<1>1. Stream(body) /\ Balanced(body)
  BY GeneratingFacts
<1>2. PICK to : to = pc'
  OBVIOUS
<1>3. Flows(body, to, calls)
  <2>1. CASE r
    BY <1>1, <1>2, <2>1, SkipFlows
  <2>2. CASE ~r
    BY <1>2, <2>2
  <2> QED  BY <2>1, <2>2
<1>4. ReturnAnalysisIsExact'
  BY DEF ReturnAnalysisIsExact
<1>5. (Balanced(body) /\ Flows(body, pc, stack))'
  BY <1>1, <1>2, <1>3
<1> QED  BY <1>4, <1>5 DEF FlowInv

LEMMA FlowStatement ==
  ASSUME FlowInv, Inv', GenArgument \/ GenVariableDeclaration \/ GenVariableAssign \/ GenExpression \/ GenReturn
  PROVE  FlowInv'
<1>1. /\ phase = "generating" /\ pc \in 1..Len(body) /\ body' = body /\ phase' = phase
      /\ body[pc].op \in {"arg", "let", "assign", "use", "return"}
  BY DEF GenArgument, GenVariableDeclaration, GenVariableAssign, GenExpression, GenReturn, At
<1>2. /\ Inv /\ Stream(body) /\ Balanced(body) /\ Flows(body, pc, stack)
      /\ stack \in Seq(Frames) \ {<<>>} /\ Len(stack) \in Nat \ {0} /\ Len(body) \in Nat
  BY <1>1, GeneratingFacts
<1>3. PICK r \in BOOLEAN : (r <=> body[pc].op = "return") /\ AfterStatement(stack, r, pc + 1)
  BY DEF GenArgument, GenVariableDeclaration, GenVariableAssign, GenExpression, GenReturn, At
<1>4. PICK calls : calls = stack'
  OBVIOUS
<1>5. calls = [stack EXCEPT ![Len(stack)].returned = r] /\ pc' = IF r THEN ListEnd(body, pc + 1) ELSE pc + 1
  BY <1>3, <1>4 DEF AfterStatement
<1>6. /\ Len(calls) = Len(stack)
      /\ \A i \in 1..Len(stack) : calls[i].kind = stack[i].kind /\ (calls[i].thenReturned <=> stack[i].thenReturned)
      /\ \A i \in 1..(Len(stack) - 1) : calls[i].returned <=> stack[i].returned
      /\ calls[Len(stack)].returned <=> r
  BY <1>2, <1>5, CallsAfter
<1>7. ~stack[Len(stack)].returned
  <2>1. ~Top.returned
    BY <1>1, <1>2, AtStatement
  <2> QED  BY <2>1 DEF Top
<1>8. body[pc].op \notin Openers \cup Marks
  BY <1>1 DEF Openers, Marks
<1>9. Flows(body, pc + 1, calls)
  BY <1>1, <1>2, <1>3, <1>6, <1>7, <1>8, StatementFlows
<1>10. pc + 1 \in 1..(Len(body) + 1)
  BY <1>1, <1>2
<1> QED  BY <1>1, <1>4, <1>5, <1>6, <1>9, <1>10, FlowSteps

LEMMA FlowOpen ==
  ASSUME FlowInv, Inv', GenCompound \/ GenIf \/ GenWhile
  PROVE  FlowInv'
<1>1. /\ phase = "generating" /\ pc \in 1..Len(body) /\ body' = body /\ phase' = phase
      /\ body[pc].op \in Openers /\ pc' = pc + 1
  BY DEF GenCompound, GenIf, GenWhile, At, Openers
<1>2. /\ Inv /\ Stream(body) /\ Balanced(body) /\ Flows(body, pc, stack)
      /\ stack \in Seq(Frames) \ {<<>>} /\ Len(stack) \in Nat \ {0} /\ Len(body) \in Nat
  BY <1>1, GeneratingFacts
<1>3. PICK kind : kind = KindOf(body, pc, pc + 1)
  OBVIOUS
<1>4. ~InElse(body, pc, pc + 1)
  BY <1>1, <1>2, OpensList
<1>5. PICK f : stack' = Append(stack, f) /\ f.kind = kind /\ ~f.returned
  <2>1. CASE GenCompound
    <3>1. body[pc].op = "block" /\ stack' = Append(stack, Frame("block", NoBlock, NoBlock))
      BY <2>1 DEF GenCompound, At
    <3>2. kind = "block"
      BY <1>3, <3>1 DEF KindOf
    <3> QED  BY <3>1, <3>2 DEF Frame
  <2>2. CASE GenIf
    <3>1. PICK m, n : /\ body[pc].op \in {"if", "ifelse"}
                      /\ stack' = Append(stack, Frame(IF body[pc].op = "ifelse" THEN "then" ELSE "if", m, n))
      BY <2>2 DEF GenIf, At
    <3>2. kind = IF body[pc].op = "ifelse" THEN "then" ELSE "if"
      BY <1>3, <1>4, <3>1 DEF KindOf
    <3> QED  BY <3>1, <3>2 DEF Frame
  <2>3. CASE GenWhile
    <3>1. PICK m, n : body[pc].op = "while" /\ stack' = Append(stack, Frame("loop", m, n))
      BY <2>3 DEF GenWhile, At
    <3>2. kind = "loop"
      BY <1>3, <3>1 DEF KindOf
    <3> QED  BY <3>1, <3>2 DEF Frame
  <2> QED  BY <2>1, <2>2, <2>3
<1>6. PICK calls : calls = stack'
  OBVIOUS
<1>7. Len(calls) = Len(stack) + 1 /\ (\A i \in 1..Len(stack) : calls[i] = stack[i]) /\ calls[Len(stack) + 1] = f
  BY <1>2, <1>5, <1>6
<1>8. Flows(body, pc + 1, calls)
  BY <1>1, <1>2, <1>3, <1>5, <1>7, OpenFlows
<1>9. pc + 1 \in 1..(Len(body) + 1) /\ pc' = IF FALSE THEN ListEnd(body, pc + 1) ELSE pc + 1
  BY <1>1, <1>2
<1> QED  BY <1>1, <1>6, <1>8, <1>9, FlowSteps

LEMMA FlowElse ==
  ASSUME FlowInv, Inv', GenElse
  PROVE  FlowInv'
<1>1. /\ phase = "generating" /\ pc \in 1..Len(body) /\ body' = body /\ phase' = phase
      /\ body[pc].op = "else" /\ pc' = pc + 1
      /\ stack' = Append(Below, [Top EXCEPT !.kind = "else", !.thenReturned = Top.returned, !.returned = FALSE])
  BY DEF GenElse, At
<1>2. /\ Inv /\ Stream(body) /\ Balanced(body) /\ Flows(body, pc, stack)
      /\ stack \in Seq(Frames) \ {<<>>} /\ Len(stack) \in Nat \ {0} /\ Len(body) \in Nat
  BY <1>1, GeneratingFacts
<1>3. PICK n \in Nat : n = Len(Below) /\ Len(stack) = n + 1
  <2>1. Len(Below) = Len(stack) - 1
    BY <1>2, Calls
  <2>2. PICK m \in Nat \ {0} : m = Len(stack)
    BY <1>2
  <2> QED  BY <2>1, <2>2, SMTT(30)
<1>4. /\ Top = stack[n + 1] /\ Top \in Frames /\ Below \in Seq(Frames)
      /\ \A i \in 1..n : Below[i] = stack[i]
  <2>1. (n + 1) - 1 = n
    OBVIOUS
  <2> QED  BY <1>2, <1>3, <2>1, Calls
<1>5. PICK f : f = [Top EXCEPT !.kind = "else", !.thenReturned = Top.returned, !.returned = FALSE]
  OBVIOUS
<1>6. f \in Frames /\ f.kind = "else" /\ ~f.returned /\ (f.thenReturned <=> Top.returned)
  BY <1>4, <1>5 DEF Frames
<1>7. PICK calls : calls = stack'
  OBVIOUS
<1>8. Len(calls) = n + 1 /\ (\A i \in 1..n : calls[i] = Below[i]) /\ calls[n + 1] = f
  <2>1. calls = Append(Below, f)
    BY <1>1, <1>5, <1>7
  <2> QED  BY <1>3, <1>4, <1>6, <2>1
<1>9. /\ Len(calls) = Len(stack) /\ \A i \in 1..(Len(stack) - 1) : calls[i] = stack[i]
      /\ calls[Len(stack)].kind = "else" /\ ~calls[Len(stack)].returned
      /\ calls[Len(stack)].thenReturned <=> stack[Len(stack)].returned
  <2>1. Len(stack) - 1 = n
    BY <1>3
  <2> QED  BY <1>3, <1>4, <1>6, <1>8, <2>1
<1>10. Flows(body, pc + 1, calls)
  BY <1>1, <1>2, <1>9, ElseFlows
<1>11. pc + 1 \in 1..(Len(body) + 1) /\ pc' = IF FALSE THEN ListEnd(body, pc + 1) ELSE pc + 1
  BY <1>1, <1>2
<1> QED  BY <1>1, <1>7, <1>10, <1>11, FlowSteps

LEMMA FlowEnd ==
  ASSUME FlowInv, Inv', EndIf \/ EndIfElse \/ EndWhile \/ EndCompound
  PROVE  FlowInv'
<1>1. /\ phase = "generating" /\ pc \in 1..Len(body) /\ body' = body /\ phase' = phase
      /\ body[pc].op = "end" /\ Top.kind # "body"
  BY DEF EndIf, EndIfElse, EndIfElseWith, EndWhile, EndWhileWith, EndCompound, At
<1>2. /\ Inv /\ Stream(body) /\ Balanced(body) /\ Flows(body, pc, stack)
      /\ stack \in Seq(Frames) \ {<<>>} /\ Len(stack) \in Nat \ {0} /\ Len(body) \in Nat
  BY <1>1, GeneratingFacts
<1>3. Top \in Frames /\ Top = stack[Len(stack)]
  BY <1>2, Calls
<1>4. PICK r \in BOOLEAN : /\ AfterStatement(Below, r, pc + 1)
                           /\ Top.kind = "block" => (r <=> Top.returned)
                           /\ Top.kind = "else" => (r <=> Top.thenReturned /\ Top.returned)
                           /\ Top.kind \in {"if", "loop"} => ~r
  <2>1. Top.returned \in BOOLEAN /\ Top.thenReturned \in BOOLEAN
    BY <1>3 DEF Frames
  <2>2. CASE EndIf \/ EndWhile
    BY <2>2 DEF EndIf, EndWhile, EndWhileWith
  <2>3. CASE EndIfElse
    <3>1. PICK r \in BOOLEAN : r <=> Top.thenReturned /\ Top.returned
      BY <2>1
    <3>2. r = (Top.thenReturned /\ Top.returned)
      BY <2>1, <3>1
    <3>3. Top.kind = "else" /\ AfterStatement(Below, r, pc + 1)
      BY <2>3, <3>2 DEF EndIfElse, EndIfElseWith
    <3> QED  BY <3>1, <3>3
  <2>4. CASE EndCompound
    BY <2>1, <2>4 DEF EndCompound
  <2> QED  BY <2>2, <2>3, <2>4
<1>5. Len(stack) > 1
  <2>1. Len(stack) \in DOMAIN stack
    BY <1>2
  <2>2. Len(stack) # 1
    BY <1>1, <1>2, <1>3, <2>1 DEF Inv, CallsNest
  <2>3. PICK m \in Nat \ {0} : m = Len(stack)
    BY <1>2
  <2> QED  BY <2>2, <2>3
<1>6. PICK n \in Nat \ {0} : n = Len(Below) /\ Len(stack) = n + 1 /\ Len(stack) - 1 = n /\ Len(stack) - 2 = n - 1
  <2>1. Len(Below) = Len(stack) - 1
    BY <1>2, Calls
  <2>2. PICK m : m = Len(stack)
    OBVIOUS
  <2> QED  BY <1>2, <1>5, <2>1, <2>2, SMTT(30)
<1>7. Below \in Seq(Frames) \ {<<>>} /\ \A i \in 1..n : Below[i] = stack[i]
  BY <1>2, <1>6, Calls
<1>8. PICK calls : calls = stack'
  OBVIOUS
<1>9. calls = [Below EXCEPT ![Len(Below)].returned = r] /\ pc' = IF r THEN ListEnd(body, pc + 1) ELSE pc + 1
  BY <1>4, <1>8 DEF AfterStatement
<1>10. /\ Len(calls) = n
       /\ \A i \in 1..n : calls[i].kind = Below[i].kind /\ (calls[i].thenReturned <=> Below[i].thenReturned)
       /\ \A i \in 1..(n - 1) : calls[i].returned <=> Below[i].returned
       /\ calls[n].returned <=> r
  <2>1. n = Len(Below)
    BY <1>6
  <2> QED  BY <1>7, <1>9, <2>1, CallsAfter
<1>11. ~stack[n].returned
  <2>1. n \in 1..(Len(stack) - 1)
    BY <1>6
  <2> QED  BY <1>2, <2>1 DEF Inv, CallsNest
<1>12. /\ Len(calls) = Len(stack) - 1
       /\ \A i \in 1..(Len(stack) - 1) : calls[i].kind = stack[i].kind /\ (calls[i].thenReturned <=> stack[i].thenReturned)
       /\ \A i \in 1..(Len(stack) - 2) : calls[i].returned <=> stack[i].returned
       /\ calls[Len(stack) - 1].returned <=> r
       /\ ~stack[Len(stack) - 1].returned
  <2>1. \A i \in 1..(n - 1) : i \in 1..n
    BY <1>6
  <2> QED  BY <1>6, <1>7, <1>10, <1>11, <2>1
<1>13. LET top == stack[Len(stack)]
       IN /\ top.kind = "block" => (r <=> top.returned)
          /\ top.kind = "else" => (r <=> top.thenReturned /\ top.returned)
          /\ top.kind \in {"if", "loop"} => ~r
  BY <1>3, <1>4
<1>14. Flows(body, pc + 1, calls)
  BY <1>1, <1>2, <1>12, <1>13, EndFlows
<1>15. pc + 1 \in 1..(Len(body) + 1) /\ (r => calls[Len(calls)].returned)
  BY <1>1, <1>2, <1>10
<1> QED  BY <1>1, <1>8, <1>9, <1>14, <1>15, FlowSteps

LEMMA FlowEndFunction ==
  ASSUME FlowInv, Inv', EndFunction
  PROVE  FlowInv'
<1>1. phase = "generating" /\ pc = Len(body) + 1 /\ phase' = "done" /\ UNCHANGED <<body, pc, stack>>
  BY DEF EndFunction
<1>2. /\ Stream(body) /\ Balanced(body) /\ Flows(body, pc, stack) /\ Len(stack) \in Nat \ {0}
  BY <1>1, GeneratingFacts
<1>3. Len(stack) = 1 /\ Notes(body, Returning(body), Len(body) + 1, ReturnedIn(stack), ThenReturnedIn(stack), TRUE)
  <2>1. Depth(body, pc) = 0
    BY <1>1, <1>2, DepthEnds
  <2>2. Len(stack) = Depth(body, pc) + 1 /\ Notes(body, Returning(body), pc, ReturnedIn(stack), ThenReturnedIn(stack), TRUE)
    BY <1>2 DEF Flows
  <2>3. Len(stack) = 1
    BY <2>1, <2>2
  <2>4. Notes(body, Returning(body), Len(body) + 1, ReturnedIn(stack), ThenReturnedIn(stack), TRUE)
    BY <1>1, <2>2
  <2> QED  BY <2>3, <2>4
<1>4. Top.returned <=> 0 \in ReturnedIn(stack)
  <2>1. 0 \in 0..(Len(stack) - 1) /\ Top = stack[0 + 1]
    BY <1>3 DEF Top
  <2> QED  BY <2>1 DEF ReturnedIn
<1>5. Covers(TRUE, Len(body) + 1 \notin Reachable(body), 0 \in ReturnedIn(stack))
  BY <1>2, <1>3, NotesAtEnd
<1>6. Top.returned <=> Len(body) + 1 \notin Reachable(body)
  BY <1>4, <1>5 DEF Covers
<1>7. ReturnAnalysisIsExact'
  <2>1. UNCHANGED Top
    BY <1>1 DEF Top
  <2> QED  BY <1>1, <1>6, <2>1 DEF ReturnAnalysisIsExact
<1> QED  BY <1>1, <1>7 DEF FlowInv

LEMMA InitFlows == Init /\ Balanced(body) => FlowInv
<1> SUFFICES ASSUME Init, Balanced(body)  PROVE FlowInv
  OBVIOUS
<1>1. body \in Bodies /\ pc = 1 /\ stack = <<Frame("body", NoBlock, NoBlock)>> /\ phase = "generating"
  BY DEF Init
<1>2. Inv /\ Balanced(body)
  BY InitInv
<1>3. Stream(body)
  <2>1. body \in Seq(StatementsOver(Names))
    BY <1>2 DEF Inv, TypeOK
  <2>2. \A s \in StatementsOver(Names) : s.op \in Ops
    BY DEF StatementsOver
  <2>3. Len(body) \in Nat /\ DOMAIN body = 1..Len(body) /\ \A p \in DOMAIN body : body[p] \in StatementsOver(Names)
    BY <2>1
  <2> QED  BY <2>2, <2>3 DEF Stream
<1>4. Len(stack) = 1 /\ ~stack[1].returned
  BY <1>1 DEF Frame
<1>5. Depth(body, 1) = 0
  BY <1>2, <1>3, DepthStarts
<1>6. 0 \notin ReturnedIn(stack)
  BY <1>4 DEF ReturnedIn
<1>7. Notes(body, Returning(body), 1, ReturnedIn(stack), ThenReturnedIn(stack), TRUE)
  BY <1>2, <1>3, <1>6, NotesBegin
<1>8. Flows(body, pc, stack)
  <2>1. 1..0 = {} /\ Len(stack) = 0 + 1
    BY <1>4
  <2> QED  BY <1>1, <1>5, <1>7, <2>1 DEF Flows
<1> QED  BY <1>1, <1>2, <1>8 DEF FlowInv, ReturnAnalysisIsExact

LEMMA NextFlows == FlowInv /\ [Next]_vars => FlowInv'
<1> SUFFICES ASSUME FlowInv, [Next]_vars  PROVE FlowInv'
  OBVIOUS
<1>1. Inv'
  BY NextInv DEF FlowInv
<1>2. CASE UNCHANGED vars
  <2>1. UNCHANGED ReturnAnalysisIsExact
    BY <1>2 DEF vars, ReturnAnalysisIsExact, Top
  <2>2. UNCHANGED (phase = "generating" => Balanced(body) /\ Flows(body, pc, stack))
    BY <1>2 DEF vars
  <2> QED  BY <1>1, <2>1, <2>2 DEF FlowInv
<1>3. CASE Abort
  <2>1. phase' \in {"thrown", "crashed"}
    BY <1>3 DEF Abort
  <2> QED  BY <1>1, <2>1 DEF FlowInv, ReturnAnalysisIsExact
<1> QED  BY <1>1, <1>2, <1>3, FlowStatement, FlowOpen, FlowElse, FlowEnd, FlowEndFunction DEF Next

(* Every list that a body opens is closed. *)
BodiesAreBalanced == \A b \in Bodies : Balanced(b)

(* The generator's return analysis is exact for every body, also where it  *)
(* jumps over the statements behind a return: genCompoundStatement's       *)
(* answer for the body is TRUE iff no path reaches the closing brace.      *)
THEOREM GeneratedReturnsAreExact ==
  ASSUME BodiesAreBalanced
  PROVE  RunSpec => []ReturnAnalysisIsExact
<1>1. RunInit => FlowInv
  BY InitFlows DEF RunInit, Init, BodiesAreBalanced
<1>2. FlowInv /\ [RunNext]_allVars => FlowInv'
  <2>1. [RunNext]_allVars => [Next]_vars
    BY DEF RunNext, allVars, vars, Generate, Call, ExecuteDo, ExecuteBranch, ExecuteReturn
  <2> QED  BY <2>1, NextFlows
<1>3. FlowInv => ReturnAnalysisIsExact
  BY DEF FlowInv
<1> QED  BY <1>1, <1>2, <1>3, PTL DEF RunSpec

----------------------------------------------------------------------------
(* What a step of the walk does: it goes on to the next statement, or to   *)
(* the end of the list around it, which has returned then.  The list of    *)
(* the body only returns with one of its own statements.                   *)
BodyReturnsAt(p) ==
  p \in 1..Len(body) /\ Depth(body, p) = 0 /\ body[p].op \notin Marks /\ StatementReturns(body, Returning(body), p)

Walks(r) ==
  /\ pc' = IF r THEN ListEnd(body, pc + 1) ELSE pc + 1
  /\ r => stack'[Len(stack')].returned /\ body[pc].op \in {"return", "end"}
  /\ stack'[1].returned => stack[1].returned \/ \E p \in 1..pc : BodyReturnsAt(p)

(* The end of a list that returns is the end of a statement that does.     *)
LEMMA EndReturns ==
  ASSUME NEW b, Stream(b), Balanced(b), NEW q \in 1..Len(b), b[q].op = "end",
         NEW cs, Flows(b, q, cs), Len(cs) = 2, cs[2].returned,
         cs[2].kind = "block" \/ (cs[2].kind = "else" /\ cs[2].thenReturned)
  PROVE  \E o \in 1..(q - 1) : Depth(b, o) = 0 /\ b[o].op \notin Marks /\ StatementReturns(b, Returning(b), o)
<1>1. Depth(b, q) = 1
  <2>1. PICK d : d = Depth(b, q)
    OBVIOUS
  <2>2. d \in Nat /\ 2 = d + 1
    BY <2>1, StayingInLists DEF Flows
  <2> QED  BY <2>1, <2>2
<1>2. PICK o : o = Enclosing(b, q, 1)
  OBVIOUS
<1>3. o \in 1..(q - 1) /\ b[o].op \in Openers /\ Depth(b, o) = 0 /\ (b[o].op = "ifelse" => InElse(b, o, q))
  <2>1. o = Enclosing(b, q, Depth(b, q)) /\ b[q].op \in Marks
    BY <1>1, <1>2 DEF Marks
  <2>2. Depth(b, q) - 1 = 0
    BY <1>1
  <2> QED  BY <2>1, <2>2, MarkOf
<1>4. cs[2].kind = KindOf(b, o, q)
  <2>1. 1 \in 1..Depth(b, q) /\ 1 + 1 = 2
    BY <1>1
  <2> QED  BY <1>2, <2>1 DEF Flows
<1>5. NoteAt(b, Returning(b), q, ReturnedIn(cs), ThenReturnedIn(cs), TRUE, 1)
  <2>1. 1 \in 0..Depth(b, q)
    BY <1>1
  <2> QED  BY <2>1 DEF Flows, Notes
<1>6. 1 \in ReturnedIn(cs) /\ (1 \in ThenReturnedIn(cs) <=> cs[2].thenReturned)
  <2>1. 1 \in 0..(Len(cs) - 1) /\ 1 + 1 = 2
    OBVIOUS
  <2> QED  BY <2>1 DEF ReturnedIn, ThenReturnedIn
<1>7. StartIn(b, o, q) \in Returning(b)
  <2>1. ListStart(b, q, 1) = StartIn(b, o, q)
    BY <1>2 DEF ListStart
  <2> QED  BY <1>5, <1>6, <2>1 DEF NoteAt, Covers
<1>8. b[o].op = "block" \/ b[o].op = "ifelse"
  BY <1>3, <1>4 DEF KindOf, Openers
<1>9. CASE b[o].op = "block"
  <2>1. StartIn(b, o, q) = o + 1
    BY <1>9 DEF StartIn, InElse
  <2> QED  BY <1>3, <1>7, <1>9, <2>1 DEF StatementReturns, Marks
<1>10. CASE b[o].op = "ifelse"
  <2>1. InElse(b, o, q) /\ cs[2].thenReturned
    BY <1>3, <1>4, <1>10 DEF KindOf
  <2>2. StartIn(b, o, q) = ListEnd(b, o + 1) + 1
    BY <2>1 DEF StartIn
  <2>3. o + 1 \in Returning(b)
    BY <1>2, <1>5, <1>6, <2>1 DEF NoteAt, Covers
  <2> QED  BY <1>3, <1>7, <1>10, <2>2, <2>3 DEF StatementReturns, Marks
<1> QED  BY <1>8, <1>9, <1>10

LEMMA StatementWalks ==
  ASSUME FlowInv, GenArgument \/ GenVariableDeclaration \/ GenVariableAssign \/ GenExpression \/ GenReturn
  PROVE  \E r \in BOOLEAN : Walks(r)
<1>1. phase = "generating" /\ pc \in 1..Len(body) /\ body[pc].op \in {"arg", "let", "assign", "use", "return"}
  BY DEF GenArgument, GenVariableDeclaration, GenVariableAssign, GenExpression, GenReturn, At
<1>2. /\ Flows(body, pc, stack) /\ stack \in Seq(Frames) \ {<<>>} /\ Len(stack) \in Nat \ {0} /\ Len(body) \in Nat
      /\ Stream(body) /\ Balanced(body)
  BY <1>1, GeneratingFacts
<1>3. PICK r \in BOOLEAN : (r <=> body[pc].op = "return") /\ AfterStatement(stack, r, pc + 1)
  BY DEF GenArgument, GenVariableDeclaration, GenVariableAssign, GenExpression, GenReturn, At
<1>4. PICK cs : cs = stack'
  OBVIOUS
<1>5. cs = [stack EXCEPT ![Len(stack)].returned = r] /\ pc' = IF r THEN ListEnd(body, pc + 1) ELSE pc + 1
  BY <1>3, <1>4 DEF AfterStatement
<1>6. PICK m \in Nat \ {0} : m = Len(stack)
  BY <1>2
<1>7. /\ Len(cs) = m /\ (\A i \in 1..(m - 1) : cs[i].returned <=> stack[i].returned) /\ (cs[m].returned <=> r)
  BY <1>2, <1>5, <1>6, CallsAfter
<1>8. cs[1].returned => stack[1].returned \/ (m = 1 /\ r)
  <2>1. m # 1 => 1 \in 1..(m - 1)
    BY <1>6
  <2> QED  BY <1>7, <2>1
<1>9. m = 1 /\ r => BodyReturnsAt(pc)
  <2> SUFFICES ASSUME m = 1, r  PROVE BodyReturnsAt(pc)
    OBVIOUS
  <2>1. PICK d : d = Depth(body, pc)
    OBVIOUS
  <2>2. d \in Nat /\ 1 = d + 1
    BY <1>1, <1>2, <1>6, <2>1, StayingInLists DEF Flows
  <2>3. Depth(body, pc) = 0
    BY <2>1, <2>2
  <2> QED  BY <1>1, <1>3, <2>3 DEF BodyReturnsAt, Marks, StatementReturns
<1>10. pc \in 1..pc
  BY <1>1
<1> QED  BY <1>3, <1>4, <1>5, <1>7, <1>8, <1>9, <1>10 DEF Walks

LEMMA OpenWalks ==
  ASSUME FlowInv, GenCompound \/ GenIf \/ GenWhile
  PROVE  \E r \in BOOLEAN : Walks(r)
<1>1. phase = "generating" /\ pc' = pc + 1
  BY DEF GenCompound, GenIf, GenWhile, At
<1>2. stack \in Seq(Frames) \ {<<>>} /\ Len(stack) \in Nat \ {0}
  BY <1>1, GeneratingFacts
<1>3. PICK f : stack' = Append(stack, f)
  BY DEF GenCompound, GenIf, GenWhile
<1>4. stack'[1] = stack[1]
  BY <1>2, <1>3
<1>5. Walks(FALSE)
  BY <1>1, <1>4 DEF Walks
<1> QED  BY <1>5

(* The stack below a call that is not the body's. *)
LEMMA CallsBelow ==
  ASSUME FlowInv, phase = "generating", Top.kind # "body"
  PROVE  \E m \in Nat \ {0} : /\ Len(stack) = m + 1 /\ Len(Below) = m /\ Below \in Seq(Frames) \ {<<>>}
                              /\ \A i \in 1..m : Below[i] = stack[i]
<1>1. Inv /\ stack \in Seq(Frames) \ {<<>>} /\ Len(stack) \in Nat \ {0}
  BY GeneratingFacts
<1>2. PICK m \in Nat : Len(stack) = m + 1
  BY <1>1
<1>3. m # 0
  <2> SUFFICES ASSUME m = 0  PROVE FALSE
    OBVIOUS
  <2>1. Top = stack[1] /\ 1 \in DOMAIN stack
    BY <1>1, <1>2, Calls
  <2> QED  BY <1>1, <2>1 DEF Inv, CallsNest
<1>4. (m + 1) - 1 = m /\ m \in Nat \ {0}
  BY <1>3
<1>5. Below \in Seq(Frames) /\ Len(Below) = m /\ \A i \in 1..m : Below[i] = stack[i]
  BY <1>1, <1>2, <1>4, Calls
<1>6. Below # <<>>
  BY <1>4, <1>5
<1> QED  BY <1>2, <1>4, <1>5, <1>6

LEMMA ElseWalks ==
  ASSUME FlowInv, GenElse
  PROVE  \E r \in BOOLEAN : Walks(r)
<1>1. phase = "generating" /\ pc' = pc + 1 /\ Top.kind # "body"
  BY DEF GenElse, At
<1>2. PICK m \in Nat \ {0} : /\ Len(stack) = m + 1 /\ Len(Below) = m /\ Below \in Seq(Frames) \ {<<>>}
                             /\ \A i \in 1..m : Below[i] = stack[i]
  BY <1>1, CallsBelow
<1>3. PICK f : stack' = Append(Below, f)
  BY DEF GenElse
<1>4. stack'[1] = stack[1]
  BY <1>2, <1>3
<1>5. Walks(FALSE)
  BY <1>1, <1>4 DEF Walks
<1> QED  BY <1>5

LEMMA EndWalks ==
  ASSUME FlowInv, EndIf \/ EndIfElse \/ EndWhile \/ EndCompound
  PROVE  \E r \in BOOLEAN : Walks(r)
<1>1. phase = "generating" /\ pc \in 1..Len(body) /\ body[pc].op = "end" /\ Top.kind # "body"
  BY DEF EndIf, EndIfElse, EndIfElseWith, EndWhile, EndWhileWith, EndCompound, At
<1>2. /\ Flows(body, pc, stack) /\ stack \in Seq(Frames) \ {<<>>} /\ Len(stack) \in Nat \ {0} /\ Len(body) \in Nat
      /\ Stream(body) /\ Balanced(body)
  BY <1>1, GeneratingFacts
<1>3. PICK m \in Nat \ {0} : /\ Len(stack) = m + 1 /\ Len(Below) = m /\ Below \in Seq(Frames) \ {<<>>}
                             /\ \A i \in 1..m : Below[i] = stack[i]
  BY <1>1, CallsBelow
<1>4. Top \in Frames /\ Top = stack[m + 1]
  BY <1>2, <1>3, Calls
<1>5. PICK r \in BOOLEAN :
        /\ AfterStatement(Below, r, pc + 1)
        /\ r => Top.returned /\ (Top.kind = "block" \/ (Top.kind = "else" /\ Top.thenReturned))
  <2>1. Top.returned \in BOOLEAN /\ Top.thenReturned \in BOOLEAN
    BY <1>4 DEF Frames
  <2>2. CASE EndIf \/ EndWhile
    BY <2>2 DEF EndIf, EndWhile, EndWhileWith
  <2>3. CASE EndIfElse
    <3>1. PICK r \in BOOLEAN : r = (Top.thenReturned /\ Top.returned)
      BY <2>1
    <3>2. Top.kind = "else" /\ AfterStatement(Below, r, pc + 1)
      BY <2>3, <3>1 DEF EndIfElse, EndIfElseWith
    <3> QED  BY <3>1, <3>2
  <2>4. CASE EndCompound
    BY <2>1, <2>4 DEF EndCompound
  <2> QED  BY <2>2, <2>3, <2>4
<1>6. PICK cs : cs = stack'
  OBVIOUS
<1>7. cs = [Below EXCEPT ![Len(Below)].returned = r] /\ pc' = IF r THEN ListEnd(body, pc + 1) ELSE pc + 1
  BY <1>5, <1>6 DEF AfterStatement
<1>8. Len(cs) = m /\ (\A i \in 1..(m - 1) : cs[i].returned <=> Below[i].returned) /\ (cs[m].returned <=> r)
  BY <1>3, <1>7, CallsAfter
<1>9. cs[1].returned => stack[1].returned \/ (m = 1 /\ r)
  <2>1. m # 1 => 1 \in 1..(m - 1) /\ 1 \in 1..m
    BY <1>3
  <2> QED  BY <1>3, <1>8, <2>1
<1>10. m = 1 /\ r => \E p \in 1..pc : BodyReturnsAt(p)
  <2> SUFFICES ASSUME m = 1, r  PROVE \E p \in 1..pc : BodyReturnsAt(p)
    OBVIOUS
  <2>1. PICK list : list = stack /\ Len(list) = 2 /\ Top = list[2]
    BY <1>3, <1>4
  <2>2. PICK o \in 1..(pc - 1) :
          Depth(body, o) = 0 /\ body[o].op \notin Marks /\ StatementReturns(body, Returning(body), o)
    BY <1>1, <1>2, <1>5, <2>1, EndReturns
  <2>3. o \in 1..pc /\ o \in 1..Len(body)
    BY <1>1, <1>2, <2>2
  <2> QED  BY <2>2, <2>3 DEF BodyReturnsAt
<1> QED  BY <1>1, <1>6, <1>7, <1>8, <1>9, <1>10 DEF Walks

LEMMA StepWalks ==
  ASSUME FlowInv, Next
  PROVE  EndFunction \/ Abort \/ \E r \in BOOLEAN : Walks(r)
  BY StatementWalks, OpenWalks, ElseWalks, EndWalks DEF Next

----------------------------------------------------------------------------
(* The storage of local variables.                                         *)

(* The declarations that are still open behind the next statement. *)
SlotsAreSet ==
  phase = "generating" /\ pc \in 1..Len(body) =>
    \A i \in 1..(pc - 1) : body[i].op \in {"arg", "let"} /\ IsOpen(body, i, pc + 1) => i \in slots

Uses(p, n) ==
  \/ n = body[p].reads /\ n \notin {"none", "const"}
  \/ n = body[p].name /\ body[p].op = "assign"

(* What the generator finds no storage for is no local variable; the only  *)
(* other thing it fails for is an assignment to a str.                     *)
MissingIsNoLocal ==
  phase \in {"thrown", "crashed"} =>
    /\ pc \in 1..Len(body)
    /\ \/ phase = "thrown" /\ AssignsString(pc)
       \/ \E n : /\ Uses(pc, n) /\ Decl(n) \in {Global, Undeclared}
                 /\ Decl(n) = Global => n \notin NumericGlobals

LEMMA SlotsGrow ==
  ASSUME Next
  PROVE  slots \subseteq slots' /\ (body[pc].op \in {"arg", "let"} /\ phase = "generating" /\ phase' = "generating"
                                    /\ pc \in 1..Len(body) => pc \in slots')
  BY DEF Next, GenArgument, GenVariableDeclaration, GenVariableAssign, GenExpression, GenReturn, GenCompound, EndCompound,
         GenIf, GenElse, EndIf, EndIfElse, EndIfElseWith, GenWhile, EndWhile, EndWhileWith, EndFunction, Abort, At

LEMMA LocalsHaveStorage ==
  ASSUME FlowInv, SlotsAreSet, phase = "generating", pc \in 1..Len(body), body[pc].op \notin Marks,
         NEW n, Decl(n) \notin {Global, Undeclared}
  PROVE  Decl(n) \in slots
<1>1. PICK q : q = pc
  OBVIOUS
<1>2. Len(body) \in Nat /\ q \in 1..Len(body) /\ q \in Nat \ {0}
  BY <1>1, GeneratingFacts
<1>3. PICK i : i = DeclOf(body, q, n, Globals)
  OBVIOUS
<1>4. i \in InScope(body, q, n)
  BY <1>1, <1>2, <1>3, DeclOfIsVisible DEF Decl
<1>5. i \in 1..(q - 1) /\ DeclaresName(body, i, n) /\ ListEnd(body, i) >= q
  BY <1>4 DEF InScope
<1>6. IsOpen(body, i, q)
  <2>1. i \in Nat \ {0} /\ i <= q /\ q <= Len(body) + 1 /\ q \in Nat
    BY <1>2, <1>5
  <2> QED  BY <1>2, <1>5, <2>1, ListEndIsAhead
<1>7. IsOpen(body, i, q + 1)
  <2>1. \A j \in i..((q + 1) - 1) : j \in i..(q - 1) \/ j = q
    BY <1>2, <1>5
  <2> QED  BY <1>1, <1>6, <2>1 DEF IsOpen
<1> QED  BY <1>1, <1>3, <1>5, <1>7 DEF SlotsAreSet, DeclaresName, Decl

LEMMA StepKeepsSlots ==
  ASSUME FlowInv, SlotsAreSet, Next
  PROVE  SlotsAreSet'
<1>1. CASE EndFunction \/ Abort
  <2>1. phase' \in {"done", "thrown", "crashed"}
    BY <1>1 DEF EndFunction, Abort
  <2> QED  BY <2>1 DEF SlotsAreSet
<1>2. CASE ~(EndFunction \/ Abort)
  <2>1. /\ phase = "generating" /\ phase' = "generating" /\ body' = body /\ pc \in 1..Len(body)
    BY <1>2 DEF Next, GenArgument, GenVariableDeclaration, GenVariableAssign, GenExpression, GenReturn, GenCompound,
         EndCompound, GenIf, GenElse, EndIf, EndIfElse, EndIfElseWith, GenWhile, EndWhile, EndWhileWith, At
  <2>2. PICK r \in BOOLEAN : Walks(r)
    BY <1>2, StepWalks
  <2>3. Stream(body) /\ Balanced(body) /\ Len(body) \in Nat
    BY <2>1, GeneratingFacts
  <2>4. PICK q : q = pc
    OBVIOUS
  <2>5. PICK e : e = IF r THEN ListEnd(body, q + 1) ELSE q + 1
    OBVIOUS
  <2>6. pc' = e /\ (r => body[q].op \in {"return", "end"})
    BY <2>2, <2>4, <2>5 DEF Walks
  <2>7. q \in 1..Len(body) /\ q + 1 \in 1..(Len(body) + 1) /\ q + 1 \in Nat \ {0}
    BY <2>1, <2>3, <2>4
  <2>8. e \in (q + 1)..(Len(body) + 1)
    BY <2>3, <2>5, <2>7, ToListEnd
  <2>9. slots \subseteq slots' /\ (body[q].op \in {"arg", "let"} => q \in slots')
    BY <2>1, <2>4, SlotsGrow
  <2> SUFFICES ASSUME e <= Len(body), NEW i \in 1..(e - 1), body[i].op \in {"arg", "let"}, IsOpen(body, i, e + 1)
               PROVE  i \in slots'
    BY <2>1, <2>6, <2>8 DEF SlotsAreSet
  <2>10. CASE i < q
    <3>1. i \in 1..(q - 1)
      BY <2>7, <2>10
    <3>2. IsOpen(body, i, q + 1)
      <4>1. \A j \in i..((q + 1) - 1) : j \in i..((e + 1) - 1)
        BY <2>7, <2>8, <3>1
      <4> QED  BY <4>1 DEF IsOpen
    <3> QED  BY <2>1, <2>4, <2>9, <3>1, <3>2 DEF SlotsAreSet
  <2>11. CASE i = q
    BY <2>9, <2>11
  <2>12. CASE i > q
    <3>1. r
      BY <2>5, <2>7, <2>12
    <3>2. i \in (q + 1)..(e - 1) /\ e = ListEnd(body, q + 1)
      BY <2>5, <2>7, <2>8, <2>12, <3>1
    <3> QED  BY <2>3, <2>7, <3>2, SkippedIsClosed
  <2> QED  BY <2>7, <2>8, <2>10, <2>11, <2>12
<1> QED  BY <1>1, <1>2

LEMMA StepKeepsMissing ==
  ASSUME FlowInv, SlotsAreSet, Next
  PROVE  MissingIsNoLocal'
<1>1. CASE ~Abort
  <2>1. phase' \notin {"thrown", "crashed"}
    BY <1>1 DEF Next, GenArgument, GenVariableDeclaration, GenVariableAssign, GenExpression, GenReturn, GenCompound,
         EndCompound, GenIf, GenElse, EndIf, EndIfElse, EndIfElseWith, GenWhile, EndWhile, EndWhileWith, EndFunction, At
  <2> QED  BY <2>1 DEF MissingIsNoLocal
<1>2. CASE Abort
  <2>1. /\ phase = "generating" /\ pc \in 1..Len(body) /\ body[pc].op \notin Marks /\ body' = body /\ pc' = pc
    BY <1>2 DEF Abort, At, Marks
  <2>2. CASE AssignsString(pc)
    <3>1. phase' = "thrown"
      BY <1>2, <2>2 DEF Abort
    <3>2. UNCHANGED AssignsString(pc)
      BY <2>1 DEF AssignsString
    <3> QED  BY <2>1, <2>2, <3>1, <3>2 DEF MissingIsNoLocal
  <2>3. CASE ~AssignsString(pc)
    <3>1. PICK n : Uses(pc, n) /\ ~HasStorage(n)
      <4>1. CASE ~CanRead
        <5>1. body[pc].reads \notin {"none", "const"} /\ ~HasStorage(body[pc].reads)
          BY <4>1 DEF CanRead
        <5>2. Uses(pc, body[pc].reads)
          BY <5>1 DEF Uses
        <5> QED  BY <5>1, <5>2
      <4>2. CASE CanRead
        <5>1. body[pc].op = "assign" /\ ~HasStorage(body[pc].name)
          BY <1>2, <2>3, <4>2 DEF Abort
        <5> QED  BY <5>1 DEF Uses
      <4> QED  BY <4>1, <4>2
    <3>2. Decl(n) \in {Global, Undeclared} /\ (Decl(n) = Global => n \notin NumericGlobals)
      BY <2>1, <3>1, LocalsHaveStorage DEF HasStorage
    <3>3. UNCHANGED Decl(n) /\ UNCHANGED Uses(pc, n)
      BY <2>1 DEF Decl, Uses
    <3> QED  BY <2>1, <3>1, <3>2, <3>3 DEF MissingIsNoLocal
  <2> QED  BY <2>2, <2>3
<1> QED  BY <1>1, <1>2

----------------------------------------------------------------------------
(* A return that ends the body is generated, unless a statement in front   *)
(* of it returns.                                                          *)
Emitted(p) == \E b \in DOMAIN blocks : \E k \in DOMAIN blocks[b] : blocks[b][k] = Ret(p)

LastReturn ==
  phase \in {"generating", "done"} /\ Len(body) # 0 /\ body[Len(body)].op = "return" =>
    \/ Emitted(Len(body))
    \/ \E p \in 1..(Len(body) - 1) : BodyReturnsAt(p)
    \/ phase = "generating" /\ pc <= Len(body) /\ ~stack[1].returned

LEMMA EmittedStays ==
  ASSUME blocks \in Seq(Seq(Instrs)), blocks' \in Seq(Seq(Instrs)), Grows, NEW p, Emitted(p)
  PROVE  Emitted(p)'
<1>1. PICK b \in DOMAIN blocks : \E k \in DOMAIN blocks[b] : blocks[b][k] = Ret(p)
  BY DEF Emitted
<1>2. PICK k \in DOMAIN blocks[b] : blocks[b][k] = Ret(p)
  BY <1>1
<1>3. PICK old, new : old = blocks[b] /\ new = blocks'[b]
  OBVIOUS
<1>4. b \in DOMAIN blocks' /\ SubSeq(new, 1, Len(old)) = old
  BY <1>3 DEF Grows
<1>5. old \in Seq(Instrs) /\ new \in Seq(Instrs)
  BY <1>3, <1>4
<1>6. Len(old) <= Len(new)
  BY <1>3 DEF Grows
<1>7. k \in DOMAIN new /\ new[k] = old[k]
  BY <1>2, <1>3, <1>4, <1>5, <1>6
<1>8. UNCHANGED Ret(p)
  BY DEF Ret, Instr
<1> QED  BY <1>2, <1>3, <1>4, <1>7, <1>8 DEF Emitted

LEMMA ReturnEmits ==
  ASSUME Inv, GenReturn, NEW p, p = pc
  PROVE  Emitted(p)'
<1>1. /\ blocks \in Seq(Seq(Instrs)) /\ p \in Nat /\ ins \in DOMAIN blocks
      /\ blocks' = [blocks EXCEPT ![ins] = Append(@, Ret(p))]
  <2>1. phase = "generating" /\ pc \in 1..Len(body) /\ body[pc].op = "return" /\ Emit(Ret(pc))
    BY DEF GenReturn, At
  <2>2. ins \in DOMAIN blocks /\ pc \in Nat /\ blocks \in Seq(Seq(Instrs))
    BY <2>1, AtStatement DEF Inv, TypeOK
  <2> QED  BY <2>1, <2>2 DEF Emit
<1>2. Ret(p) \in Instrs
  BY <1>1, InstrFacts
<1>3. PICK new : new = blocks'
  OBVIOUS
<1>4. PICK b : b = ins
  OBVIOUS
<1>5. /\ DOMAIN new = DOMAIN blocks /\ new[b] \in Seq(Instrs) /\ Len(new[b]) = Len(blocks[b]) + 1
      /\ new[b][Len(blocks[b]) + 1] = Ret(p) /\ b \in DOMAIN blocks /\ blocks[b] \in Seq(Instrs)
  BY <1>1, <1>2, <1>3, <1>4, EmitIn
<1>6. PICK list : list = new[b]
  OBVIOUS
<1>7. PICK k \in Nat : k = Len(blocks[b])
  BY <1>5
<1>8. k + 1 \in DOMAIN list
  BY <1>5, <1>6, <1>7
<1>9. b \in DOMAIN new /\ \E i \in DOMAIN new[b] : new[b][i] = Ret(p)
  BY <1>5, <1>6, <1>7, <1>8
<1>10. UNCHANGED Ret(p)
  BY DEF Ret, Instr
<1> QED  BY <1>3, <1>9, <1>10 DEF Emitted

(* At the last statement control is in the list of the body alone. *)
LEMMA StepKeepsLastReturn ==
  ASSUME FlowInv, FlowInv', LastReturn, Next
  PROVE  LastReturn'
<1>1. Inv /\ Inv' /\ blocks \in Seq(Seq(Instrs)) /\ blocks' \in Seq(Seq(Instrs)) /\ Grows
  BY NextGrows DEF FlowInv, Inv, TypeOK
<1>2. body' = body /\ phase = "generating"
  BY DEF Next, GenArgument, GenVariableDeclaration, GenVariableAssign, GenExpression, GenReturn, GenCompound,
         EndCompound, GenIf, GenElse, EndIf, EndIfElse, EndIfElseWith, GenWhile, EndWhile, EndWhileWith,
         EndFunction, Abort, At
<1>3. Stream(body) /\ Balanced(body) /\ pc \in 1..(Len(body) + 1)
  BY <1>2, GeneratingFacts
<1>4. PICK n \in Nat : n = Len(body)
  BY <1>3 DEF Stream
<1> SUFFICES ASSUME phase' \in {"generating", "done"}, n # 0, body[n].op = "return", ~Emitted(n)',
                    \A p \in 1..(n - 1) : ~BodyReturnsAt(p)
             PROVE  phase' = "generating" /\ pc' <= n /\ ~stack'[1].returned
  <2>1. \A p : UNCHANGED BodyReturnsAt(p)
    BY <1>2 DEF BodyReturnsAt
  <2> QED  BY <1>2, <1>4, <2>1 DEF LastReturn
<1>5. ~Emitted(n)
  BY <1>1, EmittedStays
<1>6. pc <= n /\ ~stack[1].returned
  BY <1>2, <1>4, <1>5 DEF LastReturn
<1>7. PICK q \in 1..n : q = pc
  BY <1>3, <1>4, <1>6
<1>8. ~EndFunction /\ ~Abort
  <2>1. ~EndFunction
    BY <1>4, <1>6 DEF EndFunction
  <2> QED  BY <2>1 DEF Abort
<1>9. PICK r \in BOOLEAN : Walks(r)
  BY <1>8, StepWalks
<1>10. phase' = "generating"
  BY <1>8 DEF Next, GenArgument, GenVariableDeclaration, GenVariableAssign, GenExpression, GenReturn, GenCompound,
         EndCompound, GenIf, GenElse, EndIf, EndIfElse, EndIfElseWith, GenWhile, EndWhile, EndWhileWith, At
<1>11. q # n
  <2> SUFFICES ASSUME q = n  PROVE FALSE
    OBVIOUS
  <2>1. body[pc].op = "return"
    BY <1>7
  <2>2. GenReturn
    BY <1>8, <2>1 DEF Next, GenArgument, GenVariableDeclaration, GenVariableAssign, GenExpression, GenReturn,
         GenCompound, EndCompound, GenIf, GenElse, EndIf, EndIfElse, EndIfElseWith, GenWhile, EndWhile,
         EndWhileWith, At
  <2> QED  BY <1>1, <1>7, <2>2, ReturnEmits
<1>12. PICK list : list = stack'
  OBVIOUS
<1>13. ~list[1].returned
  <2>1. \A p \in 1..q : p \in 1..(n - 1)
    BY <1>4, <1>7, <1>11
  <2> QED  BY <1>6, <1>7, <1>9, <1>12, <2>1 DEF Walks
<1>14. PICK e : e = pc'
  OBVIOUS
<1>15. e = (IF r THEN ListEnd(body, q + 1) ELSE q + 1) /\ (r => list[Len(list)].returned)
  BY <1>7, <1>9, <1>12, <1>14 DEF Walks
<1>16. e \in 1..(n + 1) /\ Flows(body, e, list)
  <2>1. Flows(body, pc, stack)' /\ (pc \in 1..(Len(body) + 1))'
    BY <1>1, <1>10 DEF FlowInv, Inv, TypeOK
  <2>2. Flows(body', pc', stack')
    BY <2>1 DEF Flows
  <2> QED  BY <1>2, <1>4, <1>12, <1>14, <2>1, <2>2
<1>17. e # n + 1
  <2> SUFFICES ASSUME e = n + 1  PROVE FALSE
    OBVIOUS
  <2>1. r
    BY <1>4, <1>7, <1>11, <1>15
  <2>2. Depth(body, e) = 0
    BY <1>3, <1>4, DepthEnds
  <2>3. Len(list) = 1
    BY <1>16, <2>2 DEF Flows
  <2> QED  BY <1>13, <1>15, <2>1, <2>3
<1> QED  BY <1>10, <1>12, <1>13, <1>14, <1>16, <1>17

(* The return behind a body that control comes to the end of is generated. *)
LEMMA ReturnBehindIsEmitted ==
  ASSUME FlowInv, LastReturn, phase = "done", NEW b, Stream(b), Balanced(b), Stream(body), WithReturn(b, body),
         Len(b) + 1 \in Reachable(b)
  PROVE  Emitted(Len(body))
<1>1. PICK n \in Nat : n = Len(b) /\ Len(body) = n + 1 /\ body[n + 1].op = "return"
  BY DEF Stream, WithReturn
<1> SUFFICES ASSUME NEW p \in 1..((n + 1) - 1), BodyReturnsAt(p)  PROVE FALSE
  BY <1>1 DEF LastReturn
<1>2. p \in 1..Len(b) /\ Depth(body, p) = 0 /\ body[p].op \notin Marks /\ StatementReturns(body, Returning(body), p)
  BY <1>1 DEF BodyReturnsAt
<1> QED  BY <1>2, ReturnsInFront

(* What the compiler needs to know of the generator's walk. *)
WalkInv == FlowInv /\ SlotsAreSet /\ MissingIsNoLocal /\ LastReturn

LEMMA InitWalk == Init /\ Balanced(body) => WalkInv
<1> SUFFICES ASSUME Init, Balanced(body)  PROVE WalkInv
  OBVIOUS
<1>1. pc = 1 /\ phase = "generating" /\ ~stack[1].returned
  BY DEF Init, Frame
<1>2. FlowInv
  BY InitFlows
<1>3. Len(body) \in Nat
  BY <1>1, <1>2, GeneratingFacts
<1>4. SlotsAreSet
  BY <1>1 DEF SlotsAreSet
<1>5. MissingIsNoLocal
  BY <1>1 DEF MissingIsNoLocal
<1>6. LastReturn
  BY <1>1, <1>3 DEF LastReturn
<1> QED  BY <1>2, <1>4, <1>5, <1>6 DEF WalkInv

LEMMA NextWalk == WalkInv /\ [Next]_vars => WalkInv'
<1> SUFFICES ASSUME WalkInv, [Next]_vars  PROVE WalkInv'
  OBVIOUS
<1>1. FlowInv /\ SlotsAreSet /\ MissingIsNoLocal /\ LastReturn
  BY DEF WalkInv
<1>2. FlowInv'
  BY <1>1, NextFlows
<1>3. CASE UNCHANGED vars
  <2>1. UNCHANGED SlotsAreSet
    BY <1>3 DEF vars, SlotsAreSet
  <2>2. UNCHANGED MissingIsNoLocal
    BY <1>3 DEF vars, MissingIsNoLocal, Uses, Decl, AssignsString
  <2>3. UNCHANGED LastReturn
    BY <1>3 DEF vars, LastReturn, Emitted, BodyReturnsAt
  <2> QED  BY <1>1, <1>2, <2>1, <2>2, <2>3 DEF WalkInv
<1>4. CASE Next
  BY <1>1, <1>2, <1>4, StepKeepsSlots, StepKeepsMissing, StepKeepsLastReturn DEF WalkInv
<1> QED  BY <1>3, <1>4

(* The generator never fails for want of a local's storage: what it finds  *)
(* none for is a global without a number, or not declared at all, however  *)
(* the lists it jumps over behind a return are nested.                     *)
THEOREM LocalsNeverLackStorage ==
  ASSUME BodiesAreBalanced
  PROVE  Spec => []MissingIsNoLocal
<1>1. Init => WalkInv
  BY InitWalk DEF Init, BodiesAreBalanced
<1>2. WalkInv => MissingIsNoLocal
  BY DEF WalkInv
<1> QED  BY <1>1, <1>2, NextWalk, PTL DEF Spec
----------------------------------------------------------------------------
(* The generated code and the source.  Every block begins at a position of *)
(* the source (lab); behind an instruction the code stands behind its      *)
(* statement.                                                              *)
Declares == {"arg", "let"}

Stand(lab, code, b, k) == IF k = 1 THEN lab[b] ELSE code[b][k - 1].at + 1

(* Where the next instruction of a block would stand. *)
StandEnd(lab, code, b) == Stand(lab, code, b, Len(code[b]) + 1)

IsCheck(code, b) == code[b] # <<>> /\ code[b][1].op = "cond"

(* An instruction that stands at r does what the source does next.  A      *)
(* branch leads further on, or to the check of a loop.                     *)
InstrFits(lab, code, text, i, r) ==
  /\ i.op = "br" => /\ i.at = 0 /\ i.yes \in DOMAIN code /\ LeadsTo(text, Declares, r, lab[i.yes])
                    /\ r < lab[i.yes] \/ IsCheck(code, i.yes)
  /\ i.op # "br" => i.at \in r..Len(text) /\ LeadsTo(text, Declares, r, i.at)
  /\ i.op = "do" => text[i.at].op \in {"arg", "let", "assign", "use"}
  /\ i.op = "ret" => text[i.at].op = "return"
  /\ i.op = "cond" => /\ text[i.at].op \in {"if", "ifelse", "while"}
                      /\ i.yes \in DOMAIN code /\ lab[i.yes] = i.at + 1
                      /\ i.no \in DOMAIN code /\ lab[i.no] = ListEnd(text, i.at + 1) + 1

CodeFits(lab, code, text) ==
  /\ lab \in [DOMAIN code -> 1..(Len(text) + 1)] /\ 1 \in DOMAIN code /\ lab[1] = 1
  /\ \A b \in DOMAIN code : \A k \in DOMAIN code[b] :
       /\ Stand(lab, code, b, k) \in k..Len(text)
       /\ InstrFits(lab, code, text, code[b][k], Stand(lab, code, b, k))

(* The builder's block leads to the statement at q. *)
BuilderFits(lab, code, text, q, b) ==
  /\ b \in DOMAIN code /\ StandEnd(lab, code, b) \in (Len(code[b]) + 1)..q
  /\ LeadsTo(text, Declares, StandEnd(lab, code, b), q)

(* The blocks of a call that are waited for, o being its statement. *)
WaitingAt(lab, code, text, o, f) ==
  /\ f.kind # "block" => f.merge \in DOMAIN code /\ lab[f.merge] = Behind(text, o)
  /\ f.kind = "then" => f.other \in DOMAIN code /\ lab[f.other] = ListEnd(text, o + 1) + 1
  /\ f.kind = "loop" => f.other \in DOMAIN code /\ lab[f.other] = o /\ IsCheck(code, f.other)

WaitingFits(lab, code, text, q, calls) ==
  \A k \in 1..Depth(text, q) : WaitingAt(lab, code, text, Enclosing(text, q, k), calls[k + 1])

(* What has been generated stays, and its blocks begin where they did. *)
Continues(lab, code, newLab, new) ==
  /\ DOMAIN code \subseteq DOMAIN new
  /\ \A b \in DOMAIN code : newLab[b] = lab[b] /\ (IsCheck(code, b) => IsCheck(new, b))

(* An instruction that fits still does when more has been generated.       *)
LEMMA InstrStillFits ==
  ASSUME NEW lab, NEW code, NEW newLab, NEW new, Continues(lab, code, newLab, new),
         NEW text, NEW i, NEW r, InstrFits(lab, code, text, i, r)
  PROVE  InstrFits(newLab, new, text, i, r)
  BY DEF InstrFits, Continues

(* So do the blocks a call waits for. *)
LEMMA WaitingStillFits ==
  ASSUME NEW lab, NEW code, NEW newLab, NEW new, Continues(lab, code, newLab, new),
         NEW text, NEW o, NEW f, NEW g, WaitingAt(lab, code, text, o, f),
         g.kind = f.kind, g.merge = f.merge, g.other = f.other
  PROVE  WaitingAt(newLab, new, text, o, g)
  BY DEF WaitingAt, Continues

(* One instruction more in block b, and new blocks that are empty or begin *)
(* with a check.                                                           *)
LEMMA CodeStillFits ==
  ASSUME NEW text, Len(text) \in Nat, NEW lab, NEW code \in Seq(Seq(Instrs)), CodeFits(lab, code, text),
         NEW b \in DOMAIN code, NEW i \in Instrs, NEW new \in Seq(Seq(Instrs)),
         Len(new) >= Len(code), \A c \in DOMAIN code \ {b} : new[c] = code[c],
         Len(new[b]) = Len(code[b]) + 1, new[b][Len(code[b]) + 1] = i,
         \A k \in 1..Len(code[b]) : new[b][k] = code[b][k],
         NEW newLab \in [DOMAIN new -> 1..(Len(text) + 1)], \A c \in DOMAIN code : newLab[c] = lab[c],
         StandEnd(lab, code, b) \in (Len(code[b]) + 1)..Len(text),
         InstrFits(newLab, new, text, i, StandEnd(lab, code, b)),
         \A c \in DOMAIN new \ DOMAIN code :
           new[c] = <<>> \/ (Len(new[c]) = 1 /\ newLab[c] <= Len(text) /\ InstrFits(newLab, new, text, new[c][1], newLab[c]))
  PROVE  CodeFits(newLab, new, text) /\ Continues(lab, code, newLab, new)
<1>1. PICK n \in Nat, m \in Nat : n = Len(code) /\ DOMAIN code = 1..n /\ m = Len(new) /\ DOMAIN new = 1..m /\ n <= m
  OBVIOUS
<1>2. PICK old, grown : old = code[b] /\ grown = new[b] /\ old \in Seq(Instrs) /\ grown \in Seq(Instrs)
  <2>1. b \in DOMAIN new
    BY <1>1
  <2> QED  BY <2>1
<1>3. PICK j \in Nat : j = Len(old) /\ DOMAIN old = 1..j /\ DOMAIN grown = 1..(j + 1) /\ grown[j + 1] = i
                       /\ \A k \in 1..j : grown[k] = old[k]
  BY <1>2
<1>4. Continues(lab, code, newLab, new)
  <2>1. ASSUME NEW c \in DOMAIN code, IsCheck(code, c)  PROVE IsCheck(new, c)
    <3>1. CASE c # b
      BY <2>1, <3>1 DEF IsCheck
    <3>2. CASE c = b
      <4>1. old # <<>> /\ old[1].op = "cond"
        BY <1>2, <2>1, <3>2 DEF IsCheck
      <4>2. j # 0
        BY <1>2, <1>3, <4>1
      <4>3. 1 \in 1..j /\ grown # <<>>
        BY <1>2, <1>3, <4>2
      <4> QED  BY <1>2, <1>3, <3>2, <4>1, <4>3 DEF IsCheck
    <3> QED  BY <3>1, <3>2
  <2> QED  BY <1>1, <2>1 DEF Continues
<1>5. ASSUME NEW c \in DOMAIN new, NEW k \in DOMAIN new[c]
      PROVE  Stand(newLab, new, c, k) \in k..Len(text) /\ InstrFits(newLab, new, text, new[c][k], Stand(newLab, new, c, k))
  <2>1. CASE c \in DOMAIN code /\ c # b
    <3>1. new[c] = code[c] /\ newLab[c] = lab[c]
      BY <2>1
    <3>2. Stand(newLab, new, c, k) = Stand(lab, code, c, k)
      BY <3>1 DEF Stand
    <3>3. Stand(lab, code, c, k) \in k..Len(text) /\ InstrFits(lab, code, text, code[c][k], Stand(lab, code, c, k))
      BY <1>5, <2>1, <3>1 DEF CodeFits
    <3> QED  BY <1>4, <3>1, <3>2, <3>3, InstrStillFits
  <2>2. CASE c = b /\ k <= j
    <3>1. k \in 1..j /\ k \in DOMAIN code[b] /\ new[c][k] = code[b][k]
      BY <1>2, <1>3, <1>5, <2>2
    <3>2. Stand(newLab, new, c, k) = Stand(lab, code, b, k)
      <4>1. CASE k = 1
        BY <2>2, <4>1 DEF Stand
      <4>2. CASE k # 1
        <5>1. k - 1 \in 1..j
          <6>1. k \in 1..j /\ j \in Nat
            BY <3>1
          <6> QED  BY ONLY <4>2, <6>1
        <5>2. new[c][k - 1] = code[b][k - 1]
          BY <1>2, <1>3, <2>2, <5>1
        <5> QED  BY <4>2, <5>2 DEF Stand
      <4> QED  BY <4>1, <4>2
    <3>3. Stand(lab, code, b, k) \in k..Len(text) /\ InstrFits(lab, code, text, code[b][k], Stand(lab, code, b, k))
      BY <3>1 DEF CodeFits
    <3> QED  BY <1>4, <3>1, <3>2, <3>3, InstrStillFits
  <2>3. CASE c = b /\ k > j
    <3>1. k = j + 1 /\ new[c][k] = i
      BY <1>2, <1>3, <1>5, <2>3
    <3>2. Stand(newLab, new, c, k) = StandEnd(lab, code, b)
      <4>1. CASE j = 0
        <5>1. k = 1 /\ Len(code[b]) + 1 = 1
          BY <1>2, <1>3, <3>1, <4>1
        <5>2. newLab[c] = lab[b]
          BY <2>3
        <5> QED  BY <5>1, <5>2 DEF Stand, StandEnd
      <4>2. CASE j # 0
        <5>1. j \in 1..j /\ (j + 1) - 1 = j /\ j + 1 # 1
          BY <4>2
        <5>2. new[c][j] = code[b][j]
          BY <1>2, <1>3, <2>3, <5>1
        <5> QED  BY <1>2, <1>3, <2>3, <3>1, <5>1, <5>2 DEF Stand, StandEnd
      <4> QED  BY <4>1, <4>2
    <3> QED  BY <1>2, <1>3, <3>1, <3>2
  <2>4. CASE c \notin DOMAIN code
    <3>1. new[c] # <<>>
      BY <1>5
    <3>2. Len(new[c]) = 1 /\ newLab[c] <= Len(text) /\ InstrFits(newLab, new, text, new[c][1], newLab[c])
      BY <2>4, <3>1
    <3>3. new[c] \in Seq(Instrs)
      OBVIOUS
    <3>4. k = 1
      BY <1>5, <3>2, <3>3
    <3>5. newLab[c] \in 1..(Len(text) + 1)
      OBVIOUS
    <3> QED  BY <3>2, <3>4, <3>5 DEF Stand
  <2> QED  BY <1>3, <1>5, <2>1, <2>2, <2>3, <2>4
<1>6. 1 \in DOMAIN new /\ newLab[1] = 1
  <2>1. 1 \in DOMAIN code /\ lab[1] = 1
    BY DEF CodeFits
  <2>2. newLab[1] = lab[1]
    BY <2>1
  <2>3. 1 \in 1..n
    BY <1>1, <2>1
  <2>4. 1 \in 1..m
    BY <1>1, <2>3
  <2> QED  BY <1>1, <2>1, <2>2, <2>4
<1> QED  BY <1>4, <1>5, <1>6 DEF CodeFits

(* Calls that are still active wait for the same blocks, one that began    *)
(* for blocks that fit.                                                    *)
LEMMA WaitingSteps ==
  ASSUME NEW text, NEW lab, NEW code, NEW newLab, NEW new, Continues(lab, code, newLab, new),
         NEW q, NEW calls, WaitingFits(lab, code, text, q, calls), NEW p, NEW next,
         \A k \in 1..Depth(text, p) :
           \/ /\ k \in 1..Depth(text, q) /\ Enclosing(text, p, k) = Enclosing(text, q, k)
              /\ next[k + 1].kind = calls[k + 1].kind
              /\ next[k + 1].merge = calls[k + 1].merge /\ next[k + 1].other = calls[k + 1].other
           \/ WaitingAt(newLab, new, text, Enclosing(text, p, k), next[k + 1])
  PROVE  WaitingFits(newLab, new, text, p, next)
<1>1. ASSUME NEW k \in 1..Depth(text, p)  PROVE WaitingAt(newLab, new, text, Enclosing(text, p, k), next[k + 1])
  <2>1. CASE /\ k \in 1..Depth(text, q) /\ Enclosing(text, p, k) = Enclosing(text, q, k)
             /\ next[k + 1].kind = calls[k + 1].kind
             /\ next[k + 1].merge = calls[k + 1].merge /\ next[k + 1].other = calls[k + 1].other
    <3>1. WaitingAt(lab, code, text, Enclosing(text, q, k), calls[k + 1])
      BY <2>1 DEF WaitingFits
    <3> QED  BY <2>1, <3>1, WaitingStillFits
  <2> QED  BY <1>1, <2>1
<1> QED  BY <1>1 DEF WaitingFits

(* Going to the end of a list leaves no call. *)
LEMMA WaitingSkip ==
  ASSUME NEW text, Stream(text), Balanced(text), NEW lab, NEW code, NEW q \in 1..(Len(text) + 1),
         NEW calls, WaitingFits(lab, code, text, q, calls)
  PROVE  WaitingFits(lab, code, text, ListEnd(text, q), calls)
<1>1. Depth(text, ListEnd(text, q)) = Depth(text, q)
      /\ \A k \in 1..Depth(text, q) : Enclosing(text, ListEnd(text, q), k) = Enclosing(text, q, k)
  BY SkipStays
<1> QED  BY <1>1 DEF WaitingFits

(* The code generated so far fits the source, by the labels lab.           *)
GenFits(lab) ==
  /\ CodeFits(lab, blocks, body)
  /\ 1 \notin erased
  /\ phase = "generating" => /\ ~Top.returned => BuilderFits(lab, blocks, body, pc, ins)
                             /\ WaitingFits(lab, blocks, body, pc, stack)
  /\ phase = "done" => \A b \in DOMAIN blocks \ erased :
       Terminated(b) \/ LeadsTo(body, Declares, StandEnd(lab, blocks, b), Len(body) + 1)

(* A step to q, or to the end of the list around q if that has returned.   *)
LEMMA FitSteps ==
  ASSUME FlowInv, phase = "generating", phase' = phase, body' = body,
         NEW lab, CodeFits(lab, blocks', body), 1 \notin erased',
         NEW q \in 1..(Len(body) + 1), NEW r \in BOOLEAN, pc' = IF r THEN ListEnd(body, q) ELSE q,
         NEW calls, stack' = calls, r => calls[Len(calls)].returned,
         calls[Len(calls)].returned \/ BuilderFits(lab, blocks', body, q, ins'),
         WaitingFits(lab, blocks', body, q, calls)
  PROVE  GenFits(lab)'
<1>1. Stream(body) /\ Balanced(body)
  BY GeneratingFacts
<1>2. PICK to : to = pc'
  OBVIOUS
<1>3. WaitingFits(lab, blocks', body, to, calls)
  BY <1>1, <1>2, WaitingSkip
<1>4. Top' = calls[Len(calls)]
  BY DEF Top
<1>5. ~Top'.returned => BuilderFits(lab, blocks', body, to, ins')
  BY <1>2, <1>4
<1>6. phase' = "generating" /\ phase' # "done"
  OBVIOUS
<1> QED  BY <1>2, <1>3, <1>5, <1>6 DEF GenFits

(* Generating one instruction at the statement at pc, and further blocks.  *)
EmittedInto(code, b, i) == [code EXCEPT ![b] = Append(@, i)]

(* The builder's block with an instruction more, and new blocks.           *)
LEMMA FitEmit ==
  ASSUME FlowInv, phase = "generating", pc \in 1..Len(body), ~Top.returned,
         NEW lab, GenFits(lab), NEW i \in Instrs, NEW ext \in Seq(Seq(Instrs)), NEW new,
         new = EmittedInto(blocks, ins, i) \o ext,
         NEW newLab, newLab \in [DOMAIN new -> 1..(Len(body) + 1)], \A c \in DOMAIN blocks : newLab[c] = lab[c],
         InstrFits(newLab, new, body, i, StandEnd(lab, blocks, ins)),
         \A c \in DOMAIN new \ DOMAIN blocks :
           new[c] = <<>> \/ (Len(new[c]) = 1 /\ newLab[c] <= Len(body) /\ InstrFits(newLab, new, body, new[c][1], newLab[c]))
  PROVE  CodeFits(newLab, new, body) /\ Continues(lab, blocks, newLab, new)
<1>1. blocks \in Seq(Seq(Instrs)) /\ Len(body) \in Nat /\ ins \in DOMAIN blocks
  BY GeneratingFacts DEF Inv, TypeOK, BuilderIsOpen
<1>2. PICK mid : mid = EmittedInto(blocks, ins, i)
  OBVIOUS
<1>3. /\ mid \in Seq(Seq(Instrs)) /\ DOMAIN mid = DOMAIN blocks /\ Len(mid) = Len(blocks)
      /\ \A c \in DOMAIN blocks \ {ins} : mid[c] = blocks[c]
      /\ Len(mid[ins]) = Len(blocks[ins]) + 1 /\ mid[ins][Len(blocks[ins]) + 1] = i
      /\ \A k \in 1..Len(blocks[ins]) : mid[ins][k] = blocks[ins][k]
  BY <1>1, <1>2, EmitIn DEF EmittedInto
<1>4. new \in Seq(Seq(Instrs)) /\ Len(new) = Len(mid) + Len(ext) /\ \A c \in DOMAIN mid : new[c] = mid[c]
  <2>1. new = mid \o ext
    BY <1>2
  <2>2. mid \in Seq(Seq(Instrs)) /\ ext \in Seq(Seq(Instrs))
    BY <1>3
  <2>3. new \in Seq(Seq(Instrs)) /\ Len(new) = Len(mid) + Len(ext) /\ \A c \in DOMAIN mid : new[c] = mid[c]
    BY ONLY <2>1, <2>2, AddBlocks
  <2> QED  BY <2>3
<1>5. Len(new) >= Len(blocks)
  <2>1. Len(mid) \in Nat /\ Len(ext) \in Nat
    BY <1>3
  <2>2. PICK a, b, c, d : a = Len(new) /\ b = Len(mid) /\ c = Len(ext) /\ d = Len(blocks)
    OBVIOUS
  <2> QED  BY <1>3, <1>4, <2>1, <2>2
<1>6. /\ \A c \in DOMAIN blocks \ {ins} : new[c] = blocks[c]
      /\ Len(new[ins]) = Len(blocks[ins]) + 1 /\ new[ins][Len(blocks[ins]) + 1] = i
      /\ \A k \in 1..Len(blocks[ins]) : new[ins][k] = blocks[ins][k]
  BY <1>1, <1>3, <1>4
<1>7. StandEnd(lab, blocks, ins) \in (Len(blocks[ins]) + 1)..Len(body)
  <2>1. StandEnd(lab, blocks, ins) \in (Len(blocks[ins]) + 1)..pc
    BY DEF GenFits, BuilderFits
  <2>2. Len(blocks[ins]) \in Nat
    BY <1>1
  <2> QED  BY <1>1, <2>1, <2>2
<1>8. CodeFits(lab, blocks, body)
  BY DEF GenFits
<1>9. /\ i \in Instrs /\ newLab \in [DOMAIN new -> 1..(Len(body) + 1)]
      /\ \A c \in DOMAIN blocks : newLab[c] = lab[c]
      /\ InstrFits(newLab, new, body, i, StandEnd(lab, blocks, ins))
      /\ \A c \in DOMAIN new \ DOMAIN blocks :
           new[c] = <<>> \/ (Len(new[c]) = 1 /\ newLab[c] <= Len(body) /\ InstrFits(newLab, new, body, new[c][1], newLab[c]))
  OBVIOUS
<1>10. new \in Seq(Seq(Instrs))
  BY <1>4
<1> QED  BY ONLY <1>1, <1>10, <1>5, <1>6, <1>7, <1>8, <1>9, CodeStillFits

(* The same without further blocks: the blocks begin where they did.       *)
LEMMA FitEmitOnly ==
  ASSUME FlowInv, phase = "generating", pc \in 1..Len(body), ~Top.returned,
         NEW lab, GenFits(lab), NEW i \in Instrs, NEW new, new = EmittedInto(blocks, ins, i),
         InstrFits(lab, new, body, i, StandEnd(lab, blocks, ins))
  PROVE  /\ CodeFits(lab, new, body) /\ Continues(lab, blocks, lab, new)
         /\ ins \in DOMAIN new /\ Len(new[ins]) = Len(blocks[ins]) + 1 /\ new[ins][Len(blocks[ins]) + 1] = i
         /\ \A c \in DOMAIN blocks \ {ins} : new[c] = blocks[c]
         /\ DOMAIN new = DOMAIN blocks
<1>1. blocks \in Seq(Seq(Instrs)) /\ ins \in DOMAIN blocks
  BY GeneratingFacts DEF Inv, TypeOK, BuilderIsOpen
<1>2. /\ new \in Seq(Seq(Instrs)) /\ DOMAIN new = DOMAIN blocks /\ Len(new) = Len(blocks)
      /\ \A c \in DOMAIN blocks \ {ins} : new[c] = blocks[c]
      /\ Len(new[ins]) = Len(blocks[ins]) + 1 /\ new[ins][Len(blocks[ins]) + 1] = i
  BY <1>1, EmitIn DEF EmittedInto
<1>3. PICK ext : ext = <<>>
  OBVIOUS
<1>4. ext \in Seq(Seq(Instrs)) /\ new = EmittedInto(blocks, ins, i) \o ext
  <2>1. new = new \o ext
    BY <1>2, <1>3
  <2>2. ext \in Seq(Seq(Instrs))
    BY <1>3
  <2> QED  BY <2>1, <2>2
<1>5. lab \in [DOMAIN new -> 1..(Len(body) + 1)]
  BY <1>2 DEF GenFits, CodeFits
<1>6. DOMAIN new \ DOMAIN blocks = {}
  BY <1>2
<1>7. CodeFits(lab, new, body) /\ Continues(lab, blocks, lab, new)
  BY <1>4, <1>5, <1>6, FitEmit
<1> QED  BY <1>1, <1>2, <1>7

(* The builder's block leads to the statement at pc. *)
LEMMA BuilderLeads ==
  ASSUME FlowInv, phase = "generating", ~Top.returned, NEW lab, GenFits(lab)
  PROVE  /\ ins \in DOMAIN blocks /\ blocks \in Seq(Seq(Instrs)) /\ Len(blocks[ins]) \in Nat
         /\ StandEnd(lab, blocks, ins) \in (Len(blocks[ins]) + 1)..pc
         /\ LeadsTo(body, Declares, StandEnd(lab, blocks, ins), pc)
         /\ WaitingFits(lab, blocks, body, pc, stack) /\ CodeFits(lab, blocks, body)
<1>1. blocks \in Seq(Seq(Instrs)) /\ ins \in DOMAIN blocks
  BY GeneratingFacts DEF Inv, TypeOK, BuilderIsOpen
<1>2. Len(blocks[ins]) \in Nat
  BY <1>1
<1> QED  BY <1>1, <1>2 DEF GenFits, BuilderFits

(* What a call waits for does not change when a list under it returns.     *)
LEMMA SameWaiting ==
  ASSUME NEW calls \in Seq(Frames) \ {<<>>}, NEW r \in BOOLEAN, NEW new,
         new = [calls EXCEPT ![Len(calls)].returned = r]
  PROVE  \A k \in 1..Len(calls) : new[k].kind = calls[k].kind /\ new[k].merge = calls[k].merge /\ new[k].other = calls[k].other
<1>1. PICK n \in Nat \ {0} : n = Len(calls) /\ DOMAIN calls = 1..n
  OBVIOUS
<1>2. PICK f \in Frames : f = calls[n]
  BY <1>1
<1>3. PICK g : g = [f EXCEPT !.returned = r]
  OBVIOUS
<1>4. (\A i \in 1..(n - 1) : new[i] = calls[i]) /\ new[n] = g
  BY <1>1, <1>2, <1>3
<1>5. g.kind = f.kind /\ g.merge = f.merge /\ g.other = f.other
  BY <1>2, <1>3 DEF Frames
<1>6. \A i \in 1..n : i \in 1..(n - 1) \/ i = n
  BY <1>1
<1> QED  BY <1>1, <1>2, <1>4, <1>5, <1>6

----------------------------------------------------------------------------
(* One lemma for each kind of step.                                        *)
LEMMA FitStatement ==
  ASSUME FlowInv, NEW lab, GenFits(lab),
         GenArgument \/ GenVariableDeclaration \/ GenVariableAssign \/ GenExpression \/ GenReturn
  PROVE  GenFits(lab)'
<1>1. /\ phase = "generating" /\ pc \in 1..Len(body) /\ body' = body /\ phase' = phase
      /\ body[pc].op \in {"arg", "let", "assign", "use", "return"} /\ ins' = ins /\ erased' = erased
  BY DEF GenArgument, GenVariableDeclaration, GenVariableAssign, GenExpression, GenReturn, At
<1>2. /\ Inv /\ Stream(body) /\ Balanced(body) /\ Flows(body, pc, stack)
      /\ stack \in Seq(Frames) \ {<<>>} /\ Len(stack) \in Nat \ {0} /\ Len(body) \in Nat
  BY <1>1, GeneratingFacts
<1>3. PICK r \in BOOLEAN, i \in {Do(pc), Ret(pc)} :
        /\ r <=> body[pc].op = "return"
        /\ i = IF r THEN Ret(pc) ELSE Do(pc)
        /\ Emit(i) /\ AfterStatement(stack, r, pc + 1)
  BY DEF GenArgument, GenVariableDeclaration, GenVariableAssign, GenExpression, GenReturn, At
<1>4. ~Top.returned
  BY <1>1, <1>2, AtStatement
<1>5. /\ ins \in DOMAIN blocks /\ blocks \in Seq(Seq(Instrs)) /\ Len(blocks[ins]) \in Nat
      /\ StandEnd(lab, blocks, ins) \in (Len(blocks[ins]) + 1)..pc
      /\ LeadsTo(body, Declares, StandEnd(lab, blocks, ins), pc)
      /\ WaitingFits(lab, blocks, body, pc, stack)
  BY <1>1, <1>4, BuilderLeads
<1>6. PICK new : new = blocks'
  OBVIOUS
<1>7. new = EmittedInto(blocks, ins, i)
  BY <1>3, <1>6 DEF Emit, EmittedInto
<1>8. i \in Instrs /\ i.at = pc /\ i.op \in {"do", "ret"} /\ (i.op = "ret" <=> r)
  BY <1>1, <1>3, InstrFacts DEF Do, Ret, Instr
<1>9. InstrFits(lab, new, body, i, StandEnd(lab, blocks, ins))
  <2>1. pc \in StandEnd(lab, blocks, ins)..Len(body)
    BY <1>1, <1>2, <1>5
  <2> QED  BY <1>1, <1>3, <1>5, <1>8, <2>1 DEF InstrFits
<1>10. /\ CodeFits(lab, new, body) /\ Continues(lab, blocks, lab, new)
       /\ ins \in DOMAIN new /\ Len(new[ins]) = Len(blocks[ins]) + 1 /\ new[ins][Len(blocks[ins]) + 1] = i
  <2>1. FlowInv /\ GenFits(lab) /\ i \in Instrs /\ phase = "generating" /\ pc \in 1..Len(body)
    BY <1>1, <1>8
  <2> QED  BY ONLY <1>4, <1>7, <1>9, <2>1, FitEmitOnly
<1>11. BuilderFits(lab, new, body, pc + 1, ins)
  <2>1. PICK j \in Nat : j = Len(blocks[ins])
    BY <1>5
  <2>2. StandEnd(lab, new, ins) = pc + 1
    <3>1. Len(new[ins]) + 1 # 1 /\ (Len(new[ins]) + 1) - 1 = j + 1
      BY <1>10, <2>1
    <3> QED  BY <1>8, <1>10, <2>1, <3>1 DEF StandEnd, Stand
  <2>3. pc + 1 \in (Len(new[ins]) + 1)..(pc + 1)
    BY <1>1, <1>5, <1>10, <2>1
  <2> QED  BY <1>10, <2>2, <2>3 DEF BuilderFits, LeadsTo
<1>12. PICK calls : calls = stack'
  OBVIOUS
<1>13. calls = [stack EXCEPT ![Len(stack)].returned = r] /\ pc' = IF r THEN ListEnd(body, pc + 1) ELSE pc + 1
  BY <1>3, <1>12 DEF AfterStatement
<1>14. \A k \in 1..Len(stack) : calls[k].kind = stack[k].kind /\ calls[k].merge = stack[k].merge /\ calls[k].other = stack[k].other
  BY <1>2, <1>13, SameWaiting
<1>15. WaitingFits(lab, new, body, pc + 1, calls)
  <2>1. PICK D \in Nat : D = Depth(body, pc) /\ Len(stack) = D + 1
    BY <1>1, <1>2, StayingInLists DEF Flows
  <2>2. Depth(body, pc + 1) = D /\ \A k \in 0..D : StaysIn(body, pc, pc + 1, k)
    BY <1>1, <1>2, <2>1, StayingInLists DEF Openers, Marks
  <2>3. \A k \in 1..D : Enclosing(body, pc + 1, k) = Enclosing(body, pc, k) /\ k + 1 \in 1..Len(stack)
    <3>1. ASSUME NEW k \in 1..D  PROVE StaysIn(body, pc, pc + 1, k) /\ k + 1 \in 1..Len(stack) /\ k \in 1..Depth(body, pc)
      BY <2>1, <2>2
    <3> QED  BY <1>1, <1>2, <3>1, KindStays
  <2>4. \A k \in 1..Depth(body, pc + 1) :
          /\ k \in 1..Depth(body, pc) /\ Enclosing(body, pc + 1, k) = Enclosing(body, pc, k)
          /\ calls[k + 1].kind = stack[k + 1].kind
          /\ calls[k + 1].merge = stack[k + 1].merge /\ calls[k + 1].other = stack[k + 1].other
    BY <1>14, <2>1, <2>2, <2>3
  <2> QED  BY <1>5, <1>10, <2>4, WaitingSteps
<1>16. calls[Len(calls)].returned <=> r
  BY <1>2, <1>13, CallsAfter
<1>17. pc + 1 \in 1..(Len(body) + 1)
  BY <1>1, <1>2
<1>18. 1 \notin erased'
  BY <1>1 DEF GenFits
<1> QED  BY <1>1, <1>6, <1>10, <1>11, <1>12, <1>13, <1>15, <1>16, <1>17, <1>18, FitSteps

(* A statement that opens a list: its call f is pushed, and the builder is *)
(* where the list begins.                                                  *)
LEMMA FitOpen ==
  ASSUME FlowInv, phase = "generating", pc \in 1..Len(body), body[pc].op \in Openers,
         phase' = phase, body' = body, erased' = erased, pc' = pc + 1,
         NEW lab, GenFits(lab), NEW newLab, CodeFits(newLab, blocks', body), Continues(lab, blocks, newLab, blocks'),
         NEW f, stack' = Append(stack, f), WaitingAt(newLab, blocks', body, pc, f),
         BuilderFits(newLab, blocks', body, pc + 1, ins')
  PROVE  GenFits(newLab)'
<1>1. /\ Inv /\ Stream(body) /\ Balanced(body) /\ Flows(body, pc, stack)
      /\ stack \in Seq(Frames) \ {<<>>} /\ Len(stack) \in Nat \ {0} /\ Len(body) \in Nat
  BY GeneratingFacts
<1>2. PICK calls : calls = stack'
  OBVIOUS
<1>3. Len(calls) = Len(stack) + 1 /\ (\A i \in 1..Len(stack) : calls[i] = stack[i]) /\ calls[Len(stack) + 1] = f
  BY <1>1, <1>2
<1>4. PICK D \in Nat : D = Depth(body, pc) /\ Len(stack) = D + 1
  BY <1>1, StayingInLists DEF Flows
<1>5. Depth(body, pc + 1) = D + 1 /\ \A k \in 0..D : StaysIn(body, pc, pc + 1, k)
  BY <1>1, <1>4, StayingInLists DEF Openers, Marks
<1>6. Enclosing(body, pc + 1, D + 1) = pc
  BY <1>1, <1>4, OpensList
<1>7. ASSUME NEW k \in 1..D
      PROVE  k \in 1..Depth(body, pc) /\ Enclosing(body, pc + 1, k) = Enclosing(body, pc, k) /\ calls[k + 1] = stack[k + 1]
  <2>1. StaysIn(body, pc, pc + 1, k) /\ k + 1 \in 1..Len(stack) /\ k \in 1..Depth(body, pc)
    BY <1>4, <1>5
  <2> QED  BY <1>1, <1>3, <2>1, KindStays
<1>8. WaitingAt(newLab, blocks', body, Enclosing(body, pc + 1, D + 1), calls[(D + 1) + 1])
  BY <1>3, <1>4, <1>6
<1>9. WaitingFits(newLab, blocks', body, pc + 1, calls)
  <2>1. \A k \in 1..Depth(body, pc + 1) : k \in 1..D \/ k = D + 1
    BY <1>5
  <2>2. WaitingFits(lab, blocks, body, pc, stack)
    BY DEF GenFits
  <2>3. PICK new : new = blocks'
    OBVIOUS
  <2>4. Continues(lab, blocks, newLab, new) /\ WaitingAt(newLab, new, body, Enclosing(body, pc + 1, D + 1), calls[(D + 1) + 1])
    BY <1>8, <2>3
  <2>5. \A k \in 1..Depth(body, pc + 1) :
          \/ /\ k \in 1..Depth(body, pc) /\ Enclosing(body, pc + 1, k) = Enclosing(body, pc, k)
             /\ calls[k + 1].kind = stack[k + 1].kind
             /\ calls[k + 1].merge = stack[k + 1].merge /\ calls[k + 1].other = stack[k + 1].other
          \/ WaitingAt(newLab, new, body, Enclosing(body, pc + 1, k), calls[k + 1])
    BY <1>7, <2>1, <2>4
  <2>6. WaitingFits(newLab, new, body, pc + 1, calls)
    BY <2>2, <2>4, <2>5, WaitingSteps
  <2> QED  BY <2>3, <2>6
<1>10. pc + 1 \in 1..(Len(body) + 1) /\ pc' = IF FALSE THEN ListEnd(body, pc + 1) ELSE pc + 1
  BY <1>1
<1>11. 1 \notin erased'
  BY DEF GenFits
<1> QED  BY <1>2, <1>9, <1>10, <1>11, FitSteps

(* A compound is a list in the same block. *)
LEMMA FitCompound ==
  ASSUME FlowInv, NEW lab, GenFits(lab), GenCompound
  PROVE  GenFits(lab)'
<1>1. /\ phase = "generating" /\ pc \in 1..Len(body) /\ body' = body /\ phase' = phase /\ body[pc].op = "block"
      /\ ins' = ins /\ erased' = erased /\ blocks' = blocks /\ pc' = pc + 1
      /\ stack' = Append(stack, Frame("block", NoBlock, NoBlock))
  BY DEF GenCompound, At
<1>2. /\ Inv /\ Stream(body) /\ Balanced(body) /\ Len(body) \in Nat
  BY <1>1, GeneratingFacts
<1>3. ~Top.returned
  BY <1>1, <1>2, AtStatement
<1>4. /\ ins \in DOMAIN blocks /\ blocks \in Seq(Seq(Instrs)) /\ Len(blocks[ins]) \in Nat
      /\ StandEnd(lab, blocks, ins) \in (Len(blocks[ins]) + 1)..pc
      /\ LeadsTo(body, Declares, StandEnd(lab, blocks, ins), pc)
      /\ CodeFits(lab, blocks, body)
  BY <1>1, <1>3, BuilderLeads
<1>5. LeadsTo(body, Declares, pc, pc + 1)
  BY <1>1, <1>2, LeadsSteps DEF Declares
<1>6. BuilderFits(lab, blocks', body, pc + 1, ins')
  <2>1. StandEnd(lab, blocks, ins) \in (Len(blocks[ins]) + 1)..(pc + 1)
    BY <1>1, <1>4
  <2>2. LeadsTo(body, Declares, StandEnd(lab, blocks, ins), pc + 1)
    BY <1>4, <1>5, LeadsFurther
  <2> QED  BY <1>1, <1>4, <2>1, <2>2 DEF BuilderFits
<1>7. CodeFits(lab, blocks', body) /\ Continues(lab, blocks, lab, blocks')
  BY <1>1, <1>4 DEF Continues
<1>8. PICK f : f = Frame("block", NoBlock, NoBlock)
  OBVIOUS
<1>9. f.kind = "block"
  BY <1>8 DEF Frame
<1>10. WaitingAt(lab, blocks', body, pc, f)
  BY <1>9 DEF WaitingAt
<1> QED  BY <1>1, <1>6, <1>7, <1>8, <1>10, FitOpen DEF Openers

(* An if: the branch, then blocks for its lists and for what is behind it. *)
LEMMA FitIf ==
  ASSUME FlowInv, NEW lab, GenFits(lab), GenIf
  PROVE  \E newLab : GenFits(newLab)'
<1>1. /\ phase = "generating" /\ pc \in 1..Len(body) /\ body' = body /\ phase' = phase
      /\ body[pc].op \in {"if", "ifelse"} /\ erased' = erased /\ pc' = pc + 1
  BY DEF GenIf, At
<1>2. /\ Inv /\ Stream(body) /\ Balanced(body) /\ Len(body) \in Nat
  BY <1>1, GeneratingFacts
<1>3. ~Top.returned
  BY <1>1, <1>2, AtStatement
<1>4. /\ ins \in DOMAIN blocks /\ blocks \in Seq(Seq(Instrs)) /\ Len(blocks[ins]) \in Nat
      /\ StandEnd(lab, blocks, ins) \in (Len(blocks[ins]) + 1)..pc
      /\ LeadsTo(body, Declares, StandEnd(lab, blocks, ins), pc)
      /\ CodeFits(lab, blocks, body)
  BY <1>1, <1>3, BuilderLeads
<1>5. PICK n \in Nat : n = Len(blocks) /\ DOMAIN blocks = 1..n
  BY <1>4
<1>6. PICK hasElse \in BOOLEAN : hasElse <=> body[pc].op = "ifelse"
  OBVIOUS
<1>7. PICK else \in Nat : else = IF hasElse THEN n + 3 ELSE n + 2
  OBVIOUS
<1>8. PICK i : i = CondBr(pc, n + 1, else)
  OBVIOUS
<1>9. PICK ext : ext = IF hasElse THEN << <<>>, <<>>, <<>> >> ELSE << <<>>, <<>> >>
  OBVIOUS
<1>10. PICK f : f = Frame(IF hasElse THEN "then" ELSE "if", n + 2, else)
  OBVIOUS
<1>11. PICK new : new = blocks'
  OBVIOUS
<1>12. new = EmittedInto(blocks, ins, i) \o ext /\ ins' = n + 1 /\ stack' = Append(stack, f)
  BY <1>5, <1>6, <1>7, <1>8, <1>9, <1>10, <1>11 DEF GenIf, EmittedInto
<1>13. i \in Instrs /\ i.op = "cond" /\ i.at = pc /\ i.yes = n + 1 /\ i.no = else
  BY <1>1, <1>5, <1>7, <1>8, InstrFacts DEF CondBr, Instr
<1>14. ext \in Seq(Seq(Instrs)) /\ Len(ext) = (IF hasElse THEN 3 ELSE 2) /\ \A e \in DOMAIN ext : ext[e] = <<>>
  BY <1>9
<1>15. /\ DOMAIN new = 1..(IF hasElse THEN n + 3 ELSE n + 2)
       /\ \A c \in DOMAIN new \ DOMAIN blocks : new[c] = <<>>
  <2>1. PICK mid : mid = EmittedInto(blocks, ins, i)
    OBVIOUS
  <2>2. mid \in Seq(Seq(Instrs)) /\ Len(mid) = n
    BY <1>4, <1>5, <1>13, <2>1, EmitIn DEF EmittedInto
  <2>3. new = mid \o ext
    BY <1>12, <2>1
  <2>4. mid \in Seq(Seq(Instrs)) /\ ext \in Seq(Seq(Instrs))
    BY <1>14, <2>2
  <2>5. DOMAIN new = 1..(Len(mid) + Len(ext)) /\ \A e \in 1..Len(ext) : new[Len(mid) + e] = ext[e]
    BY ONLY <2>3, <2>4, AddBlocks
  <2>6. PICK m \in Nat : m = Len(ext) /\ DOMAIN ext = 1..m
    BY ONLY <2>4
  <2>7. DOMAIN new = 1..(n + m) /\ \A e \in 1..m : new[n + e] = <<>>
    BY <1>14, <2>2, <2>5, <2>6
  <2>8. ASSUME NEW c \in DOMAIN new \ DOMAIN blocks  PROVE new[c] = <<>>
    <3>1. c - n \in 1..m /\ c = n + (c - n)
      BY <1>5, <2>7
    <3> QED  BY <2>7, <3>1
  <2>9. n + m = IF hasElse THEN n + 3 ELSE n + 2
    BY <1>14, <2>6
  <2> QED  BY <2>7, <2>8, <2>9
<1>16. /\ ListEnd(body, pc + 1) + 1 \in 1..(Len(body) + 1) /\ Behind(body, pc) \in 1..(Len(body) + 1)
       /\ ~hasElse => Behind(body, pc) = ListEnd(body, pc + 1) + 1
  <2>1. body[pc].op \in Openers
    BY <1>1 DEF Openers
  <2>2. ListEnd(body, pc + 1) \in (pc + 1)..Len(body)
    BY <1>1, <1>2, <2>1, ElseIsAhead
  <2>3. Behind(body, pc) \in (pc + 1)..(Len(body) + 1)
    BY <1>1, <1>2, StatementFacts DEF Marks
  <2>4. ~hasElse => Behind(body, pc) = ListEnd(body, pc + 1) + 1
    BY <1>6, <2>1 DEF Behind
  <2> QED  BY <1>1, <1>2, <2>2, <2>3, <2>4
<1>17. PICK newLab : newLab = [c \in DOMAIN new |-> IF c \in DOMAIN blocks THEN lab[c]
                                                    ELSE IF c = n + 1 THEN pc + 1
                                                    ELSE IF c = n + 2 THEN Behind(body, pc)
                                                    ELSE ListEnd(body, pc + 1) + 1]
  OBVIOUS
<1>18. lab \in [DOMAIN blocks -> 1..(Len(body) + 1)]
  BY <1>4 DEF CodeFits
<1>19. /\ newLab \in [DOMAIN new -> 1..(Len(body) + 1)]
       /\ \A c \in DOMAIN blocks : newLab[c] = lab[c]
  <2>1. pc + 1 \in 1..(Len(body) + 1)
    BY <1>1, <1>2
  <2>2. \A c \in DOMAIN new : newLab[c] \in 1..(Len(body) + 1)
    BY <1>16, <1>17, <1>18, <2>1
  <2>3. DOMAIN blocks \subseteq DOMAIN new
    BY <1>5, <1>15
  <2> QED  BY <1>17, <2>2, <2>3
<1>20. /\ n + 1 \in DOMAIN new /\ n + 2 \in DOMAIN new /\ else \in DOMAIN new
       /\ newLab[n + 1] = pc + 1 /\ newLab[n + 2] = Behind(body, pc) /\ newLab[else] = ListEnd(body, pc + 1) + 1
       /\ new[n + 1] = <<>>
  <2>1. n + 1 \in DOMAIN new /\ n + 2 \in DOMAIN new /\ else \in DOMAIN new
    BY <1>5, <1>7, <1>15
  <2>2. n + 1 \notin DOMAIN blocks /\ n + 2 \notin DOMAIN blocks /\ else \notin DOMAIN blocks
    BY <1>5, <1>7
  <2>3. newLab[n + 1] = pc + 1 /\ newLab[n + 2] = Behind(body, pc)
    BY <1>5, <1>17, <2>1, <2>2
  <2>4. newLab[else] = ListEnd(body, pc + 1) + 1
    BY <1>5, <1>7, <1>16, <1>17, <2>1, <2>2, <2>3
  <2> QED  BY <1>15, <2>1, <2>2, <2>3, <2>4
<1>21. InstrFits(newLab, new, body, i, StandEnd(lab, blocks, ins))
  <2>1. pc \in StandEnd(lab, blocks, ins)..Len(body)
    BY <1>1, <1>2, <1>4
  <2> QED  BY <1>1, <1>4, <1>13, <1>20, <2>1 DEF InstrFits
<1>22. CodeFits(newLab, new, body) /\ Continues(lab, blocks, newLab, new)
  <2>1. FlowInv /\ GenFits(lab) /\ phase = "generating" /\ pc \in 1..Len(body)
    BY <1>1
  <2> QED  BY ONLY <2>1, <1>3, <1>12, <1>13, <1>14, <1>15, <1>19, <1>21, FitEmit
<1>23. BuilderFits(newLab, new, body, pc + 1, n + 1)
  <2>1. Len(new[n + 1]) = 0
    BY <1>20
  <2>2. StandEnd(newLab, new, n + 1) = pc + 1
    BY <1>20, <2>1 DEF StandEnd, Stand
  <2> QED  BY <1>1, <1>2, <1>20, <2>1, <2>2 DEF BuilderFits, LeadsTo
<1>24. WaitingAt(newLab, new, body, pc, f)
  <2>1. f.kind \in {"if", "then"} /\ f.merge = n + 2 /\ f.other = else
    BY <1>10 DEF Frame
  <2> QED  BY <1>20, <2>1 DEF WaitingAt
<1>25. GenFits(newLab)'
  BY <1>1, <1>11, <1>12, <1>22, <1>23, <1>24, FitOpen DEF Openers
<1> QED  BY <1>25

(* A loop: the branch to its check, the check, and its other blocks.       *)
LEMMA FitWhile ==
  ASSUME FlowInv, NEW lab, GenFits(lab), GenWhile
  PROVE  \E newLab : GenFits(newLab)'
<1>1. /\ phase = "generating" /\ pc \in 1..Len(body) /\ body' = body /\ phase' = phase
      /\ body[pc].op = "while" /\ erased' = erased /\ pc' = pc + 1
  BY DEF GenWhile, At
<1>2. /\ Inv /\ Stream(body) /\ Balanced(body) /\ Len(body) \in Nat
  BY <1>1, GeneratingFacts
<1>3. ~Top.returned
  BY <1>1, <1>2, AtStatement
<1>4. /\ ins \in DOMAIN blocks /\ blocks \in Seq(Seq(Instrs)) /\ Len(blocks[ins]) \in Nat
      /\ StandEnd(lab, blocks, ins) \in (Len(blocks[ins]) + 1)..pc
      /\ LeadsTo(body, Declares, StandEnd(lab, blocks, ins), pc)
      /\ CodeFits(lab, blocks, body)
  BY <1>1, <1>3, BuilderLeads
<1>5. PICK n \in Nat : n = Len(blocks) /\ DOMAIN blocks = 1..n
  BY <1>4
<1>6. PICK cond : cond = CondBr(pc, n + 2, n + 3)
  OBVIOUS
<1>7. PICK i : i = Br(n + 1)
  OBVIOUS
<1>8. PICK ext : ext = << <<cond>>, <<>>, <<>> >>
  OBVIOUS
<1>9. PICK f : f = Frame("loop", n + 3, n + 1)
  OBVIOUS
<1>10. PICK new : new = blocks'
  OBVIOUS
<1>11. new = EmittedInto(blocks, ins, i) \o ext /\ ins' = n + 2 /\ stack' = Append(stack, f)
  BY <1>5, <1>6, <1>7, <1>8, <1>9, <1>10 DEF GenWhile, EmittedInto
<1>12. /\ i \in Instrs /\ i.op = "br" /\ i.at = 0 /\ i.yes = n + 1
       /\ cond \in Instrs /\ cond.op = "cond" /\ cond.at = pc /\ cond.yes = n + 2 /\ cond.no = n + 3
  <2>1. pc \in Nat /\ n + 1 \in Nat /\ n + 2 \in Nat /\ n + 3 \in Nat
    BY <1>1, <1>5
  <2>2. i \in Instrs /\ i.op = "br" /\ i.at = 0 /\ i.yes = n + 1
    BY <1>7, <2>1, InstrFacts DEF Br, Instr
  <2>3. cond \in Instrs
    BY <1>6, <2>1, InstrFacts
  <2>4. cond.op = "cond" /\ cond.at = pc /\ cond.yes = n + 2 /\ cond.no = n + 3
    BY <1>6 DEF CondBr, Instr
  <2> QED  BY <2>2, <2>3, <2>4
<1>13. ext \in Seq(Seq(Instrs)) /\ Len(ext) = 3 /\ ext[1] = <<cond>> /\ ext[2] = <<>> /\ ext[3] = <<>>
  BY <1>8, <1>12
<1>14. DOMAIN new = 1..(n + 3) /\ new[n + 1] = <<cond>> /\ new[n + 2] = <<>> /\ new[n + 3] = <<>>
  <2>1. PICK mid : mid = EmittedInto(blocks, ins, i)
    OBVIOUS
  <2>2. mid \in Seq(Seq(Instrs)) /\ Len(mid) = n
    BY <1>4, <1>5, <1>12, <2>1, EmitIn DEF EmittedInto
  <2>3. new = mid \o ext
    BY <1>11, <2>1
  <2>4. mid \in Seq(Seq(Instrs)) /\ ext \in Seq(Seq(Instrs))
    BY <1>13, <2>2
  <2>5. DOMAIN new = 1..(Len(mid) + Len(ext)) /\ \A e \in 1..Len(ext) : new[Len(mid) + e] = ext[e]
    BY ONLY <2>3, <2>4, AddBlocks
  <2> QED  BY <1>13, <2>2, <2>5
<1>15. /\ ListEnd(body, pc + 1) + 1 \in 1..(Len(body) + 1)
       /\ Behind(body, pc) = ListEnd(body, pc + 1) + 1
  <2>1. body[pc].op \in Openers
    BY <1>1 DEF Openers
  <2>2. ListEnd(body, pc + 1) \in (pc + 1)..Len(body)
    BY <1>1, <1>2, <2>1, ElseIsAhead
  <2>3. Behind(body, pc) = ListEnd(body, pc + 1) + 1
    BY <1>1, <2>1 DEF Behind
  <2> QED  BY <1>1, <1>2, <2>2, <2>3
<1>16. PICK newLab : newLab = [c \in DOMAIN new |-> IF c \in DOMAIN blocks THEN lab[c]
                                                    ELSE IF c = n + 1 THEN pc
                                                    ELSE IF c = n + 2 THEN pc + 1
                                                    ELSE ListEnd(body, pc + 1) + 1]
  OBVIOUS
<1>17. lab \in [DOMAIN blocks -> 1..(Len(body) + 1)]
  BY <1>4 DEF CodeFits
<1>18. /\ newLab \in [DOMAIN new -> 1..(Len(body) + 1)]
       /\ \A c \in DOMAIN blocks : newLab[c] = lab[c]
  <2>1. pc \in 1..(Len(body) + 1) /\ pc + 1 \in 1..(Len(body) + 1)
    BY <1>1, <1>2
  <2>2. \A c \in DOMAIN new : newLab[c] \in 1..(Len(body) + 1)
    BY <1>15, <1>16, <1>17, <2>1
  <2>3. DOMAIN blocks \subseteq DOMAIN new
    BY <1>5, <1>14
  <2> QED  BY <1>16, <2>2, <2>3
<1>19. /\ n + 1 \in DOMAIN new /\ n + 2 \in DOMAIN new /\ n + 3 \in DOMAIN new
       /\ newLab[n + 1] = pc /\ newLab[n + 2] = pc + 1 /\ newLab[n + 3] = ListEnd(body, pc + 1) + 1
  <2>1. n + 1 \in DOMAIN new /\ n + 2 \in DOMAIN new /\ n + 3 \in DOMAIN new
    BY <1>5, <1>14
  <2>2. n + 1 \notin DOMAIN blocks /\ n + 2 \notin DOMAIN blocks /\ n + 3 \notin DOMAIN blocks
    BY <1>5
  <2> QED  BY <1>5, <1>16, <2>1, <2>2
<1>20. IsCheck(new, n + 1)
  BY <1>12, <1>14 DEF IsCheck
<1>21. InstrFits(newLab, new, body, i, StandEnd(lab, blocks, ins))
  BY <1>4, <1>12, <1>19, <1>20 DEF InstrFits
<1>22. InstrFits(newLab, new, body, cond, pc)
  <2>1. pc \in pc..Len(body) /\ LeadsTo(body, Declares, pc, pc)
    BY <1>1, <1>2 DEF LeadsTo
  <2> QED  BY <1>1, <1>12, <1>19, <2>1 DEF InstrFits
<1>23. \A c \in DOMAIN new \ DOMAIN blocks :
          new[c] = <<>> \/ (Len(new[c]) = 1 /\ newLab[c] <= Len(body) /\ InstrFits(newLab, new, body, new[c][1], newLab[c]))
  <2>1. \A c \in DOMAIN new \ DOMAIN blocks : c = n + 1 \/ c = n + 2 \/ c = n + 3
    BY <1>5, <1>14
  <2>2. Len(new[n + 1]) = 1 /\ new[n + 1][1] = cond /\ newLab[n + 1] <= Len(body)
    BY <1>1, <1>2, <1>14, <1>19
  <2> QED  BY <1>14, <1>19, <1>22, <2>1, <2>2
<1>24. CodeFits(newLab, new, body) /\ Continues(lab, blocks, newLab, new)
  <2>1. FlowInv /\ GenFits(lab) /\ phase = "generating" /\ pc \in 1..Len(body)
    BY <1>1
  <2> QED  BY ONLY <2>1, <1>3, <1>11, <1>12, <1>13, <1>18, <1>21, <1>23, FitEmit
<1>25. BuilderFits(newLab, new, body, pc + 1, n + 2)
  <2>1. Len(new[n + 2]) = 0
    BY <1>14
  <2>2. StandEnd(newLab, new, n + 2) = pc + 1
    BY <1>19, <2>1 DEF StandEnd, Stand
  <2> QED  BY <1>1, <1>2, <1>19, <2>1, <2>2 DEF BuilderFits, LeadsTo
<1>26. WaitingAt(newLab, new, body, pc, f)
  <2>1. f.kind = "loop" /\ f.merge = n + 3 /\ f.other = n + 1
    BY <1>9 DEF Frame
  <2> QED  BY <1>15, <1>19, <1>20, <2>1 DEF WaitingAt
<1>27. GenFits(newLab)'
  BY <1>1, <1>10, <1>11, <1>24, <1>25, <1>26, FitOpen DEF Openers
<1> QED  BY <1>27

(* What a mark ends: the statement o that opened the list, and what is     *)
(* waited for on top of the calls.                                         *)
LEMMA FitMark ==
  ASSUME FlowInv, phase = "generating", pc \in 1..Len(body), body[pc].op \in Marks, NEW lab, GenFits(lab)
  PROVE  \E o \in 1..(pc - 1) :
           /\ o = Enclosing(body, pc, Depth(body, pc)) /\ body[o].op \in Openers
           /\ Top.kind = KindOf(body, o, pc) /\ WaitingAt(lab, blocks, body, o, Top)
           /\ Depth(body, pc) \in Nat \ {0} /\ Len(stack) = Depth(body, pc) + 1
           /\ Top = stack[Len(stack)]
<1>1. Stream(body) /\ Balanced(body) /\ Flows(body, pc, stack) /\ stack \in Seq(Frames) \ {<<>>}
  BY GeneratingFacts
<1>2. PICK D \in Nat \ {0} : D = Depth(body, pc) /\ Len(stack) = D + 1
  <2>1. Len(stack) = Depth(body, pc) + 1 /\ Depth(body, pc) \in Nat /\ Depth(body, pc + 1) \in Nat
        /\ (body[pc].op = "else" => Depth(body, pc) > 0)
        /\ (body[pc].op = "end" => Depth(body, pc + 1) = Depth(body, pc) - 1)
    BY <1>1, StayingInLists DEF Flows
  <2>2. PICK d, e : d = Depth(body, pc) /\ e = Depth(body, pc + 1)
    OBVIOUS
  <2>3. d # 0
    BY <2>1, <2>2 DEF Marks
  <2> QED  BY <2>1, <2>2, <2>3
<1>3. PICK o : o = Enclosing(body, pc, D)
  OBVIOUS
<1>4. o \in 1..(pc - 1) /\ body[o].op \in Openers
  BY <1>1, <1>2, <1>3, MarkOf
<1>5. D \in 1..Depth(body, pc) /\ Top = stack[D + 1]
  BY <1>2 DEF Top
<1>6. Top.kind = KindOf(body, o, pc)
  BY <1>1, <1>2, <1>3, <1>5 DEF Flows
<1>7. WaitingAt(lab, blocks, body, o, Top)
  BY <1>2, <1>3, <1>5 DEF GenFits, WaitingFits
<1> QED  BY <1>2, <1>3, <1>4, <1>5, <1>6, <1>7

(* A list that did not return goes on at block t.                          *)
LEMMA FitBranch ==
  ASSUME FlowInv, phase = "generating", pc \in 1..Len(body), NEW lab, GenFits(lab), NEW t,
         BranchUnlessReturned(t), t \in DOMAIN blocks, LeadsTo(body, Declares, pc, lab[t]),
         pc < lab[t] \/ IsCheck(blocks, t)
  PROVE  /\ CodeFits(lab, blocks', body) /\ Continues(lab, blocks, lab, blocks')
         /\ DOMAIN blocks' = DOMAIN blocks /\ \A c \in DOMAIN blocks \ {ins} : blocks'[c] = blocks[c]
<1>1. CASE Top.returned
  <2>1. blocks' = blocks
    BY <1>1 DEF BranchUnlessReturned
  <2>2. CodeFits(lab, blocks, body)
    BY DEF GenFits
  <2> QED  BY <2>1, <2>2 DEF Continues
<1>2. CASE ~Top.returned
  <2>1. /\ ins \in DOMAIN blocks /\ blocks \in Seq(Seq(Instrs)) /\ Len(blocks[ins]) \in Nat
        /\ StandEnd(lab, blocks, ins) \in (Len(blocks[ins]) + 1)..pc
        /\ LeadsTo(body, Declares, StandEnd(lab, blocks, ins), pc)
        /\ CodeFits(lab, blocks, body)
    BY <1>2, BuilderLeads
  <2>2. PICK i : i = Br(t)
    OBVIOUS
  <2>3. t \in Nat
    BY <2>1
  <2>4. i \in Instrs /\ i.op = "br" /\ i.at = 0 /\ i.yes = t
    BY <2>2, <2>3, InstrFacts DEF Br, Instr
  <2>5. PICK new : new = blocks'
    OBVIOUS
  <2>6. new = EmittedInto(blocks, ins, i)
    BY <1>2, <2>2, <2>5 DEF BranchUnlessReturned, Emit, EmittedInto
  <2>7. /\ DOMAIN new = DOMAIN blocks
        /\ \A c \in DOMAIN blocks \ {ins} : new[c] = blocks[c]
        /\ Len(new[ins]) = Len(blocks[ins]) + 1 /\ new[ins][Len(blocks[ins]) + 1] = i
        /\ \A k \in 1..Len(blocks[ins]) : new[ins][k] = blocks[ins][k]
        /\ new[ins] \in Seq(Instrs)
    BY ONLY <2>1, <2>4, <2>6, EmitIn DEF EmittedInto
  <2>8. IsCheck(blocks, t) => IsCheck(new, t)
    <3>1. CASE t # ins
      BY <2>7, <3>1 DEF IsCheck
    <3>2. CASE t = ins
      <4> SUFFICES ASSUME IsCheck(blocks, t)  PROVE IsCheck(new, t)
        OBVIOUS
      <4>1. PICK old \in Seq(Instrs) : old = blocks[ins]
        BY <2>1
      <4>2. old # <<>> /\ old[1].op = "cond"
        BY <3>2, <4>1 DEF IsCheck
      <4>3. 1 \in 1..Len(old)
        BY <4>1, <4>2
      <4>4. new[ins][1] = old[1] /\ Len(new[ins]) # 0
        BY <2>1, <2>7, <4>1, <4>3
      <4> QED  BY <2>7, <3>2, <4>2, <4>4 DEF IsCheck
    <3> QED  BY <3>1, <3>2
  <2>9. InstrFits(lab, new, body, i, StandEnd(lab, blocks, ins))
    <3>1. LeadsTo(body, Declares, StandEnd(lab, blocks, ins), lab[t])
      BY <2>1, LeadsFurther
    <3>2. StandEnd(lab, blocks, ins) < lab[t] \/ IsCheck(new, t)
      <4>1. lab[t] \in Nat
        BY <2>1 DEF CodeFits
      <4> QED  BY <2>1, <2>8, <4>1
    <3> QED  BY <2>4, <2>7, <3>1, <3>2 DEF InstrFits
  <2>10. CodeFits(lab, new, body) /\ Continues(lab, blocks, lab, new)
    <3>1. FlowInv /\ GenFits(lab) /\ phase = "generating" /\ pc \in 1..Len(body)
      OBVIOUS
    <3> QED  BY ONLY <1>2, <2>4, <2>6, <2>9, <3>1, FitEmitOnly
  <2> QED  BY <2>5, <2>7, <2>10
<1> QED  BY <1>1, <1>2

(* The first list of an if ends and the second one begins. *)
LEMMA FitElse ==
  ASSUME FlowInv, NEW lab, GenFits(lab), GenElse
  PROVE  GenFits(lab)'
<1>1. /\ phase = "generating" /\ pc \in 1..Len(body) /\ body' = body /\ phase' = phase
      /\ body[pc].op = "else" /\ pc' = pc + 1 /\ Top.kind = "then" /\ erased' = erased
      /\ BranchUnlessReturned(Top.merge) /\ ins' = Top.other
      /\ stack' = Append(Below, [Top EXCEPT !.kind = "else", !.thenReturned = Top.returned, !.returned = FALSE])
  BY DEF GenElse, At
<1>2. /\ Inv /\ Stream(body) /\ Balanced(body) /\ Flows(body, pc, stack)
      /\ stack \in Seq(Frames) \ {<<>>} /\ Len(stack) \in Nat \ {0} /\ Len(body) \in Nat
  BY <1>1, GeneratingFacts
<1>3. body[pc].op \in Marks
  BY <1>1 DEF Marks
<1>4. PICK o \in 1..(pc - 1) :
           /\ o = Enclosing(body, pc, Depth(body, pc)) /\ body[o].op \in Openers
           /\ Top.kind = KindOf(body, o, pc) /\ WaitingAt(lab, blocks, body, o, Top)
           /\ Depth(body, pc) \in Nat \ {0} /\ Len(stack) = Depth(body, pc) + 1
           /\ Top = stack[Len(stack)]
  BY <1>1, <1>3, FitMark
<1>5. PICK D \in Nat \ {0} : D = Depth(body, pc) /\ Len(stack) = D + 1
  BY <1>4
<1>6. /\ body[o].op = "ifelse" /\ ListEnd(body, o + 1) = pc /\ Enclosing(body, pc + 1, D) = o
  BY <1>1, <1>2, <1>3, <1>4, <1>5, MarkOf
<1>7. /\ Top.merge \in DOMAIN blocks /\ lab[Top.merge] = Behind(body, o)
      /\ Top.other \in DOMAIN blocks /\ lab[Top.other] = pc + 1
  BY <1>1, <1>4, <1>6 DEF WaitingAt
<1>8. ElseEnd(body, pc) + 1 = Behind(body, o) /\ pc < Behind(body, o)
  <2>1. ListEnd(body, pc + 1) \in (pc + 1)..Len(body)
    BY <1>1, <1>2, ElseIsAhead
  <2>2. Behind(body, o) = ListEnd(body, pc + 1) + 1
    BY <1>4, <1>6 DEF Behind
  <2> QED  BY <1>1, <1>2, <2>1, <2>2 DEF ElseEnd
<1>9. LeadsTo(body, Declares, pc, lab[Top.merge])
  BY <1>1, <1>2, <1>7, <1>8, LeadsSteps DEF Declares
<1>10. PICK new : new = blocks'
  OBVIOUS
<1>11. /\ CodeFits(lab, new, body) /\ Continues(lab, blocks, lab, new)
       /\ DOMAIN new = DOMAIN blocks /\ \A c \in DOMAIN blocks \ {ins} : new[c] = blocks[c]
  <2>1. PICK t : t = Top.merge
    OBVIOUS
  <2> QED  BY <1>1, <1>7, <1>8, <1>9, <1>10, <2>1, FitBranch
<1>12. new[Top.other] = <<>>
  <2>1. Len(stack) \in DOMAIN stack
    BY <1>2
  <2>2. Top.other \in Waiting(stack[Len(stack)])
    BY <1>1, <1>4 DEF Waiting
  <2>3. blocks[Top.other] = <<>> /\ Top.other # ins
    BY <1>2, <2>1, <2>2 DEF Inv, WaitingBlocksAreFresh
  <2> QED  BY <1>7, <1>11, <2>3
<1>13. BuilderFits(lab, new, body, pc + 1, ins')
  <2>1. Len(new[Top.other]) = 0
    BY <1>12
  <2>2. StandEnd(lab, new, Top.other) = pc + 1
    BY <1>7, <2>1 DEF StandEnd, Stand
  <2> QED  BY <1>1, <1>7, <1>11, <2>1, <2>2 DEF BuilderFits, LeadsTo
<1>14. PICK f : f = [Top EXCEPT !.kind = "else", !.thenReturned = Top.returned, !.returned = FALSE]
  OBVIOUS
<1>15. Top \in Frames /\ Below \in Seq(Frames) /\ Len(Below) = D /\ \A k \in 1..D : Below[k] = stack[k]
  <2>1. Len(stack) - 1 = D
    BY <1>5
  <2> QED  BY <1>2, <2>1, Calls
<1>16. f \in Frames /\ f.kind = "else" /\ f.merge = Top.merge
  BY <1>14, <1>15 DEF Frames
<1>17. PICK calls : calls = stack'
  OBVIOUS
<1>18. calls[D + 1] = f /\ \A k \in 1..D : calls[k] = stack[k]
  <2>1. calls = Append(Below, f)
    BY <1>1, <1>14, <1>17
  <2> QED  BY <1>15, <1>16, <2>1
<1>19. WaitingFits(lab, new, body, pc + 1, calls)
  <2>1. Depth(body, pc + 1) = D /\ \A k \in 0..(D - 1) : StaysIn(body, pc, pc + 1, k)
    BY <1>1, <1>2, <1>5, StayingInLists
  <2>2. ASSUME NEW k \in 1..(D - 1)
        PROVE  k \in 1..Depth(body, pc) /\ Enclosing(body, pc + 1, k) = Enclosing(body, pc, k) /\ calls[k + 1] = stack[k + 1]
    <3>1. k \in 1..Depth(body, pc) /\ k + 1 \in 1..D /\ StaysIn(body, pc, pc + 1, k)
      BY <1>5, <2>1
    <3> QED  BY <1>1, <1>2, <1>18, <3>1, KindStays
  <2>3. WaitingAt(lab, new, body, Enclosing(body, pc + 1, D), calls[D + 1])
    BY <1>6, <1>7, <1>11, <1>16, <1>18 DEF WaitingAt
  <2>4. \A k \in 1..Depth(body, pc + 1) : k \in 1..(D - 1) \/ k = D
    BY <2>1
  <2>5. \A k \in 1..Depth(body, pc + 1) :
          \/ /\ k \in 1..Depth(body, pc) /\ Enclosing(body, pc + 1, k) = Enclosing(body, pc, k)
             /\ calls[k + 1].kind = stack[k + 1].kind
             /\ calls[k + 1].merge = stack[k + 1].merge /\ calls[k + 1].other = stack[k + 1].other
          \/ WaitingAt(lab, new, body, Enclosing(body, pc + 1, k), calls[k + 1])
    BY <2>2, <2>3, <2>4
  <2>6. WaitingFits(lab, blocks, body, pc, stack)
    BY <1>1 DEF GenFits
  <2> QED  BY <1>11, <2>5, <2>6, WaitingSteps
<1>20. pc + 1 \in 1..(Len(body) + 1) /\ pc' = IF FALSE THEN ListEnd(body, pc + 1) ELSE pc + 1
  BY <1>1, <1>2
<1>21. 1 \notin erased'
  BY <1>1 DEF GenFits
<1> QED  BY <1>1, <1>10, <1>11, <1>13, <1>17, <1>19, <1>20, <1>21, FitSteps

(* The end of a list and of its statement. *)
LEMMA FitEnd ==
  ASSUME FlowInv, NEW lab, GenFits(lab), EndIf \/ EndIfElse \/ EndWhile \/ EndCompound
  PROVE  GenFits(lab)'
<1>1. /\ phase = "generating" /\ pc \in 1..Len(body) /\ body' = body /\ phase' = phase
      /\ body[pc].op = "end" /\ Top.kind # "body"
  BY DEF EndIf, EndIfElse, EndIfElseWith, EndWhile, EndWhileWith, EndCompound, At
<1>2. /\ Inv /\ Stream(body) /\ Balanced(body) /\ Flows(body, pc, stack)
      /\ stack \in Seq(Frames) \ {<<>>} /\ Len(stack) \in Nat \ {0} /\ Len(body) \in Nat
  BY <1>1, GeneratingFacts
<1>3. body[pc].op \in Marks
  BY <1>1 DEF Marks
<1>4. PICK o \in 1..(pc - 1) :
           /\ o = Enclosing(body, pc, Depth(body, pc)) /\ body[o].op \in Openers
           /\ Top.kind = KindOf(body, o, pc) /\ WaitingAt(lab, blocks, body, o, Top)
           /\ Depth(body, pc) \in Nat \ {0} /\ Len(stack) = Depth(body, pc) + 1
           /\ Top = stack[Len(stack)]
  BY <1>1, <1>3, FitMark
<1>5. PICK D \in Nat \ {0} : D = Depth(body, pc) /\ Len(stack) = D + 1
  BY <1>4
<1>6. Behind(body, o) = pc + 1 /\ OpenerOf(body, pc) = o /\ (body[o].op = "ifelse" => InElse(body, o, pc))
  BY <1>1, <1>2, <1>3, <1>4, <1>5, MarkOf
<1>7. /\ Top.kind = "block" <=> body[o].op = "block"
      /\ Top.kind = "loop" <=> body[o].op = "while"
      /\ Top.kind \in {"block", "if", "else", "loop"}
  BY <1>4, <1>6 DEF KindOf, Openers
<1>8. Top.kind # "block" => Top.merge \in DOMAIN blocks /\ lab[Top.merge] = pc + 1
  BY <1>4, <1>6 DEF WaitingAt
<1>9. PICK new : new = blocks'
  OBVIOUS
<1>10. CodeFits(lab, blocks, body) /\ WaitingFits(lab, blocks, body, pc, stack) /\ 1 \notin erased
  BY <1>1 DEF GenFits
<1>11. /\ CodeFits(lab, new, body) /\ Continues(lab, blocks, lab, new)
       /\ Top.kind # "block" => /\ DOMAIN new = DOMAIN blocks /\ \A c \in DOMAIN blocks \ {ins} : new[c] = blocks[c]
                                /\ ins' = Top.merge
  <2>1. CASE EndCompound
    BY <1>9, <1>10, <2>1 DEF EndCompound, Continues
  <2>2. CASE EndIf \/ EndIfElse
    <3>1. BranchUnlessReturned(Top.merge) /\ ins' = Top.merge /\ Top.kind \in {"if", "else"}
      BY <2>2 DEF EndIf, EndIfElse, EndIfElseWith
    <3>2. LeadsTo(body, Declares, pc, pc + 1)
      BY <1>1, <1>2, <1>6, <1>7, <3>1, LeadsSteps DEF Declares
    <3>3. PICK t : t = Top.merge
      OBVIOUS
    <3>4. t \in DOMAIN blocks /\ LeadsTo(body, Declares, pc, lab[t]) /\ pc < lab[t] /\ BranchUnlessReturned(t)
      BY <1>1, <1>8, <3>1, <3>2, <3>3
    <3> QED  BY <1>1, <1>9, <3>1, <3>4, FitBranch
  <2>3. CASE EndWhile
    <3>1. BranchUnlessReturned(Top.other) /\ ins' = Top.merge /\ Top.kind = "loop"
      BY <2>3 DEF EndWhile, EndWhileWith
    <3>2. LeadsTo(body, Declares, pc, o)
      BY <1>1, <1>2, <1>6, <1>7, <3>1, LeadsSteps DEF Declares
    <3>3. PICK t : t = Top.other
      OBVIOUS
    <3>4. t \in DOMAIN blocks /\ LeadsTo(body, Declares, pc, lab[t]) /\ IsCheck(blocks, t) /\ BranchUnlessReturned(t)
      BY <1>4, <3>1, <3>2, <3>3 DEF WaitingAt
    <3> QED  BY <1>1, <1>9, <3>1, <3>4, FitBranch
  <2> QED  BY <2>1, <2>2, <2>3
<1>12. PICK r \in BOOLEAN : AfterStatement(Below, r, pc + 1) /\ (Top.kind = "block" => (r <=> Top.returned))
  <2>1. Top \in Frames
    BY <1>2, Calls
  <2>2. Top.returned \in BOOLEAN /\ Top.thenReturned \in BOOLEAN
    BY <2>1 DEF Frames
  <2>3. CASE EndIf \/ EndWhile
    BY <2>3 DEF EndIf, EndWhile, EndWhileWith
  <2>4. CASE EndIfElse
    <3>1. (Top.thenReturned /\ Top.returned) \in BOOLEAN
      OBVIOUS
    <3>2. AfterStatement(Below, Top.thenReturned /\ Top.returned, pc + 1) /\ Top.kind = "else"
      BY <2>4 DEF EndIfElse, EndIfElseWith
    <3> QED  BY <3>1, <3>2
  <2>5. CASE EndCompound
    BY <2>2, <2>5 DEF EndCompound
  <2> QED  BY <2>3, <2>4, <2>5
<1>13. r \/ BuilderFits(lab, new, body, pc + 1, ins')
  <2>1. CASE Top.kind = "block"
    <3> SUFFICES ASSUME ~r  PROVE BuilderFits(lab, new, body, pc + 1, ins')
      OBVIOUS
    <3>1. ~Top.returned /\ new = blocks /\ ins' = ins
      <4>1. EndCompound
        BY <2>1 DEF EndIf, EndIfElse, EndIfElseWith, EndWhile, EndWhileWith
      <4> QED  BY <1>9, <1>12, <2>1, <4>1 DEF EndCompound
    <3>2. /\ ins \in DOMAIN blocks /\ blocks \in Seq(Seq(Instrs)) /\ Len(blocks[ins]) \in Nat
          /\ StandEnd(lab, blocks, ins) \in (Len(blocks[ins]) + 1)..pc
          /\ LeadsTo(body, Declares, StandEnd(lab, blocks, ins), pc)
      BY <1>1, <3>1, BuilderLeads
    <3>3. LeadsTo(body, Declares, pc, pc + 1)
      BY <1>1, <1>2, <1>6, <1>7, <2>1, LeadsSteps DEF Declares
    <3>4. LeadsTo(body, Declares, StandEnd(lab, blocks, ins), pc + 1)
      BY <3>2, <3>3, LeadsFurther
    <3>5. StandEnd(lab, blocks, ins) \in (Len(blocks[ins]) + 1)..(pc + 1)
      BY <1>1, <3>2
    <3> QED  BY <3>1, <3>2, <3>4, <3>5 DEF BuilderFits
  <2>2. CASE Top.kind # "block"
    <3>1. new[Top.merge] = <<>>
      <4>1. Len(stack) \in DOMAIN stack
        BY <1>2
      <4>2. Top.merge \in Waiting(stack[Len(stack)])
        BY <1>4, <1>7, <2>2 DEF Waiting
      <4>3. blocks[Top.merge] = <<>> /\ Top.merge # ins
        BY <1>2, <4>1, <4>2 DEF Inv, WaitingBlocksAreFresh
      <4> QED  BY <1>8, <1>11, <2>2, <4>3
    <3>2. Len(new[Top.merge]) = 0
      BY <3>1
    <3>3. StandEnd(lab, new, Top.merge) = pc + 1
      BY <1>8, <2>2, <3>2 DEF StandEnd, Stand
    <3>4. BuilderFits(lab, new, body, pc + 1, Top.merge)
      BY <1>1, <1>8, <1>11, <2>2, <3>2, <3>3 DEF BuilderFits, LeadsTo
    <3> QED  BY <1>11, <2>2, <3>4
  <2> QED  BY <2>1, <2>2
<1>14. PICK calls : calls = stack'
  OBVIOUS
<1>15. calls = [Below EXCEPT ![Len(Below)].returned = r] /\ pc' = IF r THEN ListEnd(body, pc + 1) ELSE pc + 1
  BY <1>12, <1>14 DEF AfterStatement
<1>16. Below \in Seq(Frames) /\ Len(Below) = D /\ Below # <<>> /\ \A k \in 1..D : Below[k] = stack[k]
  <2>1. Len(stack) - 1 = D
    BY <1>5
  <2>2. Below \in Seq(Frames) /\ Len(Below) = D /\ \A k \in 1..D : Below[k] = stack[k]
    BY <1>2, <2>1, Calls
  <2> QED  BY <2>2
<1>17. /\ \A k \in 1..D : calls[k].kind = stack[k].kind /\ calls[k].merge = stack[k].merge /\ calls[k].other = stack[k].other
       /\ Len(calls) = D /\ (calls[D].returned <=> r)
  <2>1. Below \in Seq(Frames) \ {<<>>}
    BY <1>16
  <2>2. \A k \in 1..Len(Below) : calls[k].kind = Below[k].kind /\ calls[k].merge = Below[k].merge /\ calls[k].other = Below[k].other
    BY <1>15, <2>1, SameWaiting
  <2>3. Len(calls) = Len(Below) /\ (calls[Len(Below)].returned <=> r)
    BY <1>15, <2>1, CallsAfter
  <2> QED  BY <1>16, <2>2, <2>3
<1>18. WaitingFits(lab, new, body, pc + 1, calls)
  <2>1. Depth(body, pc + 1) = D - 1 /\ \A k \in 0..(D - 1) : StaysIn(body, pc, pc + 1, k)
    BY <1>1, <1>2, <1>5, StayingInLists
  <2>2. ASSUME NEW k \in 1..(D - 1)
        PROVE  /\ k \in 1..Depth(body, pc) /\ Enclosing(body, pc + 1, k) = Enclosing(body, pc, k)
               /\ calls[k + 1].kind = stack[k + 1].kind
               /\ calls[k + 1].merge = stack[k + 1].merge /\ calls[k + 1].other = stack[k + 1].other
    <3>1. k \in 1..Depth(body, pc) /\ k + 1 \in 1..D /\ StaysIn(body, pc, pc + 1, k)
      BY <1>5, <2>1
    <3> QED  BY <1>1, <1>2, <1>17, <3>1, KindStays
  <2>3. \A k \in 1..Depth(body, pc + 1) :
          /\ k \in 1..Depth(body, pc) /\ Enclosing(body, pc + 1, k) = Enclosing(body, pc, k)
          /\ calls[k + 1].kind = stack[k + 1].kind
          /\ calls[k + 1].merge = stack[k + 1].merge /\ calls[k + 1].other = stack[k + 1].other
    BY <2>1, <2>2
  <2> QED  BY <1>10, <1>11, <2>3, WaitingSteps
<1>19. 1 \notin erased'
  <2>1. erased' = erased \/ (erased' = erased \cup {Top.merge} /\ Top.kind # "block")
    BY DEF EndIf, EndIfElse, EndIfElseWith, EndWhile, EndWhileWith, EndCompound
  <2>2. Top.kind # "block" => Top.merge # 1
    <3>1. lab[1] = 1
      BY <1>10 DEF CodeFits
    <3>2. pc + 1 # 1
      BY <1>1
    <3> QED  BY <1>8, <3>1, <3>2
  <2> QED  BY <1>10, <2>1, <2>2
<1>20. pc + 1 \in 1..(Len(body) + 1)
  BY <1>1, <1>2
<1>21. (r => calls[Len(calls)].returned) /\ (calls[Len(calls)].returned \/ BuilderFits(lab, blocks', body, pc + 1, ins'))
  BY <1>9, <1>13, <1>17
<1>22. CodeFits(lab, blocks', body) /\ WaitingFits(lab, blocks', body, pc + 1, calls)
  BY <1>9, <1>11, <1>18
<1> QED  BY <1>1, <1>14, <1>15, <1>19, <1>20, <1>21, <1>22, FitSteps

(* The body ends: nobody waits, so the only open block is the builder's.   *)
LEMMA FitFunction ==
  ASSUME FlowInv, OpenBlocksAreAwaited, NEW lab, GenFits(lab), EndFunction
  PROVE  GenFits(lab)'
<1>1. /\ phase = "generating" /\ pc = Len(body) + 1 /\ phase' = "done" /\ Top.kind = "body"
      /\ UNCHANGED <<body, blocks, erased>>
  BY DEF EndFunction
<1>2. Inv /\ stack \in Seq(Frames) \ {<<>>}
  BY <1>1, GeneratingFacts
<1>3. Len(stack) = 1 /\ DOMAIN stack = 1..1 /\ Top = stack[1]
  BY <1>1, <1>2, Calls DEF Inv, CallsNest
<1>4. \A b : ~Awaited(b)
  BY <1>1, <1>3 DEF Awaited, Waiting
<1>5. ASSUME NEW b \in DOMAIN blocks \ erased
      PROVE  Terminated(b) \/ LeadsTo(body, Declares, StandEnd(lab, blocks, b), Len(body) + 1)
  <2>1. Terminated(b) \/ (b = ins /\ ~Top.returned)
    BY <1>1, <1>4 DEF OpenBlocksAreAwaited
  <2>2. ASSUME b = ins, ~Top.returned  PROVE LeadsTo(body, Declares, StandEnd(lab, blocks, b), Len(body) + 1)
    BY <1>1, <2>2, BuilderLeads
  <2> QED  BY <2>1, <2>2
<1>6. \A b \in DOMAIN blocks' \ erased' : Terminated(b)' \/ LeadsTo(body', Declares, StandEnd(lab, blocks', b), Len(body') + 1)
  BY <1>1, <1>5 DEF Terminated
<1>7. CodeFits(lab, blocks, body) /\ 1 \notin erased
  BY DEF GenFits
<1>8. phase' # "generating"
  BY <1>1
<1> QED  BY <1>1, <1>6, <1>7, <1>8 DEF GenFits

(* The first block begins where the body does. *)
LEMMA FitInit == Init => \E lab : GenFits(lab)
<1> SUFFICES ASSUME Init  PROVE \E lab : GenFits(lab)
  OBVIOUS
<1>1. /\ pc = 1 /\ blocks = << <<>> >> /\ erased = {} /\ ins = 1 /\ phase = "generating"
      /\ stack = <<Frame("body", NoBlock, NoBlock)>>
  BY DEF Init
<1>2. Len(body) \in Nat
  BY InitInv DEF Inv, TypeOK
<1>3. PICK code : code = blocks
  OBVIOUS
<1>4. DOMAIN code = {1} /\ code[1] = <<>> /\ DOMAIN code[1] = {} /\ Len(code[1]) = 0
  BY <1>1, <1>3
<1>5. PICK lab : lab = [b \in {1} |-> 1]
  OBVIOUS
<1>6. CodeFits(lab, code, body)
  BY <1>2, <1>4, <1>5 DEF CodeFits
<1>7. BuilderFits(lab, code, body, 1, 1)
  <2>1. StandEnd(lab, code, 1) = 1
    BY <1>4, <1>5 DEF StandEnd, Stand
  <2> QED  BY <1>4, <2>1 DEF BuilderFits, LeadsTo
<1>8. WaitingFits(lab, code, body, 1, stack)
  <2>1. {i \in 1..(1 - 1) : body[i].op \in Openers} = {} /\ {i \in 1..(1 - 1) : body[i].op = "end"} = {}
    OBVIOUS
  <2>2. Depth(body, 1) = 0
    BY <2>1, FS_EmptySet DEF Depth
  <2> QED  BY <2>2 DEF WaitingFits
<1> QED  BY <1>1, <1>3, <1>6, <1>7, <1>8 DEF GenFits

(* Every step of the generator leaves code that fits.                      *)
LEMMA FitNext ==
  ASSUME FlowInv, OpenBlocksAreAwaited, [Next]_vars, NEW lab, GenFits(lab)
  PROVE  \E newLab : GenFits(newLab)'
<1>1. CASE UNCHANGED vars
  <2>1. UNCHANGED GenFits(lab)
    BY <1>1 DEF vars, GenFits, Terminated, Top
  <2>2. GenFits(lab)'
    BY <2>1
  <2> QED  BY <2>2
<1>2. CASE Abort
  <2>1. phase' \in {"thrown", "crashed"} /\ UNCHANGED <<body, blocks, erased>>
    BY <1>2 DEF Abort
  <2>2. CodeFits(lab, blocks, body) /\ 1 \notin erased
    BY DEF GenFits
  <2>3. GenFits(lab)'
    BY <2>1, <2>2 DEF GenFits
  <2> QED  BY <2>3
<1>3. CASE GenArgument \/ GenVariableDeclaration \/ GenVariableAssign \/ GenExpression \/ GenReturn
  <2>1. GenFits(lab)'
    BY <1>3, FitStatement
  <2> QED  BY <2>1
<1>4. CASE GenCompound
  <2>1. GenFits(lab)'
    BY <1>4, FitCompound
  <2> QED  BY <2>1
<1>5. CASE GenElse
  <2>1. GenFits(lab)'
    BY <1>5, FitElse
  <2> QED  BY <2>1
<1>6. CASE EndIf \/ EndIfElse \/ EndWhile \/ EndCompound
  <2>1. GenFits(lab)'
    BY <1>6, FitEnd
  <2> QED  BY <2>1
<1>7. CASE EndFunction
  <2>1. GenFits(lab)'
    BY <1>7, FitFunction
  <2> QED  BY <2>1
<1> QED  BY <1>1, <1>2, <1>3, <1>4, <1>5, <1>6, <1>7, FitIf, FitWhile DEF Next

----------------------------------------------------------------------------
(* The run of the generated code.  What is visible where control stands    *)
(* has been allocated by this call.                                        *)
RunFits(lab) ==
  /\ result \in {"none", "running", "returned"}
  /\ result # "none" => phase = "done"
  /\ result = "running" =>
       /\ block \in DOMAIN blocks \ erased
       /\ index \in 1..(Len(blocks[block]) + 1)
       /\ index \in DOMAIN blocks[block] \/ ~Terminated(block)
       /\ Visible(body, Declares, Stand(lab, blocks, block, index)) \subseteq live

(* Balanced stays known after generation. *)
FitInv == FlowInv /\ ClosedInv /\ Balanced(body)

RunInv == FitInv /\ \E lab : GenFits(lab) /\ RunFits(lab)

(* What a run needs to know of generated code. *)
LEMMA RunFacts ==
  ASSUME FitInv
  PROVE  /\ Stream(body) /\ Balanced(body) /\ Len(body) \in Nat /\ Inv
         /\ blocks \in Seq(Seq(Instrs)) /\ erased \subseteq DOMAIN blocks
         /\ \A b \in erased : blocks[b] = <<>>
         /\ \A b \in DOMAIN blocks : \A k \in DOMAIN blocks[b] : Targets(blocks[b][k]) \subseteq DOMAIN blocks \ erased
<1>1. Inv /\ Balanced(body) /\ TypeOK
  BY DEF FitInv, FlowInv, Inv
<1>2. Stream(body) /\ Len(body) \in Nat
  <2>1. body \in Seq(StatementsOver(Names))
    BY <1>1 DEF TypeOK
  <2>2. \A s \in StatementsOver(Names) : s.op \in Ops
    BY DEF StatementsOver
  <2>3. Len(body) \in Nat /\ DOMAIN body = 1..Len(body) /\ \A p \in DOMAIN body : body[p] \in StatementsOver(Names)
    BY <2>1
  <2> QED  BY <2>2, <2>3 DEF Stream
<1>3. blocks \in Seq(Seq(Instrs)) /\ erased \subseteq DOMAIN blocks
  BY <1>1 DEF TypeOK
<1>4. \A b \in DOMAIN blocks : \A k \in DOMAIN blocks[b] : Targets(blocks[b][k]) \subseteq DOMAIN blocks \ erased
  BY <1>1 DEF Inv, BranchesAreLive
<1>5. \A b \in erased : blocks[b] = <<>>
  BY <1>1 DEF Inv, NothingErased
<1> QED  BY <1>1, <1>2, <1>3, <1>4, <1>5

(* Where an executing call stands, and what the instruction does there.    *)
LEMMA ExecutingFacts ==
  ASSUME FitInv, NEW lab, GenFits(lab), RunFits(lab), result = "running", index \in DOMAIN blocks[block]
  PROVE  /\ block \in DOMAIN blocks /\ Current \in Instrs /\ Current = blocks[block][index]
         /\ Stand(lab, blocks, block, index) \in 1..Len(body)
         /\ InstrFits(lab, blocks, body, Current, Stand(lab, blocks, block, index))
         /\ Visible(body, Declares, Stand(lab, blocks, block, index)) \subseteq live
         /\ index \in 1..Len(blocks[block]) /\ Len(blocks[block]) \in Nat
<1>1. Len(body) \in Nat /\ blocks \in Seq(Seq(Instrs))
  BY RunFacts
<1>2. block \in DOMAIN blocks /\ Visible(body, Declares, Stand(lab, blocks, block, index)) \subseteq live
  BY DEF RunFits
<1>3. PICK code \in Seq(Instrs) : code = blocks[block]
  BY <1>1, <1>2
<1>4. index \in 1..Len(code) /\ code[index] \in Instrs /\ Len(code) \in Nat
  BY <1>3
<1>5. Current = code[index]
  BY <1>3 DEF Current
<1>6. Stand(lab, blocks, block, index) \in index..Len(body) /\ InstrFits(lab, blocks, body, Current, Stand(lab, blocks, block, index))
  BY <1>2 DEF GenFits, CodeFits, Current
<1>7. Stand(lab, blocks, block, index) \in 1..Len(body)
  BY <1>1, <1>4, <1>6
<1> QED  BY <1>2, <1>3, <1>4, <1>5, <1>6, <1>7

(* A call stands at the beginning of the body, where nothing is visible.   *)
LEMMA CallFits ==
  ASSUME FitInv, NEW lab, GenFits(lab), RunFits(lab), Call
  PROVE  RunFits(lab)'
<1>1. phase = "done" /\ block' = 1 /\ index' = 1 /\ result' = "running" /\ UNCHANGED <<body, blocks, erased, phase, live>>
  BY DEF Call, vars
<1>2. blocks \in Seq(Seq(Instrs)) /\ Len(body) \in Nat
  BY RunFacts
<1>3. 1 \in DOMAIN blocks /\ lab[1] = 1 /\ 1 \notin erased
  BY DEF GenFits, CodeFits
<1>4. PICK code \in Seq(Instrs) : code = blocks[1]
  BY <1>2, <1>3
<1>5. 1 \in 1..(Len(code) + 1) /\ (1 \in DOMAIN code \/ code = <<>>)
  BY <1>4
<1>6. ~Terminated(1) \/ code # <<>>
  BY <1>4 DEF Terminated
<1>7. Visible(body, Declares, Stand(lab, blocks, 1, 1)) = {}
  BY <1>3 DEF Stand, Visible
<1> QED  BY <1>1, <1>3, <1>4, <1>5, <1>6, <1>7 DEF RunFits, Terminated

(* Behind an instruction one more declaration may be visible; then its     *)
(* alloca has just run.                                                    *)
LEMMA DoFits ==
  ASSUME FitInv, NEW lab, GenFits(lab), RunFits(lab), ExecuteDo
  PROVE  RunFits(lab)'
<1>1. /\ result = "running" /\ index \in DOMAIN blocks[block] /\ Current.op = "do"
      /\ index' = index + 1 /\ UNCHANGED <<body, blocks, erased, phase, block, result>>
      /\ live' = IF body[Current.at].op \in {"let", "arg"} THEN live \cup {Current.at} ELSE live
  BY DEF ExecuteDo, Executing, Current, vars
<1>2. Len(body) \in Nat /\ blocks \in Seq(Seq(Instrs))
  BY RunFacts
<1>3. /\ block \in DOMAIN blocks /\ Current \in Instrs /\ Current = blocks[block][index]
      /\ Stand(lab, blocks, block, index) \in 1..Len(body)
      /\ InstrFits(lab, blocks, body, Current, Stand(lab, blocks, block, index))
      /\ Visible(body, Declares, Stand(lab, blocks, block, index)) \subseteq live
      /\ index \in 1..Len(blocks[block]) /\ Len(blocks[block]) \in Nat
  BY <1>1, ExecutingFacts
<1>4. PICK r, p : r = Stand(lab, blocks, block, index) /\ p = Current.at
  OBVIOUS
<1>5. p \in r..Len(body) /\ p \in 1..Len(body) /\ LeadsTo(body, Declares, r, p)
  <2>1. p \in r..Len(body) /\ LeadsTo(body, Declares, r, p) /\ r \in 1..Len(body)
    BY <1>1, <1>3, <1>4 DEF InstrFits
  <2> QED  BY <1>2, <2>1
<1>6. Visible(body, Declares, p + 1) \subseteq live'
  <2>1. Visible(body, Declares, p + 1) \subseteq Visible(body, Declares, p) \cup {p}
        /\ (body[p].op \notin Declares => Visible(body, Declares, p + 1) \subseteq Visible(body, Declares, p))
    BY <1>2, <1>5, VisibleNext
  <2>2. Visible(body, Declares, p) \subseteq live
    BY <1>3, <1>4, <1>5 DEF LeadsTo
  <2> QED  BY <1>1, <1>4, <2>1, <2>2 DEF Declares
<1>7. Stand(lab, blocks, block, index + 1) = p + 1
  <2>1. index + 1 # 1 /\ (index + 1) - 1 = index
    BY <1>3
  <2> QED  BY <1>3, <1>4, <2>1 DEF Stand
<1>8. index + 1 \in 1..(Len(blocks[block]) + 1)
  BY <1>3
<1>9. index + 1 \in DOMAIN blocks[block] \/ ~Terminated(block)
  <2>1. PICK code \in Seq(Instrs) : code = blocks[block]
    BY <1>2, <1>3
  <2>2. CASE index = Len(code)
    <3>1. ~Terminator(code[Len(code)])
      BY <1>1, <1>3, <2>1, <2>2 DEF Terminator
    <3> QED  BY <2>1, <3>1 DEF Terminated
  <2>3. CASE index # Len(code)
    BY <1>3, <2>1, <2>3
  <2> QED  BY <2>2, <2>3
<1>10. block \in DOMAIN blocks \ erased /\ phase = "done"
  BY <1>1 DEF RunFits
<1>11. Terminated(block)' = Terminated(block)
  BY <1>1 DEF Terminated
<1> QED  BY <1>1, <1>6, <1>7, <1>8, <1>9, <1>10, <1>11 DEF RunFits

(* A branch goes to a block behind which nothing is visible that was not   *)
(* before.                                                                 *)
LEMMA BranchFits ==
  ASSUME FitInv, NEW lab, GenFits(lab), RunFits(lab), ExecuteBranch
  PROVE  RunFits(lab)'
<1>1. /\ result = "running" /\ index \in DOMAIN blocks[block] /\ Current.op \in {"br", "cond"}
      /\ block' \in Targets(Current) /\ index' = 1 /\ UNCHANGED <<body, blocks, erased, phase, live, result>>
  BY DEF ExecuteBranch, Executing, Current, vars
<1>2. Len(body) \in Nat /\ blocks \in Seq(Seq(Instrs)) /\ Stream(body) /\ Balanced(body)
  BY RunFacts
<1>3. /\ block \in DOMAIN blocks /\ Current \in Instrs /\ Current = blocks[block][index]
      /\ Stand(lab, blocks, block, index) \in 1..Len(body)
      /\ InstrFits(lab, blocks, body, Current, Stand(lab, blocks, block, index))
      /\ Visible(body, Declares, Stand(lab, blocks, block, index)) \subseteq live
  BY <1>1, ExecutingFacts
<1>4. PICK t : t = block'
  OBVIOUS
<1>5. t \in DOMAIN blocks \ erased
  BY <1>1, <1>3, <1>4, RunFacts
<1>6. Visible(body, Declares, lab[t]) \subseteq live
  <2>1. CASE Current.op = "br"
    <3>1. t = Current.yes
      BY <1>1, <1>4, <2>1 DEF Targets
    <3> QED  BY <1>3, <2>1, <3>1 DEF InstrFits, LeadsTo
  <2>2. CASE Current.op = "cond"
    <3>1. PICK r, p : r = Stand(lab, blocks, block, index) /\ p = Current.at
      OBVIOUS
    <3>2. /\ p \in r..Len(body) /\ r \in 1..Len(body) /\ LeadsTo(body, Declares, r, p)
          /\ body[p].op \in {"if", "ifelse", "while"}
          /\ lab[Current.yes] = p + 1 /\ lab[Current.no] = ListEnd(body, p + 1) + 1
      BY <1>3, <2>2, <3>1 DEF InstrFits
    <3>3. p \in 1..Len(body) /\ Visible(body, Declares, p) \subseteq live
      BY <1>2, <1>3, <3>1, <3>2 DEF LeadsTo
    <3>4. Visible(body, Declares, p + 1) \subseteq Visible(body, Declares, p)
      BY <1>2, <3>2, <3>3, VisibleNext DEF Declares
    <3>5. Visible(body, Declares, ListEnd(body, p + 1) + 1) \subseteq Visible(body, Declares, p)
      BY <1>2, <3>2, <3>3, VisibleBehind DEF Declares, Openers
    <3>6. t = Current.yes \/ t = Current.no
      BY <1>1, <1>4, <2>2 DEF Targets
    <3> QED  BY <3>2, <3>3, <3>4, <3>5, <3>6
  <2> QED  BY <1>1, <2>1, <2>2
<1>7. PICK code \in Seq(Instrs) : code = blocks[t]
  BY <1>2, <1>5
<1>8. 1 \in 1..(Len(code) + 1) /\ (1 \in DOMAIN code \/ code = <<>>)
  BY <1>7
<1>9. ~Terminated(t) \/ code # <<>>
  BY <1>7 DEF Terminated
<1>10. Stand(lab, blocks, t, 1) = lab[t]
  BY DEF Stand
<1>11. phase = "done"
  BY <1>1 DEF RunFits
<1> QED  BY <1>1, <1>4, <1>5, <1>6, <1>7, <1>8, <1>9, <1>10, <1>11 DEF RunFits, Terminated

(* Generation and the run keep the invariant. *)
LEMMA NextRuns == RunInv /\ [RunNext]_allVars => RunInv'
<1> SUFFICES ASSUME FitInv, [RunNext]_allVars, NEW lab, GenFits(lab), RunFits(lab)
             PROVE  FitInv' /\ \E newLab : (GenFits(newLab) /\ RunFits(newLab))'
  BY DEF RunInv
<1>1. [Next]_vars
  BY DEF RunNext, allVars, vars, Generate, Call, ExecuteDo, ExecuteBranch, ExecuteReturn
<1>2. body' = body
  BY <1>1 DEF vars, Next, GenArgument, GenVariableDeclaration, GenVariableAssign, GenExpression, GenReturn, GenCompound,
     EndCompound, GenIf, GenElse, EndIf, EndIfElse, EndIfElseWith, GenWhile, EndWhile, EndWhileWith, EndFunction, Abort
<1>3. FitInv'
  BY <1>1, <1>2, NextFlows, NextCloses DEF FitInv
<1>4. CASE Generate
  <2>1. Next /\ result' = result
    BY <1>4 DEF Generate, runVars
  <2>2. phase = "generating"
    BY <2>1 DEF Next, GenArgument, GenVariableDeclaration, GenVariableAssign, GenExpression, GenReturn, GenCompound,
       EndCompound, GenIf, GenElse, EndIf, EndIfElse, EndIfElseWith, GenWhile, EndWhile, EndWhileWith, EndFunction, Abort, At
  <2>3. result = "none" /\ result' = "none"
    BY <2>1, <2>2 DEF RunFits
  <2>4. PICK newLab : GenFits(newLab)'
    BY <1>1, FitNext DEF FitInv, ClosedInv
  <2>5. RunFits(newLab)'
    BY <2>3 DEF RunFits
  <2> QED  BY <1>3, <2>4, <2>5
<1>5. CASE Call \/ ExecuteDo \/ ExecuteBranch \/ ExecuteReturn \/ UNCHANGED allVars
  <2>1. UNCHANGED vars
    BY <1>5 DEF Call, ExecuteDo, ExecuteBranch, ExecuteReturn, allVars, vars
  <2>2. UNCHANGED GenFits(lab)
    BY <2>1 DEF vars, GenFits, Terminated, Top
  <2>3. CASE ExecuteReturn
    <3>1. result' = "returned" /\ result = "running"
      BY <2>3 DEF ExecuteReturn, Executing
    <3>2. phase' = "done"
      BY <2>1, <3>1 DEF vars, RunFits
    <3>3. RunFits(lab)'
      BY <3>1, <3>2 DEF RunFits
    <3> QED  BY <1>3, <2>2, <3>3
  <2>4. CASE UNCHANGED allVars
    <3>1. UNCHANGED RunFits(lab)
      BY <2>4 DEF allVars, RunFits, Terminated
    <3>2. RunFits(lab)'
      BY <3>1
    <3> QED  BY <1>3, <2>2, <3>2
  <2>5. CASE Call \/ ExecuteDo \/ ExecuteBranch
    <3>1. RunFits(lab)'
      BY <2>5, CallFits, DoFits, BranchFits
    <3> QED  BY <1>3, <2>2, <3>1
  <2> QED  BY <1>5, <2>3, <2>4, <2>5
<1> QED  BY <1>4, <1>5 DEF RunNext

(* It holds in the beginning. *)
LEMMA InitRuns == RunInit /\ Balanced(body) => RunInv
<1> SUFFICES ASSUME RunInit, Balanced(body)  PROVE RunInv
  OBVIOUS
<1>1. Init /\ result = "none"
  BY DEF RunInit
<1>2. FitInv
  BY <1>1, InitFlows, InitCloses DEF FitInv
<1>3. PICK lab : GenFits(lab)
  BY <1>1, FitInit
<1>4. RunFits(lab)
  BY <1>1 DEF RunFits
<1> QED  BY <1>2, <1>3, <1>4 DEF RunInv

----------------------------------------------------------------------------
(* The statement that takes effect next, from an instruction on, is the    *)
(* one control arrives at in the source from where the instruction stands. *)

(* Code that just ends stands at the end of the body. *)
Complete(lab, code, text) ==
  \A b \in DOMAIN code : \A k \in DOMAIN code[b] :
    /\ code[b][k].op = "br" /\ code[code[b][k].yes] = <<>> => Arrive(text, lab[code[b][k].yes]) = Len(text) + 1
    /\ code[b][k].op = "do" /\ k = Len(code[b]) => Arrive(text, code[b][k].at + 1) = Len(text) + 1

(* Where control arrives from the instruction i, which stands at r.        *)
InstrLeads(lab, code, text, b, k, i, r) ==
  /\ Len(code[b]) \in Nat /\ k \in 1..Len(code[b]) /\ r \in 1..Len(text) /\ k \in 1..Len(text)
  /\ i.op = "br" => /\ i.yes \in DOMAIN code /\ Arrive(text, r) = Arrive(text, lab[i.yes])
                    /\ code[i.yes] = <<>> => Arrive(text, r) = Len(text) + 1
                    /\ r < lab[i.yes] \/ IsCheck(code, i.yes)
  /\ i.op # "br" => i.at \in r..Len(text) /\ i.at \in 1..Len(text)
  /\ i.op # "br" /\ text[i.at].op = "arg" => /\ Arrive(text, r) = Arrive(text, i.at + 1)
                                             /\ k = Len(code[b]) => Arrive(text, r) = Len(text) + 1
  /\ i.op # "br" /\ text[i.at].op # "arg" => Arrive(text, r) = i.at

(* The instructions of code that fits and is complete do so. *)
LEMMA InstrArrives ==
  ASSUME NEW text, Stream(text), Balanced(text), NEW code \in Seq(Seq(Instrs)),
         NEW lab, CodeFits(lab, code, text), Complete(lab, code, text),
         NEW b \in DOMAIN code, NEW k \in DOMAIN code[b]
  PROVE  InstrLeads(lab, code, text, b, k, code[b][k], Stand(lab, code, b, k))
<1>0. PICK i, r : i = code[b][k] /\ r = Stand(lab, code, b, k)
  OBVIOUS
<1>1. Len(text) \in Nat
  BY DEF Stream
<1>2. Len(code[b]) \in Nat /\ k \in 1..Len(code[b]) /\ i \in Instrs
  <2>1. PICK c \in Seq(Instrs) : c = code[b]
    OBVIOUS
  <2>2. k \in 1..Len(c) /\ c[k] \in Instrs
    BY <2>1
  <2> QED  BY <1>0, <2>1, <2>2
<1>3. r \in k..Len(text) /\ InstrFits(lab, code, text, i, r)
  BY <1>0 DEF CodeFits
<1>4. r \in 1..Len(text) /\ k \in 1..Len(text)
  BY <1>1, <1>2, <1>3
<1>5. i.op = "br" => /\ i.yes \in DOMAIN code /\ Arrive(text, r) = Arrive(text, lab[i.yes])
                     /\ r < lab[i.yes] \/ IsCheck(code, i.yes)
  BY <1>3 DEF InstrFits, LeadsTo
<1>6. i.op = "br" /\ code[i.yes] = <<>> => Arrive(text, r) = Len(text) + 1
  BY <1>0, <1>5 DEF Complete
<1>7. ASSUME i.op # "br"
      PROVE  /\ i.at \in r..Len(text) /\ i.at \in 1..Len(text)
             /\ text[i.at].op = "arg" => /\ Arrive(text, r) = Arrive(text, i.at + 1)
                                         /\ k = Len(code[b]) => Arrive(text, r) = Len(text) + 1
             /\ text[i.at].op # "arg" => Arrive(text, r) = i.at
  <2>1. i.at \in r..Len(text) /\ Arrive(text, r) = Arrive(text, i.at)
    BY <1>3, <1>7 DEF InstrFits, LeadsTo
  <2>2. i.at \in 1..Len(text) /\ i.at \in 1..(Len(text) + 1) /\ i.at # Len(text) + 1
    BY <1>1, <1>4, <2>1
  <2>3. i.op \in {"do", "ret", "cond"}
    BY <1>2, <1>7 DEF Instrs
  <2>4. text[i.at].op \in {"arg", "let", "assign", "use", "return", "if", "ifelse", "while"}
        /\ (text[i.at].op = "arg" => i.op = "do")
    BY <1>3, <2>3 DEF InstrFits
  <2>5. text[i.at].op = "arg" => Arrive(text, i.at) = Arrive(text, i.at + 1)
    BY <2>2, ArriveIs
  <2>6. text[i.at].op # "arg" => Arrive(text, i.at) = i.at
    BY <2>2, <2>4, ArriveIs
  <2>7. text[i.at].op = "arg" /\ k = Len(code[b]) => Arrive(text, i.at + 1) = Len(text) + 1
    BY <1>0, <2>4 DEF Complete
  <2> QED  BY <2>1, <2>2, <2>5, <2>6, <2>7
<1>8. InstrLeads(lab, code, text, b, k, i, r)
  BY <1>2, <1>4, <1>5, <1>6, <1>7 DEF InstrLeads
<1> QED  BY <1>0, <1>8

(* What the recursive function in NextEffect computes. *)
Follows(code, text, f) ==
  f = [place \in (DOMAIN code) \X (1..(Len(text) + 2)) |->
         LET c == code[place[1]]
             k == place[2]
         IN IF k > Len(c) THEN Len(text) + 1
            ELSE IF c[k].op = "br" THEN f[<<c[k].yes, 1>>]
            ELSE IF text[c[k].at].op = "arg" THEN f[<<place[1], k + 1>>]
            ELSE c[k].at]

(* There is such a function, so the recursive definition of NextEffect is  *)
(* what its equations say.                                                 *)
LEMMA FollowsExists ==
  ASSUME NEW text, Stream(text), Balanced(text), NEW code \in Seq(Seq(Instrs)),
         NEW lab, CodeFits(lab, code, text), Complete(lab, code, text)
  PROVE  \E f : Follows(code, text, f)
<1>1. PICK n \in Nat : n = Len(text)
  BY DEF Stream
<1>2. PICK P : P = (DOMAIN code) \X (1..(n + 2))
  OBVIOUS
<1>3. PICK f : f = [place \in P |-> IF place[2] > Len(code[place[1]]) THEN n + 1
                                    ELSE Arrive(text, Stand(lab, code, place[1], place[2]))]
  OBVIOUS
<1>4. ASSUME NEW b \in DOMAIN code, NEW k \in 1..(n + 2)
      PROVE  f[<<b, k>>] = IF k > Len(code[b]) THEN n + 1 ELSE Arrive(text, Stand(lab, code, b, k))
  <2>1. <<b, k>> \in P /\ <<b, k>>[1] = b /\ <<b, k>>[2] = k
    BY <1>2
  <2> QED  BY <1>3, <2>1
<1>5. ASSUME NEW b \in DOMAIN code, NEW k \in 1..(n + 2)
      PROVE  f[<<b, k>>] = IF k > Len(code[b]) THEN n + 1
                           ELSE IF code[b][k].op = "br" THEN f[<<code[b][k].yes, 1>>]
                           ELSE IF text[code[b][k].at].op = "arg" THEN f[<<b, k + 1>>]
                           ELSE code[b][k].at
  <2>1. PICK c \in Seq(Instrs) : c = code[b]
    OBVIOUS
  <2>2. PICK l \in Nat : l = Len(c) /\ DOMAIN c = 1..l
    BY <2>1
  <2>3. CASE k > Len(c)
    BY <1>4, <2>1, <2>3
  <2>4. CASE k \in DOMAIN c
    <3>1. PICK i, r : i = c[k] /\ r = Stand(lab, code, b, k)
      OBVIOUS
    <3>a. InstrLeads(lab, code, text, b, k, i, r)
      BY <2>1, <2>4, <3>1, InstrArrives
    <3>2. /\ k \in 1..Len(c) /\ k \in 1..n
          /\ i.op = "br" => /\ i.yes \in DOMAIN code /\ Arrive(text, r) = Arrive(text, lab[i.yes])
                            /\ code[i.yes] = <<>> => Arrive(text, r) = n + 1
          /\ i.op # "br" /\ text[i.at].op = "arg" => /\ Arrive(text, r) = Arrive(text, i.at + 1)
                                                     /\ k = Len(c) => Arrive(text, r) = n + 1
          /\ i.op # "br" /\ text[i.at].op # "arg" => Arrive(text, r) = i.at
      BY ONLY <1>1, <2>1, <3>a DEF InstrLeads
    <3>3. ~(k > Len(c)) /\ f[<<b, k>>] = Arrive(text, r)
      <4>1. ~(k > Len(c))
        BY ONLY <2>2, <3>2
      <4> QED  BY <1>4, <2>1, <3>1, <4>1
    <3>4. CASE i.op = "br"
      <4>1. PICK t \in DOMAIN code : t = i.yes
        BY <3>2, <3>4
      <4>2. PICK d \in Seq(Instrs) : d = code[t]
        BY <4>1
      <4>3. 1 \in 1..(n + 2)
        BY <1>1
      <4>4. f[<<t, 1>>] = IF 1 > Len(d) THEN n + 1 ELSE Arrive(text, lab[t])
        BY <1>4, <4>2, <4>3 DEF Stand
      <4>5. 1 > Len(d) => d = <<>>
        BY <4>2
      <4> QED  BY <2>1, <3>1, <3>2, <3>3, <3>4, <4>1, <4>2, <4>4, <4>5
    <3>5. CASE i.op # "br" /\ text[i.at].op = "arg"
      <4>1. k + 1 \in 1..(n + 2) /\ k + 1 # 1 /\ (k + 1) - 1 = k
        BY <1>1, <3>2
      <4>2. f[<<b, k + 1>>] = IF k + 1 > Len(c) THEN n + 1 ELSE Arrive(text, i.at + 1)
        BY <1>4, <2>1, <3>1, <4>1 DEF Stand
      <4>3. k + 1 > Len(c) => k = Len(c)
        BY ONLY <2>2, <3>2
      <4> QED  BY <2>1, <3>1, <3>2, <3>3, <3>5, <4>2, <4>3
    <3> QED  BY <2>1, <3>1, <3>2, <3>3, <3>4, <3>5
  <2> QED  BY <1>1, <2>1, <2>2, <2>3, <2>4
<1>6. ASSUME NEW place \in P
      PROVE  f[place] = LET c == code[place[1]]
                            k == place[2]
                        IN IF k > Len(c) THEN n + 1
                           ELSE IF c[k].op = "br" THEN f[<<c[k].yes, 1>>]
                           ELSE IF text[c[k].at].op = "arg" THEN f[<<place[1], k + 1>>]
                           ELSE c[k].at
  <2>1. PICK b \in DOMAIN code, k \in 1..(n + 2) : place = <<b, k>> /\ place[1] = b /\ place[2] = k
    BY <1>2
  <2> QED  BY <1>5, <2>1
<1>7. f = [place \in P |-> LET c == code[place[1]]
                               k == place[2]
                           IN IF k > Len(c) THEN n + 1
                              ELSE IF c[k].op = "br" THEN f[<<c[k].yes, 1>>]
                              ELSE IF text[c[k].at].op = "arg" THEN f[<<place[1], k + 1>>]
                              ELSE c[k].at]
  <2>1. f = [place \in P |-> f[place]]
    BY <1>3
  <2> QED  BY <1>6, <2>1
<1> QED  BY <1>1, <1>2, <1>7 DEF Follows

(* Any such function gives the same; otherwise there is an instruction,    *)
(* the furthest in the source, for which it does not.                      *)
LEMMA FollowsIs ==
  ASSUME NEW text, Stream(text), Balanced(text), NEW code \in Seq(Seq(Instrs)),
         NEW lab, CodeFits(lab, code, text), Complete(lab, code, text), NEW f, Follows(code, text, f),
         NEW place \in DOMAIN code, NEW from \in DOMAIN code[place]
  PROVE  f[<<place, from>>] = Arrive(text, Stand(lab, code, place, from))
<1>1. PICK n \in Nat : n = Len(text)
  BY DEF Stream
<1>2. ASSUME NEW b \in DOMAIN code, NEW k \in 1..(n + 2)
      PROVE  f[<<b, k>>] = IF k > Len(code[b]) THEN n + 1
                           ELSE IF code[b][k].op = "br" THEN f[<<code[b][k].yes, 1>>]
                           ELSE IF text[code[b][k].at].op = "arg" THEN f[<<b, k + 1>>]
                           ELSE code[b][k].at
  <2>1. <<b, k>> \in (DOMAIN code) \X (1..(Len(text) + 2)) /\ <<b, k>>[1] = b /\ <<b, k>>[2] = k
    BY <1>1
  <2> QED  BY <1>1, <2>1 DEF Follows
<1> DEFINE Differs(q) == \E b \in DOMAIN code : \E k \in DOMAIN code[b] :
                           Stand(lab, code, b, k) = q /\ f[<<b, k>>] # Arrive(text, q)
           C == {q \in 1..n : Differs(q)}
<1>3. C = {}
  <2> SUFFICES ASSUME C # {}  PROVE FALSE
    OBVIOUS
  <2>1. PICK m : m = Max(C)
    OBVIOUS
  <2>2. m \in C /\ \A y \in C : y <= m
    <3>1. C \in SUBSET Int /\ \A y \in C : y <= n
      OBVIOUS
    <3> HIDE DEF C
    <3> QED  BY <2>1, <3>1, MaxOfBounded
  <2>3. m \in 1..n /\ Differs(m)
    BY <2>2
  <2>4. \A y \in 1..n : y > m => ~Differs(y)
    <3>1. ASSUME NEW y \in 1..n, y > m, Differs(y)  PROVE FALSE
      <4>1. y \in C
        BY <3>1
      <4>2. y <= m
        BY <2>2, <4>1
      <4> QED  BY <2>3, <3>1, <4>2
    <3> QED  BY <3>1
  <2> HIDE DEF C, Differs
  <2>5. PICK b \in DOMAIN code : \E k \in DOMAIN code[b] : Stand(lab, code, b, k) = m /\ f[<<b, k>>] # Arrive(text, m)
    BY <2>3 DEF Differs
  <2>a. PICK k \in DOMAIN code[b] : Stand(lab, code, b, k) = m /\ f[<<b, k>>] # Arrive(text, m)
    BY <2>5
  <2>6. PICK i : i = code[b][k]
    OBVIOUS
  <2>b. InstrLeads(lab, code, text, b, k, i, m)
    BY <2>5, <2>a, <2>6, InstrArrives
  <2>7. /\ Len(code[b]) \in Nat /\ k \in 1..Len(code[b]) /\ k \in 1..n
        /\ i.op = "br" => /\ i.yes \in DOMAIN code /\ Arrive(text, m) = Arrive(text, lab[i.yes])
                          /\ code[i.yes] = <<>> => Arrive(text, m) = n + 1
                          /\ m < lab[i.yes] \/ IsCheck(code, i.yes)
        /\ i.op # "br" => i.at \in m..n /\ i.at \in 1..n
        /\ i.op # "br" /\ text[i.at].op = "arg" => /\ Arrive(text, m) = Arrive(text, i.at + 1)
                                                   /\ k = Len(code[b]) => Arrive(text, m) = n + 1
        /\ i.op # "br" /\ text[i.at].op # "arg" => Arrive(text, m) = i.at
    BY ONLY <1>1, <2>b DEF InstrLeads
  <2>8. f[<<b, k>>] = IF i.op = "br" THEN f[<<i.yes, 1>>]
                      ELSE IF text[i.at].op = "arg" THEN f[<<b, k + 1>>]
                      ELSE i.at
    <3>1. k \in 1..(n + 2) /\ ~(k > Len(code[b]))
      BY <1>1, <2>7
    <3> QED  BY <1>2, <2>6, <3>1
  <2>9. CASE i.op = "br"
    <3>1. PICK t \in DOMAIN code : t = i.yes
      BY <2>7, <2>9
    <3>2. PICK d \in Seq(Instrs) : d = code[t]
      BY <3>1
    <3>3. 1 \in 1..(n + 2)
      BY <1>1
    <3>4. CASE d = <<>>
      <4>1. f[<<t, 1>>] = n + 1
        <5>1. 1 > Len(code[t])
          BY <3>2, <3>4
        <5> QED  BY <1>2, <3>3, <5>1
      <4> QED  BY <2>a, <2>7, <2>8, <2>9, <3>1, <3>2, <3>4, <4>1
    <3>5. CASE d # <<>>
      <4>1. 1 \in DOMAIN code[t] /\ Stand(lab, code, t, 1) = lab[t]
        BY <3>2, <3>5 DEF Stand
      <4>2. PICK j, r : j = code[t][1] /\ r = Stand(lab, code, t, 1)
        OBVIOUS
      <4>3. /\ lab[t] \in 1..n
            /\ j.op # "br" /\ text[j.at].op # "arg" => Arrive(text, lab[t]) = j.at
        <5>1. InstrLeads(lab, code, text, t, 1, j, r)
          BY <4>1, <4>2, InstrArrives
        <5> QED  BY <1>1, <4>1, <4>2, <5>1 DEF InstrLeads
      <4>4. CASE m < lab[t]
        <5>1. ~Differs(lab[t])
          BY <2>3, <2>4, <4>3, <4>4
        <5>2. f[<<t, 1>>] = Arrive(text, lab[t])
          BY <4>1, <5>1 DEF Differs
        <5> QED  BY <2>a, <2>7, <2>8, <2>9, <3>1, <5>2
      <4>5. CASE IsCheck(code, t)
        <5>1. j.op = "cond"
          BY <4>2, <4>5 DEF IsCheck
        <5>2. InstrFits(lab, code, text, j, lab[t])
          BY <4>1, <4>2 DEF CodeFits
        <5>3. text[j.at].op # "arg"
          BY <5>1, <5>2 DEF InstrFits
        <5>4. f[<<t, 1>>] = j.at
          <6>1. ~(1 > Len(code[t]))
            BY <3>2, <3>5
          <6> QED  BY <1>2, <3>3, <4>2, <5>1, <5>3, <6>1
        <5> QED  BY <2>a, <2>7, <2>8, <2>9, <3>1, <4>3, <5>1, <5>3, <5>4
      <4> QED  BY <2>7, <2>9, <3>1, <4>4, <4>5
    <3> QED  BY <3>4, <3>5
  <2>10. CASE i.op # "br" /\ text[i.at].op = "arg"
    <3>1. k + 1 \in 1..(n + 2) /\ k + 1 # 1 /\ (k + 1) - 1 = k
      BY <1>1, <2>7
    <3>2. CASE k = Len(code[b])
      <4>1. k + 1 > Len(code[b])
        BY <2>7, <3>2
      <4>2. f[<<b, k + 1>>] = n + 1
        BY <1>2, <3>1, <4>1
      <4> QED  BY <2>a, <2>7, <2>8, <2>10, <3>2, <4>2
    <3>3. CASE k # Len(code[b])
      <4>1. k + 1 \in DOMAIN code[b]
        <5>1. PICK d \in Seq(Instrs) : d = code[b]
          OBVIOUS
        <5>2. k + 1 \in 1..Len(d)
          BY <2>7, <3>3, <5>1
        <5> QED  BY <5>1, <5>2
      <4>2. Stand(lab, code, b, k + 1) = i.at + 1
        BY <2>6, <3>1 DEF Stand
      <4>3. i.at + 1 \in 1..n
        <5>1. Stand(lab, code, b, k + 1) \in 1..Len(text)
          BY <4>1, InstrArrives DEF InstrLeads
        <5> QED  BY <1>1, <4>2, <5>1
      <4>4. i.at + 1 > m
        BY <2>3, <2>7, <2>10
      <4>5. ~Differs(i.at + 1)
        BY <2>4, <4>3, <4>4
      <4>6. f[<<b, k + 1>>] = Arrive(text, i.at + 1)
        BY <4>1, <4>2, <4>5 DEF Differs
      <4> QED  BY <2>a, <2>7, <2>8, <2>10, <4>6
    <3> QED  BY <3>2, <3>3
  <2> QED  BY <2>a, <2>7, <2>8, <2>9, <2>10
<1>4. PICK r : r = Stand(lab, code, place, from)
  OBVIOUS
<1>5. r \in 1..n
  BY <1>1, <1>4, InstrArrives DEF InstrLeads
<1>6. r \notin C
  BY <1>3
<1> HIDE DEF C
<1>7. ~Differs(r)
  BY <1>5, <1>6 DEF C
<1> QED  BY <1>4, <1>7

(* Generated code is complete: a block that is not ended when generation   *)
(* is done leads to the end of the body.                                   *)
LEMMA RunComplete ==
  ASSUME FitInv, NEW lab, GenFits(lab), phase = "done"
  PROVE  Complete(lab, blocks, body)
<1>1. /\ Stream(body) /\ Balanced(body) /\ Len(body) \in Nat /\ blocks \in Seq(Seq(Instrs)) /\ erased \subseteq DOMAIN blocks
      /\ \A b \in erased : blocks[b] = <<>>
      /\ \A b \in DOMAIN blocks : \A k \in DOMAIN blocks[b] : Targets(blocks[b][k]) \subseteq DOMAIN blocks \ erased
  BY RunFacts
<1>2. Arrive(body, Len(body) + 1) = Len(body) + 1
  <2>1. Len(body) + 1 \in 1..(Len(body) + 1)
    BY <1>1
  <2> QED  BY <1>1, <2>1, ArriveIs
<1>3. ASSUME NEW b \in DOMAIN blocks \ erased, ~Terminated(b)
      PROVE  Arrive(body, StandEnd(lab, blocks, b)) = Len(body) + 1
  BY <1>2, <1>3 DEF GenFits, LeadsTo
<1>4. ASSUME NEW b \in DOMAIN blocks, NEW k \in DOMAIN blocks[b], blocks[b][k].op = "br", blocks[blocks[b][k].yes] = <<>>
      PROVE  Arrive(body, lab[blocks[b][k].yes]) = Len(body) + 1
  <2>1. PICK t : t = blocks[b][k].yes
    OBVIOUS
  <2>2. t \in DOMAIN blocks \ erased
    BY <1>1, <1>4, <2>1 DEF Targets
  <2>3. ~Terminated(t)
    BY <1>4, <2>1 DEF Terminated
  <2>4. StandEnd(lab, blocks, t) = lab[t]
    <3>1. Len(blocks[t]) + 1 = 1
      BY <1>4, <2>1
    <3> QED  BY <3>1 DEF StandEnd, Stand
  <2> QED  BY <1>3, <2>1, <2>2, <2>3, <2>4
<1>5. ASSUME NEW b \in DOMAIN blocks, NEW k \in DOMAIN blocks[b], blocks[b][k].op = "do", k = Len(blocks[b])
      PROVE  Arrive(body, blocks[b][k].at + 1) = Len(body) + 1
  <2>1. b \notin erased
    BY <1>1, <1>5
  <2>2. ~Terminated(b)
    BY <1>5 DEF Terminated, Terminator
  <2>3. StandEnd(lab, blocks, b) = blocks[b][k].at + 1
    <3>1. PICK code \in Seq(Instrs) : code = blocks[b]
      BY <1>1
    <3>2. k \in 1..Len(code)
      BY <1>5, <3>1
    <3>3. k + 1 # 1 /\ (k + 1) - 1 = k
      BY <3>2
    <3> QED  BY <1>5, <3>3 DEF StandEnd, Stand
  <2> QED  BY <1>3, <2>1, <2>2, <2>3
<1> QED  BY <1>4, <1>5 DEF Complete

(* The statement that takes effect next is where control arrives.          *)
LEMMA EffectIs ==
  ASSUME FitInv, NEW lab, GenFits(lab), phase = "done", NEW b \in DOMAIN blocks \ erased,
         NEW i \in 1..(Len(blocks[b]) + 1), i \in DOMAIN blocks[b] \/ ~Terminated(b)
  PROVE  NextEffect(b, i) = Arrive(body, Stand(lab, blocks, b, i))
<1>1. Stream(body) /\ Balanced(body) /\ Len(body) \in Nat /\ blocks \in Seq(Seq(Instrs))
  BY RunFacts
<1>2. CodeFits(lab, blocks, body) /\ Complete(lab, blocks, body)
  BY RunComplete DEF GenFits
<1>3. PICK f : f = CHOOSE g : Follows(blocks, body, g)
  OBVIOUS
<1>4. Follows(blocks, body, f)
  BY <1>1, <1>2, <1>3, FollowsExists
<1>5. NextEffect(b, i) = f[<<b, i>>]
  BY <1>3 DEF NextEffect, Follows
<1>6. CASE i \in DOMAIN blocks[b]
  BY <1>1, <1>2, <1>4, <1>5, <1>6, FollowsIs
<1>7. CASE i \notin DOMAIN blocks[b]
  <2>1. PICK code \in Seq(Instrs) : code = blocks[b]
    BY <1>1
  <2>2. Len(code) \in Nat /\ i = Len(code) + 1
    BY <1>7, <2>1
  <2>3. Len(code) <= Len(body)
    <3>1. CASE Len(code) = 0
      BY <1>1, <3>1
    <3>2. CASE Len(code) # 0
      <4>1. Len(code) \in DOMAIN blocks[b]
        BY <2>1, <2>2, <3>2
      <4>2. Stand(lab, blocks, b, Len(code)) \in Len(code)..Len(body)
        BY <1>2, <4>1 DEF CodeFits
      <4> QED  BY <1>1, <2>2, <4>2
    <3> QED  BY <3>1, <3>2
  <2>4. i \in 1..(Len(body) + 2) /\ i > Len(code)
    BY <1>1, <2>2, <2>3
  <2>5. f[<<b, i>>] = Len(body) + 1
    <3>1. <<b, i>> \in (DOMAIN blocks) \X (1..(Len(body) + 2)) /\ <<b, i>>[1] = b /\ <<b, i>>[2] = i
      BY <2>4
    <3> QED  BY <1>4, <2>1, <2>4, <3>1 DEF Follows
  <2>6. Arrive(body, StandEnd(lab, blocks, b)) = Arrive(body, Len(body) + 1)
    BY <1>7 DEF GenFits, LeadsTo
  <2>7. Arrive(body, Len(body) + 1) = Len(body) + 1
    <3>1. Len(body) + 1 \in 1..(Len(body) + 1)
      BY <1>1
    <3> QED  BY <1>1, <3>1, ArriveIs
  <2>8. StandEnd(lab, blocks, b) = Stand(lab, blocks, b, i)
    BY <2>1, <2>2 DEF StandEnd
  <2> QED  BY <1>5, <2>5, <2>6, <2>7, <2>8
<1> QED  BY <1>6, <1>7

(* Where a running call stands in the source, before and after a step.     *)
LEMMA AheadIs ==
  ASSUME FitInv, NEW lab, GenFits(lab), RunFits(lab), result = "running"
  PROVE  Ahead = Arrive(body, Stand(lab, blocks, block, index))
<1>1. PICK b, i : b = block /\ i = index
  OBVIOUS
<1>2. /\ phase = "done" /\ b \in DOMAIN blocks \ erased /\ i \in 1..(Len(blocks[b]) + 1)
      /\ i \in DOMAIN blocks[b] \/ ~Terminated(b)
  BY <1>1 DEF RunFits
<1>3. NextEffect(b, i) = Arrive(body, Stand(lab, blocks, b, i))
  BY <1>2, EffectIs
<1> QED  BY <1>1, <1>3 DEF Ahead

LEMMA AheadWillBe ==
  ASSUME FitInv, NEW lab, GenFits(lab), RunFits(lab)', UNCHANGED vars, result' = "running"
  PROVE  Ahead' = Arrive(body, Stand(lab, blocks, block', index'))
<1>1. PICK b, i : b = block' /\ i = index'
  OBVIOUS
<1>2. UNCHANGED <<body, blocks, erased, phase>>
  BY DEF vars
<1>3. Terminated(b)' = Terminated(b)
  BY <1>2 DEF Terminated
<1>4. /\ phase = "done" /\ b \in DOMAIN blocks \ erased /\ i \in 1..(Len(blocks[b]) + 1)
      /\ i \in DOMAIN blocks[b] \/ ~Terminated(b)
  BY <1>1, <1>2, <1>3 DEF RunFits, Terminated
<1>5. NextEffect(b, i) = Arrive(body, Stand(lab, blocks, b, i))
  BY <1>4, EffectIs
<1>6. Ahead' = NextEffect(b, i)'
  BY <1>1 DEF Ahead, NextEffect
<1>7. NextEffect(b, i)' = NextEffect(b, i)
  BY <1>2 DEF NextEffect
<1> QED  BY <1>1, <1>5, <1>6, <1>7

(* The two copies of the operators of the source are the same. *)
LEMMA SameArrive ==
  ASSUME NEW b, NEW p
  PROVE  Source!Arrive(b, p) = Arrive(b, p) /\ Source!ArriveElse(b, p) = ArriveElse(b, p)
  BY DEF Source!Arrive, Arrive, Source!ArriveElse, ArriveElse, Source!OpenerOf, OpenerOf, Source!ElseEnd, ElseEnd,
         Source!ListEnd, ListEnd, Source!Depth, Depth, Source!Cardinality, Cardinality, Source!IsFiniteSet, IsFiniteSet,
         Source!Openers, Openers, Source!Max, Max, Source!Min, Min

(* The run begins as the source does. *)
LEMMA StartsAsSource == RunInit /\ Balanced(body) => Source!Init
<1> SUFFICES ASSUME RunInit, Balanced(body)  PROVE Source!Init
  OBVIOUS
<1>1. Ahead = Arrive(body, 1)
  BY DEF RunInit, Ahead
<1>2. body \in Seq(StatementsOver(Names))
  BY BodiesAreStreams DEF RunInit, Init
<1> QED  BY <1>1, <1>2, SameArrive DEF Source!Init

(* To the source, entering the function is no step. *)
LEMMA CallIsSilent ==
  ASSUME FitInv, NEW lab, GenFits(lab), RunFits(lab), RunFits(lab)', Call
  PROVE  UNCHANGED <<body, Ahead>>
<1>1. /\ result = "none" /\ result' = "running" /\ block' = 1 /\ index' = 1 /\ UNCHANGED vars /\ body' = body
  BY DEF Call, vars
<1>2. Ahead' = Arrive(body, Stand(lab, blocks, block', index'))
  BY <1>1, AheadWillBe
<1>3. Stand(lab, blocks, 1, 1) = 1
  BY DEF GenFits, CodeFits, Stand
<1>4. Ahead = Arrive(body, 1)
  BY <1>1 DEF Ahead
<1> QED  BY <1>1, <1>2, <1>3, <1>4

(* Every instruction is a step of the source or none.                      *)
LEMMA StepIsSource ==
  ASSUME FitInv, NEW lab, GenFits(lab), RunFits(lab), RunFits(lab)', ExecuteDo \/ ExecuteBranch \/ ExecuteReturn
  PROVE  [Source!Next]_(Source!vars)
<1>1. result = "running" /\ index \in DOMAIN blocks[block] /\ UNCHANGED vars /\ body' = body /\ Current = blocks[block][index]
  BY DEF ExecuteDo, ExecuteBranch, ExecuteReturn, Executing, Current, vars
<1>2. PICK a, z, i, r : a = Ahead /\ z = Ahead' /\ i = Current /\ r = Stand(lab, blocks, block, index)
  OBVIOUS
<1>3. phase = "done" /\ block \in DOMAIN blocks
  BY <1>1 DEF RunFits
<1>4. /\ Stream(body) /\ Balanced(body) /\ Len(body) \in Nat /\ blocks \in Seq(Seq(Instrs))
      /\ CodeFits(lab, blocks, body) /\ Complete(lab, blocks, body)
  BY <1>3, RunFacts, RunComplete DEF GenFits
<1>5. a = Arrive(body, r)
  BY <1>1, <1>2, AheadIs
<1>6. InstrLeads(lab, blocks, body, block, index, i, r)
  BY <1>1, <1>2, <1>3, <1>4, InstrArrives
<1>7. InstrFits(lab, blocks, body, i, r) /\ i \in Instrs
  BY <1>1, <1>2, ExecutingFacts
<1>8. i.op # "br" => i.at \in 1..Len(body)
  BY <1>6 DEF InstrLeads
<1>9. CASE ExecuteDo
  <2>1. i.op = "do" /\ result' = "running" /\ block' = block /\ index' = index + 1
    BY <1>1, <1>2, <1>9 DEF ExecuteDo, Executing
  <2>2. z = Arrive(body, i.at + 1)
    <3>1. z = Arrive(body, Stand(lab, blocks, block', index'))
      BY <1>1, <1>2, <2>1, AheadWillBe
    <3>2. index + 1 # 1 /\ (index + 1) - 1 = index
      BY <1>6 DEF InstrLeads
    <3>3. Stand(lab, blocks, block, index + 1) = i.at + 1
      BY <1>1, <1>2, <3>2 DEF Stand
    <3> QED  BY <2>1, <3>1, <3>3
  <2>3. body[i.at].op \in {"arg", "let", "assign", "use"}
    BY <1>7, <2>1 DEF InstrFits
  <2>4. CASE body[i.at].op = "arg"
    <3>1. a = z
      BY <1>5, <1>6, <2>1, <2>2, <2>4 DEF InstrLeads
    <3> QED  BY <1>1, <1>2, <3>1 DEF Source!vars
  <2>5. CASE body[i.at].op # "arg"
    <3>1. a = i.at
      BY <1>5, <1>6, <2>1, <2>5 DEF InstrLeads
    <3>2. Source!Effect
      BY <1>1, <1>2, <1>8, <2>1, <2>2, <2>3, <2>5, <3>1, SameArrive DEF Source!Effect, Source!At
    <3> QED  BY <3>2 DEF Source!Next
  <2> QED  BY <2>4, <2>5
<1>10. CASE ExecuteReturn
  <2>1. i.op = "ret" /\ result' = "returned"
    BY <1>1, <1>2, <1>10 DEF ExecuteReturn, Executing
  <2>2. body[i.at].op = "return"
    BY <1>7, <2>1 DEF InstrFits
  <2>3. a = i.at
    BY <1>5, <1>6, <2>1, <2>2 DEF InstrLeads
  <2>4. Ahead' = 0
    BY <2>1 DEF Ahead
  <2>5. Source!Return
    BY <1>1, <1>2, <1>8, <2>1, <2>2, <2>3, <2>4 DEF Source!Return, Source!At, Source!Returned
  <2> QED  BY <2>5 DEF Source!Next
<1>11. CASE ExecuteBranch
  <2>1. i.op \in {"br", "cond"} /\ result' = "running" /\ block' \in Targets(i) /\ index' = 1
    BY <1>1, <1>2, <1>11 DEF ExecuteBranch, Executing
  <2>2. z = Arrive(body, lab[block'])
    <3>1. z = Arrive(body, Stand(lab, blocks, block', index'))
      BY <1>1, <1>2, <2>1, AheadWillBe
    <3> QED  BY <2>1, <3>1 DEF Stand
  <2>3. CASE i.op = "br"
    <3>1. block' = i.yes
      BY <2>1, <2>3 DEF Targets
    <3>2. a = z
      BY <1>5, <1>6, <2>2, <2>3, <3>1 DEF InstrLeads
    <3> QED  BY <1>1, <1>2, <3>2 DEF Source!vars
  <2>4. CASE i.op = "cond"
    <3>1. /\ body[i.at].op \in {"if", "ifelse", "while"}
          /\ lab[i.yes] = i.at + 1 /\ lab[i.no] = ListEnd(body, i.at + 1) + 1
      BY <1>7, <2>4 DEF InstrFits
    <3>2. a = i.at
      BY <1>5, <1>6, <2>4, <3>1 DEF InstrLeads
    <3>3. CASE block' = i.yes
      <4>1. z = Arrive(body, i.at + 1)
        BY <2>2, <3>1, <3>3
      <4>2. Source!Holds
        BY <1>1, <1>2, <1>8, <2>4, <3>1, <3>2, <4>1, SameArrive DEF Source!Holds, Source!At
      <4> QED  BY <4>2 DEF Source!Next
    <3>4. CASE block' = i.no
      <4>1. z = ArriveElse(body, i.at)
        BY <2>2, <3>1, <3>4 DEF ArriveElse
      <4>2. Source!Fails
        BY <1>1, <1>2, <1>8, <2>4, <3>1, <3>2, <4>1, SameArrive DEF Source!Fails, Source!At
      <4> QED  BY <4>2 DEF Source!Next
    <3> QED  BY <2>1, <2>4, <3>3, <3>4 DEF Targets
  <2> QED  BY <2>1, <2>3, <2>4
<1> QED  BY <1>9, <1>10, <1>11

(* So is every step of the generator and the run. *)
LEMMA NextIsSource == RunInv /\ RunInv' /\ [RunNext]_allVars => [Source!Next]_(Source!vars)
<1> SUFFICES ASSUME FitInv, [RunNext]_allVars, NEW lab, GenFits(lab), RunFits(lab)
             PROVE  [Source!Next]_(Source!vars)
  BY DEF RunInv
<1>1. CASE Generate
  <2>1. Next /\ result' = result
    BY <1>1 DEF Generate, runVars
  <2>2. phase = "generating" /\ body' = body
    BY <2>1 DEF Next, GenArgument, GenVariableDeclaration, GenVariableAssign, GenExpression, GenReturn, GenCompound,
       EndCompound, GenIf, GenElse, EndIf, EndIfElse, EndIfElseWith, GenWhile, EndWhile, EndWhileWith, EndFunction, Abort, At
  <2>3. result = "none" /\ result' = "none"
    BY <2>1, <2>2 DEF RunFits
  <2>4. Ahead = Arrive(body, 1) /\ Ahead' = Arrive(body, 1)
    BY <2>2, <2>3 DEF Ahead
  <2> QED  BY <2>2, <2>4 DEF Source!vars
<1>2. CASE Call
  <2>1. RunFits(lab)'
    BY <1>2, CallFits
  <2> QED  BY <1>2, <2>1, CallIsSilent DEF Source!vars
<1>3. CASE ExecuteDo \/ ExecuteBranch \/ ExecuteReturn
  <2>1. RunFits(lab)'
    <3>1. CASE ExecuteReturn
      <4>1. result' = "returned" /\ result = "running" /\ phase' = phase
        BY <3>1 DEF ExecuteReturn, Executing, vars
      <4> QED  BY <4>1 DEF RunFits
    <3> QED  BY <1>3, <3>1, DoFits, BranchFits
  <2> QED  BY <1>3, <2>1, StepIsSource
<1>4. CASE UNCHANGED allVars
  <2>1. UNCHANGED <<body, blocks, block, index, result>>
    BY <1>4 DEF allVars
  <2>2. Ahead' = Ahead
    BY <2>1 DEF Ahead, NextEffect
  <2> QED  BY <2>1, <2>2 DEF Source!vars
<1> QED  BY <1>1, <1>2, <1>3, <1>4 DEF RunNext

(* A call of the generated function does what its source says: the same    *)
(* statements in the same order, both ways at every condition and nothing  *)
(* behind a return, if, as the parser has it, every list is closed.        *)
THEOREM RunImplementsSource ==
  ASSUME BodiesAreBalanced
  PROVE  RunSpec => ImplementsSource
<1>1. RunInit => Balanced(body)
  BY DEF BodiesAreBalanced, RunInit, Init
<1>2. RunInit => RunInv /\ Source!Init
  BY <1>1, InitRuns, StartsAsSource
<1>3. RunSpec => []RunInv
  BY <1>2, NextRuns, PTL DEF RunSpec
<1>4. RunInv /\ RunInv' /\ [RunNext]_allVars => [Source!Next]_(Source!vars)
  BY NextIsSource
<1> QED  BY <1>2, <1>3, <1>4, PTL DEF RunSpec, ImplementsSource, Source!Spec

(* The alloca of every declaration that is visible to a statement has run  *)
(* in this call when the statement's code does.                            *)
VisibleHaveRun ==
  result = "running" /\ index \in DOMAIN blocks[block] /\ Current.at # 0 =>
    Visible(body, Declares, Current.at) \subseteq live

(* It follows from the invariant of the run. *)
LEMMA RunningHaveRun == RunInv => VisibleHaveRun
<1> SUFFICES ASSUME FitInv, NEW lab, GenFits(lab), RunFits(lab),
                    result = "running", index \in DOMAIN blocks[block], Current.at # 0
             PROVE  Visible(body, Declares, Current.at) \subseteq live
  BY DEF RunInv, VisibleHaveRun
<1>1. /\ InstrFits(lab, blocks, body, Current, Stand(lab, blocks, block, index))
      /\ Visible(body, Declares, Stand(lab, blocks, block, index)) \subseteq live
  BY ExecutingFacts
<1> QED  BY <1>1 DEF InstrFits, LeadsTo

(* No statement of the generated code runs before the allocas of what it   *)
(* can see.                                                                *)
THEOREM VisibleAllocasHaveRun ==
  ASSUME BodiesAreBalanced
  PROVE  RunSpec => []VisibleHaveRun
<1>1. RunInit => RunInv
  BY InitRuns DEF BodiesAreBalanced, RunInit, Init
<1> QED  BY <1>1, NextRuns, RunningHaveRun, PTL DEF RunSpec
=============================================================================
