----------------------------- MODULE IrGenProofs -----------------------------
(***************************************************************************)
(* For every set of bodies: IrInv is an invariant of IrGen.  The targets   *)
(* of a jump are complete because every jump that still lacks one is known *)
(* to exactly the calls that will set it.  The second part gives every     *)
(* block and instruction its place in the source; from this follows that a *)
(* call of the function does what the source says (ImplementsSource) and   *)
(* uses no local before its allocation (UsesFollowAllocations).            *)
(***************************************************************************)
EXTENDS IrModule, StreamLemmas, SequenceTheorems

(* The instructions of a function with n statements. *)
InstrsOver(n) ==
  [op : Terminators \cup {"alloca", "do"}, at : 0..n, uses : SUBSET (1..n), yes : Nat, no : Nat]

(* In the blocks bs every target is one of m blocks, but for the false     *)
(* targets of the conditional jumps whose places are in open.              *)
CompleteBut(i, m, place, open) ==
  /\ i.op \in {"jump", "cond"} => i.yes \in 1..m
  /\ i.op = "cond" /\ place \notin open => i.no \in 1..m

Sound(bs, n, m, open) ==
  /\ bs \in Seq(Seq(InstrsOver(n)))
  /\ \A b \in DOMAIN bs : \A k \in DOMAIN bs[b] : CompleteBut(bs[b][k], m, <<b, k>>, open)

(* The number of elements; the provers are not to look into it. *)
Count(s) == Len(s)
SameSize(s, t) == Count(s) = Count(t) /\ DOMAIN s = DOMAIN t
OneMore(s, t) == Count(t) = Count(s) + 1 /\ DOMAIN t = 1..(Count(s) + 1)

(* What is in bs has the same place in new, and is of the same kind there. *)
Kept(bs, new) ==
  /\ DOMAIN bs \subseteq DOMAIN new
  /\ \A b \in DOMAIN bs : \A k \in DOMAIN bs[b] : k \in DOMAIN new[b] /\ new[b][k].op = bs[b][k].op

(* The place of a conditional jump in bs. *)
IsCond(bs, jump) ==
  /\ jump = <<jump[1], jump[2]>>
  /\ jump[1] \in DOMAIN bs /\ jump[2] \in DOMAIN bs[jump[1]] /\ bs[jump[1]][jump[2]].op = "cond"

----------------------------------------------------------------------------
(* Emitting an instruction anywhere. *)
LEMMA EmitSound ==
  ASSUME NEW n \in Nat, NEW m \in Nat, NEW open, NEW bs, Sound(bs, n, m, open),
         NEW b \in DOMAIN bs, NEW i \in InstrsOver(n),
         CompleteBut(i, m, <<b, Count(bs[b]) + 1>>, open),
         NEW new, new = Append1(bs, b, i)
  PROVE  /\ Sound(new, n, m, open) /\ Kept(bs, new) /\ SameSize(bs, new)
         /\ Count(bs[b]) + 1 \in DOMAIN new[b] /\ new[b][Count(bs[b]) + 1] = i
<1> USE DEF Count, SameSize
<1> DEFINE I == InstrsOver(n)
<1>1. bs \in Seq(Seq(I)) /\ i \in I
  BY DEF Sound
<1> HIDE DEF I
<1>2. /\ new \in Seq(Seq(I)) /\ DOMAIN new = DOMAIN bs /\ Len(new) = Len(bs)
      /\ \A c \in DOMAIN bs \ {b} : new[c] = bs[c]
      /\ new[b] = Append(bs[b], i)
  BY ONLY <1>1, b \in DOMAIN bs, new = Append1(bs, b, i) DEF Append1
<1>3. bs[b] \in Seq(I)
  BY <1>1
<1>4. /\ DOMAIN bs[b] = 1..Len(bs[b]) /\ DOMAIN new[b] = 1..(Len(bs[b]) + 1) /\ Len(bs[b]) \in Nat
      /\ \A k \in 1..Len(bs[b]) : new[b][k] = bs[b][k]
      /\ new[b][Len(bs[b]) + 1] = i
  BY ONLY <1>1, <1>2, <1>3
<1>5. \A k \in DOMAIN new[b] : k \in DOMAIN bs[b] \/ k = Len(bs[b]) + 1
  BY <1>4
<1>6. \A c \in DOMAIN new : \A k \in DOMAIN new[c] : CompleteBut(new[c][k], m, <<c, k>>, open)
  <2>1. ASSUME NEW c \in DOMAIN new, NEW k \in DOMAIN new[c], c # b
        PROVE  CompleteBut(new[c][k], m, <<c, k>>, open)
    BY <2>1, <1>2 DEF Sound
  <2>2. ASSUME NEW k \in DOMAIN new[b]
        PROVE  CompleteBut(new[b][k], m, <<b, k>>, open)
    <3>1. CASE k \in DOMAIN bs[b]
      BY <3>1, <1>4 DEF Sound
    <3>2. CASE k = Len(bs[b]) + 1
      BY <3>2, <1>4
    <3> QED BY <3>1, <3>2, <1>5
  <2> QED BY <2>1, <2>2
<1>7. Kept(bs, new)
  <2>1. ASSUME NEW c \in DOMAIN bs, NEW k \in DOMAIN bs[c]
        PROVE  k \in DOMAIN new[c] /\ new[c][k].op = bs[c][k].op
    <3>1. CASE c = b
      BY <3>1, <1>4
    <3>2. CASE c # b
      BY <3>2, <1>2
    <3> QED BY <3>1, <3>2
  <2> QED BY <2>1, <1>2 DEF Kept
<1> QED BY <1>2, <1>4, <1>6, <1>7 DEF Sound, I

LEMMA EmitTwoSound ==
  ASSUME NEW n \in Nat, NEW m \in Nat, NEW open, NEW bs, Sound(bs, n, m, open),
         NEW b \in DOMAIN bs, NEW i \in InstrsOver(n), \A place : CompleteBut(i, m, place, open),
         NEW c \in DOMAIN bs, NEW j \in InstrsOver(n), \A place : CompleteBut(j, m, place, open),
         NEW new, new = Append1(Append1(bs, b, i), c, j)
  PROVE  Sound(new, n, m, open) /\ Kept(bs, new) /\ SameSize(bs, new)
<1>1. PICK mid : mid = Append1(bs, b, i)
  OBVIOUS
<1>2. Sound(mid, n, m, open) /\ Kept(bs, mid) /\ SameSize(bs, mid)
  BY <1>1, EmitSound
<1>3. c \in DOMAIN mid /\ new = Append1(mid, c, j)
  BY <1>1, <1>2 DEF SameSize
<1>4. Sound(new, n, m, open) /\ Kept(mid, new) /\ SameSize(mid, new)
  <2>1. CompleteBut(j, m, <<c, Count(mid[c]) + 1>>, open)
    OBVIOUS
  <2> QED BY ONLY <1>2, <1>3, <2>1, n \in Nat, m \in Nat, j \in InstrsOver(n), EmitSound
<1>5. SameSize(bs, new)
  BY <1>2, <1>4 DEF SameSize
<1> QED BY <1>2, <1>4, <1>5 DEF Kept

(* A new, empty block; there may be more targets then. *)
LEMMA AddSound ==
  ASSUME NEW n \in Nat, NEW m \in Nat, NEW open, NEW bs, Sound(bs, n, m, open),
         NEW new, new = Append(bs, <<>>)
  PROVE  Sound(new, n, m, open) /\ Kept(bs, new) /\ OneMore(bs, new)
<1> USE DEF Count, OneMore
<1> DEFINE I == InstrsOver(n)
<1>1. bs \in Seq(Seq(I))
  BY DEF Sound
<1> HIDE DEF I
<1>2. /\ new \in Seq(Seq(I)) /\ DOMAIN new = 1..(Len(bs) + 1) /\ Len(new) = Len(bs) + 1
      /\ \A c \in DOMAIN bs : new[c] = bs[c]
      /\ new[Len(bs) + 1] = <<>> /\ DOMAIN bs = 1..Len(bs) /\ Len(bs) \in Nat
  BY <1>1
<1>3. \A c \in DOMAIN new : c \in DOMAIN bs \/ (c = Len(bs) + 1 /\ DOMAIN new[c] = {})
  BY <1>2
<1>4. \A c \in DOMAIN new : \A k \in DOMAIN new[c] : CompleteBut(new[c][k], m, <<c, k>>, open)
  BY <1>2, <1>3 DEF Sound
<1>5. Kept(bs, new)
  BY <1>2 DEF Kept
<1> QED BY <1>2, <1>4, <1>5 DEF Sound, I

(* More blocks and more places may stay open. *)
LEMMA WeakerSound ==
  ASSUME NEW n \in Nat, NEW m \in Nat, NEW more \in Nat, m <= more,
         NEW open, NEW wider, open \subseteq wider, NEW bs, Sound(bs, n, m, open)
  PROVE  Sound(bs, n, more, wider)
<1>1. 1..m \subseteq 1..more
  OBVIOUS
<1> QED BY <1>1 DEF Sound, CompleteBut

LEMMA WithTarget ==
  ASSUME NEW n, NEW i \in InstrsOver(n), NEW t \in Nat, NEW new, new = [i EXCEPT !.no = t]
  PROVE  new \in InstrsOver(n) /\ new.op = i.op /\ new.yes = i.yes /\ new.no = t
  BY DEF InstrsOver

(* Setting a false target closes its place. *)
LEMMA SetSound ==
  ASSUME NEW n \in Nat, NEW m \in Nat, NEW open, NEW bs, Sound(bs, n, m, open),
         NEW jump, IsCond(bs, jump), NEW t \in 1..m,
         NEW new, new = SetFalseTarget(bs, jump, t)
  PROVE  Sound(new, n, m, open \ {jump}) /\ Kept(bs, new) /\ SameSize(bs, new)
<1> USE DEF Count, SameSize
<1> DEFINE I == InstrsOver(n)
           b == jump[1]
           k == jump[2]
           i == [bs[b][k] EXCEPT !.no = t]
           patched == [bs[b] EXCEPT ![k] = i]
<1>1. /\ bs \in Seq(Seq(I)) /\ b \in DOMAIN bs /\ k \in DOMAIN bs[b] /\ jump = <<b, k>>
      /\ bs[b] \in Seq(I) /\ bs[b][k] \in I /\ bs[b][k].op = "cond"
  BY DEF Sound, IsCond
<1>2. /\ i \in I /\ i.op = "cond" /\ i.yes = bs[b][k].yes /\ i.no = t
  <2>1. bs[b][k] \in InstrsOver(n) /\ t \in Nat
    BY <1>1
  <2> QED BY <2>1, <1>1, WithTarget
<1>3. new = [bs EXCEPT ![b] = patched]
  BY DEF SetFalseTarget
<1> HIDE DEF i, I, b, k
<1>4. /\ patched \in Seq(I) /\ DOMAIN patched = DOMAIN bs[b] /\ patched[k] = i
      /\ \A l \in DOMAIN bs[b] \ {k} : patched[l] = bs[b][l]
  BY <1>1, <1>2
<1> HIDE DEF patched
<1>5. /\ new \in Seq(Seq(I)) /\ DOMAIN new = DOMAIN bs /\ Len(new) = Len(bs)
      /\ \A c \in DOMAIN bs \ {b} : new[c] = bs[c]
      /\ new[b] = patched
  BY ONLY <1>1, <1>3, <1>4
<1>6. \A c \in DOMAIN new : \A l \in DOMAIN new[c] :
        CompleteBut(new[c][l], m, <<c, l>>, open \ {jump})
  <2>1. ASSUME NEW c \in DOMAIN new, NEW l \in DOMAIN new[c], <<c, l>> # <<b, k>>
        PROVE  CompleteBut(new[c][l], m, <<c, l>>, open \ {jump})
    <3>1. c \in DOMAIN bs /\ l \in DOMAIN bs[c] /\ new[c][l] = bs[c][l]
      BY <2>1, <1>4, <1>5
    <3>2. CompleteBut(bs[c][l], m, <<c, l>>, open)
      BY <3>1 DEF Sound
    <3> QED BY <2>1, <3>1, <3>2, <1>1 DEF CompleteBut
  <2>2. CompleteBut(new[b][k], m, <<b, k>>, {})
    <3>1. CompleteBut(bs[b][k], m, <<b, k>>, open)
      BY <1>1 DEF Sound
    <3> QED BY <3>1, <1>1, <1>2, <1>4, <1>5 DEF CompleteBut
  <2>3. \A c \in DOMAIN new : \A l \in DOMAIN new[c] : <<c, l>> = <<b, k>> => c = b /\ l = k
    OBVIOUS
  <2> QED BY <2>1, <2>2, <2>3 DEF CompleteBut
<1>7. Kept(bs, new)
  BY <1>1, <1>2, <1>4, <1>5 DEF Kept
<1> QED BY <1>5, <1>6, <1>7 DEF Sound, I

LEMMA KeptThrough ==
  ASSUME NEW a, NEW b, NEW c, Kept(a, b), Kept(b, c)
  PROVE  Kept(a, c)
  BY DEF Kept

LEMMA CondKept ==
  ASSUME NEW bs, NEW new, Kept(bs, new), NEW jump, IsCond(bs, jump)
  PROVE  IsCond(new, jump)
  BY DEF Kept, IsCond

----------------------------------------------------------------------------
(* The calls of a function with n statements. *)
CallsOver(n) ==
  [kind : {"body", "block", "if", "then", "else", "loop"}, at : 0..n, jump : Nat \X Nat, from : Nat]

(* The jumps whose false target the calls cs will set. *)
Setter(f) == f.kind \in {"if", "then"}
Opened(f) == IF Setter(f) THEN {f.jump} ELSE {}
OpenOf(cs) == {cs[c].jump : c \in {d \in DOMAIN cs : Setter(cs[d])}}

(* What a call has remembered is in the blocks bs. *)
Remembers(bs, f, n) ==
  /\ Setter(f) => IsCond(bs, f.jump)
  /\ f.kind = "else" => f.from \in DOMAIN bs
  /\ f.kind = "loop" => /\ f.at \in 1..n /\ f.from \in DOMAIN bs
                        /\ f.jump[1] \in DOMAIN bs /\ f.jump[1] + 1 \in DOMAIN bs

CallsOK(cs, n) ==
  /\ cs \in Seq(CallsOver(n)) \ {<<>>}
  /\ \A c \in DOMAIN cs : cs[c].kind = "body" <=> c = 1

WalkOK ==
  /\ body \in Seq(StatementsOver(Names))
  /\ pc \in 1..(Len(body) + 1)
  /\ ins \in DOMAIN blocks
  /\ CallsOK(calls, Len(body))

GenInv ==
  /\ WalkOK
  /\ phase \in {"generating", "generated", "passed"}
  /\ Sound(blocks, Len(body), Count(blocks), OpenOf(calls))
  /\ IF phase = "generating" THEN \A c \in DOMAIN calls : Remembers(blocks, calls[c], Len(body))
     ELSE OpenOf(calls) = {}

LEMMA RemembersKept ==
  ASSUME NEW bs, NEW new, Kept(bs, new), NEW f, NEW n, Remembers(bs, f, n)
  PROVE  Remembers(new, f, n)
<1>1. DOMAIN bs \subseteq DOMAIN new
  BY DEF Kept
<1>2. Setter(f) => IsCond(new, f.jump)
  BY CondKept DEF Remembers
<1> QED BY <1>1, <1>2 DEF Remembers

LEMMA DomainOfBlocks ==
  ASSUME NEW n, NEW m, NEW open, NEW bs, Sound(bs, n, m, open)
  PROVE  /\ Count(bs) \in Nat /\ DOMAIN bs = 1..Count(bs)
         /\ \A b \in DOMAIN bs : bs[b] \in Seq(InstrsOver(n)) /\ Count(bs[b]) \in Nat
  BY DEF Sound, Count

(* A statement is generated and no call begins or ends. *)
LEMMA StayStep ==
  ASSUME GenInv, phase = "generating", pc \in 1..Len(body), pc' = pc + 1,
         Sound(blocks', Len(body), Count(blocks'), OpenOf(calls)), Kept(blocks, blocks'),
         UNCHANGED <<body, calls, ins, phase>>
  PROVE  GenInv'
<1>1. Len(body) \in Nat /\ pc' \in 1..(Len(body) + 1)
  BY DEF GenInv, WalkOK
<1>2. WalkOK'
  <2>1. ins' \in DOMAIN blocks'
    BY DEF GenInv, WalkOK, Kept
  <2>2. CallsOK(calls', Len(body'))
    BY DEF GenInv, WalkOK
  <2>3. body' \in Seq(StatementsOver(Names))
    BY DEF GenInv, WalkOK
  <2> QED BY <1>1, <2>1, <2>2, <2>3 DEF WalkOK
<1>3. \A c \in DOMAIN calls : Remembers(blocks', calls[c], Len(body))
  BY RemembersKept DEF GenInv
<1> QED BY <1>2, <1>3 DEF GenInv

(* A call begins. *)
Pushed(cs, f, n, new) ==
  /\ CallsOK(new, n)
  /\ OpenOf(new) = OpenOf(cs) \cup Opened(f)
  /\ \A c \in DOMAIN new : new[c] = f \/ \E d \in DOMAIN cs : new[c] = cs[d]

LEMMA PushedCalls ==
  ASSUME NEW n, NEW cs, CallsOK(cs, n), NEW f \in CallsOver(n), f.kind # "body"
  PROVE  Pushed(cs, f, n, Append(cs, f))
<1> SUFFICES ASSUME NEW new, new = Append(cs, f) PROVE Pushed(cs, f, n, new)
  OBVIOUS
<1> DEFINE C == CallsOver(n)
           l == Len(cs)
<1>1. cs \in Seq(C) /\ cs # <<>> /\ f \in C
  BY DEF CallsOK
<1> HIDE DEF C
<1>2. /\ l \in Nat \ {0} /\ DOMAIN cs = 1..l /\ new \in Seq(C) /\ new # <<>>
      /\ DOMAIN new = 1..(l + 1) /\ new[l + 1] = f /\ \A c \in 1..l : new[c] = cs[c]
  BY ONLY <1>1, new = Append(cs, f)
<1> HIDE DEF l
<1>3. \A c \in DOMAIN new : c \in 1..l \/ c = l + 1
  BY <1>2
<1>4. l + 1 # 1 /\ l + 1 \in DOMAIN new /\ 1..l \subseteq DOMAIN new
  BY <1>2
<1>5. \A c \in DOMAIN new : new[c].kind = "body" <=> c = 1
  BY <1>2, <1>3, <1>4 DEF CallsOK
<1>6. OpenOf(new) = OpenOf(cs) \cup Opened(f)
  <2>1. ASSUME NEW j \in OpenOf(new)
        PROVE  j \in OpenOf(cs) \cup Opened(f)
    <3>1. PICK c \in DOMAIN new : Setter(new[c]) /\ j = new[c].jump
      BY DEF OpenOf
    <3> QED BY <3>1, <1>2, <1>3 DEF OpenOf, Opened
  <2>2. ASSUME NEW j \in OpenOf(cs) PROVE j \in OpenOf(new)
    <3>1. PICK c \in DOMAIN cs : Setter(cs[c]) /\ j = cs[c].jump
      BY DEF OpenOf
    <3> QED BY <3>1, <1>2, <1>4 DEF OpenOf
  <2>3. Setter(f) => f.jump \in OpenOf(new)
    BY <1>2, <1>4 DEF OpenOf
  <2> QED BY <2>1, <2>2, <2>3 DEF Opened
<1> QED BY <1>2, <1>3, <1>5, <1>6 DEF CallsOK, Pushed, C

(* A call begins above the calls cs, which have been active before. *)
LEMMA PushStep ==
  ASSUME GenInv, phase = "generating", pc \in 1..Len(body), pc' = pc + 1,
         NEW cs, CallsOK(cs, Len(body)), \A c \in DOMAIN cs : \E d \in DOMAIN calls : cs[c] = calls[d],
         NEW f \in CallsOver(Len(body)), f.kind # "body", Remembers(blocks', f, Len(body)),
         calls' = Append(cs, f), ins' \in DOMAIN blocks',
         Sound(blocks', Len(body), Count(blocks'), OpenOf(cs) \cup Opened(f)),
         Kept(blocks, blocks'), UNCHANGED <<body, phase>>
  PROVE  GenInv'
<1>1. Len(body) \in Nat /\ pc' \in 1..(Len(body) + 1)
  BY DEF GenInv, WalkOK
<1>2. Pushed(cs, f, Len(body), calls')
  <2>1. Pushed(cs, f, Len(body), Append(cs, f))
    BY ONLY CallsOK(cs, Len(body)), f \in CallsOver(Len(body)), f.kind # "body", PushedCalls, Zenon
  <2> QED BY <2>1
<1>3. \A d \in DOMAIN calls : Remembers(blocks', calls[d], Len(body))
  BY RemembersKept DEF GenInv
<1>4. \A c \in DOMAIN calls' : Remembers(blocks', calls'[c], Len(body))
  BY <1>2, <1>3 DEF Pushed
<1>5. WalkOK'
  BY <1>1, <1>2 DEF GenInv, WalkOK, Pushed
<1> QED BY <1>2, <1>4, <1>5 DEF GenInv, Pushed

(* The calls below the one on top. *)
LEMMA PoppedCalls ==
  ASSUME NEW n, CallsOK(calls, n), Top.kind # "body"
  PROVE  /\ CallsOK(Below, n) /\ Top \in CallsOver(n)
         /\ OpenOf(calls) = OpenOf(Below) \cup Opened(Top)
         /\ \A c \in DOMAIN Below : \E d \in DOMAIN calls : Below[c] = calls[d]
         /\ \E d \in DOMAIN calls : Top = calls[d]
<1> DEFINE C == CallsOver(n)
           l == Len(calls)
<1>1. calls \in Seq(C) /\ calls # <<>>
  BY DEF CallsOK
<1> HIDE DEF C
<1>2. /\ l \in Nat \ {0} /\ DOMAIN calls = 1..l /\ Top = calls[l] /\ Top \in C
      /\ Below \in Seq(C) /\ Len(Below) = l - 1 /\ DOMAIN Below = 1..(l - 1)
      /\ \A c \in 1..(l - 1) : Below[c] = calls[c]
  <2>1. l \in Nat \ {0} /\ DOMAIN calls = 1..l
    BY <1>1
  <2>2. Top = calls[l] /\ Top \in C
    BY <1>1, <2>1 DEF Top
  <2>3. Below \in Seq(C) /\ Len(Below) = l - 1 /\ \A c \in 1..(l - 1) : Below[c] = calls[c]
    BY ONLY <1>1, <2>1 DEF Below, l
  <2> QED BY <2>1, <2>2, <2>3
<1> HIDE DEF l
<1>3. l # 1
  BY <1>2 DEF CallsOK
<1>4. \A c \in DOMAIN calls : c \in 1..(l - 1) \/ c = l
  BY <1>2
<1>5. 1..(l - 1) \subseteq DOMAIN calls /\ l \in DOMAIN calls /\ Below # <<>>
  BY <1>2, <1>3
<1>6. \A c \in DOMAIN Below : Below[c].kind = "body" <=> c = 1
  BY <1>2, <1>5 DEF CallsOK
<1>7. OpenOf(calls) = OpenOf(Below) \cup Opened(Top)
  <2>1. ASSUME NEW j \in OpenOf(calls)
        PROVE  j \in OpenOf(Below) \cup Opened(Top)
    <3>1. PICK c \in DOMAIN calls : Setter(calls[c]) /\ j = calls[c].jump
      BY DEF OpenOf
    <3> QED BY <3>1, <1>2, <1>4 DEF OpenOf, Opened
  <2>2. ASSUME NEW j \in OpenOf(Below) PROVE j \in OpenOf(calls)
    <3>1. PICK c \in DOMAIN Below : Setter(Below[c]) /\ j = Below[c].jump
      BY DEF OpenOf
    <3> QED BY <3>1, <1>2, <1>5 DEF OpenOf
  <2>3. Setter(Top) => Top.jump \in OpenOf(calls)
    BY <1>2, <1>5 DEF OpenOf
  <2> QED BY <2>1, <2>2, <2>3 DEF Opened
<1> QED BY <1>2, <1>5, <1>6, <1>7 DEF CallsOK, C

(* A call ends. *)
LEMMA PopStep ==
  ASSUME GenInv, phase = "generating", pc \in 1..Len(body), pc' = pc + 1, Top.kind # "body",
         calls' = Below, ins' \in DOMAIN blocks',
         Sound(blocks', Len(body), Count(blocks'), OpenOf(Below)),
         Kept(blocks, blocks'), UNCHANGED <<body, phase>>
  PROVE  GenInv'
<1>1. Len(body) \in Nat /\ pc' \in 1..(Len(body) + 1) /\ CallsOK(calls, Len(body))
  BY DEF GenInv, WalkOK
<1>2. /\ CallsOK(Below, Len(body))
      /\ \A c \in DOMAIN Below : \E d \in DOMAIN calls : Below[c] = calls[d]
  BY <1>1, PoppedCalls
<1>3. \A d \in DOMAIN calls : Remembers(blocks', calls[d], Len(body))
  BY RemembersKept DEF GenInv
<1>4. \A c \in DOMAIN calls' : Remembers(blocks', calls'[c], Len(body))
  BY <1>2, <1>3
<1>5. WalkOK'
  BY <1>1, <1>2 DEF GenInv, WalkOK
<1> QED BY <1>4, <1>5 DEF GenInv

----------------------------------------------------------------------------
LEMMA UsesAreStatements ==
  ASSUME Len(body) \in Nat, NEW p \in 1..Len(body)
  PROVE  UsesOf(p) \in SUBSET (1..Len(body))
<1>1. ASSUME NEW d \in UsesOf(p) PROVE d \in 1..Len(body)
  <2>1. PICK x : d = DeclOf(body, p, x, Globals) /\ d > 0
    BY DEF UsesOf
  <2>2. p \in Nat \ {0}
    OBVIOUS
  <2>3. DeclOf(body, p, x, Globals) \in {Global, Undeclared} \cup 1..(p - 1)
    BY ONLY <2>2, DeclOfIsBefore
  <2>4. d \in 1..(p - 1)
    BY <2>1, <2>3 DEF Global, Undeclared
  <2> QED BY <2>4
<1> QED BY <1>1

LEMMA InstrIsTyped ==
  ASSUME NEW n \in Nat, NEW op \in Terminators \cup {"alloca", "do"}, NEW at \in 0..n,
         NEW uses \in SUBSET (1..n), NEW yes \in Nat, NEW no \in Nat
  PROVE  /\ Instr(op, at, uses, yes, no) \in InstrsOver(n)
         /\ Instr(op, at, uses, yes, no).op = op
         /\ Instr(op, at, uses, yes, no).yes = yes
         /\ Instr(op, at, uses, yes, no).no = no
  BY DEF Instr, InstrsOver

LEMMA JumpIsTyped ==
  ASSUME NEW n \in Nat, NEW m \in Nat, NEW t \in 1..m, NEW place, NEW open
  PROVE  Jump(t) \in InstrsOver(n) /\ CompleteBut(Jump(t), m, place, open)
<1>1. t \in Nat /\ 0 \in 0..n /\ {} \in SUBSET (1..n) /\ 0 \in Nat /\ "jump" \in Terminators
  BY DEF Terminators
<1>2. /\ Jump(t) \in InstrsOver(n) /\ Jump(t).op = "jump" /\ Jump(t).yes = t
  BY <1>1, InstrIsTyped DEF Jump
<1> QED BY <1>2 DEF CompleteBut

(* A statement that appends one instruction that is no jump. *)
LEMMA OneInstruction ==
  ASSUME GenInv, phase = "generating", pc \in 1..Len(body), pc' = pc + 1,
         NEW op \in {"do", "ret"}, blocks' = Append1(blocks, ins, Instr(op, pc, Uses, 0, 0)),
         UNCHANGED <<body, calls, ins, phase>>
  PROVE  GenInv'
<1> DEFINE i == Instr(op, pc, Uses, 0, 0)
<1>1. /\ Len(body) \in Nat /\ ins \in DOMAIN blocks /\ Count(blocks) \in Nat
      /\ Sound(blocks, Len(body), Count(blocks), OpenOf(calls))
  BY DomainOfBlocks DEF GenInv, WalkOK
<1>2. pc \in 0..Len(body) /\ op \in Terminators \cup {"alloca", "do"} /\ 0 \in Nat
  BY <1>1 DEF Terminators
<1>3. Uses \in SUBSET (1..Len(body))
  BY <1>1, UsesAreStatements DEF Uses
<1>4. i \in InstrsOver(Len(body)) /\ i.op = op
  BY <1>1, <1>2, <1>3, InstrIsTyped
<1> HIDE DEF i
<1>5. \A place, open : CompleteBut(i, Count(blocks), place, open)
  BY <1>4 DEF CompleteBut
<1>6. /\ Sound(blocks', Len(body), Count(blocks), OpenOf(calls))
      /\ Kept(blocks, blocks') /\ SameSize(blocks, blocks')
  <2>1. blocks' = Append1(blocks, ins, i)
    BY DEF i
  <2> QED BY ONLY <1>1, <1>4, <1>5, <2>1, EmitSound
<1> QED BY <1>6, StayStep DEF SameSize

LEMMA VariableDeclStep ==
  ASSUME GenInv, VisitVariableDecl
  PROVE  GenInv'
<1> DEFINE a == Instr("alloca", pc, {}, 0, 0)
           i == Instr("do", pc, {pc} \cup Uses, 0, 0)
<1>1. /\ Len(body) \in Nat /\ ins \in DOMAIN blocks /\ Count(blocks) \in Nat
      /\ Sound(blocks, Len(body), Count(blocks), OpenOf(calls)) /\ pc \in 1..Len(body)
  BY DomainOfBlocks DEF GenInv, WalkOK, VisitVariableDecl, At
<1>2. pc \in 0..Len(body)
  BY <1>1
<1>3. {pc} \cup Uses \in SUBSET (1..Len(body))
  BY <1>1, UsesAreStatements DEF Uses
<1>4. a \in InstrsOver(Len(body)) /\ a.op = "alloca"
  BY <1>1, <1>2 DEF Instr, InstrsOver
<1>5. i \in InstrsOver(Len(body)) /\ i.op = "do"
  BY <1>1, <1>2, <1>3 DEF Instr, InstrsOver
<1>6. blocks' = Append1(Append1(blocks, ins, a), ins, i)
  BY DEF VisitVariableDecl
<1> HIDE DEF a, i
<1>7. \A place, open : CompleteBut(a, Count(blocks), place, open) /\ CompleteBut(i, Count(blocks), place, open)
  BY <1>4, <1>5 DEF CompleteBut
<1>8. /\ Sound(blocks', Len(body), Count(blocks), OpenOf(calls)) /\ Kept(blocks, blocks')
      /\ SameSize(blocks, blocks')
  BY ONLY <1>1, <1>4, <1>5, <1>6, <1>7, EmitTwoSound
<1> QED BY <1>8, StayStep DEF SameSize, VisitVariableDecl, At

(* The jump of an if stays open until the walk knows its false target. *)
LEMMA IfBlocks ==
  ASSUME NEW n \in Nat, NEW bs, NEW open, Sound(bs, n, Count(bs), open),
         NEW b \in DOMAIN bs, NEW i \in InstrsOver(n), i.op = "cond", i.yes = Count(bs) + 1,
         NEW new, new = Append(Append1(bs, b, i), <<>>)
  PROVE  LET place == <<b, Count(bs[b]) + 1>>
         IN  /\ Sound(new, n, Count(new), open \cup {place}) /\ Kept(bs, new)
             /\ OneMore(bs, new) /\ IsCond(new, place) /\ place \in Nat \X Nat
<1> DEFINE m == Count(bs) + 1
           place == <<b, Count(bs[b]) + 1>>
           wider == open \cup {place}
<1>1. /\ Count(bs) \in Nat /\ m \in Nat /\ Count(bs) <= m /\ m \in 1..m
      /\ place \in Nat \X Nat /\ place \in wider /\ open \subseteq wider
  BY DomainOfBlocks
<1>2. i.yes = m
  OBVIOUS
<1> HIDE DEF m, wider
<1>3. Sound(bs, n, m, wider)
  BY <1>1, WeakerSound
<1>4. CompleteBut(i, m, place, wider)
  BY <1>1, <1>2 DEF CompleteBut
<1>5. PICK mid : mid = Append1(bs, b, i)
  OBVIOUS
<1>6. /\ Sound(mid, n, m, wider) /\ Kept(bs, mid) /\ SameSize(bs, mid)
      /\ Count(bs[b]) + 1 \in DOMAIN mid[b] /\ mid[b][Count(bs[b]) + 1] = i
  BY <1>1, <1>3, <1>4, <1>5, EmitSound
<1>7. new = Append(mid, <<>>)
  BY <1>5
<1>8. Sound(new, n, m, wider) /\ Kept(mid, new) /\ OneMore(mid, new)
  BY <1>1, <1>6, <1>7, AddSound
<1>9. OneMore(bs, new) /\ Count(new) = m
  BY <1>6, <1>8 DEF OneMore, SameSize, m
<1>10. IsCond(mid, place)
  <2>1. b \in DOMAIN mid /\ mid[b][Count(bs[b]) + 1].op = "cond"
    BY <1>6 DEF SameSize
  <2> QED BY <2>1, <1>6 DEF IsCond
<1>11. IsCond(new, place) /\ Kept(bs, new)
  BY <1>6, <1>8, <1>10, CondKept, KeptThrough
<1> QED BY <1>1, <1>8, <1>9, <1>11 DEF wider

LEMMA IfStep ==
  ASSUME GenInv, VisitIf
  PROVE  GenInv'
<1> DEFINE i == Instr("cond", pc, Uses, NewBlock, 0)
           place == <<ins, Count(blocks[ins]) + 1>>
           kind == IF body[pc].op = "ifelse" THEN "then" ELSE "if"
           f == Call(kind, pc, place, 0)
<1>1. /\ Len(body) \in Nat /\ ins \in DOMAIN blocks /\ Count(blocks) \in Nat
      /\ Sound(blocks, Len(body), Count(blocks), OpenOf(calls)) /\ pc \in 1..Len(body)
      /\ CallsOK(calls, Len(body))
  BY DomainOfBlocks DEF GenInv, WalkOK, VisitIf, At
<1>2. pc \in 0..Len(body) /\ Uses \in SUBSET (1..Len(body)) /\ NewBlock = Count(blocks) + 1
  BY <1>1, UsesAreStatements DEF Uses, NewBlock, Count
<1>3. i \in InstrsOver(Len(body)) /\ i.op = "cond" /\ i.yes = Count(blocks) + 1
  BY <1>1, <1>2 DEF Instr, InstrsOver, Terminators
<1>4. /\ blocks' = Append(Append1(blocks, ins, i), <<>>)
      /\ calls' = Append(calls, f) /\ ins' = NewBlock
      /\ phase = "generating" /\ pc' = pc + 1 /\ UNCHANGED <<body, phase>>
  BY DEF VisitIf, At, Count
<1> HIDE DEF i
<1>5. /\ Sound(blocks', Len(body), Count(blocks'), OpenOf(calls) \cup {place}) /\ Kept(blocks, blocks')
      /\ OneMore(blocks, blocks') /\ IsCond(blocks', place) /\ place \in Nat \X Nat
  BY ONLY <1>1, <1>3, <1>4, IfBlocks
<1>6. /\ f \in CallsOver(Len(body)) /\ f.kind \in {"if", "then"} /\ f.jump = place
  BY <1>2, <1>5 DEF Call, CallsOver
<1> HIDE DEF f, place
<1>7. Opened(f) = {place} /\ f.kind # "body" /\ Remembers(blocks', f, Len(body))
  BY <1>5, <1>6 DEF Opened, Setter, Remembers
<1>8. ins' \in DOMAIN blocks'
  BY <1>1, <1>2, <1>4, <1>5 DEF OneMore
<1> QED BY <1>1, <1>4, <1>5, <1>6, <1>7, <1>8, PushStep

(* The call on top, with what it remembers. *)
LEMMA TopCall ==
  ASSUME GenInv, phase = "generating", Top.kind # "body"
  PROVE  /\ Len(body) \in Nat /\ ins \in DOMAIN blocks /\ Count(blocks) \in Nat
         /\ NewBlock = Count(blocks) + 1 /\ DOMAIN blocks = 1..Count(blocks)
         /\ Sound(blocks, Len(body), Count(blocks), OpenOf(calls))
         /\ CallsOK(Below, Len(body)) /\ Top \in CallsOver(Len(body))
         /\ OpenOf(calls) = OpenOf(Below) \cup Opened(Top)
         /\ \A c \in DOMAIN Below : \E d \in DOMAIN calls : Below[c] = calls[d]
         /\ Remembers(blocks, Top, Len(body))
<1>1. /\ Len(body) \in Nat /\ ins \in DOMAIN blocks /\ Count(blocks) \in Nat
      /\ DOMAIN blocks = 1..Count(blocks)
      /\ Sound(blocks, Len(body), Count(blocks), OpenOf(calls)) /\ CallsOK(calls, Len(body))
  BY DomainOfBlocks DEF GenInv, WalkOK
<1>2. NewBlock = Count(blocks) + 1
  BY DEF NewBlock, Count
<1>3. /\ CallsOK(Below, Len(body)) /\ Top \in CallsOver(Len(body))
      /\ OpenOf(calls) = OpenOf(Below) \cup Opened(Top)
      /\ \A c \in DOMAIN Below : \E d \in DOMAIN calls : Below[c] = calls[d]
      /\ \E d \in DOMAIN calls : Top = calls[d]
  BY <1>1, PoppedCalls
<1>4. Remembers(blocks, Top, Len(body))
  BY <1>3 DEF GenInv
<1> QED BY <1>1, <1>2, <1>3, <1>4

(* One block more, with all that was in the others. *)
Grown(bs, new, n, open) == Sound(new, n, Count(new), open) /\ Kept(bs, new) /\ OneMore(bs, new)

LEMMA ElseBlocks ==
  ASSUME NEW n \in Nat, NEW bs, NEW open, Sound(bs, n, Count(bs), open),
         NEW jump, IsCond(bs, jump),
         NEW new, new = Append(SetFalseTarget(bs, jump, Count(bs) + 1), <<>>)
  PROVE  Grown(bs, new, n, open \ {jump})
<1> DEFINE m == Count(bs) + 1
<1>1. Count(bs) \in Nat /\ m \in Nat /\ Count(bs) <= m /\ m \in 1..m
  BY DomainOfBlocks
<1>2. PICK mid : mid = SetFalseTarget(bs, jump, m)
  OBVIOUS
<1>3. new = Append(mid, <<>>)
  BY <1>2
<1> HIDE DEF m
<1>4. Sound(bs, n, m, open)
  BY <1>1, WeakerSound
<1>5. Sound(mid, n, m, open \ {jump}) /\ Kept(bs, mid) /\ SameSize(bs, mid)
  BY <1>1, <1>2, <1>4, SetSound
<1>6. Sound(new, n, m, open \ {jump}) /\ Kept(mid, new) /\ OneMore(mid, new)
  BY <1>1, <1>3, <1>5, AddSound
<1>7. OneMore(bs, new) /\ Count(new) = m
  BY <1>5, <1>6 DEF OneMore, SameSize, m
<1> QED BY <1>5, <1>6, <1>7, KeptThrough DEF Grown

LEMMA EndIfBlocks ==
  ASSUME NEW n \in Nat, NEW bs, NEW open, Sound(bs, n, Count(bs), open),
         NEW jump, IsCond(bs, jump), NEW b \in DOMAIN bs, NEW t, t = Count(bs) + 1,
         NEW new, new = Append(Append1(SetFalseTarget(bs, jump, t), b, Jump(t)), <<>>)
  PROVE  Grown(bs, new, n, open \ {jump})
<1> DEFINE m == t
<1>1. Count(bs) \in Nat /\ m \in Nat /\ Count(bs) <= m /\ m \in 1..m
  BY DomainOfBlocks
<1>2. PICK mid : mid = SetFalseTarget(bs, jump, m)
  OBVIOUS
<1>3. PICK then : then = Append1(mid, b, Jump(m))
  OBVIOUS
<1>4. new = Append(then, <<>>)
  BY <1>2, <1>3
<1> HIDE DEF m
<1>5. Sound(bs, n, m, open)
  BY <1>1, WeakerSound
<1>6. Sound(mid, n, m, open \ {jump}) /\ Kept(bs, mid) /\ SameSize(bs, mid)
  BY <1>1, <1>2, <1>5, SetSound
<1>7. Sound(then, n, m, open \ {jump}) /\ Kept(mid, then) /\ SameSize(mid, then)
  <2>1. /\ Jump(m) \in InstrsOver(n) /\ b \in DOMAIN mid
        /\ CompleteBut(Jump(m), m, <<b, Count(mid[b]) + 1>>, open \ {jump})
    BY <1>1, <1>6, JumpIsTyped DEF SameSize
  <2> QED BY ONLY <1>1, <1>3, <1>6, <2>1, n \in Nat, EmitSound
<1>8. Sound(new, n, m, open \ {jump}) /\ Kept(then, new) /\ OneMore(then, new)
  BY ONLY <1>1, <1>4, <1>7, n \in Nat, AddSound
<1>9. OneMore(bs, new) /\ Count(new) = m
  BY <1>6, <1>7, <1>8 DEF OneMore, SameSize, m
<1>10. Kept(bs, new)
  BY <1>6, <1>7, <1>8, KeptThrough
<1> QED BY <1>8, <1>9, <1>10 DEF Grown

LEMMA EndIfElseBlocks ==
  ASSUME NEW n \in Nat, NEW bs, NEW open, Sound(bs, n, Count(bs), open),
         NEW b \in DOMAIN bs, NEW c \in DOMAIN bs,
         NEW new, new = Append(Append1(Append1(bs, b, Jump(Count(bs) + 1)), c, Jump(Count(bs) + 1)), <<>>)
  PROVE  Grown(bs, new, n, open)
<1> DEFINE m == Count(bs) + 1
<1>1. Count(bs) \in Nat /\ m \in Nat /\ Count(bs) <= m /\ m \in 1..m
  BY DomainOfBlocks
<1>2. PICK mid : mid = Append1(Append1(bs, b, Jump(m)), c, Jump(m))
  OBVIOUS
<1>3. new = Append(mid, <<>>)
  BY <1>2
<1> HIDE DEF m
<1>4. Sound(bs, n, m, open)
  BY <1>1, WeakerSound
<1>5. Jump(m) \in InstrsOver(n) /\ \A place : CompleteBut(Jump(m), m, place, open)
  BY <1>1, JumpIsTyped
<1>6. Sound(mid, n, m, open) /\ Kept(bs, mid) /\ SameSize(bs, mid)
  BY ONLY <1>1, <1>2, <1>4, <1>5, n \in Nat, b \in DOMAIN bs, c \in DOMAIN bs, EmitTwoSound
<1>7. Sound(new, n, m, open) /\ Kept(mid, new) /\ OneMore(mid, new)
  BY <1>1, <1>3, <1>6, AddSound
<1>8. OneMore(bs, new) /\ Count(new) = m
  BY <1>6, <1>7 DEF OneMore, SameSize, m
<1> QED BY <1>6, <1>7, <1>8, KeptThrough DEF Grown

AsElse(f, from) == [f EXCEPT !.kind = "else", !.from = from]

LEMMA ElseCall ==
  ASSUME NEW n, NEW f \in CallsOver(n), NEW from \in Nat
  PROVE  /\ AsElse(f, from) \in CallsOver(n)
         /\ AsElse(f, from).kind = "else" /\ AsElse(f, from).from = from
  BY DEF CallsOver, AsElse

LEMMA ElseStep ==
  ASSUME GenInv, VisitElse
  PROVE  GenInv'
<1> DEFINE f == AsElse(Top, ins)
<1>1. /\ phase = "generating" /\ pc \in 1..Len(body) /\ Top.kind = "then" /\ Top.kind # "body"
      /\ blocks' = Append(SetFalseTarget(blocks, Top.jump, NewBlock), <<>>)
      /\ ins' = NewBlock /\ calls' = Append(Below, f) /\ pc' = pc + 1 /\ UNCHANGED <<body, phase>>
  BY DEF VisitElse, At, AsElse
<1>2. /\ Len(body) \in Nat /\ ins \in DOMAIN blocks /\ Count(blocks) \in Nat
      /\ NewBlock = Count(blocks) + 1 /\ DOMAIN blocks = 1..Count(blocks)
      /\ Sound(blocks, Len(body), Count(blocks), OpenOf(calls))
      /\ CallsOK(Below, Len(body)) /\ Top \in CallsOver(Len(body))
      /\ OpenOf(calls) = OpenOf(Below) \cup Opened(Top)
      /\ \A c \in DOMAIN Below : \E d \in DOMAIN calls : Below[c] = calls[d]
      /\ Remembers(blocks, Top, Len(body))
  BY <1>1, TopCall
<1>3. f \in CallsOver(Len(body)) /\ f.kind = "else" /\ f.from = ins
  <2>1. ins \in Nat
    BY <1>2
  <2> QED BY <1>2, <2>1, ElseCall
<1> HIDE DEF f
<1>4. IsCond(blocks, Top.jump) /\ Opened(Top) = {Top.jump}
  BY <1>1, <1>2 DEF Remembers, Setter, Opened
<1>5. Grown(blocks, blocks', Len(body), OpenOf(calls) \ {Top.jump})
  BY ONLY <1>1, <1>2, <1>4, ElseBlocks
<1>6. Opened(f) = {} /\ f.kind # "body" /\ Remembers(blocks', f, Len(body))
  BY <1>2, <1>3, <1>5 DEF Opened, Setter, Remembers, OneMore, Grown
<1>7. Sound(blocks', Len(body), Count(blocks'), OpenOf(Below) \cup Opened(f))
  <2>1. OpenOf(calls) \ {Top.jump} \subseteq OpenOf(Below) \cup Opened(f)
    BY <1>2, <1>4, <1>6
  <2>2. Count(blocks') \in Nat /\ Count(blocks') <= Count(blocks')
    BY <1>2, <1>5 DEF OneMore, Grown
  <2> QED BY <1>2, <1>5, <2>1, <2>2, WeakerSound DEF Grown
<1>8. ins' \in DOMAIN blocks'
  BY <1>1, <1>2, <1>5 DEF OneMore, Grown
<1>9. Kept(blocks, blocks')
  BY <1>5 DEF Grown
<1> QED BY ONLY GenInv, <1>1, <1>2, <1>3, <1>6, <1>7, <1>8, <1>9, PushStep

(* What is left of the end of a list once its blocks are known. *)
LEMMA EndOfList ==
  ASSUME GenInv, phase = "generating", pc \in 1..Len(body), pc' = pc + 1, Top.kind # "body",
         calls' = Below, ins' = NewBlock,
         NEW open, open \subseteq OpenOf(Below), Grown(blocks, blocks', Len(body), open), UNCHANGED <<body, phase>>
  PROVE  GenInv'
<1>1. /\ Len(body) \in Nat /\ Count(blocks) \in Nat /\ NewBlock = Count(blocks) + 1
  BY TopCall
<1>2. /\ Count(blocks') \in Nat /\ Count(blocks') <= Count(blocks')
      /\ ins' \in DOMAIN blocks'
  BY <1>1 DEF OneMore, Grown
<1>3. Sound(blocks', Len(body), Count(blocks'), OpenOf(Below)) /\ Kept(blocks, blocks')
  BY <1>1, <1>2, WeakerSound DEF Grown
<1> QED BY <1>2, <1>3, PopStep

LEMMA EndIfStep ==
  ASSUME GenInv, EndIf
  PROVE  GenInv'
<1>1. /\ phase = "generating" /\ pc \in 1..Len(body) /\ Top.kind = "if" /\ Top.kind # "body"
      /\ blocks' = Append(Append1(SetFalseTarget(blocks, Top.jump, NewBlock), ins, Jump(NewBlock)), <<>>)
      /\ ins' = NewBlock /\ calls' = Below /\ pc' = pc + 1 /\ UNCHANGED <<body, phase>>
  BY DEF EndIf, At
<1>2. /\ Len(body) \in Nat /\ ins \in DOMAIN blocks /\ NewBlock = Count(blocks) + 1
      /\ Sound(blocks, Len(body), Count(blocks), OpenOf(calls))
      /\ OpenOf(calls) = OpenOf(Below) \cup Opened(Top)
      /\ Remembers(blocks, Top, Len(body))
  BY <1>1, TopCall
<1>3. IsCond(blocks, Top.jump) /\ Opened(Top) = {Top.jump}
  BY <1>1, <1>2 DEF Remembers, Setter, Opened
<1>4. Grown(blocks, blocks', Len(body), OpenOf(calls) \ {Top.jump})
  <2>1. blocks' = Append(Append1(SetFalseTarget(blocks, Top.jump, NewBlock), ins, Jump(NewBlock)), <<>>)
    BY <1>1
  <2>2. /\ Len(body) \in Nat /\ ins \in DOMAIN blocks /\ IsCond(blocks, Top.jump)
        /\ Sound(blocks, Len(body), Count(blocks), OpenOf(calls)) /\ NewBlock = Count(blocks) + 1
    BY <1>2, <1>3
  <2> QED BY ONLY <2>1, <2>2, EndIfBlocks
<1>5. OpenOf(calls) \ {Top.jump} \subseteq OpenOf(Below)
  BY <1>2, <1>3
<1> QED BY ONLY GenInv, <1>1, <1>4, <1>5, EndOfList

LEMMA EndIfElseStep ==
  ASSUME GenInv, EndIfElse
  PROVE  GenInv'
<1>1. /\ phase = "generating" /\ pc \in 1..Len(body) /\ Top.kind = "else" /\ Top.kind # "body"
      /\ blocks' = Append(Append1(Append1(blocks, ins, Jump(NewBlock)), Top.from, Jump(NewBlock)), <<>>)
      /\ ins' = NewBlock /\ calls' = Below /\ pc' = pc + 1 /\ UNCHANGED <<body, phase>>
  BY DEF EndIfElse, At
<1>2. /\ Len(body) \in Nat /\ ins \in DOMAIN blocks /\ NewBlock = Count(blocks) + 1
      /\ Sound(blocks, Len(body), Count(blocks), OpenOf(calls))
      /\ OpenOf(calls) = OpenOf(Below) \cup Opened(Top)
      /\ Remembers(blocks, Top, Len(body))
  BY <1>1, TopCall
<1>3. Top.from \in DOMAIN blocks /\ Opened(Top) = {}
  BY <1>1, <1>2 DEF Remembers, Setter, Opened
<1>4. Grown(blocks, blocks', Len(body), OpenOf(calls))
  BY ONLY <1>1, <1>2, <1>3, EndIfElseBlocks
<1>5. OpenOf(calls) \subseteq OpenOf(Below)
  BY <1>2, <1>3
<1> QED BY ONLY GenInv, <1>1, <1>4, <1>5, EndOfList

(* The same as two empty blocks, one after the other. *)
LEMMA TwoBlocks ==
  ASSUME NEW I, NEW bs \in Seq(Seq(I))
  PROVE  bs \o << <<>>, <<>> >> = Append(Append(bs, <<>>), <<>>)
<1>1. PICK new : new = bs \o << <<>>, <<>> >>
  OBVIOUS
<1>2. PICK mid : mid = Append(bs, <<>>)
  OBVIOUS
<1>3. /\ mid \in Seq(Seq(I)) /\ Len(mid) = Len(bs) + 1 /\ \A k \in 1..Len(bs) : mid[k] = bs[k]
      /\ mid[Len(bs) + 1] = <<>> /\ Len(bs) \in Nat
  BY <1>2
<1>4. PICK other : other = Append(mid, <<>>)
  OBVIOUS
<1>5. /\ other \in Seq(Seq(I)) /\ Len(other) = Len(bs) + 2
      /\ \A k \in 1..Len(bs) : other[k] = bs[k]
      /\ other[Len(bs) + 1] = <<>> /\ other[Len(bs) + 2] = <<>>
  BY ONLY <1>3, <1>4
<1>6. /\ new \in Seq(Seq(I)) /\ Len(new) = Len(bs) + 2
      /\ \A k \in 1..Len(bs) : new[k] = bs[k]
      /\ new[Len(bs) + 1] = <<>> /\ new[Len(bs) + 2] = <<>>
  BY <1>1
<1>7. Len(new) = Len(other) /\ \A k \in 1..Len(new) : new[k] = other[k]
  <2>1. \A k \in 1..Len(new) : k \in 1..Len(bs) \/ k = Len(bs) + 1 \/ k = Len(bs) + 2
    BY ONLY <1>3, <1>6
  <2> QED  BY ONLY <1>5, <1>6, <2>1
<1>8. new = other
  BY ONLY <1>5, <1>6, <1>7, SeqEqual
<1> QED  BY <1>1, <1>2, <1>4, <1>8

LEMMA LoopBlocks ==
  ASSUME NEW n \in Nat, NEW bs, NEW open, Sound(bs, n, Count(bs), open),
         NEW new, new = bs \o << <<>>, <<>> >>
  PROVE  /\ Sound(new, n, Count(new), open) /\ Kept(bs, new)
         /\ Count(new) = Count(bs) + 2 /\ DOMAIN new = 1..(Count(bs) + 2)
<1> DEFINE m == Count(bs) + 2
           I == InstrsOver(n)
<1>1. /\ Count(bs) \in Nat /\ m \in Nat /\ Count(bs) <= m /\ Len(bs) = Count(bs)
      /\ bs \in Seq(Seq(I))
  BY DomainOfBlocks DEF Count, Sound
<1> HIDE DEF I
<1>2. PICK mid : mid = Append(bs, <<>>)
  OBVIOUS
<1>3. new = Append(mid, <<>>)
  BY ONLY <1>1, <1>2, TwoBlocks, new = bs \o << <<>>, <<>> >>
<1> HIDE DEF m
<1>4. Sound(bs, n, m, open)
  BY <1>1, WeakerSound
<1>5. Sound(mid, n, m, open) /\ Kept(bs, mid) /\ OneMore(bs, mid)
  BY ONLY <1>1, <1>2, <1>4, n \in Nat, AddSound
<1>6. Sound(new, n, m, open) /\ Kept(mid, new) /\ OneMore(mid, new)
  BY ONLY <1>1, <1>3, <1>5, n \in Nat, AddSound
<1>7. Count(new) = m /\ DOMAIN new = 1..m
  BY <1>1, <1>5, <1>6 DEF OneMore, m
<1> QED BY <1>5, <1>6, <1>7, KeptThrough DEF m

LEMMA WhileStep ==
  ASSUME GenInv, VisitWhile
  PROVE  GenInv'
<1> DEFINE f == Call("loop", pc, <<NewBlock, 1>>, ins)
<1>1. /\ phase = "generating" /\ pc \in 1..Len(body)
      /\ blocks' = blocks \o << <<>>, <<>> >> /\ ins' = NewBlock + 1
      /\ calls' = Append(calls, f) /\ pc' = pc + 1 /\ UNCHANGED <<body, phase>>
  BY DEF VisitWhile, WhileBody, At
<1>2. /\ Len(body) \in Nat /\ ins \in DOMAIN blocks /\ Count(blocks) \in Nat
      /\ NewBlock = Count(blocks) + 1 /\ DOMAIN blocks = 1..Count(blocks)
      /\ Sound(blocks, Len(body), Count(blocks), OpenOf(calls)) /\ CallsOK(calls, Len(body))
  BY DomainOfBlocks DEF GenInv, WalkOK, NewBlock, Count
<1>3. /\ Sound(blocks', Len(body), Count(blocks'), OpenOf(calls)) /\ Kept(blocks, blocks')
      /\ Count(blocks') = Count(blocks) + 2 /\ DOMAIN blocks' = 1..(Count(blocks) + 2)
  BY ONLY <1>1, <1>2, LoopBlocks
<1>4. /\ f \in CallsOver(Len(body)) /\ f.kind = "loop" /\ f.at = pc /\ f.from = ins
      /\ f.jump[1] = NewBlock
  <2>1. pc \in 0..Len(body) /\ ins \in Nat /\ NewBlock \in Nat /\ <<NewBlock, 1>> \in Nat \X Nat
    BY <1>1, <1>2
  <2> QED BY <2>1 DEF Call, CallsOver
<1> HIDE DEF f
<1>5. NewBlock \in DOMAIN blocks' /\ NewBlock + 1 \in DOMAIN blocks' /\ ins \in DOMAIN blocks'
  BY <1>2, <1>3
<1>6. Opened(f) = {} /\ f.kind # "body" /\ Remembers(blocks', f, Len(body))
  BY <1>1, <1>4, <1>5 DEF Opened, Setter, Remembers
<1>7. Sound(blocks', Len(body), Count(blocks'), OpenOf(calls) \cup Opened(f))
  <2>1. OpenOf(calls) \cup Opened(f) = OpenOf(calls)
    BY <1>6
  <2> QED BY <1>3, <2>1
<1> QED BY <1>1, <1>2, <1>3, <1>4, <1>5, <1>6, <1>7, PushStep

LEMMA EndLoopBlocks ==
  ASSUME NEW n \in Nat, NEW bs, NEW open, Sound(bs, n, Count(bs), open),
         NEW b \in DOMAIN bs, NEW c \in DOMAIN bs, NEW d \in DOMAIN bs,
         NEW i \in InstrsOver(n), i.op = "cond", i.yes \in DOMAIN bs, i.no = Count(bs) + 1,
         NEW new, new = Append(Append1(Append1(Append1(bs, b, Jump(d)), c, Jump(d)), d, i), <<>>)
  PROVE  Grown(bs, new, n, open)
<1> DEFINE m == Count(bs) + 1
<1>1. /\ Count(bs) \in Nat /\ m \in Nat /\ Count(bs) <= m /\ m \in 1..m
      /\ d \in 1..m /\ i.yes \in 1..m
  BY DomainOfBlocks
<1>2. PICK mid : mid = Append1(Append1(bs, b, Jump(d)), c, Jump(d))
  OBVIOUS
<1>3. PICK last : last = Append1(mid, d, i)
  OBVIOUS
<1>4. new = Append(last, <<>>)
  BY <1>2, <1>3
<1>5. \A place : CompleteBut(i, m, place, open)
  BY <1>1 DEF CompleteBut
<1> HIDE DEF m
<1>6. Sound(bs, n, m, open)
  BY <1>1, WeakerSound
<1>7. Jump(d) \in InstrsOver(n) /\ \A place : CompleteBut(Jump(d), m, place, open)
  BY <1>1, JumpIsTyped
<1>8. Sound(mid, n, m, open) /\ Kept(bs, mid) /\ SameSize(bs, mid)
  BY ONLY <1>1, <1>2, <1>6, <1>7, n \in Nat, b \in DOMAIN bs, c \in DOMAIN bs, EmitTwoSound
<1>9. Sound(last, n, m, open) /\ Kept(mid, last) /\ SameSize(mid, last)
  <2>1. d \in DOMAIN mid /\ CompleteBut(i, m, <<d, Count(mid[d]) + 1>>, open)
    BY <1>5, <1>8 DEF SameSize
  <2> QED BY ONLY <1>1, <1>3, <1>8, <2>1, n \in Nat, i \in InstrsOver(n), EmitSound
<1>10. Sound(new, n, m, open) /\ Kept(last, new) /\ OneMore(last, new)
  BY ONLY <1>1, <1>4, <1>9, n \in Nat, AddSound
<1>11. OneMore(bs, new) /\ Count(new) = m
  BY <1>8, <1>9, <1>10 DEF OneMore, SameSize, m
<1>12. Kept(bs, new)
  BY <1>8, <1>9, <1>10, KeptThrough
<1> QED BY <1>10, <1>11, <1>12 DEF Grown

LEMMA EndWhileStep ==
  ASSUME GenInv, EndWhile
  PROVE  GenInv'
<1> DEFINE cond == Top.jump[1]
           i == Instr("cond", Top.at, UsesOf(Top.at), cond + 1, NewBlock)
<1>1. /\ phase = "generating" /\ pc \in 1..Len(body) /\ Top.kind = "loop" /\ Top.kind # "body"
      /\ blocks' = Append(Append1(Append1(Append1(blocks, ins, Jump(cond)), Top.from, Jump(cond)), cond, i), <<>>)
      /\ ins' = NewBlock /\ calls' = Below /\ pc' = pc + 1 /\ UNCHANGED <<body, phase>>
  BY DEF EndWhile, Again, At
<1>2. /\ Len(body) \in Nat /\ ins \in DOMAIN blocks /\ Count(blocks) \in Nat
      /\ NewBlock = Count(blocks) + 1 /\ DOMAIN blocks = 1..Count(blocks)
      /\ Sound(blocks, Len(body), Count(blocks), OpenOf(calls))
      /\ OpenOf(calls) = OpenOf(Below) \cup Opened(Top)
      /\ Remembers(blocks, Top, Len(body))
  BY <1>1, TopCall
<1>3. /\ Top.from \in DOMAIN blocks /\ cond \in DOMAIN blocks /\ cond + 1 \in DOMAIN blocks
      /\ Top.at \in 1..Len(body) /\ Opened(Top) = {}
  BY <1>1, <1>2 DEF Remembers, Setter, Opened
<1>4. i \in InstrsOver(Len(body)) /\ i.op = "cond" /\ i.yes = cond + 1 /\ i.no = NewBlock
  <2>1. /\ UsesOf(Top.at) \in SUBSET (1..Len(body)) /\ Top.at \in 0..Len(body)
        /\ cond + 1 \in Nat /\ NewBlock \in Nat
    BY <1>2, <1>3, UsesAreStatements
  <2> HIDE DEF cond
  <2> QED BY <1>2, <2>1 DEF Instr, InstrsOver, Terminators
<1> HIDE DEF i, cond
<1>5. Grown(blocks, blocks', Len(body), OpenOf(calls))
  <2>1. i.yes \in DOMAIN blocks /\ i.no = Count(blocks) + 1
    BY <1>2, <1>3, <1>4
  <2>2. blocks' = Append(Append1(Append1(Append1(blocks, ins, Jump(cond)), Top.from, Jump(cond)), cond, i), <<>>)
    BY <1>1
  <2> QED BY ONLY <1>2, <1>3, <1>4, <2>1, <2>2, EndLoopBlocks
<1>6. OpenOf(calls) \subseteq OpenOf(Below)
  BY <1>2, <1>3
<1> QED BY ONLY GenInv, <1>1, <1>5, <1>6, EndOfList

LEMMA EndCompoundStep ==
  ASSUME GenInv, EndCompound
  PROVE  GenInv'
<1>1. /\ phase = "generating" /\ pc \in 1..Len(body) /\ Top.kind = "block" /\ Top.kind # "body"
      /\ calls' = Below /\ pc' = pc + 1 /\ UNCHANGED <<body, blocks, ins, phase>>
  BY DEF EndCompound, At
<1>2. /\ ins \in DOMAIN blocks /\ Sound(blocks, Len(body), Count(blocks), OpenOf(calls))
      /\ OpenOf(calls) = OpenOf(Below) \cup Opened(Top)
  BY <1>1, TopCall
<1>3. OpenOf(calls) = OpenOf(Below)
  BY <1>1, <1>2 DEF Opened, Setter
<1>4. Kept(blocks, blocks)
  BY DEF Kept
<1>5. /\ Sound(blocks', Len(body), Count(blocks'), OpenOf(Below)) /\ Kept(blocks, blocks')
      /\ ins' \in DOMAIN blocks'
  BY <1>1, <1>2, <1>3, <1>4
<1> QED BY <1>1, <1>5, PopStep

LEMMA ArgumentStep ==
  ASSUME GenInv, VisitArgument
  PROVE  GenInv'
<1>1. /\ phase = "generating" /\ pc \in 1..Len(body) /\ pc' = pc + 1
      /\ UNCHANGED <<body, calls, blocks, ins, phase>>
  BY DEF VisitArgument, At
<1>2. Sound(blocks', Len(body), Count(blocks'), OpenOf(calls)) /\ Kept(blocks, blocks')
  BY <1>1 DEF GenInv, Kept
<1> QED BY <1>1, <1>2, StayStep

(* The list of the body ends when no other call is active, so that no jump *)
(* is left open.                                                           *)
LEMMA EndFunctionStep ==
  ASSUME GenInv, EndFunction
  PROVE  GenInv'
<1>1. /\ phase' = "generated" /\ Top.kind = "body" /\ UNCHANGED <<body, pc, calls, blocks, ins>>
  BY DEF EndFunction
<1>2. CallsOK(calls, Len(body))
  BY DEF GenInv, WalkOK
<1>3. DOMAIN calls = {1}
  <2>1. /\ Len(calls) \in Nat \ {0} /\ DOMAIN calls = 1..Len(calls)
    BY <1>2 DEF CallsOK
  <2>2. Len(calls) = 1
    BY <1>1, <1>2, <2>1 DEF CallsOK, Top
  <2> QED BY <2>1, <2>2
<1>4. calls[1].kind = "body"
  BY <1>2, <1>3 DEF CallsOK
<1>5. OpenOf(calls) = {}
  BY <1>3, <1>4 DEF OpenOf, Setter
<1>6. WalkOK'
  BY <1>1 DEF GenInv, WalkOK
<1>7. Sound(blocks', Len(body'), Count(blocks'), OpenOf(calls'))
  BY <1>1 DEF GenInv
<1> QED BY <1>1, <1>5, <1>6, <1>7 DEF GenInv

(* The pass drops instructions and changes none. *)
LEMMA CutKeepsInstructions ==
  ASSUME NEW n, NEW b \in Seq(InstrsOver(n))
  PROVE  /\ CutAfterTerminator(b) \in Seq(InstrsOver(n))
         /\ DOMAIN CutAfterTerminator(b) \subseteq DOMAIN b
         /\ \A k \in DOMAIN CutAfterTerminator(b) : CutAfterTerminator(b)[k] = b[k]
<1> DEFINE ends == {k \in DOMAIN b : b[k].op \in Terminators}
           I == InstrsOver(n)
<1>1. CASE ends = {}
  BY <1>1 DEF CutAfterTerminator
<1>2. CASE ends # {}
  <2> HIDE DEF I
  <2>1. b \in Seq(I)
    BY DEF I
  <2>2. DOMAIN b = 1..Len(b) /\ Len(b) \in Nat
    BY ONLY <2>1
  <2>3. ends \in SUBSET Nat
    BY <2>2
  <2>4. Min(ends) \in ends
    <3> HIDE DEF ends
    <3> QED BY <1>2, <2>3, MinOfNaturals
  <2>5. CutAfterTerminator(b) = SubSeq(b, 1, Min(ends))
    BY <1>2 DEF CutAfterTerminator
  <2>6. Min(ends) \in 1..Len(b)
    BY <2>2, <2>4
  <2>7. PICK last : last = Min(ends)
    OBVIOUS
  <2>8. /\ SubSeq(b, 1, last) \in Seq(I) /\ DOMAIN SubSeq(b, 1, last) = 1..last
        /\ \A k \in 1..last : SubSeq(b, 1, last)[k] = b[k]
    <3>1. last \in 1..Len(b)
      BY ONLY <2>6, <2>7
    <3> QED BY ONLY <2>1, <2>2, <3>1
  <2>9. PICK c : c = SubSeq(b, 1, last)
    OBVIOUS
  <2>10. last \in 1..Len(b)
    BY ONLY <2>6, <2>7
  <2>11. /\ c \in Seq(I) /\ DOMAIN c \subseteq DOMAIN b /\ \A k \in DOMAIN c : c[k] = b[k]
    <3>1. c \in Seq(I) /\ DOMAIN c = 1..last /\ \A k \in 1..last : c[k] = b[k]
      BY ONLY <2>8, <2>9
    <3>2. 1..last \subseteq 1..Len(b)
      BY ONLY <2>2, <2>10
    <3> QED BY ONLY <2>2, <3>1, <3>2
  <2>12. CutAfterTerminator(b) = c
    BY ONLY <2>5, <2>7, <2>9
  <2> QED BY <2>11, <2>12 DEF I
<1> QED BY <1>1, <1>2

LEMMA RunPassStep ==
  ASSUME GenInv, RunPass
  PROVE  GenInv'
<1> DEFINE n == Len(body)
<1>1. /\ phase = "generated" /\ phase' = "passed" /\ UNCHANGED <<body, pc, calls, ins>>
      /\ blocks' = [b \in DOMAIN blocks |-> CutAfterTerminator(blocks[b])]
  BY DEF RunPass
<1>2. /\ OpenOf(calls) = {} /\ Sound(blocks, n, Count(blocks), OpenOf(calls))
      /\ Count(blocks) \in Nat /\ DOMAIN blocks = 1..Count(blocks)
      /\ \A b \in DOMAIN blocks : blocks[b] \in Seq(InstrsOver(n))
  BY <1>1, DomainOfBlocks DEF GenInv
<1> HIDE DEF n
<1>3. /\ DOMAIN blocks' = DOMAIN blocks
      /\ \A b \in DOMAIN blocks' : blocks'[b] = CutAfterTerminator(blocks[b])
  BY <1>1
<1>4. \A b \in DOMAIN blocks' :
        /\ blocks'[b] \in Seq(InstrsOver(n)) /\ DOMAIN blocks'[b] \subseteq DOMAIN blocks[b]
        /\ \A k \in DOMAIN blocks'[b] : blocks'[b][k] = blocks[b][k]
  BY ONLY <1>2, <1>3, CutKeepsInstructions
<1>5. blocks' \in Seq(Seq(InstrsOver(n))) /\ Count(blocks') = Count(blocks)
  <2> DEFINE S == Seq(InstrsOver(n))
  <2>1. \A b \in 1..Count(blocks) : CutAfterTerminator(blocks[b]) \in S
    BY <1>2, <1>3, <1>4
  <2> HIDE DEF S
  <2>2. blocks' = [b \in 1..Count(blocks) |-> CutAfterTerminator(blocks[b])]
    BY <1>1, <1>2
  <2>3. blocks' \in Seq(S) /\ Len(blocks') = Count(blocks)
    BY ONLY <1>2, <2>1, <2>2
  <2> QED BY <2>3 DEF S, Count
<1>6. \A b \in DOMAIN blocks' : \A k \in DOMAIN blocks'[b] :
        CompleteBut(blocks'[b][k], Count(blocks), <<b, k>>, OpenOf(calls))
  BY <1>2, <1>3, <1>4 DEF Sound
<1>7. Sound(blocks', n, Count(blocks'), OpenOf(calls))
  BY <1>5, <1>6 DEF Sound
<1>8. WalkOK'
  BY <1>1, <1>3 DEF GenInv, WalkOK
<1> QED BY <1>1, <1>2, <1>7, <1>8 DEF GenInv, n

LEMMA GenInit == Init => GenInv
<1> SUFFICES ASSUME Init PROVE GenInv
  OBVIOUS
<1>1. body \in Seq(StatementsOver(Names)) /\ Len(body) \in Nat
  BY BodiesAreStreams DEF Init
<1>2. /\ DOMAIN calls = {1} /\ calls[1] = Call("body", 0, <<0, 0>>, 0) /\ calls = <<calls[1]>>
  BY DEF Init
<1>3. calls[1] \in CallsOver(Len(body)) /\ calls[1].kind = "body"
  BY <1>1, <1>2 DEF Call, CallsOver
<1>4. CallsOK(calls, Len(body))
  <2> DEFINE C == CallsOver(Len(body))
  <2>1. calls[1] \in C
    BY <1>3
  <2> HIDE DEF C
  <2>2. calls \in Seq(C) \ {<<>>}
    <3>1. PICK f : f = calls[1]
      OBVIOUS
    <3>2. <<f>> \in Seq(C) \ {<<>>}
      BY ONLY <2>1, <3>1
    <3> QED BY ONLY <1>2, <3>1, <3>2
  <2>3. \A c \in DOMAIN calls : calls[c].kind = "body" <=> c = 1
    BY <1>2, <1>3
  <2> QED BY <2>2, <2>3 DEF CallsOK, C
<1>5. blocks \in Seq(Seq(InstrsOver(Len(body)))) /\ DOMAIN blocks = {1} /\ DOMAIN blocks[1] = {}
  BY DEF Init
<1>6. WalkOK
  BY <1>1, <1>4, <1>5 DEF Init, WalkOK
<1>7. Sound(blocks, Len(body), Count(blocks), OpenOf(calls))
  BY <1>5 DEF Sound
<1>8. \A c \in DOMAIN calls : Remembers(blocks, calls[c], Len(body))
  BY <1>2, <1>3 DEF Remembers, Setter
<1> QED BY <1>6, <1>7, <1>8 DEF GenInv, Init

LEMMA GenNext == GenInv /\ [Next]_vars => GenInv'
<1> SUFFICES ASSUME GenInv, [Next]_vars PROVE GenInv'
  OBVIOUS
<1>1. CASE VisitArgument
  BY <1>1, ArgumentStep
<1>2. CASE VisitVariableDecl
  BY <1>2, VariableDeclStep
<1>3. CASE VisitEffect
  BY <1>3, OneInstruction DEF VisitEffect, At
<1>4. CASE VisitReturn
  BY <1>4, OneInstruction DEF VisitReturn, At
<1>5. CASE VisitCompound
  <2> DEFINE f == Call("block", pc, <<0, 0>>, 0)
  <2>1. /\ phase = "generating" /\ pc \in 1..Len(body) /\ pc' = pc + 1 /\ calls' = Append(calls, f)
        /\ UNCHANGED <<body, blocks, ins, phase>>
    BY <1>5 DEF VisitCompound, At
  <2>2. /\ CallsOK(calls, Len(body)) /\ Len(body) \in Nat /\ ins' \in DOMAIN blocks'
        /\ Sound(blocks, Len(body), Count(blocks), OpenOf(calls))
    BY <2>1 DEF GenInv, WalkOK
  <2>3. f \in CallsOver(Len(body)) /\ f.kind = "block"
    <3>1. pc \in 0..Len(body) /\ <<0, 0>> \in Nat \X Nat /\ 0 \in Nat
      BY <2>1, <2>2
    <3> QED BY <3>1 DEF Call, CallsOver
  <2> HIDE DEF f
  <2>4. Opened(f) = {} /\ f.kind # "body" /\ Remembers(blocks', f, Len(body))
    BY <2>3 DEF Opened, Setter, Remembers
  <2>5. Sound(blocks', Len(body), Count(blocks'), OpenOf(calls) \cup Opened(f)) /\ Kept(blocks, blocks')
    <3>1. OpenOf(calls) \cup Opened(f) = OpenOf(calls) /\ Kept(blocks, blocks)
      BY <2>4 DEF Kept
    <3> QED BY <2>1, <2>2, <3>1
  <2> QED BY <2>1, <2>2, <2>3, <2>4, <2>5, PushStep
<1>6. CASE EndCompound
  BY <1>6, EndCompoundStep
<1>7. CASE VisitIf
  BY <1>7, IfStep
<1>8. CASE VisitElse
  BY <1>8, ElseStep
<1>9. CASE EndIf
  BY <1>9, EndIfStep
<1>10. CASE EndIfElse
  BY <1>10, EndIfElseStep
<1>11. CASE VisitWhile
  BY <1>11, WhileStep
<1>12. CASE EndWhile
  BY <1>12, EndWhileStep
<1>13. CASE EndFunction
  BY <1>13, EndFunctionStep
<1>14. CASE RunPass
  BY <1>14, RunPassStep
<1>15. CASE UNCHANGED vars
  <2>1. UNCHANGED <<body, pc, calls, blocks, ins, phase>>
    BY <1>15 DEF vars
  <2>2. WalkOK'
    BY <2>1 DEF GenInv, WalkOK
  <2> QED BY <2>1, <2>2 DEF GenInv
<1> QED
  BY <1>1, <1>2, <1>3, <1>4, <1>5, <1>6, <1>7, <1>8, <1>9, <1>10, <1>11, <1>12, <1>13, <1>14, <1>15
     DEF Next, VisitBody

LEMMA GenInvGivesIrInv == GenInv => IrInv
<1> SUFFICES ASSUME GenInv PROVE IrInv
  OBVIOUS
<1>1. /\ Count(blocks) \in Nat /\ DOMAIN blocks = 1..Count(blocks)
      /\ \A b \in DOMAIN blocks : blocks[b] \in Seq(InstrsOver(Len(body)))
      /\ Sound(blocks, Len(body), Count(blocks), OpenOf(calls))
  BY DomainOfBlocks DEF GenInv
<1>2. \A b \in DOMAIN blocks : \A k \in DOMAIN blocks[b] : blocks[b][k] \in InstrsOver(Len(body))
  <2> DEFINE I == InstrsOver(Len(body))
  <2>1. \A b \in DOMAIN blocks : blocks[b] \in Seq(I)
    BY <1>1
  <2> HIDE DEF I
  <2>2. \A b \in DOMAIN blocks : \A k \in DOMAIN blocks[b] : blocks[b][k] \in I
    BY ONLY <2>1
  <2> QED BY <2>2 DEF I
<1>3. TypeOK
  BY <1>2 DEF TypeOK, GenInv, WalkOK, InstrsOver
<1>4. JumpsAreComplete
  <2>1. SUFFICES ASSUME phase # "generating", NEW b \in DOMAIN blocks, NEW k \in DOMAIN blocks[b]
                 PROVE  Targets(blocks[b][k]) \subseteq DOMAIN blocks
    BY DEF JumpsAreComplete
  <2>2. CompleteBut(blocks[b][k], Count(blocks), <<b, k>>, OpenOf(calls)) /\ OpenOf(calls) = {}
    BY <1>1, <2>1 DEF Sound, GenInv
  <2> QED BY <1>1, <2>2 DEF CompleteBut, Targets
<1> QED BY <1>3, <1>4 DEF IrInv

(* visitIfStatement and visitWhileStatement leave no jump without its      *)
(* targets, however their lists are nested, and the builder never leaves   *)
(* the function.                                                           *)
THEOREM IrJumpsAreComplete == Spec => []IrInv
<1> QED BY GenInit, GenNext, GenInvGivesIrInv, PTL DEF Spec
----------------------------------------------------------------------------
(* The generated code and the source.  Every block begins at a position of *)
(* the source (lab); behind an instruction the code stands behind its      *)
(* statement, but for an allocation, which its own store follows.          *)
Lets == {"let"}

Stand(lab, code, b, k) ==
  IF k = 1 THEN lab[b]
  ELSE IF code[b][k - 1].op = "alloca" THEN code[b][k - 1].at ELSE code[b][k - 1].at + 1

(* Where the next instruction of a block would stand. *)
StandEnd(lab, code, b) == Stand(lab, code, b, Count(code[b]) + 1)

IsCheck(code, b) == 1 \in DOMAIN code[b] /\ code[b][1].op = "cond"

(* What is allocated when control has come to r. *)
Known(text, r) == Visible(text, Lets, r) \cup {p \in 1..Len(text) : text[p].op = "arg"}

(* An instruction that stands at r does what the source does next.  A jump *)
(* leads further on, or to the check of a loop.                            *)
InstrFits(lab, code, text, i, r) ==
  /\ i.op = "jump" => /\ i.uses = {} /\ i.yes \in DOMAIN code /\ LeadsTo(text, Lets, r, lab[i.yes])
                      /\ r < lab[i.yes] \/ IsCheck(code, i.yes)
  /\ i.op # "jump" => /\ i.at \in r..Len(text) /\ LeadsTo(text, Lets, r, i.at)
                      /\ i.uses \subseteq Known(text, i.at) \cup {p \in {i.at} : text[p].op = "let"}
  /\ i.op = "alloca" => text[i.at].op = "let" /\ i.at \notin i.uses
  /\ i.op = "do" => text[i.at].op \in {"assign", "use"} \/ (text[i.at].op = "let" /\ i.at \in i.uses)
  /\ i.op = "ret" => text[i.at].op = "return"
  /\ i.op = "cond" => /\ text[i.at].op \in {"if", "ifelse", "while"}
                      /\ i.at \notin i.uses
                      /\ i.yes \in DOMAIN code /\ lab[i.yes] = i.at + 1

(* The false target, once it is set. *)
NoFits(lab, code, text, i) ==
  i.op = "cond" /\ i.no # 0 => i.no \in DOMAIN code /\ lab[i.no] = ListEnd(text, i.at + 1) + 1

CodeFits(lab, code, text) ==
  /\ lab \in [DOMAIN code -> 1..(Len(text) + 1)] /\ 1 \in DOMAIN code /\ lab[1] = 1
  /\ \A b \in DOMAIN code : \A k \in DOMAIN code[b] :
       /\ Stand(lab, code, b, k) \in 1..(Len(text) + 1)
       /\ InstrFits(lab, code, text, code[b][k], Stand(lab, code, b, k))
       /\ NoFits(lab, code, text, code[b][k])

(* What has been generated stays, but for the targets set later. *)
Like(i, j) == j.op = i.op /\ j.at = i.at /\ j.uses = i.uses /\ j.yes = i.yes

Grows(code, new) ==
  /\ DOMAIN code \subseteq DOMAIN new
  /\ \A b \in DOMAIN code : /\ DOMAIN code[b] \subseteq DOMAIN new[b]
                            /\ \A k \in DOMAIN code[b] : Like(code[b][k], new[b][k])

Typed(code, n) == code \in Seq(Seq(InstrsOver(n)))

LEMMA TypedBlocks ==
  ASSUME NEW n, NEW code, Typed(code, n)
  PROVE  /\ Count(code) \in Nat /\ DOMAIN code = 1..Count(code)
         /\ \A b \in DOMAIN code : /\ Count(code[b]) \in Nat /\ DOMAIN code[b] = 1..Count(code[b])
                                   /\ \A k \in DOMAIN code[b] : code[b][k] \in InstrsOver(n)
<1> DEFINE I == InstrsOver(n)
<1>1. code \in Seq(Seq(I))
  BY DEF Typed
<1> HIDE DEF I
<1>2. \A b \in DOMAIN code : code[b] \in Seq(I)
  BY <1>1
<1>3. \A b \in DOMAIN code : Len(code[b]) \in Nat /\ DOMAIN code[b] = 1..Len(code[b]) /\ \A k \in DOMAIN code[b] : code[b][k] \in I
  BY ONLY <1>2
<1>4. Len(code) \in Nat /\ DOMAIN code = 1..Len(code)
  BY <1>1
<1> QED  BY <1>3, <1>4 DEF Count, I

LEMMA StandStays ==
  ASSUME NEW n, NEW code, Typed(code, n), NEW new, Grows(code, new), NEW lab, NEW newLab,
         \A c \in DOMAIN code : newLab[c] = lab[c],
         NEW b \in DOMAIN code, NEW k \in 1..(Count(code[b]) + 1)
  PROVE  Stand(newLab, new, b, k) = Stand(lab, code, b, k)
<1>1. Count(code[b]) \in Nat /\ DOMAIN code[b] = 1..Count(code[b])
  BY TypedBlocks
<1>2. CASE k = 1
  BY <1>2 DEF Stand
<1>3. CASE k # 1
  <2>1. k - 1 \in DOMAIN code[b]
    BY <1>1, <1>3
  <2>2. Like(code[b][k - 1], new[b][k - 1])
    BY <2>1 DEF Grows
  <2> QED  BY <1>3, <2>2 DEF Like, Stand
<1> QED  BY <1>2, <1>3

LEMMA InstrStillFits ==
  ASSUME NEW code, NEW new, Grows(code, new), NEW lab, NEW newLab, \A c \in DOMAIN code : newLab[c] = lab[c],
         NEW text, NEW i, NEW j, Like(i, j), NEW r, InstrFits(lab, code, text, i, r)
  PROVE  InstrFits(newLab, new, text, j, r)
<1>1. \A b \in DOMAIN code : b \in DOMAIN new /\ newLab[b] = lab[b] /\ (IsCheck(code, b) => IsCheck(new, b))
  BY DEF Grows, IsCheck, Like
<1> QED  BY <1>1 DEF InstrFits, Like

LEMMA NoStillFits ==
  ASSUME NEW code, NEW new, Grows(code, new), NEW lab, NEW newLab, \A c \in DOMAIN code : newLab[c] = lab[c],
         NEW text, NEW i, NEW j, Like(i, j), i.no = j.no, NoFits(lab, code, text, i)
  PROVE  NoFits(newLab, new, text, j)
  BY DEF NoFits, Grows, Like

(* A place of the new code is an old one, whose false target may be set, or *)
(* the one behind the end of an old block.                                 *)
OldPlace(newLab, code, new, text, c, k) ==
  /\ c \in DOMAIN code /\ k \in DOMAIN code[c]
  /\ new[c][k].no = code[c][k].no \/ NoFits(newLab, new, text, new[c][k])

NewPlace(lab, newLab, code, new, text, c, k) ==
  /\ c \in DOMAIN code /\ k = Count(code[c]) + 1
  /\ StandEnd(lab, code, c) \in 1..(Len(text) + 1)
  /\ InstrFits(newLab, new, text, new[c][k], StandEnd(lab, code, c))
  /\ NoFits(newLab, new, text, new[c][k])

LEMMA CodeGrows ==
  ASSUME NEW n, NEW text, Len(text) \in Nat, NEW code, Typed(code, n), NEW new, Grows(code, new),
         NEW lab, CodeFits(lab, code, text), NEW newLab \in [DOMAIN new -> 1..(Len(text) + 1)],
         \A c \in DOMAIN code : newLab[c] = lab[c],
         \A c \in DOMAIN new : \A k \in DOMAIN new[c] :
           OldPlace(newLab, code, new, text, c, k) \/ NewPlace(lab, newLab, code, new, text, c, k)
  PROVE  CodeFits(newLab, new, text)
<1>1. ASSUME NEW c \in DOMAIN new, NEW k \in DOMAIN new[c]
      PROVE  /\ Stand(newLab, new, c, k) \in 1..(Len(text) + 1)
             /\ InstrFits(newLab, new, text, new[c][k], Stand(newLab, new, c, k))
             /\ NoFits(newLab, new, text, new[c][k])
  <2>1. CASE OldPlace(newLab, code, new, text, c, k)
    <3>1. c \in DOMAIN code /\ k \in DOMAIN code[c] /\ (new[c][k].no = code[c][k].no \/ NoFits(newLab, new, text, new[c][k]))
      BY <2>1 DEF OldPlace
    <3>2. Like(code[c][k], new[c][k])
      BY <3>1 DEF Grows
    <3>3. Stand(newLab, new, c, k) = Stand(lab, code, c, k)
      <4>1. k \in 1..(Count(code[c]) + 1)
        BY <3>1, TypedBlocks
      <4> QED  BY <3>1, <4>1, StandStays
    <3>4. /\ Stand(lab, code, c, k) \in 1..(Len(text) + 1)
          /\ InstrFits(lab, code, text, code[c][k], Stand(lab, code, c, k))
          /\ NoFits(lab, code, text, code[c][k])
      BY <3>1 DEF CodeFits
    <3>5. InstrFits(newLab, new, text, new[c][k], Stand(lab, code, c, k))
      BY <3>2, <3>4, InstrStillFits
    <3>6. NoFits(newLab, new, text, new[c][k])
      <4>1. CASE new[c][k].no = code[c][k].no
        BY <3>2, <3>4, <4>1, NoStillFits
      <4> QED  BY <3>1, <4>1
    <3> QED  BY <3>3, <3>4, <3>5, <3>6
  <2>2. CASE NewPlace(lab, newLab, code, new, text, c, k)
    <3>1. c \in DOMAIN code /\ k = Count(code[c]) + 1
      BY <2>2 DEF NewPlace
    <3>2. k \in 1..(Count(code[c]) + 1)
      BY <3>1, TypedBlocks
    <3>3. Stand(newLab, new, c, k) = StandEnd(lab, code, c)
      BY <3>1, <3>2, StandStays DEF StandEnd
    <3> QED  BY <2>2, <3>3 DEF NewPlace
  <2> QED  BY <1>1, <2>1, <2>2
<1>2. 1 \in DOMAIN new /\ newLab[1] = 1
  BY DEF CodeFits, Grows
<1> QED  BY <1>1, <1>2 DEF CodeFits

(* An allocation is followed by the store of the same statement, and the   *)
(* store of a declaration is always behind its allocation.                 *)
PairsFit(code, text) ==
  \A b \in DOMAIN code : \A k \in DOMAIN code[b] :
    /\ code[b][k].op = "alloca" => /\ k + 1 \in DOMAIN code[b] /\ code[b][k + 1].op = "do"
                                   /\ code[b][k + 1].at = code[b][k].at
    /\ code[b][k].op # "alloca" /\ code[b][k].at \in code[b][k].uses =>
         k - 1 \in DOMAIN code[b] /\ code[b][k - 1].op = "alloca" /\ code[b][k - 1].at = code[b][k].at

LEMMA PairsGrow ==
  ASSUME NEW n, NEW text, NEW code, Typed(code, n), NEW new, Grows(code, new), PairsFit(code, text),
         \A c \in DOMAIN new : \A k \in DOMAIN new[c] :
           \/ c \in DOMAIN code /\ k \in DOMAIN code[c]
           \/ new[c][k].op # "alloca" /\ new[c][k].at \notin new[c][k].uses
  PROVE  PairsFit(new, text)
<1>1. ASSUME NEW c \in DOMAIN code, NEW k \in DOMAIN code[c]
      PROVE  /\ new[c][k].op = "alloca" => /\ k + 1 \in DOMAIN new[c] /\ new[c][k + 1].op = "do"
                                           /\ new[c][k + 1].at = new[c][k].at
             /\ new[c][k].op # "alloca" /\ new[c][k].at \in new[c][k].uses =>
                  k - 1 \in DOMAIN new[c] /\ new[c][k - 1].op = "alloca" /\ new[c][k - 1].at = new[c][k].at
  BY <1>1 DEF PairsFit, Grows, Like
<1> QED  BY <1>1 DEF PairsFit

----------------------------------------------------------------------------
(* What a step makes of the blocks: ext gives the instruction it appends to *)
(* a block, jump the place whose false target it sets; there are size       *)
(* blocks then, and those that are new are empty.                           *)
Shape(code, new, size, ext, jump) ==
  /\ Grows(code, new) /\ DOMAIN new = 1..size
  /\ \A c \in DOMAIN new \ DOMAIN code : DOMAIN new[c] = {}
  /\ DOMAIN ext \subseteq DOMAIN code
  /\ \A c \in DOMAIN code :
       IF c \in DOMAIN ext
       THEN DOMAIN new[c] = 1..(Count(code[c]) + 1) /\ new[c][Count(code[c]) + 1] = ext[c]
       ELSE DOMAIN new[c] = DOMAIN code[c]
  /\ \A c \in DOMAIN code : \A k \in DOMAIN code[c] : <<c, k>> # jump => new[c][k].no = code[c][k].no

Nothing == [c \in {} |-> c]
Nowhere == <<0, 0>>
With(ext, b, i) == [c \in DOMAIN ext \cup {b} |-> IF c = b THEN i ELSE ext[c]]

LEMMA ShapeBegins ==
  ASSUME NEW n, NEW code, Typed(code, n), NEW jump
  PROVE  Shape(code, code, Count(code), Nothing, jump)
  BY TypedBlocks DEF Shape, Grows, Like, Nothing

LEMMA ShapeEmit ==
  ASSUME NEW n, NEW code, Typed(code, n), NEW mid, Typed(mid, n), NEW size, NEW ext, NEW jump,
         Shape(code, mid, size, ext, jump),
         NEW b \in DOMAIN code, b \notin DOMAIN ext, NEW i \in InstrsOver(n), NEW new, new = Append1(mid, b, i)
  PROVE  Typed(new, n) /\ Shape(code, new, size, With(ext, b, i), jump)
<1> DEFINE I == InstrsOver(n)
<1>1. mid \in Seq(Seq(I)) /\ i \in I /\ b \in DOMAIN mid
  BY DEF Typed, Shape, Grows
<1> HIDE DEF I
<1>2. /\ new \in Seq(Seq(I)) /\ DOMAIN new = DOMAIN mid /\ \A c \in DOMAIN mid \ {b} : new[c] = mid[c]
      /\ new[b] = Append(mid[b], i)
  BY ONLY <1>1, new = Append1(mid, b, i) DEF Append1
<1>3. mid[b] \in Seq(I)
  BY <1>1
<1>4. /\ DOMAIN new[b] = 1..(Len(mid[b]) + 1) /\ Len(mid[b]) \in Nat /\ DOMAIN mid[b] = 1..Len(mid[b])
      /\ \A k \in 1..Len(mid[b]) : new[b][k] = mid[b][k]
      /\ new[b][Len(mid[b]) + 1] = i
  BY ONLY <1>1, <1>2, <1>3
<1>5. DOMAIN mid[b] = DOMAIN code[b] /\ DOMAIN code[b] = 1..Count(code[b]) /\ Count(code[b]) \in Nat
  BY TypedBlocks DEF Shape
<1>6. Len(mid[b]) = Count(code[b])
  <2>1. PICK x, y : x = Len(mid[b]) /\ y = Count(code[b])
    OBVIOUS
  <2>2. x \in Nat /\ y \in Nat /\ 1..x = 1..y
    BY <1>4, <1>5, <2>1
  <2>3. x = y
    BY ONLY <2>2, SMT
  <2> QED  BY <2>1, <2>3
<1>7. Typed(new, n)
  BY <1>2 DEF Typed, I
<1>8. Grows(code, new)
  <2>1. Grows(code, mid)
    BY DEF Shape
  <2>2. ASSUME NEW c \in DOMAIN code
        PROVE  DOMAIN code[c] \subseteq DOMAIN new[c] /\ \A k \in DOMAIN code[c] : Like(code[c][k], new[c][k])
    <3>1. CASE c = b
      <4>1. \A k \in DOMAIN code[b] : k \in DOMAIN new[b] /\ new[b][k] = mid[b][k] /\ Like(code[b][k], mid[b][k])
        BY <1>4, <1>5, <1>6, <2>1 DEF Grows
      <4> QED  BY <3>1, <4>1
    <3>2. CASE c # b
      <4>1. new[c] = mid[c]
        BY <1>2, <2>1, <3>2 DEF Grows
      <4> QED  BY <2>1, <4>1 DEF Grows
    <3> QED  BY <3>1, <3>2
  <2> QED  BY <1>2, <2>1, <2>2 DEF Grows
<1>9. PICK with : with = With(ext, b, i)
  OBVIOUS
<1>10. DOMAIN with = DOMAIN ext \cup {b} /\ with[b] = i /\ \A c \in DOMAIN ext : with[c] = ext[c]
  BY <1>9 DEF With
<1>11. ASSUME NEW c \in DOMAIN code
       PROVE  /\ IF c \in DOMAIN with
                 THEN DOMAIN new[c] = 1..(Count(code[c]) + 1) /\ new[c][Count(code[c]) + 1] = with[c]
                 ELSE DOMAIN new[c] = DOMAIN code[c]
              /\ \A k \in DOMAIN code[c] : <<c, k>> # jump => new[c][k].no = code[c][k].no
  <2>1. CASE c = b
    <3>1. \A k \in DOMAIN code[b] : new[b][k] = mid[b][k]
      BY <1>4, <1>5, <1>6
    <3>2. \A k \in DOMAIN code[b] : <<b, k>> # jump => mid[b][k].no = code[b][k].no
      BY DEF Shape
    <3> QED  BY <1>4, <1>6, <1>10, <2>1, <3>1, <3>2
  <2>2. CASE c # b
    <3>1. new[c] = mid[c]
      BY <1>2, <2>2 DEF Shape, Grows
    <3> QED  BY <1>10, <2>2, <3>1 DEF Shape
  <2> QED  BY <2>1, <2>2
<1>12. \A c \in DOMAIN new \ DOMAIN code : DOMAIN new[c] = {}
  BY <1>2 DEF Shape
<1>13. DOMAIN with \subseteq DOMAIN code /\ DOMAIN new = 1..size
  BY <1>2, <1>10 DEF Shape
<1>14. Shape(code, new, size, with, jump)
  BY <1>8, <1>11, <1>12, <1>13 DEF Shape
<1> QED  BY <1>7, <1>9, <1>14

LEMMA ShapeAdd ==
  ASSUME NEW n, NEW code, Typed(code, n), NEW mid, Typed(mid, n), NEW size \in Nat, Count(code) <= size, NEW ext, NEW jump,
         Shape(code, mid, size, ext, jump), NEW new, new = Append(mid, <<>>)
  PROVE  Typed(new, n) /\ Shape(code, new, size + 1, ext, jump)
<1> DEFINE I == InstrsOver(n)
<1>1. mid \in Seq(Seq(I)) /\ DOMAIN mid = 1..size
  BY DEF Typed, Shape
<1> HIDE DEF I
<1>2. Len(mid) = size
  <2>1. PICK x : x = Len(mid)
    OBVIOUS
  <2>2. x \in Nat /\ 1..x = 1..size
    BY <1>1, <2>1
  <2>3. x = size
    BY ONLY <2>2, size \in Nat, SMT
  <2> QED  BY <2>1, <2>3
<1>3. /\ new \in Seq(Seq(I)) /\ DOMAIN new = 1..(size + 1) /\ \A c \in 1..size : new[c] = mid[c]
      /\ new[size + 1] = <<>>
  BY ONLY <1>1, <1>2, new = Append(mid, <<>>), size \in Nat
<1>4. DOMAIN code \subseteq 1..size
  BY <1>1 DEF Shape, Grows
<1>5. \A c \in DOMAIN code : new[c] = mid[c] /\ c \in DOMAIN new
  BY <1>3, <1>4
<1>6. Grows(code, new)
  <2>1. Grows(code, mid)
    BY DEF Shape
  <2> QED  BY <1>5, <2>1 DEF Grows
<1>7. \A c \in DOMAIN new \ DOMAIN code : DOMAIN new[c] = {}
  <2>1. ASSUME NEW c \in DOMAIN new \ DOMAIN code  PROVE DOMAIN new[c] = {}
    <3>1. CASE c \in 1..size
      BY <1>1, <1>3, <2>1, <3>1 DEF Shape
    <3>2. CASE c = size + 1
      <4>1. new[c] = <<>>
        BY <1>3, <3>2
      <4> QED  BY <4>1
    <3> QED  BY <1>3, <2>1, <3>1, <3>2
  <2> QED  BY <2>1
<1>8. Shape(code, new, size + 1, ext, jump)
  BY <1>3, <1>5, <1>6, <1>7 DEF Shape
<1> QED  BY <1>3, <1>8 DEF Typed, I

LEMMA ShapeSet ==
  ASSUME NEW n, NEW code, Typed(code, n), NEW jump, IsCond(code, jump), NEW t \in Nat,
         NEW new, new = SetFalseTarget(code, jump, t)
  PROVE  /\ Typed(new, n) /\ Shape(code, new, Count(code), Nothing, jump)
         /\ new[jump[1]][jump[2]].no = t
<1> DEFINE I == InstrsOver(n)
           b == jump[1]
           k == jump[2]
           i == [code[b][k] EXCEPT !.no = t]
           patched == [code[b] EXCEPT ![k] = i]
<1>1. /\ code \in Seq(Seq(I)) /\ b \in DOMAIN code /\ k \in DOMAIN code[b] /\ jump = <<b, k>>
      /\ code[b] \in Seq(I) /\ code[b][k] \in I
  BY DEF Typed, IsCond
<1>2. /\ i \in I /\ i.op = code[b][k].op /\ i.yes = code[b][k].yes /\ i.no = t
  <2>1. code[b][k] \in InstrsOver(n) /\ t \in Nat
    BY <1>1
  <2> QED BY <2>1, WithTarget
<1>3. i.at = code[b][k].at /\ i.uses = code[b][k].uses
  BY <1>1 DEF I, InstrsOver
<1>4. new = [code EXCEPT ![b] = patched]
  BY DEF SetFalseTarget
<1> HIDE DEF i, I, b, k
<1>5. /\ patched \in Seq(I) /\ DOMAIN patched = DOMAIN code[b] /\ patched[k] = i
      /\ \A l \in DOMAIN code[b] \ {k} : patched[l] = code[b][l]
  BY <1>1, <1>2
<1> HIDE DEF patched
<1>6. /\ new \in Seq(Seq(I)) /\ DOMAIN new = DOMAIN code
      /\ \A c \in DOMAIN code \ {b} : new[c] = code[c]
      /\ new[b] = patched
  BY ONLY <1>1, <1>4, <1>5
<1>7. ASSUME NEW c \in DOMAIN code
      PROVE  /\ DOMAIN new[c] = DOMAIN code[c]
             /\ \A l \in DOMAIN code[c] : Like(code[c][l], new[c][l]) /\ (<<c, l>> # jump => new[c][l].no = code[c][l].no)
  <2>1. CASE c # b
    BY <1>6, <2>1 DEF Like
  <2>2. CASE c = b
    <3>1. DOMAIN new[c] = DOMAIN code[c]
      BY <1>5, <1>6, <2>2
    <3>2. ASSUME NEW l \in DOMAIN code[c]
          PROVE  Like(code[c][l], new[c][l]) /\ (<<c, l>> # jump => new[c][l].no = code[c][l].no)
      <4>1. CASE l = k
        BY <1>1, <1>2, <1>3, <1>5, <1>6, <2>2, <4>1 DEF Like
      <4>2. CASE l # k
        <5>1. new[c][l] = code[c][l]
          BY <1>5, <1>6, <2>2, <3>2, <4>2
        <5> QED  BY <5>1 DEF Like
      <4> QED  BY <4>1, <4>2
    <3> QED  BY <3>1, <3>2
  <2> QED  BY <2>1, <2>2
<1>8. Grows(code, new)
  BY <1>6, <1>7 DEF Grows
<1>9. DOMAIN Nothing = {} /\ DOMAIN new = 1..Count(code)
  BY <1>6, TypedBlocks DEF Nothing
<1>10. Shape(code, new, Count(code), Nothing, jump)
  BY <1>6, <1>7, <1>8, <1>9 DEF Shape
<1>11. new[b][k].no = t
  BY <1>2, <1>5, <1>6
<1> QED  BY <1>6, <1>10, <1>11 DEF Typed, I, b, k

SetFits(newLab, code, new, text, jump) ==
  \A c \in DOMAIN code : \A k \in DOMAIN code[c] : <<c, k>> = jump => NoFits(newLab, new, text, new[c][k])

ExtFits(lab, newLab, code, new, text, ext) ==
  \A c \in DOMAIN ext : /\ StandEnd(lab, code, c) \in 1..(Len(text) + 1)
                        /\ InstrFits(newLab, new, text, ext[c], StandEnd(lab, code, c))
                        /\ NoFits(newLab, new, text, ext[c])
                        /\ ext[c].op # "alloca" /\ ext[c].at \notin ext[c].uses

(* Such a step keeps the code fitting, if what it appends and sets does.    *)
LEMMA ShapeFits ==
  ASSUME NEW n, NEW text, Len(text) \in Nat, NEW code, Typed(code, n), NEW lab, CodeFits(lab, code, text), PairsFit(code, text),
         NEW new, Typed(new, n), NEW size, NEW ext, NEW jump, Shape(code, new, size, ext, jump),
         NEW newLab \in [DOMAIN new -> 1..(Len(text) + 1)], \A c \in DOMAIN code : newLab[c] = lab[c],
         SetFits(newLab, code, new, text, jump), ExtFits(lab, newLab, code, new, text, ext)
  PROVE  CodeFits(newLab, new, text) /\ PairsFit(new, text)
<1>1. ASSUME NEW c \in DOMAIN new, NEW k \in DOMAIN new[c], ~(c \in DOMAIN code /\ k \in DOMAIN code[c])
      PROVE  c \in DOMAIN ext /\ c \in DOMAIN code /\ k = Count(code[c]) + 1 /\ new[c][k] = ext[c]
  <2>1. c \in DOMAIN code
    BY <1>1 DEF Shape
  <2>2. c \in DOMAIN ext /\ DOMAIN new[c] = 1..(Count(code[c]) + 1) /\ new[c][Count(code[c]) + 1] = ext[c]
    BY <1>1, <2>1 DEF Shape
  <2>3. Count(code[c]) \in Nat /\ DOMAIN code[c] = 1..Count(code[c])
    BY <2>1, TypedBlocks
  <2>4. k = Count(code[c]) + 1
    BY <1>1, <2>1, <2>2, <2>3
  <2> QED  BY <2>1, <2>2, <2>4
<1>2. ASSUME NEW c \in DOMAIN new, NEW k \in DOMAIN new[c]
      PROVE  OldPlace(newLab, code, new, text, c, k) \/ NewPlace(lab, newLab, code, new, text, c, k)
  <2>1. CASE c \in DOMAIN code /\ k \in DOMAIN code[c]
    BY <2>1 DEF Shape, OldPlace, SetFits
  <2>2. CASE ~(c \in DOMAIN code /\ k \in DOMAIN code[c])
    BY <1>1, <1>2, <2>2 DEF NewPlace, ExtFits
  <2> QED  BY <2>1, <2>2
<1>3. Grows(code, new)
  BY DEF Shape
<1>4. CodeFits(newLab, new, text)
  BY <1>2, <1>3, CodeGrows
<1>5. PairsFit(new, text)
  BY <1>1, <1>3, PairsGrow DEF ExtFits
<1> QED  BY <1>4, <1>5

----------------------------------------------------------------------------
(* The blocks that a call will append a jump to when its list ends. *)
Pending(f) ==
  IF f.kind = "loop" THEN {f.from, f.jump[1]} ELSE IF f.kind = "else" THEN {f.from} ELSE {}

(* No two of them are the same, and the builder is in another one. *)
Apart(cs, b) ==
  /\ \A k \in DOMAIN cs : b \notin Pending(cs[k]) /\ (cs[k].kind = "loop" => cs[k].from # cs[k].jump[1])
  /\ \A j, k \in DOMAIN cs : j # k => Pending(cs[j]) \cap Pending(cs[k]) = {}

(* Every other block has its end. *)
Ended(code, b) == \E k \in DOMAIN code[b] : code[b][k].op \in Terminators

OthersEnd(code, cs, b) ==
  \A c \in DOMAIN code : Ended(code, c) \/ c = b \/ \E k \in DOMAIN cs : c \in Pending(cs[k])

(* What the call f, for a list of the statement o, finds at its end.       *)
WaitingAt(lab, code, text, o, f) ==
  /\ f.kind \in {"if", "then"} => IsCond(code, f.jump) /\ code[f.jump[1]][f.jump[2]].at = o
  /\ f.kind = "else" => /\ f.from \in DOMAIN code
                        /\ StandEnd(lab, code, f.from) \in 1..(Behind(text, o) - 1)
                        /\ LeadsTo(text, Lets, StandEnd(lab, code, f.from), Behind(text, o))
  /\ f.kind = "loop" => /\ f.from \in DOMAIN code /\ f.at = o
                        /\ StandEnd(lab, code, f.from) \in 1..o
                        /\ LeadsTo(text, Lets, StandEnd(lab, code, f.from), o)
                        /\ f.jump[1] \in DOMAIN code /\ f.jump[1] + 1 \in DOMAIN code
                        /\ DOMAIN code[f.jump[1]] = {}
                        /\ lab[f.jump[1]] = o /\ lab[f.jump[1] + 1] = o + 1

WaitingFits(lab, code, text, q, cs) ==
  /\ Len(cs) = Depth(text, q) + 1
  /\ \A k \in 1..Depth(text, q) :
       /\ cs[k + 1].kind = KindOf(text, Enclosing(text, q, k), q)
       /\ WaitingAt(lab, code, text, Enclosing(text, q, k), cs[k + 1])

BuilderFits(lab, code, text, q, b) ==
  /\ StandEnd(lab, code, b) \in 1..q
  /\ LeadsTo(text, Lets, StandEnd(lab, code, b), q)

LEMMA EndStays ==
  ASSUME NEW n, NEW code, Typed(code, n), NEW new, Typed(new, n), Grows(code, new), NEW lab, NEW newLab,
         \A c \in DOMAIN code : newLab[c] = lab[c],
         NEW b \in DOMAIN code, DOMAIN new[b] = DOMAIN code[b]
  PROVE  StandEnd(newLab, new, b) = StandEnd(lab, code, b)
<1>1. PICK x, y : x = Count(code[b]) /\ y = Count(new[b])
  OBVIOUS
<1>2. x \in Nat /\ y \in Nat /\ 1..x = 1..y
  BY <1>1, TypedBlocks DEF Grows
<1>3. x = y
  BY ONLY <1>2, SMT
<1>4. x + 1 \in 1..(Count(code[b]) + 1)
  BY <1>1, <1>2
<1>5. Stand(newLab, new, b, x + 1) = Stand(lab, code, b, x + 1)
  BY <1>4, StandStays
<1> QED  BY <1>1, <1>3, <1>5 DEF StandEnd

LEMMA WaitingStays ==
  ASSUME NEW n, NEW code, Typed(code, n), NEW new, Typed(new, n), Grows(code, new), NEW lab, NEW newLab,
         \A c \in DOMAIN code : newLab[c] = lab[c],
         NEW text, NEW o, NEW f, WaitingAt(lab, code, text, o, f),
         \A c \in Pending(f) \cap DOMAIN code : DOMAIN new[c] = DOMAIN code[c]
  PROVE  WaitingAt(newLab, new, text, o, f)
<1>1. CASE f.kind \in {"if", "then"}
  <2>1. IsCond(code, f.jump) /\ code[f.jump[1]][f.jump[2]].at = o
    BY <1>1 DEF WaitingAt
  <2>2. /\ f.jump[1] \in DOMAIN new /\ f.jump[2] \in DOMAIN new[f.jump[1]]
        /\ Like(code[f.jump[1]][f.jump[2]], new[f.jump[1]][f.jump[2]])
    BY <2>1 DEF IsCond, Grows
  <2> QED  BY <1>1, <2>1, <2>2 DEF WaitingAt, IsCond, Like
<1>2. CASE f.kind = "else"
  <2>1. f.from \in DOMAIN code /\ f.from \in DOMAIN new
    BY <1>2 DEF WaitingAt, Grows
  <2>2. DOMAIN new[f.from] = DOMAIN code[f.from]
    BY <1>2, <2>1 DEF Pending
  <2>3. StandEnd(newLab, new, f.from) = StandEnd(lab, code, f.from)
    BY <2>1, <2>2, EndStays
  <2> QED  BY <1>2, <2>1, <2>3 DEF WaitingAt
<1>3. CASE f.kind = "loop"
  <2>1. PICK x, y : x = f.from /\ y = f.jump[1]
    OBVIOUS
  <2>2. x \in DOMAIN code /\ y \in DOMAIN code /\ y + 1 \in DOMAIN code /\ DOMAIN code[y] = {}
        /\ x \in DOMAIN new /\ y \in DOMAIN new /\ y + 1 \in DOMAIN new
    BY <1>3, <2>1 DEF WaitingAt, Grows
  <2>3. DOMAIN new[x] = DOMAIN code[x] /\ DOMAIN new[y] = {}
    BY <1>3, <2>1, <2>2 DEF Pending
  <2>4. StandEnd(newLab, new, x) = StandEnd(lab, code, x)
    BY <2>2, <2>3, EndStays
  <2> QED  BY <1>3, <2>1, <2>2, <2>3, <2>4 DEF WaitingAt
<1>4. CASE f.kind \notin {"if", "then", "else", "loop"}
  BY <1>4 DEF WaitingAt
<1> QED  BY <1>1, <1>2, <1>3, <1>4

(* One step of the walk. *)
LEMMA WalkGoesOn ==
  ASSUME NEW text, Stream(text), Balanced(text), NEW q \in 1..Len(text),
         NEW n, NEW code, Typed(code, n), NEW new, Typed(new, n), Grows(code, new), NEW lab, NEW newLab,
         \A c \in DOMAIN code : newLab[c] = lab[c],
         NEW cs, WaitingFits(lab, code, text, q, cs), NEW ds, Len(ds) = Depth(text, q + 1) + 1,
         \A k \in 1..Depth(text, q + 1) :
           \/ /\ k \in 1..Depth(text, q) /\ StaysIn(text, q, q + 1, k) /\ ds[k + 1] = cs[k + 1]
              /\ \A c \in Pending(cs[k + 1]) \cap DOMAIN code : DOMAIN new[c] = DOMAIN code[c]
           \/ /\ ds[k + 1].kind = KindOf(text, Enclosing(text, q + 1, k), q + 1)
              /\ WaitingAt(newLab, new, text, Enclosing(text, q + 1, k), ds[k + 1])
  PROVE  WaitingFits(newLab, new, text, q + 1, ds)
<1>1. ASSUME NEW k \in 1..Depth(text, q + 1), k \in 1..Depth(text, q), StaysIn(text, q, q + 1, k), ds[k + 1] = cs[k + 1],
             \A c \in Pending(cs[k + 1]) \cap DOMAIN code : DOMAIN new[c] = DOMAIN code[c]
      PROVE  /\ ds[k + 1].kind = KindOf(text, Enclosing(text, q + 1, k), q + 1)
             /\ WaitingAt(newLab, new, text, Enclosing(text, q + 1, k), ds[k + 1])
  <2>1. PICK o : o = Enclosing(text, q, k)
    OBVIOUS
  <2>2. Enclosing(text, q + 1, k) = o /\ KindOf(text, o, q + 1) = KindOf(text, o, q)
    BY <1>1, <2>1, KindStays
  <2>3. cs[k + 1].kind = KindOf(text, o, q) /\ WaitingAt(lab, code, text, o, cs[k + 1])
    BY <1>1, <2>1 DEF WaitingFits
  <2>4. WaitingAt(newLab, new, text, o, cs[k + 1])
    BY <1>1, <2>3, WaitingStays
  <2> QED  BY <1>1, <2>2, <2>3, <2>4
<1> QED  BY <1>1 DEF WaitingFits

LEMMA EndedStays ==
  ASSUME NEW code, NEW new, Grows(code, new), NEW c \in DOMAIN code, Ended(code, c)
  PROVE  Ended(new, c)
  BY DEF Grows, Like, Ended

LEMMA EndedNow ==
  ASSUME NEW n, NEW code, Typed(code, n), NEW new, NEW size, NEW ext, NEW jump, Shape(code, new, size, ext, jump),
         NEW c \in DOMAIN ext, ext[c].op \in Terminators
  PROVE  Ended(new, c)
<1>1. c \in DOMAIN code
  BY DEF Shape
<1>2. Count(code[c]) \in Nat
  BY <1>1, TypedBlocks
<1>3. Count(code[c]) + 1 \in DOMAIN new[c] /\ new[c][Count(code[c]) + 1] = ext[c]
  BY <1>1, <1>2 DEF Shape
<1> QED  BY <1>3 DEF Ended

----------------------------------------------------------------------------
(* The blocks fit the source, and so does what the walk has in hand. *)
Fits(lab) ==
  /\ CodeFits(lab, blocks, body) /\ PairsFit(blocks, body)
  /\ IF phase = "generating"
     THEN /\ BuilderFits(lab, blocks, body, pc, ins) /\ WaitingFits(lab, blocks, body, pc, calls)
          /\ Apart(calls, ins) /\ OthersEnd(blocks, calls, ins)
     ELSE \A b \in DOMAIN blocks :
            Ended(blocks, b) \/ BuilderFits(lab, blocks, body, Len(body) + 1, b)

FitInv == GenInv /\ Balanced(body) /\ \E lab : Fits(lab)

Walking(lab) ==
  GenInv /\ Balanced(body) /\ Fits(lab) /\ phase = "generating" /\ pc \in 1..Len(body)

LEMMA BodyIsStream ==
  ASSUME GenInv
  PROVE  Len(body) \in Nat /\ Stream(body)
<1>1. PICK S : S = StatementsOver(Names)
  OBVIOUS
<1>2. body \in Seq(S)
  BY <1>1 DEF GenInv, WalkOK
<1>3. Len(body) \in Nat /\ DOMAIN body = 1..Len(body) /\ \A p \in DOMAIN body : body[p] \in S
  BY <1>2
<1> QED  BY <1>1, <1>3 DEF Stream, StatementsOver

LEMMA WalkingFacts ==
  ASSUME NEW lab, Walking(lab)
  PROVE  /\ Len(body) \in Nat /\ Stream(body) /\ Balanced(body)
         /\ Typed(blocks, Len(body)) /\ ins \in DOMAIN blocks /\ Count(blocks) \in Nat /\ DOMAIN blocks = 1..Count(blocks)
         /\ CodeFits(lab, blocks, body) /\ PairsFit(blocks, body) /\ BuilderFits(lab, blocks, body, pc, ins)
         /\ WaitingFits(lab, blocks, body, pc, calls) /\ Apart(calls, ins) /\ OthersEnd(blocks, calls, ins)
         /\ calls \in Seq(CallsOver(Len(body))) \ {<<>>}
         /\ \A k \in DOMAIN calls : Pending(calls[k]) \subseteq DOMAIN blocks
<1>1. Len(body) \in Nat /\ Stream(body)
  BY BodyIsStream DEF Walking
<1>2. Typed(blocks, Len(body))
  BY DEF Walking, GenInv, Sound, Typed
<1>3. ins \in DOMAIN blocks /\ calls \in Seq(CallsOver(Len(body))) \ {<<>>}
  BY DEF Walking, GenInv, WalkOK, CallsOK
<1>4. \A k \in DOMAIN calls : Pending(calls[k]) \subseteq DOMAIN blocks
  BY DEF Walking, GenInv, Remembers, Pending
<1>5. Count(blocks) \in Nat /\ DOMAIN blocks = 1..Count(blocks)
  BY <1>2, TypedBlocks
<1> QED  BY <1>1, <1>2, <1>3, <1>4, <1>5 DEF Walking, Fits

LEMMA StepFits ==
  ASSUME NEW lab, Walking(lab), body' = body, phase' = phase, pc' = pc + 1, NEW newLab,
         CodeFits(newLab, blocks', body), PairsFit(blocks', body), BuilderFits(newLab, blocks', body, pc + 1, ins'),
         WaitingFits(newLab, blocks', body, pc + 1, calls'), Apart(calls', ins'), OthersEnd(blocks', calls', ins')
  PROVE  Fits(newLab)'
<1>1. phase' = "generating"
  BY DEF Walking
<1> QED  BY <1>1 DEF Fits

(* A statement that opens and ends no list. *)
LEMMA StayFits ==
  ASSUME NEW lab, Walking(lab), body' = body, phase' = phase, pc' = pc + 1, calls' = calls, ins' = ins,
         body[pc].op \notin Openers \cup Marks,
         Typed(blocks', Len(body)), Grows(blocks, blocks'), DOMAIN blocks' = DOMAIN blocks,
         \A c \in DOMAIN blocks \ {ins} : DOMAIN blocks'[c] = DOMAIN blocks[c],
         CodeFits(lab, blocks', body), PairsFit(blocks', body), BuilderFits(lab, blocks', body, pc + 1, ins)
  PROVE  Fits(lab)'
<1>1. PICK new : new = blocks'
  OBVIOUS
<1>2. /\ Typed(new, Len(body)) /\ Grows(blocks, new) /\ DOMAIN new = DOMAIN blocks
      /\ \A c \in DOMAIN blocks \ {ins} : DOMAIN new[c] = DOMAIN blocks[c]
  BY <1>1
<1>3. /\ Len(body) \in Nat /\ Stream(body) /\ Balanced(body) /\ Typed(blocks, Len(body))
      /\ WaitingFits(lab, blocks, body, pc, calls) /\ Apart(calls, ins) /\ OthersEnd(blocks, calls, ins)
      /\ calls \in Seq(CallsOver(Len(body))) \ {<<>>} /\ pc \in 1..Len(body)
  BY WalkingFacts DEF Walking
<1>4. Depth(body, pc) \in Nat /\ Depth(body, pc + 1) = Depth(body, pc) /\ \A k \in 0..Depth(body, pc) : StaysIn(body, pc, pc + 1, k)
  BY <1>3, StayingInLists
<1>5. Len(calls) = Depth(body, pc) + 1
  BY <1>3 DEF WaitingFits
<1>6. ASSUME NEW k \in 1..Depth(body, pc + 1)
      PROVE  /\ k \in 1..Depth(body, pc) /\ StaysIn(body, pc, pc + 1, k) /\ calls[k + 1] = calls[k + 1]
             /\ \A c \in Pending(calls[k + 1]) \cap DOMAIN blocks : DOMAIN new[c] = DOMAIN blocks[c]
  <2>1. k \in 0..Depth(body, pc) /\ k \in 1..Depth(body, pc) /\ k + 1 \in 1..Len(calls)
    BY <1>4, <1>5, <1>6
  <2>2. k + 1 \in DOMAIN calls
    BY <1>3, <2>1
  <2>3. ins \notin Pending(calls[k + 1])
    BY <1>3, <2>2 DEF Apart
  <2> QED  BY <1>2, <1>4, <2>1, <2>3
<1>7. WaitingFits(lab, new, body, pc + 1, calls)
  <2>1. Len(calls) = Depth(body, pc + 1) + 1
    BY <1>4, <1>5
  <2>2. \A c \in DOMAIN blocks : lab[c] = lab[c]
    OBVIOUS
  <2> QED  BY ONLY <1>2, <1>3, <1>6, <2>1, <2>2, WalkGoesOn
<1>8. OthersEnd(new, calls, ins)
  BY <1>2, <1>3, EndedStays DEF OthersEnd
<1>9. WaitingFits(lab, blocks', body, pc + 1, calls') /\ Apart(calls', ins') /\ OthersEnd(blocks', calls', ins')
  BY <1>1, <1>3, <1>7, <1>8
<1> QED  BY <1>9, StepFits

LEMMA ArgumentFits ==
  ASSUME NEW lab, Walking(lab), VisitArgument
  PROVE  Fits(lab)'
<1>1. /\ body[pc].op = "arg" /\ pc' = pc + 1 /\ body' = body /\ phase' = phase /\ calls' = calls
      /\ blocks' = blocks /\ ins' = ins
  BY DEF VisitArgument, At
<1>2. /\ Len(body) \in Nat /\ Stream(body) /\ Balanced(body) /\ Typed(blocks, Len(body))
      /\ CodeFits(lab, blocks, body) /\ PairsFit(blocks, body) /\ BuilderFits(lab, blocks, body, pc, ins)
      /\ pc \in 1..Len(body)
  BY WalkingFacts DEF Walking
<1>3. LeadsTo(body, Lets, pc, pc + 1)
  BY <1>1, <1>2, LeadsSteps DEF Lets
<1>4. BuilderFits(lab, blocks, body, pc + 1, ins)
  <2>1. StandEnd(lab, blocks, ins) \in 1..(pc + 1)
    BY <1>2 DEF BuilderFits
  <2>2. LeadsTo(body, Lets, StandEnd(lab, blocks, ins), pc + 1)
    BY <1>2, <1>3, LeadsFurther DEF BuilderFits
  <2> QED  BY <2>1, <2>2 DEF BuilderFits
<1>5. Grows(blocks, blocks)
  BY DEF Grows, Like
<1>6. body[pc].op \notin Openers \cup Marks
  BY <1>1 DEF Openers, Marks
<1> QED  BY <1>1, <1>2, <1>4, <1>5, <1>6, StayFits

(* What a statement uses is allocated when control has come to it. *)
LEMMA UsesAreKnown ==
  ASSUME Len(body) \in Nat, NEW p \in 1..Len(body)
  PROVE  UsesOf(p) \in SUBSET (1..Len(body)) /\ UsesOf(p) \subseteq Known(body, p) /\ p \notin UsesOf(p)
<1>1. ASSUME NEW d \in UsesOf(p)
      PROVE  d \in Known(body, p) /\ d # p
  <2>1. PICK x : d = DeclOf(body, p, x, Globals) /\ d > 0
    BY DEF UsesOf
  <2>2. p \in Nat \ {0}
    OBVIOUS
  <2>3. d \in InScope(body, p, x) \/ d = Global \/ d = Undeclared
    BY <2>1, <2>2, DeclOfIsVisible
  <2>4. d \in InScope(body, p, x)
    BY <2>1, <2>3 DEF Global, Undeclared
  <2>5. d \in 1..(p - 1) /\ body[d].op \in {"arg", "let"} /\ ListEnd(body, d) >= p
    BY <2>4 DEF InScope, DeclaresName
  <2>6. d \in 1..Len(body) /\ d # p
    BY <2>5
  <2> QED  BY <2>5, <2>6 DEF Known, Visible, Lets
<1>2. UsesOf(p) \in SUBSET (1..Len(body))
  BY UsesAreStatements
<1> QED  BY <1>1, <1>2

----------------------------------------------------------------------------
LEMMA EmitFits ==
  ASSUME NEW n, NEW text, Len(text) \in Nat, NEW code, Typed(code, n), NEW lab, CodeFits(lab, code, text),
         NEW b \in DOMAIN code, NEW i \in InstrsOver(n), NEW new, new = Append1(code, b, i),
         StandEnd(lab, code, b) \in 1..(Len(text) + 1), InstrFits(lab, code, text, i, StandEnd(lab, code, b)),
         NoFits(lab, code, text, i)
  PROVE  /\ Typed(new, n) /\ Grows(code, new) /\ DOMAIN new = DOMAIN code
         /\ \A c \in DOMAIN code \ {b} : DOMAIN new[c] = DOMAIN code[c]
         /\ DOMAIN new[b] = 1..(Count(code[b]) + 1) /\ new[b][Count(code[b]) + 1] = i
         /\ CodeFits(lab, new, text)
         /\ StandEnd(lab, new, b) = IF i.op = "alloca" THEN i.at ELSE i.at + 1
<1>1. PICK ext : ext = With(Nothing, b, i)
  OBVIOUS
<1>2. DOMAIN ext = {b} /\ ext[b] = i /\ DOMAIN Nothing = {}
  BY <1>1 DEF With, Nothing
<1>3. Count(code) \in Nat /\ DOMAIN code = 1..Count(code) /\ Count(code[b]) \in Nat /\ DOMAIN code[b] = 1..Count(code[b])
  BY TypedBlocks
<1>4. Shape(code, code, Count(code), Nothing, Nowhere)
  BY ShapeBegins
<1>5. Typed(new, n) /\ Shape(code, new, Count(code), ext, Nowhere)
  <2>1. b \notin DOMAIN Nothing
    BY <1>2
  <2> QED  BY <1>1, <1>4, <2>1, ShapeEmit
<1>6. /\ Grows(code, new) /\ DOMAIN new = DOMAIN code
      /\ \A c \in DOMAIN code \ {b} : DOMAIN new[c] = DOMAIN code[c]
      /\ DOMAIN new[b] = 1..(Count(code[b]) + 1) /\ new[b][Count(code[b]) + 1] = i
  BY <1>2, <1>3, <1>5 DEF Shape
<1>7. InstrFits(lab, new, text, i, StandEnd(lab, code, b)) /\ NoFits(lab, new, text, i)
  <2>1. Like(i, i) /\ \A c \in DOMAIN code : lab[c] = lab[c]
    BY DEF Like
  <2> QED  BY <1>6, <2>1, InstrStillFits, NoStillFits
<1>8. CodeFits(lab, new, text)
  <2>1. lab \in [DOMAIN new -> 1..(Len(text) + 1)]
    BY <1>6 DEF CodeFits
  <2>2. ASSUME NEW c \in DOMAIN new, NEW k \in DOMAIN new[c]
        PROVE  OldPlace(lab, code, new, text, c, k) \/ NewPlace(lab, lab, code, new, text, c, k)
    <3>1. CASE c \in DOMAIN code /\ k \in DOMAIN code[c]
      <4>1. <<c, k>> # Nowhere
        BY <1>3, <3>1 DEF Nowhere
      <4> QED  BY <1>5, <3>1, <4>1 DEF Shape, OldPlace
    <3>2. CASE ~(c \in DOMAIN code /\ k \in DOMAIN code[c])
      <4>1. c = b /\ k = Count(code[b]) + 1
        BY <1>3, <1>6, <2>2, <3>2
      <4> QED  BY <1>6, <1>7, <4>1 DEF NewPlace
    <3> QED  BY <3>1, <3>2
  <2>3. \A c \in DOMAIN code : lab[c] = lab[c]
    OBVIOUS
  <2> QED  BY <1>6, <2>1, <2>2, <2>3, CodeGrows
<1>9. StandEnd(lab, new, b) = IF i.op = "alloca" THEN i.at ELSE i.at + 1
  <2>1. PICK x, y : x = Count(code[b]) /\ y = Count(new[b])
    OBVIOUS
  <2>2. x \in Nat /\ y \in Nat /\ 1..y = 1..(x + 1)
    BY <1>3, <1>5, <1>6, <2>1, TypedBlocks
  <2>3. y = x + 1 /\ y + 1 # 1 /\ (y + 1) - 1 = x + 1
    BY ONLY <2>2, SMT
  <2> QED  BY <1>6, <2>1, <2>3 DEF StandEnd, Stand
<1> QED  BY <1>5, <1>6, <1>8, <1>9

(* A statement that generates one instruction. *)
LEMMA InstructionFits ==
  ASSUME NEW lab, Walking(lab), NEW op \in {"do", "ret"}, body' = body, phase' = phase, pc' = pc + 1, calls' = calls, ins' = ins,
         blocks' = Append1(blocks, ins, Instr(op, pc, Uses, 0, 0)), body[pc].op \notin Openers \cup Marks,
         op = "do" => body[pc].op \in {"assign", "use"}, op = "ret" => body[pc].op = "return"
  PROVE  Fits(lab)'
<1>1. /\ Len(body) \in Nat /\ Stream(body) /\ Balanced(body) /\ Typed(blocks, Len(body)) /\ ins \in DOMAIN blocks
      /\ CodeFits(lab, blocks, body) /\ PairsFit(blocks, body) /\ BuilderFits(lab, blocks, body, pc, ins)
      /\ pc \in 1..Len(body)
  BY WalkingFacts DEF Walking
<1>2. PICK i : i = Instr(op, pc, Uses, 0, 0)
  OBVIOUS
<1>3. PICK new : new = blocks'
  OBVIOUS
<1>4. Uses \in SUBSET (1..Len(body)) /\ Uses \subseteq Known(body, pc) /\ pc \notin Uses
  BY <1>1, UsesAreKnown DEF Uses
<1>5. i \in InstrsOver(Len(body)) /\ i.op = op /\ i.at = pc /\ i.uses = Uses /\ i.no = 0
  <2>1. pc \in 0..Len(body) /\ op \in Terminators \cup {"alloca", "do"} /\ 0 \in Nat
    BY <1>1 DEF Terminators
  <2> QED  BY <1>1, <1>2, <1>4, <2>1 DEF Instr, InstrsOver
<1>6. InstrFits(lab, blocks, body, i, StandEnd(lab, blocks, ins)) /\ NoFits(lab, blocks, body, i)
  <2>1. pc \in StandEnd(lab, blocks, ins)..Len(body) /\ LeadsTo(body, Lets, StandEnd(lab, blocks, ins), pc)
    BY <1>1 DEF BuilderFits
  <2>2. i.uses \subseteq Known(body, i.at)
    BY <1>4, <1>5
  <2> QED  BY <1>5, <2>1, <2>2 DEF InstrFits, NoFits
<1>7. /\ Typed(new, Len(body)) /\ Grows(blocks, new) /\ DOMAIN new = DOMAIN blocks
      /\ \A c \in DOMAIN blocks \ {ins} : DOMAIN new[c] = DOMAIN blocks[c]
      /\ DOMAIN new[ins] = 1..(Count(blocks[ins]) + 1) /\ new[ins][Count(blocks[ins]) + 1] = i
      /\ CodeFits(lab, new, body)
      /\ StandEnd(lab, new, ins) = IF i.op = "alloca" THEN i.at ELSE i.at + 1
  <2>1. StandEnd(lab, blocks, ins) \in 1..(Len(body) + 1)
    BY <1>1 DEF BuilderFits
  <2>2. new = Append1(blocks, ins, i)
    BY <1>2, <1>3
  <2> QED  BY ONLY <1>1, <1>5, <1>6, <2>1, <2>2, EmitFits
<1>8. PairsFit(new, body)
  <2>1. ASSUME NEW c \in DOMAIN new, NEW k \in DOMAIN new[c], ~(c \in DOMAIN blocks /\ k \in DOMAIN blocks[c])
        PROVE  new[c][k].op # "alloca" /\ new[c][k].at \notin new[c][k].uses
    <3>1. c = ins /\ k \in 1..(Count(blocks[ins]) + 1)
      BY <1>7, <2>1
    <3>2. DOMAIN blocks[ins] = 1..Count(blocks[ins]) /\ Count(blocks[ins]) \in Nat
      BY <1>1, TypedBlocks
    <3>3. k = Count(blocks[ins]) + 1
      BY <2>1, <1>1, <3>1, <3>2
    <3> QED  BY <1>4, <1>5, <1>7, <3>1, <3>3
  <2> QED  BY <1>1, <1>7, <2>1, PairsGrow
<1>9. BuilderFits(lab, new, body, pc + 1, ins)
  BY <1>1, <1>5, <1>7 DEF BuilderFits, LeadsTo
<1> QED  BY <1>3, <1>7, <1>8, <1>9, StayFits

LEMMA DeclFits ==
  ASSUME NEW lab, Walking(lab), VisitVariableDecl
  PROVE  Fits(lab)'
<1>1. /\ Len(body) \in Nat /\ Stream(body) /\ Balanced(body) /\ Typed(blocks, Len(body)) /\ ins \in DOMAIN blocks
      /\ CodeFits(lab, blocks, body) /\ PairsFit(blocks, body) /\ BuilderFits(lab, blocks, body, pc, ins)
      /\ pc \in 1..Len(body)
  BY WalkingFacts DEF Walking
<1>2. PICK a, i : a = Instr("alloca", pc, {}, 0, 0) /\ i = Instr("do", pc, {pc} \cup Uses, 0, 0)
  OBVIOUS
<1>3. PICK mid : mid = Append1(blocks, ins, a)
  OBVIOUS
<1>4. PICK new : new = blocks'
  OBVIOUS
<1>5. /\ body[pc].op = "let" /\ pc' = pc + 1 /\ body' = body /\ phase' = phase /\ calls' = calls /\ ins' = ins
      /\ new = Append1(mid, ins, i)
  BY <1>2, <1>3, <1>4 DEF VisitVariableDecl, At
<1>6. Uses \in SUBSET (1..Len(body)) /\ Uses \subseteq Known(body, pc) /\ pc \notin Uses
  BY <1>1, UsesAreKnown DEF Uses
<1>7. /\ a \in InstrsOver(Len(body)) /\ a.op = "alloca" /\ a.at = pc /\ a.uses = {} /\ a.no = 0
      /\ i \in InstrsOver(Len(body)) /\ i.op = "do" /\ i.at = pc /\ i.uses = {pc} \cup Uses /\ i.no = 0
  <2>1. pc \in 0..Len(body) /\ {pc} \cup Uses \in SUBSET (1..Len(body))
    BY <1>1, <1>6
  <2> QED  BY <1>2, <2>1 DEF Instr, InstrsOver
<1>8. InstrFits(lab, blocks, body, a, StandEnd(lab, blocks, ins)) /\ NoFits(lab, blocks, body, a)
  <2>1. pc \in StandEnd(lab, blocks, ins)..Len(body) /\ LeadsTo(body, Lets, StandEnd(lab, blocks, ins), pc)
    BY <1>1 DEF BuilderFits
  <2> QED  BY <1>5, <1>7, <2>1 DEF InstrFits, NoFits
<1>9. /\ Typed(mid, Len(body)) /\ Grows(blocks, mid) /\ DOMAIN mid = DOMAIN blocks
      /\ \A c \in DOMAIN blocks \ {ins} : DOMAIN mid[c] = DOMAIN blocks[c]
      /\ DOMAIN mid[ins] = 1..(Count(blocks[ins]) + 1) /\ mid[ins][Count(blocks[ins]) + 1] = a
      /\ CodeFits(lab, mid, body)
      /\ StandEnd(lab, mid, ins) = IF a.op = "alloca" THEN a.at ELSE a.at + 1
  <2>1. StandEnd(lab, blocks, ins) \in 1..(Len(body) + 1)
    BY <1>1 DEF BuilderFits
  <2> QED  BY ONLY <1>1, <1>3, <1>7, <1>8, <2>1, EmitFits
<1>10. StandEnd(lab, mid, ins) = pc
  BY <1>7, <1>9
<1>11. InstrFits(lab, mid, body, i, pc) /\ NoFits(lab, mid, body, i)
  <2>1. pc \in pc..Len(body) /\ LeadsTo(body, Lets, pc, pc)
    BY <1>1 DEF LeadsTo
  <2>2. i.uses \subseteq Known(body, i.at) \cup {p \in {i.at} : body[p].op = "let"}
    BY <1>5, <1>6, <1>7
  <2> QED  BY <1>5, <1>7, <2>1, <2>2 DEF InstrFits, NoFits
<1>12. /\ Typed(new, Len(body)) /\ Grows(mid, new) /\ DOMAIN new = DOMAIN mid
       /\ \A c \in DOMAIN mid \ {ins} : DOMAIN new[c] = DOMAIN mid[c]
       /\ DOMAIN new[ins] = 1..(Count(mid[ins]) + 1) /\ new[ins][Count(mid[ins]) + 1] = i
       /\ CodeFits(lab, new, body)
       /\ StandEnd(lab, new, ins) = IF i.op = "alloca" THEN i.at ELSE i.at + 1
  <2>1. pc \in 1..(Len(body) + 1) /\ ins \in DOMAIN mid
    BY <1>1, <1>9
  <2>2. StandEnd(lab, mid, ins) \in 1..(Len(body) + 1) /\ InstrFits(lab, mid, body, i, StandEnd(lab, mid, ins))
    BY <1>10, <1>11, <2>1
  <2> QED  BY ONLY <1>1, <1>5, <1>7, <1>9, <1>11, <2>1, <2>2, EmitFits
<1>13. PICK x : x = Count(blocks[ins])
  OBVIOUS
<1>14. x \in Nat /\ DOMAIN blocks[ins] = 1..x /\ Count(mid[ins]) = x + 1
  <2>1. PICK y : y = Count(mid[ins])
    OBVIOUS
  <2>2. x \in Nat /\ y \in Nat /\ 1..y = 1..(x + 1) /\ DOMAIN blocks[ins] = 1..x
    BY <1>1, <1>9, <1>13, <2>1, TypedBlocks
  <2>3. y = x + 1
    BY ONLY <2>2, SMT
  <2> QED  BY <2>1, <2>2, <2>3
<1>15. DOMAIN new[ins] = 1..(x + 2) /\ new[ins][x + 2] = i /\ new[ins][x + 1].op = "alloca" /\ new[ins][x + 1].at = pc
  <2>1. x + 1 \in DOMAIN mid[ins] /\ mid[ins][x + 1] = a
    BY <1>9, <1>13, <1>14
  <2>2. Like(mid[ins][x + 1], new[ins][x + 1])
    BY <1>1, <1>9, <1>12, <2>1 DEF Grows
  <2>3. (x + 1) + 1 = x + 2
    BY <1>14
  <2> QED  BY <1>7, <1>12, <1>14, <2>1, <2>2, <2>3 DEF Like
<1>16. /\ Grows(blocks, new) /\ DOMAIN new = DOMAIN blocks
       /\ \A c \in DOMAIN blocks \ {ins} : DOMAIN new[c] = DOMAIN blocks[c]
  BY <1>9, <1>12 DEF Grows, Like
<1>17. PairsFit(new, body)
  <2> DEFINE Pair(c, k) ==
               /\ new[c][k].op = "alloca" => /\ k + 1 \in DOMAIN new[c] /\ new[c][k + 1].op = "do"
                                             /\ new[c][k + 1].at = new[c][k].at
               /\ new[c][k].op # "alloca" /\ new[c][k].at \in new[c][k].uses =>
                    k - 1 \in DOMAIN new[c] /\ new[c][k - 1].op = "alloca" /\ new[c][k - 1].at = new[c][k].at
  <2>1. ASSUME NEW c \in DOMAIN blocks, NEW k \in DOMAIN blocks[c]
        PROVE  Pair(c, k)
    BY <1>1, <1>16, <2>1 DEF PairsFit, Grows, Like
  <2>2. Pair(ins, x + 1)
    <3>1. (x + 1) + 1 = x + 2 /\ x + 2 \in 1..(x + 2)
      BY <1>14
    <3> QED  BY <1>7, <1>15, <3>1
  <2>3. Pair(ins, x + 2)
    <3>1. (x + 2) - 1 = x + 1 /\ x + 1 \in 1..(x + 2)
      BY <1>14
    <3> QED  BY <1>7, <1>15, <3>1
  <2>4. ASSUME NEW c \in DOMAIN new, NEW k \in DOMAIN new[c]
        PROVE  (c \in DOMAIN blocks /\ k \in DOMAIN blocks[c]) \/ (c = ins /\ (k = x + 1 \/ k = x + 2))
    BY <1>14, <1>15, <1>16
  <2>5. \A c \in DOMAIN new : \A k \in DOMAIN new[c] : Pair(c, k)
    <3> HIDE DEF Pair
    <3> QED  BY <2>1, <2>2, <2>3, <2>4
  <2> QED  BY <2>5 DEF PairsFit
<1>18. BuilderFits(lab, new, body, pc + 1, ins)
  BY <1>1, <1>7, <1>12 DEF BuilderFits, LeadsTo
<1>19. body[pc].op \notin Openers \cup Marks
  BY <1>5 DEF Openers, Marks
<1>20. /\ Typed(blocks', Len(body)) /\ Grows(blocks, blocks') /\ DOMAIN blocks' = DOMAIN blocks
       /\ \A c \in DOMAIN blocks \ {ins} : DOMAIN blocks'[c] = DOMAIN blocks[c]
       /\ CodeFits(lab, blocks', body) /\ PairsFit(blocks', body) /\ BuilderFits(lab, blocks', body, pc + 1, ins)
  BY <1>4, <1>12, <1>16, <1>17, <1>18
<1> QED  BY <1>5, <1>19, <1>20, StayFits

----------------------------------------------------------------------------
(* What a new call f on top brings with it, when the walk goes on at q. *)
TopFits(lab, code, text, q, f, old, from, b) ==
  LET o == Enclosing(text, q, Depth(text, q))
  IN /\ f.kind = KindOf(text, o, q) /\ WaitingAt(lab, code, text, o, f)
     /\ Pending(f) \cap old \subseteq {from} /\ b \notin Pending(f)
     /\ f.kind = "loop" => f.from # f.jump[1]

(* The blocks change to new and the builder goes to block b. *)
BlocksMove(lab, newLab, new, ext, b) ==
  /\ body' = body /\ phase' = phase /\ pc' = pc + 1 /\ new = blocks' /\ b = ins'
  /\ b \notin DOMAIN blocks \/ b = ins
  /\ Typed(new, Len(body)) /\ \E size, jump : Shape(blocks, new, size, ext, jump)
  /\ \A c \in DOMAIN blocks : newLab[c] = lab[c]
  /\ CodeFits(newLab, new, body) /\ PairsFit(new, body) /\ BuilderFits(newLab, new, body, pc + 1, b)

(* Of the calls the first are kept, and at most one comes on top of them.  *)
CallsMove(newLab, new, ext, b, ds, kept) ==
  /\ ds = calls' /\ DOMAIN ds = 1..Len(ds)
  /\ kept \in 1..Len(calls) /\ Len(ds) \in {kept, kept + 1} /\ Len(ds) = Depth(body, pc + 1) + 1
  /\ \A k \in 1..kept : ds[k] = calls[k] /\ Pending(calls[k]) \cap DOMAIN ext = {}
  /\ \A k \in 1..(kept - 1) : StaysIn(body, pc, pc + 1, k)
  /\ Len(ds) = kept + 1 => TopFits(newLab, new, body, pc + 1, ds[kept + 1], DOMAIN blocks, ins, b)

(* Every block that is left has its end, or a call that waits for it. *)
EndsMove(new, b, ds, kept) ==
  /\ \A c \in DOMAIN new : c \notin DOMAIN blocks \/ c = ins =>
       Ended(new, c) \/ c = b \/ (Len(ds) = kept + 1 /\ c \in Pending(ds[kept + 1]))
  /\ \A k \in DOMAIN calls : k > kept => \A c \in Pending(calls[k]) : Ended(new, c)

LEMMA MoveFits ==
  ASSUME NEW lab, Walking(lab), NEW newLab, NEW new, NEW ext, NEW b, NEW ds, NEW kept,
         BlocksMove(lab, newLab, new, ext, b), CallsMove(newLab, new, ext, b, ds, kept), EndsMove(new, b, ds, kept)
  PROVE  Fits(newLab)'
<1> USE DEF BlocksMove, CallsMove, EndsMove
<1>0. PICK size, jump : Shape(blocks, new, size, ext, jump)
  OBVIOUS
<1>1. /\ Len(body) \in Nat /\ Stream(body) /\ Balanced(body) /\ Typed(blocks, Len(body)) /\ ins \in DOMAIN blocks
      /\ WaitingFits(lab, blocks, body, pc, calls) /\ Apart(calls, ins) /\ OthersEnd(blocks, calls, ins)
      /\ calls \in Seq(CallsOver(Len(body))) \ {<<>>} /\ pc \in 1..Len(body)
      /\ \A k \in DOMAIN calls : Pending(calls[k]) \subseteq DOMAIN blocks
  BY WalkingFacts DEF Walking
<1>2. Len(calls) = Depth(body, pc) + 1 /\ Depth(body, pc) \in Nat /\ Depth(body, pc + 1) \in Nat
  BY <1>1, StayingInLists DEF WaitingFits
<1>3. PICK l \in Nat : l = Len(calls) /\ DOMAIN calls = 1..l
  BY <1>1
<1>4. kept \in 1..l /\ kept \in Nat /\ 1..kept \subseteq DOMAIN calls
  BY <1>3
<1>5. Grows(blocks, new)
  BY <1>0 DEF Shape
<1>6. WaitingFits(newLab, new, body, pc + 1, ds)
  <2>1. ASSUME NEW k \in 1..Depth(body, pc + 1), k + 1 <= kept
        PROVE  /\ k \in 1..Depth(body, pc) /\ StaysIn(body, pc, pc + 1, k) /\ ds[k + 1] = calls[k + 1]
               /\ \A c \in Pending(calls[k + 1]) \cap DOMAIN blocks : DOMAIN new[c] = DOMAIN blocks[c]
    <3>1. k \in 1..(kept - 1) /\ k + 1 \in 1..kept /\ k \in 1..Depth(body, pc)
      BY <1>2, <1>3, <1>4, <2>1
    <3>2. Pending(calls[k + 1]) \cap DOMAIN ext = {}
      BY <3>1
    <3> QED  BY <1>0, <3>1, <3>2 DEF Shape
  <2>2. ASSUME NEW k \in 1..Depth(body, pc + 1), ~(k + 1 <= kept)
        PROVE  /\ ds[k + 1].kind = KindOf(body, Enclosing(body, pc + 1, k), pc + 1)
               /\ WaitingAt(newLab, new, body, Enclosing(body, pc + 1, k), ds[k + 1])
    <3>1. Len(ds) = kept + 1 /\ k = kept /\ k = Depth(body, pc + 1)
      BY <1>2, <1>4, <2>2
    <3> QED  BY <3>1 DEF TopFits
  <2>3. \A k \in 1..Depth(body, pc + 1) :
           \/ /\ k \in 1..Depth(body, pc) /\ StaysIn(body, pc, pc + 1, k) /\ ds[k + 1] = calls[k + 1]
              /\ \A c \in Pending(calls[k + 1]) \cap DOMAIN blocks : DOMAIN new[c] = DOMAIN blocks[c]
           \/ /\ ds[k + 1].kind = KindOf(body, Enclosing(body, pc + 1, k), pc + 1)
              /\ WaitingAt(newLab, new, body, Enclosing(body, pc + 1, k), ds[k + 1])
    BY <2>1, <2>2
  <2>4. /\ Stream(body) /\ Balanced(body) /\ pc \in 1..Len(body)
        /\ Typed(blocks, Len(body)) /\ Typed(new, Len(body)) /\ \A c \in DOMAIN blocks : newLab[c] = lab[c]
        /\ WaitingFits(lab, blocks, body, pc, calls) /\ Len(ds) = Depth(body, pc + 1) + 1
    BY <1>1
  <2> HIDE DEF BlocksMove, CallsMove, EndsMove
  <2> QED  BY ONLY <1>5, <2>3, <2>4, WalkGoesOn
<1>7. ASSUME NEW k \in DOMAIN ds
      PROVE  \/ k \in 1..kept /\ ds[k] = calls[k] /\ k \in DOMAIN calls
             \/ Len(ds) = kept + 1 /\ k = kept + 1
  BY <1>4
<1>8. Len(ds) = kept + 1 => /\ Pending(ds[kept + 1]) \cap DOMAIN blocks \subseteq {ins} /\ b \notin Pending(ds[kept + 1])
                            /\ ds[kept + 1].kind = "loop" => ds[kept + 1].from # ds[kept + 1].jump[1]
  BY DEF TopFits
<1>9. Apart(ds, b)
  <2>1. ASSUME NEW k \in DOMAIN ds
        PROVE  b \notin Pending(ds[k]) /\ (ds[k].kind = "loop" => ds[k].from # ds[k].jump[1])
    <3>1. CASE k \in 1..kept /\ ds[k] = calls[k] /\ k \in DOMAIN calls
      <4>1. Pending(calls[k]) \subseteq DOMAIN blocks /\ ins \notin Pending(calls[k])
        BY <1>1, <3>1 DEF Apart
      <4> QED  BY <1>1, <3>1, <4>1 DEF Apart
    <3>2. CASE Len(ds) = kept + 1 /\ k = kept + 1
      BY <1>8, <3>2
    <3> QED  BY <1>7, <3>1, <3>2
  <2>2. ASSUME NEW j \in DOMAIN ds, NEW k \in DOMAIN ds, j # k
        PROVE  Pending(ds[j]) \cap Pending(ds[k]) = {}
    <3>1. ASSUME NEW i \in DOMAIN calls, Len(ds) = kept + 1
          PROVE  Pending(calls[i]) \cap Pending(ds[kept + 1]) = {}
      <4>1. Pending(calls[i]) \subseteq DOMAIN blocks /\ ins \notin Pending(calls[i])
        BY <1>1 DEF Apart
      <4> QED  BY <1>8, <3>1, <4>1
    <3>2. CASE j \in DOMAIN calls /\ ds[j] = calls[j] /\ k \in DOMAIN calls /\ ds[k] = calls[k]
      BY <1>1, <2>2, <3>2 DEF Apart
    <3> QED  BY <1>7, <2>2, <3>1, <3>2
  <2> QED  BY <2>1, <2>2 DEF Apart
<1>10. OthersEnd(new, ds, b)
  <2>1. ASSUME NEW c \in DOMAIN new
        PROVE  Ended(new, c) \/ c = b \/ \E k \in DOMAIN ds : c \in Pending(ds[k])
    <3>1. CASE c \notin DOMAIN blocks \/ c = ins
      <4>1. Len(ds) = kept + 1 => kept + 1 \in DOMAIN ds
        BY <1>4
      <4> QED  BY <3>1, <4>1
    <3>2. CASE c \in DOMAIN blocks /\ c # ins
      <4>1. Ended(blocks, c) \/ \E k \in DOMAIN calls : c \in Pending(calls[k])
        BY <1>1, <3>2 DEF OthersEnd
      <4>2. CASE Ended(blocks, c)
        BY <1>5, <3>2, <4>2, EndedStays
      <4>3. CASE \E k \in DOMAIN calls : c \in Pending(calls[k])
        <5>1. PICK k \in DOMAIN calls : c \in Pending(calls[k])
          BY <4>3
        <5>2. CASE k > kept
          BY <5>1, <5>2
        <5>3. CASE ~(k > kept)
          <6>1. k \in 1..kept /\ k \in DOMAIN ds
            BY <1>3, <1>4, <5>3
          <6> QED  BY <5>1, <6>1
        <5> QED  BY <5>2, <5>3
      <4> QED  BY <4>1, <4>2, <4>3
    <3> QED  BY <3>1, <3>2
  <2> QED  BY <2>1 DEF OthersEnd
<1>11. /\ CodeFits(newLab, blocks', body) /\ PairsFit(blocks', body) /\ BuilderFits(newLab, blocks', body, pc + 1, ins')
       /\ WaitingFits(newLab, blocks', body, pc + 1, calls') /\ Apart(calls', ins') /\ OthersEnd(blocks', calls', ins')
  BY <1>6, <1>9, <1>10
<1> QED  BY <1>11, StepFits

(* A statement that opens a list. *)
LEMMA OpenFits ==
  ASSUME NEW lab, Walking(lab), body[pc].op \in Openers, NEW newLab, NEW new, NEW ext, NEW b,
         BlocksMove(lab, newLab, new, ext, b), DOMAIN ext \subseteq {ins},
         NEW f, calls' = Append(calls, f), f.kind = KindOf(body, pc, pc + 1), WaitingAt(newLab, new, body, pc, f),
         Pending(f) \cap DOMAIN blocks \subseteq {ins}, b \notin Pending(f), f.kind = "loop" => f.from # f.jump[1],
         \A c \in DOMAIN new : c \notin DOMAIN blocks \/ c = ins => Ended(new, c) \/ c = b \/ c \in Pending(f)
  PROVE  Fits(newLab)'
<1>1. /\ Len(body) \in Nat /\ Stream(body) /\ Balanced(body) /\ Apart(calls, ins)
      /\ WaitingFits(lab, blocks, body, pc, calls)
      /\ calls \in Seq(CallsOver(Len(body))) \ {<<>>} /\ pc \in 1..Len(body)
  BY WalkingFacts DEF Walking
<1>2. /\ Len(calls) = Depth(body, pc) + 1 /\ Depth(body, pc) \in Nat /\ Depth(body, pc + 1) = Depth(body, pc) + 1
      /\ \A k \in 0..Depth(body, pc) : StaysIn(body, pc, pc + 1, k)
  <2>1. body[pc].op \notin Marks
    BY DEF Openers, Marks
  <2> QED  BY <1>1, <2>1, StayingInLists DEF WaitingFits
<1>3. PICK ds : ds = calls'
  OBVIOUS
<1>4. PICK l \in Nat \ {0} : l = Len(calls) /\ DOMAIN calls = 1..l
  BY <1>1
<1>5. Len(ds) = l + 1 /\ DOMAIN ds = 1..(l + 1) /\ (\A k \in 1..l : ds[k] = calls[k]) /\ ds[l + 1] = f
  BY <1>1, <1>3, <1>4
<1>6. Enclosing(body, pc + 1, Depth(body, pc + 1)) = pc
  BY <1>1, <1>2, OpensList
<1>7. TopFits(newLab, new, body, pc + 1, ds[l + 1], DOMAIN blocks, ins, b)
  BY <1>5, <1>6 DEF TopFits
<1>8. \A k \in 1..l : ds[k] = calls[k] /\ Pending(calls[k]) \cap DOMAIN ext = {}
  BY <1>1, <1>4, <1>5 DEF Apart
<1>9. \A k \in 1..(l - 1) : StaysIn(body, pc, pc + 1, k)
  BY <1>2, <1>4
<1>10. CallsMove(newLab, new, ext, b, ds, l)
  <2>1. l \in 1..Len(calls) /\ Len(ds) \in {l, l + 1} /\ Len(ds) = Depth(body, pc + 1) + 1 /\ DOMAIN ds = 1..Len(ds)
    BY <1>2, <1>4, <1>5
  <2> QED  BY <1>3, <1>7, <1>8, <1>9, <2>1 DEF CallsMove
<1>11. EndsMove(new, b, ds, l)
  <2>1. \A k \in DOMAIN calls : ~(k > l)
    BY <1>4
  <2> QED  BY <1>5, <2>1 DEF EndsMove
<1> QED  BY <1>10, <1>11, MoveFits

LEMMA EmptyStands ==
  ASSUME NEW n, NEW code, Typed(code, n), NEW lab, NEW c \in DOMAIN code, DOMAIN code[c] = {}
  PROVE  Count(code[c]) = 0 /\ StandEnd(lab, code, c) = lab[c]
<1>1. PICK x : x = Count(code[c])
  OBVIOUS
<1>2. x \in Nat /\ 1..x = {}
  BY <1>1, TypedBlocks
<1>3. x = 0 /\ x + 1 = 1
  BY ONLY <1>2, SMT
<1> QED  BY <1>1, <1>3 DEF StandEnd, Stand

LEMMA CompoundFits ==
  ASSUME NEW lab, Walking(lab), VisitCompound
  PROVE  Fits(lab)'
<1>1. /\ Len(body) \in Nat /\ Stream(body) /\ Balanced(body) /\ Typed(blocks, Len(body)) /\ ins \in DOMAIN blocks
      /\ CodeFits(lab, blocks, body) /\ PairsFit(blocks, body) /\ BuilderFits(lab, blocks, body, pc, ins)
      /\ pc \in 1..Len(body)
  BY WalkingFacts DEF Walking
<1>2. PICK f : f = Call("block", pc, <<0, 0>>, 0)
  OBVIOUS
<1>3. /\ body[pc].op = "block" /\ pc' = pc + 1 /\ body' = body /\ phase' = phase /\ calls' = Append(calls, f)
      /\ ins' = ins /\ blocks' = blocks
  BY <1>2 DEF VisitCompound, At
<1>4. LeadsTo(body, Lets, pc, pc + 1)
  BY <1>1, <1>3, LeadsSteps DEF Lets
<1>5. BuilderFits(lab, blocks, body, pc + 1, ins)
  <2>1. StandEnd(lab, blocks, ins) \in 1..(pc + 1)
    BY <1>1 DEF BuilderFits
  <2>2. LeadsTo(body, Lets, StandEnd(lab, blocks, ins), pc + 1)
    BY <1>1, <1>4, LeadsFurther DEF BuilderFits
  <2> QED  BY <2>1, <2>2 DEF BuilderFits
<1>6. DOMAIN Nothing \subseteq {ins} /\ Shape(blocks, blocks, Count(blocks), Nothing, Nowhere)
  BY <1>1, ShapeBegins DEF Nothing
<1>7. BlocksMove(lab, lab, blocks, Nothing, ins)
  <2>1. \E size, jump : Shape(blocks, blocks, size, Nothing, jump)
    BY <1>6
  <2> QED  BY <1>1, <1>3, <1>5, <2>1 DEF BlocksMove
<1>8. f.kind = "block" /\ Pending(f) = {}
  BY <1>2 DEF Call, Pending
<1>9. f.kind = KindOf(body, pc, pc + 1) /\ WaitingAt(lab, blocks, body, pc, f)
  BY <1>3, <1>8 DEF KindOf, WaitingAt
<1>10. body[pc].op \in Openers
  BY <1>3 DEF Openers
<1> QED  BY <1>3, <1>6, <1>7, <1>8, <1>9, <1>10, OpenFits

LEMMA IfFits ==
  ASSUME NEW lab, Walking(lab), VisitIf
  PROVE  \E newLab : Fits(newLab)'
<1>1. /\ Len(body) \in Nat /\ Stream(body) /\ Balanced(body) /\ Typed(blocks, Len(body)) /\ ins \in DOMAIN blocks
      /\ CodeFits(lab, blocks, body) /\ PairsFit(blocks, body) /\ BuilderFits(lab, blocks, body, pc, ins)
      /\ pc \in 1..Len(body)
  BY WalkingFacts DEF Walking
<1>2. PICK n \in Nat : n = Count(blocks) /\ DOMAIN blocks = 1..n /\ NewBlock = n + 1
  BY <1>1, TypedBlocks DEF NewBlock, Count
<1>3. PICK m \in Nat : m = Count(blocks[ins])
  BY <1>1, TypedBlocks
<1>4. PICK i : i = Instr("cond", pc, Uses, n + 1, 0)
  OBVIOUS
<1>5. PICK f : f = Call(IF body[pc].op = "ifelse" THEN "then" ELSE "if", pc, <<ins, m + 1>>, 0)
  OBVIOUS
<1>6. PICK mid : mid = Append1(blocks, ins, i)
  OBVIOUS
<1>7. PICK new : new = blocks'
  OBVIOUS
<1>8. /\ body[pc].op \in {"if", "ifelse"} /\ pc' = pc + 1 /\ body' = body /\ phase' = phase /\ calls' = Append(calls, f)
      /\ ins' = n + 1 /\ new = Append(mid, <<>>)
  BY <1>2, <1>3, <1>4, <1>5, <1>6, <1>7 DEF VisitIf, At, Count
<1>9. body[pc].op \in Openers
  BY <1>8 DEF Openers
<1>10. Uses \in SUBSET (1..Len(body)) /\ Uses \subseteq Known(body, pc) /\ pc \notin Uses
  BY <1>1, UsesAreKnown DEF Uses
<1>11. i \in InstrsOver(Len(body)) /\ i.op = "cond" /\ i.at = pc /\ i.uses = Uses /\ i.yes = n + 1 /\ i.no = 0
  <2>1. pc \in 0..Len(body) /\ n + 1 \in Nat
    BY <1>1, <1>2
  <2> QED  BY <1>4, <1>10, <2>1 DEF Instr, InstrsOver, Terminators
<1>12. PICK ext : ext = With(Nothing, ins, i)
  OBVIOUS
<1>13. DOMAIN ext = {ins} /\ ext[ins] = i /\ DOMAIN Nothing = {}
  BY <1>12 DEF With, Nothing
<1>14. Typed(new, Len(body)) /\ Shape(blocks, new, n + 1, ext, Nowhere)
  <2>1. Shape(blocks, blocks, n, Nothing, Nowhere)
    BY <1>1, <1>2, ShapeBegins
  <2>2. Typed(mid, Len(body)) /\ Shape(blocks, mid, n, ext, Nowhere)
    <3>1. ins \notin DOMAIN Nothing
      BY <1>13
    <3> QED  BY <1>1, <1>6, <1>11, <1>12, <2>1, <3>1, ShapeEmit
  <2>3. n \in Nat /\ Count(blocks) <= n
    BY <1>2
  <2> QED  BY <1>1, <1>8, <2>2, <2>3, ShapeAdd
<1>15. /\ DOMAIN new = 1..(n + 1) /\ DOMAIN new[n + 1] = {} /\ n + 1 \notin DOMAIN blocks /\ n + 1 \in DOMAIN new
       /\ DOMAIN new[ins] = 1..(m + 1) /\ new[ins][m + 1] = i
  BY <1>1, <1>2, <1>3, <1>13, <1>14 DEF Shape
<1>16. PICK newLab : newLab = [c \in DOMAIN new |-> IF c \in DOMAIN blocks THEN lab[c] ELSE pc + 1]
  OBVIOUS
<1>17. lab \in [DOMAIN blocks -> 1..(Len(body) + 1)]
  BY <1>1 DEF CodeFits
<1>18. /\ newLab \in [DOMAIN new -> 1..(Len(body) + 1)]
       /\ \A c \in DOMAIN blocks : newLab[c] = lab[c]
       /\ newLab[n + 1] = pc + 1
  <2>1. pc + 1 \in 1..(Len(body) + 1) /\ DOMAIN blocks \subseteq DOMAIN new
    BY <1>1, <1>2, <1>15
  <2> QED  BY <1>15, <1>16, <1>17, <2>1
<1>19. InstrFits(newLab, new, body, i, StandEnd(lab, blocks, ins)) /\ NoFits(newLab, new, body, i)
  <2>1. pc \in StandEnd(lab, blocks, ins)..Len(body) /\ LeadsTo(body, Lets, StandEnd(lab, blocks, ins), pc)
    BY <1>1 DEF BuilderFits
  <2>2. i.uses \subseteq Known(body, i.at)
    BY <1>10, <1>11
  <2> QED  BY <1>8, <1>10, <1>11, <1>15, <1>18, <2>1, <2>2 DEF InstrFits, NoFits
<1>20. CodeFits(newLab, new, body) /\ PairsFit(new, body)
  <2>1. SetFits(newLab, blocks, new, body, Nowhere)
    BY <1>2 DEF Nowhere, SetFits
  <2>2. ExtFits(lab, newLab, blocks, new, body, ext)
    <3>1. StandEnd(lab, blocks, ins) \in 1..(Len(body) + 1)
      BY <1>1 DEF BuilderFits
    <3> QED  BY <1>10, <1>11, <1>13, <1>19, <3>1 DEF ExtFits
  <2>3. /\ Len(body) \in Nat /\ Typed(blocks, Len(body)) /\ CodeFits(lab, blocks, body) /\ PairsFit(blocks, body)
        /\ Typed(new, Len(body)) /\ Shape(blocks, new, n + 1, ext, Nowhere)
        /\ newLab \in [DOMAIN new -> 1..(Len(body) + 1)] /\ \A c \in DOMAIN blocks : newLab[c] = lab[c]
    BY <1>1, <1>14, <1>18
  <2> QED  BY ONLY <2>1, <2>2, <2>3, ShapeFits
<1>21. BuilderFits(newLab, new, body, pc + 1, n + 1)
  <2>1. StandEnd(newLab, new, n + 1) = pc + 1
    <3>1. Typed(new, Len(body)) /\ n + 1 \in DOMAIN new /\ DOMAIN new[n + 1] = {} /\ newLab[n + 1] = pc + 1
      BY <1>14, <1>15, <1>18
    <3>2. StandEnd(newLab, new, n + 1) = newLab[n + 1]
      BY ONLY <3>1, EmptyStands
    <3> QED  BY ONLY <3>1, <3>2
  <2> QED  BY <1>1, <2>1 DEF BuilderFits, LeadsTo
<1>22. BlocksMove(lab, newLab, new, ext, n + 1)
  <2>1. \E size, jump : Shape(blocks, new, size, ext, jump)
    BY <1>14
  <2> QED  BY <1>7, <1>8, <1>14, <1>15, <1>18, <1>20, <1>21, <2>1 DEF BlocksMove
<1>23. f.kind = (IF body[pc].op = "ifelse" THEN "then" ELSE "if") /\ f.jump = <<ins, m + 1>> /\ Pending(f) = {}
  BY <1>5 DEF Call, Pending
<1>24. f.kind = KindOf(body, pc, pc + 1)
  <2>1. ~InElse(body, pc, pc + 1)
    BY <1>1, <1>9, OpensList
  <2> QED  BY <1>8, <1>23, <2>1 DEF KindOf
<1>25. WaitingAt(newLab, new, body, pc, f)
  <2>1. f.jump = <<ins, m + 1>> /\ f.jump[1] = ins /\ f.jump[2] = m + 1 /\ m + 1 \in 1..(m + 1) /\ ins \in DOMAIN new
    BY <1>1, <1>2, <1>15, <1>23
  <2> QED  BY <1>11, <1>15, <1>23, <2>1 DEF WaitingAt, IsCond
<1>26. \A c \in DOMAIN new : c \notin DOMAIN blocks \/ c = ins => Ended(new, c) \/ c = n + 1 \/ c \in Pending(f)
  <2>1. Ended(new, ins)
    BY <1>1, <1>11, <1>13, <1>14, EndedNow DEF Terminators
  <2> QED  BY <1>2, <1>15, <2>1
<1>27. Fits(newLab)'
  <2>1. /\ calls' = Append(calls, f) /\ Pending(f) \cap DOMAIN blocks \subseteq {ins} /\ n + 1 \notin Pending(f)
        /\ (f.kind = "loop" => f.from # f.jump[1]) /\ DOMAIN ext \subseteq {ins}
    BY <1>8, <1>13, <1>23
  <2> QED  BY <1>9, <1>22, <1>24, <1>25, <1>26, <2>1, OpenFits
<1> QED  BY <1>27

LEMMA WhileFits ==
  ASSUME NEW lab, Walking(lab), VisitWhile
  PROVE  \E newLab : Fits(newLab)'
<1>1. /\ Len(body) \in Nat /\ Stream(body) /\ Balanced(body) /\ Typed(blocks, Len(body)) /\ ins \in DOMAIN blocks
      /\ CodeFits(lab, blocks, body) /\ PairsFit(blocks, body) /\ BuilderFits(lab, blocks, body, pc, ins)
      /\ pc \in 1..Len(body)
  BY WalkingFacts DEF Walking
<1>2. PICK n \in Nat : n = Count(blocks) /\ DOMAIN blocks = 1..n /\ NewBlock = n + 1
  BY <1>1, TypedBlocks DEF NewBlock, Count
<1>3. PICK f : f = Call("loop", pc, <<n + 1, 1>>, ins)
  OBVIOUS
<1>4. PICK mid : mid = Append(blocks, <<>>)
  OBVIOUS
<1>5. PICK new : new = blocks'
  OBVIOUS
<1>6. new = Append(mid, <<>>)
  <2>1. new = blocks \o << <<>>, <<>> >>
    BY <1>5 DEF VisitWhile
  <2>2. blocks \in Seq(Seq(InstrsOver(Len(body))))
    BY <1>1 DEF Typed
  <2> QED  BY ONLY <1>4, <2>1, <2>2, TwoBlocks
<1>7. /\ body[pc].op = "while" /\ pc' = pc + 1 /\ body' = body /\ phase' = phase /\ calls' = Append(calls, f)
      /\ ins' = n + 2
  BY <1>2, <1>3 DEF VisitWhile, WhileBody, At
<1>8. body[pc].op \in Openers
  BY <1>7 DEF Openers
<1>9. Typed(new, Len(body)) /\ Shape(blocks, new, n + 2, Nothing, Nowhere)
  <2>1. Shape(blocks, blocks, n, Nothing, Nowhere)
    BY <1>1, <1>2, ShapeBegins
  <2>2. n \in Nat /\ Count(blocks) <= n /\ n + 1 \in Nat /\ Count(blocks) <= n + 1 /\ (n + 1) + 1 = n + 2
    BY <1>2
  <2>3. Typed(mid, Len(body)) /\ Shape(blocks, mid, n + 1, Nothing, Nowhere)
    BY <1>1, <1>4, <2>1, <2>2, ShapeAdd
  <2>4. Typed(new, Len(body)) /\ Shape(blocks, new, (n + 1) + 1, Nothing, Nowhere)
    BY <1>1, <1>6, <2>2, <2>3, ShapeAdd
  <2> QED  BY <2>2, <2>4
<1>10. DOMAIN Nothing = {}
  BY DEF Nothing
<1>11. /\ DOMAIN new = 1..(n + 2) /\ DOMAIN new[n + 1] = {} /\ DOMAIN new[n + 2] = {}
       /\ n + 1 \notin DOMAIN blocks /\ n + 2 \notin DOMAIN blocks /\ n + 1 \in DOMAIN new /\ n + 2 \in DOMAIN new
       /\ DOMAIN new[ins] = DOMAIN blocks[ins] /\ ins \in DOMAIN new
  BY <1>1, <1>2, <1>9, <1>10 DEF Shape
<1>12. PICK newLab : newLab = [c \in DOMAIN new |-> IF c \in DOMAIN blocks THEN lab[c]
                                                    ELSE IF c = n + 1 THEN pc ELSE pc + 1]
  OBVIOUS
<1>13. lab \in [DOMAIN blocks -> 1..(Len(body) + 1)]
  BY <1>1 DEF CodeFits
<1>14. /\ newLab \in [DOMAIN new -> 1..(Len(body) + 1)]
       /\ \A c \in DOMAIN blocks : newLab[c] = lab[c]
       /\ newLab[n + 1] = pc /\ newLab[n + 2] = pc + 1
  <2>1. pc \in 1..(Len(body) + 1) /\ pc + 1 \in 1..(Len(body) + 1) /\ DOMAIN blocks \subseteq DOMAIN new /\ n + 2 # n + 1
    BY <1>1, <1>2, <1>11
  <2> QED  BY <1>11, <1>12, <1>13, <2>1
<1>15. CodeFits(newLab, new, body) /\ PairsFit(new, body)
  <2>1. SetFits(newLab, blocks, new, body, Nowhere)
    BY <1>2 DEF Nowhere, SetFits
  <2>2. ExtFits(lab, newLab, blocks, new, body, Nothing)
    BY <1>10 DEF ExtFits
  <2> QED  BY ONLY <1>1, <1>9, <1>14, <2>1, <2>2, ShapeFits
<1>16. BuilderFits(newLab, new, body, pc + 1, n + 2)
  <2>1. StandEnd(newLab, new, n + 2) = pc + 1
    <3>1. Typed(new, Len(body)) /\ n + 2 \in DOMAIN new /\ DOMAIN new[n + 2] = {} /\ newLab[n + 2] = pc + 1
      BY <1>9, <1>11, <1>14
    <3>2. StandEnd(newLab, new, n + 2) = newLab[n + 2]
      BY ONLY <3>1, EmptyStands
    <3> QED  BY ONLY <3>1, <3>2
  <2> QED  BY <1>1, <2>1 DEF BuilderFits, LeadsTo
<1>17. BlocksMove(lab, newLab, new, Nothing, n + 2)
  <2>1. \E size, jump : Shape(blocks, new, size, Nothing, jump)
    BY <1>9
  <2> QED  BY <1>5, <1>7, <1>9, <1>11, <1>14, <1>15, <1>16, <2>1 DEF BlocksMove
<1>18. f.kind = "loop" /\ f.at = pc /\ f.jump[1] = n + 1 /\ f.from = ins /\ Pending(f) = {ins, n + 1}
  BY <1>3 DEF Call, Pending
<1>19. f.kind = KindOf(body, pc, pc + 1)
  BY <1>7, <1>18 DEF KindOf
<1>20. WaitingAt(newLab, new, body, pc, f)
  <2>1. StandEnd(newLab, new, ins) = StandEnd(lab, blocks, ins)
    <3>1. /\ Typed(blocks, Len(body)) /\ Typed(new, Len(body)) /\ \A c \in DOMAIN blocks : newLab[c] = lab[c]
          /\ ins \in DOMAIN blocks /\ Grows(blocks, new) /\ DOMAIN new[ins] = DOMAIN blocks[ins]
      BY <1>1, <1>9, <1>11, <1>14 DEF Shape, Nothing
    <3> QED  BY ONLY <3>1, EndStays
  <2>2. (n + 1) + 1 = n + 2
    BY <1>2
  <2> QED  BY <1>1, <1>11, <1>14, <1>18, <2>1, <2>2 DEF WaitingAt, BuilderFits
<1>21. \A c \in DOMAIN new : c \notin DOMAIN blocks \/ c = ins => Ended(new, c) \/ c = n + 2 \/ c \in Pending(f)
  BY <1>2, <1>11, <1>18
<1>22. Fits(newLab)'
  <2>1. /\ calls' = Append(calls, f) /\ Pending(f) \cap DOMAIN blocks \subseteq {ins} /\ n + 2 \notin Pending(f)
        /\ (f.kind = "loop" => f.from # f.jump[1]) /\ DOMAIN Nothing \subseteq {ins}
    BY <1>1, <1>2, <1>7, <1>10, <1>11, <1>18
  <2> QED  BY <1>8, <1>17, <1>19, <1>20, <1>21, <2>1, OpenFits
<1> QED  BY <1>22

(* A mark ends a list of the top call. *)
LEMMA MarkFits ==
  ASSUME NEW lab, Walking(lab), body[pc].op \in Marks
  PROVE  \E o \in 1..(pc - 1) :
           /\ o = Enclosing(body, pc, Depth(body, pc)) /\ body[o].op \in Openers
           /\ Top.kind = KindOf(body, o, pc) /\ WaitingAt(lab, blocks, body, o, Top)
           /\ Depth(body, pc) \in Nat \ {0} /\ Len(calls) = Depth(body, pc) + 1
           /\ Top = calls[Len(calls)] /\ Len(calls) \in DOMAIN calls
<1>1. /\ Len(body) \in Nat /\ Stream(body) /\ Balanced(body) /\ WaitingFits(lab, blocks, body, pc, calls)
      /\ pc \in 1..Len(body) /\ calls \in Seq(CallsOver(Len(body))) \ {<<>>}
  BY WalkingFacts DEF Walking
<1>2. PICK D \in Nat \ {0} : D = Depth(body, pc) /\ Len(calls) = D + 1
  <2>1. Len(calls) = Depth(body, pc) + 1 /\ Depth(body, pc) \in Nat /\ Depth(body, pc + 1) \in Nat
        /\ (body[pc].op = "else" => Depth(body, pc) > 0)
        /\ (body[pc].op = "end" => Depth(body, pc + 1) = Depth(body, pc) - 1)
    BY <1>1, StayingInLists DEF WaitingFits
  <2>2. PICK d, e : d = Depth(body, pc) /\ e = Depth(body, pc + 1)
    OBVIOUS
  <2>3. d # 0
    BY <2>1, <2>2 DEF Marks
  <2> QED  BY <2>1, <2>2, <2>3
<1>3. PICK o : o = Enclosing(body, pc, D)
  OBVIOUS
<1>4. o \in 1..(pc - 1) /\ body[o].op \in Openers
  BY <1>1, <1>2, <1>3, MarkOf
<1>5. D \in 1..Depth(body, pc) /\ Top = calls[D + 1]
  BY <1>2 DEF Top
<1>6. Top.kind = KindOf(body, o, pc) /\ WaitingAt(lab, blocks, body, o, Top)
  BY <1>1, <1>3, <1>5 DEF WaitingFits
<1>7. Len(calls) \in DOMAIN calls
  BY <1>1, <1>2
<1> QED  BY <1>2, <1>3, <1>4, <1>5, <1>6, <1>7

(* What the calls below the top one are. *)
LEMMA BelowCalls ==
  ASSUME NEW S, calls \in Seq(S), NEW D \in Nat \ {0}, Len(calls) = D + 1
  PROVE  Below \in Seq(S) /\ Len(Below) = D /\ DOMAIN Below = 1..D /\ \A k \in 1..D : Below[k] = calls[k]
<1>1. Len(calls) - 1 = D /\ D <= Len(calls)
  OBVIOUS
<1>2. Below = SubSeq(calls, 1, D)
  BY <1>1 DEF Below
<1> QED  BY ONLY <1>1, <1>2, calls \in Seq(S), D \in Nat \ {0}

(* The end of a statement's last list. *)
LEMMA PopFits ==
  ASSUME NEW lab, Walking(lab), body[pc].op = "end", NEW newLab, NEW new, NEW ext, NEW b,
         BlocksMove(lab, newLab, new, ext, b), calls' = Below, DOMAIN ext \subseteq {ins} \cup Pending(Top),
         \A c \in DOMAIN new : c \notin DOMAIN blocks \/ c = ins => Ended(new, c) \/ c = b,
         \A c \in Pending(Top) : Ended(new, c)
  PROVE  Fits(newLab)'
<1>1. /\ Len(body) \in Nat /\ Stream(body) /\ Balanced(body) /\ Apart(calls, ins)
      /\ calls \in Seq(CallsOver(Len(body))) \ {<<>>} /\ pc \in 1..Len(body)
  BY WalkingFacts DEF Walking
<1>2. body[pc].op \in Marks
  BY DEF Marks
<1>3. PICK D \in Nat \ {0} : /\ D = Depth(body, pc) /\ Len(calls) = D + 1
                             /\ Top = calls[D + 1] /\ DOMAIN calls = 1..(D + 1)
  BY <1>1, <1>2, MarkFits
<1>4. Depth(body, pc + 1) = D - 1 /\ \A k \in 0..(D - 1) : StaysIn(body, pc, pc + 1, k)
  BY <1>1, <1>3, StayingInLists
<1>5. PICK ds : ds = Below
  OBVIOUS
<1>6. Len(ds) = D /\ DOMAIN ds = 1..D /\ \A k \in 1..D : ds[k] = calls[k]
  BY <1>1, <1>3, <1>5, BelowCalls
<1>7. \A k \in 1..D : Pending(calls[k]) \cap DOMAIN ext = {}
  <2>1. ASSUME NEW k \in 1..D  PROVE Pending(calls[k]) \cap DOMAIN ext = {}
    <3>1. k \in DOMAIN calls /\ D + 1 \in DOMAIN calls /\ k # D + 1
      BY <1>3
    <3>2. ins \notin Pending(calls[k]) /\ Pending(calls[k]) \cap Pending(Top) = {}
      BY <1>1, <1>3, <3>1 DEF Apart
    <3> QED  BY <3>2
  <2> QED  BY <2>1
<1>8. CallsMove(newLab, new, ext, b, ds, D)
  <2>1. /\ D \in 1..Len(calls) /\ Len(ds) \in {D, D + 1} /\ Len(ds) = Depth(body, pc + 1) + 1
        /\ DOMAIN ds = 1..Len(ds) /\ Len(ds) # D + 1 /\ 1..(D - 1) \subseteq 0..(D - 1)
    BY <1>3, <1>4, <1>6
  <2>2. \A k \in 1..(D - 1) : StaysIn(body, pc, pc + 1, k)
    BY <1>4, <2>1
  <2> QED  BY <1>5, <1>6, <1>7, <2>1, <2>2 DEF CallsMove
<1>9. EndsMove(new, b, ds, D)
  <2>1. \A k \in DOMAIN calls : k > D => k = D + 1
    BY <1>3
  <2> QED  BY <1>3, <2>1 DEF EndsMove
<1> QED  BY <1>8, <1>9, MoveFits

(* A jump that the source does not name. *)
LEMMA JumpFits ==
  ASSUME NEW text, NEW code, NEW lab, NEW r, NEW t \in Nat, t \in DOMAIN code, LeadsTo(text, Lets, r, lab[t]),
         r < lab[t] \/ IsCheck(code, t), NEW i, i = Jump(t)
  PROVE  /\ InstrFits(lab, code, text, i, r) /\ NoFits(lab, code, text, i)
         /\ i.op = "jump" /\ i.op # "alloca" /\ i.at \notin i.uses
  BY DEF Jump, Instr, InstrFits, NoFits

LEMMA JumpIsInstr ==
  ASSUME NEW n \in Nat, NEW t \in Nat
  PROVE  Jump(t) \in InstrsOver(n)
  BY DEF Jump, Instr, InstrsOver, Terminators

(* Beside what it appends, a step adds one block, for what stands behind pc. *)
Joined(lab) == [c \in 1..NewBlock |-> IF c \in DOMAIN blocks THEN lab[c] ELSE pc + 1]

Joins(lab, newLab, new, ext, jump, b) ==
  /\ \E mid : Typed(mid, Len(body)) /\ Shape(blocks, mid, Count(blocks), ext, jump) /\ new = Append(mid, <<>>)
  /\ newLab = Joined(lab) /\ b = NewBlock

LEMMA JoinBlocks ==
  ASSUME NEW lab, Walking(lab), NEW newLab, NEW new, NEW ext, NEW jump, NEW b, Joins(lab, newLab, new, ext, jump, b)
  PROVE  /\ Typed(new, Len(body)) /\ Shape(blocks, new, b, ext, jump)
         /\ b \in Nat /\ DOMAIN new = 1..b /\ b \in DOMAIN new /\ b \notin DOMAIN blocks
         /\ newLab \in [DOMAIN new -> 1..(Len(body) + 1)]
         /\ \A c \in DOMAIN blocks : newLab[c] = lab[c] /\ c \in DOMAIN new
         /\ newLab[b] = pc + 1 /\ BuilderFits(newLab, new, body, pc + 1, b)
<1>1. /\ Len(body) \in Nat /\ Typed(blocks, Len(body)) /\ CodeFits(lab, blocks, body) /\ pc \in 1..Len(body)
  BY WalkingFacts DEF Walking
<1>0. PICK mid : Typed(mid, Len(body)) /\ Shape(blocks, mid, Count(blocks), ext, jump) /\ new = Append(mid, <<>>)
  BY DEF Joins
<1>2. PICK n \in Nat : n = Count(blocks) /\ DOMAIN blocks = 1..n /\ b = n + 1
  BY <1>1, TypedBlocks DEF Joins, NewBlock, Count
<1>3. Typed(new, Len(body)) /\ Shape(blocks, new, n + 1, ext, jump)
  <2>1. Count(blocks) <= n /\ Shape(blocks, mid, n, ext, jump)
    BY <1>0, <1>2
  <2> QED  BY <1>0, <1>1, <2>1, ShapeAdd
<1>4. DOMAIN new = 1..b /\ b \in DOMAIN new /\ b \notin DOMAIN blocks /\ DOMAIN new[b] = {} /\ DOMAIN blocks \subseteq DOMAIN new
  BY <1>2, <1>3 DEF Shape
<1>5. /\ newLab \in [DOMAIN new -> 1..(Len(body) + 1)]
      /\ \A c \in DOMAIN blocks : newLab[c] = lab[c]
      /\ newLab[b] = pc + 1
  <2>1. lab \in [DOMAIN blocks -> 1..(Len(body) + 1)] /\ pc + 1 \in 1..(Len(body) + 1)
    BY <1>1 DEF CodeFits
  <2>2. newLab = [c \in DOMAIN new |-> IF c \in DOMAIN blocks THEN lab[c] ELSE pc + 1]
    BY <1>4 DEF Joins, Joined
  <2> QED  BY <1>4, <2>1, <2>2
<1>6. BuilderFits(newLab, new, body, pc + 1, b)
  <2>1. StandEnd(newLab, new, b) = newLab[b]
    BY ONLY <1>3, <1>4, EmptyStands
  <2> QED  BY <1>1, <1>5, <2>1 DEF BuilderFits, LeadsTo
<1> QED  BY <1>2, <1>3, <1>4, <1>5, <1>6

LEMMA JoinFits ==
  ASSUME NEW lab, Walking(lab), NEW newLab, NEW new, NEW ext, NEW jump, NEW b, Joins(lab, newLab, new, ext, jump, b),
         body' = body, phase' = phase, pc' = pc + 1, new = blocks', b = ins',
         SetFits(newLab, blocks, new, body, jump), ExtFits(lab, newLab, blocks, new, body, ext)
  PROVE  BlocksMove(lab, newLab, new, ext, b)
<1>0. /\ Walking(lab) /\ Joins(lab, newLab, new, ext, jump, b)
      /\ SetFits(newLab, blocks, new, body, jump) /\ ExtFits(lab, newLab, blocks, new, body, ext)
  OBVIOUS
<1>1. /\ Len(body) \in Nat /\ Typed(blocks, Len(body)) /\ CodeFits(lab, blocks, body) /\ PairsFit(blocks, body)
  BY WalkingFacts
<1>2. /\ Typed(new, Len(body)) /\ Shape(blocks, new, b, ext, jump)
      /\ b \notin DOMAIN blocks
      /\ newLab \in [DOMAIN new -> 1..(Len(body) + 1)]
      /\ \A c \in DOMAIN blocks : newLab[c] = lab[c]
      /\ BuilderFits(newLab, new, body, pc + 1, b)
  BY ONLY <1>0, JoinBlocks
<1>3. CodeFits(newLab, new, body) /\ PairsFit(new, body)
  BY ONLY <1>0, <1>1, <1>2, ShapeFits
<1>4. \E size, place : Shape(blocks, new, size, ext, place)
  BY <1>2
<1> QED  BY <1>2, <1>3, <1>4 DEF BlocksMove

(* The false target that is set at the end of an if's first list. *)
LEMMA FalseTargetFits ==
  ASSUME NEW lab, Walking(lab), NEW o, WaitingAt(lab, blocks, body, o, Top), Top.kind \in {"if", "then"},
         ListEnd(body, o + 1) = pc, NEW set, set = SetFalseTarget(blocks, Top.jump, NewBlock),
         NEW newLab, NEW new, NEW ext, NEW b, Joins(lab, newLab, new, ext, Top.jump, b),
         NEW other, NEW size, Shape(set, new, size, other, Nowhere)
  PROVE  SetFits(newLab, blocks, new, body, Top.jump)
<1>1. /\ Len(body) \in Nat /\ Typed(blocks, Len(body)) /\ Count(blocks) \in Nat /\ DOMAIN blocks = 1..Count(blocks)
      /\ CodeFits(lab, blocks, body)
  BY WalkingFacts
<1>2. IsCond(blocks, Top.jump) /\ blocks[Top.jump[1]][Top.jump[2]].at = o
  BY DEF WaitingAt
<1>3. PICK x, y : x = Top.jump[1] /\ y = Top.jump[2]
  OBVIOUS
<1>4. x \in DOMAIN blocks /\ y \in DOMAIN blocks[x] /\ Top.jump = <<x, y>> /\ blocks[x][y].op = "cond" /\ blocks[x][y].at = o
  BY <1>2, <1>3 DEF IsCond
<1>5. PICK n : n = Len(body)
  OBVIOUS
<1>6. /\ b \in Nat /\ b \in DOMAIN new /\ newLab[b] = pc + 1 /\ b = NewBlock
      /\ Shape(blocks, new, b, ext, Top.jump)
  <2>1. b = NewBlock /\ Walking(lab) /\ Joins(lab, newLab, new, ext, Top.jump, b)
    BY DEF Joins
  <2>2. PICK jump : jump = Top.jump
    OBVIOUS
  <2> QED  BY ONLY <2>1, <2>2, JoinBlocks
<1>7. Shape(blocks, set, Count(blocks), Nothing, Top.jump) /\ set[x][y].no = b
  BY <1>1, <1>2, <1>3, <1>6, ShapeSet
<1>8. x \in DOMAIN set /\ y \in DOMAIN set[x] /\ x # 0
  BY <1>1, <1>4, <1>7 DEF Shape, Grows
<1>9. new[x][y].no = b
  <2>1. <<x, y>> # Nowhere
    BY <1>8 DEF Nowhere
  <2> QED  BY <1>7, <1>8, <2>1 DEF Shape
<1>10. Like(blocks[x][y], new[x][y])
  BY <1>4, <1>6 DEF Shape, Grows
<1>11. NoFits(newLab, new, body, new[x][y])
  BY <1>4, <1>6, <1>9, <1>10 DEF Like, NoFits
<1> QED  BY <1>4, <1>11 DEF SetFits

(* Appending at the end of what is already there. *)
LEMMA StandsBuilder ==
  ASSUME NEW lab, Walking(lab), NEW t \in 1..(Len(body) + 1), LeadsTo(body, Lets, pc, t)
  PROVE  /\ StandEnd(lab, blocks, ins) \in 1..pc /\ StandEnd(lab, blocks, ins) \in 1..(Len(body) + 1)
         /\ LeadsTo(body, Lets, StandEnd(lab, blocks, ins), t)
<1>1. Len(body) \in Nat /\ BuilderFits(lab, blocks, body, pc, ins) /\ pc \in 1..Len(body)
  BY WalkingFacts DEF Walking
<1> QED  BY <1>1, LeadsFurther DEF BuilderFits

LEMMA ElseFits ==
  ASSUME NEW lab, Walking(lab), VisitElse
  PROVE  \E newLab : Fits(newLab)'
<1>1. /\ Len(body) \in Nat /\ Stream(body) /\ Balanced(body) /\ Typed(blocks, Len(body)) /\ ins \in DOMAIN blocks
      /\ Apart(calls, ins) /\ pc \in 1..Len(body) /\ calls \in Seq(CallsOver(Len(body))) \ {<<>>}
      /\ Count(blocks) \in Nat /\ DOMAIN blocks = 1..Count(blocks)
  BY WalkingFacts DEF Walking
<1>2. PICK f : f = AsElse(Top, ins)
  OBVIOUS
<1>3. PICK b : b = NewBlock
  OBVIOUS
<1>4. PICK set : set = SetFalseTarget(blocks, Top.jump, NewBlock)
  OBVIOUS
<1>5. PICK new : new = blocks'
  OBVIOUS
<1>6. PICK ds : ds = calls'
  OBVIOUS
<1>7. /\ body[pc].op = "else" /\ pc' = pc + 1 /\ body' = body /\ phase' = phase /\ ds = Append(Below, f)
      /\ ins' = b /\ new = Append(set, <<>>) /\ Top.kind = "then"
  BY <1>2, <1>3, <1>4, <1>5, <1>6 DEF VisitElse, At, AsElse
<1>8. body[pc].op \in Marks
  BY <1>7 DEF Marks
<1>9. PICK o \in 1..(pc - 1) :
           /\ o = Enclosing(body, pc, Depth(body, pc)) /\ body[o].op \in Openers
           /\ Top.kind = KindOf(body, o, pc) /\ WaitingAt(lab, blocks, body, o, Top)
           /\ Depth(body, pc) \in Nat \ {0} /\ Len(calls) = Depth(body, pc) + 1
           /\ Top = calls[Len(calls)] /\ Len(calls) \in DOMAIN calls
  BY <1>8, MarkFits
<1>10. PICK D \in Nat \ {0} : D = Depth(body, pc) /\ Len(calls) = D + 1 /\ DOMAIN calls = 1..(D + 1) /\ Top = calls[D + 1]
  BY <1>1, <1>9
<1>11. /\ body[o].op = "ifelse" /\ ListEnd(body, o + 1) = pc /\ InElse(body, o, pc + 1)
       /\ Enclosing(body, pc + 1, D) = o /\ Depth(body, pc + 1) = D
       /\ \A k \in 0..(D - 1) : StaysIn(body, pc, pc + 1, k)
  <2>1. /\ body[o].op = "ifelse" /\ ListEnd(body, o + 1) = pc /\ InElse(body, o, pc + 1)
        /\ Enclosing(body, pc + 1, D) = o
    <3>1. /\ Stream(body) /\ Balanced(body) /\ pc \in 1..Len(body) /\ body[pc].op \in Marks /\ body[pc].op = "else"
          /\ o = Enclosing(body, pc, Depth(body, pc)) /\ D = Depth(body, pc)
      BY <1>1, <1>7, <1>8, <1>9, <1>10
    <3> QED  BY ONLY <3>1, MarkOf
  <2>2. Depth(body, pc + 1) = D /\ \A k \in 0..(D - 1) : StaysIn(body, pc, pc + 1, k)
    BY ONLY <1>1, <1>7, <1>10, StayingInLists
  <2> QED  BY <2>1, <2>2
<1>12. IsCond(blocks, Top.jump)
  BY <1>7, <1>9 DEF WaitingAt
<1>13. b \in Nat /\ b = Count(blocks) + 1
  BY <1>1, <1>3 DEF NewBlock, Count
<1>14. Typed(set, Len(body)) /\ Shape(blocks, set, Count(blocks), Nothing, Top.jump)
  BY <1>1, <1>3, <1>4, <1>12, <1>13, ShapeSet
<1>15. PICK newLab : newLab = Joined(lab)
  OBVIOUS
<1>16. Joins(lab, newLab, new, Nothing, Top.jump, b)
  BY <1>3, <1>7, <1>14, <1>15 DEF Joins
<1>17. /\ Typed(new, Len(body)) /\ Shape(blocks, new, b, Nothing, Top.jump)
       /\ b \in DOMAIN new /\ b \notin DOMAIN blocks /\ DOMAIN new = 1..b
       /\ \A c \in DOMAIN blocks : newLab[c] = lab[c] /\ c \in DOMAIN new
  BY <1>16, JoinBlocks
<1>18. SetFits(newLab, blocks, new, body, Top.jump)
  <2>1. Shape(set, set, Count(set), Nothing, Nowhere)
    BY <1>14, ShapeBegins
  <2>2. Count(set) \in Nat /\ Count(set) <= Count(set)
    BY <1>14, TypedBlocks
  <2>3. Shape(set, new, Count(set) + 1, Nothing, Nowhere)
    BY <1>7, <1>14, <2>1, <2>2, ShapeAdd
  <2> QED  BY <1>4, <1>7, <1>9, <1>11, <1>16, <2>3, FalseTargetFits
<1>19. ExtFits(lab, newLab, blocks, new, body, Nothing) /\ DOMAIN Nothing = {}
  BY DEF Nothing, ExtFits
<1>20. BlocksMove(lab, newLab, new, Nothing, b)
  BY <1>5, <1>7, <1>16, <1>18, <1>19, JoinFits
<1>21. Top \in CallsOver(Len(body)) /\ ins \in Nat
  BY <1>1, <1>10
<1>22. f.kind = "else" /\ f.from = ins /\ Pending(f) = {ins}
  BY <1>2, <1>21, ElseCall DEF Pending
<1>23. Len(ds) = D + 1 /\ DOMAIN ds = 1..(D + 1) /\ (\A k \in 1..D : ds[k] = calls[k]) /\ ds[D + 1] = f
  <2>1. PICK below : below = Below
    OBVIOUS
  <2>2. PICK S : S = CallsOver(Len(body))
    OBVIOUS
  <2>3. below \in Seq(S) /\ Len(below) = D /\ \A k \in 1..D : below[k] = calls[k]
    BY <1>1, <1>10, <2>1, <2>2, BelowCalls
  <2>4. f \in S /\ ds = Append(below, f)
    BY <1>2, <1>7, <1>21, <2>1, <2>2, ElseCall
  <2> QED  BY ONLY <2>3, <2>4, <1>10
<1>24. WaitingAt(newLab, new, body, o, f)
  <2>1. ListEnd(body, pc + 1) \in (pc + 1)..Len(body)
    BY <1>1, <1>7, ElseIsAhead
  <2>2. ElseEnd(body, pc) + 1 = Behind(body, o) /\ pc \in 1..(Behind(body, o) - 1) /\ Behind(body, o) \in 1..(Len(body) + 1)
    <3>1. PICK e : e = ListEnd(body, pc + 1)
      OBVIOUS
    <3>2. Behind(body, o) = e + 1 /\ ElseEnd(body, pc) = e
      BY <1>9, <1>11, <3>1 DEF Behind, ElseEnd
    <3> QED  BY <1>1, <2>1, <3>1, <3>2
  <2>3. LeadsTo(body, Lets, pc, Behind(body, o))
    BY <1>1, <1>7, <2>2, LeadsSteps DEF Lets
  <2>4. StandEnd(newLab, new, ins) = StandEnd(lab, blocks, ins)
    <3>1. Grows(blocks, new) /\ DOMAIN new[ins] = DOMAIN blocks[ins]
      BY <1>1, <1>17, <1>19 DEF Shape
    <3>2. Typed(blocks, Len(body)) /\ Typed(new, Len(body)) /\ ins \in DOMAIN blocks /\ \A c \in DOMAIN blocks : newLab[c] = lab[c]
      BY <1>1, <1>17
    <3> QED  BY ONLY <3>1, <3>2, EndStays
  <2>5. StandEnd(lab, blocks, ins) \in 1..pc /\ LeadsTo(body, Lets, StandEnd(lab, blocks, ins), Behind(body, o))
    BY <2>2, <2>3, StandsBuilder
  <2>6. StandEnd(lab, blocks, ins) \in 1..(Behind(body, o) - 1)
    <3>1. PICK e, s : e = Behind(body, o) /\ s = StandEnd(lab, blocks, ins)
      OBVIOUS
    <3> QED  BY <1>1, <2>2, <2>5, <3>1
  <2> QED  BY <1>1, <1>17, <1>22, <2>4, <2>5, <2>6 DEF WaitingAt
<1>25. TopFits(newLab, new, body, pc + 1, f, DOMAIN blocks, ins, b)
  <2>1. f.kind = KindOf(body, o, pc + 1)
    BY <1>11, <1>22 DEF KindOf
  <2>2. b # ins
    BY <1>1, <1>17
  <2> QED  BY <1>10, <1>11, <1>22, <1>24, <2>1, <2>2 DEF TopFits
<1>26. CallsMove(newLab, new, Nothing, b, ds, D)
  <2>1. /\ D \in 1..Len(calls) /\ Len(ds) \in {D, D + 1} /\ Len(ds) = Depth(body, pc + 1) + 1 /\ DOMAIN ds = 1..Len(ds)
    BY <1>10, <1>11, <1>23
  <2>2. \A k \in 1..(D - 1) : StaysIn(body, pc, pc + 1, k)
    <3>1. 1..(D - 1) \subseteq 0..(D - 1)
      OBVIOUS
    <3> QED  BY <1>11, <3>1
  <2> QED  BY <1>6, <1>19, <1>23, <1>25, <2>1, <2>2 DEF CallsMove
<1>27. EndsMove(new, b, ds, D)
  <2>1. \A k \in DOMAIN calls : k > D => k = D + 1
    BY <1>10
  <2>2. Pending(Top) = {}
    BY <1>7 DEF Pending
  <2>3. \A c \in DOMAIN new : c \in DOMAIN blocks \/ c = b
    BY <1>1, <1>13, <1>17
  <2> QED  BY <1>1, <1>10, <1>22, <1>23, <2>1, <2>2, <2>3 DEF EndsMove
<1>28. Fits(newLab)'
  BY <1>20, <1>26, <1>27, MoveFits
<1> QED  BY <1>28

(* The end of a statement: where control goes from here. *)
LEMMA EndFacts ==
  ASSUME NEW lab, Walking(lab), body[pc].op = "end"
  PROVE  \E o \in 1..(pc - 1) :
           /\ WaitingAt(lab, blocks, body, o, Top) /\ Behind(body, o) = pc + 1
           /\ Top.kind = (IF body[o].op = "ifelse" THEN "else" ELSE IF body[o].op = "while" THEN "loop" ELSE body[o].op)
           /\ body[o].op \in Openers
           /\ body[o].op = "if" => ListEnd(body, o + 1) = pc
           /\ LeadsTo(body, Lets, pc, IF body[o].op = "while" THEN o ELSE pc + 1)
           /\ \E k \in DOMAIN calls : Top = calls[k]
<1>1. /\ Len(body) \in Nat /\ Stream(body) /\ Balanced(body) /\ pc \in 1..Len(body)
  BY WalkingFacts DEF Walking
<1>2. body[pc].op \in Marks
  BY DEF Marks
<1>3. PICK o \in 1..(pc - 1) :
           /\ o = Enclosing(body, pc, Depth(body, pc)) /\ body[o].op \in Openers
           /\ Top.kind = KindOf(body, o, pc) /\ WaitingAt(lab, blocks, body, o, Top)
           /\ Top = calls[Len(calls)] /\ Len(calls) \in DOMAIN calls
  BY <1>2, MarkFits
<1>4. Behind(body, o) = pc + 1 /\ OpenerOf(body, pc) = o /\ (body[o].op = "ifelse" => InElse(body, o, pc))
  BY <1>1, <1>2, <1>3, MarkOf
<1>5. Top.kind = (IF body[o].op = "ifelse" THEN "else" ELSE IF body[o].op = "while" THEN "loop" ELSE body[o].op)
  BY <1>3, <1>4 DEF KindOf
<1>6. body[o].op = "if" => ListEnd(body, o + 1) = pc
  <2>1. SUFFICES ASSUME body[o].op = "if"  PROVE ListEnd(body, o + 1) = pc
    OBVIOUS
  <2>2. ListEnd(body, o + 1) \in (o + 1)..Len(body)
    <3>1. o \in 1..Len(body)
      BY <1>1
    <3> QED  BY <1>1, <1>3, <3>1, ElseIsAhead
  <2>3. PICK e : e = ListEnd(body, o + 1)
    OBVIOUS
  <2>4. e + 1 = pc + 1
    BY <1>3, <1>4, <2>1, <2>3 DEF Behind
  <2> QED  BY <1>1, <2>2, <2>3, <2>4
<1>7. LeadsTo(body, Lets, pc, IF body[o].op = "while" THEN o ELSE pc + 1)
  BY <1>1, <1>4, LeadsSteps DEF Lets
<1> QED  BY <1>3, <1>4, <1>5, <1>6, <1>7

LEMMA EndCompoundFits ==
  ASSUME NEW lab, Walking(lab), EndCompound
  PROVE  Fits(lab)'
<1>1. /\ Len(body) \in Nat /\ Typed(blocks, Len(body)) /\ ins \in DOMAIN blocks /\ pc \in 1..Len(body)
      /\ CodeFits(lab, blocks, body) /\ PairsFit(blocks, body)
      /\ Count(blocks) \in Nat /\ DOMAIN blocks = 1..Count(blocks)
  BY WalkingFacts DEF Walking
<1>2. /\ body[pc].op = "end" /\ pc' = pc + 1 /\ body' = body /\ phase' = phase /\ calls' = Below
      /\ ins' = ins /\ blocks' = blocks /\ Top.kind = "block"
  BY DEF EndCompound, At
<1>3. LeadsTo(body, Lets, pc, pc + 1)
  BY <1>2, EndFacts
<1>4. BuilderFits(lab, blocks, body, pc + 1, ins)
  <2>1. pc + 1 \in 1..(Len(body) + 1)
    BY <1>1
  <2>2. StandEnd(lab, blocks, ins) \in 1..pc /\ LeadsTo(body, Lets, StandEnd(lab, blocks, ins), pc + 1)
    BY <1>3, <2>1, StandsBuilder
  <2> QED  BY <1>1, <2>2 DEF BuilderFits
<1>5. Shape(blocks, blocks, Count(blocks), Nothing, Nowhere) /\ DOMAIN Nothing = {}
  BY <1>1, ShapeBegins DEF Nothing
<1>6. BlocksMove(lab, lab, blocks, Nothing, ins)
  <2>1. \E size, jump : Shape(blocks, blocks, size, Nothing, jump)
    BY <1>5
  <2> QED  BY <1>1, <1>2, <1>4, <2>1 DEF BlocksMove
<1>7. Pending(Top) = {}
  BY <1>2 DEF Pending
<1> QED  BY <1>2, <1>5, <1>6, <1>7, PopFits

LEMMA EndIfFits ==
  ASSUME NEW lab, Walking(lab), EndIf
  PROVE  \E newLab : Fits(newLab)'
<1>1. /\ Len(body) \in Nat /\ Stream(body) /\ Balanced(body) /\ Typed(blocks, Len(body)) /\ ins \in DOMAIN blocks
      /\ pc \in 1..Len(body) /\ Count(blocks) \in Nat /\ DOMAIN blocks = 1..Count(blocks)
  BY WalkingFacts DEF Walking
<1>2. PICK b : b = NewBlock
  OBVIOUS
<1>3. PICK set : set = SetFalseTarget(blocks, Top.jump, b)
  OBVIOUS
<1>4. PICK i : i = Jump(b)
  OBVIOUS
<1>5. PICK mid : mid = Append1(set, ins, i)
  OBVIOUS
<1>6. PICK new : new = blocks'
  OBVIOUS
<1>7. /\ body[pc].op = "end" /\ pc' = pc + 1 /\ body' = body /\ phase' = phase /\ calls' = Below
      /\ ins' = b /\ new = Append(mid, <<>>) /\ Top.kind = "if"
  BY <1>2, <1>3, <1>4, <1>5, <1>6 DEF EndIf, At
<1>8. PICK o \in 1..(pc - 1) :
           /\ WaitingAt(lab, blocks, body, o, Top) /\ body[o].op = "if" /\ ListEnd(body, o + 1) = pc
           /\ LeadsTo(body, Lets, pc, pc + 1)
  BY <1>7, EndFacts DEF Openers
<1>9. IsCond(blocks, Top.jump)
  BY <1>7, <1>8 DEF WaitingAt
<1>10. b \in Nat /\ b = Count(blocks) + 1
  BY <1>1, <1>2 DEF NewBlock, Count
<1>11. Typed(set, Len(body)) /\ Shape(blocks, set, Count(blocks), Nothing, Top.jump)
  BY <1>1, <1>3, <1>9, <1>10, ShapeSet
<1>12. PICK ext : ext = With(Nothing, ins, i)
  OBVIOUS
<1>13. DOMAIN ext = {ins} /\ ext[ins] = i /\ DOMAIN Nothing = {}
  BY <1>12 DEF With, Nothing
<1>14. i \in InstrsOver(Len(body)) /\ ins \notin DOMAIN Nothing
  BY <1>1, <1>4, <1>10, <1>13, JumpIsInstr
<1>15. Typed(mid, Len(body)) /\ Shape(blocks, mid, Count(blocks), ext, Top.jump)
  BY <1>1, <1>5, <1>11, <1>12, <1>14, ShapeEmit
<1>16. PICK newLab : newLab = Joined(lab)
  OBVIOUS
<1>17. Joins(lab, newLab, new, ext, Top.jump, b)
  BY <1>2, <1>7, <1>15, <1>16 DEF Joins
<1>18. /\ Typed(new, Len(body)) /\ Shape(blocks, new, b, ext, Top.jump)
       /\ b \in DOMAIN new /\ b \notin DOMAIN blocks /\ DOMAIN new = 1..b /\ newLab[b] = pc + 1
  BY <1>17, JoinBlocks
<1>19. SetFits(newLab, blocks, new, body, Top.jump)
  <2>1. Shape(set, set, Count(set), Nothing, Nowhere) /\ ins \in DOMAIN set
    BY <1>1, <1>11, ShapeBegins DEF Shape, Grows
  <2>2. Count(set) \in Nat /\ Count(set) <= Count(set)
    BY <1>11, TypedBlocks
  <2>3. Shape(set, mid, Count(set), ext, Nowhere)
    BY <1>5, <1>11, <1>12, <1>14, <2>1, ShapeEmit
  <2>4. Shape(set, new, Count(set) + 1, ext, Nowhere)
    BY <1>7, <1>11, <1>15, <2>2, <2>3, ShapeAdd
  <2>5. set = SetFalseTarget(blocks, Top.jump, NewBlock)
    BY <1>2, <1>3
  <2> QED  BY <1>7, <1>8, <1>17, <2>4, <2>5, FalseTargetFits
<1>20. ExtFits(lab, newLab, blocks, new, body, ext)
  <2>1. PICK r : r = StandEnd(lab, blocks, ins)
    OBVIOUS
  <2>2. r \in 1..pc /\ r \in 1..(Len(body) + 1) /\ LeadsTo(body, Lets, r, pc + 1)
    <3>1. pc + 1 \in 1..(Len(body) + 1)
      BY <1>1
    <3> QED  BY <1>8, <2>1, <3>1, StandsBuilder
  <2>3. LeadsTo(body, Lets, r, newLab[b]) /\ r < newLab[b]
    BY <1>1, <1>18, <2>2
  <2>4. InstrFits(newLab, new, body, i, r) /\ NoFits(newLab, new, body, i) /\ i.op # "alloca" /\ i.at \notin i.uses
    BY <1>4, <1>10, <1>18, <2>3, JumpFits
  <2> QED  BY <1>13, <2>1, <2>2, <2>4 DEF ExtFits
<1>21. BlocksMove(lab, newLab, new, ext, b)
  BY <1>6, <1>7, <1>17, <1>19, <1>20, JoinFits
<1>22. Pending(Top) = {}
  BY <1>7 DEF Pending
<1>23. \A c \in DOMAIN new : c \notin DOMAIN blocks \/ c = ins => Ended(new, c) \/ c = b
  <2>1. i.op \in Terminators
    BY <1>4 DEF Jump, Instr, Terminators
  <2>2. Ended(new, ins)
    BY <1>1, <1>13, <1>18, <2>1, EndedNow
  <2> QED  BY <1>1, <1>10, <1>18, <2>2
<1>24. Fits(newLab)'
  BY <1>7, <1>13, <1>21, <1>22, <1>23, PopFits
<1> QED  BY <1>24

LEMMA EndIfElseFits ==
  ASSUME NEW lab, Walking(lab), EndIfElse
  PROVE  \E newLab : Fits(newLab)'
<1>1. /\ Len(body) \in Nat /\ Typed(blocks, Len(body)) /\ ins \in DOMAIN blocks
      /\ pc \in 1..Len(body) /\ Count(blocks) \in Nat /\ DOMAIN blocks = 1..Count(blocks) /\ Apart(calls, ins)
  BY WalkingFacts DEF Walking
<1>2. PICK b : b = NewBlock
  OBVIOUS
<1>3. PICK from : from = Top.from
  OBVIOUS
<1>4. PICK i : i = Jump(b)
  OBVIOUS
<1>5. PICK one : one = Append1(blocks, ins, i)
  OBVIOUS
<1>6. PICK mid : mid = Append1(one, from, i)
  OBVIOUS
<1>7. PICK new : new = blocks'
  OBVIOUS
<1>8. /\ body[pc].op = "end" /\ pc' = pc + 1 /\ body' = body /\ phase' = phase /\ calls' = Below
      /\ ins' = b /\ new = Append(mid, <<>>) /\ Top.kind = "else"
  BY <1>2, <1>3, <1>4, <1>5, <1>6, <1>7 DEF EndIfElse, At
<1>9. PICK o \in 1..(pc - 1) :
           /\ WaitingAt(lab, blocks, body, o, Top) /\ Behind(body, o) = pc + 1 /\ body[o].op = "ifelse"
           /\ LeadsTo(body, Lets, pc, pc + 1) /\ \E k \in DOMAIN calls : Top = calls[k]
  BY <1>8, EndFacts DEF Openers
<1>10. b \in Nat /\ b = Count(blocks) + 1
  BY <1>1, <1>2 DEF NewBlock, Count
<1>11. from \in DOMAIN blocks /\ from # ins /\ Pending(Top) = {from}
  BY <1>1, <1>3, <1>8, <1>9 DEF WaitingAt, Apart, Pending
<1>12. PICK half, ext : half = With(Nothing, ins, i) /\ ext = With(half, from, i)
  OBVIOUS
<1>13. /\ DOMAIN half = {ins} /\ DOMAIN ext = {ins, from} /\ ext[ins] = i /\ ext[from] = i /\ DOMAIN Nothing = {}
  BY <1>11, <1>12 DEF With, Nothing
<1>14. i \in InstrsOver(Len(body)) /\ ins \notin DOMAIN Nothing /\ from \notin DOMAIN half
  BY <1>1, <1>4, <1>10, <1>11, <1>13, JumpIsInstr
<1>15. Typed(mid, Len(body)) /\ Shape(blocks, mid, Count(blocks), ext, Nowhere)
  <2>1. Shape(blocks, blocks, Count(blocks), Nothing, Nowhere)
    BY <1>1, ShapeBegins
  <2>2. Typed(one, Len(body)) /\ Shape(blocks, one, Count(blocks), half, Nowhere)
    BY <1>1, <1>5, <1>12, <1>14, <2>1, ShapeEmit
  <2> QED  BY <1>1, <1>6, <1>11, <1>12, <1>14, <2>2, ShapeEmit
<1>16. PICK newLab : newLab = Joined(lab)
  OBVIOUS
<1>17. Joins(lab, newLab, new, ext, Nowhere, b)
  BY <1>2, <1>8, <1>15, <1>16 DEF Joins
<1>18. /\ Typed(new, Len(body)) /\ Shape(blocks, new, b, ext, Nowhere)
       /\ b \in DOMAIN new /\ b \notin DOMAIN blocks /\ DOMAIN new = 1..b /\ newLab[b] = pc + 1
  BY <1>17, JoinBlocks
<1>19. SetFits(newLab, blocks, new, body, Nowhere)
  BY <1>1 DEF Nowhere, SetFits
<1>20. ASSUME NEW r \in 1..pc, LeadsTo(body, Lets, r, pc + 1)
       PROVE  /\ r \in 1..(Len(body) + 1) /\ InstrFits(newLab, new, body, i, r)
              /\ NoFits(newLab, new, body, i) /\ i.op # "alloca" /\ i.at \notin i.uses
  <2>1. LeadsTo(body, Lets, r, newLab[b]) /\ r < newLab[b] /\ r \in 1..(Len(body) + 1)
    BY <1>1, <1>18, <1>20
  <2> QED  BY <1>4, <1>10, <1>18, <2>1, JumpFits
<1>21. ExtFits(lab, newLab, blocks, new, body, ext)
  <2>1. PICK r, s : r = StandEnd(lab, blocks, ins) /\ s = StandEnd(lab, blocks, from)
    OBVIOUS
  <2>2. r \in 1..pc /\ LeadsTo(body, Lets, r, pc + 1)
    <3>1. pc + 1 \in 1..(Len(body) + 1)
      BY <1>1
    <3> QED  BY <1>9, <2>1, <3>1, StandsBuilder
  <2>3. s \in 1..pc /\ LeadsTo(body, Lets, s, pc + 1)
    <3>1. s \in 1..((pc + 1) - 1) /\ LeadsTo(body, Lets, s, pc + 1)
      BY <1>3, <1>8, <1>9, <2>1 DEF WaitingAt
    <3> QED  BY <1>1, <3>1
  <2> QED  BY <1>13, <1>20, <2>1, <2>2, <2>3 DEF ExtFits
<1>22. BlocksMove(lab, newLab, new, ext, b)
  BY <1>7, <1>8, <1>17, <1>19, <1>21, JoinFits
<1>23. Ended(new, ins) /\ Ended(new, from)
  <2>1. i.op \in Terminators
    BY <1>4 DEF Jump, Instr, Terminators
  <2> QED  BY <1>1, <1>13, <1>18, <2>1, EndedNow
<1>24. \A c \in DOMAIN new : c \notin DOMAIN blocks \/ c = ins => Ended(new, c) \/ c = b
  BY <1>1, <1>10, <1>18, <1>23
<1>25. Fits(newLab)'
  BY <1>8, <1>11, <1>13, <1>22, <1>23, <1>24, PopFits
<1> QED  BY <1>25

(* The check of a loop. *)
LEMMA CheckFits ==
  ASSUME Len(body) \in Nat, NEW o \in 1..Len(body), body[o].op = "while", NEW new, NEW newLab,
         NEW y \in Nat, y + 1 \in DOMAIN new, newLab[y + 1] = o + 1,
         NEW b \in Nat, b \in DOMAIN new, newLab[b] = ListEnd(body, o + 1) + 1,
         NEW i, i = Instr("cond", o, UsesOf(o), y + 1, b)
  PROVE  /\ i \in InstrsOver(Len(body)) /\ i.op = "cond" /\ i.at \notin i.uses
         /\ InstrFits(newLab, new, body, i, o) /\ NoFits(newLab, new, body, i)
<1>1. UsesOf(o) \in SUBSET (1..Len(body)) /\ UsesOf(o) \subseteq Known(body, o) /\ o \notin UsesOf(o)
  BY UsesAreKnown
<1>2. i.op = "cond" /\ i.at = o /\ i.uses = UsesOf(o) /\ i.yes = y + 1 /\ i.no = b
  BY DEF Instr
<1>3. i \in InstrsOver(Len(body))
  <2>1. o \in 0..Len(body) /\ y + 1 \in Nat
    OBVIOUS
  <2> QED  BY <1>1, <2>1 DEF Instr, InstrsOver, Terminators
<1>4. InstrFits(newLab, new, body, i, o)
  <2>1. o \in o..Len(body) /\ LeadsTo(body, Lets, o, o)
    BY DEF LeadsTo
  <2>2. i.uses \subseteq Known(body, i.at)
    BY <1>1, <1>2
  <2> QED  BY <1>1, <1>2, <2>1, <2>2 DEF InstrFits
<1>5. NoFits(newLab, new, body, i)
  BY <1>2 DEF NoFits
<1> QED  BY <1>1, <1>2, <1>3, <1>4, <1>5

LEMMA EndWhileFits ==
  ASSUME NEW lab, Walking(lab), EndWhile
  PROVE  \E newLab : Fits(newLab)'
<1>1. /\ Len(body) \in Nat /\ Typed(blocks, Len(body)) /\ ins \in DOMAIN blocks
      /\ pc \in 1..Len(body) /\ Count(blocks) \in Nat /\ DOMAIN blocks = 1..Count(blocks) /\ Apart(calls, ins)
  BY WalkingFacts DEF Walking
<1>2. PICK b : b = NewBlock
  OBVIOUS
<1>3. PICK from, y : from = Top.from /\ y = Top.jump[1]
  OBVIOUS
<1>4. PICK i, chk : i = Jump(y) /\ chk = Instr("cond", Top.at, UsesOf(Top.at), y + 1, b)
  OBVIOUS
<1>5. PICK one : one = Append1(blocks, ins, i)
  OBVIOUS
<1>6. PICK two : two = Append1(one, from, i)
  OBVIOUS
<1>7. PICK mid : mid = Append1(two, y, chk)
  OBVIOUS
<1>8. PICK new : new = blocks'
  OBVIOUS
<1>9. /\ body[pc].op = "end" /\ pc' = pc + 1 /\ body' = body /\ phase' = phase /\ calls' = Below
      /\ ins' = b /\ new = Append(mid, <<>>) /\ Top.kind = "loop"
  BY <1>2, <1>3, <1>4, <1>5, <1>6, <1>7, <1>8 DEF EndWhile, Again, At
<1>10. PICK o \in 1..(pc - 1) :
           /\ WaitingAt(lab, blocks, body, o, Top) /\ Behind(body, o) = pc + 1 /\ body[o].op = "while"
           /\ LeadsTo(body, Lets, pc, o) /\ \E k \in DOMAIN calls : Top = calls[k]
  BY <1>9, EndFacts DEF Openers
<1>11. b \in Nat /\ b = Count(blocks) + 1
  BY <1>1, <1>2 DEF NewBlock, Count
<1>12. /\ from \in DOMAIN blocks /\ Top.at = o /\ StandEnd(lab, blocks, from) \in 1..o
       /\ LeadsTo(body, Lets, StandEnd(lab, blocks, from), o)
       /\ y \in DOMAIN blocks /\ y + 1 \in DOMAIN blocks /\ DOMAIN blocks[y] = {} /\ lab[y] = o /\ lab[y + 1] = o + 1
       /\ Pending(Top) = {from, y}
  BY <1>3, <1>9, <1>10 DEF WaitingAt, Pending
<1>13. from # ins /\ y # ins /\ from # y
  BY <1>1, <1>3, <1>9, <1>10, <1>12 DEF Apart
<1>14. ListEnd(body, o + 1) + 1 = pc + 1 /\ o \in 1..Len(body) /\ y \in Nat
  BY <1>1, <1>10, <1>12 DEF Behind, Openers
<1>15. PICK third, half, ext : third = With(Nothing, ins, i) /\ half = With(third, from, i) /\ ext = With(half, y, chk)
  OBVIOUS
<1>16. /\ DOMAIN third = {ins} /\ DOMAIN half = {ins, from} /\ DOMAIN ext = {ins, from, y} /\ DOMAIN Nothing = {}
       /\ ext[ins] = i /\ ext[from] = i /\ ext[y] = chk
  <2>1. DOMAIN third = {ins} /\ third[ins] = i /\ DOMAIN Nothing = {}
    BY <1>15 DEF With, Nothing
  <2>2. DOMAIN half = {ins, from} /\ half[ins] = i /\ half[from] = i
    BY <1>13, <1>15, <2>1 DEF With
  <2> QED  BY <1>13, <1>15, <2>1, <2>2 DEF With
<1>17. i \in InstrsOver(Len(body)) /\ chk \in InstrsOver(Len(body))
  <2>1. i \in InstrsOver(Len(body))
    BY <1>1, <1>4, <1>14, JumpIsInstr
  <2>2. UsesOf(o) \in SUBSET (1..Len(body))
    BY <1>1, <1>14, UsesAreKnown
  <2>3. o \in 0..Len(body) /\ y + 1 \in Nat
    BY <1>1, <1>14
  <2> QED  BY <1>4, <1>11, <1>12, <2>1, <2>2, <2>3 DEF Instr, InstrsOver, Terminators
<1>18. Typed(mid, Len(body)) /\ Shape(blocks, mid, Count(blocks), ext, Nowhere)
  <2>1. Shape(blocks, blocks, Count(blocks), Nothing, Nowhere) /\ ins \notin DOMAIN Nothing
    BY <1>1, <1>16, ShapeBegins
  <2>2. Typed(one, Len(body)) /\ Shape(blocks, one, Count(blocks), third, Nowhere) /\ from \notin DOMAIN third
    BY <1>1, <1>5, <1>13, <1>15, <1>16, <1>17, <2>1, ShapeEmit
  <2>3. Typed(two, Len(body)) /\ Shape(blocks, two, Count(blocks), half, Nowhere) /\ y \notin DOMAIN half
    BY <1>1, <1>6, <1>12, <1>13, <1>15, <1>16, <1>17, <2>2, ShapeEmit
  <2> QED  BY <1>1, <1>7, <1>12, <1>15, <1>17, <2>3, ShapeEmit
<1>19. PICK newLab : newLab = Joined(lab)
  OBVIOUS
<1>20. Joins(lab, newLab, new, ext, Nowhere, b)
  BY <1>2, <1>9, <1>18, <1>19 DEF Joins
<1>21. /\ Typed(new, Len(body)) /\ Shape(blocks, new, b, ext, Nowhere)
       /\ b \in DOMAIN new /\ b \notin DOMAIN blocks /\ DOMAIN new = 1..b /\ newLab[b] = pc + 1
       /\ \A c \in DOMAIN blocks : newLab[c] = lab[c] /\ c \in DOMAIN new
  BY <1>20, JoinBlocks
<1>22. newLab[y] = o /\ newLab[y + 1] = o + 1 /\ y \in DOMAIN new /\ y + 1 \in DOMAIN new
  BY <1>12, <1>21
<1>23. Count(blocks[y]) = 0 /\ StandEnd(lab, blocks, y) = o
  <2>1. StandEnd(lab, blocks, y) = lab[y] /\ Count(blocks[y]) = 0
    <3>1. Typed(blocks, Len(body)) /\ y \in DOMAIN blocks /\ DOMAIN blocks[y] = {}
      BY <1>1, <1>12
    <3> QED  BY ONLY <3>1, EmptyStands
  <2> QED  BY <1>12, <2>1
<1>24. SetFits(newLab, blocks, new, body, Nowhere)
  BY <1>1 DEF Nowhere, SetFits
<1>25. /\ chk.op = "cond" /\ chk.at \notin chk.uses
       /\ InstrFits(newLab, new, body, chk, o) /\ NoFits(newLab, new, body, chk)
  <2>1. newLab[b] = ListEnd(body, o + 1) + 1 /\ chk = Instr("cond", o, UsesOf(o), y + 1, b)
    BY <1>4, <1>12, <1>14, <1>21
  <2>2. /\ Len(body) \in Nat /\ o \in 1..Len(body) /\ body[o].op = "while" /\ y \in Nat /\ y + 1 \in DOMAIN new
        /\ newLab[y + 1] = o + 1 /\ b \in Nat /\ b \in DOMAIN new
    BY <1>1, <1>10, <1>11, <1>14, <1>21, <1>22
  <2> QED  BY ONLY <2>1, <2>2, CheckFits
<1>26. IsCheck(new, y)
  <2>1. DOMAIN new[y] = 1..(Count(blocks[y]) + 1) /\ new[y][Count(blocks[y]) + 1] = chk
    BY <1>12, <1>16, <1>21 DEF Shape
  <2>2. DOMAIN new[y] = 1..1 /\ new[y][1] = chk
    BY <1>23, <2>1
  <2> QED  BY <1>25, <2>2 DEF IsCheck
<1>27. ASSUME NEW r \in 1..pc, LeadsTo(body, Lets, r, o)
       PROVE  /\ r \in 1..(Len(body) + 1) /\ InstrFits(newLab, new, body, i, r)
              /\ NoFits(newLab, new, body, i) /\ i.op # "alloca" /\ i.at \notin i.uses
  <2>1. LeadsTo(body, Lets, r, newLab[y]) /\ r \in 1..(Len(body) + 1)
    BY <1>1, <1>22, <1>27
  <2> QED  BY <1>4, <1>14, <1>22, <1>26, <2>1, JumpFits
<1>28. ExtFits(lab, newLab, blocks, new, body, ext)
  <2>1. PICK r, s : r = StandEnd(lab, blocks, ins) /\ s = StandEnd(lab, blocks, from)
    OBVIOUS
  <2>2. r \in 1..pc /\ LeadsTo(body, Lets, r, o)
    <3>1. o \in 1..(Len(body) + 1)
      BY <1>1, <1>14
    <3> QED  BY <1>10, <2>1, <3>1, StandsBuilder
  <2>3. s \in 1..pc /\ LeadsTo(body, Lets, s, o)
    BY <1>1, <1>12, <2>1
  <2>4. o \in 1..(Len(body) + 1) /\ chk.op # "alloca"
    BY <1>1, <1>14, <1>25
  <2> QED  BY <1>16, <1>23, <1>25, <1>27, <2>1, <2>2, <2>3, <2>4 DEF ExtFits
<1>29. BlocksMove(lab, newLab, new, ext, b)
  BY <1>8, <1>9, <1>20, <1>24, <1>28, JoinFits
<1>30. Ended(new, ins) /\ Ended(new, from) /\ Ended(new, y)
  <2>1. i.op \in Terminators /\ chk.op \in Terminators
    BY <1>4, <1>25 DEF Jump, Instr, Terminators
  <2> QED  BY <1>1, <1>16, <1>21, <2>1, EndedNow
<1>31. \A c \in DOMAIN new : c \notin DOMAIN blocks \/ c = ins => Ended(new, c) \/ c = b
  BY <1>1, <1>11, <1>21, <1>30
<1>32. Fits(newLab)'
  <2>1. DOMAIN ext \subseteq {ins} \cup Pending(Top) /\ \A c \in Pending(Top) : Ended(new, c)
    BY <1>12, <1>16, <1>30
  <2> QED  BY <1>9, <1>29, <1>31, <2>1, PopFits
<1> QED  BY <1>32

----------------------------------------------------------------------------
(* The body ends: the only block without an end is the builder's. *)
LEMMA EndFunctionFits ==
  ASSUME NEW lab, GenInv, Balanced(body), Fits(lab), EndFunction
  PROVE  Fits(lab)'
<1>1. /\ phase = "generating" /\ pc = Len(body) + 1 /\ Top.kind = "body" /\ phase' = "generated"
      /\ body' = body /\ blocks' = blocks
  BY DEF EndFunction
<1>2. CallsOK(calls, Len(body))
  BY DEF GenInv, WalkOK
<1>3. DOMAIN calls = {1} /\ calls[1].kind = "body"
  <2>1. Len(calls) \in Nat \ {0} /\ DOMAIN calls = 1..Len(calls)
    BY <1>2 DEF CallsOK
  <2>2. Len(calls) = 1
    BY <1>1, <1>2, <2>1 DEF CallsOK, Top
  <2> QED  BY <1>2, <2>1, <2>2 DEF CallsOK
<1>4. \A k \in DOMAIN calls : Pending(calls[k]) = {}
  BY <1>3 DEF Pending
<1>5. /\ CodeFits(lab, blocks, body) /\ PairsFit(blocks, body) /\ BuilderFits(lab, blocks, body, Len(body) + 1, ins)
      /\ OthersEnd(blocks, calls, ins)
  BY <1>1 DEF Fits
<1>6. \A b \in DOMAIN blocks : Ended(blocks, b) \/ BuilderFits(lab, blocks, body, Len(body) + 1, b)
  BY <1>4, <1>5 DEF OthersEnd
<1> QED  BY <1>1, <1>5, <1>6 DEF Fits

(* What the pass leaves of a block. *)
LEMMA CutIs ==
  ASSUME NEW n, NEW b \in Seq(InstrsOver(n)), NEW c, c = CutAfterTerminator(b)
  PROVE  /\ c \in Seq(InstrsOver(n))
         /\ \A k \in DOMAIN c : k \in DOMAIN b /\ c[k] = b[k] /\ \A j \in 1..k : j \in DOMAIN c
         /\ 1 \in DOMAIN b => 1 \in DOMAIN c
         /\ \A k \in DOMAIN c : c[k].op \notin Terminators /\ k + 1 \in DOMAIN b => k + 1 \in DOMAIN c
         /\ (\E k \in DOMAIN b : b[k].op \in Terminators) => \E k \in DOMAIN c : c[k].op \in Terminators
         /\ (\A k \in DOMAIN b : b[k].op \notin Terminators) => c = b
<1> DEFINE ends == {k \in DOMAIN b : b[k].op \in Terminators}
           I == InstrsOver(n)
<1>1. b \in Seq(I)
  OBVIOUS
<1> HIDE DEF I
<1>2. DOMAIN b = 1..Len(b) /\ Len(b) \in Nat
  BY ONLY <1>1
<1>3. CASE ends = {}
  <2>1. c = b
    BY <1>3 DEF CutAfterTerminator
  <2> QED  BY <1>1, <1>2, <1>3, <2>1 DEF I
<1>4. CASE ends # {}
  <2>1. ends \in SUBSET Nat
    BY <1>2
  <2>2. PICK last : last = Min(ends) /\ last \in ends /\ \A k \in ends : last <= k
    <3> HIDE DEF ends
    <3> QED  BY <1>4, <2>1, MinOfNaturals
  <2>3. c = SubSeq(b, 1, last)
    BY <1>4, <2>2 DEF CutAfterTerminator
  <2>4. last \in 1..Len(b) /\ b[last].op \in Terminators
    BY <1>2, <2>2
  <2>5. c \in Seq(I) /\ DOMAIN c = 1..last /\ \A k \in 1..last : c[k] = b[k]
    BY ONLY <1>1, <1>2, <2>3, <2>4
  <2>6. \A k \in DOMAIN c : c[k].op \notin Terminators => k # last /\ k + 1 \in 1..last
    BY <1>2, <2>4, <2>5
  <2>7. \A k \in DOMAIN c : k \in DOMAIN b /\ \A j \in 1..k : j \in DOMAIN c
    BY <1>2, <2>4, <2>5
  <2>8. 1 \in DOMAIN c /\ last \in DOMAIN c /\ c[last].op \in Terminators
    BY <1>2, <2>4, <2>5
  <2>9. ~ \A k \in DOMAIN b : b[k].op \notin Terminators
    BY <1>2, <2>4
  <2> QED  BY <2>5, <2>6, <2>7, <2>8, <2>9 DEF I
<1> QED  BY <1>3, <1>4

LEMMA RunPassFits ==
  ASSUME NEW lab, GenInv, Balanced(body), Fits(lab), RunPass
  PROVE  Fits(lab)'
<1>1. /\ phase = "generated" /\ phase' = "passed" /\ body' = body
  BY DEF RunPass
<1>2. PICK new : new = blocks'
  OBVIOUS
<1>3. DOMAIN new = DOMAIN blocks /\ \A b \in DOMAIN blocks : new[b] = CutAfterTerminator(blocks[b])
  BY <1>2 DEF RunPass
<1>4. Typed(blocks, Len(body))
  BY DEF GenInv, Sound, Typed
<1>5. ASSUME NEW b \in DOMAIN blocks
      PROVE  /\ \A k \in DOMAIN new[b] : k \in DOMAIN blocks[b] /\ new[b][k] = blocks[b][k] /\ \A j \in 1..k : j \in DOMAIN new[b]
             /\ 1 \in DOMAIN blocks[b] => 1 \in DOMAIN new[b]
             /\ \A k \in DOMAIN new[b] : new[b][k].op \notin Terminators /\ k + 1 \in DOMAIN blocks[b] => k + 1 \in DOMAIN new[b]
             /\ Ended(blocks, b) => Ended(new, b)
             /\ ~Ended(blocks, b) => new[b] = blocks[b]
  <2>1. PICK old : old = blocks[b]
    OBVIOUS
  <2>2. PICK c : c = CutAfterTerminator(old)
    OBVIOUS
  <2>3. new[b] = c
    BY <1>3, <2>1, <2>2
  <2>4. old \in Seq(InstrsOver(Len(body)))
    <3>1. PICK S : S = Seq(InstrsOver(Len(body)))
      OBVIOUS
    <3>2. blocks \in Seq(S)
      BY <1>4, <3>1 DEF Typed
    <3>3. blocks[b] \in S
      BY ONLY <3>2, b \in DOMAIN blocks
    <3> QED  BY <2>1, <3>1, <3>3
  <2>5. /\ \A k \in DOMAIN c : k \in DOMAIN old /\ c[k] = old[k] /\ \A j \in 1..k : j \in DOMAIN c
        /\ 1 \in DOMAIN old => 1 \in DOMAIN c
        /\ \A k \in DOMAIN c : c[k].op \notin Terminators /\ k + 1 \in DOMAIN old => k + 1 \in DOMAIN c
        /\ (\E k \in DOMAIN old : old[k].op \in Terminators) => \E k \in DOMAIN c : c[k].op \in Terminators
        /\ (\A k \in DOMAIN old : old[k].op \notin Terminators) => c = old
    BY ONLY <2>2, <2>4, CutIs
  <2> QED  BY <2>1, <2>3, <2>5 DEF Ended
<1>6. ASSUME NEW b \in DOMAIN blocks, NEW k \in DOMAIN new[b]
      PROVE  Stand(lab, new, b, k) = Stand(lab, blocks, b, k)
  <2>1. CASE k = 1
    BY <2>1 DEF Stand
  <2>2. CASE k # 1
    <3>1. k \in Nat
      BY <1>4, <1>5, <1>6, TypedBlocks
    <3>2. k - 1 \in 1..k
      <4>1. k \in DOMAIN blocks[b] /\ DOMAIN blocks[b] = 1..Count(blocks[b]) /\ Count(blocks[b]) \in Nat
        BY <1>4, <1>5, <1>6, TypedBlocks
      <4> QED  BY <2>2, <4>1
    <3>3. new[b][k - 1] = blocks[b][k - 1]
      BY <1>5, <1>6, <3>2
    <3> QED  BY <2>2, <3>3 DEF Stand
  <2> QED  BY <2>1, <2>2
<1>7. \A b \in DOMAIN blocks : IsCheck(blocks, b) => IsCheck(new, b)
  BY <1>5 DEF IsCheck
<1>8. CodeFits(lab, new, body)
  <2>1. CodeFits(lab, blocks, body)
    BY DEF Fits
  <2>2. ASSUME NEW b \in DOMAIN new, NEW k \in DOMAIN new[b]
        PROVE  /\ Stand(lab, new, b, k) \in 1..(Len(body) + 1)
               /\ InstrFits(lab, new, body, new[b][k], Stand(lab, new, b, k))
               /\ NoFits(lab, new, body, new[b][k])
    <3>1. b \in DOMAIN blocks /\ k \in DOMAIN blocks[b] /\ new[b][k] = blocks[b][k]
      BY <1>3, <1>5, <2>2
    <3>2. PICK i, r : i = blocks[b][k] /\ r = Stand(lab, blocks, b, k)
      OBVIOUS
    <3>3. r \in 1..(Len(body) + 1) /\ InstrFits(lab, blocks, body, i, r) /\ NoFits(lab, blocks, body, i)
      BY <2>1, <3>1, <3>2 DEF CodeFits
    <3>4. InstrFits(lab, new, body, i, r) /\ NoFits(lab, new, body, i)
      BY <1>3, <1>7, <3>3 DEF InstrFits, NoFits
    <3>5. Stand(lab, new, b, k) = r /\ new[b][k] = i
      BY <1>6, <3>1, <3>2, <2>2
    <3> QED  BY <3>3, <3>4, <3>5
  <2> QED  BY <1>3, <2>1, <2>2 DEF CodeFits
<1>9. PairsFit(new, body)
  <2>1. PairsFit(blocks, body)
    BY DEF Fits
  <2>2. ASSUME NEW b \in DOMAIN new, NEW k \in DOMAIN new[b]
        PROVE  /\ new[b][k].op = "alloca" => /\ k + 1 \in DOMAIN new[b] /\ new[b][k + 1].op = "do"
                                             /\ new[b][k + 1].at = new[b][k].at
               /\ new[b][k].op # "alloca" /\ new[b][k].at \in new[b][k].uses =>
                    k - 1 \in DOMAIN new[b] /\ new[b][k - 1].op = "alloca" /\ new[b][k - 1].at = new[b][k].at
    <3>1. b \in DOMAIN blocks /\ k \in DOMAIN blocks[b] /\ new[b][k] = blocks[b][k]
      BY <1>3, <1>5, <2>2
    <3>2. ASSUME new[b][k].op = "alloca"
          PROVE  k + 1 \in DOMAIN new[b] /\ new[b][k + 1].op = "do" /\ new[b][k + 1].at = new[b][k].at
      <4>1. k + 1 \in DOMAIN blocks[b] /\ blocks[b][k + 1].op = "do" /\ blocks[b][k + 1].at = blocks[b][k].at
        BY <2>1, <3>1, <3>2 DEF PairsFit
      <4>2. k + 1 \in DOMAIN new[b]
        BY <1>5, <3>1, <3>2, <4>1 DEF Terminators
      <4> QED  BY <1>5, <3>1, <4>1, <4>2
    <3>3. ASSUME new[b][k].op # "alloca", new[b][k].at \in new[b][k].uses
          PROVE  k - 1 \in DOMAIN new[b] /\ new[b][k - 1].op = "alloca" /\ new[b][k - 1].at = new[b][k].at
      <4>1. k - 1 \in DOMAIN blocks[b] /\ blocks[b][k - 1].op = "alloca" /\ blocks[b][k - 1].at = blocks[b][k].at
        BY <2>1, <3>1, <3>3 DEF PairsFit
      <4>2. k - 1 \in 1..k
        <5>1. DOMAIN blocks[b] = 1..Count(blocks[b]) /\ Count(blocks[b]) \in Nat
          BY <1>4, <3>1, TypedBlocks
        <5> QED  BY <3>1, <4>1, <5>1
      <4>3. k - 1 \in DOMAIN new[b]
        BY <1>5, <2>2, <3>1, <4>2
      <4> QED  BY <1>5, <3>1, <4>1, <4>3
    <3> QED  BY <3>2, <3>3
  <2> QED  BY <2>2 DEF PairsFit
<1>10. ASSUME NEW b \in DOMAIN new
       PROVE  Ended(new, b) \/ BuilderFits(lab, new, body, Len(body) + 1, b)
  <2>1. CASE Ended(blocks, b)
    BY <1>3, <1>5, <2>1
  <2>2. CASE ~Ended(blocks, b)
    <3>1. BuilderFits(lab, blocks, body, Len(body) + 1, b) /\ new[b] = blocks[b]
      BY <1>1, <1>3, <1>5, <2>2 DEF Fits
    <3>2. StandEnd(lab, new, b) = StandEnd(lab, blocks, b)
      BY <3>1 DEF StandEnd, Stand
    <3> QED  BY <3>1, <3>2 DEF BuilderFits
  <2> QED  BY <2>1, <2>2
<1>11. CodeFits(lab, blocks', body) /\ PairsFit(blocks', body)
       /\ \A b \in DOMAIN blocks' : Ended(blocks', b) \/ BuilderFits(lab, blocks', body, Len(body) + 1, b)
  BY <1>2, <1>8, <1>9, <1>10
<1> QED  BY <1>1, <1>11 DEF Fits

LEMMA InitFits == Init /\ Balanced(body) => FitInv
<1> SUFFICES ASSUME Init, Balanced(body)  PROVE FitInv
  OBVIOUS
<1>1. GenInv /\ Len(body) \in Nat /\ Stream(body)
  BY GenInit, BodyIsStream
<1>2. blocks = << <<>> >> /\ pc = 1 /\ calls = <<Call("body", 0, <<0, 0>>, 0)>> /\ ins = 1 /\ phase = "generating"
  BY DEF Init
<1>3. DOMAIN blocks = {1} /\ DOMAIN blocks[1] = {} /\ DOMAIN calls = {1} /\ Len(calls) = 1 /\ calls[1].kind = "body"
  BY <1>2 DEF Call
<1>4. Typed(blocks, Len(body))
  BY <1>1 DEF GenInv, Sound, Typed
<1>5. PICK lab : lab = [b \in {1} |-> 1]
  OBVIOUS
<1>6. CodeFits(lab, blocks, body) /\ PairsFit(blocks, body)
  <2>1. lab \in [DOMAIN blocks -> 1..(Len(body) + 1)] /\ lab[1] = 1
    BY <1>1, <1>3, <1>5
  <2> QED  BY <1>3, <2>1 DEF CodeFits, PairsFit
<1>7. BuilderFits(lab, blocks, body, 1, 1)
  <2>1. StandEnd(lab, blocks, 1) = 1
    <3>1. 1 \in DOMAIN blocks /\ DOMAIN blocks[1] = {}
      BY <1>3
    <3>2. StandEnd(lab, blocks, 1) = lab[1]
      BY ONLY <1>4, <3>1, EmptyStands
    <3> QED  BY <1>5, <3>2
  <2> QED  BY <2>1 DEF BuilderFits, LeadsTo
<1>8. WaitingFits(lab, blocks, body, 1, calls)
  <2>1. Depth(body, 1) = 0
    BY <1>1, DepthStarts
  <2> QED  BY <1>3, <2>1 DEF WaitingFits
<1>9. Apart(calls, 1) /\ OthersEnd(blocks, calls, 1)
  BY <1>3 DEF Apart, OthersEnd, Pending
<1>10. Fits(lab)
  BY <1>2, <1>6, <1>7, <1>8, <1>9 DEF Fits
<1> QED  BY <1>1, <1>10 DEF FitInv

LEMMA NextFits == FitInv /\ [Next]_vars => FitInv'
<1> SUFFICES ASSUME FitInv, [Next]_vars  PROVE FitInv'
  OBVIOUS
<1>1. GenInv' /\ body' = body
  <2>1. GenInv'
    BY GenNext DEF FitInv
  <2>2. body' = body
    BY DEF Next, VisitBody, vars, VisitArgument, VisitVariableDecl, VisitEffect, VisitReturn, VisitCompound, EndCompound,
           VisitIf, VisitElse, EndIf, EndIfElse, VisitWhile, EndWhile, EndFunction, RunPass
  <2> QED  BY <2>1, <2>2
<1>2. PICK lab : GenInv /\ Balanced(body) /\ Fits(lab)
  BY DEF FitInv
<1>3. \E newLab : Fits(newLab)'
  <2>1. CASE phase = "generating" /\ pc \in 1..Len(body)
    <3>1. Walking(lab)
      BY <1>2, <2>1 DEF Walking
    <3>2. CASE VisitArgument
      BY <3>1, <3>2, ArgumentFits
    <3>3. CASE VisitVariableDecl
      BY <3>1, <3>3, DeclFits
    <3>4. CASE VisitEffect \/ VisitReturn
      <4>1. PICK op \in {"do", "ret"} :
              /\ body' = body /\ phase' = phase /\ pc' = pc + 1 /\ calls' = calls /\ ins' = ins
              /\ blocks' = Append1(blocks, ins, Instr(op, pc, Uses, 0, 0)) /\ body[pc].op \notin Openers \cup Marks
              /\ op = "do" => body[pc].op \in {"assign", "use"}
              /\ op = "ret" => body[pc].op = "return"
        BY <3>4 DEF VisitEffect, VisitReturn, At, Openers, Marks
      <4> QED  BY <3>1, <4>1, InstructionFits
    <3>5. CASE VisitCompound
      BY <3>1, <3>5, CompoundFits
    <3>6. CASE VisitIf
      BY <3>1, <3>6, IfFits
    <3>7. CASE VisitWhile
      BY <3>1, <3>7, WhileFits
    <3>8. CASE VisitElse
      BY <3>1, <3>8, ElseFits
    <3>9. CASE EndCompound
      BY <3>1, <3>9, EndCompoundFits
    <3>10. CASE EndIf
      BY <3>1, <3>10, EndIfFits
    <3>11. CASE EndIfElse
      BY <3>1, <3>11, EndIfElseFits
    <3>12. CASE EndWhile
      BY <3>1, <3>12, EndWhileFits
    <3>13. CASE EndFunction \/ RunPass
      <4>1. CASE EndFunction
        BY <1>2, <4>1, EndFunctionFits
      <4>2. CASE RunPass
        BY <1>2, <4>2, RunPassFits
      <4> QED  BY <3>13, <4>1, <4>2
    <3>14. CASE UNCHANGED vars
      BY <1>2, <3>14 DEF vars, Fits
    <3> QED  BY <3>2, <3>3, <3>4, <3>5, <3>6, <3>7, <3>8, <3>9, <3>10, <3>11, <3>12, <3>13, <3>14 DEF Next, VisitBody
  <2>2. CASE ~(phase = "generating" /\ pc \in 1..Len(body))
    <3>1. EndFunction \/ RunPass \/ UNCHANGED vars
      BY <2>2 DEF Next, VisitBody, At, VisitArgument, VisitVariableDecl, VisitEffect, VisitReturn, VisitCompound, EndCompound,
                  VisitIf, VisitElse, EndIf, EndIfElse, VisitWhile, EndWhile
    <3>2. CASE UNCHANGED vars
      BY <1>2, <3>2 DEF vars, Fits
    <3> QED  BY <1>2, <3>1, <3>2, EndFunctionFits, RunPassFits
  <2> QED  BY <2>1, <2>2
<1> QED  BY <1>1, <1>2, <1>3 DEF FitInv

----------------------------------------------------------------------------
(* A running call at instruction i of block b: it has passed no terminator *)
(* in this block, and what is allocated includes all that is known there.  *)
RunsAt(lab, code, text, b, i, allocated) ==
  /\ b \in DOMAIN code /\ i \in 1..(Count(code[b]) + 1)
  /\ \A k \in 1..(i - 1) : code[b][k].op \notin Terminators
  /\ Known(text, Stand(lab, code, b, i)) \subseteq allocated
  /\ i # 1 /\ code[b][i - 1].op = "alloca" => code[b][i - 1].at \in allocated

RunFits(lab) ==
  /\ result \in {"none", "running", "returned"}
  /\ result # "none" => phase = "passed"
  /\ result = "running" => RunsAt(lab, blocks, body, block, index, live)

RunInv == GenInv /\ Balanced(body) /\ \E lab : Fits(lab) /\ RunFits(lab)

(* Code that has passed, as far as its run needs to know it. *)
Passed(lab) ==
  /\ Len(body) \in Nat /\ Stream(body) /\ Balanced(body) /\ Typed(blocks, Len(body))
  /\ CodeFits(lab, blocks, body) /\ PairsFit(blocks, body)
  /\ \A b \in DOMAIN blocks : Ended(blocks, b) \/ BuilderFits(lab, blocks, body, Len(body) + 1, b)
  /\ \A b \in DOMAIN blocks : \A k \in DOMAIN blocks[b] :
       blocks[b][k].op = "cond" => blocks[b][k].no # 0

LEMMA PassedFacts ==
  ASSUME NEW lab, GenInv, Balanced(body), Fits(lab), phase = "passed"
  PROVE  Passed(lab)
<1>1. Len(body) \in Nat /\ Stream(body)
  BY BodyIsStream
<1>2. Typed(blocks, Len(body))
  BY DEF GenInv, Sound, Typed
<1>3. /\ CodeFits(lab, blocks, body) /\ PairsFit(blocks, body)
      /\ \A b \in DOMAIN blocks : Ended(blocks, b) \/ BuilderFits(lab, blocks, body, Len(body) + 1, b)
  BY DEF Fits
<1>4. ASSUME NEW b \in DOMAIN blocks, NEW k \in DOMAIN blocks[b], blocks[b][k].op = "cond"
      PROVE  blocks[b][k].no # 0
  <2>1. CompleteBut(blocks[b][k], Count(blocks), <<b, k>>, OpenOf(calls)) /\ OpenOf(calls) = {}
    BY DEF GenInv, Sound
  <2>2. Count(blocks) \in Nat
    BY <1>2, TypedBlocks
  <2> QED  BY <1>4, <2>1, <2>2 DEF CompleteBut
<1> QED  BY <1>1, <1>2, <1>3, <1>4 DEF Passed

(* What is known behind a position is known there, or is its declaration.  *)
LEMMA KnownNext ==
  ASSUME NEW text, Len(text) \in Nat, NEW p \in 1..Len(text)
  PROVE  /\ Known(text, p + 1) \subseteq Known(text, p) \cup {p}
         /\ text[p].op # "let" => Known(text, p + 1) \subseteq Known(text, p)
  BY VisibleNext DEF Known, Lets

LEMMA KnownLeads ==
  ASSUME NEW text, NEW q, NEW p, LeadsTo(text, Lets, q, p)
  PROVE  Known(text, p) \subseteq Known(text, q)
  BY DEF LeadsTo, Known

(* What the instruction i finds, to which control has come at r. *)
ComesTo(lab, b, k, i, r, allocated) ==
  /\ i \in InstrsOver(Len(body)) /\ r \in 1..(Len(body) + 1)
  /\ InstrFits(lab, blocks, body, i, r) /\ NoFits(lab, blocks, body, i)
  /\ i.op # "jump" => i.at \in 1..Len(body) /\ Known(body, i.at) \subseteq allocated
  /\ i.uses \subseteq allocated
  /\ i.op = "cond" => i.no # 0

LEMMA ComesThere ==
  ASSUME NEW lab, Passed(lab), NEW allocated, NEW b, NEW k, RunsAt(lab, blocks, body, b, k, allocated), k \in DOMAIN blocks[b]
  PROVE  ComesTo(lab, b, k, blocks[b][k], Stand(lab, blocks, b, k), allocated)
<1>1. /\ b \in DOMAIN blocks /\ Known(body, Stand(lab, blocks, b, k)) \subseteq allocated
      /\ k # 1 /\ blocks[b][k - 1].op = "alloca" => blocks[b][k - 1].at \in allocated
  BY DEF RunsAt
<1>2. PICK i, r : i = blocks[b][k] /\ r = Stand(lab, blocks, b, k)
  OBVIOUS
<1>3. Len(body) \in Nat /\ Typed(blocks, Len(body)) /\ Count(blocks[b]) \in Nat /\ DOMAIN blocks[b] = 1..Count(blocks[b])
      /\ i \in InstrsOver(Len(body))
  BY <1>1, <1>2, TypedBlocks DEF Passed
<1>4. r \in 1..(Len(body) + 1) /\ InstrFits(lab, blocks, body, i, r) /\ NoFits(lab, blocks, body, i)
  BY <1>1, <1>2 DEF Passed, CodeFits
<1>5. i.op = "cond" => i.no # 0
  BY <1>1, <1>2 DEF Passed
<1>6. ASSUME i.op # "jump"
      PROVE  i.at \in 1..Len(body) /\ Known(body, i.at) \subseteq allocated
  <2>1. i.at \in r..Len(body) /\ LeadsTo(body, Lets, r, i.at)
    BY <1>4, <1>6 DEF InstrFits
  <2>2. i.at \in 1..Len(body)
    BY <1>3, <1>4, <2>1
  <2> QED  BY <1>1, <1>2, <2>1, <2>2, KnownLeads
<1>7. i.uses \subseteq allocated
  <2>1. CASE i.op = "jump"
    BY <1>4, <2>1 DEF InstrFits
  <2>2. CASE i.op # "jump"
    <3>1. i.uses \subseteq allocated \cup {i.at}
      BY <1>4, <1>6, <2>2 DEF InstrFits
    <3>2. CASE i.at \in i.uses
      <4>1. i.op # "alloca"
        BY <1>4, <3>2 DEF InstrFits
      <4>2. k - 1 \in DOMAIN blocks[b] /\ blocks[b][k - 1].op = "alloca" /\ blocks[b][k - 1].at = i.at
        BY <1>1, <1>2, <3>2, <4>1 DEF Passed, PairsFit
      <4>3. k # 1
        BY <1>3, <4>2
      <4> QED  BY <1>1, <3>1, <4>2, <4>3
    <3> QED  BY <3>1, <3>2
  <2> QED  BY <2>1, <2>2
<1>8. ComesTo(lab, b, k, i, r, allocated)
  BY <1>3, <1>4, <1>5, <1>6, <1>7 DEF ComesTo
<1> QED  BY <1>2, <1>8

(* Behind an instruction that does not end its block one more declaration  *)
(* may be known; then its allocation has run.                              *)
LEMMA RunsOn ==
  ASSUME NEW lab, Passed(lab), NEW allocated, NEW b, NEW k, RunsAt(lab, blocks, body, b, k, allocated), k \in DOMAIN blocks[b],
         NEW i, i = blocks[b][k], i.op \in {"alloca", "do"},
         NEW after, after = IF i.op = "alloca" THEN allocated \cup {i.at} ELSE allocated
  PROVE  /\ RunsAt(lab, blocks, body, b, k + 1, after)
         /\ Stand(lab, blocks, b, k + 1) = IF i.op = "alloca" THEN i.at ELSE i.at + 1
<1>1. /\ i \in InstrsOver(Len(body)) /\ InstrFits(lab, blocks, body, i, Stand(lab, blocks, b, k))
      /\ i.at \in 1..Len(body) /\ Known(body, i.at) \subseteq allocated /\ i.uses \subseteq allocated
  BY ComesThere DEF ComesTo
<1>2. /\ b \in DOMAIN blocks /\ Len(body) \in Nat /\ Count(blocks[b]) \in Nat /\ DOMAIN blocks[b] = 1..Count(blocks[b])
      /\ \A j \in 1..(k - 1) : blocks[b][j].op \notin Terminators
  BY TypedBlocks DEF RunsAt, Passed
<1>3. k \in 1..Count(blocks[b]) /\ k + 1 # 1 /\ (k + 1) - 1 = k
  BY <1>2
<1>4. Stand(lab, blocks, b, k + 1) = IF i.op = "alloca" THEN i.at ELSE i.at + 1
  BY <1>3 DEF Stand
<1>5. Known(body, Stand(lab, blocks, b, k + 1)) \subseteq after
  <2>1. CASE i.op = "alloca"
    BY <1>1, <1>4, <2>1
  <2>2. CASE i.op = "do"
    <3>1. body[i.at].op # "let" \/ i.at \in allocated
      BY <1>1, <2>2 DEF InstrFits
    <3>2. /\ Known(body, i.at + 1) \subseteq Known(body, i.at) \cup {i.at}
          /\ body[i.at].op # "let" => Known(body, i.at + 1) \subseteq Known(body, i.at)
      BY <1>1, <1>2, KnownNext
    <3> QED  BY <1>1, <1>4, <2>2, <3>1, <3>2
  <2> QED  BY <2>1, <2>2
<1>6. \A j \in 1..((k + 1) - 1) : blocks[b][j].op \notin Terminators
  <2>1. i.op \notin Terminators
    BY DEF Terminators
  <2>2. \A j \in 1..((k + 1) - 1) : j \in 1..(k - 1) \/ j = k
    BY <1>3
  <2> QED  BY <1>2, <2>1, <2>2
<1>7. k + 1 \in 1..(Count(blocks[b]) + 1)
  BY <1>2, <1>3
<1>8. blocks[b][(k + 1) - 1].op = "alloca" => blocks[b][(k + 1) - 1].at \in after
  BY <1>3
<1> QED  BY <1>2, <1>4, <1>5, <1>6, <1>7, <1>8 DEF RunsAt

(* A jump goes to a block where nothing is known that was not before.      *)
LEMMA RunsToBlock ==
  ASSUME NEW lab, Passed(lab), NEW allocated, NEW b, NEW k, RunsAt(lab, blocks, body, b, k, allocated), k \in DOMAIN blocks[b],
         NEW i, i = blocks[b][k], i.op \in {"jump", "cond"}, NEW t \in Targets(i)
  PROVE  RunsAt(lab, blocks, body, t, 1, allocated) /\ t \in DOMAIN blocks
<1>1. ComesTo(lab, b, k, i, Stand(lab, blocks, b, k), allocated)
  BY ComesThere
<1>2. Len(body) \in Nat /\ Stream(body) /\ Balanced(body) /\ Known(body, Stand(lab, blocks, b, k)) \subseteq allocated
  BY DEF Passed, RunsAt
<1>3. t \in DOMAIN blocks /\ Known(body, lab[t]) \subseteq allocated
  <2>1. CASE i.op = "jump"
    <3>1. t = i.yes
      BY <2>1 DEF Targets
    <3>2. t \in DOMAIN blocks /\ LeadsTo(body, Lets, Stand(lab, blocks, b, k), lab[t])
      BY <1>1, <2>1, <3>1 DEF ComesTo, InstrFits
    <3> QED  BY <1>2, <3>2, KnownLeads
  <2>2. CASE i.op = "cond"
    <3>1. PICK p : p = i.at
      OBVIOUS
    <3>2. /\ p \in 1..Len(body) /\ Known(body, p) \subseteq allocated /\ i.no # 0
          /\ body[p].op \in {"if", "ifelse", "while"} /\ i.yes \in DOMAIN blocks /\ lab[i.yes] = p + 1
      BY <1>1, <2>2, <3>1 DEF ComesTo, InstrFits
    <3>3. i.no \in DOMAIN blocks /\ lab[i.no] = ListEnd(body, p + 1) + 1
      BY <1>1, <2>2, <3>1, <3>2 DEF ComesTo, NoFits
    <3>4. Known(body, p + 1) \subseteq allocated
      BY <1>2, <3>2, KnownNext
    <3>5. Known(body, ListEnd(body, p + 1) + 1) \subseteq allocated
      <4>1. Visible(body, Lets, ListEnd(body, p + 1) + 1) \subseteq Visible(body, Lets, p)
        <5>1. Lets \subseteq {"arg", "let"} /\ body[p].op \in Openers \cup {"else"}
          BY <3>2 DEF Lets, Openers
        <5> QED  BY <1>2, <3>2, <5>1, VisibleBehind
      <4> QED  BY <3>2, <4>1 DEF Known
    <3>6. t = i.yes \/ t = i.no
      BY <2>2 DEF Targets
    <3> QED  BY <3>2, <3>3, <3>4, <3>5, <3>6
  <2> QED  BY <2>1, <2>2
<1>4. Stand(lab, blocks, t, 1) = lab[t]
  BY DEF Stand
<1>5. 1 \in 1..(Count(blocks[t]) + 1)
  <2>1. Count(blocks[t]) \in Nat
    BY <1>3, TypedBlocks DEF Passed
  <2> QED  BY <2>1
<1> QED  BY <1>3, <1>4, <1>5 DEF RunsAt

(* A call begins at the beginning of the body, its arguments allocated.    *)
LEMMA RunsFromStart ==
  ASSUME NEW lab, Passed(lab), NEW allocated, allocated = {p \in 1..Len(body) : body[p].op = "arg"}
  PROVE  RunsAt(lab, blocks, body, 1, 1, allocated) /\ Stand(lab, blocks, 1, 1) = 1
<1>1. 1 \in DOMAIN blocks /\ lab[1] = 1 /\ Typed(blocks, Len(body))
  BY DEF Passed, CodeFits
<1>2. Stand(lab, blocks, 1, 1) = 1
  BY <1>1 DEF Stand
<1>3. Known(body, 1) \subseteq allocated
  BY DEF Known, Visible
<1>4. 1 \in 1..(Count(blocks[1]) + 1)
  <2>1. Count(blocks[1]) \in Nat
    BY <1>1, TypedBlocks
  <2> QED  BY <2>1
<1> QED  BY <1>1, <1>2, <1>3, <1>4 DEF RunsAt

----------------------------------------------------------------------------
(* What a step of the module is to the function: one of the generator or   *)
(* the pass, one of a call, or none.                                       *)
RunStep ==
  \/ Next /\ UNCHANGED runVars
  \/ Run
  \/ UNCHANGED allVars

LEMMA ModuleSteps == [ModuleNext]_moduleVars => RunStep
<1> SUFFICES ASSUME [ModuleNext]_moduleVars  PROVE RunStep
  OBVIOUS
<1>1. CASE GenGlobalVariableDefinitions \/ VisitGlobalVariableDecl \/ VisitFunctionDecl \/ IRPrint \/ UNCHANGED moduleVars
  <2>1. UNCHANGED allVars
    BY <1>1 DEF GenGlobalVariableDefinitions, VisitGlobalVariableDecl, VisitFunctionDecl, IRPrint, moduleVars
  <2> QED  BY <2>1 DEF RunStep
<1>2. CASE VisitFunctionParamDeclaration
  <2>1. UNCHANGED runVars /\ (UNCHANGED vars \/ VisitArgument)
    BY <1>2 DEF VisitFunctionParamDeclaration
  <2>2. UNCHANGED vars /\ UNCHANGED runVars => UNCHANGED allVars
    BY DEF vars, runVars, allVars
  <2> QED  BY <2>1, <2>2 DEF RunStep, Next
<1>3. CASE Generate
  BY <1>3 DEF Generate, RunStep, Next
<1>4. CASE CallFunction
  BY <1>4 DEF CallFunction, RunStep
<1> QED  BY <1>1, <1>2, <1>3, <1>4 DEF ModuleNext

(* While code is generated nothing runs. *)
LEMMA NextIsBefore == Next => phase \in {"generating", "generated"} /\ body' = body
  BY DEF Next, VisitBody, VisitArgument, VisitVariableDecl, VisitEffect, VisitReturn, VisitCompound, EndCompound,
         VisitIf, VisitElse, EndIf, EndIfElse, VisitWhile, EndWhile, EndFunction, RunPass, At

(* Where the call is after a step of its own. *)
LEMMA RunMoves ==
  ASSUME NEW lab, GenInv, Balanced(body), Fits(lab), RunFits(lab), Run
  PROVE  RunFits(lab)' /\ UNCHANGED vars /\ Passed(lab)
<1>1. UNCHANGED vars /\ phase = "passed"
  <2>1. UNCHANGED vars
    BY DEF Run, Enter, Execute, ExecuteJump, ExecuteReturn, vars
  <2>2. result = "running" => phase = "passed"
    BY DEF RunFits
  <2> QED  BY <2>1, <2>2 DEF Run, Enter, Execute, ExecuteJump, ExecuteReturn, Executing
<1>2. Passed(lab)
  BY <1>1, PassedFacts
<1>3. UNCHANGED <<body, blocks, phase>>
  BY <1>1 DEF vars
<1>4. CASE Enter
  <2>1. block' = 1 /\ index' = 1 /\ result' = "running" /\ live' = {p \in 1..Len(body) : body[p].op = "arg"}
    BY <1>4 DEF Enter
  <2>2. RunsAt(lab, blocks, body, 1, 1, live')
    BY <1>2, <2>1, RunsFromStart
  <2> QED  BY <1>1, <1>2, <1>3, <2>1, <2>2 DEF RunFits
<1>5. CASE Execute
  <2>1. PICK i : i = Current
    OBVIOUS
  <2>2. /\ result = "running" /\ index \in DOMAIN blocks[block] /\ i = blocks[block][index] /\ i.op \in {"alloca", "do"}
        /\ index' = index + 1 /\ UNCHANGED <<block, result>>
        /\ live' = IF i.op = "alloca" THEN live \cup {i.at} ELSE live
    BY <1>5, <2>1 DEF Execute, Executing, Current
  <2>3. RunsAt(lab, blocks, body, block, index, live)
    BY <2>2 DEF RunFits
  <2>4. RunsAt(lab, blocks, body, block, index + 1, live')
    BY <1>2, <2>2, <2>3, RunsOn
  <2> QED  BY <1>1, <1>2, <1>3, <2>2, <2>4 DEF RunFits
<1>6. CASE ExecuteJump
  <2>1. PICK i : i = Current
    OBVIOUS
  <2>2. /\ result = "running" /\ index \in DOMAIN blocks[block] /\ i = blocks[block][index] /\ i.op \in {"jump", "cond"}
        /\ block' \in Targets(i) /\ index' = 1 /\ UNCHANGED <<live, result>>
    BY <1>6, <2>1 DEF ExecuteJump, Executing, Current
  <2>3. RunsAt(lab, blocks, body, block, index, live)
    BY <2>2 DEF RunFits
  <2>4. RunsAt(lab, blocks, body, block', 1, live)
    BY <1>2, <2>2, <2>3, RunsToBlock
  <2> QED  BY <1>1, <1>2, <1>3, <2>2, <2>4 DEF RunFits
<1>7. CASE ExecuteReturn
  <2>1. result' = "returned"
    BY <1>7 DEF ExecuteReturn
  <2> QED  BY <1>1, <1>2, <1>3, <2>1 DEF RunFits
<1> QED  BY <1>4, <1>5, <1>6, <1>7 DEF Run

(* Generation and the run keep the invariant. *)
LEMMA NextRuns == RunInv /\ RunStep => RunInv'
<1> SUFFICES ASSUME GenInv, Balanced(body), RunStep, NEW lab, Fits(lab), RunFits(lab)
             PROVE  RunInv'
  BY DEF RunInv
<1>1. FitInv
  BY DEF FitInv
<1>2. CASE Next /\ UNCHANGED runVars
  <2>1. result = "none" /\ result' = "none"
    BY <1>2, NextIsBefore DEF RunFits, runVars
  <2>2. FitInv'
    BY <1>1, <1>2, NextFits
  <2>3. GenInv' /\ Balanced(body)' /\ \E newLab : Fits(newLab)'
    BY <2>2 DEF FitInv
  <2>4. PICK newLab : Fits(newLab)'
    BY <2>3
  <2>5. RunFits(newLab)'
    BY <2>1 DEF RunFits
  <2> QED  BY <2>3, <2>4, <2>5 DEF RunInv
<1>3. CASE Run
  <2>1. RunFits(lab)' /\ UNCHANGED vars
    BY <1>3, RunMoves
  <2>2. GenInv' /\ Balanced(body)'
    <3>1. FitInv'
      BY <1>1, <2>1, NextFits
    <3> QED  BY <3>1 DEF FitInv
  <2>3. Fits(lab)'
    BY <2>1 DEF vars, Fits
  <2> QED  BY <2>1, <2>2, <2>3 DEF RunInv
<1>4. CASE UNCHANGED allVars
  <2>1. UNCHANGED vars /\ UNCHANGED runVars
    BY <1>4 DEF allVars, vars, runVars
  <2>2. GenInv' /\ Balanced(body)'
    <3>1. FitInv'
      BY <1>1, <2>1, NextFits
    <3> QED  BY <3>1 DEF FitInv
  <2>3. Fits(lab)' /\ RunFits(lab)'
    BY <2>1 DEF vars, runVars, Fits, RunFits
  <2> QED  BY <2>2, <2>3 DEF RunInv
<1> QED  BY <1>2, <1>3, <1>4 DEF RunStep

(* It holds in the beginning. *)
LEMMA InitRuns == RunInit /\ Balanced(body) => RunInv
<1> SUFFICES ASSUME RunInit, Balanced(body)  PROVE RunInv
  OBVIOUS
<1>1. FitInv /\ result = "none"
  BY InitFits DEF RunInit
<1>2. PICK lab : Fits(lab)
  BY <1>1 DEF FitInv
<1>3. RunFits(lab)
  BY <1>1 DEF RunFits
<1> QED  BY <1>1, <1>2, <1>3 DEF RunInv, FitInv

(* What an instruction uses is allocated when it runs. *)
LEMMA RunningHasUses == RunInv => UsesFollowAllocations
<1> SUFFICES ASSUME GenInv, Balanced(body), NEW lab, Fits(lab), RunFits(lab),
                    result = "running", index \in DOMAIN blocks[block]
             PROVE  Current.uses \subseteq live
  BY DEF RunInv, UsesFollowAllocations
<1>1. Passed(lab) /\ RunsAt(lab, blocks, body, block, index, live)
  BY PassedFacts DEF RunFits
<1>2. ComesTo(lab, block, index, blocks[block][index], Stand(lab, blocks, block, index), live)
  BY <1>1, ComesThere
<1> QED  BY <1>2 DEF ComesTo, Current

----------------------------------------------------------------------------
(* The statement that takes effect next, from an instruction on, is the    *)
(* one control arrives at in the source from where the instruction stands. *)

(* Where control arrives from the instruction i, which stands at r.        *)
InstrLeads(lab, b, k, i, r) ==
  /\ r \in 1..(Len(body) + 1)
  /\ i.op = "jump" => /\ i.yes \in DOMAIN blocks /\ Arrive(body, r) = Arrive(body, lab[i.yes])
                      /\ DOMAIN blocks[i.yes] = {} => Arrive(body, r) = Len(body) + 1
                      /\ r < lab[i.yes] \/ IsCheck(blocks, i.yes)
  /\ i.op # "jump" => i.at \in 1..Len(body) /\ Arrive(body, r) = i.at
  /\ i.op = "alloca" => /\ k + 1 \in DOMAIN blocks[b] /\ blocks[b][k + 1].op = "do"
                        /\ blocks[b][k + 1].at = i.at

(* The end of the body is where control arrives at it. *)
LEMMA EndArrives ==
  ASSUME NEW lab, Passed(lab)
  PROVE  Arrive(body, Len(body) + 1) = Len(body) + 1
<1>1. Len(body) \in Nat /\ Stream(body) /\ Balanced(body)
  BY DEF Passed
<1>2. Len(body) + 1 \in 1..(Len(body) + 1)
  BY <1>1
<1> QED  BY <1>1, <1>2, ArriveIs

LEMMA InstrArrives ==
  ASSUME NEW lab, Passed(lab), NEW b \in DOMAIN blocks, NEW k \in DOMAIN blocks[b]
  PROVE  InstrLeads(lab, b, k, blocks[b][k], Stand(lab, blocks, b, k))
<1>1. PICK i, r : i = blocks[b][k] /\ r = Stand(lab, blocks, b, k)
  OBVIOUS
<1>2. /\ Len(body) \in Nat /\ Stream(body) /\ Balanced(body) /\ Typed(blocks, Len(body))
      /\ i \in InstrsOver(Len(body))
  BY <1>1, TypedBlocks DEF Passed
<1>3. r \in 1..(Len(body) + 1) /\ InstrFits(lab, blocks, body, i, r)
  BY <1>1 DEF Passed, CodeFits
<1>4. ASSUME i.op = "jump"
      PROVE  /\ i.yes \in DOMAIN blocks /\ Arrive(body, r) = Arrive(body, lab[i.yes])
             /\ DOMAIN blocks[i.yes] = {} => Arrive(body, r) = Len(body) + 1
             /\ r < lab[i.yes] \/ IsCheck(blocks, i.yes)
  <2>1. PICK t : t = i.yes
    OBVIOUS
  <2>2. t \in DOMAIN blocks /\ Arrive(body, r) = Arrive(body, lab[t]) /\ (r < lab[t] \/ IsCheck(blocks, t))
    BY <1>3, <1>4, <2>1 DEF InstrFits, LeadsTo
  <2>3. ASSUME DOMAIN blocks[t] = {}
        PROVE  Arrive(body, lab[t]) = Len(body) + 1
    <3>1. ~Ended(blocks, t)
      BY <2>3 DEF Ended
    <3>2. BuilderFits(lab, blocks, body, Len(body) + 1, t)
      BY <2>2, <3>1 DEF Passed
    <3>3. StandEnd(lab, blocks, t) = lab[t]
      BY <1>2, <2>2, <2>3, EmptyStands
    <3> QED  BY <3>2, <3>3, EndArrives DEF BuilderFits, LeadsTo
  <2> QED  BY <2>1, <2>2, <2>3
<1>5. ASSUME i.op # "jump"
      PROVE  i.at \in 1..Len(body) /\ Arrive(body, r) = i.at
  <2>1. i.at \in r..Len(body) /\ Arrive(body, r) = Arrive(body, i.at)
    BY <1>3, <1>5 DEF InstrFits, LeadsTo
  <2>2. i.at \in 1..Len(body) /\ i.at \in 1..(Len(body) + 1) /\ i.at # Len(body) + 1
    BY <1>2, <1>3, <2>1
  <2>3. i.op \in {"alloca", "do", "ret", "cond"}
    BY <1>2, <1>5 DEF InstrsOver, Terminators
  <2>4. body[i.at].op \in {"let", "assign", "use", "return", "if", "ifelse", "while"}
    BY <1>3, <2>3 DEF InstrFits
  <2>5. Arrive(body, i.at) = i.at
    BY <1>2, <2>2, <2>4, ArriveIs
  <2> QED  BY <2>1, <2>2, <2>5
<1>6. i.op = "alloca" => /\ k + 1 \in DOMAIN blocks[b] /\ blocks[b][k + 1].op = "do"
                         /\ blocks[b][k + 1].at = i.at
  BY <1>1 DEF Passed, PairsFit
<1>7. InstrLeads(lab, b, k, i, r)
  BY <1>3, <1>4, <1>5, <1>6 DEF InstrLeads
<1> QED  BY <1>1, <1>7

(* What the recursive function in NextEffect computes. *)
Places == UNION {{c} \X (1..(Len(blocks[c]) + 1)) : c \in DOMAIN blocks}

Follows(f) ==
  f = [place \in Places |->
         LET code == blocks[place[1]]
             k == place[2]
         IN IF k > Len(code) THEN Len(body) + 1
            ELSE IF code[k].op = "jump" THEN f[<<code[k].yes, 1>>]
            ELSE IF code[k].op = "alloca" THEN f[<<place[1], k + 1>>]
            ELSE code[k].at]

(* The value for instruction k of block b, by the others. *)
Value(f, b, k) ==
  IF k > Count(blocks[b]) THEN Len(body) + 1
  ELSE IF blocks[b][k].op = "jump" THEN f[<<blocks[b][k].yes, 1>>]
  ELSE IF blocks[b][k].op = "alloca" THEN f[<<b, k + 1>>]
  ELSE blocks[b][k].at

LEMMA PlacesAre ==
  /\ \A b \in DOMAIN blocks : \A k \in 1..(Count(blocks[b]) + 1) :
       <<b, k>> \in Places /\ <<b, k>>[1] = b /\ <<b, k>>[2] = k
  /\ \A place \in Places : /\ place = <<place[1], place[2]>> /\ place[1] \in DOMAIN blocks
                           /\ place[2] \in 1..(Count(blocks[place[1]]) + 1)
<1>1. ASSUME NEW b \in DOMAIN blocks, NEW k \in 1..(Count(blocks[b]) + 1)
      PROVE  <<b, k>> \in Places /\ <<b, k>>[1] = b /\ <<b, k>>[2] = k
  <2>1. <<b, k>> \in {b} \X (1..(Len(blocks[b]) + 1))
    BY DEF Count
  <2> QED  BY <2>1 DEF Places
<1>2. ASSUME NEW place \in Places
      PROVE  /\ place = <<place[1], place[2]>> /\ place[1] \in DOMAIN blocks
             /\ place[2] \in 1..(Count(blocks[place[1]]) + 1)
  <2>1. PICK c \in DOMAIN blocks : place \in {c} \X (1..(Len(blocks[c]) + 1))
    BY DEF Places
  <2> QED  BY <2>1 DEF Count
<1> QED  BY <1>1, <1>2

LEMMA FollowsValue ==
  ASSUME NEW f, Follows(f), NEW b \in DOMAIN blocks, NEW k \in 1..(Count(blocks[b]) + 1)
  PROVE  f[<<b, k>>] = Value(f, b, k)
<1>1. <<b, k>> \in Places /\ <<b, k>>[1] = b /\ <<b, k>>[2] = k
  BY PlacesAre
<1> QED  BY <1>1 DEF Follows, Value, Count

(* There is such a function, so the recursive definition of NextEffect is  *)
(* what its equations say.                                                 *)
LEMMA FollowsExists ==
  ASSUME NEW lab, Passed(lab)
  PROVE  \E f : Follows(f)
<1>1. PICK n : n = Len(body) + 1
  OBVIOUS
<1>2. PICK f : f = [place \in Places |-> IF place[2] > Count(blocks[place[1]]) THEN n
                                         ELSE Arrive(body, Stand(lab, blocks, place[1], place[2]))]
  OBVIOUS
<1>3. ASSUME NEW b \in DOMAIN blocks, NEW k \in 1..(Count(blocks[b]) + 1)
      PROVE  f[<<b, k>>] = IF k > Count(blocks[b]) THEN n ELSE Arrive(body, Stand(lab, blocks, b, k))
  <2>1. <<b, k>> \in Places /\ <<b, k>>[1] = b /\ <<b, k>>[2] = k
    BY PlacesAre
  <2> QED  BY <1>2, <2>1
<1>4. ASSUME NEW b \in DOMAIN blocks, NEW k \in 1..(Count(blocks[b]) + 1)
      PROVE  f[<<b, k>>] = Value(f, b, k)
  <2>1. \A c \in DOMAIN blocks : Count(blocks[c]) \in Nat /\ DOMAIN blocks[c] = 1..Count(blocks[c])
    BY TypedBlocks DEF Passed
  <2>2. CASE k > Count(blocks[b])
    BY <1>1, <1>3, <2>2 DEF Value
  <2>3. CASE ~(k > Count(blocks[b]))
    <3>1. PICK i, r : i = blocks[b][k] /\ r = Stand(lab, blocks, b, k)
      OBVIOUS
    <3>2. k \in DOMAIN blocks[b] /\ f[<<b, k>>] = Arrive(body, r)
      BY <1>3, <2>1, <2>3, <3>1
    <3>3. InstrLeads(lab, b, k, i, r)
      BY <3>1, <3>2, InstrArrives
    <3>4. CASE i.op = "jump"
      <4>1. PICK t \in DOMAIN blocks : t = i.yes
        BY <3>3, <3>4 DEF InstrLeads
      <4>2. 1 \in 1..(Count(blocks[t]) + 1) /\ (1 > Count(blocks[t]) => DOMAIN blocks[t] = {})
        BY <2>1
      <4>3. f[<<t, 1>>] = IF 1 > Count(blocks[t]) THEN n ELSE Arrive(body, lab[t])
        BY <1>3, <4>2 DEF Stand
      <4>4. f[<<t, 1>>] = Arrive(body, r)
        BY <1>1, <3>3, <3>4, <4>1, <4>2, <4>3 DEF InstrLeads
      <4> QED  BY <2>3, <3>1, <3>2, <3>4, <4>1, <4>4 DEF Value
    <3>5. CASE i.op = "alloca"
      <4>1. k + 1 \in DOMAIN blocks[b] /\ k + 1 # 1 /\ (k + 1) - 1 = k
        BY <2>1, <3>2, <3>3, <3>5 DEF InstrLeads
      <4>2. k + 1 \in 1..(Count(blocks[b]) + 1) /\ ~(k + 1 > Count(blocks[b]))
        BY <2>1, <4>1
      <4>3. f[<<b, k + 1>>] = Arrive(body, i.at)
        BY <1>3, <3>1, <3>5, <4>1, <4>2 DEF Stand
      <4>4. Arrive(body, i.at) = i.at /\ Arrive(body, r) = i.at
        <5>1. PICK j, s : j = blocks[b][k + 1] /\ s = Stand(lab, blocks, b, k + 1)
          OBVIOUS
        <5>2. InstrLeads(lab, b, k + 1, j, s)
          BY <4>1, <5>1, InstrArrives
        <5>3. j.op = "do" /\ j.at = i.at /\ Arrive(body, r) = i.at
          BY <3>3, <3>5, <5>1 DEF InstrLeads
        <5>4. s = i.at
          BY <3>1, <3>5, <4>1, <5>1 DEF Stand
        <5> QED  BY <5>2, <5>3, <5>4 DEF InstrLeads
      <4> QED  BY <2>3, <3>1, <3>2, <3>5, <4>3, <4>4 DEF Value
    <3>6. CASE i.op \notin {"jump", "alloca"}
      BY <2>3, <3>1, <3>2, <3>3, <3>6 DEF InstrLeads, Value
    <3> QED  BY <3>4, <3>5, <3>6
  <2> QED  BY <2>2, <2>3
<1>5. f = [place \in Places |-> f[place]]
  BY <1>2
<1>6. ASSUME NEW place \in Places
      PROVE  f[place] = LET code == blocks[place[1]]
                            k == place[2]
                        IN IF k > Len(code) THEN Len(body) + 1
                           ELSE IF code[k].op = "jump" THEN f[<<code[k].yes, 1>>]
                           ELSE IF code[k].op = "alloca" THEN f[<<place[1], k + 1>>]
                           ELSE code[k].at
  <2>1. PICK b, k : b = place[1] /\ k = place[2]
    OBVIOUS
  <2>2. place = <<b, k>> /\ b \in DOMAIN blocks /\ k \in 1..(Count(blocks[b]) + 1)
    BY <2>1, PlacesAre
  <2>3. f[place] = Value(f, b, k)
    BY <1>4, <2>2
  <2> QED  BY <2>1, <2>3 DEF Value, Count
<1> QED  BY <1>5, <1>6 DEF Follows

(* Any such function gives the same; otherwise there is an instruction,    *)
(* the furthest in the source, for which it does not.                      *)
LEMMA FollowsIs ==
  ASSUME NEW lab, Passed(lab), NEW f, Follows(f), NEW place \in DOMAIN blocks, NEW from \in DOMAIN blocks[place]
  PROVE  f[<<place, from>>] = Arrive(body, Stand(lab, blocks, place, from))
<1>1. PICK n \in Nat : n = Len(body)
  BY DEF Passed
<1> DEFINE Differs(q) == \E b \in DOMAIN blocks : \E k \in DOMAIN blocks[b] :
                           Stand(lab, blocks, b, k) = q /\ f[<<b, k>>] # Arrive(body, q)
           C == {q \in 1..(n + 1) : Differs(q)}
<1>2. \A c \in DOMAIN blocks : Count(blocks[c]) \in Nat /\ DOMAIN blocks[c] = 1..Count(blocks[c])
  BY TypedBlocks DEF Passed
<1>3. ASSUME NEW b \in DOMAIN blocks, NEW k \in DOMAIN blocks[b]
      PROVE  f[<<b, k>>] = IF blocks[b][k].op = "jump" THEN f[<<blocks[b][k].yes, 1>>]
                           ELSE IF blocks[b][k].op = "alloca" THEN f[<<b, k + 1>>]
                           ELSE blocks[b][k].at
  <2>1. k \in 1..(Count(blocks[b]) + 1) /\ ~(k > Count(blocks[b]))
    BY <1>2
  <2> QED  BY <2>1, FollowsValue DEF Value
<1>4. C = {}
  <2> SUFFICES ASSUME C # {}  PROVE FALSE
    OBVIOUS
  <2>1. PICK m : m = Max(C)
    OBVIOUS
  <2>2. m \in C /\ \A y \in C : y <= m
    <3>1. C \in SUBSET Int /\ \A y \in C : y <= n + 1
      OBVIOUS
    <3>2. n + 1 \in Nat
      OBVIOUS
    <3> HIDE DEF C
    <3> QED  BY <2>1, <3>1, <3>2, MaxOfBounded
  <2>3. m \in 1..(n + 1) /\ Differs(m)
    BY <2>2
  <2>4. ASSUME NEW y \in 1..(n + 1), y > m  PROVE ~Differs(y)
    <3>1. ASSUME Differs(y)  PROVE FALSE
      <4>1. y \in C
        BY <3>1
      <4>2. y <= m
        BY <2>2, <4>1
      <4> QED  BY <2>3, <2>4, <4>2
    <3> QED  BY <3>1
  <2> HIDE DEF C, Differs
  <2>5. PICK b \in DOMAIN blocks : \E k \in DOMAIN blocks[b] : Stand(lab, blocks, b, k) = m /\ f[<<b, k>>] # Arrive(body, m)
    BY <2>3 DEF Differs
  <2>6. PICK k \in DOMAIN blocks[b] : Stand(lab, blocks, b, k) = m /\ f[<<b, k>>] # Arrive(body, m)
    BY <2>5
  <2>7. PICK i : i = blocks[b][k]
    OBVIOUS
  <2>8. InstrLeads(lab, b, k, i, m)
    BY <2>6, <2>7, InstrArrives
  <2>9. f[<<b, k>>] = IF i.op = "jump" THEN f[<<i.yes, 1>>]
                      ELSE IF i.op = "alloca" THEN f[<<b, k + 1>>]
                      ELSE i.at
    BY <1>3, <2>7
  <2>10. CASE i.op = "jump"
    <3>1. PICK t \in DOMAIN blocks : t = i.yes
      BY <2>8, <2>10 DEF InstrLeads
    <3>2. CASE DOMAIN blocks[t] = {}
      <4>1. 1 \in 1..(Count(blocks[t]) + 1) /\ 1 > Count(blocks[t])
        <5>1. PICK x \in Nat : x = Count(blocks[t]) /\ 1..x = {}
          BY <1>2, <3>2
        <5>2. x = 0
          BY ONLY <5>1, SMT
        <5> QED  BY <5>1, <5>2
      <4>2. f[<<t, 1>>] = n + 1
        BY <1>1, <4>1, FollowsValue DEF Value
      <4> QED  BY <1>1, <2>6, <2>8, <2>9, <2>10, <3>1, <3>2, <4>2 DEF InstrLeads
    <3>3. CASE DOMAIN blocks[t] # {}
      <4>1. 1 \in DOMAIN blocks[t] /\ Stand(lab, blocks, t, 1) = lab[t]
        BY <1>2, <3>3 DEF Stand
      <4>2. CASE m < lab[t]
        <5>1. lab[t] \in 1..(n + 1)
          BY <1>1 DEF Passed, CodeFits
        <5>2. ~Differs(lab[t])
          BY <2>3, <2>4, <4>2, <5>1
        <5>3. f[<<t, 1>>] = Arrive(body, lab[t])
          BY <4>1, <5>2 DEF Differs
        <5> QED  BY <2>6, <2>8, <2>9, <2>10, <3>1, <5>3 DEF InstrLeads
      <4>3. CASE IsCheck(blocks, t)
        <5>1. PICK j : j = blocks[t][1]
          OBVIOUS
        <5>2. j.op = "cond" /\ f[<<t, 1>>] = j.at
          BY <1>3, <4>1, <4>3, <5>1 DEF IsCheck
        <5>3. InstrLeads(lab, t, 1, j, lab[t])
          BY <4>1, <5>1, InstrArrives
        <5>4. f[<<t, 1>>] = Arrive(body, lab[t])
          BY <5>2, <5>3 DEF InstrLeads
        <5> QED  BY <2>6, <2>8, <2>9, <2>10, <3>1, <5>4 DEF InstrLeads
      <4> QED  BY <2>8, <2>10, <3>1, <4>2, <4>3 DEF InstrLeads
    <3> QED  BY <3>2, <3>3
  <2>11. CASE i.op = "alloca"
    <3>1. k + 1 \in DOMAIN blocks[b] /\ blocks[b][k + 1].op = "do" /\ blocks[b][k + 1].at = i.at
      BY <2>8, <2>11 DEF InstrLeads
    <3>2. f[<<b, k + 1>>] = i.at
      BY <1>3, <3>1
    <3> QED  BY <2>6, <2>8, <2>9, <2>11, <3>2 DEF InstrLeads
  <2>12. CASE i.op \notin {"jump", "alloca"}
    BY <2>6, <2>8, <2>9, <2>12 DEF InstrLeads
  <2> QED  BY <2>10, <2>11, <2>12
<1>5. PICK r : r = Stand(lab, blocks, place, from)
  OBVIOUS
<1>6. r \in 1..(n + 1)
  BY <1>1, <1>5, InstrArrives DEF InstrLeads
<1>7. r \notin C
  BY <1>4
<1> HIDE DEF C
<1>8. ~Differs(r)
  BY <1>6, <1>7 DEF C
<1> QED  BY <1>5, <1>8

(* The statement that takes effect next is where control arrives.          *)
LEMMA EffectIs ==
  ASSUME NEW lab, Passed(lab), NEW allocated, NEW b, NEW i, RunsAt(lab, blocks, body, b, i, allocated)
  PROVE  NextEffect(b, i) = Arrive(body, Stand(lab, blocks, b, i))
<1>1. /\ b \in DOMAIN blocks /\ i \in 1..(Count(blocks[b]) + 1)
      /\ \A k \in 1..(i - 1) : blocks[b][k].op \notin Terminators
      /\ Count(blocks[b]) \in Nat /\ DOMAIN blocks[b] = 1..Count(blocks[b])
  BY TypedBlocks DEF RunsAt, Passed
<1>2. PICK f : f = CHOOSE g : Follows(g)
  OBVIOUS
<1>3. Follows(f)
  BY <1>2, FollowsExists
<1>4. NextEffect(b, i) = f[<<b, i>>]
  BY <1>2 DEF NextEffect, Follows, Places
<1>5. CASE i \in DOMAIN blocks[b]
  BY <1>1, <1>3, <1>4, <1>5, FollowsIs
<1>6. CASE i \notin DOMAIN blocks[b]
  <2>1. i = Count(blocks[b]) + 1 /\ i > Count(blocks[b]) /\ i - 1 = Count(blocks[b])
    BY <1>1, <1>6
  <2>2. f[<<b, i>>] = Len(body) + 1
    BY <1>1, <1>3, <2>1, FollowsValue DEF Value
  <2>3. ~Ended(blocks, b)
    BY <1>1, <2>1 DEF Ended
  <2>4. Arrive(body, StandEnd(lab, blocks, b)) = Arrive(body, Len(body) + 1)
    BY <1>1, <2>3 DEF Passed, BuilderFits, LeadsTo
  <2>5. StandEnd(lab, blocks, b) = Stand(lab, blocks, b, i)
    BY <2>1 DEF StandEnd
  <2> QED  BY <1>4, <2>2, <2>4, <2>5, EndArrives
<1> QED  BY <1>5, <1>6

(* Where a running call stands in the source, before and after a step.     *)
LEMMA AheadIs ==
  ASSUME NEW lab, Passed(lab), result = "running", RunsAt(lab, blocks, body, block, index, live)
  PROVE  Ahead = Arrive(body, Stand(lab, blocks, block, index))
<1>1. NextEffect(block, index) = Arrive(body, Stand(lab, blocks, block, index))
  BY EffectIs
<1> QED  BY <1>1 DEF Ahead

LEMMA AheadWillBe ==
  ASSUME NEW lab, Passed(lab), UNCHANGED vars, result' = "running", NEW b, NEW i, b = block', i = index',
         NEW allocated, RunsAt(lab, blocks, body, b, i, allocated)
  PROVE  Ahead' = Arrive(body, Stand(lab, blocks, b, i))
<1>1. UNCHANGED <<body, blocks>>
  BY DEF vars
<1>2. NextEffect(b, i) = Arrive(body, Stand(lab, blocks, b, i))
  BY EffectIs
<1>3. Ahead' = NextEffect(b, i)'
  BY DEF Ahead, NextEffect
<1>4. NextEffect(b, i)' = NextEffect(b, i)
  BY <1>1 DEF NextEffect
<1> QED  BY <1>2, <1>3, <1>4

(* The two copies of the operators of the source are the same. *)
LEMMA SameArrive ==
  ASSUME NEW b, NEW p
  PROVE  Source!Arrive(b, p) = Arrive(b, p) /\ Source!ArriveElse(b, p) = ArriveElse(b, p)
  BY DEF Source!Arrive, Arrive, Source!ArriveElse, ArriveElse, Source!OpenerOf, OpenerOf, Source!ElseEnd, ElseEnd,
         Source!ListEnd, ListEnd, Source!Depth, Depth, Source!Cardinality, Cardinality, Source!IsFiniteSet, IsFiniteSet,
         Source!Openers, Openers, Source!Max, Max, Source!Min, Min

(* The run begins as the source does. *)
LEMMA StartsAsSource == RunInit /\ Balanced(body) => Source!Init
<1> SUFFICES ASSUME RunInit, Balanced(body)  PROVE Source!Init
  OBVIOUS
<1>1. Ahead = Arrive(body, 1)
  BY DEF RunInit, Ahead
<1>2. body \in Seq(StatementsOver(Names))
  BY InitRuns DEF RunInv, GenInv, WalkOK
<1> QED  BY <1>1, <1>2, SameArrive DEF Source!Init

(* To the source, entering the function is no step. *)
LEMMA EnterIsSilent ==
  ASSUME NEW lab, Passed(lab), Enter
  PROVE  UNCHANGED <<body, Ahead>>
<1>1. /\ result = "none" /\ result' = "running" /\ block' = 1 /\ index' = 1 /\ UNCHANGED vars /\ body' = body
      /\ live' = {p \in 1..Len(body) : body[p].op = "arg"}
  BY DEF Enter, vars
<1>2. RunsAt(lab, blocks, body, 1, 1, live') /\ Stand(lab, blocks, 1, 1) = 1
  BY <1>1, RunsFromStart
<1>3. Ahead' = Arrive(body, 1)
  BY <1>1, <1>2, AheadWillBe
<1>4. Ahead = Arrive(body, 1)
  BY <1>1 DEF Ahead
<1> QED  BY <1>1, <1>3, <1>4

(* Every instruction is a step of the source or none.                      *)
LEMMA StepIsSource ==
  ASSUME NEW lab, Passed(lab), RunFits(lab), Execute \/ ExecuteJump \/ ExecuteReturn
  PROVE  [Source!Next]_(Source!vars)
<1>1. result = "running" /\ index \in DOMAIN blocks[block] /\ UNCHANGED vars /\ body' = body
  BY DEF Execute, ExecuteJump, ExecuteReturn, Executing, vars
<1>2. RunsAt(lab, blocks, body, block, index, live) /\ block \in DOMAIN blocks
  BY <1>1 DEF RunFits, RunsAt
<1>3. PICK a, z, i, r : a = Ahead /\ z = Ahead' /\ i = Current /\ r = Stand(lab, blocks, block, index)
  OBVIOUS
<1>4. i = blocks[block][index]
  BY <1>3 DEF Current
<1>5. a = Arrive(body, r)
  BY <1>1, <1>2, <1>3, AheadIs
<1>6. InstrLeads(lab, block, index, i, r)
  BY <1>1, <1>2, <1>3, <1>4, InstrArrives
<1>7. ComesTo(lab, block, index, i, r, live)
  BY <1>1, <1>2, <1>3, <1>4, ComesThere
<1>8. InstrFits(lab, blocks, body, i, r) /\ NoFits(lab, blocks, body, i) /\ (i.op = "cond" => i.no # 0)
  BY <1>7 DEF ComesTo
<1>9. i.op # "jump" => i.at \in 1..Len(body) /\ a = i.at
  BY <1>5, <1>6 DEF InstrLeads
<1>10. CASE Execute
  <2>1. /\ i.op \in {"alloca", "do"} /\ result' = "running" /\ block' = block /\ index' = index + 1
        /\ live' = IF i.op = "alloca" THEN live \cup {i.at} ELSE live
    BY <1>1, <1>3, <1>10 DEF Execute, Executing
  <2>2. z = Arrive(body, IF i.op = "alloca" THEN i.at ELSE i.at + 1)
    <3>1. /\ RunsAt(lab, blocks, body, block, index + 1, live')
          /\ Stand(lab, blocks, block, index + 1) = IF i.op = "alloca" THEN i.at ELSE i.at + 1
      BY <1>1, <1>2, <1>4, <2>1, RunsOn
    <3>2. z = Arrive(body, Stand(lab, blocks, block, index + 1))
      BY <1>1, <1>3, <2>1, <3>1, AheadWillBe
    <3> QED  BY <3>1, <3>2
  <2>3. CASE i.op = "alloca"
    <3>1. Arrive(body, i.at) = a
      <4>1. LeadsTo(body, Lets, r, i.at)
        BY <1>8, <2>3 DEF InstrFits
      <4> QED  BY <1>5, <4>1 DEF LeadsTo
    <3> QED  BY <1>1, <1>3, <2>2, <2>3, <3>1 DEF Source!vars
  <2>4. CASE i.op = "do"
    <3>1. body[i.at].op \in {"let", "assign", "use"}
      BY <1>8, <2>4 DEF InstrFits
    <3>2. Source!Effect
      BY <1>1, <1>3, <1>9, <2>2, <2>4, <3>1, SameArrive DEF Source!Effect, Source!At
    <3> QED  BY <3>2 DEF Source!Next
  <2> QED  BY <2>1, <2>3, <2>4
<1>11. CASE ExecuteReturn
  <2>1. i.op = "ret" /\ result' = "returned"
    BY <1>1, <1>3, <1>11 DEF ExecuteReturn, Executing
  <2>2. body[i.at].op = "return"
    BY <1>8, <2>1 DEF InstrFits
  <2>3. Ahead' = 0
    BY <2>1 DEF Ahead
  <2>4. Source!Return
    BY <1>1, <1>3, <1>9, <2>1, <2>2, <2>3 DEF Source!Return, Source!At, Source!Returned
  <2> QED  BY <2>4 DEF Source!Next
<1>12. CASE ExecuteJump
  <2>1. i.op \in {"jump", "cond"} /\ result' = "running" /\ block' \in Targets(i) /\ index' = 1
    BY <1>1, <1>3, <1>12 DEF ExecuteJump, Executing
  <2>2. PICK t : t = block'
    OBVIOUS
  <2>3. z = Arrive(body, lab[t])
    <3>1. RunsAt(lab, blocks, body, t, 1, live)
      BY <1>1, <1>2, <1>4, <2>1, <2>2, RunsToBlock
    <3>2. z = Arrive(body, Stand(lab, blocks, t, 1))
      BY <1>1, <1>3, <2>1, <2>2, <3>1, AheadWillBe
    <3> QED  BY <3>2 DEF Stand
  <2>4. CASE i.op = "jump"
    <3>1. t = i.yes
      BY <2>1, <2>2, <2>4 DEF Targets
    <3>2. a = z
      BY <1>5, <1>6, <2>3, <2>4, <3>1 DEF InstrLeads
    <3> QED  BY <1>1, <1>3, <3>2 DEF Source!vars
  <2>5. CASE i.op = "cond"
    <3>1. /\ body[i.at].op \in {"if", "ifelse", "while"}
          /\ lab[i.yes] = i.at + 1 /\ lab[i.no] = ListEnd(body, i.at + 1) + 1
      BY <1>8, <2>5 DEF InstrFits, NoFits
    <3>2. CASE t = i.yes
      <4>1. z = Arrive(body, i.at + 1)
        BY <2>3, <3>1, <3>2
      <4>2. Source!Holds
        BY <1>1, <1>3, <1>9, <2>5, <3>1, <4>1, SameArrive DEF Source!Holds, Source!At
      <4> QED  BY <4>2 DEF Source!Next
    <3>3. CASE t = i.no
      <4>1. z = ArriveElse(body, i.at)
        BY <2>3, <3>1, <3>3 DEF ArriveElse
      <4>2. Source!Fails
        BY <1>1, <1>3, <1>9, <2>5, <3>1, <4>1, SameArrive DEF Source!Fails, Source!At
      <4> QED  BY <4>2 DEF Source!Next
    <3> QED  BY <2>1, <2>2, <2>5, <3>2, <3>3 DEF Targets
  <2> QED  BY <2>1, <2>4, <2>5
<1> QED  BY <1>10, <1>11, <1>12

(* So is every step of the generator, the pass and the run. *)
LEMMA NextIsSource == RunInv /\ RunStep => [Source!Next]_(Source!vars)
<1> SUFFICES ASSUME GenInv, Balanced(body), RunStep, NEW lab, Fits(lab), RunFits(lab)
             PROVE  [Source!Next]_(Source!vars)
  BY DEF RunInv
<1>1. CASE Next /\ UNCHANGED runVars
  <2>1. result = "none" /\ result' = "none" /\ body' = body
    BY <1>1, NextIsBefore DEF RunFits, runVars
  <2>2. Ahead = Arrive(body, 1) /\ Ahead' = Arrive(body, 1)
    BY <2>1 DEF Ahead
  <2> QED  BY <2>1, <2>2 DEF Source!vars
<1>2. CASE Run
  <2>1. Passed(lab)
    BY <1>2, RunMoves
  <2>2. CASE Enter
    BY <2>1, <2>2, EnterIsSilent DEF Source!vars
  <2>3. CASE Execute \/ ExecuteJump \/ ExecuteReturn
    BY <2>1, <2>3, StepIsSource
  <2> QED  BY <1>2, <2>2, <2>3 DEF Run
<1>3. CASE UNCHANGED allVars
  <2>1. UNCHANGED <<body, blocks, block, index, result>>
    BY <1>3 DEF allVars
  <2>2. Ahead' = Ahead
    BY <2>1 DEF Ahead, NextEffect
  <2> QED  BY <2>1, <2>2 DEF Source!vars
<1> QED  BY <1>1, <1>2, <1>3 DEF RunStep

----------------------------------------------------------------------------
(* Every list of a body has its end, as parseCompoundExpression leaves it. *)
BodiesAreBalanced == \A b \in Bodies : Balanced(b)

(* A call of the function, as it is generated, passed and listed, does     *)
(* what its source says: the same statements in the same order, both ways  *)
(* at every condition and nothing behind a return.                         *)
THEOREM IrImplementsSource ==
  ASSUME BodiesAreBalanced
  PROVE  ModuleSpec => ImplementsSource
<1>1. ModuleInit => RunInv /\ Source!Init
  <2>1. RunInit => Balanced(body)
    BY DEF BodiesAreBalanced, RunInit, Init
  <2> QED  BY <2>1, InitRuns, StartsAsSource DEF ModuleInit
<1>2. RunInv /\ [ModuleNext]_moduleVars => RunInv'
  BY ModuleSteps, NextRuns
<1>3. RunInv /\ [ModuleNext]_moduleVars => [Source!Next]_(Source!vars)
  BY ModuleSteps, NextIsSource
<1> QED  BY <1>1, <1>2, <1>3, PTL DEF ModuleSpec, ImplementsSource, Source!Spec

(* No instruction uses the allocation of a local before this call has made *)
(* it, although allocations stand where visitVariableDecl found them.      *)
THEOREM UsesAreAllocated ==
  ASSUME BodiesAreBalanced
  PROVE  ModuleSpec => []UsesFollowAllocations
<1>1. ModuleInit => RunInv
  BY InitRuns DEF BodiesAreBalanced, ModuleInit, RunInit, Init
<1>2. RunInv /\ [ModuleNext]_moduleVars => RunInv'
  BY ModuleSteps, NextRuns
<1> QED  BY <1>1, <1>2, RunningHasUses, PTL DEF ModuleSpec

(* A global gets its initial value only if it was defined, and it was only *)
(* defined if that is a number.                                            *)
GlobalsAreDefined ==
  /\ valued \subseteq defined
  /\ stage # "globals" => defined = {g \in DOMAIN globals : globals[g] = "number"}
  /\ stage = "globals" => valued = {} /\ defined = {}
  /\ stage \in {"bodies", "listed"} => valued = DOMAIN globals

(* A module is only listed if every one of its globals was a number.       *)
THEOREM ListedGlobalsAreNumbers == ModuleSpec => []ListedGlobalsHaveValues
<1>1. ModuleInit => GlobalsAreDefined
  BY DEF ModuleInit, GlobalsAreDefined
<1>2. GlobalsAreDefined /\ [ModuleNext]_moduleVars => GlobalsAreDefined'
  <2> SUFFICES ASSUME GlobalsAreDefined, [ModuleNext]_moduleVars  PROVE GlobalsAreDefined'
    OBVIOUS
  <2>1. CASE GenGlobalVariableDefinitions
    BY <2>1 DEF GenGlobalVariableDefinitions, GlobalsAreDefined
  <2>2. CASE VisitFunctionParamDeclaration
    BY <2>2 DEF VisitFunctionParamDeclaration, GlobalsAreDefined, headVars
  <2>3. CASE VisitGlobalVariableDecl
    BY <2>3 DEF VisitGlobalVariableDecl, GlobalsAreDefined
  <2>4. CASE VisitFunctionDecl
    BY <2>4 DEF VisitFunctionDecl, GlobalsAreDefined, headVars
  <2>5. CASE Generate
    BY <2>5 DEF Generate, GlobalsAreDefined, headVars
  <2>6. CASE IRPrint
    BY <2>6 DEF IRPrint, GlobalsAreDefined, headVars
  <2>7. CASE CallFunction
    BY <2>7 DEF CallFunction, GlobalsAreDefined, headVars
  <2>8. CASE UNCHANGED moduleVars
    BY <2>8 DEF moduleVars, GlobalsAreDefined, headVars
  <2> QED  BY <2>1, <2>2, <2>3, <2>4, <2>5, <2>6, <2>7, <2>8 DEF ModuleNext
<1>3. GlobalsAreDefined => ListedGlobalsHaveValues
  BY DEF GlobalsAreDefined, ListedGlobalsHaveValues
<1> QED  BY <1>1, <1>2, <1>3, PTL DEF ModuleSpec
=============================================================================
