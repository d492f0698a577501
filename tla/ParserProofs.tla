---------------------------- MODULE ParserProofs ----------------------------
(***************************************************************************)
(* For every list of tokens the trees made by the parser follow the        *)
(* precedences of the operators.  Whether an operator stands in the same   *)
(* parentheses as another is asked of the whole text (Depth), the parser   *)
(* only compares neighbours; the invariant gives each active call the      *)
(* depth it works at, and says of the expression a call waits for how its  *)
(* operator may bind.                                                      *)
(***************************************************************************)
EXTENDS Parser, FiniteSetTheorems, SequenceTheorems, TLAPS

ExprKinds == {"expr", "rhs", "not", "paren", "call"}
FrameKinds ==
  ExprKinds \cup {"root", "let", "fun", "extern", "class", "param", "block", "if", "while", "return",
                  "statement", "assign"}

Frames ==
  [kind : FrameKinds, min : Int, at : Nat, lhs : Nat, nested : BOOLEAN, args : Seq(Nat), named : BOOLEAN]

Known(q) == q \in DOMAIN nodes \cup {NoNode}
Op(q) == q # NoNode /\ nodes[q].kind = "binary"

(* q can stand at depth d as an operand: in parentheses, or if it is an    *)
(* operator at d, one that binds with min at least.                        *)
Inside(q, d) == Op(q) => Depth(q) > d
Chain(q, d, min) == Op(q) => Depth(q) >= d /\ (Depth(q) = d => Prec(q) >= min)

Follows(p) ==
  /\ nodes[p].kind = "binary" =>
       /\ BareOperator(p, nodes[p].lhs) => Prec(nodes[p].lhs) >= Prec(p)
       /\ BareOperator(p, nodes[p].rhs) => Prec(nodes[p].rhs) > Prec(p)
  /\ nodes[p].kind = "not" => ~BareOperator(p, nodes[p].rhs)

NodeOk(q) ==
  /\ Known(nodes[q].lhs) /\ Known(nodes[q].rhs)
  /\ nodes[q].kind = "binary" => IsOperator(q)
  /\ Follows(q)

Shape ==
  /\ pos \in Nat \ {0}
  /\ calls \in Seq(Frames) /\ calls # <<>> /\ calls[1].kind = "root"
  /\ DOMAIN nodes \subseteq 1..(pos - 1)
  /\ \A q \in DOMAIN nodes : NodeOk(q)
  /\ Known(value)

(* What the calls wait for: the operand of an operator; the right operand, *)
(* with all operators that bind stronger.                                  *)
AwaitsPrimary(f) == f.kind \in {"expr", "not"} \/ (f.kind = "rhs" /\ f.at # NoNode /\ ~f.nested)
AwaitsChain(f) == f.kind = "rhs" /\ f.at # NoNode /\ f.nested

(* A call f that works at depth d. *)
FrameOk(f, d) ==
  /\ f.at < pos /\ f.at \notin DOMAIN nodes /\ Known(f.lhs)
  /\ f.kind = "rhs" /\ f.at = NoNode => ~f.nested
  /\ f.at = NoNode => f.kind \in {"root", "expr", "rhs", "paren", "statement"}
  /\ f.kind \in {"rhs", "not"} /\ f.at # NoNode => Depth(f.at) = d
  /\ f.kind = "rhs" /\ f.at # NoNode =>
       IsOperator(f.at) /\ Prec(f.at) >= f.min /\ Chain(f.lhs, d, Prec(f.at))

(* A call f, and the call g it has made. *)
PairOk(f, g, d, e) ==
  /\ g.kind \notin ExprKinds => f.kind \notin ExprKinds
  /\ g.kind \in {"not", "paren", "call"} => AwaitsPrimary(f)
  /\ g.kind = "expr" => f.kind \notin {"expr", "not", "rhs"}
  /\ g.kind = "rhs" => f.kind \notin {"expr", "not"}
  /\ g.kind = "rhs" /\ f.kind = "rhs" => AwaitsChain(f) /\ g.min = Prec(f.at) + 1
  /\ f.kind \in ExprKinds => e = IF g.kind \in {"paren", "call"} THEN d + 1 ELSE d

(* The innermost call gets what it waits for. *)
Given(f, d) ==
  /\ AwaitsPrimary(f) => Inside(value, d)
  /\ AwaitsChain(f) => Chain(value, d, Prec(f.at) + 1) /\ (IsOperator(pos) => Prec(pos) <= Prec(f.at))
  /\ f.kind = "rhs" /\ f.at = NoNode =>
       Chain(value, d, f.min) /\ (IsOperator(pos) => Chain(value, d, Prec(pos)))
  /\ f.kind = "paren" => (Op(value) => Depth(value) >= d)

TopOk(f, d) ==
  /\ doing \in {"primary", "member"} => AwaitsPrimary(f)
  /\ doing = "argument" => f.kind = "call"
  /\ doing \in {"item", "parameter", "comma", "block"} => f.kind \notin ExprKinds
  /\ f.kind \in ExprKinds => Depth(pos) = d
  /\ doing = "value" => Given(f, d)

(* The nodes of the active calls come in the order of their calls. *)
Ordered ==
  \A i, j \in 1..Len(calls) : i < j /\ calls[j].at # NoNode => calls[i].at < calls[j].at

Stacked(depth) ==
  /\ \A i \in 1..Len(calls) : FrameOk(calls[i], depth[i])
  /\ \A i \in 1..(Len(calls) - 1) : PairOk(calls[i], calls[i + 1], depth[i], depth[i + 1])
  /\ TopOk(Top, depth[Len(calls)])

Holds(depth) == Shape /\ Ordered /\ depth \in [1..Len(calls) -> Int] /\ Stacked(depth)

ParseInv == \E depth : Holds(depth)

----------------------------------------------------------------------------
(* Operators have a precedence. *)
LEMMA PrecIsInt == \A p : IsOperator(p) => Prec(p) \in Int
  BY DEF IsOperator, Prec, Operators, Precedence

(* The text does not change. *)
LEMMA TextStays ==
  ASSUME tokens' = tokens
  PROVE  \A p : /\ Depth(p)' = Depth(p) /\ Tok(p)' = Tok(p)
               /\ IsOperator(p)' = IsOperator(p) /\ Prec(p)' = Prec(p)
<1>1. \A p : Depth(p)' = Depth(p)
  BY DEF Depth
<1>2. \A p : Tok(p)' = Tok(p)
  BY DEF Tok
<1> QED  BY <1>1, <1>2 DEF IsOperator, Prec

(* The depth changes at a parenthesis only. *)
LEMMA DepthAt ==
  ASSUME NEW p \in Nat \ {0}
  PROVE  /\ Depth(p) \in Int
         /\ Tok(p) = "lp" => Depth(p + 1) = Depth(p) + 1
         /\ Tok(p) = "rp" => Depth(p + 1) = Depth(p) - 1
         /\ Tok(p) \notin {"lp", "rp", "eof"} => Depth(p + 1) = Depth(p)
<1> DEFINE Those(t, q) == {i \in 1..(q - 1) : tokens[i] = t}
<1>1. ASSUME NEW t, NEW q \in Nat \ {0}
      PROVE  IsFiniteSet(Those(t, q)) /\ Cardinality(Those(t, q)) \in Nat
  <2>1. IsFiniteSet(1..(q - 1))
    BY FS_Interval
  <2> QED  BY <2>1, FS_Subset, FS_CardinalityType
<1>2. ASSUME NEW t
      PROVE  Cardinality(Those(t, p + 1)) = Cardinality(Those(t, p)) + (IF tokens[p] = t THEN 1 ELSE 0)
  <2>1. CASE tokens[p] = t
    <3>1. Those(t, p + 1) = Those(t, p) \cup {p} /\ p \notin Those(t, p)
      BY <2>1
    <3> HIDE DEF Those
    <3>2. IsFiniteSet(Those(t, p)) /\ Cardinality(Those(t, p)) \in Nat
      BY <1>1
    <3>3. Cardinality(Those(t, p) \cup {p}) = Cardinality(Those(t, p)) + 1
      BY <3>1, <3>2, FS_AddElement
    <3> QED  BY <2>1, <3>1, <3>3
  <2>2. CASE tokens[p] # t
    <3>1. Those(t, p + 1) = Those(t, p)
      BY <2>2
    <3> HIDE DEF Those
    <3> QED  BY <2>2, <3>1, <1>1
  <2> QED  BY <2>1, <2>2
<1>3. \A q : Depth(q) = Cardinality(Those("lp", q)) - Cardinality(Those("rp", q))
  BY DEF Depth
<1>4. Tok(p) # "eof" => Tok(p) = tokens[p]
  BY DEF Tok
<1> HIDE DEF Those
<1>5. /\ Cardinality(Those("lp", p)) \in Nat /\ Cardinality(Those("rp", p)) \in Nat
      /\ Cardinality(Those("lp", p + 1)) = Cardinality(Those("lp", p)) + (IF tokens[p] = "lp" THEN 1 ELSE 0)
      /\ Cardinality(Those("rp", p + 1)) = Cardinality(Those("rp", p)) + (IF tokens[p] = "rp" THEN 1 ELSE 0)
  BY <1>1, <1>2
<1> QED  BY <1>3, <1>4, <1>5
----------------------------------------------------------------------------
(* Nodes are only added, at positions behind which parsing goes on. *)
Added ==
  /\ tokens' = tokens
  /\ pos' \in Nat /\ pos' >= pos
  /\ DOMAIN nodes \subseteq DOMAIN nodes' /\ DOMAIN nodes' \subseteq 1..(pos' - 1)
  /\ \A q \in DOMAIN nodes : nodes'[q] = nodes[q]
  /\ \A q \in DOMAIN nodes' \ DOMAIN nodes : NodeOk(q)'
  /\ Known(value)'

LEMMA NodesStay ==
  ASSUME Shape, Added
  PROVE  /\ Shape' <=> calls' \in Seq(Frames) /\ calls' # <<>> /\ calls'[1].kind = "root"
         /\ \A q : Known(q) => Known(q)' /\ Op(q)' = Op(q)
         /\ \A q, d : Known(q) => Inside(q, d)' = Inside(q, d)
         /\ \A q, d, min : Known(q) => Chain(q, d, min)' = Chain(q, d, min)
<1>1. \A p : /\ Depth(p)' = Depth(p) /\ IsOperator(p)' = IsOperator(p) /\ Prec(p)' = Prec(p)
  BY TextStays DEF Added
<1>2. 0 \notin DOMAIN nodes /\ 0 \notin DOMAIN nodes'
  BY DEF Shape, Added
<1>3. \A q : Known(q) => Known(q)' /\ Op(q)' = Op(q)
  BY <1>2 DEF Added, Known, Op, NoNode
<1>4. \A q, d : Known(q) => Inside(q, d)' = Inside(q, d)
  BY <1>1, <1>3 DEF Inside
<1>5. \A q, d, min : Known(q) => Chain(q, d, min)' = Chain(q, d, min)
  BY <1>1, <1>3 DEF Chain
<1>6. ASSUME NEW q \in DOMAIN nodes
      PROVE  NodeOk(q)'
  <2>1. nodes'[q] = nodes[q] /\ NodeOk(q)
    BY DEF Added, Shape
  <2>2. \A r : Known(r) => BareOperator(q, r)' = BareOperator(q, r)
    BY <1>1, <1>3 DEF BareOperator, Op
  <2> QED  BY <2>1, <2>2, <1>1, <1>3 DEF NodeOk, Follows
<1>7. Shape' <=> calls' \in Seq(Frames) /\ calls' # <<>> /\ calls'[1].kind = "root"
  BY <1>6 DEF Shape, Added
<1> QED  BY <1>3, <1>4, <1>5, <1>7

(* What counts of a call that has not returned. *)
Same(f, g) ==
  f.kind = g.kind /\ f.min = g.min /\ f.at = g.at /\ f.lhs = g.lhs /\ f.nested = g.nested

(* The first m calls go on, at the same depths; those behind are new. *)
Goes(m, depth, e) ==
  /\ calls' \in Seq(Frames) /\ m <= Len(calls')
  /\ \A i \in 1..m : Same(calls[i], calls'[i]) /\ e[i] = depth[i] /\ calls[i].at \notin DOMAIN nodes'
  /\ \A i \in (m + 1)..Len(calls') :
       /\ FrameOk(calls[i], e[i])'
       /\ calls'[i].at # NoNode => \A j \in 1..(i - 1) : calls'[j].at < calls'[i].at
  /\ \A i \in m..(Len(calls') - 1) : PairOk(calls[i], calls[i + 1], e[i], e[i + 1])'
  /\ TopOk(Top, e[Len(calls)])'

LEMMA FrameStays ==
  ASSUME Shape, Added, NEW f, NEW g, NEW d, Same(f, g), f.at \in Nat, FrameOk(f, d), f.at \notin DOMAIN nodes'
  PROVE  FrameOk(g, d)'
<1>1. g.at < pos'
  BY DEF FrameOk, Same, Added, Shape
<1>2. Known(g.lhs)' /\ (\A e, min : Chain(g.lhs, e, min)' = Chain(f.lhs, e, min))
  BY NodesStay DEF FrameOk, Same
<1>3. \A p : Depth(p)' = Depth(p) /\ IsOperator(p)' = IsOperator(p) /\ Prec(p)' = Prec(p)
  BY TextStays DEF Added
<1> QED  BY <1>1, <1>2, <1>3 DEF FrameOk, Same

LEMMA FrameFields ==
  \A f \in Frames : f.at \in Nat /\ f.lhs \in Nat /\ f.min \in Int /\ f.kind \in FrameKinds
  BY DEF Frames

LEMMA Step ==
  ASSUME NEW depth, Holds(depth), Added,
         NEW m \in 1..Len(calls), NEW e, Goes(m, depth, e), e \in [1..Len(calls') -> Int]
  PROVE  ParseInv'
<1> USE DEF Holds
<1>1. Shape'
  <2>1. calls' # <<>> /\ calls'[1].kind = "root"
    BY DEF Goes, Same, Shape
  <2> QED  BY <2>1, NodesStay DEF Goes
<1>2. Ordered'
  <2> SUFFICES ASSUME NEW i \in 1..Len(calls'), NEW j \in 1..Len(calls'), i < j, calls'[j].at # NoNode
               PROVE  calls'[i].at < calls'[j].at
    BY DEF Ordered
  <2>1. CASE j \in 1..m
    <3>1. i \in 1..m /\ i \in 1..Len(calls) /\ j \in 1..Len(calls)
      BY <2>1
    <3> QED  BY <2>1, <3>1 DEF Ordered, Goes, Same
  <2>2. CASE j \in (m + 1)..Len(calls')
    BY <2>2 DEF Goes
  <2> QED  BY <2>1, <2>2
<1>3. ASSUME NEW i \in 1..Len(calls')
      PROVE  FrameOk(calls[i], e[i])'
  <2>1. CASE i \in 1..m
    <3>1. /\ i \in 1..Len(calls) /\ FrameOk(calls[i], depth[i]) /\ Same(calls[i], calls'[i]) /\ e[i] = depth[i]
          /\ calls[i].at \notin DOMAIN nodes'
      BY <2>1 DEF Stacked, Goes
    <3>2. calls[i] \in Frames
      BY <3>1 DEF Shape
    <3>3. calls[i].at \in Nat
      BY <3>2, FrameFields
    <3>4. PICK f : f = calls[i]
      OBVIOUS
    <3>5. PICK g : g = calls'[i]
      OBVIOUS
    <3>6. FrameOk(g, depth[i])'
      BY <3>1, <3>3, <3>4, <3>5, FrameStays
    <3>7. FrameOk(calls[i], depth[i])'
      BY <3>5, <3>6
    <3> QED  BY <3>1, <3>7
  <2>2. CASE i \in (m + 1)..Len(calls')
    BY <2>2 DEF Goes
  <2> QED  BY <2>1, <2>2
<1>4. ASSUME NEW i \in 1..(Len(calls') - 1)
      PROVE  PairOk(calls[i], calls[i + 1], e[i], e[i + 1])'
  <2>1. CASE i \in 1..(m - 1)
    <3>1. /\ PairOk(calls[i], calls[i + 1], depth[i], depth[i + 1])
          /\ Same(calls[i], calls'[i]) /\ Same(calls[i + 1], calls'[i + 1])
          /\ e[i] = depth[i] /\ e[i + 1] = depth[i + 1]
      <4>1. Len(calls) \in Nat
        BY DEF Shape
      <4>2. i \in 1..(Len(calls) - 1) /\ i \in 1..m /\ i + 1 \in 1..m
        BY <2>1, <4>1
      <4> QED  BY <4>2 DEF Stacked, Goes
    <3> QED  BY <3>1, TextStays DEF PairOk, AwaitsPrimary, AwaitsChain, Same, Added
  <2>2. CASE i \in m..(Len(calls') - 1)
    BY <2>2 DEF Goes
  <2> QED  BY <2>1, <2>2
<1>5. Stacked(e)'
  BY <1>3, <1>4 DEF Stacked, Goes
<1> QED  BY <1>1, <1>2, <1>5 DEF ParseInv
(* The same by the number of calls behind the first m. *)
Begins(m) ==
  /\ calls' \in Seq(Frames)
  /\ \A i \in 1..m : Same(calls[i], calls'[i]) /\ calls[i].at \notin DOMAIN nodes'

LEMMA StepNone ==
  ASSUME NEW depth, Holds(depth), Added,
         NEW m \in 1..Len(calls), Begins(m), Len(calls') = m,
         NEW f, f = calls'[m], TopOk(f, depth[m])'
  PROVE  ParseInv'
<1>1. PICK e : e = [i \in 1..m |-> depth[i]]
  OBVIOUS
<1>2. depth \in [1..Len(calls) -> Int] /\ Len(calls) \in Nat
  BY DEF Holds, Shape
<1>3. e \in [1..Len(calls') -> Int] /\ e[m] = depth[m]
  BY <1>1, <1>2
<1>4. TopOk(Top, e[Len(calls)])'
  BY <1>3 DEF Top
<1>5. Goes(m, depth, e)
  BY <1>1, <1>2, <1>4 DEF Goes, Begins
<1> QED  BY <1>3, <1>5, Step

LEMMA StepOne ==
  ASSUME NEW depth, Holds(depth), Added,
         NEW m \in 1..Len(calls), Begins(m), Len(calls') = m + 1,
         NEW f, f = calls'[m], NEW g, g = calls'[m + 1], NEW d \in Int,
         FrameOk(g, d)', g.at # NoNode => \A i \in 1..m : calls[i].at < g.at,
         PairOk(f, g, depth[m], d)', TopOk(g, d)'
  PROVE  ParseInv'
<1>1. PICK e : e = [i \in 1..(m + 1) |-> IF i = m + 1 THEN d ELSE depth[i]]
  OBVIOUS
<1>2. depth \in [1..Len(calls) -> Int] /\ Len(calls) \in Nat
  BY DEF Holds, Shape
<1>3. e \in [1..Len(calls') -> Int] /\ e[m] = depth[m] /\ e[m + 1] = d /\ \A i \in 1..m : e[i] = depth[i]
  BY <1>1, <1>2
<1>4. TopOk(Top, e[Len(calls)])'
  BY <1>3 DEF Top
<1>5. FrameOk(calls[m + 1], e[m + 1])' /\ PairOk(calls[m], calls[m + 1], e[m], e[m + 1])'
  BY <1>3
<1>6. \A i \in 1..m : calls'[i].at = calls[i].at
  BY DEF Begins, Same
<1>7. \A i \in (m + 1)..Len(calls') : i = m + 1
  BY <1>2
<1>8. \A i \in m..(Len(calls') - 1) : i = m
  BY <1>2
<1>9. calls'[m + 1].at # NoNode => \A j \in 1..((m + 1) - 1) : calls'[j].at < calls'[m + 1].at
  BY <1>6
<1>10. Goes(m, depth, e)
  BY <1>2, <1>3, <1>4, <1>5, <1>7, <1>8, <1>9 DEF Goes, Begins
<1> QED  BY <1>3, <1>10, Step

LEMMA StepTwo ==
  ASSUME NEW depth, Holds(depth), Added,
         NEW m \in 1..Len(calls), Begins(m), Len(calls') = m + 2,
         NEW f, f = calls'[m], NEW g, g = calls'[m + 1], NEW h, h = calls'[m + 2], NEW d \in Int, NEW c \in Int,
         FrameOk(g, d)', g.at # NoNode => \A i \in 1..m : calls[i].at < g.at,
         FrameOk(h, c)', h.at = NoNode,
         PairOk(f, g, depth[m], d)', PairOk(g, h, d, c)', TopOk(h, c)'
  PROVE  ParseInv'
<1>1. PICK e : e = [i \in 1..(m + 2) |-> IF i = m + 1 THEN d ELSE IF i = m + 2 THEN c ELSE depth[i]]
  OBVIOUS
<1>2. depth \in [1..Len(calls) -> Int] /\ Len(calls) \in Nat
  BY DEF Holds, Shape
<1>3. /\ e \in [1..Len(calls') -> Int] /\ e[m] = depth[m] /\ e[m + 1] = d /\ e[m + 2] = c
      /\ \A i \in 1..m : e[i] = depth[i]
  BY <1>1, <1>2
<1>4. TopOk(Top, e[Len(calls)])'
  BY <1>3 DEF Top
<1>5. /\ FrameOk(calls[m + 1], e[m + 1])' /\ PairOk(calls[m], calls[m + 1], e[m], e[m + 1])'
      /\ FrameOk(calls[m + 2], e[m + 2])' /\ PairOk(calls[m + 1], calls[m + 2], e[m + 1], e[m + 2])'
  BY <1>3
<1>6. \A i \in 1..m : calls'[i].at = calls[i].at
  BY DEF Begins, Same
<1>7. \A i \in (m + 1)..Len(calls') : i = m + 1 \/ i = m + 2
  BY <1>2
<1>8. \A i \in m..(Len(calls') - 1) : i = m \/ (i = m + 1 /\ i + 1 = m + 2)
  BY <1>2
<1>9. calls'[m + 1].at # NoNode => \A j \in 1..((m + 1) - 1) : calls'[j].at < calls'[m + 1].at
  BY <1>6
<1>10. Goes(m, depth, e)
  <2>1. ASSUME NEW i \in (m + 1)..Len(calls')
        PROVE  /\ FrameOk(calls[i], e[i])'
               /\ calls'[i].at # NoNode => \A j \in 1..(i - 1) : calls'[j].at < calls'[i].at
    BY <1>5, <1>7, <1>9
  <2>2. ASSUME NEW i \in m..(Len(calls') - 1)
        PROVE  PairOk(calls[i], calls[i + 1], e[i], e[i + 1])'
    BY <1>5, <1>8
  <2>3. /\ calls' \in Seq(Frames) /\ m <= Len(calls')
        /\ \A i \in 1..m : Same(calls[i], calls'[i]) /\ e[i] = depth[i] /\ calls[i].at \notin DOMAIN nodes'
    BY <1>2, <1>3 DEF Begins
  <2> HIDE DEF Holds
  <2> QED  BY <1>4, <2>1, <2>2, <2>3 DEF Goes
<1> QED  BY <1>3, <1>10, Step
----------------------------------------------------------------------------
(* The ways the stack changes.  No new node is one of a call that goes on. *)
Fresh(m) == \A i \in 1..m : calls[i].at \notin DOMAIN nodes'

LEMMA Stack ==
  ASSUME Shape, NEW n, n = Len(calls)
  PROVE  /\ n \in Nat \ {0} /\ Top = calls[n]
         /\ \A i \in 1..n : calls[i] \in Frames
         /\ Below \in Seq(Frames) /\ Len(Below) = n - 1
         /\ \A i \in 1..(n - 1) : Below[i] = calls[i]
<1>1. calls \in Seq(Frames) /\ calls # <<>>
  BY DEF Shape
<1> QED  BY <1>1 DEF Top, Below

LEMMA Pushed ==
  ASSUME NEW cs \in Seq(Frames), NEW f \in Frames
  PROVE  /\ Append(cs, f) \in Seq(Frames) /\ Len(Append(cs, f)) = Len(cs) + 1
         /\ Append(cs, f)[Len(cs) + 1] = f
         /\ \A i \in 1..Len(cs) : Append(cs, f)[i] = cs[i]
  OBVIOUS

LEMMA FrameIsFrame ==
  ASSUME NEW kind \in FrameKinds, NEW min \in Int, NEW at \in Nat, NEW lhs \in Nat,
         NEW f, f = Frame(kind, min, at, lhs)
  PROVE  /\ f \in Frames
         /\ f.kind = kind /\ f.min = min /\ f.at = at /\ f.lhs = lhs /\ ~f.nested
  BY DEF Frames, Frame

LEMMA Stay ==
  ASSUME NEW depth, Holds(depth), Added, NEW n, n = Len(calls),
         calls' = calls, Fresh(n), NEW f, f = calls[n], TopOk(f, depth[n])'
  PROVE  ParseInv'
<1>1. n \in 1..Len(calls) /\ calls \in Seq(Frames) /\ f = calls'[n] /\ Len(calls') = n
  BY Stack DEF Holds, Shape
<1>2. Begins(n)
  BY <1>1 DEF Begins, Same, Fresh
<1> QED  BY <1>1, <1>2, StepNone

LEMMA Pop ==
  ASSUME NEW depth, Holds(depth), Added, NEW n, n = Len(calls), n > 1,
         calls' = Below, Fresh(n - 1), NEW f, f = calls[n - 1], TopOk(f, depth[n - 1])'
  PROVE  ParseInv'
<1>1. n - 1 \in 1..Len(calls) /\ f = calls'[n - 1] /\ Len(calls') = n - 1
  BY Stack DEF Holds
<1>2. Begins(n - 1)
  BY Stack DEF Holds, Begins, Same, Fresh
<1> QED  BY <1>1, <1>2, StepNone

LEMMA Replace ==
  ASSUME NEW depth, Holds(depth), Added, NEW n, n = Len(calls), n > 1, Fresh(n - 1),
         NEW g \in Frames, calls' = Append(Below, g), NEW f, f = calls[n - 1], NEW d \in Int,
         FrameOk(g, d)', g.at # NoNode => \A i \in 1..(n - 1) : calls[i].at < g.at,
         PairOk(f, g, depth[n - 1], d)', TopOk(g, d)'
  PROVE  ParseInv'
<1>1. PICK m : m = n - 1
  OBVIOUS
<1>2. /\ m \in 1..Len(calls) /\ Len(calls') = m + 1 /\ calls' \in Seq(Frames)
      /\ calls'[m + 1] = g /\ \A i \in 1..m : calls'[i] = calls[i]
  <2>1. /\ m \in 1..Len(calls) /\ Below \in Seq(Frames) /\ Len(Below) = m
        /\ \A i \in 1..m : Below[i] = calls[i]
    BY <1>1, Stack DEF Holds
  <2> QED  BY <2>1, Pushed
<1>3. Begins(m) /\ f = calls'[m]
  BY <1>1, <1>2 DEF Begins, Same, Fresh
<1> QED  BY <1>1, <1>2, <1>3, StepOne

LEMMA Push ==
  ASSUME NEW depth, Holds(depth), Added, NEW n, n = Len(calls), Fresh(n),
         NEW t \in Frames, NEW f, f = calls[n], Same(f, t), NEW g \in Frames,
         calls' = Append(calls, g) \/ calls' = Append(Append(Below, t), g), NEW d \in Int,
         FrameOk(g, d)', g.at # NoNode => \A i \in 1..n : calls[i].at < g.at,
         PairOk(f, g, depth[n], d)', TopOk(g, d)'
  PROVE  ParseInv'
<1>1. n \in 1..Len(calls) /\ calls \in Seq(Frames)
  BY Stack DEF Holds, Shape
<1>2. /\ Len(calls') = n + 1 /\ calls' \in Seq(Frames) /\ calls'[n + 1] = g
      /\ \A i \in 1..n : Same(calls[i], calls'[i])
  <2>1. CASE calls' = Append(calls, g)
    BY <1>1, <2>1, Pushed DEF Same
  <2>2. CASE calls' = Append(Append(Below, t), g)
    <3>1. PICK cs : cs = Append(Below, t)
      OBVIOUS
    <3>2. /\ cs \in Seq(Frames) /\ Len(cs) = n /\ cs[n] = t
          /\ \A i \in 1..(n - 1) : cs[i] = calls[i]
      BY <3>1, Stack, Pushed DEF Holds
    <3>3. /\ Len(calls') = n + 1 /\ calls' \in Seq(Frames) /\ calls'[n + 1] = g
          /\ \A i \in 1..n : calls'[i] = cs[i]
      BY <2>2, <3>1, <3>2, Pushed
    <3>4. \A i \in 1..n : i = n \/ i \in 1..(n - 1)
      BY <1>1
    <3> QED  BY <3>2, <3>3, <3>4 DEF Same
  <2> QED  BY <2>1, <2>2
<1>3. Begins(n)
  BY <1>2 DEF Begins, Fresh
<1>4. PICK k : k = calls'[n]
  OBVIOUS
<1>5. PairOk(k, g, depth[n], d)'
  BY <1>1, <1>2, <1>4 DEF PairOk, Same, AwaitsPrimary, AwaitsChain
<1> QED  BY <1>1, <1>2, <1>3, <1>4, <1>5, StepOne

LEMMA PushTwo ==
  ASSUME NEW depth, Holds(depth), Added, NEW n, n = Len(calls), NEW m \in {n - 1, n}, m > 0, Fresh(m),
         NEW f, f = calls[m], NEW g \in Frames, NEW h \in Frames,
         \/ m = n - 1 /\ calls' = Append(Append(Below, g), h)
         \/ m = n /\ calls' = calls \o <<g, h>>,
         NEW d \in Int, NEW c \in Int,
         FrameOk(g, d)', g.at # NoNode => \A i \in 1..m : calls[i].at < g.at,
         FrameOk(h, c)', h.at = NoNode,
         PairOk(f, g, depth[m], d)', PairOk(g, h, d, c)', TopOk(h, c)'
  PROVE  ParseInv'
<1>1. n \in 1..Len(calls) /\ calls \in Seq(Frames) /\ m \in 1..Len(calls)
  BY Stack DEF Holds, Shape
<1>2. /\ Len(calls') = m + 2 /\ calls' \in Seq(Frames) /\ calls'[m + 1] = g /\ calls'[m + 2] = h
      /\ \A i \in 1..m : calls'[i] = calls[i]
  <2>1. PICK base : base \in Seq(Frames) /\ Len(base) = m /\ (\A i \in 1..m : base[i] = calls[i])
                    /\ calls' = Append(Append(base, g), h)
    <3>1. CASE m = n - 1 /\ calls' = Append(Append(Below, g), h)
      BY <3>1, Stack DEF Holds
    <3>2. CASE m = n /\ calls' = calls \o <<g, h>>
      BY <1>1, <3>2
    <3> QED  BY <3>1, <3>2
  <2>2. PICK cs : cs = Append(base, g)
    OBVIOUS
  <2>3. /\ cs \in Seq(Frames) /\ Len(cs) = m + 1 /\ cs[m + 1] = g
        /\ \A i \in 1..m : cs[i] = calls[i]
    BY <2>1, <2>2, Pushed
  <2> QED  BY <1>1, <2>1, <2>2, <2>3, Pushed
<1>3. Begins(m) /\ f = calls'[m]
  BY <1>1, <1>2 DEF Begins, Fresh, Same
<1> QED  BY <1>1, <1>2, <1>3, StepTwo
----------------------------------------------------------------------------
(* The ways the nodes change: not at all, or by one that is fresh. *)
LEMMA NoNodeAdded ==
  ASSUME NEW depth, Holds(depth), tokens' = tokens, nodes' = nodes, pos' \in Nat, pos' >= pos, Known(value)'
  PROVE  Added /\ (\A n : n = Len(calls) => Fresh(n) /\ Fresh(n - 1))
<1>1. Added
  BY DEF Holds, Shape, Added
<1>2. \A i \in 1..Len(calls) : calls[i].at \notin DOMAIN nodes'
  BY DEF Holds, Stacked, FrameOk
<1> QED  BY <1>1, <1>2, Stack DEF Fresh, Holds

LEMMA NewNode ==
  ASSUME NEW p, p \notin DOMAIN nodes, NEW x, nodes' = Having(nodes, p, x)
  PROVE  /\ DOMAIN nodes' = DOMAIN nodes \cup {p} /\ nodes'[p] = x
         /\ \A q \in DOMAIN nodes : nodes'[q] = nodes[q]
  BY DEF Having

LEMMA NodeAdded ==
  ASSUME NEW depth, Holds(depth), NEW p \in Nat \ {0}, p \notin DOMAIN nodes, NEW x,
         nodes' = Having(nodes, p, x),
         tokens' = tokens, pos' \in Nat, pos' >= pos, p < pos', Known(value)',
         NodeOk(p)'
  PROVE  Added
<1>1. /\ DOMAIN nodes' = DOMAIN nodes \cup {p} /\ \A q \in DOMAIN nodes : nodes'[q] = nodes[q]
  BY NewNode
<1>2. p \in 1..(pos' - 1) /\ 1..(pos - 1) \subseteq 1..(pos' - 1)
  <2>1. pos \in Nat
    BY DEF Holds, Shape
  <2>2. PICK r \in Nat : r = pos'
    OBVIOUS
  <2>3. p < r /\ pos <= r
    BY <2>1, <2>2
  <2>4. p \in 1..(r - 1) /\ 1..(pos - 1) \subseteq 1..(r - 1)
    BY ONLY <2>1, <2>3, r \in Nat, p \in Nat \ {0}
  <2> QED  BY ONLY <2>2, <2>4
<1> QED  BY <1>1, <1>2 DEF Holds, Shape, Added

(* The node of the next token is fresh, and so is the one of the innermost call. *)
LEMMA NextIsFresh ==
  ASSUME NEW depth, Holds(depth), NEW p \in Nat, p >= pos
  PROVE  p \notin DOMAIN nodes /\ (\A i \in 1..Len(calls) : calls[i].at < p /\ calls[i].at \notin DOMAIN nodes)
<1>1. p \notin DOMAIN nodes
  BY DEF Holds, Shape
<1>2. ASSUME NEW i \in 1..Len(calls)
      PROVE  calls[i].at < p /\ calls[i].at \notin DOMAIN nodes
  <2>1. calls[i].at \in Nat /\ pos \in Nat
    BY Stack, FrameFields DEF Holds, Shape
  <2>2. calls[i].at < pos /\ calls[i].at \notin DOMAIN nodes
    BY DEF Holds, Stacked, FrameOk
  <2> QED  BY <2>1, <2>2
<1> QED  BY <1>1, <1>2

LEMMA TopIsFresh ==
  ASSUME NEW depth, Holds(depth), Top.at # NoNode
  PROVE  /\ Top.at \in Nat \ {0} /\ Top.at < pos /\ Top.at \notin DOMAIN nodes
         /\ \A i \in 1..(Len(calls) - 1) : calls[i].at \notin DOMAIN nodes \cup {Top.at}
<1>1. /\ Len(calls) \in Nat \ {0} /\ Top = calls[Len(calls)]
      /\ \A i \in 1..Len(calls) : calls[i] \in Frames
  BY Stack DEF Holds
<1>2. \A i \in 1..Len(calls) : calls[i].at \in Nat
  BY <1>1, FrameFields
<1>3. \A i \in 1..Len(calls) : calls[i].at < pos /\ calls[i].at \notin DOMAIN nodes
  BY DEF Holds, Stacked, FrameOk
<1>4. \A i \in 1..(Len(calls) - 1) : calls[i].at < Top.at
  BY <1>1 DEF Holds, Ordered
<1> QED  BY <1>1, <1>2, <1>3, <1>4 DEF NoNode

(* Nodes that are no operators have nothing to obey. *)
LEMMA PlainNodeAdded ==
  ASSUME NEW depth, Holds(depth), NEW p \in Nat \ {0}, p \notin DOMAIN nodes,
         NEW kind, kind \notin {"binary", "not"}, NEW lhs, NEW rhs, NEW args, Known(lhs), Known(rhs),
         nodes' = Having(nodes, p, Node(kind, lhs, rhs, args)),
         tokens' = tokens, pos' \in Nat, pos' >= pos, p < pos', value' = p \/ value' = value
  PROVE  Added /\ Known(p)' /\ ~Op(p)'
<1>1. PICK x : x = Node(kind, lhs, rhs, args)
  OBVIOUS
<1>2. x.kind = kind /\ x.lhs = lhs /\ x.rhs = rhs
  BY <1>1 DEF Node
<1>3. /\ DOMAIN nodes' = DOMAIN nodes \cup {p} /\ nodes'[p] = x
      /\ \A q \in DOMAIN nodes : nodes'[q] = nodes[q]
  BY <1>1, NewNode
<1>4. Known(value)' /\ Known(p)'
  BY <1>3 DEF Known, Holds, Shape
<1>5. NodeOk(p)'
  BY <1>2, <1>3 DEF NodeOk, Follows, Known
<1>6. Added
  BY <1>1, <1>4, <1>5, NodeAdded
<1> QED  BY <1>2, <1>3, <1>4, <1>6 DEF Op
----------------------------------------------------------------------------
(* What holds of the innermost call, and of the one it was called by. *)
LEMMA Innermost ==
  ASSUME NEW depth, Holds(depth), NEW n, n = Len(calls)
  PROVE  /\ n \in Nat \ {0} /\ Top = calls[n] /\ Top \in Frames /\ depth[n] \in Int /\ pos \in Nat \ {0}
         /\ FrameOk(Top, depth[n]) /\ TopOk(Top, depth[n])
         /\ Top.kind # "root" => n > 1
         /\ n > 1 => /\ calls[n - 1] \in Frames /\ depth[n - 1] \in Int
                     /\ PairOk(calls[n - 1], Top, depth[n - 1], depth[n])
<1>1. /\ n \in Nat \ {0} /\ Top = calls[n] /\ pos \in Nat \ {0} /\ calls[1].kind = "root"
      /\ \A i \in 1..n : calls[i] \in Frames
  BY Stack DEF Holds, Shape
<1>2. \A i \in 1..n : depth[i] \in Int
  BY DEF Holds
<1>3. /\ \A i \in 1..n : FrameOk(calls[i], depth[i])
      /\ \A i \in 1..(n - 1) : PairOk(calls[i], calls[i + 1], depth[i], depth[i + 1])
      /\ TopOk(Top, depth[n])
  BY DEF Holds, Stacked
<1>4. n \in 1..n /\ (n > 1 => n - 1 \in 1..(n - 1) /\ n - 1 \in 1..n /\ (n - 1) + 1 = n) /\ (n > 1 \/ n = 1)
  BY <1>1
<1> QED  BY ONLY <1>1, <1>2, <1>3, <1>4

(* Where parsing goes on. *)
LEMMA NextToken ==
  ASSUME tokens' = tokens, NEW r, pos' = r
  PROVE  /\ Depth(pos)' = Depth(r) /\ Tok(pos)' = Tok(r)
         /\ IsOperator(pos)' = IsOperator(r) /\ Prec(pos)' = Prec(r)
<1>1. /\ Depth(r)' = Depth(r) /\ Tok(r)' = Tok(r)
      /\ IsOperator(r)' = IsOperator(r) /\ Prec(r)' = Prec(r)
  BY TextStays
<1>2. /\ Depth(pos)' = Depth(r)' /\ Tok(pos)' = Tok(r)'
      /\ IsOperator(pos)' = IsOperator(r)' /\ Prec(pos)' = Prec(r)'
  OBVIOUS
<1> QED  BY <1>1, <1>2

(* A call that waits for an operand goes on to wait for it, or gets it. *)
LEMMA OperandGiven ==
  ASSUME NEW f, NEW d, AwaitsPrimary(f), doing' \in {"primary", "member", "value"},
         doing' = "value" => Inside(value, d)', Depth(pos)' = d
  PROVE  TopOk(f, d)'
  BY DEF TopOk, Given, AwaitsPrimary, AwaitsChain

LEMMA NoOperator ==
  ASSUME NEW p, ~Op(p)', value' = p, NEW d
  PROVE  Inside(value, d)'
  BY DEF Inside, Op

(* A node of the next token, or of the innermost call, that is no operator. *)
LEMMA NextNodeAdded ==
  ASSUME NEW depth, Holds(depth), NEW n, n = Len(calls), NEW p \in Nat \ {0}, p >= pos,
         NEW kind, kind \notin {"binary", "not"}, NEW lhs, NEW args, Known(lhs),
         nodes' = Having(nodes, p, Node(kind, lhs, NoNode, args)),
         tokens' = tokens, NEW r \in Nat, pos' = r, p < r, value' \in {p, value}
  PROVE  Added /\ Fresh(n) /\ Known(p)' /\ ~Op(p)'
<1>1. /\ p \notin DOMAIN nodes /\ \A i \in 1..n : calls[i].at < p /\ calls[i].at \notin DOMAIN nodes
  BY NextIsFresh
<1>2. Added /\ ~Op(p)' /\ Known(p)'
  <2>1. pos \in Nat
    BY DEF Holds, Shape
  <2>2. pos' \in Nat /\ pos' >= pos /\ p < pos'
    BY <2>1
  <2>3. Known(NoNode)
    BY DEF Known
  <2> QED  BY <1>1, <2>2, <2>3, PlainNodeAdded
<1>3. Fresh(n)
  <2>1. \A i \in 1..n : calls[i].at # p
    <3>1. \A i \in 1..n : calls[i].at \in Nat
      BY Stack, FrameFields DEF Holds
    <3> QED  BY <1>1, <3>1
  <2>2. DOMAIN nodes' = DOMAIN nodes \cup {p}
    BY <1>1, NewNode
  <2> QED  BY <1>1, <2>1, <2>2 DEF Fresh
<1> QED  BY <1>2, <1>3

LEMMA TopNodeAdded ==
  ASSUME NEW depth, Holds(depth), NEW n, n = Len(calls), NEW p, p = Top.at, p # NoNode,
         NEW kind, kind \notin {"binary", "not"}, NEW lhs, NEW rhs, NEW args, Known(lhs), Known(rhs),
         nodes' = Having(nodes, p, Node(kind, lhs, rhs, args)),
         tokens' = tokens, NEW r \in Nat, pos' = r, r >= pos, value' \in {p, value}
  PROVE  Added /\ Fresh(n - 1) /\ Known(p)' /\ ~Op(p)'
<1>1. /\ p \in Nat \ {0} /\ p < pos /\ p \notin DOMAIN nodes
      /\ \A i \in 1..(n - 1) : calls[i].at \notin DOMAIN nodes \cup {p}
  BY TopIsFresh
<1>2. Added /\ ~Op(p)' /\ Known(p)'
  <2>1. pos \in Nat
    BY DEF Holds, Shape
  <2>2. pos' \in Nat /\ pos' >= pos /\ p < pos'
    BY <1>1, <2>1
  <2> QED  BY <1>1, <2>2, PlainNodeAdded
<1>3. DOMAIN nodes' = DOMAIN nodes \cup {p}
  BY <1>1, NewNode
<1> QED  BY <1>1, <1>2, <1>3 DEF Fresh

LEMMA NumberKeepsInv ==
  ASSUME NEW depth, Holds(depth), ParseNumber
  PROVE  ParseInv'
<1> DEFINE n == Len(calls)
           at == IF Tok(pos) = "minus" THEN pos + 1 ELSE pos
<1>1. /\ n \in Nat \ {0} /\ Top = calls[n] /\ depth[n] \in Int /\ pos \in Nat \ {0}
      /\ TopOk(Top, depth[n])
  BY Innermost
<1>2. /\ doing = "primary" /\ Tok(at) = "number" /\ tokens' = tokens /\ calls' = calls /\ doing' = "value"
      /\ nodes' = Having(nodes, at, Node("literal", NoNode, NoNode, <<>>)) /\ value' = at /\ pos' = at + 1
  BY DEF ParseNumber, Doing, Return
<1>3. AwaitsPrimary(Top) /\ Depth(pos) = depth[n]
  BY <1>1, <1>2 DEF TopOk, AwaitsPrimary, ExprKinds
<1>4. at \in Nat \ {0} /\ at >= pos
  BY <1>1
<1>5. Depth(at + 1) = depth[n]
  <2>1. Depth(at) = depth[n]
    BY <1>1, <1>3, DepthAt
  <2> QED  BY <1>2, <1>4, <2>1, DepthAt
<1> HIDE DEF at
<1>6. PICK p \in Nat \ {0} : p = at
  BY <1>4
<1>7. Added /\ Fresh(n) /\ ~Op(p)'
  <2>1. PICK r \in Nat : r = p + 1
    OBVIOUS
  <2>2. Known(NoNode) /\ "literal" \notin {"binary", "not"}
    BY DEF Known
  <2>3. /\ nodes' = Having(nodes, p, Node("literal", NoNode, NoNode, <<>>)) /\ tokens' = tokens
        /\ pos' = r /\ p < r /\ p >= pos /\ value' \in {p, value}
    BY <1>2, <1>4, <1>6, <2>1
  <2> QED  BY <2>2, <2>3, NextNodeAdded
<1>8. PICK f : f = Top
  OBVIOUS
<1>9. TopOk(f, depth[n])'
  <2>1. Depth(pos)' = depth[n]
    BY <1>2, <1>5, <1>6, NextToken
  <2>2. Inside(value, depth[n])'
    BY <1>2, <1>6, <1>7, NoOperator
  <2> QED  BY <1>2, <1>3, <1>8, <2>1, <2>2, OperandGiven
<1> QED  BY <1>1, <1>2, <1>7, <1>8, <1>9, Stay

LEMMA LiteralKeepsInv ==
  ASSUME NEW depth, Holds(depth), ParseLiteral
  PROVE  ParseInv'
<1> DEFINE n == Len(calls)
<1>1. /\ n \in Nat \ {0} /\ Top = calls[n] /\ depth[n] \in Int /\ pos \in Nat \ {0}
      /\ TopOk(Top, depth[n])
  BY Innermost
<1>2. PICK p \in Nat \ {0} : p = pos
  BY <1>1
<1>3. /\ doing = "primary" /\ Tok(p) = "literal" /\ tokens' = tokens /\ calls' = calls /\ doing' = "value"
      /\ nodes' = Having(nodes, p, Node("literal", NoNode, NoNode, <<>>)) /\ value' = p /\ pos' = p + 1
  BY <1>2 DEF ParseLiteral, Doing, Return
<1>4. AwaitsPrimary(Top) /\ Depth(p) = depth[n]
  BY <1>1, <1>2, <1>3 DEF TopOk, AwaitsPrimary, ExprKinds
<1>5. Depth(p + 1) = depth[n]
  BY <1>3, <1>4, DepthAt
<1>6. PICK r \in Nat : r = p + 1
  OBVIOUS
<1>7. Added /\ Fresh(n) /\ ~Op(p)'
  BY <1>2, <1>3, <1>6, NextNodeAdded DEF Known
<1>8. PICK f : f = Top
  OBVIOUS
<1>9. TopOk(f, depth[n])'
  <2>1. Depth(pos)' = depth[n]
    BY <1>3, <1>5, <1>6, NextToken
  <2>2. Inside(value, depth[n])'
    BY <1>3, <1>7, NoOperator
  <2> QED  BY <1>3, <1>4, <1>8, <2>1, <2>2, OperandGiven
<1> QED  BY <1>1, <1>3, <1>7, <1>8, <1>9, Stay

(* Behind a name or a call: whether a dot follows or not. *)
LEMMA FollowGiven ==
  ASSUME NEW f, NEW d, AwaitsPrimary(f), NEW node, NEW q \in Nat \ {0}, tokens' = tokens,
         Follow(node, q), ~Op(node)', Depth(q) = d
  PROVE  /\ TopOk(f, d)' /\ value' = node /\ pos' \in {q, q + 1}
<1>1. CASE Tok(q) = "dot"
  <2>1. doing' = "member" /\ value' = node /\ pos' = q + 1
    BY <1>1 DEF Follow
  <2>2. Depth(q + 1) = d
    BY <1>1, DepthAt
  <2>3. Depth(pos)' = d
    BY <2>1, <2>2, NextToken
  <2> QED  BY <2>1, <2>3, OperandGiven
<1>2. CASE Tok(q) # "dot"
  <2>1. doing' = "value" /\ value' = node /\ pos' = q
    BY <1>2 DEF Follow, Return
  <2>2. Depth(pos)' = d
    BY <2>1, NextToken
  <2>3. Inside(value, d)'
    BY <2>1, NoOperator
  <2> QED  BY <2>1, <2>2, <2>3, OperandGiven
<1> QED  BY <1>1, <1>2

LEMMA NameKeepsInv ==
  ASSUME NEW depth, Holds(depth), ParseName
  PROVE  ParseInv'
<1> DEFINE n == Len(calls)
<1>1. /\ n \in Nat \ {0} /\ Top = calls[n] /\ depth[n] \in Int /\ pos \in Nat \ {0}
      /\ TopOk(Top, depth[n])
  BY Innermost
<1>2. PICK p \in Nat \ {0} : p = pos
  BY <1>1
<1>3. /\ doing \in {"primary", "member"} /\ Tok(p) = "id" /\ tokens' = tokens /\ calls' = calls
      /\ nodes' = Having(nodes, p, Node("name", Parent, NoNode, <<>>)) /\ Follow(p, p + 1)
  BY <1>2 DEF ParseName, AtName, Doing
<1>4. AwaitsPrimary(Top) /\ Depth(p) = depth[n]
  BY <1>1, <1>2, <1>3 DEF TopOk, AwaitsPrimary, ExprKinds
<1>5. Depth(p + 1) = depth[n]
  BY <1>3, <1>4, DepthAt
<1>6. PICK r \in Nat : r = pos' /\ p < r /\ value' = p
  BY <1>3 DEF Follow, Return
<1>7. Added /\ Fresh(n) /\ ~Op(p)'
  <2>1. Known(Parent)
    BY DEF Parent, Known, Holds, Shape
  <2> QED  BY <1>2, <1>3, <1>6, <2>1, NextNodeAdded
<1>8. PICK f : f = Top
  OBVIOUS
<1>9. TopOk(f, depth[n])'
  BY <1>3, <1>4, <1>5, <1>7, <1>8, FollowGiven
<1> QED  BY <1>1, <1>3, <1>7, <1>8, <1>9, Stay
LEMMA Update ==
  ASSUME NEW depth, Holds(depth), Added, NEW n, n = Len(calls), Fresh(n),
         NEW t \in Frames, Same(Top, t), calls' = Append(Below, t), TopOk(t, depth[n])'
  PROVE  ParseInv'
<1>1. n \in 1..Len(calls) /\ n \in Nat /\ Top = calls[n]
  BY Stack DEF Holds
<1>2. Len(calls') = n /\ calls' \in Seq(Frames) /\ calls'[n] = t /\ \A i \in 1..(n - 1) : calls'[i] = calls[i]
  BY Stack, Pushed DEF Holds
<1>3. Begins(n)
  <2>1. \A i \in 1..n : i = n \/ i \in 1..(n - 1)
    BY <1>1
  <2> QED  BY <1>1, <1>2, <2>1 DEF Begins, Fresh, Same
<1> QED  BY <1>1, <1>2, <1>3, StepNone

(* A call for an operand works one level deeper if it has parentheses. *)
LEMMA OperandCalls ==
  ASSUME NEW f, NEW g, NEW d, NEW e, AwaitsPrimary(f), g.kind \in {"not", "paren", "call"},
         e = IF g.kind = "not" THEN d ELSE d + 1
  PROVE  PairOk(f, g, d, e)'
<1>1. AwaitsPrimary(f)' /\ f.kind \in ExprKinds
  BY DEF AwaitsPrimary, ExprKinds
<1> QED  BY <1>1 DEF PairOk, ExprKinds

LEMMA CallKeepsInv ==
  ASSUME NEW depth, Holds(depth), ParseCall
  PROVE  ParseInv'
<1>0. PICK n : n = Len(calls)
  OBVIOUS
<1>1. /\ n \in Nat \ {0} /\ Top = calls[n] /\ Top \in Frames /\ depth[n] \in Int /\ pos \in Nat \ {0}
      /\ TopOk(Top, depth[n])
  BY <1>0, Innermost
<1>2. PICK p \in Nat \ {0} : p = pos
  BY <1>1
<1>3. /\ doing \in {"primary", "member"} /\ Tok(p) = "id" /\ Tok(p + 1) = "lp" /\ tokens' = tokens
      /\ calls' = Append(calls, Frame("call", 0, p, Parent))
      /\ nodes' = nodes /\ pos' = p + 2 /\ doing' = "argument" /\ value' = value
  BY <1>2 DEF ParseCall, AtName, Doing
<1>4. AwaitsPrimary(Top) /\ Depth(p) = depth[n]
  BY <1>1, <1>2, <1>3 DEF TopOk, AwaitsPrimary, ExprKinds
<1>5. PICK d \in Int : d = depth[n] + 1
  BY <1>1
<1>6. Depth(p + 2) = d
  <2>1. Depth(p + 1) = depth[n]
    BY <1>3, <1>4, DepthAt
  <2>2. p + 1 \in Nat \ {0} /\ (p + 1) + 1 = p + 2
    OBVIOUS
  <2> QED  BY <1>3, <1>5, <2>1, <2>2, DepthAt
<1>7. PICK r \in Nat : r = p + 2
  OBVIOUS
<1>8. Added /\ Fresh(n)
  <2>1. pos' \in Nat /\ pos' >= pos
    BY <1>2, <1>3, <1>7
  <2>2. Known(value)'
    BY <1>3 DEF Known, Holds, Shape
  <2> QED  BY <1>3, <2>1, <2>2, NoNodeAdded, <1>0
<1>9. PICK g : g = Frame("call", 0, p, Parent)
  OBVIOUS
<1>10. Known(Parent) /\ Parent \in Nat
  BY DEF Parent, Known, Holds, Shape, NoNode
<1>11. g \in Frames /\ g.kind = "call" /\ g.at = p /\ g.lhs = Parent
  <2>1. "call" \in FrameKinds /\ 0 \in Int /\ p \in Nat
    BY DEF FrameKinds, ExprKinds
  <2> QED  BY ONLY <1>9, <1>10, <2>1, FrameIsFrame
<1>12. p \notin DOMAIN nodes /\ \A i \in 1..n : calls[i].at < p
  BY <1>0, <1>2, NextIsFresh
<1>13. FrameOk(g, d)'
  <2>1. g.at < pos' /\ g.at # 0
    BY <1>3, <1>7, <1>11
  <2>2. Known(g.lhs)'
    BY <1>3, <1>10, <1>11 DEF Known
  <2> QED  BY <1>3, <1>11, <1>12, <2>1, <2>2 DEF FrameOk, NoNode
<1>14. PICK f : f = calls[n]
  OBVIOUS
<1>15. PairOk(f, g, depth[n], d)'
  <2>1. AwaitsPrimary(f) /\ g.kind \in {"not", "paren", "call"} /\ d = IF g.kind = "not" THEN depth[n] ELSE depth[n] + 1
    BY <1>1, <1>4, <1>5, <1>11, <1>14
  <2> QED  BY <2>1, OperandCalls
<1>16. TopOk(g, d)'
  <2>1. Depth(pos)' = d
    BY <1>3, <1>6, NextToken
  <2> QED  BY <1>3, <1>11, <2>1 DEF TopOk, AwaitsPrimary
<1>17. Same(f, Top)
  BY <1>1, <1>14 DEF Same
<1>18. calls' = Append(calls, g) /\ (g.at # NoNode => \A i \in 1..n : calls[i].at < g.at)
  BY <1>3, <1>9, <1>11, <1>12
<1> QED  BY <1>0, <1>1, <1>8, <1>11, <1>13, <1>14, <1>15, <1>16, <1>17, <1>18, Push

LEMMA ArgumentKeepsInv ==
  ASSUME NEW depth, Holds(depth), ParseArgument
  PROVE  ParseInv'
<1>0. PICK n : n = Len(calls)
  OBVIOUS
<1>1. /\ n \in Nat \ {0} /\ Top = calls[n] /\ Top \in Frames /\ depth[n] \in Int /\ pos \in Nat \ {0}
      /\ TopOk(Top, depth[n])
  BY <1>0, Innermost
<1>2. PICK p \in Nat \ {0} : p = pos
  BY <1>1
<1>3. PICK t : t = [Top EXCEPT !.named = NamedHere]
  OBVIOUS
<1>4. PICK g : g = Frame("expr", 0, 0, NoNode)
  OBVIOUS
<1>5. /\ doing = "argument" /\ Tok(p) \notin {"rp", "eof"} /\ tokens' = tokens
      /\ calls' = Append(Append(Below, t), g)
      /\ nodes' = nodes /\ pos' = (IF NamedHere THEN p + 2 ELSE p) /\ doing' = "primary" /\ value' = value
  BY <1>2, <1>3, <1>4 DEF ParseArgument, Doing
<1>6. Top.kind = "call" /\ Depth(p) = depth[n]
  BY <1>1, <1>2, <1>5 DEF TopOk, ExprKinds
<1>7. PICK r \in Nat : r = pos' /\ r >= p /\ Depth(r) = depth[n]
  <2>1. CASE NamedHere
    <3>1. Tok(p) = "id" /\ Tok(p + 1) \in {"assign", "colon"}
      BY <1>2, <2>1 DEF NamedHere
    <3>2. Depth(p + 1) = depth[n]
      BY <1>6, <3>1, DepthAt
    <3>3. p + 1 \in Nat \ {0} /\ (p + 1) + 1 = p + 2
      OBVIOUS
    <3>4. Depth(p + 2) = depth[n]
      BY <3>1, <3>2, <3>3, DepthAt
    <3> QED  BY <1>5, <2>1, <3>4
  <2>2. CASE ~NamedHere
    BY <1>5, <1>6, <2>2
  <2> QED  BY <2>1, <2>2
<1>8. Added /\ Fresh(n)
  <2>1. pos' \in Nat /\ pos' >= pos
    BY <1>2, <1>7
  <2>2. Known(value)'
    BY <1>5 DEF Known, Holds, Shape
  <2> QED  BY <1>5, <2>1, <2>2, NoNodeAdded, <1>0
<1>9. t \in Frames /\ Same(Top, t)
  BY <1>1, <1>3 DEF Frames, Same, NamedHere
<1>10. g \in Frames /\ g.kind = "expr" /\ g.at = NoNode /\ g.lhs = NoNode
  BY <1>4, FrameIsFrame DEF FrameKinds, ExprKinds, NoNode
<1>11. FrameOk(g, depth[n])'
  <2>1. g.at < pos' /\ g.at \notin DOMAIN nodes
    BY <1>1, <1>2, <1>7, <1>10 DEF NoNode, Holds, Shape
  <2> QED  BY <1>5, <1>10, <2>1 DEF FrameOk, Known
<1>12. PICK f : f = calls[n]
  OBVIOUS
<1>13. PairOk(f, g, depth[n], depth[n])'
  BY <1>1, <1>6, <1>10, <1>12 DEF PairOk, ExprKinds
<1>14. TopOk(g, depth[n])'
  <2>1. Depth(pos)' = depth[n]
    BY <1>5, <1>7, NextToken
  <2>2. AwaitsPrimary(g)
    BY <1>10 DEF AwaitsPrimary
  <2>3. doing' = "primary"
    BY <1>5
  <2> QED  BY ONLY <2>1, <2>2, <2>3, OperandGiven
<1>15. Same(f, t)
  BY <1>1, <1>9, <1>12
<1> QED  BY <1>0, <1>1, <1>5, <1>8, <1>9, <1>10, <1>11, <1>12, <1>13, <1>14, <1>15, Push
LEMMA NextArgumentKeepsInv ==
  ASSUME NEW depth, Holds(depth), NextArgument
  PROVE  ParseInv'
<1>0. PICK n : n = Len(calls)
  OBVIOUS
<1>1. /\ n \in Nat \ {0} /\ Top = calls[n] /\ Top \in Frames /\ depth[n] \in Int /\ pos \in Nat \ {0}
      /\ TopOk(Top, depth[n])
  BY <1>0, Innermost
<1>2. PICK p \in Nat \ {0} : p = pos
  BY <1>1
<1>3. PICK t : t = [Top EXCEPT !.args = Append(@, value)]
  OBVIOUS
<1>4. /\ doing = "value" /\ Top.kind = "call" /\ Tok(p) = "comma" /\ tokens' = tokens
      /\ calls' = Append(Below, t) /\ nodes' = nodes /\ pos' = p + 1 /\ doing' = "argument" /\ value' = value
  BY <1>2, <1>3 DEF NextArgument, Doing, InCall
<1>5. Depth(p + 1) = depth[n]
  <2>1. Depth(p) = depth[n]
    BY <1>1, <1>2, <1>4 DEF TopOk, ExprKinds
  <2> QED  BY <1>4, <2>1, DepthAt
<1>6. Added /\ Fresh(n)
  <2>1. PICK r \in Nat : r = p + 1
    OBVIOUS
  <2>2. pos' \in Nat /\ pos' >= pos
    BY <1>2, <1>4, <2>1
  <2>3. Known(value)'
    BY <1>4 DEF Known, Holds, Shape
  <2> QED  BY <1>4, <2>2, <2>3, NoNodeAdded, <1>0
<1>7. t \in Frames /\ Same(Top, t) /\ t.kind = "call"
  <2>1. value \in Nat
    BY DEF Holds, Shape, Known, NoNode
  <2>2. PICK args : args = Append(Top.args, value)
    OBVIOUS
  <2>3. Top.args \in Seq(Nat)
    BY <1>1 DEF Frames
  <2>4. args \in Seq(Nat)
    BY ONLY <2>1, <2>2, <2>3
  <2>5. t = [Top EXCEPT !.args = args]
    BY <1>3, <2>2
  <2> QED  BY <1>1, <1>4, <2>4, <2>5 DEF Frames, Same
<1>8. TopOk(t, depth[n])'
  <2>1. Depth(pos)' = depth[n]
    BY <1>4, <1>5, NextToken
  <2> QED  BY <1>4, <1>7, <2>1 DEF TopOk
<1> QED  BY <1>0, <1>4, <1>6, <1>7, <1>8, Update

LEMMA EndCallKeepsInv ==
  ASSUME NEW depth, Holds(depth), EndCall
  PROVE  ParseInv'
<1>0. PICK n : n = Len(calls)
  OBVIOUS
<1>1. /\ n \in Nat \ {0} /\ Top = calls[n] /\ Top \in Frames /\ depth[n] \in Int /\ pos \in Nat \ {0}
      /\ FrameOk(Top, depth[n]) /\ TopOk(Top, depth[n])
      /\ Top.kind # "root" => n > 1
      /\ n > 1 => depth[n - 1] \in Int /\ PairOk(calls[n - 1], Top, depth[n - 1], depth[n])
  BY <1>0, Innermost
<1>2. PICK p \in Nat \ {0} : p = pos
  BY <1>1
<1>3. PICK at : at = Top.at
  OBVIOUS
<1>4. PICK args : /\ nodes' = Having(nodes, at, Node("call", Top.lhs, NoNode, args))
                  /\ Top.kind = "call" /\ Tok(p) = "rp" /\ tokens' = tokens
                  /\ calls' = Below /\ Follow(at, p + 1)
  BY <1>2, <1>3 DEF EndCall, InCall
<1>5. PICK f : f = calls[n - 1]
  OBVIOUS
<1>6. AwaitsPrimary(f) /\ Depth(p + 1) = depth[n - 1] /\ n > 1
  <2>1. Depth(p) = depth[n]
    BY <1>1, <1>2, <1>4 DEF TopOk, ExprKinds
  <2>2. n > 1 /\ PairOk(f, Top, depth[n - 1], depth[n])
    BY <1>1, <1>4, <1>5
  <2>3. AwaitsPrimary(f)
    BY <1>4, <2>2 DEF PairOk
  <2>4. f.kind \in ExprKinds
    BY <2>3 DEF AwaitsPrimary, ExprKinds
  <2>5. depth[n] = depth[n - 1] + 1
    BY <1>4, <2>2, <2>4 DEF PairOk
  <2> QED  BY <1>1, <1>4, <2>1, <2>2, <2>3, <2>5, DepthAt
<1>7. PICK r \in Nat : r = pos' /\ r >= pos /\ value' = at
  BY <1>2, <1>4 DEF Follow, Return
<1>8. Added /\ Fresh(n - 1) /\ ~Op(at)'
  <2>1. at # NoNode /\ Known(Top.lhs) /\ Known(NoNode)
    BY <1>1, <1>3, <1>4 DEF FrameOk, Known
  <2> QED  BY <1>0, <1>3, <1>4, <1>7, <2>1, TopNodeAdded
<1>9. TopOk(f, depth[n - 1])'
  BY <1>4, <1>6, <1>8, FollowGiven
<1> QED  BY <1>0, <1>4, <1>5, <1>6, <1>8, <1>9, Pop

LEMMA NotKeepsInv ==
  ASSUME NEW depth, Holds(depth), ParseNot
  PROVE  ParseInv'
<1>0. PICK n : n = Len(calls)
  OBVIOUS
<1>1. /\ n \in Nat \ {0} /\ Top = calls[n] /\ Top \in Frames /\ depth[n] \in Int /\ pos \in Nat \ {0}
      /\ TopOk(Top, depth[n])
  BY <1>0, Innermost
<1>2. PICK p \in Nat \ {0} : p = pos
  BY <1>1
<1>3. PICK g : g = Frame("not", 0, p, NoNode)
  OBVIOUS
<1>4. /\ doing = "primary" /\ Tok(p) = "not" /\ tokens' = tokens /\ calls' = Append(calls, g)
      /\ nodes' = nodes /\ pos' = p + 1 /\ doing' = doing /\ value' = value
  BY <1>2, <1>3 DEF ParseNot, Doing
<1>5. AwaitsPrimary(Top) /\ Depth(p) = depth[n] /\ Depth(p + 1) = depth[n]
  <2>1. AwaitsPrimary(Top) /\ Depth(p) = depth[n]
    BY <1>1, <1>2, <1>4 DEF TopOk, AwaitsPrimary, ExprKinds
  <2> QED  BY <1>4, <2>1, DepthAt
<1>6. PICK r \in Nat : r = p + 1
  OBVIOUS
<1>7. Added /\ Fresh(n)
  <2>1. pos' \in Nat /\ pos' >= pos
    BY <1>2, <1>4, <1>6
  <2>2. Known(value)'
    BY <1>4 DEF Known, Holds, Shape
  <2> QED  BY <1>4, <2>1, <2>2, NoNodeAdded, <1>0
<1>8. g \in Frames /\ g.kind = "not" /\ g.at = p /\ g.lhs = NoNode
  <2>1. "not" \in FrameKinds /\ 0 \in Int /\ p \in Nat /\ NoNode \in Nat
    BY DEF FrameKinds, ExprKinds, NoNode
  <2> QED  BY <1>3, <2>1, FrameIsFrame
<1>9. p \notin DOMAIN nodes /\ \A i \in 1..n : calls[i].at < p
  BY <1>0, <1>2, NextIsFresh
<1>10. FrameOk(g, depth[n])'
  <2>1. g.at < pos' /\ g.at # 0
    BY <1>4, <1>6, <1>8
  <2>2. Depth(g.at)' = depth[n]
    BY <1>4, <1>5, <1>8, TextStays
  <2> QED  BY <1>4, <1>8, <1>9, <2>1, <2>2 DEF FrameOk, NoNode, Known
<1>11. PICK f : f = calls[n]
  OBVIOUS
<1>12. PairOk(f, g, depth[n], depth[n])'
  BY <1>1, <1>5, <1>8, <1>11, OperandCalls
<1>13. TopOk(g, depth[n])'
  <2>1. Depth(pos)' = depth[n]
    BY <1>4, <1>5, NextToken
  <2>2. AwaitsPrimary(g) /\ doing' = "primary"
    BY <1>4, <1>8 DEF AwaitsPrimary
  <2> QED  BY ONLY <2>1, <2>2, OperandGiven
<1>14. Same(f, Top) /\ (g.at # NoNode => \A i \in 1..n : calls[i].at < g.at)
  BY <1>1, <1>8, <1>9, <1>11 DEF Same
<1> QED  BY <1>0, <1>1, <1>4, <1>7, <1>8, <1>10, <1>11, <1>12, <1>13, <1>14, Push
(* An operator or a negation is made of the innermost call. *)
LEMMA OperatorMade ==
  ASSUME NEW depth, Holds(depth), NEW n, n = Len(calls), NEW p, p = Top.at, p # NoNode,
         NEW kind, NEW lhs, NEW rhs, Known(lhs), Known(rhs),
         kind = "binary" =>
           /\ IsOperator(p)
           /\ BareOperator(p, lhs) => Prec(lhs) >= Prec(p)
           /\ BareOperator(p, rhs) => Prec(rhs) > Prec(p),
         kind = "not" => ~BareOperator(p, rhs),
         nodes' = Having(nodes, p, Node(kind, lhs, rhs, <<>>)),
         tokens' = tokens, pos' = pos, value' = p
  PROVE  Added /\ Fresh(n - 1) /\ Known(p)' /\ Op(p)' = (kind = "binary")
<1>1. /\ p \in Nat \ {0} /\ p < pos /\ p \notin DOMAIN nodes
      /\ \A i \in 1..(n - 1) : calls[i].at \notin DOMAIN nodes \cup {p}
  BY TopIsFresh
<1>2. PICK x : x = Node(kind, lhs, rhs, <<>>)
  OBVIOUS
<1>3. x.kind = kind /\ x.lhs = lhs /\ x.rhs = rhs
  BY <1>2 DEF Node
<1>4. /\ DOMAIN nodes' = DOMAIN nodes \cup {p} /\ nodes'[p] = x
      /\ \A q \in DOMAIN nodes : nodes'[q] = nodes[q]
  BY <1>1, <1>2, NewNode
<1>5. Known(p)' /\ Known(value)' /\ Op(p)' = (kind = "binary")
  BY <1>3, <1>4 DEF Known, Op
<1>6. Known(lhs)' /\ Known(rhs)' /\ BareOperator(p, lhs)' = BareOperator(p, lhs) /\ BareOperator(p, rhs)' = BareOperator(p, rhs)
  BY <1>1, <1>4, TextStays DEF Known, BareOperator, NoNode
<1>7. NodeOk(p)'
  BY <1>3, <1>4, <1>6, TextStays DEF NodeOk, Follows
<1>8. Added
  <2>1. pos \in Nat
    BY DEF Holds, Shape
  <2> QED  BY <1>1, <1>2, <1>5, <1>7, <2>1, NodeAdded
<1> QED  BY <1>1, <1>4, <1>5, <1>8 DEF Fresh

LEMMA EndNotKeepsInv ==
  ASSUME NEW depth, Holds(depth), EndNot
  PROVE  ParseInv'
<1>0. PICK n : n = Len(calls)
  OBVIOUS
<1>1. /\ n \in Nat \ {0} /\ Top = calls[n] /\ Top \in Frames /\ depth[n] \in Int /\ pos \in Nat \ {0}
      /\ FrameOk(Top, depth[n]) /\ TopOk(Top, depth[n])
      /\ Top.kind # "root" => n > 1
      /\ n > 1 => depth[n - 1] \in Int /\ PairOk(calls[n - 1], Top, depth[n - 1], depth[n])
  BY <1>0, Innermost
<1>2. PICK p \in Nat \ {0} : p = pos
  BY <1>1
<1>3. PICK at : at = Top.at
  OBVIOUS
<1>4. /\ nodes' = Having(nodes, at, Node("not", NoNode, value, <<>>))
      /\ doing = "value" /\ Top.kind = "not" /\ tokens' = tokens
      /\ calls' = Below /\ pos' = p /\ value' = at /\ doing' = "value"
  BY <1>2, <1>3 DEF EndNot, InCall, Doing, Return
<1>5. PICK f : f = calls[n - 1]
  OBVIOUS
<1>6. AwaitsPrimary(f) /\ Depth(p) = depth[n - 1] /\ depth[n] = depth[n - 1] /\ n > 1
  <2>1. Depth(p) = depth[n]
    BY <1>1, <1>2, <1>4 DEF TopOk, ExprKinds
  <2>2. n > 1 /\ PairOk(f, Top, depth[n - 1], depth[n])
    BY <1>1, <1>4, <1>5
  <2>3. AwaitsPrimary(f)
    BY <1>4, <2>2 DEF PairOk
  <2>4. f.kind \in ExprKinds
    BY <2>3 DEF AwaitsPrimary, ExprKinds
  <2> QED  BY <1>4, <2>1, <2>2, <2>3, <2>4 DEF PairOk
<1>7. at # NoNode /\ Depth(at) = depth[n] /\ Known(value) /\ Inside(value, depth[n])
  BY <1>1, <1>3, <1>4 DEF FrameOk, TopOk, Given, AwaitsPrimary, Holds, Shape
<1>8. Added /\ Fresh(n - 1) /\ ~Op(at)'
  <2>1. ~BareOperator(at, value)
    <3>1. CASE Op(value)
      <4>1. Depth(value) > depth[n]
        BY <1>7, <3>1 DEF Inside
      <4> QED  BY <1>1, <1>7, <4>1 DEF BareOperator
    <3>2. CASE ~Op(value)
      BY <3>2 DEF BareOperator, Op
    <3> QED  BY <3>1, <3>2
  <2>2. Known(NoNode)
    BY DEF Known
  <2> QED  BY <1>0, <1>2, <1>3, <1>4, <1>7, <2>1, <2>2, OperatorMade
<1>9. TopOk(f, depth[n - 1])'
  <2>1. Depth(pos)' = depth[n - 1]
    BY <1>4, <1>6, NextToken
  <2>2. Inside(value, depth[n - 1])'
    BY <1>4, <1>8, NoOperator
  <2>3. doing' = "value"
    BY <1>4
  <2> QED  BY <1>6, <2>1, <2>2, <2>3, OperandGiven
<1> QED  BY <1>0, <1>4, <1>5, <1>6, <1>8, <1>9, Pop

LEMMA ParenKeepsInv ==
  ASSUME NEW depth, Holds(depth), ParseParen
  PROVE  ParseInv'
<1>0. PICK n : n = Len(calls)
  OBVIOUS
<1>1. /\ n \in Nat \ {0} /\ Top = calls[n] /\ Top \in Frames /\ depth[n] \in Int /\ pos \in Nat \ {0}
      /\ TopOk(Top, depth[n])
  BY <1>0, Innermost
<1>2. PICK p \in Nat \ {0} : p = pos
  BY <1>1
<1>3. PICK g : g = Frame("paren", 0, 0, NoNode)
  OBVIOUS
<1>4. PICK h : h = Frame("expr", 0, 0, NoNode)
  OBVIOUS
<1>5. /\ doing = "primary" /\ Tok(p) = "lp" /\ tokens' = tokens /\ calls' = calls \o <<g, h>>
      /\ nodes' = nodes /\ pos' = p + 1 /\ doing' = doing /\ value' = value
  BY <1>2, <1>3, <1>4 DEF ParseParen, Doing
<1>6. PICK d \in Int : d = depth[n] + 1
  BY <1>1
<1>7. AwaitsPrimary(Top) /\ Depth(p + 1) = d
  <2>1. AwaitsPrimary(Top) /\ Depth(p) = depth[n]
    BY <1>1, <1>2, <1>5 DEF TopOk, AwaitsPrimary, ExprKinds
  <2> QED  BY <1>5, <1>6, <2>1, DepthAt
<1>8. PICK r \in Nat : r = p + 1
  OBVIOUS
<1>9. Added /\ Fresh(n)
  <2>1. pos' \in Nat /\ pos' >= pos
    BY <1>2, <1>5, <1>8
  <2>2. Known(value)'
    BY <1>5 DEF Known, Holds, Shape
  <2> QED  BY <1>5, <2>1, <2>2, NoNodeAdded, <1>0
<1>10. /\ g \in Frames /\ g.kind = "paren" /\ g.at = NoNode /\ g.lhs = NoNode
       /\ h \in Frames /\ h.kind = "expr" /\ h.at = NoNode /\ h.lhs = NoNode
  <2>1. "paren" \in FrameKinds /\ "expr" \in FrameKinds /\ 0 \in Int /\ 0 \in Nat /\ NoNode = 0
    BY DEF FrameKinds, ExprKinds, NoNode
  <2> QED  BY <1>3, <1>4, <2>1, FrameIsFrame
<1>11. FrameOk(g, d)' /\ FrameOk(h, d)'
  <2>1. 0 < pos' /\ 0 \notin DOMAIN nodes'
    BY <1>5, <1>8 DEF Holds, Shape
  <2> QED  BY <1>10, <2>1 DEF FrameOk, NoNode, Known
<1>12. PICK f : f = calls[n]
  OBVIOUS
<1>13. PairOk(f, g, depth[n], d)'
  <2>1. AwaitsPrimary(f) /\ d = IF g.kind = "not" THEN depth[n] ELSE depth[n] + 1
    BY <1>1, <1>6, <1>7, <1>10, <1>12
  <2> QED  BY <1>10, <2>1, OperandCalls
<1>14. PairOk(g, h, d, d)'
  BY <1>10 DEF PairOk, ExprKinds
<1>15. TopOk(h, d)'
  <2>1. Depth(pos)' = d
    BY <1>5, <1>7, NextToken
  <2>2. AwaitsPrimary(h) /\ doing' = "primary"
    BY <1>5, <1>10 DEF AwaitsPrimary
  <2> QED  BY ONLY <2>1, <2>2, OperandGiven
<1>16. /\ n \in {n - 1, n} /\ n > 0 /\ h.at = NoNode
       /\ (n = n - 1 /\ calls' = Append(Append(Below, g), h)) \/ (n = n /\ calls' = calls \o <<g, h>>)
       /\ g.at # NoNode => \A i \in 1..n : calls[i].at < g.at
  BY <1>1, <1>5, <1>10
<1>17. g \in Frames /\ h \in Frames /\ d \in Int
  BY <1>10
<1> QED  BY ONLY Holds(depth), <1>0, <1>9, <1>11, <1>12, <1>13, <1>14, <1>15, <1>16, <1>17, PushTwo

LEMMA EmptyParenKeepsInv ==
  ASSUME NEW depth, Holds(depth), ParseEmptyParen
  PROVE  ParseInv'
<1>0. PICK n : n = Len(calls)
  OBVIOUS
<1>1. /\ n \in Nat \ {0} /\ Top = calls[n] /\ Top \in Frames /\ depth[n] \in Int /\ pos \in Nat \ {0}
      /\ TopOk(Top, depth[n])
  BY <1>0, Innermost
<1>2. PICK p \in Nat \ {0} : p = pos
  BY <1>1
<1>3. /\ doing = "primary" /\ Tok(p) = "lp" /\ Tok(p + 1) = "rp" /\ tokens' = tokens /\ calls' = calls
      /\ nodes' = nodes /\ pos' = p + 2 /\ doing' = "value" /\ value' = NoNode
  BY <1>2 DEF ParseEmptyParen, Doing, Return
<1>4. AwaitsPrimary(Top) /\ Depth(p + 2) = depth[n]
  <2>1. AwaitsPrimary(Top) /\ Depth(p) = depth[n]
    BY <1>1, <1>2, <1>3 DEF TopOk, AwaitsPrimary, ExprKinds
  <2>2. Depth(p + 1) = depth[n] + 1
    BY <1>3, <2>1, DepthAt
  <2>3. p + 1 \in Nat \ {0} /\ (p + 1) + 1 = p + 2
    OBVIOUS
  <2> QED  BY <1>1, <1>3, <2>1, <2>2, <2>3, DepthAt
<1>5. Added /\ Fresh(n)
  <2>1. PICK r \in Nat : r = p + 2
    OBVIOUS
  <2>2. pos' \in Nat /\ pos' >= pos
    BY <1>2, <1>3, <2>1
  <2>3. Known(value)'
    BY <1>3 DEF Known
  <2> QED  BY <1>3, <2>2, <2>3, NoNodeAdded, <1>0
<1>6. PICK f : f = calls[n]
  OBVIOUS
<1>7. TopOk(f, depth[n])'
  <2>1. Depth(pos)' = depth[n]
    BY <1>3, <1>4, NextToken
  <2>2. Inside(value, depth[n])'
    BY <1>3 DEF Inside, Op
  <2>3. AwaitsPrimary(f) /\ doing' = "value"
    BY <1>1, <1>3, <1>4, <1>6
  <2> QED  BY <2>1, <2>2, <2>3, OperandGiven
<1> QED  BY <1>0, <1>3, <1>5, <1>6, <1>7, Stay
(* A value that stays, while no node is made. *)
LEMMA ValueStays ==
  ASSUME Shape, tokens' = tokens, nodes' = nodes, value' = value
  PROVE  /\ Known(value)' /\ Op(value)' = Op(value) /\ Depth(value)' = Depth(value)
         /\ \A d : Inside(value, d)' = Inside(value, d)
         /\ \A d, min : Chain(value, d, min)' = Chain(value, d, min)
<1>1. PICK v : v = value
  OBVIOUS
<1>2. Known(value)' /\ Op(value)' = Op(value)
  BY DEF Shape, Known, Op
<1>3. Depth(v)' = Depth(v) /\ Prec(v)' = Prec(v)
  BY TextStays
<1>4. Depth(value)' = Depth(value) /\ Prec(value)' = Prec(value)
  <2>1. value' = v
    BY <1>1
  <2>2. Depth(value)' = Depth(v)' /\ Prec(value)' = Prec(v)'
    BY <2>1
  <2> QED  BY <1>1, <1>3, <2>2
<1> QED  BY <1>2, <1>4 DEF Inside, Chain

LEMMA EndParenKeepsInv ==
  ASSUME NEW depth, Holds(depth), EndParen
  PROVE  ParseInv'
<1>0. PICK n : n = Len(calls)
  OBVIOUS
<1>1. /\ n \in Nat \ {0} /\ Top = calls[n] /\ Top \in Frames /\ depth[n] \in Int /\ pos \in Nat \ {0}
      /\ TopOk(Top, depth[n])
      /\ Top.kind # "root" => n > 1
      /\ n > 1 => depth[n - 1] \in Int /\ PairOk(calls[n - 1], Top, depth[n - 1], depth[n])
  BY <1>0, Innermost
<1>2. PICK p \in Nat \ {0} : p = pos
  BY <1>1
<1>3. /\ doing = "value" /\ Top.kind = "paren" /\ Tok(p) = "rp" /\ tokens' = tokens /\ nodes' = nodes
      /\ calls' = Below /\ pos' = p + 1 /\ value' = value /\ doing' = "value"
  BY <1>2 DEF EndParen, InCall, Doing
<1>4. PICK f : f = calls[n - 1]
  OBVIOUS
<1>5. AwaitsPrimary(f) /\ Depth(p + 1) = depth[n - 1] /\ depth[n] = depth[n - 1] + 1 /\ n > 1
  <2>1. Depth(p) = depth[n]
    BY <1>1, <1>2, <1>3 DEF TopOk, ExprKinds
  <2>2. n > 1 /\ PairOk(f, Top, depth[n - 1], depth[n])
    BY <1>1, <1>3, <1>4
  <2>3. AwaitsPrimary(f)
    BY <1>3, <2>2 DEF PairOk
  <2>4. f.kind \in ExprKinds
    BY <2>3 DEF AwaitsPrimary, ExprKinds
  <2>5. depth[n] = depth[n - 1] + 1
    BY <1>3, <2>2, <2>4 DEF PairOk
  <2> QED  BY <1>1, <1>3, <2>1, <2>2, <2>3, <2>5, DepthAt
<1>6. Known(value)' /\ Inside(value, depth[n - 1])'
  <2>1. Op(value) => Depth(value) >= depth[n]
    BY <1>1, <1>3 DEF TopOk, Given
  <2>2. value \in Nat
    BY DEF Holds, Shape, Known, NoNode
  <2>3. Op(value) => Depth(value) \in Int
    BY <2>2, DepthAt DEF Op, NoNode
  <2>4. Inside(value, depth[n - 1])
    BY <1>1, <1>5, <2>1, <2>3 DEF Inside
  <2> QED  BY <1>3, <2>4, ValueStays DEF Holds
<1>7. Added /\ Fresh(n - 1)
  <2>1. PICK r \in Nat : r = p + 1
    OBVIOUS
  <2>2. pos' \in Nat /\ pos' >= pos
    BY <1>2, <1>3, <2>1
  <2> QED  BY <1>3, <1>6, <2>2, NoNodeAdded, <1>0
<1>8. TopOk(f, depth[n - 1])'
  <2>1. Depth(pos)' = depth[n - 1]
    BY <1>3, <1>5, NextToken
  <2>2. doing' = "value"
    BY <1>3
  <2> QED  BY <1>5, <1>6, <2>1, <2>2, OperandGiven
<1> QED  BY <1>0, <1>3, <1>4, <1>5, <1>7, <1>8, Pop

LEMMA BeginChainKeepsInv ==
  ASSUME NEW depth, Holds(depth), BeginChain
  PROVE  ParseInv'
<1>0. PICK n : n = Len(calls)
  OBVIOUS
<1>1. /\ n \in Nat \ {0} /\ Top = calls[n] /\ Top \in Frames /\ depth[n] \in Int /\ pos \in Nat \ {0}
      /\ TopOk(Top, depth[n])
      /\ Top.kind # "root" => n > 1
      /\ n > 1 => depth[n - 1] \in Int /\ PairOk(calls[n - 1], Top, depth[n - 1], depth[n])
  BY <1>0, Innermost
<1>2. PICK p \in Nat \ {0} : p = pos
  BY <1>1
<1>3. PICK g : g = Frame("rhs", 0, 0, NoNode)
  OBVIOUS
<1>4. /\ doing = "value" /\ Top.kind = "expr" /\ tokens' = tokens /\ nodes' = nodes
      /\ calls' = (IF value = NoNode THEN Below ELSE Append(Below, g))
      /\ pos' = p /\ value' = value /\ doing' = "value"
  BY <1>2, <1>3 DEF BeginChain, InCall, Doing
<1>5. PICK f : f = calls[n - 1]
  OBVIOUS
<1>6. n > 1 /\ PairOk(f, Top, depth[n - 1], depth[n]) /\ Depth(p) = depth[n] /\ Inside(value, depth[n])
  <2>1. Depth(p) = depth[n]
    BY <1>1, <1>2, <1>4 DEF TopOk, ExprKinds
  <2>2. Inside(value, depth[n])
    BY <1>1, <1>4 DEF TopOk, Given, AwaitsPrimary
  <2> QED  BY <1>1, <1>4, <1>5, <2>1, <2>2
<1>7. Added /\ Fresh(n - 1)
  <2>1. Known(value)'
    BY <1>4, ValueStays DEF Holds
  <2>2. pos' \in Nat /\ pos' >= pos
    BY <1>2, <1>4
  <2> QED  BY <1>4, <2>1, <2>2, NoNodeAdded, <1>0
<1>8. Depth(pos)' = depth[n]
  BY <1>4, <1>6, NextToken
<1>9. CASE value = NoNode
  <2>1. f.kind \notin {"expr", "not", "rhs"} /\ (f.kind \in ExprKinds => depth[n - 1] = depth[n])
    BY <1>4, <1>6 DEF PairOk
  <2>2. ~Op(value)'
    BY <1>4, <1>9 DEF Op
  <2>3. TopOk(f, depth[n - 1])'
    BY <1>4, <1>8, <2>1, <2>2 DEF TopOk, Given, AwaitsPrimary, AwaitsChain
  <2> QED  BY <1>0, <1>4, <1>5, <1>6, <1>7, <1>9, <2>3, Pop
<1>10. CASE value # NoNode
  <2>1. g \in Frames /\ g.kind = "rhs" /\ g.min = 0 /\ g.at = NoNode /\ g.lhs = NoNode /\ ~g.nested
    <3>1. "rhs" \in FrameKinds /\ 0 \in Int /\ 0 \in Nat /\ NoNode = 0
      BY DEF FrameKinds, ExprKinds, NoNode
    <3> QED  BY <1>3, <3>1, FrameIsFrame
  <2>2. FrameOk(g, depth[n])'
    <3>1. g.at < pos' /\ g.at \notin DOMAIN nodes'
      BY <1>1, <1>2, <1>4, <2>1 DEF NoNode, Holds, Shape
    <3> QED  BY <2>1, <3>1 DEF FrameOk, Known
  <2>3. PairOk(f, g, depth[n - 1], depth[n])'
    BY <1>4, <1>6, <2>1 DEF PairOk, ExprKinds
  <2>4. TopOk(g, depth[n])'
    <3>1. Inside(value, depth[n])'
      BY <1>4, <1>6, ValueStays DEF Holds
    <3>2. \A min : Chain(value, depth[n], min)'
      <4>1. Op(value)' => Depth(value)' \in Int
        <5>1. value \in Nat
          BY DEF Holds, Shape, Known, NoNode
        <5>2. Op(value) => Depth(value) \in Int
          BY <5>1, DepthAt DEF Op, NoNode
        <5> QED  BY <1>4, <5>2, ValueStays DEF Holds
      <4> QED  BY <1>1, <3>1, <4>1 DEF Inside, Chain
    <3> QED  BY <1>4, <1>8, <2>1, <3>2 DEF TopOk, Given, AwaitsPrimary, AwaitsChain
  <2>5. calls' = Append(Below, g) /\ (g.at # NoNode => \A i \in 1..(n - 1) : calls[i].at < g.at)
    BY <1>4, <1>10, <2>1
  <2> QED  BY <1>0, <1>1, <1>5, <1>6, <1>7, <2>1, <2>2, <2>3, <2>4, <2>5, Replace
<1> QED  BY <1>9, <1>10
LEMMA TakeOperatorKeepsInv ==
  ASSUME NEW depth, Holds(depth), TakeOperator
  PROVE  ParseInv'
<1>0. PICK n : n = Len(calls)
  OBVIOUS
<1>1. /\ n \in Nat \ {0} /\ Top = calls[n] /\ Top \in Frames /\ depth[n] \in Int /\ pos \in Nat \ {0}
      /\ FrameOk(Top, depth[n]) /\ TopOk(Top, depth[n])
      /\ Top.kind # "root" => n > 1
      /\ n > 1 => depth[n - 1] \in Int /\ PairOk(calls[n - 1], Top, depth[n - 1], depth[n])
  BY <1>0, Innermost
<1>2. PICK p \in Nat \ {0} : p = pos
  BY <1>1
<1>3. PICK g : g = [Top EXCEPT !.at = p, !.lhs = value]
  OBVIOUS
<1>4. /\ doing = "value" /\ Top.kind = "rhs" /\ Top.at = NoNode /\ IsOperator(p) /\ Prec(p) >= Top.min
      /\ tokens' = tokens /\ nodes' = nodes /\ calls' = Append(Below, g)
      /\ pos' = p + 1 /\ value' = value /\ doing' = "primary"
  BY <1>2, <1>3 DEF TakeOperator, InCall, Doing, GoesOn
<1>5. PICK f : f = calls[n - 1]
  OBVIOUS
<1>6. n > 1 /\ PairOk(f, Top, depth[n - 1], depth[n]) /\ Depth(p) = depth[n] /\ Depth(p + 1) = depth[n]
  <2>1. Depth(p) = depth[n]
    BY <1>1, <1>2, <1>4 DEF TopOk, ExprKinds
  <2>2. Tok(p) \notin {"lp", "rp", "eof"}
    BY <1>4 DEF IsOperator, Operators, Precedence
  <2>3. Depth(p + 1) = depth[n]
    BY <2>1, <2>2, DepthAt
  <2> QED  BY <1>1, <1>4, <1>5, <2>1, <2>3
<1>7. Added /\ Fresh(n - 1)
  <2>1. PICK r \in Nat : r = p + 1
    OBVIOUS
  <2>2. pos' \in Nat /\ pos' >= pos
    BY <1>2, <1>4, <2>1
  <2>3. Known(value)'
    BY <1>4, ValueStays DEF Holds
  <2> QED  BY <1>4, <2>2, <2>3, NoNodeAdded, <1>0
<1>8. value \in Nat /\ Known(value) /\ Chain(value, depth[n], Prec(p))
  <2>1. value \in Nat /\ Known(value)
    BY DEF Holds, Shape, Known, NoNode
  <2>2. Chain(value, depth[n], Prec(p))
    BY <1>1, <1>2, <1>4 DEF TopOk, Given
  <2> QED  BY <2>1, <2>2
<1>9. g \in Frames /\ g.kind = "rhs" /\ g.min = Top.min /\ g.at = p /\ g.lhs = value /\ ~g.nested
  <2>1. ~Top.nested
    BY <1>1, <1>4 DEF FrameOk
  <2> QED  BY <1>1, <1>3, <1>4, <1>8, <2>1 DEF Frames
<1>10. p \notin DOMAIN nodes /\ \A i \in 1..(n - 1) : calls[i].at < p
  <2>1. p \notin DOMAIN nodes /\ \A i \in 1..n : calls[i].at < p
    BY <1>0, <1>2, NextIsFresh
  <2> QED  BY <1>1, <2>1
<1>11. FrameOk(g, depth[n])'
  <2>1. g.at < pos' /\ g.at # 0 /\ g.at \notin DOMAIN nodes'
    <3>1. PICK r \in Nat : r = p + 1
      OBVIOUS
    <3> QED  BY <1>4, <1>9, <1>10, <3>1
  <2>2. Depth(g.at)' = depth[n] /\ IsOperator(g.at)' /\ Prec(g.at)' = Prec(p)
    BY <1>4, <1>6, <1>9, TextStays
  <2>3. Known(g.lhs)' /\ Chain(g.lhs, depth[n], Prec(p))'
    <3>1. PICK v : v = value
      OBVIOUS
    <3>2. PICK min : min = Prec(p)
      OBVIOUS
    <3>3. Known(v)' /\ Chain(v, depth[n], min)'
      BY <1>7, <1>8, <3>1, <3>2, NodesStay DEF Holds
    <3>4. Prec(p)' = min
      BY <1>4, <3>2, TextStays
    <3> QED  BY <1>9, <3>1, <3>3, <3>4
  <2>4. Prec(g.at)' >= g.min
    BY <1>4, <1>9, <2>2
  <2> QED  BY <1>4, <1>9, <2>1, <2>2, <2>3, <2>4, TextStays DEF FrameOk, NoNode
<1>12. PairOk(f, g, depth[n - 1], depth[n])'
  BY <1>4, <1>6, <1>9, TextStays DEF PairOk, AwaitsChain, ExprKinds
<1>13. TopOk(g, depth[n])'
  <2>1. Depth(pos)' = depth[n]
    BY <1>4, <1>6, NextToken
  <2>2. AwaitsPrimary(g) /\ doing' = "primary"
    BY <1>4, <1>9 DEF AwaitsPrimary, NoNode
  <2> QED  BY ONLY <2>1, <2>2, OperandGiven
<1> QED  BY <1>0, <1>1, <1>4, <1>5, <1>6, <1>7, <1>9, <1>10, <1>11, <1>12, <1>13, Replace

LEMMA EndChainKeepsInv ==
  ASSUME NEW depth, Holds(depth), EndChain
  PROVE  ParseInv'
<1>0. PICK n : n = Len(calls)
  OBVIOUS
<1>1. /\ n \in Nat \ {0} /\ Top = calls[n] /\ Top \in Frames /\ depth[n] \in Int /\ pos \in Nat \ {0}
      /\ FrameOk(Top, depth[n]) /\ TopOk(Top, depth[n])
      /\ Top.kind # "root" => n > 1
      /\ n > 1 => depth[n - 1] \in Int /\ PairOk(calls[n - 1], Top, depth[n - 1], depth[n])
  BY <1>0, Innermost
<1>2. PICK p \in Nat \ {0} : p = pos
  BY <1>1
<1>3. /\ doing = "value" /\ Top.kind = "rhs" /\ Top.at = NoNode /\ (IsOperator(p) => ~(Prec(p) >= Top.min))
      /\ tokens' = tokens /\ nodes' = nodes /\ calls' = Below
      /\ pos' = p /\ value' = value /\ doing' = "value"
  BY <1>2 DEF EndChain, InCall, Doing, GoesOn
<1>4. PICK f : f = calls[n - 1]
  OBVIOUS
<1>5. /\ n > 1 /\ PairOk(f, Top, depth[n - 1], depth[n]) /\ Depth(p) = depth[n]
      /\ Chain(value, depth[n], Top.min)
  BY <1>1, <1>2, <1>3, <1>4 DEF TopOk, ExprKinds, Given
<1>6. Added /\ Fresh(n - 1)
  <2>1. Known(value)'
    BY <1>3, ValueStays DEF Holds
  <2>2. pos' \in Nat /\ pos' >= pos
    BY <1>2, <1>3
  <2> QED  BY <1>3, <2>1, <2>2, NoNodeAdded, <1>0
<1>7. TopOk(f, depth[n - 1])'
  <2>1. /\ f.kind \notin {"expr", "not"} /\ (f.kind \in ExprKinds => depth[n - 1] = depth[n])
        /\ f.kind = "rhs" => AwaitsChain(f) /\ Top.min = Prec(f.at) + 1
    BY <1>3, <1>5 DEF PairOk
  <2>2. PICK min : min = Top.min
    OBVIOUS
  <2>3. Chain(value, depth[n], min)'
    BY <1>3, <1>5, <2>2, ValueStays DEF Holds
  <2>4. Depth(pos)' = depth[n] /\ IsOperator(pos)' = IsOperator(p) /\ Prec(pos)' = Prec(p) /\ Prec(f.at)' = Prec(f.at)
    BY <1>3, <1>5, NextToken, TextStays
  <2>5. f.kind = "rhs" => AwaitsChain(f) /\ ~AwaitsPrimary(f) /\ f.at # NoNode
    BY <2>1 DEF AwaitsChain, AwaitsPrimary
  <2>6. f.kind # "rhs" => ~AwaitsChain(f) /\ ~AwaitsPrimary(f)
    BY <2>1 DEF AwaitsChain, AwaitsPrimary
  <2>7. CASE f.kind = "rhs"
    <3>1. Prec(f.at) \in Int
      <4>1. FrameOk(f, depth[n - 1])
        <5>1. n - 1 \in 1..Len(calls)
          BY <1>0, <1>1, <1>5
        <5> QED  BY <1>4, <5>1 DEF Holds, Stacked
      <4> QED  BY <2>5, <2>7, <4>1, PrecIsInt DEF FrameOk
    <3>2. Chain(value, depth[n - 1], Prec(f.at) + 1)'
      <4>1. min = Prec(f.at)' + 1 /\ depth[n - 1] = depth[n]
        BY <2>1, <2>2, <2>4, <2>7 DEF ExprKinds
      <4> QED  BY <2>3, <4>1
    <3>3. IsOperator(pos)' => Prec(pos)' <= Prec(f.at)'
      <4>1. IsOperator(p) => Prec(p) \in Int
        BY PrecIsInt
      <4> QED  BY <1>3, <2>1, <2>4, <2>7, <3>1, <4>1
    <3> QED  BY <1>3, <2>1, <2>4, <2>5, <2>7, <3>2, <3>3 DEF TopOk, Given, ExprKinds, AwaitsChain, AwaitsPrimary
  <2>8. CASE f.kind # "rhs"
    <3>1. f.kind = "paren" => (Op(value) => Depth(value) >= depth[n - 1])'
      BY <2>1, <2>3 DEF Chain, ExprKinds
    <3> QED  BY <1>3, <2>1, <2>4, <2>6, <2>8, <3>1 DEF TopOk, Given, ExprKinds, AwaitsChain, AwaitsPrimary
  <2> QED  BY <2>7, <2>8
<1> QED  BY <1>0, <1>3, <1>4, <1>5, <1>6, <1>7, Pop
LEMMA StrongerKeepsInv ==
  ASSUME NEW depth, Holds(depth), ParseStronger
  PROVE  ParseInv'
<1>0. PICK n : n = Len(calls)
  OBVIOUS
<1>1. /\ n \in Nat \ {0} /\ Top = calls[n] /\ Top \in Frames /\ depth[n] \in Int /\ pos \in Nat \ {0}
      /\ FrameOk(Top, depth[n]) /\ TopOk(Top, depth[n])
      /\ Top.kind # "root" => n > 1
      /\ n > 1 => depth[n - 1] \in Int /\ PairOk(calls[n - 1], Top, depth[n - 1], depth[n])
  BY <1>0, Innermost
<1>2. PICK p \in Nat \ {0} : p = pos
  BY <1>1
<1>3. PICK g : g = [Top EXCEPT !.nested = TRUE]
  OBVIOUS
<1>4. PICK h : h = Frame("rhs", Prec(Top.at) + 1, 0, NoNode)
  OBVIOUS
<1>5. /\ doing = "value" /\ Top.kind = "rhs" /\ Top.at # NoNode /\ ~Top.nested /\ IsOperator(p)
      /\ tokens' = tokens /\ nodes' = nodes /\ calls' = Append(Append(Below, g), h)
      /\ pos' = p /\ value' = value /\ doing' = "value"
  BY <1>2, <1>3, <1>4 DEF ParseStronger, InCall, Doing, StrongerFollows
<1>6. PICK f : f = calls[n - 1]
  OBVIOUS
<1>7. /\ n > 1 /\ PairOk(f, Top, depth[n - 1], depth[n]) /\ Depth(p) = depth[n]
      /\ Inside(value, depth[n]) /\ IsOperator(Top.at) /\ Prec(Top.at) \in Int
  <2>1. Depth(p) = depth[n] /\ Inside(value, depth[n])
    BY <1>1, <1>2, <1>5 DEF TopOk, ExprKinds, Given, AwaitsPrimary
  <2>2. IsOperator(Top.at)
    BY <1>1, <1>5 DEF FrameOk
  <2> QED  BY <1>1, <1>5, <1>6, <2>1, <2>2, PrecIsInt
<1>8. Added /\ Fresh(n - 1)
  <2>1. Known(value)'
    BY <1>5, ValueStays DEF Holds
  <2>2. pos' \in Nat /\ pos' >= pos
    BY <1>2, <1>5
  <2> QED  BY <1>5, <2>1, <2>2, NoNodeAdded, <1>0
<1>9. /\ g \in Frames /\ g.kind = "rhs" /\ g.min = Top.min /\ g.at = Top.at /\ g.lhs = Top.lhs /\ g.nested
  BY <1>1, <1>3, <1>5 DEF Frames
<1>10. /\ h \in Frames /\ h.kind = "rhs" /\ h.min = Prec(Top.at) + 1 /\ h.at = NoNode /\ h.lhs = NoNode
       /\ ~h.nested
  <2>1. "rhs" \in FrameKinds /\ Prec(Top.at) + 1 \in Int /\ 0 \in Nat /\ NoNode = 0
    BY <1>7 DEF FrameKinds, ExprKinds, NoNode
  <2> QED  BY <1>4, <2>1, FrameIsFrame
<1>11. /\ g.at \in Nat \ {0} /\ g.at < p /\ g.at \notin DOMAIN nodes
       /\ \A i \in 1..(n - 1) : calls[i].at < g.at
  <2>1. g.at \in Nat \ {0} /\ g.at < p /\ g.at \notin DOMAIN nodes
    BY <1>2, <1>5, <1>9, TopIsFresh
  <2>2. \A i \in 1..(n - 1) : i \in 1..Len(calls) /\ i < n
    BY <1>0, <1>1
  <2>3. n \in 1..Len(calls)
    BY <1>0, <1>1
  <2> QED  BY <1>1, <1>5, <1>9, <2>1, <2>2, <2>3 DEF Holds, Ordered
<1>12. FrameOk(g, depth[n])'
  <2>1. PICK t : t = Top
    OBVIOUS
  <2>2. FrameOk(t, depth[n]) /\ Known(t.lhs)
    BY <1>1, <2>1 DEF FrameOk
  <2>3. PICK min : min = Prec(Top.at)
    OBVIOUS
  <2>4. Chain(t.lhs, depth[n], min) /\ min >= t.min /\ Depth(t.at) = depth[n]
    BY <1>1, <1>5, <2>1, <2>2, <2>3 DEF FrameOk
  <2>5. Known(t.lhs)' /\ Chain(t.lhs, depth[n], min)'
    BY <1>8, <2>2, <2>4, NodesStay DEF Holds
  <2>6. Prec(g.at)' = min /\ IsOperator(g.at)' /\ Depth(g.at)' = depth[n]
    BY <1>5, <1>7, <1>9, <2>1, <2>3, <2>4, TextStays
  <2> QED  BY <1>5, <1>9, <1>11, <2>1, <2>4, <2>5, <2>6 DEF FrameOk, NoNode
<1>13. FrameOk(h, depth[n])'
  <2>1. h.at < pos' /\ h.at \notin DOMAIN nodes'
    BY <1>1, <1>2, <1>5, <1>10 DEF NoNode, Holds, Shape
  <2> QED  BY <1>10, <2>1 DEF FrameOk, Known
<1>14. PairOk(f, g, depth[n - 1], depth[n])'
  BY <1>5, <1>7, <1>9, TextStays DEF PairOk, AwaitsChain, ExprKinds
<1>15. PairOk(g, h, depth[n], depth[n])'
  <2>1. Prec(g.at)' + 1 = h.min
    BY <1>5, <1>9, <1>10, TextStays
  <2> QED  BY <1>5, <1>9, <1>10, <2>1 DEF PairOk, AwaitsChain, ExprKinds
<1>16. TopOk(h, depth[n])'
  <2>1. Inside(value, depth[n])'
    BY <1>5, <1>7, ValueStays DEF Holds
  <2>2. \A min : Chain(value, depth[n], min)'
    <3>1. Op(value)' => Depth(value)' \in Int
      <4>1. value \in Nat
        BY DEF Holds, Shape, Known, NoNode
      <4>2. Op(value) => Depth(value) \in Int
        BY <4>1, DepthAt DEF Op, NoNode
      <4> QED  BY <1>5, <4>2, ValueStays DEF Holds
    <3> QED  BY <1>1, <2>1, <3>1 DEF Inside, Chain
  <2>3. Depth(pos)' = depth[n]
    BY <1>5, <1>7, NextToken
  <2> QED  BY <1>5, <1>10, <2>2, <2>3 DEF TopOk, Given, AwaitsPrimary, AwaitsChain
<1>17. PICK m : m = n - 1
  OBVIOUS
<1>18. /\ m \in {n - 1, n} /\ m > 0 /\ h.at = NoNode
       /\ (m = n - 1 /\ calls' = Append(Append(Below, g), h)) \/ (m = n /\ calls' = calls \o <<g, h>>)
       /\ g.at # NoNode => \A i \in 1..m : calls[i].at < g.at
       /\ Fresh(m) /\ f = calls[m] /\ PairOk(f, g, depth[m], depth[n])'
  BY <1>1, <1>5, <1>6, <1>7, <1>8, <1>10, <1>11, <1>14, <1>17
<1>19. g \in Frames /\ h \in Frames /\ depth[n] \in Int
  BY <1>1, <1>9, <1>10
<1> QED  BY ONLY Holds(depth), <1>0, <1>8, <1>12, <1>13, <1>15, <1>16, <1>18, <1>19, PushTwo

LEMMA MergeKeepsInv ==
  ASSUME NEW depth, Holds(depth), MergeSides
  PROVE  ParseInv'
<1>0. PICK n : n = Len(calls)
  OBVIOUS
<1>1. /\ n \in Nat \ {0} /\ Top = calls[n] /\ Top \in Frames /\ depth[n] \in Int /\ pos \in Nat \ {0}
      /\ FrameOk(Top, depth[n]) /\ TopOk(Top, depth[n])
      /\ Top.kind # "root" => n > 1
      /\ n > 1 => depth[n - 1] \in Int /\ PairOk(calls[n - 1], Top, depth[n - 1], depth[n])
  BY <1>0, Innermost
<1>2. PICK p \in Nat \ {0} : p = pos
  BY <1>1
<1>3. PICK at : at = Top.at
  OBVIOUS
<1>4. PICK g : g = Frame("rhs", Top.min, 0, NoNode)
  OBVIOUS
<1>5. /\ doing = "value" /\ Top.kind = "rhs" /\ at # NoNode
      /\ Top.nested \/ (IsOperator(p) => ~(Prec(at) < Prec(p)))
      /\ tokens' = tokens /\ nodes' = Having(nodes, at, Node("binary", Top.lhs, value, <<>>))
      /\ calls' = Append(Below, g)
      /\ pos' = p /\ value' = at /\ doing' = "value"
  BY <1>2, <1>3, <1>4 DEF MergeSides, InCall, Doing, StrongerFollows
<1>6. PICK f : f = calls[n - 1]
  OBVIOUS
<1>7. /\ n > 1 /\ PairOk(f, Top, depth[n - 1], depth[n]) /\ Depth(p) = depth[n]
      /\ IsOperator(at) /\ Prec(at) \in Int /\ Depth(at) = depth[n] /\ Prec(at) >= Top.min
      /\ Known(Top.lhs) /\ Chain(Top.lhs, depth[n], Prec(at))
  <2>1. Depth(p) = depth[n]
    BY <1>1, <1>2, <1>5 DEF TopOk, ExprKinds
  <2>2. /\ IsOperator(at) /\ Depth(at) = depth[n] /\ Prec(at) >= Top.min
        /\ Known(Top.lhs) /\ Chain(Top.lhs, depth[n], Prec(at))
    BY <1>1, <1>3, <1>5 DEF FrameOk
  <2> QED  BY <1>1, <1>5, <1>6, <2>1, <2>2, PrecIsInt
<1>8. /\ Known(value) /\ (Op(value) /\ Depth(value) = depth[n] => Prec(value) > Prec(at))
      /\ IsOperator(p) => Prec(p) <= Prec(at)
  <2>1. Known(value) /\ (Op(value) => IsOperator(value) /\ Prec(value) \in Int)
    BY PrecIsInt DEF Holds, Shape, NodeOk, Known, Op
  <2>2. IsOperator(p) => Prec(p) \in Int
    BY PrecIsInt
  <2>3. CASE Top.nested
    <3>1. AwaitsChain(Top)
      BY <1>3, <1>5, <2>3 DEF AwaitsChain
    <3>2. Chain(value, depth[n], Prec(at) + 1) /\ (IsOperator(p) => Prec(p) <= Prec(at))
      BY <1>1, <1>2, <1>3, <1>5, <3>1 DEF TopOk, Given
    <3> QED  BY <1>7, <2>1, <3>2 DEF Chain
  <2>4. CASE ~Top.nested
    <3>1. AwaitsPrimary(Top)
      BY <1>3, <1>5, <2>4 DEF AwaitsPrimary
    <3>2. Inside(value, depth[n])
      BY <1>1, <1>5, <3>1 DEF TopOk, Given
    <3>3. IsOperator(p) => Prec(p) <= Prec(at)
      BY <1>5, <1>7, <2>2, <2>4
    <3> QED  BY <1>1, <2>1, <3>2, <3>3 DEF Inside
  <2> QED  BY <2>3, <2>4
<1>9. Added /\ Fresh(n - 1) /\ Known(at)' /\ Op(at)' = TRUE
  <2>1. BareOperator(at, Top.lhs) => Prec(Top.lhs) >= Prec(at)
    BY <1>7 DEF BareOperator, Chain, Op
  <2>2. BareOperator(at, value) => Prec(value) > Prec(at)
    BY <1>7, <1>8 DEF BareOperator, Op
  <2>3. PICK lhs : lhs = Top.lhs
    OBVIOUS
  <2>4. PICK rhs : rhs = value
    OBVIOUS
  <2>5. PICK kind : kind = "binary"
    OBVIOUS
  <2>6. /\ Known(lhs) /\ Known(rhs) /\ IsOperator(at) /\ kind # "not"
        /\ BareOperator(at, lhs) => Prec(lhs) >= Prec(at)
        /\ BareOperator(at, rhs) => Prec(rhs) > Prec(at)
    BY <1>7, <1>8, <2>1, <2>2, <2>3, <2>4, <2>5
  <2>7. /\ nodes' = Having(nodes, at, Node(kind, lhs, rhs, <<>>))
        /\ tokens' = tokens /\ pos' = pos /\ value' = at /\ at # NoNode
    BY <1>2, <1>5, <2>3, <2>4, <2>5
  <2>8. Added /\ Fresh(n - 1) /\ Known(at)' /\ Op(at)' = (kind = "binary")
    BY ONLY Holds(depth), <1>0, <1>3, <2>6, <2>7, OperatorMade
  <2> QED  BY <2>5, <2>8
<1>10. /\ g \in Frames /\ g.kind = "rhs" /\ g.min = Top.min /\ g.at = NoNode /\ g.lhs = NoNode
       /\ ~g.nested
  <2>1. "rhs" \in FrameKinds /\ Top.min \in Int /\ 0 \in Nat /\ NoNode = 0
    BY <1>1, FrameFields DEF FrameKinds, ExprKinds, NoNode
  <2> QED  BY <1>4, <2>1, FrameIsFrame
<1>11. FrameOk(g, depth[n])'
  <2>1. g.at < pos' /\ g.at \notin DOMAIN nodes'
    BY <1>1, <1>2, <1>5, <1>9, <1>10 DEF NoNode, Added
  <2> QED  BY <1>10, <2>1 DEF FrameOk, Known
<1>12. PairOk(f, g, depth[n - 1], depth[n])'
  BY <1>5, <1>7, <1>10, TextStays DEF PairOk, AwaitsChain, ExprKinds
<1>13. TopOk(g, depth[n])'
  <2>1. Depth(at)' = depth[n] /\ Prec(at)' = Prec(at) /\ value' = at
    BY <1>5, <1>7, TextStays
  <2>2. Depth(value)' = depth[n] /\ Prec(value)' = Prec(at)
    BY <2>1
  <2>3. Depth(pos)' = depth[n] /\ IsOperator(pos)' = IsOperator(p) /\ Prec(pos)' = Prec(p)
    BY <1>5, <1>7, NextToken
  <2>4. \A min : Prec(at) >= min => Chain(value, depth[n], min)'
    BY <1>1, <2>2 DEF Chain
  <2>5. Chain(value, depth[n], g.min)' /\ (IsOperator(pos)' => Chain(value, depth[n], Prec(pos))')
    <3>1. Prec(at) >= g.min
      BY <1>7, <1>10
    <3>2. PICK q : q = Prec(p)
      OBVIOUS
    <3>3. IsOperator(p) => Prec(at) >= q /\ Chain(value, depth[n], q)'
      <4>1. IsOperator(p) => q \in Int
        BY <3>2, PrecIsInt
      <4> QED  BY <1>7, <1>8, <2>4, <3>2, <4>1
    <3> QED  BY <2>3, <2>4, <3>1, <3>2, <3>3
  <2> QED  BY <1>5, <1>10, <2>3, <2>5 DEF TopOk, Given, AwaitsPrimary, AwaitsChain
<1> QED  BY <1>0, <1>1, <1>5, <1>6, <1>7, <1>9, <1>10, <1>11, <1>12, <1>13, Replace
----------------------------------------------------------------------------
(* The calls outside expressions: nothing is said of their depth, and they *)
(* wait for nothing in particular.                                         *)
Outside(f) == f.kind \notin ExprKinds

LEMMA OutsideTop ==
  ASSUME NEW f, NEW d, Outside(f), doing' \in {"item", "parameter", "comma", "block"}
  PROVE  TopOk(f, d)'
  BY DEF TopOk, Outside, ExprKinds

LEMMA OutsideFrame ==
  ASSUME NEW g, NEW d, Outside(g), NEW r, pos' = r, g.at < r, g.at \notin DOMAIN nodes', Known(g.lhs)',
         g.at = NoNode => g.kind \in {"root", "statement"}
  PROVE  FrameOk(g, d)'
<1>1. g.kind \notin {"rhs", "not"}
  BY DEF Outside, ExprKinds
<1> QED  BY <1>1 DEF FrameOk

LEMMA OutsidePair ==
  ASSUME NEW f, NEW g, NEW d, NEW e, Outside(f), Outside(g) \/ g.kind = "expr"
  PROVE  PairOk(f, g, d, e)'
  BY DEF PairOk, Outside, ExprKinds

(* The innermost call and the one it was called by, if it is outside. *)
LEMMA OutsideBelow ==
  ASSUME NEW depth, Holds(depth), NEW n, n = Len(calls), NEW m \in {n - 1, n}, m > 0, Outside(Top)
  PROVE  /\ m \in 1..Len(calls) /\ m \in Nat /\ Outside(calls[m]) /\ depth[m] \in Int
<1>1. n \in Nat \ {0} /\ Top = calls[n] /\ depth[n] \in Int
  BY Innermost
<1>2. CASE m = n
  BY <1>1, <1>2
<1>3. CASE m = n - 1
  <2>1. n > 1
    BY <1>1, <1>3
  <2>2. PairOk(calls[n - 1], Top, depth[n - 1], depth[n]) /\ depth[n - 1] \in Int
    BY <2>1, Innermost
  <2> QED  BY <1>1, <1>3, <2>1, <2>2 DEF PairOk, Outside
<1> QED  BY <1>2, <1>3

LEMMA OutsideNone ==
  ASSUME NEW depth, Holds(depth), Added, NEW n, n = Len(calls), NEW m \in {n - 1, n}, m > 0,
         Outside(Top), Begins(m), Len(calls') = m,
         doing' \in {"item", "parameter", "comma", "block"}
  PROVE  ParseInv'
<1>1. m \in 1..Len(calls) /\ m \in Nat /\ Outside(calls[m])
  BY OutsideBelow
<1>2. PICK f : f = calls'[m]
  OBVIOUS
<1>3. Outside(f)
  BY <1>1, <1>2 DEF Begins, Same, Outside
<1> QED  BY <1>1, <1>2, <1>3, OutsideTop, StepNone

LEMMA OutsideOne ==
  ASSUME NEW depth, Holds(depth), Added, NEW n, n = Len(calls), NEW m \in {n - 1, n}, m > 0,
         Outside(Top), Begins(m), Len(calls') = m + 1, NEW g, g = calls'[m + 1], Outside(g),
         NEW r, pos' = r, g.at < r, g.at \notin DOMAIN nodes', Known(g.lhs)',
         g.at # NoNode, \A i \in 1..m : calls[i].at < g.at,
         doing' \in {"item", "parameter", "comma", "block"}
  PROVE  ParseInv'
<1>1. m \in 1..Len(calls) /\ m \in Nat /\ Outside(calls[m])
  BY OutsideBelow
<1>2. PICK f : f = calls'[m]
  OBVIOUS
<1>3. Outside(f)
  BY <1>1, <1>2 DEF Begins, Same, Outside
<1>4. FrameOk(g, 0)' /\ PairOk(f, g, depth[m], 0)' /\ TopOk(g, 0)' /\ 0 \in Int
  BY <1>3, OutsideTop, OutsideFrame, OutsidePair
<1> QED  BY ONLY Holds(depth), Added, <1>1, <1>2, <1>4, Begins(m), Len(calls') = m + 1, g = calls'[m + 1],
                 \A i \in 1..m : calls[i].at < g.at, StepOne

LEMMA OutsideTwo ==
  ASSUME NEW depth, Holds(depth), Added, NEW n, n = Len(calls), NEW m \in {n - 1, n}, m > 0,
         Outside(Top), Begins(m), Len(calls') = m + 2, NEW g, g = calls'[m + 1], Outside(g),
         calls'[m + 2] = Frame("expr", 0, 0, NoNode),
         NEW r \in Nat, pos' = r, g.at < r, g.at \notin DOMAIN nodes', Known(g.lhs)', 0 < r,
         g.at = NoNode => g.kind = "statement",
         g.at # NoNode => \A i \in 1..m : calls[i].at < g.at,
         doing' = "primary"
  PROVE  ParseInv'
<1>1. m \in 1..Len(calls) /\ m \in Nat /\ Outside(calls[m])
  BY OutsideBelow
<1>2. PICK f : f = calls'[m]
  OBVIOUS
<1>3. Outside(f)
  BY <1>1, <1>2 DEF Begins, Same, Outside
<1>4. PICK h : h = Frame("expr", 0, 0, NoNode)
  OBVIOUS
<1>5. h \in Frames /\ h.kind = "expr" /\ h.at = NoNode /\ h.lhs = NoNode
  <2>1. "expr" \in FrameKinds /\ 0 \in Int /\ 0 \in Nat /\ NoNode = 0
    BY DEF FrameKinds, ExprKinds, NoNode
  <2> QED  BY <1>4, <2>1, FrameIsFrame
<1>6. PICK c \in Int : c = Depth(r)
  BY DepthAt
<1>7. FrameOk(g, 0)' /\ PairOk(f, g, depth[m], 0)' /\ PairOk(g, h, 0, c)' /\ 0 \in Int
  BY <1>3, <1>5, OutsideFrame, OutsidePair
<1>8. FrameOk(h, c)'
  <2>1. NoNode \notin DOMAIN nodes' /\ NoNode < pos'
    BY DEF Added, NoNode
  <2> QED  BY <1>5, <2>1 DEF FrameOk, Known
<1>9. TopOk(h, c)'
  <2>1. Depth(pos)' = c
    BY <1>6, NextToken DEF Added
  <2>2. AwaitsPrimary(h)
    BY <1>5 DEF AwaitsPrimary
  <2> QED  BY <2>1, <2>2, OperandGiven
<1>10. h = calls'[m + 2] /\ h.at = NoNode
  BY <1>4, <1>5
<1> QED  BY ONLY Holds(depth), Added, <1>1, <1>2, <1>7, <1>8, <1>9, <1>10, Begins(m), Len(calls') = m + 2, g = calls'[m + 1],
                 g.at # NoNode => \A i \in 1..m : calls[i].at < g.at, StepTwo

(* Nodes that are no operators are made of the tokens from the next on, or *)
(* of the innermost call, which returns.                                   *)
LEMMA Growth ==
  ASSUME NEW depth, Holds(depth), NEW n, n = Len(calls), NEW m \in {n - 1, n}, NEW S,
         DOMAIN nodes' = DOMAIN nodes \cup S,
         \A q \in DOMAIN nodes \ S : nodes'[q] = nodes[q],
         \A q \in S : /\ nodes'[q].kind \notin {"binary", "not"}
                      /\ Known(nodes'[q].lhs) /\ Known(nodes'[q].rhs)
                      /\ q \in Nat \ {0}
                      /\ q >= pos \/ (m = n - 1 /\ q = Top.at),
         tokens' = tokens, NEW r \in Nat, pos' = r, r >= pos, \A q \in S : q < r,
         value' = value \/ value' \in S
  PROVE  Added /\ Fresh(m)
<1>1. n \in Nat \ {0} /\ pos \in Nat
  BY Innermost
<1>2. ASSUME NEW q \in S
      PROVE  q \notin DOMAIN nodes /\ \A i \in 1..m : calls[i].at # q
  <2>1. CASE q >= pos
    <3>1. q \notin DOMAIN nodes /\ \A i \in 1..n : calls[i].at < q /\ calls[i].at \notin DOMAIN nodes
      BY <2>1, NextIsFresh
    <3>2. \A i \in 1..n : calls[i].at \in Nat
      BY Stack, FrameFields DEF Holds
    <3>3. \A i \in 1..m : i \in 1..n
      BY <1>1
    <3> QED  BY <3>1, <3>2, <3>3
  <2>2. CASE m = n - 1 /\ q = Top.at
    BY <2>2, TopIsFresh DEF NoNode
  <2> QED  BY <2>1, <2>2
<1>3. \A i \in 1..m : calls[i].at \notin DOMAIN nodes
  <2>1. \A i \in 1..m : i \in 1..Len(calls)
    BY <1>1
  <2> QED  BY <2>1 DEF Holds, Stacked, FrameOk
<1>4. \A q \in DOMAIN nodes : nodes'[q] = nodes[q]
  BY <1>2
<1>5. DOMAIN nodes' \subseteq 1..(pos' - 1)
  <2>1. \A q \in DOMAIN nodes : q \in 1..(pos - 1)
    BY DEF Holds, Shape
  <2>2. \A q \in DOMAIN nodes \cup S : q \in 1..(r - 1)
    BY <1>1, <2>1
  <2> QED  BY <2>2
<1>6. \A q \in S : NodeOk(q)'
  <2>1. \A q : Known(q) => Known(q)'
    BY DEF Known
  <2> QED  BY <2>1 DEF NodeOk, Follows
<1>7. Known(value)'
  BY DEF Known, Holds, Shape
<1>8. Added
  BY <1>1, <1>4, <1>5, <1>6, <1>7 DEF Added
<1> QED  BY <1>2, <1>3, <1>8 DEF Fresh
(* The first m calls as the step leaves them. *)
IsBase(base, m) ==
  /\ base \in Seq(Frames) /\ Len(base) = m
  /\ \A i \in 1..m : Same(calls[i], base[i])

LEMMA GiveKeeps ==
  ASSUME NEW cs \in Seq(Frames), cs # <<>>, NEW node \in Nat, NEW given, given = Give(cs, node)
  PROVE  /\ given \in Seq(Frames) /\ Len(given) = Len(cs)
         /\ \A i \in 1..Len(cs) : Same(cs[i], given[i])
<1>1. PICK k \in 1..Len(cs) : k = Len(cs)
  OBVIOUS
<1>2. PICK t : t = [cs[k] EXCEPT !.args = Append(@, node)]
  OBVIOUS
<1>3. cs[k] \in Frames
  OBVIOUS
<1>4. t \in Frames /\ Same(cs[k], t)
  <2>1. PICK args : args = Append(cs[k].args, node)
    OBVIOUS
  <2>2. cs[k].args \in Seq(Nat)
    BY <1>3 DEF Frames
  <2>3. args \in Seq(Nat)
    BY ONLY <2>1, <2>2, node \in Nat
  <2>4. t = [cs[k] EXCEPT !.args = args]
    BY <1>2, <2>1
  <2> QED  BY <1>3, <2>3, <2>4 DEF Frames, Same
<1>5. given = [cs EXCEPT ![k] = t]
  BY <1>1, <1>2 DEF Give
<1>6. given \in Seq(Frames) /\ Len(given) = Len(cs) /\ \A i \in 1..Len(cs) : given[i] = IF i = k THEN t ELSE cs[i]
  BY <1>4, <1>5
<1> QED  BY <1>4, <1>6 DEF Same

LEMMA Bases ==
  ASSUME NEW depth, Holds(depth), NEW n, n = Len(calls)
  PROVE  /\ IsBase(calls, n)
         /\ \A node \in Nat : IsBase(Give(calls, node), n)
         /\ \A t \in Frames : Same(Top, t) => IsBase(Append(Below, t), n)
         /\ IsBase(Below, n - 1)
         /\ n > 1 => \A node \in Nat : IsBase(Give(Below, node), n - 1)
<1>1. /\ n \in Nat \ {0} /\ Top = calls[n] /\ Below \in Seq(Frames) /\ Len(Below) = n - 1
      /\ \A i \in 1..(n - 1) : Below[i] = calls[i]
  BY Stack DEF Holds
<1>2. calls \in Seq(Frames) /\ calls # <<>>
  BY DEF Holds, Shape
<1>3. IsBase(calls, n) /\ IsBase(Below, n - 1)
  BY <1>1, <1>2 DEF IsBase, Same
<1>4. \A node \in Nat : IsBase(Give(calls, node), n)
  BY <1>1, <1>2, GiveKeeps DEF IsBase
<1>5. ASSUME NEW t \in Frames, Same(Top, t)
      PROVE  IsBase(Append(Below, t), n)
  <2>1. PICK base : base = Append(Below, t)
    OBVIOUS
  <2>2. base \in Seq(Frames) /\ Len(base) = n /\ base[n] = t /\ \A i \in 1..(n - 1) : base[i] = calls[i]
    BY <1>1, <2>1, Pushed
  <2>3. \A i \in 1..n : i = n \/ i \in 1..(n - 1)
    BY <1>1
  <2> QED  BY <1>1, <1>5, <2>1, <2>2, <2>3 DEF IsBase, Same
<1>6. ASSUME n > 1, NEW node \in Nat
      PROVE  IsBase(Give(Below, node), n - 1)
  <2>1. Below # <<>>
    BY <1>1, <1>6
  <2>2. PICK given : given = Give(Below, node)
    OBVIOUS
  <2>3. given \in Seq(Frames) /\ Len(given) = n - 1 /\ \A i \in 1..(n - 1) : Same(Below[i], given[i])
    BY <1>1, <2>1, <2>2, GiveKeeps
  <2> QED  BY <1>1, <2>2, <2>3 DEF IsBase
<1> QED  BY <1>3, <1>4, <1>5, <1>6

LEMMA NothingCalled ==
  ASSUME NEW depth, Holds(depth), Added, NEW n, n = Len(calls), NEW m \in {n - 1, n}, m > 0,
         Outside(Top), Fresh(m), NEW base, IsBase(base, m), calls' = base,
         doing' \in {"item", "parameter", "comma", "block"}
  PROVE  ParseInv'
<1>1. Begins(m) /\ Len(calls') = m
  BY DEF Begins, IsBase, Fresh
<1> QED  BY <1>1, OutsideNone

LEMMA OneCalled ==
  ASSUME NEW depth, Holds(depth), Added, NEW n, n = Len(calls), NEW m \in {n - 1, n}, m > 0,
         Outside(Top), Fresh(m), NEW base, IsBase(base, m),
         NEW g \in Frames, Outside(g), calls' = Append(base, g),
         NEW r, pos' = r, g.at < r, g.at \notin DOMAIN nodes', g.lhs = NoNode,
         g.at # NoNode, \A i \in 1..m : calls[i].at < g.at,
         doing' \in {"item", "parameter", "comma", "block"}
  PROVE  ParseInv'
<1>1. /\ calls' \in Seq(Frames) /\ Len(calls') = m + 1 /\ calls'[m + 1] = g
      /\ \A i \in 1..m : calls'[i] = base[i]
  BY Pushed DEF IsBase
<1>2. Begins(m)
  BY <1>1 DEF Begins, IsBase, Fresh
<1>3. Known(g.lhs)'
  BY DEF Known
<1> QED  BY <1>1, <1>2, <1>3, OutsideOne

LEMMA TwoCalled ==
  ASSUME NEW depth, Holds(depth), Added, NEW n, n = Len(calls), NEW m \in {n - 1, n}, m > 0,
         Outside(Top), Fresh(m), NEW base, IsBase(base, m),
         NEW g \in Frames, Outside(g), calls' = Append(Append(base, g), Frame("expr", 0, 0, NoNode)),
         NEW r \in Nat, pos' = r, g.at < r, g.at \notin DOMAIN nodes', Known(g.lhs), 0 < r,
         g.at = NoNode => g.kind = "statement",
         g.at # NoNode => \A i \in 1..m : calls[i].at < g.at,
         doing' = "primary"
  PROVE  ParseInv'
<1>1. PICK h : h = Frame("expr", 0, 0, NoNode)
  OBVIOUS
<1>2. h \in Frames
  <2>1. "expr" \in FrameKinds /\ 0 \in Int /\ 0 \in Nat /\ NoNode = 0
    BY DEF FrameKinds, ExprKinds, NoNode
  <2> QED  BY <1>1, <2>1, FrameIsFrame
<1>3. PICK cs : cs = Append(base, g)
  OBVIOUS
<1>4. m \in Nat /\ base \in Seq(Frames) /\ Len(base) = m
  BY DEF IsBase
<1>5. /\ cs \in Seq(Frames) /\ Len(cs) = m + 1 /\ cs[m + 1] = g
      /\ \A i \in 1..m : cs[i] = base[i]
  BY <1>3, <1>4, Pushed
<1>6. /\ calls' \in Seq(Frames) /\ Len(calls') = m + 2 /\ calls'[m + 2] = h
      /\ \A i \in 1..(m + 1) : calls'[i] = cs[i]
  <2>1. calls' = Append(cs, h)
    BY <1>1, <1>3
  <2>2. (m + 1) + 1 = m + 2
    BY <1>4
  <2>3. /\ Append(cs, h) \in Seq(Frames) /\ Len(Append(cs, h)) = Len(cs) + 1
        /\ Append(cs, h)[Len(cs) + 1] = h
        /\ \A i \in 1..Len(cs) : Append(cs, h)[i] = cs[i]
    BY <1>2, <1>5, Pushed
  <2> QED  BY <1>5, <2>1, <2>2, <2>3
<1>7. calls'[m + 1] = g /\ \A i \in 1..m : calls'[i] = base[i]
  BY <1>4, <1>5, <1>6
<1>8. Begins(m)
  BY <1>6, <1>7 DEF Begins, IsBase, Fresh
<1>9. Known(g.lhs)'
  BY DEF Added, Known
<1> QED  BY <1>1, <1>6, <1>7, <1>8, <1>9, OutsideTwo
(* The type in a declaration: nodes, and what is made of the tokens in S,  *)
(* all of them before position r.                                          *)
MadeWith(made, S, r) ==
  /\ DOMAIN made = DOMAIN nodes \cup S
  /\ \A q \in DOMAIN nodes \ S : made[q] = nodes[q]
  /\ \A q \in S : /\ q \in Nat \ {0} /\ q >= pos /\ q < r
                 /\ made[q].kind \notin {"binary", "not"} /\ made[q].lhs = NoNode /\ made[q].rhs = NoNode

TypeAt(p) == IF Tok(p + 1) = "colon" THEN {p + 2} ELSE {}

LEMMA TypeMade ==
  ASSUME NEW depth, Holds(depth), NEW p \in Nat, p >= pos
  PROVE  /\ Behind(p) \in Nat /\ Behind(p) > p
         /\ MadeWith(WithType(p), TypeAt(p), Behind(p)) /\ p \notin TypeAt(p) /\ Behind(p) \notin TypeAt(p)
         /\ \A q \in TypeAt(p) : q > p
         /\ Type(p) \in Seq(Nat)
<1>1. pos \in Nat \ {0}
  BY DEF Holds, Shape
<1>2. CASE Tok(p + 1) = "colon"
  <2>1. Behind(p) = p + 3 /\ TypeAt(p) = {p + 2} /\ Type(p) = <<p + 2>>
    BY <1>2 DEF Behind, TypeAt, Type
  <2>2. PICK x : x = Node("type", NoNode, NoNode, <<>>)
    OBVIOUS
  <2>3. WithType(p) = [q \in DOMAIN nodes \cup {p + 2} |-> IF q = p + 2 THEN x ELSE nodes[q]]
    BY <1>2, <2>2 DEF WithType, Having
  <2>4. x.kind = "type" /\ x.lhs = NoNode /\ x.rhs = NoNode
    BY <2>2 DEF Node
  <2>5. MadeWith(WithType(p), TypeAt(p), Behind(p))
    BY <1>1, <2>1, <2>3, <2>4 DEF MadeWith
  <2> QED  BY <2>1, <2>5
<1>3. CASE Tok(p + 1) # "colon"
  <2>1. Behind(p) = p + 1 /\ TypeAt(p) = {} /\ Type(p) = <<>> /\ WithType(p) = nodes
    BY <1>3 DEF Behind, TypeAt, Type, WithType
  <2> QED  BY <2>1 DEF MadeWith
<1> QED  BY <1>2, <1>3

LEMMA NothingMade == \A r : MadeWith(nodes, {}, r)
  BY DEF MadeWith

LEMMA OutsideIfItem ==
  ASSUME NEW depth, Holds(depth), doing \in {"item", "parameter", "comma", "block"}
  PROVE  Outside(Top)
<1>1. PICK n : n = Len(calls)
  OBVIOUS
<1>2. TopOk(Top, depth[n])
  BY <1>1, Innermost
<1> QED  BY <1>2 DEF TopOk, Outside

(* The innermost call returns its node. *)
LEMMA Returns ==
  ASSUME NEW depth, Holds(depth), Outside(Top), Top.kind \notin {"root", "statement"},
         NEW made, NEW S, NEW r \in Nat, MadeWith(made, S, r), r >= pos,
         NEW kind, kind \notin {"binary", "not"}, NEW lhs, NEW rhs, NEW args, Known(lhs), Known(rhs),
         nodes' = Having(made, Top.at, Node(kind, lhs, rhs, args)),
         tokens' = tokens, pos' = r, value' \in {value, Top.at},
         calls' \in {Below, Give(Below, Top.at)}, doing' \in {"item", "parameter", "comma", "block"}
  PROVE  ParseInv'
<1>0. PICK n : n = Len(calls)
  OBVIOUS
<1>1. n \in Nat \ {0} /\ n > 1 /\ Top.at # NoNode /\ pos \in Nat
  <2>1. n \in Nat \ {0} /\ FrameOk(Top, depth[n]) /\ (Top.kind # "root" => n > 1) /\ pos \in Nat
    BY <1>0, Innermost
  <2> QED  BY <2>1 DEF FrameOk, Outside, ExprKinds
<1>2. PICK at : at = Top.at
  OBVIOUS
<1>3. at \in Nat \ {0} /\ at < pos /\ at \notin DOMAIN nodes
  BY <1>1, <1>2, TopIsFresh
<1>4. PICK x : x = Node(kind, lhs, rhs, args)
  OBVIOUS
<1>5. x.kind = kind /\ x.lhs = lhs /\ x.rhs = rhs
  BY <1>4 DEF Node
<1>6. /\ DOMAIN nodes' = DOMAIN nodes \cup S \cup {at} /\ nodes'[at] = x
      /\ \A q \in (DOMAIN nodes \cup S) \ {at} : nodes'[q] = made[q]
  BY <1>2, <1>4 DEF MadeWith, Having
<1>7. PICK T : T = S \cup {at}
  OBVIOUS
<1>8. /\ DOMAIN nodes' = DOMAIN nodes \cup T
      /\ \A q \in DOMAIN nodes \ T : nodes'[q] = nodes[q]
  BY <1>6, <1>7 DEF MadeWith
<1>9. \A q \in T : /\ nodes'[q].kind \notin {"binary", "not"}
                  /\ Known(nodes'[q].lhs) /\ Known(nodes'[q].rhs)
                  /\ q \in Nat \ {0} /\ (q >= pos \/ q = at) /\ q < r
  <2>1. ASSUME NEW q \in T
        PROVE  /\ nodes'[q].kind \notin {"binary", "not"}
               /\ Known(nodes'[q].lhs) /\ Known(nodes'[q].rhs)
               /\ q \in Nat \ {0} /\ (q >= pos \/ q = at) /\ q < r
    <3>1. CASE q = at
      BY <1>1, <1>3, <1>5, <1>6, <3>1
    <3>2. CASE q # at
      BY <1>6, <1>7, <3>2 DEF MadeWith, Known
    <3> QED  BY <3>1, <3>2
  <2> QED  BY <2>1
<1>10. Added /\ Fresh(n - 1)
  <2>1. value' = value \/ value' \in T
    BY <1>2, <1>7
  <2> QED  BY <1>0, <1>2, <1>8, <1>9, <2>1, Growth
<1>11. IsBase(calls', n - 1)
  <2>1. CASE calls' = Below
    BY <1>0, <2>1, Bases
  <2>2. CASE calls' = Give(Below, at)
    BY <1>0, <1>1, <1>3, <2>2, Bases
  <2> QED  BY <1>2, <2>1, <2>2
<1>12. PICK base : base = calls'
  OBVIOUS
<1> QED  BY <1>0, <1>1, <1>10, <1>11, <1>12, NothingCalled

(* What is parsed goes to the innermost call, at most with one node at at. *)
LEMMA Collects ==
  ASSUME NEW depth, Holds(depth), Outside(Top), NEW n, n = Len(calls), NEW r \in Nat, r >= pos,
         NEW S, MadeWith(nodes', S, r), NEW base, IsBase(base, n), calls' = base,
         tokens' = tokens, pos' = r, value' = value, doing' \in {"item", "parameter", "comma", "block"}
  PROVE  ParseInv'
<1>1. Added /\ Fresh(n)
  BY Growth DEF MadeWith, Known
<1>2. n > 0 /\ n \in {n - 1, n}
  BY Innermost
<1> QED  BY <1>1, <1>2, NothingCalled

(* A call for a declaration or block, whose node will be at at. *)
LEMMA Enters ==
  ASSUME NEW depth, Holds(depth), Outside(Top), NEW n, n = Len(calls), NEW r \in Nat, r >= pos,
         NEW S, MadeWith(nodes', S, r), NEW base, IsBase(base, n),
         NEW kind \in FrameKinds \ ExprKinds, NEW at \in Nat, at >= pos, at < r, at \notin S,
         calls' = Append(base, Frame(kind, 0, at, NoNode)),
         tokens' = tokens, pos' = r, value' = value, doing' \in {"item", "parameter", "comma", "block"}
  PROVE  ParseInv'
<1>1. Added /\ Fresh(n)
  BY Growth DEF MadeWith, Known
<1>2. n > 0 /\ n \in {n - 1, n} /\ pos \in Nat \ {0}
  BY Innermost
<1>3. PICK g : g = Frame(kind, 0, at, NoNode)
  OBVIOUS
<1>4. g \in Frames /\ g.kind = kind /\ g.at = at /\ g.lhs = NoNode
  <2>1. 0 \in Int /\ NoNode \in Nat /\ kind \in FrameKinds
    BY DEF NoNode
  <2> QED  BY <1>3, <2>1, FrameIsFrame
<1>5. at \notin DOMAIN nodes /\ \A i \in 1..n : calls[i].at < at
  BY NextIsFresh
<1>6. Outside(g) /\ g.at # NoNode /\ g.at \notin DOMAIN nodes' /\ g.at < r /\ \A i \in 1..n : calls[i].at < g.at
  BY <1>2, <1>4, <1>5 DEF Outside, MadeWith, NoNode
<1>7. calls' = Append(base, g)
  BY <1>3
<1> QED  BY <1>1, <1>2, <1>4, <1>6, <1>7, OneCalled

(* A call that wants an expression next. *)
LEMMA Expects ==
  ASSUME NEW depth, Holds(depth), Outside(Top), NEW n, n = Len(calls), NEW m \in {n - 1, n}, m > 0,
         NEW r \in Nat, r >= pos,
         NEW S, MadeWith(nodes', S, r), NEW base, IsBase(base, m),
         NEW g \in Frames, Outside(g), Known(g.lhs),
         g.at = NoNode => g.kind = "statement",
         g.at # NoNode => g.at >= pos /\ g.at < r /\ g.at \notin S,
         calls' = Append(Append(base, g), Frame("expr", 0, 0, NoNode)),
         tokens' = tokens, pos' = r, value' = value, doing' = "primary"
  PROVE  ParseInv'
<1>1. Added /\ Fresh(m)
  BY Growth DEF MadeWith, Known
<1>2. n \in Nat \ {0} /\ pos \in Nat \ {0} /\ g.at \in Nat
  BY Innermost, FrameFields
<1>3. ASSUME g.at # NoNode
      PROVE  g.at \notin DOMAIN nodes' /\ g.at < r /\ \A i \in 1..m : calls[i].at < g.at
  <2>1. g.at \notin DOMAIN nodes /\ \A i \in 1..n : calls[i].at < g.at
    BY <1>2, <1>3, NextIsFresh
  <2>2. \A i \in 1..m : i \in 1..n
    BY <1>2
  <2> QED  BY <1>3, <2>1, <2>2 DEF MadeWith
<1>4. 0 < r /\ NoNode \notin DOMAIN nodes'
  BY <1>1, <1>2 DEF Added, NoNode
<1>5. g.at < r /\ g.at \notin DOMAIN nodes' /\ (g.at # NoNode => \A i \in 1..m : calls[i].at < g.at)
  BY <1>3, <1>4 DEF NoNode
<1> QED  BY <1>1, <1>4, <1>5, TwoCalled
----------------------------------------------------------------------------
(* The declarations. *)
LEMMA VariableNamed ==
  ASSUME NEW depth, Holds(depth), VariableHasName
  PROVE  VariableName \in Nat /\ VariableName >= pos /\ Outside(Top)
<1>1. pos \in Nat /\ doing = "item"
  BY DEF Holds, Shape, VariableHasName, AtVariable, At, Doing
<1> QED  BY <1>1, OutsideIfItem DEF VariableName

(* A call for a declaration with its type. *)
LEMMA DeclaredFrame ==
  ASSUME NEW depth, Holds(depth), NEW kind \in FrameKinds, NEW p \in Nat, p >= pos
  PROVE  /\ Declared(kind, p) \in Frames
         /\ Declared(kind, p).kind = kind /\ Declared(kind, p).at = p /\ Declared(kind, p).lhs = NoNode
<1>1. PICK types : types = Type(p)
  OBVIOUS
<1>2. types \in Seq(Nat)
  BY <1>1, TypeMade
<1>3. PICK f : f = Frame(kind, 0, p, NoNode)
  OBVIOUS
<1>4. f \in Frames /\ f.kind = kind /\ f.at = p /\ f.lhs = NoNode
  <2>1. 0 \in Int /\ NoNode \in Nat
    BY DEF NoNode
  <2> QED  BY <1>3, <2>1, FrameIsFrame
<1>5. Declared(kind, p) = [f EXCEPT !.args = types]
  BY <1>1, <1>3 DEF Declared
<1> QED  BY <1>2, <1>4, <1>5 DEF Frames

(* A declaration with a value, which is parsed next. *)
LEMMA DeclaresWithValue ==
  ASSUME NEW depth, Holds(depth), Outside(Top), NEW p \in Nat, p >= pos, NEW kind \in FrameKinds \ ExprKinds,
         nodes' = WithType(p), calls' = Append(Append(calls, Declared(kind, p)), Frame("expr", 0, 0, NoNode)),
         pos' = Behind(p) + 1, tokens' = tokens, value' = value, doing' = "primary"
  PROVE  ParseInv'
<1>0. PICK n : n = Len(calls)
  OBVIOUS
<1>1. PICK g : g = Declared(kind, p)
  OBVIOUS
<1>2. g \in Frames /\ g.kind = kind /\ g.at = p /\ g.lhs = NoNode
  BY <1>1, DeclaredFrame
<1>3. PICK r \in Nat : r = Behind(p) + 1
  BY TypeMade
<1>4. MadeWith(WithType(p), TypeAt(p), r) /\ p < r /\ r >= pos /\ p \notin TypeAt(p)
  <2>1. /\ Behind(p) \in Nat /\ Behind(p) > p /\ MadeWith(WithType(p), TypeAt(p), Behind(p))
        /\ p \notin TypeAt(p)
    BY TypeMade
  <2> QED  BY <1>3, <2>1 DEF MadeWith, Holds, Shape
<1>5. n > 0 /\ n \in {n - 1, n} /\ IsBase(calls, n)
  BY <1>0, Innermost, Bases
<1>6. Outside(g) /\ Known(g.lhs)
  BY <1>2 DEF Outside, Known
<1>7. (g.at = NoNode => g.kind = "statement") /\ (g.at # NoNode => g.at >= pos /\ g.at < r /\ g.at \notin TypeAt(p))
  <2>1. p # NoNode
    BY DEF Holds, Shape, NoNode
  <2> QED  BY <1>2, <1>4, <2>1
<1>8. /\ MadeWith(nodes', TypeAt(p), r) /\ pos' = r
      /\ calls' = Append(Append(calls, g), Frame("expr", 0, 0, NoNode))
  BY <1>1, <1>3, <1>4
<1> QED  BY <1>0, <1>2, <1>4, <1>5, <1>6, <1>7, <1>8, Expects

LEMMA VariableKeepsInv ==
  ASSUME NEW depth, Holds(depth), ParseVariable
  PROVE  ParseInv'
<1>1. PICK p \in Nat : p = VariableName /\ p >= pos
  BY VariableNamed DEF ParseVariable
<1>2. Outside(Top) /\ "let" \in FrameKinds \ ExprKinds
  BY VariableNamed DEF ParseVariable, FrameKinds, ExprKinds
<1>3. /\ nodes' = WithType(p)
      /\ calls' = Append(Append(calls, Declared("let", p)), Frame("expr", 0, 0, NoNode))
      /\ pos' = Behind(p) + 1 /\ doing' = "primary" /\ tokens' = tokens /\ value' = value
  BY <1>1 DEF ParseVariable, Expect, Go
<1> QED  BY <1>1, <1>2, <1>3, DeclaresWithValue

(* A declaration without value. *)
LEMMA Declares ==
  ASSUME NEW depth, Holds(depth), Outside(Top), NEW p \in Nat, p >= pos, NEW kind, kind \notin {"binary", "not"},
         NEW args, nodes' = Having(WithType(p), p, Node(kind, NoNode, NoNode, args)),
         calls' = Give(calls, p), NEW r \in Nat, r >= Behind(p), pos' = r, tokens' = tokens, value' = value,
         doing' \in {"item", "parameter", "comma", "block"}
  PROVE  ParseInv'
<1>0. PICK n : n = Len(calls)
  OBVIOUS
<1>1. PICK x : x = Node(kind, NoNode, NoNode, args)
  OBVIOUS
<1>2. x.kind = kind /\ x.lhs = NoNode /\ x.rhs = NoNode
  BY <1>1 DEF Node
<1>3. PICK S : S = TypeAt(p) \cup {p}
  OBVIOUS
<1>4. /\ Behind(p) \in Nat /\ Behind(p) > p /\ MadeWith(WithType(p), TypeAt(p), Behind(p))
      /\ p \notin TypeAt(p) /\ p \in Nat \ {0} /\ pos \in Nat
  BY TypeMade DEF Holds, Shape
<1>5. /\ DOMAIN nodes' = DOMAIN nodes \cup S /\ nodes'[p] = x
      /\ \A q \in (DOMAIN nodes \cup TypeAt(p)) \ {p} : nodes'[q] = WithType(p)[q]
  BY <1>1, <1>3, <1>4 DEF Having, MadeWith
<1>6. MadeWith(nodes', S, r)
  BY <1>2, <1>3, <1>4, <1>5 DEF MadeWith
<1>7. IsBase(Give(calls, p), n)
  BY <1>0, Bases
<1>8. r >= pos
  BY <1>4
<1> QED  BY ONLY Holds(depth), Outside(Top), <1>0, <1>6, <1>7, <1>8, calls' = Give(calls, p), r \in Nat, pos' = r, tokens' = tokens,
                 value' = value, doing' \in {"item", "parameter", "comma", "block"}, Collects

LEMMA MemberKeepsInv ==
  ASSUME NEW depth, Holds(depth), ParseMember
  PROVE  ParseInv'
<1>1. PICK p \in Nat : p = VariableName /\ p >= pos
  BY VariableNamed DEF ParseMember
<1>2. PICK r \in Nat : r = Behind(p) + 1 /\ r >= Behind(p)
  BY <1>1, TypeMade
<1>3. /\ nodes' = Having(WithType(p), p, Node("let", NoNode, NoNode, Type(p))) /\ calls' = Give(calls, p)
      /\ pos' = r /\ doing' = "item" /\ tokens' = tokens /\ value' = value
  BY <1>1, <1>2 DEF ParseMember, Go
<1>4. Outside(Top)
  BY VariableNamed DEF ParseMember
<1> QED  BY <1>1, <1>2, <1>3, <1>4, Declares

LEMMA ParameterKeepsInv ==
  ASSUME NEW depth, Holds(depth), ParseParameter
  PROVE  ParseInv'
<1>1. PICK p \in Nat : p = pos /\ p >= pos
  BY DEF Holds, Shape
<1>2. PICK r \in Nat : r = Behind(p) /\ r >= Behind(p)
  BY <1>1, TypeMade
<1>3. /\ nodes' = Having(WithType(p), p, Node("param", NoNode, NoNode, Type(p))) /\ calls' = Give(calls, p)
      /\ pos' = r /\ doing' = "comma" /\ tokens' = tokens /\ value' = value /\ doing = "parameter"
  BY <1>1, <1>2 DEF ParseParameter, ParameterHasType, Doing, Go
<1>4. Outside(Top)
  BY <1>3, OutsideIfItem
<1> QED  BY <1>1, <1>2, <1>3, <1>4, Declares

LEMMA DefaultKeepsInv ==
  ASSUME NEW depth, Holds(depth), ParseDefault
  PROVE  ParseInv'
<1>1. PICK p \in Nat : p = pos /\ p >= pos
  BY DEF Holds, Shape
<1>2. Outside(Top) /\ "param" \in FrameKinds \ ExprKinds
  BY OutsideIfItem DEF ParseDefault, ParameterHasType, Doing, FrameKinds, ExprKinds
<1>3. /\ nodes' = WithType(p)
      /\ calls' = Append(Append(calls, Declared("param", p)), Frame("expr", 0, 0, NoNode))
      /\ pos' = Behind(p) + 1 /\ doing' = "primary" /\ tokens' = tokens /\ value' = value
  BY <1>1 DEF ParseDefault, Expect, Go
<1> QED  BY <1>1, <1>2, <1>3, DeclaresWithValue

LEMMA EndDefaultKeepsInv ==
  ASSUME NEW depth, Holds(depth), EndDefault
  PROVE  ParseInv'
<1>1. PICK r \in Nat : r = pos /\ r >= pos
  BY DEF Holds, Shape
<1>2. /\ Top.kind = "param" /\ nodes' = Having(nodes, Top.at, Node("param", NoNode, value, Top.args))
      /\ calls' = Give(Below, Top.at) /\ pos' = r /\ doing' = "comma" /\ tokens' = tokens /\ value' = value
  BY <1>1 DEF EndDefault, InCall, Go
<1>3. Outside(Top) /\ Top.kind \notin {"root", "statement"} /\ Known(NoNode) /\ Known(value)
  BY <1>2 DEF Outside, ExprKinds, Known, Holds, Shape
<1>4. MadeWith(nodes, {}, r)
  BY NothingMade
<1> QED  BY <1>1, <1>2, <1>3, <1>4, Returns

LEMMA NextParameterKeepsInv ==
  ASSUME NEW depth, Holds(depth), NextParameter
  PROVE  ParseInv'
<1>0. PICK n : n = Len(calls)
  OBVIOUS
<1>1. PICK r \in Nat : r = pos + 1 /\ r >= pos
  BY DEF Holds, Shape
<1>2. /\ doing = "comma" /\ nodes' = nodes /\ calls' = calls
      /\ pos' = r /\ doing' = "parameter" /\ tokens' = tokens /\ value' = value
  BY <1>1 DEF NextParameter, Doing, Go
<1>3. Outside(Top) /\ IsBase(calls, n) /\ MadeWith(nodes', {}, r)
  BY <1>0, <1>2, OutsideIfItem, Bases, NothingMade
<1> QED  BY <1>0, <1>1, <1>2, <1>3, Collects

LEMMA EndExternKeepsInv ==
  ASSUME NEW depth, Holds(depth), EndExtern
  PROVE  ParseInv'
<1>1. PICK p \in Nat : p = pos /\ p >= pos
  BY DEF Holds, Shape
<1>2. PICK r \in Nat : r = Behind(p) /\ r >= pos
  BY <1>1, TypeMade
<1>3. /\ Top.kind = "extern" /\ nodes' = Having(WithType(p), Top.at, Node("extern", NoNode, NoNode, Signature))
      /\ calls' = Give(Below, Top.at) /\ pos' = r /\ doing' = "item" /\ tokens' = tokens /\ value' = value
  BY <1>1, <1>2 DEF EndExtern, Go
<1>4. Outside(Top) /\ Top.kind \notin {"root", "statement"} /\ Known(NoNode)
  BY <1>3 DEF Outside, ExprKinds, Known
<1>5. MadeWith(WithType(p), TypeAt(p), r)
  BY <1>1, <1>2, TypeMade
<1> QED  BY <1>2, <1>3, <1>4, <1>5, Returns
LEMMA FunctionKeepsInv ==
  ASSUME NEW depth, Holds(depth), ParseFunction
  PROVE  ParseInv'
<1>0. PICK n : n = Len(calls)
  OBVIOUS
<1>1. PICK at \in Nat : at = FunctionName /\ at >= pos
  BY DEF FunctionName, Holds, Shape
<1>2. PICK kind : kind = IF IsExtern THEN "extern" ELSE "fun"
  OBVIOUS
<1>3. PICK r \in Nat : r = at + 2 /\ at < r /\ r >= pos
  BY <1>1 DEF Holds, Shape
<1>4. /\ doing = "item" /\ calls' = Append(calls, Frame(kind, 0, at, NoNode)) /\ nodes' = nodes
      /\ pos' = r /\ doing' = "parameter" /\ tokens' = tokens /\ value' = value
  BY <1>1, <1>2, <1>3 DEF ParseFunction, FunctionHasName, AtFunction, At, Doing, Go
<1>5. Outside(Top) /\ IsBase(calls, n) /\ MadeWith(nodes', {}, r) /\ kind \in FrameKinds \ ExprKinds
  BY <1>0, <1>2, <1>4, OutsideIfItem, Bases, NothingMade DEF FrameKinds, ExprKinds
<1> QED  BY <1>0, <1>1, <1>3, <1>4, <1>5, Enters

LEMMA BodyKeepsInv ==
  ASSUME NEW depth, Holds(depth), BeginBody
  PROVE  ParseInv'
<1>0. PICK n : n = Len(calls)
  OBVIOUS
<1>1. PICK p \in Nat : p = pos /\ p >= pos
  BY DEF Holds, Shape
<1>2. PICK at \in Nat : at = Behind(p) /\ at >= pos
  BY <1>1, TypeMade
<1>3. PICK t : t = [Top EXCEPT !.args = Signature]
  OBVIOUS
<1>4. t \in Frames /\ Same(Top, t)
  <2>1. PICK args : args = Signature
    OBVIOUS
  <2>2. Top \in Frames /\ Type(p) \in Seq(Nat)
    BY <1>0, <1>1, Innermost, TypeMade
  <2>3. Top.args \in Seq(Nat)
    BY <2>2 DEF Frames
  <2>4. args \in Seq(Nat)
    BY <1>1, <2>1, <2>2, <2>3 DEF Signature
  <2>5. t = [Top EXCEPT !.args = args]
    BY <1>3, <2>1
  <2> QED  BY <2>2, <2>4, <2>5 DEF Frames, Same
<1>5. PICK r \in Nat : r = at + 1 /\ at < r /\ r >= pos
  BY <1>2 DEF Holds, Shape
<1>6. PICK base : base = Append(Below, t)
  OBVIOUS
<1>7. /\ doing \in {"parameter", "comma"} /\ nodes' = WithType(p)
      /\ calls' = Append(base, Frame("block", 0, at, NoNode))
      /\ pos' = r /\ doing' = "item" /\ tokens' = tokens /\ value' = value
  BY <1>1, <1>2, <1>3, <1>5, <1>6 DEF BeginBody, AtListEnd, Doing, Enter, Go
<1>8. Outside(Top) /\ IsBase(base, n) /\ "block" \in FrameKinds \ ExprKinds
  BY <1>0, <1>4, <1>6, <1>7, OutsideIfItem, Bases DEF FrameKinds, ExprKinds
<1>9. MadeWith(nodes', TypeAt(p), r) /\ at \notin TypeAt(p)
  <2>1. MadeWith(WithType(p), TypeAt(p), at) /\ at \notin TypeAt(p)
    BY <1>1, <1>2, TypeMade
  <2> QED  BY <1>5, <1>7, <2>1 DEF MadeWith
<1> QED  BY <1>0, <1>2, <1>5, <1>7, <1>8, <1>9, Enters

LEMMA ClassKeepsInv ==
  ASSUME NEW depth, Holds(depth), ParseClass
  PROVE  ParseInv'
<1>0. PICK n : n = Len(calls)
  OBVIOUS
<1>1. PICK at \in Nat : at = pos + 1 /\ at >= pos
  BY DEF Holds, Shape
<1>2. PICK r \in Nat : r = pos + 3 /\ at < r /\ r >= pos
  BY <1>1 DEF Holds, Shape
<1>3. /\ doing = "item" /\ calls' = Append(calls, Frame("class", 0, at, NoNode)) /\ nodes' = nodes
      /\ pos' = r /\ doing' = "item" /\ tokens' = tokens /\ value' = value
  BY <1>1, <1>2 DEF ParseClass, ClassBegins, At, Doing, Go
<1>4. Outside(Top) /\ IsBase(calls, n) /\ MadeWith(nodes', {}, r) /\ "class" \in FrameKinds \ ExprKinds
  BY <1>0, <1>3, OutsideIfItem, Bases, NothingMade DEF FrameKinds, ExprKinds
<1> QED  BY <1>0, <1>1, <1>2, <1>3, <1>4, Enters

(* Most declarations and statements end like this. *)
LEMMA Finishes ==
  ASSUME NEW depth, Holds(depth), Outside(Top), Top.kind \notin {"root", "statement"},
         NEW lhs, NEW rhs, Known(lhs), Known(rhs), NEW args, NEW r \in Nat, r >= pos,
         Finish(Node(Top.kind, lhs, rhs, args), r)
  PROVE  ParseInv'
<1>1. PICK kind : kind = Top.kind
  OBVIOUS
<1>2. /\ nodes' = Having(nodes, Top.at, Node(kind, lhs, rhs, args))
      /\ calls' = Give(Below, Top.at) /\ pos' = r /\ doing' = "item" /\ tokens' = tokens /\ value' = value
  BY <1>1 DEF Finish, Go
<1>3. kind \notin {"binary", "not"}
  <2>1. Top \in Frames
    BY Innermost
  <2> QED  BY <1>1, <2>1 DEF Outside, Frames, FrameKinds, ExprKinds
<1>4. MadeWith(nodes, {}, r)
  BY NothingMade
<1> QED  BY <1>2, <1>3, <1>4, Returns

LEMMA EndClassKeepsInv ==
  ASSUME NEW depth, Holds(depth), EndClass
  PROVE  ParseInv'
<1>1. PICK r \in Nat : r = pos + 1 /\ r >= pos
  BY DEF Holds, Shape
<1>2. Top.kind = "class" /\ Finish(Node(Top.kind, NoNode, NoNode, Top.args), r)
  BY <1>1 DEF EndClass, At
<1>3. Outside(Top) /\ Top.kind \notin {"root", "statement"} /\ Known(NoNode)
  BY <1>2 DEF Outside, ExprKinds, Known
<1> QED  BY <1>1, <1>2, <1>3, Finishes
----------------------------------------------------------------------------
(* The statements. *)
LEMMA BlockKeepsInv ==
  ASSUME NEW depth, Holds(depth), ParseBlock
  PROVE  ParseInv'
<1>0. PICK n : n = Len(calls)
  OBVIOUS
<1>1. PICK p \in Nat : p = pos /\ p >= pos
  BY DEF Holds, Shape
<1>2. PICK r \in Nat : r = p + 1 /\ p < r /\ r >= pos
  BY <1>1 DEF Holds, Shape
<1>3. /\ doing = "item" /\ calls' = Append(calls, Frame("block", 0, p, NoNode)) /\ nodes' = nodes
      /\ pos' = r /\ doing' = "item" /\ tokens' = tokens /\ value' = value
  BY <1>1, <1>2 DEF ParseBlock, At, Doing, Enter, Go
<1>4. Outside(Top) /\ IsBase(calls, n) /\ MadeWith(nodes', {}, r) /\ "block" \in FrameKinds \ ExprKinds
  BY <1>0, <1>3, OutsideIfItem, Bases, NothingMade DEF FrameKinds, ExprKinds
<1> QED  BY <1>0, <1>1, <1>2, <1>3, <1>4, Enters

LEMMA KeywordKeepsInv ==
  ASSUME NEW depth, Holds(depth), ParseKeyword
  PROVE  ParseInv'
<1>0. PICK n : n = Len(calls)
  OBVIOUS
<1>1. PICK p \in Nat : p = pos /\ p >= pos
  BY DEF Holds, Shape
<1>2. PICK r \in Nat : r = p + 1 /\ p < r /\ r >= pos
  BY <1>1 DEF Holds, Shape
<1>3. PICK kind : kind = Tok(p)
  OBVIOUS
<1>4. PICK g : g = Frame(kind, 0, p, NoNode)
  OBVIOUS
<1>5. /\ doing = "item" /\ calls' = Append(Append(calls, g), Frame("expr", 0, 0, NoNode)) /\ nodes' = nodes
      /\ pos' = r /\ doing' = "primary" /\ tokens' = tokens /\ value' = value
      /\ kind \in {"if", "while", "return"}
  BY <1>1, <1>2, <1>3, <1>4 DEF ParseKeyword, Doing, Expect, Go
<1>6. g \in Frames /\ g.kind = kind /\ g.at = p /\ g.lhs = NoNode
  <2>1. kind \in FrameKinds /\ 0 \in Int /\ NoNode \in Nat
    BY <1>5 DEF FrameKinds, NoNode
  <2> QED  BY <1>4, <2>1, FrameIsFrame
<1>7. Outside(g) /\ Known(g.lhs) /\ g.at # NoNode
  BY <1>1, <1>5, <1>6 DEF Outside, ExprKinds, Known, Holds, Shape, NoNode
<1>8. Outside(Top) /\ n > 0 /\ n \in {n - 1, n} /\ IsBase(calls, n) /\ MadeWith(nodes', {}, r)
  BY <1>0, <1>5, OutsideIfItem, Innermost, Bases, NothingMade
<1> QED  BY <1>0, <1>1, <1>2, <1>5, <1>6, <1>7, <1>8, Expects

LEMMA ConditionKeepsInv ==
  ASSUME NEW depth, Holds(depth), EndCondition
  PROVE  ParseInv'
<1>0. PICK n : n = Len(calls)
  OBVIOUS
<1>1. PICK p \in Nat : p = pos /\ p >= pos
  BY DEF Holds, Shape
<1>2. PICK r \in Nat : r = p + 1 /\ p < r /\ r >= pos
  BY <1>1 DEF Holds, Shape
<1>3. PICK base : base = Give(calls, value)
  OBVIOUS
<1>4. /\ Top.kind \in {"if", "while"} /\ calls' = Append(base, Frame("block", 0, p, NoNode)) /\ nodes' = nodes
      /\ pos' = r /\ doing' = "item" /\ tokens' = tokens /\ value' = value
  BY <1>1, <1>2, <1>3 DEF EndCondition, InCall, Enter, Go
<1>5. value \in Nat
  BY DEF Holds, Shape, Known, NoNode
<1>6. Outside(Top) /\ IsBase(base, n) /\ MadeWith(nodes', {}, r) /\ "block" \in FrameKinds \ ExprKinds
  BY <1>0, <1>3, <1>4, <1>5, Bases, NothingMade DEF FrameKinds, ExprKinds, Outside
<1> QED  BY <1>0, <1>1, <1>2, <1>4, <1>6, Enters

LEMMA ReturnNothingKeepsInv ==
  ASSUME NEW depth, Holds(depth), ReturnNothing
  PROVE  ParseInv'
<1>0. PICK n : n = Len(calls)
  OBVIOUS
<1>1. PICK p \in Nat : p = pos /\ p >= pos
  BY DEF Holds, Shape
<1>2. PICK r \in Nat : r = p + 2 /\ p < r /\ r >= pos
  BY <1>1 DEF Holds, Shape
<1>3. PICK x : x = Node("return", NoNode, NoNode, <<>>)
  OBVIOUS
<1>4. /\ doing = "item" /\ calls' = Give(calls, p) /\ nodes' = Having(nodes, p, x)
      /\ pos' = r /\ doing' = "item" /\ tokens' = tokens /\ value' = value
  BY <1>1, <1>2, <1>3 DEF ReturnNothing, At, Doing, Go
<1>5. x.kind = "return" /\ x.lhs = NoNode /\ x.rhs = NoNode
  BY <1>3 DEF Node
<1>6. MadeWith(nodes', {p}, r)
  BY <1>1, <1>2, <1>4, <1>5 DEF MadeWith, Having, Holds, Shape
<1>7. Outside(Top) /\ IsBase(Give(calls, p), n)
  BY <1>0, <1>4, OutsideIfItem, Bases
<1> QED  BY <1>0, <1>2, <1>4, <1>6, <1>7, Collects

LEMMA ExpressionStatementKeepsInv ==
  ASSUME NEW depth, Holds(depth), ParseExpressionStatement
  PROVE  ParseInv'
<1>0. PICK n : n = Len(calls)
  OBVIOUS
<1>1. PICK p \in Nat : p = pos /\ p >= pos
  BY DEF Holds, Shape
<1>2. PICK g : g = Frame("statement", 0, 0, NoNode)
  OBVIOUS
<1>3. /\ doing = "item" /\ calls' = Append(Append(calls, g), Frame("expr", 0, 0, NoNode)) /\ nodes' = nodes
      /\ pos' = p /\ doing' = "primary" /\ tokens' = tokens /\ value' = value
  BY <1>1, <1>2 DEF ParseExpressionStatement, Doing, Expect, Go
<1>4. g \in Frames /\ g.kind = "statement" /\ g.at = NoNode /\ g.lhs = NoNode
  <2>1. "statement" \in FrameKinds /\ 0 \in Int /\ 0 \in Nat /\ NoNode = 0
    BY DEF FrameKinds, NoNode
  <2> QED  BY <1>2, <2>1, FrameIsFrame
<1>5. Outside(g) /\ Known(g.lhs)
  BY <1>4 DEF Outside, ExprKinds, Known
<1>6. Outside(Top) /\ n > 0 /\ n \in {n - 1, n} /\ IsBase(calls, n) /\ MadeWith(nodes', {}, p)
  BY <1>0, <1>3, OutsideIfItem, Innermost, Bases, NothingMade
<1> QED  BY <1>0, <1>1, <1>3, <1>4, <1>5, <1>6, Expects

LEMMA AssignKeepsInv ==
  ASSUME NEW depth, Holds(depth), BeginAssign
  PROVE  ParseInv'
<1>0. PICK n : n = Len(calls)
  OBVIOUS
<1>1. PICK p \in Nat : p = pos /\ p >= pos
  BY DEF Holds, Shape
<1>2. PICK r \in Nat : r = p + 1 /\ p < r /\ r >= pos
  BY <1>1 DEF Holds, Shape
<1>3. PICK g : g = Frame("assign", 0, p, value)
  OBVIOUS
<1>4. /\ Top.kind = "statement"
      /\ calls' = Append(Append(Below, g), Frame("expr", 0, 0, NoNode)) /\ nodes' = nodes
      /\ pos' = r /\ doing' = "primary" /\ tokens' = tokens /\ value' = value
  BY <1>1, <1>2, <1>3 DEF BeginAssign, InCall, Expect, Go
<1>5. value \in Nat /\ Known(value)
  BY DEF Holds, Shape, Known, NoNode
<1>6. g \in Frames /\ g.kind = "assign" /\ g.at = p /\ g.lhs = value
  <2>1. "assign" \in FrameKinds /\ 0 \in Int
    BY DEF FrameKinds
  <2> QED  BY <1>3, <1>5, <2>1, FrameIsFrame
<1>7. Outside(g) /\ Known(g.lhs) /\ g.at # NoNode
  BY <1>1, <1>5, <1>6 DEF Outside, ExprKinds, Holds, Shape, NoNode
<1>8. Outside(Top) /\ n > 1 /\ n \in Nat /\ IsBase(Below, n - 1) /\ MadeWith(nodes', {}, r)
  BY <1>0, <1>4, Innermost, Bases, NothingMade DEF Outside, ExprKinds
<1>9. PICK m : m = n - 1
  OBVIOUS
<1>10. m \in {n - 1, n} /\ m > 0 /\ IsBase(Below, m)
  BY <1>8, <1>9
<1> QED  BY <1>0, <1>1, <1>2, <1>4, <1>6, <1>7, <1>8, <1>10, Expects

LEMMA EndStatementKeepsInv ==
  ASSUME NEW depth, Holds(depth), EndStatement
  PROVE  ParseInv'
<1>0. PICK n : n = Len(calls)
  OBVIOUS
<1>1. PICK r \in Nat : r = pos + 1 /\ r >= pos
  BY DEF Holds, Shape
<1>2. /\ Top.kind = "statement" /\ calls' = Give(Below, value) /\ nodes' = nodes
      /\ pos' = r /\ doing' = "item" /\ tokens' = tokens /\ value' = value
  BY <1>1 DEF EndStatement, Go
<1>3. value \in Nat /\ Known(value)'
  BY <1>2 DEF Holds, Shape, Known, NoNode
<1>4. PICK m : m = n - 1
  OBVIOUS
<1>5. Outside(Top) /\ m > 0 /\ m \in {n - 1, n} /\ IsBase(Give(Below, value), m)
  <2>1. n > 1 /\ n \in Nat
    BY <1>0, <1>2, Innermost
  <2> QED  BY <1>0, <1>2, <1>3, <1>4, <2>1, Bases DEF Outside, ExprKinds
<1>6. Added /\ Fresh(m)
  <2>1. pos' \in Nat /\ pos' >= pos
    BY <1>1, <1>2
  <2> QED  BY <1>0, <1>2, <1>3, <1>4, <2>1, NoNodeAdded
<1> QED  BY <1>0, <1>2, <1>5, <1>6, NothingCalled

LEMMA SemicolonKeepsInv ==
  ASSUME NEW depth, Holds(depth), EndWithSemicolon
  PROVE  ParseInv'
<1>1. PICK r \in Nat : r = pos + 1 /\ r >= pos
  BY DEF Holds, Shape
<1>2. Top.kind \in {"let", "assign", "return"} /\ Finish(Node(Top.kind, Top.lhs, value, Top.args), r)
  BY <1>1 DEF EndWithSemicolon
<1>3. Outside(Top) /\ Top.kind \notin {"root", "statement"} /\ Known(Top.lhs) /\ Known(value)
  <2>1. Known(Top.lhs)
    BY Innermost DEF FrameOk
  <2> QED  BY <1>2, <2>1 DEF Outside, ExprKinds, Holds, Shape
<1> QED  BY <1>1, <1>2, <1>3, Finishes

LEMMA EndBlockKeepsInv ==
  ASSUME NEW depth, Holds(depth), EndBlock
  PROVE  ParseInv'
<1>1. PICK r \in Nat : r = pos + 1 /\ r >= pos
  BY DEF Holds, Shape
<1>2. /\ Top.kind = "block" /\ nodes' = Having(nodes, Top.at, Node("block", NoNode, NoNode, Top.args))
      /\ calls' = Below /\ pos' = r /\ doing' = "block" /\ tokens' = tokens /\ value' = Top.at
  BY <1>1 DEF EndBlock, At
<1>3. Outside(Top) /\ Top.kind \notin {"root", "statement"} /\ Known(NoNode)
  BY <1>2 DEF Outside, ExprKinds, Known
<1>4. MadeWith(nodes, {}, r)
  BY NothingMade
<1> QED  BY <1>1, <1>2, <1>3, <1>4, Returns

LEMMA NestedBlockKeepsInv ==
  ASSUME NEW depth, Holds(depth), EndNestedBlock
  PROVE  ParseInv'
<1>0. PICK n : n = Len(calls)
  OBVIOUS
<1>1. PICK p \in Nat : p = pos /\ p >= pos
  BY DEF Holds, Shape
<1>2. /\ doing = "block" /\ calls' = Give(calls, value) /\ nodes' = nodes
      /\ pos' = p /\ doing' = "item" /\ tokens' = tokens /\ value' = value
  BY <1>1 DEF EndNestedBlock, Doing, Go
<1>3. value \in Nat
  BY DEF Holds, Shape, Known, NoNode
<1>4. Outside(Top) /\ IsBase(Give(calls, value), n) /\ MadeWith(nodes', {}, p)
  BY <1>0, <1>2, <1>3, OutsideIfItem, Bases, NothingMade
<1> QED  BY <1>0, <1>1, <1>2, <1>4, Collects

LEMMA ElseKeepsInv ==
  ASSUME NEW depth, Holds(depth), ParseElse
  PROVE  ParseInv'
<1>0. PICK n : n = Len(calls)
  OBVIOUS
<1>1. PICK at \in Nat : at = pos + 1 /\ at >= pos
  BY DEF Holds, Shape
<1>2. PICK r \in Nat : r = at + 1 /\ at < r /\ r >= pos
  BY <1>1 DEF Holds, Shape
<1>3. PICK base : base = Give(calls, value)
  OBVIOUS
<1>4. /\ doing = "block" /\ calls' = Append(base, Frame("block", 0, at, NoNode)) /\ nodes' = nodes
      /\ pos' = r /\ doing' = "item" /\ tokens' = tokens /\ value' = value
  BY <1>1, <1>2, <1>3 DEF ParseElse, Doing, Enter, Go
<1>5. value \in Nat
  BY DEF Holds, Shape, Known, NoNode
<1>6. Outside(Top) /\ IsBase(base, n) /\ MadeWith(nodes', {}, r) /\ "block" \in FrameKinds \ ExprKinds
  BY <1>0, <1>3, <1>4, <1>5, OutsideIfItem, Bases, NothingMade DEF FrameKinds, ExprKinds
<1> QED  BY <1>0, <1>1, <1>2, <1>4, <1>6, Enters

LEMMA EndWithBlockKeepsInv ==
  ASSUME NEW depth, Holds(depth), EndWithBlock
  PROVE  ParseInv'
<1>1. PICK r \in Nat : r = pos /\ r >= pos
  BY DEF Holds, Shape
<1>2. Top.kind \in {"fun", "if", "while"} /\ Finish(Node(Top.kind, NoNode, NoNode, Append(Top.args, value)), r)
  BY <1>1 DEF EndWithBlock
<1>3. Outside(Top) /\ Top.kind \notin {"root", "statement"} /\ Known(NoNode)
  BY <1>2 DEF Outside, ExprKinds, Known
<1> QED  BY <1>1, <1>2, <1>3, Finishes

----------------------------------------------------------------------------
LEMMA InitHolds == Init => ParseInv
<1> SUFFICES ASSUME Init  PROVE ParseInv
  OBVIOUS
<1>1. PICK f : f = Frame("root", 0, 0, NoNode)
  OBVIOUS
<1>2. f \in Frames /\ f.kind = "root" /\ f.at = NoNode /\ f.lhs = NoNode
  <2>1. "root" \in FrameKinds /\ 0 \in Int /\ 0 \in Nat /\ NoNode = 0
    BY DEF FrameKinds, NoNode
  <2> QED  BY <1>1, <2>1, FrameIsFrame
<1>3. calls = <<f>> /\ pos = 1 /\ DOMAIN nodes = {} /\ value = NoNode /\ doing = "item"
  BY <1>1 DEF Init
<1>4. Len(calls) = 1 /\ calls[1] = f /\ Top = f /\ calls \in Seq(Frames) /\ calls # <<>>
  BY <1>2, <1>3 DEF Top
<1>5. Shape
  BY <1>2, <1>3, <1>4 DEF Shape, Known
<1>6. Ordered
  BY <1>4 DEF Ordered
<1>7. FrameOk(f, 0) /\ TopOk(f, 0)
  BY <1>2, <1>3 DEF FrameOk, TopOk, Known, NoNode, ExprKinds
<1>8. Holds([i \in 1..1 |-> 0])
  BY <1>4, <1>5, <1>6, <1>7 DEF Holds, Stacked
<1> QED  BY <1>8 DEF ParseInv

LEMMA ExpressionKeepsInv == ParseInv /\ ParseExpression => ParseInv'
<1> SUFFICES ASSUME NEW depth, Holds(depth), ParseExpression
             PROVE  ParseInv'
  BY DEF ParseInv
<1> QED  BY NumberKeepsInv, LiteralKeepsInv, NameKeepsInv, CallKeepsInv, ArgumentKeepsInv,
            NextArgumentKeepsInv, EndCallKeepsInv,
            NotKeepsInv, EndNotKeepsInv, ParenKeepsInv, EmptyParenKeepsInv, EndParenKeepsInv,
            BeginChainKeepsInv, TakeOperatorKeepsInv, EndChainKeepsInv, StrongerKeepsInv, MergeKeepsInv
         DEF ParseExpression

LEMMA DeclarationKeepsInv == ParseInv /\ ParseDeclaration => ParseInv'
<1> SUFFICES ASSUME NEW depth, Holds(depth), ParseDeclaration
             PROVE  ParseInv'
  BY DEF ParseInv
<1> QED  BY VariableKeepsInv, MemberKeepsInv, ClassKeepsInv, EndClassKeepsInv, FunctionKeepsInv, ParameterKeepsInv,
            DefaultKeepsInv, EndDefaultKeepsInv, NextParameterKeepsInv, EndExternKeepsInv, BodyKeepsInv
         DEF ParseDeclaration

LEMMA StatementKeepsInv == ParseInv /\ ParseStatement => ParseInv'
<1> SUFFICES ASSUME NEW depth, Holds(depth), ParseStatement
             PROVE  ParseInv'
  BY DEF ParseInv
<1> QED  BY BlockKeepsInv, KeywordKeepsInv, ConditionKeepsInv, ReturnNothingKeepsInv, ExpressionStatementKeepsInv,
            AssignKeepsInv, EndStatementKeepsInv, SemicolonKeepsInv, EndBlockKeepsInv, NestedBlockKeepsInv,
            ElseKeepsInv, EndWithBlockKeepsInv
         DEF ParseStatement

(* Nothing that the invariant is about changes when parsing is over. *)
LEMMA IdleKeepsInv == ParseInv /\ UNCHANGED <<tokens, pos, calls, doing, value, nodes>> => ParseInv'
<1> SUFFICES ASSUME NEW depth, Holds(depth), UNCHANGED <<tokens, pos, calls, doing, value, nodes>>
             PROVE  ParseInv'
  BY DEF ParseInv
<1>0. PICK n : n = Len(calls)
  OBVIOUS
<1>1. PICK f : f = calls[n]
  OBVIOUS
<1>2. PICK d : d = depth[n]
  OBVIOUS
<1>3. PICK r : r = pos
  OBVIOUS
<1>4. f = Top /\ TopOk(f, d)
  BY <1>0, <1>1, <1>2, Innermost
<1>5. Added /\ Fresh(n)
  <2>1. pos' \in Nat /\ pos' >= pos /\ Known(value)'
    BY DEF Holds, Shape, Known
  <2> QED  BY <1>0, <2>1, NoNodeAdded
<1>6. /\ Op(value)' = Op(value) /\ Depth(value)' = Depth(value)
      /\ \A e : Inside(value, e)' = Inside(value, e)
      /\ \A e, min : Chain(value, e, min)' = Chain(value, e, min)
  BY ValueStays DEF Holds
<1>7. /\ Depth(pos)' = Depth(pos) /\ IsOperator(pos)' = IsOperator(pos) /\ Prec(pos)' = Prec(pos)
      /\ \A p : Prec(p)' = Prec(p)
  BY <1>3, NextToken, TextStays
<1>8. Given(f, d)' = Given(f, d)
  BY <1>6, <1>7 DEF Given, AwaitsPrimary, AwaitsChain
<1>9. TopOk(f, d)'
  BY <1>4, <1>7, <1>8 DEF TopOk, AwaitsPrimary
<1> QED  BY <1>0, <1>1, <1>2, <1>5, <1>9, Stay

LEMMA ParseInvHolds == Spec => []ParseInv
<1>1. ParseInv /\ [Next]_vars => ParseInv'
  <2> SUFFICES ASSUME ParseInv, [Next]_vars
               PROVE  ParseInv'
    OBVIOUS
  <2>1. CASE ParseExpression
    BY <2>1, ExpressionKeepsInv
  <2>2. CASE ParseDeclaration
    BY <2>2, DeclarationKeepsInv
  <2>3. CASE ParseStatement
    BY <2>3, StatementKeepsInv
  <2>4. CASE EndFile \/ Throw \/ UNCHANGED vars
    BY <2>4, IdleKeepsInv DEF EndFile, Throw, vars
  <2> QED  BY <2>1, <2>2, <2>3, <2>4 DEF Next
<1> QED  BY <1>1, InitHolds, PTL DEF Spec

(* Whatever the tokens are and however far parseBinaryExpressionRHS        *)
(* (Parser.h) and the functions around it have come: without parentheses   *)
(* no operator has one below it that binds weaker, none to its right one   *)
(* that binds as strong, and no negation one at all.                       *)
THEOREM TreesFollowPrecedence == Spec => []TreeFollowsPrecedence
<1>1. ParseInv => TreeFollowsPrecedence
  BY DEF ParseInv, Holds, Shape, NodeOk, Follows, TreeFollowsPrecedence
<1> QED  BY <1>1, ParseInvHolds, PTL
=============================================================================
