---------------------------- MODULE StreamLemmas ----------------------------
(* Facts about StatementStream that the proofs of the passes rest on. *)
EXTENDS StatementStream, FiniteSetTheorems, WellFoundedInduction, TLAPS

(* A nonempty set of naturals has a minimum, and Min returns it. *)
LEMMA MinOfNaturals ==
  ASSUME NEW S \in SUBSET Nat, S # {}
  PROVE  /\ Min(S) \in S
         /\ \A y \in S : Min(S) <= y
<1> DEFINE R == {ss \in Nat \X Nat : ss[1] < ss[2]}
<1>1. IsWellFoundedOn(R, Nat)
  BY NatLessThanWellFounded, Zenon DEF OpToRel
<1>2. PICK x \in S : \A y \in S : ~(<<y, x>> \in R)
  <2> HIDE DEF R
  <2> QED BY <1>1, WFMin
<1>3. ASSUME NEW y \in S PROVE x <= y
  <2> DEFINE pair == <<y, x>>
  <2>1. pair \in Nat \X Nat /\ pair[1] = y /\ pair[2] = x
    OBVIOUS
  <2>2. y < x => pair \in R
    <3> HIDE DEF pair
    <3> QED BY <2>1
  <2> QED BY <1>2, <2>2
<1> QED BY <1>3 DEF Min

(* A larger number does not change it. *)
LEMMA MinStays ==
  ASSUME NEW q \in Nat, NEW S \in SUBSET Nat, \A p \in S : p < q
  PROVE  Min(S \cup {q}) = IF S = {} THEN q ELSE Min(S)
<1> DEFINE T == S \cup {q}
<1>1. T \in SUBSET Nat /\ T # {}
  OBVIOUS
<1>2. PICK m : m = Min(T)
  OBVIOUS
<1>3. m \in T /\ \A y \in T : m <= y
  <2> HIDE DEF T
  <2> QED  BY <1>1, <1>2, MinOfNaturals
<1>4. CASE S = {}
  BY <1>2, <1>3, <1>4
<1>5. CASE S # {}
  <2>1. PICK k : k = Min(S)
    OBVIOUS
  <2>2. k \in S /\ \A y \in S : k <= y
    BY <1>5, <2>1, MinOfNaturals
  <2>3. k \in Nat /\ m \in Nat /\ k < q /\ k \in T /\ q \in T
    BY <1>1, <1>3, <2>2
  <2>4. m <= k
    BY <1>3, <2>3
  <2>5. k <= m
    BY <1>3, <2>2, <2>3
  <2> QED  BY <1>2, <1>5, <2>1, <2>3, <2>4, <2>5
<1> QED  BY <1>4, <1>5

(* The end of the list around a position is a mark or the end of the body, *)
(* and not before the position.                                            *)
LEMMA ListEndIsMark ==
  ASSUME NEW names, NEW body \in Seq(StatementsOver(names)), NEW p \in Nat \ {0},
         p <= Len(body) + 1
  PROVE  /\ ListEnd(body, p) \in p..(Len(body) + 1)
         /\ ListEnd(body, p) \in 1..Len(body) => body[ListEnd(body, p)].op \in {"else", "end"}
<1> DEFINE S == { j \in p..Len(body) : /\ body[j].op \in {"else", "end"}
                                       /\ Depth(body, j) = Depth(body, p) } \cup {Len(body) + 1}
<1>1. S \in SUBSET Nat /\ S # {}
  OBVIOUS
<1>2. ListEnd(body, p) \in S
  BY <1>1, MinOfNaturals DEF ListEnd
<1> QED BY <1>2

(* A nonempty set of integers with a bound has a maximum, and Max returns it. *)
LEMMA MaxOfBounded ==
  ASSUME NEW S \in SUBSET Int, S # {}, NEW n \in Nat, \A y \in S : y <= n
  PROVE  Max(S) \in S /\ \A y \in S : y <= Max(S)
<1> DEFINE T == {n - y : y \in S}
<1>1. T \in SUBSET Nat /\ T # {}
  <2>1. \A y \in S : y \in Int /\ y <= n
    OBVIOUS
  <2>2. \A y \in S : n - y \in Nat
    BY <2>1
  <2>3. PICK y \in S : TRUE
    OBVIOUS
  <2>4. n - y \in T
    BY <2>3
  <2> QED BY <2>2, <2>4
<1>2. Min(T) \in T /\ \A t \in T : Min(T) <= t
  BY <1>1, MinOfNaturals
<1>3. PICK x \in S : Min(T) = n - x
  BY <1>2
<1>4. ASSUME NEW y \in S PROVE x >= y
  <2>1. n - y \in T
    OBVIOUS
  <2>2. n - x <= n - y
    BY <1>2, <1>3, <2>1
  <2> QED BY <2>2
<1> QED BY <1>4 DEF Max

LEMMA DepthIsBounded ==
  ASSUME NEW body, NEW p \in Nat \ {0}
  PROVE  Depth(body, p) \in Int /\ Depth(body, p) <= p - 1
<1> DEFINE A == {i \in 1..(p - 1) : body[i].op \in Openers}
           B == {i \in 1..(p - 1) : body[i].op = "end"}
<1>1. IsFiniteSet(1..(p - 1)) /\ Cardinality(1..(p - 1)) = p - 1
  <2>1. 1 \in Int /\ p - 1 \in Int /\ (1 > p - 1 => p - 1 = 0)
    OBVIOUS
  <2> QED BY <2>1, FS_Interval
<1>2. A \in SUBSET (1..(p - 1)) /\ B \in SUBSET (1..(p - 1))
  OBVIOUS
<1> HIDE DEF A, B
<1>3. IsFiniteSet(A) /\ IsFiniteSet(B) /\ Cardinality(A) <= p - 1
  BY <1>1, <1>2, FS_Subset
<1>4. Cardinality(A) \in Nat /\ Cardinality(B) \in Nat
  BY <1>3, FS_CardinalityType
<1>5. Depth(body, p) = Cardinality(A) - Cardinality(B)
  BY DEF Depth, A, B
<1> QED BY <1>3, <1>4, <1>5

(* The declaration a name denotes is a global, none, or one in front.      *)
LEMMA DeclOfIsVisible ==
  ASSUME NEW body, NEW p \in Nat \ {0}, NEW n, NEW globals
  PROVE  \/ DeclOf(body, p, n, globals) \in InScope(body, p, n)
         \/ DeclOf(body, p, n, globals) = Global /\ n \in globals
         \/ DeclOf(body, p, n, globals) = Undeclared
<1> DEFINE visible == InScope(body, p, n)
           depths == {Depth(body, i) : i \in visible}
           inner == Max(depths)
           least == {i \in visible : Depth(body, i) = inner}
<1>1. visible \subseteq 1..(p - 1)
  BY DEF InScope
<1>2. CASE visible = {}
  BY <1>2 DEF DeclOf
<1>3. CASE visible # {}
  <2>1. \A i \in visible : Depth(body, i) \in Int /\ Depth(body, i) <= p
    <3>1. ASSUME NEW i \in visible PROVE i \in Nat \ {0} /\ i <= p - 1
      BY <1>1
    <3>2. ASSUME NEW i \in visible PROVE Depth(body, i) \in Int /\ Depth(body, i) <= i - 1
      BY <3>1, DepthIsBounded
    <3> QED BY <3>1, <3>2
  <2>2. depths \in SUBSET Int /\ depths # {} /\ \A y \in depths : y <= p
    BY <1>3, <2>1
  <2>3. inner \in depths
    <3> HIDE DEF depths
    <3> QED BY <2>2, MaxOfBounded
  <2>4. least # {} /\ least \in SUBSET Nat
    <3>1. PICK i \in visible : inner = Depth(body, i)
      BY <2>3
    <3>2. i \in least
      BY <3>1
    <3>3. least \subseteq 1..(p - 1) /\ 1..(p - 1) \subseteq Nat
      BY <1>1
    <3> HIDE DEF least
    <3> QED BY <3>2, <3>3
  <2>5. Min(least) \in least
    <3> HIDE DEF least
    <3> QED BY <2>4, MinOfNaturals
  <2>6. DeclOf(body, p, n, globals) = Min(least)
    BY <1>3 DEF DeclOf
  <2> QED BY <1>1, <2>5, <2>6
<1> QED BY <1>2, <1>3

LEMMA DeclOfIsBefore ==
  ASSUME NEW body, NEW p \in Nat \ {0}, NEW n, NEW globals
  PROVE  DeclOf(body, p, n, globals) \in {Global, Undeclared} \cup 1..(p - 1)
  BY DeclOfIsVisible DEF InScope

----------------------------------------------------------------------------
(* Nested lists are opened by openers and closed by end marks.             *)
LEMMA DepthSteps ==
  ASSUME NEW body, NEW p \in Nat \ {0}
  PROVE  Depth(body, p + 1) =
           Depth(body, p) + (IF body[p].op \in Openers THEN 1 ELSE IF body[p].op = "end" THEN -1 ELSE 0)
<1> DEFINE Those(ops, q) == {i \in 1..(q - 1) : body[i].op \in ops}
<1>1. ASSUME NEW ops, NEW q \in Nat \ {0}
      PROVE  IsFiniteSet(Those(ops, q)) /\ Cardinality(Those(ops, q)) \in Nat
  <2>1. IsFiniteSet(1..(q - 1))
    BY FS_Interval
  <2> QED  BY <2>1, FS_Subset, FS_CardinalityType
<1>2. ASSUME NEW ops
      PROVE  Cardinality(Those(ops, p + 1)) = Cardinality(Those(ops, p)) + (IF body[p].op \in ops THEN 1 ELSE 0)
  <2>1. CASE body[p].op \in ops
    <3>1. Those(ops, p + 1) = Those(ops, p) \cup {p} /\ p \notin Those(ops, p)
      BY <2>1
    <3> HIDE DEF Those
    <3>2. IsFiniteSet(Those(ops, p))
      BY <1>1
    <3>3. Cardinality(Those(ops, p) \cup {p}) = Cardinality(Those(ops, p)) + 1
      BY <3>1, <3>2, FS_AddElement
    <3> QED  BY <2>1, <3>1, <3>3
  <2>2. CASE body[p].op \notin ops
    <3>1. Those(ops, p + 1) = Those(ops, p)
      BY <2>2
    <3> HIDE DEF Those
    <3> QED  BY <2>2, <3>1, <1>1
  <2> QED  BY <2>1, <2>2
<1>3. \A q : Depth(body, q) = Cardinality(Those(Openers, q)) - Cardinality(Those({"end"}, q))
  <2>1. \A i : body[i].op \in {"end"} <=> body[i].op = "end"
    OBVIOUS
  <2> QED  BY <2>1 DEF Depth
<1>4. /\ Cardinality(Those(Openers, p)) \in Nat /\ Cardinality(Those({"end"}, p)) \in Nat
      /\ Cardinality(Those(Openers, p + 1)) =
           Cardinality(Those(Openers, p)) + (IF body[p].op \in Openers THEN 1 ELSE 0)
      /\ Cardinality(Those({"end"}, p + 1)) =
           Cardinality(Those({"end"}, p)) + (IF body[p].op = "end" THEN 1 ELSE 0)
  BY <1>1, <1>2
<1> HIDE DEF Those
<1>5. "end" \notin Openers
  BY DEF Openers
<1> QED  BY <1>3, <1>4, <1>5

(* The list around p is open at q if no mark between them closes it. *)
Marks == {"else", "end"}
IsOpen(body, p, q) == \A j \in p..(q - 1) : ~(body[j].op \in Marks /\ Depth(body, j) = Depth(body, p))

LEMMA ListEndIsAhead ==
  ASSUME NEW body, Len(body) \in Nat, NEW p \in Nat \ {0}, NEW q \in Nat, p <= q, q <= Len(body) + 1
  PROVE  ListEnd(body, p) >= q <=> IsOpen(body, p, q)
<1> DEFINE Closers == { j \in p..Len(body) : body[j].op \in Marks /\ Depth(body, j) = Depth(body, p) }
           S == Closers \cup {Len(body) + 1}
<1>1. S \in SUBSET Nat /\ S # {}
  OBVIOUS
<1>2. ListEnd(body, p) = Min(S)
  BY DEF ListEnd, Marks
<1>3. ListEnd(body, p) \in S /\ \A y \in S : ListEnd(body, p) <= y
  <2> HIDE DEF S
  <2> QED  BY <1>1, <1>2, MinOfNaturals
<1>4. ASSUME ListEnd(body, p) >= q  PROVE IsOpen(body, p, q)
  BY <1>3, <1>4 DEF IsOpen
<1>5. ASSUME IsOpen(body, p, q)  PROVE ListEnd(body, p) >= q
  BY <1>3, <1>5 DEF IsOpen
<1> QED  BY <1>4, <1>5

(* The declarations of a name that are visible at q, in the list at depth d. *)
Seen(body, q, n, d) == {p \in InScope(body, q, n) : Depth(body, p) = d}

LEMMA SeenIsOpen ==
  ASSUME NEW body, Len(body) \in Nat, NEW q \in 1..(Len(body) + 1), NEW n, NEW d
  PROVE  Seen(body, q, n, d) =
           {p \in 1..(q - 1) : DeclaresName(body, p, n) /\ IsOpen(body, p, q) /\ Depth(body, p) = d}
<1>1. \A p \in 1..(q - 1) : ListEnd(body, p) >= q <=> IsOpen(body, p, q)
  BY ListEndIsAhead
<1> QED  BY <1>1 DEF Seen, InScope

LEMMA OpenSteps ==
  ASSUME NEW body, NEW q \in Nat \ {0}, NEW p \in 1..q
  PROVE  IsOpen(body, p, q + 1) <=>
           IsOpen(body, p, q) /\ ~(body[q].op \in Marks /\ Depth(body, q) = Depth(body, p))
<1>1. p..((q + 1) - 1) = p..(q - 1) \cup {q}
  OBVIOUS
<1> QED  BY <1>1 DEF IsOpen

LEMMA SeenSteps ==
  ASSUME NEW body, Len(body) \in Nat, NEW q \in 1..Len(body), NEW n, NEW d
  PROVE  /\ d # Depth(body, q) => Seen(body, q + 1, n, d) = Seen(body, q, n, d)
         /\ d = Depth(body, q) /\ body[q].op \in Marks => Seen(body, q + 1, n, d) = {}
         /\ body[q].op \notin Marks /\ ~DeclaresName(body, q, n) =>
              Seen(body, q + 1, n, d) = Seen(body, q, n, d)
         /\ d = Depth(body, q) /\ DeclaresName(body, q, n) =>
              Seen(body, q + 1, n, d) = Seen(body, q, n, d) \cup {q}
<1>1. \A p \in 1..q : IsOpen(body, p, q + 1) <=>
           IsOpen(body, p, q) /\ ~(body[q].op \in Marks /\ Depth(body, q) = Depth(body, p))
  BY OpenSteps
<1>2. IsOpen(body, q, q)
  BY DEF IsOpen
<1>3. /\ Seen(body, q, n, d) =
           {p \in 1..(q - 1) : DeclaresName(body, p, n) /\ IsOpen(body, p, q) /\ Depth(body, p) = d}
      /\ Seen(body, q + 1, n, d) =
           {p \in 1..q : DeclaresName(body, p, n) /\ IsOpen(body, p, q + 1) /\ Depth(body, p) = d}
  BY SeenIsOpen
<1>4. body[q].op \in Marks => ~DeclaresName(body, q, n)
  BY DEF Marks, DeclaresName
<1>5. 1..q = 1..(q - 1) \cup {q}
  OBVIOUS
<1>6. CASE body[q].op \in Marks
  BY <1>1, <1>3, <1>4, <1>5, <1>6
<1>7. CASE body[q].op \notin Marks
  BY <1>1, <1>2, <1>3, <1>5, <1>7
<1> QED  BY <1>6, <1>7

(* The innermost list that has a declaration of the name decides.          *)
LEMMA InnermostDecides ==
  ASSUME NEW body, Len(body) \in Nat, NEW q \in 1..(Len(body) + 1), NEW n, NEW globals, NEW limit \in Nat,
         \A p \in InScope(body, q, n) : Depth(body, p) \in 0..limit,
         NEW d \in 0..limit, Seen(body, q, n, d) # {}, \A e \in (d + 1)..limit : Seen(body, q, n, e) = {}
  PROVE  DeclOf(body, q, n, globals) = Min(Seen(body, q, n, d))
<1> DEFINE visible == InScope(body, q, n)
           depths == {Depth(body, i) : i \in visible}
<1>1. visible # {} /\ d \in depths
  BY DEF Seen
<1>2. \A e \in depths : e \in 0..limit /\ e <= d
  <2>1. ASSUME NEW i \in visible  PROVE Depth(body, i) \in 0..limit /\ Depth(body, i) <= d
    <3>1. Depth(body, i) \in 0..limit /\ Seen(body, q, n, Depth(body, i)) # {}
      BY DEF Seen
    <3> QED  BY <3>1
  <2> QED  BY <2>1
<1>3. depths \in SUBSET Int /\ d \in Nat
  BY <1>2
<1> HIDE DEF visible, depths
<1>4. PICK m : m = Max(depths)
  OBVIOUS
<1>5. m \in depths /\ \A e \in depths : e <= m
  BY <1>1, <1>2, <1>3, <1>4, MaxOfBounded
<1>6. m \in 0..limit /\ m <= d
  BY <1>2, <1>5
<1>7. d <= m
  BY <1>1, <1>5
<1>8. m = d
  BY <1>3, <1>6, <1>7
<1> QED  BY <1>1, <1>4, <1>8 DEF DeclOf, Seen, visible, depths

LEMMA GlobalDecides ==
  ASSUME NEW body, NEW q, NEW n, NEW globals, InScope(body, q, n) = {}
  PROVE  DeclOf(body, q, n, globals) = IF n \in globals THEN Global ELSE Undeclared
  BY DEF DeclOf

(* What stands in front of a position decides what a name means there. *)
LEMMA SamePrefix ==
  ASSUME NEW b, Len(b) \in Nat, NEW c, Len(c) \in Nat,
         NEW q \in Nat \ {0}, q <= Len(b) + 1, q <= Len(c) + 1, \A i \in 1..(q - 1) : c[i] = b[i]
  PROVE  /\ \A p \in 1..q : Depth(c, p) = Depth(b, p) /\ IsOpen(c, p, q) = IsOpen(b, p, q)
         /\ \A n, globals : DeclOf(c, q, n, globals) = DeclOf(b, q, n, globals)
<1>1. ASSUME NEW p \in 1..q  PROVE Depth(c, p) = Depth(b, p)
  <2>1. \A i \in 1..(p - 1) : c[i] = b[i]
    OBVIOUS
  <2> QED  BY <2>1 DEF Depth
<1>2. ASSUME NEW p \in 1..q  PROVE IsOpen(c, p, q) <=> IsOpen(b, p, q)
  <2>1. \A j \in p..(q - 1) : c[j] = b[j] /\ Depth(c, j) = Depth(b, j)
    BY <1>1
  <2>2. Depth(c, p) = Depth(b, p)
    BY <1>1
  <2> QED  BY <2>1, <2>2 DEF IsOpen
<1>3. ASSUME NEW n, NEW globals
      PROVE  DeclOf(c, q, n, globals) = DeclOf(b, q, n, globals)
  <2>1. \A p \in 1..(q - 1) : ListEnd(c, p) >= q <=> ListEnd(b, p) >= q
    BY <1>2, ListEndIsAhead
  <2>2. InScope(c, q, n) = InScope(b, q, n)
    BY <2>1 DEF InScope, DeclaresName
  <2>3. \A p \in InScope(b, q, n) : Depth(c, p) = Depth(b, p)
    BY <1>1 DEF InScope
  <2>4. {Depth(c, i) : i \in InScope(b, q, n)} = {Depth(b, i) : i \in InScope(b, q, n)}
    BY <2>3
  <2>5. PICK inner : inner = Max({Depth(b, i) : i \in InScope(b, q, n)})
    OBVIOUS
  <2>6. {i \in InScope(b, q, n) : Depth(c, i) = inner} = {i \in InScope(b, q, n) : Depth(b, i) = inner}
    BY <2>3
  <2> QED  BY <2>2, <2>4, <2>5, <2>6 DEF DeclOf
<1>4. ASSUME NEW p \in 1..q  PROVE IsOpen(c, p, q) = IsOpen(b, p, q)
  BY <1>2 DEF IsOpen
<1> QED  BY <1>1, <1>3, <1>4

(* The position behind the statement at p. *)
Behind(body, p) ==
  IF body[p].op \in Openers
  THEN IF body[p].op = "ifelse" THEN ListEnd(body, ListEnd(body, p + 1) + 1) + 1 ELSE ListEnd(body, p + 1) + 1
  ELSE p + 1

(* A sequence of statements.                                              *)
Stream(body) == Len(body) \in Nat /\ DOMAIN body = 1..Len(body) /\ \A p \in DOMAIN body : body[p].op \in Ops

(* A list that is open has not been left. *)
LEMMA StaysInside ==
  ASSUME NEW body, NEW p \in Nat \ {0}, NEW q \in Nat, p <= q, IsOpen(body, p, q)
  PROVE  \A j \in p..q : Depth(body, j) >= Depth(body, p)
<1> DEFINE S == {j \in p..q : ~(Depth(body, j) >= Depth(body, p))}
<1> SUFFICES ASSUME S # {}  PROVE FALSE
  OBVIOUS
<1>1. S \in SUBSET Nat
  OBVIOUS
<1>2. PICK m : m = Min(S)
  OBVIOUS
<1>3. m \in S /\ \A y \in S : m <= y
  BY <1>1, <1>2, MinOfNaturals
<1>4. m \in p..q /\ ~(Depth(body, m) >= Depth(body, p))
  BY <1>3
<1>5. \A i \in Nat \ {0} : Depth(body, i) \in Int
  BY DepthIsBounded
<1>6. m # p
  BY <1>4, <1>5
<1>7. PICK k \in p..(q - 1) : m = k + 1
  <2>1. m - 1 \in p..(q - 1) /\ m = (m - 1) + 1
    BY <1>4, <1>6
  <2> QED  BY <2>1
<1>8. k \notin S /\ k \in p..q
  BY <1>3, <1>7
<1>9. Depth(body, k) >= Depth(body, p)
  BY <1>8
<1>10. Depth(body, k + 1) = Depth(body, k) + (IF body[k].op \in Openers THEN 1 ELSE IF body[k].op = "end" THEN -1 ELSE 0)
  BY <1>7, DepthSteps
<1>11. Depth(body, k) \in Int /\ Depth(body, p) \in Int /\ Depth(body, k + 1) \in Int
  BY <1>5, <1>7
<1>12. body[k].op = "end" /\ Depth(body, k) = Depth(body, p)
  BY <1>4, <1>7, <1>9, <1>10, <1>11
<1> QED  BY <1>7, <1>12 DEF IsOpen, Marks

(* What ListEnd finds. *)
LEMMA ListEndIs ==
  ASSUME NEW body, Len(body) \in Nat, NEW p \in 1..(Len(body) + 1), NEW e, e = ListEnd(body, p)
  PROVE  /\ e \in p..(Len(body) + 1) /\ IsOpen(body, p, e)
         /\ e # Len(body) + 1 => body[e].op \in Marks /\ Depth(body, e) = Depth(body, p)
<1> DEFINE S == { j \in p..Len(body) : body[j].op \in Marks /\ Depth(body, j) = Depth(body, p) } \cup {Len(body) + 1}
<1>1. S \in SUBSET Nat /\ S # {}
  OBVIOUS
<1>2. e = Min(S)
  BY DEF ListEnd, Marks
<1>3. e \in S
  <2> HIDE DEF S
  <2> QED  BY <1>1, <1>2, MinOfNaturals
<1>4. e \in p..(Len(body) + 1) /\ (e # Len(body) + 1 => body[e].op \in Marks /\ Depth(body, e) = Depth(body, p))
  BY <1>3
<1>5. IsOpen(body, p, e)
  <2>1. p <= e /\ e <= Len(body) + 1 /\ e \in Nat /\ ListEnd(body, p) >= e
    BY <1>4
  <2> QED  BY <2>1, ListEndIsAhead
<1> QED  BY <1>4, <1>5

(* Two positions of the same list have the same end. *)
LEMMA SameEnd ==
  ASSUME NEW body, Len(body) \in Nat, NEW p \in 1..(Len(body) + 1), NEW q \in p..(Len(body) + 1),
         Depth(body, q) = Depth(body, p), IsOpen(body, p, q)
  PROVE  ListEnd(body, p) = ListEnd(body, q)
<1> DEFINE S(i) == { j \in i..Len(body) : body[j].op \in {"else", "end"} /\ Depth(body, j) = Depth(body, i) }
<1>1. S(p) = S(q)
  <2>1. \A j \in p..Len(body) : j \in p..(q - 1) \/ j \in q..Len(body)
    OBVIOUS
  <2>2. \A j \in p..(q - 1) : ~(body[j].op \in {"else", "end"} /\ Depth(body, j) = Depth(body, p))
    BY DEF IsOpen, Marks
  <2> QED  BY <2>1, <2>2
<1> QED  BY <1>1 DEF ListEnd

(* The greatest element of a set is its maximum. *)
LEMMA MaxIs ==
  ASSUME NEW S \in SUBSET Nat, NEW m \in S, \A y \in S : y <= m
  PROVE  Max(S) = m
<1>1. S \in SUBSET Int /\ S # {} /\ m \in Nat
  OBVIOUS
<1>2. PICK x : x = Max(S)
  OBVIOUS
<1>3. x \in S /\ \A y \in S : y <= x
  BY <1>1, <1>2, MaxOfBounded
<1>4. x <= m /\ m <= x /\ x \in Nat /\ m \in Nat
  BY <1>3
<1> QED  BY <1>2, <1>4

(* What stands between a statement that opens a list and its end mark f is *)
(* deeper than the statement.                                              *)
LEMMA Enclosed ==
  ASSUME NEW body, Stream(body), NEW p \in 1..Len(body), body[p].op \in Openers, NEW f \in (p + 1)..Len(body),
         body[f].op = "end", Depth(body, f) = Depth(body, p) + 1,
         \A j \in (p + 1)..f : Depth(body, j) >= Depth(body, p) + 1
  PROVE  /\ Depth(body, f + 1) = Depth(body, p) /\ ListEnd(body, f + 1) = ListEnd(body, p)
         /\ OpenerOf(body, f) = p
<1>1. Len(body) \in Nat
  BY DEF Stream
<1>2. \A i \in Nat \ {0} : Depth(body, i) \in Int
  BY DepthIsBounded
<1>3. Depth(body, p) \in Int /\ Depth(body, f) \in Int
  BY <1>1, <1>2
<1>4. Depth(body, f + 1) = Depth(body, p)
  <2>1. Depth(body, f + 1) = Depth(body, f) + (IF body[f].op \in Openers THEN 1 ELSE IF body[f].op = "end" THEN -1 ELSE 0)
    <3>1. f \in Nat \ {0}
      BY <1>1
    <3> QED  BY <3>1, DepthSteps
  <2>2. body[f].op \notin Openers
    BY DEF Openers
  <2> QED  BY <1>3, <2>1, <2>2
<1>5. IsOpen(body, p, f + 1)
  <2>1. ASSUME NEW j \in p..f  PROVE ~(body[j].op \in Marks /\ Depth(body, j) = Depth(body, p))
    <3>1. CASE j = p
      BY <3>1 DEF Openers, Marks
    <3>2. CASE j # p
      <4>1. j \in (p + 1)..f
        BY <3>2
      <4> QED  BY <1>3, <4>1
    <3> QED  BY <3>1, <3>2
  <2> QED  BY <1>1, <2>1 DEF IsOpen
<1>6. ListEnd(body, f + 1) = ListEnd(body, p)
  <2>1. f + 1 \in p..(Len(body) + 1) /\ p \in 1..(Len(body) + 1)
    BY <1>1
  <2> QED  BY <1>1, <1>4, <1>5, <2>1, SameEnd
<1>7. OpenerOf(body, f) = p
  <2>1. PICK S : S = { i \in 1..(f - 1) : body[i].op \in Openers /\ Depth(body, i) = Depth(body, f) - 1 }
    OBVIOUS
  <2>2. S \in SUBSET Nat /\ p \in S
    BY <1>1, <1>3, <2>1
  <2>3. ASSUME NEW y \in S  PROVE y <= p
    <3>1. y \in 1..(f - 1) /\ Depth(body, y) = Depth(body, p)
      BY <1>3, <2>1
    <3>2. y \notin (p + 1)..f
      BY <1>3, <3>1
    <3> QED  BY <1>1, <3>1, <3>2
  <2>4. Max(S) = p
    BY <2>2, <2>3, MaxIs
  <2> QED  BY <2>1, <2>4 DEF OpenerOf
<1> QED  BY <1>4, <1>6, <1>7

(* The lists of a statement, in a body that is balanced. *)
LEMMA StatementFacts ==
  ASSUME NEW body, Stream(body), Balanced(body), NEW p \in 1..Len(body), body[p].op \notin Marks
  PROVE  /\ Behind(body, p) \in (p + 1)..(Len(body) + 1)
         /\ Depth(body, Behind(body, p)) = Depth(body, p)
         /\ ListEnd(body, Behind(body, p)) = ListEnd(body, p)
         /\ body[p].op \notin Openers => Behind(body, p) = p + 1
         /\ body[p].op \in Openers =>
              LET e == ListEnd(body, p + 1)
                  f == IF body[p].op = "ifelse" THEN ListEnd(body, e + 1) ELSE e
              IN /\ e \in (p + 1)..Len(body) /\ f \in (p + 1)..Len(body) /\ Behind(body, p) = f + 1
                 /\ Depth(body, e) = Depth(body, p) + 1 /\ Depth(body, f) = Depth(body, p) + 1
                 /\ body[f].op = "end" /\ OpenerOf(body, f) = p
                 /\ body[p].op = "ifelse" => body[e].op = "else" /\ ElseEnd(body, e) = f /\ f \in (e + 1)..Len(body)
<1>1. Len(body) \in Nat /\ DOMAIN body = 1..Len(body)
  BY DEF Stream
<1>2. \A i \in Nat \ {0} : Depth(body, i) \in Int
  BY DepthIsBounded
<1>3. Depth(body, p) \in Int
  BY <1>1, <1>2
<1>4. Depth(body, p + 1) = Depth(body, p) + (IF body[p].op \in Openers THEN 1 ELSE IF body[p].op = "end" THEN -1 ELSE 0)
  BY <1>1, DepthSteps
<1>5. CASE body[p].op \notin Openers
  <2>1. Behind(body, p) = p + 1
    BY <1>5 DEF Behind
  <2>2. Depth(body, p + 1) = Depth(body, p)
    BY <1>3, <1>4, <1>5 DEF Marks
  <2>3. IsOpen(body, p, p + 1)
    BY <1>1 DEF IsOpen
  <2>4. ListEnd(body, p) = ListEnd(body, p + 1)
    <3>1. p + 1 \in p..(Len(body) + 1) /\ p \in 1..(Len(body) + 1)
      BY <1>1
    <3> QED  BY <1>1, <2>2, <2>3, <3>1, SameEnd
  <2> QED  BY <1>1, <1>5, <2>1, <2>2, <2>4
<1>6. CASE body[p].op \in Openers
  <2>1. PICK e : e = ListEnd(body, p + 1)
    OBVIOUS
  <2>2. Depth(body, p + 1) = Depth(body, p) + 1
    BY <1>4, <1>6
  <2>3. e \in (p + 1)..(Len(body) + 1) /\ IsOpen(body, p + 1, e) /\ (e # Len(body) + 1 => Depth(body, e) = Depth(body, p + 1))
    <3>1. p + 1 \in 1..(Len(body) + 1)
      BY <1>1
    <3> QED  BY <1>1, <2>1, <3>1, ListEndIs
  <2>4. e \in 1..Len(body) /\ body[e].op = IF body[p].op = "ifelse" THEN "else" ELSE "end"
    BY <1>1, <1>6, <2>1 DEF Balanced
  <2>5. e \in (p + 1)..Len(body) /\ Depth(body, e) = Depth(body, p) + 1
    BY <1>1, <2>2, <2>3, <2>4
  <2>6. \A j \in (p + 1)..e : Depth(body, j) >= Depth(body, p) + 1
    <3>1. p + 1 \in Nat \ {0} /\ e \in Nat /\ p + 1 <= e
      BY <1>1, <2>5
    <3> QED  BY <2>2, <2>3, <3>1, StaysInside
  <2>7. CASE body[p].op # "ifelse"
    <3>1. body[e].op = "end" /\ Behind(body, p) = e + 1
      BY <1>6, <2>1, <2>4, <2>7 DEF Behind
    <3>2. /\ Depth(body, e + 1) = Depth(body, p) /\ ListEnd(body, e + 1) = ListEnd(body, p)
          /\ OpenerOf(body, e) = p
      BY <1>6, <2>5, <2>6, <3>1, Enclosed
    <3>3. e + 1 \in (p + 1)..(Len(body) + 1)
      BY <1>1, <2>5
    <3> QED  BY <1>6, <2>1, <2>5, <2>7, <3>1, <3>2, <3>3
  <2>8. CASE body[p].op = "ifelse"
    <3>1. PICK f : f = ListEnd(body, e + 1)
      OBVIOUS
    <3>2. body[e].op = "else" /\ Behind(body, p) = f + 1 /\ ElseEnd(body, e) = f
      BY <1>6, <2>1, <2>4, <2>8, <3>1 DEF Behind, ElseEnd
    <3>3. Depth(body, e + 1) = Depth(body, p) + 1
      <4>1. Depth(body, e + 1) = Depth(body, e) + (IF body[e].op \in Openers THEN 1 ELSE IF body[e].op = "end" THEN -1 ELSE 0)
        BY <1>1, <2>5, DepthSteps
      <4>2. body[e].op \notin Openers /\ body[e].op # "end"
        BY <3>2 DEF Openers
      <4> QED  BY <1>3, <2>5, <4>1, <4>2
    <3>4. f \in (e + 1)..(Len(body) + 1) /\ IsOpen(body, e + 1, f) /\ (f # Len(body) + 1 => Depth(body, f) = Depth(body, e + 1))
      <4>1. e + 1 \in 1..(Len(body) + 1)
        BY <1>1, <2>5
      <4> QED  BY <1>1, <3>1, <4>1, ListEndIs
    <3>5. f \in 1..Len(body) /\ body[f].op = "end"
      <4>1. body[e].op \in Openers \cup {"else"} /\ body[e].op # "ifelse" /\ e \in DOMAIN body
        BY <1>1, <2>5, <3>2
      <4> QED  BY <1>1, <3>1, <4>1 DEF Balanced
    <3>6. f \in (e + 1)..Len(body) /\ f \in (p + 1)..Len(body) /\ Depth(body, f) = Depth(body, p) + 1
      BY <1>1, <2>5, <3>3, <3>4, <3>5
    <3>7. \A j \in (e + 1)..f : Depth(body, j) >= Depth(body, p) + 1
      <4>1. e + 1 \in Nat \ {0} /\ f \in Nat /\ e + 1 <= f
        BY <1>1, <2>5, <3>6
      <4> QED  BY <3>3, <3>4, <4>1, StaysInside
    <3>8. \A j \in (p + 1)..f : Depth(body, j) >= Depth(body, p) + 1
      <4>1. \A j \in (p + 1)..f : j \in (p + 1)..e \/ j \in (e + 1)..f
        BY <1>1, <2>5, <3>6
      <4> QED  BY <2>6, <3>7, <4>1
    <3>9. /\ Depth(body, f + 1) = Depth(body, p) /\ ListEnd(body, f + 1) = ListEnd(body, p)
          /\ OpenerOf(body, f) = p
      BY <1>6, <3>5, <3>6, <3>8, Enclosed
    <3>10. f + 1 \in (p + 1)..(Len(body) + 1)
      BY <1>1, <3>6
    <3> QED  BY <1>6, <2>1, <2>5, <2>8, <3>1, <3>2, <3>5, <3>6, <3>9, <3>10
  <2> QED  BY <2>7, <2>8
<1> QED  BY <1>5, <1>6

(* Between a position and a deeper one the list of the deeper is opened.   *)
LEMMA ListIsOpened ==
  ASSUME NEW body, NEW a \in Nat \ {0}, NEW b \in Nat, a <= b, NEW d \in Int,
         Depth(body, a) < d, Depth(body, b) >= d
  PROVE  \E i \in a..(b - 1) : /\ body[i].op \in Openers /\ Depth(body, i) = d - 1
                               /\ \A j \in (i + 1)..b : Depth(body, j) >= d
<1>1. \A i \in Nat \ {0} : Depth(body, i) \in Int
  BY DepthIsBounded
<1>2. PICK S : S = {i \in a..b : Depth(body, i) < d}
  OBVIOUS
<1>3. PICK i : i = Max(S)
  OBVIOUS
<1>4. i \in S /\ \A y \in S : y <= i
  <2>1. S \in SUBSET Int /\ S # {} /\ \A y \in S : y <= b
    BY <1>2
  <2> QED  BY <1>3, <2>1, MaxOfBounded
<1>5. i \in a..(b - 1) /\ Depth(body, i) < d
  <2>1. i \in a..b /\ Depth(body, i) < d
    BY <1>2, <1>4
  <2>2. Depth(body, b) \in Int
    BY <1>1
  <2>3. i # b
    BY <2>1, <2>2
  <2> QED  BY <2>1, <2>3
<1>6. ASSUME NEW j \in (i + 1)..b  PROVE Depth(body, j) >= d
  <2>1. j \in a..b /\ ~(j <= i) /\ j \in Nat \ {0}
    BY <1>5
  <2>2. j \notin S
    BY <1>4, <2>1
  <2>3. Depth(body, j) \in Int
    BY <1>1, <2>1
  <2> QED  BY <1>2, <2>1, <2>2, <2>3
<1>7. body[i].op \in Openers /\ Depth(body, i) = d - 1
  <2>1. i \in Nat \ {0} /\ i + 1 \in (i + 1)..b
    BY <1>5
  <2>2. Depth(body, i + 1) = Depth(body, i) + (IF body[i].op \in Openers THEN 1 ELSE IF body[i].op = "end" THEN -1 ELSE 0)
    BY <2>1, DepthSteps
  <2>3. Depth(body, i + 1) >= d /\ Depth(body, i) \in Int
    BY <1>1, <1>6, <2>1
  <2> QED  BY <1>5, <2>2, <2>3
<1> QED  BY <1>5, <1>6, <1>7

(* An end mark belongs to a statement whose last list it closes. *)
LEMMA EndIsMatched ==
  ASSUME NEW body, Stream(body), Balanced(body), NEW q \in 1..Len(body), body[q].op = "end"
  PROVE  LET o == OpenerOf(body, q)
         IN /\ o \in 1..(q - 1) /\ body[o].op \in Openers
            /\ body[o].op # "ifelse" => ListEnd(body, o + 1) = q
<1>1. Len(body) \in Nat /\ DOMAIN body = 1..Len(body)
  BY DEF Stream
<1>2. \A i \in Nat \ {0} : Depth(body, i) \in Int
  BY DepthIsBounded
<1>3. Depth(body, 1) = 0
  <2>1. \A ops : {i \in 1..(1 - 1) : body[i].op \in ops} = {} /\ {i \in 1..(1 - 1) : body[i].op = ops} = {}
    OBVIOUS
  <2> QED  BY <2>1, FS_EmptySet DEF Depth
<1>4. IsOpen(body, 1, Len(body) + 1)
  <2>1. ListEnd(body, 1) = Len(body) + 1
    BY DEF Balanced
  <2>2. 1 \in 1..(Len(body) + 1)
    BY <1>1
  <2> QED  BY <1>1, <2>1, <2>2, ListEndIs
<1>5. PICK d \in Int : d = Depth(body, q)
  BY <1>1, <1>2
<1>6. d > 0
  <2>1. \A j \in 1..(Len(body) + 1) : Depth(body, j) >= Depth(body, 1)
    BY <1>1, <1>4, StaysInside
  <2>2. d >= 0
    BY <1>1, <1>3, <1>5, <2>1
  <2>3. d # 0
    BY <1>1, <1>3, <1>4, <1>5 DEF IsOpen, Marks
  <2> QED  BY <2>2, <2>3
<1>7. PICK i \in 1..(q - 1) : /\ body[i].op \in Openers /\ Depth(body, i) = d - 1
                              /\ \A j \in (i + 1)..q : Depth(body, j) >= d
  <2>1. 1 \in Nat \ {0} /\ q \in Nat /\ 1 <= q /\ Depth(body, 1) < d /\ Depth(body, q) >= d
    BY <1>1, <1>3, <1>5, <1>6
  <2> QED  BY <2>1, ListIsOpened
<1>8. OpenerOf(body, q) = i
  <2>1. PICK S : S = { k \in 1..(q - 1) : body[k].op \in Openers /\ Depth(body, k) = Depth(body, q) - 1 }
    OBVIOUS
  <2>2. S \in SUBSET Nat /\ i \in S
    BY <1>5, <1>7, <2>1
  <2>3. ASSUME NEW y \in S  PROVE y <= i
    <3>1. y \in 1..(q - 1) /\ Depth(body, y) = d - 1
      BY <1>5, <2>1
    <3>2. y \notin (i + 1)..q
      BY <1>7, <3>1
    <3> QED  BY <1>1, <1>7, <3>1, <3>2
  <2>4. Max(S) = i
    BY <2>2, <2>3, MaxIs
  <2> QED  BY <2>1, <2>4 DEF OpenerOf
<1>9. ASSUME body[i].op # "ifelse"  PROVE ListEnd(body, i + 1) = q
  <2>1. i \in 1..Len(body) /\ body[i].op \notin Marks
    BY <1>1, <1>7 DEF Openers, Marks
  <2>2. PICK e : e = ListEnd(body, i + 1)
    OBVIOUS
  <2>3. e \in (i + 1)..Len(body) /\ Depth(body, Behind(body, i)) = Depth(body, i) /\ Behind(body, i) = e + 1
    BY <1>7, <1>9, <2>1, <2>2, StatementFacts
  <2>4. IsOpen(body, i + 1, e)
    <3>1. i + 1 \in 1..(Len(body) + 1)
      BY <1>1, <2>1
    <3> QED  BY <1>1, <2>2, <3>1, ListEndIs
  <2>5. Depth(body, i + 1) = d
    <3>1. Depth(body, i + 1) = Depth(body, i) + (IF body[i].op \in Openers THEN 1 ELSE IF body[i].op = "end" THEN -1 ELSE 0)
      <4>1. i \in Nat \ {0}
        BY <1>7
      <4> QED  BY <4>1, DepthSteps
    <3> QED  BY <1>7, <3>1
  <2>6. ~(q < e)
    <3>1. q \in (i + 1)..(e - 1) => FALSE
      BY <1>5, <2>4, <2>5 DEF IsOpen, Marks
    <3> QED  BY <1>1, <1>7, <2>3, <3>1
  <2>7. ~(e < q)
    <3>1. ASSUME e < q  PROVE FALSE
      <4>1. e + 1 \in (i + 1)..q
        BY <1>1, <2>3, <3>1
      <4>2. Depth(body, e + 1) = d - 1
        BY <1>7, <2>3
      <4> QED  BY <1>7, <4>1, <4>2
    <3> QED  BY <3>1
  <2> QED  BY <1>1, <2>2, <2>3, <2>6, <2>7
<1> QED  BY <1>7, <1>8, <1>9

----------------------------------------------------------------------------
(* A function on 1..n whose values G computes from those behind them.      *)
LooksAhead(n, V, G) ==
  \A q \in 1..n : \A f \in [1..n -> V], g \in [1..n -> V] :
    /\ G[q][f] \in V
    /\ (\A r \in (q + 1)..n : f[r] = g[r]) => G[q][f] = G[q][g]

(* f is what such a recursion defines. *)
Solves(n, G, f) == \A q \in 1..n : f[q] = G[q][f]

(* A recursion that only looks ahead has a solution: of the positions from *)
(* which there is one, the first is 1.                                     *)
LEMMA DownwardRecursion ==
  ASSUME NEW n \in Nat \ {0}, NEW V, V # {}, NEW G, LooksAhead(n, V, G)
  PROVE  \E f \in [1..n -> V] : Solves(n, G, f)
<1>0. \A q \in 1..n : \A f \in [1..n -> V], g \in [1..n -> V] :
        /\ G[q][f] \in V
        /\ (\A r \in (q + 1)..n : f[r] = g[r]) => G[q][f] = G[q][g]
  BY DEF LooksAhead
<1> DEFINE Good(k) == \E f \in [1..n -> V] : \A q \in (k + 1)..n : f[q] = G[q][f]
           S == {k \in 0..n : ~Good(k)}
<1>1. S = {}
  <2> SUFFICES ASSUME S # {}  PROVE FALSE
    OBVIOUS
  <2>1. PICK k : k = Max(S)
    OBVIOUS
  <2>2. k \in S /\ \A y \in S : y <= k
    <3>1. S \in SUBSET Int /\ \A y \in S : y <= n
      OBVIOUS
    <3> HIDE DEF S
    <3> QED  BY <2>1, <3>1, MaxOfBounded
  <2>3. k \in 0..n /\ ~Good(k)
    BY <2>2
  <2>4. Good(n)
    <3> PICK v \in V : TRUE
      OBVIOUS
    <3>1. [q \in 1..n |-> v] \in [1..n -> V]
      OBVIOUS
    <3>2. (n + 1)..n = {}
      OBVIOUS
    <3> QED  BY <3>1, <3>2
  <2>5. k # n
    BY <2>3, <2>4
  <2>6. PICK m \in 1..n : m = k + 1
    BY <2>3, <2>5
  <2>7. Good(m)
    <3>1. m \in 0..n /\ ~(m <= k)
      BY <2>3, <2>6
    <3> QED  BY <2>2, <3>1
  <2>8. PICK f \in [1..n -> V] : \A q \in (m + 1)..n : f[q] = G[q][f]
    BY <2>7
  <2>9. PICK x \in V : x = G[m][f]
    BY <1>0
  <2>10. PICK g \in [1..n -> V] : g[m] = x /\ \A q \in 1..n : q # m => g[q] = f[q]
    <3>1. [q \in 1..n |-> IF q = m THEN x ELSE f[q]] \in [1..n -> V]
      OBVIOUS
    <3> QED  BY <3>1
  <2>11. ASSUME NEW q \in (k + 1)..n  PROVE g[q] = G[q][g]
    <3>1. q \in 1..n /\ q >= m
      BY <2>3, <2>6
    <3>2. \A r \in (q + 1)..n : f[r] = g[r]
      BY <2>10, <3>1
    <3>3. G[q][f] = G[q][g]
      BY <1>0, <3>1, <3>2
    <3>4. CASE q = m
      BY <2>9, <2>10, <3>3, <3>4
    <3>5. CASE q # m
      <4>1. q \in (m + 1)..n
        BY <3>1, <3>5
      <4> QED  BY <2>8, <2>10, <3>1, <3>3, <3>5, <4>1
    <3> QED  BY <3>4, <3>5
  <2> QED  BY <2>3, <2>11
<1>2. Good(0)
  <2>1. 0 \in 0..n
    OBVIOUS
  <2> HIDE DEF Good
  <2> QED  BY <1>1, <2>1
<1>3. PICK f \in [1..n -> V] : \A q \in (0 + 1)..n : f[q] = G[q][f]
  BY <1>2
<1>4. \A q \in 1..n : f[q] = G[q][f]
  BY <1>3
<1> QED  BY <1>4 DEF Solves

(* What Arrive computes. *)
Arrives(body, f) ==
  f = [q \in 1..(Len(body) + 1) |->
         IF q = Len(body) + 1 THEN q
         ELSE IF body[q].op \in {"arg", "block"} THEN f[q + 1]
         ELSE IF body[q].op = "else" THEN f[ElseEnd(body, q) + 1]
         ELSE IF body[q].op # "end" THEN q
         ELSE IF body[OpenerOf(body, q)].op = "while" THEN OpenerOf(body, q)
         ELSE f[q + 1]]

(* The mark of a list is behind what opens it. *)
LEMMA ElseIsAhead ==
  ASSUME NEW body, Stream(body), Balanced(body), NEW q \in 1..Len(body), body[q].op \in Openers \cup {"else"}
  PROVE  ListEnd(body, q + 1) \in (q + 1)..Len(body)
<1>1. Len(body) \in Nat /\ DOMAIN body = 1..Len(body)
  BY DEF Stream
<1>2. ListEnd(body, q + 1) \in 1..Len(body)
  BY <1>1 DEF Balanced
<1>3. ListEnd(body, q + 1) \in (q + 1)..(Len(body) + 1)
  <2>1. q + 1 \in 1..(Len(body) + 1)
    BY <1>1
  <2> QED  BY <1>1, <2>1, ListEndIs
<1> QED  BY <1>1, <1>2, <1>3

(* There is such a function, as Balanced keeps every jump ahead; so the    *)
(* recursive definition of Arrive is what its equations say.               *)
LEMMA ArriveExists ==
  ASSUME NEW body, Stream(body), Balanced(body)
  PROVE  \E f \in [1..(Len(body) + 1) -> 1..(Len(body) + 1)] : Arrives(body, f)
<1>1. Len(body) \in Nat
  BY DEF Stream
<1>2. PICK n \in Nat \ {0} : n = Len(body) + 1
  BY <1>1
<1>3. PICK V : V = 1..n
  OBVIOUS
<1>4. PICK E : E = [q \in 1..n |-> IF q # n /\ body[q].op = "else" THEN ElseEnd(body, q) + 1 ELSE q + 1]
  OBVIOUS
<1>5. PICK O : O = [q \in 1..n |-> IF q # n /\ body[q].op = "end" THEN OpenerOf(body, q) ELSE q]
  OBVIOUS
<1>6. ASSUME NEW q \in 1..n, q # n  PROVE E[q] \in (q + 1)..n /\ O[q] \in 1..n
  <2>1. q \in 1..Len(body)
    BY <1>2, <1>6
  <2>2. body[q].op = "else" => ElseEnd(body, q) + 1 \in (q + 1)..n
    <3>1. ASSUME body[q].op = "else"  PROVE ListEnd(body, q + 1) \in (q + 1)..Len(body)
      BY <2>1, <3>1, ElseIsAhead
    <3> QED  BY <1>1, <1>2, <3>1 DEF ElseEnd
  <2>3. body[q].op = "end" => OpenerOf(body, q) \in 1..(q - 1)
    BY <2>1, EndIsMatched
  <2> QED  BY <1>2, <1>4, <1>5, <1>6, <2>2, <2>3
<1>7. PICK G : G = [q \in 1..n |-> [f \in [1..n -> V] |->
                      IF q = n THEN q
                      ELSE IF body[q].op \in {"arg", "block"} THEN f[q + 1]
                      ELSE IF body[q].op = "else" THEN f[E[q]]
                      ELSE IF body[q].op # "end" THEN q
                      ELSE IF body[O[q]].op = "while" THEN O[q]
                      ELSE f[q + 1]]]
  OBVIOUS
<1>8. LooksAhead(n, V, G)
  <2>1. ASSUME NEW q \in 1..n, NEW f \in [1..n -> V]  PROVE G[q][f] \in V
    <3>1. CASE q = n
      BY <1>3, <1>7, <3>1
    <3>2. CASE q # n
      <4>1. q + 1 \in 1..n
        BY <3>2
      <4>2. E[q] \in (q + 1)..n /\ O[q] \in 1..n
        BY <1>6, <3>2
      <4>3. E[q] \in 1..n
        BY <4>2
      <4> QED  BY <1>3, <1>7, <4>1, <4>2, <4>3
    <3> QED  BY <3>1, <3>2
  <2>2. ASSUME NEW q \in 1..n, NEW f \in [1..n -> V], NEW g \in [1..n -> V], \A r \in (q + 1)..n : f[r] = g[r]
        PROVE  G[q][f] = G[q][g]
    <3>1. q # n => f[q + 1] = g[q + 1] /\ f[E[q]] = g[E[q]]
      <4>1. q # n => q + 1 \in (q + 1)..n
        OBVIOUS
      <4> QED  BY <1>6, <2>2, <4>1
    <3> QED  BY <1>7, <3>1
  <2> QED  BY <2>1, <2>2 DEF LooksAhead
<1>9. V # {}
  BY <1>3
<1>11. PICK f \in [1..n -> V] : Solves(n, G, f)
  BY <1>8, <1>9, DownwardRecursion
<1>12. ASSUME NEW q \in 1..n
       PROVE  f[q] = IF q = n THEN q
                     ELSE IF body[q].op \in {"arg", "block"} THEN f[q + 1]
                     ELSE IF body[q].op = "else" THEN f[ElseEnd(body, q) + 1]
                     ELSE IF body[q].op # "end" THEN q
                     ELSE IF body[OpenerOf(body, q)].op = "while" THEN OpenerOf(body, q)
                     ELSE f[q + 1]
  <2>1. f[q] = G[q][f]
    BY <1>11 DEF Solves
  <2>2. q # n /\ body[q].op = "else" => E[q] = ElseEnd(body, q) + 1
    BY <1>4
  <2>3. q # n /\ body[q].op = "end" => O[q] = OpenerOf(body, q)
    BY <1>5
  <2> QED  BY <1>7, <2>1, <2>2, <2>3
<1>13. Arrives(body, f)
  BY <1>2, <1>12 DEF Arrives
<1> QED  BY <1>2, <1>3, <1>13

(* Where control arrives, by the statement it comes to.                    *)
LEMMA ArriveIs ==
  ASSUME NEW body, Stream(body), Balanced(body), NEW q \in 1..(Len(body) + 1)
  PROVE  /\ Arrive(body, q) \in 1..(Len(body) + 1)
         /\ Arrive(body, q) = IF q = Len(body) + 1 THEN q
                              ELSE IF body[q].op \in {"arg", "block"} THEN Arrive(body, q + 1)
                              ELSE IF body[q].op = "else" THEN Arrive(body, ElseEnd(body, q) + 1)
                              ELSE IF body[q].op # "end" THEN q
                              ELSE IF body[OpenerOf(body, q)].op = "while" THEN OpenerOf(body, q)
                              ELSE Arrive(body, q + 1)
<1>1. PICK A : A = CHOOSE f : Arrives(body, f)
  OBVIOUS
<1>2. Arrives(body, A)
  BY <1>1, ArriveExists
<1>3. \A p : Arrive(body, p) = A[p]
  BY <1>1 DEF Arrive, Arrives
<1>4. Len(body) \in Nat
  BY DEF Stream
<1>5. A = [p \in 1..(Len(body) + 1) |->
             IF p = Len(body) + 1 THEN p
             ELSE IF body[p].op \in {"arg", "block"} THEN A[p + 1]
             ELSE IF body[p].op = "else" THEN A[ElseEnd(body, p) + 1]
             ELSE IF body[p].op # "end" THEN p
             ELSE IF body[OpenerOf(body, p)].op = "while" THEN OpenerOf(body, p)
             ELSE A[p + 1]]
  BY <1>2 DEF Arrives
<1>6. \A p \in 1..(Len(body) + 1) : A[p] \in 1..(Len(body) + 1)
  <2> DEFINE S == {p \in 1..(Len(body) + 1) : A[p] \notin 1..(Len(body) + 1)}
  <2> SUFFICES ASSUME S # {}  PROVE FALSE
    OBVIOUS
  <2>1. PICK m : m = Max(S)
    OBVIOUS
  <2>2. m \in S /\ \A y \in S : y <= m
    <3>1. S \in SUBSET Int /\ Len(body) + 1 \in Nat /\ \A y \in S : y <= Len(body) + 1
      BY <1>4
    <3> HIDE DEF S
    <3> QED  BY <2>1, <3>1, MaxOfBounded
  <2>3. m \in 1..(Len(body) + 1) /\ A[m] \notin 1..(Len(body) + 1)
    BY <2>2
  <2>4. \A y \in (m + 1)..(Len(body) + 1) : A[y] \in 1..(Len(body) + 1)
    <3>1. \A y \in (m + 1)..(Len(body) + 1) : y \notin S /\ y \in 1..(Len(body) + 1)
      BY <1>4, <2>2, <2>3
    <3> QED  BY <3>1
  <2>5. m # Len(body) + 1
    BY <1>5, <2>3
  <2>6. m \in 1..Len(body) /\ m + 1 \in (m + 1)..(Len(body) + 1)
    BY <1>4, <2>3, <2>5
  <2>7. body[m].op = "else" => ElseEnd(body, m) + 1 \in (m + 1)..(Len(body) + 1)
    <3>1. ASSUME body[m].op = "else"  PROVE ListEnd(body, m + 1) \in (m + 1)..Len(body)
      BY <2>6, <3>1, ElseIsAhead
    <3> QED  BY <1>4, <2>6, <3>1 DEF ElseEnd
  <2>8. body[m].op = "end" => OpenerOf(body, m) \in 1..(m - 1)
    BY <2>6, EndIsMatched
  <2>9. body[m].op = "end" => OpenerOf(body, m) \in 1..(Len(body) + 1)
    BY <1>4, <2>6, <2>8
  <2>10. A[m] = IF body[m].op \in {"arg", "block"} THEN A[m + 1]
                ELSE IF body[m].op = "else" THEN A[ElseEnd(body, m) + 1]
                ELSE IF body[m].op # "end" THEN m
                ELSE IF body[OpenerOf(body, m)].op = "while" THEN OpenerOf(body, m)
                ELSE A[m + 1]
    BY <1>5, <2>3, <2>5
  <2> QED  BY <2>3, <2>4, <2>6, <2>7, <2>9, <2>10
<1> QED  BY <1>3, <1>5, <1>6

----------------------------------------------------------------------------
(* The positions from which the rest of a list returns, if no loop and no  *)
(* if without else counts; R is the set itself.                            *)
StatementReturns(body, R, p) ==
  \/ body[p].op = "return"
  \/ body[p].op = "block" /\ p + 1 \in R
  \/ body[p].op = "ifelse" /\ p + 1 \in R /\ ListEnd(body, p + 1) + 1 \in R

(* The statements from which a list returns: one of those that are left in *)
(* it does.                                                                *)
IsReturning(body, R) ==
  \A p \in 1..Len(body) :
    p \in R <=> body[p].op \notin Marks /\ (StatementReturns(body, R, p) \/ Behind(body, p) \in R)

Returning(body) == CHOOSE R \in SUBSET (1..Len(body)) : IsReturning(body, R)

(* Those from which control cannot come to the end of the body. *)
IsStopping(body, S) ==
  \A p \in 1..Len(body) :
    p \in S <=> \/ body[p].op = "return"
                \/ body[p].op = "else" /\ ElseEnd(body, p) + 1 \in S
                \/ body[p].op \in {"if", "ifelse", "while"} /\ p + 1 \in S /\ ListEnd(body, p + 1) + 1 \in S
                \/ body[p].op \notin {"return", "else", "if", "ifelse", "while"} /\ p + 1 \in S

Stopping(body) == CHOOSE S \in SUBSET (1..Len(body)) : IsStopping(body, S)

(* Both sets exist, by recursion from the end of the body.                 *)
LEMMA ReturningIs ==
  ASSUME NEW body, Stream(body), Balanced(body)
  PROVE  Returning(body) \in SUBSET (1..Len(body)) /\ IsReturning(body, Returning(body))
<1>1. PICK n \in Nat \ {0} : n = Len(body) + 1
  BY DEF Stream
<1>2. PICK V : V = {0, 1}
  OBVIOUS
<1>3. PICK E : E = [q \in 1..n |-> ListEnd(body, q + 1) + 1]
  OBVIOUS
<1>4. PICK B : B = [q \in 1..n |-> Behind(body, q)]
  OBVIOUS
<1>5. PICK G : G = [q \in 1..n |-> [f \in [1..n -> V] |->
                      IF q # n /\ body[q].op \notin Marks
                         /\ (\/ body[q].op = "return"
                             \/ body[q].op = "block" /\ f[q + 1] = 1
                             \/ body[q].op = "ifelse" /\ f[q + 1] = 1 /\ f[E[q]] = 1
                             \/ f[B[q]] = 1) THEN 1 ELSE 0]]
  OBVIOUS
<1>6. ASSUME NEW q \in 1..n, q # n, body[q].op \notin Marks
      PROVE  B[q] \in (q + 1)..n /\ (body[q].op = "ifelse" => E[q] \in (q + 1)..n)
  <2>1. q \in 1..Len(body)
    BY <1>1, <1>6
  <2>2. Behind(body, q) \in (q + 1)..n
    BY <1>1, <1>6, <2>1, StatementFacts
  <2>3. ASSUME body[q].op = "ifelse"  PROVE ListEnd(body, q + 1) \in (q + 1)..Len(body)
    BY <2>1, <2>3, ElseIsAhead DEF Openers
  <2> QED  BY <1>1, <1>3, <1>4, <2>2, <2>3
<1>7. LooksAhead(n, V, G)
  <2>1. ASSUME NEW q \in 1..n, NEW f \in [1..n -> V]  PROVE G[q][f] \in V
    BY <1>2, <1>5
  <2>2. ASSUME NEW q \in 1..n, NEW f \in [1..n -> V], NEW g \in [1..n -> V], \A r \in (q + 1)..n : f[r] = g[r]
        PROVE  G[q][f] = G[q][g]
    <3>1. CASE q # n /\ body[q].op \notin Marks
      <4>1. q + 1 \in (q + 1)..n /\ B[q] \in (q + 1)..n /\ (body[q].op = "ifelse" => E[q] \in (q + 1)..n)
        BY <1>6, <3>1
      <4>2. f[q + 1] = g[q + 1] /\ f[B[q]] = g[B[q]] /\ (body[q].op = "ifelse" => f[E[q]] = g[E[q]])
        BY <2>2, <4>1
      <4> QED  BY <1>5, <4>2
    <3>2. CASE ~(q # n /\ body[q].op \notin Marks)
      BY <1>5, <3>2
    <3> QED  BY <3>1, <3>2
  <2> QED  BY <2>1, <2>2 DEF LooksAhead
<1>8. V # {}
  BY <1>2
<1>9. PICK f \in [1..n -> V] : Solves(n, G, f)
  BY <1>7, <1>8, DownwardRecursion
<1>10. PICK R : R = {q \in 1..Len(body) : f[q] = 1}
  OBVIOUS
<1>11. ASSUME NEW p \in 1..Len(body)
       PROVE  p \in R <=> body[p].op \notin Marks /\ (StatementReturns(body, R, p) \/ Behind(body, p) \in R)
  <2>1. p \in 1..n /\ p # n
    BY <1>1
  <2>2. f[p] = G[p][f]
    BY <1>9, <2>1 DEF Solves
  <2>3. f[n] = 0
    <3>1. f[n] = G[n][f]
      BY <1>9 DEF Solves
    <3> QED  BY <1>5, <3>1
  <2>4. \A q \in 1..n : f[q] = 1 <=> q \in R
    <3>1. \A q \in 1..n : q = n \/ q \in 1..Len(body)
      BY <1>1
    <3> QED  BY <1>1, <1>10, <2>3, <3>1
  <2>5. CASE body[p].op \notin Marks
    <3>1. B[p] \in 1..n /\ B[p] = Behind(body, p) /\ p + 1 \in 1..n /\ (body[p].op = "ifelse" => E[p] \in 1..n)
          /\ E[p] = ListEnd(body, p + 1) + 1
      BY <1>3, <1>4, <1>6, <2>1, <2>5
    <3>2. f[p] = 1 <=> (\/ body[p].op = "return"
                        \/ body[p].op = "block" /\ f[p + 1] = 1
                        \/ body[p].op = "ifelse" /\ f[p + 1] = 1 /\ f[E[p]] = 1
                        \/ f[B[p]] = 1)
      BY <1>5, <2>1, <2>2, <2>5
    <3>3. f[p + 1] = 1 <=> p + 1 \in R
      BY <2>4, <3>1
    <3>4. f[B[p]] = 1 <=> Behind(body, p) \in R
      BY <2>4, <3>1
    <3>5. body[p].op = "ifelse" => (f[E[p]] = 1 <=> ListEnd(body, p + 1) + 1 \in R)
      BY <2>4, <3>1
    <3> QED  BY <2>1, <2>4, <2>5, <3>2, <3>3, <3>4, <3>5 DEF StatementReturns
  <2>6. CASE body[p].op \in Marks
    BY <1>5, <2>1, <2>2, <2>4, <2>6
  <2> QED  BY <2>5, <2>6
<1>12. R \in SUBSET (1..Len(body)) /\ IsReturning(body, R)
  BY <1>10, <1>11 DEF IsReturning
<1> QED  BY <1>12 DEF Returning

LEMMA StoppingIs ==
  ASSUME NEW body, Stream(body), Balanced(body)
  PROVE  Stopping(body) \in SUBSET (1..Len(body)) /\ IsStopping(body, Stopping(body))
<1>1. PICK n \in Nat \ {0} : n = Len(body) + 1
  BY DEF Stream
<1>2. PICK V : V = {0, 1}
  OBVIOUS
<1>3. PICK E : E = [q \in 1..n |-> ListEnd(body, q + 1) + 1]
  OBVIOUS
<1>4. PICK G : G = [q \in 1..n |-> [f \in [1..n -> V] |->
                      IF q # n
                         /\ (\/ body[q].op = "return"
                             \/ body[q].op = "else" /\ f[E[q]] = 1
                             \/ body[q].op \in {"if", "ifelse", "while"} /\ f[q + 1] = 1 /\ f[E[q]] = 1
                             \/ body[q].op \notin {"return", "else", "if", "ifelse", "while"} /\ f[q + 1] = 1)
                      THEN 1 ELSE 0]]
  OBVIOUS
<1>5. ASSUME NEW q \in 1..n, q # n, body[q].op \in {"else", "if", "ifelse", "while"}
      PROVE  E[q] \in (q + 1)..n
  <2>1. q \in 1..Len(body) /\ body[q].op \in Openers \cup {"else"}
    BY <1>1, <1>5 DEF Openers
  <2>2. ListEnd(body, q + 1) \in (q + 1)..Len(body)
    BY <2>1, ElseIsAhead
  <2> QED  BY <1>1, <1>3, <2>2
<1>6. LooksAhead(n, V, G)
  <2>1. ASSUME NEW q \in 1..n, NEW f \in [1..n -> V]  PROVE G[q][f] \in V
    BY <1>2, <1>4
  <2>2. ASSUME NEW q \in 1..n, NEW f \in [1..n -> V], NEW g \in [1..n -> V], \A r \in (q + 1)..n : f[r] = g[r]
        PROVE  G[q][f] = G[q][g]
    <3>1. CASE q # n
      <4>1. q + 1 \in (q + 1)..n
        BY <3>1
      <4>2. f[q + 1] = g[q + 1] /\ (body[q].op \in {"else", "if", "ifelse", "while"} => f[E[q]] = g[E[q]])
        BY <1>5, <2>2, <3>1, <4>1
      <4> QED  BY <1>4, <4>2
    <3>2. CASE q = n
      BY <1>4, <3>2
    <3> QED  BY <3>1, <3>2
  <2> QED  BY <2>1, <2>2 DEF LooksAhead
<1>7. V # {}
  BY <1>2
<1>8. PICK f \in [1..n -> V] : Solves(n, G, f)
  BY <1>6, <1>7, DownwardRecursion
<1>9. PICK S : S = {q \in 1..Len(body) : f[q] = 1}
  OBVIOUS
<1>10. ASSUME NEW p \in 1..Len(body)
       PROVE  p \in S <=> \/ body[p].op = "return"
                          \/ body[p].op = "else" /\ ElseEnd(body, p) + 1 \in S
                          \/ body[p].op \in {"if", "ifelse", "while"} /\ p + 1 \in S /\ ListEnd(body, p + 1) + 1 \in S
                          \/ body[p].op \notin {"return", "else", "if", "ifelse", "while"} /\ p + 1 \in S
  <2>1. p \in 1..n /\ p # n
    BY <1>1
  <2>2. f[p] = G[p][f]
    BY <1>8, <2>1 DEF Solves
  <2>3. f[n] = 0
    <3>1. f[n] = G[n][f]
      BY <1>8 DEF Solves
    <3> QED  BY <1>4, <3>1
  <2>4. \A q \in 1..n : f[q] = 1 <=> q \in S
    <3>1. \A q \in 1..n : q = n \/ q \in 1..Len(body)
      BY <1>1
    <3> QED  BY <1>1, <1>9, <2>3, <3>1
  <2>5. f[p] = 1 <=> (\/ body[p].op = "return"
                      \/ body[p].op = "else" /\ f[E[p]] = 1
                      \/ body[p].op \in {"if", "ifelse", "while"} /\ f[p + 1] = 1 /\ f[E[p]] = 1
                      \/ body[p].op \notin {"return", "else", "if", "ifelse", "while"} /\ f[p + 1] = 1)
    BY <1>4, <2>1, <2>2
  <2>6. f[p + 1] = 1 <=> p + 1 \in S
    <3>1. p + 1 \in 1..n
      BY <2>1
    <3> QED  BY <2>4, <3>1
  <2>7. body[p].op \in {"else", "if", "ifelse", "while"} => (f[E[p]] = 1 <=> ListEnd(body, p + 1) + 1 \in S)
    <3>1. ASSUME body[p].op \in {"else", "if", "ifelse", "while"}  PROVE E[p] \in 1..n /\ E[p] = ListEnd(body, p + 1) + 1
      BY <1>3, <1>5, <2>1, <3>1
    <3> QED  BY <2>4, <3>1
  <2> QED  BY <2>1, <2>4, <2>5, <2>6, <2>7 DEF ElseEnd
<1>11. S \in SUBSET (1..Len(body)) /\ IsStopping(body, S)
  BY <1>9, <1>10 DEF IsStopping
<1> QED  BY <1>11 DEF Stopping

(* A mark ends the list it stands in. *)
LEMMA MarkIsListEnd ==
  ASSUME NEW body, Stream(body), NEW q \in 1..Len(body), body[q].op \in Marks
  PROVE  ListEnd(body, q) = q
<1>1. Len(body) \in Nat
  BY DEF Stream
<1>2. PICK e : e = ListEnd(body, q)
  OBVIOUS
<1>3. e \in q..(Len(body) + 1) /\ IsOpen(body, q, e)
  <2>1. q \in 1..(Len(body) + 1)
    BY <1>1
  <2> QED  BY <1>1, <1>2, <2>1, ListEndIs
<1>4. q < e => FALSE
  <2>1. q < e => q \in q..(e - 1)
    BY <1>1, <1>3
  <2> QED  BY <1>3, <2>1 DEF IsOpen
<1> QED  BY <1>1, <1>2, <1>3, <1>4

(* The function's own list ends with the body. *)
LEMMA EndOfBody ==
  ASSUME NEW body, Stream(body)
  PROVE  ListEnd(body, Len(body) + 1) = Len(body) + 1
<1>1. Len(body) \in Nat /\ Len(body) + 1 \in 1..(Len(body) + 1)
  BY DEF Stream
<1>2. PICK e : e = ListEnd(body, Len(body) + 1)
  OBVIOUS
<1>3. e \in (Len(body) + 1)..(Len(body) + 1)
  BY <1>1, <1>2, ListEndIs
<1> QED  BY <1>1, <1>2, <1>3

(* If control cannot come to the end of the body from where a list ends,   *)
(* it cannot from anywhere in the list.                                    *)
StopsThere(body, S, q) == ListEnd(body, q) \in S => q \in S

(* ... if it is so in the lists behind. *)
LEMMA StopsBefore ==
  ASSUME NEW body, Stream(body), Balanced(body), NEW S \in SUBSET (1..Len(body)), IsStopping(body, S),
         NEW q \in 1..Len(body), body[q].op \notin Marks, Behind(body, q) \in S,
         \A p \in (q + 1)..(Len(body) + 1) : StopsThere(body, S, p)
  PROVE  q \in S
<1>1. Len(body) \in Nat
  BY DEF Stream
<1>2. \A p \in 1..Len(body) :
        p \in S <=> \/ body[p].op = "return"
                    \/ body[p].op = "else" /\ ElseEnd(body, p) + 1 \in S
                    \/ body[p].op \in {"if", "ifelse", "while"} /\ p + 1 \in S /\ ListEnd(body, p + 1) + 1 \in S
                    \/ body[p].op \notin {"return", "else", "if", "ifelse", "while"} /\ p + 1 \in S
  BY DEF IsStopping
<1>3. CASE body[q].op \notin Openers
  <2>1. Behind(body, q) = q + 1
    BY <1>3, StatementFacts
  <2> QED  BY <1>2, <1>3, <2>1 DEF Openers, Marks
<1>4. CASE body[q].op \in Openers
  <2>1. PICK e : e = ListEnd(body, q + 1)
    OBVIOUS
  <2>2. PICK f : f = IF body[q].op = "ifelse" THEN ListEnd(body, e + 1) ELSE e
    OBVIOUS
  <2>3. /\ e \in (q + 1)..Len(body) /\ f \in (q + 1)..Len(body) /\ Behind(body, q) = f + 1
        /\ body[f].op = "end"
        /\ body[q].op = "ifelse" => body[e].op = "else" /\ ElseEnd(body, e) = f /\ f \in (e + 1)..Len(body)
    BY <1>4, <2>1, <2>2, StatementFacts
  <2>4. f \in S
    <3>1. f \in 1..Len(body) /\ f + 1 \in S
      BY <2>3
    <3> QED  BY <1>2, <2>3, <3>1
  <2>5. e \in S
    <3>1. CASE body[q].op = "ifelse"
      <4>1. e \in 1..Len(body) /\ body[e].op = "else" /\ ElseEnd(body, e) + 1 \in S
        BY <2>3, <3>1
      <4> QED  BY <1>2, <4>1
    <3> QED  BY <2>2, <2>4, <3>1
  <2>6. q + 1 \in S
    <3>1. q + 1 \in (q + 1)..(Len(body) + 1)
      BY <1>1
    <3> QED  BY <2>1, <2>5, <3>1 DEF StopsThere
  <2>7. body[q].op = "ifelse" => e + 1 \in S
    <3>1. ASSUME body[q].op = "ifelse"  PROVE e + 1 \in S
      <4>1. e + 1 \in (q + 1)..(Len(body) + 1)
        BY <1>1, <2>3
      <4> QED  BY <2>2, <2>4, <3>1, <4>1 DEF StopsThere
    <3> QED  BY <3>1
  <2>8. body[q].op # "ifelse" => e + 1 \in S
    BY <2>2, <2>3
  <2> QED  BY <1>2, <1>4, <2>1, <2>6, <2>7, <2>8 DEF Openers
<1> QED  BY <1>3, <1>4

(* So it is for every list, from the last one back. *)
LEMMA StoppingLists ==
  ASSUME NEW body, Stream(body), Balanced(body), NEW S \in SUBSET (1..Len(body)), IsStopping(body, S)
  PROVE  \A q \in 1..(Len(body) + 1) : StopsThere(body, S, q)
<1>1. Len(body) \in Nat
  BY DEF Stream
<1> DEFINE C == {q \in 1..(Len(body) + 1) : ~StopsThere(body, S, q)}
<1> SUFFICES ASSUME C # {}  PROVE FALSE
  OBVIOUS
<1>2. PICK q : q = Max(C)
  OBVIOUS
<1>3. q \in C /\ \A y \in C : y <= q
  <2>1. C \in SUBSET Int /\ Len(body) + 1 \in Nat /\ \A y \in C : y <= Len(body) + 1
    BY <1>1
  <2> HIDE DEF C
  <2> QED  BY <1>2, <2>1, MaxOfBounded
<1>4. q \in 1..(Len(body) + 1) /\ ~StopsThere(body, S, q)
  BY <1>3
<1>5. \A p \in (q + 1)..(Len(body) + 1) : StopsThere(body, S, p)
  <2>1. \A p \in (q + 1)..(Len(body) + 1) : p \in 1..(Len(body) + 1) /\ p \notin C
    BY <1>1, <1>3, <1>4
  <2> QED  BY <2>1
<1>6. ListEnd(body, q) \in S /\ q \notin S
  BY <1>4 DEF StopsThere
<1>7. q # Len(body) + 1
  BY <1>1, <1>6, EndOfBody
<1>8. q \in 1..Len(body)
  BY <1>1, <1>4, <1>7
<1>9. body[q].op \notin Marks
  BY <1>6, <1>8, MarkIsListEnd
<1>10. Behind(body, q) \in (q + 1)..(Len(body) + 1) /\ ListEnd(body, Behind(body, q)) = ListEnd(body, q)
  BY <1>8, <1>9, StatementFacts
<1>11. Behind(body, q) \in S
  BY <1>5, <1>6, <1>10 DEF StopsThere
<1> QED  BY <1>5, <1>6, <1>8, <1>9, <1>11, StopsBefore

(* A list that returns keeps control from the end of the body. *)
LEMMA ReturningStops ==
  ASSUME NEW body, Stream(body), Balanced(body), NEW S \in SUBSET (1..Len(body)), IsStopping(body, S),
         NEW R \in SUBSET (1..Len(body)), IsReturning(body, R)
  PROVE  R \subseteq S
<1>1. Len(body) \in Nat
  BY DEF Stream
<1> DEFINE C == {q \in R : q \notin S}
<1> SUFFICES ASSUME C # {}  PROVE FALSE
  OBVIOUS
<1>2. PICK q : q = Max(C)
  OBVIOUS
<1>3. q \in C /\ \A y \in C : y <= q
  <2>1. C \in SUBSET Int /\ \A y \in C : y <= Len(body)
    <3>1. \A y \in C : y \in 1..Len(body)
      OBVIOUS
    <3>2. \A y \in C : y \in Int /\ y <= Len(body)
      BY <1>1, <3>1
    <3> HIDE DEF C
    <3> QED  BY <3>2
  <2> HIDE DEF C
  <2> QED  BY <1>1, <1>2, <2>1, MaxOfBounded
<1>4. q \in 1..Len(body) /\ q \in R /\ q \notin S
  BY <1>3
<1>5. \A p : p \in R /\ p \in (q + 1)..(Len(body) + 1) => p \in S
  <2>1. ASSUME NEW p, p \in R, p \in (q + 1)..(Len(body) + 1), p \notin S  PROVE FALSE
    <3>1. p \in C
      BY <2>1
    <3> QED  BY <1>1, <1>3, <1>4, <2>1, <3>1
  <2> QED  BY <2>1
<1>6. body[q].op \notin Marks /\ (StatementReturns(body, R, q) \/ Behind(body, q) \in R)
  BY <1>4 DEF IsReturning
<1>7. Behind(body, q) \in (q + 1)..(Len(body) + 1)
  BY <1>4, <1>6, StatementFacts
<1>8. Behind(body, q) \notin R
  <2>1. ASSUME Behind(body, q) \in R  PROVE q \in S
    <3>1. Behind(body, q) \in S
      BY <1>5, <1>7, <2>1
    <3>2. \A p \in (q + 1)..(Len(body) + 1) : StopsThere(body, S, p)
      <4>1. \A p \in (q + 1)..(Len(body) + 1) : p \in 1..(Len(body) + 1)
        BY <1>1, <1>4
      <4> QED  BY <4>1, StoppingLists
    <3> QED  BY <1>4, <1>6, <3>1, <3>2, StopsBefore
  <2> QED  BY <1>4, <2>1
<1>9. q + 1 \in (q + 1)..(Len(body) + 1)
  BY <1>1, <1>4
<1>10. body[q].op = "ifelse" => ListEnd(body, q + 1) + 1 \in (q + 1)..(Len(body) + 1)
  <2>1. ASSUME body[q].op = "ifelse"  PROVE ListEnd(body, q + 1) \in (q + 1)..Len(body)
    <3>1. body[q].op \in Openers \cup {"else"}
      BY <2>1 DEF Openers
    <3> QED  BY <1>4, <3>1, ElseIsAhead
  <2> QED  BY <1>1, <1>4, <2>1
<1>11. \/ body[q].op = "return"
       \/ body[q].op = "block" /\ q + 1 \in S
       \/ body[q].op = "ifelse" /\ q + 1 \in S /\ ListEnd(body, q + 1) + 1 \in S
  BY <1>5, <1>6, <1>8, <1>9, <1>10 DEF StatementReturns
<1> QED  BY <1>4, <1>11 DEF IsStopping

(* What has no effect of its own.  Control arrives at a statement that has *)
(* one, and it cannot come to the end of the body from there either.       *)
Silent == {"arg", "block", "else", "end"}

LEMMA ArrivesAtStatement ==
  ASSUME NEW body, Stream(body), Balanced(body), NEW S \in SUBSET (1..Len(body)), IsStopping(body, S)
  PROVE  \A q \in 1..(Len(body) + 1) :
           /\ Arrive(body, q) \in 1..Len(body) => body[Arrive(body, q)].op \notin Silent
           /\ q \in S => Arrive(body, q) \in S
<1>1. Len(body) \in Nat
  BY DEF Stream
<1> DEFINE Holds(q) == /\ Arrive(body, q) \in 1..Len(body) => body[Arrive(body, q)].op \notin Silent
                       /\ q \in S => Arrive(body, q) \in S
           C == {q \in 1..(Len(body) + 1) : ~Holds(q)}
<1> SUFFICES ASSUME C # {}  PROVE FALSE
  OBVIOUS
<1>2. PICK q : q = Max(C)
  OBVIOUS
<1>3. q \in C /\ \A y \in C : y <= q
  <2>1. C \in SUBSET Int /\ Len(body) + 1 \in Nat /\ \A y \in C : y <= Len(body) + 1
    BY <1>1
  <2> HIDE DEF C
  <2> QED  BY <1>2, <2>1, MaxOfBounded
<1>4. q \in 1..(Len(body) + 1) /\ ~Holds(q)
  BY <1>3
<1>5. \A p \in (q + 1)..(Len(body) + 1) : Holds(p)
  <2>1. \A p \in (q + 1)..(Len(body) + 1) : p \in 1..(Len(body) + 1) /\ p \notin C
    BY <1>1, <1>3, <1>4
  <2> QED  BY <2>1
<1>6. q # Len(body) + 1
  <2>1. ASSUME q = Len(body) + 1  PROVE Holds(q)
    <3>1. Arrive(body, q) = q
      BY <1>4, <2>1, ArriveIs
    <3> QED  BY <1>1, <2>1, <3>1
  <2> QED  BY <1>4, <2>1
<1>7. q \in 1..Len(body) /\ q + 1 \in (q + 1)..(Len(body) + 1)
  BY <1>1, <1>4, <1>6
<1>8. PICK a : a = Arrive(body, q)
  OBVIOUS
<1>9. a = IF body[q].op \in {"arg", "block"} THEN Arrive(body, q + 1)
          ELSE IF body[q].op = "else" THEN Arrive(body, ElseEnd(body, q) + 1)
          ELSE IF body[q].op # "end" THEN q
          ELSE IF body[OpenerOf(body, q)].op = "while" THEN OpenerOf(body, q)
          ELSE Arrive(body, q + 1)
  BY <1>4, <1>6, <1>8, ArriveIs
<1>10. q \in S <=> \/ body[q].op = "return"
                   \/ body[q].op = "else" /\ ElseEnd(body, q) + 1 \in S
                   \/ body[q].op \in {"if", "ifelse", "while"} /\ q + 1 \in S /\ ListEnd(body, q + 1) + 1 \in S
                   \/ body[q].op \notin {"return", "else", "if", "ifelse", "while"} /\ q + 1 \in S
  BY <1>7 DEF IsStopping
<1>11. Holds(q + 1)
  BY <1>5, <1>7
<1>12. ASSUME a = Arrive(body, q + 1), body[q].op \in {"arg", "block", "end"}  PROVE FALSE
  BY <1>4, <1>8, <1>10, <1>11, <1>12
<1>13. CASE body[q].op = "else"
  <2>1. ListEnd(body, q + 1) \in (q + 1)..Len(body)
    BY <1>7, <1>13, ElseIsAhead
  <2>2. ElseEnd(body, q) + 1 \in (q + 1)..(Len(body) + 1)
    BY <1>1, <1>7, <2>1 DEF ElseEnd
  <2>3. Holds(ElseEnd(body, q) + 1)
    BY <1>5, <2>2
  <2>4. a = Arrive(body, ElseEnd(body, q) + 1)
    BY <1>9, <1>13
  <2> QED  BY <1>4, <1>8, <1>10, <1>13, <2>3, <2>4
<1>14. CASE body[q].op \notin Silent
  BY <1>4, <1>8, <1>9, <1>14 DEF Silent
<1>15. CASE body[q].op = "end"
  <2>1. PICK o : o = OpenerOf(body, q)
    OBVIOUS
  <2>2. body[o].op = "while" /\ a = o
    BY <1>9, <1>12, <1>15, <2>1
  <2>3. o \in 1..(q - 1) /\ ListEnd(body, o + 1) = q
    BY <1>7, <1>15, <2>1, <2>2, EndIsMatched
  <2>4. q \in S => o \in S
    <3>1. ASSUME q \in S  PROVE o + 1 \in S /\ q + 1 \in S
      <4>1. o + 1 \in 1..(Len(body) + 1)
        BY <1>1, <1>7, <2>3
      <4>2. q + 1 \in S
        BY <1>10, <1>15, <3>1
      <4> QED  BY <2>3, <3>1, <4>1, <4>2, StoppingLists DEF StopsThere
    <3>2. o \in 1..Len(body)
      BY <1>1, <1>7, <2>3
    <3> QED  BY <2>2, <2>3, <3>1, <3>2 DEF IsStopping
  <2> QED  BY <1>4, <1>8, <2>2, <2>4 DEF Silent
<1> QED  BY <1>9, <1>12, <1>13, <1>14, <1>15 DEF Silent

----------------------------------------------------------------------------
(* What Reachable computes. *)
Successors(body, p) ==
  IF p > Len(body) \/ body[p].op = "return" THEN {}
  ELSE {Arrive(body, p + 1)}
       \cup (IF body[p].op \in {"if", "ifelse", "while"} THEN {ArriveElse(body, p)} ELSE {})

(* The function that Reachable defines.                                    *)
Reaches(body, f) ==
  f = [k \in 0..(Len(body) + 1) |->
         IF k = 0 THEN {Arrive(body, 1)}
         ELSE LET before == f[k - 1] IN before \cup UNION {Successors(body, p) : p \in before}]

(* A function on 0..n whose values G computes from the one before. *)
Iterates(n, a, G, f) == f[0] = a /\ \A k \in 1..n : f[k] = G[f[k - 1]]

(* There is one, for every G. *)
LEMMA UpwardRecursion ==
  ASSUME NEW n \in Nat, NEW V, NEW a \in V, NEW G \in [V -> V]
  PROVE  \E f \in [0..n -> V] : Iterates(n, a, G, f)
<1> DEFINE Good(m) == \E f \in [0..n -> V] : f[0] = a /\ \A k \in 1..m : f[k] = G[f[k - 1]]
           C == {m \in 0..n : ~Good(m)}
<1>1. C = {}
  <2> SUFFICES ASSUME C # {}  PROVE FALSE
    OBVIOUS
  <2>1. PICK m : m = Min(C)
    OBVIOUS
  <2>2. m \in C /\ \A y \in C : m <= y
    <3>1. C \in SUBSET Nat
      OBVIOUS
    <3> HIDE DEF C
    <3> QED  BY <2>1, <3>1, MinOfNaturals
  <2>3. m \in 0..n /\ ~Good(m)
    BY <2>2
  <2>4. Good(0)
    <3>1. PICK f : f = [q \in 0..n |-> a]
      OBVIOUS
    <3>2. f \in [0..n -> V] /\ f[0] = a /\ \A k \in 1..0 : f[k] = G[f[k - 1]]
      BY <3>1
    <3> QED  BY <3>2
  <2>5. m # 0
    BY <2>3, <2>4
  <2>6. PICK l \in 0..(n - 1) : m = l + 1
    <3>1. m - 1 \in 0..(n - 1) /\ m = (m - 1) + 1
      BY <2>3, <2>5
    <3> QED  BY <3>1
  <2>7. Good(l)
    <3>1. l \in 0..n /\ ~(m <= l)
      BY <2>3, <2>6
    <3> QED  BY <2>2, <3>1
  <2>8. PICK f \in [0..n -> V] : f[0] = a /\ \A k \in 1..l : f[k] = G[f[k - 1]]
    BY <2>7
  <2>9. PICK g \in [0..n -> V] : g[m] = G[f[l]] /\ \A q \in 0..n : q # m => g[q] = f[q]
    <3>1. [q \in 0..n |-> IF q = m THEN G[f[l]] ELSE f[q]] \in [0..n -> V]
      BY <2>3, <2>6
    <3> QED  BY <2>3, <3>1
  <2>10. ASSUME NEW k \in 1..m  PROVE g[k] = G[g[k - 1]]
    <3>1. k \in 0..n /\ k - 1 \in 0..n /\ k - 1 # m
      BY <2>3
    <3>2. g[k - 1] = f[k - 1]
      BY <2>9, <3>1
    <3>3. CASE k = m
      BY <2>6, <2>9, <3>2, <3>3
    <3>4. CASE k # m
      <4>1. k \in 1..l
        BY <2>3, <2>6, <3>4
      <4> QED  BY <2>8, <2>9, <3>1, <3>2, <3>4, <4>1
    <3> QED  BY <3>3, <3>4
  <2>11. g[0] = a
    BY <2>5, <2>8, <2>9
  <2> QED  BY <2>3, <2>10, <2>11
<1>2. Good(n)
  <2>1. n \in 0..n
    OBVIOUS
  <2> HIDE DEF Good
  <2> QED  BY <1>1, <2>1
<1> QED  BY <1>2 DEF Iterates

(* Control does not leave the body. *)
LEMMA SuccessorsAreInside ==
  ASSUME NEW body, Stream(body), Balanced(body), NEW p \in 1..(Len(body) + 1)
  PROVE  Successors(body, p) \in SUBSET (1..(Len(body) + 1))
<1>1. Len(body) \in Nat
  BY DEF Stream
<1>2. CASE p > Len(body)
  BY <1>2 DEF Successors
<1>3. CASE p \in 1..Len(body)
  <2>1. Arrive(body, p + 1) \in 1..(Len(body) + 1)
    <3>1. p + 1 \in 1..(Len(body) + 1)
      BY <1>1, <1>3
    <3> QED  BY <3>1, ArriveIs
  <2>2. body[p].op \in {"if", "ifelse", "while"} => ArriveElse(body, p) \in 1..(Len(body) + 1)
    <3>1. ASSUME body[p].op \in {"if", "ifelse", "while"}  PROVE ListEnd(body, p + 1) \in (p + 1)..Len(body)
      <4>1. body[p].op \in Openers \cup {"else"}
        BY <3>1 DEF Openers
      <4> QED  BY <1>3, <4>1, ElseIsAhead
    <3>2. ASSUME body[p].op \in {"if", "ifelse", "while"}  PROVE ListEnd(body, p + 1) + 1 \in 1..(Len(body) + 1)
      BY <1>1, <1>3, <3>1, <3>2
    <3> QED  BY <3>2, ArriveIs DEF ArriveElse
  <2> QED  BY <2>1, <2>2 DEF Successors
<1> QED  BY <1>1, <1>2, <1>3

(* So Reachable is what its equations say. *)
LEMMA ReachesExists ==
  ASSUME NEW body, Stream(body), Balanced(body)
  PROVE  \E f \in [0..(Len(body) + 1) -> SUBSET (1..(Len(body) + 1))] : Reaches(body, f)
<1>1. PICK n \in Nat \ {0} : n = Len(body) + 1
  BY DEF Stream
<1>2. PICK V : V = SUBSET (1..n)
  OBVIOUS
<1>3. PICK G : G = [X \in V |-> X \cup UNION {Successors(body, p) : p \in X}]
  OBVIOUS
<1>4. G \in [V -> V]
  <2>1. ASSUME NEW X \in V  PROVE X \cup UNION {Successors(body, p) : p \in X} \in V
    <3>1. \A p \in X : Successors(body, p) \in SUBSET (1..n)
      BY <1>1, <1>2, SuccessorsAreInside
    <3> QED  BY <1>2, <3>1
  <2> QED  BY <1>3, <2>1
<1>5. PICK a \in V : a = {Arrive(body, 1)}
  <2>1. 1 \in 1..(Len(body) + 1)
    BY <1>1
  <2>2. Arrive(body, 1) \in 1..n
    BY <1>1, <2>1, ArriveIs
  <2> QED  BY <1>2, <2>2
<1>6. PICK f \in [0..n -> V] : Iterates(n, a, G, f)
  BY <1>4, <1>5, UpwardRecursion
<1>7. ASSUME NEW k \in 0..n
      PROVE  f[k] = IF k = 0 THEN {Arrive(body, 1)}
                    ELSE LET before == f[k - 1] IN before \cup UNION {Successors(body, p) : p \in before}
  <2>1. CASE k = 0
    BY <1>5, <1>6, <2>1 DEF Iterates
  <2>2. CASE k # 0
    <3>1. k \in 1..n /\ k - 1 \in 0..n
      BY <2>2
    <3>2. f[k] = G[f[k - 1]] /\ f[k - 1] \in V
      BY <1>6, <3>1 DEF Iterates
    <3> QED  BY <1>3, <2>2, <3>2
  <2> QED  BY <2>1, <2>2
<1> QED  BY <1>1, <1>2, <1>7 DEF Reaches

(* The rounds that compute it, the last of which is the n-th. *)
Rounds(body, n, f) ==
  /\ Reachable(body) = f[n]
  /\ f[0] = {Arrive(body, 1)}
  /\ \A k \in 1..n : f[k] = f[k - 1] \cup UNION {Successors(body, p) : p \in f[k - 1]}

(* ... for which it is the last of these rounds. *)
LEMMA ReachableSteps ==
  ASSUME NEW body, Stream(body), Balanced(body), NEW n \in Nat \ {0}, n = Len(body) + 1
  PROVE  \E f \in [0..n -> SUBSET (1..n)] : Rounds(body, n, f)
<1>1. n \in Nat \ {0} /\ n = Len(body) + 1
  OBVIOUS
<1>2. PICK f : f = CHOOSE g : Reaches(body, g)
  OBVIOUS
<1>3. PICK g \in [0..n -> SUBSET (1..n)] : Reaches(body, g)
  BY <1>1, ReachesExists
<1>4. Reaches(body, f)
  BY <1>2, <1>3
<1>5. Reachable(body) = f[n]
  BY <1>1, <1>2 DEF Reachable, Reaches, Successors
<1>6. f = [k \in 0..n |-> IF k = 0 THEN {Arrive(body, 1)}
                          ELSE LET before == f[k - 1] IN before \cup UNION {Successors(body, p) : p \in before}]
  BY <1>1, <1>4 DEF Reaches
<1>7. f[0] = {Arrive(body, 1)}
  BY <1>1, <1>6
<1>8. ASSUME NEW k \in 1..n  PROVE f[k] = f[k - 1] \cup UNION {Successors(body, p) : p \in f[k - 1]}
  <2>1. k \in 0..n /\ k # 0
    OBVIOUS
  <2> QED  BY <1>6, <2>1
<1>9. \A k \in 0..n : f[k] \in SUBSET (1..n)
  <2> DEFINE C == {k \in 0..n : f[k] \notin SUBSET (1..n)}
  <2> SUFFICES ASSUME C # {}  PROVE FALSE
    OBVIOUS
  <2>1. PICK k : k = Min(C)
    OBVIOUS
  <2>2. k \in C /\ \A y \in C : k <= y
    <3>1. C \in SUBSET Nat
      OBVIOUS
    <3> HIDE DEF C
    <3> QED  BY <2>1, <3>1, MinOfNaturals
  <2>3. k \in 0..n /\ f[k] \notin SUBSET (1..n)
    BY <2>2
  <2>4. k # 0
    <3>1. 1 \in 1..(Len(body) + 1)
      BY <1>1
    <3>2. Arrive(body, 1) \in 1..n
      BY <1>1, <3>1, ArriveIs
    <3> QED  BY <1>7, <2>3, <3>2
  <2>5. k \in 1..n /\ k - 1 \in 0..n /\ ~(k <= k - 1)
    BY <2>3, <2>4
  <2>6. f[k - 1] \in SUBSET (1..n)
    BY <2>2, <2>5
  <2>7. \A p \in f[k - 1] : Successors(body, p) \in SUBSET (1..n)
    BY <1>1, <2>6, SuccessorsAreInside
  <2> QED  BY <1>8, <2>3, <2>5, <2>6, <2>7
<1>10. f \in [0..n -> SUBSET (1..n)]
  <2>1. DOMAIN f = 0..n /\ f = [k \in DOMAIN f |-> f[k]]
    BY <1>6
  <2> QED  BY <1>9, <2>1
<1> QED  BY <1>1, <1>5, <1>7, <1>8, <1>10 DEF Rounds

(* The set is closed: as many rounds as there are positions are enough.    *)
LEMMA ReachableIsClosed ==
  ASSUME NEW body, Stream(body), Balanced(body)
  PROVE  /\ Reachable(body) \in SUBSET (1..(Len(body) + 1))
         /\ Arrive(body, 1) \in Reachable(body)
         /\ \A p \in Reachable(body) : Successors(body, p) \subseteq Reachable(body)
<1>1. PICK n \in Nat \ {0} : n = Len(body) + 1
  BY DEF Stream
<1>a. PICK f \in [0..n -> SUBSET (1..n)] : Rounds(body, n, f)
  BY <1>1, ReachableSteps
<1>2. /\ Reachable(body) = f[n]
      /\ f[0] = {Arrive(body, 1)}
      /\ \A k \in 1..n : f[k] = f[k - 1] \cup UNION {Successors(body, p) : p \in f[k - 1]}
  BY <1>a DEF Rounds
<1>3. IsFiniteSet(1..n) /\ Cardinality(1..n) = n
  BY FS_Interval
<1>4. \A k \in 0..n : IsFiniteSet(f[k]) /\ Cardinality(f[k]) \in Nat /\ Cardinality(f[k]) <= n
  <2>1. ASSUME NEW k \in 0..n  PROVE IsFiniteSet(f[k]) /\ Cardinality(f[k]) \in Nat /\ Cardinality(f[k]) <= n
    <3>1. f[k] \in SUBSET (1..n)
      BY <1>2
    <3>2. IsFiniteSet(f[k]) /\ Cardinality(f[k]) <= Cardinality(1..n)
      BY <1>3, <3>1, FS_Subset
    <3> QED  BY <1>3, <3>2, FS_CardinalityType
  <2> QED  BY <2>1
<1> DEFINE Closed(k) == \A p \in f[k] : Successors(body, p) \subseteq f[k]
           C == {k \in 0..n : ~(Arrive(body, 1) \in f[k] /\ (Closed(k) \/ Cardinality(f[k]) >= k + 1))}
<1>5. C = {}
  <2> SUFFICES ASSUME C # {}  PROVE FALSE
    OBVIOUS
  <2>1. PICK k : k = Min(C)
    OBVIOUS
  <2>2. k \in C /\ \A y \in C : k <= y
    <3>1. C \in SUBSET Nat
      OBVIOUS
    <3> HIDE DEF C
    <3> QED  BY <2>1, <3>1, MinOfNaturals
  <2>3. k \in 0..n /\ ~(Arrive(body, 1) \in f[k] /\ (Closed(k) \/ Cardinality(f[k]) >= k + 1))
    BY <2>2
  <2>4. k # 0
    <3>1. Cardinality({Arrive(body, 1)}) = 1
      BY FS_Singleton
    <3>2. f[0] = {Arrive(body, 1)} /\ Cardinality(f[0]) >= 0 + 1
      BY <1>2, <3>1
    <3> QED  BY <2>3, <3>2
  <2>5. k \in 1..n /\ k - 1 \in 0..n /\ ~(k <= k - 1)
    BY <2>3, <2>4
  <2>6. Arrive(body, 1) \in f[k - 1] /\ (Closed(k - 1) \/ Cardinality(f[k - 1]) >= (k - 1) + 1)
    BY <2>2, <2>5
  <2>7. f[k] = f[k - 1] \cup UNION {Successors(body, p) : p \in f[k - 1]}
    BY <1>2, <2>5
  <2>8. CASE Closed(k - 1)
    <3>1. f[k] = f[k - 1]
      BY <2>7, <2>8
    <3> QED  BY <2>3, <2>6, <2>8, <3>1
  <2>9. CASE ~Closed(k - 1)
    <3>0. PICK p \in f[k - 1] : ~(Successors(body, p) \subseteq f[k - 1])
      BY <2>9
    <3>1. PICK y \in Successors(body, p) : y \notin f[k - 1]
      BY <3>0
    <3>2. y \in f[k] /\ f[k - 1] \subseteq f[k] /\ Arrive(body, 1) \in f[k]
      BY <2>6, <2>7, <3>1
    <3>a. Cardinality(f[k - 1]) \in Nat /\ Cardinality(f[k]) \in Nat
      BY <1>4, <2>3, <2>5
    <3>3. Cardinality(f[k - 1]) < Cardinality(f[k])
      <4>1. f[k - 1] \in SUBSET f[k] /\ f[k - 1] # f[k] /\ IsFiniteSet(f[k])
        BY <1>4, <2>3, <3>1, <3>2
      <4>2. Cardinality(f[k - 1]) <= Cardinality(f[k]) /\ Cardinality(f[k]) # Cardinality(f[k - 1])
        BY <4>1, FS_Subset
      <4> QED  BY <3>a, <4>2
    <3>4. Cardinality(f[k - 1]) \in Nat /\ Cardinality(f[k]) \in Nat /\ Cardinality(f[k - 1]) >= k
      <4>1. Cardinality(f[k - 1]) >= (k - 1) + 1
        BY <2>6, <2>9
      <4> QED  BY <2>3, <3>a, <4>1
    <3> QED  BY <2>3, <2>5, <3>2, <3>3, <3>4
  <2> QED  BY <2>8, <2>9
<1>6. n \in 0..n
  OBVIOUS
<1>7. Arrive(body, 1) \in f[n] /\ (Closed(n) \/ Cardinality(f[n]) >= n + 1)
  <2>1. n \notin C
    BY <1>5
  <2> QED  BY <1>6, <2>1
<1>8. Closed(n)
  <2>1. Cardinality(f[n]) \in Nat /\ Cardinality(f[n]) <= n
    BY <1>4, <1>6
  <2> HIDE DEF Closed
  <2> QED  BY <1>7, <2>1
<1>9. f[n] \in SUBSET (1..n)
  BY <1>2, <1>6
<1> QED  BY <1>1, <1>2, <1>7, <1>8, <1>9

(* Nothing else is in it: a set that holds where control arrives first and *)
(* keeps the successors of what it holds contains it.                      *)
LEMMA ReachableIsLeast ==
  ASSUME NEW body, Stream(body), Balanced(body), NEW S, Arrive(body, 1) \in S,
         \A p \in S : Successors(body, p) \subseteq S
  PROVE  Reachable(body) \subseteq S
<1>1. PICK n \in Nat \ {0} : n = Len(body) + 1
  BY DEF Stream
<1>a. PICK f \in [0..n -> SUBSET (1..n)] : Rounds(body, n, f)
  BY <1>1, ReachableSteps
<1>2. /\ Reachable(body) = f[n]
      /\ f[0] = {Arrive(body, 1)}
      /\ \A k \in 1..n : f[k] = f[k - 1] \cup UNION {Successors(body, p) : p \in f[k - 1]}
  BY <1>a DEF Rounds
<1> DEFINE C == {k \in 0..n : ~(f[k] \subseteq S)}
<1>3. C = {}
  <2> SUFFICES ASSUME C # {}  PROVE FALSE
    OBVIOUS
  <2>1. PICK k : k = Min(C)
    OBVIOUS
  <2>2. k \in C /\ \A y \in C : k <= y
    <3>1. C \in SUBSET Nat
      OBVIOUS
    <3> HIDE DEF C
    <3> QED  BY <2>1, <3>1, MinOfNaturals
  <2>3. k \in 0..n /\ ~(f[k] \subseteq S)
    BY <2>2
  <2>4. k # 0
    BY <1>2, <2>3
  <2>5. k \in 1..n /\ k - 1 \in 0..n /\ ~(k <= k - 1)
    BY <2>3, <2>4
  <2>6. f[k - 1] \subseteq S
    BY <2>2, <2>5
  <2>7. f[k] = f[k - 1] \cup UNION {Successors(body, p) : p \in f[k - 1]}
    BY <1>2, <2>5
  <2> QED  BY <2>3, <2>6, <2>7
<1>4. n \in 0..n /\ n \notin C
  BY <1>3
<1> QED  BY <1>2, <1>4

(* A body that returns as a list does not let control reach its end.       *)
LEMMA ReturningIsClosed ==
  ASSUME NEW body, Stream(body), Balanced(body), 1 \in Returning(body)
  PROVE  Len(body) + 1 \notin Reachable(body)
<1>1. PICK R : R = Returning(body)
  OBVIOUS
<1>2. PICK S : S = Stopping(body)
  OBVIOUS
<1>3. R \in SUBSET (1..Len(body)) /\ IsReturning(body, R) /\ S \in SUBSET (1..Len(body)) /\ IsStopping(body, S)
  BY <1>1, <1>2, ReturningIs, StoppingIs
<1>4. 1 \in S
  BY <1>1, <1>3, ReturningStops
<1>5. Len(body) \in Nat
  BY DEF Stream
<1>6. \A q \in 1..(Len(body) + 1) :
        /\ Arrive(body, q) \in 1..Len(body) => body[Arrive(body, q)].op \notin Silent
        /\ q \in S => Arrive(body, q) \in S
  BY <1>3, ArrivesAtStatement
<1>7. PICK T : T = {p \in S : body[p].op \notin Silent}
  OBVIOUS
<1>8. \A q \in S : Arrive(body, q) \in T
  <2>1. \A q \in S : q \in 1..(Len(body) + 1)
    BY <1>3, <1>5
  <2>2. \A q \in S : Arrive(body, q) \in S
    BY <1>6, <2>1
  <2>3. \A q \in S : Arrive(body, q) \in 1..Len(body)
    BY <1>3, <2>2
  <2> QED  BY <1>6, <1>7, <2>1, <2>2, <2>3
<1>9. ASSUME NEW p \in T  PROVE Successors(body, p) \subseteq T
  <2>1. p \in 1..Len(body) /\ p \in S /\ body[p].op \notin Silent
    BY <1>3, <1>7
  <2>2. \/ body[p].op = "return"
        \/ body[p].op \in {"if", "ifelse", "while"} /\ p + 1 \in S /\ ListEnd(body, p + 1) + 1 \in S
        \/ body[p].op \notin {"return", "else", "if", "ifelse", "while"} /\ p + 1 \in S
    BY <1>3, <2>1 DEF IsStopping, Silent
  <2>3. body[p].op = "return" \/ (p + 1 \in S /\ Arrive(body, p + 1) \in T)
    BY <1>8, <2>2
  <2>4. body[p].op \in {"if", "ifelse", "while"} => ArriveElse(body, p) \in T
    BY <1>8, <2>2 DEF ArriveElse
  <2> QED  BY <2>3, <2>4 DEF Successors
<1>10. Arrive(body, 1) \in T
  BY <1>4, <1>8
<1>11. Reachable(body) \subseteq T
  BY <1>9, <1>10, ReachableIsLeast
<1> QED  BY <1>3, <1>5, <1>7, <1>11

----------------------------------------------------------------------------
(* Control can come to position q. *)
Live(body, q) == Arrive(body, q) \in Reachable(body)

(* A condition that control comes to can send it either way.               *)
LEMMA LiveSteps ==
  ASSUME NEW body, Stream(body), Balanced(body), NEW p \in 1..Len(body), Live(body, p)
  PROVE  /\ body[p].op \in {"if", "ifelse", "while"} => Live(body, p + 1) /\ Live(body, ListEnd(body, p + 1) + 1)
         /\ body[p].op \notin {"return", "else", "end"} => Live(body, p + 1)
         /\ body[p].op = "else" => Live(body, ElseEnd(body, p) + 1)
         /\ body[p].op = "end" /\ body[OpenerOf(body, p)].op # "while" => Live(body, p + 1)
         /\ body[p].op \notin Silent => p \in Reachable(body)
<1>1. Len(body) \in Nat
  BY DEF Stream
<1>2. p \in 1..(Len(body) + 1) /\ p # Len(body) + 1
  BY <1>1
<1>3. Arrive(body, p) = IF body[p].op \in {"arg", "block"} THEN Arrive(body, p + 1)
                        ELSE IF body[p].op = "else" THEN Arrive(body, ElseEnd(body, p) + 1)
                        ELSE IF body[p].op # "end" THEN p
                        ELSE IF body[OpenerOf(body, p)].op = "while" THEN OpenerOf(body, p)
                        ELSE Arrive(body, p + 1)
  BY <1>2, ArriveIs
<1>4. body[p].op \notin Silent => p \in Reachable(body)
  BY <1>3 DEF Live, Silent
<1>5. body[p].op \notin Silent /\ body[p].op # "return" =>
        /\ Arrive(body, p + 1) \in Reachable(body)
        /\ body[p].op \in {"if", "ifelse", "while"} => ArriveElse(body, p) \in Reachable(body)
  <2>1. p \in Reachable(body) => Successors(body, p) \subseteq Reachable(body)
    BY ReachableIsClosed
  <2> QED  BY <1>1, <1>4, <2>1 DEF Successors
<1> QED  BY <1>3, <1>4, <1>5 DEF Live, ArriveElse, Silent

(* A list that does not return lets control through to its end. *)
Falls(body, R, q) == Live(body, q) /\ q \notin R => Live(body, ListEnd(body, q))

(* A statement that does not return lets control through to what is behind *)
(* it, if the lists in it do.                                              *)
LEMMA FallsBehind ==
  ASSUME NEW body, Stream(body), Balanced(body), NEW R \in SUBSET (1..Len(body)), IsReturning(body, R),
         NEW p \in 1..Len(body), body[p].op \notin Marks, Live(body, p), ~StatementReturns(body, R, p),
         \A q \in (p + 1)..(Len(body) + 1) : Falls(body, R, q)
  PROVE  Live(body, Behind(body, p))
<1>1. Len(body) \in Nat
  BY DEF Stream
<1>2. body[p].op # "return"
  BY DEF StatementReturns
<1>3. /\ body[p].op \in {"if", "ifelse", "while"} => Live(body, p + 1) /\ Live(body, ListEnd(body, p + 1) + 1)
      /\ Live(body, p + 1)
  BY <1>2, LiveSteps DEF Marks
<1>4. CASE body[p].op \notin Openers
  BY <1>3, <1>4, StatementFacts
<1>5. CASE body[p].op \in {"if", "while"}
  <2>1. body[p].op \in Openers /\ body[p].op # "ifelse"
    BY <1>5 DEF Openers
  <2> QED  BY <1>3, <1>5, <2>1 DEF Behind
<1>6. CASE body[p].op \in {"block", "ifelse"}
  <2>1. PICK e : e = ListEnd(body, p + 1)
    OBVIOUS
  <2>2. PICK f : f = IF body[p].op = "ifelse" THEN ListEnd(body, e + 1) ELSE e
    OBVIOUS
  <2>3. body[p].op \in Openers
    BY <1>6 DEF Openers
  <2>4. /\ e \in (p + 1)..Len(body) /\ f \in (p + 1)..Len(body) /\ Behind(body, p) = f + 1
        /\ body[f].op = "end" /\ OpenerOf(body, f) = p
        /\ body[p].op = "ifelse" => body[e].op = "else" /\ ElseEnd(body, e) = f /\ f \in (e + 1)..Len(body)
    BY <2>1, <2>2, <2>3, StatementFacts
  <2>5. e \in 1..Len(body) /\ f \in 1..Len(body) /\ p + 1 \in (p + 1)..(Len(body) + 1) /\ e + 1 \in (p + 1)..(Len(body) + 1)
    BY <1>1, <2>4
  <2>6. p + 1 \notin R => Live(body, e)
    BY <1>3, <2>1, <2>5 DEF Falls
  <2>7. Live(body, f) => Live(body, f + 1)
    <3>1. body[OpenerOf(body, f)].op # "while"
      BY <1>6, <2>4
    <3> QED  BY <2>4, <2>5, <3>1, LiveSteps
  <2>8. CASE body[p].op = "block"
    <3>1. p + 1 \notin R /\ f = e
      BY <2>2, <2>8 DEF StatementReturns
    <3> QED  BY <2>4, <2>6, <2>7, <3>1
  <2>9. CASE body[p].op = "ifelse"
    <3>1. p + 1 \notin R \/ e + 1 \notin R
      BY <2>1, <2>9 DEF StatementReturns
    <3>2. e + 1 \notin R => Live(body, f)
      <4>1. Live(body, e + 1)
        BY <1>3, <2>1, <2>9
      <4> QED  BY <2>2, <2>5, <2>9, <4>1 DEF Falls
    <3>3. Live(body, e) => Live(body, f + 1)
      BY <2>4, <2>5, <2>9, LiveSteps
    <3> QED  BY <2>4, <2>6, <2>7, <3>1, <3>2, <3>3
  <2> QED  BY <1>6, <2>8, <2>9
<1> QED  BY <1>4, <1>5, <1>6 DEF Openers

(* So it is for every list, from the last one back. *)
LEMMA ListsFall ==
  ASSUME NEW body, Stream(body), Balanced(body), NEW R \in SUBSET (1..Len(body)), IsReturning(body, R)
  PROVE  \A q \in 1..(Len(body) + 1) : Falls(body, R, q)
<1>1. Len(body) \in Nat
  BY DEF Stream
<1> DEFINE C == {q \in 1..(Len(body) + 1) : ~Falls(body, R, q)}
<1> SUFFICES ASSUME C # {}  PROVE FALSE
  OBVIOUS
<1>2. PICK q : q = Max(C)
  OBVIOUS
<1>3. q \in C /\ \A y \in C : y <= q
  <2>1. C \in SUBSET Int /\ Len(body) + 1 \in Nat /\ \A y \in C : y <= Len(body) + 1
    BY <1>1
  <2> HIDE DEF C
  <2> QED  BY <1>2, <2>1, MaxOfBounded
<1>4. q \in 1..(Len(body) + 1) /\ ~Falls(body, R, q)
  BY <1>3
<1>5. \A p \in (q + 1)..(Len(body) + 1) : Falls(body, R, p)
  <2>1. \A p \in (q + 1)..(Len(body) + 1) : p \in 1..(Len(body) + 1) /\ p \notin C
    BY <1>1, <1>3, <1>4
  <2> QED  BY <2>1
<1>6. Live(body, q) /\ q \notin R /\ ~Live(body, ListEnd(body, q))
  BY <1>4 DEF Falls
<1>7. q \in 1..Len(body)
  <2>1. q # Len(body) + 1
    BY <1>6, EndOfBody
  <2> QED  BY <1>1, <1>4, <2>1
<1>8. body[q].op \notin Marks
  BY <1>6, <1>7, MarkIsListEnd
<1>9. ~StatementReturns(body, R, q) /\ Behind(body, q) \notin R
  BY <1>6, <1>7, <1>8 DEF IsReturning
<1>10. Live(body, Behind(body, q))
  BY <1>5, <1>6, <1>7, <1>8, <1>9, FallsBehind
<1>11. Behind(body, q) \in (q + 1)..(Len(body) + 1) /\ ListEnd(body, Behind(body, q)) = ListEnd(body, q)
  BY <1>7, <1>8, StatementFacts
<1> QED  BY <1>5, <1>6, <1>9, <1>10, <1>11 DEF Falls

(* The analysis of lists is exact: the body returns iff no path, whatever  *)
(* the conditions, comes to its end.                                       *)
LEMMA ReturningIsExact ==
  ASSUME NEW body, Stream(body), Balanced(body)
  PROVE  1 \in Returning(body) <=> Len(body) + 1 \notin Reachable(body)
<1>1. PICK R : R = Returning(body)
  OBVIOUS
<1>2. R \in SUBSET (1..Len(body)) /\ IsReturning(body, R)
  BY <1>1, ReturningIs
<1>3. Len(body) \in Nat /\ 1 \in 1..(Len(body) + 1) /\ Len(body) + 1 \in 1..(Len(body) + 1)
  BY DEF Stream
<1>4. Live(body, 1)
  BY ReachableIsClosed DEF Live
<1>5. 1 \notin R => Live(body, Len(body) + 1)
  <2>1. ListEnd(body, 1) = Len(body) + 1
    BY DEF Balanced
  <2> QED  BY <1>2, <1>3, <1>4, <2>1, ListsFall DEF Falls
<1>6. Arrive(body, Len(body) + 1) = Len(body) + 1
  BY <1>3, ArriveIs
<1> QED  BY <1>1, <1>5, <1>6, ReturningIsClosed DEF Live

----------------------------------------------------------------------------
(* Statement o opens the list at depth k that position q lies in. *)
Encloses(body, o, q, k) ==
  /\ o \in 1..(q - 1) /\ body[o].op \in Openers /\ Depth(body, o) = k - 1
  /\ \A j \in (o + 1)..q : Depth(body, j) >= k

Enclosing(body, q, k) == CHOOSE o \in 1..(q - 1) : Encloses(body, o, q, k)

(* No list ends that was not opened. *)
LEMMA DepthStarts ==
  ASSUME NEW body, Stream(body), Balanced(body)
  PROVE  /\ Depth(body, 1) = 0
         /\ \A q \in 1..(Len(body) + 1) : Depth(body, q) \in Nat
<1>1. Len(body) \in Nat
  BY DEF Stream
<1>2. Depth(body, 1) = 0
  <2>1. \A ops : {i \in 1..(1 - 1) : body[i].op \in ops} = {} /\ {i \in 1..(1 - 1) : body[i].op = ops} = {}
    OBVIOUS
  <2> QED  BY <2>1, FS_EmptySet DEF Depth
<1>3. IsOpen(body, 1, Len(body) + 1)
  <2>1. ListEnd(body, 1) = Len(body) + 1
    BY DEF Balanced
  <2>2. 1 \in 1..(Len(body) + 1)
    BY <1>1
  <2> QED  BY <1>1, <2>1, <2>2, ListEndIs
<1>4. \A q \in 1..(Len(body) + 1) : Depth(body, q) >= Depth(body, 1)
  BY <1>1, <1>3, StaysInside
<1>5. \A q \in 1..(Len(body) + 1) : Depth(body, q) \in Int
  <2>1. \A q \in 1..(Len(body) + 1) : q \in Nat \ {0}
    BY <1>1
  <2> QED  BY <2>1, DepthIsBounded
<1> QED  BY <1>2, <1>4, <1>5

(* There is exactly one such statement for each depth. *)
LEMMA EnclosingIs ==
  ASSUME NEW body, Stream(body), Balanced(body), NEW q \in 1..(Len(body) + 1), NEW k \in 1..Depth(body, q)
  PROVE  /\ Encloses(body, Enclosing(body, q, k), q, k)
         /\ \A o : Encloses(body, o, q, k) => o = Enclosing(body, q, k)
<1>1. Len(body) \in Nat
  BY DEF Stream
<1>2. Depth(body, q) \in Nat /\ Depth(body, 1) = 0
  BY DepthStarts
<1>3. \E o \in 1..(q - 1) : Encloses(body, o, q, k)
  <2>1. 1 \in Nat \ {0} /\ q \in Nat /\ 1 <= q /\ k \in Int /\ Depth(body, 1) < k /\ Depth(body, q) >= k
    BY <1>1, <1>2
  <2> QED  BY <2>1, ListIsOpened DEF Encloses
<1>4. Encloses(body, Enclosing(body, q, k), q, k)
  BY <1>3 DEF Enclosing
<1>5. ASSUME NEW o, NEW p, Encloses(body, o, q, k), Encloses(body, p, q, k), o < p  PROVE FALSE
  <2>1. p \in (o + 1)..q
    BY <1>1, <1>5 DEF Encloses
  <2> QED  BY <1>2, <1>5, <2>1 DEF Encloses
<1>6. ASSUME NEW o, Encloses(body, o, q, k)  PROVE o = Enclosing(body, q, k)
  <2>1. PICK p : p = Enclosing(body, q, k)
    OBVIOUS
  <2>2. o \in 1..(q - 1) /\ p \in 1..(q - 1) /\ Encloses(body, p, q, k)
    BY <1>4, <1>6, <2>1 DEF Encloses
  <2>3. ~(o < p) /\ ~(p < o)
    BY <1>5, <1>6, <2>2
  <2> QED  BY <2>1, <2>2, <2>3
<1> QED  BY <1>4, <1>6

(* What stays open keeps its opener. *)
LEMMA EnclosingStays ==
  ASSUME NEW body, Stream(body), Balanced(body), NEW q \in 1..(Len(body) + 1), NEW r \in q..(Len(body) + 1),
         NEW k \in 1..Depth(body, q), \A j \in q..r : Depth(body, j) >= k
  PROVE  Enclosing(body, r, k) = Enclosing(body, q, k)
<1>1. Len(body) \in Nat
  BY DEF Stream
<1>2. PICK o : o = Enclosing(body, q, k)
  OBVIOUS
<1>3. Encloses(body, o, q, k)
  BY <1>2, EnclosingIs
<1>4. Encloses(body, o, r, k)
  <2>1. ASSUME NEW j \in (o + 1)..r  PROVE Depth(body, j) >= k
    <3>1. j \in (o + 1)..q \/ j \in q..r
      BY <1>1, <1>3 DEF Encloses
    <3> QED  BY <1>3, <3>1 DEF Encloses
  <2>2. o \in 1..(r - 1)
    BY <1>1, <1>3 DEF Encloses
  <2> QED  BY <1>3, <2>1, <2>2 DEF Encloses
<1>5. k \in 1..Depth(body, r) /\ r \in 1..(Len(body) + 1)
  <2>1. r \in 1..(Len(body) + 1) /\ r \in q..r
    BY <1>1
  <2>2. Depth(body, r) \in Nat /\ Depth(body, r) >= k /\ Depth(body, q) \in Nat
    BY <2>1, DepthStarts
  <2> QED  BY <2>1, <2>2
<1> QED  BY <1>2, <1>4, <1>5, EnclosingIs

(* The list that opener o leads to at q, and where it ends. *)
InElse(body, o, q) == body[o].op = "ifelse" /\ q > ListEnd(body, o + 1)
StartIn(body, o, q) == IF InElse(body, o, q) THEN ListEnd(body, o + 1) + 1 ELSE o + 1

(* Where the list that q is in ends, by the statement o that opened it.    *)
LEMMA EnclosedEnd ==
  ASSUME NEW body, Stream(body), Balanced(body), NEW q \in 1..(Len(body) + 1), NEW o,
         Encloses(body, o, q, Depth(body, q))
  PROVE  LET e == ListEnd(body, o + 1)
             f == IF body[o].op = "ifelse" THEN ListEnd(body, e + 1) ELSE e
         IN /\ o \in 1..Len(body) /\ e \in (o + 1)..Len(body) /\ f \in (o + 1)..Len(body) /\ q <= f
            /\ Behind(body, o) = f + 1 /\ body[f].op = "end" /\ OpenerOf(body, f) = o
            /\ body[o].op = "ifelse" => body[e].op = "else" /\ ElseEnd(body, e) = f /\ e < f
            /\ Depth(body, e) = Depth(body, q) /\ Depth(body, f) = Depth(body, q)
            /\ ListEnd(body, q) = (IF body[o].op = "ifelse" /\ q <= e THEN e ELSE f)
<1>1. Len(body) \in Nat
  BY DEF Stream
<1>2. \A i \in Nat \ {0} : Depth(body, i) \in Int
  BY DepthIsBounded
<1>3. PICK D \in Int : D = Depth(body, q)
  BY <1>1, <1>2
<1>4. o \in 1..(q - 1) /\ o \in 1..Len(body) /\ body[o].op \in Openers /\ Depth(body, o) = D - 1
      /\ \A j \in (o + 1)..q : Depth(body, j) >= D
  BY <1>1, <1>3 DEF Encloses
<1>5. PICK e : e = ListEnd(body, o + 1)
  OBVIOUS
<1>6. PICK f : f = IF body[o].op = "ifelse" THEN ListEnd(body, e + 1) ELSE e
  OBVIOUS
<1>7. body[o].op \notin Marks
  BY <1>4 DEF Openers, Marks
<1>8. /\ e \in (o + 1)..Len(body) /\ f \in (o + 1)..Len(body) /\ Behind(body, o) = f + 1
      /\ Depth(body, e) = D /\ Depth(body, f) = D /\ Depth(body, f + 1) = D - 1
      /\ body[f].op = "end" /\ OpenerOf(body, f) = o
      /\ body[o].op = "ifelse" => body[e].op = "else" /\ ElseEnd(body, e) = f /\ f \in (e + 1)..Len(body)
  BY <1>4, <1>5, <1>6, <1>7, StatementFacts
<1>9. q <= f
  <2>1. f < q => f + 1 \in (o + 1)..q
    BY <1>1, <1>4, <1>8
  <2> QED  BY <1>1, <1>3, <1>4, <1>8, <2>1
<1>10. ASSUME q <= e  PROVE ListEnd(body, q) = e
  <2>1. o + 1 \in 1..(Len(body) + 1) /\ q \in (o + 1)..(Len(body) + 1)
    BY <1>1, <1>4
  <2>2. IsOpen(body, o + 1, e)
    BY <1>1, <1>5, <2>1, ListEndIs
  <2>3. IsOpen(body, o + 1, q)
    <3>1. \A j \in (o + 1)..(q - 1) : j \in (o + 1)..(e - 1)
      BY <1>1, <1>8, <1>10, <2>1
    <3> QED  BY <2>2, <3>1 DEF IsOpen
  <2>4. Depth(body, o + 1) = D
    <3>1. Depth(body, o + 1) = Depth(body, o) + (IF body[o].op \in Openers THEN 1 ELSE IF body[o].op = "end" THEN -1 ELSE 0)
      <4>1. o \in Nat \ {0}
        BY <1>4
      <4> QED  BY <4>1, DepthSteps
    <3> QED  BY <1>3, <1>4, <3>1
  <2> QED  BY <1>1, <1>3, <1>5, <2>1, <2>3, <2>4, SameEnd
<1>11. ASSUME body[o].op = "ifelse", ~(q <= e)  PROVE ListEnd(body, q) = f
  <2>1. e + 1 \in 1..(Len(body) + 1) /\ q \in (e + 1)..(Len(body) + 1) /\ f = ListEnd(body, e + 1)
    <3>1. e \in Nat /\ e >= 1 /\ e <= Len(body)
      BY <1>1, <1>4, <1>8
    <3> QED  BY <1>1, <1>6, <1>11, <3>1
  <2>2. IsOpen(body, e + 1, f)
    BY <1>1, <2>1, ListEndIs
  <2>3. IsOpen(body, e + 1, q)
    <3>1. \A j \in (e + 1)..(q - 1) : j \in (e + 1)..(f - 1)
      BY <1>1, <1>8, <1>9, <2>1
    <3> QED  BY <2>2, <3>1 DEF IsOpen
  <2>4. Depth(body, e + 1) = D
    <3>1. Depth(body, e + 1) = Depth(body, e) + (IF body[e].op \in Openers THEN 1 ELSE IF body[e].op = "end" THEN -1 ELSE 0)
      <4>1. e \in Nat \ {0}
        BY <1>1, <1>4, <1>8
      <4> QED  BY <4>1, DepthSteps
    <3> QED  BY <1>3, <1>8, <1>11, <3>1 DEF Openers
  <2> QED  BY <1>1, <1>3, <2>1, <2>3, <2>4, SameEnd
<1>12. ListEnd(body, q) = (IF body[o].op = "ifelse" /\ q <= e THEN e ELSE f)
  BY <1>1, <1>6, <1>9, <1>10, <1>11
<1>13. body[o].op = "ifelse" => e < f
  BY <1>1, <1>8
<1> QED  BY <1>3, <1>4, <1>5, <1>6, <1>8, <1>9, <1>12, <1>13

(* All lists are closed at the end of the body. *)
LEMMA DepthEnds ==
  ASSUME NEW body, Stream(body), Balanced(body)
  PROVE  Depth(body, Len(body) + 1) = 0
<1>1. Len(body) \in Nat
  BY DEF Stream
<1>2. PICK n : n = Len(body) + 1
  OBVIOUS
<1>3. n \in 1..(Len(body) + 1) /\ Depth(body, n) \in Nat
  BY <1>1, <1>2, DepthStarts
<1> SUFFICES ASSUME Depth(body, n) # 0  PROVE FALSE
  BY <1>2
<1>4. Depth(body, n) \in 1..Depth(body, n)
  BY <1>3
<1>5. PICK o : Encloses(body, o, n, Depth(body, n))
  BY <1>3, <1>4, EnclosingIs
<1>6. PICK f : f \in 1..Len(body) /\ n <= f
  <2>1. PICK e : e = ListEnd(body, o + 1)
    OBVIOUS
  <2>2. PICK f : f = IF body[o].op = "ifelse" THEN ListEnd(body, e + 1) ELSE e
    OBVIOUS
  <2>3. o \in 1..Len(body) /\ f \in (o + 1)..Len(body) /\ n <= f
    BY <1>3, <1>5, <2>1, <2>2, EnclosedEnd
  <2>4. f \in 1..Len(body)
    BY <1>1, <2>3
  <2> QED  BY <2>3, <2>4
<1> QED  BY <1>1, <1>2, <1>6

(* Nothing between a position and the end of its list lies further out.    *)
LEMMA ToListEnd ==
  ASSUME NEW body, Stream(body), Balanced(body), NEW q \in 1..(Len(body) + 1)
  PROVE  /\ ListEnd(body, q) \in q..(Len(body) + 1)
         /\ Depth(body, ListEnd(body, q)) = Depth(body, q)
         /\ \A j \in q..ListEnd(body, q) : Depth(body, j) >= Depth(body, q)
         /\ \A j \in q..(ListEnd(body, q) - 1) : ~(body[j].op \in Marks /\ Depth(body, j) = Depth(body, q))
<1>1. Len(body) \in Nat
  BY DEF Stream
<1>2. PICK e : e = ListEnd(body, q)
  OBVIOUS
<1>3. e \in q..(Len(body) + 1) /\ IsOpen(body, q, e)
      /\ (e # Len(body) + 1 => body[e].op \in Marks /\ Depth(body, e) = Depth(body, q))
  BY <1>1, <1>2, ListEndIs
<1>4. \A j \in q..e : Depth(body, j) >= Depth(body, q)
  <2>1. q \in Nat \ {0} /\ e \in Nat /\ q <= e
    BY <1>1, <1>3
  <2> QED  BY <1>3, <2>1, StaysInside
<1>5. Depth(body, e) = Depth(body, q)
  <2>1. CASE e = Len(body) + 1
    <3>1. e \in q..e /\ Depth(body, e) = 0
      BY <1>1, <1>3, <2>1, DepthEnds
    <3>2. Depth(body, q) \in Nat
      BY DepthStarts
    <3> QED  BY <1>4, <3>1, <3>2
  <2> QED  BY <1>3, <2>1
<1> QED  BY <1>2, <1>3, <1>4, <1>5 DEF IsOpen

----------------------------------------------------------------------------
(* A walk over the lists, at position q, is in one list for each depth; the *)
(* list at depth k begins at ListStart.                                        *)
ListStart(body, q, k) == IF k = 0 THEN 1 ELSE StartIn(body, Enclosing(body, q, k), q)

(* From q to r the walk stays in the list at depth k. *)
StaysIn(body, q, r, k) ==
  /\ \A j \in q..r : Depth(body, j) >= k
  /\ \A j \in q..(r - 1) : ~(body[j].op \in Marks /\ Depth(body, j) = k)

(* ... which then is opened by the same statement, and the same of its     *)
(* lists.                                                                  *)
LEMMA SameList ==
  ASSUME NEW body, Stream(body), Balanced(body), NEW q \in 1..(Len(body) + 1), NEW r \in q..(Len(body) + 1),
         NEW k \in 1..Depth(body, q), StaysIn(body, q, r, k)
  PROVE  /\ Enclosing(body, r, k) = Enclosing(body, q, k)
         /\ InElse(body, Enclosing(body, q, k), r) = InElse(body, Enclosing(body, q, k), q)
         /\ ListStart(body, r, k) = ListStart(body, q, k)
<1>1. Len(body) \in Nat
  BY DEF Stream
<1>2. PICK o : o = Enclosing(body, q, k)
  OBVIOUS
<1>3. Enclosing(body, r, k) = o
  BY <1>2, EnclosingStays DEF StaysIn
<1>4. Encloses(body, o, q, k)
  BY <1>2, EnclosingIs
<1>5. o \in 1..Len(body) /\ body[o].op \in Openers /\ Depth(body, o) = k - 1
  BY <1>1, <1>4 DEF Encloses
<1>6. InElse(body, o, r) <=> InElse(body, o, q)
  <2>1. PICK e : e = ListEnd(body, o + 1)
    OBVIOUS
  <2>2. ASSUME body[o].op = "ifelse"  PROVE r > e <=> q > e
    <3>1. body[o].op \notin Marks
      BY <1>5 DEF Openers, Marks
    <3>2. e \in (o + 1)..Len(body) /\ Depth(body, e) = Depth(body, o) + 1 /\ body[e].op = "else"
      BY <1>5, <2>1, <2>2, <3>1, StatementFacts, SMTT(30)
    <3>3. e \in Nat /\ Depth(body, e) = k /\ body[e].op \in Marks
      <4>1. Depth(body, q) \in Nat
        BY DepthStarts
      <4> QED  BY <1>1, <1>5, <3>2, <4>1 DEF Marks
    <3>4. e \notin q..(r - 1)
      BY <3>3 DEF StaysIn
    <3> QED  BY <1>1, <3>3, <3>4
  <2> QED  BY <2>1, <2>2 DEF InElse
<1>7. InElse(body, o, r) = InElse(body, o, q)
  BY <1>6 DEF InElse
<1>8. k # 0
  BY <1>1
<1> QED  BY <1>2, <1>3, <1>7, <1>8 DEF ListStart, StartIn

(* The walk from one position to the next. *)
LEMMA StayingInLists ==
  ASSUME NEW body, Stream(body), Balanced(body), NEW q \in 1..Len(body)
  PROVE  /\ Depth(body, q) \in Nat /\ Depth(body, q + 1) \in Nat
         /\ body[q].op \notin Marks => \A k \in 0..Depth(body, q) : StaysIn(body, q, q + 1, k)
         /\ body[q].op = "else" => Depth(body, q + 1) = Depth(body, q) /\ Depth(body, q) > 0
                                   /\ \A k \in 0..(Depth(body, q) - 1) : StaysIn(body, q, q + 1, k)
         /\ body[q].op = "end" => Depth(body, q + 1) = Depth(body, q) - 1
                                   /\ \A k \in 0..(Depth(body, q) - 1) : StaysIn(body, q, q + 1, k)
         /\ body[q].op \in Openers => Depth(body, q + 1) = Depth(body, q) + 1
         /\ body[q].op \notin Openers \cup Marks => Depth(body, q + 1) = Depth(body, q)
<1>1. Len(body) \in Nat
  BY DEF Stream
<1>2. Depth(body, q) \in Nat /\ Depth(body, q + 1) \in Nat
  <2>1. q \in 1..(Len(body) + 1) /\ q + 1 \in 1..(Len(body) + 1)
    BY <1>1
  <2> QED  BY <2>1, DepthStarts
<1>3. Depth(body, q + 1) = Depth(body, q) + (IF body[q].op \in Openers THEN 1 ELSE IF body[q].op = "end" THEN -1 ELSE 0)
  <2>1. q \in Nat \ {0}
    OBVIOUS
  <2> QED  BY <2>1, DepthSteps
<1>4. \A j : (j \in q..(q + 1) <=> j = q \/ j = q + 1) /\ (j \in q..((q + 1) - 1) <=> j = q)
  BY <1>1
<1>5. body[q].op \in Openers => Depth(body, q + 1) = Depth(body, q) + 1
  BY <1>3
<1>6. body[q].op = "end" => Depth(body, q + 1) = Depth(body, q) - 1
  BY <1>2, <1>3 DEF Openers
<1>7. body[q].op \notin Openers /\ body[q].op # "end" => Depth(body, q + 1) = Depth(body, q)
  BY <1>2, <1>3
<1>8. body[q].op \in Marks => Depth(body, q) > 0
  <2>1. q \in 1..(Len(body) + 1) /\ 1 \in 1..(Len(body) + 1)
    BY <1>1
  <2>2. ListEnd(body, 1) = Len(body) + 1 /\ Depth(body, 1) = 0
    BY DepthStarts DEF Balanced
  <2>3. q \in 1..(ListEnd(body, 1) - 1)
    BY <1>1, <2>2
  <2>4. ~(body[q].op \in Marks /\ Depth(body, q) = Depth(body, 1))
    BY <2>1, <2>3, ToListEnd
  <2> QED  BY <1>2, <2>2, <2>4
<1>9. ASSUME NEW k \in 0..Depth(body, q), k <= Depth(body, q + 1), k # Depth(body, q) \/ body[q].op \notin Marks
      PROVE  StaysIn(body, q, q + 1, k)
  BY <1>2, <1>4, <1>9 DEF StaysIn
<1>10. body[q].op \notin Marks => \A k \in 0..Depth(body, q) : StaysIn(body, q, q + 1, k)
  <2>1. ASSUME body[q].op \notin Marks, NEW k \in 0..Depth(body, q)  PROVE k <= Depth(body, q + 1)
    BY <1>2, <1>5, <1>7, <2>1 DEF Marks
  <2> QED  BY <1>9, <2>1
<1>11. body[q].op \in Marks => \A k \in 0..(Depth(body, q) - 1) : StaysIn(body, q, q + 1, k)
  <2>1. ASSUME body[q].op \in Marks, NEW k \in 0..(Depth(body, q) - 1)
        PROVE  k <= Depth(body, q + 1) /\ k \in 0..Depth(body, q) /\ k # Depth(body, q)
    BY <1>2, <1>6, <1>7, <2>1 DEF Marks, Openers
  <2> QED  BY <1>9, <2>1
<1>12. "else" \in Marks /\ "end" \in Marks /\ "else" \notin Openers
  BY DEF Marks, Openers
<1> QED  BY <1>2, <1>5, <1>6, <1>7, <1>8, <1>10, <1>11, <1>12

(* Behind a statement that opens a list stands the list. *)
LEMMA OpensList ==
  ASSUME NEW body, Stream(body), Balanced(body), NEW q \in 1..Len(body), body[q].op \in Openers
  PROVE  /\ Enclosing(body, q + 1, Depth(body, q) + 1) = q
         /\ ~InElse(body, q, q + 1)
         /\ ListStart(body, q + 1, Depth(body, q) + 1) = q + 1
<1>1. Len(body) \in Nat
  BY DEF Stream
<1>2. Depth(body, q) \in Nat /\ Depth(body, q + 1) = Depth(body, q) + 1
  BY StayingInLists
<1>3. Encloses(body, q, q + 1, Depth(body, q) + 1)
  BY <1>2 DEF Encloses
<1>4. Enclosing(body, q + 1, Depth(body, q) + 1) = q
  <2>1. q + 1 \in 1..(Len(body) + 1) /\ Depth(body, q) + 1 \in 1..Depth(body, q + 1)
    BY <1>1, <1>2
  <2> QED  BY <1>3, <2>1, EnclosingIs
<1>5. ~InElse(body, q, q + 1)
  <2>1. ListEnd(body, q + 1) \in (q + 1)..Len(body)
    BY ElseIsAhead
  <2> QED  BY <1>1, <2>1 DEF InElse
<1>6. Depth(body, q) + 1 # 0
  BY <1>2
<1> QED  BY <1>4, <1>5, <1>6 DEF ListStart, StartIn

(* A mark ends a list of the statement that encloses it. *)
LEMMA MarkOf ==
  ASSUME NEW body, Stream(body), Balanced(body), NEW q \in 1..Len(body), body[q].op \in Marks
  PROVE  LET o == Enclosing(body, q, Depth(body, q))
         IN /\ o \in 1..(q - 1) /\ body[o].op \in Openers /\ Depth(body, o) = Depth(body, q) - 1
            /\ body[q].op = "else" =>
                 /\ body[o].op = "ifelse" /\ ListEnd(body, o + 1) = q
                 /\ ~InElse(body, o, q) /\ InElse(body, o, q + 1)
                 /\ Enclosing(body, q + 1, Depth(body, q)) = o
            /\ body[q].op = "end" =>
                 /\ Behind(body, o) = q + 1 /\ OpenerOf(body, q) = o
                 /\ body[o].op = "ifelse" => InElse(body, o, q)
<1>1. Len(body) \in Nat
  BY DEF Stream
<1>2. PICK D : D = Depth(body, q)
  OBVIOUS
<1>3. D \in Nat /\ D > 0 /\ q \in 1..(Len(body) + 1)
  <2>1. q \in 1..(Len(body) + 1) /\ 1 \in 1..(Len(body) + 1)
    BY <1>1
  <2>2. D \in Nat
    BY <1>2, StayingInLists
  <2>3. ListEnd(body, 1) = Len(body) + 1 /\ Depth(body, 1) = 0
    BY DepthStarts DEF Balanced
  <2>4. q \in 1..(ListEnd(body, 1) - 1)
    BY <1>1, <2>3
  <2>5. ~(body[q].op \in Marks /\ Depth(body, q) = Depth(body, 1))
    BY <2>1, <2>4, ToListEnd
  <2> QED  BY <1>2, <2>1, <2>2, <2>3, <2>5
<1>4. PICK o : o = Enclosing(body, q, D)
  OBVIOUS
<1>5. Encloses(body, o, q, D)
  <2>1. D \in 1..Depth(body, q)
    BY <1>2, <1>3
  <2> QED  BY <1>3, <1>4, <2>1, EnclosingIs
<1>6. PICK e : e = ListEnd(body, o + 1)
  OBVIOUS
<1>7. PICK f : f = IF body[o].op = "ifelse" THEN ListEnd(body, e + 1) ELSE e
  OBVIOUS
<1>8. /\ o \in 1..Len(body) /\ e \in (o + 1)..Len(body) /\ f \in (o + 1)..Len(body) /\ q <= f
      /\ Behind(body, o) = f + 1 /\ body[f].op = "end" /\ OpenerOf(body, f) = o
      /\ body[o].op = "ifelse" => body[e].op = "else" /\ ElseEnd(body, e) = f /\ e < f
      /\ ListEnd(body, q) = (IF body[o].op = "ifelse" /\ q <= e THEN e ELSE f)
  BY <1>2, <1>3, <1>5, <1>6, <1>7, EnclosedEnd, SMTT(30)
<1>9. q = (IF body[o].op = "ifelse" /\ q <= e THEN e ELSE f)
  BY <1>8, MarkIsListEnd
<1>10. o \in 1..(q - 1) /\ body[o].op \in Openers /\ Depth(body, o) = D - 1
  BY <1>5 DEF Encloses
<1>11. ASSUME body[q].op = "else"
       PROVE  /\ body[o].op = "ifelse" /\ ListEnd(body, o + 1) = q
              /\ ~InElse(body, o, q) /\ InElse(body, o, q + 1)
              /\ Enclosing(body, q + 1, D) = o
  <2>1. q # f
    BY <1>8, <1>11
  <2>2. body[o].op = "ifelse" /\ q = e
    BY <1>9, <2>1
  <2>3. ~(q > q) /\ q + 1 > q
    OBVIOUS
  <2>4. Enclosing(body, q + 1, D) = o
    <3>1. Depth(body, q + 1) = D
      BY <1>2, <1>11, StayingInLists
    <3>2. D \in 1..Depth(body, q) /\ q + 1 \in q..(Len(body) + 1) /\ \A j \in q..(q + 1) : Depth(body, j) >= D
      <4>1. \A j \in q..(q + 1) : j = q \/ j = q + 1
        OBVIOUS
      <4> QED  BY <1>1, <1>2, <1>3, <3>1, <4>1
    <3> QED  BY <1>3, <1>4, <3>2, EnclosingStays
  <2> QED  BY <1>6, <2>2, <2>3, <2>4 DEF InElse
<1>12. ASSUME body[q].op = "end"
       PROVE  /\ Behind(body, o) = q + 1 /\ OpenerOf(body, q) = o
              /\ body[o].op = "ifelse" => InElse(body, o, q)
  <2>1. q = f
    BY <1>8, <1>9, <1>12
  <2>2. body[o].op = "ifelse" => q > e
    BY <1>1, <1>8, <2>1
  <2> QED  BY <1>6, <1>8, <2>1, <2>2 DEF InElse
<1> QED  BY <1>2, <1>4, <1>10, <1>11, <1>12

----------------------------------------------------------------------------
(* A walk that notes for each list it is in, by depth, whether it has seen *)
(* a return: Ret has the depths where it has, Then those where the first   *)
(* list of the if did.  In the list at depth k the walk stands at Cursor.  *)
Cursor(body, q, k) == IF k = Depth(body, q) THEN q ELSE Enclosing(body, q, k + 1)

(* What is noted covers what is so, and if exact is nothing more.          *)
Covers(exact, is, noted) == (is => noted) /\ (exact => (noted => is))

(* What a list at depth k returns, it does in what has been walked of it or *)
(* in what is left of it.                                                  *)
NoteAt(body, R, q, Ret, Then, exact, k) ==
  /\ Covers(exact, ListStart(body, q, k) \in R, k \in Ret \/ Cursor(body, q, k) \in R)
  /\ k > 0 /\ InElse(body, Enclosing(body, q, k), q) =>
       Covers(exact, Enclosing(body, q, k) + 1 \in R, k \in Then)

Notes(body, R, q, Ret, Then, exact) ==
  \A k \in 0..Depth(body, q) : NoteAt(body, R, q, Ret, Then, exact, k)

(* Nothing has to be noted at the start of the body. *)
LEMMA NotesBegin ==
  ASSUME NEW body, Stream(body), Balanced(body), NEW R, NEW Ret, 0 \notin Ret, NEW Then, NEW exact
  PROVE  Notes(body, R, 1, Ret, Then, exact)
<1>1. Depth(body, 1) = 0
  BY DepthStarts
<1>2. \A k \in 0..Depth(body, 1) : k = 0
  BY <1>1
<1> QED  BY <1>1, <1>2 DEF Notes, NoteAt, Covers, ListStart, Cursor

(* A list in which another one is being walked waits at that one's opener. *)
LEMMA CursorStays ==
  ASSUME NEW body, Stream(body), Balanced(body), NEW q \in 1..(Len(body) + 1), NEW r \in q..(Len(body) + 1),
         NEW k \in 0..(Depth(body, q) - 1), \A j \in q..r : Depth(body, j) >= k + 1
  PROVE  Cursor(body, r, k) = Cursor(body, q, k)
<1>1. Depth(body, q) \in Nat /\ Len(body) \in Nat
  BY DepthStarts DEF Stream
<1>2. Depth(body, r) \in Nat /\ Depth(body, r) >= k + 1
  <2>1. r \in 1..(Len(body) + 1) /\ r \in q..r
    BY <1>1
  <2> QED  BY <2>1, DepthStarts
<1>3. k + 1 \in 1..Depth(body, q)
  BY <1>1
<1>4. Enclosing(body, r, k + 1) = Enclosing(body, q, k + 1)
  BY <1>3, EnclosingStays
<1>5. k # Depth(body, q) /\ k # Depth(body, r)
  BY <1>1, <1>2
<1> QED  BY <1>4, <1>5 DEF Cursor

(* Where the walk stays in a list, its note stays good. *)
LEMMA NoteStays ==
  ASSUME NEW body, Stream(body), Balanced(body), NEW R, NEW q \in 1..(Len(body) + 1), NEW r \in q..(Len(body) + 1),
         NEW Ret, NEW Then, NEW newRet, NEW newThen, NEW exact, NEW k \in 0..Depth(body, q),
         NoteAt(body, R, q, Ret, Then, exact, k), StaysIn(body, q, r, k),
         k \in newThen <=> k \in Then,
         k \in newRet \/ Cursor(body, r, k) \in R <=> k \in Ret \/ Cursor(body, q, k) \in R
  PROVE  NoteAt(body, R, r, newRet, newThen, exact, k)
<1>1. Depth(body, q) \in Nat /\ Len(body) \in Nat
  BY DepthStarts DEF Stream
<1>2. CASE k = 0
  <2>1. ListStart(body, r, k) = ListStart(body, q, k)
    BY <1>2 DEF ListStart
  <2> QED  BY <1>2, <2>1 DEF NoteAt, Covers
<1>3. CASE k # 0
  <2>1. k \in 1..Depth(body, q)
    BY <1>1, <1>3
  <2>2. /\ Enclosing(body, r, k) = Enclosing(body, q, k)
        /\ InElse(body, Enclosing(body, q, k), r) = InElse(body, Enclosing(body, q, k), q)
        /\ ListStart(body, r, k) = ListStart(body, q, k)
    BY <2>1, SameList
  <2> QED  BY <2>2 DEF NoteAt, Covers
<1> QED  BY <1>2, <1>3

(* The depths below the list the walk is in. *)
LEMMA NotesBelow ==
  ASSUME NEW body, Stream(body), Balanced(body), NEW R, NEW q \in 1..(Len(body) + 1), NEW r \in q..(Len(body) + 1),
         NEW Ret, NEW Then, NEW newRet, NEW newThen, NEW exact, Notes(body, R, q, Ret, Then, exact),
         NEW d \in Nat, d <= Depth(body, q), \A k \in 0..(d - 1) : StaysIn(body, q, r, k),
         \A j \in q..r : Depth(body, j) >= d,
         \A k \in 0..(d - 1) : (k \in newRet <=> k \in Ret) /\ (k \in newThen <=> k \in Then)
  PROVE  \A k \in 0..(d - 1) : NoteAt(body, R, r, newRet, newThen, exact, k)
<1>1. Depth(body, q) \in Nat /\ Len(body) \in Nat
  BY DepthStarts DEF Stream
<1>2. ASSUME NEW k \in 0..(d - 1)  PROVE NoteAt(body, R, r, newRet, newThen, exact, k)
  <2>1. k \in 0..(Depth(body, q) - 1) /\ k \in 0..Depth(body, q)
    BY <1>1
  <2>2. \A j \in q..r : Depth(body, j) >= k + 1
    <3>1. \A j \in q..r : Depth(body, j) \in Int
      <4>1. \A j \in q..r : j \in 1..(Len(body) + 1)
        BY <1>1
      <4> QED  BY <4>1, DepthStarts
    <3> QED  BY <3>1
  <2>3. Cursor(body, r, k) = Cursor(body, q, k)
    BY <2>1, <2>2, CursorStays
  <2>4. NoteAt(body, R, q, Ret, Then, exact, k)
    BY <2>1 DEF Notes
  <2> QED  BY <2>1, <2>3, <2>4, NoteStays
<1> QED  BY <1>2

(* A statement that opens no list. *)
LEMMA NotesStatement ==
  ASSUME NEW body, Stream(body), Balanced(body), NEW R \in SUBSET (1..Len(body)), IsReturning(body, R),
         NEW q \in 1..Len(body), body[q].op \notin Openers \cup Marks,
         NEW Ret, NEW Then, NEW newRet, NEW exact, Notes(body, R, q, Ret, Then, exact),
         \A k \in 0..(Depth(body, q) - 1) : k \in newRet <=> k \in Ret,
         Depth(body, q) \in newRet <=> Depth(body, q) \in Ret \/ body[q].op = "return"
  PROVE  Notes(body, R, q + 1, newRet, Then, exact)
<1>1. Len(body) \in Nat
  BY DEF Stream
<1>2. PICK D \in Nat : D = Depth(body, q)
  BY StayingInLists
<1>3. Depth(body, q + 1) = D /\ \A k \in 0..D : StaysIn(body, q, q + 1, k)
  BY <1>2, StayingInLists
<1>4. q \in 1..(Len(body) + 1) /\ q + 1 \in q..(Len(body) + 1)
  BY <1>1
<1>5. \A k \in 0..(D - 1) : NoteAt(body, R, q + 1, newRet, Then, exact, k)
  <2>1. \A j \in q..(q + 1) : Depth(body, j) >= D
    <3>1. \A j \in q..(q + 1) : j = q \/ j = q + 1
      OBVIOUS
    <3> QED  BY <1>2, <1>3, <3>1
  <2>2. \A k \in 0..(D - 1) : StaysIn(body, q, q + 1, k)
    BY <1>3
  <2> QED  BY <1>2, <1>4, <2>1, <2>2, NotesBelow, SMTT(30)
<1>6. NoteAt(body, R, q + 1, newRet, Then, exact, D)
  <2>1. NoteAt(body, R, q, Ret, Then, exact, D) /\ D \in 0..Depth(body, q) /\ StaysIn(body, q, q + 1, D)
    BY <1>2, <1>3 DEF Notes
  <2>2. q \in R <=> body[q].op = "return" \/ q + 1 \in R
    <3>1. Behind(body, q) = q + 1
      BY DEF Behind
    <3> QED  BY <3>1 DEF IsReturning, StatementReturns, Openers
  <2>3. Cursor(body, q, D) = q /\ Cursor(body, q + 1, D) = q + 1
    BY <1>2, <1>3 DEF Cursor
  <2> QED  BY <1>2, <1>4, <2>1, <2>2, <2>3, NoteStays
<1>7. \A k \in 0..D : k \in 0..(D - 1) \/ k = D
  OBVIOUS
<1> QED  BY <1>3, <1>5, <1>6, <1>7 DEF Notes

(* A statement that opens a list. *)
LEMMA NotesOpen ==
  ASSUME NEW body, Stream(body), Balanced(body), NEW R, NEW q \in 1..Len(body), body[q].op \in Openers,
         NEW Ret, NEW Then, NEW newRet, NEW newThen, NEW exact, Notes(body, R, q, Ret, Then, exact),
         \A k \in 0..Depth(body, q) : (k \in newRet <=> k \in Ret) /\ (k \in newThen <=> k \in Then),
         Depth(body, q) + 1 \notin newRet
  PROVE  Notes(body, R, q + 1, newRet, newThen, exact)
<1>1. Len(body) \in Nat
  BY DEF Stream
<1>2. PICK D \in Nat : D = Depth(body, q)
  BY StayingInLists
<1>3. Depth(body, q + 1) = D + 1 /\ \A k \in 0..D : StaysIn(body, q, q + 1, k)
  BY <1>2, StayingInLists DEF Openers, Marks
<1>4. q \in 1..(Len(body) + 1) /\ q + 1 \in q..(Len(body) + 1)
  BY <1>1
<1>5. \A k \in 0..(D - 1) : NoteAt(body, R, q + 1, newRet, newThen, exact, k)
  <2>1. \A j \in q..(q + 1) : Depth(body, j) >= D
    <3>1. \A j \in q..(q + 1) : j = q \/ j = q + 1
      OBVIOUS
    <3> QED  BY <1>2, <1>3, <3>1
  <2>2. \A k \in 0..(D - 1) : StaysIn(body, q, q + 1, k) /\ k \in 0..D
    BY <1>3
  <2> QED  BY <1>2, <1>4, <2>1, <2>2, NotesBelow
<1>6. Enclosing(body, q + 1, D + 1) = q /\ ~InElse(body, q, q + 1) /\ ListStart(body, q + 1, D + 1) = q + 1
  BY <1>2, OpensList
<1>7. NoteAt(body, R, q + 1, newRet, newThen, exact, D)
  <2>1. NoteAt(body, R, q, Ret, Then, exact, D) /\ D \in 0..Depth(body, q) /\ StaysIn(body, q, q + 1, D)
    BY <1>2, <1>3 DEF Notes
  <2>2. Cursor(body, q, D) = q /\ Cursor(body, q + 1, D) = q
    BY <1>2, <1>3, <1>6 DEF Cursor
  <2> QED  BY <1>2, <1>4, <2>1, <2>2, NoteStays
<1>8. NoteAt(body, R, q + 1, newRet, newThen, exact, D + 1)
  <2>1. Cursor(body, q + 1, D + 1) = q + 1
    BY <1>3 DEF Cursor
  <2> QED  BY <1>2, <1>6, <2>1 DEF NoteAt, Covers
<1>9. \A k \in 0..(D + 1) : k \in 0..(D - 1) \/ k = D \/ k = D + 1
  OBVIOUS
<1> QED  BY <1>3, <1>5, <1>7, <1>8, <1>9 DEF Notes

(* The else: the first list's note is kept, the second one starts.         *)
LEMMA NotesElse ==
  ASSUME NEW body, Stream(body), Balanced(body), NEW R \in SUBSET (1..Len(body)), IsReturning(body, R),
         NEW q \in 1..Len(body), body[q].op = "else",
         NEW Ret, NEW Then, NEW newRet, NEW newThen, NEW exact, Notes(body, R, q, Ret, Then, exact),
         \A k \in 0..(Depth(body, q) - 1) : (k \in newRet <=> k \in Ret) /\ (k \in newThen <=> k \in Then),
         Depth(body, q) \notin newRet, Depth(body, q) \in newThen <=> Depth(body, q) \in Ret
  PROVE  Notes(body, R, q + 1, newRet, newThen, exact)
<1>1. Len(body) \in Nat
  BY DEF Stream
<1>2. PICK D \in Nat \ {0} : D = Depth(body, q)
  BY StayingInLists
<1>3. Depth(body, q + 1) = D /\ \A k \in 0..(D - 1) : StaysIn(body, q, q + 1, k)
  BY <1>2, StayingInLists
<1>4. q \in 1..(Len(body) + 1) /\ q + 1 \in q..(Len(body) + 1)
  BY <1>1
<1>5. \A k \in 0..(D - 1) : NoteAt(body, R, q + 1, newRet, newThen, exact, k)
  <2>1. \A j \in q..(q + 1) : Depth(body, j) >= D
    <3>1. \A j \in q..(q + 1) : j = q \/ j = q + 1
      OBVIOUS
    <3> QED  BY <1>2, <1>3, <3>1
  <2> QED  BY <1>2, <1>3, <1>4, <2>1, NotesBelow
<1>6. PICK o : o = Enclosing(body, q, D)
  OBVIOUS
<1>7. /\ body[o].op = "ifelse" /\ ListEnd(body, o + 1) = q
      /\ ~InElse(body, o, q) /\ InElse(body, o, q + 1) /\ Enclosing(body, q + 1, D) = o
  <2>1. body[q].op \in Marks
    BY DEF Marks
  <2> QED  BY <1>2, <1>6, <2>1, MarkOf
<1>8. NoteAt(body, R, q + 1, newRet, newThen, exact, D)
  <2>1. ListStart(body, q + 1, D) = q + 1 /\ Cursor(body, q + 1, D) = q + 1
    BY <1>3, <1>7 DEF ListStart, StartIn, Cursor
  <2>2. NoteAt(body, R, q, Ret, Then, exact, D)
    <3>1. D \in 0..Depth(body, q)
      BY <1>2
    <3> QED  BY <3>1 DEF Notes
  <2>3. ListStart(body, q, D) = o + 1 /\ Cursor(body, q, D) = q
    BY <1>2, <1>6, <1>7 DEF ListStart, StartIn, Cursor
  <2>4. q \notin R
    BY DEF IsReturning, Marks
  <2>5. Covers(exact, o + 1 \in R, D \in newThen)
    BY <1>2, <2>2, <2>3, <2>4 DEF NoteAt, Covers
  <2> QED  BY <1>2, <1>7, <2>1, <2>5 DEF NoteAt, Covers
<1>9. \A k \in 0..D : k \in 0..(D - 1) \/ k = D
  OBVIOUS
<1> QED  BY <1>3, <1>5, <1>8, <1>9 DEF Notes

(* The end of a list: what its statement returns goes into the note of the *)
(* list around.                                                            *)
LEMMA NotesEnd ==
  ASSUME NEW body, Stream(body), Balanced(body), NEW R \in SUBSET (1..Len(body)), IsReturning(body, R),
         NEW q \in 1..Len(body), body[q].op = "end",
         NEW Ret, NEW Then, NEW newRet, NEW newThen, NEW exact, Notes(body, R, q, Ret, Then, exact),
         NEW d \in Nat, d = Depth(body, q) - 1,
         \A k \in 0..d : k \in newThen <=> k \in Then,
         \A k \in 0..(d - 1) : k \in newRet <=> k \in Ret,
         LET kind == body[Enclosing(body, q, Depth(body, q))].op
         IN /\ kind = "block" => (d \in newRet <=> d \in Ret \/ d + 1 \in Ret)
            /\ kind = "ifelse" => (d \in newRet <=> d \in Ret \/ (d + 1 \in Ret /\ d + 1 \in Then))
            /\ kind = "while" => (d \in newRet <=> d \in Ret)
            /\ kind = "if" => (d \in Ret => d \in newRet) /\ (exact => (d \in newRet => d \in Ret))
  PROVE  Notes(body, R, q + 1, newRet, newThen, exact)
<1>1. Len(body) \in Nat
  BY DEF Stream
<1>2. PICK D \in Nat \ {0} : D = Depth(body, q) /\ D = d + 1
  <2>1. Depth(body, q) \in Nat
    BY StayingInLists
  <2> QED  BY <2>1
<1>3. Depth(body, q + 1) = d /\ \A k \in 0..d : StaysIn(body, q, q + 1, k)
  <2>1. 0..(Depth(body, q) - 1) = 0..d
    OBVIOUS
  <2> QED  BY <2>1, StayingInLists
<1>4. q \in 1..(Len(body) + 1) /\ q + 1 \in q..(Len(body) + 1)
  BY <1>1
<1>5. \A k \in 0..(d - 1) : NoteAt(body, R, q + 1, newRet, newThen, exact, k)
  <2>1. \A j \in q..(q + 1) : Depth(body, j) >= d
    <3>1. \A j \in q..(q + 1) : j = q \/ j = q + 1
      OBVIOUS
    <3>2. Depth(body, q) >= d /\ Depth(body, q + 1) >= d
      BY <1>2, <1>3
    <3> QED  BY <3>1, <3>2
  <2>2. \A k \in 0..(d - 1) : StaysIn(body, q, q + 1, k) /\ k \in 0..d
    BY <1>3
  <2>3. d <= Depth(body, q)
    BY <1>2
  <2> QED  BY <1>4, <2>1, <2>2, <2>3, NotesBelow
<1>6. PICK o : o = Enclosing(body, q, D)
  OBVIOUS
<1>7. /\ o \in 1..(q - 1) /\ body[o].op \in Openers /\ Behind(body, o) = q + 1
      /\ body[o].op = "ifelse" => InElse(body, o, q)
  <2>1. body[q].op \in Marks /\ o = Enclosing(body, q, Depth(body, q))
    BY <1>2, <1>6 DEF Marks
  <2>2. o \in 1..(q - 1) /\ body[o].op \in Openers
    BY <2>1, MarkOf
  <2>3. Behind(body, o) = q + 1 /\ (body[o].op = "ifelse" => InElse(body, o, q))
    BY <2>1, MarkOf
  <2> QED  BY <2>2, <2>3
<1>8. o \in R <=> StatementReturns(body, R, o) \/ q + 1 \in R
  <2>1. o \in 1..Len(body) /\ body[o].op \notin Marks
    BY <1>1, <1>7 DEF Openers, Marks
  <2> QED  BY <1>7, <2>1 DEF IsReturning
<1>9. q \notin R
  BY DEF IsReturning, Marks
<1>10. NoteAt(body, R, q, Ret, Then, exact, D) /\ NoteAt(body, R, q, Ret, Then, exact, d)
  <2>1. D \in 0..Depth(body, q) /\ d \in 0..Depth(body, q)
    BY <1>2
  <2> QED  BY <2>1 DEF Notes
<1>11. /\ Covers(exact, StartIn(body, o, q) \in R, D \in Ret)
       /\ InElse(body, o, q) => Covers(exact, o + 1 \in R, D \in Then)
  <2>1. ListStart(body, q, D) = StartIn(body, o, q) /\ Cursor(body, q, D) = q
    BY <1>2, <1>6 DEF ListStart, Cursor
  <2> QED  BY <1>2, <1>6, <1>9, <1>10, <2>1 DEF NoteAt, Covers
<1>12. Covers(exact, ListStart(body, q, d) \in R, d \in newRet \/ q + 1 \in R)
  <2>1. Covers(exact, ListStart(body, q, d) \in R, d \in Ret \/ o \in R)
    <3>1. Cursor(body, q, d) = o
      BY <1>2, <1>6 DEF Cursor
    <3> QED  BY <1>10, <3>1 DEF NoteAt
  <2>2. CASE body[o].op = "block"
    <3>1. StartIn(body, o, q) = o + 1 /\ (StatementReturns(body, R, o) <=> o + 1 \in R)
      BY <2>2 DEF StartIn, InElse, StatementReturns
    <3> QED  BY <1>2, <1>6, <1>8, <1>11, <2>1, <2>2, <3>1 DEF Covers
  <2>3. CASE body[o].op = "ifelse"
    <3>1. StartIn(body, o, q) = ListEnd(body, o + 1) + 1 /\ InElse(body, o, q)
      BY <1>7, <2>3 DEF StartIn
    <3>2. StatementReturns(body, R, o) <=> o + 1 \in R /\ StartIn(body, o, q) \in R
      BY <2>3, <3>1 DEF StatementReturns
    <3> QED  BY <1>2, <1>6, <1>8, <1>11, <2>1, <2>3, <3>1, <3>2 DEF Covers
  <2>4. CASE body[o].op \in {"if", "while"}
    <3>1. ~StatementReturns(body, R, o)
      BY <2>4 DEF StatementReturns
    <3> QED  BY <1>2, <1>6, <1>8, <2>1, <2>4, <3>1 DEF Covers
  <2> QED  BY <1>7, <2>2, <2>3, <2>4 DEF Openers
<1>13. NoteAt(body, R, q + 1, newRet, newThen, exact, d)
  <2>1. Cursor(body, q + 1, d) = q + 1
    BY <1>3 DEF Cursor
  <2>2. StaysIn(body, q, q + 1, d)
    BY <1>3
  <2>3. CASE d = 0
    <3>1. ListStart(body, q + 1, d) = ListStart(body, q, d)
      BY <2>3 DEF ListStart
    <3> QED  BY <1>12, <2>1, <2>3, <3>1 DEF NoteAt
  <2>4. CASE d # 0
    <3>1. d \in 1..Depth(body, q) /\ d \in 0..d
      BY <1>2, <2>4
    <3>2. /\ Enclosing(body, q + 1, d) = Enclosing(body, q, d)
          /\ InElse(body, Enclosing(body, q, d), q + 1) = InElse(body, Enclosing(body, q, d), q)
          /\ ListStart(body, q + 1, d) = ListStart(body, q, d)
      BY <1>4, <2>2, <3>1, SameList
    <3> QED  BY <1>10, <1>12, <2>1, <3>1, <3>2 DEF NoteAt, Covers
  <2> QED  BY <2>3, <2>4
<1>14. \A k \in 0..d : k \in 0..(d - 1) \/ k = d
  OBVIOUS
<1> QED  BY <1>3, <1>5, <1>13, <1>14 DEF Notes

(* What is behind a return may be left out. *)
LEMMA NotesSkip ==
  ASSUME NEW body, Stream(body), Balanced(body), NEW R \in SUBSET (1..Len(body)), IsReturning(body, R),
         NEW q \in 1..(Len(body) + 1), NEW Ret, NEW Then, NEW exact, Notes(body, R, q, Ret, Then, exact),
         Depth(body, q) \in Ret
  PROVE  Notes(body, R, ListEnd(body, q), Ret, Then, exact)
<1>1. Len(body) \in Nat
  BY DEF Stream
<1>2. PICK r : r = ListEnd(body, q)
  OBVIOUS
<1>3. /\ r \in q..(Len(body) + 1) /\ Depth(body, r) = Depth(body, q)
      /\ \A j \in q..r : Depth(body, j) >= Depth(body, q)
      /\ \A j \in q..(r - 1) : ~(body[j].op \in Marks /\ Depth(body, j) = Depth(body, q))
  BY <1>2, ToListEnd
<1>4. PICK D \in Nat : D = Depth(body, q)
  BY DepthStarts
<1>5. \A k \in 0..D : StaysIn(body, q, r, k)
  <2>1. \A j \in q..r : Depth(body, j) \in Nat
    <3>1. \A j \in q..r : j \in 1..(Len(body) + 1)
      BY <1>1, <1>3
    <3> QED  BY <3>1, DepthStarts
  <2>2. \A j \in q..(r - 1) : j \in q..r
    BY <1>1, <1>3
  <2> QED  BY <1>3, <1>4, <2>1, <2>2 DEF StaysIn
<1>6. \A k \in 0..(D - 1) : NoteAt(body, R, r, Ret, Then, exact, k)
  <2>1. \A k \in 0..(D - 1) : StaysIn(body, q, r, k)
    BY <1>5
  <2> QED  BY <1>3, <1>4, <2>1, NotesBelow
<1>7. NoteAt(body, R, r, Ret, Then, exact, D)
  <2>1. D \in 0..Depth(body, q) /\ NoteAt(body, R, q, Ret, Then, exact, D) /\ StaysIn(body, q, r, D)
    BY <1>4, <1>5 DEF Notes
  <2> QED  BY <1>3, <1>4, <2>1, NoteStays
<1>8. \A k \in 0..D : k \in 0..(D - 1) \/ k = D
  OBVIOUS
<1> QED  BY <1>2, <1>3, <1>4, <1>6, <1>7, <1>8 DEF Notes

(* At the end of the body the note of its own list is what counts. *)
LEMMA NotesAtEnd ==
  ASSUME NEW body, Stream(body), Balanced(body), NEW Ret, NEW Then, NEW exact,
         Notes(body, Returning(body), Len(body) + 1, Ret, Then, exact)
  PROVE  Covers(exact, Len(body) + 1 \notin Reachable(body), 0 \in Ret)
<1>1. Len(body) \in Nat
  BY DEF Stream
<1>2. Depth(body, Len(body) + 1) = 0
  BY DepthEnds
<1>3. Covers(exact, 1 \in Returning(body), 0 \in Ret \/ Len(body) + 1 \in Returning(body))
  <2>1. 0 \in 0..Depth(body, Len(body) + 1)
    BY <1>2
  <2>2. NoteAt(body, Returning(body), Len(body) + 1, Ret, Then, exact, 0)
    BY <2>1 DEF Notes
  <2> QED  BY <1>2, <2>2 DEF NoteAt, ListStart, Cursor
<1>4. Len(body) + 1 \notin Returning(body)
  <2>1. Returning(body) \in SUBSET (1..Len(body))
    BY ReturningIs
  <2> QED  BY <1>1, <2>1
<1> QED  BY <1>3, <1>4, ReturningIsExact DEF Covers

----------------------------------------------------------------------------
(* The statements that open the lists of the walk, and the walk itself, can *)
(* be reached as long as no list around them has seen a return.            *)
Unreturned(Ret, k) == \A i \in 0..(k - 1) : i \notin Ret

LiveIn(body, q, Ret, Then, k) ==
  Unreturned(Ret, k) =>
    LET o == Enclosing(body, q, k)
    IN Live(body, o) /\ (InElse(body, o, q) /\ k \notin Then => Live(body, ListEnd(body, o + 1)))

LiveWalk(body, q, Ret, Then) ==
  /\ \A k \in 1..Depth(body, q) : LiveIn(body, q, Ret, Then, k)
  /\ Unreturned(Ret, Depth(body, q) + 1) => Live(body, q)

(* The start of the body can be reached. *)
LEMMA LiveBegins ==
  ASSUME NEW body, Stream(body), Balanced(body), NEW Ret, NEW Then
  PROVE  LiveWalk(body, 1, Ret, Then)
<1>1. Depth(body, 1) = 0
  BY DepthStarts
<1>2. Live(body, 1)
  BY ReachableIsClosed DEF Live
<1> QED  BY <1>1, <1>2 DEF LiveWalk

(* The lists that the walk stays in. *)
LEMMA LiveBelow ==
  ASSUME NEW body, Stream(body), Balanced(body), NEW q \in 1..Len(body),
         NEW Ret, NEW Then, NEW newRet, NEW newThen, LiveWalk(body, q, Ret, Then),
         NEW d \in Nat, d <= Depth(body, q), \A k \in 0..d : StaysIn(body, q, q + 1, k),
         \A k \in 0..(d - 1) : k \in newRet <=> k \in Ret,
         \A k \in 0..d : k \in newThen <=> k \in Then
  PROVE  \A k \in 1..d : LiveIn(body, q + 1, newRet, newThen, k)
<1>1. Len(body) \in Nat
  BY DEF Stream
<1>2. Depth(body, q) \in Nat
  BY StayingInLists
<1>3. ASSUME NEW k \in 1..d  PROVE LiveIn(body, q + 1, newRet, newThen, k)
  <2>1. k \in 1..Depth(body, q) /\ k \in 0..d /\ q \in 1..(Len(body) + 1) /\ q + 1 \in q..(Len(body) + 1)
    BY <1>1, <1>2
  <2>2. /\ Enclosing(body, q + 1, k) = Enclosing(body, q, k)
        /\ InElse(body, Enclosing(body, q, k), q + 1) = InElse(body, Enclosing(body, q, k), q)
    BY <2>1, SameList
  <2>3. Unreturned(newRet, k) <=> Unreturned(Ret, k)
    <3>1. \A i \in 0..(k - 1) : i \in 0..(d - 1)
      OBVIOUS
    <3> QED  BY <3>1 DEF Unreturned
  <2>4. LiveIn(body, q, Ret, Then, k)
    BY <2>1 DEF LiveWalk
  <2> QED  BY <2>1, <2>2, <2>3, <2>4 DEF LiveIn
<1> QED  BY <1>3

(* A list with no return around and in it. *)
LEMMA UnreturnedSteps ==
  ASSUME NEW Ret, NEW newRet, NEW d \in Nat, \A k \in 0..(d - 1) : k \in newRet <=> k \in Ret,
         Unreturned(newRet, d + 1)
  PROVE  Unreturned(Ret, d) /\ d \notin newRet /\ (d \notin Ret => Unreturned(Ret, d + 1))
<1>1. \A i \in 0..((d + 1) - 1) : i \notin newRet
  BY DEF Unreturned
<1>2. \A i \in 0..((d + 1) - 1) : i \in 0..(d - 1) \/ i = d
  OBVIOUS
<1>3. \A i \in 0..(d - 1) : i \in 0..((d + 1) - 1)
  OBVIOUS
<1>4. d \in 0..((d + 1) - 1)
  OBVIOUS
<1>5. \A i \in 0..(d - 1) : i \notin Ret
  BY <1>1, <1>3
<1> QED  BY <1>1, <1>2, <1>4, <1>5 DEF Unreturned

(* A statement that opens no list, one that does, the else, and the end. *)
LEMMA LiveStatement ==
  ASSUME NEW body, Stream(body), Balanced(body), NEW q \in 1..Len(body), body[q].op \notin Openers \cup Marks,
         NEW Ret, NEW Then, NEW newRet, LiveWalk(body, q, Ret, Then),
         \A k \in 0..(Depth(body, q) - 1) : k \in newRet <=> k \in Ret,
         Depth(body, q) \in newRet <=> Depth(body, q) \in Ret \/ body[q].op = "return"
  PROVE  LiveWalk(body, q + 1, newRet, Then)
<1>1. PICK D \in Nat : D = Depth(body, q)
  BY StayingInLists
<1>2. Depth(body, q + 1) = D /\ \A k \in 0..D : StaysIn(body, q, q + 1, k)
  BY <1>1, StayingInLists
<1>3. \A k \in 1..D : LiveIn(body, q + 1, newRet, Then, k)
  BY <1>1, <1>2, LiveBelow
<1>4. ASSUME Unreturned(newRet, D + 1)  PROVE Live(body, q + 1)
  <2>1. Unreturned(Ret, D) /\ D \notin newRet /\ (D \notin Ret => Unreturned(Ret, D + 1))
    BY <1>1, <1>4, UnreturnedSteps
  <2>2. Live(body, q) /\ body[q].op # "return"
    BY <1>1, <2>1 DEF LiveWalk
  <2> QED  BY <2>2, LiveSteps DEF Marks
<1> QED  BY <1>2, <1>3, <1>4 DEF LiveWalk

LEMMA LiveOpen ==
  ASSUME NEW body, Stream(body), Balanced(body), NEW q \in 1..Len(body), body[q].op \in Openers,
         NEW Ret, NEW Then, NEW newRet, NEW newThen, LiveWalk(body, q, Ret, Then),
         \A k \in 0..Depth(body, q) : (k \in newRet <=> k \in Ret) /\ (k \in newThen <=> k \in Then)
  PROVE  LiveWalk(body, q + 1, newRet, newThen)
<1>1. PICK D \in Nat : D = Depth(body, q)
  BY StayingInLists
<1>2. Depth(body, q + 1) = D + 1 /\ \A k \in 0..D : StaysIn(body, q, q + 1, k)
  BY <1>1, StayingInLists DEF Openers, Marks
<1>3. \A k \in 1..D : LiveIn(body, q + 1, newRet, newThen, k)
  <2>1. \A k \in 0..(D - 1) : k \in 0..D
    OBVIOUS
  <2> QED  BY <1>1, <1>2, <2>1, LiveBelow
<1>4. ASSUME Unreturned(newRet, D + 1)  PROVE Live(body, q) /\ Live(body, q + 1)
  <2>1. \A k \in 0..(D - 1) : k \in newRet <=> k \in Ret
    <3>1. \A k \in 0..(D - 1) : k \in 0..D
      OBVIOUS
    <3> QED  BY <1>1, <3>1
  <2>2. D \in newRet <=> D \in Ret
    <3>1. D \in 0..D
      OBVIOUS
    <3> QED  BY <1>1, <3>1
  <2>3. Unreturned(Ret, D) /\ D \notin newRet /\ (D \notin Ret => Unreturned(Ret, D + 1))
    BY <1>1, <1>4, <2>1, UnreturnedSteps
  <2>4. Live(body, q)
    BY <1>1, <2>2, <2>3 DEF LiveWalk
  <2> QED  BY <2>4, LiveSteps DEF Openers
<1>5. LiveIn(body, q + 1, newRet, newThen, D + 1)
  <2>1. Enclosing(body, q + 1, D + 1) = q /\ ~InElse(body, q, q + 1)
    BY <1>1, OpensList
  <2> QED  BY <1>4, <2>1 DEF LiveIn
<1>6. Unreturned(newRet, (D + 1) + 1) => Unreturned(newRet, D + 1)
  <2>1. \A i \in 0..((D + 1) - 1) : i \in 0..(((D + 1) + 1) - 1)
    OBVIOUS
  <2> QED  BY <2>1 DEF Unreturned
<1>7. \A k \in 1..(D + 1) : k \in 1..D \/ k = D + 1
  OBVIOUS
<1> QED  BY <1>2, <1>3, <1>4, <1>5, <1>6, <1>7 DEF LiveWalk

LEMMA LiveElse ==
  ASSUME NEW body, Stream(body), Balanced(body), NEW q \in 1..Len(body), body[q].op = "else",
         NEW Ret, NEW Then, NEW newRet, NEW newThen, LiveWalk(body, q, Ret, Then),
         \A k \in 0..(Depth(body, q) - 1) : (k \in newRet <=> k \in Ret) /\ (k \in newThen <=> k \in Then),
         Depth(body, q) \in newThen <=> Depth(body, q) \in Ret
  PROVE  LiveWalk(body, q + 1, newRet, newThen)
<1>1. PICK D \in Nat \ {0} : D = Depth(body, q)
  BY StayingInLists
<1>2. Depth(body, q + 1) = D /\ \A k \in 0..(D - 1) : StaysIn(body, q, q + 1, k)
  BY <1>1, StayingInLists
<1>3. \A k \in 1..(D - 1) : LiveIn(body, q + 1, newRet, newThen, k)
  <2>1. D - 1 \in Nat /\ D - 1 <= Depth(body, q) /\ \A k \in 0..((D - 1) - 1) : k \in 0..(D - 1)
    BY <1>1
  <2> QED  BY <1>1, <1>2, <2>1, LiveBelow
<1>4. PICK o : o = Enclosing(body, q, D)
  OBVIOUS
<1>5. /\ o \in 1..(q - 1) /\ body[o].op = "ifelse" /\ ListEnd(body, o + 1) = q
      /\ Enclosing(body, q + 1, D) = o
  <2>1. body[q].op \in Marks /\ o = Enclosing(body, q, Depth(body, q))
    BY <1>1, <1>4 DEF Marks
  <2> QED  BY <1>1, <2>1, MarkOf
<1>6. LiveIn(body, q, Ret, Then, D)
  <2>1. D \in 1..Depth(body, q)
    BY <1>1
  <2> QED  BY <2>1 DEF LiveWalk
<1>7. \A n \in {newRet} : \A k \in 0..(D - 1) : k \in n <=> k \in Ret
  BY <1>1
<1>8. Unreturned(newRet, D) <=> Unreturned(Ret, D)
  BY <1>7 DEF Unreturned
<1>9. ASSUME Unreturned(newRet, D)  PROVE Live(body, o) /\ Live(body, q + 1)
  <2>1. Live(body, o)
    BY <1>4, <1>6, <1>8, <1>9 DEF LiveIn
  <2>2. o \in 1..Len(body)
    <3>1. Len(body) \in Nat
      BY DEF Stream
    <3> QED  BY <1>5, <3>1
  <2> QED  BY <1>5, <2>1, <2>2, LiveSteps
<1>10. ASSUME Unreturned(newRet, D), D \notin newThen  PROVE Live(body, q)
  <2>1. D \notin Ret
    BY <1>1, <1>10
  <2>2. Unreturned(Ret, D + 1)
    <3>1. \A i \in 0..((D + 1) - 1) : i \in 0..(D - 1) \/ i = D
      OBVIOUS
    <3> QED  BY <1>8, <1>10, <2>1, <3>1 DEF Unreturned
  <2> QED  BY <1>1, <2>2 DEF LiveWalk
<1>11. LiveIn(body, q + 1, newRet, newThen, D)
  BY <1>5, <1>9, <1>10 DEF LiveIn
<1>12. Unreturned(newRet, D + 1) => Unreturned(newRet, D)
  <2>1. \A i \in 0..(D - 1) : i \in 0..((D + 1) - 1)
    OBVIOUS
  <2> QED  BY <2>1 DEF Unreturned
<1>13. \A k \in 1..D : k \in 1..(D - 1) \/ k = D
  OBVIOUS
<1> QED  BY <1>2, <1>3, <1>9, <1>11, <1>12, <1>13 DEF LiveWalk

LEMMA LiveEnd ==
  ASSUME NEW body, Stream(body), Balanced(body), NEW q \in 1..Len(body), body[q].op = "end",
         NEW Ret, NEW Then, NEW newRet, NEW newThen, LiveWalk(body, q, Ret, Then),
         NEW d \in Nat, d = Depth(body, q) - 1,
         \A k \in 0..d : k \in newThen <=> k \in Then,
         \A k \in 0..(d - 1) : k \in newRet <=> k \in Ret,
         LET kind == body[Enclosing(body, q, Depth(body, q))].op
         IN d \notin newRet =>
              /\ d \notin Ret
              /\ kind = "block" => d + 1 \notin Ret
              /\ kind = "ifelse" => ~(d + 1 \in Ret /\ d + 1 \in Then)
  PROVE  LiveWalk(body, q + 1, newRet, newThen)
<1>1. PICK D \in Nat \ {0} : D = Depth(body, q) /\ D = d + 1
  <2>1. Depth(body, q) \in Nat
    BY StayingInLists
  <2> QED  BY <2>1
<1>2. Depth(body, q + 1) = d /\ \A k \in 0..d : StaysIn(body, q, q + 1, k)
  <2>1. 0..(Depth(body, q) - 1) = 0..d
    OBVIOUS
  <2> QED  BY <2>1, StayingInLists
<1>3. \A k \in 1..d : LiveIn(body, q + 1, newRet, newThen, k)
  <2>1. d <= Depth(body, q)
    BY <1>1
  <2> QED  BY <1>2, <2>1, LiveBelow
<1>4. PICK o : o = Enclosing(body, q, D)
  OBVIOUS
<1>5. o \in 1..(q - 1) /\ body[o].op \in Openers /\ Behind(body, o) = q + 1 /\ OpenerOf(body, q) = o
      /\ (body[o].op = "ifelse" => InElse(body, o, q))
  <2>1. body[q].op \in Marks /\ o = Enclosing(body, q, Depth(body, q))
    BY <1>1, <1>4 DEF Marks
  <2>2. o \in 1..(q - 1) /\ body[o].op \in Openers
    BY <2>1, MarkOf
  <2>3. Behind(body, o) = q + 1 /\ OpenerOf(body, q) = o /\ (body[o].op = "ifelse" => InElse(body, o, q))
    BY <2>1, MarkOf
  <2> QED  BY <2>2, <2>3
<1>6. ASSUME Unreturned(newRet, d + 1)  PROVE Live(body, q + 1)
  <2>1. Unreturned(Ret, d) /\ d \notin newRet /\ (d \notin Ret => Unreturned(Ret, d + 1))
    BY <1>6, UnreturnedSteps
  <2>2. Unreturned(Ret, D) /\ (body[o].op = "block" => D \notin Ret)
        /\ (body[o].op = "ifelse" => ~(D \in Ret /\ D \in Then))
    BY <1>1, <1>4, <2>1
  <2>3. LiveIn(body, q, Ret, Then, D)
    <3>1. D \in 1..Depth(body, q)
      BY <1>1
    <3> QED  BY <3>1 DEF LiveWalk
  <2>4. Live(body, o) /\ (InElse(body, o, q) /\ D \notin Then => Live(body, ListEnd(body, o + 1)))
    BY <1>4, <2>2, <2>3 DEF LiveIn
  <2>5. o \in 1..Len(body)
    <3>1. Len(body) \in Nat
      BY DEF Stream
    <3> QED  BY <1>5, <3>1
  <2>6. D \notin Ret => Live(body, q)
    <3>1. D \notin Ret => Unreturned(Ret, D + 1)
      <4>1. \A i \in 0..((D + 1) - 1) : i \in 0..(D - 1) \/ i = D
        OBVIOUS
      <4> QED  BY <2>2, <4>1 DEF Unreturned
    <3> QED  BY <1>1, <3>1 DEF LiveWalk
  <2>7. CASE body[o].op \in {"if", "while"}
    <3>1. Live(body, ListEnd(body, o + 1) + 1)
      BY <2>4, <2>5, <2>7, LiveSteps
    <3>2. Behind(body, o) = ListEnd(body, o + 1) + 1
      BY <2>7 DEF Behind, Openers
    <3> QED  BY <1>5, <3>1, <3>2
  <2>8. CASE body[o].op = "block"
    <3>1. body[OpenerOf(body, q)].op # "while"
      BY <1>5, <2>8
    <3> QED  BY <2>2, <2>6, <2>8, <3>1, LiveSteps
  <2>9. CASE body[o].op = "ifelse"
    <3>1. D \notin Ret => Live(body, q + 1)
      <4>1. body[OpenerOf(body, q)].op # "while"
        BY <1>5, <2>9
      <4> QED  BY <2>6, <4>1, LiveSteps
    <3>2. D \notin Then => Live(body, q + 1)
      <4>1. PICK e : e = ListEnd(body, o + 1)
        OBVIOUS
      <4>2. body[o].op \notin Marks
        BY <2>9 DEF Marks
      <4>3. e \in (o + 1)..Len(body) /\ body[e].op = "else" /\ Behind(body, o) = ElseEnd(body, e) + 1
        BY <1>5, <2>5, <2>9, <4>1, <4>2, StatementFacts
      <4>4. e \in 1..Len(body)
        BY <1>5, <4>3
      <4>5. D \notin Then => Live(body, e)
        BY <1>5, <2>4, <2>9, <4>1
      <4> QED  BY <1>5, <4>3, <4>4, <4>5, LiveSteps
    <3> QED  BY <2>2, <2>9, <3>1, <3>2
  <2> QED  BY <1>5, <2>7, <2>8, <2>9 DEF Openers
<1> QED  BY <1>2, <1>3, <1>6 DEF LiveWalk

(* The list of a statement that opens one of the walk's lists is not left. *)
LEMMA EnclosingIsOpen ==
  ASSUME NEW body, Stream(body), Balanced(body), NEW q \in 1..(Len(body) + 1), NEW k \in 1..Depth(body, q)
  PROVE  Enclosing(body, q, k) \in 1..(q - 1) /\ ListEnd(body, Enclosing(body, q, k)) >= q
<1>1. Len(body) \in Nat /\ Depth(body, q) \in Nat
  BY DepthStarts DEF Stream
<1>2. PICK o : o = Enclosing(body, q, k)
  OBVIOUS
<1>3. o \in 1..(q - 1) /\ body[o].op \in Openers /\ Depth(body, o) = k - 1 /\ \A j \in (o + 1)..q : Depth(body, j) >= k
  BY <1>2, EnclosingIs DEF Encloses
<1>4. IsOpen(body, o, q)
  <2>1. ASSUME NEW j \in o..(q - 1)  PROVE ~(body[j].op \in Marks /\ Depth(body, j) = Depth(body, o))
    <3>1. CASE j = o
      BY <1>3, <3>1 DEF Openers, Marks
    <3>2. CASE j # o
      <4>1. j \in (o + 1)..q
        BY <1>1, <1>3, <3>2
      <4> QED  BY <1>1, <1>3, <4>1
    <3> QED  BY <3>1, <3>2
  <2> QED  BY <2>1 DEF IsOpen
<1>5. o \in Nat \ {0} /\ q \in Nat /\ o <= q /\ q <= Len(body) + 1
  BY <1>1, <1>3
<1> QED  BY <1>1, <1>2, <1>3, <1>4, <1>5, ListEndIsAhead

----------------------------------------------------------------------------
(* The kind of the call for the list that o opens, when the walk is at q. *)
KindOf(body, o, q) ==
  IF body[o].op = "ifelse" THEN IF InElse(body, o, q) THEN "else" ELSE "then"
  ELSE IF body[o].op = "while" THEN "loop" ELSE body[o].op

(* A list that is not left keeps its kind. *)
LEMMA KindStays ==
  ASSUME NEW body, Stream(body), Balanced(body), NEW q \in 1..Len(body), NEW k \in 1..Depth(body, q),
         StaysIn(body, q, q + 1, k)
  PROVE  /\ Enclosing(body, q + 1, k) = Enclosing(body, q, k)
         /\ KindOf(body, Enclosing(body, q + 1, k), q + 1) = KindOf(body, Enclosing(body, q, k), q)
<1>1. Len(body) \in Nat
  BY DEF Stream
<1>2. q \in 1..(Len(body) + 1) /\ q + 1 \in q..(Len(body) + 1)
  BY <1>1
<1>3. /\ Enclosing(body, q + 1, k) = Enclosing(body, q, k)
      /\ InElse(body, Enclosing(body, q, k), q + 1) = InElse(body, Enclosing(body, q, k), q)
  BY <1>2, SameList
<1> QED  BY <1>3 DEF KindOf

(* Going to the end of a list leaves none. *)
LEMMA SkipStays ==
  ASSUME NEW body, Stream(body), Balanced(body), NEW q \in 1..(Len(body) + 1)
  PROVE  /\ ListEnd(body, q) \in q..(Len(body) + 1) /\ Depth(body, ListEnd(body, q)) = Depth(body, q)
         /\ \A k \in 1..Depth(body, q) :
              /\ Enclosing(body, ListEnd(body, q), k) = Enclosing(body, q, k)
              /\ KindOf(body, Enclosing(body, ListEnd(body, q), k), ListEnd(body, q))
                   = KindOf(body, Enclosing(body, q, k), q)
<1>1. Len(body) \in Nat
  BY DEF Stream
<1>2. PICK r : r = ListEnd(body, q)
  OBVIOUS
<1>3. /\ r \in q..(Len(body) + 1) /\ Depth(body, r) = Depth(body, q)
      /\ \A j \in q..r : Depth(body, j) >= Depth(body, q)
      /\ \A j \in q..(r - 1) : ~(body[j].op \in Marks /\ Depth(body, j) = Depth(body, q))
  BY <1>2, ToListEnd
<1>4. PICK D \in Nat : D = Depth(body, q)
  BY DepthStarts
<1>5. \A k \in 0..D : StaysIn(body, q, r, k)
  <2>1. \A j \in q..r : Depth(body, j) \in Nat
    <3>1. \A j \in q..r : j \in 1..(Len(body) + 1)
      BY <1>1, <1>3
    <3> QED  BY <3>1, DepthStarts
  <2>2. \A j \in q..(r - 1) : j \in q..r
    BY <1>1, <1>3
  <2> QED  BY <1>3, <1>4, <2>1, <2>2 DEF StaysIn
<1>6. ASSUME NEW k \in 1..Depth(body, q)
      PROVE  /\ Enclosing(body, r, k) = Enclosing(body, q, k)
             /\ KindOf(body, Enclosing(body, r, k), r) = KindOf(body, Enclosing(body, q, k), q)
  <2>1. StaysIn(body, q, r, k)
    BY <1>4, <1>5
  <2>2. /\ Enclosing(body, r, k) = Enclosing(body, q, k)
        /\ InElse(body, Enclosing(body, q, k), r) = InElse(body, Enclosing(body, q, k), q)
    BY <1>3, <2>1, SameList
  <2> QED  BY <2>2 DEF KindOf
<1> QED  BY <1>2, <1>3, <1>6

----------------------------------------------------------------------------
(* The text c is b with a return behind it. *)
WithReturn(b, c) ==
  Len(c) = Len(b) + 1 /\ (\A i \in 1..Len(b) : c[i] = b[i]) /\ c[Len(b) + 1].op = "return"

(* The depths are the same. *)
LEMMA SameDepths ==
  ASSUME NEW b, Stream(b), NEW c, Stream(c), WithReturn(b, c)
  PROVE  \A p \in 1..(Len(b) + 1) : Depth(c, p) = Depth(b, p)
<1>1. PICK n \in Nat : n = Len(b)
  BY DEF Stream
<1>2. Len(c) = n + 1 /\ \A i \in 1..((n + 1) - 1) : c[i] = b[i]
  BY <1>1 DEF WithReturn
<1> QED  BY <1>1, <1>2, SamePrefix

(* A list that is closed in b is closed there in c, and the list around    *)
(* all is open to the end.                                                 *)
LEMMA SameListEnd ==
  ASSUME NEW b, Stream(b), NEW c, Stream(c), WithReturn(b, c), NEW p \in 1..(Len(b) + 1)
  PROVE  ListEnd(c, p) = IF ListEnd(b, p) = Len(b) + 1 THEN Len(c) + 1 ELSE ListEnd(b, p)
<1>1. PICK n \in Nat : n = Len(b) /\ Len(c) = n + 1 /\ p \in 1..(n + 1)
  BY DEF Stream, WithReturn
<1>2. PICK e, f : e = ListEnd(b, p) /\ f = ListEnd(c, p)
  OBVIOUS
<1>3. e \in p..(n + 1) /\ IsOpen(b, p, e) /\ (e # n + 1 => b[e].op \in Marks /\ Depth(b, e) = Depth(b, p))
  BY <1>1, <1>2, ListEndIs
<1>4. f \in p..((n + 1) + 1) /\ IsOpen(c, p, f) /\ (f # (n + 1) + 1 => c[f].op \in Marks /\ Depth(c, f) = Depth(c, p))
  <2>1. Len(c) \in Nat /\ p \in 1..(Len(c) + 1) /\ Len(c) + 1 = (n + 1) + 1
    BY <1>1
  <2> QED  BY <1>2, <2>1, ListEndIs
<1>5. \A i \in 1..(n + 1) : Depth(c, i) = Depth(b, i)
  BY <1>1, SameDepths
<1>6. (\A i \in 1..n : c[i] = b[i]) /\ c[n + 1].op \notin Marks
  BY <1>1 DEF WithReturn, Marks
<1>7. f # n + 1
  BY <1>1, <1>4, <1>6
<1>8. e # n + 1 => ~(e < f)
  <2> SUFFICES ASSUME e # n + 1, e < f  PROVE FALSE
    OBVIOUS
  <2>1. e \in p..(f - 1) /\ e \in 1..n /\ e \in 1..(n + 1)
    BY <1>1, <1>3, <1>4
  <2>2. c[e].op \in Marks /\ Depth(c, e) = Depth(c, p)
    BY <1>1, <1>3, <1>5, <1>6, <2>1
  <2> QED  BY <1>4, <2>1, <2>2 DEF IsOpen
<1>9. f # (n + 1) + 1 => ~(f < e)
  <2> SUFFICES ASSUME f # (n + 1) + 1, f < e  PROVE FALSE
    OBVIOUS
  <2>1. f \in p..(e - 1) /\ f \in 1..n /\ f \in 1..(n + 1)
    BY <1>1, <1>3, <1>4, <1>7
  <2>2. b[f].op \in Marks /\ Depth(b, f) = Depth(b, p)
    BY <1>1, <1>4, <1>5, <1>6, <2>1
  <2> QED  BY <1>3, <2>1, <2>2 DEF IsOpen
<1>10. e \in Nat /\ f \in Nat /\ e <= n + 1 /\ f <= (n + 1) + 1
  BY <1>1, <1>3, <1>4
<1>11. CASE e = n + 1
  <2>1. f = (n + 1) + 1
    BY <1>7, <1>9, <1>10, <1>11
  <2> QED  BY <1>1, <1>2, <1>11, <2>1
<1>12. CASE e # n + 1
  <2>1. f = e
    BY <1>7, <1>8, <1>9, <1>10, <1>12
  <2> QED  BY <1>1, <1>2, <1>12, <2>1
<1> QED  BY <1>11, <1>12

(* So c is as balanced as b. *)
LEMMA BalancedWithReturn ==
  ASSUME NEW b, Stream(b), Balanced(b), NEW c, Stream(c), WithReturn(b, c)
  PROVE  Balanced(c)
<1>1. PICK n \in Nat : n = Len(b) /\ Len(c) = n + 1 /\ DOMAIN b = 1..n /\ DOMAIN c = 1..(n + 1)
  BY DEF Stream, WithReturn
<1>2. (\A i \in 1..n : c[i] = b[i]) /\ c[n + 1].op = "return"
  BY <1>1 DEF WithReturn
<1>3. \A p \in 1..(n + 1) : ListEnd(c, p) = IF ListEnd(b, p) = n + 1 THEN (n + 1) + 1 ELSE ListEnd(b, p)
  BY <1>1, SameListEnd
<1>4. ListEnd(c, 1) = Len(c) + 1
  <2>1. ListEnd(b, 1) = n + 1 /\ 1 \in 1..(n + 1)
    BY <1>1 DEF Balanced
  <2> QED  BY <1>1, <1>3, <2>1
<1>5. ASSUME NEW p \in DOMAIN c, c[p].op \in Openers \cup {"else"}
      PROVE  ListEnd(c, p + 1) \in DOMAIN c /\ c[ListEnd(c, p + 1)].op = IF c[p].op = "ifelse" THEN "else" ELSE "end"
  <2>1. p # n + 1
    BY <1>2, <1>5 DEF Openers
  <2>2. p \in 1..n /\ p + 1 \in 1..(n + 1) /\ c[p] = b[p]
    BY <1>1, <1>2, <2>1
  <2>3. PICK e : e = ListEnd(b, p + 1)
    OBVIOUS
  <2>4. e \in 1..n /\ b[e].op = IF b[p].op = "ifelse" THEN "else" ELSE "end"
    BY <1>1, <1>5, <2>2, <2>3 DEF Balanced
  <2>5. ListEnd(c, p + 1) = e
    BY <1>1, <1>3, <2>2, <2>3, <2>4
  <2> QED  BY <1>1, <1>2, <2>2, <2>4, <2>5
<1> QED  BY <1>4, <1>5 DEF Balanced

(* What the statements of b return does not depend on the one behind it.   *)
LEMMA SameReturns ==
  ASSUME NEW b, Stream(b), Balanced(b), NEW c, Stream(c), WithReturn(b, c),
         NEW R \in SUBSET (1..Len(b)), IsReturning(b, R), NEW Q \in SUBSET (1..Len(c)), IsReturning(c, Q),
         NEW p \in 1..Len(b), b[p].op \notin Marks, \A q \in (p + 1)..Len(b) : Depth(b, q) > 0 => (q \in Q <=> q \in R)
  PROVE  /\ StatementReturns(c, Q, p) <=> StatementReturns(b, R, p)
         /\ Depth(b, p) > 0 => (p \in Q <=> p \in R)
<1>1. PICK n \in Nat : n = Len(b) /\ Len(c) = n + 1
  BY DEF Stream, WithReturn
<1>2. c[p] = b[p] /\ p \in 1..n /\ p \in 1..(n + 1)
  BY <1>1 DEF WithReturn
<1>3. \A i \in 1..(n + 1) : ListEnd(c, i) = IF ListEnd(b, i) = n + 1 THEN (n + 1) + 1 ELSE ListEnd(b, i)
  BY <1>1, SameListEnd
<1>4. PICK d \in Nat : d = Depth(b, p)
  BY <1>1, <1>2, DepthStarts
<1>5. b[p].op \in Openers =>
        LET e == ListEnd(b, p + 1)
            f == IF b[p].op = "ifelse" THEN ListEnd(b, e + 1) ELSE e
        IN /\ e \in (p + 1)..n /\ f \in (p + 1)..n /\ Behind(b, p) = f + 1
           /\ Depth(b, e) = d + 1
           /\ b[p].op = "ifelse" => b[e].op = "else" /\ f \in (e + 1)..n
  BY <1>1, <1>4, StatementFacts
<1>6. b[p].op \in Openers => Depth(b, p + 1) = d + 1
  BY <1>1, <1>4, StayingInLists
<1>7. b[p].op \in Openers => ListEnd(c, p + 1) = ListEnd(b, p + 1)
  <2>1. p + 1 \in 1..(n + 1)
    BY <1>2
  <2> QED  BY <1>1, <1>3, <1>5, <2>1
<1>8. b[p].op \in Openers => p + 1 \in (p + 1)..n /\ (p + 1 \in Q <=> p + 1 \in R)
  <2>1. b[p].op \in Openers => p + 1 \in (p + 1)..n
    BY <1>2, <1>5
  <2> QED  BY <1>1, <1>4, <1>6, <2>1
<1>9. b[p].op = "ifelse" =>
        LET e == ListEnd(b, p + 1)
        IN e + 1 \in (p + 1)..n /\ (e + 1 \in Q <=> e + 1 \in R) /\ ListEnd(c, e + 1) = ListEnd(b, e + 1)
  <2> SUFFICES ASSUME b[p].op = "ifelse"
               PROVE  LET e == ListEnd(b, p + 1)
                      IN e + 1 \in (p + 1)..n /\ (e + 1 \in Q <=> e + 1 \in R) /\ ListEnd(c, e + 1) = ListEnd(b, e + 1)
    OBVIOUS
  <2>1. PICK e : e = ListEnd(b, p + 1)
    OBVIOUS
  <2>2. PICK f : f = ListEnd(b, e + 1)
    OBVIOUS
  <2>3. e \in (p + 1)..n /\ f \in (e + 1)..n /\ Depth(b, e) = d + 1 /\ b[e].op = "else"
    BY <1>5, <2>1, <2>2 DEF Openers
  <2>4. e \in 1..n /\ e + 1 \in (p + 1)..n /\ e + 1 \in 1..(n + 1) /\ f # n + 1
    BY <1>2, <2>3
  <2>5. Depth(b, e + 1) = d + 1
    BY <1>1, <2>3, <2>4, StayingInLists
  <2>6. e + 1 \in Q <=> e + 1 \in R
    BY <1>1, <1>4, <2>4, <2>5
  <2>7. ListEnd(c, e + 1) = f
    BY <1>3, <2>2, <2>4
  <2> QED  BY <2>1, <2>2, <2>4, <2>6, <2>7
<1>10. StatementReturns(c, Q, p) <=> StatementReturns(b, R, p)
  BY <1>2, <1>7, <1>8, <1>9 DEF StatementReturns, Openers
<1>11. Behind(c, p) = Behind(b, p)
  <2>1. PICK e : e = ListEnd(b, p + 1)
    OBVIOUS
  <2>2. b[p].op = "ifelse" => ListEnd(c, e + 1) = ListEnd(b, e + 1)
    BY <1>9, <2>1
  <2> QED  BY <1>2, <1>7, <2>1, <2>2 DEF Behind, Openers
<1>12. Depth(b, p) > 0 => (Behind(b, p) \in Q <=> Behind(b, p) \in R)
  <2>1. PICK r : r = Behind(b, p)
    OBVIOUS
  <2>2. r \in (p + 1)..(n + 1) /\ Depth(b, r) = Depth(b, p)
    BY <1>1, <2>1, StatementFacts
  <2>3. Depth(b, n + 1) = 0
    BY <1>1, DepthEnds
  <2>4. Depth(b, p) > 0 => r # n + 1
    BY <1>4, <2>2, <2>3
  <2>5. Depth(b, p) > 0 => r \in (p + 1)..n
    BY <1>2, <2>2, <2>4
  <2> QED  BY <1>1, <2>1, <2>2, <2>5
<1>13. /\ p \in Q <=> StatementReturns(c, Q, p) \/ Behind(c, p) \in Q
       /\ p \in R <=> StatementReturns(b, R, p) \/ Behind(b, p) \in R
  BY <1>1, <1>2 DEF IsReturning
<1> QED  BY <1>10, <1>11, <1>12, <1>13

(* All of them, from the last one on. *)
LEMMA AllSameReturns ==
  ASSUME NEW b, Stream(b), Balanced(b), NEW c, Stream(c), WithReturn(b, c),
         NEW R \in SUBSET (1..Len(b)), IsReturning(b, R), NEW Q \in SUBSET (1..Len(c)), IsReturning(c, Q),
         NEW p \in 1..Len(b), b[p].op \notin Marks
  PROVE  StatementReturns(c, Q, p) <=> StatementReturns(b, R, p)
<1>1. PICK n \in Nat : n = Len(b) /\ Len(c) = n + 1
  BY DEF Stream, WithReturn
<1> DEFINE C == {q \in 1..n : Depth(b, q) > 0 /\ ~(q \in Q <=> q \in R)}
<1>2. C = {}
  <2> SUFFICES ASSUME C # {}  PROVE FALSE
    OBVIOUS
  <2>1. PICK q : q \in C /\ \A y \in C : y <= q
    <3>1. C \in SUBSET Int /\ \A y \in C : y <= n
      BY <1>1
    <3>2. PICK m : m = Max(C)
      OBVIOUS
    <3> HIDE DEF C
    <3> QED  BY <1>1, <3>1, <3>2, MaxOfBounded
  <2>2. q \in 1..n /\ Depth(b, q) > 0 /\ ~(q \in Q <=> q \in R)
    BY <2>1
  <2>3. \A r \in (q + 1)..n : Depth(b, r) > 0 => (r \in Q <=> r \in R)
    <3> SUFFICES ASSUME NEW r \in (q + 1)..n, Depth(b, r) > 0, ~(r \in Q <=> r \in R)  PROVE FALSE
      OBVIOUS
    <3>1. r \in C /\ r > q
      BY <2>2
    <3> QED  BY <2>1, <2>2, <3>1
  <2>4. b[q].op \notin Marks
    <3>1. c[q] = b[q] /\ q \in 1..(n + 1)
      BY <1>1, <2>2 DEF WithReturn
    <3> QED  BY <1>1, <2>2, <3>1 DEF IsReturning
  <2> QED  BY <1>1, <2>2, <2>3, <2>4, SameReturns
<1>3. \A q \in (p + 1)..n : Depth(b, q) > 0 => (q \in Q <=> q \in R)
  <2>1. \A q \in (p + 1)..n : q \in 1..n
    BY <1>1
  <2> QED  BY <1>2, <2>1
<1> QED  BY <1>1, <1>3, SameReturns

(* When a statement of the body's own list returns, the body does. *)
LEMMA BodyReturns ==
  ASSUME NEW b, Stream(b), Balanced(b), NEW R \in SUBSET (1..Len(b)), IsReturning(b, R),
         NEW p \in R, Depth(b, p) = 0
  PROVE  1 \in R
<1>1. PICK n \in Nat : n = Len(b)
  BY DEF Stream
<1> DEFINE S == {q \in R : Depth(b, q) = 0}
<1>2. PICK q : q \in S /\ \A y \in S : q <= y
  <2>1. S \in SUBSET Nat /\ p \in S
    <3>1. R \in SUBSET (1..n) /\ 1..n \subseteq Nat
      BY <1>1
    <3> QED  BY <3>1
  <2>2. PICK m : m = Min(S)
    OBVIOUS
  <2> HIDE DEF S
  <2> QED  BY <2>1, <2>2, MinOfNaturals
<1>3. q \in 1..n /\ q \in R /\ Depth(b, q) = 0
  BY <1>1, <1>2
<1> SUFFICES ASSUME q # 1  PROVE FALSE
  BY <1>3
<1>4. PICK r \in 1..n : r + 1 = q /\ r < q
  BY <1>3
<1>5. b[r].op \in Openers \/ b[r].op = "else" \/ b[r].op = "end" \/ b[r].op \notin Openers \cup Marks
  BY DEF Marks
<1>6. Depth(b, r) \in Nat /\ b[r].op \notin Openers /\ b[r].op # "else"
  <2>1. r \in 1..Len(b) /\ Depth(b, r + 1) = 0
    BY <1>1, <1>3, <1>4
  <2>2. PICK d, e : d = Depth(b, r) /\ e = Depth(b, r + 1)
    OBVIOUS
  <2>3. /\ d \in Nat /\ (b[r].op \in Openers => e = d + 1)
        /\ (b[r].op = "else" => e = d /\ d > 0)
    BY <2>1, <2>2, StayingInLists
  <2> QED  BY <2>1, <2>2, <2>3
<1>7. \A o \in 1..n : Depth(b, o) = 0 /\ b[o].op \notin Marks /\ Behind(b, o) = q => o \in S
  BY <1>1, <1>3 DEF IsReturning
<1>8. CASE b[r].op \notin Openers \cup Marks
  <2>1. Depth(b, r) = 0
    BY <1>1, <1>3, <1>4, <1>8, StayingInLists
  <2>2. Behind(b, r) = q
    BY <1>4, <1>8 DEF Behind
  <2> QED  BY <1>2, <1>4, <1>7, <1>8, <2>1, <2>2
<1>9. CASE b[r].op = "end"
  <2>1. Depth(b, r) = 1
    <3>1. r \in 1..Len(b) /\ Depth(b, r + 1) = 0
      BY <1>1, <1>3, <1>4
    <3>2. PICK d, e : d = Depth(b, r) /\ e = Depth(b, r + 1)
      OBVIOUS
    <3>3. d \in Nat /\ e = d - 1
      BY <1>9, <3>1, <3>2, StayingInLists
    <3> QED  BY <3>1, <3>2, <3>3
  <2>2. PICK o : o = Enclosing(b, r, Depth(b, r))
    OBVIOUS
  <2>3. o \in 1..(r - 1) /\ b[o].op \in Openers /\ Depth(b, o) = 0 /\ Behind(b, o) = q
    BY <1>1, <1>4, <1>9, <2>1, <2>2, MarkOf DEF Marks
  <2>4. o \in 1..n /\ o < q /\ b[o].op \notin Marks
    BY <1>4, <2>3 DEF Openers, Marks
  <2> QED  BY <1>2, <1>7, <2>3, <2>4
<1> QED  BY <1>5, <1>6, <1>8, <1>9

(* A statement that returns in c, in the body's own list, keeps control    *)
(* from coming to the end of b.                                            *)
LEMMA ReturnsInFront ==
  ASSUME NEW b, Stream(b), Balanced(b), NEW c, Stream(c), WithReturn(b, c),
         NEW p \in 1..Len(b), Depth(c, p) = 0, c[p].op \notin Marks, StatementReturns(c, Returning(c), p)
  PROVE  Len(b) + 1 \notin Reachable(b)
<1>1. PICK n \in Nat : n = Len(b)
  BY DEF Stream
<1>2. Balanced(c) /\ Returning(c) \in SUBSET (1..Len(c)) /\ IsReturning(c, Returning(c))
  BY BalancedWithReturn, ReturningIs
<1>3. Returning(b) \in SUBSET (1..Len(b)) /\ IsReturning(b, Returning(b))
  BY ReturningIs
<1>4. c[p] = b[p] /\ Depth(b, p) = 0
  <2>1. p \in 1..(Len(b) + 1)
    BY <1>1
  <2> QED  BY <2>1, SameDepths DEF WithReturn
<1>5. StatementReturns(b, Returning(b), p)
  BY <1>2, <1>3, <1>4, AllSameReturns
<1>6. p \in Returning(b)
  BY <1>3, <1>4, <1>5 DEF IsReturning
<1>7. 1 \in Returning(b)
  BY <1>3, <1>4, <1>6, BodyReturns
<1> QED  BY <1>7, ReturningIsExact
----------------------------------------------------------------------------
(* What a list that is left holds, is closed behind its end. *)
LEMMA SkippedIsClosed ==
  ASSUME NEW b, Stream(b), Balanced(b), NEW q \in 1..(Len(b) + 1), NEW e, e = ListEnd(b, q), e <= Len(b),
         NEW i \in q..(e - 1)
  PROVE  ~IsOpen(b, i, e + 1)
<1>1. PICK n \in Nat : n = Len(b)
  BY DEF Stream
<1>2. e \in q..n /\ e \in 1..n /\ b[e].op \in Marks /\ Depth(b, e) = Depth(b, q)
  <2>1. e \in q..(n + 1) /\ (e # n + 1 => b[e].op \in Marks /\ Depth(b, e) = Depth(b, q))
    BY <1>1, ListEndIs
  <2> QED  BY <1>1, <2>1
<1>3. i \in 1..(n + 1) /\ i \in q..e
  BY <1>1, <1>2
<1>4. Depth(b, i) >= Depth(b, q)
  BY <1>1, <1>3, ToListEnd
<1>5. PICK f : f = ListEnd(b, i)
  OBVIOUS
<1>6. /\ f \in i..(n + 1) /\ (f # n + 1 => b[f].op \in Marks /\ Depth(b, f) = Depth(b, i))
  BY <1>1, <1>3, <1>5, ListEndIs
<1>7. \A j \in i..f : Depth(b, j) >= Depth(b, i)
  BY <1>1, <1>3, <1>5, ToListEnd
<1> SUFFICES ASSUME IsOpen(b, i, e + 1)  PROVE FALSE
  OBVIOUS
<1>8. \A j \in i..((e + 1) - 1) : ~(b[j].op \in Marks /\ Depth(b, j) = Depth(b, i))
  BY DEF IsOpen
<1>9. CASE f <= e
  <2>1. f \in i..((e + 1) - 1) /\ f # n + 1
    BY <1>2, <1>3, <1>6, <1>9
  <2> QED  BY <1>6, <1>8, <2>1
<1>10. CASE f > e
  <2>1. e \in i..f /\ e \in i..((e + 1) - 1) /\ e \in 1..(n + 1)
    BY <1>2, <1>3, <1>6, <1>10
  <2>2. Depth(b, e) >= Depth(b, i)
    BY <1>7, <2>1
  <2>3. PICK x, y : x = Depth(b, e) /\ y = Depth(b, i)
    OBVIOUS
  <2>4. x \in Nat /\ y \in Nat
    BY <1>1, <1>3, <2>1, <2>3, DepthStarts
  <2>5. x = y
    BY <1>2, <1>4, <2>2, <2>3, <2>4
  <2> QED  BY <1>2, <1>8, <2>1, <2>3, <2>5
<1> QED  BY <1>2, <1>6, <1>9, <1>10

----------------------------------------------------------------------------
(* Where generated code stands in the source.  Visible: the declarations,  *)
(* by the given statements, that are open at q.  Code that stands at q     *)
(* leads to p if nothing has an effect on the way and what is visible at   *)
(* p was visible at q already.                                             *)
Visible(body, ops, q) == {i \in 1..(q - 1) : body[i].op \in ops /\ ListEnd(body, i) >= q}

LeadsTo(body, ops, q, p) ==
  Arrive(body, q) = Arrive(body, p) /\ Visible(body, ops, p) \subseteq Visible(body, ops, q)

LEMMA LeadsFurther ==
  ASSUME NEW body, NEW ops, NEW p, NEW q, NEW r, LeadsTo(body, ops, p, q), LeadsTo(body, ops, q, r)
  PROVE  LeadsTo(body, ops, p, r)
  BY DEF LeadsTo

(* What is visible further on and stands in front, was visible before.     *)
LEMMA VisibleAhead ==
  ASSUME NEW body, Len(body) \in Nat, NEW ops, NEW q \in 1..(Len(body) + 1), NEW p \in q..(Len(body) + 1),
         \A i \in q..(p - 1) : ~(body[i].op \in ops /\ ListEnd(body, i) >= p)
  PROVE  Visible(body, ops, p) \subseteq Visible(body, ops, q)
<1> SUFFICES ASSUME NEW i \in 1..(p - 1), body[i].op \in ops, ListEnd(body, i) >= p
             PROVE  i \in 1..(q - 1) /\ ListEnd(body, i) >= q
  BY DEF Visible
<1>1. PICK e : e = ListEnd(body, i)
  OBVIOUS
<1>2. e \in Int
  BY <1>1, ListEndIs
<1>3. i \notin q..(p - 1)
  OBVIOUS
<1> QED  BY <1>1, <1>2, <1>3

LEMMA VisibleNext ==
  ASSUME NEW body, Len(body) \in Nat, NEW ops, NEW p \in 1..Len(body)
  PROVE  /\ Visible(body, ops, p + 1) \subseteq Visible(body, ops, p) \cup {p}
         /\ body[p].op \notin ops => Visible(body, ops, p + 1) \subseteq Visible(body, ops, p)
<1>1. ASSUME NEW i \in Visible(body, ops, p + 1)
      PROVE  (i \in Visible(body, ops, p) \/ i = p) /\ body[i].op \in ops
  <2>1. i \in 1..((p + 1) - 1) /\ body[i].op \in ops /\ ListEnd(body, i) >= p + 1
    BY DEF Visible
  <2>2. PICK e : e = ListEnd(body, i)
    OBVIOUS
  <2>3. e \in Int
    BY <2>1, <2>2, ListEndIs
  <2>4. i # p => i \in 1..(p - 1) /\ e >= p
    BY <2>1, <2>2, <2>3
  <2> QED  BY <2>1, <2>2, <2>4 DEF Visible
<1> QED  BY <1>1

(* Behind a list nothing declared in it is visible. *)
LEMMA VisibleBehind ==
  ASSUME NEW body, Stream(body), Balanced(body), NEW ops, ops \subseteq {"arg", "let"},
         NEW p \in 1..Len(body), body[p].op \in Openers \cup {"else"}
  PROVE  Visible(body, ops, ListEnd(body, p + 1) + 1) \subseteq Visible(body, ops, p)
<1>1. PICK n \in Nat : n = Len(body)
  BY DEF Stream
<1>2. PICK e : e = ListEnd(body, p + 1)
  OBVIOUS
<1>3. e \in (p + 1)..n
  BY <1>1, <1>2, ElseIsAhead
<1>4. body[p].op \notin ops /\ body[e].op \notin ops
  <2>1. p + 1 \in 1..(n + 1)
    BY <1>1
  <2>2. e # Len(body) + 1 => body[e].op \in Marks
    BY <1>1, <1>2, <2>1, ListEndIs
  <2>3. body[e].op \in Marks
    BY <1>1, <1>3, <2>2
  <2> QED  BY <2>3 DEF Openers, Marks
<1>5. ASSUME NEW i \in p..((e + 1) - 1), body[i].op \in ops, ListEnd(body, i) >= e + 1
      PROVE  FALSE
  <2>1. i \in (p + 1)..(e - 1)
    <3>1. i # p /\ i # e
      BY <1>4, <1>5
    <3> QED  BY <1>1, <1>3, <3>1
  <2>2. ~IsOpen(body, i, e + 1)
    <3>1. p + 1 \in 1..(Len(body) + 1) /\ e <= Len(body)
      BY <1>1, <1>3
    <3> QED  BY <1>2, <2>1, <3>1, SkippedIsClosed
  <2>3. i \in Nat \ {0} /\ e + 1 \in Nat /\ i <= e + 1 /\ e + 1 <= Len(body) + 1 /\ Len(body) \in Nat
    BY <1>1, <1>3, <2>1
  <2> QED  BY <1>5, <2>2, <2>3, ListEndIsAhead
<1>6. p \in 1..(Len(body) + 1) /\ e + 1 \in p..(Len(body) + 1) /\ Len(body) \in Nat
  BY <1>1, <1>3
<1> QED  BY <1>2, <1>5, <1>6, VisibleAhead

(* What is visible at a loop is visible in all of its list. *)
LEMMA VisibleAgain ==
  ASSUME NEW body, Stream(body), Balanced(body), NEW ops, NEW o \in 1..Len(body), body[o].op \in Openers,
         NEW f \in (o + 1)..ListEnd(body, o + 1)
  PROVE  Visible(body, ops, o) \subseteq Visible(body, ops, f)
<1>1. PICK n \in Nat : n = Len(body)
  BY DEF Stream
<1>2. ListEnd(body, o + 1) \in (o + 1)..n
  BY <1>1, ElseIsAhead
<1>3. f \in Nat /\ o < f /\ f <= n
  BY <1>1, <1>2
<1> SUFFICES ASSUME NEW i \in 1..(o - 1), body[i].op \in ops, ListEnd(body, i) >= o
             PROVE  ListEnd(body, i) >= f
  <2>1. \A i \in 1..(o - 1) : i \in 1..(f - 1)
    BY <1>3
  <2> QED  BY <2>1 DEF Visible
<1>4. i \in Nat \ {0} /\ i <= o /\ o <= Len(body) + 1 /\ o \in Nat /\ Len(body) \in Nat /\ i <= f /\ f <= Len(body) + 1
  BY <1>1, <1>3
<1>5. IsOpen(body, i, o)
  BY <1>4, ListEndIsAhead
<1>6. Depth(body, o) >= Depth(body, i)
  <2>1. o \in i..o
    BY <1>4
  <2> QED  BY <1>4, <1>5, <2>1, StaysInside
<1>7. PICK x, y : x = Depth(body, o) /\ y = Depth(body, i)
  OBVIOUS
<1>8. x \in Nat /\ y \in Nat /\ y <= x
  <2>1. o \in 1..(Len(body) + 1) /\ i \in 1..(Len(body) + 1)
    BY <1>1, <1>3, <1>4
  <2> QED  BY <1>6, <1>7, <2>1, DepthStarts
<1>9. \A j \in (o + 1)..ListEnd(body, o + 1) : Depth(body, j) >= x + 1
  <2>1. o + 1 \in 1..(Len(body) + 1)
    BY <1>1
  <2>2. Depth(body, o + 1) = x + 1
    BY <1>7, StayingInLists
  <2> QED  BY <2>1, <2>2, ToListEnd
<1>10. IsOpen(body, i, f)
  <2> SUFFICES ASSUME NEW j \in i..(f - 1), body[j].op \in Marks, Depth(body, j) = y  PROVE FALSE
    BY <1>7 DEF IsOpen
  <2>1. CASE j < o
    <3>1. j \in i..(o - 1)
      BY <1>3, <2>1
    <3> QED  BY <1>5, <1>7, <3>1 DEF IsOpen
  <2>2. CASE j = o
    BY <2>2 DEF Openers, Marks
  <2>3. CASE j > o
    <3>1. j \in (o + 1)..ListEnd(body, o + 1)
      BY <1>2, <1>3, <2>3
    <3> QED  BY <1>8, <1>9, <3>1
  <2> QED  BY <1>3, <1>4, <2>1, <2>2, <2>3
<1> QED  BY <1>4, <1>10, ListEndIsAhead

(* The steps of control that the code of a statement does not show.        *)
LEMMA LeadsSteps ==
  ASSUME NEW body, Stream(body), Balanced(body), NEW ops, ops \subseteq {"arg", "let"}, NEW p \in 1..Len(body)
  PROVE  /\ body[p].op = "block" \/ body[p].op \in {"arg"} \ ops => LeadsTo(body, ops, p, p + 1)
         /\ body[p].op = "else" => LeadsTo(body, ops, p, ElseEnd(body, p) + 1)
         /\ body[p].op = "end" /\ body[OpenerOf(body, p)].op # "while" => LeadsTo(body, ops, p, p + 1)
         /\ body[p].op = "end" /\ body[OpenerOf(body, p)].op = "while" => LeadsTo(body, ops, p, OpenerOf(body, p))
<1>1. PICK n \in Nat : n = Len(body)
  BY DEF Stream
<1>2. p \in 1..(n + 1) /\ p # n + 1 /\ Len(body) \in Nat
  BY <1>1
<1>3. Arrive(body, p) = IF body[p].op \in {"arg", "block"} THEN Arrive(body, p + 1)
                        ELSE IF body[p].op = "else" THEN Arrive(body, ElseEnd(body, p) + 1)
                        ELSE IF body[p].op # "end" THEN p
                        ELSE IF body[OpenerOf(body, p)].op = "while" THEN OpenerOf(body, p)
                        ELSE Arrive(body, p + 1)
  BY <1>1, <1>2, ArriveIs
<1>4. body[p].op \notin ops => Visible(body, ops, p + 1) \subseteq Visible(body, ops, p)
  BY <1>2, VisibleNext
<1>5. CASE body[p].op = "block" \/ body[p].op \in {"arg"} \ ops
  BY <1>3, <1>4, <1>5 DEF LeadsTo
<1>6. CASE body[p].op = "else"
  <2>1. ElseEnd(body, p) = ListEnd(body, p + 1)
    BY DEF ElseEnd
  <2> QED  BY <1>3, <1>6, <2>1, VisibleBehind DEF LeadsTo
<1>7. CASE body[p].op = "end" /\ body[OpenerOf(body, p)].op # "while"
  BY <1>3, <1>4, <1>7 DEF LeadsTo
<1>8. CASE body[p].op = "end" /\ body[OpenerOf(body, p)].op = "while"
  <2>1. PICK o : o = OpenerOf(body, p)
    OBVIOUS
  <2>2. o \in 1..(p - 1) /\ body[o].op = "while" /\ ListEnd(body, o + 1) = p
    BY <1>8, <2>1, EndIsMatched
  <2>3. o \in 1..(n + 1) /\ o # n + 1 /\ o \in 1..Len(body) /\ p \in (o + 1)..ListEnd(body, o + 1)
    BY <1>1, <2>2
  <2>4. Arrive(body, o) = o
    BY <1>1, <2>2, <2>3, ArriveIs
  <2>5. Visible(body, ops, o) \subseteq Visible(body, ops, p)
    BY <2>2, <2>3, VisibleAgain DEF Openers
  <2> QED  BY <1>3, <1>8, <2>1, <2>4, <2>5 DEF LeadsTo
<1> QED  BY <1>5, <1>6, <1>7, <1>8
=============================================================================
