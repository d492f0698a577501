--------------------------- MODULE FrontEndProofs ---------------------------
(***************************************************************************)
(* Of the front end.  For every set of texts: LexInv is an invariant of    *)
(* Lexer, and with it that positions are true, that tokens cover the code  *)
(* in order and that only open strings and comments make the lexer throw.  *)
(* For every set of expressions: WalkInv and FailInv are invariants of     *)
(* Expressions, and with them that no node gets two owners and that no     *)
(* expression is refused in silence.                                       *)
(***************************************************************************)
EXTENDS Lexer, ExprGen, StreamLemmas, SequenceTheorems

TextOk == text \in Seq(Chars) /\ beyond \in Chars

LEMMA TextFacts ==
  ASSUME TextOk
  PROVE  /\ Len(text) \in Nat /\ Nul \in Nat \ {0} /\ End = Nul + 1 /\ Nul = Len(text) + 1
         /\ \A i \in 1..Len(text) : CharAt(i) = text[i] /\ CharAt(i) \in Chars
         /\ CharAt(Nul) = "nul"
         /\ \A i \in Nat : CharAt(i) \in Chars => i # Nul
<1>1. Len(text) \in Nat /\ Nul = Len(text) + 1 /\ End = Nul + 1
  BY DEF TextOk, Nul, End
<1>2. \A i \in 1..Len(text) : CharAt(i) = text[i] /\ CharAt(i) \in Chars
  BY <1>1 DEF TextOk, CharAt
<1>3. CharAt(Nul) = "nul"
  BY <1>1 DEF CharAt
<1>4. "nul" \notin Chars
  BY DEF Chars, Spaces, WordChars, Singles
<1> QED  BY <1>1, <1>2, <1>3, <1>4

----------------------------------------------------------------------------
(* Mode is defined by recursion over the text; there is such a function.   *)
Reads(f, k) == f = [p \in 1..k |-> IF p = 1 THEN "code" ELSE After(f[p - 1], CharAt(p - 1), CharAt(p))]

LEMMA ModeExists ==
  ASSUME NEW n \in Nat \ {0}
  PROVE  \E f : Reads(f, n)
<1> DEFINE S == {k \in Nat \ {0} : ~\E f : Reads(f, k)}
<1> SUFFICES ASSUME S # {}  PROVE FALSE
  OBVIOUS
<1>1. S \in SUBSET Nat
  OBVIOUS
<1>2. PICK m : m = Min(S)
  OBVIOUS
<1>3. m \in S /\ \A y \in S : m <= y
  BY <1>1, <1>2, MinOfNaturals
<1>4. m \in Nat \ {0} /\ ~\E f : Reads(f, m)
  BY <1>3
<1>5. CASE m = 1
  <2>1. Reads([p \in 1..1 |-> "code"], 1)
    BY DEF Reads
  <2> QED  BY <1>4, <1>5, <2>1
<1>6. CASE m # 1
  <2>1. PICK k \in Nat \ {0} : m = k + 1
    <3>1. m - 1 \in Nat \ {0} /\ m = (m - 1) + 1
      BY <1>4, <1>6
    <3> QED  BY <3>1
  <2>2. k \notin S
    BY <1>3, <2>1
  <2>3. PICK f : Reads(f, k)
    BY <2>2
  <2>4. /\ DOMAIN f = 1..k
        /\ \A p \in 1..k : f[p] = IF p = 1 THEN "code" ELSE After(f[p - 1], CharAt(p - 1), CharAt(p))
    BY <2>3 DEF Reads
  <2>5. PICK g : g = [p \in 1..m |-> IF p = m THEN After(f[k], CharAt(k), CharAt(m)) ELSE f[p]]
    OBVIOUS
  <2>6. /\ DOMAIN g = 1..m /\ g[m] = After(f[k], CharAt(k), CharAt(m)) /\ \A p \in 1..k : g[p] = f[p]
        /\ g = [p \in 1..m |-> g[p]]
    BY <2>1, <2>5
  <2>7. ASSUME NEW p \in 1..m
        PROVE  g[p] = IF p = 1 THEN "code" ELSE After(g[p - 1], CharAt(p - 1), CharAt(p))
    <3>1. CASE p = m
      <4>1. p - 1 = k /\ p # 1
        BY <2>1, <3>1
      <4>2. g[k] = f[k]
        BY <2>1, <2>6
      <4> QED  BY <2>6, <3>1, <4>1, <4>2
    <3>2. CASE p # m
      <4>1. p \in 1..k
        BY <2>1, <3>2
      <4>2. p # 1 => p - 1 \in 1..k
        BY <4>1
      <4>3. g[p] = f[p] /\ (p # 1 => g[p - 1] = f[p - 1])
        BY <2>6, <4>1, <4>2
      <4> QED  BY <2>4, <4>1, <4>3
    <3> QED  BY <3>1, <3>2
  <2>8. Reads(g, m)
    BY <2>6, <2>7 DEF Reads
  <2> QED  BY <1>4, <2>8
<1> QED  BY <1>5, <1>6

LEMMA ModeSteps ==
  ASSUME TextOk
  PROVE  /\ Mode[1] = "code"
         /\ \A p \in 1..Len(text) : Mode[p + 1] = After(Mode[p], CharAt(p), CharAt(p + 1))
<1>1. Nul \in Nat \ {0} /\ Nul = Len(text) + 1 /\ Len(text) \in Nat
  BY TextFacts
<1>2. \E f : Reads(f, Nul)
  BY <1>1, ModeExists
<1>3. Mode = CHOOSE f : Reads(f, Nul)
  BY DEF Mode, Reads
<1>4. Reads(Mode, Nul)
  BY <1>2, <1>3
<1>5. \A p \in 1..Nul : Mode[p] = IF p = 1 THEN "code" ELSE After(Mode[p - 1], CharAt(p - 1), CharAt(p))
  BY <1>4 DEF Reads
<1>6. ASSUME NEW p \in 1..Len(text)  PROVE Mode[p + 1] = After(Mode[p], CharAt(p), CharAt(p + 1))
  <2>1. p + 1 \in 1..Nul /\ p + 1 # 1 /\ (p + 1) - 1 = p
    BY <1>1
  <2> QED  BY <1>5, <2>1
<1>7. Mode[1] = "code"
  BY <1>1, <1>5
<1> QED  BY <1>6, <1>7

(* A mode lasts as long as the characters keep it. *)
LEMMA ModeLasts ==
  ASSUME TextOk, NEW a \in 1..Nul, NEW b \in a..Nul, NEW m, Mode[a] = m,
         \A p \in a..(b - 1) : After(m, CharAt(p), CharAt(p + 1)) = m
  PROVE  \A p \in a..b : Mode[p] = m
<1> DEFINE S == {p \in a..b : Mode[p] # m}
<1> SUFFICES ASSUME S # {}  PROVE FALSE
  OBVIOUS
<1>1. Nul \in Nat /\ Nul = Len(text) + 1 /\ Len(text) \in Nat
  BY TextFacts
<1>2. S \in SUBSET Nat
  BY <1>1
<1>3. PICK q : q = Min(S)
  OBVIOUS
<1>4. q \in S /\ \A y \in S : q <= y
  BY <1>2, <1>3, MinOfNaturals
<1>5. q \in a..b /\ Mode[q] # m /\ q # a
  BY <1>4
<1>6. PICK p \in a..(b - 1) : q = p + 1
  <2>1. q - 1 \in a..(b - 1) /\ q = (q - 1) + 1
    BY <1>1, <1>5
  <2> QED  BY <2>1
<1>7. p \in a..b /\ ~(q <= p) /\ p \in 1..Len(text)
  BY <1>1, <1>6
<1>8. Mode[p] = m
  BY <1>4, <1>7
<1>9. Mode[p + 1] = After(Mode[p], CharAt(p), CharAt(p + 1))
  BY <1>7, ModeSteps
<1> QED  BY <1>5, <1>6, <1>8, <1>9

----------------------------------------------------------------------------
(* Positions. *)
Place(loc) == loc \in Locations /\ IsTrue(loc)

LinesTo(i) == {k \in 1..(i - 1) : CharAt(k) = "newline"}
LinesFrom(i, j) == {k \in i..(j - 1) : CharAt(k) = "newline"}

LEMMA LinesFacts ==
  ASSUME NEW i \in Nat \ {0}
  PROVE  /\ LinesTo(i) \in SUBSET (1..(i - 1)) /\ IsFiniteSet(LinesTo(i)) /\ Cardinality(LinesTo(i)) \in 0..(i - 1)
         /\ Max(LinesTo(i) \cup {0}) \in LinesTo(i) \cup {0}
         /\ \A y \in LinesTo(i) \cup {0} : y <= Max(LinesTo(i) \cup {0})
<1>1. PICK L : L = LinesTo(i)
  OBVIOUS
<1>2. L \in SUBSET (1..(i - 1)) /\ i - 1 \in Nat
  BY <1>1 DEF LinesTo
<1>3. IsFiniteSet(1..(i - 1)) /\ Cardinality(1..(i - 1)) = i - 1
  <2>1. 1 \in Int /\ i - 1 \in Int /\ (1 > i - 1 => i - 1 = 0)
    BY <1>2
  <2> QED  BY <2>1, FS_Interval
<1>4. IsFiniteSet(L) /\ Cardinality(L) <= i - 1
  BY <1>2, <1>3, FS_Subset
<1>5. Cardinality(L) \in Nat
  BY <1>4, FS_CardinalityType
<1>6. L \cup {0} \in SUBSET Int /\ L \cup {0} # {} /\ \A y \in L \cup {0} : y <= i - 1
  BY <1>2
<1>7. Max(L \cup {0}) \in L \cup {0} /\ \A y \in L \cup {0} : y <= Max(L \cup {0})
  BY <1>2, <1>6, MaxOfBounded
<1> QED  BY <1>1, <1>2, <1>4, <1>5, <1>7

LEMMA PlaceIs ==
  ASSUME TextOk, NEW i \in 1..End, NEW line, NEW column, NEW loc,
         line = 1 + Cardinality(LinesTo(i)), column = i - Max(LinesTo(i) \cup {0}),
         loc = [index |-> i, line |-> line, column |-> column]
  PROVE  Place(loc)
<1>1. End \in Nat
  BY TextFacts
<1>2. PICK c : c = Cardinality(LinesTo(i))
  OBVIOUS
<1>3. PICK x : x = Max(LinesTo(i) \cup {0})
  OBVIOUS
<1>4. i \in Nat \ {0}
  OBVIOUS
<1>5. c \in 0..(i - 1) /\ x \in 0..(i - 1)
  <2>1. LinesTo(i) \in SUBSET (1..(i - 1)) /\ c \in 0..(i - 1) /\ x \in LinesTo(i) \cup {0}
    BY <1>2, <1>3, <1>4, LinesFacts
  <2> QED  BY <1>4, <2>1
<1>6. line \in 1..End /\ column \in 1..End
  BY <1>1, <1>2, <1>3, <1>5
<1>7. loc \in Locations
  BY <1>6 DEF Locations
<1>8. IsTrue(loc)
  <2>1. loc.index = i /\ loc.line = line /\ loc.column = column
    OBVIOUS
  <2> QED  BY <2>1 DEF IsTrue, LinesTo
<1> QED  BY <1>7, <1>8 DEF Place

LEMMA PlaceHas ==
  ASSUME NEW loc, Place(loc)
  PROVE  /\ loc = [index |-> loc.index, line |-> loc.line, column |-> loc.column] /\ loc.index \in 1..End
         /\ loc.line = 1 + Cardinality(LinesTo(loc.index))
         /\ loc.column = loc.index - Max(LinesTo(loc.index) \cup {0})
<1>1. loc \in Locations
  BY DEF Place
<1>2. loc = [index |-> loc.index, line |-> loc.line, column |-> loc.column] /\ loc.index \in 1..End
  BY <1>1 DEF Locations
<1> QED  BY <1>2 DEF Place, IsTrue, LinesTo

LEMMA PlaceIndex ==
  ASSUME TextOk, NEW loc, Place(loc)
  PROVE  loc.index \in 1..End /\ loc.index \in Nat \ {0} /\ End \in Nat /\ End = Nul + 1 /\ Nul \in Nat
<1>1. loc.index \in 1..End
  BY PlaceHas
<1>2. End \in Nat /\ End = Nul + 1 /\ Nul \in Nat
  BY TextFacts
<1> QED  BY <1>1, <1>2

LEMMA SkipToPlace ==
  ASSUME TextOk, NEW loc, Place(loc), NEW j \in loc.index..End
  PROVE  Place(SkipTo(loc, j)) /\ SkipTo(loc, j).index = j
<1>1. PICK i : i = loc.index
  OBVIOUS
<1>2. i \in Nat \ {0} /\ i <= End /\ End \in Nat /\ j \in i..End /\ j \in Nat \ {0} /\ j \in 1..End
  <2>1. i \in 1..End
    BY <1>1, PlaceHas
  <2>2. End \in Nat
    BY TextFacts
  <2> QED  BY <1>1, <2>1, <2>2
<1>3. PICK A : A = LinesTo(i)
  OBVIOUS
<1>4. PICK B : B = LinesFrom(i, j)
  OBVIOUS
<1>5. PICK D : D = LinesTo(j)
  OBVIOUS
<1>6. D = A \cup B /\ A \cap B = {} /\ A \in SUBSET (1..(i - 1)) /\ B \in SUBSET (i..(j - 1))
  BY <1>2, <1>3, <1>4, <1>5 DEF LinesTo, LinesFrom
<1>7. Cardinality(D) = Cardinality(A) + Cardinality(B) /\ Cardinality(A) \in Nat /\ Cardinality(B) \in Nat
  <2>1. IsFiniteSet(A) /\ IsFiniteSet(D) /\ Cardinality(A) \in 0..(i - 1)
    BY <1>2, <1>3, <1>5, LinesFacts
  <2>2. IsFiniteSet(B)
    BY <1>6, <2>1, FS_Subset
  <2>3. Cardinality(B) \in Nat /\ Cardinality(A \cap B) = 0
    BY <1>6, <2>2, FS_CardinalityType, FS_EmptySet
  <2>4. Cardinality(A \cup B) = Cardinality(A) + Cardinality(B) - Cardinality(A \cap B)
    BY <2>1, <2>2, FS_Union
  <2> QED  BY <1>6, <2>1, <2>3, <2>4
<1>8. PICK line : line = loc.line + Cardinality(B)
  OBVIOUS
<1>9. PICK column : column = IF B = {} THEN loc.column + (j - i) ELSE j - Max(B)
  OBVIOUS
<1>10. SkipTo(loc, j) = [index |-> j, line |-> line, column |-> column]
  BY <1>1, <1>4, <1>8, <1>9 DEF SkipTo, LinesFrom
<1>11. line = 1 + Cardinality(D)
  <2>1. loc.line = 1 + Cardinality(A)
    BY <1>1, <1>3, PlaceHas
  <2> QED  BY <1>7, <1>8, <2>1
<1>12. column = j - Max(D \cup {0})
  <2>1. CASE B = {}
    <3>1. PICK x : x = Max(A \cup {0})
      OBVIOUS
    <3>2. x \in A \cup {0}
      BY <1>2, <1>3, <3>1, LinesFacts
    <3>3. x \in Nat /\ loc.column = i - x
      BY <1>1, <1>2, <1>3, <1>6, <3>1, <3>2, PlaceHas
    <3>4. D = A
      BY <1>6, <2>1
    <3> QED  BY <1>2, <1>9, <2>1, <3>1, <3>3, <3>4
  <2>2. CASE B # {}
    <3>1. PICK x : x = Max(B)
      OBVIOUS
    <3>2. B \in SUBSET Int /\ \A y \in B : y <= j
      BY <1>2, <1>6
    <3>3. x \in B /\ \A y \in B : y <= x
      BY <1>2, <2>2, <3>1, <3>2, MaxOfBounded
    <3>4. x \in D \cup {0} /\ D \cup {0} \in SUBSET Nat /\ \A y \in D \cup {0} : y <= x
      BY <1>2, <1>6, <3>3
    <3>5. Max(D \cup {0}) = x
      BY <3>4, MaxIs
    <3> QED  BY <1>9, <2>2, <3>1, <3>5
  <2> QED  BY <2>1, <2>2
<1>13. Place(SkipTo(loc, j))
  BY <1>2, <1>5, <1>10, <1>11, <1>12, PlaceIs
<1> QED  BY <1>10, <1>13

LEMMA NextCharPlace ==
  ASSUME TextOk, NEW loc, Place(loc), NEW n \in Nat, loc.index + n <= End,
         \A k \in loc.index..(loc.index + n - 1) : CharAt(k) # "newline"
  PROVE  Place(NextChar(loc, n)) /\ NextChar(loc, n).index = loc.index + n
<1>1. PICK i : i = loc.index
  OBVIOUS
<1>2. PICK l \in Nat : l = loc.line
  BY TextFacts DEF Place, Locations
<1>3. PICK c \in Nat : c = loc.column
  BY TextFacts DEF Place, Locations
<1>4. loc = [index |-> i, line |-> l, column |-> c]
  BY <1>1, <1>2, <1>3, PlaceHas
<1>5. i \in Nat \ {0} /\ End \in Nat
  <2>1. i \in 1..End
    BY <1>1, PlaceHas
  <2> QED  BY <2>1, TextFacts
<1>6. PICK j : j = i + n
  OBVIOUS
<1>7. j \in loc.index..End /\ j - i = n
  BY <1>1, <1>5, <1>6
<1>8. LinesFrom(i, j) = {}
  <2>1. ASSUME NEW k \in i..(j - 1)  PROVE CharAt(k) # "newline"
    <3>1. k \in loc.index..(loc.index + n - 1)
      BY <1>1, <1>5, <1>6
    <3> QED  BY <3>1
  <2> QED  BY <2>1 DEF LinesFrom
<1>9. Cardinality(LinesFrom(i, j)) = 0
  BY <1>8, FS_EmptySet
<1>10. SkipTo(loc, j) = [index |-> j, line |-> l + 0, column |-> c + (j - i)]
  BY <1>1, <1>2, <1>3, <1>8, <1>9 DEF SkipTo, LinesFrom
<1>11. SkipTo(loc, j) = [index |-> j, line |-> l, column |-> c + n]
  BY <1>7, <1>10
<1>12. NextChar(loc, n) = [index |-> i + n, line |-> l, column |-> c + n]
  <2>1. PICK x : x = [loc EXCEPT !.index = @ + n]
    OBVIOUS
  <2>2. x = [index |-> i + n, line |-> l, column |-> c]
    BY <1>4, <2>1
  <2>3. NextChar(loc, n) = [x EXCEPT !.column = @ + n]
    BY <2>1 DEF NextChar
  <2> QED  BY <2>2, <2>3
<1> QED  BY <1>1, <1>6, <1>7, <1>11, <1>12, SkipToPlace

(* Skipping stops at the first position that is asked for, or at the end.  *)
LEMMA SkipStops ==
  ASSUME TextOk, NEW loc, Place(loc), NEW T, NEW S,
         \A j : j \in S <=> j \in loc.index..End /\ (j \in T \/ j = End),
         NEW to, to = SkipTo(loc, Min(S))
  PROVE  /\ Place(to) /\ to.index \in loc.index..End
         /\ to.index \in T \/ to.index = End
         /\ \A k \in loc.index..(to.index - 1) : k \notin T
<1>1. \A j : j \in S <=> j \in loc.index..End /\ (j \in T \/ j = End)
  OBVIOUS
<1>2. loc.index \in 1..End /\ End \in Nat
  BY PlaceIndex
<1>3. S \in SUBSET Nat /\ S # {}
  BY <1>1, <1>2
<1>4. PICK j : j = Min(S)
  OBVIOUS
<1>5. j \in S /\ \A y \in S : j <= y
  BY <1>3, <1>4, MinOfNaturals
<1>6. j \in loc.index..End /\ (j \in T \/ j = End)
  BY <1>1, <1>5
<1>7. ASSUME NEW k \in loc.index..(j - 1)  PROVE k \notin T
  <2>1. k \in loc.index..End /\ ~(j <= k)
    BY <1>2, <1>6
  <2> QED  BY <1>1, <1>5, <2>1
<1>8. Place(to) /\ to.index = j
  BY <1>1, <1>4, <1>6, SkipToPlace
<1> QED  BY <1>6, <1>7, <1>8

(* The loops that pass only characters of the text. *)
LEMMA SkipPasses ==
  ASSUME TextOk, NEW loc, Place(loc), loc.index <= Nul, NEW W, "nul" \notin W,
         NEW to, to = SkipTo(loc, Min({j \in loc.index..End : ~(CharAt(j) \in W) \/ j = End}))
  PROVE  /\ Place(to) /\ to.index \in loc.index..Nul /\ CharAt(to.index) \notin W
         /\ \A k \in loc.index..(to.index - 1) : CharAt(k) \in W
<1>1. PICK T : T = {j \in Nat : CharAt(j) \notin W}
  OBVIOUS
<1>2. loc.index \in 1..End /\ Nul \in Nat /\ End = Nul + 1 /\ CharAt(Nul) = "nul"
  BY PlaceIndex, TextFacts
<1>3. {j \in loc.index..End : ~(CharAt(j) \in W) \/ j = End} = {j \in loc.index..End : j \in T \/ j = End}
  BY <1>1, <1>2
<1>4. /\ Place(to) /\ to.index \in loc.index..End
      /\ to.index \in T \/ to.index = End
      /\ \A k \in loc.index..(to.index - 1) : k \notin T
  <2>1. PICK S : S = {j \in loc.index..End : j \in T \/ j = End}
    OBVIOUS
  <2>2. to = SkipTo(loc, Min(S))
    BY <1>3, <2>1
  <2>3. \A j : j \in S <=> j \in loc.index..End /\ (j \in T \/ j = End)
    BY <2>1
  <2> QED  BY <2>2, <2>3, SkipStops
<1>5. to.index # End
  <2>1. ASSUME to.index = End  PROVE FALSE
    <3>1. Nul \in loc.index..(to.index - 1)
      BY <1>2, <2>1
    <3> QED  BY <1>1, <1>2, <1>4, <3>1
  <2> QED  BY <2>1
<1>6. \A k \in loc.index..(to.index - 1) : k \in Nat
  BY <1>2, <1>4
<1>7. to.index \in loc.index..Nul
  BY <1>2, <1>4, <1>5
<1> QED  BY <1>1, <1>4, <1>5, <1>6, <1>7

----------------------------------------------------------------------------
Kinds == {"word", "number", "string", "double", "invalid", "eof"} \cup Singles
Tokens == [kind : Kinds, from : Locations, to : Locations]

(* Where the next token or comment may be looked for: a line comment ends  *)
(* in front of its newline.                                                *)
Here(i) == Mode[i] = "code" \/ (Mode[i] = "line" /\ CharAt(i) = "newline")

Covered == UNION {Extent(t) : t \in Range(tokens)} = {p \in OfTokens : p < location.index}
Ordered ==
  \A i \in DOMAIN tokens, j \in DOMAIN tokens :
    i < j => \A p \in Extent(tokens[i]), q \in Extent(tokens[j]) : p < q

LexInv ==
  /\ text \in Texts /\ beyond \in Beyond /\ stage \in {"lexing", "done", "thrown"}
  /\ Place(location)
  /\ tokens \in Seq(Tokens) /\ \A i \in DOMAIN tokens : Place(tokens[i].from) /\ Place(tokens[i].to)
  /\ Covered /\ Ordered
  /\ stage = "lexing" => location.index <= Nul /\ Here(location.index)
  /\ stage = "done" => location.index = End /\ Mode[Nul] \notin {"string", "block"}
  /\ stage = "thrown" => Mode[Nul] \in {"string", "block"}

LEMMA InvTextOk == LexInv => TextOk
  BY TextsAreTexts DEF LexInv, TextOk

(* In front of a token there are only spaces. *)
LEMMA StartFacts ==
  ASSUME LexInv, stage = "lexing"
  PROVE  /\ Place(Start) /\ Start.index \in location.index..Nul /\ CharAt(Start.index) \notin Spaces
         /\ Mode[Start.index] = "code" /\ \A p \in OfTokens : p \notin location.index..(Start.index - 1)
<1>1. TextOk /\ Place(location) /\ location.index <= Nul /\ Here(location.index)
  BY InvTextOk DEF LexInv
<1>2. PICK a \in 1..Nul : a = location.index
  BY <1>1, PlaceIndex
<1>3. /\ Place(Start) /\ Start.index \in location.index..Nul /\ CharAt(Start.index) \notin Spaces
      /\ \A k \in location.index..(Start.index - 1) : CharAt(k) \in Spaces
  <2>1. Start = SkipTo(location, Min({j \in location.index..End : ~(CharAt(j) \in Spaces) \/ j = End}))
    BY DEF Start, SkipWhile
  <2>2. "nul" \notin Spaces
    BY DEF Spaces
  <2> QED  BY <1>1, <2>1, <2>2, SkipPasses
<1>4. PICK s \in a..Nul : s = Start.index
  BY <1>2, <1>3
<1>5. Nul \in Nat /\ Nul = Len(text) + 1 /\ Len(text) \in Nat
  BY <1>1, TextFacts
<1>6. \A k \in a..(s - 1) : CharAt(k) \in Spaces
  BY <1>2, <1>3, <1>4
<1>7. \A d : \A c \in Spaces : After("code", c, d) = "code"
  BY DEF After, Spaces
<1>8. \A d : After("line", "newline", d) = "code"
  BY DEF After
<1>9. CASE Mode[a] = "code"
  <2>1. \A p \in a..s : Mode[p] = "code"
    BY <1>1, <1>2, <1>4, <1>6, <1>7, <1>9, ModeLasts
  <2>2. ASSUME NEW p \in OfTokens, p \in a..(s - 1)  PROVE FALSE
    <3>1. Mode[p] = "code" /\ CharAt(p) \in Spaces
      BY <1>2, <1>4, <1>5, <1>6, <2>1, <2>2
    <3> QED  BY <3>1, <2>2 DEF OfTokens
  <2> QED  BY <1>2, <1>3, <1>4, <1>5, <2>1, <2>2
<1>10. CASE Mode[a] # "code"
  <2>1. Mode[a] = "line" /\ CharAt(a) = "newline"
    BY <1>1, <1>2, <1>10 DEF Here
  <2>2. s # a
    BY <1>3, <1>4, <2>1 DEF Spaces
  <2>3. a + 1 \in 1..Nul /\ s \in (a + 1)..Nul /\ a \in 1..Len(text)
    BY <1>2, <1>4, <1>5, <2>2
  <2>4. Mode[a + 1] = "code"
    BY <1>1, <1>8, <2>1, <2>3, ModeSteps
  <2>5. \A p \in (a + 1)..(s - 1) : CharAt(p) \in Spaces
    BY <1>2, <1>5, <1>6
  <2>6. \A p \in (a + 1)..s : Mode[p] = "code"
    BY <1>1, <1>7, <2>3, <2>4, <2>5, ModeLasts
  <2>7. ASSUME NEW p \in OfTokens, p \in a..(s - 1)  PROVE FALSE
    <3>1. CASE p = a
      BY <2>1, <2>7, <3>1 DEF OfTokens
    <3>2. CASE p # a
      <4>1. Mode[p] = "code" /\ CharAt(p) \in Spaces
        BY <1>2, <1>4, <1>5, <1>6, <2>6, <2>7, <3>2
      <4> QED  BY <2>7, <4>1 DEF OfTokens
    <3> QED  BY <3>1, <3>2
  <2> QED  BY <1>2, <1>3, <1>4, <1>5, <2>3, <2>6, <2>7
<1> QED  BY <1>9, <1>10

----------------------------------------------------------------------------
(* What a token or comment has to bring with it. *)
OfTokensIn(i, j) == {p \in OfTokens : p \in i..(j - 1)}

SameText == text' = text /\ beyond' = beyond

LEMMA TextStays ==
  ASSUME SameText
  PROVE  /\ End' = End /\ Nul' = Nul /\ Mode' = Mode /\ OfTokens' = OfTokens /\ Locations' = Locations
         /\ \A i : CharAt(i)' = CharAt(i)
<1>1. \A i : CharAt(i)' = CharAt(i)
  BY DEF SameText, CharAt, Nul
<1>2. End' = End /\ Nul' = Nul
  BY DEF SameText, End, Nul
<1>3. Mode' = Mode
  BY DEF SameText, Mode, CharAt, Nul
<1>4. Locations' = Locations
  BY <1>2 DEF Locations
<1>5. OfTokens' = OfTokens
  BY <1>1, <1>3 DEF SameText, OfTokens
<1> QED  BY <1>1, <1>2, <1>3, <1>4, <1>5

LEMMA PlaceStays ==
  ASSUME SameText, NEW loc, Place(loc)
  PROVE  Place(loc)'
<1>1. IsTrue(loc)'
  <2>1. {k \in 1..(loc.index - 1) : CharAt(k)' = "newline"} = {k \in 1..(loc.index - 1) : CharAt(k) = "newline"}
    BY TextStays
  <2> QED  BY <2>1 DEF Place, IsTrue
<1>2. (loc \in Locations)'
  BY TextStays DEF Place
<1> QED  BY <1>1, <1>2 DEF Place

LEMMA Delivered ==
  ASSUME LexInv, stage = "lexing", NEW kind \in Kinds \cup {"comment"}, NEW to, Place(to), NEW next, Place(next),
         Deliver(kind, to, next), kind # "eof", Start.index < next.index,
         OfTokensIn(Start.index, next.index) =
           IF next.index = End \/ kind = "comment" THEN {} ELSE Extent(Token(kind, Start, to)),
         next.index = End => Mode[Nul] \notin {"string", "block"},
         next.index # End => Here(next.index)
  PROVE  LexInv'
<1>0. SameText /\ location' = next
  BY DEF Deliver, SameText
<1>1. PICK a \in Nat \ {0} : a = location.index
  BY InvTextOk, PlaceIndex DEF LexInv
<1>2. PICK start : start = Start
  OBVIOUS
<1>3. PICK s \in Nat : s = start.index
  BY <1>2, StartFacts, InvTextOk, PlaceIndex
<1>4. PICK n \in Nat : n = next.index
  BY InvTextOk, PlaceIndex
<1>5. /\ Place(start) /\ a <= s /\ s < n /\ n \in 1..End
      /\ \A p \in OfTokens : p \notin a..(s - 1)
  BY <1>1, <1>2, <1>3, <1>4, StartFacts, InvTextOk, PlaceIndex
<1>6. OfTokens \subseteq Nat
  BY InvTextOk, TextFacts DEF OfTokens
<1>7. {p \in OfTokens : p < n} = {p \in OfTokens : p < a} \cup OfTokensIn(s, n)
  <2>1. ASSUME NEW p \in OfTokens  PROVE p < n <=> p < a \/ p \in s..(n - 1)
    <3>1. p \in Nat /\ ~(a <= p /\ p < s)
      BY <1>5, <1>6
    <3> QED  BY <1>5, <3>1
  <2> QED  BY <2>1 DEF OfTokensIn
<1>8. PICK new : new = IF n = End THEN Token("eof", next, next) ELSE Token(kind, start, to)
  OBVIOUS
<1>9. tokens' = IF n # End /\ kind = "comment" THEN tokens ELSE Append(tokens, new)
  BY <1>2, <1>4, <1>8 DEF Deliver
<1>10. OfTokensIn(s, n) = IF n = End \/ kind = "comment" THEN {} ELSE Extent(new)
  BY <1>2, <1>3, <1>4, <1>8
<1>11. n = End => Extent(new) = {}
  BY <1>8 DEF Extent, Token
<1>12. n # End => Extent(new) \subseteq OfTokensIn(s, n) \/ kind = "comment"
  BY <1>10
<1>13. n = End \/ kind # "comment" => new \in Tokens /\ Place(new.from) /\ Place(new.to)
  BY <1>4, <1>5, <1>8 DEF Token, Tokens, Place, Kinds
<1>14. tokens \in Seq(Tokens) /\ \A i \in DOMAIN tokens : Place(tokens[i].from) /\ Place(tokens[i].to)
  BY DEF LexInv
<1>15. PICK len \in Nat : len = Len(tokens) /\ DOMAIN tokens = 1..len
  BY <1>14
<1>16. CASE n # End /\ kind = "comment"
  <2>1. tokens' = tokens
    BY <1>9, <1>16
  <2>2. {p \in OfTokens : p < n} = {p \in OfTokens : p < a}
    BY <1>7, <1>10, <1>16
  <2>3. Covered'
    BY <1>0, <1>1, <1>4, <2>1, <2>2, TextStays DEF Covered, LexInv
  <2>4. Ordered'
    BY <2>1 DEF Ordered, LexInv
  <2>5. (\A i \in DOMAIN tokens : Place(tokens[i].from) /\ Place(tokens[i].to))'
    BY <1>0, <1>14, <2>1, PlaceStays
  <2>6. stage' = "lexing"
    BY <1>4, <1>16 DEF Deliver
  <2>7. (location.index <= Nul /\ Here(location.index))'
    <3>1. n <= Nul /\ Here(n)
      BY <1>4, <1>5, <1>16, InvTextOk, TextFacts
    <3> QED  BY <1>0, <1>4, <3>1, TextStays DEF Here
  <2>8. Place(location)'
    BY <1>0, PlaceStays
  <2>9. (text \in Texts)' /\ (beyond \in Beyond)'
    BY <1>0 DEF LexInv, SameText
  <2>10. (tokens \in Seq(Tokens))'
    BY <1>0, <1>14, <2>1, TextStays DEF Tokens
  <2> QED  BY <2>10, <2>1, <2>3, <2>4, <2>5, <2>6, <2>7, <2>8, <2>9 DEF LexInv
<1>17. CASE ~(n # End /\ kind = "comment")
  <2>1. tokens' = Append(tokens, new) /\ new \in Tokens /\ Place(new.from) /\ Place(new.to)
    BY <1>9, <1>13, <1>17
  <2>2. /\ tokens' \in Seq(Tokens) /\ DOMAIN tokens' = 1..(len + 1) /\ tokens'[len + 1] = new
        /\ \A i \in 1..len : tokens'[i] = tokens[i]
    BY <1>14, <1>15, <2>1
  <2>3. Extent(new) = OfTokensIn(s, n)
    BY <1>10, <1>11, <1>17
  <2>4. Range(tokens') = Range(tokens) \cup {new}
    BY <1>15, <2>2 DEF Range
  <2>5. UNION {Extent(t) : t \in Range(tokens')} = (UNION {Extent(t) : t \in Range(tokens)}) \cup Extent(new)
    BY <2>4
  <2>6. UNION {Extent(t) : t \in Range(tokens)} = {p \in OfTokens : p < a}
    BY <1>1 DEF LexInv, Covered
  <2>7. UNION {Extent(t) : t \in Range(tokens')} = {p \in OfTokens : p < n}
    BY <1>7, <2>3, <2>5, <2>6
  <2>8. Covered'
    BY <1>0, <1>4, <2>7, TextStays DEF Covered
  <2>9. Ordered'
    <3>1. ASSUME NEW i \in 1..len  PROVE \A p \in Extent(tokens[i]) : p \in OfTokens /\ p < a
      <4>1. tokens[i] \in Range(tokens)
        BY <1>15 DEF Range
      <4> QED  BY <2>6, <4>1
    <3>2. \A q \in Extent(new) : q \in Nat /\ q >= s
      <4>1. ASSUME NEW q \in OfTokensIn(s, n)  PROVE q \in Nat /\ q >= s
        BY <1>6 DEF OfTokensIn
      <4> QED  BY <2>3, <4>1
    <3>3. ASSUME NEW i \in 1..(len + 1), NEW j \in 1..(len + 1), i < j,
                 NEW p \in Extent(tokens'[i]), NEW q \in Extent(tokens'[j])
          PROVE  p < q
      <4>1. i \in 1..len /\ tokens'[i] = tokens[i]
        BY <2>2, <3>3
      <4>2. CASE j = len + 1
        <5>1. p \in Nat /\ p < a /\ q \in Nat /\ q >= s
          BY <1>6, <2>2, <3>1, <3>2, <3>3, <4>1, <4>2
        <5> QED  BY <1>5, <5>1
      <4>3. CASE j # len + 1
        <5>1. j \in 1..len /\ tokens'[j] = tokens[j]
          BY <2>2, <4>3
        <5> QED  BY <1>15, <3>3, <4>1, <5>1 DEF LexInv, Ordered
      <4> QED  BY <4>2, <4>3
    <3> QED  BY <2>2, <3>3 DEF Ordered
  <2>10. (\A i \in DOMAIN tokens : Place(tokens[i].from) /\ Place(tokens[i].to))'
    <3>1. ASSUME NEW i \in 1..(len + 1)  PROVE Place(tokens'[i].from) /\ Place(tokens'[i].to)
      BY <1>14, <1>15, <2>1, <2>2
    <3> QED  BY <1>0, <2>2, <3>1, PlaceStays
  <2>11. stage' = IF n = End THEN "done" ELSE "lexing"
    BY <1>4 DEF Deliver
  <2>12. n # End => (location.index <= Nul /\ Here(location.index))'
    <3>1. ASSUME n # End  PROVE n <= Nul /\ Here(n)
      BY <1>4, <1>5, <3>1, InvTextOk, TextFacts
    <3> QED  BY <1>0, <1>4, <3>1, TextStays DEF Here
  <2>13. n = End => (location.index = End /\ Mode[Nul] \notin {"string", "block"})'
    BY <1>0, <1>4, TextStays
  <2>14. Place(location)'
    BY <1>0, PlaceStays
  <2>15. (text \in Texts)' /\ (beyond \in Beyond)'
    BY <1>0 DEF LexInv, SameText
  <2>16. (tokens \in Seq(Tokens))'
    BY <1>0, <2>2, TextStays DEF Tokens
  <2> QED  BY <2>16, <2>8, <2>9, <2>10, <2>11, <2>12, <2>13, <2>14, <2>15 DEF LexInv
<1> QED  BY <1>16, <1>17

----------------------------------------------------------------------------
(* The kinds of tokens. *)
LEMMA CodeRun ==
  ASSUME TextOk, NEW s \in 1..Nul, NEW j \in s..Nul, Mode[s] = "code",
         \A k \in s..(j - 1) : CharAt(k) \notin Spaces \cup {"quote", "slash"}
  PROVE  Mode[j] = "code" /\ OfTokensIn(s, j) = s..(j - 1)
<1>1. Nul \in Nat /\ Nul = Len(text) + 1 /\ Len(text) \in Nat
  BY TextFacts
<1>2. \A c, d : c \notin {"quote", "slash"} => After("code", c, d) = "code"
  BY DEF After
<1>3. \A p \in s..j : Mode[p] = "code"
  BY <1>2, ModeLasts
<1>4. ASSUME NEW p \in s..(j - 1)  PROVE p \in OfTokens
  <2>1. p \in 1..Len(text) /\ p \in s..j /\ p + 1 \in s..j
    BY <1>1
  <2>2. Mode[p] = "code" /\ Mode[p + 1] = "code" /\ CharAt(p) \notin Spaces
    BY <1>3, <2>1
  <2> QED  BY <2>1, <2>2 DEF OfTokens
<1> QED  BY <1>1, <1>3, <1>4 DEF OfTokensIn

LEMMA RangeExtent ==
  ASSUME NEW kind, kind # "eof", NEW from, NEW to, from.index # to.index
  PROVE  Extent(Token(kind, from, to)) = from.index..(to.index - 1)
  BY DEF Extent, Token

LEMMA LexingFacts ==
  ASSUME LexInv, stage = "lexing"
  PROVE  /\ TextOk /\ Place(Start) /\ Start.index \in 1..Nul /\ Nul \in Nat /\ End = Nul + 1 /\ Nul = Len(text) + 1
         /\ Len(text) \in Nat /\ First = CharAt(Start.index) /\ Second = CharAt(Start.index + 1)
         /\ First \notin Spaces /\ Mode[Start.index] = "code"
         /\ \A i \in 1..Nul : CharAt(i) # "nul" => i \in 1..Len(text)
<1>1. TextOk
  BY InvTextOk
<1>2. Place(Start) /\ Start.index \in location.index..Nul /\ CharAt(Start.index) \notin Spaces /\ Mode[Start.index] = "code"
  BY StartFacts
<1>3. Nul \in Nat /\ End = Nul + 1 /\ Nul = Len(text) + 1 /\ Len(text) \in Nat /\ CharAt(Nul) = "nul"
  BY <1>1, TextFacts
<1>4. location.index \in Nat \ {0}
  BY <1>1, PlaceIndex DEF LexInv
<1>5. Start.index \in 1..Nul
  BY <1>2, <1>3, <1>4
<1>6. \A i \in 1..Nul : CharAt(i) # "nul" => i \in 1..Len(text)
  BY <1>3
<1> QED  BY <1>1, <1>2, <1>3, <1>5, <1>6 DEF First, Second

(* A token of characters that neither open nor end anything. *)
LEMMA RunKeepsInv ==
  ASSUME LexInv, stage = "lexing", NEW kind \in Kinds, kind # "eof", NEW to, Place(to), to.index > Start.index, to.index <= Nul,
         \A k \in Start.index..(to.index - 1) : CharAt(k) \notin Spaces \cup {"quote", "slash"},
         Deliver(kind, to, to)
  PROVE  LexInv'
<1>1. PICK s \in 1..Nul : s = Start.index
  BY LexingFacts
<1>2. PICK j \in s..Nul : j = to.index
  BY <1>1, LexingFacts, PlaceIndex
<1>3. Mode[j] = "code" /\ OfTokensIn(s, j) = s..(j - 1)
  BY <1>1, <1>2, LexingFacts, CodeRun
<1>4. Extent(Token(kind, Start, to)) = s..(j - 1)
  BY <1>1, <1>2, RangeExtent
<1>5. j # End /\ s < j /\ kind # "comment"
  <2>1. kind # "comment"
    BY DEF Kinds, Singles
  <2> QED  BY <1>1, <1>2, <2>1, LexingFacts
<1>6. Here(to.index)
  BY <1>2, <1>3 DEF Here
<1> QED  BY <1>1, <1>2, <1>3, <1>4, <1>5, <1>6, Delivered

LEMMA WordKeepsInv == LexInv /\ MakeWord => LexInv'
<1> SUFFICES ASSUME LexInv, MakeWord  PROVE LexInv'
  OBVIOUS
<1>1. PICK to : to = SkipTo(Start, Min({j \in Start.index..End : ~(CharAt(j) \in WordChars) \/ j = End}))
  OBVIOUS
<1>2. stage = "lexing" /\ First = "letter" /\ Deliver("word", to, to)
  BY <1>1 DEF MakeWord, SkipWhile
<1>3. "nul" \notin WordChars /\ "letter" \in WordChars
  BY DEF WordChars
<1>4. Start.index <= Nul /\ Start.index \in Nat
  BY <1>2, LexingFacts
<1>5. /\ Place(to) /\ to.index \in Start.index..Nul /\ CharAt(to.index) \notin WordChars
      /\ \A k \in Start.index..(to.index - 1) : CharAt(k) \in WordChars
  BY <1>1, <1>2, <1>3, <1>4, LexingFacts, SkipPasses
<1>6. to.index > Start.index /\ to.index <= Nul
  <2>1. CharAt(Start.index) = "letter"
    BY <1>2, LexingFacts
  <2>2. to.index # Start.index
    BY <1>3, <1>5, <2>1
  <2>3. to.index \in Nat /\ Nul \in Nat
    BY <1>2, <1>4, <1>5, LexingFacts
  <2> QED  BY <1>4, <1>5, <2>2, <2>3
<1>7. \A k \in Start.index..(to.index - 1) : CharAt(k) \notin Spaces \cup {"quote", "slash"}
  BY <1>5 DEF WordChars, Spaces
<1> QED  BY <1>2, <1>5, <1>6, <1>7, RunKeepsInv DEF Kinds

LEMMA NumberKeepsInv == LexInv /\ MakeNumber => LexInv'
<1> SUFFICES ASSUME LexInv, MakeNumber  PROVE LexInv'
  OBVIOUS
<1>0. PICK Digits : Digits = {"digit"}
  OBVIOUS
<1>1. PICK whole : whole = SkipTo(Start, Min({j \in Start.index..End : ~(CharAt(j) \in Digits) \/ j = End}))
  OBVIOUS
<1>2. PICK behind : behind = NextChar(whole, 1)
  OBVIOUS
<1>3. PICK rest : rest = SkipTo(behind, Min({j \in behind.index..End : ~(CharAt(j) \in Digits) \/ j = End}))
  OBVIOUS
<1>4. PICK to : to = IF CharAt(whole.index) = "dot" THEN rest ELSE whole
  OBVIOUS
<1>5. stage = "lexing" /\ First = "digit" /\ Deliver("number", to, to)
  <2>1. \A loc : {j \in loc.index..End : ~(CharAt(j) \in Digits) \/ j = End} =
                   {j \in loc.index..End : ~(CharAt(j) = "digit") \/ j = End}
    BY <1>0
  <2> QED  BY <1>1, <1>2, <1>3, <1>4, <2>1 DEF MakeNumber, SkipWhile
<1>6. PICK s \in 1..Nul : s = Start.index /\ CharAt(s) = "digit"
  BY <1>5, LexingFacts
<1>7. TextOk /\ Place(Start) /\ Nul \in Nat /\ End = Nul + 1 /\ \A i \in 1..Nul : CharAt(i) # "nul" => i \in 1..Len(text)
  BY <1>5, LexingFacts
<1>8. /\ Place(whole) /\ whole.index \in s..Nul /\ CharAt(whole.index) \notin Digits
      /\ \A k \in s..(whole.index - 1) : CharAt(k) \in Digits
  <2>1. Start.index <= Nul /\ "nul" \notin Digits
    BY <1>0, <1>6, <1>7
  <2>2. /\ Place(whole) /\ whole.index \in Start.index..Nul /\ CharAt(whole.index) \notin Digits
        /\ \A k \in Start.index..(whole.index - 1) : CharAt(k) \in Digits
    BY <1>1, <1>7, <2>1, SkipPasses
  <2> QED  BY <1>6, <2>2
<1>9. PICK w \in (s + 1)..Nul : w = whole.index
  <2>1. whole.index # s
    BY <1>0, <1>6, <1>8
  <2> QED  BY <1>7, <1>8, <2>1
<1>10. CASE CharAt(w) # "dot"
  <2>1. to = whole
    BY <1>4, <1>9, <1>10
  <2>2. \A k \in s..(to.index - 1) : CharAt(k) \notin Spaces \cup {"quote", "slash"}
    BY <1>0, <1>8, <2>1 DEF Spaces
  <2>3. to.index > s /\ to.index <= Nul
    BY <1>7, <1>9, <2>1
  <2> QED  BY <1>5, <1>6, <1>8, <2>1, <2>2, <2>3, RunKeepsInv DEF Kinds
<1>11. CASE CharAt(w) = "dot"
  <2>1. w < Nul
    <3>1. CharAt(Nul) = "nul"
      BY <1>7, TextFacts
    <3> QED  BY <1>7, <1>9, <1>11, <3>1
  <2>2. Place(behind) /\ behind.index = w + 1
    <3>1. whole.index + 1 <= End /\ \A k \in whole.index..(whole.index + 1 - 1) : CharAt(k) # "newline"
      BY <1>7, <1>9, <1>11, <2>1
    <3> QED  BY <1>2, <1>7, <1>8, <1>9, <3>1, NextCharPlace
  <2>3. /\ Place(rest) /\ rest.index \in (w + 1)..Nul
        /\ \A k \in (w + 1)..(rest.index - 1) : CharAt(k) \in Digits
    <3>1. behind.index <= Nul /\ "nul" \notin Digits
      BY <1>0, <1>7, <1>9, <2>1, <2>2
    <3>2. /\ Place(rest) /\ rest.index \in behind.index..Nul
          /\ \A k \in behind.index..(rest.index - 1) : CharAt(k) \in Digits
      BY <1>3, <1>7, <2>2, <3>1, SkipPasses
    <3> QED  BY <2>2, <3>2
  <2>4. to = rest
    BY <1>4, <1>9, <1>11
  <2>5. PICK r \in (w + 1)..Nul : r = rest.index
    BY <2>3
  <2>6. ASSUME NEW k \in s..(r - 1)  PROVE CharAt(k) \in Digits \cup {"dot"}
    <3>1. k \in s..(w - 1) \/ k = w \/ k \in (w + 1)..(r - 1)
      BY <1>7, <1>9, <2>5
    <3> QED  BY <1>8, <1>9, <1>11, <2>3, <2>5, <3>1
  <2>7. \A k \in s..(to.index - 1) : CharAt(k) \notin Spaces \cup {"quote", "slash"}
    BY <1>0, <2>4, <2>5, <2>6 DEF Spaces
  <2>8. to.index > s /\ to.index <= Nul
    BY <1>7, <1>9, <2>4, <2>5
  <2> QED  BY <1>5, <1>6, <2>3, <2>4, <2>7, <2>8, RunKeepsInv DEF Kinds
<1> QED  BY <1>10, <1>11

LEMMA DoubleKeepsInv == LexInv /\ MakeDoubleCharToken => LexInv'
<1> SUFFICES ASSUME LexInv, MakeDoubleCharToken  PROVE LexInv'
  OBVIOUS
<1>1. stage = "lexing" /\ <<First, Second>> \in Doubles /\ Deliver("double", NextChar(Start, 2), NextChar(Start, 2))
  BY DEF MakeDoubleCharToken
<1>2. PICK s \in 1..Nul : s = Start.index /\ CharAt(s) = First /\ CharAt(s + 1) = Second
  BY <1>1, LexingFacts
<1>3. TextOk /\ Place(Start) /\ Nul \in Nat /\ End = Nul + 1 /\ Nul = Len(text) + 1 /\ Len(text) \in Nat
      /\ \A i \in 1..Nul : CharAt(i) # "nul" => i \in 1..Len(text)
  BY <1>1, LexingFacts
<1>4. /\ CharAt(s) \notin {"nul", "newline", "space", "quote", "slash"}
      /\ CharAt(s + 1) \notin {"nul", "newline", "space", "quote", "slash"}
  BY <1>1, <1>2 DEF Doubles
<1>5. s + 1 \in 1..Len(text) /\ s + 2 <= Nul
  <2>1. s \in 1..Len(text)
    BY <1>3, <1>4
  <2>2. s + 1 \in 1..Nul
    BY <1>3, <2>1
  <2> QED  BY <1>3, <1>4, <2>2
<1>6. \A k \in s..(s + 2 - 1) : CharAt(k) \notin {"nul", "newline", "space", "quote", "slash"}
  <2>1. \A k \in s..(s + 2 - 1) : k = s \/ k = s + 1
    OBVIOUS
  <2> QED  BY <1>4, <2>1
<1>7. Place(NextChar(Start, 2)) /\ NextChar(Start, 2).index = s + 2
  <2>1. Start.index + 2 <= End /\ \A k \in Start.index..(Start.index + 2 - 1) : CharAt(k) # "newline"
    BY <1>2, <1>3, <1>5, <1>6
  <2> QED  BY <1>2, <1>3, <2>1, NextCharPlace
<1>8. PICK to : to = NextChar(Start, 2)
  OBVIOUS
<1>9. Place(to) /\ to.index > Start.index /\ to.index <= Nul
  BY <1>2, <1>5, <1>7, <1>8
<1>10. \A k \in Start.index..(to.index - 1) : CharAt(k) \notin Spaces \cup {"quote", "slash"}
  BY <1>2, <1>6, <1>7, <1>8 DEF Spaces
<1>11. Deliver("double", to, to) /\ "double" \in Kinds
  BY <1>1, <1>8 DEF Kinds
<1> QED  BY <1>1, <1>9, <1>10, <1>11, RunKeepsInv

(* A token of one character, its range without an end. *)
LEMMA OneKeepsInv ==
  ASSUME LexInv, stage = "lexing", NEW kind \in Kinds, kind # "eof", Deliver(kind, Start, NextChar(Start, 1)),
         Start.index \in 1..Len(text), First # "quote", First = "slash" => Second \notin {"slash", "star"}
  PROVE  LexInv'
<1>1. PICK s \in 1..Len(text) : s = Start.index /\ CharAt(s) = First /\ CharAt(s + 1) = Second
  BY LexingFacts
<1>2. TextOk /\ Place(Start) /\ Nul \in Nat /\ End = Nul + 1 /\ Nul = Len(text) + 1 /\ Len(text) \in Nat
      /\ First \notin Spaces /\ Mode[s] = "code"
  BY <1>1, LexingFacts
<1>3. PICK next : next = NextChar(Start, 1)
  OBVIOUS
<1>4. Place(next) /\ next.index = s + 1
  <2>1. Start.index + 1 <= End /\ \A k \in Start.index..(Start.index + 1 - 1) : CharAt(k) # "newline"
    BY <1>1, <1>2 DEF Spaces
  <2> QED  BY <1>1, <1>2, <1>3, <2>1, NextCharPlace
<1>5. Mode[s + 1] = "code"
  <2>1. Mode[s + 1] = After("code", First, Second)
    BY <1>1, <1>2, ModeSteps
  <2> QED  BY <2>1 DEF After
<1>6. OfTokensIn(s, s + 1) = {s}
  <2>1. s \in OfTokens
    BY <1>1, <1>2, <1>5 DEF OfTokens
  <2> QED  BY <2>1 DEF OfTokensIn
<1>7. Extent(Token(kind, Start, Start)) = {s}
  BY <1>1 DEF Extent, Token
<1>8. kind # "comment" /\ s + 1 # End /\ s < s + 1
  <2>1. kind # "comment"
    BY DEF Kinds, Singles
  <2> QED  BY <1>2, <2>1
<1>9. Here(next.index)
  BY <1>4, <1>5 DEF Here
<1>10. Deliver(kind, Start, next)
  BY <1>3
<1> QED  BY <1>1, <1>2, <1>4, <1>6, <1>7, <1>8, <1>9, <1>10, Delivered

LEMMA SingleKeepsInv == LexInv /\ MakeSingleCharToken => LexInv'
<1> SUFFICES ASSUME LexInv, MakeSingleCharToken  PROVE LexInv'
  OBVIOUS
<1>1. /\ stage = "lexing" /\ First \in Singles
      /\ <<First, Second>> \notin {<<"slash", "slash">>, <<"slash", "star">>}
      /\ Deliver(SingleKind(First), Start, NextChar(Start, 1))
  BY DEF MakeSingleCharToken
<1>2. SingleKind(First) \in Kinds /\ SingleKind(First) # "eof"
  BY <1>1 DEF SingleKind, Singles, Kinds
<1>3. First # "quote" /\ First # "nul" /\ (First = "slash" => Second \notin {"slash", "star"})
  BY <1>1 DEF Singles
<1>4. Start.index \in 1..Len(text)
  BY <1>1, <1>3, LexingFacts
<1> QED  BY <1>1, <1>2, <1>3, <1>4, OneKeepsInv

LEMMA InvalidKeepsInv == LexInv /\ MakeInvalid => LexInv'
<1> SUFFICES ASSUME LexInv, MakeInvalid  PROVE LexInv'
  OBVIOUS
<1>1. stage = "lexing" /\ First \in {"under", "other", "nul"} /\ Deliver("invalid", Start, NextChar(Start, 1))
  BY DEF MakeInvalid
<1>2. "invalid" \in Kinds
  BY DEF Kinds
<1>3. CASE Start.index \in 1..Len(text)
  BY <1>1, <1>2, <1>3, OneKeepsInv
<1>4. CASE Start.index \notin 1..Len(text)
  <2>1. TextOk /\ Place(Start) /\ Start.index = Nul /\ Nul \in Nat /\ End = Nul + 1 /\ Nul = Len(text) + 1
        /\ Mode[Nul] = "code" /\ CharAt(Nul) = "nul" /\ Len(text) \in Nat
    <3>1. TextOk /\ Place(Start) /\ Start.index \in 1..Nul /\ Nul \in Nat /\ End = Nul + 1 /\ Nul = Len(text) + 1
          /\ Mode[Start.index] = "code" /\ Len(text) \in Nat
      BY <1>1, LexingFacts
    <3>2. Start.index = Nul
      BY <1>4, <3>1
    <3> QED  BY <3>1, <3>2, TextFacts
  <2>2. PICK next : next = NextChar(Start, 1)
    OBVIOUS
  <2>3. Place(next) /\ next.index = End
    <3>1. Start.index + 1 <= End /\ \A k \in Start.index..(Start.index + 1 - 1) : CharAt(k) # "newline"
      BY <2>1
    <3> QED  BY <2>1, <2>2, <3>1, NextCharPlace
  <2>4. OfTokensIn(Start.index, next.index) = {}
    BY <2>1, <2>3 DEF OfTokensIn, OfTokens
  <2>5. Start.index < next.index /\ Deliver("invalid", Start, next) /\ Mode[Nul] \notin {"string", "block"}
    BY <1>1, <2>1, <2>2, <2>3
  <2> QED  BY <1>1, <1>2, <2>1, <2>3, <2>4, <2>5, Delivered
<1> QED  BY <1>3, <1>4

----------------------------------------------------------------------------
(* Strings and comments. *)
LEMMA ThrownKeepsInv ==
  ASSUME LexInv, Mode[Nul] \in {"string", "block"}, stage' = "thrown", UNCHANGED <<text, beyond, location, tokens>>
  PROVE  LexInv'
<1>1. SameText
  BY DEF SameText
<1>2. (\A i \in DOMAIN tokens : Place(tokens[i].from) /\ Place(tokens[i].to))'
  BY <1>1, PlaceStays DEF LexInv
<1>3. Place(location)' /\ Covered' /\ Ordered'
  BY <1>1, PlaceStays, TextStays DEF LexInv, Covered, Ordered
<1>4. (tokens \in Seq(Tokens))' /\ (Mode[Nul] \in {"string", "block"})'
  BY <1>1, TextStays DEF LexInv, Tokens
<1> QED  BY <1>1, <1>2, <1>3, <1>4 DEF LexInv, SameText

LEMMA QuoteFacts ==
  ASSUME LexInv, stage = "lexing", First = "quote"
  PROVE  LET s == Start.index
             e == StringEnd.index
         IN /\ TextOk /\ s \in 1..Len(text) /\ Mode[s] = "code" /\ CharAt(s) = "quote"
            /\ Place(StringEnd) /\ e \in (s + 1)..End /\ (CharAt(e) = "quote" \/ e = End)
            /\ \A b \in (s + 1)..Nul : b <= e => \A p \in (s + 1)..b : Mode[p] = "string"
<1>1. TextOk /\ Place(Start) /\ Nul \in Nat /\ End = Nul + 1 /\ Nul = Len(text) + 1 /\ Len(text) \in Nat
      /\ Start.index \in 1..Len(text) /\ CharAt(Start.index) = "quote" /\ Mode[Start.index] = "code"
  BY LexingFacts
<1>2. PICK s \in 1..Len(text) : s = Start.index
  BY <1>1
<1>3. PICK loc : loc = NextChar(Start, 1)
  OBVIOUS
<1>4. Place(loc) /\ loc.index = s + 1
  <2>1. Start.index + 1 <= End /\ \A k \in Start.index..(Start.index + 1 - 1) : CharAt(k) # "newline"
    BY <1>1, <1>2
  <2> QED  BY <1>1, <1>2, <1>3, <2>1, NextCharPlace
<1>5. PICK T : T = {j \in Nat : CharAt(j) = "quote"}
  OBVIOUS
<1>6. PICK to : to = StringEnd
  OBVIOUS
<1>. DEFINE S == {j \in loc.index..End : j \in T \/ j = End}
<1>7. to = SkipTo(loc, Min(S))
  <2>1. to = SkipTo(loc, Min({j \in loc.index..End : ~(~EndsString(CharAt(j))) \/ j = End}))
    BY <1>3, <1>6 DEF StringEnd, SkipWhile
  <2>2. {j \in loc.index..End : ~(~EndsString(CharAt(j))) \/ j = End} = {j \in loc.index..End : j \in T \/ j = End}
    BY <1>1, <1>4, <1>5 DEF EndsString
  <2> QED  BY <2>1, <2>2
<1>8. /\ Place(to) /\ to.index \in (s + 1)..End /\ (to.index \in T \/ to.index = End)
      /\ \A k \in (s + 1)..(to.index - 1) : k \notin T
  <2>1. /\ Place(to) /\ to.index \in loc.index..End /\ (to.index \in T \/ to.index = End)
        /\ \A k \in loc.index..(to.index - 1) : k \notin T
    <3>1. TextOk /\ Place(loc)
      BY <1>1, <1>4
    <3>2. PICK X : X = S
      OBVIOUS
    <3>3. to = SkipTo(loc, Min(X)) /\ \A j : j \in X <=> j \in loc.index..End /\ (j \in T \/ j = End)
      BY <1>7, <3>2
    <3> QED  BY <3>1, <3>3, SkipStops
  <2> QED  BY <1>4, <2>1
<1>9. Mode[s + 1] = "string"
  <2>1. Mode[s + 1] = After("code", "quote", CharAt(s + 1))
    BY <1>1, <1>2, ModeSteps
  <2> QED  BY <2>1 DEF After
<1>10. ASSUME NEW b \in (s + 1)..Nul, b <= to.index
       PROVE  \A p \in (s + 1)..b : Mode[p] = "string"
  <2>1. ASSUME NEW p \in (s + 1)..(b - 1)  PROVE After("string", CharAt(p), CharAt(p + 1)) = "string"
    <3>1. p \in (s + 1)..(to.index - 1) /\ p \in Nat
      BY <1>1, <1>8, <1>10
    <3>2. CharAt(p) # "quote"
      BY <1>5, <1>8, <3>1
    <3> QED  BY <3>2 DEF After
  <2>2. s + 1 \in 1..Nul
    BY <1>1
  <2> QED  BY <1>1, <1>9, <2>1, <2>2, ModeLasts
<1> QED  BY <1>1, <1>2, <1>5, <1>6, <1>8, <1>10

LEMMA StringKeepsInv == LexInv /\ MakeString => LexInv'
<1> SUFFICES ASSUME LexInv, MakeString  PROVE LexInv'
  OBVIOUS
<1>1. /\ stage = "lexing" /\ First = "quote" /\ StringEnd.index # End
      /\ Deliver("string", NextChar(StringEnd, 1), NextChar(StringEnd, 1))
  BY DEF MakeString
<1>2. PICK s : s = Start.index
  OBVIOUS
<1>3. PICK e : e = StringEnd.index
  OBVIOUS
<1>4. /\ TextOk /\ s \in 1..Len(text) /\ Mode[s] = "code" /\ CharAt(s) = "quote"
      /\ Place(StringEnd) /\ e \in (s + 1)..End /\ CharAt(e) = "quote" /\ e # End
      /\ \A b \in (s + 1)..Nul : b <= e => \A p \in (s + 1)..b : Mode[p] = "string"
  BY <1>1, <1>2, <1>3, QuoteFacts
<1>5. Nul \in Nat /\ End = Nul + 1 /\ Nul = Len(text) + 1 /\ Len(text) \in Nat /\ CharAt(Nul) = "nul"
  BY <1>4, TextFacts
<1>6. e \in 1..Len(text) /\ s \in Nat /\ e \in Nat /\ s < e
  BY <1>4, <1>5
<1>7. \A p \in (s + 1)..e : Mode[p] = "string"
  <2>1. e \in (s + 1)..Nul /\ e <= e
    BY <1>4, <1>5, <1>6
  <2> QED  BY <1>4, <2>1
<1>8. Mode[e + 1] = "code"
  <2>1. Mode[e] = "string"
    BY <1>6, <1>7
  <2>2. Mode[e + 1] = After("string", "quote", CharAt(e + 1))
    BY <1>4, <1>6, <2>1, ModeSteps
  <2> QED  BY <2>2 DEF After
<1>9. PICK to : to = NextChar(StringEnd, 1)
  OBVIOUS
<1>10. Place(to) /\ to.index = e + 1
  <2>1. StringEnd.index + 1 <= End /\ \A k \in StringEnd.index..(StringEnd.index + 1 - 1) : CharAt(k) # "newline"
    BY <1>3, <1>4, <1>5, <1>6
  <2> QED  BY <1>3, <1>4, <1>9, <2>1, NextCharPlace
<1>11. OfTokensIn(s, e + 1) = s..e
  <2>1. ASSUME NEW p \in s..e  PROVE p \in OfTokens
    <3>1. p \in 1..Len(text)
      BY <1>4, <1>6
    <3>2. CASE p = s
      <4>1. Mode[s + 1] = "string" /\ CharAt(s) \notin Spaces
        BY <1>4, <1>6, <1>7 DEF Spaces
      <4> QED  BY <1>4, <3>1, <3>2, <4>1 DEF OfTokens
    <3>3. CASE p # s
      BY <1>6, <1>7, <3>1, <3>3 DEF OfTokens
    <3> QED  BY <3>2, <3>3
  <2> QED  BY <1>6, <2>1 DEF OfTokensIn
<1>12. Extent(Token("string", Start, to)) = s..e
  <2>1. Start.index # to.index /\ to.index - 1 = e
    BY <1>2, <1>6, <1>10
  <2> QED  BY <1>2, <2>1, RangeExtent
<1>13. s < to.index /\ to.index # End /\ Here(to.index)
  BY <1>5, <1>6, <1>8, <1>10 DEF Here
<1>14. Deliver("string", to, to) /\ "string" \in Kinds
  BY <1>1, <1>9 DEF Kinds
<1> QED  BY <1>1, <1>2, <1>10, <1>11, <1>12, <1>13, <1>14, Delivered

LEMMA OpenStringKeepsInv == LexInv /\ ThrowInString => LexInv'
<1> SUFFICES ASSUME LexInv, ThrowInString  PROVE LexInv'
  OBVIOUS
<1>1. /\ stage = "lexing" /\ First = "quote" /\ StringEnd.index = End
      /\ stage' = "thrown" /\ UNCHANGED <<text, beyond, location, tokens>>
  BY DEF ThrowInString
<1>2. PICK s : s = Start.index
  OBVIOUS
<1>3. /\ TextOk /\ s \in 1..Len(text)
      /\ \A b \in (s + 1)..Nul : b <= End => \A p \in (s + 1)..b : Mode[p] = "string"
  BY <1>1, <1>2, QuoteFacts
<1>4. Nul \in (s + 1)..Nul /\ Nul <= End
  BY <1>3, TextFacts
<1>5. Mode[Nul] = "string"
  BY <1>3, <1>4
<1> QED  BY <1>1, <1>5, ThrownKeepsInv

LEMMA CommentFacts ==
  ASSUME LexInv, stage = "lexing", First = "slash", Second \in {"slash", "star"}
  PROVE  LET s == Start.index
             loc == NextChar(Start, 2)
         IN /\ TextOk /\ s \in 1..Len(text) /\ s + 1 \in 1..Len(text)
            /\ Place(loc) /\ loc.index = s + 2
            /\ Mode[s + 2] = IF Second = "slash" THEN "line" ELSE "block"
            /\ s \notin OfTokens /\ s + 1 \notin OfTokens
<1>1. PICK s : s = Start.index
  OBVIOUS
<1>2. TextOk /\ Place(Start) /\ s \in 1..Nul /\ Nul \in Nat /\ End = Nul + 1 /\ Nul = Len(text) + 1 /\ Len(text) \in Nat
      /\ CharAt(s) = "slash" /\ CharAt(s + 1) = Second /\ Mode[s] = "code"
      /\ \A i \in 1..Nul : CharAt(i) # "nul" => i \in 1..Len(text)
  BY <1>1, LexingFacts
<1>3. s \in 1..Len(text)
  BY <1>2
<1>4. s + 1 \in 1..Len(text)
  <2>1. s + 1 \in 1..Nul /\ CharAt(s + 1) # "nul"
    BY <1>2, <1>3
  <2> QED  BY <1>2, <2>1
<1>5. Place(NextChar(Start, 2)) /\ NextChar(Start, 2).index = s + 2
  <2>1. ASSUME NEW k \in Start.index..(Start.index + 2 - 1)  PROVE CharAt(k) # "newline"
    <3>1. k = s \/ k = s + 1
      BY <1>1, <1>2
    <3> QED  BY <1>2, <3>1
  <2>2. Start.index + 2 <= End
    BY <1>1, <1>2, <1>4
  <2> QED  BY <1>1, <1>2, <2>1, <2>2, NextCharPlace
<1>6. Mode[s + 1] = After("code", "slash", Second)
  BY <1>2, <1>3, ModeSteps
<1>7. Mode[s + 1] = IF Second = "slash" THEN "openLine" ELSE "openBlock"
  BY <1>6 DEF After
<1>8. Mode[s + 2] = After(Mode[s + 1], Second, CharAt(s + 2))
  <2>1. (s + 1) + 1 = s + 2
    BY <1>3
  <2>2. Mode[(s + 1) + 1] = After(Mode[s + 1], CharAt(s + 1), CharAt((s + 1) + 1))
    BY <1>2, <1>4, ModeSteps
  <2> QED  BY <1>2, <2>1, <2>2
<1>9. Mode[s + 2] = IF Second = "slash" THEN "line" ELSE "block"
  <2>1. CASE Second = "slash"
    BY <1>7, <1>8, <2>1 DEF After
  <2>2. CASE Second = "star"
    BY <1>7, <1>8, <2>2 DEF After
  <2> QED  BY <2>1, <2>2
<1>10. s \notin OfTokens /\ s + 1 \notin OfTokens
  BY <1>2, <1>7 DEF OfTokens
<1> QED  BY <1>1, <1>2, <1>3, <1>4, <1>5, <1>9, <1>10

LEMMA LineCommentKeepsInv == LexInv /\ MakeOneLineComment => LexInv'
<1> SUFFICES ASSUME LexInv, MakeOneLineComment  PROVE LexInv'
  OBVIOUS
<1>1. PICK loc : loc = NextChar(Start, 2)
  OBVIOUS
<1>2. PICK T : T = {j \in Nat : CharAt(j) = "newline"}
  OBVIOUS
<1>3. PICK to : to = SkipTo(loc, Min({j \in loc.index..End : ~(CharAt(j) # "newline") \/ j = End}))
  OBVIOUS
<1>4. stage = "lexing" /\ First = "slash" /\ Second = "slash" /\ Deliver("comment", to, to)
  BY <1>1, <1>3 DEF MakeOneLineComment, SkipWhile
<1>5. PICK s : s = Start.index
  OBVIOUS
<1>6. /\ TextOk /\ s \in 1..Len(text) /\ s + 1 \in 1..Len(text) /\ Place(loc) /\ loc.index = s + 2
      /\ Mode[s + 2] = "line" /\ s \notin OfTokens /\ s + 1 \notin OfTokens
  BY <1>1, <1>4, <1>5, CommentFacts
<1>7. Nul \in Nat /\ End = Nul + 1 /\ Nul = Len(text) + 1 /\ Len(text) \in Nat
  BY <1>6, TextFacts
<1>8. /\ Place(to) /\ to.index \in (s + 2)..End /\ (to.index \in T \/ to.index = End)
      /\ \A k \in (s + 2)..(to.index - 1) : k \notin T
  <2>1. {j \in loc.index..End : ~(CharAt(j) # "newline") \/ j = End} = {j \in loc.index..End : j \in T \/ j = End}
    BY <1>2, <1>6, <1>7
  <2>2. to = SkipTo(loc, Min({j \in loc.index..End : j \in T \/ j = End}))
    BY <1>3, <2>1
  <2>3. /\ Place(to) /\ to.index \in loc.index..End /\ (to.index \in T \/ to.index = End)
        /\ \A k \in loc.index..(to.index - 1) : k \notin T
    <3>1. TextOk /\ Place(loc)
      BY <1>6
    <3>2. PICK X : X = {j \in loc.index..End : j \in T \/ j = End}
      OBVIOUS
    <3>3. to = SkipTo(loc, Min(X)) /\ \A j : j \in X <=> j \in loc.index..End /\ (j \in T \/ j = End)
      BY <2>2, <3>2
    <3> QED  BY <3>1, <3>3, SkipStops
  <2> QED  BY <1>6, <2>3
<1>9. PICK e \in (s + 2)..End : e = to.index
  BY <1>8
<1>10. ASSUME NEW b \in (s + 2)..Nul, b <= e
       PROVE  \A p \in (s + 2)..b : Mode[p] = "line"
  <2>1. ASSUME NEW p \in (s + 2)..(b - 1)  PROVE After("line", CharAt(p), CharAt(p + 1)) = "line"
    <3>1. p \in (s + 2)..(to.index - 1) /\ p \in Nat
      BY <1>6, <1>7, <1>9, <1>10
    <3>2. CharAt(p) # "newline"
      BY <1>2, <1>8, <3>1
    <3> QED  BY <3>2 DEF After
  <2>2. s + 2 \in 1..Nul
    BY <1>6, <1>7
  <2> QED  BY <1>6, <2>1, <2>2, ModeLasts
<1>11. ASSUME NEW p \in OfTokens, p \in s..(e - 1)  PROVE FALSE
  <2>1. p \in 1..Len(text)
    BY DEF OfTokens
  <2>2. CASE p \in {s, s + 1}
    BY <1>6, <2>2
  <2>3. CASE p \notin {s, s + 1}
    <3>1. p \in (s + 2)..Nul /\ p <= e /\ p \in (s + 2)..p
      BY <1>6, <1>7, <1>11, <2>1, <2>3
    <3>2. Mode[p] = "line"
      BY <1>10, <3>1
    <3> QED  BY <3>2 DEF OfTokens
  <2> QED  BY <2>2, <2>3
<1>12. OfTokensIn(s, e) = {}
  BY <1>11 DEF OfTokensIn
<1>13. s < e
  BY <1>6, <1>9
<1>14. e = End => Mode[Nul] \notin {"string", "block"}
  <2>1. ASSUME e = End  PROVE Mode[Nul] = "line"
    <3>1. Nul \in (s + 2)..Nul /\ Nul <= e
      BY <1>6, <1>7, <2>1
    <3> QED  BY <1>10, <3>1
  <2> QED  BY <2>1
<1>15. e # End => Here(e)
  <2>1. ASSUME e # End  PROVE Mode[e] = "line" /\ CharAt(e) = "newline"
    <3>1. e \in (s + 2)..Nul /\ e <= e
      BY <1>6, <1>7, <2>1
    <3>2. Mode[e] = "line"
      BY <1>10, <3>1
    <3> QED  BY <1>2, <1>8, <1>9, <2>1, <3>2
  <2> QED  BY <2>1 DEF Here
<1>16. "comment" # "eof" /\ Start.index < to.index
  BY <1>5, <1>9, <1>13
<1>17. OfTokensIn(Start.index, to.index) = {}
  BY <1>5, <1>9, <1>12
<1>18. /\ to.index = End => Mode[Nul] \notin {"string", "block"}
       /\ to.index # End => Here(to.index)
  BY <1>9, <1>14, <1>15
<1> QED  BY <1>4, <1>8, <1>16, <1>17, <1>18, Delivered

LEMMA BlockFacts ==
  ASSUME LexInv, stage = "lexing", First = "slash", Second = "star"
  PROVE  LET s == Start.index
             e == CommentEnd.index
         IN /\ TextOk /\ s \in 1..Len(text) /\ s + 1 \in 1..Len(text) /\ s \notin OfTokens /\ s + 1 \notin OfTokens
            /\ Place(CommentEnd) /\ e \in (s + 2)..End /\ (IsCommentEnd(e) \/ e = End)
            /\ \A b \in (s + 2)..Nul : b <= e => \A p \in (s + 2)..b : Mode[p] = "block"
<1>1. PICK loc : loc = NextChar(Start, 2)
  OBVIOUS
<1>2. PICK T : T = {j \in Nat : IsCommentEnd(j)}
  OBVIOUS
<1>3. PICK s : s = Start.index
  OBVIOUS
<1>4. PICK to : to = CommentEnd
  OBVIOUS
<1>5. /\ TextOk /\ s \in 1..Len(text) /\ s + 1 \in 1..Len(text) /\ Place(loc) /\ loc.index = s + 2
      /\ Mode[s + 2] = "block" /\ s \notin OfTokens /\ s + 1 \notin OfTokens
  BY <1>1, <1>3, CommentFacts
<1>6. Nul \in Nat /\ End = Nul + 1 /\ Nul = Len(text) + 1 /\ Len(text) \in Nat
  BY <1>5, TextFacts
<1>7. /\ Place(to) /\ to.index \in (s + 2)..End /\ (to.index \in T \/ to.index = End)
      /\ \A k \in (s + 2)..(to.index - 1) : k \notin T
  <2>1. PICK X : X = {j \in (s + 2)..End : IsCommentEnd(j) \/ j = End}
    OBVIOUS
  <2>2. to = SkipTo(loc, Min(X))
    BY <1>1, <1>3, <1>4, <2>1 DEF CommentEnd
  <2>3. \A j : j \in X <=> j \in loc.index..End /\ (j \in T \/ j = End)
    BY <1>2, <1>5, <1>6, <2>1
  <2>4. TextOk /\ Place(loc)
    BY <1>5
  <2>5. /\ Place(to) /\ to.index \in loc.index..End /\ (to.index \in T \/ to.index = End)
        /\ \A k \in loc.index..(to.index - 1) : k \notin T
    BY <2>2, <2>3, <2>4, SkipStops
  <2> QED  BY <1>5, <2>5
<1>8. ASSUME NEW b \in (s + 2)..Nul, b <= to.index
      PROVE  \A p \in (s + 2)..b : Mode[p] = "block"
  <2>1. ASSUME NEW p \in (s + 2)..(b - 1)  PROVE After("block", CharAt(p), CharAt(p + 1)) = "block"
    <3>1. p \in (s + 2)..(to.index - 1) /\ p \in Nat /\ p # End
      BY <1>5, <1>6, <1>7, <1>8
    <3>2. ~(CharAt(p) = "star" /\ CharAt(p + 1) = "slash")
      BY <1>2, <1>7, <3>1 DEF IsCommentEnd
    <3> QED  BY <3>2 DEF After
  <2>2. s + 2 \in 1..Nul
    BY <1>5, <1>6
  <2> QED  BY <1>5, <2>1, <2>2, ModeLasts
<1> QED  BY <1>2, <1>3, <1>4, <1>5, <1>7, <1>8

LEMMA BlockCommentKeepsInv == LexInv /\ MakeMultiLineComment => LexInv'
<1> SUFFICES ASSUME LexInv, MakeMultiLineComment  PROVE LexInv'
  OBVIOUS
<1>1. /\ stage = "lexing" /\ First = "slash" /\ Second = "star" /\ CommentEnd.index # End
      /\ Deliver("comment", NextChar(CommentEnd, 2), NextChar(CommentEnd, 2))
  BY DEF MakeMultiLineComment
<1>2. PICK s : s = Start.index
  OBVIOUS
<1>3. PICK e : e = CommentEnd.index
  OBVIOUS
<1>4. /\ TextOk /\ s \in 1..Len(text) /\ s + 1 \in 1..Len(text) /\ s \notin OfTokens /\ s + 1 \notin OfTokens
      /\ Place(CommentEnd) /\ e \in (s + 2)..End /\ e # End /\ IsCommentEnd(e)
      /\ \A b \in (s + 2)..Nul : b <= e => \A p \in (s + 2)..b : Mode[p] = "block"
  BY <1>1, <1>2, <1>3, BlockFacts
<1>5. Nul \in Nat /\ End = Nul + 1 /\ Nul = Len(text) + 1 /\ Len(text) \in Nat /\ CharAt(Nul) = "nul"
  BY <1>4, TextFacts
<1>6. CharAt(e) = "star" /\ CharAt(e + 1) = "slash"
  BY <1>4 DEF IsCommentEnd
<1>7. e \in 1..Len(text) /\ e + 1 \in 1..Len(text) /\ e \in (s + 2)..Nul
  <2>1. e \in (s + 2)..Nul /\ e # Nul
    BY <1>4, <1>5, <1>6
  <2>2. e \in 1..Len(text)
    BY <1>4, <1>5, <2>1
  <2>3. e + 1 # Nul
    BY <1>5, <1>6
  <2> QED  BY <1>5, <2>1, <2>2, <2>3
<1>8. \A p \in (s + 2)..e : Mode[p] = "block"
  BY <1>4, <1>7
<1>9. Mode[e + 1] = "close"
  <2>1. Mode[e + 1] = After("block", "star", "slash")
    <3>1. Mode[e] = "block"
      BY <1>7, <1>8
    <3> QED  BY <1>4, <1>6, <1>7, <3>1, ModeSteps
  <2> QED  BY <2>1 DEF After
<1>10. Mode[e + 2] = "code"
  <2>1. (e + 1) + 1 = e + 2
    BY <1>7
  <2>2. Mode[(e + 1) + 1] = After("close", CharAt(e + 1), CharAt((e + 1) + 1))
    BY <1>4, <1>7, <1>9, ModeSteps
  <2> QED  BY <2>1, <2>2 DEF After
<1>11. PICK to : to = NextChar(CommentEnd, 2)
  OBVIOUS
<1>12. Place(to) /\ to.index = e + 2
  <2>1. ASSUME NEW k \in CommentEnd.index..(CommentEnd.index + 2 - 1)  PROVE CharAt(k) # "newline"
    <3>1. k = e \/ k = e + 1
      BY <1>3, <1>7
    <3> QED  BY <1>6, <3>1
  <2>2. CommentEnd.index + 2 <= End
    BY <1>3, <1>5, <1>7
  <2> QED  BY <1>3, <1>4, <1>11, <2>1, <2>2, NextCharPlace
<1>13. ASSUME NEW p \in OfTokens, p \in s..(e + 1)  PROVE FALSE
  <2>1. p = s \/ p = s + 1 \/ p \in (s + 2)..e \/ p = e + 1
    BY <1>4, <1>7, <1>13
  <2>2. p \in (s + 2)..e \/ p = e + 1 => Mode[p] \in {"block", "close"}
    BY <1>8, <1>9
  <2> QED  BY <1>4, <2>1, <2>2 DEF OfTokens
<1>14. OfTokensIn(s, e + 2) = {}
  <2>1. (e + 2) - 1 = e + 1
    BY <1>7
  <2> QED  BY <1>13, <2>1 DEF OfTokensIn
<1>15. s < e + 2 /\ e + 2 # End
  BY <1>4, <1>5, <1>7
<1>16. Start.index < to.index /\ to.index # End /\ OfTokensIn(Start.index, to.index) = {}
  BY <1>2, <1>12, <1>14, <1>15
<1>17. Here(to.index)
  BY <1>10, <1>12 DEF Here
<1>18. Deliver("comment", to, to)
  BY <1>1, <1>11
<1> QED  BY <1>1, <1>12, <1>16, <1>17, <1>18, Delivered

LEMMA OpenCommentKeepsInv == LexInv /\ ThrowInComment => LexInv'
<1> SUFFICES ASSUME LexInv, ThrowInComment  PROVE LexInv'
  OBVIOUS
<1>1. /\ stage = "lexing" /\ First = "slash" /\ Second = "star" /\ CommentEnd.index = End
      /\ stage' = "thrown" /\ UNCHANGED <<text, beyond, location, tokens>>
  BY DEF ThrowInComment
<1>2. PICK s : s = Start.index
  OBVIOUS
<1>3. /\ TextOk /\ s + 1 \in 1..Len(text)
      /\ \A b \in (s + 2)..Nul : b <= End => \A p \in (s + 2)..b : Mode[p] = "block"
  BY <1>1, <1>2, BlockFacts
<1>4. Nul \in (s + 2)..Nul /\ Nul <= End /\ s + 2 \in Nat
  <2>1. Nul \in Nat /\ End = Nul + 1 /\ Nul = Len(text) + 1 /\ s \in 1..Nul
    BY <1>1, <1>2, LexingFacts
  <2> QED  BY <1>3, <2>1
<1>5. Mode[Nul] = "block"
  BY <1>3, <1>4
<1> QED  BY <1>1, <1>5, ThrownKeepsInv

----------------------------------------------------------------------------
LEMMA InitHoldsInv == LexerInit => LexInv
<1> SUFFICES ASSUME LexerInit  PROVE LexInv
  OBVIOUS
<1>1. TextOk
  BY TextsAreTexts DEF LexerInit, TextOk
<1>2. Nul \in Nat \ {0} /\ End = Nul + 1
  BY <1>1, TextFacts
<1>3. Place(location)
  <2>1. LinesTo(1) = {}
    BY DEF LinesTo
  <2>2. Max({0}) = 0
    <3>1. {0} \in SUBSET Nat /\ 0 \in {0} /\ \A y \in {0} : y <= 0
      OBVIOUS
    <3> QED  BY <3>1, MaxIs
  <2>3. 1 = 1 + Cardinality(LinesTo(1)) /\ 1 = 1 - Max(LinesTo(1) \cup {0})
    <3>1. LinesTo(1) \cup {0} = {0} /\ Cardinality(LinesTo(1)) = 0
      BY <2>1, FS_EmptySet
    <3> QED  BY <2>2, <3>1
  <2>4. 1 \in 1..End /\ location = [index |-> 1, line |-> 1, column |-> 1]
    BY <1>2 DEF LexerInit
  <2> QED  BY <1>1, <2>3, <2>4, PlaceIs
<1>4. tokens = <<>> /\ location.index = 1 /\ stage = "lexing"
  BY DEF LexerInit
<1>5. Covered
  <2>1. Range(tokens) = {}
    BY <1>4 DEF Range
  <2>2. {p \in OfTokens : p < location.index} = {}
    BY <1>4 DEF OfTokens
  <2> QED  BY <2>1, <2>2 DEF Covered
<1>6. Ordered
  BY <1>4 DEF Ordered
<1>7. Here(location.index)
  BY <1>1, <1>4, ModeSteps DEF Here
<1>8. tokens \in Seq(Tokens) /\ \A i \in DOMAIN tokens : Place(tokens[i].from) /\ Place(tokens[i].to)
  BY <1>4
<1>9. location.index <= Nul
  BY <1>2, <1>4
<1> QED  BY <1>3, <1>4, <1>5, <1>6, <1>7, <1>8, <1>9 DEF LexerInit, LexInv

LEMMA StutterKeepsInv == LexInv /\ UNCHANGED lexerVars => LexInv'
<1> SUFFICES ASSUME LexInv, UNCHANGED lexerVars  PROVE LexInv'
  OBVIOUS
<1>1. SameText /\ location' = location /\ tokens' = tokens /\ stage' = stage
  BY DEF lexerVars, SameText
<1>2. (\A i \in DOMAIN tokens : Place(tokens[i].from) /\ Place(tokens[i].to))'
  BY <1>1, PlaceStays DEF LexInv
<1>3. Place(location)' /\ Covered' /\ Ordered'
  BY <1>1, PlaceStays, TextStays DEF LexInv, Covered, Ordered
<1>4. (tokens \in Seq(Tokens))'
  BY <1>1, TextStays DEF LexInv, Tokens
<1>5. (stage = "lexing" => location.index <= Nul /\ Here(location.index))'
  BY <1>1, TextStays DEF LexInv, Here
<1>6. /\ (stage = "done" => location.index = End /\ Mode[Nul] \notin {"string", "block"})'
      /\ (stage = "thrown" => Mode[Nul] \in {"string", "block"})'
  BY <1>1, TextStays DEF LexInv
<1> QED  BY <1>1, <1>2, <1>3, <1>4, <1>5, <1>6 DEF LexInv, SameText

(* The lexer keeps its places, covers the code in order, and stands in code *)
(* or at the end of a line comment before every token (getNextToken).      *)
THEOREM LexerInvariant == LexerSpec => []LexInv
<1>1. LexerInit => LexInv
  BY InitHoldsInv
<1>2. LexInv /\ [LexerNext]_lexerVars => LexInv'
  <2> SUFFICES ASSUME LexInv, [LexerNext]_lexerVars  PROVE LexInv'
    OBVIOUS
  <2>1. CASE MakeWord
    BY <2>1, WordKeepsInv
  <2>2. CASE MakeNumber
    BY <2>2, NumberKeepsInv
  <2>3. CASE MakeString
    BY <2>3, StringKeepsInv
  <2>4. CASE ThrowInString
    BY <2>4, OpenStringKeepsInv
  <2>5. CASE MakeOneLineComment
    BY <2>5, LineCommentKeepsInv
  <2>6. CASE MakeMultiLineComment
    BY <2>6, BlockCommentKeepsInv
  <2>7. CASE ThrowInComment
    BY <2>7, OpenCommentKeepsInv
  <2>8. CASE MakeDoubleCharToken
    BY <2>8, DoubleKeepsInv
  <2>9. CASE MakeSingleCharToken
    BY <2>9, SingleKeepsInv
  <2>10. CASE MakeInvalid
    BY <2>10, InvalidKeepsInv
  <2>11. CASE UNCHANGED lexerVars
    BY <2>11, StutterKeepsInv
  <2> QED  BY <2>1, <2>2, <2>3, <2>4, <2>5, <2>6, <2>7, <2>8, <2>9, <2>10, <2>11 DEF LexerNext
<1> QED  BY <1>1, <1>2, PTL DEF LexerSpec

(* Every position the lexer stands at or puts in a token is inside the text *)
(* and its NUL, and has the line and column it really has (skipSpaces,     *)
(* skipCharsWhile, nextChar).                                              *)
THEOREM PositionsAreReal == LexerSpec => []LexerInv
<1>1. LexInv => LexerInv
  <2> SUFFICES ASSUME LexInv  PROVE LexerInv
    OBVIOUS
  <2>1. \A t \in Range(tokens) : Place(t.from) /\ Place(t.to)
    BY DEF LexInv, Range
  <2>2. TypeOK
    BY <2>1 DEF LexInv, TypeOK, Place
  <2>3. PositionsAreTrue
    BY <2>1 DEF LexInv, PositionsAreTrue, Place
  <2> QED  BY <2>2, <2>3 DEF LexerInv
<1> QED  BY <1>1, LexerInvariant, PTL

(* The tokens of a text that was lexed to its end cover its code, each     *)
(* character once and in order (getAllTokens).                             *)
THEOREM NothingIsLost == LexerSpec => []TokensCoverTheCode
<1>1. LexInv => TokensCoverTheCode
  <2> SUFFICES ASSUME LexInv  PROVE TokensCoverTheCode
    OBVIOUS
  <2>1. ASSUME stage = "done"  PROVE UNION {Extent(t) : t \in Range(tokens)} = OfTokens
    <3>1. location.index = End
      BY <2>1 DEF LexInv
    <3>2. \A p \in OfTokens : p < End
      BY InvTextOk, TextFacts DEF OfTokens
    <3> QED  BY <3>1, <3>2 DEF LexInv, Covered
  <2> QED  BY <2>1 DEF LexInv, Ordered, TokensCoverTheCode
<1> QED  BY <1>1, LexerInvariant, PTL

(* Lexing throws at the end of exactly those texts that end inside a string *)
(* or a comment (nextChar's out_of_range).                                 *)
THEOREM OnlyOpenEndsThrow == LexerSpec => []ThrowsIfUnterminated
<1>1. LexInv => ThrowsIfUnterminated
  BY DEF LexInv, ThrowsIfUnterminated
<1> QED  BY <1>1, LexerInvariant, PTL

----------------------------------------------------------------------------
NodesOver(A) == [kind : A, what : A, type : A, link : A, self : A]
Made(s) == \E A : s \in Seq(NodesOver(A))

Slots == Nat \X {"kid", "arg"} \X Nat

OfScopes == UNION {{place[s][n] : n \in DOMAIN place[s]} : s \in DOMAIN place}
OfClasses ==
  UNION {{Classes[c].functions[n] : n \in DOMAIN Classes[c].functions} : c \in DOMAIN Classes}
Callees == {Nobody} \cup OfScopes \cup OfClasses

Steps == {"operands", "positional", "named", "defaults", "bound"}
Activations == [node : DOMAIN tree, at : Steps, index : Nat, ok : BOOLEAN, callee : Callees]

NodesTyped ==
  /\ Made(nodes) /\ Len(tree) <= Len(nodes)
  /\ \A i \in DOMAIN tree : nodes[i].kind = tree[i].kind /\ nodes[i].what = tree[i].what
  /\ KidsOf(tree) \subseteq DOMAIN holds /\ DOMAIN holds \subseteq Slots
  /\ \A s \in DOMAIN holds : s[1] \in 0..Len(nodes) /\ holds[s] \in 0..Len(nodes)

Typed ==
  /\ IsTree(tree)
  /\ place \in Seq(Range(place)) /\ \A s \in DOMAIN place : IsScope(place[s])
  /\ frames \in Seq(Activations) /\ frames # <<>>

(* The first two parts of NodesHaveOneOwner. *)
OwnersDiffer == \A s, t \in DOMAIN holds : holds[s] = holds[t] /\ holds[s] # 0 => s = t
SelvesAreRight ==
  \A s \in DOMAIN holds :
    s[2] = "kid" /\ s[1] \in {0} \cup DOMAIN tree /\ holds[s] # 0 => nodes[holds[s]].self = s

Kids(i) == tree[i].kids

(* The child an activation is busy with, or has been. *)
Now(f) ==
  CASE f.at = "operands" -> f.index
    [] f.at = "positional" -> FirstArgument(f.node) + f.index - 1
    [] f.at = "named" -> NamedFrom(f.node) + f.index - 1
    [] OTHER -> Len(Kids(f.node)) + 1

OperandsOf(i) == CASE tree[i].kind = "binary" -> 2
                   [] tree[i].kind \in {"not", "member", "membercall"} -> 1
                   [] OTHER -> 0

FrameOk(f) ==
  /\ f.index >= 1
  /\ f.at = "operands" => f.index <= OperandsOf(f.node) + 1
  /\ f.at # "operands" => IsCall(tree[f.node])
  /\ f.at = "positional" => FirstArgument(f.node) + f.index - 1 <= NamedFrom(f.node)

(* The walk has not come to the children of i from here on.  *)
Untouched(i, from, walked) ==
  \A k \in DOMAIN Kids(i) : k >= from => Kids(i)[k] \notin walked /\ holds[Kid(i, k)] = Kids(i)[k]

Waits(f, n) ==
  /\ Now(f) \in DOMAIN Kids(f.node)
  /\ Kids(f.node)[Now(f)] = n /\ holds[Kid(f.node, Now(f))] = n

From(m) == IF m = Len(frames) /\ answer = "none" THEN Now(frames[m]) ELSE Now(frames[m]) + 1

Busy(m, walked) ==
  /\ FrameOk(frames[m]) /\ frames[m].node \in walked
  /\ Untouched(frames[m].node, From(m), walked)

(* walked are the nodes that had or have an activation. *)
Walk(walked) ==
  /\ walked \subseteq DOMAIN tree
  /\ \A i \in DOMAIN tree \ walked : Untouched(i, 1, walked)
  /\ \A m \in DOMAIN frames : Busy(m, walked)
  /\ \A m \in 1..(Len(frames) - 1) : Waits(frames[m], frames[m + 1].node)
  /\ \A m, n \in DOMAIN frames : m < n => frames[m].node < frames[n].node
  /\ frames[1].node = 1
  /\ phase = "decorating" => holds[Root] = 1

OwnersInv == NodesTyped /\ Typed /\ OwnersDiffer /\ SelvesAreRight /\ \E walked : Walk(walked)

----------------------------------------------------------------------------
LEMMA FunctionIsList ==
  ASSUME NEW S, NEW n \in Nat, NEW r \in [1..n -> S]
  PROVE  r \in Seq(S)
BY SeqDef

(* A list of nodes of which one gets a type. *)
Retype(s, i, t, l) == [s EXCEPT ![i].type = t, ![i].link = l]

LEMMA Retyped ==
  ASSUME NEW s, Made(s), NEW i \in DOMAIN s, NEW t, NEW l,
         NEW r, r = Retype(s, i, t, l)
  PROVE  /\ Made(r) /\ Len(r) = Len(s) /\ DOMAIN r = DOMAIN s
         /\ \A j \in DOMAIN s : r[j].kind = s[j].kind /\ r[j].self = s[j].self /\ r[j].what = s[j].what
<1>1. PICK A : s \in Seq(NodesOver(A))
  BY DEF Made
<1> DEFINE B == A \cup {t, l}
<1>2. \A j \in DOMAIN s : s[j] \in NodesOver(A)
  BY <1>1
<1>0. r = [s EXCEPT ![i].type = t, ![i].link = l]
  BY DEF Retype
<1>3. r[i] = [s[i] EXCEPT !.type = t, !.link = l]
  BY <1>0, <1>2
<1>4. r[i] \in NodesOver(B) /\ r[i].kind = s[i].kind /\ r[i].self = s[i].self /\ r[i].what = s[i].what
  BY <1>2, <1>3 DEF NodesOver
<1>5. \A j \in DOMAIN s : j # i => r[j] = s[j]
  BY <1>0, <1>2
<1>6. NodesOver(A) \subseteq NodesOver(B)
  BY DEF NodesOver
<1>7. DOMAIN s = 1..Len(s) /\ Len(s) \in Nat /\ DOMAIN r = DOMAIN s
  BY <1>0, <1>1
<1>8. \A j \in 1..Len(s) : r[j] \in NodesOver(B)
  BY <1>2, <1>4, <1>5, <1>6, <1>7
<1> HIDE DEF B
<1>9. r \in [1..Len(s) -> NodesOver(B)]
  BY <1>0, <1>7, <1>8
<1>10. r \in Seq(NodesOver(B))
  BY <1>7, <1>9, FunctionIsList
<1>11. Len(r) = Len(s)
  BY <1>7, <1>10, LenProperties
<1>. QED  BY <1>4, <1>5, <1>7, <1>10, <1>11 DEF Made

(* Lists of nodes one behind the other. *)
LEMMA Joined ==
  ASSUME NEW s, NEW t, Made(s), Made(t)
  PROVE  /\ Made(s \o t) /\ Len(s \o t) = Len(s) + Len(t)
         /\ Len(s) \in Nat /\ DOMAIN s = 1..Len(s) /\ Len(t) \in Nat /\ DOMAIN t = 1..Len(t)
         /\ \A j \in 1..Len(s) : (s \o t)[j] = s[j]
<1>1. PICK A : s \in Seq(NodesOver(A))
  BY DEF Made
<1>2. PICK B : t \in Seq(NodesOver(B))
  BY DEF Made
<1>3. NodesOver(A) \subseteq NodesOver(A \cup B) /\ NodesOver(B) \subseteq NodesOver(A \cup B)
  BY DEF NodesOver
<1>4. s \in Seq(NodesOver(A \cup B)) /\ t \in Seq(NodesOver(A \cup B))
  BY <1>1, <1>2, <1>3, SeqMonotonic
<1>. QED  BY <1>4, ConcatProperties DEF Made

(* A node, as a list. *)
LEMMA MadeNode ==
  ASSUME NEW n \in Nat, NEW f, f = [i \in 1..n |-> f[i]],
         \A i \in 1..n : \E a, b, c, d, e : f[i] = NewNode(a, b, c, d, e)
  PROVE  Made(f) /\ Len(f) = n
<1> DEFINE A == UNION {{f[i].kind, f[i].what, f[i].type, f[i].link, f[i].self} : i \in 1..n}
<1>1. ASSUME NEW i \in 1..n PROVE f[i] \in NodesOver(A)
  <2>1. PICK a, b, c, d, e : f[i] = NewNode(a, b, c, d, e)
    OBVIOUS
  <2>2. {a, b, c, d, e} \subseteq A
    BY <2>1 DEF NewNode
  <2>. QED  BY <2>1, <2>2 DEF NodesOver, NewNode
<1> HIDE DEF A
<1>2. f \in Seq(NodesOver(A)) /\ Len(f) = n
  BY <1>1, IsASeq
<1>. QED  BY <1>2 DEF Made

----------------------------------------------------------------------------
(* Pointers differ if they differ in their parts. *)
LEMMA SlotParts ==
  /\ \A i, k : Kid(i, k)[1] = i /\ Kid(i, k)[2] = "kid" /\ Kid(i, k)[3] = k
  /\ \A i, j : Arg(i, j)[1] = i /\ Arg(i, j)[2] = "arg" /\ Arg(i, j)[3] = j
  /\ Root = Kid(0, 1)
  /\ \A i, k : i \in Nat /\ k \in Nat => Kid(i, k) \in Slots /\ Arg(i, k) \in Slots
BY DEF Kid, Arg, Root, Slots

LEMMA TreeParts ==
  ASSUME IsTree(tree)
  PROVE  /\ Len(tree) \in Nat \ {0} /\ DOMAIN tree = 1..Len(tree)
         /\ \A i \in DOMAIN tree :
              /\ DOMAIN Kids(i) = 1..Len(Kids(i)) /\ Len(Kids(i)) \in Nat
              /\ \A k \in DOMAIN Kids(i) : Kids(i)[k] \in DOMAIN tree /\ Kids(i)[k] > i
              /\ DOMAIN tree[i].names = 1..Len(tree[i].names) /\ Len(tree[i].names) \in Nat
         /\ \A i, j \in DOMAIN tree : \A k \in DOMAIN Kids(i), l \in DOMAIN Kids(j) :
              Kids(i)[k] = Kids(j)[l] => i = j /\ k = l
         /\ KidsOf(tree) = {Root} \cup UNION {{Kid(i, k) : k \in DOMAIN Kids(i)} : i \in DOMAIN tree}
<1>1. tree \in Seq(Range(tree)) /\ tree # <<>>
  BY DEF IsTree
<1>2. Len(tree) \in Nat \ {0} /\ DOMAIN tree = 1..Len(tree)
  BY <1>1, EmptySeq, LenProperties
<1>3. ASSUME NEW i \in DOMAIN tree
      PROVE  /\ DOMAIN Kids(i) = 1..Len(Kids(i)) /\ Len(Kids(i)) \in Nat
             /\ \A k \in DOMAIN Kids(i) : Kids(i)[k] \in DOMAIN tree /\ Kids(i)[k] > i
             /\ DOMAIN tree[i].names = 1..Len(tree[i].names) /\ Len(tree[i].names) \in Nat
  <2>1. Kids(i) \in Seq((i + 1)..Len(tree)) /\ tree[i].names \in Seq(STRING)
    BY DEF IsTree, Kids
  <2>2. \A k \in DOMAIN Kids(i) : Kids(i)[k] \in (i + 1)..Len(tree)
    BY <2>1
  <2>. QED  BY <2>1, <2>2, <1>2, LenProperties
<1>4. \A i, j \in DOMAIN tree : \A k \in DOMAIN Kids(i), l \in DOMAIN Kids(j) :
        Kids(i)[k] = Kids(j)[l] => i = j /\ k = l
  BY DEF IsTree, Kids
<1>. QED  BY <1>2, <1>3, <1>4 DEF KidsOf, Kids

(* Where the arguments of a call are among its children. *)
LEMMA CallParts ==
  ASSUME IsTree(tree), NEW i \in DOMAIN tree
  PROVE  /\ IsCall(tree[i]) =>
              /\ FirstArgument(i) = OperandsOf(i) + 1 /\ FirstArgument(i) \in 1..2
              /\ NamedFrom(i) \in Nat /\ FirstArgument(i) <= NamedFrom(i)
              /\ NamedFrom(i) + Len(tree[i].names) = Len(Kids(i)) + 1
         /\ OperandsOf(i) \in 0..2 /\ OperandsOf(i) <= Len(Kids(i))
<1>1. Len(Kids(i)) \in Nat /\ Len(tree[i].names) \in Nat
  BY TreeParts
<1>2. /\ tree[i].kind = "binary" => Len(tree[i].kids) = 2
      /\ tree[i].kind \in {"not", "member"} => Len(tree[i].kids) = 1
      /\ tree[i].kind = "call" => Len(tree[i].names) <= Len(tree[i].kids)
      /\ tree[i].kind = "membercall" => Len(tree[i].names) < Len(tree[i].kids)
  BY DEF IsTree
<1>3. OperandsOf(i) \in 0..2 /\ OperandsOf(i) <= Len(Kids(i))
  <2>1. CASE tree[i].kind = "binary"
    <3>1. OperandsOf(i) = 2
      BY <2>1 DEF OperandsOf
    <3>2. Len(Kids(i)) = 2
      BY <1>2, <2>1 DEF Kids
    <3>. QED  BY <3>1, <3>2
  <2>2. CASE tree[i].kind \in {"not", "member", "membercall"}
    BY <1>1, <1>2, <2>2 DEF OperandsOf, Kids
  <2>3. CASE tree[i].kind \notin {"binary", "not", "member", "membercall"}
    BY <1>1, <2>3 DEF OperandsOf
  <2>. QED  BY <2>1, <2>2, <2>3
<1>4. NamedFrom(i) = Len(Kids(i)) - Len(tree[i].names) + 1
  BY DEF NamedFrom, Kids
<1>5. CASE tree[i].kind = "call"
  BY <1>1, <1>2, <1>3, <1>4, <1>5 DEF FirstArgument, OperandsOf, Kids
<1>6. CASE tree[i].kind = "membercall"
  BY <1>1, <1>2, <1>3, <1>4, <1>6 DEF FirstArgument, OperandsOf, Kids
<1>. QED  BY <1>3, <1>5, <1>6 DEF IsCall

(* Whatever does not depend on the pointers stays. *)
LEMMA TreeStays ==
  ASSUME UNCHANGED <<tree, place>>
  PROVE  /\ Activations' = Activations /\ KidsOf(tree)' = KidsOf(tree)
         /\ \A i : Kids(i)' = Kids(i)
         /\ \A f : Now(f)' = Now(f) /\ FrameOk(f)' = FrameOk(f)
<1>1. \A i : Kids(i)' = Kids(i)
  BY DEF Kids
<1>2. \A i : FirstArgument(i)' = FirstArgument(i) /\ NamedFrom(i)' = NamedFrom(i) /\ OperandsOf(i)' = OperandsOf(i)
  BY DEF FirstArgument, NamedFrom, OperandsOf
<1>3. Callees' = Callees
  BY DEF Callees, OfScopes
<1>. QED  BY <1>1, <1>2, <1>3 DEF Activations, Now, FrameOk, KidsOf

----------------------------------------------------------------------------
(* The innermost activation. *)
LEMMA Stack ==
  ASSUME NEW S, frames \in Seq(S), frames # <<>>
  PROVE  /\ Len(frames) \in Nat \ {0} /\ DOMAIN frames = 1..Len(frames)
         /\ top = frames[Len(frames)] /\ \A m \in DOMAIN frames : frames[m] \in S
         /\ Front(frames) \in Seq(S) /\ Len(Front(frames)) = Len(frames) - 1
         /\ \A m \in 1..(Len(frames) - 1) : Front(frames)[m] = frames[m]
<1>1. Len(frames) \in Nat \ {0} /\ DOMAIN frames = 1..Len(frames)
  BY EmptySeq, LenProperties
<1>2. top = frames[Len(frames)]
  BY DEF top, Last
<1>3. Front(frames) = SubSeq(frames, 1, Len(frames) - 1)
  BY DEF Front
<1>. QED  BY <1>1, <1>2, <1>3

(* It goes on, and perhaps makes another one. *)
LEMMA Stacked ==
  ASSUME NEW S, frames \in Seq(S), frames # <<>>, NEW r \in S
  PROVE  LET fs == Append(Front(frames), r) IN
         /\ fs \in Seq(S) /\ fs # <<>> /\ Len(fs) = Len(frames) /\ DOMAIN fs = 1..Len(frames)
         /\ fs[Len(frames)] = r /\ \A m \in 1..(Len(frames) - 1) : fs[m] = frames[m]
BY Stack

LEMMA StackedTwo ==
  ASSUME NEW S, frames \in Seq(S), frames # <<>>, NEW r \in S, NEW g \in S
  PROVE  LET fs == Append(Append(Front(frames), r), g) IN
         /\ fs \in Seq(S) /\ fs # <<>> /\ Len(fs) = Len(frames) + 1 /\ DOMAIN fs = 1..(Len(frames) + 1)
         /\ fs[Len(frames) + 1] = g /\ fs[Len(frames)] = r
         /\ \A m \in 1..(Len(frames) - 1) : fs[m] = frames[m]
<1> DEFINE fs == Append(Front(frames), r)
<1>1. /\ fs \in Seq(S) /\ Len(fs) = Len(frames) /\ DOMAIN fs = 1..Len(frames)
      /\ fs[Len(frames)] = r /\ \A m \in 1..(Len(frames) - 1) : fs[m] = frames[m]
  BY Stacked
<1> HIDE DEF fs
<1>2. Len(frames) \in Nat \ {0}
  BY Stack
<1>3. /\ Append(fs, g) \in Seq(S) /\ Append(fs, g) # <<>> /\ Len(Append(fs, g)) = Len(frames) + 1
      /\ DOMAIN Append(fs, g) = 1..(Len(frames) + 1)
      /\ Append(fs, g)[Len(frames) + 1] = g /\ \A m \in 1..Len(frames) : Append(fs, g)[m] = fs[m]
  BY <1>1, <1>2
<1>. QED  BY <1>1, <1>2, <1>3 DEF fs

(* What the activation is busy with. *)
LEMMA TopParts ==
  ASSUME NodesTyped, Typed
  PROVE  /\ top \in Activations /\ top.node \in DOMAIN tree /\ ThisNode = nodes[top.node]
         /\ ThisNode.kind = tree[top.node].kind
         /\ Operands = OperandsOf(top.node) /\ (IsCall(ThisNode) <=> IsCall(tree[top.node]))
<1>1. top \in Activations
  BY Stack DEF Typed
<1>2. top.node \in DOMAIN tree
  BY <1>1 DEF Activations
<1>3. ThisNode.kind = tree[top.node].kind
  BY <1>2 DEF NodesTyped, ThisNode
<1>4. Operands = OperandsOf(top.node)
  BY <1>3 DEF Operands, OperandsOf
<1>. QED  BY <1>1, <1>2, <1>3, <1>4 DEF ThisNode, IsCall

LEMMA CalleeIsDeclared ==
  ASSUME Typed
  PROVE  Callee \in Callees
<1>1. ASSUME NEW s \in DOMAIN place, NEW name \in DOMAIN place[s] PROVE place[s][name] \in Callees
  <2>1. place[s][name] \in {place[s][n] : n \in DOMAIN place[s]}
    OBVIOUS
  <2>2. place[s][name] \in OfScopes
    BY <2>1 DEF OfScopes
  <2>. QED  BY <2>2 DEF Callees
<1>2. ASSUME NEW c \in DOMAIN Classes, NEW name \in DOMAIN Classes[c].functions
      PROVE  Classes[c].functions[name] \in Callees
  <2>1. Classes[c].functions[name] \in {Classes[c].functions[n] : n \in DOMAIN Classes[c].functions}
    OBVIOUS
  <2>2. Classes[c].functions[name] \in OfClasses
    BY <2>1 DEF OfClasses
  <2>. QED  BY <2>2 DEF Callees
<1>3. Nobody \in Callees
  BY DEF Callees
<1>4. ASSUME NEW name PROVE FindName(name) \in Callees
  <2> DEFINE having == {s \in DOMAIN place : name \in DOMAIN place[s]}
  <2>1. CASE having = {}
    BY <1>3, <2>1 DEF FindName
  <2>2. CASE having # {}
    <3>1. Len(place) \in Nat /\ DOMAIN place = 1..Len(place)
      BY LenProperties DEF Typed
    <3>2. having \in SUBSET Int /\ \A s \in having : s <= Len(place)
      BY <3>1
    <3> HIDE DEF having
    <3>3. Max(having) \in having
      BY <2>2, <3>1, <3>2, MaxOfBounded
    <3>4. Max(having) \in DOMAIN place /\ name \in DOMAIN place[Max(having)]
      BY <3>3 DEF having
    <3>5. FindName(name) = place[Max(having)][name]
      BY <2>2 DEF FindName, having
    <3>. QED  BY <1>1, <3>4, <3>5
  <2>. QED  BY <2>1, <2>2
<1>5. ASSUME NEW c \in DOMAIN Classes, NEW name PROVE FindMember(c, "functions", name) \in Callees
  <2>1. CASE name \in DOMAIN Classes[c].functions
    <3>1. FindMember(c, "functions", name) = Classes[c].functions[name]
      BY <2>1 DEF FindMember
    <3>. QED  BY <1>2, <2>1, <3>1
  <2>2. CASE name \notin DOMAIN Classes[c].functions
    BY <1>3, <2>2 DEF FindMember
  <2>. QED  BY <2>1, <2>2
<1>. QED  BY <1>3, <1>4, <1>5 DEF Callee

(* A callee has a list of parameters. *)
LEMMA ParametersAreList ==
  ASSUME Typed, NEW d \in Callees
  PROVE  \E n \in Nat : DOMAIN d.params = 1..n
<1>1. CASE d = Nobody
  <2>1. d.params = <<>>
    BY <1>1 DEF Nobody, Declaration
  <2>. QED  BY <2>1
<1>2. CASE d.params \in Seq(Range(d.params))
  BY <1>2, LenProperties
<1>3. ASSUME d # Nobody PROVE d.params \in Seq(Range(d.params))
  <2>1. CASE \E s \in DOMAIN place : \E n \in DOMAIN place[s] : d = place[s][n]
    <3>1. PICK s \in DOMAIN place : \E n \in DOMAIN place[s] : d = place[s][n]
      BY <2>1
    <3>2. IsScope(place[s])
      BY DEF Typed
    <3>. QED  BY <3>1, <3>2 DEF IsScope
  <2>2. CASE \E c \in DOMAIN Classes : \E n \in DOMAIN Classes[c].functions : d = Classes[c].functions[n]
    <3>1. PICK c \in DOMAIN Classes : \E n \in DOMAIN Classes[c].functions : d = Classes[c].functions[n]
      BY <2>2
    <3>2. IsScope(Classes[c].functions)
      BY ClassesAreScopes
    <3>. QED  BY <3>1, <3>2 DEF IsScope
  <2>3. CASE d \in OfScopes
    BY <2>1, <2>3 DEF OfScopes
  <2>4. CASE d \in OfClasses
    BY <2>2, <2>4 DEF OfClasses
  <2>. QED  BY <1>3, <2>3, <2>4 DEF Callees
<1>. QED  BY <1>1, <1>2, <1>3

----------------------------------------------------------------------------
LEMMA TypedStays ==
  ASSUME Typed, UNCHANGED <<tree, place>>, frames' \in Seq(Activations), frames' # <<>>
  PROVE  Typed'
BY TreeStays DEF Typed, IsTree, IsScope

(* What the walk has not come to stays so if its pointers do. *)
LEMMA UntouchedStays ==
  ASSUME NodesTyped, Typed, UNCHANGED <<tree, place>>, NEW i \in DOMAIN tree, NEW from \in Int, NEW to \in Int,
         NEW walked, Untouched(i, from, walked), from <= to,
         \A k \in DOMAIN Kids(i) : k >= to => holds'[Kid(i, k)] = holds[Kid(i, k)]
  PROVE  Untouched(i, to, walked)'
<1>1. Kids(i)' = Kids(i)
  BY TreeStays
<1>2. \A k \in DOMAIN Kids(i) : k \in Int
  BY TreeParts DEF Typed
<1>3. \A k \in DOMAIN Kids(i) : k >= to => k >= from
  BY <1>2
<1>. QED  BY <1>1, <1>3 DEF Untouched, Kid

LEMMA BusyThen ==
  ASSUME UNCHANGED <<tree, place>>, NEW m, NEW f, NEW from, NEW walked,
         frames'[m] = f, From(m)' = from, FrameOk(f), f.node \in walked,
         \A k \in DOMAIN Kids(f.node) : k >= from =>
           Kids(f.node)[k] \notin walked /\ holds'[Kid(f.node, k)] = Kids(f.node)[k]
  PROVE  Busy(m, walked)'
<1>1. FrameOk(f)' /\ Kids(f.node)' = Kids(f.node)
  BY TreeStays
<1>. QED  BY <1>1 DEF Busy, Untouched, Kids, Kid

(* Now is a number. *)
LEMMA NowIsInt ==
  ASSUME NodesTyped, Typed, NEW f \in Activations, FrameOk(f)
  PROVE  Now(f) \in Int /\ f.node \in DOMAIN tree
<1>1. f.node \in DOMAIN tree /\ f.at \in Steps /\ f.index \in Nat
  BY DEF Activations
<1>2. Len(Kids(f.node)) \in Nat
  BY <1>1, TreeParts DEF Typed
<1>3. f.at # "operands" => FirstArgument(f.node) \in Nat /\ NamedFrom(f.node) \in Nat
  BY <1>1, CallParts DEF Typed, FrameOk
<1>. QED  BY <1>1, <1>2, <1>3 DEF Now, Steps

(* The pointers to children of a node are there. *)
LEMMA KidSlot ==
  ASSUME NodesTyped, Typed, NEW i \in DOMAIN tree, NEW k \in DOMAIN Kids(i)
  PROVE  Kid(i, k) \in KidsOf(tree) /\ Kid(i, k) \in DOMAIN holds /\ Root # Kid(i, k) /\ Root \in DOMAIN holds
<1>1. Kid(i, k) \in {Kid(i, l) : l \in DOMAIN Kids(i)}
  OBVIOUS
<1>2. Kid(i, k) \in KidsOf(tree) /\ Root \in KidsOf(tree)
  BY <1>1, TreeParts DEF Typed
<1>3. Root # Kid(i, k)
  <2>1. i # 0
    BY TreeParts DEF Typed
  <2>. QED  BY <2>1, SlotParts
<1>. QED  BY <1>2, <1>3 DEF NodesTyped

(* The innermost activation goes on, with nothing but its own pointers     *)
(* changed, and of these only behind it.                                   *)
LEMMA GoOnKeeps ==
  ASSUME OwnersInv, UNCHANGED <<tree, place, phase>>,
         NEW r \in Activations, r.node = top.node, FrameOk(r),
         frames' = Append(Front(frames), r), answer' = "none",
         NodesTyped', OwnersDiffer', SelvesAreRight',
         \A s \in KidsOf(tree) : s[1] # top.node => holds'[s] = holds[s],
         \A k \in DOMAIN Kids(top.node) : k >= Now(r) =>
           k >= From(Len(frames)) /\ holds'[Kid(top.node, k)] = holds[Kid(top.node, k)]
  PROVE  OwnersInv'
<1>1. NodesTyped /\ Typed
  BY DEF OwnersInv
<1>0. PICK n : n = Len(frames)
  OBVIOUS
<1>2. /\ n \in Nat \ {0} /\ DOMAIN frames = 1..n /\ top = frames[n]
      /\ \A m \in DOMAIN frames : frames[m] \in Activations
  BY <1>0, <1>1, Stack DEF Typed
<1>3. /\ frames' \in Seq(Activations) /\ frames' # <<>> /\ Len(frames') = n /\ DOMAIN frames' = 1..n
      /\ frames'[n] = r /\ \A m \in 1..(n - 1) : frames'[m] = frames[m]
  BY <1>0, <1>1, Stacked DEF Typed
<1>4. Typed'
  BY <1>1, <1>3, TypedStays
<1>5. PICK walked : Walk(walked)
  BY DEF OwnersInv
<1>6. top.node \in walked /\ top.node \in DOMAIN tree
  BY <1>2, <1>5 DEF Walk, Busy, Activations
<1>7. ASSUME NEW i \in DOMAIN tree \ walked PROVE Untouched(i, 1, walked)'
  <2>1. \A k \in DOMAIN Kids(i) : holds'[Kid(i, k)] = holds[Kid(i, k)]
    BY <1>1, <1>6, KidSlot, SlotParts
  <2>. QED  BY <1>1, <1>5, <2>1, UntouchedStays DEF Walk
<1>8. ASSUME NEW m \in 1..(n - 1)
      PROVE  /\ Busy(m, walked)'
             /\ \A k \in DOMAIN Kids(frames[m].node) : holds'[Kid(frames[m].node, k)] = holds[Kid(frames[m].node, k)]
  <2>1. m \in DOMAIN frames /\ n \in DOMAIN frames /\ m < n /\ frames'[m] = frames[m]
    BY <1>2, <1>3
  <2>2. frames[m].node < frames[n].node /\ frames[m].node \in DOMAIN tree
    BY <1>2, <1>5, <2>1 DEF Walk, Activations
  <2>3. \A k \in DOMAIN Kids(frames[m].node) : holds'[Kid(frames[m].node, k)] = holds[Kid(frames[m].node, k)]
    <3>1. frames[m].node # top.node
      BY <1>1, <1>2, <1>6, <2>2, TreeParts DEF Typed
    <3>. QED  BY <1>1, <2>2, <3>1, KidSlot, SlotParts
  <2>4. From(m)' = From(m)
    BY <1>0, <1>3, <2>1, TreeStays DEF From
  <2>5. Busy(m, walked)
    BY <1>5, <2>1 DEF Walk
  <2>6. /\ FrameOk(frames[m]) /\ frames[m].node \in walked
        /\ \A k \in DOMAIN Kids(frames[m].node) : k >= From(m) =>
             /\ Kids(frames[m].node)[k] \notin walked
             /\ holds'[Kid(frames[m].node, k)] = Kids(frames[m].node)[k]
    BY <2>3, <2>5 DEF Busy, Untouched
  <2>7. Busy(m, walked)'
    BY <2>1, <2>4, <2>6, BusyThen
  <2>. QED  BY <2>3, <2>7
<1>9. Busy(n, walked)'
  <2>1. frames'[n] = r /\ From(n)' = Now(r)
    BY <1>3, TreeStays DEF From
  <2>2. n \in DOMAIN frames /\ Busy(n, walked)
    BY <1>2, <1>5 DEF Walk
  <2>3. r.node \in walked
    BY <1>6
  <2>4. \A k \in DOMAIN Kids(r.node) : k >= Now(r) =>
          Kids(r.node)[k] \notin walked /\ holds'[Kid(r.node, k)] = Kids(r.node)[k]
    BY <1>0, <1>2, <2>2 DEF Busy, Untouched
  <2>. QED  BY <2>1, <2>3, <2>4, BusyThen
<1>10. ASSUME NEW m \in 1..(n - 1) PROVE Waits(frames[m], frames[m + 1].node)'
  <2>1. frames'[m] = frames[m] /\ frames'[m + 1].node = frames[m + 1].node
    <3>1. m + 1 \in 1..n /\ (m + 1 = n \/ m + 1 \in 1..(n - 1))
      BY <1>2
    <3>. QED  BY <1>2, <1>3, <3>1
  <2>2. Waits(frames[m], frames[m + 1].node)
    BY <1>0, <1>2, <1>5 DEF Walk
  <2>3. Now(frames[m])' = Now(frames[m]) /\ Kids(frames[m].node)' = Kids(frames[m].node)
    BY <2>1, TreeStays
  <2>. QED  BY <1>8, <2>1, <2>2, <2>3 DEF Waits, Kid
<1>11. \A m, l \in 1..n : m < l => frames'[m].node < frames'[l].node
  <2>1. \A m \in 1..n : frames'[m].node = frames[m].node
    BY <1>2, <1>3
  <2>. QED  BY <1>2, <1>5, <2>1 DEF Walk
<1>12. frames'[1].node = 1
  <2>1. frames[1].node = 1 /\ (1 = n \/ 1 \in 1..(n - 1))
    BY <1>2, <1>5 DEF Walk
  <2>. QED  BY <1>2, <1>3, <2>1
<1>13. (phase = "decorating" => holds[Root] = 1)'
  <2>1. Root \in KidsOf(tree) /\ Root[1] = 0 /\ top.node # 0
    BY <1>1, <1>6, TreeParts, SlotParts DEF Typed
  <2>. QED  BY <1>5, <2>1 DEF Walk, Root, Kid
<1>14. Walk(walked)'
  <2>1. walked \subseteq DOMAIN tree
    BY <1>5 DEF Walk
  <2>2. \A m \in 1..n : Busy(m, walked)'
    <3>1. \A m \in 1..n : m = n \/ m \in 1..(n - 1)
      BY <1>2
    <3>. QED  BY <1>8, <1>9, <3>1
  <2>. QED  BY <1>3, <1>7, <1>10, <1>11, <1>12, <1>13, <2>1, <2>2 DEF Walk
<1>. QED  BY <1>4, <1>14 DEF OwnersInv

(* The pointer that owns the node of the innermost activation. *)
LEMMA SelfOfTop ==
  ASSUME OwnersInv, phase = "decorating", NEW walked, Walk(walked), NEW n, n = Len(frames)
  PROVE  /\ n = 1 => nodes[top.node].self = Root /\ holds[Root] = top.node
         /\ n # 1 => LET f == frames[n - 1] IN
              /\ nodes[top.node].self = Kid(f.node, Now(f)) /\ holds[Kid(f.node, Now(f))] = top.node
              /\ f.node \in DOMAIN tree /\ Now(f) \in DOMAIN Kids(f.node)
<1>1. NodesTyped /\ Typed
  BY DEF OwnersInv
<1>2. /\ n \in Nat \ {0} /\ DOMAIN frames = 1..n /\ top = frames[n]
      /\ \A m \in DOMAIN frames : frames[m] \in Activations
  BY <1>1, Stack DEF Typed
<1>3. top.node \in DOMAIN tree /\ top.node # 0
  BY <1>1, <1>2, TreeParts DEF Typed, Activations
<1>4. ASSUME n = 1 PROVE nodes[top.node].self = Root /\ holds[Root] = top.node
  <2>1. holds[Root] = top.node
    BY <1>2, <1>4 DEF Walk
  <2>2. Root \in DOMAIN holds /\ Root[1] = 0 /\ Root[2] = "kid"
    BY <1>1, TreeParts, SlotParts DEF NodesTyped, Typed
  <2>. QED  BY <1>3, <2>1, <2>2 DEF OwnersInv, SelvesAreRight
<1>5. ASSUME n # 1, NEW f, f = frames[n - 1]
      PROVE  /\ nodes[top.node].self = Kid(f.node, Now(f)) /\ holds[Kid(f.node, Now(f))] = top.node
             /\ f.node \in DOMAIN tree /\ Now(f) \in DOMAIN Kids(f.node)
  <2>1. n - 1 \in 1..(Len(frames) - 1) /\ n - 1 \in DOMAIN frames /\ (n - 1) + 1 = n
    BY <1>2, <1>5
  <2>2. Waits(f, top.node)
    <3>1. \A m \in 1..(Len(frames) - 1) : Waits(frames[m], frames[m + 1].node)
      BY DEF Walk
    <3>2. Waits(frames[n - 1], frames[(n - 1) + 1].node)
      BY <2>1, <3>1
    <3>. QED  BY <1>2, <1>5, <2>1, <3>2
  <2>3. f.node \in DOMAIN tree
    BY <1>2, <1>5, <2>1 DEF Activations
  <2>4. Kid(f.node, Now(f)) \in DOMAIN holds
    BY <1>1, <2>2, <2>3, KidSlot DEF Waits
  <2>5. nodes[top.node].self = Kid(f.node, Now(f))
    BY <1>3, <2>2, <2>3, <2>4, SlotParts DEF OwnersInv, SelvesAreRight, Waits
  <2>. QED  BY <2>2, <2>3, <2>5 DEF Waits
<1>. QED  BY <1>4, <1>5

(* The innermost activation ends, with no pointer to a node of the tree    *)
(* changed but the one that owned its node.                                *)
LEMMA ReturnKeeps ==
  ASSUME OwnersInv, UNCHANGED <<tree, place>>, phase = "decorating", NEW good, Return(good),
         NodesTyped', OwnersDiffer', SelvesAreRight',
         \A s \in KidsOf(tree) : s # nodes[top.node].self => holds'[s] = holds[s]
  PROVE  OwnersInv'
<1>0. PICK n : n = Len(frames)
  OBVIOUS
<1>1. NodesTyped /\ Typed
  BY DEF OwnersInv
<1>2. /\ n \in Nat \ {0} /\ DOMAIN frames = 1..n /\ top = frames[n]
      /\ \A m \in DOMAIN frames : frames[m] \in Activations
      /\ Front(frames) \in Seq(Activations) /\ Len(Front(frames)) = n - 1
      /\ \A m \in 1..(n - 1) : Front(frames)[m] = frames[m]
  BY <1>0, <1>1, Stack DEF Typed
<1>3. PICK walked : Walk(walked)
  BY DEF OwnersInv
<1>4. /\ \A m \in 1..n : Busy(m, walked) /\ frames[m].node \in walked /\ frames[m].node \in DOMAIN tree
      /\ \A m, l \in 1..n : m < l => frames[m].node < frames[l].node
      /\ frames[1].node = 1
  BY <1>2, <1>3 DEF Walk, Busy, Activations
<1>5. answer' # "none"
  BY DEF Return
<1>6. CASE n = 1
  <2>1. phase' = "done" /\ frames' = frames
    BY <1>0, <1>6 DEF Return
  <2>2. Typed'
    BY <1>1, <2>1, TypedStays, TreeStays DEF Typed
  <2>3. nodes[top.node].self = Root
    BY <1>0, <1>3, <1>6, SelfOfTop
  <2>4. \A i \in DOMAIN tree : \A k \in DOMAIN Kids(i) : holds'[Kid(i, k)] = holds[Kid(i, k)]
    BY <1>1, <2>3, KidSlot
  <2>5. ASSUME NEW i \in DOMAIN tree \ walked PROVE Untouched(i, 1, walked)'
    <3>1. i \in DOMAIN tree /\ Untouched(i, 1, walked)
      BY <1>3 DEF Walk
    <3>2. \A k \in DOMAIN Kids(i) : holds'[Kid(i, k)] = holds[Kid(i, k)]
      BY <2>4, <3>1
    <3>. QED  BY <1>1, <3>1, <3>2, UntouchedStays
  <2>6. Busy(1, walked)'
    <3>1. PICK f : f = frames[1]
      OBVIOUS
    <3>2. frames'[1] = f /\ From(1)' = Now(f) + 1
      BY <1>5, <2>1, <3>1, TreeStays DEF From
    <3>3. Busy(1, walked) /\ f \in Activations
      BY <1>2, <1>4, <1>6, <3>1
    <3>4. FrameOk(f) /\ f.node \in walked /\ Untouched(f.node, From(1), walked)
      BY <3>1, <3>3 DEF Busy
    <3>5. Now(f) \in Int /\ f.node \in DOMAIN tree
      BY <1>1, <3>3, <3>4, NowIsInt
    <3>6. \A k \in DOMAIN Kids(f.node) : k >= Now(f) + 1 =>
            Kids(f.node)[k] \notin walked /\ holds'[Kid(f.node, k)] = Kids(f.node)[k]
      <4>1. From(1) = Now(f) \/ From(1) = Now(f) + 1
        BY <3>1 DEF From
      <4>2. \A k \in DOMAIN Kids(f.node) : k \in Int
        BY <1>1, <3>5, TreeParts DEF Typed
      <4>3. \A k \in DOMAIN Kids(f.node) : k >= Now(f) + 1 => k >= From(1)
        BY <3>5, <4>1, <4>2
      <4>. QED  BY <2>4, <3>4, <3>5, <4>3 DEF Untouched
    <3>. QED  BY <3>2, <3>4, <3>6, BusyThen
  <2>7. Walk(walked)'
    <3>1. DOMAIN frames' = 1..1 /\ Len(frames') = 1 /\ frames'[1].node = 1
      BY <1>0, <1>2, <1>4, <1>6, <2>1
    <3>2. \A m \in 1..1 : m = 1
      OBVIOUS
    <3>3. walked \subseteq DOMAIN tree
      BY <1>3 DEF Walk
    <3>. QED  BY <2>1, <2>5, <2>6, <3>1, <3>2, <3>3 DEF Walk
  <2>. QED  BY <2>2, <2>7 DEF OwnersInv
<1>7. CASE n # 1
  <2>1. phase' = phase /\ frames' = Front(frames)
    BY <1>0, <1>7 DEF Return
  <2>2. /\ frames' \in Seq(Activations) /\ frames' # <<>> /\ Len(frames') = n - 1 /\ DOMAIN frames' = 1..(n - 1)
        /\ \A m \in 1..(n - 1) : frames'[m] = frames[m] /\ m \in 1..n
    <3>1. n - 1 \in Nat \ {0}
      BY <1>2, <1>7
    <3>. QED  BY <1>2, <2>1, <3>1, LenProperties
  <2>3. Typed'
    BY <1>1, <2>2, TypedStays, TreeStays
  <2>4. PICK f : f = frames[n - 1]
    OBVIOUS
  <2>5. /\ nodes[top.node].self = Kid(f.node, Now(f)) /\ f.node \in DOMAIN tree /\ Now(f) \in DOMAIN Kids(f.node)
        /\ f.node \in walked
    BY <1>0, <1>2, <1>3, <1>4, <1>7, <2>4, SelfOfTop
  <2>6. \A i \in DOMAIN tree : \A k \in DOMAIN Kids(i) :
          i # f.node \/ k # Now(f) => holds'[Kid(i, k)] = holds[Kid(i, k)]
    <3>. SUFFICES ASSUME NEW i \in DOMAIN tree, NEW k \in DOMAIN Kids(i), i # f.node \/ k # Now(f)
                  PROVE  holds'[Kid(i, k)] = holds[Kid(i, k)]
      OBVIOUS
    <3>1. Kid(i, k) # Kid(f.node, Now(f))
      BY SlotParts
    <3>. QED  BY <1>1, <2>5, <3>1, KidSlot
  <2>7. ASSUME NEW i \in DOMAIN tree \ walked PROVE Untouched(i, 1, walked)'
    <3>1. i \in DOMAIN tree /\ i # f.node /\ Untouched(i, 1, walked)
      BY <1>3, <2>5 DEF Walk
    <3>2. \A k \in DOMAIN Kids(i) : holds'[Kid(i, k)] = holds[Kid(i, k)]
      BY <2>6, <3>1
    <3>. QED  BY <1>1, <3>1, <3>2, UntouchedStays
  <2>8. ASSUME NEW m \in 1..(n - 1) PROVE Busy(m, walked)'
    <3>1. PICK g : g = frames[m]
      OBVIOUS
    <3>2. m \in 1..n /\ frames'[m] = g /\ m # n /\ m \in Int
      BY <1>2, <2>2, <3>1
    <3>3. From(m) = Now(g) + 1 /\ From(m)' = Now(g) + 1
      BY <1>0, <1>5, <3>1, <3>2, TreeStays DEF From
    <3>4. Busy(m, walked) /\ g \in Activations
      BY <1>2, <1>4, <3>1, <3>2
    <3>5. FrameOk(g) /\ g.node \in walked /\ Untouched(g.node, From(m), walked)
      BY <3>1, <3>4 DEF Busy
    <3>6. Now(g) \in Int /\ g.node \in DOMAIN tree
      BY <1>1, <3>4, <3>5, NowIsInt
    <3>7. \A k \in DOMAIN Kids(g.node) : k >= Now(g) + 1 => holds'[Kid(g.node, k)] = holds[Kid(g.node, k)]
      <4>1. CASE m = n - 1
        <5>1. g = f /\ \A k \in DOMAIN Kids(g.node) : k \in Int
          BY <1>1, <2>4, <3>1, <3>6, <4>1, TreeParts DEF Typed
        <5>. QED  BY <2>6, <3>6, <5>1
      <4>2. CASE m # n - 1
        <5>1. m < n - 1 /\ n - 1 \in 1..n
          BY <1>2, <3>2, <4>2
        <5>2. g.node < f.node
          BY <1>4, <2>4, <3>1, <3>2, <5>1
        <5>3. g.node \in Int /\ f.node \in Int
          BY <1>1, <2>5, <3>6, TreeParts DEF Typed
        <5>. QED  BY <2>6, <3>6, <5>2, <5>3
      <4>. QED  BY <4>1, <4>2
    <3>8. \A k \in DOMAIN Kids(g.node) : k >= Now(g) + 1 =>
            Kids(g.node)[k] \notin walked /\ holds'[Kid(g.node, k)] = Kids(g.node)[k]
      BY <3>3, <3>5, <3>7 DEF Untouched
    <3>. QED  BY <3>2, <3>3, <3>5, <3>8, BusyThen
  <2>9. ASSUME NEW m \in 1..(n - 2) PROVE Waits(frames[m], frames[m + 1].node)'
    <3>1. m \in 1..(n - 1) /\ m + 1 \in 1..(n - 1) /\ m \in 1..n /\ m < n - 1 /\ n - 1 \in 1..n
      BY <1>2
    <3>2. frames'[m] = frames[m] /\ frames'[m + 1].node = frames[m + 1].node
      BY <2>2, <3>1
    <3>3. Waits(frames[m], frames[m + 1].node)
      BY <1>0, <1>3, <3>1 DEF Walk
    <3>4. Now(frames[m])' = Now(frames[m]) /\ Kids(frames[m].node)' = Kids(frames[m].node)
      BY <3>2, TreeStays
    <3>5. frames[m].node < f.node /\ frames[m].node \in DOMAIN tree
      BY <1>4, <2>4, <3>1
    <3>6. frames[m].node \in Int /\ f.node \in Int
      BY <1>1, <2>5, <3>5, TreeParts DEF Typed
    <3>7. holds'[Kid(frames[m].node, Now(frames[m]))] = holds[Kid(frames[m].node, Now(frames[m]))]
      BY <2>6, <3>3, <3>5, <3>6 DEF Waits
    <3>. QED  BY <3>2, <3>3, <3>4, <3>7 DEF Waits, Kid
  <2>10. (phase = "decorating" => holds[Root] = 1)'
    <3>1. Root \in KidsOf(tree) /\ Root # Kid(f.node, Now(f))
      BY <1>1, <2>5, KidSlot, TreeParts DEF Typed
    <3>. QED  BY <1>3, <2>5, <3>1 DEF Walk, Root, Kid
  <2>11. Walk(walked)'
    <3>1. Len(frames') - 1 = n - 2 /\ 1 \in 1..(n - 1)
      BY <1>2, <1>7, <2>2
    <3>2. \A m, l \in DOMAIN frames' : m < l => frames'[m].node < frames'[l].node
      BY <1>4, <2>2
    <3>3. frames'[1].node = 1 /\ walked \subseteq DOMAIN tree
      BY <1>3, <1>4, <2>2, <3>1 DEF Walk
    <3>. QED  BY <2>2, <2>7, <2>8, <2>9, <2>10, <3>1, <3>2, <3>3 DEF Walk
  <2>. QED  BY <2>3, <2>11 DEF OwnersInv
<1>. QED  BY <1>6, <1>7

(* The innermost activation makes one for the child it has come to. *)
LEMMA EnterKeeps ==
  ASSUME OwnersInv, phase = "decorating", answer = "none",
         Now(top) \in DOMAIN Kids(top.node), Enter(Kid(top.node, Now(top)), top)
  PROVE  OwnersInv'
<1>0. PICK n : n = Len(frames)
  OBVIOUS
<1>1. NodesTyped /\ Typed /\ UNCHANGED <<tree, place, nodes, holds, phase>> /\ answer' = "none"
  BY DEF OwnersInv, Enter, inputs
<1>2. /\ n \in Nat \ {0} /\ DOMAIN frames = 1..n /\ top = frames[n]
      /\ \A m \in DOMAIN frames : frames[m] \in Activations
  BY <1>0, <1>1, Stack DEF Typed
<1>3. PICK walked : Walk(walked)
  BY DEF OwnersInv
<1>4. /\ \A m \in 1..n : Busy(m, walked) /\ frames[m].node \in walked /\ frames[m].node \in DOMAIN tree
      /\ \A m, l \in 1..n : m < l => frames[m].node < frames[l].node
      /\ frames[1].node = 1 /\ walked \subseteq DOMAIN tree
      /\ \A m \in 1..(n - 1) : Waits(frames[m], frames[m + 1].node)
  BY <1>0, <1>2, <1>3 DEF Walk, Busy, Activations
<1>5. PICK t : t = top
  OBVIOUS
<1>6. PICK new : new = Kids(t.node)[Now(t)]
  OBVIOUS
<1>7. t \in Activations /\ t.node \in DOMAIN tree /\ t.node \in walked /\ Now(t) \in DOMAIN Kids(t.node)
  BY <1>2, <1>4, <1>5
<1>8. /\ new \notin walked /\ new \in DOMAIN tree /\ new > t.node
      /\ holds[Kid(t.node, Now(t))] = new
  <2>1. n \in 1..n /\ From(n) = Now(t) /\ Untouched(t.node, From(n), walked)
    BY <1>0, <1>2, <1>4, <1>5 DEF From, Busy
  <2>2. Now(t) >= Now(t)
    BY <1>1, <1>7, TreeParts DEF Typed
  <2>3. new \notin walked /\ holds[Kid(t.node, Now(t))] = new
    BY <1>6, <1>7, <2>1, <2>2 DEF Untouched
  <2>. QED  BY <1>1, <1>6, <1>7, <2>3, TreeParts DEF Typed
<1>9. frames' = Append(Append(Front(frames), t), Frame(new))
  BY <1>5, <1>8 DEF Enter
<1>10. Frame(new) \in Activations /\ FrameOk(Frame(new)) /\ Now(Frame(new)) = 1 /\ Frame(new).node = new
  <2>1. Frame(new) \in Activations
    BY <1>8 DEF Frame, Activations, Steps, Callees
  <2>2. OperandsOf(new) \in 0..2
    BY <1>1, <1>8, CallParts DEF Typed
  <2>. QED  BY <2>1, <2>2 DEF Frame, FrameOk, Now
<1>11. /\ frames' \in Seq(Activations) /\ frames' # <<>> /\ Len(frames') = n + 1 /\ DOMAIN frames' = 1..(n + 1)
       /\ frames'[n + 1] = Frame(new) /\ \A m \in 1..n : frames'[m] = frames[m]
  <2>1. /\ frames' \in Seq(Activations) /\ frames' # <<>> /\ Len(frames') = n + 1 /\ DOMAIN frames' = 1..(n + 1)
        /\ frames'[n + 1] = Frame(new) /\ frames'[n] = t /\ \A m \in 1..(n - 1) : frames'[m] = frames[m]
    BY <1>0, <1>1, <1>7, <1>9, <1>10, StackedTwo DEF Typed
  <2>2. \A m \in 1..n : m = n \/ m \in 1..(n - 1)
    BY <1>2
  <2>. QED  BY <1>2, <1>5, <2>1, <2>2
<1>12. NodesTyped' /\ OwnersDiffer' /\ SelvesAreRight' /\ Typed'
  <2>1. Typed'
    BY <1>1, <1>11, TypedStays
  <2>2. NodesTyped'
    BY <1>1 DEF NodesTyped, KidsOf
  <2>. QED  BY <1>1, <2>1, <2>2 DEF OwnersInv, OwnersDiffer, SelvesAreRight
<1>13. PICK wider : wider = walked \cup {new}
  OBVIOUS
(* Nobody else has this child. *)
<1>14. \A i \in DOMAIN tree : \A k \in DOMAIN Kids(i) : Kids(i)[k] = new => i = t.node /\ k = Now(t)
  BY <1>1, <1>6, <1>7, TreeParts DEF Typed
<1>15. ASSUME NEW i \in DOMAIN tree \ wider PROVE Untouched(i, 1, wider)'
  <2>1. i \in DOMAIN tree \ walked /\ i # t.node /\ Untouched(i, 1, walked) /\ Kids(i)' = Kids(i)
    BY <1>1, <1>3, <1>7, <1>13, TreeStays DEF Walk
  <2>. QED  BY <1>1, <1>13, <1>14, <2>1 DEF Untouched, Kid
<1>16. ASSUME NEW m \in 1..n PROVE Busy(m, wider)'
  <2>1. PICK g : g = frames[m]
    OBVIOUS
  <2>2. frames'[m] = g /\ g \in Activations /\ Busy(m, walked) /\ g.node \in DOMAIN tree
    BY <1>2, <1>4, <1>11, <2>1
  <2>3. FrameOk(g) /\ g.node \in walked /\ Untouched(g.node, From(m), walked)
    BY <2>1, <2>2 DEF Busy
  <2>4. Now(g) \in Int /\ \A k \in DOMAIN Kids(g.node) : k \in Int
    BY <1>1, <2>2, <2>3, NowIsInt, TreeParts DEF Typed
  <2>5. From(m)' = Now(g) + 1
    <3>1. m # n + 1
      BY <1>2
    <3>. QED  BY <1>1, <1>11, <2>2, <3>1, TreeStays DEF From
  <2>6. From(m) = Now(g) \/ From(m) = Now(g) + 1
    BY <2>1 DEF From
  <2>7. \A k \in DOMAIN Kids(g.node) : k >= Now(g) + 1 =>
          /\ Kids(g.node)[k] \notin walked /\ holds'[Kid(g.node, k)] = Kids(g.node)[k]
          /\ Kids(g.node)[k] # new
    <3>. SUFFICES ASSUME NEW k \in DOMAIN Kids(g.node), k >= Now(g) + 1
                  PROVE  /\ Kids(g.node)[k] \notin walked /\ holds'[Kid(g.node, k)] = Kids(g.node)[k]
                         /\ Kids(g.node)[k] # new
      OBVIOUS
    <3>1. k >= From(m) /\ k # Now(g)
      BY <2>4, <2>6
    <3>2. Kids(g.node)[k] \notin walked /\ holds'[Kid(g.node, k)] = Kids(g.node)[k]
      BY <1>1, <2>3, <3>1 DEF Untouched
    <3>3. CASE m = n
      BY <1>2, <1>5, <1>14, <2>1, <2>2, <3>1, <3>2, <3>3
    <3>4. CASE m # n
      <4>1. m < n /\ n \in 1..n
        BY <1>2, <3>4
      <4>2. g.node < t.node /\ g.node \in Int /\ t.node \in Int
        BY <1>1, <1>2, <1>4, <1>5, <1>7, <2>1, <2>2, <4>1, TreeParts DEF Typed
      <4>. QED  BY <1>14, <2>2, <3>2, <4>2
    <3>. QED  BY <3>3, <3>4
  <2>8. g.node \in wider /\ \A k \in DOMAIN Kids(g.node) : k >= Now(g) + 1 =>
          Kids(g.node)[k] \notin wider /\ holds'[Kid(g.node, k)] = Kids(g.node)[k]
    BY <1>13, <2>3, <2>7
  <2>. QED  BY <1>1, <2>2, <2>3, <2>5, <2>8, BusyThen
<1>17. Busy(n + 1, wider)'
  <2>1. From(n + 1)' = 1
    BY <1>1, <1>10, <1>11, TreeStays DEF From
  <2>2. \A k \in DOMAIN Kids(new) : k >= 1 =>
          Kids(new)[k] \notin wider /\ holds'[Kid(new, k)] = Kids(new)[k]
    <3>1. Untouched(new, 1, walked)
      BY <1>3, <1>8 DEF Walk
    <3>2. \A k \in DOMAIN Kids(new) : Kids(new)[k] # new
      BY <1>1, <1>8, TreeParts DEF Typed
    <3>. QED  BY <1>1, <1>13, <3>1, <3>2 DEF Untouched
  <2>. QED  BY <1>1, <1>10, <1>11, <1>13, <2>1, <2>2, BusyThen
<1>18. ASSUME NEW m \in 1..n PROVE Waits(frames[m], frames[m + 1].node)'
  <2>1. PICK g : g = frames[m]
    OBVIOUS
  <2>2. PICK after : after = frames'[m + 1].node
    OBVIOUS
  <2>3. Waits(g, after)
    <3>1. CASE m = n
      BY <1>2, <1>5, <1>6, <1>7, <1>8, <1>10, <1>11, <2>1, <2>2, <3>1 DEF Waits
    <3>2. CASE m # n
      <4>1. m \in 1..(n - 1) /\ m + 1 \in 1..n
        BY <1>2, <3>2
      <4>. QED  BY <1>4, <1>11, <2>1, <2>2, <4>1
    <3>. QED  BY <3>1, <3>2
  <2>4. frames'[m] = g /\ Now(g)' = Now(g) /\ Kids(g.node)' = Kids(g.node)
    BY <1>1, <1>11, <2>1, TreeStays
  <2>. QED  BY <1>1, <2>2, <2>3, <2>4 DEF Waits, Kid
<1>19. \A m, l \in 1..(n + 1) : m < l => frames'[m].node < frames'[l].node
  <2>. SUFFICES ASSUME NEW m \in 1..(n + 1), NEW l \in 1..(n + 1), m < l
                PROVE  frames'[m].node < frames'[l].node
    OBVIOUS
  <2>1. m \in 1..n
    BY <1>2
  <2>2. CASE l \in 1..n
    BY <1>4, <1>11, <2>1, <2>2
  <2>3. CASE l = n + 1
    <3>1. m = n \/ (m < n /\ n \in 1..n)
      BY <1>2, <2>1
    <3>2. frames[m].node = t.node \/ frames[m].node < t.node
      BY <1>2, <1>4, <1>5, <2>1, <3>1
    <3>3. frames[m].node \in Int /\ t.node \in Int /\ new \in Int
      BY <1>1, <1>4, <1>7, <1>8, <2>1, TreeParts DEF Typed
    <3>. QED  BY <1>8, <1>10, <1>11, <2>1, <2>3, <3>2, <3>3
  <2>. QED  BY <1>2, <2>2, <2>3
<1>20. Walk(wider)'
  <2>1. \A m \in 1..(n + 1) : m \in 1..n \/ m = n + 1
    BY <1>2
  <2>2. \A m \in 1..(n + 1) : Busy(m, wider)'
    BY <1>16, <1>17, <2>1
  <2>3. Len(frames') - 1 = n /\ 1 \in 1..n
    BY <1>2, <1>11
  <2>4. frames'[1].node = 1
    BY <1>4, <1>11, <2>3
  <2>5. (phase = "decorating" => holds[Root] = 1)'
    BY <1>1, <1>3 DEF Walk, Root, Kid
  <2>6. wider \subseteq DOMAIN tree
    BY <1>4, <1>8, <1>13
  <2>. QED  BY <1>1, <1>11, <1>15, <1>18, <1>19, <2>2, <2>3, <2>4, <2>5, <2>6 DEF Walk
<1>. QED  BY <1>12, <1>20 DEF OwnersInv

----------------------------------------------------------------------------
LEMMA IdleKeeps ==
  ASSUME OwnersInv, UNCHANGED <<tree, place, nodes, holds, frames, answer>>,
         phase' = phase \/ phase' # "decorating"
  PROVE  OwnersInv'
<1>1. NodesTyped /\ Typed
  BY DEF OwnersInv
<1>2. Typed'
  BY <1>1, TypedStays, TreeStays DEF Typed
<1>3. NodesTyped' /\ OwnersDiffer' /\ SelvesAreRight'
  BY <1>1 DEF OwnersInv, NodesTyped, KidsOf, OwnersDiffer, SelvesAreRight
<1>4. PICK walked : Walk(walked)
  BY DEF OwnersInv
<1>5. ASSUME NEW i \in DOMAIN tree \ walked PROVE Untouched(i, 1, walked)'
  BY <1>4, TreeStays DEF Walk, Untouched, Kid
<1>6. ASSUME NEW m \in DOMAIN frames PROVE Busy(m, walked)'
  <2>1. PICK f : f = frames[m]
    OBVIOUS
  <2>2. PICK from : from = From(m)
    OBVIOUS
  <2>3. frames'[m] = f /\ From(m)' = from
    BY <2>1, <2>2, TreeStays DEF From
  <2>4. /\ FrameOk(f) /\ f.node \in walked
        /\ \A k \in DOMAIN Kids(f.node) : k >= from =>
             Kids(f.node)[k] \notin walked /\ holds'[Kid(f.node, k)] = Kids(f.node)[k]
    BY <1>4, <2>1, <2>2 DEF Walk, Busy, Untouched
  <2>. QED  BY <2>3, <2>4, BusyThen
<1>7. ASSUME NEW m \in 1..(Len(frames) - 1) PROVE Waits(frames[m], frames[m + 1].node)'
  <2>1. Waits(frames[m], frames[m + 1].node)
    BY <1>4 DEF Walk
  <2>2. Now(frames[m])' = Now(frames[m]) /\ Kids(frames[m].node)' = Kids(frames[m].node)
    BY TreeStays
  <2>. QED  BY <2>1, <2>2 DEF Waits, Kid
<1>8. Walk(walked)'
  <2>1. (phase = "decorating" => holds[Root] = 1)'
    BY <1>4 DEF Walk, Root, Kid
  <2>. QED  BY <1>4, <1>5, <1>6, <1>7, <2>1 DEF Walk
<1>. QED  BY <1>2, <1>3, <1>8 DEF OwnersInv

(* A node gets its type; no pointer changes. *)
LEMMA TypeKept ==
  ASSUME OwnersInv, UNCHANGED <<tree, place, holds>>,
         UNCHANGED nodes \/ \E t, l : Type(top.node, t, l)
  PROVE  NodesTyped' /\ OwnersDiffer' /\ SelvesAreRight'
<1>1. NodesTyped /\ Typed
  BY DEF OwnersInv
<1>2. Made(nodes) /\ Len(nodes) \in Nat /\ DOMAIN nodes = 1..Len(nodes) /\ Len(tree) <= Len(nodes) /\ Len(tree) \in Nat
  BY <1>1, Joined, TreeParts DEF NodesTyped, Typed
<1>3. top.node \in DOMAIN nodes /\ DOMAIN tree \subseteq DOMAIN nodes
  BY <1>1, <1>2, TopParts, TreeParts DEF Typed
<1>4. /\ Made(nodes') /\ Len(nodes') = Len(nodes) /\ DOMAIN nodes' = DOMAIN nodes
      /\ \A j \in DOMAIN nodes : nodes'[j].kind = nodes[j].kind /\ nodes'[j].self = nodes[j].self /\ nodes'[j].what = nodes[j].what
  <2>1. \/ nodes' = nodes
        \/ \E t, l : nodes' = [nodes EXCEPT ![top.node].type = t, ![top.node].link = l]
    BY DEF Type
  <2>2. ASSUME nodes' = nodes
        PROVE  /\ Made(nodes') /\ Len(nodes') = Len(nodes) /\ DOMAIN nodes' = DOMAIN nodes
               /\ \A j \in DOMAIN nodes : nodes'[j].kind = nodes[j].kind /\ nodes'[j].self = nodes[j].self /\ nodes'[j].what = nodes[j].what
    BY <1>2, <2>2 DEF Made
  <2>3. ASSUME NEW t, NEW l, nodes' = [nodes EXCEPT ![top.node].type = t, ![top.node].link = l]
        PROVE  /\ Made(nodes') /\ Len(nodes') = Len(nodes) /\ DOMAIN nodes' = DOMAIN nodes
               /\ \A j \in DOMAIN nodes : nodes'[j].kind = nodes[j].kind /\ nodes'[j].self = nodes[j].self /\ nodes'[j].what = nodes[j].what
    <3>1. PICK i : i = top.node
      OBVIOUS
    <3>2. PICK r : r = Retype(nodes, i, t, l)
      OBVIOUS
    <3>3. /\ Made(r) /\ Len(r) = Len(nodes) /\ DOMAIN r = DOMAIN nodes
          /\ \A j \in DOMAIN nodes : r[j].kind = nodes[j].kind /\ r[j].self = nodes[j].self /\ r[j].what = nodes[j].what
      <4>1. Made(nodes) /\ i \in DOMAIN nodes
        BY <1>2, <1>3, <3>1
      <4>. QED  BY <3>2, <4>1, Retyped
    <3>4. nodes' = r
      BY <2>3, <3>1, <3>2 DEF Retype
    <3>. QED  BY <3>3, <3>4
  <2>. QED  BY <2>1, <2>2, <2>3
<1>5. NodesTyped'
  BY <1>1, <1>3, <1>4 DEF NodesTyped, KidsOf
<1>6. OwnersDiffer'
  BY DEF OwnersInv, OwnersDiffer
<1>7. SelvesAreRight'
  <2>1. \A s \in DOMAIN holds : holds[s] # 0 => holds[s] \in DOMAIN nodes
    BY <1>1, <1>2 DEF NodesTyped
  <2>. QED  BY <1>4, <2>1 DEF OwnersInv, SelvesAreRight
<1>. QED  BY <1>5, <1>6, <1>7

LEMMA EndKeeps ==
  ASSUME OwnersInv, UNCHANGED <<tree, place, holds>>, phase = "decorating", NEW good, Return(good),
         UNCHANGED nodes \/ \E t, l : Type(top.node, t, l)
  PROVE  OwnersInv'
BY TypeKept, ReturnKeeps

(* The innermost activation goes on, and no pointer changes. *)
LEMMA GoOnAlone ==
  ASSUME OwnersInv, UNCHANGED <<tree, place, nodes, holds>>,
         NEW r \in Activations, r.node = top.node, FrameOk(r), GoOn(r),
         \A k \in DOMAIN Kids(top.node) : k >= Now(r) => k >= From(Len(frames))
  PROVE  OwnersInv'
BY TypeKept, GoOnKeeps DEF GoOn

(* What is known of the innermost activation. *)
LEMMA TopFacts ==
  ASSUME OwnersInv
  PROVE  /\ NodesTyped /\ Typed /\ FrameOk(top) /\ Now(top) \in Int
         /\ top \in Activations /\ top.node \in DOMAIN tree /\ top.index \in Nat /\ top.at \in Steps /\ top.ok \in BOOLEAN
         /\ top.callee \in Callees
         /\ \A k \in DOMAIN Kids(top.node) : k \in Int
         /\ From(Len(frames)) = IF answer = "none" THEN Now(top) ELSE Now(top) + 1
         /\ Operands = OperandsOf(top.node) /\ ThisNode = nodes[top.node] /\ ThisNode.kind = tree[top.node].kind
         /\ (IsCall(ThisNode) <=> IsCall(tree[top.node]))
<1>1. NodesTyped /\ Typed
  BY DEF OwnersInv
<1>2. top \in Activations
  BY <1>1, TopParts
<1>3. FrameOk(top)
  <2>1. PICK walked : Walk(walked)
    BY DEF OwnersInv
  <2>2. top = frames[Len(frames)] /\ Len(frames) \in DOMAIN frames
    BY <1>1, Stack DEF Typed
  <2>. QED  BY <2>1, <2>2 DEF Walk, Busy
<1>4. Now(top) \in Int /\ top.node \in DOMAIN tree
  BY <1>1, <1>2, <1>3, NowIsInt
<1>5. From(Len(frames)) = IF answer = "none" THEN Now(top) ELSE Now(top) + 1
  BY <1>1, Stack DEF Typed, From
<1>6. \A k \in DOMAIN Kids(top.node) : k \in Int
  BY <1>1, <1>4, TreeParts DEF Typed
<1>7. top.index \in Nat /\ top.at \in Steps /\ top.ok \in BOOLEAN /\ top.callee \in Callees
  BY <1>2 DEF Activations
<1>. QED  BY <1>1, <1>2, <1>3, <1>4, <1>5, <1>6, <1>7, TopParts

----------------------------------------------------------------------------
(* Who waits for an operand, or has just got it, has not asked for all.    *)
InOperands(f) == f.at = "operands" => f.index <= OperandsOf(f.node)
Asking ==
  \A m \in DOMAIN frames :
    m < Len(frames) \/ (phase = "decorating" /\ answer # "none") => InOperands(frames[m])

WalkInv == OwnersInv /\ Asking

LEMMA AskingStays ==
  ASSUME Asking, UNCHANGED <<tree, frames, answer>>, phase' = phase \/ phase' # "decorating"
  PROVE  Asking'
BY DEF Asking, InOperands, OperandsOf

LEMMA AskingGoesOn ==
  ASSUME Typed, Asking, UNCHANGED <<tree, place>>, NEW r \in Activations, GoOn(r)
  PROVE  Asking'
<1>0. PICK n : n = Len(frames)
  OBVIOUS
<1>1. frames' = Append(Front(frames), r) /\ answer' = "none"
  BY DEF GoOn
<1>2. n \in Nat \ {0} /\ DOMAIN frames = 1..n
  BY <1>0, Stack DEF Typed
<1>3. Len(frames') = n /\ DOMAIN frames' = 1..n /\ \A m \in 1..(n - 1) : frames'[m] = frames[m]
  BY <1>0, <1>1, Stacked DEF Typed
<1>4. \A m \in 1..n : m < n => m \in 1..(n - 1) /\ InOperands(frames[m])
  BY <1>0, <1>2 DEF Asking
<1>. QED  BY <1>1, <1>3, <1>4 DEF Asking, InOperands, OperandsOf

LEMMA AskingEnters ==
  ASSUME Typed, Asking, UNCHANGED <<tree, place>>, NEW g \in Activations, InOperands(top),
         frames' = Append(Append(Front(frames), top), g), answer' = "none"
  PROVE  Asking'
<1>0. PICK n : n = Len(frames)
  OBVIOUS
<1>2. n \in Nat \ {0} /\ DOMAIN frames = 1..n /\ top = frames[n] /\ top \in Activations
  BY <1>0, Stack DEF Typed
<1>3. /\ Len(frames') = n + 1 /\ DOMAIN frames' = 1..(n + 1) /\ frames'[n] = frames[n]
      /\ \A m \in 1..(n - 1) : frames'[m] = frames[m]
  BY <1>0, <1>2, StackedTwo DEF Typed
<1>4. \A m \in 1..(n + 1) : m < n + 1 => InOperands(frames[m]) /\ frames'[m] = frames[m]
  <2>1. \A m \in 1..(n + 1) : m < n + 1 => m = n \/ (m \in 1..(n - 1) /\ m \in 1..n /\ m < n)
    BY <1>2
  <2>. QED  BY <1>0, <1>2, <1>3, <2>1 DEF Asking
<1>. QED  BY <1>3, <1>4 DEF Asking, InOperands, OperandsOf

LEMMA AskingReturns ==
  ASSUME Typed, Asking, UNCHANGED <<tree, place>>, NEW good, Return(good)
  PROVE  Asking'
<1>0. PICK n : n = Len(frames)
  OBVIOUS
<1>2. /\ n \in Nat \ {0} /\ DOMAIN frames = 1..n
      /\ Front(frames) \in Seq(Activations) /\ Len(Front(frames)) = n - 1
      /\ \A m \in 1..(n - 1) : Front(frames)[m] = frames[m]
  BY <1>0, Stack DEF Typed
<1>3. \A m \in 1..n : m < n => InOperands(frames[m])
  BY <1>0, <1>2 DEF Asking
<1>4. CASE n = 1
  <2>1. phase' = "done" /\ frames' = frames
    BY <1>0, <1>4 DEF Return
  <2>. QED  BY <1>0, <1>2, <1>3, <2>1 DEF Asking, InOperands, OperandsOf
<1>5. CASE n # 1
  <2>1. frames' = Front(frames)
    BY <1>0, <1>5 DEF Return
  <2>2. DOMAIN frames' = 1..(n - 1) /\ \A m \in 1..(n - 1) : frames'[m] = frames[m] /\ m \in 1..n /\ m < n
    BY <1>2, <2>1
  <2>. QED  BY <1>3, <2>2 DEF Asking, InOperands, OperandsOf
<1>. QED  BY <1>4, <1>5

(* The steps by themselves. *)
LEMMA WalkReturns ==
  ASSUME WalkInv, UNCHANGED <<tree, place, holds>>, phase = "decorating", NEW good, Return(good),
         UNCHANGED nodes \/ \E t, l : Type(top.node, t, l)
  PROVE  WalkInv'
BY EndKeeps, AskingReturns DEF WalkInv, OwnersInv

LEMMA WalkIdles ==
  ASSUME WalkInv, UNCHANGED <<tree, place, nodes, holds, frames, answer>>,
         phase' = phase \/ phase' # "decorating"
  PROVE  WalkInv'
BY IdleKeeps, AskingStays DEF WalkInv

LEMMA WalkEnters ==
  ASSUME WalkInv, phase = "decorating", answer = "none", InOperands(top),
         Now(top) \in DOMAIN Kids(top.node), Enter(Kid(top.node, Now(top)), top)
  PROVE  WalkInv'
<1>1. Typed /\ NodesTyped /\ UNCHANGED <<tree, place>> /\ answer' = "none"
  BY DEF WalkInv, OwnersInv, Enter, inputs
<1>2. PICK new : new = holds[Kid(top.node, Now(top))]
  OBVIOUS
<1>3. frames' = Append(Append(Front(frames), top), Frame(new))
  BY <1>2 DEF Enter
<1>4. new \in DOMAIN tree
  <2>1. PICK walked : Walk(walked)
    BY DEF WalkInv, OwnersInv
  <2>2. top = frames[Len(frames)] /\ Len(frames) \in DOMAIN frames /\ top \in Activations
    BY <1>1, Stack DEF Typed
  <2>3. Busy(Len(frames), walked) /\ From(Len(frames)) = Now(top)
    BY <2>1, <2>2 DEF Walk, From
  <2>4. Untouched(top.node, Now(top), walked) /\ FrameOk(top)
    BY <2>2, <2>3 DEF Busy
  <2>5. Now(top) \in Int /\ top.node \in DOMAIN tree
    BY <1>1, <2>2, <2>4, NowIsInt
  <2>6. new = Kids(top.node)[Now(top)]
    BY <1>2, <2>4, <2>5 DEF Untouched
  <2>. QED  BY <1>1, <2>5, <2>6, TreeParts DEF Typed
<1>5. Frame(new) \in Activations
  BY <1>4 DEF Frame, Activations, Steps, Callees
<1>6. Asking'
  BY <1>1, <1>3, <1>5, AskingEnters DEF WalkInv
<1>. QED  BY <1>6, EnterKeeps DEF WalkInv

LEMMA WalkGoesOn ==
  ASSUME WalkInv, UNCHANGED <<tree, place, nodes, holds>>,
         NEW r \in Activations, r.node = top.node, FrameOk(r), GoOn(r),
         \A k \in DOMAIN Kids(top.node) : k >= Now(r) => k >= From(Len(frames))
  PROVE  WalkInv'
BY GoOnAlone, AskingGoesOn DEF WalkInv, OwnersInv

----------------------------------------------------------------------------
LEMMA EndsKeep ==
  ASSUME WalkInv,
         RefusedOperand \/ DoConst \/ DoNot \/ DoBinary \/ DoUnknownName \/ DoName \/ EndCall
  PROVE  WalkInv'
<1>1. CASE RefusedOperand
  BY <1>1, WalkReturns DEF RefusedOperand, OperandsDone, Running, Keep, inputs, Refuse
<1>2. CASE DoConst
  BY <1>2, WalkReturns DEF DoConst, Ready, OperandsDone, Running, Keep, inputs, Good
<1>3. CASE DoNot
  BY <1>3, WalkReturns DEF DoNot, Ready, OperandsDone, Running, Keep, inputs, Good
<1>4. CASE DoBinary
  <2>1. phase = "decorating" /\ UNCHANGED <<tree, place, holds>>
    BY <1>4 DEF DoBinary, Ready, OperandsDone, Running, Keep, inputs
  <2>2. PICK result : Good(result, Nobody) \/ Refuse(TRUE)
    BY <1>4 DEF DoBinary
  <2>. QED  BY <2>1, <2>2, WalkReturns DEF Good, Refuse
<1>5. CASE DoUnknownName
  BY <1>5, WalkReturns DEF DoUnknownName, Ready, OperandsDone, Running, Keep, inputs, Refuse
<1>6. CASE DoName
  <2>1. phase = "decorating" /\ UNCHANGED <<tree, place, holds>>
    BY <1>6 DEF DoName, Ready, OperandsDone, Running, Keep, inputs
  <2>2. \E t, l : Type(top.node, t, l)
    BY <1>6 DEF DoName
  <2>3. \E good : Return(good)
    BY <1>6 DEF DoName
  <2>. QED  BY <2>1, <2>2, <2>3, WalkReturns
<1>7. CASE EndCall
  <2>1. phase = "decorating" /\ UNCHANGED <<tree, place, holds>>
    BY <1>7 DEF EndCall, Running, Keep, inputs
  <2>2. CASE Good(top.callee.type, top.callee)
    BY <2>1, <2>2, WalkReturns DEF Good
  <2>3. CASE Return(FALSE) /\ UNCHANGED nodes
    BY <2>1, <2>3, WalkReturns
  <2>. QED  BY <1>7, <2>2, <2>3 DEF EndCall
<1>. QED  BY <1>1, <1>2, <1>3, <1>4, <1>5, <1>6, <1>7

LEMMA MemberKeeps ==
  ASSUME WalkInv, DoMember
  PROVE  WalkInv'
<1>1. phase = "decorating"
  BY DEF DoMember, Ready, OperandsDone, Running
<1>2. \/ Keep /\ Refuse(TRUE)
      \/ Crash
      \/ \E type, link : Keep /\ Good(type, link)
  BY DEF DoMember
<1>3. CASE Keep /\ Refuse(TRUE)
  BY <1>1, <1>3, WalkReturns DEF Keep, inputs, Refuse
<1>4. CASE Crash
  BY <1>4, WalkIdles DEF Crash, inputs
<1>5. CASE \E type, link : Keep /\ Good(type, link)
  BY <1>1, <1>5, WalkReturns DEF Keep, inputs, Good
<1>. QED  BY <1>2, <1>3, <1>4, <1>5

LEMMA CrashesKeep ==
  ASSUME WalkInv, DoHole \/ CrashInMessage \/ UNCHANGED vars
  PROVE  WalkInv'
<1>1. CASE Crash
  BY <1>1, WalkIdles DEF Crash, inputs
<1>2. CASE UNCHANGED vars
  BY <1>2, WalkIdles DEF vars, inputs
<1>. QED  BY <1>1, <1>2 DEF DoHole, CrashInMessage

----------------------------------------------------------------------------
(* The child a call is busy with.                                          *)
LEMMA ArgumentIsChild ==
  ASSUME Typed, NodesTyped, FrameOk(top), NEW at \in {"positional", "named"}, top.at = at, Takers(at) # {}
  PROVE  /\ Given(at) = Kid(top.node, Now(top)) /\ Now(top) \in DOMAIN Kids(top.node)
         /\ at = "positional" => FirstArgument(top.node) + top.index <= NamedFrom(top.node)
<1>1. top \in Activations /\ top.node \in DOMAIN tree
  BY TopParts
<1>2. top.index \in Nat \ {0} /\ IsCall(tree[top.node])
  BY <1>1 DEF Activations, FrameOk
<1>3. PICK first : first = FirstArgument(top.node)
  OBVIOUS
<1>4. PICK named : named = NamedFrom(top.node)
  OBVIOUS
<1>5. PICK count : count = Len(tree[top.node].names)
  OBVIOUS
<1>6. PICK all : all = Len(Kids(top.node))
  OBVIOUS
<1>7. /\ first \in 1..2 /\ named \in Nat /\ first <= named /\ named + count = all + 1
      /\ count \in Nat /\ all \in Nat /\ DOMAIN tree[top.node].names = 1..count /\ DOMAIN Kids(top.node) = 1..all
  BY <1>1, <1>2, <1>3, <1>4, <1>5, <1>6, CallParts, TreeParts DEF Typed
<1>8. PICK i : i = top.index
  OBVIOUS
<1>9. CASE at = "positional"
  <2>1. i \in 1..(named - first)
    BY <1>3, <1>4, <1>8, <1>9 DEF Takers, Positional
  <2>2. Now(top) = first + i - 1 /\ Given(at) = Kid(top.node, first + i - 1)
    BY <1>3, <1>8, <1>9 DEF Now, Given, PositionalAt
  <2>3. first + i - 1 \in 1..all /\ first + i <= named
    BY <1>7, <2>1
  <2>. QED  BY <1>3, <1>4, <1>7, <1>8, <1>9, <2>2, <2>3
<1>10. CASE at = "named"
  <2>1. i \in 1..count
    BY <1>7, <1>8, <1>10 DEF Takers
  <2>2. Now(top) = named + i - 1 /\ Given(at) = Kid(top.node, named + i - 1)
    BY <1>4, <1>8, <1>10 DEF Now, Given, NamedAt
  <2>3. named + i - 1 \in 1..all
    BY <1>7, <2>1
  <2>. QED  BY <1>7, <1>10, <2>2, <2>3
<1>. QED  BY <1>9, <1>10

LEMMA EntersKeep ==
  ASSUME WalkInv, DoOperand \/ DoArgument
  PROVE  WalkInv'
<1>1. OwnersInv
  BY DEF WalkInv
<1>2. CASE DoOperand
  <2>1. top.at = "operands" /\ phase = "decorating" /\ answer = "none"
    BY <1>2 DEF DoOperand, Running
  <2>2. top.index <= OperandsOf(top.node) /\ top.index \in Nat /\ top.index >= 1 /\ top.node \in DOMAIN tree
    BY <1>1, <1>2, TopFacts DEF DoOperand, FrameOk
  <2>3. Now(top) = top.index
    BY <2>1 DEF Now
  <2>4. Now(top) \in DOMAIN Kids(top.node)
    <3>1. OperandsOf(top.node) \in 0..2 /\ OperandsOf(top.node) <= Len(Kids(top.node))
      BY <1>1, <2>2, CallParts DEF OwnersInv, Typed
    <3>2. DOMAIN Kids(top.node) = 1..Len(Kids(top.node)) /\ Len(Kids(top.node)) \in Nat
      BY <1>1, <2>2, TreeParts DEF OwnersInv, Typed
    <3>. QED  BY <2>2, <2>3, <3>1, <3>2
  <2>5. Enter(Kid(top.node, Now(top)), top)
    BY <1>2, <2>3 DEF DoOperand
  <2>. QED  BY <2>1, <2>2, <2>4, <2>5, WalkEnters DEF InOperands
<1>3. CASE DoArgument
  <2>1. PICK at \in {"positional", "named"} :
          Running(at) /\ answer = "none" /\ Takers(at) # {} /\ Enter(Given(at), top)
    BY <1>3 DEF DoArgument
  <2>2. phase = "decorating" /\ top.at = at
    BY <2>1 DEF Running
  <2>3. Given(at) = Kid(top.node, Now(top)) /\ Now(top) \in DOMAIN Kids(top.node)
    BY <1>1, <2>1, <2>2, TopFacts, ArgumentIsChild
  <2>4. Enter(Kid(top.node, Now(top)), top)
    BY <2>1, <2>3
  <2>5. InOperands(top)
    BY <2>2 DEF InOperands
  <2>. QED  BY <2>1, <2>2, <2>3, <2>4, <2>5, WalkEnters
<1>. QED  BY <1>2, <1>3

----------------------------------------------------------------------------
(* An activation goes on to its next child. *)
LEMMA Onward ==
  ASSUME NEW f \in Activations, NEW ok \in BOOLEAN, NEW r, r = [f EXCEPT !.index = @ + 1, !.ok = ok]
  PROVE  r \in Activations /\ r.node = f.node /\ r.at = f.at /\ r.index = f.index + 1
<1>1. PICK i \in Nat : i = f.index + 1
  BY DEF Activations
<1>2. r = [f EXCEPT !.index = i, !.ok = ok]
  BY <1>1
<1>3. r \in Activations /\ r.node = f.node /\ r.at = f.at /\ r.index = i
  BY <1>2 DEF Activations
<1>. QED  BY <1>1, <1>3

LEMMA TakeKeeps ==
  ASSUME WalkInv, TakeOperand
  PROVE  WalkInv'
<1>1. OwnersInv /\ top.at = "operands" /\ phase = "decorating" /\ answer # "none"
  BY DEF WalkInv, TakeOperand, Running
<1>2. PICK r : r = [top EXCEPT !.index = @ + 1, !.ok = @ /\ answer = "good"]
  OBVIOUS
<1>3. top \in Activations /\ FrameOk(top) /\ top.index \in Nat
  BY <1>1, TopFacts
<1>4. InOperands(top)
  <2>1. Len(frames) \in DOMAIN frames /\ top = frames[Len(frames)]
    BY <1>1, Stack DEF OwnersInv, Typed
  <2>. QED  BY <1>1, <2>1 DEF WalkInv, Asking
<1>5. r \in Activations /\ r.node = top.node /\ r.at = "operands" /\ r.index = top.index + 1
  <2>1. PICK ok \in BOOLEAN : ok = (top.ok /\ answer = "good")
    OBVIOUS
  <2>2. r = [top EXCEPT !.index = @ + 1, !.ok = ok]
    BY <1>2, <2>1
  <2>. QED  BY <1>1, <1>3, <2>2, Onward
<1>6. FrameOk(r)
  <2>1. OperandsOf(top.node) \in 0..2
    BY <1>1, TopFacts, CallParts DEF OwnersInv, Typed
  <2>. QED  BY <1>1, <1>3, <1>4, <1>5, <2>1 DEF FrameOk, InOperands
<1>7. GoOn(r) /\ UNCHANGED <<tree, place, nodes, holds>>
  BY <1>2 DEF TakeOperand, Keep, inputs
<1>8. \A k \in DOMAIN Kids(top.node) : k >= Now(r) => k >= From(Len(frames))
  BY <1>1, <1>3, <1>5, TopFacts DEF Now
<1>. QED  BY <1>5, <1>6, <1>7, <1>8, WalkGoesOn

LEMMA EndPositionalKeeps ==
  ASSUME WalkInv, EndPositional
  PROVE  WalkInv'
<1>1. OwnersInv /\ top.at = "positional" /\ answer = "none"
  BY DEF WalkInv, EndPositional, Running
<1>2. PICK r : r = [top EXCEPT !.at = "named", !.index = 1, !.ok = @ /\ ~(top.index \in Positional(top.node))]
  OBVIOUS
<1>3. top \in Activations /\ FrameOk(top) /\ IsCall(tree[top.node]) /\ top.node \in DOMAIN tree
  BY <1>1, TopFacts DEF FrameOk
<1>4. r \in Activations /\ r.node = top.node /\ r.at = "named" /\ r.index = 1
  BY <1>2, <1>3 DEF Activations, Steps
<1>5. FrameOk(r)
  BY <1>3, <1>4 DEF FrameOk
<1>6. GoOn(r) /\ UNCHANGED <<tree, place, nodes, holds>>
  BY <1>2 DEF EndPositional, Keep, inputs
<1>7. \A k \in DOMAIN Kids(top.node) : k >= Now(r) => k >= From(Len(frames))
  <2>1. FirstArgument(top.node) + top.index - 1 <= NamedFrom(top.node)
    BY <1>1, <1>3 DEF FrameOk
  <2>2. Now(top) = FirstArgument(top.node) + top.index - 1 /\ Now(r) = NamedFrom(top.node) + 1 - 1
    BY <1>1, <1>4 DEF Now
  <2>3. NamedFrom(top.node) \in Nat /\ Now(top) \in Int /\ From(Len(frames)) = Now(top)
    BY <1>1, <1>3, CallParts, TopFacts DEF OwnersInv, Typed
  <2>4. \A k \in DOMAIN Kids(top.node) : k \in Int
    BY <1>1, TopFacts
  <2>5. Now(top) <= NamedFrom(top.node) /\ Now(r) = NamedFrom(top.node)
    BY <2>1, <2>2, <2>3
  <2>. QED  BY <2>3, <2>4, <2>5
<1>. QED  BY <1>4, <1>5, <1>6, <1>7, WalkGoesOn

LEMMA RefuseNamedKeeps ==
  ASSUME WalkInv, RefuseNamed
  PROVE  WalkInv'
<1>1. OwnersInv /\ top.at = "named" /\ answer = "none"
  BY DEF WalkInv, RefuseNamed, Running
<1>2. PICK r : r = [top EXCEPT !.index = @ + 1, !.ok = FALSE]
  OBVIOUS
<1>3. top \in Activations /\ FrameOk(top) /\ top.index \in Nat /\ IsCall(tree[top.node]) /\ top.node \in DOMAIN tree
  BY <1>1, TopFacts DEF FrameOk
<1>4. r \in Activations /\ r.node = top.node /\ r.at = "named" /\ r.index = top.index + 1
  BY <1>1, <1>2, <1>3, Onward
<1>5. FrameOk(r)
  BY <1>3, <1>4 DEF FrameOk
<1>6. GoOn(r) /\ UNCHANGED <<tree, place, nodes, holds>>
  BY <1>2 DEF RefuseNamed, Keep, inputs
<1>7. \A k \in DOMAIN Kids(top.node) : k >= Now(r) => k >= From(Len(frames))
  <2>1. Now(top) = NamedFrom(top.node) + top.index - 1 /\ Now(r) = NamedFrom(top.node) + (top.index + 1) - 1
    BY <1>1, <1>4 DEF Now
  <2>2. NamedFrom(top.node) \in Nat /\ From(Len(frames)) = Now(top)
    BY <1>1, <1>3, CallParts, TopFacts DEF OwnersInv, Typed
  <2>3. \A k \in DOMAIN Kids(top.node) : k \in Int
    BY <1>1, TopFacts
  <2>. QED  BY <1>3, <2>1, <2>2, <2>3
<1>. QED  BY <1>4, <1>5, <1>6, <1>7, WalkGoesOn

LEMMA EndNamedKeeps ==
  ASSUME WalkInv, EndNamed
  PROVE  WalkInv'
<1>1. OwnersInv /\ top.at = "named" /\ answer = "none"
  BY DEF WalkInv, EndNamed, Running
<1>2. PICK r : r = [top EXCEPT !.at = "defaults", !.index = 1]
  OBVIOUS
<1>3. top \in Activations /\ FrameOk(top) /\ IsCall(tree[top.node]) /\ top.node \in DOMAIN tree
  BY <1>1, TopFacts DEF FrameOk
<1>4. r \in Activations /\ r.node = top.node /\ r.at = "defaults" /\ r.index = 1
  BY <1>2, <1>3 DEF Activations, Steps
<1>5. FrameOk(r)
  BY <1>3, <1>4 DEF FrameOk
<1>6. GoOn(r) /\ UNCHANGED <<tree, place, nodes, holds>>
  BY <1>2 DEF EndNamed, Keep, inputs
<1>7. \A k \in DOMAIN Kids(top.node) : ~(k >= Now(r))
  <2>1. Now(r) = Len(Kids(top.node)) + 1
    BY <1>4 DEF Now
  <2>. QED  BY <1>1, <1>3, <2>1, TreeParts DEF OwnersInv, Typed
<1>. QED  BY <1>4, <1>5, <1>6, <1>7, WalkGoesOn

----------------------------------------------------------------------------
LEMMA WalkMoves ==
  ASSUME WalkInv, UNCHANGED <<tree, place>>,
         NEW r \in Activations, r.node = top.node, FrameOk(r), GoOn(r),
         NodesTyped', OwnersDiffer', SelvesAreRight',
         \A s \in KidsOf(tree) : s[1] # top.node => holds'[s] = holds[s],
         \A k \in DOMAIN Kids(top.node) : k >= Now(r) =>
           k >= From(Len(frames)) /\ holds'[Kid(top.node, k)] = holds[Kid(top.node, k)]
  PROVE  WalkInv'
BY GoOnKeeps, AskingGoesOn DEF WalkInv, OwnersInv, GoOn

(* The pointers of the tree are none of those for arguments. *)
LEMMA KidsAreKids ==
  ASSUME IsTree(tree), NEW s \in KidsOf(tree)
  PROVE  s[2] = "kid" /\ \A i, j : s # Arg(i, j)
<1>1. s[2] = "kid"
  BY TreeParts, SlotParts
<1>. QED  BY <1>1, SlotParts

LEMMA ResolveKeeps ==
  ASSUME WalkInv, Resolve
  PROVE  WalkInv'
<1>1. /\ OwnersInv /\ NodesTyped /\ Typed /\ top.at = "operands" /\ answer = "none" /\ phase = "decorating"
      /\ IsCall(tree[top.node]) /\ top.node \in DOMAIN tree
  BY TopFacts DEF WalkInv, Resolve, OperandsDone, Running
<1>2. CASE Callee = Nobody
  BY <1>1, <1>2, WalkReturns DEF Resolve, Keep, inputs, Refuse
<1>3. CASE Callee # Nobody
  <2>1. PICK callee \in Callees : callee = Callee
    BY <1>1, CalleeIsDeclared
  <2>2. PICK i : i = top.node
    OBVIOUS
  <2>3. PICK callArgs : callArgs = {Arg(i, j) : j \in DOMAIN callee.params}
    OBVIOUS
  <2>4. PICK r : r = [top EXCEPT !.at = "positional", !.index = 1, !.callee = callee]
    OBVIOUS
  <2>5. /\ GoOn(r) /\ UNCHANGED <<tree, place, nodes>>
        /\ holds' = [s \in DOMAIN holds \cup callArgs |-> IF s \in callArgs THEN 0 ELSE holds[s]]
    BY <1>3, <2>1, <2>2, <2>3, <2>4 DEF Resolve, inputs
  <2>6. top \in Activations /\ FrameOk(top)
    BY <1>1, TopFacts
  <2>7. r \in Activations /\ r.node = i /\ r.at = "positional" /\ r.index = 1
    BY <2>1, <2>2, <2>4, <2>6 DEF Activations, Steps
  <2>8. /\ FirstArgument(i) = OperandsOf(i) + 1 /\ FirstArgument(i) \in 1..2 /\ OperandsOf(i) \in 0..2
        /\ NamedFrom(i) \in Nat /\ FirstArgument(i) <= NamedFrom(i)
    BY <1>1, <2>2, CallParts DEF Typed
  <2>9. FrameOk(r)
    BY <1>1, <2>2, <2>7, <2>8 DEF FrameOk
  <2>10. i \in Nat /\ i \in 0..Len(nodes) /\ Len(tree) <= Len(nodes) /\ Len(nodes) \in Nat
    BY <1>1, <2>2, TreeParts, Joined DEF Typed, NodesTyped
  <2>11. \A s \in callArgs : s \in Slots /\ s[1] = i /\ s[2] = "arg"
    <3>1. PICK n \in Nat : DOMAIN callee.params = 1..n
      BY <1>1, <2>1, ParametersAreList
    <3>2. \A j \in DOMAIN callee.params : Arg(i, j) \in Slots
      BY <2>10, <3>1, SlotParts
    <3>. QED  BY <2>3, <3>2, SlotParts
  <2>12. DOMAIN holds' = DOMAIN holds \cup callArgs
    BY <2>5
  <2>13. \A s \in DOMAIN holds' : holds'[s] = 0 \/ (s \in DOMAIN holds /\ holds'[s] = holds[s])
    BY <2>5
  <2>14. \A s \in KidsOf(tree) : s \notin callArgs /\ s \in DOMAIN holds /\ holds'[s] = holds[s]
    <3>1. \A s \in KidsOf(tree) : s[2] = "kid" /\ s \in DOMAIN holds
      BY <1>1, KidsAreKids DEF NodesTyped, Typed
    <3>. QED  BY <2>5, <2>11, <3>1
  <2>15. NodesTyped'
    <3>1. /\ Made(nodes)' /\ (Len(tree) <= Len(nodes))'
          /\ \A l \in DOMAIN tree : nodes'[l].kind = tree[l].kind /\ nodes'[l].what = tree[l].what
      BY <1>1, <2>5 DEF NodesTyped, Made
    <3>2. KidsOf(tree)' = KidsOf(tree)
      BY <2>5, TreeStays
    <3>3. KidsOf(tree) \subseteq DOMAIN holds' /\ DOMAIN holds' \subseteq Slots
      BY <1>1, <2>11, <2>12 DEF NodesTyped
    <3>4. \A s \in DOMAIN holds' : s[1] \in 0..Len(nodes') /\ holds'[s] \in 0..Len(nodes')
      <4>. SUFFICES ASSUME NEW s \in DOMAIN holds'
                    PROVE  s[1] \in 0..Len(nodes) /\ holds'[s] \in 0..Len(nodes)
        BY <2>5
      <4>1. s[1] \in 0..Len(nodes)
        BY <1>1, <2>10, <2>11, <2>12 DEF NodesTyped
      <4>2. holds'[s] \in 0..Len(nodes)
        BY <1>1, <2>10, <2>13 DEF NodesTyped
      <4>. QED  BY <4>1, <4>2
    <3>. QED  BY <2>5, <3>1, <3>2, <3>3, <3>4 DEF NodesTyped, Slots
  <2>16. OwnersDiffer'
    BY <1>1, <2>13 DEF OwnersInv, OwnersDiffer
  <2>17. SelvesAreRight'
    BY <1>1, <2>5, <2>13 DEF OwnersInv, SelvesAreRight
  <2>18. \A k \in DOMAIN Kids(top.node) : k >= Now(r) =>
           k >= From(Len(frames)) /\ holds'[Kid(top.node, k)] = holds[Kid(top.node, k)]
    <3>1. Now(r) = FirstArgument(i) + 1 - 1 /\ Now(top) = top.index /\ From(Len(frames)) = Now(top)
      BY <1>1, <2>7, TopFacts DEF Now
    <3>2. top.index <= OperandsOf(i) + 1 /\ top.index \in Nat
      BY <1>1, <2>2, <2>6 DEF FrameOk, Activations
    <3>3. \A k \in DOMAIN Kids(i) : k \in Int /\ Kid(i, k) \in KidsOf(tree)
      BY <1>1, <2>2, KidSlot, TopFacts
    <3>4. Now(r) >= From(Len(frames)) /\ Now(r) \in Int /\ From(Len(frames)) \in Int
      BY <2>8, <3>1, <3>2
    <3>. QED  BY <2>2, <2>14, <3>3, <3>4
  <2>. QED  BY <2>2, <2>5, <2>7, <2>9, <2>14, <2>15, <2>16, <2>17, <2>18, WalkMoves
<1>. QED  BY <1>2, <1>3

LEMMA BindKeeps ==
  ASSUME WalkInv, Bind
  PROVE  WalkInv'
<1>1. PICK at \in {"positional", "named"} :
        /\ Running(at) /\ answer # "none" /\ UNCHANGED inputs /\ UNCHANGED nodes
        /\ \E j \in Takers(at) :
             /\ holds' = [holds EXCEPT ![Arg(top.node, j)] = holds[Given(at)], ![Given(at)] = 0]
             /\ GoOn([top EXCEPT !.index = @ + 1, !.ok = @ /\ Matches(at, j)])
  BY DEF Bind
<1>2. PICK j \in Takers(at) :
        /\ holds' = [holds EXCEPT ![Arg(top.node, j)] = holds[Given(at)], ![Given(at)] = 0]
        /\ GoOn([top EXCEPT !.index = @ + 1, !.ok = @ /\ Matches(at, j)])
  BY <1>1
<1>3. OwnersInv /\ NodesTyped /\ Typed /\ top.at = at /\ UNCHANGED <<tree, place, nodes>>
  BY <1>1 DEF WalkInv, OwnersInv, Running, inputs
<1>4. PICK i : i = top.node
  OBVIOUS
<1>5. top \in Activations /\ FrameOk(top) /\ i \in DOMAIN tree /\ IsCall(tree[i]) /\ top.index \in Nat
  BY <1>3, <1>4, TopFacts DEF FrameOk
<1>6. PICK now : now = Now(top)
  OBVIOUS
<1>7. Given(at) = Kid(i, now) /\ now \in DOMAIN Kids(i) /\ now \in Int
      /\ (at = "positional" => FirstArgument(i) + top.index <= NamedFrom(i))
  BY <1>2, <1>3, <1>4, <1>5, <1>6, ArgumentIsChild, TopFacts
<1>8. PICK s : s = Kid(i, now)
  OBVIOUS
<1>9. PICK a : a = Arg(i, j)
  OBVIOUS
<1>10. s \in DOMAIN holds /\ s # a /\ s \in KidsOf(tree) /\ s[2] = "kid" /\ a[2] = "arg" /\ s[1] = i /\ s[3] = now
  BY <1>3, <1>5, <1>7, <1>8, <1>9, KidSlot, SlotParts
<1>11. holds' = [holds EXCEPT ![a] = holds[s], ![s] = 0]
  BY <1>2, <1>4, <1>7, <1>8, <1>9
<1>12. /\ DOMAIN holds' = DOMAIN holds /\ holds'[s] = 0
       /\ \A p \in DOMAIN holds : p # a /\ p # s => holds'[p] = holds[p]
       /\ \A p \in DOMAIN holds : p = a => holds'[p] = holds[s]
  BY <1>10, <1>11
<1>13. PICK r : r = [top EXCEPT !.index = @ + 1, !.ok = @ /\ Matches(at, j)]
  OBVIOUS
<1>14. r \in Activations /\ r.node = i /\ r.at = at /\ r.index = top.index + 1
  <2>1. PICK ok \in BOOLEAN : ok = (top.ok /\ Matches(at, j))
    OBVIOUS
  <2>2. r = [top EXCEPT !.index = @ + 1, !.ok = ok]
    BY <1>13, <2>1
  <2>. QED  BY <1>3, <1>4, <1>5, <2>2, Onward
<1>15. Now(r) = now + 1
  <2>1. CASE at = "positional"
    <3>1. Now(r) = FirstArgument(i) + (top.index + 1) - 1 /\ now = FirstArgument(i) + top.index - 1
      BY <1>3, <1>4, <1>6, <1>14, <2>1 DEF Now
    <3>2. FirstArgument(i) \in Int
      BY <1>3, <1>5, CallParts DEF Typed
    <3>. QED  BY <1>5, <3>1, <3>2
  <2>2. CASE at = "named"
    <3>1. Now(r) = NamedFrom(i) + (top.index + 1) - 1 /\ now = NamedFrom(i) + top.index - 1
      BY <1>3, <1>4, <1>6, <1>14, <2>2 DEF Now
    <3>2. NamedFrom(i) \in Int
      BY <1>3, <1>5, CallParts DEF Typed
    <3>. QED  BY <1>5, <3>1, <3>2
  <2>. QED  BY <2>1, <2>2
<1>16. FrameOk(r)
  <2>1. FirstArgument(i) \in Int /\ NamedFrom(i) \in Int
    BY <1>3, <1>5, CallParts DEF Typed
  <2>2. at = "positional" => FirstArgument(i) + (top.index + 1) - 1 <= NamedFrom(i)
    BY <1>5, <1>7, <2>1
  <2>. QED  BY <1>5, <1>14, <2>2 DEF FrameOk
<1>17. NodesTyped'
  <2>1. /\ Made(nodes)' /\ (Len(tree) <= Len(nodes))'
        /\ \A l \in DOMAIN tree : nodes'[l].kind = tree[l].kind /\ nodes'[l].what = tree[l].what
    BY <1>3 DEF NodesTyped, Made
  <2>2. KidsOf(tree)' = KidsOf(tree) /\ Len(nodes) \in Nat
    BY <1>3, TreeStays, Joined DEF NodesTyped
  <2>3. \A p \in DOMAIN holds' : p[1] \in 0..Len(nodes') /\ holds'[p] \in 0..Len(nodes')
    BY <1>3, <1>10, <1>12, <2>2 DEF NodesTyped
  <2>. QED  BY <1>3, <1>12, <2>1, <2>2, <2>3 DEF NodesTyped, Slots
<1>18. OwnersDiffer'
  <2>. SUFFICES ASSUME NEW p \in DOMAIN holds, NEW q \in DOMAIN holds, holds'[p] = holds'[q], holds'[p] # 0
                PROVE  p = q
    BY <1>12 DEF OwnersDiffer
  <2>1. p # s /\ q # s
    BY <1>12
  <2>2. \A o \in DOMAIN holds : holds[o] = holds[s] /\ holds[o] # 0 => o = s
    BY <1>3, <1>10 DEF OwnersInv, OwnersDiffer
  <2>3. CASE p = a
    BY <1>12, <2>1, <2>2, <2>3
  <2>4. CASE q = a
    BY <1>12, <2>1, <2>2, <2>4
  <2>5. CASE p # a /\ q # a
    BY <1>3, <1>12, <2>1, <2>5 DEF OwnersInv, OwnersDiffer
  <2>. QED  BY <2>3, <2>4, <2>5
<1>19. SelvesAreRight'
  BY <1>3, <1>10, <1>12 DEF OwnersInv, SelvesAreRight
<1>20. \A p \in KidsOf(tree) : p # s => holds'[p] = holds[p]
  <2>1. \A p \in KidsOf(tree) : p \in DOMAIN holds /\ p # a
    BY <1>3, <1>9, KidsAreKids DEF NodesTyped, Typed
  <2>. QED  BY <1>12, <2>1
<1>21. \A k \in DOMAIN Kids(top.node) : k >= Now(r) =>
         k >= From(Len(frames)) /\ holds'[Kid(top.node, k)] = holds[Kid(top.node, k)]
  <2>1. From(Len(frames)) = now + 1
    BY <1>1, <1>3, <1>6, TopFacts
  <2>2. \A k \in DOMAIN Kids(i) : k \in Int /\ Kid(i, k) \in KidsOf(tree) /\ Kid(i, k)[3] = k
    BY <1>3, <1>4, <1>5, KidSlot, TopFacts, SlotParts
  <2>3. \A k \in DOMAIN Kids(i) : k >= now + 1 => Kid(i, k) # s
    BY <1>7, <1>10, <2>2
  <2>. QED  BY <1>4, <1>15, <1>20, <2>1, <2>2, <2>3
<1>22. GoOn(r)
  BY <1>2, <1>13
<1>. QED  BY <1>3, <1>4, <1>10, <1>14, <1>16, <1>17, <1>18, <1>19, <1>20, <1>21, <1>22, WalkMoves

----------------------------------------------------------------------------
(* Different elements have different ranks.                                *)
LEMMA Ranks ==
  ASSUME NEW n \in Nat, NEW S, S \subseteq 1..n
  PROVE  /\ IsFiniteSet(S) /\ Cardinality(S) \in Nat
         /\ \A j \in S : RankIn(S, j) \in 1..Cardinality(S)
         /\ \A j, k \in S : j < k => RankIn(S, j) < RankIn(S, k)
         /\ \A j, k \in S : RankIn(S, j) = RankIn(S, k) => j = k
<1>1. IsFiniteSet(S) /\ Cardinality(S) \in Nat
  <2>1. IsFiniteSet(1..n)
    BY FS_Interval
  <2>. QED  BY <2>1, FS_Subset, FS_CardinalityType
<1>2. ASSUME NEW j \in S PROVE RankIn(S, j) \in 1..Cardinality(S)
  <2> DEFINE B == {k \in S : k <= j}
  <2>1. IsFiniteSet(B) /\ Cardinality(B) <= Cardinality(S) /\ Cardinality(B) \in Nat
    BY <1>1, FS_Subset, FS_CardinalityType
  <2>2. j \in B
    OBVIOUS
  <2>3. Cardinality(B) # 0
    BY <2>1, <2>2, FS_EmptySet
  <2>. QED  BY <1>1, <2>1, <2>3 DEF RankIn
<1>3. ASSUME NEW j \in S, NEW k \in S, j < k PROVE RankIn(S, j) < RankIn(S, k)
  <2> DEFINE B == {l \in S : l <= j}
             C1 == {l \in S : l <= k}
  <2>1. IsFiniteSet(C1) /\ k \in C1
    BY <1>1, FS_Subset
  <2>2. B \subseteq C1 \ {k}
    <3>1. \A l \in S : l <= j => l <= k /\ l # k
      BY <1>3
    <3>. QED  BY <3>1
  <2>3. IsFiniteSet(C1 \ {k}) /\ Cardinality(C1 \ {k}) = Cardinality(C1) - 1
    BY <2>1, FS_RemoveElement
  <2>4. Cardinality(B) <= Cardinality(C1 \ {k})
    BY <2>2, <2>3, FS_Subset
  <2>5. Cardinality(B) \in Nat /\ Cardinality(C1) \in Nat
    BY <2>1, <2>2, <2>3, FS_Subset, FS_CardinalityType
  <2>6. Cardinality(B) < Cardinality(C1)
    BY <2>3, <2>4, <2>5
  <2>. QED  BY <2>6 DEF RankIn
<1>4. ASSUME NEW j \in S, NEW k \in S, RankIn(S, j) = RankIn(S, k) PROVE j = k
  <2>1. j < k \/ k < j \/ j = k
    OBVIOUS
  <2>2. RankIn(S, j) \in Int
    BY <1>1, <1>2
  <2>. QED  BY <1>3, <1>4, <2>1, <2>2
<1>. QED  BY <1>1, <1>2, <1>3, <1>4

LEMMA FillKeeps ==
  ASSUME WalkInv, FillDefaults
  PROVE  WalkInv'
<1>1. /\ OwnersInv /\ NodesTyped /\ Typed /\ UNCHANGED <<tree, place>>
      /\ top.at = "defaults" /\ answer = "none"
  BY DEF WalkInv, OwnersInv, FillDefaults, Running, inputs
<1>2. PICK i : i = top.node
  OBVIOUS
<1>3. /\ top \in Activations /\ FrameOk(top) /\ i \in DOMAIN tree /\ IsCall(tree[i]) /\ top.index \in Nat
      /\ top.callee \in Callees
  BY <1>1, <1>2, TopFacts DEF FrameOk
<1>4. PICK S : S = Filled
  OBVIOUS
<1>5. PICK count : count = Cardinality(S)
  OBVIOUS
<1>6. PICK given : given = {PositionalAt(i, k) : k \in Positional(i)} \cup {NamedAt(i, k) : k \in DOMAIN tree[i].names}
  OBVIOUS
<1>7. /\ IsFiniteSet(S) /\ count \in Nat
      /\ \A j \in S : RankIn(S, j) \in 1..count
      /\ \A j, k \in S : RankIn(S, j) = RankIn(S, k) => j = k
  <2>1. PICK n \in Nat : DOMAIN Params = 1..n
    BY <1>1, <1>3, ParametersAreList DEF Params
  <2>2. S \subseteq 1..n
    BY <1>4, <2>1 DEF Filled, Unset
  <2>. QED  BY <1>5, <2>2, Ranks
<1>8. PICK clones :
        /\ nodes' = nodes \o clones
        /\ Made(clones) /\ Len(clones) = count
  <2> DEFINE clone(n) ==
        LET default == Params[CHOOSE j \in Filled : RankIn(Filled, j) = n].default
        IN NewNode("const", default, default, Nobody, NoSelf)
  <2>1. PICK clones : clones = [n \in 1..count |-> clone(n)]
    OBVIOUS
  <2>2. nodes' = nodes \o clones
    BY <1>4, <1>5, <2>1 DEF FillDefaults
  <2>3. clones = [n \in 1..count |-> clones[n]]
    BY <2>1
  <2>4. \A n \in 1..count : \E a, b, c, d, e : clones[n] = NewNode(a, b, c, d, e)
    BY <2>1
  <2>5. Made(clones) /\ Len(clones) = count
    BY <1>7, <2>3, <2>4, MadeNode
  <2>. QED  BY <2>2, <2>5
<1>9. PICK before : before = Len(nodes)
  OBVIOUS
<1>10. /\ before \in Nat /\ Made(nodes') /\ Len(nodes') = before + count /\ DOMAIN nodes = 1..before
       /\ \A l \in 1..before : nodes'[l] = nodes[l]
  BY <1>1, <1>7, <1>8, <1>9, Joined DEF NodesTyped
<1>11. holds' = [s \in DOMAIN holds |->
                  IF s \in given THEN 0
                  ELSE IF s \in {Arg(i, j) : j \in S} THEN before + RankIn(S, s[3])
                  ELSE holds[s]]
  BY <1>2, <1>4, <1>6, <1>9 DEF FillDefaults
(* What a pointer owns: nothing, what it did, or a clone. *)
<1>12. /\ DOMAIN holds' = DOMAIN holds
       /\ \A s \in DOMAIN holds :
            \/ holds'[s] = 0
            \/ holds'[s] = holds[s]
            \/ \E j \in S : s = Arg(i, j) /\ holds'[s] = before + RankIn(S, j)
  <2>. SUFFICES ASSUME NEW s \in DOMAIN holds
                PROVE  \/ holds'[s] = 0
                       \/ holds'[s] = holds[s]
                       \/ \E j \in S : s = Arg(i, j) /\ holds'[s] = before + RankIn(S, j)
    BY <1>11
  <2>1. CASE s \in given
    BY <1>11, <2>1
  <2>2. CASE s \notin given /\ s \in {Arg(i, j) : j \in S}
    <3>1. PICK j \in S : s = Arg(i, j)
      BY <2>2
    <3>2. s[3] = j
      BY <3>1, SlotParts
    <3>3. holds'[s] = before + RankIn(S, s[3])
      BY <1>11, <2>2
    <3>. QED  BY <3>1, <3>2, <3>3
  <2>3. CASE s \notin given /\ s \notin {Arg(i, j) : j \in S}
    BY <1>11, <2>3
  <2>. QED  BY <2>1, <2>2, <2>3
<1>13. \A s \in DOMAIN holds : holds[s] \in 0..before /\ s[1] \in 0..before
  BY <1>1, <1>9 DEF NodesTyped
<1>14. NodesTyped'
  <2>1. \A l \in DOMAIN tree : l \in 1..before /\ nodes'[l].kind = tree[l].kind /\ nodes'[l].what = tree[l].what
    <3>1. \A l \in DOMAIN tree : l \in 1..before
      BY <1>1, <1>9, <1>10, TreeParts DEF NodesTyped, Typed
    <3>. QED  BY <1>1, <1>10, <3>1 DEF NodesTyped
  <2>2. KidsOf(tree)' = KidsOf(tree) /\ Len(tree) <= before + count
    <3>1. Len(tree) <= before /\ Len(tree) \in Nat
      BY <1>1, <1>9, TreeParts DEF NodesTyped, Typed
    <3>. QED  BY <1>1, <1>7, <1>10, <3>1, TreeStays
  <2>3. \A s \in DOMAIN holds : s[1] \in 0..(before + count) /\ holds'[s] \in 0..(before + count)
    <3>. SUFFICES ASSUME NEW s \in DOMAIN holds
                  PROVE  s[1] \in 0..(before + count) /\ holds'[s] \in 0..(before + count)
      OBVIOUS
    <3>1. CASE \E j \in S : holds'[s] = before + RankIn(S, j)
      BY <1>7, <1>10, <1>13, <3>1
    <3>2. CASE holds'[s] = 0 \/ holds'[s] = holds[s]
      BY <1>7, <1>10, <1>13, <3>2
    <3>. QED  BY <1>12, <3>1, <3>2
  <2>. QED  BY <1>1, <1>10, <1>12, <2>1, <2>2, <2>3 DEF NodesTyped, Slots
<1>15. OwnersDiffer'
  <2>. SUFFICES ASSUME NEW p \in DOMAIN holds, NEW q \in DOMAIN holds, holds'[p] = holds'[q], holds'[p] # 0
                PROVE  p = q
    BY <1>12 DEF OwnersDiffer
  <2>1. CASE holds'[p] = holds[p] /\ holds'[q] = holds[q]
    BY <1>1, <2>1 DEF OwnersInv, OwnersDiffer
  <2>2. ASSUME NEW j \in S, p = Arg(i, j), holds'[p] = before + RankIn(S, j) PROVE p = q
    <3>1. holds'[q] \notin 0..before
      BY <1>7, <1>10, <2>2
    <3>2. PICK k \in S : q = Arg(i, k) /\ holds'[q] = before + RankIn(S, k)
      BY <1>12, <1>13, <3>1
    <3>3. RankIn(S, j) \in Int /\ RankIn(S, k) \in Int
      BY <1>7
    <3>4. RankIn(S, j) = RankIn(S, k)
      BY <1>10, <2>2, <3>2, <3>3
    <3>. QED  BY <1>7, <2>2, <3>2, <3>4
  <2>3. ASSUME NEW j \in S, q = Arg(i, j), holds'[q] = before + RankIn(S, j) PROVE p = q
    <3>1. holds'[p] \notin 0..before
      BY <1>7, <1>10, <2>3
    <3>2. PICK k \in S : p = Arg(i, k) /\ holds'[p] = before + RankIn(S, k)
      BY <1>12, <1>13, <3>1
    <3>3. RankIn(S, j) \in Int /\ RankIn(S, k) \in Int
      BY <1>7
    <3>4. RankIn(S, j) = RankIn(S, k)
      BY <1>10, <2>3, <3>2, <3>3
    <3>. QED  BY <1>7, <2>3, <3>2, <3>4
  <2>. QED  BY <1>12, <2>1, <2>2, <2>3
(* No clone is owned by a pointer the walk comes by. *)
<1>16. \A s \in DOMAIN holds : s[2] = "kid" => holds'[s] = 0 \/ holds'[s] = holds[s]
  <2>1. \A j : Arg(i, j)[2] # "kid"
    BY SlotParts
  <2>. QED  BY <1>12, <2>1
<1>17. SelvesAreRight'
  <2>. SUFFICES ASSUME NEW s \in DOMAIN holds, s[2] = "kid", s[1] \in {0} \cup DOMAIN tree, holds'[s] # 0
                PROVE  nodes'[holds'[s]].self = s
    BY <1>1, <1>12 DEF SelvesAreRight
  <2>1. holds'[s] = holds[s] /\ holds[s] \in 1..before
    BY <1>10, <1>13, <1>16
  <2>. QED  BY <1>1, <1>10, <2>1 DEF OwnersInv, SelvesAreRight
<1>18. ASSUME NEW s \in KidsOf(tree), s[1] # i PROVE holds'[s] = holds[s]
  <2>1. s \in DOMAIN holds /\ \A j : s # Arg(i, j)
    BY <1>1, KidsAreKids DEF NodesTyped, Typed
  <2>2. s \notin given
    BY <1>6, <1>18, SlotParts DEF PositionalAt, NamedAt
  <2>. QED  BY <1>11, <2>1, <2>2
<1>19. PICK r : r = [top EXCEPT !.at = "bound", !.ok = @ /\ Filled = Unset]
  OBVIOUS
<1>20. r \in Activations /\ r.node = i /\ r.at = "bound" /\ r.index = top.index
  BY <1>2, <1>3, <1>19 DEF Activations, Steps
<1>21. FrameOk(r) /\ GoOn(r)
  BY <1>3, <1>19, <1>20 DEF FrameOk, FillDefaults
<1>22. \A k \in DOMAIN Kids(top.node) : ~(k >= Now(r))
  <2>1. Now(r) = Len(Kids(i)) + 1
    BY <1>20 DEF Now
  <2>. QED  BY <1>1, <1>2, <1>3, <2>1, TreeParts DEF Typed
<1>. QED  BY <1>1, <1>2, <1>14, <1>15, <1>17, <1>18, <1>20, <1>21, <1>22, WalkMoves

----------------------------------------------------------------------------
LEMMA OwnMemberKeeps ==
  ASSUME WalkInv, DoOwnMember
  PROVE  WalkInv'
<1>1. /\ OwnersInv /\ NodesTyped /\ Typed /\ UNCHANGED <<tree, place>> /\ phase = "decorating"
  BY DEF WalkInv, OwnersInv, DoOwnMember, Ready, OperandsDone, Running, inputs
<1>2. PICK d : Replace(top.node, d) /\ Return(d.type # NoType)
  BY DEF DoOwnMember
<1>3. PICK i : i = top.node
  OBVIOUS
<1>4. PICK self : self = nodes[i].self
  OBVIOUS
<1>5. PICK member : member = Len(nodes) + 1
  OBVIOUS
<1>6. PICK inner : inner = Kid(member, 1)
  OBVIOUS
<1>7. PICK made : made = << NewNode("member", nodes[i].what, d.type, d, self),
                            NewNode("var", "this", d.of, This(d.of), NoSelf) >>
  OBVIOUS
<1>8. /\ nodes' = nodes \o made
      /\ holds' = Owning(Owning(holds, self, member), inner, Len(nodes) + 2)
  BY <1>2, <1>3, <1>4, <1>5, <1>6, <1>7 DEF Replace
(* The pointer is one of the tree. *)
<1>9. self \in KidsOf(tree) /\ self \in DOMAIN holds /\ holds[self] = i /\ i \in DOMAIN tree
  <2>1. PICK walked : Walk(walked)
    BY <1>1 DEF OwnersInv
  <2>2. PICK n : n = Len(frames)
    OBVIOUS
  <2>3. i \in DOMAIN tree
    BY <1>1, <1>3, TopParts
  <2>4. CASE n = 1
    <3>1. self = Root /\ holds[Root] = i
      BY <1>1, <1>3, <1>4, <2>1, <2>2, <2>4, SelfOfTop
    <3>2. Root \in KidsOf(tree) /\ Root \in DOMAIN holds
      BY <1>1, TreeParts DEF NodesTyped, Typed
    <3>. QED  BY <2>3, <3>1, <3>2
  <2>5. CASE n # 1
    <3>1. PICK f : f = frames[n - 1]
      OBVIOUS
    <3>2. /\ self = Kid(f.node, Now(f)) /\ holds[Kid(f.node, Now(f))] = i
          /\ f.node \in DOMAIN tree /\ Now(f) \in DOMAIN Kids(f.node)
      BY <1>1, <1>3, <1>4, <2>1, <2>2, <2>5, <3>1, SelfOfTop
    <3>. QED  BY <1>1, <2>3, <3>2, KidSlot
  <2>. QED  BY <2>4, <2>5
<1>10. PICK before : before = Len(nodes)
  OBVIOUS
<1>11. /\ before \in Nat /\ Made(nodes') /\ Len(nodes') = before + 2 /\ DOMAIN nodes = 1..before
       /\ \A l \in 1..before : nodes'[l] = nodes[l]
       /\ nodes'[member].self = self
  <2>1. Made(made) /\ Len(made) = 2
    <3>1. made = [l \in 1..2 |-> made[l]]
      BY <1>7
    <3>2. \A l \in 1..2 : \E a, b, c, e, g : made[l] = NewNode(a, b, c, e, g)
      BY <1>7
    <3>3. Made(made) /\ Len(made) = 2
      BY <3>1, <3>2, MadeNode
    <3>. QED  BY <3>3
  <2>2. /\ before \in Nat /\ Made(nodes') /\ Len(nodes') = before + 2 /\ DOMAIN nodes = 1..before
        /\ \A l \in 1..before : nodes'[l] = nodes[l]
    <3>1. Made(nodes)
      BY <1>1 DEF NodesTyped
    <3>2. PICK whole : whole = nodes \o made
      OBVIOUS
    <3>3. /\ Made(whole) /\ Len(whole) = Len(nodes) + Len(made) /\ Len(nodes) \in Nat /\ DOMAIN nodes = 1..Len(nodes)
          /\ \A l \in 1..Len(nodes) : whole[l] = nodes[l]
      BY <2>1, <3>1, <3>2, Joined
    <3>4. Made(whole) /\ Len(whole) = before + 2 /\ before \in Nat /\ DOMAIN nodes = 1..before
          /\ \A l \in 1..before : whole[l] = nodes[l]
      BY <1>10, <2>1, <3>3
    <3>5. nodes' = whole
      BY <1>8, <3>2
    <3>. QED  BY <3>4, <3>5
  <2>3. nodes'[member] = made[1]
    <3>1. PICK A : nodes \in Seq(NodesOver(A))
      BY <1>1 DEF NodesTyped, Made
    <3>2. PICK B : made \in Seq(NodesOver(B))
      BY <2>1 DEF Made
    <3>3. nodes \in Seq(NodesOver(A) \cup NodesOver(B)) /\ made \in Seq(NodesOver(A) \cup NodesOver(B))
      BY <3>1, <3>2, SeqMonotonic
    <3>4. member \in (Len(nodes) + 1)..(Len(nodes) + Len(made)) /\ member - Len(nodes) = 1
      BY <1>5, <1>10, <2>1, <2>2
    <3>. QED  BY <1>8, <3>3, <3>4, ConcatProperties
  <2>4. made[1].self = self
    BY <1>7 DEF NewNode
  <2>. QED  BY <2>2, <2>3, <2>4
<1>12. \A s \in DOMAIN holds : holds[s] \in 0..before /\ s[1] \in 0..before
  BY <1>1, <1>10 DEF NodesTyped
<1>13. /\ inner \notin DOMAIN holds /\ inner[1] = before + 1 /\ inner # self /\ inner \in Slots
       /\ member = before + 1
  <2>1. inner[1] = before + 1 /\ inner \in Slots /\ member = before + 1
    BY <1>5, <1>6, <1>10, <1>11, SlotParts
  <2>2. inner \notin DOMAIN holds
    BY <1>11, <1>12, <2>1
  <2>. QED  BY <1>9, <2>1, <2>2
<1>14. /\ DOMAIN holds' = DOMAIN holds \cup {inner}
       /\ holds'[self] = before + 1 /\ holds'[inner] = before + 2
       /\ \A s \in DOMAIN holds : s # self => holds'[s] = holds[s]
  BY <1>8, <1>9, <1>10, <1>13 DEF Owning
<1>15. NodesTyped'
  <2>1. \A l \in DOMAIN tree : l \in 1..before /\ nodes'[l].kind = tree[l].kind /\ nodes'[l].what = tree[l].what
    <3>1. \A l \in DOMAIN tree : l \in 1..before
      BY <1>1, <1>10, <1>11, TreeParts DEF NodesTyped, Typed
    <3>. QED  BY <1>1, <1>11, <3>1 DEF NodesTyped
  <2>2. KidsOf(tree)' = KidsOf(tree) /\ Len(tree) <= before + 2
    <3>1. Len(tree) <= before /\ Len(tree) \in Nat
      BY <1>1, <1>10, TreeParts DEF NodesTyped, Typed
    <3>. QED  BY <1>1, <1>11, <3>1, TreeStays
  <2>3. \A s \in DOMAIN holds' : s[1] \in 0..(before + 2) /\ holds'[s] \in 0..(before + 2)
    <3>. SUFFICES ASSUME NEW s \in DOMAIN holds'
                  PROVE  s[1] \in 0..(before + 2) /\ holds'[s] \in 0..(before + 2)
      OBVIOUS
    <3>1. CASE s = inner
      BY <1>11, <1>13, <1>14, <3>1
    <3>2. CASE s = self
      BY <1>9, <1>11, <1>12, <1>14, <3>2
    <3>3. CASE s # inner /\ s # self
      BY <1>11, <1>12, <1>14, <3>3
    <3>. QED  BY <3>1, <3>2, <3>3
  <2>. QED  BY <1>1, <1>11, <1>13, <1>14, <2>1, <2>2, <2>3 DEF NodesTyped, Slots
<1>16. OwnersDiffer'
  <2>. SUFFICES ASSUME NEW p \in DOMAIN holds', NEW q \in DOMAIN holds', holds'[p] = holds'[q], holds'[p] # 0
                PROVE  p = q
    BY DEF OwnersDiffer
  <2>1. \A s \in DOMAIN holds : s # self => holds'[s] \in 0..before
    BY <1>12, <1>14
  <2>2. \A s \in DOMAIN holds' : s = inner \/ s = self \/ (s \in DOMAIN holds /\ s # self)
    BY <1>14
  <2>3. CASE p = inner \/ p = self \/ q = inner \/ q = self
    BY <1>11, <1>14, <2>1, <2>2, <2>3
  <2>4. CASE ~(p = inner \/ p = self \/ q = inner \/ q = self)
    BY <1>1, <1>14, <2>2, <2>4 DEF OwnersInv, OwnersDiffer
  <2>. QED  BY <2>3, <2>4
<1>17. SelvesAreRight'
  <2>. SUFFICES ASSUME NEW s \in DOMAIN holds', s[2] = "kid", s[1] \in {0} \cup DOMAIN tree, holds'[s] # 0
                PROVE  nodes'[holds'[s]].self = s
    BY <1>1 DEF SelvesAreRight
  <2>1. s # inner
    <3>1. Len(tree) \in Nat /\ DOMAIN tree = 1..Len(tree) /\ Len(tree) <= before
      BY <1>1, <1>10, TreeParts DEF NodesTyped, Typed
    <3>. QED  BY <1>11, <1>13, <3>1
  <2>2. CASE s = self
    BY <1>11, <1>13, <1>14, <2>2
  <2>3. CASE s # self
    <3>1. s \in DOMAIN holds /\ holds'[s] = holds[s] /\ holds[s] \in 1..before
      BY <1>11, <1>12, <1>14, <2>1, <2>3
    <3>. QED  BY <1>1, <1>11, <3>1 DEF OwnersInv, SelvesAreRight
  <2>. QED  BY <2>2, <2>3
<1>18. \A s \in KidsOf(tree) : s # nodes[top.node].self => holds'[s] = holds[s]
  BY <1>1, <1>3, <1>4, <1>14 DEF NodesTyped
<1>19. OwnersInv'
  BY <1>1, <1>2, <1>15, <1>16, <1>17, <1>18, ReturnKeeps
<1>. QED  BY <1>1, <1>2, <1>19, AskingReturns DEF WalkInv

----------------------------------------------------------------------------
LEMMA WalkBegins ==
  ASSUME Init
  PROVE  WalkInv
<1>1. /\ IsTree(tree) /\ place \in Seq(Range(place)) /\ \A s \in DOMAIN place : IsScope(place[s])
      /\ nodes = [i \in DOMAIN tree |-> NewNode(tree[i].kind, tree[i].what, NoType, Nobody, SelfIn(tree, i))]
      /\ holds = [s \in KidsOf(tree) |-> Held(tree, s)]
      /\ frames = <<Frame(1)>> /\ answer = "none" /\ phase = "decorating"
  BY CasesAreTrees DEF Init
<1>2. /\ Len(tree) \in Nat \ {0} /\ DOMAIN tree = 1..Len(tree) /\ 1 \in DOMAIN tree
      /\ \A i \in DOMAIN tree : \A k \in DOMAIN Kids(i) : Kids(i)[k] \in DOMAIN tree /\ Kids(i)[k] > i /\ k \in Int
  BY <1>1, TreeParts
(* What the pointers own. *)
<1>3. /\ holds[Root] = 1 /\ Root \in KidsOf(tree)
      /\ \A i \in DOMAIN tree : \A k \in DOMAIN Kids(i) :
           Kid(i, k) \in KidsOf(tree) /\ Kid(i, k) # Root /\ holds[Kid(i, k)] = Kids(i)[k]
  <2>1. Root \in KidsOf(tree) /\ holds[Root] = 1
    BY <1>1, TreeParts DEF Held
  <2>. SUFFICES ASSUME NEW i \in DOMAIN tree, NEW k \in DOMAIN Kids(i)
                PROVE  Kid(i, k) \in KidsOf(tree) /\ Kid(i, k) # Root /\ holds[Kid(i, k)] = Kids(i)[k]
    BY <2>1
  <2>2. Kid(i, k) \in {Kid(i, l) : l \in DOMAIN Kids(i)}
    OBVIOUS
  <2>3. Kid(i, k) \in KidsOf(tree)
    BY <1>1, <2>2, TreeParts
  <2>4. Kid(i, k) # Root /\ Kid(i, k)[1] = i /\ Kid(i, k)[3] = k
    BY <1>2, SlotParts
  <2>. QED  BY <1>1, <2>3, <2>4 DEF Held, Kids
<1>4. \A s \in KidsOf(tree) :
        s = Root \/ \E i \in DOMAIN tree : \E k \in DOMAIN Kids(i) : s = Kid(i, k)
  BY <1>1, TreeParts
<1>5. OwnersDiffer
  <2>. SUFFICES ASSUME NEW s \in KidsOf(tree), NEW t \in KidsOf(tree), holds[s] = holds[t] PROVE s = t
    BY <1>1 DEF OwnersDiffer
  <2>1. \A i \in DOMAIN tree : \A k \in DOMAIN Kids(i) : holds[Kid(i, k)] # 1
    BY <1>2, <1>3
  <2>2. CASE s = Root \/ t = Root
    BY <1>3, <1>4, <2>1, <2>2
  <2>3. CASE s # Root /\ t # Root
    <3>1. PICK i \in DOMAIN tree : \E k \in DOMAIN Kids(i) : s = Kid(i, k)
      BY <1>4, <2>3
    <3>2. PICK k \in DOMAIN Kids(i) : s = Kid(i, k)
      BY <3>1
    <3>3. PICK j \in DOMAIN tree : \E l \in DOMAIN Kids(j) : t = Kid(j, l)
      BY <1>4, <2>3
    <3>4. PICK l \in DOMAIN Kids(j) : t = Kid(j, l)
      BY <3>3
    <3>5. Kids(i)[k] = Kids(j)[l]
      BY <1>3, <3>2, <3>4
    <3>. QED  BY <1>1, <3>2, <3>4, <3>5, TreeParts
  <2>. QED  BY <2>2, <2>3
<1>6. \A s \in KidsOf(tree) : s \in Slots /\ s[1] \in 0..Len(tree) /\ holds[s] \in 1..Len(tree)
  <2>. SUFFICES ASSUME NEW s \in KidsOf(tree)
                PROVE  s \in Slots /\ s[1] \in 0..Len(tree) /\ holds[s] \in 1..Len(tree)
    OBVIOUS
  <2>1. CASE s = Root
    BY <1>2, <1>3, <2>1, SlotParts
  <2>2. ASSUME NEW i \in DOMAIN tree, NEW k \in DOMAIN Kids(i), s = Kid(i, k)
        PROVE  s \in Slots /\ s[1] \in 0..Len(tree) /\ holds[s] \in 1..Len(tree)
    <3>1. k \in Nat /\ i \in Nat
      BY <1>1, TreeParts
    <3>. QED  BY <1>2, <1>3, <2>2, <3>1, SlotParts
  <2>. QED  BY <1>4, <2>1, <2>2
<1>7. /\ Made(nodes) /\ Len(nodes) = Len(tree)
      /\ \A i \in DOMAIN tree : nodes[i].kind = tree[i].kind /\ nodes[i].what = tree[i].what /\ nodes[i].self = SelfIn(tree, i)
  <2>1. nodes = [i \in 1..Len(tree) |-> nodes[i]]
    BY <1>1, <1>2
  <2>2. \A i \in 1..Len(tree) : \E a, b, c, d, e : nodes[i] = NewNode(a, b, c, d, e)
    BY <1>1, <1>2
  <2>3. \A i \in DOMAIN tree : nodes[i].kind = tree[i].kind /\ nodes[i].what = tree[i].what /\ nodes[i].self = SelfIn(tree, i)
    BY <1>1 DEF NewNode
  <2>. QED  BY <1>2, <2>1, <2>2, <2>3, MadeNode
<1>8. NodesTyped
  BY <1>1, <1>2, <1>6, <1>7 DEF NodesTyped
<1>9. SelvesAreRight
  <2>. SUFFICES ASSUME NEW s \in KidsOf(tree) PROVE nodes[holds[s]].self = s
    BY <1>1 DEF SelvesAreRight
  <2>1. nodes[holds[s]].self = SelfIn(tree, holds[s])
    BY <1>2, <1>6, <1>7
  <2>2. \A t \in KidsOf(tree) : Held(tree, t) = holds[s] => t = s
    BY <1>1, <1>5, <1>6 DEF OwnersDiffer
  <2>3. SelfIn(tree, holds[s]) = s
    BY <1>1, <2>2 DEF SelfIn
  <2>. QED  BY <2>1, <2>3
<1>10. PICK f : f = Frame(1)
  OBVIOUS
<1>11. f \in Activations /\ FrameOk(f) /\ Now(f) = 1 /\ f.node = 1 /\ frames = <<f>>
  <2>1. f \in Activations /\ f.at = "operands" /\ f.index = 1 /\ f.node = 1
    BY <1>2, <1>10 DEF Frame, Activations, Steps, Callees
  <2>2. OperandsOf(1) \in 0..2
    BY <1>1, <1>2, CallParts
  <2>. QED  BY <1>1, <1>10, <2>1, <2>2 DEF FrameOk, Now
<1>12. Typed
  BY <1>1, <1>11 DEF Typed
<1>13. Len(frames) = 1 /\ DOMAIN frames = 1..1 /\ frames[1] = f
  BY <1>11
<1>14. ASSUME NEW i \in DOMAIN tree PROVE Untouched(i, 1, {1})
  <2>1. \A k \in DOMAIN Kids(i) : Kids(i)[k] # 1
    BY <1>2
  <2>. QED  BY <1>3, <2>1 DEF Untouched
<1>15. Walk({1})
  <2>1. From(1) = 1
    BY <1>1, <1>11, <1>13 DEF From
  <2>2. Busy(1, {1})
    BY <1>2, <1>11, <1>13, <1>14, <2>1 DEF Busy
  <2>3. \A m \in 1..1 : m = 1
    OBVIOUS
  <2>. QED  BY <1>2, <1>3, <1>11, <1>13, <1>14, <2>2, <2>3 DEF Walk
<1>16. Asking
  BY <1>1, <1>13 DEF Asking
<1>. QED  BY <1>5, <1>8, <1>9, <1>12, <1>15, <1>16 DEF WalkInv, OwnersInv

LEMMA WalkSteps ==
  ASSUME WalkInv, [Next]_vars
  PROVE  WalkInv'
<1>1. CASE DoOperand \/ DoArgument
  BY <1>1, EntersKeep
<1>2. CASE TakeOperand
  BY <1>2, TakeKeeps
<1>3. CASE RefusedOperand \/ DoConst \/ DoNot \/ DoBinary \/ DoUnknownName \/ DoName \/ EndCall
  BY <1>3, EndsKeep
<1>4. CASE DoMember
  BY <1>4, MemberKeeps
<1>5. CASE DoHole \/ CrashInMessage \/ UNCHANGED vars
  BY <1>5, CrashesKeep
<1>6. CASE DoOwnMember
  BY <1>6, OwnMemberKeeps
<1>7. CASE Resolve
  BY <1>7, ResolveKeeps
<1>8. CASE Bind
  BY <1>8, BindKeeps
<1>9. CASE EndPositional
  BY <1>9, EndPositionalKeeps
<1>10. CASE RefuseNamed
  BY <1>10, RefuseNamedKeeps
<1>11. CASE EndNamed
  BY <1>11, EndNamedKeeps
<1>12. CASE FillDefaults
  BY <1>12, FillKeeps
<1>. QED  BY <1>1, <1>2, <1>3, <1>4, <1>5, <1>6, <1>7, <1>8, <1>9, <1>10, <1>11, <1>12 DEF Next

LEMMA WalkHasOwners ==
  ASSUME WalkInv
  PROVE  NodesHaveOneOwner
<1>1. OwnersInv /\ NodesTyped /\ Typed
  BY DEF WalkInv, OwnersInv
<1>2. ASSUME phase = "decorating", NEW k \in DOMAIN frames
      PROVE  \E s \in DOMAIN holds : holds[s] = frames[k].node
  <2>1. PICK walked : Walk(walked)
    BY <1>1 DEF OwnersInv
  <2>2. Len(frames) \in Nat \ {0} /\ DOMAIN frames = 1..Len(frames) /\ \A m \in DOMAIN frames : frames[m] \in Activations
    BY <1>1, Stack DEF Typed
  <2>3. CASE k = 1
    <3>1. holds[Root] = 1 /\ frames[1].node = 1
      BY <1>2, <2>1 DEF Walk
    <3>2. Root \in DOMAIN holds
      BY <1>1, TreeParts DEF NodesTyped, Typed
    <3>. QED  BY <2>3, <3>1, <3>2
  <2>4. CASE k # 1
    <3>1. PICK m : m = k - 1
      OBVIOUS
    <3>2. m \in 1..(Len(frames) - 1) /\ m \in DOMAIN frames /\ m + 1 = k
      BY <2>2, <2>4, <3>1
    <3>3. Waits(frames[m], frames[k].node) /\ frames[m].node \in DOMAIN tree
      BY <2>1, <2>2, <3>2 DEF Walk, Activations
    <3>. QED  BY <1>1, <3>3, KidSlot DEF Waits
  <2>. QED  BY <2>3, <2>4
<1>. QED  BY <1>1, <1>2 DEF OwnersInv, OwnersDiffer, SelvesAreRight, NodesHaveOneOwner

(* The walk over an expression only works on nodes some pointer owns, and  *)
(* knows the pointer to each: the strengthening the next theorem needs.    *)
THEOREM ExpressionsAreWalked == Spec => []WalkInv
<1>1. Init => WalkInv
  BY WalkBegins
<1>2. WalkInv /\ [Next]_vars => WalkInv'
  BY WalkSteps
<1>. QED  BY <1>1, <1>2, PTL DEF Spec

(* Whatever the decorator replaces, moves into the order of the parameters *)
(* or deletes, no node of an expression has two owners (Replacable,        *)
(* decorateCall): each pointer the walk may still come by owns a node that *)
(* knows it, and no activation works on a node that is gone.               *)
THEOREM OwnersAreUnique == Spec => []NodesHaveOneOwner
<1>1. WalkInv => NodesHaveOneOwner
  BY WalkHasOwners
<1>. QED  BY <1>1, ExpressionsAreWalked, PTL

----------------------------------------------------------------------------
(* Why an expression is refused, or the compiler dies of it.               *)
Excused == reported \/ MentionsUntyped
Explained(f) ==
  /\ f.ok \/ Excused
  /\ f.at # "operands" => f.callee \in Mentioned \ {Nobody}
CrashExplained ==
  \/ MentionsUntyped
  \/ \E i \in DOMAIN tree : tree[i].kind = "hole"
  \/ top.at = "positional" /\ TypeAt(Given("positional")) # Params[top.index].type

FailInv ==
  /\ \A m \in DOMAIN frames : Explained(frames[m])
  /\ answer \in {"none", "good", "bad"} /\ (answer = "bad" => Excused)
  /\ phase = "crashed" => CrashExplained

LEMMA MeaningStays ==
  ASSUME UNCHANGED <<tree, place>>, reported => reported'
  PROVE  /\ Mentioned' = Mentioned /\ (MentionsUntyped => MentionsUntyped') /\ (Excused => Excused')
         /\ \A f : Explained(f) => Explained(f)'
<1>1. Mentioned' = Mentioned
  BY DEF Mentioned, FindName, FindMember
<1>2. MentionsUntyped => MentionsUntyped'
  BY <1>1 DEF MentionsUntyped
<1>3. Excused => Excused'
  BY <1>2 DEF Excused
<1>4. \A f : Explained(f) => Explained(f)'
  BY <1>1, <1>3 DEF Explained
<1>. QED  BY <1>1, <1>2, <1>3, <1>4

LEMMA FailReturns ==
  ASSUME Typed, FailInv, UNCHANGED <<tree, place>>, phase = "decorating", reported => reported',
         NEW good, Return(good), good \/ Excused'
  PROVE  FailInv'
<1>1. \A m \in DOMAIN frames' : m \in DOMAIN frames /\ frames'[m] = frames[m]
  <2>1. CASE Len(frames) = 1
    BY <2>1 DEF Return
  <2>2. CASE Len(frames) # 1
    <3>1. frames' = Front(frames)
      BY <2>2 DEF Return
    <3>2. /\ Len(frames) \in Nat \ {0} /\ DOMAIN frames = 1..Len(frames)
          /\ Front(frames) \in Seq(Activations) /\ Len(Front(frames)) = Len(frames) - 1
          /\ \A m \in 1..(Len(frames) - 1) : Front(frames)[m] = frames[m]
      BY Stack DEF Typed
    <3>. QED  BY <3>1, <3>2
  <2>. QED  BY <2>1, <2>2
<1>2. ASSUME NEW m \in DOMAIN frames' PROVE Explained(frames[m])'
  <2>1. PICK f : f = frames[m]
    OBVIOUS
  <2>2. Explained(f)' /\ frames'[m] = f
    BY <1>1, <1>2, <2>1, MeaningStays DEF FailInv
  <2>. QED  BY <2>2 DEF Explained
<1>3. answer' \in {"good", "bad"} /\ (answer' = "bad" => Excused')
  BY DEF Return
<1>4. phase' # "crashed"
  BY DEF Return
<1>. QED  BY <1>2, <1>3, <1>4 DEF FailInv

LEMMA FailGoesOn ==
  ASSUME Typed, FailInv, UNCHANGED <<tree, place>>, phase = "decorating", reported => reported',
         NEW r, GoOn(r), Explained(r)'
  PROVE  FailInv'
<1>1. \A m \in DOMAIN frames' : frames'[m] = r \/ (m \in DOMAIN frames /\ frames'[m] = frames[m])
  <2>1. frames' = Append(Front(frames), r)
    BY DEF GoOn
  <2>0. PICK n : n = Len(frames)
    OBVIOUS
  <2>2. n \in Nat \ {0} /\ DOMAIN frames = 1..n
    BY <2>0, Stack DEF Typed
  <2>3. /\ DOMAIN frames' = 1..n /\ frames'[n] = r
        /\ \A m \in 1..(n - 1) : frames'[m] = frames[m]
    <3>1. PICK A : A = Activations \cup {r}
      OBVIOUS
    <3>2. frames \in Seq(A) /\ frames # <<>> /\ r \in A
      BY <3>1, SeqMonotonic DEF Typed
    <3>. QED  BY <2>0, <2>1, <3>2, Stacked
  <2>4. \A m \in 1..n : m = n \/ (m \in 1..(n - 1) /\ m \in 1..n)
    BY <2>2
  <2>. QED  BY <2>2, <2>3, <2>4
<1>2. ASSUME NEW m \in DOMAIN frames' PROVE Explained(frames[m])'
  <2>1. CASE frames'[m] = r
    BY <2>1 DEF Explained
  <2>2. CASE m \in DOMAIN frames /\ frames'[m] = frames[m]
    <3>1. PICK f : f = frames[m]
      OBVIOUS
    <3>2. Explained(f)' /\ frames'[m] = f
      BY <2>2, <3>1, MeaningStays DEF FailInv
    <3>. QED  BY <3>2 DEF Explained
  <2>. QED  BY <1>1, <2>1, <2>2
<1>3. answer' = "none" /\ phase' # "crashed"
  BY DEF GoOn
<1>. QED  BY <1>2, <1>3 DEF FailInv

LEMMA FailEnters ==
  ASSUME Typed, FailInv, NEW s, Enter(s, top), phase = "decorating"
  PROVE  FailInv'
<1>1. UNCHANGED <<tree, place, nodes, reported, phase>> /\ answer' = "none"
  BY DEF Enter, inputs
<1>2. PICK n : n = Len(frames)
  OBVIOUS
<1>3. PICK g : g = Frame(holds[s])
  OBVIOUS
<1>4. frames' = Append(Append(Front(frames), top), g)
  BY <1>3 DEF Enter
<1>5. /\ n \in Nat \ {0} /\ DOMAIN frames = 1..n /\ top = frames[n]
      /\ Front(frames) \in Seq(Activations) /\ Len(Front(frames)) = n - 1
      /\ \A m \in 1..(n - 1) : Front(frames)[m] = frames[m]
      /\ top \in Activations
  BY <1>2, Stack DEF Typed
<1>6. PICK A : A = Activations \cup {g}
  OBVIOUS
<1>7. Front(frames) \in Seq(A) /\ top \in A /\ g \in A
  BY <1>5, <1>6, SeqMonotonic
<1>8. PICK b : b = Append(Front(frames), top)
  OBVIOUS
<1>9. /\ b \in Seq(A) /\ Len(b) = n /\ b[n] = top /\ \A m \in 1..(n - 1) : b[m] = frames[m]
  BY <1>5, <1>7, <1>8
<1>10. /\ DOMAIN frames' = 1..(n + 1) /\ frames'[n + 1] = g /\ \A m \in 1..n : frames'[m] = b[m]
  BY <1>4, <1>5, <1>7, <1>8, <1>9
<1>11. \A m \in DOMAIN frames' : frames'[m] = g \/ (m \in DOMAIN frames /\ frames'[m] = frames[m])
  <2>1. \A m \in 1..(n + 1) : m = n + 1 \/ m = n \/ m \in 1..(n - 1)
    BY <1>5
  <2>2. \A m \in 1..(n - 1) : m \in 1..n
    BY <1>5
  <2>. QED  BY <1>5, <1>9, <1>10, <2>1, <2>2
<1>12. ASSUME NEW m \in DOMAIN frames' PROVE Explained(frames[m])'
  <2>1. CASE frames'[m] = g
    BY <1>3, <2>1 DEF Explained, Frame
  <2>2. CASE m \in DOMAIN frames /\ frames'[m] = frames[m]
    <3>1. PICK f : f = frames[m]
      OBVIOUS
    <3>2. Explained(f)' /\ frames'[m] = f
      BY <1>1, <2>2, <3>1, MeaningStays DEF FailInv
    <3>. QED  BY <3>2 DEF Explained
  <2>. QED  BY <1>11, <2>1, <2>2
<1>. QED  BY <1>1, <1>12 DEF FailInv

(* What the walk looks up is mentioned. *)
LEMMA LookedUp ==
  ASSUME NodesTyped, Typed
  PROVE  /\ FindName(ThisNode.what) \in Mentioned
         /\ \A c \in DOMAIN Classes : /\ FindMember(c, "functions", ThisNode.what) \in Mentioned
                                      /\ FindMember(c, "variables", ThisNode.what) \in Mentioned
<1>1. PICK i \in DOMAIN tree : i = top.node
  BY TopParts
<1>2. PICK what : what = tree[i].what
  OBVIOUS
<1>3. ThisNode.what = what
  BY <1>1, <1>2 DEF NodesTyped, ThisNode
<1>4. FindName(what) \in Mentioned
  BY <1>2 DEF Mentioned
<1>5. ASSUME NEW c \in DOMAIN Classes, NEW p \in {"variables", "functions"}
      PROVE  FindMember(c, p, what) \in Mentioned
  BY <1>2 DEF Mentioned
<1>. QED  BY <1>3, <1>4, <1>5

(* The innermost activation, and what is known of its outcome. *)
LEMMA TopIsExplained ==
  ASSUME Typed, FailInv
  PROVE  Explained(top)
BY Stack DEF Typed, FailInv

LEMMA EndsExplained ==
  ASSUME WalkInv, FailInv,
         \/ RefusedOperand \/ DoConst \/ DoNot \/ DoBinary \/ DoUnknownName \/ DoName
         \/ DoOwnMember \/ EndCall
  PROVE  FailInv'
<1>1. NodesTyped /\ Typed /\ Explained(top)
  BY TopIsExplained DEF WalkInv, OwnersInv
<1>2. CASE RefusedOperand
  <2>1. UNCHANGED <<tree, place>> /\ phase = "decorating" /\ Return(FALSE) /\ (reported => reported') /\ ~top.ok
    BY <1>2 DEF RefusedOperand, OperandsDone, Running, Keep, inputs, Refuse
  <2>2. Excused'
    BY <1>1, <2>1, MeaningStays DEF Explained
  <2>. QED  BY <1>1, <2>1, <2>2, FailReturns
<1>3. CASE DoConst
  <2>1. UNCHANGED <<tree, place>> /\ phase = "decorating" /\ Return(TRUE) /\ (reported => reported')
    BY <1>3 DEF DoConst, Ready, OperandsDone, Running, Keep, inputs, Good
  <2>. QED  BY <1>1, <2>1, FailReturns
<1>4. CASE DoNot
  <2>1. UNCHANGED <<tree, place>> /\ phase = "decorating" /\ Return(TRUE) /\ (reported => reported')
    BY <1>4 DEF DoNot, Ready, OperandsDone, Running, Keep, inputs, Good
  <2>. QED  BY <1>1, <2>1, FailReturns
<1>5. CASE DoBinary
  <2>1. UNCHANGED <<tree, place>> /\ phase = "decorating"
    BY <1>5 DEF DoBinary, Ready, OperandsDone, Running, Keep, inputs
  <2>2. \/ Return(TRUE) /\ UNCHANGED reported
        \/ Return(FALSE) /\ reported'
    BY <1>5 DEF DoBinary, Good, Refuse
  <2>3. CASE Return(TRUE) /\ UNCHANGED reported
    BY <1>1, <2>1, <2>3, FailReturns
  <2>4. CASE Return(FALSE) /\ reported'
    <3>1. Excused'
      BY <2>4 DEF Excused
    <3>. QED  BY <1>1, <2>1, <2>4, <3>1, FailReturns
  <2>. QED  BY <2>2, <2>3, <2>4
<1>6. CASE DoUnknownName
  <2>1. UNCHANGED <<tree, place>> /\ phase = "decorating" /\ Return(FALSE) /\ reported'
    BY <1>6 DEF DoUnknownName, Ready, OperandsDone, Running, Keep, inputs, Refuse
  <2>2. Excused'
    BY <2>1 DEF Excused
  <2>. QED  BY <1>1, <2>1, <2>2, FailReturns
(* A name that is found, but whose type is not. *)
<1>7. CASE DoName \/ DoOwnMember
  <2>1. UNCHANGED <<tree, place>> /\ phase = "decorating" /\ UNCHANGED reported
    BY <1>7 DEF DoName, DoOwnMember, Ready, OperandsDone, Running, Keep, inputs
  <2>2. PICK d : d = Variable(ThisNode.what)
    OBVIOUS
  <2>3. Return(d.type # NoType) /\ d # Nobody
    <3>1. Nobody.of = NoClass
      BY DEF Nobody, Declaration
    <3>. QED  BY <1>7, <2>2, <3>1 DEF DoName, DoOwnMember
  <2>4. ASSUME d.type = NoType PROVE Excused'
    <3>1. d \in Mentioned \ {Nobody}
      BY <1>1, <2>2, <2>3, LookedUp DEF Variable
    <3>2. MentionsUntyped
      BY <2>4, <3>1 DEF MentionsUntyped
    <3>. QED  BY <2>1, <3>2, MeaningStays DEF Excused
  <2>. QED  BY <1>1, <2>1, <2>3, <2>4, FailReturns
<1>8. CASE EndCall
  <2>1. UNCHANGED <<tree, place>> /\ phase = "decorating" /\ UNCHANGED reported /\ top.at = "bound"
    BY <1>8 DEF EndCall, Running, Keep, inputs
  <2>2. CASE Good(top.callee.type, top.callee)
    BY <1>1, <2>1, <2>2, FailReturns DEF Good
  <2>3. CASE ~(top.ok /\ top.callee.type # NoType)
    <3>1. Return(FALSE)
      BY <1>8, <2>3 DEF EndCall
    <3>2. Excused
      <4>1. CASE ~top.ok
        BY <1>1, <4>1 DEF Explained
      <4>2. CASE top.callee.type = NoType
        BY <1>1, <2>1, <4>2 DEF Explained, MentionsUntyped, Excused
      <4>. QED  BY <2>3, <4>1, <4>2
    <3>3. Excused'
      BY <2>1, <3>2, MeaningStays
    <3>. QED  BY <1>1, <2>1, <3>1, <3>3, FailReturns
  <2>. QED  BY <1>8, <2>2, <2>3 DEF EndCall
<1>. QED  BY <1>2, <1>3, <1>4, <1>5, <1>6, <1>7, <1>8

LEMMA CrashesExplained ==
  ASSUME WalkInv, FailInv, Crash, CrashExplained
  PROVE  FailInv'
<1>1. UNCHANGED <<tree, place, nodes, holds, frames, answer, reported>>
  BY DEF Crash, inputs
<1>2. \A f : Explained(f) => Explained(f)'
  BY <1>1, MeaningStays
<1>3. ASSUME NEW m \in DOMAIN frames' PROVE Explained(frames[m])'
  <2>1. PICK f : f = frames[m]
    OBVIOUS
  <2>2. Explained(f)' /\ frames'[m] = f
    BY <1>1, <1>2, <1>3, <2>1 DEF FailInv
  <2>. QED  BY <2>2 DEF Explained
<1>4. Excused => Excused'
  BY <1>1, MeaningStays
<1>5. CrashExplained'
  <2>1. MentionsUntyped => MentionsUntyped'
    BY <1>1, MeaningStays
  <2>2. top' = top
    BY <1>1 DEF top
  <2>3. Params' = Params /\ (TypeAt(Given("positional")))' = TypeAt(Given("positional"))
    BY <1>1, <2>2 DEF Params, TypeAt, Given, PositionalAt, Kid, FirstArgument
  <2>. QED  BY <1>1, <2>1, <2>2, <2>3 DEF CrashExplained
<1>. QED  BY <1>1, <1>3, <1>4, <1>5 DEF FailInv

LEMMA ResumesExplained ==
  ASSUME Typed, FailInv, UNCHANGED <<tree, place>>, phase = "decorating", reported => reported',
         NEW r, GoOn(r), r.ok \/ ~top.ok \/ Excused',
         r.at # "operands" => r.callee \in Mentioned \ {Nobody}
  PROVE  FailInv'
<1>1. ~top.ok => Excused'
  BY TopIsExplained, MeaningStays DEF Explained
<1>2. Mentioned' = Mentioned
  BY MeaningStays
<1>3. Explained(r)'
  <2>1. r.ok \/ Excused'
    BY <1>1
  <2>2. r.at # "operands" => r.callee \in Mentioned' \ {Nobody}
    BY <1>2
  <2>. QED  BY <2>1, <2>2 DEF Explained
<1>. QED  BY <1>3, FailGoesOn

LEMMA GoesOnExplained ==
  ASSUME WalkInv, FailInv, TakeOperand \/ EndPositional \/ RefuseNamed \/ EndNamed \/ FillDefaults
  PROVE  FailInv'
<1>1. /\ NodesTyped /\ Typed /\ top \in Activations
      /\ top.at # "operands" => top.callee \in Mentioned \ {Nobody}
  BY TopIsExplained, TopFacts DEF WalkInv, OwnersInv, Explained
<1>2. CASE TakeOperand
  <2>1. PICK r : r = [top EXCEPT !.index = @ + 1, !.ok = @ /\ answer = "good"]
    OBVIOUS
  <2>2. GoOn(r) /\ UNCHANGED <<tree, place, reported>> /\ phase = "decorating" /\ answer # "none"
    BY <1>2, <2>1 DEF TakeOperand, Running, Keep, inputs
  <2>3. r.at = top.at /\ r.callee = top.callee /\ r.ok = (top.ok /\ answer = "good")
    BY <1>1, <2>1 DEF Activations
  <2>4. answer = "bad" => Excused'
    BY <2>2, MeaningStays DEF FailInv
  <2>5. answer \in {"good", "bad"}
    BY <2>2 DEF FailInv
  <2>. QED  BY <1>1, <2>2, <2>3, <2>4, <2>5, ResumesExplained
<1>3. CASE EndPositional
  <2>1. PICK r : r = [top EXCEPT !.at = "named", !.index = 1, !.ok = @ /\ ~(top.index \in Positional(top.node))]
    OBVIOUS
  <2>2. /\ GoOn(r) /\ UNCHANGED <<tree, place>> /\ phase = "decorating" /\ top.at = "positional"
        /\ reported' = (reported \/ top.index \in Positional(top.node))
    BY <1>3, <2>1 DEF EndPositional, Running, Keep, inputs
  <2>3. r.at = "named" /\ r.callee = top.callee /\ r.ok = (top.ok /\ ~(top.index \in Positional(top.node)))
    BY <1>1, <2>1 DEF Activations
  <2>4. reported' => Excused'
    BY DEF Excused
  <2>. QED  BY <1>1, <2>2, <2>3, <2>4, ResumesExplained
<1>4. CASE RefuseNamed
  <2>1. PICK r : r = [top EXCEPT !.index = @ + 1, !.ok = FALSE]
    OBVIOUS
  <2>2. GoOn(r) /\ UNCHANGED <<tree, place>> /\ phase = "decorating" /\ reported' /\ top.at = "named"
    BY <1>4, <2>1 DEF RefuseNamed, Running, Keep, inputs
  <2>3. r.at = top.at /\ r.callee = top.callee
    BY <1>1, <2>1 DEF Activations
  <2>4. Excused'
    BY <2>2 DEF Excused
  <2>. QED  BY <1>1, <2>2, <2>3, <2>4, ResumesExplained
<1>5. CASE EndNamed
  <2>1. PICK r : r = [top EXCEPT !.at = "defaults", !.index = 1]
    OBVIOUS
  <2>2. GoOn(r) /\ UNCHANGED <<tree, place, reported>> /\ phase = "decorating" /\ top.at = "named"
    BY <1>5, <2>1 DEF EndNamed, Running, Keep, inputs
  <2>3. r.at = "defaults" /\ r.callee = top.callee /\ r.ok = top.ok
    BY <1>1, <2>1 DEF Activations
  <2>. QED  BY <1>1, <2>2, <2>3, ResumesExplained
<1>6. CASE FillDefaults
  <2>1. PICK r : r = [top EXCEPT !.at = "bound", !.ok = @ /\ Filled = Unset]
    OBVIOUS
  <2>2. /\ GoOn(r) /\ UNCHANGED <<tree, place>> /\ phase = "decorating" /\ top.at = "defaults"
        /\ reported' = (reported \/ Filled # Unset)
    BY <1>6, <2>1 DEF FillDefaults, Running, inputs
  <2>3. r.at = "bound" /\ r.callee = top.callee /\ r.ok = (top.ok /\ Filled = Unset)
    BY <1>1, <2>1 DEF Activations
  <2>4. reported' => Excused'
    BY DEF Excused
  <2>. QED  BY <1>1, <2>2, <2>3, <2>4, ResumesExplained
<1>. QED  BY <1>2, <1>3, <1>4, <1>5, <1>6

LEMMA ResolveExplained ==
  ASSUME WalkInv, FailInv, Resolve
  PROVE  FailInv'
<1>1. /\ NodesTyped /\ Typed /\ top \in Activations /\ UNCHANGED <<tree, place>> /\ phase = "decorating"
      /\ reported => reported'
  BY TopFacts DEF WalkInv, OwnersInv, Resolve, OperandsDone, Running, Keep, inputs, Refuse
<1>2. CASE Callee = Nobody
  <2>1. Return(FALSE) /\ reported'
    BY <1>2 DEF Resolve, Refuse
  <2>2. Excused'
    BY <2>1 DEF Excused
  <2>. QED  BY <1>1, <2>1, <2>2, FailReturns
<1>3. CASE Callee # Nobody
  <2>1. PICK callee : callee = Callee
    OBVIOUS
  <2>2. PICK r : r = [top EXCEPT !.at = "positional", !.index = 1, !.callee = callee]
    OBVIOUS
  <2>3. GoOn(r)
    BY <1>3, <2>1, <2>2 DEF Resolve
  <2>4. r.ok = top.ok /\ r.callee = callee
    BY <1>1, <2>2 DEF Activations
  <2>5. callee \in Mentioned \ {Nobody}
    BY <1>1, <1>3, <2>1, LookedUp DEF Callee
  <2>. QED  BY <1>1, <2>3, <2>4, <2>5, ResumesExplained
<1>. QED  BY <1>2, <1>3

(* There is at most one parameter to take the argument. *)
LEMMA OneTakes ==
  ASSUME WalkInv, NEW at \in {"positional", "named"}, NEW j \in Takers(at), NEW k \in Takers(at)
  PROVE  j = k
<1>1. CASE at = "positional"
  BY <1>1 DEF Takers
<1>2. CASE at = "named"
  <2>1. PICK n \in Nat : DOMAIN Params = 1..n
    BY TopFacts, ParametersAreList DEF WalkInv, OwnersInv, Params
  <2>2. j \in 1..n /\ k \in 1..n /\ HasName(j) /\ HasName(k)
    BY <1>2, <2>1 DEF Takers
  <2>3. (\A i \in 1..(j - 1) : ~HasName(i)) /\ (\A i \in 1..(k - 1) : ~HasName(i))
    BY <1>2 DEF Takers
  <2>4. j \notin 1..(k - 1) /\ k \notin 1..(j - 1)
    BY <2>2, <2>3
  <2>. QED  BY <2>2, <2>4
<1>. QED  BY <1>1, <1>2

LEMMA BindExplained ==
  ASSUME WalkInv, FailInv, Bind
  PROVE  FailInv'
<1>1. PICK at \in {"positional", "named"} :
        /\ Running(at) /\ answer # "none" /\ UNCHANGED inputs
        /\ \E j \in Takers(at) : GoOn([top EXCEPT !.index = @ + 1, !.ok = @ /\ Matches(at, j)])
        /\ \E j \in Takers(at) : reported' = (reported \/ (answer = "good" /\ ~Matches(at, j)))
  BY DEF Bind
<1>2. PICK j \in Takers(at) :
        /\ GoOn([top EXCEPT !.index = @ + 1, !.ok = @ /\ Matches(at, j)])
        /\ reported' = (reported \/ (answer = "good" /\ ~Matches(at, j)))
  BY <1>1, OneTakes
<1>3. /\ Typed /\ top \in Activations /\ phase = "decorating" /\ top.at = at /\ UNCHANGED <<tree, place>>
      /\ top.at # "operands" => top.callee \in Mentioned \ {Nobody}
  BY <1>1, TopIsExplained, TopFacts DEF WalkInv, OwnersInv, Explained, Running, inputs
<1>4. PICK r : r = [top EXCEPT !.index = @ + 1, !.ok = @ /\ Matches(at, j)]
  OBVIOUS
<1>5. r.at = at /\ r.callee = top.callee /\ r.ok = (top.ok /\ Matches(at, j)) /\ GoOn(r)
  BY <1>2, <1>3, <1>4 DEF Activations
<1>6. Matches(at, j) \/ Excused'
  <2>1. reported' => Excused'
    BY DEF Excused
  <2>2. answer = "bad" => Excused'
    BY <1>2, <1>3, MeaningStays DEF FailInv
  <2>3. answer \in {"good", "bad"}
    BY <1>1 DEF FailInv
  <2>. QED  BY <1>2, <2>1, <2>2, <2>3
<1>. QED  BY <1>2, <1>3, <1>5, <1>6, ResumesExplained

LEMMA MemberExplained ==
  ASSUME WalkInv, FailInv, DoMember
  PROVE  FailInv'
<1>1. NodesTyped /\ Typed /\ phase = "decorating"
  BY DEF WalkInv, OwnersInv, DoMember, Ready, OperandsDone, Running
<1>2. PICK class : class = TypeAt(Kid(top.node, 1))
  OBVIOUS
<1>3. PICK what : what = ThisNode.what
  OBVIOUS
<1>4. \/ Keep /\ Refuse(TRUE)
      \/ /\ class \in DOMAIN Classes /\ what \in DOMAIN Classes[class].variables
         /\ Classes[class].variables[what].type = NoType /\ Crash
      \/ \E type, link : Keep /\ Good(type, link) /\ UNCHANGED reported
  BY <1>2, <1>3 DEF DoMember
<1>5. CASE Keep /\ Refuse(TRUE)
  <2>1. UNCHANGED <<tree, place>> /\ Return(FALSE) /\ reported'
    BY <1>5 DEF Keep, inputs, Refuse
  <2>2. Excused'
    BY <2>1 DEF Excused
  <2>. QED  BY <1>1, <2>1, <2>2, FailReturns
<1>6. CASE /\ class \in DOMAIN Classes /\ what \in DOMAIN Classes[class].variables
           /\ Classes[class].variables[what].type = NoType /\ Crash
  <2>1. PICK d : d = Classes[class].variables[what]
    OBVIOUS
  <2>2. d = FindMember(class, "variables", what)
    BY <1>6, <2>1 DEF FindMember
  <2>3. d \in Mentioned
    BY <1>1, <1>3, <1>6, <2>2, LookedUp
  <2>4. d # Nobody
    <3>1. IsScope(Classes[class].variables)
      BY <1>6, ClassesAreScopes
    <3>. QED  BY <1>6, <2>1, <3>1 DEF IsScope
  <2>5. MentionsUntyped
    BY <1>6, <2>1, <2>3, <2>4 DEF MentionsUntyped
  <2>. QED  BY <1>6, <2>5, CrashesExplained DEF CrashExplained
<1>7. CASE \E type, link : Keep /\ Good(type, link) /\ UNCHANGED reported
  <2>1. UNCHANGED <<tree, place, reported>> /\ Return(TRUE)
    BY <1>7 DEF Keep, inputs, Good
  <2>. QED  BY <1>1, <2>1, FailReturns
<1>. QED  BY <1>4, <1>5, <1>6, <1>7

LEMMA DeathsExplained ==
  ASSUME WalkInv, FailInv, DoHole \/ CrashInMessage
  PROVE  FailInv'
<1>1. CASE DoHole
  <2>1. tree[top.node].kind = "hole" /\ top.node \in DOMAIN tree
    BY <1>1, TopFacts DEF DoHole, Ready, WalkInv
  <2>. QED  BY <1>1, <2>1, CrashesExplained DEF CrashExplained, DoHole
<1>2. CASE CrashInMessage
  <2>1. PICK at \in {"positional", "named"} :
          /\ Running(at) /\ answer = "good"
          /\ \E j \in Takers(at) : ~Matches(at, j) /\ (at = "positional" \/ Params[j].type = NoType)
          /\ Crash
    BY <1>2 DEF CrashInMessage
  <2>2. PICK j \in Takers(at) : ~Matches(at, j) /\ (at = "positional" \/ Params[j].type = NoType)
    BY <2>1
  <2>3. top.at = at
    BY <2>1 DEF Running
  <2>4. CASE at = "positional"
    <3>1. j = top.index
      BY <2>4 DEF Takers
    <3>2. TypeAt(Given("positional")) # Params[top.index].type
      BY <2>1, <2>2, <2>4, <3>1 DEF Matches
    <3>. QED  BY <2>1, <2>3, <2>4, <3>2, CrashesExplained DEF CrashExplained
  <2>5. CASE at # "positional" /\ Params[j].type = NoType
    <3>1. top.callee \in Mentioned \ {Nobody}
      BY <2>3, TopIsExplained DEF WalkInv, OwnersInv, Explained
    <3>2. j \in DOMAIN top.callee.params /\ top.callee.params[j].type = NoType
      BY <2>5 DEF Takers, Params
    <3>3. MentionsUntyped
      BY <3>1, <3>2 DEF MentionsUntyped
    <3>. QED  BY <2>1, <3>3, CrashesExplained DEF CrashExplained
  <2>. QED  BY <2>2, <2>4, <2>5
<1>. QED  BY <1>1, <1>2

LEMMA FailBegins ==
  ASSUME Init
  PROVE  FailInv
<1>1. frames = <<Frame(1)>> /\ answer = "none" /\ phase = "decorating"
  BY DEF Init
<1>2. \A m \in DOMAIN frames : frames[m] = Frame(1)
  BY <1>1
<1>3. Explained(Frame(1))
  BY DEF Explained, Frame
<1>. QED  BY <1>1, <1>2, <1>3 DEF FailInv

LEMMA FailSteps ==
  ASSUME WalkInv, FailInv, [Next]_vars
  PROVE  FailInv'
<1>1. CASE DoOperand \/ DoArgument
  <2>1. phase = "decorating" /\ \E s : Enter(s, top)
    BY <1>1 DEF DoOperand, DoArgument, Running
  <2>. QED  BY <2>1, FailEnters DEF WalkInv, OwnersInv
<1>2. CASE \/ RefusedOperand \/ DoConst \/ DoNot \/ DoBinary \/ DoUnknownName \/ DoName
           \/ DoOwnMember \/ EndCall
  BY <1>2, EndsExplained
<1>3. CASE TakeOperand \/ EndPositional \/ RefuseNamed \/ EndNamed \/ FillDefaults
  BY <1>3, GoesOnExplained
<1>4. CASE DoMember
  BY <1>4, MemberExplained
<1>5. CASE DoHole \/ CrashInMessage
  BY <1>5, DeathsExplained
<1>6. CASE Resolve
  BY <1>6, ResolveExplained
<1>7. CASE Bind
  BY <1>7, BindExplained
<1>8. CASE UNCHANGED vars
  <2>1. UNCHANGED <<tree, place, nodes, holds, frames, answer, reported, phase>>
    BY <1>8 DEF vars, inputs
  <2>2. ASSUME NEW m \in DOMAIN frames' PROVE Explained(frames[m])'
    <3>1. PICK f : f = frames[m]
      OBVIOUS
    <3>2. Explained(f)' /\ frames'[m] = f
      BY <2>1, <2>2, <3>1, MeaningStays DEF FailInv
    <3>. QED  BY <3>2 DEF Explained
  <2>3. (Excused => Excused') /\ (MentionsUntyped => MentionsUntyped')
    BY <2>1, MeaningStays
  <2>4. CrashExplained => CrashExplained'
    BY <2>1, <2>3 DEF CrashExplained, Params, TypeAt, Given, PositionalAt, Kid, FirstArgument, top
  <2>. QED  BY <2>1, <2>2, <2>3, <2>4 DEF FailInv
<1>. QED  BY <1>1, <1>2, <1>3, <1>4, <1>5, <1>6, <1>7, <1>8 DEF Next

(* No expression is refused without a report, and the compiler dies of     *)
(* none, but for the reasons FailuresAreExplained lists (doExpression and  *)
(* the functions it calls, checkFunctionCallArgType).                      *)
THEOREM NoSilentFailures == Spec => []FailuresAreExplained
<1>1. Init => FailInv
  BY FailBegins
<1>2. WalkInv /\ FailInv /\ [Next]_vars => FailInv'
  BY FailSteps
<1>3. FailInv => FailuresAreExplained
  BY DEF FailInv, FailuresAreExplained, Excused, CrashExplained, Done
<1>. QED  BY <1>1, <1>2, <1>3, ExpressionsAreWalked, PTL DEF Spec

----------------------------------------------------------------------------
(* Generating the code of an expression does not touch it, so what was     *)
(* shown of the decorator holds until the end: the nodes the generators    *)
(* walk have one owner each, and a compiler that dies has a listed reason  *)
(* (main: decorate, then genExpression or IRGenerator::visit).             *)
THEOREM GeneratedExpressionsAreSound == GenSpec => [](NodesHaveOneOwner /\ FailuresAreExplained)
<1>1. GenInit => Init
  BY DEF GenInit
<1>2. [GenNext]_genVars => [Next]_vars
  BY DEF GenNext, Decorate, Generate, GenerateIr, genVars
<1>3. GenSpec => Spec
  BY <1>1, <1>2, PTL DEF GenSpec, Spec
<1>. QED  BY <1>3, OwnersAreUnique, NoSilentFailures, PTL
=============================================================================
