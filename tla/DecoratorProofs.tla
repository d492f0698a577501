-------------------------- MODULE DecoratorProofs --------------------------
(***************************************************************************)
(* What the statement walk of AstDecorator establishes, for every body     *)
(* however deep its lists are nested.  The decorator knows scopes, the     *)
(* meaning of a name is a question about positions; the invariant says     *)
(* that the scope of each active list has exactly the declarations of that *)
(* list that are visible at the statement decorated next.  The return      *)
(* analysis keeps a flag per active list; the invariant says what the flag *)
(* knows of the paths through the part of the list walked so far.  At the  *)
(* end the walk meets the generator's (Compiler).                          *)
(***************************************************************************)
EXTENDS Compiler, StreamLemmas

CallKinds == {"body", "block", "if", "then", "else", "loop"}
Frames == [kind : CallKinds, hasReturn : BOOLEAN, thenReturn : BOOLEAN]
Scopes == UNION {[S -> Int] : S \in SUBSET Names}
Declares(b, p) == b[p].op \in {"arg", "let"}

Parsed(b) ==
  \A p \in DOMAIN b :
    /\ Declares(b, p) \/ b[p].op = "assign" => b[p].name \in Names
    /\ b[p].op \in {"arg", "block", "else", "end"} => b[p].reads = "none"

Walk ==
  /\ body \in Seq(StatementsOver(Names)) /\ Parsed(body)
  /\ result \in {"void", "value"} /\ phase \in {"decorating", "done"}
  /\ pc \in 1..(Len(body) + 1)
  /\ calls \in Seq(Frames) /\ calls # <<>> /\ calls[1].kind = "body"
  /\ scopes \in Seq(Scopes)
  /\ warned \subseteq 1..(pc - 1)
  /\ \A p \in pc..Len(body) : phase = "done" => body[p] = Statement("return", "none", "none")

(* The lists that are open at q are those of the active calls. *)
Nested(b, q, d) ==
  /\ Depth(b, q) = d
  /\ \A p \in 1..(q - 1) : IsOpen(b, p, q) => Depth(b, p) \in 0..d

(* A scope has the declarations visible at q of the list at depth d. *)
Shows(scope, b, q, d) ==
  \A n : /\ n \in DOMAIN scope <=> Seen(b, q, n, d) # {}
         /\ n \in DOMAIN scope => scope[n] = Min(Seen(b, q, n, d))

Scoped ==
  /\ Nested(body, pc, Len(calls) - 1)
  /\ Len(scopes) = Len(calls) + 1 /\ scopes[1] = GlobalScope
  /\ \A i \in 2..Len(scopes) : Shows(scopes[i], body, pc, i - 2)

IsLinked(p, n) == <<p, n>> \in DOMAIN links /\ links[<<p, n>>] \in typed

(* Two declarations of a name in one list. *)
Clash(b, p, q) ==
  b[q].op = "let" /\ DeclaresName(b, p, b[q].name) /\ Depth(b, p) = Depth(b, q) /\ IsOpen(b, p, q)

Linked ==
  /\ DOMAIN links \subseteq (1..(pc - 1)) \X Names
  /\ LinksAreLexical
  /\ Global \in typed /\ typed \subseteq 0..(pc - 1)
  /\ errors = {} =>
       /\ \A p \in 1..(pc - 1) : Declares(body, p) => p \in typed
       /\ \A p \in 1..(pc - 1) : \A n \in UsedNames(body, p) : IsLinked(p, n)
       /\ \A q \in 1..(pc - 1) : \A p \in 1..(q - 1) : ~Clash(body, p, q)

Inv == Walk /\ Linked /\ (phase = "decorating" => Scoped)

----------------------------------------------------------------------------
(* How the scopes follow the statements. *)
LEMMA ShowsOther ==
  ASSUME NEW b, Len(b) \in Nat, NEW q \in 1..Len(b), NEW d, NEW scope, Shows(scope, b, q, d),
         d = Depth(b, q) => b[q].op \notin Marks /\ ~Declares(b, q)
  PROVE  Shows(scope, b, q + 1, d)
<1>1. ASSUME NEW n  PROVE Seen(b, q + 1, n, d) = Seen(b, q, n, d)
  <2>1. ~DeclaresName(b, q, n) \/ d # Depth(b, q)
    BY DEF Declares, DeclaresName
  <2> QED  BY <2>1, SeenSteps
<1> QED  BY <1>1 DEF Shows

LEMMA ShowsDeclaration ==
  ASSUME NEW b, Len(b) \in Nat, NEW q \in 1..Len(b), NEW scope, Shows(scope, b, q, Depth(b, q)), Declares(b, q)
  PROVE  Shows(AddName(scope, b[q].name, q), b, q + 1, Depth(b, q))
<1>1. PICK d : d = Depth(b, q)
  OBVIOUS
<1>2. PICK x : x = b[q].name
  OBVIOUS
<1>3. PICK new : new = AddName(scope, x, q)
  OBVIOUS
<1>4. /\ DOMAIN new = DOMAIN scope \cup {x}
      /\ \A n \in DOMAIN new : new[n] = IF n \in DOMAIN scope THEN scope[n] ELSE q
  <2>1. DOMAIN [n \in {x} |-> q] = {x} /\ [n \in {x} |-> q][x] = q
    OBVIOUS
  <2> QED  BY <1>3, <2>1 DEF AddName, With
<1>5. ASSUME NEW n
      PROVE  /\ Seen(b, q + 1, n, d) = Seen(b, q, n, d) \cup (IF n = x THEN {q} ELSE {})
             /\ Seen(b, q, n, d) \subseteq 1..(q - 1)
  <2>1. b[q].op \notin Marks
    BY DEF Declares, Marks
  <2>2. DeclaresName(b, q, n) <=> n = x
    BY <1>2 DEF Declares, DeclaresName
  <2>3. Seen(b, q + 1, n, d) = Seen(b, q, n, d) \cup (IF n = x THEN {q} ELSE {})
    <3>1. CASE n = x
      BY <1>1, <2>2, <3>1, SeenSteps
    <3>2. CASE n # x
      BY <1>1, <2>1, <2>2, <3>2, SeenSteps
    <3> QED  BY <3>1, <3>2
  <2>4. Seen(b, q, n, d) \subseteq 1..(q - 1)
    BY DEF Seen, InScope
  <2> QED  BY <2>3, <2>4
<1>6. ASSUME NEW n, n \in DOMAIN new
      PROVE  new[n] = Min(Seen(b, q + 1, n, d))
  <2>1. CASE n \in DOMAIN scope
    <3>1. PICK S : S = Seen(b, q, n, d)
      OBVIOUS
    <3>2. S # {} /\ scope[n] = Min(S)
      BY <1>1, <2>1, <3>1 DEF Shows
    <3>3. S \subseteq 1..(q - 1) /\ Seen(b, q + 1, n, d) = S \cup (IF n = x THEN {q} ELSE {})
      BY <1>5, <3>1
    <3>4. S \in SUBSET Nat /\ (\A p \in S : p < q) /\ q \in Nat
      BY <3>3
    <3>5. Min(S \cup {q}) = Min(S) /\ S \cup {} = S
      BY <3>2, <3>4, MinStays
    <3>6. Min(Seen(b, q + 1, n, d)) = Min(S)
      BY <3>3, <3>5
    <3> QED  BY <1>4, <1>6, <2>1, <3>2, <3>6
  <2>2. CASE n \notin DOMAIN scope
    <3>1. n = x /\ new[n] = q
      BY <1>4, <1>6, <2>2
    <3>2. Seen(b, q, n, d) = {}
      BY <1>1, <2>2 DEF Shows
    <3>3. Seen(b, q + 1, n, d) = {q}
      BY <1>5, <3>1, <3>2
    <3>4. Min({q}) \in {q}
      BY MinOfNaturals
    <3> QED  BY <3>1, <3>3, <3>4
  <2> QED  BY <2>1, <2>2
<1>7. ASSUME NEW n  PROVE n \in DOMAIN new <=> Seen(b, q + 1, n, d) # {}
  BY <1>1, <1>4, <1>5 DEF Shows
<1> QED  BY <1>1, <1>2, <1>3, <1>6, <1>7 DEF Shows

LEMMA ShowsNothing ==
  ASSUME NEW b, Len(b) \in Nat, NEW q \in 1..Len(b), NEW d \in Nat, Nested(b, q, d)
  PROVE  /\ b[q].op \in Openers => Shows(EmptyScope, b, q + 1, d + 1)
         /\ b[q].op = "else" => Shows(EmptyScope, b, q + 1, d)
<1>1. DOMAIN EmptyScope = {}
  BY DEF EmptyScope
<1>2. ASSUME b[q].op \in Openers, NEW n  PROVE Seen(b, q + 1, n, d + 1) = {}
  <2>1. b[q].op \notin Marks /\ d + 1 # Depth(b, q)
    BY <1>2 DEF Openers, Marks, Nested
  <2>2. Seen(b, q + 1, n, d + 1) = Seen(b, q, n, d + 1)
    BY <2>1, SeenSteps
  <2>3. Seen(b, q, n, d + 1) = {p \in 1..(q - 1) : DeclaresName(b, p, n) /\ IsOpen(b, p, q) /\ Depth(b, p) = d + 1}
    BY SeenIsOpen
  <2> QED  BY <2>2, <2>3 DEF Nested
<1>3. ASSUME b[q].op = "else", NEW n  PROVE Seen(b, q + 1, n, d) = {}
  BY <1>3, SeenSteps DEF Marks, Nested
<1> QED  BY <1>1, <1>2, <1>3 DEF Shows

LEMMA NestedSteps ==
  ASSUME NEW b, Len(b) \in Nat, NEW q \in 1..Len(b), NEW d \in Nat, Nested(b, q, d), NEW e \in Nat,
         e = d + (IF b[q].op \in Openers THEN 1 ELSE IF b[q].op = "end" THEN -1 ELSE 0)
  PROVE  Nested(b, q + 1, e)
<1>1. Depth(b, q + 1) = e
  BY DepthSteps DEF Nested
<1>2. ASSUME NEW p \in 1..q, IsOpen(b, p, q + 1)  PROVE Depth(b, p) \in 0..e
  <2>1. IsOpen(b, p, q) /\ ~(b[q].op \in Marks /\ d = Depth(b, p))
    BY <1>2, OpenSteps DEF Nested
  <2>2. Depth(b, p) \in 0..d
    <3>1. CASE p = q
      BY <3>1 DEF Nested
    <3>2. CASE p # q
      BY <2>1, <3>2 DEF Nested
    <3> QED  BY <3>1, <3>2
  <2> QED  BY <2>1, <2>2 DEF Marks
<1> QED  BY <1>1, <1>2 DEF Nested

----------------------------------------------------------------------------
(* What findName answers: the declaration that the name means, if it is a  *)
(* variable at all.                                                        *)
LEMMA NameFound ==
  ASSUME Walk, Scoped, NEW n \in Names
  PROVE  /\ FindName(n) \in {Undeclared, NotAVariable, Global} \cup {p \in 1..(pc - 1) : Declares(body, p)}
         /\ FindName(n) >= Global => FindName(n) = DeclOf(body, pc, n, Globals)
<1>1. PICK len : len = Len(calls)
  OBVIOUS
<1>2. PICK found : found = Having(n)
  OBVIOUS
<1>3. /\ len \in Nat \ {0} /\ Len(scopes) = len + 1 /\ scopes[1] = GlobalScope
      /\ pc \in 1..(Len(body) + 1) /\ Len(body) \in Nat
  BY <1>1 DEF Walk, Scoped
<1>4. found = {i \in 1..(len + 1) : n \in DOMAIN scopes[i]}
  BY <1>2, <1>3 DEF Having, Walk
<1>5. DOMAIN GlobalScope = Globals \cup Functions
      /\ (\A x \in Globals \cup Functions : GlobalScope[x] = IF x \in Globals THEN Global ELSE NotAVariable)
  BY DEF GlobalScope
<1>6. ASSUME NEW d \in 0..(len - 1)
      PROVE  /\ d + 2 \in found <=> Seen(body, pc, n, d) # {}
             /\ d + 2 \in found => scopes[d + 2][n] = Min(Seen(body, pc, n, d))
  <2>1. d + 2 \in 2..Len(scopes) /\ (d + 2) - 2 = d /\ d + 2 \in 1..(len + 1)
    BY <1>3
  <2>2. Shows(scopes[d + 2], body, pc, d)
    BY <2>1 DEF Scoped
  <2> QED  BY <1>4, <2>1, <2>2 DEF Shows
<1>0. PICK max \in Nat : max = len - 1
  BY <1>3
<1>7. \A p \in InScope(body, pc, n) : Depth(body, p) \in 0..max
  <2>1. \A p \in 1..(pc - 1) : ListEnd(body, p) >= pc <=> IsOpen(body, p, pc)
    BY <1>3, ListEndIsAhead
  <2> QED  BY <1>0, <1>1, <2>1 DEF InScope, Scoped, Nested
<1>8. CASE found = {}
  <2>1. FindName(n) = Undeclared
    BY <1>2, <1>8 DEF FindName
  <2> QED  BY <2>1 DEF Undeclared, Global
<1>9. CASE found # {}
  <2>1. PICK m : m = Max(found)
    OBVIOUS
  <2>2. m \in found /\ \A i \in found : i <= m
    <3>1. found \in SUBSET Int /\ len + 1 \in Nat /\ \A i \in found : i <= len + 1
      BY <1>3, <1>4
    <3> QED  BY <1>9, <2>1, <3>1, MaxOfBounded
  <2>3. FindName(n) = scopes[m][n] /\ m \in 1..(len + 1)
    BY <1>2, <1>4, <1>9, <2>1, <2>2 DEF FindName
  <2>4. CASE m = 1
    <3>1. \A d \in 0..(len - 1) : Seen(body, pc, n, d) = {}
      BY <1>3, <1>6, <2>2, <2>4
    <3>2. DeclOf(body, pc, n, Globals) = IF n \in Globals THEN Global ELSE Undeclared
      <4>1. InScope(body, pc, n) = {}
        BY <1>0, <1>7, <3>1 DEF Seen
      <4> QED  BY <4>1, GlobalDecides
    <3>3. n \in Globals \cup Functions
      BY <1>3, <1>4, <1>5, <2>2, <2>4
    <3> QED  BY <1>3, <1>5, <2>3, <2>4, <3>2, <3>3 DEF Global, NotAVariable
  <2>5. CASE m # 1
    <3>1. PICK d \in 0..(len - 1) : m = d + 2
      <4>1. m - 2 \in 0..(len - 1) /\ m = (m - 2) + 2
        BY <1>3, <2>3, <2>5
      <4> QED  BY <4>1
    <3>2. Seen(body, pc, n, d) # {} /\ FindName(n) = Min(Seen(body, pc, n, d))
      BY <1>6, <2>2, <2>3, <3>1
    <3>3. \A e \in (d + 1)..(len - 1) : Seen(body, pc, n, e) = {}
      <4>1. ASSUME NEW e \in (d + 1)..(len - 1)  PROVE e \in 0..(len - 1) /\ ~(e + 2 <= d + 2)
        BY <1>3
      <4> QED  BY <1>6, <2>2, <3>1, <4>1
    <3>4. DeclOf(body, pc, n, Globals) = Min(Seen(body, pc, n, d))
      <4>1. d \in 0..max /\ \A e \in (d + 1)..max : Seen(body, pc, n, e) = {}
        BY <1>0, <3>3
      <4> QED  BY <1>3, <1>7, <3>2, <4>1, InnermostDecides
    <3>5. Seen(body, pc, n, d) \subseteq {p \in 1..(pc - 1) : Declares(body, p)}
      BY DEF Seen, InScope, DeclaresName, Declares
    <3>6. FindName(n) \in Seen(body, pc, n, d)
      <4>1. Seen(body, pc, n, d) \in SUBSET Nat
        BY <3>5
      <4> QED  BY <3>2, <4>1, MinOfNaturals
    <3> QED  BY <3>2, <3>4, <3>5, <3>6
  <2> QED  BY <2>4, <2>5
<1> QED  BY <1>8, <1>9

----------------------------------------------------------------------------
(* What is added to the links, and when a statement may be accepted.       *)
NewLinks(l) == \A u \in DOMAIN l : u \in {pc} \X Names /\ l[u] = DeclOf(body, pc, u[2], Globals)

Extends(new, old) ==
  /\ DOMAIN old \subseteq DOMAIN new /\ \A u \in DOMAIN old : new[u] = old[u]
  /\ \A u \in DOMAIN new \ DOMAIN old : u \in {pc} \X Names /\ new[u] = DeclOf(body, pc, u[2], Globals)

LEMMA WithAdds ==
  ASSUME NEW old, NEW mid, NEW l, Extends(mid, old), NewLinks(l)
  PROVE  Extends(With(mid, l), old) /\ DOMAIN With(mid, l) = DOMAIN mid \cup DOMAIN l
  BY DEF Extends, NewLinks, With

LEMMA ExtendsItself == Extends(links, links)
  BY DEF Extends

LEMMA LinksAdded ==
  ASSUME NEW l, NewLinks(l)
  PROVE  Extends(With(links, l), links) /\ DOMAIN With(links, l) = DOMAIN links \cup DOMAIN l
  BY DEF Extends, NewLinks, With

Plain == Names \cup {"none", "const"}

LEMMA NameRead ==
  ASSUME Walk, Scoped, Linked, NEW n \in Plain
  PROVE  /\ NewLinks(LinksOf(n))
         /\ errors = {} /\ ExpressionErrors(n) = {} => ExpressionOk(n)
         /\ IsName(n) /\ ExpressionOk(n) => <<pc, n>> \in DOMAIN LinksOf(n) /\ FindName(n) \in typed
<1>1. CASE ~IsName(n)
  <2>1. DOMAIN LinksOf(n) = {}
    BY <1>1 DEF LinksOf
  <2> QED  BY <1>1, <2>1 DEF NewLinks, ExpressionOk
<1>2. CASE IsName(n)
  <2>1. n \in Names
    BY <1>2 DEF Plain, IsName
  <2>2. /\ FindName(n) \in {Undeclared, NotAVariable, Global} \cup {p \in 1..(pc - 1) : Declares(body, p)}
        /\ FindName(n) >= Global => FindName(n) = DeclOf(body, pc, n, Globals)
    BY <2>1, NameFound
  <2>3. PICK f : f = FindName(n)
    OBVIOUS
  <2>4. NewLinks(LinksOf(n))
    BY <2>1, <2>2 DEF LinksOf, NewLinks
  <2>5. ASSUME errors = {}, ExpressionErrors(n) = {}  PROVE f \in typed
    <3>1. f # Undeclared /\ f # NotAVariable
      BY <1>2, <2>3, <2>5 DEF ExpressionErrors
    <3>2. f = Global \/ f \in {p \in 1..(pc - 1) : Declares(body, p)}
      BY <2>2, <2>3, <3>1
    <3> QED  BY <2>5, <3>2 DEF Linked
  <2>6. ASSUME f \in typed  PROVE <<pc, n>> \in DOMAIN LinksOf(n)
    <3>1. f >= Global
      BY <2>6 DEF Linked, Walk, Global
    <3> QED  BY <1>2, <2>3, <3>1 DEF LinksOf
  <2> QED  BY <1>2, <2>3, <2>4, <2>5, <2>6 DEF ExpressionOk
<1> QED  BY <1>1, <1>2

(* A statement that leaves the body as it is adds links, types and errors. *)
LEMMA LinkedSteps ==
  ASSUME Walk, Scoped, Linked, body' = body, pc' = pc + 1, pc <= Len(body),
         Extends(links', links), typed \subseteq typed', typed' \subseteq typed \cup {pc}, errors \subseteq errors',
         errors' = {} =>
           /\ Declares(body, pc) => pc \in typed'
           /\ \A n \in UsedNames(body, pc) : n \in Names /\ <<pc, n>> \in DOMAIN links' /\ FindName(n) \in typed
           /\ \A p \in 1..(pc - 1) : ~Clash(body, p, pc)
  PROVE  Linked'
<1>0. PICK r \in Nat \ {0} : r = pc
  BY DEF Walk
<1>1. pc' = r + 1 /\ 1..(pc' - 1) = 1..(r - 1) \cup {r} /\ 0..(pc' - 1) = 0..(r - 1) \cup {r}
  BY <1>0
<1>2. DOMAIN links' \subseteq (1..(pc' - 1)) \X Names
  <2>1. DOMAIN links \subseteq (1..(r - 1)) \X Names
    BY <1>0 DEF Linked
  <2>2. \A u \in DOMAIN links' : u \in DOMAIN links \/ u \in {r} \X Names
    BY <1>0 DEF Extends
  <2> QED  BY <1>1, <2>1, <2>2
<1>3. LinksAreLexical'
  <2>1. ASSUME NEW u \in DOMAIN links'  PROVE links'[u] = DeclOf(body, u[1], u[2], Globals)
    <3>1. CASE u \in DOMAIN links
      BY <3>1 DEF Extends, Linked, LinksAreLexical
    <3>2. CASE u \notin DOMAIN links
      <4>1. u \in {pc} \X Names /\ links'[u] = DeclOf(body, pc, u[2], Globals)
        BY <3>2 DEF Extends
      <4>2. u[1] = pc
        BY <4>1
      <4> QED  BY <4>1, <4>2
    <3> QED  BY <3>1, <3>2
  <2> QED  BY <2>1 DEF LinksAreLexical
<1>4. (Global \in typed)' /\ (typed \subseteq 0..(pc - 1))'
  BY <1>0, <1>1 DEF Linked, Global
<1>5. ASSUME errors' = {}
      PROVE  /\ \A p \in 1..r : Declares(body, p) => p \in typed'
             /\ \A p \in 1..r : \A n \in UsedNames(body, p) : IsLinked(p, n)'
             /\ \A q \in 1..r : \A p \in 1..(q - 1) : ~Clash(body, p, q)
  <2>1. errors = {}
    BY <1>5
  <2>2. ASSUME NEW p \in 1..r, Declares(body, p)  PROVE p \in typed'
    BY <1>0, <1>1, <1>5, <2>1, <2>2 DEF Linked
  <2>3. ASSUME NEW p \in 1..r, NEW n \in UsedNames(body, p)  PROVE IsLinked(p, n)'
    <3>1. CASE p = r
      <4>1. n \in Names /\ <<r, n>> \in DOMAIN links' /\ FindName(n) \in typed
        BY <1>0, <1>5, <3>1
      <4>2. FindName(n) = DeclOf(body, r, n, Globals)
        <5>1. FindName(n) >= Global
          <6>1. \A t \in typed : t >= 0
            BY DEF Linked, Walk
          <6> QED  BY <4>1, <6>1 DEF Global
        <5> QED  BY <1>0, <4>1, <5>1, NameFound
      <4>3. links'[<<r, n>>] = DeclOf(body, r, n, Globals)
        BY <4>1, <1>3 DEF LinksAreLexical
      <4> QED  BY <3>1, <4>1, <4>2, <4>3 DEF IsLinked
    <3>2. CASE p # r
      <4>1. IsLinked(p, n)
        BY <1>0, <2>1, <3>2 DEF Linked
      <4> QED  BY <4>1 DEF IsLinked, Extends
    <3> QED  BY <3>1, <3>2
  <2>4. ASSUME NEW q \in 1..r, NEW p \in 1..(q - 1)  PROVE ~Clash(body, p, q)
    <3>1. CASE q = r
      BY <1>0, <1>5, <3>1
    <3>2. CASE q # r
      BY <1>0, <2>1, <3>2 DEF Linked
    <3> QED  BY <3>1, <3>2
  <2> QED  BY <2>2, <2>3, <2>4
<1>6. 1..(pc' - 1) = 1..r
  BY <1>1
<1> QED  BY <1>2, <1>3, <1>4, <1>5, <1>6 DEF Linked

----------------------------------------------------------------------------
(* The stack of scopes after a statement of each kind. *)
LEMMA OuterStack ==
  ASSUME NEW list \in Seq(Scopes), NEW k \in Nat \ {0}, Len(list) = k + 1, NEW top \in Scopes,
         NEW outer, outer = SubSeq(list, 1, Len(list) - 1)
  PROVE  /\ outer \in Seq(Scopes) /\ Len(outer) = k /\ \A i \in 1..k : outer[i] = list[i]
         /\ Append(outer, top) \in Seq(Scopes) /\ Len(Append(outer, top)) = k + 1
         /\ Append(outer, top)[k + 1] = top /\ \A i \in 1..k : Append(outer, top)[i] = list[i]
         /\ Append(list, top) \in Seq(Scopes) /\ Len(Append(list, top)) = k + 2
         /\ Append(list, top)[k + 2] = top /\ \A i \in 1..(k + 1) : Append(list, top)[i] = list[i]
  OBVIOUS

LEMMA ScopeTypes ==
  /\ EmptyScope \in Scopes
  /\ \A scope \in Scopes, name \in Names, decl \in Nat : AddName(scope, name, decl) \in Scopes
<1>1. EmptyScope \in [{} -> Int] /\ {} \in SUBSET Names
  BY DEF EmptyScope
<1>2. ASSUME NEW scope \in Scopes, NEW name \in Names, NEW decl \in Nat
      PROVE  AddName(scope, name, decl) \in Scopes
  <2>1. PICK S \in SUBSET Names : scope \in [S -> Int]
    BY DEF Scopes
  <2>2. AddName(scope, name, decl) \in [S \cup {name} -> Int]
    <3>1. DOMAIN [n \in {name} |-> decl] = {name} /\ [n \in {name} |-> decl][name] = decl
      OBVIOUS
    <3> QED  BY <2>1, <3>1 DEF AddName, With
  <2>3. S \cup {name} \in SUBSET Names
    OBVIOUS
  <2> QED  BY <2>2, <2>3 DEF Scopes
<1> QED  BY <1>1, <1>2 DEF Scopes

(* A depth that is not zero has one below it. *)
LEMMA DepthBelow ==
  ASSUME NEW k \in Nat \ {0}, NEW m \in {k - 1, k, k + 1}, m > 0
  PROVE  m - 1 \in Nat
OBVIOUS

(* The lists in front of the innermost one keep their scopes. *)
LEMMA Steps ==
  ASSUME Walk, Scoped, pc <= Len(body), body' = body, pc' = pc + 1,
         NEW k \in Nat \ {0}, k = Len(calls), NEW m \in {k - 1, k, k + 1}, m > 0, Len(calls') = m,
         m = k + (IF body[pc].op \in Openers THEN 1 ELSE IF body[pc].op = "end" THEN -1 ELSE 0),
         Len(scopes') = m + 1, \A i \in 1..(m + 1) : i <= k => scopes'[i] = scopes[i],
         m >= k => Shows(scopes'[m + 1], body, pc + 1, m - 1),
         m > k => scopes'[k + 1] = scopes[k + 1]
  PROVE  Scoped'
<1>0. PICK r \in Nat \ {0} : r = pc /\ r \in 1..Len(body) /\ Len(body) \in Nat
  BY DEF Walk
<1>1. Nested(body, r, k - 1) /\ k - 1 \in Nat /\ Len(scopes) = k + 1 /\ scopes[1] = GlobalScope
  BY <1>0 DEF Scoped
<1>2. Nested(body, r + 1, m - 1)
  <2>1. PICK d \in Nat : d = k - 1
    BY <1>1
  <2>2. PICK e \in Nat : e = m - 1
    BY DepthBelow, Zenon
  <2>3. e = d + (IF body[r].op \in Openers THEN 1 ELSE IF body[r].op = "end" THEN -1 ELSE 0)
    BY <1>0, <2>1, <2>2
  <2>4. Nested(body, r + 1, e)
    BY <1>0, <1>1, <2>1, <2>3, NestedSteps
  <2> QED  BY <2>2, <2>4
<1>3. scopes'[1] = GlobalScope
  BY <1>1
<1>4. ASSUME NEW i \in 2..(m + 1)  PROVE Shows(scopes'[i], body, r + 1, i - 2)
  <2>1. CASE i <= k \/ (m > k /\ i = k + 1)
    <3>1. scopes'[i] = scopes[i] /\ i \in 2..Len(scopes)
      BY <1>1, <2>1
    <3>2. Shows(scopes[i], body, r, i - 2)
      BY <1>0, <3>1 DEF Scoped
    <3>3. i - 2 = Depth(body, r) => body[r].op \notin Marks /\ ~Declares(body, r)
      <4>1. Depth(body, r) = k - 1
        BY <1>1 DEF Nested
      <4>2. i - 2 = k - 1 => m > k
        BY <2>1
      <4>3. m > k => body[r].op \in Openers
        BY <1>0
      <4> QED  BY <4>1, <4>2, <4>3 DEF Openers, Marks, Declares
    <3> QED  BY <1>0, <3>1, <3>2, <3>3, ShowsOther
  <2>2. CASE ~(i <= k \/ (m > k /\ i = k + 1))
    <3>1. m >= k /\ i = m + 1 /\ i - 2 = m - 1
      BY <2>2
    <3> QED  BY <1>0, <3>1
  <2> QED  BY <2>1, <2>2
<1>5. pc' = r + 1 /\ Len(calls') - 1 = m - 1 /\ Len(scopes') = m + 1
  BY <1>0
<1> QED  BY <1>2, <1>3, <1>4, <1>5 DEF Scoped

----------------------------------------------------------------------------
(* The stack of calls, and what the statements have in common. *)
LEMMA StackReturned ==
  ASSUME NEW list \in Seq(Frames), list # <<>>, NEW h \in BOOLEAN, AfterStatement(list, h)
  PROVE  /\ calls' \in Seq(Frames) /\ Len(calls') = Len(list) /\ calls' # <<>>
         /\ calls'[1].kind = list[1].kind /\ pc' = pc + 1
<1>1. PICK n \in Nat \ {0} : n = Len(list)
  OBVIOUS
<1>2. PICK f : f = list[n]
  OBVIOUS
<1>3. f \in Frames
  BY <1>1, <1>2
<1>4. PICK g : g = [f EXCEPT !.hasReturn = @ \/ h]
  OBVIOUS
<1>5. (f.hasReturn \/ h) \in BOOLEAN
  OBVIOUS
<1>6. g \in Frames /\ g.kind = f.kind
  BY <1>3, <1>4, <1>5 DEF Frames
<1>7. calls' = [list EXCEPT ![n] = g] /\ pc' = pc + 1
  BY <1>1, <1>2, <1>4 DEF AfterStatement
<1> QED  BY <1>1, <1>2, <1>6, <1>7

LEMMA WalkSteps ==
  ASSUME Walk, phase = "decorating", pc <= Len(body), UNCHANGED <<body, result, phase>>, pc' = pc + 1,
         calls' \in Seq(Frames), calls' # <<>>, calls'[1].kind = "body", scopes' \in Seq(Scopes),
         warned' \subseteq warned \cup {pc}
  PROVE  Walk'
<1>1. PICK r \in Nat \ {0} : r = pc /\ r \in 1..Len(body) /\ Len(body) \in Nat
  BY DEF Walk
<1>2. pc' = r + 1 /\ pc' \in 1..(Len(body) + 1) /\ 1..(pc' - 1) = 1..(r - 1) \cup {r}
  BY <1>1
<1>3. warned' \subseteq 1..(pc' - 1)
  BY <1>1, <1>2 DEF Walk
<1>4. Parsed(body)'
  BY DEF Walk, Parsed, Declares
<1>5. (phase = "done")' = FALSE
  OBVIOUS
<1> QED  BY <1>2, <1>3, <1>4, <1>5 DEF Walk

LEMMA ScopesStay ==
  ASSUME Walk, Scoped, pc <= Len(body), body' = body, pc' = pc + 1, scopes' = scopes,
         Len(calls') = Len(calls), body[pc].op \notin Openers \cup Marks, ~Declares(body, pc)
  PROVE  Scoped'
<1>1. PICK k : k = Len(calls)
  OBVIOUS
<1>2. k \in Nat \ {0} /\ Len(scopes) = k + 1 /\ pc \in 1..Len(body) /\ Len(body) \in Nat
  BY <1>1 DEF Walk, Scoped
<1>3. body[pc].op # "end"
  BY DEF Marks
<1>4. Shows(scopes[k + 1], body, pc, k - 1)
  <2>1. k + 1 \in 2..Len(scopes) /\ (k + 1) - 2 = k - 1
    BY <1>2
  <2> QED  BY <2>1 DEF Scoped
<1>5. Shows(scopes[k + 1], body, pc + 1, k - 1)
  BY <1>2, <1>4, ShowsOther
<1> QED  BY <1>1, <1>2, <1>3, <1>5, Steps

LEMMA ScopeDeclares ==
  ASSUME Walk, Scoped, pc <= Len(body), body' = body, pc' = pc + 1, Declares(body, pc),
         scopes' = Append(OuterScopes, AddName(Scope, body[pc].name, pc)), Len(calls') = Len(calls)
  PROVE  Scoped' /\ scopes' \in Seq(Scopes)
<1>1. PICK k : k = Len(calls)
  OBVIOUS
<1>2. k \in Nat \ {0} /\ Len(scopes) = k + 1 /\ pc \in 1..Len(body) /\ Len(body) \in Nat /\ scopes \in Seq(Scopes)
  BY <1>1 DEF Walk, Scoped
<1>3. PICK top : top = AddName(Scope, body[pc].name, pc)
  OBVIOUS
<1>4. Scope = scopes[k + 1] /\ Scope \in Scopes
  BY <1>2 DEF Scope
<1>5. top \in Scopes
  <2>1. body[pc].name \in Names /\ pc \in Nat
    BY <1>2 DEF Walk, Parsed
  <2> QED  BY <1>3, <1>4, <2>1, ScopeTypes
<1>6. body[pc].op \notin Openers /\ body[pc].op # "end"
  BY DEF Declares, Openers
<1>7. Shows(Scope, body, pc, k - 1) /\ Depth(body, pc) = k - 1
  <2>1. k + 1 \in 2..Len(scopes) /\ (k + 1) - 2 = k - 1
    BY <1>2
  <2> QED  BY <1>1, <1>4, <2>1 DEF Scoped, Nested
<1>8. Shows(top, body, pc + 1, k - 1)
  BY <1>2, <1>3, <1>7, ShowsDeclaration
<1>9. /\ scopes' \in Seq(Scopes) /\ Len(scopes') = k + 1 /\ scopes'[k + 1] = top
      /\ \A i \in 1..k : scopes'[i] = scopes[i]
  BY <1>2, <1>3, <1>5, OuterStack DEF OuterScopes
<1>10. \A i \in 1..(k + 1) : i <= k => scopes'[i] = scopes[i]
  BY <1>2, <1>9
<1> QED  BY <1>1, <1>2, <1>6, <1>8, <1>9, <1>10, Steps

LEMMA ScopeOpens ==
  ASSUME Walk, Scoped, pc <= Len(body), body' = body, pc' = pc + 1, body[pc].op \in Openers,
         scopes' = Append(scopes, EmptyScope), Len(calls') = Len(calls) + 1
  PROVE  Scoped' /\ scopes' \in Seq(Scopes)
<1>1. PICK k : k = Len(calls)
  OBVIOUS
<1>2. k \in Nat \ {0} /\ Len(scopes) = k + 1 /\ pc \in 1..Len(body) /\ Len(body) \in Nat /\ scopes \in Seq(Scopes)
  BY <1>1 DEF Walk, Scoped
<1>3. Shows(EmptyScope, body, pc + 1, k)
  <2>1. Nested(body, pc, k - 1) /\ k - 1 \in Nat /\ (k - 1) + 1 = k
    BY <1>1, <1>2 DEF Scoped
  <2> QED  BY <1>2, <2>1, ShowsNothing
<1>4. /\ scopes' \in Seq(Scopes) /\ Len(scopes') = k + 2 /\ scopes'[k + 2] = EmptyScope
      /\ \A i \in 1..(k + 1) : scopes'[i] = scopes[i]
  BY <1>2, OuterStack, ScopeTypes
<1>5. PICK m : m = k + 1
  OBVIOUS
<1>6. /\ m \in {k - 1, k, k + 1} /\ m > 0 /\ Len(calls') = m /\ m > k /\ m + 1 = k + 2 /\ m - 1 = k
      /\ \A i \in 1..(m + 1) : i <= k => scopes'[i] = scopes[i]
  BY <1>1, <1>2, <1>4, <1>5
<1>7. Shows(scopes'[m + 1], body, pc + 1, m - 1) /\ scopes'[k + 1] = scopes[k + 1] /\ Len(scopes') = m + 1
  BY <1>2, <1>3, <1>4, <1>6
<1>8. m = k + (IF body[pc].op \in Openers THEN 1 ELSE IF body[pc].op = "end" THEN -1 ELSE 0)
  BY <1>5
<1> QED  BY <1>1, <1>2, <1>4, <1>6, <1>7, <1>8, Steps

LEMMA ScopeRestarts ==
  ASSUME Walk, Scoped, pc <= Len(body), body' = body, pc' = pc + 1, body[pc].op = "else",
         scopes' = Append(OuterScopes, EmptyScope), Len(calls') = Len(calls)
  PROVE  Scoped' /\ scopes' \in Seq(Scopes)
<1>1. PICK k : k = Len(calls)
  OBVIOUS
<1>2. k \in Nat \ {0} /\ Len(scopes) = k + 1 /\ pc \in 1..Len(body) /\ Len(body) \in Nat /\ scopes \in Seq(Scopes)
  BY <1>1 DEF Walk, Scoped
<1>3. Shows(EmptyScope, body, pc + 1, k - 1)
  <2>1. Nested(body, pc, k - 1) /\ k - 1 \in Nat
    BY <1>1, <1>2 DEF Scoped
  <2> QED  BY <1>2, <2>1, ShowsNothing
<1>4. body[pc].op \notin Openers /\ body[pc].op # "end"
  BY DEF Openers
<1>5. /\ scopes' \in Seq(Scopes) /\ Len(scopes') = k + 1 /\ scopes'[k + 1] = EmptyScope
      /\ \A i \in 1..k : scopes'[i] = scopes[i]
  BY <1>2, OuterStack, ScopeTypes DEF OuterScopes
<1>6. \A i \in 1..(k + 1) : i <= k => scopes'[i] = scopes[i]
  BY <1>2, <1>5
<1> QED  BY <1>1, <1>2, <1>3, <1>4, <1>5, <1>6, Steps

LEMMA ScopeCloses ==
  ASSUME Walk, Scoped, pc <= Len(body), body' = body, pc' = pc + 1, body[pc].op = "end",
         scopes' = OuterScopes, Len(calls') = Len(calls) - 1, Len(calls) > 1
  PROVE  Scoped' /\ scopes' \in Seq(Scopes)
<1>1. PICK k : k = Len(calls)
  OBVIOUS
<1>2. k \in Nat \ {0} /\ Len(scopes) = k + 1 /\ pc \in 1..Len(body) /\ Len(body) \in Nat /\ scopes \in Seq(Scopes)
  BY <1>1 DEF Walk, Scoped
<1>3. PICK m : m = k - 1
  OBVIOUS
<1>4. scopes' \in Seq(Scopes) /\ Len(scopes') = k /\ \A i \in 1..k : scopes'[i] = scopes[i]
  BY <1>2, OuterStack, ScopeTypes DEF OuterScopes
<1>5. /\ m \in {k - 1, k, k + 1} /\ m > 0 /\ Len(calls') = m /\ ~(m >= k) /\ Len(scopes') = m + 1
      /\ \A i \in 1..(m + 1) : i <= k => scopes'[i] = scopes[i]
  BY <1>1, <1>2, <1>3, <1>4
<1>6. m = k + (IF body[pc].op \in Openers THEN 1 ELSE IF body[pc].op = "end" THEN -1 ELSE 0)
  BY <1>2, <1>3 DEF Openers
<1> QED  BY <1>1, <1>2, <1>4, <1>5, <1>6, Steps

----------------------------------------------------------------------------
(* One lemma for each kind of statement. *)
LEMMA HereFacts ==
  ASSUME Inv, NEW ops, At(ops)
  PROVE  /\ Walk /\ Scoped /\ Linked /\ phase = "decorating" /\ pc \in 1..Len(body) /\ pc <= Len(body)
         /\ body[pc].op \in ops /\ body[pc].reads \in Plain /\ body[pc].name \in Names \cup {"none"}
         /\ calls \in Seq(Frames) /\ calls # <<>> /\ Top \in Frames /\ calls[1].kind = "body"
         /\ scopes \in Seq(Scopes)
<1>1. Walk /\ Scoped /\ Linked /\ phase = "decorating" /\ pc \in 1..Len(body) /\ pc <= Len(body) /\ body[pc].op \in ops
  BY DEF Inv, At, Walk
<1>2. body[pc] \in StatementsOver(Names)
  BY <1>1 DEF Walk
<1>3. body[pc].reads \in Plain /\ body[pc].name \in Names \cup {"none"}
  BY <1>2 DEF StatementsOver, Plain
<1>4. calls \in Seq(Frames) /\ calls # <<>> /\ calls[1].kind = "body" /\ scopes \in Seq(Scopes)
  BY <1>1 DEF Walk
<1>5. Top \in Frames
  BY <1>4 DEF Top
<1> QED  BY <1>1, <1>3, <1>4, <1>5

LEMMA WarnedBy == WarnAfterReturn => warned' \subseteq warned \cup {pc}
  BY DEF WarnAfterReturn

(* What is read by a statement that uses no names but those it reads. *)
LEMMA NothingClashes == body[pc].op # "let" => \A p \in 1..(pc - 1) : ~Clash(body, p, pc)
  BY DEF Clash

LEMMA ReadsOnly ==
  ASSUME body[pc].op # "assign"
  PROVE  \A n \in UsedNames(body, pc) : n = body[pc].reads /\ n \notin {"none", "const"}
  BY DEF UsedNames

LEMMA LinksOfRead ==
  ASSUME Walk, Scoped, Linked, pc <= Len(body), body' = body, pc' = pc + 1, typed' = typed,
         body[pc].op # "assign", ~Declares(body, pc), body[pc].reads \in Plain,
         links' = With(links, LinksOf(body[pc].reads)),
         errors \cup ExpressionErrors(body[pc].reads) \subseteq errors'
  PROVE  Linked'
<1>1. PICK n \in Plain : n = body[pc].reads
  OBVIOUS
<1>2. /\ NewLinks(LinksOf(n))
      /\ errors = {} /\ ExpressionErrors(n) = {} => ExpressionOk(n)
      /\ IsName(n) /\ ExpressionOk(n) => <<pc, n>> \in DOMAIN LinksOf(n) /\ FindName(n) \in typed
  BY NameRead
<1>3. Extends(links', links) /\ DOMAIN links' = DOMAIN links \cup DOMAIN LinksOf(n)
  <2>1. links' = With(links, LinksOf(n))
    BY <1>1
  <2> QED  BY <1>2, <2>1, LinksAdded
<1>4. errors \subseteq errors' /\ (errors' = {} => errors = {} /\ ExpressionErrors(n) = {})
  BY <1>1
<1>5. ASSUME errors' = {}, NEW m \in UsedNames(body, pc)
      PROVE  m \in Names /\ <<pc, m>> \in DOMAIN links' /\ FindName(m) \in typed
  <2>1. m = n /\ m \notin {"none", "const"} /\ IsName(n)
    BY <1>1, ReadsOnly DEF IsName
  <2> QED  BY <1>2, <1>3, <1>4, <1>5, <2>1 DEF Plain
<1>6. \A p \in 1..(pc - 1) : ~Clash(body, p, pc)
  BY NothingClashes DEF Declares
<1> QED  BY <1>3, <1>4, <1>5, <1>6, LinkedSteps

LEMMA ArgumentKeepsInv ==
  ASSUME Inv, DoArgument
  PROVE  Inv'
<1>1. /\ Walk /\ Scoped /\ Linked /\ phase = "decorating" /\ pc \in 1..Len(body) /\ pc <= Len(body)
      /\ body[pc].op = "arg" /\ calls \in Seq(Frames) /\ calls # <<>> /\ calls[1].kind = "body"
  BY HereFacts DEF DoArgument
<1>2. /\ scopes' = Append(OuterScopes, AddName(Scope, body[pc].name, pc))
      /\ typed' = typed \cup {pc} /\ pc' = pc + 1
      /\ UNCHANGED <<body, result, calls, links, errors, warned, phase>>
  BY DEF DoArgument
<1>3. Declares(body, pc)
  BY <1>1 DEF Declares
<1>4. Scoped' /\ scopes' \in Seq(Scopes)
  BY <1>1, <1>2, <1>3, ScopeDeclares
<1>5. Walk'
  BY <1>1, <1>2, <1>4, WalkSteps
<1>6. UsedNames(body, pc) = {}
  <2>1. body[pc].reads = "none"
    BY <1>1 DEF Walk, Parsed
  <2> QED  BY <1>1, <2>1 DEF UsedNames
<1>7. \A p \in 1..(pc - 1) : ~Clash(body, p, pc)
  BY <1>1, NothingClashes
<1>8. Linked'
  BY <1>1, <1>2, <1>6, <1>7, LinkedSteps, ExtendsItself
<1> QED  BY <1>4, <1>5, <1>8 DEF Inv

LEMMA DeclarationKeepsInv ==
  ASSUME Inv, DoVariableDeclaration
  PROVE  Inv'
<1>1. /\ Walk /\ Scoped /\ Linked /\ phase = "decorating" /\ pc \in 1..Len(body) /\ pc <= Len(body)
      /\ body[pc].op = "let" /\ body[pc].reads \in Plain
      /\ calls \in Seq(Frames) /\ calls # <<>> /\ calls[1].kind = "body"
  BY HereFacts DEF DoVariableDeclaration
<1>2. PICK n \in Plain : n = body[pc].reads
  BY <1>1
<1>3. /\ links' = With(links, LinksOf(n))
      /\ typed' = IF ExpressionOk(n) THEN typed \cup {pc} ELSE typed
      /\ errors' = errors \cup ExpressionErrors(n) \cup DuplicateErrors(body[pc].name)
      /\ scopes' = Append(OuterScopes, AddName(Scope, body[pc].name, pc))
      /\ WarnAfterReturn /\ AfterStatement(calls, FALSE) /\ UNCHANGED <<body, result, phase>>
  BY <1>2 DEF DoVariableDeclaration
<1>4. Declares(body, pc)
  BY <1>1 DEF Declares
<1>5. calls' \in Seq(Frames) /\ Len(calls') = Len(calls) /\ calls' # <<>> /\ calls'[1].kind = "body" /\ pc' = pc + 1
  BY <1>1, <1>3, StackReturned
<1>6. Scoped' /\ scopes' \in Seq(Scopes)
  BY <1>1, <1>3, <1>4, <1>5, ScopeDeclares
<1>7. Walk'
  BY <1>1, <1>3, <1>5, <1>6, WalkSteps, WarnedBy
<1>8. /\ NewLinks(LinksOf(n))
      /\ errors = {} /\ ExpressionErrors(n) = {} => ExpressionOk(n)
      /\ IsName(n) /\ ExpressionOk(n) => <<pc, n>> \in DOMAIN LinksOf(n) /\ FindName(n) \in typed
  BY <1>1, NameRead
<1>9. Extends(links', links) /\ DOMAIN links' = DOMAIN links \cup DOMAIN LinksOf(n)
  BY <1>3, <1>8, LinksAdded
<1>10. ASSUME errors' = {}
       PROVE  /\ pc \in typed'
              /\ \A m \in UsedNames(body, pc) : m \in Names /\ <<pc, m>> \in DOMAIN links' /\ FindName(m) \in typed
              /\ \A p \in 1..(pc - 1) : ~Clash(body, p, pc)
  <2>1. errors = {} /\ ExpressionErrors(n) = {} /\ DuplicateErrors(body[pc].name) = {}
    BY <1>3, <1>10
  <2>2. pc \in typed'
    BY <1>3, <1>8, <2>1
  <2>3. ASSUME NEW m \in UsedNames(body, pc)
        PROVE  m \in Names /\ <<pc, m>> \in DOMAIN links' /\ FindName(m) \in typed
    <3>1. m = n /\ m \notin {"none", "const"} /\ IsName(n)
      BY <1>1, <1>2, ReadsOnly DEF IsName
    <3> QED  BY <1>8, <1>9, <2>1, <3>1 DEF Plain
  <2>4. ASSUME NEW p \in 1..(pc - 1), Clash(body, p, pc)  PROVE FALSE
    <3>1. PICK k : k = Len(calls)
      OBVIOUS
    <3>2. k \in Nat \ {0} /\ Len(scopes) = k + 1 /\ Len(body) \in Nat /\ pc \in 1..(Len(body) + 1)
      BY <1>1, <3>1 DEF Walk, Scoped
    <3>3. Scope = scopes[k + 1] /\ k + 1 \in 2..Len(scopes) /\ (k + 1) - 2 = k - 1
      BY <3>2 DEF Scope
    <3>4. Shows(Scope, body, pc, k - 1) /\ Depth(body, pc) = k - 1
      BY <1>1, <3>1, <3>3 DEF Scoped, Nested
    <3>5. p \in Seen(body, pc, body[pc].name, k - 1)
      BY <2>4, <3>2, <3>4, SeenIsOpen DEF Clash
    <3>6. body[pc].name \in DOMAIN Scope
      BY <3>4, <3>5 DEF Shows
    <3> QED  BY <2>1, <3>6 DEF DuplicateErrors
  <2> QED  BY <2>2, <2>3, <2>4
<1>11. typed \subseteq typed' /\ typed' \subseteq typed \cup {pc} /\ errors \subseteq errors'
  BY <1>3
<1>12. Linked'
  BY <1>1, <1>3, <1>5, <1>9, <1>10, <1>11, LinkedSteps
<1> QED  BY <1>6, <1>7, <1>12 DEF Inv

LEMMA AssignKeepsInv ==
  ASSUME Inv, DoVariableAssign
  PROVE  Inv'
<1>1. /\ Walk /\ Scoped /\ Linked /\ phase = "decorating" /\ pc \in 1..Len(body) /\ pc <= Len(body)
      /\ body[pc].op = "assign" /\ body[pc].reads \in Plain /\ body[pc].name \in Plain
      /\ calls \in Seq(Frames) /\ calls # <<>> /\ calls[1].kind = "body" /\ scopes \in Seq(Scopes)
  BY HereFacts DEF DoVariableAssign, Plain
<1>2. PICK n \in Plain : n = body[pc].reads
  BY <1>1
<1>3. PICK t \in Plain : t = body[pc].name
  BY <1>1
<1>4. PICK l : l = IF ExpressionOk(t) THEN LinksOf(n) ELSE <<>>
  OBVIOUS
<1>5. PICK mid : mid = With(links, LinksOf(t))
  OBVIOUS
<1>6. /\ links' = With(mid, l)
      /\ errors' = errors \cup ExpressionErrors(t) \cup (IF ExpressionOk(t) THEN ExpressionErrors(n) ELSE {})
      /\ WarnAfterReturn /\ AfterStatement(calls, FALSE) /\ UNCHANGED <<body, result, scopes, typed, phase>>
  BY <1>2, <1>3, <1>4, <1>5 DEF DoVariableAssign
<1>7. calls' \in Seq(Frames) /\ Len(calls') = Len(calls) /\ calls' # <<>> /\ calls'[1].kind = "body" /\ pc' = pc + 1
  BY <1>1, <1>6, StackReturned
<1>8. body[pc].op \notin Openers \cup Marks /\ ~Declares(body, pc) /\ body[pc].op # "let"
  BY <1>1 DEF Openers, Marks, Declares
<1>9. Scoped'
  BY <1>1, <1>6, <1>7, <1>8, ScopesStay
<1>10. Walk'
  BY <1>1, <1>6, <1>7, WalkSteps, WarnedBy
<1>11. \A m \in Plain :
         /\ NewLinks(LinksOf(m))
         /\ errors = {} /\ ExpressionErrors(m) = {} => ExpressionOk(m)
         /\ IsName(m) /\ ExpressionOk(m) => <<pc, m>> \in DOMAIN LinksOf(m) /\ FindName(m) \in typed
  BY <1>1, NameRead
<1>12. NewLinks(l)
  <2>1. DOMAIN <<>> = {}
    OBVIOUS
  <2>2. NewLinks(<<>>)
    BY <2>1 DEF NewLinks
  <2> QED  BY <1>4, <1>11, <2>2
<1>13. Extends(mid, links) /\ DOMAIN mid = DOMAIN links \cup DOMAIN LinksOf(t)
  BY <1>5, <1>11, LinksAdded
<1>14. Extends(links', links) /\ DOMAIN links' = DOMAIN mid \cup DOMAIN l
  BY <1>6, <1>12, <1>13, WithAdds
<1>15. ASSUME errors' = {}, NEW m \in UsedNames(body, pc)
       PROVE  m \in Names /\ <<pc, m>> \in DOMAIN links' /\ FindName(m) \in typed
  <2>1. m \in {t, n} /\ m \notin {"none", "const"} /\ m \in Names /\ IsName(m) /\ m \in Plain
    BY <1>2, <1>3 DEF UsedNames, IsName, Plain
  <2>2. errors = {} /\ ExpressionErrors(t) = {}
    BY <1>6, <1>15
  <2>3. ExpressionOk(t) /\ ExpressionErrors(n) = {} /\ l = LinksOf(n)
    BY <1>4, <1>6, <1>11, <1>15, <2>2
  <2>4. ExpressionOk(m)
    BY <1>11, <2>1, <2>2, <2>3
  <2> QED  BY <1>11, <1>13, <1>14, <2>1, <2>3, <2>4
<1>16. \A p \in 1..(pc - 1) : ~Clash(body, p, pc)
  BY <1>8, NothingClashes
<1>17. errors \subseteq errors' /\ typed' = typed
  BY <1>6
<1>18. Linked'
  BY <1>1, <1>6, <1>7, <1>8, <1>14, <1>15, <1>16, <1>17, LinkedSteps
<1> QED  BY <1>9, <1>10, <1>18 DEF Inv

LEMMA ExpressionKeepsInv ==
  ASSUME Inv, DoExpression \/ DoReturn
  PROVE  Inv'
<1>1. /\ Walk /\ Scoped /\ Linked /\ phase = "decorating" /\ pc \in 1..Len(body) /\ pc <= Len(body)
      /\ body[pc].op \in {"use", "return"} /\ body[pc].reads \in Plain
      /\ calls \in Seq(Frames) /\ calls # <<>> /\ calls[1].kind = "body" /\ scopes \in Seq(Scopes)
  BY HereFacts DEF DoExpression, DoReturn
<1>2. /\ links' = With(links, LinksOf(body[pc].reads))
      /\ errors \cup ExpressionErrors(body[pc].reads) \subseteq errors'
      /\ WarnAfterReturn /\ (AfterStatement(calls, FALSE) \/ AfterStatement(calls, TRUE))
      /\ UNCHANGED <<body, result, scopes, typed, phase>>
  BY DEF DoExpression, DoReturn
<1>3. calls' \in Seq(Frames) /\ Len(calls') = Len(calls) /\ calls' # <<>> /\ calls'[1].kind = "body" /\ pc' = pc + 1
  BY <1>1, <1>2, StackReturned
<1>4. body[pc].op \notin Openers \cup Marks /\ ~Declares(body, pc) /\ body[pc].op # "assign"
  BY <1>1 DEF Openers, Marks, Declares
<1>5. Scoped'
  BY <1>1, <1>2, <1>3, <1>4, ScopesStay
<1>6. Walk'
  BY <1>1, <1>2, <1>3, WalkSteps, WarnedBy
<1>7. Linked'
  BY <1>1, <1>2, <1>3, <1>4, LinksOfRead
<1> QED  BY <1>5, <1>6, <1>7 DEF Inv

LEMMA OpenKeepsInv ==
  ASSUME Inv, DoCompound \/ DoCondition
  PROVE  Inv'
<1>1. /\ Walk /\ Scoped /\ Linked /\ phase = "decorating" /\ pc \in 1..Len(body) /\ pc <= Len(body)
      /\ body[pc].op \in {"block", "if", "ifelse", "while"} /\ body[pc].reads \in Plain
      /\ calls \in Seq(Frames) /\ calls # <<>> /\ calls[1].kind = "body" /\ scopes \in Seq(Scopes)
  BY HereFacts DEF DoCompound, DoCondition
<1>2. PICK kind \in CallKinds : OpenList(kind)
  <2>1. CASE DoCompound
    BY <2>1 DEF DoCompound, CallKinds
  <2>2. CASE DoCondition
    <3>1. body[pc].op \in {"if", "ifelse", "while"}
      BY <2>2 DEF DoCondition, At
    <3> QED  BY <2>2, <3>1 DEF DoCondition, CallKinds
  <2> QED  BY <2>1, <2>2
<1>3. UNCHANGED <<body, result, typed, phase>>
  BY DEF DoCompound, DoCondition
<1>4. /\ calls' = Append(calls, Call(kind, FALSE)) /\ scopes' = Append(scopes, EmptyScope) /\ pc' = pc + 1
      /\ WarnAfterReturn
  BY <1>2 DEF OpenList
<1>5. calls' \in Seq(Frames) /\ Len(calls') = Len(calls) + 1 /\ calls' # <<>> /\ calls'[1].kind = "body"
  <2>1. PICK f \in Frames : f = Call(kind, FALSE)
    BY DEF Call, Frames
  <2>2. calls' = Append(calls, f)
    BY <1>4, <2>1
  <2> QED  BY <1>1, <2>2
<1>6. body[pc].op \in Openers /\ ~Declares(body, pc) /\ body[pc].op \notin {"assign", "let"}
  BY <1>1 DEF Openers, Declares
<1>7. Scoped' /\ scopes' \in Seq(Scopes)
  BY <1>1, <1>3, <1>4, <1>5, <1>6, ScopeOpens
<1>8. Walk'
  BY <1>1, <1>3, <1>4, <1>5, <1>7, WalkSteps, WarnedBy
<1>9. Linked'
  <2>1. CASE DoCondition
    <3>1. /\ links' = With(links, LinksOf(body[pc].reads))
          /\ errors' = errors \cup ExpressionErrors(body[pc].reads)
      BY <2>1 DEF DoCondition
    <3> QED  BY <1>1, <1>3, <1>4, <1>6, <3>1, LinksOfRead
  <2>2. CASE DoCompound
    <3>1. body[pc].reads = "none" /\ UNCHANGED <<links, errors>>
      BY <1>1, <2>2 DEF DoCompound, At, Walk, Parsed
    <3>2. UsedNames(body, pc) = {}
      BY <1>6, <3>1 DEF UsedNames
    <3>3. \A p \in 1..(pc - 1) : ~Clash(body, p, pc)
      BY <1>6, NothingClashes
    <3> QED  BY <1>1, <1>3, <1>4, <1>6, <3>1, <3>2, <3>3, LinkedSteps, ExtendsItself
  <2> QED  BY <2>1, <2>2
<1> QED  BY <1>7, <1>8, <1>9 DEF Inv

(* The marks use no name and declare none. *)
LEMMA MarkLinks ==
  ASSUME Walk, Scoped, Linked, pc <= Len(body), body[pc].op \in Marks,
         body' = body, pc' = pc + 1, UNCHANGED <<links, typed, errors>>
  PROVE  Linked'
<1>1. ~Declares(body, pc) /\ body[pc].op \notin {"assign", "let"}
  BY DEF Marks, Declares
<1>2. UsedNames(body, pc) = {}
  <2>1. pc \in DOMAIN body /\ body[pc].reads = "none"
    BY DEF Walk, Parsed, Marks
  <2> QED  BY <1>1, <2>1 DEF UsedNames
<1>3. \A p \in 1..(pc - 1) : ~Clash(body, p, pc)
  BY <1>1, NothingClashes
<1> QED  BY <1>1, <1>2, <1>3, LinkedSteps, ExtendsItself

(* Only the call for the body itself ends with the function. *)
LEMMA BelowFacts ==
  ASSUME calls \in Seq(Frames), calls # <<>>, calls[1].kind = "body", Top.kind # "body"
  PROVE  /\ Len(calls) > 1 /\ Below \in Seq(Frames) /\ Below # <<>>
         /\ Len(Below) = Len(calls) - 1 /\ Below[1].kind = "body"
<1>1. PICK n \in Nat \ {0} : n = Len(calls)
  OBVIOUS
<1>2. n # 1
  BY <1>1 DEF Top
<1>3. PICK m \in Nat \ {0} : m = n - 1
  BY <1>1, <1>2
<1>4. PICK below : below = SubSeq(calls, 1, m)
  OBVIOUS
<1>5. m <= Len(calls) /\ calls \in Seq(Frames)
  BY <1>1, <1>3
<1>6. below \in Seq(Frames) /\ Len(below) = m /\ \A i \in 1..m : below[i] = calls[i]
  BY <1>4, <1>5
<1>7. below # <<>> /\ below[1].kind = "body"
  BY <1>3, <1>6
<1>8. Below = below
  BY <1>1, <1>3, <1>4 DEF Below
<1> QED  BY <1>1, <1>2, <1>3, <1>6, <1>7, <1>8

LEMMA ElseKeepsInv ==
  ASSUME Inv, DoElse
  PROVE  Inv'
<1>1. /\ Walk /\ Scoped /\ Linked /\ phase = "decorating" /\ pc \in 1..Len(body) /\ pc <= Len(body)
      /\ body[pc].op = "else" /\ calls \in Seq(Frames) /\ calls # <<>> /\ calls[1].kind = "body" /\ Top \in Frames
  BY HereFacts DEF DoElse
<1>2. /\ Top.kind = "then" /\ calls' = Append(Below, Call("else", Top.hasReturn))
      /\ scopes' = Append(OuterScopes, EmptyScope) /\ pc' = pc + 1
      /\ UNCHANGED <<body, result, links, typed, errors, warned, phase>>
  BY DEF DoElse
<1>3. calls' \in Seq(Frames) /\ Len(calls') = Len(calls) /\ calls' # <<>> /\ calls'[1].kind = "body"
  <2>1. /\ Len(calls) > 1 /\ Below \in Seq(Frames) /\ Below # <<>>
        /\ Len(Below) = Len(calls) - 1 /\ Below[1].kind = "body"
    BY <1>1, <1>2, BelowFacts
  <2>2. Call("else", Top.hasReturn) \in Frames
    BY <1>1 DEF Call, Frames, CallKinds
  <2> QED  BY <1>2, <2>1, <2>2
<1>4. Scoped' /\ scopes' \in Seq(Scopes)
  BY <1>1, <1>2, <1>3, ScopeRestarts
<1>5. Walk'
  BY <1>1, <1>2, <1>3, <1>4, WalkSteps
<1>6. Linked'
  BY <1>1, <1>2, MarkLinks DEF Marks
<1> QED  BY <1>4, <1>5, <1>6 DEF Inv

LEMMA EndKeepsInv ==
  ASSUME Inv, DoEnd
  PROVE  Inv'
<1>1. /\ Walk /\ Scoped /\ Linked /\ phase = "decorating" /\ pc \in 1..Len(body) /\ pc <= Len(body)
      /\ body[pc].op = "end" /\ calls \in Seq(Frames) /\ calls # <<>> /\ calls[1].kind = "body" /\ Top \in Frames
  BY HereFacts DEF DoEnd
<1>2. /\ Top.kind \in {"block", "if", "else", "loop"} /\ scopes' = OuterScopes /\ AfterStatement(Below, EndHasReturn)
      /\ UNCHANGED <<body, result, links, typed, errors, warned, phase>>
  BY DEF DoEnd
<1>3. /\ Len(calls) > 1 /\ Below \in Seq(Frames) /\ Below # <<>>
      /\ Len(Below) = Len(calls) - 1 /\ Below[1].kind = "body"
  BY <1>1, <1>2, BelowFacts
<1>4. EndHasReturn \in BOOLEAN
  BY <1>1, <1>2 DEF EndHasReturn, Frames
<1>5. calls' \in Seq(Frames) /\ Len(calls') = Len(calls) - 1 /\ calls' # <<>> /\ calls'[1].kind = "body" /\ pc' = pc + 1
  BY <1>2, <1>3, <1>4, StackReturned
<1>6. Scoped' /\ scopes' \in Seq(Scopes)
  BY <1>1, <1>2, <1>3, <1>5, ScopeCloses
<1>7. Walk'
  BY <1>1, <1>2, <1>5, <1>6, WalkSteps
<1>8. Linked'
  BY <1>1, <1>2, <1>5, MarkLinks DEF Marks
<1> QED  BY <1>6, <1>7, <1>8 DEF Inv

(* The implicit return changes the meaning of no name in front of it.      *)
LEMMA EndFunctionKeepsInv ==
  ASSUME Inv, EndFunction
  PROVE  Inv'
<1>1. Walk /\ Scoped /\ Linked
  BY DEF Inv, EndFunction
<1>2. /\ pc = Len(body) + 1 /\ body' = WithImplicitReturn /\ scopes' = OuterScopes /\ phase' = "done"
      /\ errors \subseteq errors' /\ UNCHANGED <<result, pc, calls, links, typed, warned>>
  BY DEF EndFunction
<1>3. PICK s : s = Statement("return", "none", "none")
  OBVIOUS
<1>4. PICK n \in Nat : n = Len(body)
  BY <1>1 DEF Walk
<1>5. body' \in {body, Append(body, s)} /\ body \in Seq(StatementsOver(Names))
  BY <1>1, <1>2, <1>3 DEF WithImplicitReturn, Walk
<1>6. s \in StatementsOver(Names) /\ s.op = "return" /\ s.reads = "none" /\ s.name = "none"
  BY <1>3 DEF Statement, StatementsOver, Ops
<1>7. /\ body' \in Seq(StatementsOver(Names)) /\ Len(body') \in {n, n + 1} /\ \A p \in 1..n : body'[p] = body[p]
      /\ \A p \in DOMAIN body' : p \in 1..n \/ (p = n + 1 /\ body'[p] = s)
  BY <1>4, <1>5, <1>6
<1>8. ASSUME NEW q \in 1..(n + 1)
      PROVE  /\ \A p \in 1..q : Depth(body', p) = Depth(body, p) /\ IsOpen(body', p, q) = IsOpen(body, p, q)
             /\ \A x, globals : DeclOf(body', q, x, globals) = DeclOf(body, q, x, globals)
  <2>1. q <= Len(body) + 1 /\ q <= Len(body') + 1 /\ Len(body) \in Nat /\ Len(body') \in Nat
    BY <1>4, <1>7
  <2>2. \A i \in 1..(q - 1) : body'[i] = body[i]
    BY <1>7
  <2> QED  BY <2>1, <2>2, SamePrefix
<1>9. Walk'
  <2>1. Parsed(body)'
    BY <1>1, <1>4, <1>6, <1>7 DEF Walk, Parsed, Declares
  <2>2. scopes' \in Seq(Scopes)
    BY <1>1, <1>2 DEF Walk, Scoped, OuterScopes
  <2>3. pc' \in 1..(Len(body') + 1) /\ pc' = n + 1
    BY <1>2, <1>4, <1>7
  <2>4. \A p \in pc'..Len(body') : body'[p] = Statement("return", "none", "none")
    BY <1>3, <1>7, <2>3
  <2> QED  BY <1>1, <1>2, <1>7, <2>1, <2>2, <2>3, <2>4 DEF Walk
<1>10. LinksAreLexical'
  <2>1. ASSUME NEW u \in DOMAIN links  PROVE links[u] = DeclOf(body', u[1], u[2], Globals)
    <3>1. u[1] \in 1..n
      BY <1>1, <1>2, <1>4 DEF Linked
    <3> QED  BY <1>1, <1>8, <3>1 DEF Linked, LinksAreLexical
  <2> QED  BY <1>2, <2>1 DEF LinksAreLexical
<1>11. \A p \in 1..n : Declares(body', p) = Declares(body, p) /\ UsedNames(body', p) = UsedNames(body, p)
  BY <1>7 DEF Declares, UsedNames
<1>12. ASSUME NEW q \in 1..n, NEW p \in 1..(q - 1)  PROVE Clash(body', p, q) <=> Clash(body, p, q)
  BY <1>7, <1>8 DEF Clash, DeclaresName
<1>13. pc' = pc /\ 1..(pc - 1) = 1..n
  BY <1>2, <1>4
<1>14. \A p, x : IsLinked(p, x)' <=> IsLinked(p, x)
  BY <1>2 DEF IsLinked
<1>15. ASSUME errors' = {}
       PROVE  /\ \A p \in 1..n : Declares(body', p) => p \in typed'
              /\ \A p \in 1..n : \A x \in UsedNames(body', p) : IsLinked(p, x)'
              /\ \A q \in 1..n : \A p \in 1..(q - 1) : ~Clash(body', p, q)
  <2>1. errors = {} /\ typed' = typed
    BY <1>2, <1>15
  <2> QED  BY <1>1, <1>11, <1>12, <1>13, <1>14, <2>1 DEF Linked
<1>16. Linked'
  BY <1>1, <1>2, <1>10, <1>13, <1>15 DEF Linked
<1>17. (phase = "decorating")' = FALSE
  BY <1>2
<1> QED  BY <1>9, <1>16, <1>17 DEF Inv

----------------------------------------------------------------------------
LEMMA InitEstablishesInv == Init => Inv
<1> SUFFICES ASSUME Init  PROVE Inv
  OBVIOUS
<1>1. /\ body \in Bodies /\ result \in {"void", "value"} /\ pc = 1 /\ calls = <<Call("body", FALSE)>>
      /\ scopes = <<GlobalScope, EmptyScope>> /\ DOMAIN links = {} /\ typed = {Global} /\ warned = {}
      /\ phase = "decorating"
  BY DEF Init
<1>2. body \in Seq(StatementsOver(Names)) /\ Len(body) \in Nat
  BY <1>1, BodiesAreStreams
<1>3. Parsed(body)
  BY <1>1, BodiesAreParsed DEF Parsed, Declares
<1>4. GlobalScope \in Scopes
  <2>1. GlobalScope \in [Globals \cup Functions -> Int]
    BY DEF GlobalScope, Global, NotAVariable
  <2> QED  BY <2>1, GlobalNames DEF Scopes
<1>5. PICK f \in Frames : f = Call("body", FALSE)
  BY DEF Call, Frames, CallKinds
<1>6. PICK g \in Scopes : g = GlobalScope
  BY <1>4
<1>7. PICK e \in Scopes : e = EmptyScope
  BY ScopeTypes
<1>8. Walk
  <2>1. f.kind = "body"
    BY <1>5 DEF Call
  <2>2. calls = <<f>> /\ scopes = <<g, e>>
    BY <1>1, <1>5, <1>6, <1>7
  <2>3. calls \in Seq(Frames) /\ calls # <<>> /\ calls[1].kind = "body"
    BY <2>1, <2>2
  <2>4. scopes \in Seq(Scopes)
    BY <2>2
  <2>5. pc \in 1..(Len(body) + 1) /\ phase # "done" /\ warned \subseteq 1..(pc - 1)
    BY <1>1, <1>2
  <2> QED  BY <1>1, <1>2, <1>3, <2>3, <2>4, <2>5 DEF Walk
<1>9. Linked
  <2>1. 1..(pc - 1) = {} /\ 0..(pc - 1) = {0}
    BY <1>1
  <2>2. DOMAIN links \subseteq (1..(pc - 1)) \X Names /\ LinksAreLexical
    BY <1>1 DEF LinksAreLexical
  <2>3. Global \in typed /\ typed \subseteq 0..(pc - 1)
    BY <1>1, <2>1 DEF Global
  <2> QED  BY <2>1, <2>2, <2>3 DEF Linked
<1>10. Scoped
  <2>1. Len(calls) - 1 = 0 /\ Len(scopes) = 2 /\ scopes[1] = GlobalScope /\ scopes[2] = EmptyScope
    BY <1>1
  <2>2. Depth(body, 1) = 0
    <3>1. 1..(1 - 1) = {}
      OBVIOUS
    <3>2. {i \in 1..(1 - 1) : body[i].op \in Openers} = {} /\ {i \in 1..(1 - 1) : body[i].op = "end"} = {}
      BY <3>1
    <3> QED  BY <3>2, FS_EmptySet DEF Depth
  <2>3. \A n : Seen(body, 1, n, 0) = {}
    BY DEF Seen, InScope
  <2>4. DOMAIN EmptyScope = {}
    BY DEF EmptyScope
  <2>5. Shows(EmptyScope, body, 1, 0)
    BY <2>3, <2>4 DEF Shows
  <2>6. Nested(body, 1, 0)
    BY <2>2 DEF Nested
  <2> QED  BY <1>1, <2>1, <2>5, <2>6 DEF Scoped
<1> QED  BY <1>8, <1>9, <1>10 DEF Inv

(* The walk keeps its scopes, links and errors in step with the body, for  *)
(* every body the parser delivers.                                         *)
THEOREM WalkKeepsScopes == Spec => []Inv
<1>1. Inv /\ [Next]_vars => Inv'
  <2> SUFFICES ASSUME Inv, [Next]_vars  PROVE Inv'
    OBVIOUS
  <2>1. CASE UNCHANGED vars
    <3>1. UNCHANGED Walk /\ UNCHANGED Linked /\ UNCHANGED Scoped
      BY <2>1 DEF vars, Walk, Parsed, Declares, Linked, LinksAreLexical, IsLinked, Clash, Scoped, Nested, Shows
    <3> QED  BY <2>1, <3>1 DEF Inv, vars
  <2> QED  BY <2>1, ArgumentKeepsInv, DeclarationKeepsInv, AssignKeepsInv, ExpressionKeepsInv, OpenKeepsInv,
              ElseKeepsInv, EndKeepsInv, EndFunctionKeepsInv DEF Next
<1> QED  BY InitEstablishesInv, <1>1, PTL DEF Spec

----------------------------------------------------------------------------
LEMMA InvImpliesTypeOK == Inv => TypeOK
<1> SUFFICES ASSUME Inv  PROVE TypeOK
  OBVIOUS
<1>0. body \in Seq(StatementsOver(Names)) /\ pc \in 1..(Len(body) + 1)
  BY DEF Inv, Walk
<1>1. PICK n \in Nat : n = Len(body) /\ 1..(pc - 1) \subseteq 1..n /\ 0..(pc - 1) \subseteq 0..n
  <2>1. PICK n \in Nat : n = Len(body)
    BY <1>0
  <2> QED  BY <1>0, <2>1
<1>2. \A i \in DOMAIN scopes : DOMAIN scopes[i] \subseteq Names
  <2>1. \A scope \in Scopes : DOMAIN scope \subseteq Names
    BY DEF Scopes
  <2> QED  BY <2>1 DEF Inv, Walk
<1>3. DOMAIN links \subseteq (1..n) \X Names
  BY <1>1 DEF Inv, Linked
<1>4. warned \subseteq 1..n /\ typed \subseteq 0..n
  BY <1>1 DEF Inv, Walk, Linked
<1> QED  BY <1>0, <1>1, <1>2, <1>3, <1>4 DEF Inv, Walk, TypeOK

LEMMA InvImpliesAcceptedIsLinked == Inv => AcceptedIsLinked
<1> SUFFICES ASSUME Inv, Accepted, NEW p \in 1..Len(body), NEW n \in UsedNames(body, p)
             PROVE  <<p, n>> \in DOMAIN links /\ links[<<p, n>>] \in typed
  BY DEF AcceptedIsLinked
<1>1. p < pc
  <2>1. ASSUME p >= pc  PROVE FALSE
    <3>1. body[p] = Statement("return", "none", "none")
      BY <2>1 DEF Inv, Walk, Accepted
    <3> QED  BY <3>1 DEF Statement, UsedNames
  <2> QED  BY <2>1 DEF Inv, Walk
<1>2. p \in 1..(pc - 1)
  BY <1>1 DEF Inv, Walk
<1> QED  BY <1>2 DEF Inv, Linked, Accepted, IsLinked

(* No list of an accepted body declares a name twice: looking into the     *)
(* scope on top alone finds every clash, at any depth of nesting.          *)
LEMMA InvImpliesNoDuplicates ==
  ASSUME Inv
  PROVE  AcceptedHasNoDuplicates
<1> SUFFICES ASSUME Accepted, NEW p \in 1..Len(body), NEW q \in 1..Len(body), p < q, body[q].op = "let",
                    DeclaresName(body, p, body[q].name), Depth(body, p) = Depth(body, q)
             PROVE  ListEnd(body, p) < q
  BY DEF AcceptedHasNoDuplicates
<1>1. body \in Seq(StatementsOver(Names)) /\ pc \in 1..(Len(body) + 1) /\ Len(body) \in Nat
  BY DEF Inv, Walk
<1>2. q < pc
  <2>1. ASSUME q >= pc  PROVE FALSE
    <3>1. body[q] = Statement("return", "none", "none")
      BY <2>1 DEF Inv, Walk, Accepted
    <3> QED  BY <3>1 DEF Statement
  <2> QED  BY <1>1, <2>1
<1>3. q \in 1..(pc - 1) /\ p \in 1..(q - 1)
  BY <1>1, <1>2
<1>4. ~Clash(body, p, q)
  BY <1>3 DEF Inv, Linked, Accepted
<1>5. ~IsOpen(body, p, q)
  BY <1>4 DEF Clash
<1>6. ~(ListEnd(body, p) >= q)
  BY <1>1, <1>5, ListEndIsAhead
<1>7. ListEnd(body, p) \in p..(Len(body) + 1)
  BY <1>1, ListEndIsMark
<1> QED  BY <1>1, <1>6, <1>7

(* Every link is the declaration that the name denotes by its position in  *)
(* the text, and in an accepted body every name used has one with a type   *)
(* and no list declares a name twice: the scopes opened and closed on the  *)
(* way, redeclarations and errors of earlier statements make no difference.*)
THEOREM NamesMeanTheirDeclarations == Spec => []DecoratorInv
<1>1. Inv => DecoratorInv
  BY InvImpliesTypeOK, InvImpliesAcceptedIsLinked, InvImpliesNoDuplicates
  DEF DecoratorInv, Inv, Linked
<1> QED  BY <1>1, WalkKeepsScopes, PTL

----------------------------------------------------------------------------
(* The return analysis.  The flags of the active calls, by the depth of    *)
(* their lists:                                                            *)
Returned(cs) == {k \in 0..(Len(cs) - 1) : cs[k + 1].hasReturn}
ThenReturned(cs) == {k \in 0..(Len(cs) - 1) : cs[k + 1].thenReturn}

NoIf(b) == \A p \in 1..Len(b) : b[p].op # "if"

(* A statement that cannot be reached has a warning around or before it. *)
Judged(b, w, p) ==
  b[p].op \in Silent \/ p \in Reachable(b) \/ \E x \in w : x <= p /\ ListEnd(b, x) >= p

(* The calls cs of a walk at q that has warned about w are as they should. *)
Flows(b, q, cs, w) ==
  /\ \A k \in 1..Depth(b, q) : cs[k + 1].kind = KindOf(b, Enclosing(b, q, k), q)
  /\ \A x \in BOOLEAN : (x => NoIf(b)) => Notes(b, Returning(b), q, Returned(cs), ThenReturned(cs), x)
  /\ LiveWalk(b, q, Returned(cs), ThenReturned(cs))
  /\ \A k \in 0..(Depth(b, q) - 1) : k \in Returned(cs) => Enclosing(b, q, k + 1) \in w
  /\ \A p \in 1..(q - 1) : Judged(b, w, p)

FlowInv ==
  /\ Inv
  /\ phase = "decorating" => Balanced(body) /\ Flows(body, pc, calls, warned)
  /\ ReturnAnalysisErrsOneWay /\ DeadCodeIsWarned

(* The statement the walk is at is judged by the list it is in.            *)
LEMMA JudgedHere ==
  ASSUME NEW b, Stream(b), Balanced(b), NEW q \in 1..Len(b), NEW cs, Len(cs) = Depth(b, q) + 1, NEW w,
         Flows(b, q, cs, w), NEW new, w \subseteq new,
         Depth(b, q) \in Returned(cs) => b[q].op \in Silent \/ q \in new
  PROVE  \A p \in 1..q : Judged(b, new, p)
<1>1. Len(b) \in Nat
  BY DEF Stream
<1>2. PICK D \in Nat : D = Depth(b, q)
  BY StayingInLists
<1>3. ASSUME NEW p \in 1..(q - 1)  PROVE Judged(b, new, p)
  BY DEF Flows, Judged
<1>4. Judged(b, new, q)
  <2>1. CASE D \in Returned(cs)
    <3>1. ListEnd(b, q) >= q
      <4>1. q \in 1..(Len(b) + 1) /\ ListEnd(b, q) \in q..(Len(b) + 1)
        BY <1>1, ToListEnd
      <4> QED  BY <1>1, <4>1
    <3> QED  BY <1>1, <1>2, <2>1, <3>1 DEF Judged
  <2>2. CASE \E k \in 0..(D - 1) : k \in Returned(cs)
    <3>1. PICK k \in 0..(D - 1) : k \in Returned(cs)
      BY <2>2
    <3>2. PICK x : x = Enclosing(b, q, k + 1)
      OBVIOUS
    <3>3. x \in new
      BY <1>2, <3>1, <3>2 DEF Flows
    <3>4. x \in 1..(q - 1) /\ ListEnd(b, x) >= q
      <4>1. q \in 1..(Len(b) + 1) /\ k + 1 \in 1..Depth(b, q)
        BY <1>1, <1>2
      <4> QED  BY <3>2, <4>1, EnclosingIsOpen
    <3>5. x <= q
      BY <1>1, <3>4
    <3> QED  BY <3>3, <3>4, <3>5 DEF Judged
  <2>3. CASE D \notin Returned(cs) /\ \A k \in 0..(D - 1) : k \notin Returned(cs)
    <3>1. \A k \in 0..((D + 1) - 1) : k \in 0..(D - 1) \/ k = D
      OBVIOUS
    <3>2. Unreturned(Returned(cs), D + 1)
      BY <2>3, <3>1 DEF Unreturned
    <3>3. Live(b, q)
      BY <1>2, <3>2 DEF Flows, LiveWalk
    <3> QED  BY <3>3, LiveSteps DEF Judged
  <2> QED  BY <2>1, <2>2, <2>3
<1>5. \A p \in 1..q : p \in 1..(q - 1) \/ p = q
  OBVIOUS
<1> QED  BY <1>3, <1>4, <1>5

(* A statement that opens no list. *)
LEMMA StatementFlows ==
  ASSUME NEW b, Stream(b), Balanced(b), NEW q \in 1..Len(b), b[q].op \notin Openers \cup Marks,
         NEW cs, Len(cs) = Depth(b, q) + 1, NEW w, Flows(b, q, cs, w),
         NEW new, Len(new) = Len(cs), NEW neww, w \subseteq neww,
         \A i \in 1..Len(cs) : new[i].kind = cs[i].kind /\ (new[i].thenReturn <=> cs[i].thenReturn),
         \A i \in 1..(Len(cs) - 1) : new[i].hasReturn <=> cs[i].hasReturn,
         new[Len(cs)].hasReturn <=> cs[Len(cs)].hasReturn \/ b[q].op = "return",
         cs[Len(cs)].hasReturn => b[q].op \in Silent \/ q \in neww
  PROVE  Flows(b, q + 1, new, neww)
<1>1. PICK D \in Nat : D = Depth(b, q) /\ Len(cs) = D + 1
  BY StayingInLists
<1>2. Depth(b, q + 1) = D /\ \A k \in 0..D : StaysIn(b, q, q + 1, k)
  BY <1>1, StayingInLists
<1>3. ThenReturned(new) = ThenReturned(cs)
  <2>1. \A k \in 0..D : k + 1 \in 1..Len(cs)
    BY <1>1
  <2> QED  BY <1>1, <2>1 DEF ThenReturned
<1>4. /\ \A k \in 0..(D - 1) : k \in Returned(new) <=> k \in Returned(cs)
      /\ D \in Returned(new) <=> D \in Returned(cs) \/ b[q].op = "return"
      /\ D \in Returned(cs) => cs[Len(cs)].hasReturn
  <2>1. \A k \in 0..(D - 1) : k + 1 \in 1..(Len(cs) - 1) /\ k \in 0..(Len(cs) - 1)
    BY <1>1
  <2>2. D \in 0..(Len(cs) - 1) /\ D + 1 = Len(cs)
    BY <1>1
  <2> QED  BY <1>1, <2>1, <2>2 DEF Returned
<1>5. \A k \in 1..D : new[k + 1].kind = KindOf(b, Enclosing(b, q + 1, k), q + 1)
  <2>1. ASSUME NEW k \in 1..D  PROVE new[k + 1].kind = KindOf(b, Enclosing(b, q + 1, k), q + 1)
    <3>1. k \in 1..Depth(b, q) /\ k + 1 \in 1..Len(cs) /\ k \in 0..D
      BY <1>1
    <3>2. KindOf(b, Enclosing(b, q + 1, k), q + 1) = KindOf(b, Enclosing(b, q, k), q)
      BY <1>2, <3>1, KindStays
    <3> QED  BY <3>1, <3>2 DEF Flows
  <2> QED  BY <2>1
<1>6. ASSUME NEW x \in BOOLEAN, x => NoIf(b)
      PROVE  Notes(b, Returning(b), q + 1, Returned(new), ThenReturned(new), x)
  <2>1. Notes(b, Returning(b), q, Returned(cs), ThenReturned(cs), x)
    BY <1>6 DEF Flows
  <2>2. Returning(b) \in SUBSET (1..Len(b)) /\ IsReturning(b, Returning(b))
    BY ReturningIs
  <2> QED  BY <1>1, <1>3, <1>4, <2>1, <2>2, NotesStatement
<1>7. LiveWalk(b, q + 1, Returned(new), ThenReturned(new))
  <2>1. LiveWalk(b, q, Returned(cs), ThenReturned(cs))
    BY DEF Flows
  <2> QED  BY <1>1, <1>3, <1>4, <2>1, LiveStatement
<1>8. ASSUME NEW k \in 0..(D - 1), k \in Returned(new)  PROVE Enclosing(b, q + 1, k + 1) \in neww
  <2>1. k + 1 \in 1..Depth(b, q) /\ k + 1 \in 0..D
    BY <1>1
  <2>2. Enclosing(b, q + 1, k + 1) = Enclosing(b, q, k + 1)
    BY <1>2, <2>1, KindStays
  <2> QED  BY <1>1, <1>4, <1>8, <2>2 DEF Flows
<1>9. \A p \in 1..q : Judged(b, neww, p)
  BY <1>1, <1>4, JudgedHere
<1>10. (q + 1) - 1 = q
  OBVIOUS
<1> QED  BY <1>2, <1>5, <1>6, <1>7, <1>8, <1>9, <1>10 DEF Flows

LEMMA OpenFlows ==
  ASSUME NEW b, Stream(b), Balanced(b), NEW q \in 1..Len(b), b[q].op \in Openers,
         NEW cs, Len(cs) = Depth(b, q) + 1, NEW w, Flows(b, q, cs, w),
         NEW new, Len(new) = Len(cs) + 1, NEW neww, w \subseteq neww,
         \A i \in 1..Len(cs) : new[i] = cs[i],
         new[Len(cs) + 1] = Call(KindOf(b, q, q + 1), FALSE),
         cs[Len(cs)].hasReturn => q \in neww
  PROVE  Flows(b, q + 1, new, neww)
<1>1. PICK D \in Nat : D = Depth(b, q) /\ Len(cs) = D + 1
  BY StayingInLists
<1>2. Depth(b, q + 1) = D + 1 /\ \A k \in 0..D : StaysIn(b, q, q + 1, k)
  BY <1>1, StayingInLists DEF Openers, Marks
<1>3. Enclosing(b, q + 1, D + 1) = q
  BY <1>1, OpensList
<1>4. Len(new) - 1 = D + 1 /\ Len(cs) - 1 = D /\ new[(D + 1) + 1] = Call(KindOf(b, q, q + 1), FALSE)
  <2>1. PICK call : call = Call(KindOf(b, q, q + 1), FALSE)
    OBVIOUS
  <2>2. new[Len(cs) + 1] = call
    BY <2>1
  <2>3. Len(new) - 1 = D + 1 /\ Len(cs) - 1 = D /\ Len(cs) + 1 = (D + 1) + 1
    BY <1>1
  <2> QED  BY <2>1, <2>2, <2>3
<1>5. /\ \A k \in 0..D : (k \in Returned(new) <=> k \in Returned(cs)) /\ (k \in ThenReturned(new) <=> k \in ThenReturned(cs))
      /\ D + 1 \notin Returned(new)
      /\ D \in Returned(cs) => cs[Len(cs)].hasReturn
  <2>1. \A k \in 0..D : k + 1 \in 1..Len(cs) /\ k \in 0..(D + 1) /\ new[k + 1] = cs[k + 1]
    BY <1>1
  <2>2. ~new[(D + 1) + 1].hasReturn
    BY <1>4 DEF Call
  <2> QED  BY <1>1, <1>4, <2>1, <2>2 DEF Returned, ThenReturned
<1>6. \A k \in 1..(D + 1) : new[k + 1].kind = KindOf(b, Enclosing(b, q + 1, k), q + 1)
  <2>1. ASSUME NEW k \in 1..D  PROVE new[k + 1].kind = KindOf(b, Enclosing(b, q + 1, k), q + 1)
    <3>1. k \in 1..Depth(b, q) /\ k + 1 \in 1..Len(cs) /\ k \in 0..D
      BY <1>1
    <3>2. KindOf(b, Enclosing(b, q + 1, k), q + 1) = KindOf(b, Enclosing(b, q, k), q)
      BY <1>2, <3>1, KindStays
    <3> QED  BY <3>1, <3>2 DEF Flows
  <2>2. new[(D + 1) + 1].kind = KindOf(b, Enclosing(b, q + 1, D + 1), q + 1)
    BY <1>3, <1>4 DEF Call
  <2>3. \A k \in 1..(D + 1) : k \in 1..D \/ k = D + 1
    OBVIOUS
  <2> QED  BY <2>1, <2>2, <2>3
<1>7. ASSUME NEW x \in BOOLEAN, x => NoIf(b)
      PROVE  Notes(b, Returning(b), q + 1, Returned(new), ThenReturned(new), x)
  <2>1. Notes(b, Returning(b), q, Returned(cs), ThenReturned(cs), x)
    BY <1>7 DEF Flows
  <2> QED  BY <1>1, <1>5, <2>1, NotesOpen
<1>8. LiveWalk(b, q + 1, Returned(new), ThenReturned(new))
  <2>1. LiveWalk(b, q, Returned(cs), ThenReturned(cs))
    BY DEF Flows
  <2> QED  BY <1>1, <1>5, <2>1, LiveOpen
<1>9. ASSUME NEW k \in 0..((D + 1) - 1), k \in Returned(new)  PROVE Enclosing(b, q + 1, k + 1) \in neww
  <2>1. k \in 0..D /\ k \in Returned(cs)
    BY <1>5, <1>9
  <2>2. CASE k = D
    BY <1>3, <1>5, <2>1, <2>2
  <2>3. CASE k # D
    <3>1. k \in 0..(D - 1) /\ k + 1 \in 1..Depth(b, q) /\ k + 1 \in 0..D
      BY <1>1, <2>1, <2>3
    <3>2. Enclosing(b, q + 1, k + 1) = Enclosing(b, q, k + 1)
      BY <1>2, <3>1, KindStays
    <3> QED  BY <1>1, <2>1, <3>1, <3>2 DEF Flows
  <2> QED  BY <2>2, <2>3
<1>10. \A p \in 1..q : Judged(b, neww, p)
  BY <1>1, <1>5, JudgedHere
<1>11. (q + 1) - 1 = q
  OBVIOUS
<1> QED  BY <1>2, <1>6, <1>7, <1>8, <1>9, <1>10, <1>11 DEF Flows

LEMMA ElseFlows ==
  ASSUME NEW b, Stream(b), Balanced(b), NEW q \in 1..Len(b), b[q].op = "else",
         NEW cs, Len(cs) = Depth(b, q) + 1, NEW w, Flows(b, q, cs, w),
         NEW new, Len(new) = Len(cs), \A i \in 1..(Len(cs) - 1) : new[i] = cs[i],
         new[Len(cs)] = Call("else", cs[Len(cs)].hasReturn)
  PROVE  Flows(b, q + 1, new, w)
<1>1. PICK D \in Nat \ {0} : D = Depth(b, q) /\ Len(cs) = D + 1
  BY StayingInLists
<1>2. Depth(b, q + 1) = D /\ \A k \in 0..(D - 1) : StaysIn(b, q, q + 1, k)
  BY <1>1, StayingInLists
<1>3. PICK o : o = Enclosing(b, q, D)
  OBVIOUS
<1>4. b[o].op = "ifelse" /\ InElse(b, o, q + 1) /\ Enclosing(b, q + 1, D) = o
  <2>1. o = Enclosing(b, q, Depth(b, q)) /\ b[q].op \in Marks
    BY <1>1, <1>3 DEF Marks
  <2> QED  BY <1>1, <2>1, MarkOf
<1>5. /\ \A k \in 0..(D - 1) : (k \in Returned(new) <=> k \in Returned(cs)) /\ (k \in ThenReturned(new) <=> k \in ThenReturned(cs))
      /\ D \notin Returned(new) /\ (D \in ThenReturned(new) <=> D \in Returned(cs))
  <2>1. \A k \in 0..(D - 1) : k + 1 \in 1..(Len(cs) - 1) /\ k \in 0..D /\ new[k + 1] = cs[k + 1]
    BY <1>1
  <2>2. D \in 0..D /\ new[D + 1] = Call("else", cs[D + 1].hasReturn) /\ Len(cs) - 1 = D /\ Len(new) - 1 = D
    BY <1>1
  <2> QED  BY <2>1, <2>2 DEF Returned, ThenReturned, Call
<1>6. \A k \in 1..D : new[k + 1].kind = KindOf(b, Enclosing(b, q + 1, k), q + 1)
  <2>1. ASSUME NEW k \in 1..(D - 1)  PROVE new[k + 1].kind = KindOf(b, Enclosing(b, q + 1, k), q + 1)
    <3>1. k \in 1..Depth(b, q) /\ k + 1 \in 1..(Len(cs) - 1) /\ k \in 0..(D - 1)
      BY <1>1
    <3>2. KindOf(b, Enclosing(b, q + 1, k), q + 1) = KindOf(b, Enclosing(b, q, k), q)
      BY <1>2, <3>1, KindStays
    <3> QED  BY <3>1, <3>2 DEF Flows
  <2>2. new[D + 1].kind = KindOf(b, Enclosing(b, q + 1, D), q + 1)
    BY <1>1, <1>4 DEF Call, KindOf
  <2>3. \A k \in 1..D : k \in 1..(D - 1) \/ k = D
    OBVIOUS
  <2> QED  BY <2>1, <2>2, <2>3
<1>7. ASSUME NEW x \in BOOLEAN, x => NoIf(b)
      PROVE  Notes(b, Returning(b), q + 1, Returned(new), ThenReturned(new), x)
  <2>1. Notes(b, Returning(b), q, Returned(cs), ThenReturned(cs), x)
    BY <1>7 DEF Flows
  <2>2. Returning(b) \in SUBSET (1..Len(b)) /\ IsReturning(b, Returning(b))
    BY ReturningIs
  <2> QED  BY <1>1, <1>5, <2>1, <2>2, NotesElse
<1>8. LiveWalk(b, q + 1, Returned(new), ThenReturned(new))
  <2>1. LiveWalk(b, q, Returned(cs), ThenReturned(cs))
    BY DEF Flows
  <2> QED  BY <1>1, <1>5, <2>1, LiveElse
<1>9. ASSUME NEW k \in 0..(D - 1), k \in Returned(new)  PROVE Enclosing(b, q + 1, k + 1) \in w
  <2>1. Enclosing(b, q + 1, k + 1) = Enclosing(b, q, k + 1)
    <3>1. CASE k = D - 1
      <4>1. k + 1 = D
        BY <3>1
      <4> QED  BY <1>3, <1>4, <4>1
    <3>2. CASE k # D - 1
      <4>1. k + 1 \in 1..Depth(b, q) /\ k + 1 \in 0..(D - 1)
        BY <1>1, <3>2
      <4> QED  BY <1>2, <4>1, KindStays
    <3> QED  BY <3>1, <3>2
  <2> QED  BY <1>1, <1>5, <1>9, <2>1 DEF Flows
<1>10. \A p \in 1..q : Judged(b, w, p)
  BY JudgedHere DEF Silent
<1>11. (q + 1) - 1 = q
  OBVIOUS
<1> QED  BY <1>2, <1>6, <1>7, <1>8, <1>9, <1>10, <1>11 DEF Flows

LEMMA EndFlows ==
  ASSUME NEW b, Stream(b), Balanced(b), NEW q \in 1..Len(b), b[q].op = "end",
         NEW cs, Len(cs) = Depth(b, q) + 1, NEW w, Flows(b, q, cs, w), NEW h,
         LET top == cs[Len(cs)]
         IN /\ top.kind \in {"block", "if"} => (h <=> top.hasReturn)
            /\ top.kind = "else" => (h <=> top.thenReturn /\ top.hasReturn)
            /\ top.kind = "loop" => ~h,
         NEW new, Len(new) = Len(cs) - 1,
         \A i \in 1..(Len(cs) - 1) : new[i].kind = cs[i].kind /\ (new[i].thenReturn <=> cs[i].thenReturn),
         \A i \in 1..(Len(cs) - 2) : new[i].hasReturn <=> cs[i].hasReturn,
         new[Len(cs) - 1].hasReturn <=> cs[Len(cs) - 1].hasReturn \/ h
  PROVE  Flows(b, q + 1, new, w)
<1>1. PICK d \in Nat : /\ d = Depth(b, q) - 1 /\ Depth(b, q) = d + 1
                       /\ Len(cs) = d + 2 /\ Len(cs) - 1 = d + 1 /\ Len(cs) - 2 = d /\ Len(new) = d + 1
  <2>1. Depth(b, q) \in Nat /\ Depth(b, q + 1) \in Nat /\ Depth(b, q + 1) = Depth(b, q) - 1
    BY StayingInLists
  <2>2. Len(cs) = Depth(b, q) + 1 /\ Len(new) = Len(cs) - 1
    OBVIOUS
  <2>3. PICK n, m : n = Len(cs) /\ m = Len(new)
    OBVIOUS
  <2> QED  BY <2>1, <2>2, <2>3
<1>2. Depth(b, q + 1) = d /\ \A k \in 0..d : StaysIn(b, q, q + 1, k)
  <2>1. \A k \in 0..d : k \in 0..(Depth(b, q) - 1)
    BY <1>1
  <2> QED  BY <1>1, <2>1, StayingInLists
<1>3. PICK o : o = Enclosing(b, q, d + 1)
  OBVIOUS
<1>4. b[o].op \in Openers /\ (b[o].op = "ifelse" => InElse(b, o, q)) /\ o \in 1..(q - 1)
  <2>1. o = Enclosing(b, q, Depth(b, q)) /\ b[q].op \in Marks
    BY <1>1, <1>3 DEF Marks
  <2> QED  BY <2>1, MarkOf
<1>5. cs[d + 2].kind = KindOf(b, o, q)
  <2>1. d + 1 \in 1..Depth(b, q) /\ (d + 1) + 1 = d + 2
    BY <1>1
  <2> QED  BY <1>3, <2>1 DEF Flows
<1>6. /\ \A k \in 0..d : k \in ThenReturned(new) <=> k \in ThenReturned(cs)
      /\ \A k \in 0..(d - 1) : k \in Returned(new) <=> k \in Returned(cs)
      /\ d \in Returned(new) <=> d \in Returned(cs) \/ h
      /\ d + 1 \in Returned(cs) <=> cs[d + 2].hasReturn
      /\ d + 1 \in ThenReturned(cs) <=> cs[d + 2].thenReturn
  <2>1. \A k \in 0..d : k + 1 \in 1..(Len(cs) - 1) /\ k \in 0..(Len(cs) - 1) /\ k \in 0..(Len(new) - 1)
    BY <1>1, SMTT(30)
  <2>2. \A i \in 1..d : new[i].hasReturn <=> cs[i].hasReturn
    BY <1>1
  <2>3. \A k \in 0..(d - 1) : k + 1 \in 1..d /\ k \in 0..d
    OBVIOUS
  <2>4. d \in 0..d /\ d + 1 = Len(cs) - 1 /\ (d + 1) + 1 = d + 2 /\ d + 1 \in 0..(Len(cs) - 1)
    BY <1>1
  <2> QED  BY <2>1, <2>2, <2>3, <2>4 DEF Returned, ThenReturned
<1>7. /\ b[o].op = "block" => (h <=> d + 1 \in Returned(cs))
      /\ b[o].op = "if" => (h <=> d + 1 \in Returned(cs))
      /\ b[o].op = "ifelse" => (h <=> d + 1 \in Returned(cs) /\ d + 1 \in ThenReturned(cs))
      /\ b[o].op = "while" => ~h
  BY <1>1, <1>4, <1>5, <1>6 DEF KindOf
<1>8. \A k \in 1..d : new[k + 1].kind = KindOf(b, Enclosing(b, q + 1, k), q + 1)
  <2>1. ASSUME NEW k \in 1..d  PROVE new[k + 1].kind = KindOf(b, Enclosing(b, q + 1, k), q + 1)
    <3>1. k \in 1..Depth(b, q) /\ k + 1 \in 1..(Len(cs) - 1) /\ k \in 0..d
      BY <1>1
    <3>2. KindOf(b, Enclosing(b, q + 1, k), q + 1) = KindOf(b, Enclosing(b, q, k), q)
      BY <1>2, <3>1, KindStays
    <3> QED  BY <3>1, <3>2 DEF Flows
  <2> QED  BY <2>1
<1>9. ASSUME NEW x \in BOOLEAN, x => NoIf(b)
      PROVE  Notes(b, Returning(b), q + 1, Returned(new), ThenReturned(new), x)
  <2>1. Notes(b, Returning(b), q, Returned(cs), ThenReturned(cs), x)
    BY <1>9 DEF Flows
  <2>2. Returning(b) \in SUBSET (1..Len(b)) /\ IsReturning(b, Returning(b))
    BY ReturningIs
  <2>3. b[o].op = "if" => ~x
    <3>1. o \in 1..Len(b)
      BY <1>4 DEF Stream
    <3> QED  BY <1>9, <3>1 DEF NoIf
  <2>4. PICK kind : kind = b[Enclosing(b, q, Depth(b, q))].op
    OBVIOUS
  <2>5. kind = b[o].op
    BY <1>1, <1>3, <2>4
  <2>6. /\ kind = "block" => (d \in Returned(new) <=> d \in Returned(cs) \/ d + 1 \in Returned(cs))
        /\ kind = "ifelse" => (d \in Returned(new) <=> d \in Returned(cs)
                                 \/ (d + 1 \in Returned(cs) /\ d + 1 \in ThenReturned(cs)))
        /\ kind = "while" => (d \in Returned(new) <=> d \in Returned(cs))
        /\ kind = "if" => (d \in Returned(cs) => d \in Returned(new))
                          /\ (x => (d \in Returned(new) => d \in Returned(cs)))
    BY <1>6, <1>7, <2>3, <2>5
  <2> QED  BY <1>1, <1>6, <2>1, <2>2, <2>4, <2>6, NotesEnd
<1>10. LiveWalk(b, q + 1, Returned(new), ThenReturned(new))
  <2>1. LiveWalk(b, q, Returned(cs), ThenReturned(cs))
    BY DEF Flows
  <2>2. PICK kind : kind = b[Enclosing(b, q, Depth(b, q))].op
    OBVIOUS
  <2>3. kind = b[o].op
    BY <1>1, <1>3, <2>2
  <2>4. d \notin Returned(new) =>
          /\ d \notin Returned(cs)
          /\ kind = "block" => d + 1 \notin Returned(cs)
          /\ kind = "ifelse" => ~(d + 1 \in Returned(cs) /\ d + 1 \in ThenReturned(cs))
    BY <1>6, <1>7, <2>3
  <2> QED  BY <1>1, <1>6, <2>1, <2>2, <2>4, LiveEnd
<1>11. ASSUME NEW k \in 0..(d - 1), k \in Returned(new)  PROVE Enclosing(b, q + 1, k + 1) \in w
  <2>1. k + 1 \in 1..(d + 1) /\ k + 1 \in 0..d /\ k \in 0..((d + 1) - 1)
    OBVIOUS
  <2>2. Enclosing(b, q + 1, k + 1) = Enclosing(b, q, k + 1)
    BY <1>1, <1>2, <2>1, KindStays
  <2> QED  BY <1>1, <1>6, <1>11, <2>1, <2>2 DEF Flows
<1>12. \A p \in 1..q : Judged(b, w, p)
  BY JudgedHere DEF Silent
<1>13. (q + 1) - 1 = q
  OBVIOUS
<1> QED  BY <1>2, <1>8, <1>9, <1>10, <1>11, <1>12, <1>13 DEF Flows

(* What the parser delivers. *)
LEMMA SequencesAreStreams ==
  ASSUME NEW b \in Seq(StatementsOver(Names))
  PROVE  Stream(b)
<1>1. \A s \in StatementsOver(Names) : s.op \in Ops
  BY DEF StatementsOver
<1>2. Len(b) \in Nat /\ DOMAIN b = 1..Len(b) /\ \A p \in DOMAIN b : b[p] \in StatementsOver(Names)
  OBVIOUS
<1> QED  BY <1>1, <1>2 DEF Stream

LEMMA FlowsBegin ==
  ASSUME NEW b, Stream(b), Balanced(b), NEW cs, Len(cs) = 1, ~cs[1].hasReturn, NEW w
  PROVE  Flows(b, 1, cs, w)
<1>1. Depth(b, 1) = 0
  BY DepthStarts
<1>2. 1..0 = {} /\ 0..(0 - 1) = {} /\ 1..(1 - 1) = {}
  OBVIOUS
<1>3. 0 \notin Returned(cs)
  BY DEF Returned
<1>4. \A x \in BOOLEAN : Notes(b, Returning(b), 1, Returned(cs), ThenReturned(cs), x)
  BY <1>3, NotesBegin
<1>5. LiveWalk(b, 1, Returned(cs), ThenReturned(cs))
  BY LiveBegins
<1> QED  BY <1>1, <1>2, <1>4, <1>5 DEF Flows

LEMMA FlowsEnd ==
  ASSUME NEW b, Stream(b), Balanced(b), NEW cs, Len(cs) = 1, NEW w, Flows(b, Len(b) + 1, cs, w)
  PROVE  /\ ~cs[1].hasReturn => Len(b) + 1 \in Reachable(b)
         /\ NoIf(b) => (cs[1].hasReturn <=> Len(b) + 1 \notin Reachable(b))
         /\ \A p \in 1..Len(b) : Judged(b, w, p)
<1>1. Len(b) \in Nat
  BY DEF Stream
<1>2. 0 \in Returned(cs) <=> cs[1].hasReturn
  <2>1. 0 \in 0..(Len(cs) - 1)
    OBVIOUS
  <2> QED  BY <2>1 DEF Returned
<1>3. ASSUME NEW x \in BOOLEAN, x => NoIf(b)
      PROVE  Covers(x, Len(b) + 1 \notin Reachable(b), 0 \in Returned(cs))
  <2>1. Notes(b, Returning(b), Len(b) + 1, Returned(cs), ThenReturned(cs), x)
    BY <1>3 DEF Flows
  <2> QED  BY <2>1, NotesAtEnd
<1>4. Len(b) + 1 \notin Reachable(b) => cs[1].hasReturn
  BY <1>2, <1>3 DEF Covers
<1>5. NoIf(b) => (cs[1].hasReturn => Len(b) + 1 \notin Reachable(b))
  BY <1>2, <1>3 DEF Covers
<1>6. \A p \in 1..Len(b) : Judged(b, w, p)
  <2>1. (Len(b) + 1) - 1 = Len(b)
    BY <1>1
  <2> QED  BY <2>1 DEF Flows
<1> QED  BY <1>4, <1>5, <1>6

(* Where the walk is, in terms of the body. *)
LEMMA WalkingFacts ==
  ASSUME FlowInv, phase = "decorating"
  PROVE  /\ Inv /\ Stream(body) /\ Balanced(body) /\ Flows(body, pc, calls, warned)
         /\ Len(calls) = Depth(body, pc) + 1 /\ Len(calls) \in Nat \ {0}
         /\ body \in Seq(StatementsOver(Names))
<1>1. Inv /\ Balanced(body) /\ Flows(body, pc, calls, warned) /\ Walk /\ Scoped
  BY DEF FlowInv, Inv
<1>2. body \in Seq(StatementsOver(Names)) /\ calls \in Seq(Frames) /\ calls # <<>>
  BY <1>1 DEF Walk
<1>3. Stream(body)
  BY <1>2, SequencesAreStreams
<1>4. Depth(body, pc) = Len(calls) - 1
  BY <1>1 DEF Scoped, Nested
<1>5. Len(calls) \in Nat \ {0}
  BY <1>2
<1> QED  BY <1>1, <1>2, <1>3, <1>4, <1>5

(* A step of the walk that leaves its calls as they should be. *)
LEMMA FlowSteps ==
  ASSUME FlowInv, phase = "decorating", Inv', body' = body, phase' = phase, NEW q, pc' = q,
         NEW cs, calls' = cs, NEW w, warned' = w, Flows(body, q, cs, w)
  PROVE  FlowInv'
<1>1. Balanced(body)
  BY DEF FlowInv
<1>2. (ReturnAnalysisErrsOneWay /\ DeadCodeIsWarned)'
  BY DEF ReturnAnalysisErrsOneWay, DeadCodeIsWarned
<1>3. (Balanced(body) /\ Flows(body, pc, calls, warned))'
  BY <1>1
<1> QED  BY <1>2, <1>3 DEF FlowInv

LEMMA FlowStatement ==
  ASSUME FlowInv, DoArgument \/ DoVariableDeclaration \/ DoVariableAssign \/ DoExpression \/ DoReturn
  PROVE  FlowInv'
<1>1. phase = "decorating" /\ pc \in 1..Len(body) /\ body' = body /\ phase' = phase
      /\ body[pc].op \in {"arg", "let", "assign", "use", "return"}
  BY DEF DoArgument, DoVariableDeclaration, DoVariableAssign, DoExpression, DoReturn, At
<1>2. /\ Inv /\ Stream(body) /\ Balanced(body) /\ Flows(body, pc, calls, warned)
      /\ Len(calls) = Depth(body, pc) + 1 /\ Len(calls) \in Nat \ {0}
  BY <1>1, WalkingFacts
<1>3. Inv'
  BY <1>2, ArgumentKeepsInv, DeclarationKeepsInv, AssignKeepsInv, ExpressionKeepsInv
<1>4. body[pc].op \notin Openers \cup Marks
  BY <1>1 DEF Openers, Marks
<1>5. pc' = pc + 1
  BY DEF DoArgument, DoVariableDeclaration, DoVariableAssign, DoExpression, DoReturn, AfterStatement
<1>6. PICK cs, w : cs = calls' /\ w = warned'
  OBVIOUS
<1>7. calls \in Seq(Frames)
  BY <1>2 DEF Inv, Walk
<1>8. /\ Len(cs) = Len(calls)
      /\ \A i \in 1..Len(calls) : cs[i].kind = calls[i].kind /\ (cs[i].thenReturn <=> calls[i].thenReturn)
      /\ \A i \in 1..(Len(calls) - 1) : cs[i].hasReturn <=> calls[i].hasReturn
      /\ cs[Len(calls)].hasReturn <=> calls[Len(calls)].hasReturn \/ body[pc].op = "return"
  <2>1. CASE body[pc].op = "arg"
    <3>1. calls' = calls
      BY <2>1 DEF DoArgument, DoVariableDeclaration, DoVariableAssign, DoExpression, DoReturn, At
    <3> QED  BY <1>6, <2>1, <3>1
  <2>2. CASE body[pc].op # "arg"
    <3>1. PICK h \in BOOLEAN : (h <=> body[pc].op = "return") /\ AfterStatement(calls, h)
      BY <2>2 DEF DoArgument, DoVariableDeclaration, DoVariableAssign, DoExpression, DoReturn, At
    <3>2. cs = [calls EXCEPT ![Len(calls)].hasReturn = @ \/ h]
      BY <1>6, <3>1 DEF AfterStatement
    <3>3. \A f \in Frames : f.hasReturn \in BOOLEAN /\ f.thenReturn \in BOOLEAN
      BY DEF Frames
    <3>4. \A i \in 1..Len(calls) : calls[i] \in Frames
      BY <1>7
    <3>5. Len(cs) = Len(calls) /\ \A i \in 1..(Len(calls) - 1) : cs[i] = calls[i]
      BY <1>2, <1>7, <3>2
    <3>6. cs[Len(calls)] = [calls[Len(calls)] EXCEPT !.hasReturn = @ \/ h]
      BY <1>2, <1>7, <3>2
    <3>7. PICK f \in Frames : f = calls[Len(calls)]
      BY <1>2, <3>4
    <3>8. /\ cs[Len(calls)].kind = f.kind /\ (cs[Len(calls)].thenReturn <=> f.thenReturn)
          /\ cs[Len(calls)].hasReturn <=> f.hasReturn \/ h
      BY <3>6, <3>7 DEF Frames
    <3>9. \A i \in 1..Len(calls) : i \in 1..(Len(calls) - 1) \/ i = Len(calls)
      BY <1>2
    <3> QED  BY <3>1, <3>5, <3>7, <3>8, <3>9
  <2> QED  BY <2>1, <2>2
<1>9. warned \subseteq w /\ (calls[Len(calls)].hasReturn => body[pc].op \in Silent \/ pc \in w)
  <2>1. CASE body[pc].op = "arg"
    <3>1. warned' = warned
      BY <2>1 DEF DoArgument, DoVariableDeclaration, DoVariableAssign, DoExpression, DoReturn, At
    <3> QED  BY <1>6, <2>1, <3>1 DEF Silent
  <2>2. CASE body[pc].op # "arg"
    <3>1. WarnAfterReturn
      BY <2>2 DEF DoArgument, DoVariableDeclaration, DoVariableAssign, DoExpression, DoReturn, At
    <3> QED  BY <1>6, <3>1 DEF WarnAfterReturn, Top
  <2> QED  BY <2>1, <2>2
<1>10. Flows(body, pc + 1, cs, w)
  BY <1>1, <1>2, <1>4, <1>8, <1>9, StatementFlows
<1> QED  BY <1>1, <1>3, <1>5, <1>6, <1>10, FlowSteps

LEMMA FlowOpen ==
  ASSUME FlowInv, DoCompound \/ DoCondition
  PROVE  FlowInv'
<1>1. phase = "decorating" /\ pc \in 1..Len(body) /\ body' = body /\ phase' = phase
      /\ body[pc].op \in Openers
  BY DEF DoCompound, DoCondition, At, Openers
<1>2. /\ Inv /\ Stream(body) /\ Balanced(body) /\ Flows(body, pc, calls, warned)
      /\ Len(calls) = Depth(body, pc) + 1 /\ Len(calls) \in Nat \ {0}
  BY <1>1, WalkingFacts
<1>3. Inv'
  BY <1>2, OpenKeepsInv
<1>4. PICK kind : kind = KindOf(body, pc, pc + 1)
  OBVIOUS
<1>5. OpenList(kind)
  <2>1. ~InElse(body, pc, pc + 1)
    BY <1>1, <1>2, OpensList
  <2>2. CASE DoCompound
    <3>1. body[pc].op = "block" /\ OpenList("block")
      BY <2>2 DEF DoCompound, At
    <3> QED  BY <1>4, <3>1 DEF KindOf
  <2>3. CASE DoCondition
    <3>1. /\ body[pc].op \in {"if", "ifelse", "while"}
          /\ OpenList(CASE body[pc].op = "if" -> "if" [] body[pc].op = "ifelse" -> "then"
                        [] body[pc].op = "while" -> "loop")
      BY <2>3 DEF DoCondition, At
    <3>2. kind = (CASE body[pc].op = "if" -> "if" [] body[pc].op = "ifelse" -> "then"
                    [] body[pc].op = "while" -> "loop")
      BY <1>4, <2>1, <3>1 DEF KindOf
    <3> QED  BY <3>1, <3>2
  <2> QED  BY <2>2, <2>3
<1>6. PICK call : call = Call(kind, FALSE)
  OBVIOUS
<1>7. PICK cs, w : cs = calls' /\ w = warned'
  OBVIOUS
<1>8. cs = Append(calls, call) /\ pc' = pc + 1 /\ warned \subseteq w
      /\ (calls[Len(calls)].hasReturn => pc \in w)
  BY <1>5, <1>6, <1>7 DEF OpenList, WarnAfterReturn, Top
<1>9. calls \in Seq(Frames)
  BY <1>2 DEF Inv, Walk
<1>10. Len(cs) = Len(calls) + 1 /\ (\A i \in 1..Len(calls) : cs[i] = calls[i]) /\ cs[Len(calls) + 1] = call
  BY <1>8, <1>9
<1>11. Flows(body, pc + 1, cs, w)
  BY <1>1, <1>2, <1>4, <1>6, <1>8, <1>10, OpenFlows
<1> QED  BY <1>1, <1>3, <1>7, <1>8, <1>11, FlowSteps

LEMMA FlowElse ==
  ASSUME FlowInv, DoElse
  PROVE  FlowInv'
<1>1. phase = "decorating" /\ pc \in 1..Len(body) /\ body' = body /\ phase' = phase
      /\ body[pc].op = "else" /\ pc' = pc + 1
  BY DEF DoElse, At
<1>2. /\ Inv /\ Stream(body) /\ Balanced(body) /\ Flows(body, pc, calls, warned)
      /\ Len(calls) = Depth(body, pc) + 1 /\ Len(calls) \in Nat \ {0}
  BY <1>1, WalkingFacts
<1>3. Inv'
  BY <1>2, ElseKeepsInv
<1>4. PICK call : call = Call("else", calls[Len(calls)].hasReturn)
  OBVIOUS
<1>5. PICK cs, w : cs = calls' /\ w = warned'
  OBVIOUS
<1>6. cs = Append(Below, call) /\ w = warned /\ Top.kind # "body"
  BY <1>4, <1>5 DEF DoElse, Top
<1>7. calls \in Seq(Frames) /\ calls # <<>> /\ calls[1].kind = "body"
  BY <1>2 DEF Inv, Walk
<1>8. Len(calls) > 1 /\ Below \in Seq(Frames) /\ Len(Below) = Len(calls) - 1
  BY <1>6, <1>7, BelowFacts
<1>9. \A i \in 1..(Len(calls) - 1) : Below[i] = calls[i]
  BY <1>7, <1>8 DEF Below
<1>10. Len(cs) = Len(calls) /\ (\A i \in 1..(Len(calls) - 1) : cs[i] = calls[i]) /\ cs[Len(calls)] = call
  <2>1. PICK n \in Nat : n = Len(Below) /\ Len(calls) = n + 1
    BY <1>2, <1>8
  <2>2. Len(cs) = n + 1 /\ (\A i \in 1..n : cs[i] = Below[i]) /\ cs[n + 1] = call
    BY <1>6, <1>8, <2>1
  <2> QED  BY <1>9, <2>1, <2>2
<1>11. Flows(body, pc + 1, cs, w)
  BY <1>1, <1>2, <1>4, <1>6, <1>10, ElseFlows
<1> QED  BY <1>1, <1>3, <1>5, <1>11, FlowSteps

LEMMA FlowEnd ==
  ASSUME FlowInv, DoEnd
  PROVE  FlowInv'
<1>1. phase = "decorating" /\ pc \in 1..Len(body) /\ body' = body /\ phase' = phase
      /\ body[pc].op = "end" /\ Top.kind \in {"block", "if", "else", "loop"} /\ AfterStatement(Below, EndHasReturn)
  BY DEF DoEnd, At
<1>2. /\ Inv /\ Stream(body) /\ Balanced(body) /\ Flows(body, pc, calls, warned)
      /\ Len(calls) = Depth(body, pc) + 1 /\ Len(calls) \in Nat \ {0}
  BY <1>1, WalkingFacts
<1>3. Inv'
  BY <1>2, EndKeepsInv
<1>4. PICK h : h = EndHasReturn
  OBVIOUS
<1>5. PICK cs, w : cs = calls' /\ w = warned'
  OBVIOUS
<1>6. w = warned /\ pc' = pc + 1 /\ cs = [Below EXCEPT ![Len(Below)].hasReturn = @ \/ h]
  BY <1>1, <1>4, <1>5 DEF DoEnd, AfterStatement
<1>7. calls \in Seq(Frames) /\ calls # <<>> /\ calls[1].kind = "body"
  BY <1>2 DEF Inv, Walk
<1>8. Len(calls) > 1 /\ Below \in Seq(Frames) /\ Len(Below) = Len(calls) - 1
  BY <1>1, <1>7, BelowFacts
<1>9. \A i \in 1..(Len(calls) - 1) : Below[i] = calls[i]
  BY <1>7, <1>8 DEF Below
<1>10. Top \in Frames /\ Top = calls[Len(calls)]
  BY <1>7, <1>2 DEF Top
<1>11. LET top == calls[Len(calls)]
       IN /\ top.kind \in {"block", "if"} => (h <=> top.hasReturn)
          /\ top.kind = "else" => (h <=> top.thenReturn /\ top.hasReturn)
          /\ top.kind = "loop" => ~h
  BY <1>4, <1>10 DEF EndHasReturn
<1>12. h \in BOOLEAN
  BY <1>1, <1>4, <1>10 DEF EndHasReturn, Frames
<1>13. PICK n \in Nat \ {0} : n = Len(Below) /\ Len(calls) = n + 1
  BY <1>2, <1>8
<1>14. PICK f \in Frames : f = Below[n]
  BY <1>8, <1>13
<1>15. Len(cs) = n /\ (\A i \in 1..(n - 1) : cs[i] = Below[i]) /\ cs[n] = [f EXCEPT !.hasReturn = @ \/ h]
  BY <1>6, <1>8, <1>13, <1>14
<1>16. cs[n].kind = f.kind /\ (cs[n].thenReturn <=> f.thenReturn) /\ (cs[n].hasReturn <=> f.hasReturn \/ h)
  BY <1>12, <1>14, <1>15 DEF Frames
<1>17. PICK below : below = calls /\ \A i \in 1..n : Below[i] = below[i]
  BY <1>9, <1>13
<1>18. /\ Len(cs) = Len(calls) - 1
       /\ \A i \in 1..(Len(calls) - 1) : cs[i].kind = calls[i].kind /\ (cs[i].thenReturn <=> calls[i].thenReturn)
       /\ \A i \in 1..(Len(calls) - 2) : cs[i].hasReturn <=> calls[i].hasReturn
       /\ cs[Len(calls) - 1].hasReturn <=> calls[Len(calls) - 1].hasReturn \/ h
  <2>1. Len(calls) - 1 = n /\ Len(calls) - 2 = n - 1 /\ n \in 1..n
        /\ \A i \in 1..n : i \in 1..(n - 1) \/ i = n
    BY <1>13
  <2>2. \A i \in 1..(n - 1) : i \in 1..n
    BY <1>13
  <2> QED  BY <1>14, <1>15, <1>16, <1>17, <2>1, <2>2, ZenonT(40)
<1>19. Flows(body, pc + 1, cs, w)
  <2>1. PICK b, q, c : b = body /\ q = pc /\ c = calls
    OBVIOUS
  <2>2. /\ Stream(b) /\ Balanced(b) /\ q \in 1..Len(b) /\ b[q].op = "end"
        /\ Len(c) = Depth(b, q) + 1 /\ Flows(b, q, c, w)
    BY <1>1, <1>2, <1>6, <2>1
  <2>3. LET top == c[Len(c)]
        IN /\ top.kind \in {"block", "if"} => (h <=> top.hasReturn)
           /\ top.kind = "else" => (h <=> top.thenReturn /\ top.hasReturn)
           /\ top.kind = "loop" => ~h
    BY <1>11, <2>1
  <2>4. /\ Len(cs) = Len(c) - 1
        /\ \A i \in 1..(Len(c) - 1) : cs[i].kind = c[i].kind /\ (cs[i].thenReturn <=> c[i].thenReturn)
        /\ \A i \in 1..(Len(c) - 2) : cs[i].hasReturn <=> c[i].hasReturn
        /\ cs[Len(c) - 1].hasReturn <=> c[Len(c) - 1].hasReturn \/ h
    BY <1>18, <2>1
  <2>5. Flows(b, q + 1, cs, w)
    BY <2>2, <2>3, <2>4, EndFlows
  <2> QED  BY <2>1, <2>5
<1> QED  BY <1>1, <1>3, <1>5, <1>6, <1>19, FlowSteps

(* The end of the function keeps what was written, and may put a return    *)
(* behind it.                                                              *)
LEMMA WrittenIsKept ==
  ASSUME FlowInv, EndFunction
  PROVE  /\ Written' = body
         /\ body' = body \/ (~Top.hasReturn /\ WithReturn(body, body'))
<1>1. phase = "decorating" /\ pc = Len(body) + 1 /\ UNCHANGED <<pc, calls>> /\ body' = WithImplicitReturn
  BY DEF EndFunction
<1>2. body \in Seq(StatementsOver(Names))
  BY <1>1, WalkingFacts
<1>3. PICK b : b = body
  OBVIOUS
<1>4. PICK n \in Nat : n = Len(b)
  BY <1>2, <1>3
<1>5. PICK s : s = Statement("return", "none", "none")
  OBVIOUS
<1>6. s \in StatementsOver(Names) /\ s.op = "return"
  BY <1>5 DEF Statement, StatementsOver, Ops
<1>7. PICK nb : nb = body'
  OBVIOUS
<1>8. nb = b \/ (~Top.hasReturn /\ nb = Append(b, s))
  BY <1>1, <1>3, <1>5, <1>7 DEF WithImplicitReturn
<1>9. b \in Seq(StatementsOver(Names))
  BY <1>2, <1>3
<1>10. nb \in Seq(StatementsOver(Names)) /\ Len(nb) >= n /\ \A i \in 1..n : nb[i] = b[i]
  BY <1>4, <1>6, <1>8, <1>9
<1>11. nb = b \/ (~Top.hasReturn /\ WithReturn(b, nb))
  BY <1>4, <1>6, <1>8, <1>9 DEF WithReturn
<1>12. SubSeq(nb, 1, n) = b
  BY <1>4, <1>9, <1>10
<1>13. pc' - 1 = n
  BY <1>1, <1>3, <1>4
<1> QED  BY <1>3, <1>7, <1>11, <1>12, <1>13 DEF Written

LEMMA FlowEndFunction ==
  ASSUME FlowInv, EndFunction
  PROVE  FlowInv'
<1>1. phase = "decorating" /\ pc = Len(body) + 1 /\ phase' = "done" /\ Top.kind = "body"
      /\ UNCHANGED <<pc, calls, warned>> /\ body' = WithImplicitReturn
  BY DEF EndFunction
<1>2. /\ Inv /\ Stream(body) /\ Balanced(body) /\ Flows(body, pc, calls, warned)
      /\ Len(calls) = Depth(body, pc) + 1 /\ Len(calls) \in Nat \ {0} /\ body \in Seq(StatementsOver(Names))
  BY <1>1, WalkingFacts
<1>3. Inv'
  BY <1>2, EndFunctionKeepsInv
<1>4. PICK b : b = body
  OBVIOUS
<1>5. PICK n \in Nat : n = Len(b)
  BY <1>2, <1>4
<1>6. Len(calls) = 1
  BY <1>1, <1>2, DepthEnds
<1>7. Flows(b, Len(b) + 1, calls, warned)
  BY <1>1, <1>2, <1>4
<1>8. /\ ~calls[1].hasReturn => Len(b) + 1 \in Reachable(b)
      /\ NoIf(b) => (calls[1].hasReturn <=> Len(b) + 1 \notin Reachable(b))
      /\ \A p \in 1..Len(b) : Judged(b, warned, p)
  BY <1>2, <1>4, <1>6, <1>7, FlowsEnd
<1>9. Written' = b
  BY <1>4, WrittenIsKept
<1>10. Top' = calls[1]
  BY <1>1, <1>6 DEF Top
<1>11. ReturnAnalysisErrsOneWay'
  BY <1>8, <1>9, <1>10 DEF ReturnAnalysisErrsOneWay, NoIf
<1>12. DeadCodeIsWarned'
  BY <1>1, <1>8, <1>9 DEF DeadCodeIsWarned, Judged, Silent
<1> QED  BY <1>1, <1>3, <1>11, <1>12 DEF FlowInv

LEMMA InitEstablishesFlowInv == Init => FlowInv
<1> SUFFICES ASSUME Init  PROVE FlowInv
  OBVIOUS
<1>1. /\ body \in Bodies /\ pc = 1 /\ calls = <<Call("body", FALSE)>> /\ phase = "decorating"
  BY DEF Init
<1>2. body \in Seq(StatementsOver(Names)) /\ Balanced(body)
  BY <1>1, BodiesAreStreams, BodiesAreBalanced
<1>3. Stream(body)
  BY <1>2, SequencesAreStreams
<1>4. Len(calls) = 1 /\ ~calls[1].hasReturn
  BY <1>1 DEF Call
<1>5. Flows(body, pc, calls, warned)
  BY <1>1, <1>2, <1>3, <1>4, FlowsBegin
<1>6. ReturnAnalysisErrsOneWay /\ DeadCodeIsWarned
  BY <1>1 DEF ReturnAnalysisErrsOneWay, DeadCodeIsWarned
<1> QED  BY <1>2, <1>5, <1>6, InitEstablishesInv DEF FlowInv

LEMMA NextKeepsFlowInv == FlowInv /\ [Next]_vars => FlowInv'
<1> SUFFICES ASSUME FlowInv, [Next]_vars  PROVE FlowInv'
  OBVIOUS
<1>1. CASE UNCHANGED vars
  <2>1. Inv'
    <3>1. UNCHANGED Walk /\ UNCHANGED Linked /\ UNCHANGED Scoped
      BY <1>1 DEF vars, Walk, Parsed, Declares, Linked, LinksAreLexical, IsLinked, Clash, Scoped, Nested, Shows
    <3> QED  BY <1>1, <3>1 DEF FlowInv, Inv, vars
  <2>2. UNCHANGED ReturnAnalysisErrsOneWay /\ UNCHANGED DeadCodeIsWarned
    BY <1>1 DEF vars, ReturnAnalysisErrsOneWay, DeadCodeIsWarned, Written, Top
  <2>3. UNCHANGED (phase = "decorating" => Balanced(body) /\ Flows(body, pc, calls, warned))
    BY <1>1 DEF vars
  <2> QED  BY <2>1, <2>2, <2>3 DEF FlowInv
<1> QED  BY <1>1, FlowStatement, FlowOpen, FlowElse, FlowEnd, FlowEndFunction DEF Next

LEMMA WalkFollowsReturns == Spec => []FlowInv
  BY InitEstablishesFlowInv, NextKeepsFlowInv, PTL DEF Spec

(* No function is rejected for a missing return, and none gets an implicit *)
(* one, unless a path reaches its closing brace; where every if has an     *)
(* else the analysis is exact, however deep the lists are nested.          *)
THEOREM ReturnsAreJudgedOneWay == Spec => []ReturnAnalysisErrsOneWay
<1>1. FlowInv => ReturnAnalysisErrsOneWay
  BY DEF FlowInv
<1> QED  BY <1>1, WalkFollowsReturns, PTL

(* Nothing unreachable escapes the warning: a statement that no path       *)
(* reaches is one, or lies behind or in one, that was warned about.        *)
THEOREM UnreachableIsWarned == Spec => []DeadCodeIsWarned
<1>1. FlowInv => DeadCodeIsWarned
  BY DEF FlowInv
<1> QED  BY <1>1, WalkFollowsReturns, PTL

----------------------------------------------------------------------------
(* The compiler: the decorator's walk, then the generator's.  What is      *)
(* proved of the generator's walk is taken over by instantiation; the      *)
(* definitions of the two instances are the same.                          *)
G == INSTANCE LlvmGenProofs WITH pc <- gpc, phase <- gphase, result <- outcome,
                                 Bodies <- Seq(StatementsOver(Names))

LEMMA SameText ==
  ASSUME NEW b, NEW p
  PROVE  /\ L!ListEnd(b, p) = ListEnd(b, p) /\ G!ListEnd(b, p) = ListEnd(b, p)
         /\ L!Depth(b, p) = Depth(b, p) /\ G!Depth(b, p) = Depth(b, p)
  BY DEF L!ListEnd, G!ListEnd, ListEnd, L!Depth, G!Depth, Depth, L!Cardinality, G!Cardinality, Cardinality,
         L!IsFiniteSet, G!IsFiniteSet, IsFiniteSet, L!Openers, G!Openers, Openers, L!Min, G!Min, Min

LEMMA SameDecl ==
  ASSUME NEW b, NEW p, NEW n, NEW g
  PROVE  L!DeclOf(b, p, n, g) = DeclOf(b, p, n, g) /\ G!DeclOf(b, p, n, g) = DeclOf(b, p, n, g)
<1>1. /\ L!InScope(b, p, n) = InScope(b, p, n) /\ G!InScope(b, p, n) = InScope(b, p, n)
  BY SameText DEF L!InScope, G!InScope, InScope, L!DeclaresName, G!DeclaresName, DeclaresName
<1>2. \A S : L!Max(S) = Max(S) /\ G!Max(S) = Max(S) /\ L!Min(S) = Min(S) /\ G!Min(S) = Min(S)
  BY DEF L!Max, G!Max, Max, L!Min, G!Min, Min
<1> QED  BY <1>1, <1>2, SameText DEF L!DeclOf, G!DeclOf, DeclOf, L!Global, G!Global, Global, L!Undeclared, G!Undeclared, Undeclared

LEMMA SameStep == L!Next => G!Next
<1> USE SameText, SameDecl DEF L!At, G!At, L!CanRead, G!CanRead, L!HasStorage, G!HasStorage, L!Decl, G!Decl,
        L!Global, G!Global, L!Emit, G!Emit, L!Do, G!Do, L!Ret, G!Ret, L!Br, G!Br, L!CondBr, G!CondBr, L!Instr, G!Instr,
        L!AfterStatement, G!AfterStatement, L!Top, G!Top, L!Below, G!Below, L!Frame, G!Frame, L!NoBlock, G!NoBlock,
        L!BranchUnlessReturned, G!BranchUnlessReturned
<1>1. L!GenArgument => G!GenArgument
  BY DEF L!GenArgument, G!GenArgument
<1>2. L!GenVariableDeclaration => G!GenVariableDeclaration
  BY DEF L!GenVariableDeclaration, G!GenVariableDeclaration
<1>3. L!GenVariableAssign => G!GenVariableAssign
  BY DEF L!GenVariableAssign, G!GenVariableAssign, L!AssignsString, G!AssignsString
<1>4. L!GenExpression => G!GenExpression
  BY DEF L!GenExpression, G!GenExpression
<1>5. L!GenReturn => G!GenReturn
  BY DEF L!GenReturn, G!GenReturn
<1>6. L!GenCompound => G!GenCompound
  BY DEF L!GenCompound, G!GenCompound
<1>7. L!EndCompound => G!EndCompound
  BY DEF L!EndCompound, G!EndCompound
<1>8. L!GenIf => G!GenIf
  BY DEF L!GenIf, G!GenIf
<1>9. L!GenElse => G!GenElse
  BY DEF L!GenElse, G!GenElse
<1>10. L!EndIf => G!EndIf
  BY DEF L!EndIf, G!EndIf
<1>11. L!EndIfElse => G!EndIfElse
  BY DEF L!EndIfElse, G!EndIfElse, L!EndIfElseWith, G!EndIfElseWith
<1>12. L!GenWhile => G!GenWhile
  BY DEF L!GenWhile, G!GenWhile
<1>13. L!EndWhile => G!EndWhile
  BY DEF L!EndWhile, G!EndWhile, L!EndWhileWith, G!EndWhileWith
<1>14. L!EndFunction => G!EndFunction
  BY DEF L!EndFunction, G!EndFunction
<1>15. L!Abort => G!Abort
  BY DEF L!Abort, G!Abort, L!AssignsString, G!AssignsString
<1> QED  BY ONLY <1>1, <1>2, <1>3, <1>4, <1>5, <1>6, <1>7, <1>8, <1>9, <1>10, <1>11, <1>12, <1>13, <1>14, <1>15
            DEF L!Next, G!Next

LEMMA SameFlow ==
  ASSUME NEW b
  PROVE  /\ G!Stream(b) = Stream(b) /\ G!Balanced(b) = Balanced(b) /\ G!Reachable(b) = Reachable(b)
         /\ \A c : G!WithReturn(b, c) = WithReturn(b, c)
<1>1. G!Openers = Openers /\ G!Ops = Ops
  BY DEF G!Openers, Openers, G!Ops, Ops
<1>2. G!Stream(b) = Stream(b) /\ G!Balanced(b) = Balanced(b)
  BY <1>1, SameText DEF G!Stream, Stream, G!Balanced, Balanced
<1>5. G!Reachable(b) = Reachable(b)
  BY DEF G!Reachable, Reachable, G!Arrive, Arrive, G!ArriveElse, ArriveElse, G!OpenerOf, OpenerOf, G!ElseEnd, ElseEnd,
         G!ListEnd, ListEnd, G!Depth, Depth, G!Cardinality, Cardinality, G!IsFiniteSet, IsFiniteSet,
         G!Openers, Openers, G!Max, Max, G!Min, Min
<1>6. \A c : G!WithReturn(b, c) = WithReturn(b, c)
  BY DEF G!WithReturn, WithReturn
<1> QED  BY <1>2, <1>5, <1>6

(* What the generator's module assumes of its constants. *)
LEMMA GeneratorAssumptions ==
  /\ Seq(StatementsOver(Names)) \subseteq Seq(G!StatementsOver(Names))
  /\ NumericGlobals \subseteq Globals /\ Globals \subseteq Names /\ Strings \subseteq Names \ NumericGlobals
  BY NumericAreGlobals, StringsAreVariables, GlobalNames DEF G!StatementsOver, StatementsOver, G!Ops, Ops, G!Openers, Openers

(* What the decorator hands over. *)
HandedOver ==
  phase = "done" =>
    /\ Stream(Written) /\ Balanced(Written) /\ Balanced(body)
    /\ body = Written \/ (~Top.hasReturn /\ WithReturn(Written, body))

(* The generator has not begun, or it walks an accepted body. *)
Generating == G!Init \/ (Accepted /\ G!WalkInv)

CompilerInv == FlowInv /\ HandedOver /\ Generating

LEMMA DecorateKeepsHandedOver ==
  ASSUME FlowInv, HandedOver, [Next]_vars
  PROVE  HandedOver'
<1>1. CASE UNCHANGED vars
  <2>1. UNCHANGED HandedOver
    BY <1>1 DEF vars, HandedOver, Written, Top
  <2> QED  BY <2>1
<1>2. CASE Next /\ ~EndFunction
  <2>1. phase' = "decorating"
    BY <1>2 DEF Next, DoArgument, DoVariableDeclaration, DoVariableAssign, DoExpression, DoReturn, DoCompound,
                DoCondition, DoElse, DoEnd, At
  <2> QED  BY <2>1 DEF HandedOver
<1>3. CASE EndFunction
  <2>1. phase = "decorating" /\ calls' = calls
    BY <1>3 DEF EndFunction
  <2>2. Stream(body) /\ Balanced(body) /\ body \in Seq(StatementsOver(Names))
    BY <2>1, WalkingFacts
  <2>3. PICK w : w = Written'
    OBVIOUS
  <2>4. PICK nb : nb = body'
    OBVIOUS
  <2>5. w = body /\ (nb = w \/ (~Top.hasReturn /\ WithReturn(w, nb)))
    BY <1>3, <2>3, <2>4, WrittenIsKept
  <2>6. nb \in Seq(StatementsOver(Names))
    <3>1. FlowInv'
      BY <1>3, FlowEndFunction
    <3> QED  BY <2>4, <3>1 DEF FlowInv, Inv, Walk
  <2>7. Balanced(nb)
    <3>1. Stream(nb)
      BY <2>6, SequencesAreStreams
    <3> QED  BY <2>2, <2>5, <3>1, BalancedWithReturn
  <2>8. UNCHANGED Top
    BY <2>1 DEF Top
  <2> QED  BY <2>2, <2>3, <2>4, <2>5, <2>7, <2>8 DEF HandedOver
<1> QED  BY <1>1, <1>2, <1>3

LEMMA DecorateKeepsGenerating ==
  ASSUME CompilerInv, Decorate
  PROVE  Generating'
<1>1. phase = "decorating" /\ G!Init /\ UNCHANGED llvmVars
  <2>1. phase = "decorating"
    BY DEF Decorate, Next, DoArgument, DoVariableDeclaration, DoVariableAssign, DoExpression, DoReturn, DoCompound,
           DoCondition, DoElse, DoEnd, EndFunction, At
  <2> QED  BY <2>1 DEF CompilerInv, Generating, Accepted, Decorate
<1>2. FlowInv'
  BY NextKeepsFlowInv DEF CompilerInv, Decorate
<1>3. body' \in Seq(StatementsOver(Names))
  BY <1>2 DEF FlowInv, Inv, Walk
<1>4. (G!Init)'
  BY <1>1, <1>3 DEF G!Init, llvmVars, G!Frame, G!NoBlock
<1> QED  BY <1>4 DEF Generating

LEMMA WalkBegins ==
  ASSUME CompilerInv, Accepted
  PROVE  G!WalkInv
<1>1. G!Balanced(body)
  BY SameFlow DEF CompilerInv, HandedOver, Accepted
<1>2. G!Init /\ G!Balanced(body) => G!WalkInv
  BY GeneratorAssumptions, G!InitWalk
<1> QED  BY <1>1, <1>2 DEF CompilerInv, Generating

LEMMA GenerateKeepsGenerating ==
  ASSUME CompilerInv, Generate
  PROVE  Generating' /\ UNCHANGED vars
<1>1. Accepted /\ L!RunNext /\ UNCHANGED <<result, pc, calls, scopes, links, typed, errors, warned, phase>>
  BY DEF Generate
<1>2. [G!Next]_(G!vars)
  BY <1>1, SameStep DEF L!RunNext, L!Generate, L!Call, L!ExecuteDo, L!ExecuteBranch, L!ExecuteReturn, L!vars, G!vars
<1>3. body' = body
  BY <1>2 DEF G!Next, G!vars, G!GenArgument, G!GenVariableDeclaration, G!GenVariableAssign, G!GenExpression,
         G!GenReturn, G!GenCompound, G!EndCompound, G!GenIf, G!GenElse, G!EndIf, G!EndIfElse, G!EndIfElseWith,
         G!GenWhile, G!EndWhile, G!EndWhileWith, G!EndFunction, G!Abort
<1>4. (G!WalkInv)'
  <2>1. G!WalkInv
    BY <1>1, WalkBegins
  <2>2. G!WalkInv /\ [G!Next]_(G!vars) => (G!WalkInv)'
    BY GeneratorAssumptions, G!NextWalk
  <2> QED  BY <1>2, <2>1, <2>2
<1>5. Accepted'
  BY <1>1 DEF Accepted
<1> QED  BY <1>1, <1>3, <1>4, <1>5 DEF Generating, vars

(* The whole of it: the decorator's invariant, and the generator's for the *)
(* body that was accepted.                                                 *)
THEOREM CompilerInvariant == CompilerSpec => []CompilerInv
<1>1. CompilerInit => CompilerInv
  <2> SUFFICES ASSUME CompilerInit  PROVE CompilerInv
    OBVIOUS
  <2>1. FlowInv /\ phase = "decorating"
    BY InitEstablishesFlowInv DEF CompilerInit, Init
  <2>2. G!Init
    BY DEF CompilerInit, L!RunInit, L!Init, G!Init, L!Frame, G!Frame, L!NoBlock, G!NoBlock
  <2> QED  BY <2>1, <2>2 DEF CompilerInv, HandedOver, Generating
<1>2. CompilerInv /\ [CompilerNext]_compilerVars => CompilerInv'
  <2> SUFFICES ASSUME CompilerInv, [CompilerNext]_compilerVars  PROVE CompilerInv'
    OBVIOUS
  <2>1. CASE Decorate
    BY <2>1, NextKeepsFlowInv, DecorateKeepsHandedOver, DecorateKeepsGenerating DEF CompilerInv, Decorate
  <2>2. CASE Generate
    BY <2>2, NextKeepsFlowInv, DecorateKeepsHandedOver, GenerateKeepsGenerating DEF CompilerInv
  <2>3. CASE UNCHANGED compilerVars
    <3>1. UNCHANGED vars
      BY <2>3 DEF compilerVars
    <3>2. (G!Init)' \/ (Accepted /\ (G!WalkInv)')
      <4>1. UNCHANGED G!vars
        BY <2>3, <3>1 DEF compilerVars, llvmVars, vars, G!vars
      <4>2. CASE G!Init
        BY <4>1, <4>2 DEF G!Init, G!vars, G!Frame, G!NoBlock
      <4>3. CASE Accepted /\ G!WalkInv
        <5>1. G!WalkInv /\ [G!Next]_(G!vars) => (G!WalkInv)'
          BY GeneratorAssumptions, G!NextWalk
        <5> QED  BY <4>1, <4>3, <5>1
      <4> QED  BY <4>2, <4>3 DEF CompilerInv, Generating
    <3>3. UNCHANGED Accepted
      BY <3>1 DEF vars, Accepted
    <3> QED  BY <3>1, <3>2, <3>3, NextKeepsFlowInv, DecorateKeepsHandedOver DEF CompilerInv, Generating
  <2> QED  BY <2>1, <2>2, <2>3 DEF CompilerNext
<1> QED  BY <1>1, <1>2, PTL DEF CompilerSpec

(* The generator finds storage for every name of an accepted body but      *)
(* those of globals that genGlobal skipped: no local is used before its    *)
(* alloca, and no name that was reported gets that far.  For nothing else  *)
(* does it fail but an assignment to a str.                                *)
THEOREM StorageIsFound == CompilerSpec => []OnlySkippedGlobalsLackStorage
<1>1. ASSUME CompilerInv  PROVE OnlySkippedGlobalsLackStorage
  <2> SUFFICES ASSUME gphase \in {"thrown", "crashed"}, ~(gphase = "thrown" /\ L!AssignsString(gpc))
               PROVE  \E n \in Globals \ NumericGlobals : <<gpc, n>> \in DOMAIN links /\ links[<<gpc, n>>] = Global
    BY DEF OnlySkippedGlobalsLackStorage
  <2>1. Accepted /\ G!WalkInv /\ Inv
    BY <1>1 DEF CompilerInv, Generating, G!Init, FlowInv
  <2>2. gpc \in 1..Len(body) /\ \E n : /\ G!Uses(gpc, n) /\ G!Decl(n) \in {Global, Undeclared}
                                       /\ G!Decl(n) = Global => n \notin NumericGlobals
    BY <2>1 DEF G!WalkInv, G!MissingIsNoLocal, G!Global, Global, G!Undeclared, Undeclared,
                L!AssignsString, G!AssignsString
  <2>3. PICK p \in 1..Len(body) : p = gpc
    BY <2>2
  <2>4. PICK n : /\ G!Uses(p, n) /\ G!Decl(n) \in {Global, Undeclared}
                 /\ G!Decl(n) = Global => n \notin NumericGlobals
    BY <2>2, <2>3
  <2>5. G!Decl(n) = DeclOf(body, p, n, Globals)
    BY <2>3, SameDecl DEF G!Decl
  <2>6. /\ AcceptedIsLinked /\ LinksAreLexical /\ typed \subseteq 0..(pc - 1) /\ Parsed(body)
        /\ body \in Seq(StatementsOver(Names)) /\ pc \in Nat
    BY <2>1, InvImpliesAcceptedIsLinked DEF Inv, Walk, Linked
  <2>7. n \in UsedNames(body, p)
    <3>1. p \in DOMAIN body
      BY <2>6
    <3>2. body[p].op = "assign" => body[p].name \notin {"none", "const"}
      BY <2>6, <3>1, NamesAreWords DEF Parsed
    <3> QED  BY <2>4, <3>2 DEF G!Uses, UsedNames
  <2>8. <<p, n>> \in DOMAIN links /\ links[<<p, n>>] \in typed
    BY <2>1, <2>6, <2>7 DEF AcceptedIsLinked
  <2>9. links[<<p, n>>] = DeclOf(body, p, n, Globals)
    BY <2>6, <2>8 DEF LinksAreLexical
  <2>10. DeclOf(body, p, n, Globals) = Global
    <3>1. DeclOf(body, p, n, Globals) # Undeclared
      BY <2>6, <2>8, <2>9 DEF Undeclared
    <3> QED  BY <2>4, <2>5, <3>1
  <2>11. n \in Globals
    <3>1. p \in Nat \ {0}
      BY <2>3
    <3>2. Global \notin InScope(body, p, n)
      BY <3>1 DEF InScope, Global
    <3>3. Global # Undeclared
      BY DEF Global, Undeclared
    <3> QED  BY <2>10, <3>1, <3>2, <3>3, DeclOfIsVisible
  <2> QED  BY <2>3, <2>4, <2>5, <2>8, <2>9, <2>10, <2>11
<1> QED  BY <1>1, CompilerInvariant, PTL

(* The implicit return is generated.  The decorator puts it behind a body  *)
(* that it judges not to return; its judgement errs only one way, so some  *)
(* path does reach the end; the generator's own analysis is exact, so it   *)
(* takes no statement in front for a return and comes to the last one.     *)
THEOREM ImplicitReturnsAreGenerated == CompilerSpec => []ImplicitReturnIsGenerated
<1>1. ASSUME CompilerInv  PROVE ImplicitReturnIsGenerated
  <2> SUFFICES ASSUME gphase = "done", Len(body) = pc
               PROVE  \E b \in DOMAIN blocks : \E k \in DOMAIN blocks[b] : blocks[b][k] = L!Ret(pc)
    BY DEF ImplicitReturnIsGenerated
  <2>1. Accepted /\ phase = "done" /\ G!WalkInv /\ HandedOver /\ FlowInv
    BY <1>1 DEF CompilerInv, Generating, G!Init, Accepted
  <2>2. body \in Seq(StatementsOver(Names)) /\ pc \in Nat \ {0} /\ Stream(body)
    <3>1. body \in Seq(StatementsOver(Names)) /\ pc \in 1..(Len(body) + 1)
      BY <2>1 DEF FlowInv, Inv, Walk
    <3> QED  BY <3>1, SequencesAreStreams
  <2>3. PICK w : w = Written
    OBVIOUS
  <2>4. Len(w) = pc - 1
    BY <2>2, <2>3 DEF Written
  <2>5. Stream(w) /\ Balanced(w) /\ ~Top.hasReturn /\ WithReturn(w, body)
    <3>1. body # w
      BY <2>2, <2>4
    <3> QED  BY <2>1, <2>3, <3>1 DEF HandedOver
  <2>6. Len(w) + 1 \in Reachable(w)
    BY <2>1, <2>3, <2>5 DEF FlowInv, ReturnAnalysisErrsOneWay
  <2>7. G!Stream(w) /\ G!Balanced(w) /\ G!Stream(body) /\ G!WithReturn(w, body) /\ Len(w) + 1 \in G!Reachable(w)
    BY <2>2, <2>5, <2>6, SameFlow
  <2>8. G!Emitted(Len(body))
    <3>1. G!FlowInv /\ G!LastReturn
      BY <2>1 DEF G!WalkInv
    <3> QED  BY <2>7, <3>1, GeneratorAssumptions, G!ReturnBehindIsEmitted
  <2>9. G!Ret(pc) = L!Ret(pc)
    BY DEF G!Ret, L!Ret, G!Instr, L!Instr
  <2> QED  BY <2>8, <2>9 DEF G!Emitted
<1> QED  BY <1>1, CompilerInvariant, PTL

(* Generating and running code disturbs nothing of what the decorator has  *)
(* established: to the decorator a run of the compiler is one of its own,  *)
(* so all that is proved of its walk holds for every compilation.          *)
THEOREM CompilationIsDecoration == CompilerSpec => Spec
<1>1. CompilerInit => Init
  BY DEF CompilerInit
<1>2. CompilerInv /\ [CompilerNext]_compilerVars => [Next]_vars
  BY GenerateKeepsGenerating DEF CompilerNext, compilerVars, Decorate
<1> QED  BY <1>1, <1>2, CompilerInvariant, PTL DEF CompilerSpec, Spec

----------------------------------------------------------------------------
(* The run of an accepted function, and the allocas of what its names are  *)
(* linked to.                                                              *)
LEMMA SameRunStep == L!RunNext => G!RunNext
<1>1. L!Generate => G!Generate
  BY SameStep DEF L!Generate, G!Generate, L!runVars, G!runVars
<1>2. \A op : L!Executing(op) = G!Executing(op)
  BY DEF L!Executing, G!Executing
<1>3. L!Current = G!Current /\ (UNCHANGED L!vars <=> UNCHANGED G!vars)
  BY DEF L!Current, G!Current, L!vars, G!vars
<1>4. L!Call => G!Call
  BY <1>3 DEF L!Call, G!Call, L!vars, G!vars
<1>5. L!ExecuteDo => G!ExecuteDo
  BY <1>2, <1>3 DEF L!ExecuteDo, G!ExecuteDo, L!vars, G!vars
<1>6. L!ExecuteBranch => G!ExecuteBranch
  BY <1>2, <1>3 DEF L!ExecuteBranch, G!ExecuteBranch, L!vars, G!vars, L!Targets, G!Targets
<1>7. L!ExecuteReturn => G!ExecuteReturn
  BY <1>2, <1>3 DEF L!ExecuteReturn, G!ExecuteReturn, L!vars, G!vars
<1> QED  BY <1>1, <1>4, <1>5, <1>6, <1>7 DEF L!RunNext, G!RunNext

(* No name is linked to nothing. *)
LinksAreReal == \A u \in DOMAIN links : links[u] # Undeclared

LEMMA LinksStayReal == LinksAreReal /\ [Next]_vars => LinksAreReal'
<1> SUFFICES ASSUME LinksAreReal, [Next]_vars  PROVE LinksAreReal'
  OBVIOUS
<1>1. ASSUME NEW old, \A u \in DOMAIN old : old[u] # Undeclared, NEW n
      PROVE  \A u \in DOMAIN With(old, LinksOf(n)) : With(old, LinksOf(n))[u] # Undeclared
  <2>1. \A u \in DOMAIN LinksOf(n) : LinksOf(n)[u] # Undeclared
    <3>1. PICK d : d = FindName(n)
      OBVIOUS
    <3>2. d >= Global => d # Undeclared
      BY DEF Global, Undeclared
    <3> QED  BY <3>1, <3>2 DEF LinksOf
  <2>2. PICK new : new = LinksOf(n)
    OBVIOUS
  <2> QED  BY <1>1, <2>1, <2>2 DEF With
<1>2. \A u \in DOMAIN With(links, <<>>) : With(links, <<>>)[u] # Undeclared
  BY DEF With, LinksAreReal
<1>3. CASE links' = links
  BY <1>3 DEF LinksAreReal
<1>4. CASE \E n : links' = With(links, LinksOf(n))
  BY <1>1, <1>4 DEF LinksAreReal
<1>5. CASE DoVariableAssign
  <2>1. PICK s, t : s = body[pc].name /\ t = body[pc].reads
    OBVIOUS
  <2>2. PICK mid : mid = With(links, LinksOf(s))
    OBVIOUS
  <2>3. \A u \in DOMAIN mid : mid[u] # Undeclared
    BY <1>1, <2>2 DEF LinksAreReal
  <2>4. links' = With(mid, LinksOf(t)) \/ links' = With(mid, <<>>)
    BY <1>5, <2>1, <2>2 DEF DoVariableAssign
  <2>5. \A u \in DOMAIN With(mid, <<>>) : With(mid, <<>>)[u] # Undeclared
    BY <2>3 DEF With
  <2>6. \A u \in DOMAIN With(mid, LinksOf(t)) : With(mid, LinksOf(t))[u] # Undeclared
    BY <1>1, <2>3
  <2> QED  BY <2>4, <2>5, <2>6 DEF LinksAreReal
<1>6. CASE Next /\ ~DoVariableAssign
  <2>1. links' = links \/ \E n : links' = With(links, LinksOf(n))
    BY <1>6 DEF Next, DoArgument, DoVariableDeclaration, DoExpression, DoReturn, DoCompound, DoCondition, DoElse, DoEnd, EndFunction
  <2> QED  BY <1>3, <1>4, <2>1
<1> QED  BY <1>3, <1>5, <1>6 DEF vars

(* The generator has not begun, or the generated code of an accepted body  *)
(* runs.                                                                   *)
Running == G!RunInit \/ (Accepted /\ G!RunInv)

RunningInv == CompilerInv /\ LinksAreReal /\ Running

LEMMA RunBegins ==
  ASSUME CompilerInv, Running, Accepted
  PROVE  G!RunInv
<1>1. G!Balanced(body)
  BY SameFlow DEF CompilerInv, HandedOver, Accepted
<1>2. G!RunInit /\ G!Balanced(body) => G!RunInv
  BY GeneratorAssumptions, G!InitRuns
<1> QED  BY <1>1, <1>2 DEF Running

LEMMA DecorateKeepsRunning ==
  ASSUME RunningInv, Decorate
  PROVE  Running'
<1>1. G!RunInit /\ UNCHANGED llvmVars
  <2>1. phase = "decorating"
    BY DEF Decorate, Next, DoArgument, DoVariableDeclaration, DoVariableAssign, DoExpression, DoReturn, DoCompound,
           DoCondition, DoElse, DoEnd, EndFunction, At
  <2> QED  BY <2>1 DEF RunningInv, Running, Accepted, Decorate
<1>2. FlowInv'
  BY NextKeepsFlowInv DEF RunningInv, CompilerInv, Decorate
<1>3. body' \in Seq(StatementsOver(Names))
  BY <1>2 DEF FlowInv, Inv, Walk
<1>4. (G!RunInit)'
  BY <1>1, <1>3 DEF G!RunInit, G!Init, llvmVars, G!Frame, G!NoBlock
<1> QED  BY <1>4 DEF Running

LEMMA GenerateKeepsRunning ==
  ASSUME RunningInv, Generate
  PROVE  Running'
<1>1. Accepted /\ L!RunNext /\ Accepted'
  BY DEF Generate, Accepted
<1>2. G!RunNext
  BY <1>1, SameRunStep
<1>3. G!RunInv
  BY <1>1, RunBegins DEF RunningInv
<1>4. G!RunInv /\ [G!RunNext]_(G!allVars) => (G!RunInv)'
  BY GeneratorAssumptions, G!NextRuns
<1> QED  BY <1>1, <1>2, <1>3, <1>4 DEF Running

(* A local is used only after this call has executed the alloca of the     *)
(* declaration that the decorator linked the name to.                      *)
THEOREM AllocasHaveRun == CompilerSpec => []LinkedAllocasHaveRun
<1>1. CompilerInit => LinksAreReal /\ Running
  <2> SUFFICES ASSUME CompilerInit  PROVE LinksAreReal /\ Running
    OBVIOUS
  <2>1. LinksAreReal
    BY DEF CompilerInit, Init, LinksAreReal
  <2>2. G!RunInit
    BY DEF CompilerInit, L!RunInit, L!Init, G!RunInit, G!Init, L!Frame, G!Frame, L!NoBlock, G!NoBlock
  <2> QED  BY <2>1, <2>2 DEF Running
<1>2. CompilerInv /\ (LinksAreReal /\ Running) /\ [CompilerNext]_compilerVars => (LinksAreReal /\ Running)'
  <2> SUFFICES ASSUME RunningInv, [CompilerNext]_compilerVars  PROVE LinksAreReal' /\ Running'
    BY DEF RunningInv
  <2>1. [Next]_vars
    BY GenerateKeepsGenerating DEF CompilerNext, compilerVars, Decorate, RunningInv
  <2>2. LinksAreReal'
    BY <2>1, LinksStayReal DEF RunningInv
  <2>3. CASE UNCHANGED compilerVars
    <3>1. UNCHANGED vars /\ UNCHANGED G!allVars
      BY <2>3 DEF compilerVars, llvmVars, vars, G!allVars
    <3>2. UNCHANGED Accepted
      BY <3>1 DEF vars, Accepted
    <3>3. CASE G!RunInit
      <4>1. (G!RunInit)'
        BY <3>1, <3>3 DEF G!RunInit, G!Init, G!allVars, G!Frame, G!NoBlock
      <4> QED  BY <2>2, <4>1 DEF Running
    <3>4. CASE Accepted /\ G!RunInv
      <4>1. G!RunInv /\ [G!RunNext]_(G!allVars) => (G!RunInv)'
        BY GeneratorAssumptions, G!NextRuns
      <4> QED  BY <2>2, <3>1, <3>2, <3>4, <4>1 DEF Running
    <3> QED  BY <3>3, <3>4 DEF RunningInv, Running
  <2> QED  BY <2>2, <2>3, DecorateKeepsRunning, GenerateKeepsRunning DEF CompilerNext
<1>3. CompilerInv /\ (LinksAreReal /\ Running) => LinkedAllocasHaveRun
  <2> SUFFICES ASSUME CompilerInv, LinksAreReal, Running, outcome = "running", index \in DOMAIN blocks[block],
                      blocks[block][index].at # 0,
                      NEW u \in DOMAIN links, u[1] = blocks[block][index].at, links[u] # Global
               PROVE  links[u] \in live
    BY DEF LinkedAllocasHaveRun
  <2>1. Accepted /\ G!RunInv
    BY DEF Running, G!RunInit
  <2>2. G!VisibleHaveRun
    <3>1. G!RunInv => G!VisibleHaveRun
      BY GeneratorAssumptions, G!RunningHaveRun
    <3> QED  BY <2>1, <3>1
  <2>3. PICK p : p = blocks[block][index].at
    OBVIOUS
  <2>4. G!Visible(body, G!Declares, p) \subseteq live
    BY <2>2, <2>3 DEF G!VisibleHaveRun, G!Current
  <2>5. DOMAIN links \subseteq (1..(pc - 1)) \X Names /\ LinksAreLexical
    BY DEF CompilerInv, FlowInv, Inv, Linked
  <2>6. PICK n : links[u] = DeclOf(body, p, n, Globals)
    BY <2>3, <2>5 DEF LinksAreLexical
  <2>7. p \in 1..(pc - 1)
    <3>1. u \in (1..(pc - 1)) \X Names
      BY <2>5
    <3> QED  BY <2>3, <3>1
  <2>8. DeclOf(body, p, n, Globals) \in InScope(body, p, n)
    <3>1. p \in Nat \ {0}
      BY <2>7
    <3>2. links[u] # Undeclared
      BY DEF LinksAreReal
    <3> QED  BY <2>6, <3>1, <3>2, DeclOfIsVisible
  <2>9. InScope(body, p, n) \subseteq G!Visible(body, G!Declares, p)
    BY SameText DEF InScope, DeclaresName, G!Visible, G!Declares
  <2> QED  BY <2>4, <2>6, <2>8, <2>9
<1>4. CompilerSpec => []CompilerInv
  BY CompilerInvariant
<1> QED  BY <1>1, <1>2, <1>3, <1>4, PTL DEF CompilerSpec
=============================================================================
