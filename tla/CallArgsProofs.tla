--------------------------- MODULE CallArgsProofs --------------------------
(***************************************************************************)
(* What CallArgs promises of binding the arguments of a call, for all      *)
(* functions and all calls: proved from one inductive invariant, which     *)
(* says for each of the passes what the parameters have got so far.        *)
(***************************************************************************)
EXTENDS CallArgs, TLAPS

Listed(f, c) ==
  /\ \E n \in Nat : DOMAIN f.params = 1..n
  /\ \E n \in Nat : DOMAIN c.positional = 1..n
  /\ \E n \in Nat : DOMAIN c.named = 1..n

(* Parameters and arguments are lists. *)
ListsAreLists == \A f \in Functions, c \in CallsMade : Listed(f, c)

(* What parameter j should have when the named arguments before k are bound. *)
Taken(j, k) ==
  {<<"positional", p>> : p \in DOMAIN call.positional \cap {j}}
    \cup {<<"named", n>> : n \in {m \in DOMAIN call.named : m < k /\ MeantBy(func, call, m, j)}}

(* slots[j] holds exactly the sources in s, and is empty else. *)
Holds(j, s, empty) == s = IF slots[j] = empty THEN {} ELSE {slots[j]}

Shapes ==
  /\ Listed(func, call)
  /\ index \in Nat \ {0}
  /\ ok \in BOOLEAN
  /\ slots = [j \in Params |-> slots[j]]

PositionalInv ==
  phase = "positional" =>
    /\ 1..(index - 1) \subseteq DOMAIN call.positional
    /\ \A j \in Params : slots[j] = IF j < index THEN <<"positional", j>> ELSE Unset

NamedInv ==
  phase = "named" /\ ok => \A j \in Params : Holds(j, Taken(j, index), Unset)

DefaultsInv ==
  phase = "defaults" /\ ok => \A j \in Params : Holds(j, ArgumentsFor(func, call, j), Unset)

BoundInv ==
  /\ phase = "accepted" => ok
  /\ phase \in {"bound", "accepted"} /\ ok =>
       \A j \in Params : Holds(j, ArgumentsFor(func, call, j), Default)

BindingInv == Shapes /\ PositionalInv /\ NamedInv /\ DefaultsInv /\ BoundInv

----------------------------------------------------------------------------
(* At most one parameter is meant by a name: the first one that has it.    *)
LEMMA OneIsMeant ==
  ASSUME NEW f, NEW c, NEW k, NEW i \in Nat \ {0}, NEW j \in Nat \ {0},
         MeantBy(f, c, k, i), MeantBy(f, c, k, j)
  PROVE  i = j
<1>1. CASE i < j
  <2>1. i \in 1..(j - 1)
    BY <1>1
  <2>. QED  BY <2>1 DEF MeantBy
<1>2. CASE j < i
  <2>1. j \in 1..(i - 1)
    BY <1>2
  <2>. QED  BY <2>1 DEF MeantBy
<1>. QED  BY <1>1, <1>2

LEMMA InitEstablishes == ListsAreLists /\ Init => BindingInv
<1>. SUFFICES ASSUME ListsAreLists, Init PROVE BindingInv
  OBVIOUS
<1>. USE DEF Init
<1>1. Listed(func, call)
  BY DEF ListsAreLists
<1>2. Shapes
  BY <1>1 DEF Shapes
<1>3. PositionalInv
  <2>1. \A j \in Params : j \in Nat \ {0}
    BY <1>1 DEF Listed, Params
  <2>. QED  BY <2>1 DEF PositionalInv
<1>. QED  BY <1>2, <1>3 DEF BindingInv, NamedInv, DefaultsInv, BoundInv

(* While arguments without name are bound, their places are their targets. *)
LEMMA BindPositionalKeeps == BindingInv /\ BindPositional => BindingInv'
<1>. SUFFICES ASSUME BindingInv, BindPositional PROVE BindingInv'
  OBVIOUS
<1>. USE DEF BindPositional, Bind
<1>1. index \in DOMAIN call.positional /\ index \in Params /\ phase = "positional"
  OBVIOUS
<1>2. index \in Nat \ {0} /\ ok \in BOOLEAN
  BY DEF BindingInv, Shapes
<1>3. Shapes'
  BY <1>1, <1>2 DEF BindingInv, Shapes, Params, Matches
<1>4. PositionalInv'
  <2>1. 1..(index' - 1) \subseteq DOMAIN call.positional
    BY <1>1, <1>2 DEF BindingInv, PositionalInv
  <2>2. ASSUME NEW j \in Params
        PROVE  slots'[j] = IF j < index' THEN <<"positional", j>> ELSE Unset
    <3>1. j \in Nat \ {0}
      BY DEF BindingInv, Shapes, Listed, Params
    <3>2. j < index' <=> j < index \/ j = index
      BY <1>2, <3>1
    <3>3. slots'[j] = IF j = index THEN <<"positional", index>> ELSE slots[j]
      BY <1>1 DEF BindingInv, Shapes
    <3>4. slots[j] = IF j < index THEN <<"positional", j>> ELSE Unset
      BY <1>1 DEF BindingInv, PositionalInv
    <3>. QED  BY <3>2, <3>3, <3>4
  <2>. QED  BY <2>1, <2>2 DEF PositionalInv, Params, Unset
<1>. QED  BY <1>1, <1>3, <1>4 DEF BindingInv, NamedInv, DefaultsInv, BoundInv

LEMMA EndPositionalKeeps == BindingInv /\ EndPositional => BindingInv'
<1>. SUFFICES ASSUME BindingInv, EndPositional PROVE BindingInv'
  OBVIOUS
<1>. USE DEF EndPositional
<1>1. Shapes'
  BY DEF BindingInv, Shapes, Params
<1>2. NamedInv'
  <2>. SUFFICES ASSUME ok', NEW j \in Params
                PROVE  Taken(j, 1) = IF slots[j] = Unset THEN {} ELSE {slots[j]}
    BY DEF NamedInv, Holds, Taken, Params, Unset
  <2>1. ok /\ index \notin DOMAIN call.positional
    OBVIOUS
  <2>2. PICK n \in Nat : DOMAIN call.positional = 1..n
    BY DEF BindingInv, Shapes, Listed
  <2>3. j \in Nat \ {0}
    BY DEF BindingInv, Shapes, Listed, Params
  <2>4. index \in Nat \ {0} /\ index > n
    BY <2>1, <2>2 DEF BindingInv, Shapes
  <2>5. j < index <=> j \in 1..n
    BY <2>2, <2>3, <2>4 DEF BindingInv, PositionalInv
  <2>6. slots[j] = IF j \in 1..n THEN <<"positional", j>> ELSE <<"unset", 0>>
    BY <2>5 DEF BindingInv, PositionalInv, Unset
  <2>7. {m \in DOMAIN call.named : m < 1 /\ MeantBy(func, call, m, j)} = {}
    BY DEF BindingInv, Shapes, Listed
  <2>8. Taken(j, 1) = {<<"positional", p>> : p \in (1..n) \cap {j}}
    BY <2>2, <2>7 DEF Taken
  <2>. QED  BY <2>6, <2>8 DEF Unset
<1>. QED  BY <1>1, <1>2 DEF BindingInv, PositionalInv, DefaultsInv, BoundInv

(* An argument with a name goes to the one parameter that is meant.        *)
LEMMA BindNamedKeeps == BindingInv /\ BindNamed => BindingInv'
<1>. SUFFICES ASSUME BindingInv, BindNamed PROVE BindingInv'
  OBVIOUS
<1>. USE DEF BindNamed, Bind
<1>1. phase = "named" /\ index \in DOMAIN call.named /\ index \in Nat \ {0} /\ ok \in BOOLEAN
  BY DEF BindingInv, Shapes
<1>2. PICK i \in Params : /\ MeantBy(func, call, index, i) /\ slots[i] = Unset
                          /\ slots' = [slots EXCEPT ![i] = <<"named", index>>]
                          /\ ok' = (ok /\ Matches(call.named[index].type, i))
                          /\ index' = index + 1 /\ UNCHANGED <<func, call, phase>>
  BY DEF Meant
<1>3. Shapes'
  <2>1. Matches(call.named[index].type, i) \in BOOLEAN
    BY DEF Matches
  <2>. QED  BY <1>1, <1>2, <2>1 DEF BindingInv, Shapes, Params
<1>4. NamedInv'
  <2>. SUFFICES ASSUME ok', NEW j \in Params
                PROVE  Taken(j, index + 1) = IF slots'[j] = Unset THEN {} ELSE {slots'[j]}
    BY <1>2 DEF NamedInv, Holds, Taken, Params, Unset
  <2>1. ok
    BY <1>1, <1>2
  <2>2. Taken(j, index) = IF slots[j] = Unset THEN {} ELSE {slots[j]}
    BY <1>1, <2>1 DEF BindingInv, NamedInv, Holds
  <2>3. i \in Nat \ {0} /\ j \in Nat \ {0} /\ \A m \in DOMAIN call.named : m \in Nat
    BY DEF BindingInv, Shapes, Listed, Params
  <2>4. MeantBy(func, call, index, j) <=> j = i
    BY <1>2, <2>3, OneIsMeant
  <2>5. \A m \in DOMAIN call.named : m < index + 1 <=> m < index \/ m = index
    BY <1>1, <2>3
  <2>6. Taken(j, index + 1) = Taken(j, index) \cup (IF j = i THEN {<<"named", index>>} ELSE {})
    BY <1>1, <2>4, <2>5 DEF Taken
  <2>7. slots'[j] = IF j = i THEN <<"named", index>> ELSE slots[j]
    BY <1>2 DEF BindingInv, Shapes
  <2>. QED  BY <1>2, <2>2, <2>6, <2>7 DEF Unset
<1>. QED  BY <1>1, <1>2, <1>3, <1>4 DEF BindingInv, PositionalInv, DefaultsInv, BoundInv

LEMMA RefuseNamedKeeps == BindingInv /\ RefuseNamed => BindingInv'
<1>. SUFFICES ASSUME BindingInv, RefuseNamed PROVE BindingInv'
  OBVIOUS
<1>1. Shapes'
  <2>1. index' \in Nat \ {0}
    BY DEF BindingInv, Shapes, RefuseNamed
  <2>2. UNCHANGED <<func, call, slots>>
    BY DEF RefuseNamed
  <2>3. Shapes
    BY DEF BindingInv
  <2>4. ok' \in BOOLEAN
    BY DEF RefuseNamed
  <2>5. Listed(func, call)'
    BY <2>2, <2>3 DEF Shapes, Listed
  <2>6. (slots = [j \in Params |-> slots[j]])'
    BY <2>2, <2>3 DEF Shapes, Params
  <2>. QED  BY <2>1, <2>4, <2>5, <2>6 DEF Shapes
<1>2. phase' = "named" /\ ~ok'
  BY DEF RefuseNamed
<1>. QED  BY <1>1, <1>2 DEF BindingInv, PositionalInv, NamedInv, DefaultsInv, BoundInv

LEMMA EndNamedKeeps == BindingInv /\ EndNamed => BindingInv'
<1>. SUFFICES ASSUME BindingInv, EndNamed PROVE BindingInv'
  OBVIOUS
<1>. USE DEF EndNamed
<1>1. Shapes'
  BY DEF BindingInv, Shapes, Params
<1>2. DefaultsInv'
  <2>. SUFFICES ASSUME ok, NEW j \in Params
                PROVE  ArgumentsFor(func, call, j) = IF slots[j] = Unset THEN {} ELSE {slots[j]}
    BY DEF DefaultsInv, Holds, Params, Unset
  <2>1. \A m \in DOMAIN call.named : m < index
    BY DEF BindingInv, Shapes, Listed
  <2>2. ArgumentsFor(func, call, j) = Taken(j, index)
    BY <2>1 DEF ArgumentsFor, Taken
  <2>. QED  BY <2>2 DEF BindingInv, NamedInv, Holds
<1>. QED  BY <1>1, <1>2 DEF BindingInv, PositionalInv, NamedInv, BoundInv

LEMMA FillDefaultsKeeps == BindingInv /\ FillDefaults => BindingInv'
<1>. SUFFICES ASSUME BindingInv, FillDefaults PROVE BindingInv'
  OBVIOUS
<1>. USE DEF FillDefaults
<1>1. Shapes'
  BY DEF BindingInv, Shapes, Params
<1>2. BoundInv'
  <2>. SUFFICES ASSUME ok', NEW j \in Params
                PROVE  ArgumentsFor(func, call, j) = IF slots'[j] = Default THEN {} ELSE {slots'[j]}
    BY DEF BoundInv, Holds, Params, Default
  <2>1. ok /\ slots'[j] # Unset
    OBVIOUS
  <2>2. ArgumentsFor(func, call, j) = IF slots[j] = Unset THEN {} ELSE {slots[j]}
    BY <2>1 DEF BindingInv, DefaultsInv, Holds
  <2>3. slots'[j] = IF slots[j] = Unset THEN Default ELSE slots[j]
    BY <2>1
  <2>4. Default \notin ArgumentsFor(func, call, j)
    BY DEF ArgumentsFor, Default
  <2>. QED  BY <2>2, <2>3, <2>4
<1>. QED  BY <1>1, <1>2 DEF BindingInv, PositionalInv, NamedInv, DefaultsInv

LEMMA ReturnKeeps == BindingInv /\ Return => BindingInv'
<1>. SUFFICES ASSUME BindingInv, Return PROVE BindingInv'
  OBVIOUS
<1>1. Shapes'
  BY DEF BindingInv, Shapes, Return, Params
<1>2. BoundInv'
  BY DEF BindingInv, BoundInv, Return, Holds, Params, Default
<1>. QED  BY <1>1, <1>2 DEF BindingInv, Return, PositionalInv, NamedInv, DefaultsInv

LEMMA CrashKeeps == BindingInv /\ CrashInMessage => BindingInv'
<1>. SUFFICES ASSUME BindingInv, CrashInMessage PROVE BindingInv'
  OBVIOUS
<1>1. phase' = "crashed" /\ UNCHANGED <<func, call, index, slots, ok>>
  BY DEF CrashInMessage
<1>2. Shapes'
  BY <1>1 DEF BindingInv, Shapes, Params
<1>. QED  BY <1>1, <1>2 DEF BindingInv, PositionalInv, NamedInv, DefaultsInv, BoundInv

LEMMA StutterKeeps == BindingInv /\ UNCHANGED vars => BindingInv'
<1>. SUFFICES ASSUME BindingInv, UNCHANGED vars PROVE BindingInv'
  OBVIOUS
<1>. USE DEF vars
<1>1. Shapes' /\ PositionalInv'
  BY DEF BindingInv, Shapes, PositionalInv, Params, Unset
<1>2. NamedInv'
  BY DEF BindingInv, NamedInv, Holds, Taken, Params, Unset
<1>3. DefaultsInv' /\ BoundInv'
  BY DEF BindingInv, DefaultsInv, BoundInv, Holds, Params, Unset, Default
<1>. QED  BY <1>1, <1>2, <1>3 DEF BindingInv

(* For every function and every call: in a call that is accepted each      *)
(* parameter has the one argument meant for it, or its default if there is *)
(* none; no argument is lost and none taken for another parameter.         *)
THEOREM ArgumentsArrive == ListsAreLists /\ Spec => []ArgumentsReachTheirParameters
<1>1. ListsAreLists /\ Init => BindingInv
  BY InitEstablishes
<1>2. BindingInv /\ [Next]_vars => BindingInv'
  BY BindPositionalKeeps, EndPositionalKeeps, BindNamedKeeps, RefuseNamedKeeps, EndNamedKeeps,
     FillDefaultsKeeps, ReturnKeeps, CrashKeeps, StutterKeeps DEF Next
<1>3. BindingInv => ArgumentsReachTheirParameters
  BY DEF BindingInv, BoundInv, Holds, ArgumentsReachTheirParameters
<1>. QED  BY <1>1, <1>2, <1>3, PTL DEF Spec

----------------------------------------------------------------------------
(* No parameter has the type of a refused expression, and an argument has  *)
(* a type or is refused.                                                   *)
TypesAreApart ==
  /\ \A f \in Functions : \A j \in DOMAIN f.params : f.params[j].type # Bad
  /\ \A c \in CallsMade : /\ \A k \in DOMAIN c.positional : c.positional[k] # NoType
                          /\ \A k \in DOMAIN c.named : c.named[k].type # NoType

Apart ==
  /\ \A j \in Params : func.params[j].type # Bad
  /\ \A k \in DOMAIN call.positional : call.positional[k] # NoType
  /\ \A k \in DOMAIN call.named : call.named[k].type # NoType

(* A call that fits is never refused on the way. *)
FitsInv == FitsCall(func, call) => ok /\ phase \notin {"refused", "crashed"}

(* As long as nothing was refused, what is bound has the parameter's type, *)
(* and every argument walked over has its parameter.                       *)
TypesInv ==
  ok => \A j \in Params :
          slots[j] \notin {Unset, Default} => TypeOf(call, slots[j]) = func.params[j].type

PlacesInv ==
  /\ phase = "positional" => 1..(index - 1) \subseteq Params
  /\ phase \notin {"positional", "crashed"} /\ ok => DOMAIN call.positional \subseteq Params
  /\ phase = "named" /\ ok =>
       \A k \in DOMAIN call.named : k < index => \E j \in Params : MeantBy(func, call, k, j)
  /\ phase \in {"defaults", "bound", "accepted"} /\ ok =>
       \A k \in DOMAIN call.named : \E j \in Params : MeantBy(func, call, k, j)

FilledInv ==
  /\ phase \in {"bound", "accepted"} /\ ok =>
       \A j \in Params : slots[j] # Unset /\ (slots[j] = Default => func.params[j].default)
  /\ phase = "accepted" => func.result # NoType

JudgedInv == BindingInv /\ Apart /\ FitsInv /\ TypesInv /\ PlacesInv /\ FilledInv

(* A binding that a call that fits asks for has the right type.            *)
LEMMA FittingMatches ==
  ASSUME Apart, FitsCall(func, call), NEW j \in Params
  PROVE  /\ j \in DOMAIN call.positional =>
              Matches(call.positional[j], j) /\ ~CanCrash(call.positional[j], j, FALSE)
         /\ \A k \in DOMAIN call.named : MeantBy(func, call, k, j) =>
              Matches(call.named[k].type, j) /\ ~CanCrash(call.named[k].type, j, TRUE)
<1>1. ASSUME NEW s \in ArgumentsFor(func, call, j) PROVE TypeOf(call, s) = func.params[j].type
  BY DEF FitsCall, Params
<1>2. ASSUME j \in DOMAIN call.positional
      PROVE  Matches(call.positional[j], j) /\ ~CanCrash(call.positional[j], j, FALSE)
  <2>1. <<"positional", j>> \in ArgumentsFor(func, call, j)
    BY <1>2 DEF ArgumentsFor
  <2>2. TypeOf(call, <<"positional", j>>) = call.positional[j]
    BY DEF TypeOf
  <2>3. Matches(call.positional[j], j)
    BY <1>1, <2>1, <2>2 DEF Matches, Apart
  <2>. QED  BY <2>3 DEF Matches, CanCrash
<1>3. ASSUME NEW k \in DOMAIN call.named, MeantBy(func, call, k, j)
      PROVE  Matches(call.named[k].type, j) /\ ~CanCrash(call.named[k].type, j, TRUE)
  <2>1. <<"named", k>> \in ArgumentsFor(func, call, j)
    BY <1>3 DEF ArgumentsFor
  <2>2. TypeOf(call, <<"named", k>>) = call.named[k].type
    BY DEF TypeOf
  <2>3. Matches(call.named[k].type, j)
    BY <1>1, <2>1, <2>2 DEF Matches, Apart
  <2>. QED  BY <2>3 DEF Matches, CanCrash
<1>. QED  BY <1>2, <1>3

(* What the passes leave alone. *)
Same == UNCHANGED <<func, call>>

LEMMA SameFacts ==
  ASSUME Same
  PROVE  /\ Params' = Params
         /\ Apart => Apart'
         /\ FitsCall(func, call)' = FitsCall(func, call)
  BY DEF Same, Params, Apart

LEMMA InitJudges == ListsAreLists /\ TypesAreApart /\ Init => JudgedInv
<1>. SUFFICES ASSUME ListsAreLists, TypesAreApart, Init PROVE JudgedInv
  OBVIOUS
<1>1. BindingInv
  BY InitEstablishes
<1>2. Apart
  BY DEF TypesAreApart, Apart, Init, Params
<1>3. FitsInv /\ PlacesInv /\ FilledInv
  BY DEF Init, FitsInv, PlacesInv, FilledInv
<1>4. TypesInv
  BY DEF Init, TypesInv
<1>. QED  BY <1>1, <1>2, <1>3, <1>4 DEF JudgedInv

(* A binding keeps types in order: what was bound, and what is bound now.  *)
LEMMA BindTypes ==
  ASSUME JudgedInv, NEW j \in Params, NEW source, NEW given, Bind(j, source, given),
         TypeOf(call, source) = given
  PROVE  TypesInv'
<1>1. /\ ok' = (ok /\ Matches(given, j)) /\ slots' = [slots EXCEPT ![j] = source] /\ Same
  BY DEF Bind, Same
<1>. SUFFICES ASSUME ok', NEW i \in Params, slots'[i] \notin {Unset, Default}
              PROVE  TypeOf(call, slots'[i]) = func.params[i].type
  BY <1>1 DEF TypesInv, Same, Params, Unset, Default
<1>2. ok /\ Matches(given, j)
  BY <1>1
<1>3. slots'[i] = IF i = j THEN source ELSE slots[i]
  BY <1>1 DEF JudgedInv, BindingInv, Shapes
<1>. QED  BY <1>2, <1>3 DEF JudgedInv, TypesInv, Matches

LEMMA BindPositionalJudges == JudgedInv /\ BindPositional => JudgedInv'
<1>. SUFFICES ASSUME JudgedInv, BindPositional PROVE JudgedInv'
  OBVIOUS
<1>1. /\ phase = "positional" /\ index \in DOMAIN call.positional /\ index \in Params
      /\ Bind(index, <<"positional", index>>, call.positional[index])
  BY DEF BindPositional
<1>2. /\ ok' = (ok /\ Matches(call.positional[index], index)) /\ phase' = phase /\ Same
  BY <1>1 DEF Bind, Same
<1>3. BindingInv' /\ Apart'
  BY <1>2, BindPositionalKeeps, SameFacts DEF JudgedInv
<1>4. FitsInv'
  BY <1>1, <1>2, FittingMatches, SameFacts DEF JudgedInv, FitsInv
<1>5. TypesInv'
  <2>1. TypeOf(call, <<"positional", index>>) = call.positional[index]
    BY DEF TypeOf
  <2>. QED  BY <1>1, <2>1, BindTypes
<1>6. PlacesInv'
  <2>1. index \in Nat /\ index' = index + 1
    BY <1>1 DEF JudgedInv, BindingInv, Shapes, Bind
  <2>2. 1..index \subseteq Params
    BY <1>1, <2>1 DEF JudgedInv, PlacesInv
  <2>. QED  BY <1>1, <1>2, <2>1, <2>2, SameFacts DEF PlacesInv
<1>7. FilledInv'
  BY <1>1, <1>2 DEF FilledInv
<1>. QED  BY <1>3, <1>4, <1>5, <1>6, <1>7 DEF JudgedInv

LEMMA EndPositionalJudges == JudgedInv /\ EndPositional => JudgedInv'
<1>. SUFFICES ASSUME JudgedInv, EndPositional PROVE JudgedInv'
  OBVIOUS
<1>1. /\ phase = "positional" /\ phase' = "named" /\ index' = 1
      /\ index \notin DOMAIN call.positional \cap Params
      /\ ok' = (ok /\ index \notin DOMAIN call.positional)
      /\ slots' = slots /\ Same
  BY DEF EndPositional, Same
<1>2. BindingInv' /\ Apart'
  BY <1>1, EndPositionalKeeps, SameFacts DEF JudgedInv
<1>3. FitsInv'
  <2>1. FitsCall(func, call) => DOMAIN call.positional \subseteq Params
    BY DEF FitsCall, Params
  <2>. QED  BY <1>1, <2>1, SameFacts DEF JudgedInv, FitsInv
<1>4. TypesInv'
  BY <1>1 DEF JudgedInv, TypesInv, Same, Params, Unset, Default
<1>5. PlacesInv'
  <2>1. ASSUME ok' PROVE DOMAIN call.positional \subseteq Params
    <3>1. index \notin DOMAIN call.positional
      BY <1>1, <2>1
    <3>2. PICK n \in Nat : DOMAIN call.positional = 1..n
      BY DEF JudgedInv, BindingInv, Shapes, Listed
    <3>3. index \in Nat \ {0} /\ 1..(index - 1) \subseteq DOMAIN call.positional
      BY <1>1 DEF JudgedInv, BindingInv, Shapes, PositionalInv
    <3>4. n < index
      BY <3>1, <3>2, <3>3
    <3>5. 1..n \subseteq 1..(index - 1)
      BY <3>3, <3>4
    <3>. QED  BY <3>2, <3>5, <1>1 DEF JudgedInv, PlacesInv
  <2>2. \A k \in DOMAIN call.named : ~(k < 1)
    BY DEF JudgedInv, BindingInv, Shapes, Listed
  <2>. QED  BY <1>1, <2>1, <2>2 DEF PlacesInv, Same, Params
<1>6. FilledInv'
  BY <1>1 DEF FilledInv
<1>. QED  BY <1>2, <1>3, <1>4, <1>5, <1>6 DEF JudgedInv

LEMMA BindNamedJudges == JudgedInv /\ BindNamed => JudgedInv'
<1>. SUFFICES ASSUME JudgedInv, BindNamed PROVE JudgedInv'
  OBVIOUS
<1>1. PICK j \in Params :
        /\ phase = "named" /\ index \in DOMAIN call.named /\ MeantBy(func, call, index, j)
        /\ Bind(j, <<"named", index>>, call.named[index].type)
  BY DEF BindNamed, Meant
<1>2. /\ ok' = (ok /\ Matches(call.named[index].type, j)) /\ phase' = phase /\ Same
      /\ index' = index + 1
  BY <1>1 DEF Bind, Same
<1>3. BindingInv' /\ Apart'
  BY <1>2, BindNamedKeeps, SameFacts DEF JudgedInv
<1>4. FitsInv'
  BY <1>1, <1>2, FittingMatches, SameFacts DEF JudgedInv, FitsInv
<1>5. TypesInv'
  <2>1. TypeOf(call, <<"named", index>>) = call.named[index].type
    BY DEF TypeOf
  <2>. QED  BY <1>1, <2>1, BindTypes
<1>6. PlacesInv'
  <2>1. index \in Nat /\ \A k \in DOMAIN call.named : k \in Nat
    BY DEF JudgedInv, BindingInv, Shapes, Listed
  <2>2. \A k \in DOMAIN call.named : k < index + 1 => k < index \/ k = index
    BY <2>1
  <2>3. ok' => ok
    BY <1>2
  <2>4. ok => DOMAIN call.positional \subseteq Params
    BY <1>1 DEF JudgedInv, PlacesInv
  <2>5. ok => \A k \in DOMAIN call.named : k < index + 1 => \E i \in Params : MeantBy(func, call, k, i)
    BY <1>1, <2>2 DEF JudgedInv, PlacesInv
  <2>. QED  BY <1>1, <1>2, <2>3, <2>4, <2>5 DEF PlacesInv, Same, Params
<1>7. FilledInv'
  BY <1>1, <1>2 DEF FilledInv
<1>. QED  BY <1>3, <1>4, <1>5, <1>6, <1>7 DEF JudgedInv

(* In a call that fits, the parameter meant by a name has nothing yet.     *)
LEMMA RefuseNamedJudges == JudgedInv /\ RefuseNamed => JudgedInv'
<1>. SUFFICES ASSUME JudgedInv, RefuseNamed PROVE JudgedInv'
  OBVIOUS
<1>1. /\ phase = "named" /\ phase' = "named" /\ index \in DOMAIN call.named
      /\ \A j \in Params : MeantBy(func, call, index, j) => slots[j] # Unset
      /\ ~ok' /\ slots' = slots /\ Same
  BY DEF RefuseNamed, Same, Meant
<1>2. BindingInv' /\ Apart'
  BY <1>1, RefuseNamedKeeps, SameFacts DEF JudgedInv
<1>3. ~FitsCall(func, call)
  <2>. SUFFICES ASSUME FitsCall(func, call) PROVE FALSE
    OBVIOUS
  <2>1. ok
    BY DEF JudgedInv, FitsInv
  <2>2. PICK j \in Params : MeantBy(func, call, index, j)
    BY <1>1 DEF FitsCall, Params
  <2>3. Taken(j, index) = {slots[j]}
    BY <1>1, <2>1, <2>2 DEF JudgedInv, BindingInv, NamedInv, Holds
  <2>4. Taken(j, index) \subseteq ArgumentsFor(func, call, j)
    BY DEF Taken, ArgumentsFor
  <2>5. <<"named", index>> \in ArgumentsFor(func, call, j)
    BY <1>1, <2>2 DEF ArgumentsFor
  <2>6. \A s \in ArgumentsFor(func, call, j) : ArgumentsFor(func, call, j) = {s}
    BY <2>2 DEF FitsCall, Params
  <2>7. <<"named", index>> \in Taken(j, index)
    BY <2>3, <2>4, <2>5, <2>6
  <2>8. PICK m \in DOMAIN call.named : m < index /\ <<"named", index>> = <<"named", m>>
    BY <2>7 DEF Taken
  <2>9. index \in Nat
    BY DEF JudgedInv, BindingInv, Shapes
  <2>. QED  BY <2>8, <2>9
<1>4. FitsInv'
  BY <1>1, <1>3, SameFacts DEF FitsInv
<1>. QED  BY <1>1, <1>2, <1>4 DEF JudgedInv, TypesInv, PlacesInv, FilledInv

LEMMA EndNamedJudges == JudgedInv /\ EndNamed => JudgedInv'
<1>. SUFFICES ASSUME JudgedInv, EndNamed PROVE JudgedInv'
  OBVIOUS
<1>1. /\ phase = "named" /\ phase' = "defaults" /\ index \notin DOMAIN call.named
      /\ slots' = slots /\ ok' = ok /\ Same
  BY DEF EndNamed, Same
<1>2. BindingInv' /\ Apart'
  BY <1>1, EndNamedKeeps, SameFacts DEF JudgedInv
<1>3. FitsInv'
  BY <1>1, SameFacts DEF JudgedInv, FitsInv
<1>4. TypesInv'
  BY <1>1 DEF JudgedInv, TypesInv, Same, Params, Unset, Default
<1>5. \A k \in DOMAIN call.named : k < index
  <2>1. index \in Nat \ {0}
    BY DEF JudgedInv, BindingInv, Shapes
  <2>2. PICK n \in Nat : DOMAIN call.named = 1..n
    BY DEF JudgedInv, BindingInv, Shapes, Listed
  <2>. QED  BY <1>1, <2>1, <2>2
<1>6. PlacesInv'
  BY <1>1, <1>5 DEF JudgedInv, PlacesInv, Same, Params
<1>7. FilledInv'
  BY <1>1 DEF FilledInv
<1>. QED  BY <1>2, <1>3, <1>4, <1>6, <1>7 DEF JudgedInv

LEMMA FillDefaultsJudges == JudgedInv /\ FillDefaults => JudgedInv'
<1>. SUFFICES ASSUME JudgedInv, FillDefaults PROVE JudgedInv'
  OBVIOUS
<1>1. /\ phase = "defaults" /\ phase' = "bound" /\ Same
      /\ slots' = [j \in Params |-> IF slots[j] = Unset /\ func.params[j].default
                                    THEN Default ELSE slots[j]]
      /\ ok' = (ok /\ \A j \in Params : slots'[j] # Unset)
  BY DEF FillDefaults, Same
<1>2. BindingInv' /\ Apart'
  BY <1>1, FillDefaultsKeeps, SameFacts DEF JudgedInv
<1>3. ASSUME NEW j \in Params
      PROVE  \/ slots'[j] = slots[j] /\ slots'[j] # Default
             \/ slots'[j] = Default /\ func.params[j].default
             \/ ~ok'
  <2>1. ok => slots[j] # Default
    <3>1. Default \notin ArgumentsFor(func, call, j) /\ Default # Unset
      BY DEF ArgumentsFor, Default, Unset
    <3>. QED  BY <1>1, <3>1 DEF JudgedInv, BindingInv, DefaultsInv, Holds
  <2>. QED  BY <1>1, <2>1
<1>4. FitsInv'
  <2>. SUFFICES ASSUME FitsCall(func, call) PROVE ok'
    BY <1>1, SameFacts DEF FitsInv
  <2>1. ok
    BY DEF JudgedInv, FitsInv
  <2>2. ASSUME NEW j \in Params PROVE slots'[j] # Unset
    <3>1. slots[j] = Unset => ArgumentsFor(func, call, j) = {}
      BY <1>1, <2>1 DEF JudgedInv, BindingInv, DefaultsInv, Holds
    <3>2. slots[j] = Unset => func.params[j].default
      BY <3>1 DEF FitsCall, Params
    <3>3. Default # Unset
      BY DEF Default, Unset
    <3>. QED  BY <1>1, <3>2, <3>3
  <2>. QED  BY <1>1, <2>1, <2>2
<1>5. TypesInv'
  <2>. SUFFICES ASSUME ok', NEW j \in Params, slots'[j] \notin {Unset, Default}
                PROVE  TypeOf(call, slots'[j]) = func.params[j].type
    BY <1>1 DEF TypesInv, Same, Params, Unset, Default
  <2>1. slots'[j] = slots[j] /\ ok
    BY <1>1, <1>3
  <2>. QED  BY <2>1 DEF JudgedInv, TypesInv
<1>6. PlacesInv'
  <2>1. ok' => ok
    BY <1>1
  <2>2. ok => DOMAIN call.positional \subseteq Params
    BY <1>1 DEF JudgedInv, PlacesInv
  <2>3. ok => \A k \in DOMAIN call.named : \E j \in Params : MeantBy(func, call, k, j)
    BY <1>1 DEF JudgedInv, PlacesInv
  <2>. QED  BY <1>1, <2>1, <2>2, <2>3 DEF PlacesInv, Same, Params
<1>7. FilledInv'
  <2>1. ASSUME ok', NEW j \in Params
        PROVE  slots'[j] # Unset /\ (slots'[j] = Default => func.params[j].default)
    BY <1>1, <1>3, <2>1
  <2>. QED  BY <1>1, <2>1 DEF FilledInv, Same, Params, Unset, Default
<1>. QED  BY <1>2, <1>4, <1>5, <1>6, <1>7 DEF JudgedInv

LEMMA ReturnJudges == JudgedInv /\ Return => JudgedInv'
<1>. SUFFICES ASSUME JudgedInv, Return PROVE JudgedInv'
  OBVIOUS
<1>1. /\ phase = "bound"
      /\ phase' = IF ok /\ func.result # NoType THEN "accepted" ELSE "refused"
      /\ ok' = ok /\ slots' = slots /\ Same
  BY DEF Return, Same
<1>2. BindingInv' /\ Apart'
  BY <1>1, ReturnKeeps, SameFacts DEF JudgedInv
<1>3. FitsInv'
  <2>1. FitsCall(func, call) => func.result # NoType
    BY DEF FitsCall
  <2>. QED  BY <1>1, <2>1, SameFacts DEF JudgedInv, FitsInv
<1>4. TypesInv'
  BY <1>1 DEF JudgedInv, TypesInv, Same, Params, Unset, Default
<1>5. PlacesInv'
  BY <1>1 DEF JudgedInv, PlacesInv, Same, Params
<1>6. FilledInv'
  BY <1>1 DEF JudgedInv, FilledInv, Same, Params, Unset, Default
<1>. QED  BY <1>2, <1>3, <1>4, <1>5, <1>6 DEF JudgedInv

(* No message about a call that fits is written, so none can crash.        *)
LEMMA CrashJudges == JudgedInv /\ CrashInMessage => JudgedInv'
<1>. SUFFICES ASSUME JudgedInv, CrashInMessage PROVE JudgedInv'
  OBVIOUS
<1>1. phase' = "crashed" /\ slots' = slots /\ ok' = ok /\ Same
  BY DEF CrashInMessage, Same
<1>2. BindingInv' /\ Apart'
  BY <1>1, CrashKeeps, SameFacts DEF JudgedInv
<1>3. ~FitsCall(func, call)
  <2>1. CASE /\ phase = "positional" /\ index \in DOMAIN call.positional \cap Params
             /\ CanCrash(call.positional[index], index, FALSE)
    BY <2>1, FittingMatches DEF JudgedInv
  <2>2. CASE /\ phase = "named" /\ index \in DOMAIN call.named
             /\ \E j \in Params : /\ MeantBy(func, call, index, j) /\ slots[j] = Unset
                                  /\ CanCrash(call.named[index].type, j, TRUE)
    BY <2>2, FittingMatches DEF JudgedInv
  <2>. QED  BY <2>1, <2>2 DEF CrashInMessage, Meant
<1>4. FitsInv'
  BY <1>1, <1>3, SameFacts DEF FitsInv
<1>5. TypesInv'
  BY <1>1 DEF JudgedInv, TypesInv, Same, Params, Unset, Default
<1>6. PlacesInv' /\ FilledInv'
  BY <1>1 DEF PlacesInv, FilledInv
<1>. QED  BY <1>2, <1>4, <1>5, <1>6 DEF JudgedInv

LEMMA StutterJudges == JudgedInv /\ UNCHANGED vars => JudgedInv'
<1>. SUFFICES ASSUME JudgedInv, UNCHANGED vars PROVE JudgedInv'
  OBVIOUS
<1>1. UNCHANGED <<phase, index, slots, ok>> /\ Same
  BY DEF vars, Same
<1>2. BindingInv' /\ Apart'
  BY StutterKeeps, <1>1, SameFacts DEF JudgedInv
<1>3. FitsInv'
  BY <1>1, SameFacts DEF JudgedInv, FitsInv
<1>4. TypesInv'
  BY <1>1 DEF JudgedInv, TypesInv, Same, Params, Unset, Default
<1>5. PlacesInv'
  BY <1>1 DEF JudgedInv, PlacesInv, Same, Params
<1>6. FilledInv'
  BY <1>1 DEF JudgedInv, FilledInv, Same, Params, Unset, Default
<1>. QED  BY <1>2, <1>3, <1>4, <1>5, <1>6 DEF JudgedInv

(* What is accepted at the end fits. *)
LEMMA AcceptedFits ==
  ASSUME JudgedInv, phase = "accepted" PROVE FitsCall(func, call)
<1>1. ok /\ func.result # NoType /\ DOMAIN call.positional \subseteq Params
  BY DEF JudgedInv, BindingInv, BoundInv, FilledInv, PlacesInv
<1>2. \A k \in DOMAIN call.named : \E j \in Params : MeantBy(func, call, k, j)
  BY <1>1 DEF JudgedInv, PlacesInv
<1>3. ASSUME NEW j \in Params
      PROVE  /\ \A s \in ArgumentsFor(func, call, j) :
                  TypeOf(call, s) = func.params[j].type /\ ArgumentsFor(func, call, j) = {s}
             /\ ArgumentsFor(func, call, j) = {} => func.params[j].default
  <2>1. ArgumentsFor(func, call, j) = IF slots[j] = Default THEN {} ELSE {slots[j]}
    BY <1>1 DEF JudgedInv, BindingInv, BoundInv, Holds
  <2>2. slots[j] # Unset /\ (slots[j] = Default => func.params[j].default)
    BY <1>1 DEF JudgedInv, FilledInv
  <2>3. slots[j] # Default => TypeOf(call, slots[j]) = func.params[j].type
    BY <1>1, <2>2 DEF JudgedInv, TypesInv
  <2>. QED  BY <2>1, <2>2, <2>3
<1>. QED  BY <1>1, <1>2, <1>3 DEF FitsCall, Params

(* For every function and every call: binding in three passes accepts      *)
(* exactly the calls in which each argument has one parameter of its type  *)
(* and the rest have defaults, and no call that fits reaches a message     *)
(* whose text is taken through a null pointer.                             *)
THEOREM AcceptanceIsExact == ListsAreLists /\ TypesAreApart /\ Spec => []AcceptsWhatFits
<1>1. ListsAreLists /\ TypesAreApart /\ Init => JudgedInv
  BY InitJudges
<1>2. JudgedInv /\ [Next]_vars => JudgedInv'
  BY BindPositionalJudges, EndPositionalJudges, BindNamedJudges, RefuseNamedJudges, EndNamedJudges,
     FillDefaultsJudges, ReturnJudges, CrashJudges, StutterJudges DEF Next
<1>3. JudgedInv => AcceptsWhatFits
  BY AcceptedFits DEF JudgedInv, FitsInv, AcceptsWhatFits
<1>. QED  BY <1>1, <1>2, <1>3, PTL DEF Spec
=============================================================================
