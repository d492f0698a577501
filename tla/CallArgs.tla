------------------------------ MODULE CallArgs ------------------------------
(***************************************************************************)
(* AstDecorator::doCallExpression: the arguments of one call are brought   *)
(* into the order of the parameters, arguments first that have no name,    *)
(* then those with one, then the defaults.  The called function has been   *)
(* found.  An argument is its type, or Bad when its expression is refused; *)
(* the type of a parameter is NoType when its name was not found, which    *)
(* was reported long before.  The parser only accepts constants as         *)
(* defaults, and no argument without name behind one with a name.          *)
(***************************************************************************)
EXTENDS CallRules

CONSTANTS
  Functions,   \* the functions called: parameters and type of the result
  CallsMade,   \* the arguments given: without and with names
  Bad

VARIABLES
  func, call,
  index,  \* the next argument of the list being walked; then the next parameter
  slots,  \* callArgs: what each parameter gets
  ok,
  phase   \* "positional", "named", "defaults", or how the call ended

vars == <<func, call, index, slots, ok, phase>>

Params == DOMAIN func.params
Unset == <<"unset", 0>>
Default == <<"default", 0>>

Init ==
  /\ func \in Functions /\ call \in CallsMade
  /\ index = 1
  /\ slots = [j \in Params |-> Unset]
  /\ ok = TRUE
  /\ phase = "positional"

(* checkFunctionCallArgType. *)
Matches(given, j) == given # Bad /\ given = func.params[j].type

(* Its message takes the text of the parameter's type, and the name of the *)
(* argument, whether or not there is one.                                  *)
CanCrash(given, j, hasName) ==
  given # Bad /\ ~Matches(given, j) /\ (func.params[j].type = NoType \/ ~hasName)
HasToCrash(given, j) == given # Bad /\ func.params[j].type = NoType

Bind(j, source, given) ==
  /\ ~HasToCrash(given, j)
  /\ ok' = (ok /\ Matches(given, j))
  /\ slots' = [slots EXCEPT ![j] = source]
  /\ index' = index + 1
  /\ UNCHANGED <<func, call, phase>>

BindPositional ==
  /\ phase = "positional"
  /\ index \in DOMAIN call.positional /\ index \in Params
  /\ Bind(index, <<"positional", index>>, call.positional[index])

(* All arguments without name are bound, or there is one too many. *)
EndPositional ==
  /\ phase = "positional"
  /\ index \notin DOMAIN call.positional \cap Params
  /\ ok' = (ok /\ index \notin DOMAIN call.positional)
  /\ phase' = "named"
  /\ index' = 1
  /\ UNCHANGED <<func, call, slots>>

Meant(k, j) == MeantBy(func, call, k, j)

BindNamed ==
  /\ phase = "named" /\ index \in DOMAIN call.named
  /\ \E j \in Params :
       /\ Meant(index, j)
       /\ slots[j] = Unset
       /\ Bind(j, <<"named", index>>, call.named[index].type)

(* There is no such parameter, or it was bound before. *)
RefuseNamed ==
  /\ phase = "named" /\ index \in DOMAIN call.named
  /\ \A j \in Params : Meant(index, j) => slots[j] # Unset
  /\ ok' = FALSE
  /\ index' = index + 1
  /\ UNCHANGED <<func, call, slots, phase>>

EndNamed ==
  /\ phase = "named" /\ index \notin DOMAIN call.named
  /\ phase' = "defaults"
  /\ index' = 1
  /\ UNCHANGED <<func, call, slots, ok>>

CrashInMessage ==
  /\ \/ /\ phase = "positional" /\ index \in DOMAIN call.positional \cap Params
        /\ CanCrash(call.positional[index], index, FALSE)
     \/ /\ phase = "named" /\ index \in DOMAIN call.named
        /\ \E j \in Params : /\ Meant(index, j) /\ slots[j] = Unset
                             /\ CanCrash(call.named[index].type, j, TRUE)
  /\ phase' = "crashed"
  /\ UNCHANGED <<func, call, index, slots, ok>>

(* Clones of the default values go to the parameters still unset. *)
FillDefaults ==
  /\ phase = "defaults"
  /\ slots' = [j \in Params |-> IF slots[j] = Unset /\ func.params[j].default
                                THEN Default ELSE slots[j]]
  /\ ok' = (ok /\ \A j \in Params : slots'[j] # Unset)
  /\ phase' = "bound"
  /\ UNCHANGED <<func, call, index>>

(* Only now is it asked whether the type of the result is known. *)
Return ==
  /\ phase = "bound"
  /\ phase' = IF ok /\ func.result # NoType THEN "accepted" ELSE "refused"
  /\ UNCHANGED <<func, call, index, slots, ok>>

Next ==
  \/ BindPositional \/ EndPositional \/ BindNamed \/ RefuseNamed \/ EndNamed
  \/ CrashInMessage \/ FillDefaults \/ Return

Spec == Init /\ [][Next]_vars

----------------------------------------------------------------------------
(* Binding in three passes accepts exactly the calls that fit; a message   *)
(* that crashes the compiler is never about one of them.                   *)
AcceptsWhatFits ==
  /\ phase = "accepted" => FitsCall(func, call)
  /\ phase \in {"refused", "crashed"} => ~FitsCall(func, call)

(* In an accepted call every parameter has the one argument meant for it,  *)
(* or its default, and so no argument given is lost.                       *)
ArgumentsReachTheirParameters ==
  phase = "accepted" =>
    \A j \in Params :
      ArgumentsFor(func, call, j) = IF slots[j] = Default THEN {} ELSE {slots[j]}
=============================================================================
