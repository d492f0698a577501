------------------------------ MODULE ExprGen ------------------------------
(***************************************************************************)
(* CodeGenerator::genExpression and the functions it calls, run on an      *)
(* expression that was decorated without an error.  What is generated is   *)
(* kept as far as LLVM looks at it: the type of the value, and whether the *)
(* operands of the instructions made for it have the types those take.     *)
(* Strings are left out, and so are the objects of a function's signature, *)
(* which no declaration gets through.                                      *)
(***************************************************************************)
EXTENDS Expressions

VARIABLES
  code,  \* what was generated for the expression, once it was
  ir     \* what the IRGenerator made of it, if the driver was told to use that

genVars == <<vars, code, ir>>

Scalar == [i32 |-> "i32", f32 |-> "float", bool |-> "i1", void |-> "void"]
LlvmType(type) ==
  IF type \in DOMAIN Classes THEN [is |-> "pointer", to |-> type]
                             ELSE [is |-> Scalar[type], to |-> NoClass]

(* A value of some type, made of others by an instruction. *)
Value(type, parts, fits) ==
  [type |-> type, throws |-> \E p \in parts : p.throws,
   fits |-> fits /\ \A p \in parts : p.fits]
Thrown == [type |-> LlvmType("void"), throws |-> TRUE, fits |-> TRUE]

Compares == {"<", ">", "==", "!=", "<=", ">="}

(* Fault: a comparison has the type of its operands. *)
GenBinaryAlike(node, operandType, lhs, rhs) ==
  IF node.type \in DOMAIN Classes \/ operandType \in DOMAIN Classes THEN Thrown
  ELSE Value(lhs.type, {lhs, rhs}, lhs.type = LlvmType(operandType) /\ rhs.type = lhs.type)

(* The instruction is chosen by the types the decorator left, of the left  *)
(* operand or, unless it compares, of the result.                          *)
GenBinary(node, operandType, lhs, rhs) ==
  IF node.type \in DOMAIN Classes \/ operandType \in DOMAIN Classes THEN Thrown
  ELSE IF node.what \in Compares
  THEN IF operandType \in {"i32", "f32"}
       THEN Value(LlvmType("bool"), {lhs, rhs},
                  lhs.type = LlvmType(operandType) /\ rhs.type = lhs.type)
       ELSE Thrown
  ELSE IF node.what \in {"&&", "||"} \/ node.type \in {"i32", "f32"}
  THEN Value(lhs.type, {lhs, rhs},
             /\ lhs.type = LlvmType(IF node.what \in {"&&", "||"} THEN "bool" ELSE node.type)
             /\ rhs.type = lhs.type)
  ELSE Thrown

GenConst(node) == Value(LlvmType(node.what), {}, TRUE)

GenUnary(inner) == Value(inner.type, {inner}, inner.type.is \in {"i1", "i32"})

(* A member is an element of the struct its parent points to; of an object *)
(* the pointer itself is the value.                                        *)
GenMember(node, parent) ==
  Value(LlvmType(node.type), {parent}, parent.type = LlvmType(node.link.of))

(* A member has no storage of its own. *)
GenVariable(node) ==
  IF node.link.of # NoClass THEN Thrown ELSE Value(LlvmType(node.type), {}, TRUE)

(* A constructor is only the storage of the object; a method needs the     *)
(* object in front, so one called by its name alone is not supported.      *)
GenCall(node, object, arguments) ==
  LET params == node.link.params
      fits == \A j \in DOMAIN params : arguments[j].type = LlvmType(params[j].type)
      given == {arguments[j] : j \in DOMAIN params}
  IN IF node.link.is = "class" THEN Value(LlvmType(node.type), {}, TRUE)
     ELSE IF node.link.of = NoClass THEN Value(LlvmType(node.type), given, fits)
     ELSE IF node.kind = "membercall"
     THEN Value(LlvmType(node.type), given \cup object,
                fits /\ \A o \in object : o.type = LlvmType(node.link.of))
     ELSE Thrown

Generated ==
  LET gen[i \in DOMAIN nodes] ==
        LET node == nodes[i]
            kid(k) == gen[holds[Kid(i, k)]]
        IN CASE node.kind = "const" -> GenConst(node)
             [] node.kind = "not" -> GenUnary(kid(1))
             [] node.kind = "binary" -> GenBinary(node, TypeAt(Kid(i, 1)), kid(1), kid(2))
             [] node.kind = "member" -> GenMember(node, kid(1))
             [] node.kind = "var" -> GenVariable(node)
             [] OTHER -> GenCall(node, IF node.kind = "membercall" THEN {kid(1)} ELSE {},
                                 [j \in DOMAIN node.link.params |-> gen[holds[Arg(i, j)]]])
  IN gen[holds[Root]]

----------------------------------------------------------------------------
(* IRGenerator: the type of the value, which may be missing, or the way    *)
(* the generator ended.  The type of a negation is never set.              *)
NoIrType == "invalid"

(* The operations that have an instruction. *)
IrCalculations == {"+", "-", "*", "/"}
IrCompares == {"<", ">", "==", "!=", "<=", ">="}
IrBooleans == {"&&", "||"}

(* Fault: a comparison has the type of its operands. *)
IrBinaryAlike(node, operandType) == operandType

(* visitBinaryExpression: only the decorator's types are looked at. *)
IrBinary(node, operandType) ==
  LET isNumber == operandType \in {"i32", "f32"}
      ofSome(ops) == IF node.what \in ops THEN node.type ELSE "thrown"
  IN CASE {node.type, operandType} \cap DOMAIN Classes # {} -> "thrown"
       [] isNumber /\ node.type = operandType -> ofSome(IrCalculations)
       [] isNumber /\ node.type = "bool" -> ofSome(IrCompares)
       [] operandType = "bool" /\ node.type = "bool" -> ofSome(IrBooleans)
       [] OTHER -> "missing"

IrConst(node) == node.what
IrVariable(node) == node.type

(* Classes have no IR: their members are missing values, their functions,  *)
(* also the constructors, are null.                                        *)
IrMember == "missing"
IrCall(node) == IF node.kind = "call" /\ node.link.is = "function" THEN node.type ELSE "crashed"

(* The first of the operands, in their order, that ended the generator. *)
Ended(types) ==
  LET ends == {k \in DOMAIN types : types[k] \in {"thrown", "crashed"}}
  IN IF ends = {} THEN {} ELSE {types[Min(ends)]}

IrGenerated ==
  LET gen[i \in DOMAIN nodes] ==
        LET node == nodes[i]
            kid(k) == gen[holds[Kid(i, k)]]
            operands ==
              CASE node.kind = "binary" -> <<kid(1), kid(2)>>
                [] node.kind \in {"not", "member", "membercall"} -> <<kid(1)>>
                [] node.kind = "call" /\ node.link.is = "function" ->
                     [j \in DOMAIN node.link.params |-> gen[holds[Arg(i, j)]]]
                [] OTHER -> <<>>
            refused == node.kind = "binary" /\ {node.type, TypeAt(Kid(i, 1))} \cap DOMAIN Classes # {}
        IN IF ~refused /\ Ended(operands) # {} THEN CHOOSE e \in Ended(operands) : TRUE
           ELSE CASE node.kind = "const" -> IrConst(node)
                  [] node.kind = "var" -> IrVariable(node)
                  [] node.kind = "not" -> NoIrType
                  [] node.kind = "binary" -> IrBinary(node, TypeAt(Kid(i, 1)))
                  [] node.kind = "member" -> IrMember
                  [] OTHER -> IrCall(node)
  IN gen[holds[Root]]

GenInit == Init /\ code = <<>> /\ ir = <<>>

Decorate == Next /\ UNCHANGED <<code, ir>>

(* main: only what was decorated without an error is generated, one about  *)
(* a declaration included.                                                 *)
Generate ==
  /\ Accepted /\ ~MentionsUntyped /\ code = <<>> /\ ir = <<>>
  /\ code' = <<Generated>>
  /\ UNCHANGED <<vars, ir>>

(* The functions of classes are not visited, and the declaration of an     *)
(* object ends the generator before anything can read it.                  *)
GenerateIr ==
  /\ Accepted /\ ~MentionsUntyped /\ code = <<>> /\ ir = <<>>
  /\ FindName("this") = Nobody
  /\ \A i \in DOMAIN tree : tree[i].kind = "var" => judged[i].type \notin DOMAIN Classes
  /\ ir' = <<IrGenerated>>
  /\ UNCHANGED <<vars, code>>

GenNext == Decorate \/ Generate \/ GenerateIr

GenSpec == GenInit /\ [][GenNext]_genVars

----------------------------------------------------------------------------
(* An accepted expression can be generated, but for a call that names a    *)
(* method of the own class without an object: a member named so has become *)
(* a member of this by then, and no other use of one is left.              *)
OnlyPlainMethodCallsThrow ==
  code # <<>> =>
    (code[1].throws <=> \E i \in DOMAIN tree : /\ tree[i].kind = "call"
                                               /\ judged[i].callee.is = "function"
                                               /\ judged[i].callee.of # NoClass)

(* A default that is taken, of another type than its parameter. *)
TakesOddDefault ==
  \E i \in DOMAIN tree : \E j \in DOMAIN judged[i].callee.params :
    LET p == judged[i].callee.params[j] IN
    IsCall(tree[i]) /\ p.default \notin {NoDefault, p.type}

(* The types the decorator leaves are the types of the values: every       *)
(* instruction generated gets the operands LLVM wants of it, and the value *)
(* of the expression has the type the statement around counts on, unless   *)
(* the value of a default has another type than the parameter.             *)
OperandsHaveTheirTypes ==
  code # <<>> /\ ~code[1].throws =>
    /\ code[1].fits \/ TakesOddDefault
    /\ code[1].type = LlvmType(judged[1].type)

(* Only a constructor ends the IRGenerator; whatever has none gets a value *)
(* of the type the decorator found, but a negation has none of its own.    *)
OnlyObjectsLackIr ==
  ir # <<>> =>
    IF \E i \in DOMAIN tree : IsCall(tree[i]) /\ judged[i].callee.is = "class"
    THEN ir[1] = "crashed"
    ELSE ir[1] = (IF tree[1].kind = "not" THEN NoIrType ELSE judged[1].type)

(* What the message about an argument says: the argument of a function     *)
(* needs the type of its parameter.                                        *)
ArgumentsHaveTheirTypes ==
  Accepted => \A s \in DOMAIN holds :
    s[2] = "arg" => TypeAt(s) = nodes[s[1]].link.params[s[3]].type
=============================================================================
