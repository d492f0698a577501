------------------------------ MODULE MCParser ------------------------------
(* Instances of Parser: all token lists up to a length over small sets, in *)
(* the place of an expression, a statement, parameters or the whole file,  *)
(* and files in which one token is wrong.                                  *)
EXTENDS Parser

UpTo(types, n) == UNION {[1..k -> types] : k \in 0..n}

----------------------------------------------------------------------------
(* Chains of three operators, and every pair of operators. *)
Chains ==
  { <<"id", o1, "id", o2, "id", o3, "id">> : o1, o2, o3 \in Operators }

(* The argument lists of one call. *)
Arguments ==
  { <<"id", "lp">> \o args \o <<"rp">> : args \in UpTo({"id", "comma", "assign", "lp"}, 5) }

(* Signs; holes; negation; members and calls. *)
ExpressionLists ==
  Chains \cup Arguments
  \cup UpTo({"id", "plus", "minus", "mul", "number"}, 5)
  \cup UpTo({"plus", "minus", "number", "literal", "huge", "not"}, 4)
  \cup UpTo({"id", "plus", "mul", "lp", "rp"}, 6)
  \cup UpTo({"id", "plus", "not", "lp", "rp"}, 5)
  \cup UpTo({"id", "dot", "lp", "rp"}, 5)

(* Assignments; conditions and blocks; returns. *)
StatementLists ==
  UpTo({"id", "assign", "semicolon", "dot", "lp", "rp"}, 5)
  \cup UpTo({"if", "while", "else", "id", "lb", "rb"}, 5)
  \cup UpTo({"return", "semicolon", "lp", "rp", "let"}, 5)
  \cup { <<"if", "id", "lb", "rb">> \o list : list \in UpTo({"else", "lb", "rb"}, 6) }

ParameterLists ==
  { <<"id", "colon">> \o list : list \in UpTo({"id", "colon", "comma", "assign", "number", "lp"}, 4) }
  \cup { <<"id", "colon", "id", "assign">> \o list : list \in UpTo({"minus", "number", "literal", "lp", "rp"}, 4) }
  \cup UpTo({"id", "colon", "comma", "assign", "literal"}, 4)

Declarations == UpTo({"let", "fun", "extern", "class", "id", "lp", "rp", "lb", "rb"}, 4)

----------------------------------------------------------------------------
Files ==
  { <<"let", "id", "colon", "id", "assign", "literal", "semicolon",
      "fun", "extern", "id", "lp", "id", "colon", "id", "rp", "colon", "id">>,
    <<"fun", "id", "lp", "id", "colon", "id", "comma", "id", "colon", "id", "assign", "minus", "number",
      "rp", "colon", "id", "lb", "return", "id", "semicolon", "rb">>,
    <<"class", "id", "lb", "id", "semicolon", "id", "colon", "id", "assign", "literal", "semicolon",
      "fun", "id", "lp", "rp", "lb", "rb", "rb">>,
    <<"fun", "id", "lp", "rp", "lb", "if", "id", "lb", "id", "assign", "id", "semicolon", "rb",
      "else", "lb", "id", "lp", "rp", "semicolon", "rb", "rb">>,
    <<"fun", "id", "lp", "rp", "lb", "while", "id", "less", "id", "lb", "lb", "return", "semicolon", "rb",
      "let", "id", "assign", "id", "semicolon", "rb", "rb">> }

Written == TokenTypes \ (Operators \ {"minus", "less"})

(* The file with one token missing, another, or one too many. *)
Edits(file) ==
  { RemoveAt(file, p) : p \in DOMAIN file }
  \cup { [file EXCEPT ![p] = t] : p \in DOMAIN file, t \in Written }
  \cup { InsertAt(file, p, t) : p \in 1..(Len(file) + 1), t \in Written }

MCInputs ==
  { <<"let", "id", "assign">> \o list \o <<"semicolon">> : list \in ExpressionLists }
  \cup { <<"fun", "id", "lp", "rp", "lb">> \o list \o <<"rb">> : list \in StatementLists }
  \cup { <<"fun", "extern", "id", "lp">> \o list \o <<"rp">> : list \in ParameterLists }
  \cup Declarations
  \cup UNION {Edits(file) : file \in Files}
=============================================================================
