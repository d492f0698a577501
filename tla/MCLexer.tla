------------------------------ MODULE MCLexer ------------------------------
(* Instances of Lexer: all texts up to a length over small alphabets. *)
EXTENDS Lexer

UpTo(chars, n) == UNION {[1..k -> chars] : k \in 0..n}

(* Comments and strings in each other; numbers, words and lines; operators. *)
MCTexts ==
  UpTo({"slash", "star", "newline", "quote", "letter"}, 5)
  \cup UpTo({"letter", "digit", "dot", "space", "newline", "under", "other"}, 4)
  \cup UpTo({"bar", "amp", "equal", "bang", "less", "plus", "comma", "newline"}, 3)
=============================================================================
