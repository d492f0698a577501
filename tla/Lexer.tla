------------------------------- MODULE Lexer -------------------------------
(***************************************************************************)
(* Lexer: getAllTokens turns the text of a file into tokens, one action    *)
(* per kind of token that getNextToken makes.  Characters are abstracted   *)
(* to the classes the lexer tells apart; keywords are words.  Positions    *)
(* count from 1 where the code's index counts from 0.                      *)
(***************************************************************************)
EXTENDS Integers, Sequences, FiniteSets, SequencesExt

CONSTANTS
  Texts,    \* the texts considered
  Beyond    \* the characters that may lie in memory behind the text's NUL

Spaces == {"space", "newline"}
WordChars == {"letter", "digit", "under"}

(* The two-character operators: |& is one, since the case of a lone | runs *)
(* on into the case of &.                                                  *)
Doubles == {<<"equal", "equal">>, <<"bang", "equal">>, <<"less", "equal">>,
            <<"bar", "bar">>, <<"amp", "amp">>, <<"bar", "amp">>}

(* Characters that are a token on their own; a lone | or & ends up as a    *)
(* comma, for the same reason.                                             *)
Singles == {"plus", "star", "slash", "equal", "bang", "less", "dot", "comma", "bar", "amp"}
SingleKind(c) == IF c \in {"bar", "amp"} THEN "comma" ELSE c

Chars == Spaces \cup WordChars \cup Singles \cup {"quote", "other"}

ASSUME TextsAreTexts == Texts \subseteq Seq(Chars) /\ Beyond \subseteq Chars

VARIABLES
  text,      \* the file
  beyond,    \* what a read behind its NUL character yields
  location,  \* index, line and column of the current character
  tokens,    \* the list getAllTokens fills
  stage      \* "lexing", "done" or "thrown"

lexerVars == <<text, beyond, location, tokens, stage>>

----------------------------------------------------------------------------
(* The NUL character behind the text counts as a character of it. *)
Nul == Len(text) + 1

End == Len(text) + 2

CharAt(i) == IF i <= Len(text) THEN text[i] ELSE IF i = Nul THEN "nul" ELSE beyond

(* nextChar, n times. *)
NextChar(loc, n) == [loc EXCEPT !.index = @ + n, !.column = @ + n]

(* Fault: the column is not reset. *)
SkipToKeepsColumn(loc, j) ==
  [index |-> j, column |-> loc.column + (j - loc.index),
   line |-> loc.line + Cardinality({k \in loc.index..(j - 1) : CharAt(k) = "newline"})]

(* skipSpaces and skipCharsWhile count the lines they pass. *)
SkipTo(loc, j) ==
  LET newlines == {k \in loc.index..(j - 1) : CharAt(k) = "newline"}
  IN [index |-> j,
      line |-> loc.line + Cardinality(newlines),
      column |-> IF newlines = {} THEN loc.column + (j - loc.index) ELSE j - Max(newlines)]

(* They stop at the first character that is not meant or at the end; the   *)
(* character is looked at before the end is checked.  Since the NUL is no  *)
(* space, the check for the end behind skipSpaces never holds.             *)
SkipWhile(Meant(_), loc) ==
  SkipTo(loc, Min({j \in loc.index..End : ~Meant(CharAt(j)) \/ j = End}))

Start == LET IsSpace(c) == c \in Spaces IN SkipWhile(IsSpace, location)
First == CharAt(Start.index)
Second == CharAt(Start.index + 1)

LexerInit ==
  /\ text \in Texts
  /\ beyond \in Beyond
  /\ location = [index |-> 1, line |-> 1, column |-> 1]
  /\ tokens = <<>>
  /\ stage = "lexing"

(* A token's range has no end if it is made of a single character. *)
Token(kind, from, to) == [kind |-> kind, from |-> from, to |-> to]

(* getAllTokens: the token is kept unless it is a comment; one that reaches *)
(* the end of the text is dropped, and the end's own token put instead.    *)
Deliver(kind, to, location2) ==
  /\ location' = location2
  /\ tokens' = IF location2.index = End
               THEN Append(tokens, Token("eof", location2, location2))
               ELSE IF kind = "comment" THEN tokens
               ELSE Append(tokens, Token(kind, Start, to))
  /\ stage' = IF location2.index = End THEN "done" ELSE "lexing"
  /\ UNCHANGED <<text, beyond>>

MakeWord ==
  /\ stage = "lexing" /\ First = "letter"
  /\ LET IsWordChar(c) == c \in WordChars
         to == SkipWhile(IsWordChar, Start)
     IN Deliver("word", to, to)

MakeNumber ==
  /\ stage = "lexing" /\ First = "digit"
  /\ LET IsDigit(c) == c = "digit"
         whole == SkipWhile(IsDigit, Start)
         to == IF CharAt(whole.index) = "dot" THEN SkipWhile(IsDigit, NextChar(whole, 1)) ELSE whole
     IN Deliver("number", to, to)

(* The character that ends a string; fault: a new line ends it as well. *)
EndsStringOrLine(c) == c \in {"quote", "newline"}
EndsString(c) == c = "quote"

StringEnd == LET Inside(c) == ~EndsString(c) IN SkipWhile(Inside, NextChar(Start, 1))

MakeString ==
  /\ stage = "lexing" /\ First = "quote"
  /\ StringEnd.index # End
  /\ Deliver("string", NextChar(StringEnd, 1), NextChar(StringEnd, 1))

(* nextChar throws out_of_range at the end of the text. *)
ThrowInString ==
  /\ stage = "lexing" /\ First = "quote"
  /\ StringEnd.index = End
  /\ stage' = "thrown"
  /\ UNCHANGED <<text, beyond, location, tokens>>

MakeOneLineComment ==
  /\ stage = "lexing" /\ First = "slash" /\ Second = "slash"
  /\ LET InLine(c) == c # "newline"
         to == SkipWhile(InLine, NextChar(Start, 2))
     IN Deliver("comment", to, to)

(* Where the comment that starts here is closed; fault: a star suffices. *)
IsCommentEndStar(j) == CharAt(j) = "star"
IsCommentEnd(j) == j # End /\ CharAt(j) = "star" /\ CharAt(j + 1) = "slash"

CommentEnd == SkipTo(NextChar(Start, 2),
                     Min({j \in (Start.index + 2)..End : IsCommentEnd(j) \/ j = End}))

MakeMultiLineComment ==
  /\ stage = "lexing" /\ First = "slash" /\ Second = "star"
  /\ CommentEnd.index # End
  /\ Deliver("comment", NextChar(CommentEnd, 2), NextChar(CommentEnd, 2))

ThrowInComment ==
  /\ stage = "lexing" /\ First = "slash" /\ Second = "star"
  /\ CommentEnd.index = End
  /\ stage' = "thrown"
  /\ UNCHANGED <<text, beyond, location, tokens>>

MakeDoubleCharToken ==
  /\ stage = "lexing" /\ <<First, Second>> \in Doubles
  /\ Deliver("double", NextChar(Start, 2), NextChar(Start, 2))

MakeSingleCharToken ==
  /\ stage = "lexing" /\ First \in Singles
  /\ <<First, Second>> \notin Doubles \cup {<<"slash", "slash">>, <<"slash", "star">>}
  /\ Deliver(SingleKind(First), Start, NextChar(Start, 1))

(* Fault: the character is not consumed. *)
MakeInvalidStays ==
  /\ stage = "lexing" /\ First \in {"under", "other", "nul"}
  /\ UNCHANGED lexerVars

(* Any other character, the NUL among them, is an invalid token. *)
MakeInvalid ==
  /\ stage = "lexing" /\ First \in {"under", "other", "nul"}
  /\ Deliver("invalid", Start, NextChar(Start, 1))

LexerNext ==
  \/ MakeWord \/ MakeNumber \/ MakeString \/ ThrowInString
  \/ MakeOneLineComment \/ MakeMultiLineComment \/ ThrowInComment
  \/ MakeDoubleCharToken \/ MakeSingleCharToken \/ MakeInvalid

LexerSpec == LexerInit /\ [][LexerNext]_lexerVars
FairLexerSpec == LexerSpec /\ WF_lexerVars(LexerNext)

----------------------------------------------------------------------------
Locations == [index : 1..End, line : 1..End, column : 1..End]

TypeOK ==
  /\ text \in Texts /\ beyond \in Beyond
  /\ location \in Locations
  /\ \A t \in Range(tokens) : t.from \in Locations /\ t.to \in Locations
  /\ stage \in {"lexing", "done", "thrown"}

(* The line and column that errors are reported with are the true ones of  *)
(* the index, although lines are counted in two loops and characters are   *)
(* passed by others as well.                                               *)
IsTrue(loc) ==
  LET newlines == {k \in 1..(loc.index - 1) : CharAt(k) = "newline"}
  IN /\ loc.line = 1 + Cardinality(newlines)
     /\ loc.column = loc.index - Max(newlines \cup {0})

PositionsAreTrue ==
  IsTrue(location) /\ \A t \in Range(tokens) : IsTrue(t.from) /\ IsTrue(t.to)

(* The lexer never stands, nor lets a token begin or end, outside of the   *)
(* text and its NUL, and it always knows which line and column that is.    *)
LexerInv == TypeOK /\ PositionsAreTrue

(* The text read character by character: what each one belongs to, by what *)
(* the one in front belongs to and the two characters.                     *)
After(mode, c, d) ==
  CASE mode = "code" ->
         IF c = "quote" THEN "string"
         ELSE IF c = "slash" /\ d = "slash" THEN "openLine"
         ELSE IF c = "slash" /\ d = "star" THEN "openBlock" ELSE "code"
    [] mode = "string" -> IF c = "quote" THEN "code" ELSE "string"
    [] mode \in {"openLine", "line"} -> IF c = "newline" THEN "code" ELSE "line"
    [] mode = "openBlock" -> "block"
    [] mode = "block" -> IF c = "star" /\ d = "slash" THEN "close" ELSE "block"
    [] mode = "close" -> "code"

Mode ==
  LET M[p \in 1..Nul] == IF p = 1 THEN "code" ELSE After(M[p - 1], CharAt(p - 1), CharAt(p))
  IN M

(* The characters of the text that a token has to stand for. *)
OfTokens ==
  { p \in 1..Len(text) :
      \/ Mode[p] = "string"
      \/ Mode[p] = "code" /\ CharAt(p) \notin Spaces /\ Mode[p + 1] \notin {"openLine", "openBlock"} }

Extent(t) == IF t.kind = "eof" THEN {}
             ELSE IF t.to = t.from THEN {t.from.index} ELSE t.from.index..(t.to.index - 1)

(* Nothing is lost and nothing read twice: every character outside of      *)
(* spaces and comments lies in exactly one token, in the text's order, and *)
(* no token reaches into a comment or beyond the text.                     *)
TokensCoverTheCode ==
  /\ stage = "done" => UNION {Extent(t) : t \in Range(tokens)} = OfTokens
  /\ \A i \in DOMAIN tokens, j \in DOMAIN tokens :
       i < j => \A p \in Extent(tokens[i]), q \in Extent(tokens[j]) : p < q

(* Lexing is refused exactly for a text that ends inside a string or a     *)
(* comment, whatever lies in memory behind it.                             *)
ThrowsIfUnterminated ==
  /\ stage = "thrown" => Mode[Nul] \in {"string", "block"}
  /\ stage = "done" => Mode[Nul] \notin {"string", "block"}

(* The lexer comes to the end of every text. *)
LexingEnds == <>(stage # "lexing")
=============================================================================
