SPECIFICATION FairSpec
CONSTANTS
  Inputs <- MCInputs
INVARIANTS
  TreeFollowsPrecedence
  ParserInv
  AcceptsTheGrammar
PROPERTIES
  ParsingEnds
CHECK_DEADLOCK FALSE
