SPECIFICATION FairLexerSpec
CONSTANTS
  Texts <- MCTexts
  Beyond = {"quote", "star"}
INVARIANTS
  LexerInv
  TokensCoverTheCode
  ThrowsIfUnterminated
PROPERTIES
  LexingEnds
CHECK_DEADLOCK FALSE
