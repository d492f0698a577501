SPECIFICATION DeclarationsSpec
CONSTANTS
  SourcePrograms <- MCPrograms
  Names = {"main", "f", "x", "y", "this", "A", "B", "C", "U"}
INVARIANTS
  AcceptsWellDeclared
  ThrowsForLoopsAndObjects
  DeclarationsInv
CHECK_DEADLOCK FALSE
