SPECIFICATION CompilerSpec
CONSTANTS
  Names = {"a", "b", "f", "g", "n", "s", "t"}
  Globals = {"g", "n", "t"}
  NumericGlobals = {"g", "n"}
  Strings = {"s"}
  Functions = {"f"}
  Bodies <- AllBodies
INVARIANTS
  DecoratorInv
  ReturnAnalysisErrsOneWay
  DeadCodeIsWarned
  OnlySkippedGlobalsLackStorage
  LinkedAllocasHaveRun
  ImplicitReturnIsGenerated
  DroppedCodeIsWarned
CHECK_DEADLOCK FALSE
