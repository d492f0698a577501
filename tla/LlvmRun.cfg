SPECIFICATION RunSpec
CONSTANTS
  Names = {"a", "n", "t", "s"}
  Bodies <- AllBodies
  Globals = {"n", "t"}
  NumericGlobals = {"n"}
  Strings = {"s"}
INVARIANTS
  Inv
  ReturnedFunctionIsClosed
  ReturnAnalysisIsExact
PROPERTIES
  BuilderClosesWhatItLeaves
  ImplementsSource
CHECK_DEADLOCK FALSE
