SPECIFICATION CompilerSpec
CONSTANTS
  Names = {"a", "n", "t"}
  Globals = {"n", "t"}
  NumericGlobals = {"n"}
  Strings = {}
  Functions = {}
  Bodies <- StorageBodies
INVARIANTS
  EveryGlobalHasStorage
CHECK_DEADLOCK FALSE
