SPECIFICATION CompilerSpec
CONSTANTS
  Names = {}
  Globals = {}
  NumericGlobals = {}
  Strings = {}
  Functions = {}
  Bodies <- ControlBodies
INVARIANTS
  AcceptedValueFunctionReturns
CHECK_DEADLOCK FALSE
