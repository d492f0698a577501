SPECIFICATION GenSpec
CONSTANTS
  Cases <- MCCases
  Classes <- MCClasses
  NoType = "notype"
  NoDefault = "nodefault"
  NoClass = "noclass"
  Bad = "bad"
INVARIANTS
  TypesAreJudged
  FailuresAreExplained
  NodesHaveOneOwner
  ArgumentsReachTheirParameters
  OnlyPlainMethodCallsThrow
  OperandsHaveTheirTypes
  OnlyObjectsLackIr
PROPERTIES
  BindsLikeCallArgs
CHECK_DEADLOCK FALSE
