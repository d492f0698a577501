SPECIFICATION GenSpec
CONSTANTS
  Cases <- MCCases
  Classes <- MCClasses
  NoType = "notype"
  NoDefault = "nodefault"
  NoClass = "noclass"
  Bad = "bad"
INVARIANTS
  ArgumentsHaveTheirTypes
CHECK_DEADLOCK FALSE
