SPECIFICATION ModuleSpec
CONSTANTS
  Names = {"a", "a1"}
  Globals = {}
  Bodies <- AllBodies
  Headings <- AllHeadings
INVARIANTS
  IrInv
  UsesFollowAllocations
  ListedGlobalsHaveValues
  NamesCollideOnlyByNumber
  UnknownOperandsNeverRun
PROPERTIES
  ImplementsSource
CHECK_DEADLOCK FALSE
