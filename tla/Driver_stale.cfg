SPECIFICATION Spec
CONSTANTS
  Compilers = {c1}
  Programs <- MCPrograms
  FailsAt <- MCFailsAt
  OptionSets <- MCOptionSets
  None = None
  Broken = Broken
INVARIANTS
  RunsWhatItCompiled
