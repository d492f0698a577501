SPECIFICATION Spec
CONSTANTS
  Compilers = {c1, c2}
  Programs <- MCPrograms
  FailsAt <- MCFailsAt
  OptionSets <- MCOptionSets
  None = None
  Broken = Broken
INVARIANTS
  OnlyAcceptedProgramsAreBuilt
  SuccessIsEarned
  OnlyDisturbedBuildsGoWrong
