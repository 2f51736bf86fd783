SPECIFICATION FairSpec
CONSTANTS
  Images <- MCImages
  NoClkGen = NoClkGen
  Default <- BuiltWith
  Recipes <- MCRecipes
  Freqs <- MCFreqs
  Retries = 2
  MaxCalls = 2
INVARIANTS
  TypeOK RunsOnLocked NeverOverclocked SetMeansSet TableSound
PROPERTIES
  CallRunsDown CallReturns
CHECK_DEADLOCK FALSE
