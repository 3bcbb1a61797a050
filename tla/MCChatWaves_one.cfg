CONSTANTS
  NumWaves = 2
  Roots <- TwoThenOne
  Children <- OneChild
  MaxPerJob = 1
  MaxFinalize = 1
  GroupLimit = 2
  MayCancel = TRUE
  MaxCrashes = 1
  MaxMisses = 1
  MaxAsked = 4
SPECIFICATION Spec
INVARIANTS
  TypeOK
  PromptBudget
  ContinuationsBounded
  DeferredCoversOpen
