CONSTANTS
  NumWaves = 3
  Roots <- OneEach
  Children <- OneChild
  MaxPerJob = 1
  MaxFinalize = 1
  GroupLimit = 2
  MayCancel = FALSE
  MaxCrashes = 1
  MaxMisses = 0
  MaxAsked = 4
SPECIFICATION Spec
INVARIANTS
  NoTextLost
  ChatLimit
  FailureIsEarned
PROPERTIES
  RetryAfterAllTexts
