CONSTANTS
  NumWaves = 3
  Roots <- OneEach
  Children <- None
  MaxPerJob = 1
  MaxFinalize = 1
  GroupLimit = 2
  MayCancel = FALSE
  MaxCrashes = 0
  MaxMisses = 0
  MaxAsked = 4
SPECIFICATION RepliesSpec
PROPERTIES
  JobEnds
  DeferredIsRetried
