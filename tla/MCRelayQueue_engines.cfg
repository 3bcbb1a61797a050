SPECIFICATION Spec
CONSTANTS
  NoJob = NoJob
  NoEngine = NoEngine
  NoReceipt = NoReceipt
  NoRequest = NoRequest
  Convs <- MCConvs
  Jobs = {j1}
  Requests = {q1}
  Engines = {e1, e2}
  Big = {}
  Numbered = {}
  MaxConcurrent = 2
  MaxPerJob = 2
  LeaseTime = 2
  MaxTime = 2
  MaxRetries = 0
  Outcomes = {}
  HostMayStall = TRUE
  MaySignOut = TRUE
  Polled = {}
  MaxCrashes = 1
INVARIANT OneEnginePerJob
SYMMETRY Swaps
CHECK_DEADLOCK FALSE
