SPECIFICATION Spec
CONSTANTS
  NoJob = NoJob
  NoEngine = NoEngine
  NoReceipt = NoReceipt
  NoRequest = NoRequest
  Convs <- MCConvs
  Jobs = {j1, j2}
  Requests = {q1, q2}
  Engines = {e1}
  Big = {}
  Numbered = {}
  MaxConcurrent = 2
  MaxPerJob = 2
  LeaseTime = 2
  MaxTime = 2
  MaxRetries = 0
  Outcomes = {}
  HostMayStall = FALSE
  MaySignOut = TRUE
  Polled = {}
  MaxCrashes = 0
INVARIANT OneUnplannedJob
SYMMETRY Swaps
CHECK_DEADLOCK FALSE
