SPECIFICATION FairSpec
CONSTANTS
  NoJob = NoJob
  NoEngine = NoEngine
  NoReceipt = NoReceipt
  NoRequest = NoRequest
  Convs <- MCConvs
  Jobs = {j1}
  Requests = {q1}
  Engines = {e1}
  Big = {j1}
  Numbered = {j1}
  MaxConcurrent = 2
  MaxPerJob = 2
  LeaseTime = 2
  MaxTime = 2
  MaxRetries = 2
  Outcomes = {"full", "partial", "blocked"}
  HostMayStall = FALSE
  MaySignOut = TRUE
  Polled = {j1}
  MaxCrashes = 1
INVARIANT NoSourceKept
INVARIANT DeliveredByFreshReceipt
INVARIANT NoStrandedJob
INVARIANT QueuedIsStartable
INVARIANT NeverResubmitted
PROPERTY CancelledIsFinal
PROPERTY DeliveryIsKept
PROPERTY FailedStaysFailed
PROPERTY ReceiptIsAdopted
PROPERTY SubmittedTextGoes
CHECK_DEADLOCK FALSE
