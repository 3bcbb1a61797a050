CONSTANTS
  None = None
  Pages = {p1, p2}
  MaxEdits = 2
  Jobs = {j1, j2}
  MaxRestarts = 1
  Lease = 1
  Timeout = 2
  Stale = 3
SPECIFICATION FairSpec
INVARIANTS TypeOK QuotedAsApproved WorkedOnceKept
PROPERTIES SessionSettles EditsStay CompletedStays
CONSTRAINT Apart
CHECK_DEADLOCK FALSE
