CONSTANTS
  Ids = {q1, q2, q3, q4}
  Payloads = {p1, p2, p3}
  Scopes = {a1, b1, b2}
  Components = {a, b}
  q1 = q1
  q2 = q2
  q3 = q3
  q4 = q4
  p1 = p1
  p2 = p2
  p3 = p3
  a = a
  b = b
  a1 = a1
  b1 = b1
  b2 = b2
  m2 = m2
  NoScope = NoScope
  OwnerOf <- MCOwnerOf
  WaveOf <- MCWaveOf
  FallbackOf <- MCFallbackOf
  Calls = {c1, c2}
  Requests <- MCRequests
  LocalRoutes = {p3}
  Metas = {m1, m2}
  NoMeta = NoMeta
  AttemptLimit = 2
  MaySend = {"priced", "refused"}
  MayBeFree = {b}
  Nobody = Nobody
SPECIFICATION Spec
SYMMETRY MCSwaps
CONSTRAINT Bounded
INVARIANTS CompletedIsCovered AttemptsBounded
PROPERTIES IsLedger
CHECK_DEADLOCK FALSE
