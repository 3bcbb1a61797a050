CONSTANTS
  Calls = {c1, c2}
  AllowPartial = FALSE
  MaxRetries = 0
  MaxQuotes = 1
SPECIFICATION Spec
INVARIANT LinkWorks
CHECK_DEADLOCK FALSE
