CONSTANTS
  None = None
  Ids = {s1, s2, s3}
  LastPage = 3
  PageLimit = 4
  Editions = 2
  MaxTroubles = 2
SPECIFICATION FairSpec
INVARIANTS PublishedIsWhole ReaderIsServed
PROPERTIES OldIsReplaced
CHECK_DEADLOCK FALSE
