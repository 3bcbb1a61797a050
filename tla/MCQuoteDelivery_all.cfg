CONSTANTS
  Calls = {c1, c2}
  AllowPartial = TRUE
  MaxRetries = 1
  MaxQuotes = 3
SPECIFICATION Spec
SYMMETRY CallSymmetry
INVARIANTS LinkWorksAlone PublishedHasLink OneQuotePerGeneration ReceiptOfGeneration
PROPERTIES FinalReceiptStands SavedResultStands
CONSTRAINT QuotesBounded
CHECK_DEADLOCK FALSE
