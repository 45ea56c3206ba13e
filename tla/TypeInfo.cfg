SPECIFICATION FairSpec
CONSTANTS
  Results <- MCResults
  Asked = {"INTEGER", "LONGVARBINARY"}
  Limits = {0, 1, 2}
  DataTypeColumn = 2
  ReuseWithLimit = FALSE
  MaxCount = 4
INVARIANTS
  AskedIsSeen
PROPERTIES
  FilteredSpec
  FetchReturns
