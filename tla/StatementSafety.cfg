SPECIFICATION FairSpec
CONSTANTS
  Kinds = {"select", "insert", "call"}
  SelectSizes = {2}
  KeySizes = {0, 1}
  CallResults <- MCCallResults
  CatalogSizes = {1}
  Limits = {0, 1}
  ArraySizes = {1, 2}
  MaxDiag = 1
  MaxCarried = 1
INVARIANTS
  TypeOK
  NoDanglingCursor
  NoRowLost
  RowLimitHonoured
  NoDataIsTheEnd
  ErrorHasDiagnostic
  CancelIsForThisCursor
PROPERTY
  FetchLoopEnds
