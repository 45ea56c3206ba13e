SPECIFICATION FairSpec
CONSTANTS
  Words <- MCWords
  Strings <- MCStrings
  Answer <- MCAnswer
  Names <- MCNames
  Sources <- MCSources
  Isolations = {"serializable", "read committed"}
  MaxCalls = 3
INVARIANTS
  TypeOK
  SessionAsAsked
  IsolationAsSet
  CodeTellsRecords
  RecordsInOrder
  OutStringReconnects
PROPERTY
  BrowseLoopEnds
