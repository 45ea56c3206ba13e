SPECIFICATION FairSpec
CONSTANTS
  NumColumns = 3
  CType <- MCCType
  Lengths <- MCLengths
  Buffers <- MCBuffers
  Bound <- MCBound
  Probes = "first"
INVARIANTS
  TypeOK
  MoreIsTold
  BoundColumnsFromStart
PROPERTIES
  StreamSpec
  ReadLoopEnds
