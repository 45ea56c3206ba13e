SPECIFICATION FairSpec
CONSTANTS
  NumParams = 2
  CType <- MCCType
  Indicators <- MCIndicators
  Pieces <- MCPieces
  StringLength = 2
INVARIANTS
  TypeOK
  ExecutedWithGiven
  ExecutedWhenComplete
  PlaceOfParamData
PROPERTY ParameterLoopEnds
