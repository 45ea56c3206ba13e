SPECIFICATION Spec
CONSTANTS
  Procedures = {0, 2}
  Queries = {0, 1}
  Sizes = {0, 3}
  ArraySizes = {1, 2}
  MaxArray = 2
  Tidy = TRUE
  NullIndicators = FALSE
  MaxExecuted = 2
INVARIANTS
  HandedOutIsOfThis
  StatesTellRows
