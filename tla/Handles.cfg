SPECIFICATION FairSpec
CONSTANTS
  Conns = {c1, c2}
  Stmts = {s1, s2}
  MaxRecord = 2
  Slack = 1
  Fresh = {"null"}
INVARIANTS
  ListsExact
PROPERTIES
  ClientSpec
  DeletionEnds
