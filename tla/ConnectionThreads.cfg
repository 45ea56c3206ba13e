SPECIFICATION Spec
CONSTANTS
  Conns = {c1, c2}
  Threads = {t1, t2}
  MaxStatements = 2
  Texts = {"work", "start"}
  SetMayFail = TRUE
SYMMETRY Interchangeable
INVARIANT
  NoUseOfClosedSession
