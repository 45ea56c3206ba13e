SPECIFICATION Spec
CONSTANTS
  Conns = {c1, c2}
  Threads = {t1}
  MaxStatements = 2
  Texts = {"work", "commit"}
  SetMayFail = FALSE
SYMMETRY Interchangeable
INVARIANTS
  TypeOK
  EnvListExact
  PendingCoversTransaction
  OpenTransactionRefused
  EnvEndTranEndsAll
PROPERTY
  TransactionsSpec
