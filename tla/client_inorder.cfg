SPECIFICATION Spec
CONSTANTS
  Tasks = {t1, t2}
  Conns = {c1, c2}
  NoConn = NoConn
  PoolSize = 2
  Ops = {"cmd"}
  MaxBatch = 2
  MaxOps = 3
  MayAbandon = FALSE
  MayBreak = TRUE
SYMMETRY Symmetry
INVARIANTS
  TypeOK
  OwnReplies
  IdleQuiet
