SPECIFICATION Spec
CONSTANTS
  Tasks = {t1}
  Conns = {c1}
  NoConn = NoConn
  PoolSize = 1
  Ops = {"cmd"}
  MaxBatch = 1
  MaxOps = 2
  MayAbandon = TRUE
  MayBreak = FALSE
INVARIANT IdleQuiet
