SPECIFICATION FairSpec
CONSTANTS
  Tasks = {t1}
  Conns = {c1}
  NoConn = NoConn
  PoolSize = 1
  Ops = {"cmd", "eval", "pipeline", "multi"}
  MaxBatch = 2
  MaxOps = 2
  MayAbandon = TRUE
  MayBreak = FALSE
INVARIANTS
  InStep
  LentEmpty
PROPERTY OpEnds
