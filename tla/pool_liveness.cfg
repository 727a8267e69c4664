SPECIFICATION FairSpec
CONSTANTS
  Tasks = {t1, t2}
  Conns = {c1, c2}
  NoConn = NoConn
  PoolSize = 1
  IdleTimeout = TRUE
  HasInit = FALSE
  MayCancel = FALSE
PROPERTIES
  GetEnds
  CloseDrains
  PutEnds
