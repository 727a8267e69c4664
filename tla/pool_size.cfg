SPECIFICATION Spec
CONSTANTS
  Tasks = {t1}
  Conns = {c1, c2}
  NoConn = NoConn
  PoolSize = 1
  IdleTimeout = FALSE
  HasInit = FALSE
  MayCancel = FALSE
INVARIANT IdleWithinPoolSize
