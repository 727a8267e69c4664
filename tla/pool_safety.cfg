SPECIFICATION Spec
CONSTANTS
  Tasks = {t1, t2, t3}
  Conns = {c1, c2, c3}
  NoConn = NoConn
  PoolSize = 2
  IdleTimeout = TRUE
  HasInit = TRUE
  MayCancel = TRUE
SYMMETRY Symmetry
INVARIANTS
  TypeOK
  ConnExclusive
  PermitBalance
  IdleHasNoUnread
  PoolInv
PROPERTIES
  NoReturnAfterClose
  ImplementsContract
