SPECIFICATION ScriptSpec
CONSTANTS
  MaxCalls = 2
  MaxPairs = 2
  Precision = 4
  U64 = 16
INVARIANTS
  DecodedInFull
  SameByEitherApi
  RunsOnce
PROPERTY CallsReturn
CHECK_DEADLOCK FALSE
