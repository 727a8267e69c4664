SPECIFICATION Spec
CONSTANTS
  Jobs <- AllJobs
  Precision = 4
  U64 = 16
  MaxLine = 8
  BufCap = 6
  I64Max = 20
  UsizeMax = 41
  MaxCapacity = 12
INVARIANTS
  ParsedExactly
  CutRefused
  LineBounded
  PanicsOnHugeLengths
  RequestsWhole
  StreamedAgrees
PROPERTIES
  ReadsWhole
  ParseEnds
CHECK_DEADLOCK FALSE
