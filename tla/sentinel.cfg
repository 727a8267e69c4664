SPECIFICATION FairSpec
CONSTANTS
  Tasks = {t1, t2}
  NumSentinels = 2
  ReadTimeout = TRUE
  MaxMaster = 2
  MaxFaults = 1
  MaxLookups = 3
INVARIANTS
  TypeOK
  NotOutdated
  GivesUpLast
  OneClientEach
PROPERTY LookupEnds
CHECK_DEADLOCK FALSE
