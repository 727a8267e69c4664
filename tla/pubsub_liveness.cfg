SPECIFICATION FairSpec
CONSTANTS
  Tasks = {t1, t2}
  NoTask = NoTask
  Channels = {c1}
  Patterns = {}
  ReadTimeout = TRUE
  MaxItems = 1
  MaxSends = 1
  MaxPublished = 1
PROPERTY CallsEnd
