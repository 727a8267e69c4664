SPECIFICATION Spec
CONSTANTS
  Tasks = {t1, t2}
  NoTask = NoTask
  Channels = {c1}
  Patterns = {p1}
  ReadTimeout = FALSE
  MaxItems = 1
  MaxSends = 1
  MaxPublished = 1
PROPERTY WaitsOnlySubscribed
