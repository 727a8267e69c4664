SPECIFICATION Spec
CONSTANTS
  Tasks = {t1, t2}
  NoTask = NoTask
  Channels = {c1}
  Patterns = {p1}
  ReadTimeout = TRUE
  MaxItems = 1
  MaxSends = 2
  MaxPublished = 1
SYMMETRY Symmetry
INVARIANTS
  TypeOK
  OneConnTaken
  ExpectHolds
  SharingInv
  ReceivedInOrder
  NothingSkipped
