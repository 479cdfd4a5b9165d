SPECIFICATION Spec
CONSTANTS
  None = None
  t1 = t1
  t2 = t2
  good = good
  other = other
  broken = broken
  Threads <- MCThreads
  Ids = {"pack"}
  Packs <- MCPacks
  Valid <- MCValid
  MaxRequests = 6
INVARIANTS
  IdsKeepContents
  NothingUndone
  ClosedOnce
  HoldersWork
PROPERTIES
  Answered
CHECK_DEADLOCK FALSE
