SPECIFICATION FairSpec
CONSTANTS
  TaskCap = 1
  MailCap = 1
  MaxDrops = 1
  MaxKeys = 2
  MaxChanges = 1
  MaxID = 3
INVARIANTS
  StateIsConsistent
PROPERTIES
  DialogNamesHighlighted
  SessionSettles
CHECK_DEADLOCK FALSE
