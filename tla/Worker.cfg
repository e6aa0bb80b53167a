SPECIFICATION FairSpec
CONSTANTS
  SeqSpace = 3
  HistCap = 1
  Window = 2
  Lifetime = 3
  ReplyBuffer = 1
  Count = 4
  MaxSeq = 0
  MaxResets = 1
  MaxErrors = 1
  MaxExtra = 1
INVARIANTS
  EveryProbeAccounted
  RepliesMatchTheirProbe
  FinishesOnlyWhenSettled
PROPERTIES
  WorkerEnds
CHECK_DEADLOCK FALSE
