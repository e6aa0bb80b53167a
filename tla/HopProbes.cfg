SPECIFICATION FairSpec
CONSTANTS
  MaxProbes = 4
  Slots = 2
  IDSpace = 3
  MaxTTL = 2
  Buffer = 1
  Lifetime = 2
  MaxExtra = 1
INVARIANTS
  IDsAreExclusive
  ListenersAreRegistered
  AnswersAreOwn
PROPERTIES
  ProbesReturn
CHECK_DEADLOCK FALSE
