SPECIFICATION FairSpec
CONSTANTS
  t1 = t1
  t2 = t2
  r1 = r1
  r2 = r2
  Targets <- TwoTargets
  Routers <- OneRouter
  MaxHops = 1
  Slots = 1
  PathOnly = FALSE
  MaxRounds = 3
PROPERTIES
  JoinedTablesRest
  EverythingEnds
