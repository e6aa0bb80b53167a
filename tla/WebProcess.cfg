SPECIFICATION ProcessFairSpec
CONSTANTS
  Reals <- TwoReals
  Raws <- TwoRaws
  SetUid = TRUE
  SetGid = FALSE
  MaxFailed = 2
INVARIANTS
  PrivilegesAreGuarded
  WebProcessIsContained
PROPERTIES
  ProcessesSettle
CHECK_DEADLOCK FALSE
