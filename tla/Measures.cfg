SPECIFICATION MeasuresSpec
CONSTANTS
  t1 = t1
  t2 = t2
  r1 = r1
  r2 = r2
  Targets <- OneTarget
  Routers <- TwoRouters
  MaxHops = 2
  Slots = 2
  PathOnly = FALSE
  MaxRounds = 3
  Reasons <- TwoReasons
  RTTs = {1, 3}
  RTTWarn = 2
  RTTCrit = 9
  LossWarn = 20
  LossCrit = 80
  Failures = 2
  Recoveries = 2
  Windows = {1, 2}
  HistorySize = 3
  MaxEvents = 3
  MaxOutcomes = 4
  MaxTime = 4
  Gaps = {1, 3}
  MaxEdits = 1
  Destinations <- TwoDestinations
  Paths <- FivePaths
  StartSize = 9
  Sizes = {3, 12}
  MinMTU = 3
  MaxProbe = 10
  MaxAttempts = 3
  Workers = 1
  MaxFaults = 2
INVARIANTS
  RoutesAreWhole
  TableFitsRoute
  HealthIsExact
  EventsAreTrue
  SizesAreSound
PROPERTIES
  FlapsAreRouteChanges
CHECK_DEADLOCK FALSE
