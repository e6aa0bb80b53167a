SPECIFICATION Spec
CONSTANTS
  t1 = t1
  t2 = t2
  t3 = t3
  c1 = c1
  c2 = c2
  Main = main
  Clients <- OneClient
  Targets <- ThreeTargets
  InitialTargets <- OneTarget
  CmdBuffer = 2
  IDLimit = 3
  MaxExpand = 2
  MaxCommands = 3
  CountLimited = TRUE
  RouteEnabled = TRUE
  PortEnabled = TRUE
  HTTPEnabled = TRUE
INVARIANTS
  MonitorsFollowTargets
  QuietUnlessRunning
  SocketsOutliveUsers
  FinishedIsTruthful
  SnapshotIsFresh
PROPERTIES
  ImplementsLifecycle
