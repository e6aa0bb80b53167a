SPECIFICATION FairSpec
CONSTANTS
  t1 = t1
  t2 = t2
  t3 = t3
  c1 = c1
  c2 = c2
  Main = main
  Clients <- OneClient
  Targets <- TwoTargets
  InitialTargets <- OneTarget
  CmdBuffer = 1
  IDLimit = 2
  MaxExpand = 1
  MaxCommands = 2
  CountLimited = TRUE
  RouteEnabled = FALSE
  PortEnabled = FALSE
  HTTPEnabled = FALSE
PROPERTIES
  CompletionIsNoticed
  CallersReturn
  ShutdownCompletes
