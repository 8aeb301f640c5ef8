SPECIFICATION Spec
CONSTANTS
  Procs <- Alone
  NoProc = NoProc
  Deployments = {"mcp"}
  Private = {}
  SourceOf <- MadeFrom
  MaxAsks <- ThreeAsks
  MaxChildren = 3
  MaxFaults = 1
PROPERTIES
  SkipsTheSupervised
CHECK_DEADLOCK FALSE
