SPECIFICATION Spec
CONSTANTS
  Procs <- Alone
  NoProc = NoProc
  Deployments = {"mcp"}
  Private = {}
  SourceOf <- MadeFrom
  MaxAsks <- ThreeAsks
  MaxChildren = 3
  MaxFaults = 1
INVARIANTS
  NonePassedOver
CHECK_DEADLOCK FALSE
