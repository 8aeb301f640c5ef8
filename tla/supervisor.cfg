SPECIFICATION FairSpec
CONSTANTS
  Procs <- Alone
  NoProc = NoProc
  Deployments = {"mcp"}
  Private = {"session"}
  SourceOf <- MadeFrom
  MaxAsks <- ThreeAsks
  MaxChildren = 3
  MaxFaults = 0
INVARIANTS
  KillHolds
PROPERTIES
  EveryOperationEnds
CHECK_DEADLOCK FALSE
