SPECIFICATION Spec
CONSTANTS
  Procs <- TwoProcs
  NoProc = NoProc
  Deployments = {"mcp"}
  Private = {}
  SourceOf <- MadeFrom
  MaxAsks <- OneEach
  MaxChildren = 3
  MaxFaults = 0
INVARIANTS
  NoOrphans
CHECK_DEADLOCK FALSE
