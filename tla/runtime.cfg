SPECIFICATION Spec
CONSTANTS
  Procs <- TwoProcs
  NoProc = NoProc
  Deployments = {"mcp"}
  Private = {}
  SourceOf <- MadeFrom
  MaxAsks <- OneEach
  MaxChildren = 3
  MaxFaults = 1
INVARIANTS
  TypeOK
  OneOwner
  OneChild
  StatusAgrees
CHECK_DEADLOCK FALSE
