SPECIFICATION FairSpec
CONSTANTS
  Turns = {"t1", "t2"}
  Sessions = {"s1", "s2"}
  Agents = {"agent"}
  SessionOf <- OwnSession
  AgentOf <- OneAgent
  Patient = {"t2"}
  Limits <- TwoLimits
  NoTurn = NoTurn
  Cancellable = {"t1"}
  MaxViewers = 1
  MaxUpkeep = 2
  MaxFaults = 1
INVARIANTS
  TypeOK
  Accounted
  WaitsForAReason
PROPERTIES
  Undisturbed
  EveryTurnEnds
CHECK_DEADLOCK FALSE
