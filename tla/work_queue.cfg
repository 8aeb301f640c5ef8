SPECIFICATION FairSpec
CONSTANTS
  Works = {1, 2, 3}
  Agents = {"a", "b"}
  AgentOf <- TwoAgents
  Slow = {"a"}
  Runs = {"r1", "r2"}
  MaxTotal = 2
  MaxPerAgent = 1
  MaxInputs = 1
  MaxRequests = 1
  MaxRestarts = 0
CHECK_DEADLOCK FALSE
PROPERTY SaturationIsLocal
