SPECIFICATION Spec
CONSTANTS
  Works = {1, 2, 3}
  Agents = {"a", "b"}
  AgentOf <- OneAgent
  Slow = {}
  Runs = {"r1", "r2", "r3", "r4"}
  MaxTotal = 2
  MaxPerAgent = 2
  MaxInputs = 2
  MaxRequests = 1
  MaxRestarts = 0
CHECK_DEADLOCK FALSE
INVARIANT LimitObeyed
