SPECIFICATION Spec
CONSTANTS
  Works = {1}
  Agents = {"a", "b"}
  AgentOf <- OneAgent
  Slow = {}
  Runs = {"r1"}
  MaxTotal = 1
  MaxPerAgent = 1
  MaxInputs = 1
  MaxRequests = 1
  MaxRestarts = 1
CHECK_DEADLOCK FALSE
PROPERTY ResumeRetries
