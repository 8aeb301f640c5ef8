SPECIFICATION FairSpec
CONSTANTS
  Works = {1}
  Agents = {"a", "b"}
  AgentOf <- OneAgent
  Slow = {}
  Runs = {"r1", "r2"}
  MaxTotal = 2
  MaxPerAgent = 2
  MaxInputs = 2
  MaxRequests = 2
  MaxRestarts = 1
INVARIANTS
  TypeOK
  AnswersAreHonest
PROPERTIES
  StopStands
  StartsUnanswered
  CancelEnds
CHECK_DEADLOCK FALSE
