SPECIFICATION FairSpec
CONSTANTS
  Messages = {"turn", "command", "later"}
  Queues = {"chat"}
  Connections = {"channel"}
  QueueOf <- OneQueue
  ConnectionOf <- OneChannel
  Commands = {"command", "later"}
  MaxAttempts = 2
  MaxQueued = 2
  MaxFaults = 2
INVARIANTS
  TypeOK
  AnsweredOnce
  InOrder
PROPERTIES
  EveryMessageSettles
CHECK_DEADLOCK FALSE
