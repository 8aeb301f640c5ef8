SPECIFICATION FairSpec
CONSTANTS
  MaxMessages = 2
  MaxFiles = 2
  MaxFailures = 1
  MaxCrashes = 1
INVARIANTS
  TypeOK
  SentAtMostOnce
  OutcomeIsThePeers
  QuestionIsCurrent
CHECK_DEADLOCK FALSE
PROPERTY EveryRemoteTaskEnds
