SPECIFICATION FairSpec
CONSTANTS
  t1 = t1
  c1 = c1
  c2 = c2
  Turns = {t1}
  Calls = {c1, c2}
  MaxChunks = 3
INVARIANTS
  TypeOK
  OneEnding
  OutcomesAreHonest
  VerdictIsCertain
PROPERTIES
  SettledFrozen
  SubscriberEnds
CHECK_DEADLOCK FALSE
