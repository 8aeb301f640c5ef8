SPECIFICATION FairSpec
CONSTANTS
  Tasks = {t1, t2}
  NoTask = NoTask
  MaxDepth = 1
  MaxResumes = 1
  Leases = {l1, l2}
  NoLease = NoLease
  MaxRestarts = 1
  Receiving = {TRUE, FALSE}
  StagingMayFail = FALSE
INVARIANTS
  TypeOK
  OneActivePerContext
PROPERTIES
  TerminalFrozen
  ImplementsTree
  EveryTaskEnds
