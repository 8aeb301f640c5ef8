SPECIFICATION Spec
CONSTANTS
  Tasks = {t1, t2, t3}
  NoTask = NoTask
  MaxDepth = 2
  MaxResumes = 1
  Leases = {l1}
  NoLease = NoLease
  MaxRestarts = 0
  Receiving = {FALSE}
  StagingMayFail = TRUE
SYMMETRY Symmetry
INVARIANTS
  NoOrphanedWork
  ChildrenAreJoined
  SessionExclusive
