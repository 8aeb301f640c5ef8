SPECIFICATION Spec
CONSTANTS
  Tasks = {t1, t2}
  NoTask = NoTask
  MaxDepth = 1
  MaxResumes = 1
  Leases = {l1}
  NoLease = NoLease
  MaxRestarts = 0
  Receiving = {FALSE}
  StagingMayFail = TRUE
INVARIANT WorkerSettlesCancel
