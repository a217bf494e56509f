SPECIFICATION Spec
CONSTANTS
  Job = {1}
  Slot = {1, 2}
  Source = {s1, s2}
  Null = Null
  Worker = {w1}
  Retries = 1
  MaxDeliveries = 2
  MaxCrashes = 1
  Env = {"pause", "stop", "restart", "webcrash", "workercrash", "expire", "unexpected", "dberror", "change", "test"}
SYMMETRY SourceSymmetry
INVARIANTS TypeOK RunningItemHasRunningJob ClaimedSourceIsOwned
PROPERTY ImplementsLedger
CHECK_DEADLOCK FALSE
