SPECIFICATION Spec
CONSTANTS
  Job = {1, 2}
  Slot = {1}
  Source = {s1}
  Null = Null
  Worker = {w1, w2}
  Retries = 1
  MaxDeliveries = 1
  MaxCrashes = 1
  Env = {"stop", "webcrash", "workercrash", "unexpected", "change"}
SYMMETRY WorkerSourceSymmetry
INVARIANTS OneRunPerJob RunHoldsLease
CHECK_DEADLOCK FALSE
