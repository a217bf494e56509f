SPECIFICATION Spec
CONSTANTS
  Job = {1}
  Slot = {1, 2}
  Source = {s1}
  Null = Null
  Worker = {w1}
  Retries = 1
  MaxDeliveries = 1
  MaxCrashes = 1
  Env = {"pause", "resume", "stop", "restart", "delete", "webcrash", "workercrash", "enqfail", "expire", "unexpected", "dberror", "change", "remove"}
INVARIANT QueuedSourceHasItem
CHECK_DEADLOCK FALSE
