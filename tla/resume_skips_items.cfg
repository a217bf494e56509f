SPECIFICATION Spec
CONSTANTS
  Job = {1}
  Slot = {1, 2}
  Source = {s1, s2}
  Null = Null
  Worker = {w1}
  Retries = 1
  MaxDeliveries = 1
  MaxCrashes = 0
  Env = {"pause", "resume"}
INVARIANT CompletedJobIsDone
CHECK_DEADLOCK FALSE
