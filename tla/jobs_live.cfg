SPECIFICATION LiveSpec
CONSTANTS
  Job = {1}
  Slot = {1, 2}
  Source = {s1}
  Null = Null
  Worker = {w1}
  Retries = 1
  MaxDeliveries = 2
  MaxCrashes = 1
  Env = {"pause", "resume", "stop", "restart", "workercrash", "expire", "unexpected", "change", "index", "test"}
INVARIANT UnfinishedJobIsUnderWay
PROPERTIES ActiveJobSettles InterruptedJobLeavesRunning ConvertingSourceSettles
CHECK_DEADLOCK FALSE
