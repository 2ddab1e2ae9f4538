CONSTANTS
  Runs = {r1}
  Callers = {c1}
  Sweepers = {}
  MaxRetries = 1
  MaxCrashes = 0
  KillMayFail = TRUE
  WaitMayFail = FALSE
  DbMayFail = FALSE
SPECIFICATION Spec
INVARIANT CancelledMeansStopped
CHECK_DEADLOCK FALSE
