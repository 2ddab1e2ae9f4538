CONSTANTS
  Runs = {r1}
  Callers = {c1}
  Sweepers = {}
  MaxRetries = 1
  MaxCrashes = 0
  KillMayFail = FALSE
  WaitMayFail = FALSE
  DbMayFail = FALSE
SPECIFICATION Spec
INVARIANT CancelWhileQueuedNeverStarts
CHECK_DEADLOCK FALSE
