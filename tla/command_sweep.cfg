CONSTANTS
  Runs = {r1}
  Callers = {c1}
  Sweepers = {s1}
  MaxRetries = 1
  MaxCrashes = 1
  KillMayFail = TRUE
  WaitMayFail = TRUE
  DbMayFail = TRUE
SPECIFICATION Spec
INVARIANTS AttemptsBounded SuccessMeansZeroExit
PROPERTIES RetryOnlyAfterFailure NoStartAfterAck
CHECK_DEADLOCK FALSE
