CONSTANTS
  Runs = {r1}
  Callers = {c1}
  Sweepers = {s1}
  MaxRetries = 1
  MaxCrashes = 1
  KillMayFail = FALSE
  WaitMayFail = FALSE
  DbMayFail = FALSE
SPECIFICATION FairSpec
PROPERTIES OrphansSettled
CHECK_DEADLOCK FALSE
