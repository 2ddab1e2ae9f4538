CONSTANTS
  Runs = {r1}
  Callers = {c1, c2}
  Sweepers = {}
  MaxRetries = 1
  MaxCrashes = 0
  KillMayFail = FALSE
  WaitMayFail = FALSE
  DbMayFail = FALSE
SPECIFICATION FairSpec
INVARIANTS TypeOK QueuedCancelNeverStarts RegistriesClean
PROPERTIES KeepsContract RunEnds RequestHonoured
CHECK_DEADLOCK FALSE
