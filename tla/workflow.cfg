CONSTANTS
  t1 = t1
  t2 = t2
  Flows = {w1}
  Templates = {t1, t2}
  Definitions <- SomeDefinitions
  Admins = {m1, m2}
  MaxSteps = 4
  MaxChanges = 2
  MaxFaults = 1
SPECIFICATION FairSpec
INVARIANTS TypeOK OneAtATime SuccessIsWhole EndsClean
PROPERTIES FlowEnds
CHECK_DEADLOCK FALSE
