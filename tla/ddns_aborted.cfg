CONSTANTS
  Names = {n1, n2}
  Addresses = {a1, a2}
  Options = {o1}
  Admins = {m1}
  MaxChanges = 3
  MaxFaults = 1
SPECIFICATION Spec
PROPERTIES SkipMeansUnchanged
CHECK_DEADLOCK FALSE
