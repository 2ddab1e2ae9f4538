CONSTANTS
  Names = {n1, n2}
  Addresses = {a1, a2}
  Options = {o1, o2}
  Admins = {m1}
  MaxChanges = 3
  MaxFaults = 1
SPECIFICATION FairSpec
INVARIANTS TypeOK MemoryIsPublished
PROPERTIES SkipIsSafe Converges
CHECK_DEADLOCK FALSE
