CONSTANTS
  Loops = {l1, l2}
  Total = 2
  MaxImports = 2
  MaxFaults = 1
SPECIFICATION Spec
INVARIANTS TypeOK ListedOnDisk CompletedIsWhole RunningTabWorks ImportingHasImport
SYMMETRY LoopSymmetry
CHECK_DEADLOCK FALSE
