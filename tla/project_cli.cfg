CONSTANTS
  MaxRuns = 2
  MaxActive = 1
  MaxKept = 1
  MaxCrashes = 1
  MaxDbFailures = 1
SPECIFICATION FairSpec
INVARIANTS TypeOK InterruptedExplained ProcessesBounded PrunedAreOld
PROPERTIES RowLifecycle CancelFreesSlot RowsSettle
CHECK_DEADLOCK FALSE
