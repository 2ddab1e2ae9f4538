CONSTANTS
  Sessions = {1, 2}
  Connects = {c1, c2}
  HistoryChunks = 1
  Capacity = 1
  MaxAttempts = 1
  MaxOutput = 2
  MaxClicks = 2
  MaxFaults = 2
SPECIFICATION Spec
INVARIANTS TypeOK NoGap NeverStuck
SYMMETRY ConnectSymmetry
CHECK_DEADLOCK FALSE
