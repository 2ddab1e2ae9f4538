CONSTANTS
  b1 = b1
  b2 = b2
  Tabs = {b1, b2}
  Requests <- SomeRequests
  MaxSignIns = 1
  MaxExpiries = 2
  MaxClicks = 1
  MaxFaults = 1
SPECIFICATION FairSpec
INVARIANTS TypeOK UsableUnlessLost
PROPERTIES SignsOutOnlyDead RefreshesOnce Renews
CHECK_DEADLOCK FALSE
