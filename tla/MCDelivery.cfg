SPECIFICATION HalvesSpec
CONSTANTS
  Pod = {p1, p2}
  MaxPrs = 2
  MaxGen = 2
  MaxSource = 3
  MaxSends = 3
  MaxLost = 1
  MaxCrashes = 1
  CanSchedule = TRUE
INVARIANTS OneRequest MergedIsReal
PROPERTIES PushesSpareRequests CreatesOnce
CHECK_DEADLOCK FALSE
