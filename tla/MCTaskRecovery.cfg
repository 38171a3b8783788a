SPECIFICATION Spec
CONSTANTS
  Pod = {p1}
  Sandbox = {}
  MaxRuns = 2
  MaxBoxes = 2
  MaxReworks = 1
  MaxCrashes = 1
  MaxVisits = 1
INVARIANTS PendingRecoveryHolds StopsOnce
CHECK_DEADLOCK FALSE
