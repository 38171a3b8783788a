SPECIFICATION ThrowSpec
CONSTANTS
  Pod = {p1}
  Sandbox = {p1}
  MaxRuns = 2
  MaxBoxes = 2
  MaxReworks = 1
  MaxCrashes = 1
  MaxVisits = 1
CHECK_DEADLOCK FALSE
INVARIANT ReleasedWorkerIsDead
