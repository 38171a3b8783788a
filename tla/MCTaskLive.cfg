SPECIFICATION FairSpec
CONSTANTS
  Pod = {p1}
  Sandbox = {p1}
  MaxRuns = 2
  MaxBoxes = 2
  MaxReworks = 1
  MaxCrashes = 1
  MaxVisits = 1
PROPERTIES ObservedRunSettles
CHECK_DEADLOCK FALSE
