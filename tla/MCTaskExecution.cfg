SPECIFICATION Spec
CONSTANTS
  Pod = {p1, p2}
  Sandbox = {p2}
  MaxRuns = 2
  MaxBoxes = 2
  MaxReworks = 0
  MaxCrashes = 1
  MaxVisits = 0
INVARIANTS LiveWorkerIsRecorded DeletionIsAlone
PROPERTIES SettledOnEvidence ImplementsCustody
CHECK_DEADLOCK FALSE
