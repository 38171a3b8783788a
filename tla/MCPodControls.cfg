SPECIFICATION ControlsSpec
CONSTANTS
  Killer = {k1, k2}
  Faults = TRUE
  MaxGen = 1
  MaxContainers = 2
  Question = {q1, q2}
  MaxBatch = 2
  MaxMessages = 2
  MaxRuns = 3
  MaxRestarts = 1
SYMMETRY Symmetry
INVARIANTS OneOwningWorker ConsumedInOrder
PROPERTIES  KillEndsItsOwn
CHECK_DEADLOCK FALSE
