SPECIFICATION FairSpec
CONSTANTS
  Pod = {p1, p2, p3, p4}
  Drainer = {d1}
  MaxConcurrency = 3
  MaxRequests = 6
  MaxWedges = 2
INVARIANT SlotsMatchRuns
PROPERTIES DrainWaits ImplementsDispatch WaiterRuns DeferredRuns DrainCompletes
CHECK_DEADLOCK FALSE
