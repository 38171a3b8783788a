SPECIFICATION KickSpec
CONSTANTS
  Pod = {p1, p2}
  Drainer = {d1}
  MaxConcurrency = 1
  MaxRequests = 4
  MaxWedges = 0
INVARIANT OneProcessPodPerPod
CHECK_DEADLOCK FALSE
