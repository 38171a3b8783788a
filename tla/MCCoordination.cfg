SPECIFICATION PartsFairSpec
CONSTANTS
  Key = {k1, k2}
  NoKey = NoKey
  MaxCalls = 4
  PollKey = {pod}
  MaxOwners = 3
  MaxTicks = 2
  root = root
  left = left
  right = right
  tip = tip
  Pod = {root, left, right, tip}
  Parents <- Graph
  Shared = {tip}
  WaitForMerge = {left}
  Composed = {root, left, right, tip}
  Quiet = {tip}
  MaxRounds = 2
  Desktop = TRUE
  PageSize = 2
  MaxReplay = 3
  MaxEvents = 7
  MaxDrops = 2
INVARIANTS OneOperation StartsAfterParents CaughtUp
PROPERTIES EveryCallRuns DependentRuns
CHECK_DEADLOCK FALSE
