SPECIFICATION FairSpec
CONSTANTS
  Caller = {c1, c2}
  NSteps = 3
  MaxAttempts = 4
  MaxConfig = 1
  MaxWorkers = 1
  MaxCrashes = 1
INVARIANTS OneCleanupAtATime NoRunDuringCleanup DeletedIsClean UnsettledHasOwner
PROPERTIES CallsAreCurrent DeleteAnswered
CHECK_DEADLOCK FALSE
