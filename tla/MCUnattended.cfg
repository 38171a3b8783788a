SPECIFICATION PartsSpec
CONSTANTS
  Pod = {p}
  Signature = {s, ready}
  Quiet = quiet
  Ready = {ready}
  Action = {approve, kick}
  NoAction = noAction
  Approve = approve
  OncePerWindow = {approve}
  OncePerPod = {kick}
  MaxDecisions = 2
  MaxActions = 2
  MaxGen = 2
  MaxWindow = 1
  MaxCrashes = 1
  MaxChanges = 1
  j1 = j1
  j2 = j2
  r1 = r1
  r2 = r2
  Job = {j1, j2}
  Report = {r1, r2}
  JobOf <- Runs
  Bounded = {j1}
  Finding = {f1, f2}
  Key = {k1, k2}
  Launcher = {l1}
  Scheduled = {s1, s2}
  Composable = {s1}
  Op = {o1, o2}
  MaxRestarts = 1
  Period = {1, 2}
  MaxTime = 2
  MaxPods = 2
  MaxEdits = 1
SYMMETRY Same
INVARIANTS  FindingsNeverLost OccurrenceOnce
PROPERTIES ActsOnce ActsUnderAuthority
CHECK_DEADLOCK FALSE
