SPECIFICATION Spec
CONSTANTS
  Pod = {p1, p2}
  Input = {i1, i2}
  Key = {k1}
  Budget = 1
  MaxGen = 1
  MaxAttempts = 3
SYMMETRY Same
CONSTRAINT ReworkedAlone
INVARIANTS OneExecution BudgetHolds OpenIsOwned
CHECK_DEADLOCK FALSE
