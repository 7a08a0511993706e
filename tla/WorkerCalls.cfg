\* Every operation, with automatic retry by a scheduler whose budget the
\* worker shares.
CONSTANTS
  N = 2
  Workers = {w1, w2}
  Operators = {o1}
  MaxAttempts = 3
  WorkerBudget = 2
  SchedBudget = 2
  Calls = {"cancel_execution", "cancel_task", "reconcile", "recover"}
SPECIFICATION Spec
SYMMETRY Symmetry
INVARIANTS FailuresWithinBudget
CHECK_DEADLOCK FALSE
