\* The default deployment: two workers, crashes, lease expiry, restarts and
\* cancellation, while nobody retries a task or reconciles one.
CONSTANTS
  N = 2
  Workers = {w1, w2}
  Operators = {o1}
  MaxAttempts = 2
  WorkerBudget = 0
  SchedBudget = 0
  Calls = {"cancel_execution", "cancel_task", "recover"}
SPECIFICATION FairSpec
INVARIANTS SingleOwner NoLostWakeup
PROPERTIES ImplementsContract Settles
CHECK_DEADLOCK FALSE
