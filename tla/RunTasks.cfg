\* Two workers, a crash at any step and the recovery after it.
CONSTANTS
  Tasks = {1, 2}
  Attempts <- MCAttempts
  DependsOn <- Chain
  Workers = {w1, w2}
  Capacity = 1
  SlowSetup = TRUE
  MaxFaults = 1
SPECIFICATION Spec
SYMMETRY Symmetry
INVARIANTS AcceptedWorkStands InstancesAccounted NoPoisonedRetry
CHECK_DEADLOCK FALSE
