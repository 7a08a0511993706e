\* One migration at a time over three types, one record and two instances,
\* beside everything else.
CONSTANTS
  Types = {t1, t2, t3}
  Records = {r1}
  Instances = {i1, i2}
  Requests = {q1}
  MaxLimit = 2
  MaxSnapshots = 2
  None = None
SPECIFICATION TopologySpec
SYMMETRY Symmetry
PROPERTIES WithinLimit NothingLeftBehind RollbackReturns
CHECK_DEADLOCK FALSE
