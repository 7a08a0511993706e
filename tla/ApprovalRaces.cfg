SPECIFICATION MCSpec
CONSTANTS
  e1 = e1
  e2 = e2
  shell = shell
  look = look
  other = other
  p1 = p1
  p2 = p2
  Executions = {e1, e2}
  Tools = {shell}
  Shapes = {look, other}
  Hardline <- MCHardline
  ReadOnly <- MCReadOnly
  Answers <- MCAnswers
  Answerers = {p1, p2}
  Ttl = 1
  ZoneShift = 0
  MaxRows = 2
  MaxTime = 1
  MaxRestarts = 1
SYMMETRY Symmetric
INVARIANTS AllowedIsCovered  NoButtonLost
CHECK_DEADLOCK FALSE
