CONSTANTS
  Procs = {p1}
  MaxStarts = 1
  MaxTroubles = 0
SPECIFICATION Spec
INVARIANT OneRunAtATime
CHECK_DEADLOCK FALSE
