SPECIFICATION Spec
CONSTANTS
  NA = NA
  NMap = 2
  NReduce = 2
  Worker = {p, q}
  MaxCrashes = 0
  MaxTimeouts = 1
INVARIANTS MapsBeforeReduces
CHECK_DEADLOCK FALSE
