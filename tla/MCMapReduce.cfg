SPECIFICATION FairSpec
CONSTANTS
  NA = NA
  NMap = 2
  NReduce = 2
  Worker = {p, q}
  MaxCrashes = 1
  MaxTimeouts = 0
INVARIANTS RemainCounts OutputIsComplete
PROPERTIES ImplementsJob EverybodyExits
CHECK_DEADLOCK FALSE
