SPECIFICATION MCSpec
CONSTANTS
  NA = NA
  Server = {a, b, c}
  Command = {x}
  MaxTerm = 2
  MaxIndex = 1
  MaxRestarts = 1
  Campaigners = {a, b}
  Appliers = {}
  Snapshotters = {}
SYMMETRY Symmetry
VIEW View
INVARIANTS RaftInvariant LeaderIsAlone ElectionSafety CommittedOnMajority
CHECK_DEADLOCK FALSE
