SPECIFICATION ScenarioSpec
CONSTANTS
  NA = NA
  a = a
  b = b
  c = c
  x = x
  y = y
  Server = {a, b, c}
  Command = {x, y}
  MaxTerm = 4
  MaxIndex = 2
  MaxRestarts = 1
  Campaigners = {b}
  Appliers = {a, b}
  Snapshotters = {b}
VIEW ScenarioView
INVARIANTS TypeOK AppliedInOrder LogMatching LeaderCompleteness StateMachineSafety AppendCoversCommit LogAccessInRange CommittedOnMajority
PROPERTIES ServiceMovesForward CommandsGetApplied
CHECK_DEADLOCK FALSE
