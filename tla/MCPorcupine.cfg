SPECIFICATION MCSpec
CONSTANTS
  NumOps = 3
  Operation <- Operations
INVARIANTS VerdictIsRight ListIsHistory PartialsAreLongest
PROPERTY Terminates
CHECK_DEADLOCK FALSE
