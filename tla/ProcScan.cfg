\* Three pids and four lives: processes come, go and change during the walk
\* through /proc and while the child copies the environment.
SPECIFICATION Spec
CONSTANTS
  MaxPid = 3
  Programs <- MCPrograms
  MaxLives = 4
  IdsFail = TRUE
  Faults = TRUE
INVARIANTS NotFoundMeansAbsent WholeOrGone
PROPERTY Decides
CHECK_DEADLOCK FALSE
