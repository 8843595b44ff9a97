\* Whole games on a board of four cells, with restarts; the player comes and goes.
SPECIFICATION Spec
CONSTANTS
  SIZE = 2
  Threshold <- Thresholds
  Goal = 27
  PlayerDies = TRUE
  Quits = TRUE
INVARIANTS ScoreIsWorth DirectionsAgree VolumeEarned WonIsQuiet
CHECK_DEADLOCK FALSE
