\* Every line of four cells.
SPECIFICATION SlideSpec
CONSTANTS
  SIZE = 4
  MaxTile = 5
INVARIANTS TargetInArray ComputesRule
CHECK_DEADLOCK FALSE
