\* A day of 8 seconds, every time of day and wake time, and everything that
\* may disturb a night.  The interval changes at any time: 0 is no pause, and
\* 3 wraps to a pause of 1.
SPECIFICATION Spec
CONSTANTS
  Intervals = {0, 1, 3}
  Micro = 4
  Word = 8
  CutNum = 2
  CutDen = 3
  MaxWindow = 2
  MaxIdle = 4
  Hours = 2
  Minutes = 2
  Seconds = 2
  MaxSlip = 1
  Disturbances = {"late", "summer", "refused", "woken", "broken"}
INVARIANT RingsOnTime
PROPERTIES GoneIsWoken LongSleepEnds
CHECK_DEADLOCK FALSE
