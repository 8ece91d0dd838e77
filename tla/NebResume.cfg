CONSTANTS
  Policy = "relax"
  Climb = TRUE
  Interval = 2
  StageSteps = 2
  MaxAttempts = 3
  MaxRaises = 0
SPECIFICATION NebSpec
PROPERTY BandKept
CHECK_DEADLOCK FALSE
