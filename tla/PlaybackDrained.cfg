SPECIFICATION Spec
CONSTANTS
  Capacity = 4
  Watermark = 3
  Chunk = 2
  MaxAttempts = 2
  MaxTurns = 2
  MaxUnits = 6
  CancelGivesUp = FALSE
INVARIANT DrainedMeansPlayed
CHECK_DEADLOCK FALSE
