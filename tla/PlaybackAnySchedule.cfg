\* Every interleaving of the two cores.
CONSTANTS
  Capacity = 4
  Watermark = 3
  Chunk = 2
  MaxAttempts = 2
  MaxTurns = 2
  MaxUnits = 6
  CancelGivesUp = FALSE
SPECIFICATION EnqueueFairSpec
INVARIANTS
  NoWriteOffBus
  Conserved
  DrainedAfterInput
PROPERTIES
  StartsPrebuffered
  TurnDrains
  EnqueueReturns
CHECK_DEADLOCK FALSE
