\* A playback failure and the turn after it.
CONSTANTS
  MaximumQueuedEvents = 2
  StrayServer = FALSE
  ShowReplyText = FALSE
  Faults = {"audio"}
SPECIFICATION Spec
INVARIANT FailureBelongsToTurn
