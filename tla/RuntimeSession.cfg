CONSTANTS
  MaximumQueuedEvents = 2
  StrayServer = FALSE
  ShowReplyText = TRUE
  Faults = {"wifi", "link", "send", "audio", "provider"}
SPECIFICATION FairSpec
INVARIANTS
  ReplyOnlyWhenAsked
  DisplayAgrees
PROPERTIES
  EveryTurnEnds
  AttemptsEnd
