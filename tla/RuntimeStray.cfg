\* Every fault, and a server that sends any event at any time.
CONSTANTS
  MaximumQueuedEvents = 2
  StrayServer = TRUE
  ShowReplyText = FALSE
  Faults = {"reboot", "wifi", "link", "send", "audio", "provider"}
SPECIFICATION Spec
INVARIANTS
  BusOwnership
  Quiesced
  ProviderSettled
  MutedOutsideRecording
  RecordingNeedsPress
PROPERTIES
  FreshDeadlines
  NoTruncatedTurn
  DrivesLink
