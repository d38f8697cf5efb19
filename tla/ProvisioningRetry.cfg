\* Interruptions, then a host that keeps trying over flash that works.
CONSTANTS
  Configs = {c1}
  None = None
  Garbage = Garbage
  Faults = {}
  PayloadSize = 2
  MaximumLine = 2
  WireSize = 2
SPECIFICATION FairSpec
PROPERTY RetrySucceeds
