\* Two configurations, interruptions, and a flash that fails in the ways that
\* leave most in doubt.
CONSTANTS
  Configs = {c1, c2}
  None = None
  Garbage = Garbage
  Faults = {"write", "corrupt", "misread", "ambiguous"}
  PayloadSize = 2
  MaximumLine = 2
  WireSize = 1
SPECIFICATION Spec
INVARIANTS
  OneHostsConfig
