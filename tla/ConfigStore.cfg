\* Every fault but the two that leave the active slot's number in doubt: an
\* activation that fails and takes effect, and a number that is not read.
CONSTANTS
  Configs = {c1, c2}
  None = None
  Garbage = Garbage
  Faults = {"open", "write", "corrupt", "read", "activate", "remove"}
SPECIFICATION Spec
INVARIANTS
  RunsWhatIsStored
PROPERTY ImplementsRegister
