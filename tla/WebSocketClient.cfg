SPECIFICATION FairSpec
CONSTANT Frames <- MCFrames
INVARIANTS
  Established
  StatusTruthful
  ClosedMeansClosed
  InSync
PROPERTIES
  Diagnosis
  FailureReported
  ImplementsLink
