\* The clock wraps in any position of a recording and a debouncing.
CONSTANTS
  ClockSize = 16
  Debounce = 2
  Period = 2
  MinRecording = 2
  MaxRecording = 3
  MaxStall = 2
SPECIFICATION Spec
INVARIANTS
  RecordingWithinLimits
PROPERTIES
  Debounced
  FramesSpaced
