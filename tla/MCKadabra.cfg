CONSTANTS
  Workers = 2
  Batch = 1
  Quota = 1
  Omega = 9
  MaxSamples = 3
  MaxAhead = 3
SPECIFICATION Spec
INVARIANTS FramesApart SumIsWhole
PROPERTIES SamplingEnds
CHECK_DEADLOCK FALSE
