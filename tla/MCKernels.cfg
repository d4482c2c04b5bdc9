CONSTANTS
  NodeCount = 4
  Weights <- SmallWeights
  LoopNodes = {0}
  MaxArcs = 4
  MaxUnweighted = 5
  Top = 3
  CheckEvery = 2
  None = None
SPECIFICATION MCSpec
INVARIANTS ShortestFound HeapWithinCharge CancelIsHeard ComponentsFound
PROPERTIES Returns
CHECK_DEADLOCK FALSE
