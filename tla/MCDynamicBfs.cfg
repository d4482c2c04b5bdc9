SPECIFICATION Spec
CONSTANTS
  N = 4
  NoNode = 4
  Starts <- AllStarts
  MaxBatch = 2
  MaxEvents = 2
INVARIANT DistancesUpdated
CHECK_DEADLOCK FALSE
