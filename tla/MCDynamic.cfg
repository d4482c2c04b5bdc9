SPECIFICATION Spec
CONSTANTS
  N = 4
  NoNode = 4
  Starts <- AllStarts
  MaxBatch = 2
  MaxEvents = 2
INVARIANTS
  ComponentsExact
  DistancesExact
  SameAsRecomputed
PROPERTY
  UpdatesSettle
CHECK_DEADLOCK FALSE
