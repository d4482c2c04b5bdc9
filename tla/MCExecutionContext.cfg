CONSTANTS
  Threads = {t1, t2}
  Limit = 3
  Sizes = {1, 2, 3}
  UsizeMax = 7
SPECIFICATION ObsSpec
INVARIANTS Accounted
PROPERTIES RefusalJustified ImplementsBudget ReserveReturns CancelDrains
