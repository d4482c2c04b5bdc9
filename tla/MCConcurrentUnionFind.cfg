CONSTANTS
  Threads = {t1, t2}
  N = 4
  Stale = TRUE
  Starts <- Both
  None = None
  MaxCalls = 1
SPECIFICATION FairSpec
INVARIANT Climbs
PROPERTIES ImplementsDisjointSets Returns
CHECK_DEADLOCK FALSE
