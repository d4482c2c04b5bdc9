CONSTANTS
  Threads = {t1, t2}
  Handles = {h1, h2, h3}
  Rids = {r1, r2, r3}
  None = None
  N = 2
  Slots = 1
  Weighted = TRUE
  Limit = 100
SPECIFICATION Spec
INVARIANTS GraphInv NoLeak BuffersCharged
PROPERTIES PrepareReturns
CHECK_DEADLOCK FALSE
