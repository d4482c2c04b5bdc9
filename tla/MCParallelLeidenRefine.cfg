CONSTANTS
  Threads = {t1, t2}
  N = 4
  Chunk = 2
  Oversize = 2
  Cases <- RefineCases
SPECIFICATION Spec
INVARIANT HostsStay
CHECK_DEADLOCK FALSE
