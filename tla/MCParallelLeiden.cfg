CONSTANTS
  Threads = {t1, t2}
  N = 4
  Chunk = 2
  Oversize = 2
  Cases <- AllCases
SPECIFICATION Spec
INVARIANTS OwnedOnce LastLookIsFresh VolumesFit RefinedSound
PROPERTIES RoundEnds
CHECK_DEADLOCK FALSE
