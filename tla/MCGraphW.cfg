CONSTANTS
  Weights = {1, 2}
  Values = {a}
  None = None
  Settings <- Sound
SPECIFICATION Spec
VIEW view
INVARIANT Consistent
PROPERTIES RemovalsKeep ImplementsStore
CHECK_DEADLOCK FALSE
