CONSTANTS
  Weights = {1, 2}
  Infinite = 99
  Invalid = Invalid
  None = None
  Names = {a, b, c}
  Stranger = x
  MaxRows = 3
  AdoptSize = 2
  MaxSlots = 2
SPECIFICATION Spec
INVARIANTS GraphValid PropertiesFollow ViewAgrees
PROPERTIES AcceptsSimple
CHECK_DEADLOCK FALSE
