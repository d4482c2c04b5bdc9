CONSTANTS
  prepared = prepared
  attributed = attributed
  Writers = {prepared, attributed}
  Readers = {r1}
  MaxDamage = 2
  Torn = Torn
  Absent = Absent
  PartsOf <- MCPartsOf
SPECIFICATION StoreSpec
INVARIANTS StoreInv AcceptedIsPublished
PROPERTIES OkIsComplete PublishedUntouched
CHECK_DEADLOCK FALSE
