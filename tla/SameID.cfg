\* The framework decodes an event while the user types.
CONSTANTS
  Overlaps <- KeysAndDecoding
  MaxKeys = 3
  MaxForeign = 1
SPECIFICATION Spec
CHECK_DEADLOCK FALSE
INVARIANTS
  LocallyUnique
