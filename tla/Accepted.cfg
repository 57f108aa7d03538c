\* All threads meet, and no broadcast is refused.
CONSTANTS
  Overlaps <- NoRefusals
  MaxKeys = 3
  MaxForeign = 1
SPECIFICATION Spec
CHECK_DEADLOCK FALSE
INVARIANTS
  KeptOnce
  ConfirmedInOrder
