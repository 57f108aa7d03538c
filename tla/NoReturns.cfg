\* All threads meet, but not while a refused change set returns.
CONSTANTS
  Overlaps <- NoReturns
  MaxKeys = 2
  MaxForeign = 1
SPECIFICATION Spec
CHECK_DEADLOCK FALSE
INVARIANTS
  KeptOnce
