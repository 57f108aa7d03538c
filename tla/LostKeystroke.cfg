\* A keystroke comes in while a refused change set returns.
CONSTANTS
  Overlaps <- KeysAndReturns
  MaxKeys = 2
  MaxForeign = 0
SPECIFICATION Spec
CHECK_DEADLOCK FALSE
INVARIANTS
  KeptOnce
