\* Keystrokes come in while the stack queue works, but not while a refused change set returns.
CONSTANTS
  Overlaps <- KeysOverlap
  MaxKeys = 3
  MaxForeign = 2
SPECIFICATION Spec
CHECK_DEADLOCK FALSE
INVARIANTS
  TypeOK
  NoException
  WaitingAdjustedOnce
  KeptOnce
  ConfirmationsCome
