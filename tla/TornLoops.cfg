\* The timer empties the stacks under the stack queue's loops.
CONSTANTS
  Overlaps <- TimerOverlaps
  MaxKeys = 1
  MaxForeign = 1
SPECIFICATION Spec
CHECK_DEADLOCK FALSE
INVARIANTS
  WaitingAdjustedOnce
