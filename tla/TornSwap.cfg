\* A refused change set returns while the timer takes the local stack.
CONSTANTS
  Overlaps <- TimerAndReturns
  MaxKeys = 2
  MaxForeign = 0
SPECIFICATION Spec
CHECK_DEADLOCK FALSE
INVARIANTS
  AtomicSwap
