\* The other threads run inside the timer handler.
CONSTANTS
  a = a
  b = b
  d = d
  none = none
  Clients <- TwoDevices
  NoParticipant = none
  Edits <- InsertsOnly
  Freedoms <- TornTimer
  MaxInputs = 1
SPECIFICATION Spec
SYMMETRY AnyDevice
CHECK_DEADLOCK FALSE
INVARIANTS
  OnlyUnconfirmedWait
