\* A deletion next to a concurrent insertion.
CONSTANTS
  a = a
  b = b
  d = d
  none = none
  Clients <- TwoDevices
  NoParticipant = none
  Edits <- InsertsAndDeletes
  Freedoms <- Lockstep
  MaxInputs = 3
SPECIFICATION Spec
SYMMETRY AnyDevice
CHECK_DEADLOCK FALSE
INVARIANTS
  AccurateInOrder
