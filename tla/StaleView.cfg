\* Two users who insert, one operation of each on its way, while blocks are waiting.
CONSTANTS
  a = a
  b = b
  d = d
  none = none
  Clients <- TwoDevices
  NoParticipant = none
  Edits <- InsertsOnly
  Freedoms <- Overlapping
  MaxInputs = 2
SPECIFICATION Spec
SYMMETRY AnyDevice
CHECK_DEADLOCK FALSE
INVARIANTS
  AccurateInOrder
