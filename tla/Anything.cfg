\* Everything the program allows.
CONSTANTS
  a = a
  b = b
  d = d
  none = none
  Clients <- TwoDevices
  NoParticipant = none
  Edits <- AllEdits
  Freedoms <- Everything
  MaxInputs = 2
SPECIFICATION Spec
SYMMETRY AnyDevice
CHECK_DEADLOCK FALSE
INVARIANTS
  GlobalFollowsLog
