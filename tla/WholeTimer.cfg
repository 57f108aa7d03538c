\* All but a torn timer handler and edits outside the session.
CONSTANTS
  a = a
  b = b
  d = d
  none = none
  Clients <- TwoDevices
  NoParticipant = none
  Edits <- AllEdits
  Freedoms <- WholeTimer
  MaxInputs = 3
SPECIFICATION Spec
SYMMETRY AnyDevice
CHECK_DEADLOCK FALSE
INVARIANTS
  TypeOK
  SendMatchesLog
  NothingLost
  GlobalFollowsLog
PROPERTIES
  ImplementsOrderedLog
  LineKept
