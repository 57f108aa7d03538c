\* A change set refused before any event was received.
CONSTANTS
  a = a
  b = b
  d = d
  none = none
  Clients <- OneDevice
  NoParticipant = none
  Edits <- InsertsOnly
  Freedoms <- BeforeSession
  MaxInputs = 2
SPECIFICATION Spec
CHECK_DEADLOCK FALSE
INVARIANTS
  AddedBack
