\* A redo after a keystroke.
CONSTANTS
  a = a
  b = b
  d = d
  none = none
  Clients <- OneDevice
  NoParticipant = none
  Edits <- InsertsOnly
  Freedoms <- UndoAlone
  MaxInputs = 4
SPECIFICATION Spec
CHECK_DEADLOCK FALSE
INVARIANTS
  RedoClearedByInput
