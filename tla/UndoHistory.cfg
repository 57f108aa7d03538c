\* One user: keystrokes, undos and redos, each on an idle device.
CONSTANTS
  a = a
  b = b
  d = d
  none = none
  Clients <- OneDevice
  NoParticipant = none
  Edits <- Keystrokes
  Freedoms <- UndoAlone
  MaxInputs = 7
SPECIFICATION Spec
CHECK_DEADLOCK FALSE
INVARIANTS
  UndoRedoHistory
