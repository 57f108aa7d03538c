\* Undo pressed twice within a second.
CONSTANTS
  a = a
  b = b
  d = d
  none = none
  Clients <- OneDevice
  NoParticipant = none
  Edits <- InsertsOnly
  Freedoms <- UndoBursts
  MaxInputs = 3
SPECIFICATION Spec
CHECK_DEADLOCK FALSE
INVARIANTS
  UndosDiffer
