\* Insertions at any time.
CONSTANTS
  a = a
  b = b
  d = d
  none = none
  Clients <- TwoDevices
  NoParticipant = none
  Edits <- InsertsOnly
  Freedoms <- Bursts
  MaxInputs = 3
SPECIFICATION Spec
SYMMETRY AnyDevice
CHECK_DEADLOCK FALSE
INVARIANTS
  InsertsSurvive
  ShownFits
PROPERTIES
  CaretKeepsItsPlace
