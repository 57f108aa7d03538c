\* Two refused broadcasts in a row.
CONSTANTS
  a = a
  b = b
  d = d
  none = none
  Clients <- OneDevice
  NoParticipant = none
  Edits <- InsertsOnly
  Freedoms <- RefusedBursts
  MaxInputs = 3
SPECIFICATION Spec
CHECK_DEADLOCK FALSE
INVARIANTS
  ChangeSetSorted
