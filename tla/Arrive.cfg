\* Broadcasts that are refused and repeated.
CONSTANTS
  a = a
  b = b
  d = d
  none = none
  Clients <- TwoDevices
  NoParticipant = none
  Edits <- InsertsOnly
  Freedoms <- RefusedBursts
  MaxInputs = 2
SPECIFICATION FairSpec
CHECK_DEADLOCK FALSE
PROPERTIES
  EveryEditArrives
