\* Three users who insert.
CONSTANTS
  a = a
  b = b
  d = d
  none = none
  Clients <- ThreeDevices
  NoParticipant = none
  Edits <- InsertsOnly
  Freedoms <- Lockstep
  MaxInputs = 4
SPECIFICATION Spec
SYMMETRY AnyDevice
CHECK_DEADLOCK FALSE
INVARIANTS
  GlobalStacksAgree
