\* Concurrent insertions, one of a device at a time, broadcasts may be refused.
CONSTANTS
  a = a
  b = b
  d = d
  none = none
  Clients <- TwoDevices
  NoParticipant = none
  Edits <- InsertsOnly
  Freedoms <- RefusedLockstep
  MaxInputs = 4
SPECIFICATION Spec
SYMMETRY AnyDevice
CHECK_DEADLOCK FALSE
INVARIANTS
  TextIsReplay
  GlobalStacksAgree
  Converged
