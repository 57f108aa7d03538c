\* Encodings that were cut off.
CONSTANTS
  WordBits = 22
  IntBits = 8
  RecursionLimit = 3
  Inputs <- CutOff
  Messages <- ChangeSets
  DeviceSets <- SomeSets
SPECIFICATION BWSpec
CHECK_DEADLOCK FALSE
INVARIANTS
  CutIsRejected
