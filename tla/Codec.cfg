\* Change sets encoded on one device and decoded on another, and any other data.
CONSTANTS
  WordBits = 22
  IntBits = 8
  RecursionLimit = 3
  Inputs <- AllBytes
  Messages <- ChangeSets
  DeviceSets <- SomeSets
SPECIFICATION BWFairSpec
CHECK_DEADLOCK FALSE
INVARIANTS
  TypeOK
  LimitsNest
  DepthBounded
  RoundTrip
  ParseIsMerge
  CutIsPrefix
  ArrivesAsSent
PROPERTIES
  MakesProgress
  Decoded
