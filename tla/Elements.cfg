\* Two repeated fields and their caller, with arrays that start at 2 slots.
CONSTANTS
  FieldNames <- TwoFields
  Parts <- OnePart
  kMinRepeatedFieldAllocationSize = 2
  MaxObjects = 3
  MaxOwn = 2
  MaxReserve = 3
SPECIFICATION Spec
INVARIANTS
  TypeOK
  OwnedOnce
  ClearedAreClear
PROPERTIES
  GrowsWhenFull
  ImplementsLists
