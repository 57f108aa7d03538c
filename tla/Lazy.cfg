\* Threads that touch descriptors, pool, factory and shutdown list for the first time.
CONSTANTS
  t1 = t1
  t2 = t2
  t3 = t3
  Threads <- ThreeThreads
  Needs <- DescriptorNeeds
SPECIFICATION Spec
SYMMETRY AnyThread
INVARIANTS
  TypeOK
  InvokedOnce
PROPERTIES
  ReturnsInitialized
