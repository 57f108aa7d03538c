\* The first calls of GetPrototype and descriptor(), with the scheduler's fairness.
CONSTANTS
  t1 = t1
  t2 = t2
  t3 = t3
  nobody = nobody
  NoThread = nobody
  Threads <- TwoThreads
  Needs <- DescriptorNeeds
  FileTypes <- ChangeSetTypes
  OtherTypes <- ForeignTypes
  Pool = 2
  Descriptors = 1
  Factory = 3
SPECIFICATION MFFairSpec
INVARIANTS
  InvokedOnce
  RegisteredOnce
  AllOrNone
PROPERTIES
  ReturnsInitialized
  AnswersInitialized
  PrototypesReturn
