--------------------------- MODULE MessageFactory ---------------------------
(***************************************************************************)
(* GeneratedMessageFactory: the prototypes of the generated classes. The   *)
(* file's registration function is recorded before main, and run by the    *)
(* first GetPrototype that misses a type: look under the lock, lock again, *)
(* look again, register every type of the file. On the way it calls        *)
(* GoogleOnceInit for the pool, the descriptors and the factory.           *)
(*                                                                         *)
(* The lock orders memory as an Acquire_Load and a Release_Store do: who   *)
(* locks it learns what was known when it was unlocked. ReaderMutexLock    *)
(* and WriterMutexLock are both the exclusive MutexLock.                   *)
(***************************************************************************)
EXTENDS OnceInit, FiniteSets

CONSTANTS
  FileTypes,     \* the message types of the file, in the order of registration
  OtherTypes,    \* types of other descriptor pools
  Pool, Descriptors, Factory,   \* their once objects
  NoThread

Types == {FileTypes[n] : n \in DOMAIN FileTypes}

\* A type has one descriptor, which is in one pool.
ASSUME TypesAssumption ==
  /\ FileTypes \in Seq(Types)
  /\ \A m, n \in DOMAIN FileTypes : FileTypes[m] = FileTypes[n] => m = n
  /\ OtherTypes \cap Types = {}

\* No initialiser asks for the descriptors of the file.
ASSUME PartsAssumption ==
  /\ {Pool, Descriptors, Factory} \subseteq Objects
  /\ \A o \in Objects : \A i \in DOMAIN Needs[o] : Needs[o][i] # Descriptors

ASSUME NoThreadAssumption == NoThread \notin Threads

VARIABLES
  type_map,    \* the types that are registered
  mutex,       \* who holds mutex_
  unlocked,    \* what was known when it was last unlocked
  call,        \* call[t]: GetPrototype of t: pc, type, types it registered
  fatal        \* "Type is already registered"

mfVars == <<type_map, mutex, unlocked, call, fatal>>

NoCall == [pc |-> "idle", type |-> "", n |-> 0]

\* The static initialiser of changeSet.pb.cc has run: pool, factory and what they
\* need are there, the file is in file_map_.
AtStartup == Objects \ {Descriptors}

MFInit ==
  /\ InitAfter(AtStartup)
  /\ type_map = {}
  /\ mutex = NoThread
  /\ unlocked = {}
  /\ call = [t \in Threads |-> NoCall]
  /\ fatal = FALSE

\* t is in GetPrototype at pc, and not inside a GoogleOnceInit.
In(t, pc) == call[t].pc = pc /\ stack[t] = << >>
Proceed(t, pc) == call' = [call EXCEPT ![t].pc = pc]
Answer(t) == call' = [call EXCEPT ![t] = NoCall]

GetPrototype(t, type) ==
  /\ In(t, "idle")
  /\ call' = [call EXCEPT ![t] = [pc |-> "look", type |-> type, n |-> 0]]
  /\ UNCHANGED <<vars, type_map, mutex, unlocked, fatal>>

\* Under the lock, which is given back before anything else happens.
Look(t) ==
  /\ In(t, "look")
  /\ mutex = NoThread
  /\ knows' = [knows EXCEPT ![t] = @ \cup unlocked]
  /\ unlocked' = knows'[t]
  /\ IF call[t].type \in type_map THEN Answer(t) ELSE Proceed(t, "pool")
  /\ UNCHANGED <<once, published, runs, stack, type_map, mutex, fatal>>

\* A call of GoogleOnceInit, after which GetPrototype goes on at pc.
Initialize(t, o, pc) ==
  /\ Call(t, o)
  /\ Proceed(t, pc)
  /\ UNCHANGED <<type_map, mutex, unlocked, fatal>>

AskPool(t) == In(t, "pool") /\ Initialize(t, Pool, "ours")

\* Mutant of CheckPool: a type of another pool is looked for again.
LookAgain(t) ==
  /\ In(t, "ours")
  /\ Proceed(t, IF call[t].type \in OtherTypes THEN "look" ELSE "lock")
  /\ UNCHANGED <<vars, type_map, mutex, unlocked, fatal>>

\* A type of another pool has no prototype here.
CheckPool(t) ==
  /\ In(t, "ours")
  /\ IF call[t].type \in OtherTypes THEN Answer(t) ELSE Proceed(t, "lock")
  /\ UNCHANGED <<vars, type_map, mutex, unlocked, fatal>>

\* Mutant of Lock: "Check if another thread preempted us" is missing.
LockWithoutLook(t) ==
  /\ In(t, "lock")
  /\ mutex = NoThread
  /\ mutex' = t
  /\ knows' = [knows EXCEPT ![t] = @ \cup unlocked]
  /\ Proceed(t, "assign")
  /\ UNCHANGED <<once, published, runs, stack, type_map, unlocked, fatal>>

Lock(t) ==
  /\ In(t, "lock")
  /\ mutex = NoThread
  /\ mutex' = t
  /\ knows' = [knows EXCEPT ![t] = @ \cup unlocked]
  /\ Proceed(t, IF call[t].type \in type_map THEN "unlock" ELSE "assign")
  /\ UNCHANGED <<once, published, runs, stack, type_map, unlocked, fatal>>

\* The registration function, protobuf_RegisterTypes.
AssignDescriptors(t) == In(t, "assign") /\ Initialize(t, Descriptors, "next")

AskFactory(t) ==
  /\ In(t, "next")
  /\ call[t].n < Len(FileTypes)
  /\ Initialize(t, Factory, "register")

RegisterType(t) ==
  /\ In(t, "register")
  /\ LET type == FileTypes[call[t].n + 1]
     IN  /\ type_map' = type_map \cup {type}
         /\ fatal' = (fatal \/ type \in type_map)
  /\ call' = [call EXCEPT ![t].pc = "next", ![t].n = @ + 1]
  /\ UNCHANGED <<vars, mutex, unlocked>>

\* Mutant of EndRegistration: the last type may be left out.
EndRegistrationEarly(t) ==
  /\ In(t, "next")
  /\ call[t].n + 1 >= Len(FileTypes)
  /\ Proceed(t, "unlock")
  /\ UNCHANGED <<vars, type_map, mutex, unlocked, fatal>>

EndRegistration(t) ==
  /\ In(t, "next")
  /\ call[t].n = Len(FileTypes)
  /\ Proceed(t, "unlock")
  /\ UNCHANGED <<vars, type_map, mutex, unlocked, fatal>>

\* Mutant of Unlock: the lock does not order memory.
UnlockNoBarrier(t) ==
  /\ In(t, "unlock")
  /\ mutex' = NoThread
  /\ Answer(t)
  /\ UNCHANGED <<vars, type_map, unlocked, fatal>>

\* The destructor of the lock: GetPrototype returns.
Unlock(t) ==
  /\ In(t, "unlock")
  /\ mutex' = NoThread
  /\ unlocked' = knows[t]
  /\ Answer(t)
  /\ UNCHANGED <<vars, type_map, fatal>>

\* descriptor() and GetMetadata() of a generated class, outside GetPrototype.
Descriptor(t) == In(t, "idle") /\ Call(t, Descriptors) /\ UNCHANGED mfVars

InOnceInit(t) == Step(t) /\ UNCHANGED mfVars

Goes(t) ==
  \/ InOnceInit(t)
  \/ AskPool(t) \/ CheckPool(t)
  \/ AssignDescriptors(t) \/ AskFactory(t) \/ RegisterType(t) \/ EndRegistration(t)
  \/ Unlock(t)

MFNext ==
  \E t \in Threads :
    \/ Goes(t) \/ Look(t) \/ Lock(t) \/ Descriptor(t)
    \/ \E type \in Types \cup OtherTypes : GetPrototype(t, type)

MFSpec == MFInit /\ [][MFNext]_<<vars, mfVars>>

\* The scheduler lets every thread run that can. The lock itself need not be fair: a
\* type is missed only until the file is registered, so that only finitely many calls
\* ever lock for writing.
MFFairSpec ==
  MFSpec /\ \A t \in Threads : WF_<<vars, mfVars>>(Goes(t) \/ Look(t) \/ Lock(t))

-----------------------------------------------------------------------------
\* "Type is already registered" (message.cc:295) is never logged: of threads that
\* miss a type at the same time one registers the file.
RegisteredOnce == ~fatal

\* Whoever registers holds the lock (AssertHeld, message.cc:293), and without it one
\* sees all types of the file or none.
AllOrNone ==
  /\ mutex = NoThread => type_map \in {{}, Types}
  /\ \A t \in Threads :
       call[t].pc \in {"assign", "next", "register", "unlock"} <=> mutex = t

\* "This factory is 100% thread-safe" (message.h:725): a GetPrototype for a type of
\* the file returns with the type registered, to a thread that sees the descriptors
\* its prototype refers to, whichever thread assigned them.
AnswersInitialized ==
  [][\A t \in Threads :
       (call[t].pc # "idle" /\ call'[t].pc = "idle" /\ call[t].type \in Types) =>
         call[t].type \in type_map /\ Descriptors \in knows'[t]]_<<vars, mfVars>>

\* Every GetPrototype returns, although the lock is held across GoogleOnceInit.
PrototypesReturn == \A t \in Threads : call[t].pc # "idle" ~> call[t].pc = "idle"
=============================================================================
