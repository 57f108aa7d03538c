------------------------------ MODULE OnceInit ------------------------------
(***************************************************************************)
(* GoogleOnceInit: the lazy initialisation by which every thread that      *)
(* touches the generated classes makes sure that descriptors, pool and     *)
(* factory are there. An initialiser may itself call GoogleOnceInit for    *)
(* other objects.                                                          *)
(*                                                                         *)
(* A step is one atomic operation on a once object, the start of a closure *)
(* or the end of what it writes. The processors of the devices reorder     *)
(* plain memory accesses, so a thread does not see what another one wrote  *)
(* because it was written earlier: a Release_Store publishes what the      *)
(* thread knows, and an Acquire_Load that reads that value learns it.      *)
(***************************************************************************)
EXTENDS Naturals, Sequences

CONSTANTS
  Threads,
  Needs     \* Needs[o]: the once objects the initialiser of o calls, in order

Objects == DOMAIN Needs

\* No initialiser calls itself, directly or by way of others: the objects are
\* numbered so that each calls only later ones.
ASSUME NeedsAssumption ==
  /\ Needs \in Seq(Seq(Nat))
  /\ \A o \in Objects : \A i \in DOMAIN Needs[o] :
       Needs[o][i] \in Objects /\ Needs[o][i] > o

VARIABLES
  once,       \* once[o]: the state of the once object
  published,  \* published[o]: the initialisations a thread learns from o
  runs,       \* runs[o]: how often the closure was started
  knows,      \* knows[t]: the initialisations whose writes t sees
  stack       \* stack[t]: the calls of GoogleOnceInit t is in: object, pc, and how
              \* many calls of the closure were begun

vars == <<once, published, runs, knows, stack>>

ONCE_STATE_UNINITIALIZED == 0
ONCE_STATE_EXECUTING_CLOSURE == 1
ONCE_STATE_DONE == 2

\* What the thread of the dynamic initialisation has initialised before it starts
\* any other thread: each initialiser with those it calls.
StaticallyDone(before) == \A o \in before : \A i \in DOMAIN Needs[o] : Needs[o][i] \in before

InitAfter(before) ==
  /\ once = [o \in Objects |-> IF o \in before THEN ONCE_STATE_DONE
                                             ELSE ONCE_STATE_UNINITIALIZED]
  /\ published = [o \in Objects |-> IF o \in before THEN before ELSE {}]
  /\ runs = [o \in Objects |-> IF o \in before THEN 1 ELSE 0]
  /\ knows = [t \in Threads |-> before]
  /\ stack = [t \in Threads |-> << >>]

Init == \E before \in SUBSET Objects : StaticallyDone(before) /\ InitAfter(before)

\* The innermost call of t.
Top(t) == stack[t][Len(stack[t])]
At(t, pc) == stack[t] # << >> /\ Top(t).pc = pc

Goto(t, pc) ==
  [stack EXCEPT ![t][Len(stack[t])].pc = pc]

Called(o) == [object |-> o, pc |-> "fast", n |-> 0]

Return(t) == stack' = [stack EXCEPT ![t] = SubSeq(@, 1, Len(@) - 1)]

\* An acquiring read of the object of t's call.
Acquire(t) == knows' = [knows EXCEPT ![t] = @ \cup published[Top(t).object]]

\* GoogleOnceInit is called by code that is not itself such an initialiser.
Call(t, o) ==
  /\ stack[t] = << >>
  /\ stack' = [stack EXCEPT ![t] = <<Called(o)>>]
  /\ UNCHANGED <<once, published, runs, knows>>

\* The inlined GoogleOnceInit.
FastPath(t) ==
  /\ At(t, "fast")
  /\ Acquire(t)
  /\ \/ once[Top(t).object] = ONCE_STATE_DONE /\ Return(t)
     \/ once[Top(t).object] # ONCE_STATE_DONE /\ stack' = Goto(t, "load")
  /\ UNCHANGED <<once, published, runs>>

\* GoogleOnceInitImpl looks again.
AcquireLoad(t) ==
  /\ At(t, "load")
  /\ Acquire(t)
  /\ \/ once[Top(t).object] = ONCE_STATE_DONE /\ Return(t)
     \/ once[Top(t).object] # ONCE_STATE_DONE /\ stack' = Goto(t, "swap")
  /\ UNCHANGED <<once, published, runs>>

\* Mutant of AcquireCompareAndSwap: the object is not marked.
CompareOnly(t) ==
  /\ At(t, "swap")
  /\ Acquire(t)
  /\ \/ /\ once[Top(t).object] = ONCE_STATE_UNINITIALIZED
        /\ stack' = Goto(t, "closure")
     \/ /\ once[Top(t).object] = ONCE_STATE_EXECUTING_CLOSURE
        /\ stack' = Goto(t, "wait")
     \/ /\ once[Top(t).object] = ONCE_STATE_DONE
        /\ Return(t)
  /\ UNCHANGED <<once, published, runs>>

AcquireCompareAndSwap(t) ==
  /\ At(t, "swap")
  /\ Acquire(t)
  /\ \/ /\ once[Top(t).object] = ONCE_STATE_UNINITIALIZED
        /\ once' = [once EXCEPT ![Top(t).object] = ONCE_STATE_EXECUTING_CLOSURE]
        /\ stack' = Goto(t, "closure")
     \/ /\ once[Top(t).object] = ONCE_STATE_EXECUTING_CLOSURE
        /\ stack' = Goto(t, "wait")
        /\ UNCHANGED once
     \/ /\ once[Top(t).object] = ONCE_STATE_DONE
        /\ Return(t)
        /\ UNCHANGED once
  /\ UNCHANGED <<published, runs>>

\* closure->Run() begins.
RunClosure(t) ==
  /\ At(t, "closure")
  /\ runs' = [runs EXCEPT ![Top(t).object] = @ + 1]
  /\ stack' = Goto(t, "run")
  /\ UNCHANGED <<once, published, knows>>

\* The closure makes the next call of its own ...
CallNeeded(t) ==
  /\ At(t, "run")
  /\ Top(t).n < Len(Needs[Top(t).object])
  /\ LET n == Top(t).n + 1
     IN  stack' = [stack EXCEPT ![t] =
                     Append([@ EXCEPT ![Len(@)].n = n],
                            Called(Needs[Top(t).object][n]))]
  /\ UNCHANGED <<once, published, runs, knows>>

\* ... and has written what it initialises.
EndClosure(t) ==
  /\ At(t, "run")
  /\ Top(t).n = Len(Needs[Top(t).object])
  /\ knows' = [knows EXCEPT ![t] = @ \cup {Top(t).object}]
  /\ stack' = Goto(t, "store")
  /\ UNCHANGED <<once, published, runs>>

\* Mutant of ReleaseStore: a plain store.
StoreNoBarrier(t) ==
  /\ At(t, "store")
  /\ once' = [once EXCEPT ![Top(t).object] = ONCE_STATE_DONE]
  /\ Return(t)
  /\ UNCHANGED <<published, runs, knows>>

ReleaseStore(t) ==
  /\ At(t, "store")
  /\ once' = [once EXCEPT ![Top(t).object] = ONCE_STATE_DONE]
  /\ published' = [published EXCEPT ![Top(t).object] = knows[t]]
  /\ Return(t)
  /\ UNCHANGED <<runs, knows>>

\* SchedYield and the acquiring load, until another thread has done it.
Wait(t) ==
  /\ At(t, "wait")
  /\ once[Top(t).object] # ONCE_STATE_EXECUTING_CLOSURE
  /\ Acquire(t)
  /\ Return(t)
  /\ UNCHANGED <<once, published, runs>>

Step(t) ==
  \/ FastPath(t) \/ AcquireLoad(t) \/ AcquireCompareAndSwap(t)
  \/ RunClosure(t) \/ CallNeeded(t) \/ EndClosure(t) \/ ReleaseStore(t)
  \/ Wait(t)

Next == \E t \in Threads : Step(t) \/ \E o \in Objects : Call(t, o)

Spec == Init /\ [][Next]_vars

-----------------------------------------------------------------------------
TypeOK ==
  /\ once \in [Objects -> 0..2]
  /\ published \in [Objects -> SUBSET Objects]
  /\ runs \in [Objects -> Nat]
  /\ knows \in [Threads -> SUBSET Objects]
  /\ stack \in [Threads -> Seq([object : Objects,
                                pc : {"fast", "load", "swap", "closure", "run",
                                      "store", "wait"},
                                n : Nat])]

\* GoogleOnceInit "will invoke init_func on the first call only" (once.h:48).
InvokedOnce == \A o \in Objects : runs[o] <= 1

\* ... "and will make sure none of the calls return before that first call to
\* init_func has finished" (once.h:48): the thread a call returns to sees what the
\* initialiser wrote, and what the initialisers it called wrote, whichever threads
\* ran them.
ReturnsInitialized ==
  [][\A t \in Threads :
       Len(stack'[t]) < Len(stack[t]) =>
         LET o == stack[t][Len(stack[t])].object
         IN  o \in knows'[t] /\ \A i \in DOMAIN Needs[o] : Needs[o][i] \in knows'[t]]_vars
=============================================================================
