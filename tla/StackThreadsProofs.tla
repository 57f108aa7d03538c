------------------------- MODULE StackThreadsProofs -------------------------
(***************************************************************************)
(* Which overlap of two threads each promise needs to be excluded, for any *)
(* number of keystrokes and foreign operations: no loop of the stack queue *)
(* raises an exception as long as no tick of the timer comes in between,   *)
(* and no operation is lost or doubled as long as the main thread stays    *)
(* away while a refused change set returns. As long as both hold, a        *)
(* foreign operation adjusts each waiting one once, and the confirmations  *)
(* come in the order of sendStack and find the operation they were made    *)
(* of, although operation IDs repeat.                                      *)
(***************************************************************************)
EXTENDS StackThreads, StackManagerProofs, FiniteSetTheorems

\* The turns of removeObject.
Removes(f, S, stack, o) ==
  /\ f[0] = << >> /\ f[Len(stack)] = Without(stack, o)
  /\ \A k \in 0..Len(stack) : f[k] \in Seq(S)
  /\ \A k \in 1..Len(stack) :
       f[k] = IF stack[k] = o THEN f[k - 1] ELSE Append(f[k - 1], stack[k])

LEMMA WithoutRuns ==
  ASSUME NEW S, NEW stack \in Seq(S), NEW o
  PROVE  \E f : Removes(f, S, stack, o)
<1> DEFINE Stacks == Seq(S)
           n == Len(stack)
           Moved(r, k) == IF stack[k] = o THEN r ELSE Append(r, stack[k])
           Carries(f) == f = [k \in 0..n |-> IF k = 0 THEN << >> ELSE Moved(f[k - 1], k)]
           step == [k \in 1..n |-> [r \in Stacks |-> Moved(r, k)]]
           carried == CHOOSE f : Carries(f)
<1>1. \A r \in Stacks : \A k \in 1..n : Moved(r, k) \in Stacks
  OBVIOUS
<1>2. Without(stack, o) = carried[n] /\ n \in Nat /\ << >> \in Stacks
  BY DEF Without
<1> HIDE DEF Moved, n, Stacks
<1>3. PICK f : IsRun(f, n, Stacks, << >>, step)
  <2>1. step \in [1..n -> [Stacks -> Stacks]]
    BY <1>1
  <2> HIDE DEF step
  <2> QED  BY <1>2, <2>1, LoopRuns
<1>4. Carries(f)
  <2>1. ASSUME NEW k \in 0..n, k # 0
        PROVE  f[k] = Moved(f[k - 1], k)
    <3>1. k \in 1..n /\ k - 1 \in 0..n
      BY <1>2, <2>1
    <3>2. f[k - 1] \in Stacks /\ f[k] = step[k][f[k - 1]]
      BY <1>3, <3>1 DEF IsRun
    <3> QED  BY <3>1, <3>2
  <2> QED  BY <1>3, <2>1 DEF IsRun
<1>5. Carries(carried)
  <2> HIDE DEF Carries
  <2> QED  BY <1>4
<1> HIDE DEF carried
<1>6. carried[0] = << >> /\ \A k \in 1..n : carried[k] = Moved(carried[k - 1], k)
  BY <1>2, <1>5
<1>7. \A k \in 1..n : carried[k - 1] \in Stacks => carried[k] \in Stacks
  BY <1>1, <1>6
<1>8. \A k \in 0..n : carried[k] \in Stacks
  BY <1>2, <1>6, <1>7, LoopKeeps
<1>9. Removes(carried, S, stack, o)
  BY <1>2, <1>6, <1>8 DEF Removes, Stacks, n, Moved
<1> QED
  BY <1>9

\* removeObject of a stack leaves a stack.
LEMMA WithoutIsStack ==
  ASSUME NEW S, NEW stack \in Seq(S), NEW o
  PROVE  Without(stack, o) \in Seq(S)
<1>1. PICK f : Removes(f, S, stack, o)
  BY WithoutRuns
<1>2. Len(stack) \in 0..Len(stack)
  OBVIOUS
<1> QED
  BY <1>1, <1>2 DEF Removes

-----------------------------------------------------------------------------
(* Types.                                                                  *)

OpType == [operationID : Nat, state : {"LOCAL", "SEND", "GLOBAL"}]

Blocks ==
  [kind : {"new"}, items : Seq(Items)] \cup [kind : {"local"}, items : Seq(Indexes)]

Pcs == {"idle", "item", "end", "copy", "assign", "confirm", "show"} \cup DOMAIN After

Workers ==
  [pc : Pcs, items : Seq(Items) \cup Seq(Indexes), i : Nat, tested : BOOLEAN, mark : Nat,
   copy : Seq(Indexes), present : SUBSET Indexes,
   carried : Seq(Indexes), adjusted : Seq(Indexes)]

\* The parts of the type invariant.
HeapTyped ==
  /\ ops \in Seq(OpType)
  /\ local \in Seq(Indexes) /\ send \in Seq(Indexes) /\ global \in Seq(Indexes)
  /\ changes \in Nat /\ nextID \in Nat

Mains ==
  [pc : {"idle"} \cup KeySteps \cup TickSteps, id : Nat \cup {NoID},
   same : BOOLEAN, array : Seq(Indexes)]

MainTyped ==
  /\ main \in Mains
  /\ main.pc = "counted" => main.id # NoID
  /\ main.pc \in {"made", "receiver"} => ops # << >>

NetTyped ==
  /\ net \in [done : Nat, id : Nat \cup {NoID}]
  /\ session \in Seq(Seq(Items))
  /\ foreign \in Nat /\ alive \in BOOLEAN

QueueTyped ==
  /\ blocks \in Seq(Blocks)
  /\ worker \in Workers
  /\ worker.pc \in {"copy", "assign"} => worker.items \in Seq(Indexes)
  /\ worker.pc \notin {"idle", "copy", "assign"} => worker.items \in Seq(Items)
  /\ worker.pc \notin {"idle", "item", "copy", "assign"} => worker.items # << >>

Typed == HeapTyped /\ MainTyped /\ NetTyped /\ QueueTyped

LEMMA TypedIsTypeOK == Typed => TypeOK
<1> SUFFICES ASSUME Typed PROVE TypeOK
  OBVIOUS
<1>1. \A k \in DOMAIN blocks :
        \/ blocks[k].kind = "new" /\ blocks[k].items \in Seq(Items)
        \/ blocks[k].kind = "local" /\ blocks[k].items \in Seq(Indexes)
  <2>1. \A k \in DOMAIN blocks : blocks[k] \in Blocks
    BY DEF Typed, QueueTyped
  <2> QED
    BY <2>1 DEF Blocks
<1>2. WorkerTyped
  BY DEF Typed, QueueTyped, WorkerTyped, Workers, Pcs
<1> QED
  BY <1>1, <1>2 DEF Typed, HeapTyped, MainTyped, Mains, NetTyped, TypeOK, OpType

\* The sets depend on the operations' number alone.
LEMMA SameIndexes ==
  ASSUME HeapTyped, ops' \in Seq(OpType), Len(ops') = Len(ops)
  PROVE  /\ Indexes' = Indexes /\ Blocks' = Blocks /\ Workers' = Workers /\ Mains' = Mains
         /\ ops' = << >> <=> ops = << >>
<1>1. Indexes' = Indexes
  BY DEF HeapTyped, Indexes
<1> QED
  BY <1>1 DEF HeapTyped, Blocks, Workers, Mains

LEMMA OperationAt ==
  ASSUME HeapTyped, NEW o \in Indexes
  PROVE  /\ ops[o] \in OpType /\ ops[o].operationID \in Nat
         /\ \A st \in {"LOCAL", "SEND", "GLOBAL"} : [ops[o] EXCEPT !.state = st] \in OpType
<1>1. ops[o] \in OpType
  BY DEF HeapTyped, Indexes
<1> QED
  BY <1>1 DEF OpType

LEMMA FunctionIsSequence ==
  ASSUME NEW S, NEW T, NEW s \in Seq(S), NEW f,
         DOMAIN f = DOMAIN s, \A k \in DOMAIN s : f[k] \in T, f = [k \in DOMAIN s |-> f[k]]
  PROVE  f \in Seq(T) /\ Len(f) = Len(s)
<1>1. f \in [1..Len(s) -> T] /\ Len(s) \in Nat
  OBVIOUS
<1> QED
  BY <1>1

LEMMA KeystrokeTyped ==
  ASSUME Typed, Keystroke
  PROVE  Typed'
<1> USE DEF KeySteps, TickSteps, NoID
<1>1. CASE LoadOperationID
  <2>1. ops' = ops /\ Len(ops') = Len(ops)
    BY <1>1 DEF LoadOperationID, heap
  <2>2. Indexes' = Indexes /\ Blocks' = Blocks /\ Workers' = Workers /\ Mains' = Mains
    BY <2>1, SameIndexes DEF Typed, HeapTyped
  <2>3. main' \in Mains /\ main'.pc = "counted" /\ main'.id # NoID
    <3>1. /\ main \in Mains /\ nextID \in Nat
          /\ main' = [main EXCEPT !.pc = "counted", !.id = nextID]
      BY <1>1 DEF LoadOperationID, Typed, HeapTyped, MainTyped
    <3>2. DOMAIN main = {"pc", "id", "same", "array"}
      BY <3>1 DEF Mains
    <3>3. main'.pc = "counted" /\ main'.id = nextID
      BY <3>1, <3>2
    <3>4. nextID # NoID
      BY <3>1
    <3>5. main' \in Mains
      BY <3>1 DEF Mains
    <3> QED
      BY <3>3, <3>4, <3>5
  <2>4. HeapTyped'
    BY <1>1, <2>2 DEF LoadOperationID, heap, Typed, HeapTyped
  <2>5. NetTyped' /\ QueueTyped'
    BY <1>1, <2>2 DEF LoadOperationID, Typed, NetTyped, QueueTyped
  <2> QED
    BY <2>2, <2>3, <2>4, <2>5 DEF Typed, MainTyped
<1>2. CASE StoreOperationID
  <2> DEFINE op == [operationID |-> main.id, state |-> "LOCAL"]
  <2>1. /\ ops \in Seq(OpType) /\ main.id \in Nat /\ op \in OpType
        /\ ops' = Append(ops, op)
    BY <1>2 DEF StoreOperationID, Typed, HeapTyped, MainTyped, Mains, OpType
  <2> HIDE DEF op
  <2>2. ops' \in Seq(OpType) /\ Indexes \subseteq Indexes' /\ ops' # << >>
    BY <2>1 DEF Indexes
  <2>3. \A s \in Seq(Indexes) : s \in Seq(Indexes')
    BY <2>2
  <2>4. HeapTyped'
    BY <1>2, <2>1, <2>2, <2>3 DEF StoreOperationID, Typed, HeapTyped
  <2>5. MainTyped'
    BY <1>2, <2>2, <2>3 DEF StoreOperationID, Typed, MainTyped, Mains
  <2>6. Blocks \subseteq Blocks' /\ Workers \subseteq Workers'
    BY <2>2, <2>3 DEF Blocks, Workers
  <2>7. blocks' \in Seq(Blocks') /\ worker' \in Workers' /\ worker' = worker
    BY <1>2, <2>6 DEF StoreOperationID, Typed, QueueTyped
  <2>8. QueueTyped'
    BY <2>3, <2>7 DEF Typed, QueueTyped
  <2>9. NetTyped'
    BY <1>2 DEF StoreOperationID, Typed, NetTyped
  <2> QED
    BY <2>4, <2>5, <2>8, <2>9 DEF Typed
<1>3. CASE FindLocalStack
  <2>1. ops' = ops /\ Len(ops') = Len(ops)
    BY <1>3 DEF FindLocalStack, heap
  <2>2. Indexes' = Indexes /\ Blocks' = Blocks /\ Workers' = Workers /\ Mains' = Mains
    BY <2>1, SameIndexes DEF Typed, HeapTyped
  <2>3. main' \in Mains /\ main'.pc = "receiver" /\ ops # << >>
    BY <1>3 DEF FindLocalStack, Typed, MainTyped, Mains
  <2>4. HeapTyped'
    BY <1>3, <2>2 DEF FindLocalStack, heap, Typed, HeapTyped
  <2>5. NetTyped' /\ QueueTyped'
    BY <1>3, <2>2 DEF FindLocalStack, Typed, NetTyped, QueueTyped
  <2> QED
    BY <2>1, <2>2, <2>3, <2>4, <2>5 DEF Typed, MainTyped
<1>4. CASE AddToLocalStack
  <2>1. ops' = ops /\ Len(ops') = Len(ops)
    BY <1>4 DEF AddToLocalStack
  <2>2. Indexes' = Indexes /\ Blocks' = Blocks /\ Workers' = Workers /\ Mains' = Mains
    BY <2>1, SameIndexes DEF Typed, HeapTyped
  <2>3. Len(ops) \in Indexes
    BY <1>4 DEF AddToLocalStack, Typed, HeapTyped, MainTyped, Indexes
  <2>4. HeapTyped'
    BY <1>4, <2>2, <2>3 DEF AddToLocalStack, Typed, HeapTyped
  <2>5. main' \in Mains /\ main'.pc = "idle"
    BY <1>4 DEF AddToLocalStack, IdleMain, Mains
  <2>6. NetTyped' /\ QueueTyped'
    BY <1>4, <2>2 DEF AddToLocalStack, Typed, NetTyped, QueueTyped
  <2> QED
    BY <2>2, <2>4, <2>5, <2>6 DEF Typed, MainTyped
<1> QED
  BY <1>1, <1>2, <1>3, <1>4 DEF Keystroke

LEMMA TickTyped ==
  ASSUME Typed, Tick
  PROVE  Typed'
<1> USE DEF KeySteps, TickSteps, NoID
<1>1. CASE FindLocalOperations
  <2>1. ops' = ops /\ Len(ops') = Len(ops)
    BY <1>1 DEF FindLocalOperations, heap
  <2>2. Indexes' = Indexes /\ Blocks' = Blocks /\ Workers' = Workers /\ Mains' = Mains
    BY <2>1, SameIndexes DEF Typed, HeapTyped
  <2>3. main' \in Mains /\ main'.pc = "found"
    <3>1. /\ main \in Mains
          /\ main' = [main EXCEPT !.pc = "found", !.same = TRUE]
      BY <1>1 DEF FindLocalOperations, Typed, MainTyped
    <3> QED
      BY <3>1 DEF Mains
  <2>4. HeapTyped'
    BY <1>1, <2>2 DEF FindLocalOperations, heap, Typed, HeapTyped
  <2>5. NetTyped' /\ QueueTyped'
    BY <1>1, <2>2 DEF FindLocalOperations, Typed, NetTyped, QueueTyped
  <2> QED
    BY <2>2, <2>3, <2>4, <2>5 DEF Typed, MainTyped
<1>2. CASE SwapLocalStack
  <2>1. ops' = ops /\ Len(ops') = Len(ops)
    BY <1>2 DEF SwapLocalStack
  <2>2. Indexes' = Indexes /\ Blocks' = Blocks /\ Workers' = Workers /\ Mains' = Mains
    BY <2>1, SameIndexes DEF Typed, HeapTyped
  <2>3. Found \in Seq(Indexes)
    BY DEF Found, Typed, HeapTyped, MainTyped, Mains
  <2>4. main' \in Mains /\ main'.pc \in {"idle", "swapped"}
    <3>1. CASE main' = IdleMain
      BY <3>1 DEF Mains, IdleMain
    <3>2. CASE main' = [main EXCEPT !.pc = "swapped", !.same = FALSE, !.array = Found]
      BY <2>3, <3>2 DEF Mains, Typed, MainTyped
    <3> QED
      BY <1>2, <3>1, <3>2 DEF SwapLocalStack
  <2>5. HeapTyped'
    BY <1>2, <2>2 DEF SwapLocalStack, Typed, HeapTyped
  <2>6. NetTyped' /\ QueueTyped'
    BY <1>2, <2>2 DEF SwapLocalStack, Typed, NetTyped, QueueTyped
  <2> QED
    BY <2>2, <2>4, <2>5, <2>6 DEF Typed, MainTyped
<1>3. CASE BroadcastChangeSet
  <2>1. ops' = ops /\ Len(ops') = Len(ops)
    BY <1>3 DEF BroadcastChangeSet, heap
  <2>2. Indexes' = Indexes /\ Blocks' = Blocks /\ Workers' = Workers /\ Mains' = Mains
    BY <2>1, SameIndexes DEF Typed, HeapTyped
  <2>3. main' \in Mains /\ main'.pc = "accepted"
    <3>1. main \in Mains /\ main' = [main EXCEPT !.pc = "accepted"]
      BY <1>3 DEF BroadcastChangeSet, Typed, MainTyped
    <3> QED
      BY <3>1 DEF Mains
  <2>4. session' \in Seq(Seq(Items))
    <3> DEFINE taken == main.array
               event == [k \in DOMAIN taken |->
                           [mine |-> TRUE, id |-> ops[taken[k]].operationID, op |-> taken[k]]]
    <3>1. taken \in Seq(Indexes)
      BY DEF Typed, MainTyped, Mains
    <3>2. ASSUME NEW k \in DOMAIN taken
          PROVE  event[k] \in Items
      <4>1. taken[k] \in Indexes
        BY <3>1
      <4>2. ops[taken[k]].operationID \in Nat
        BY <4>1, OperationAt DEF Typed
      <4>3. taken[k] \in Nat
        BY <4>1 DEF Indexes, Typed, HeapTyped
      <4> QED
        BY <4>2, <4>3 DEF Items
    <3>3. event \in Seq(Items)
      <4>1. DOMAIN event = DOMAIN taken /\ event = [k \in DOMAIN taken |-> event[k]]
        OBVIOUS
      <4> HIDE DEF event, taken
      <4> QED
        BY <3>1, <3>2, <4>1, FunctionIsSequence
    <3>4. session' = Append(session, event)
      BY <1>3 DEF BroadcastChangeSet
    <3> HIDE DEF event
    <3> QED
      BY <3>3, <3>4 DEF Typed, NetTyped
  <2>5. HeapTyped'
    BY <1>3, <2>2 DEF BroadcastChangeSet, heap, Typed, HeapTyped
  <2>6. NetTyped' /\ QueueTyped'
    BY <1>3, <2>2, <2>4 DEF BroadcastChangeSet, Typed, NetTyped, QueueTyped
  <2> QED
    BY <2>2, <2>3, <2>5, <2>6 DEF Typed, MainTyped
<1>4. CASE AddChangeSetToLocal
  <2>1. ops' = ops /\ Len(ops') = Len(ops)
    BY <1>4 DEF AddChangeSetToLocal, heap
  <2>2. Indexes' = Indexes /\ Blocks' = Blocks /\ Workers' = Workers /\ Mains' = Mains
    BY <2>1, SameIndexes DEF Typed, HeapTyped
  <2>3. main' \in Mains /\ main'.pc = "idle"
    BY <1>4 DEF AddChangeSetToLocal, IdleMain, Mains
  <2>4. blocks' \in Seq(Blocks)
    <3>1. [kind |-> "local", items |-> main.array] \in Blocks
      BY DEF Typed, MainTyped, Mains, Blocks
    <3> QED
      BY <1>4, <3>1 DEF AddChangeSetToLocal, Typed, QueueTyped
  <2>5. HeapTyped'
    BY <1>4, <2>2 DEF AddChangeSetToLocal, heap, Typed, HeapTyped
  <2>6. NetTyped' /\ QueueTyped'
    BY <1>4, <2>2, <2>4 DEF AddChangeSetToLocal, Typed, NetTyped, QueueTyped
  <2> QED
    BY <2>2, <2>3, <2>5, <2>6 DEF Typed, MainTyped
<1>5. CASE PutIntoSendStack
  <2> DEFINE taken == main.array
             Marked(o) == IF o \in Range(taken) THEN [ops[o] EXCEPT !.state = "SEND"] ELSE ops[o]
  <2>1. ops' \in Seq(OpType) /\ Len(ops') = Len(ops)
    <3>1. \A o \in Indexes : Marked(o) \in OpType
      BY OperationAt DEF Typed
    <3>2. ops' = [o \in DOMAIN ops |-> Marked(o)]
      BY <1>5 DEF PutIntoSendStack
    <3> HIDE DEF Marked
    <3>3. /\ DOMAIN ops' = DOMAIN ops /\ ops' = [o \in DOMAIN ops |-> ops'[o]]
          /\ \A o \in DOMAIN ops : ops'[o] \in OpType
      BY <3>1, <3>2 DEF Indexes
    <3> QED
      BY <3>3, FunctionIsSequence DEF Typed, HeapTyped
  <2>2. Indexes' = Indexes /\ Blocks' = Blocks /\ Workers' = Workers /\ Mains' = Mains
    BY <2>1, SameIndexes DEF Typed
  <2>3. main' \in Mains /\ main'.pc = "idle"
    BY <1>5 DEF PutIntoSendStack, IdleMain, Mains
  <2>4. send' \in Seq(Indexes) /\ changes' \in Nat
    BY <1>5 DEF PutIntoSendStack, Typed, HeapTyped, MainTyped, Mains
  <2>5. HeapTyped'
    BY <1>5, <2>1, <2>2, <2>4 DEF PutIntoSendStack, Typed, HeapTyped
  <2>6. NetTyped' /\ QueueTyped'
    BY <1>5, <2>2 DEF PutIntoSendStack, Typed, NetTyped, QueueTyped
  <2> QED
    BY <2>2, <2>3, <2>5, <2>6 DEF Typed, MainTyped
<1> QED
  BY <1>1, <1>2, <1>3, <1>4, <1>5 DEF Tick

\* A thread that leaves the heap and the main thread alone.
LEMMA HeapStays ==
  ASSUME Typed, UNCHANGED heap, UNCHANGED main, nextID' \in Nat
  PROVE  /\ HeapTyped' /\ MainTyped'
         /\ Indexes' = Indexes /\ Blocks' = Blocks /\ Workers' = Workers
<1>1. ops' = ops /\ ops' \in Seq(OpType) /\ Len(ops') = Len(ops)
  BY DEF heap, Typed, HeapTyped
<1>2. Indexes' = Indexes /\ Blocks' = Blocks /\ Workers' = Workers /\ Mains' = Mains
  BY <1>1, SameIndexes DEF Typed
<1>3. HeapTyped'
  BY <1>1, <1>2 DEF heap, Typed, HeapTyped
<1>4. MainTyped'
  BY <1>1, <1>2 DEF Typed, MainTyped
<1> QED
  BY <1>2, <1>3, <1>4

LEMMA FrameworkTyped ==
  ASSUME Typed, ForeignEvent \/ Framework
  PROVE  Typed'
<1> USE DEF NoID
<1>1. UNCHANGED heap /\ UNCHANGED main /\ UNCHANGED worker /\ UNCHANGED alive
  BY DEF ForeignEvent, Framework, LoadDecodedID, StoreDecodedID, AddNewChangeSet
<1>2. nextID' \in Nat
  BY DEF ForeignEvent, Framework, LoadDecodedID, StoreDecodedID, AddNewChangeSet,
         Typed, HeapTyped, NetTyped
<1>3. /\ HeapTyped' /\ MainTyped'
      /\ Indexes' = Indexes /\ Blocks' = Blocks /\ Workers' = Workers
  BY <1>1, <1>2, HeapStays
<1>4. CASE ForeignEvent
  <2>1. <<[mine |-> FALSE, id |-> 0, op |-> 0]>> \in Seq(Items)
    BY DEF Items
  <2>2. session' \in Seq(Seq(Items)) /\ foreign' \in Nat
    BY <1>4, <2>1 DEF ForeignEvent, Typed, NetTyped
  <2> QED
    BY <1>1, <1>3, <1>4, <2>2 DEF ForeignEvent, Typed, NetTyped, QueueTyped
<1>5. CASE LoadDecodedID
  <2>1. net' \in [done : Nat, id : Nat \cup {NoID}]
    BY <1>5 DEF LoadDecodedID, Typed, NetTyped, HeapTyped
  <2> QED
    BY <1>1, <1>3, <1>5, <2>1 DEF LoadDecodedID, Typed, NetTyped, QueueTyped
<1>6. CASE StoreDecodedID
  <2>1. net' \in [done : Nat, id : Nat \cup {NoID}]
    BY <1>6 DEF StoreDecodedID, Typed, NetTyped, HeapTyped
  <2> QED
    BY <1>1, <1>3, <1>6, <2>1 DEF StoreDecodedID, Typed, NetTyped, QueueTyped
<1>7. CASE AddNewChangeSet
  <2>1. session # << >> /\ Head(session) \in Seq(Items) /\ Tail(session) \in Seq(Seq(Items))
    BY <1>7 DEF AddNewChangeSet, Typed, NetTyped
  <2>2. [kind |-> "new", items |-> Head(session)] \in Blocks
    BY <2>1 DEF Blocks
  <2>3. blocks' \in Seq(Blocks)
    BY <1>7, <2>2 DEF AddNewChangeSet, Typed, QueueTyped
  <2>4. net' \in [done : Nat, id : Nat \cup {NoID}]
    BY <1>7 DEF AddNewChangeSet, IdleNet
  <2> QED
    BY <1>1, <1>3, <1>7, <2>1, <2>3, <2>4 DEF AddNewChangeSet, Typed, NetTyped, QueueTyped
<1> QED
  BY <1>4, <1>5, <1>6, <1>7 DEF Framework

\* What the stack queue may be in the middle of.
LEMMA WorkerSteps ==
  ASSUME Typed, StackQueue,
         /\ worker' \in Workers
         /\ worker'.pc \in {"copy", "assign"} => worker'.items \in Seq(Indexes)
         /\ worker'.pc \notin {"idle", "copy", "assign"} => worker'.items \in Seq(Items)
         /\ worker'.pc \notin {"idle", "item", "copy", "assign"} => worker'.items # << >>,
         blocks' \in Seq(Blocks), alive' \in BOOLEAN,
         UNCHANGED <<heap, nextID, main, net, session, foreign>>
  PROVE  Typed'
<1>1. /\ HeapTyped' /\ MainTyped'
      /\ Indexes' = Indexes /\ Blocks' = Blocks /\ Workers' = Workers
  BY HeapStays DEF Typed, HeapTyped
<1> QED
  BY <1>1 DEF Typed, NetTyped, QueueTyped

LEMMA IdleWorkerTyped == IdleWorker \in Workers /\ IdleWorker.pc = "idle"
BY DEF IdleWorker, Workers, Pcs

\* Updates of a worker's record.
LEMMA WorkerCollects ==
  ASSUME NEW w \in Workers, NEW o \in Indexes
  PROVE  LET c == [w EXCEPT !.carried = Append(@, o)]
             a == [w EXCEPT !.adjusted = Append(@, o)]
         IN  /\ c \in Workers /\ c.pc = w.pc /\ c.items = w.items
             /\ a \in Workers /\ a.pc = w.pc /\ a.items = w.items
<1>1. Append(w.carried, o) \in Seq(Indexes) /\ Append(w.adjusted, o) \in Seq(Indexes)
  BY DEF Workers
<1> QED
  BY <1>1 DEF Workers

LEMMA WorkerBegins ==
  ASSUME NEW w \in Workers, NEW present \in SUBSET Indexes
  PROVE  LET b == [w EXCEPT !.pc = "carrySend", !.i = 0, !.tested = FALSE,
                            !.present = present, !.carried = << >>, !.adjusted = << >>]
         IN  b \in Workers /\ b.pc = "carrySend" /\ b.items = w.items
<1>1. /\ "carrySend" \in Pcs /\ 0 \in Nat /\ FALSE \in BOOLEAN
      /\ << >> \in Seq(Indexes)
  BY DEF Pcs, After
<1> DEFINE b == [w EXCEPT !.pc = "carrySend", !.i = 0, !.tested = FALSE,
                          !.present = present, !.carried = << >>, !.adjusted = << >>]
<1>2. b.pc = "carrySend" /\ b.items = w.items
  BY DEF Workers
<1>3. b \in Workers
  BY <1>1 DEF Workers
<1> QED
  BY <1>2, <1>3

LEMMA StackQueueTyped ==
  ASSUME Typed, StackQueue
  PROVE  Typed'
<1>0. /\ worker \in Workers /\ blocks \in Seq(Blocks) /\ alive \in BOOLEAN
      /\ worker.pc \in {"copy", "assign"} => worker.items \in Seq(Indexes)
      /\ worker.pc \notin {"idle", "copy", "assign"} => worker.items \in Seq(Items)
      /\ worker.pc \notin {"idle", "item", "copy", "assign"} => worker.items # << >>
      /\ send \in Seq(Indexes) /\ local \in Seq(Indexes) /\ changes \in Nat
  BY DEF Typed, QueueTyped, NetTyped, HeapTyped
<1>1. CASE BeginBlock
  <2>1. Head(blocks) \in Blocks /\ blocks' \in Seq(Blocks)
    BY <1>0, <1>1 DEF BeginBlock
  <2>2. worker' = [IdleWorker EXCEPT
                     !.pc = IF Head(blocks).kind = "new" THEN "item" ELSE "copy",
                     !.items = Head(blocks).items]
    BY <1>1 DEF BeginBlock
  <2>3. CASE Head(blocks).kind = "new"
    <3>1. Head(blocks).items \in Seq(Items)
      BY <2>1, <2>3 DEF Blocks
    <3>2. worker' \in Workers /\ worker'.pc = "item" /\ worker'.items \in Seq(Items)
      BY <2>2, <2>3, <3>1, IdleWorkerTyped DEF Workers, Pcs
    <3> QED
      BY <1>0, <1>1, <2>1, <3>2, WorkerSteps DEF BeginBlock
  <2>4. CASE Head(blocks).kind # "new"
    <3>1. Head(blocks).items \in Seq(Indexes)
      BY <2>1, <2>4 DEF Blocks
    <3>2. worker' \in Workers /\ worker'.pc = "copy" /\ worker'.items \in Seq(Indexes)
      BY <2>2, <2>4, <3>1, IdleWorkerTyped DEF Workers, Pcs
    <3> QED
      BY <1>0, <1>1, <2>1, <3>2, WorkerSteps DEF BeginBlock
  <2> QED
    BY <2>3, <2>4
<1>2. CASE BeginItem
  <2>1. worker.pc = "item" /\ worker.items \in Seq(Items)
    BY <1>0, <1>2 DEF BeginItem
  <2>2. CASE worker.items = << >>
    BY <1>0, <1>2, <2>2, IdleWorkerTyped, WorkerSteps DEF BeginItem
  <2>3. CASE worker.items # << >> /\ Head(worker.items).mine
    <3>1. worker' = [worker EXCEPT !.pc = IF send = << >> THEN "end" ELSE "confirm",
                                   !.i = 0, !.mark = changes]
      BY <1>2, <2>3 DEF BeginItem
    <3>2. worker' \in Workers /\ worker'.pc \in {"end", "confirm"} /\ worker'.items = worker.items
      BY <1>0, <3>1 DEF Workers, Pcs
    <3> QED
      BY <1>0, <1>2, <2>1, <2>3, <3>2, WorkerSteps DEF BeginItem
  <2>4. CASE worker.items # << >> /\ ~Head(worker.items).mine
    <3>1. worker' = [worker EXCEPT !.pc = "carrySend", !.i = 0, !.tested = FALSE,
                                   !.present = Range(send \o local),
                                   !.carried = << >>, !.adjusted = << >>]
      BY <1>2, <2>4 DEF BeginItem
    <3>2. Range(send \o local) \in SUBSET Indexes
      BY <1>0 DEF Range
    <3>3. worker' \in Workers /\ worker'.pc = "carrySend" /\ worker'.items = worker.items
      BY <1>0, <3>1, <3>2, WorkerBegins
    <3> QED
      BY <1>0, <1>2, <2>1, <2>4, <3>3, WorkerSteps DEF BeginItem
  <2> QED
    BY <2>2, <2>3, <2>4
<1>3. CASE EndItem
  <2>1. worker.items \in Seq(Items) /\ worker.items # << >>
    BY <1>0, <1>3 DEF EndItem
  <2>2. worker' \in Workers /\ worker'.pc = "item" /\ worker'.items \in Seq(Items)
    <3>1. Tail(worker.items) \in Seq(Items) /\ "item" \in Pcs
      BY <2>1 DEF Pcs
    <3>2. worker' = [worker EXCEPT !.pc = "item", !.items = Tail(@)]
      BY <1>3 DEF EndItem
    <3> QED
      BY <1>0, <3>1, <3>2 DEF Workers
  <2> QED
    BY <1>0, <1>3, <2>2, WorkerSteps DEF EndItem
<1>4. CASE CopyLocalStack
  <2>1. worker.items \in Seq(Indexes) /\ worker.items \o local \in Seq(Indexes)
    BY <1>0, <1>4 DEF CopyLocalStack
  <2>2. worker' \in Workers /\ worker'.pc = "assign" /\ worker'.items = worker.items
    BY <1>0, <1>4, <2>1 DEF CopyLocalStack, Workers, Pcs
  <2> QED
    BY <1>0, <1>4, <2>1, <2>2, WorkerSteps DEF CopyLocalStack
<1>5. CASE AssignLocalStack
  <2>1. ops' = ops /\ ops' \in Seq(OpType) /\ Len(ops') = Len(ops)
    BY <1>5 DEF AssignLocalStack, Typed, HeapTyped
  <2>2. Indexes' = Indexes /\ Blocks' = Blocks /\ Workers' = Workers /\ Mains' = Mains
    BY <2>1, SameIndexes DEF Typed
  <2>3. local' \in Seq(Indexes)
    BY <1>0, <1>5 DEF AssignLocalStack, Workers
  <2>4. HeapTyped'
    BY <1>5, <2>1, <2>2, <2>3 DEF AssignLocalStack, Typed, HeapTyped
  <2>5. main' \in Mains /\ main'.pc = main.pc /\ main'.id = main.id
    BY <1>0, <1>5 DEF AssignLocalStack, Typed, MainTyped, Mains
  <2>6. MainTyped'
    BY <2>1, <2>2, <2>5 DEF Typed, MainTyped
  <2>7. NetTyped' /\ QueueTyped'
    BY <1>5, <2>2, IdleWorkerTyped DEF AssignLocalStack, Typed, NetTyped, QueueTyped
  <2> QED
    BY <2>4, <2>6, <2>7 DEF Typed
<1>6. CASE ConfirmOperation
  <2>1. /\ worker.pc = "confirm" /\ worker.i \in Nat /\ Len(send) \in Nat
        /\ worker.items \in Seq(Items) /\ worker.items # << >>
    BY <1>0, <1>6 DEF ConfirmOperation, Enumerated, Workers
  <2>2. CASE ~(worker.i < Len(send))
    <3>1. worker' = [worker EXCEPT !.pc = "end"] /\ UNCHANGED <<heap, alive>>
      BY <1>6, <2>2, Zenon DEF ConfirmOperation, Enumerated
    <3>2. worker' \in Workers /\ worker'.pc = "end" /\ worker'.items = worker.items
      BY <1>0, <3>1 DEF Workers, Pcs
    <3> QED
      BY <1>0, <1>6, <2>1, <3>1, <3>2, WorkerSteps DEF ConfirmOperation, Enumerated
  <2>3. CASE ~(worker.i >= Len(send)) /\ changes # worker.mark
    <3>1. alive' = FALSE /\ UNCHANGED <<heap, worker>>
      BY <1>6, <2>3, Zenon DEF ConfirmOperation, Enumerated
    <3> QED
      BY <1>0, <1>6, <3>1, WorkerSteps DEF ConfirmOperation, Enumerated
  <2>4. CASE ~(worker.i >= Len(send)) /\ changes = worker.mark
    <3> DEFINE o == send[worker.i + 1]
    <3>1. o \in Indexes
      BY <1>0, <2>1, <2>4
    <3>2. CASE worker' = [worker EXCEPT !.i = @ + 1] /\ UNCHANGED heap /\ UNCHANGED alive
      <4>1. worker' \in Workers /\ worker'.pc = worker.pc /\ worker'.items = worker.items
        <5> DEFINE j == worker.i + 1
        <5>1. j \in Nat /\ worker' = [worker EXCEPT !.i = j]
          BY <2>1, <3>2
        <5> HIDE DEF j
        <5> QED
          BY <1>0, <5>1 DEF Workers
      <4> QED
        BY <1>0, <1>6, <2>1, <3>2, <4>1, WorkerSteps DEF ConfirmOperation, Enumerated
    <3>3. CASE /\ ops' = [ops EXCEPT ![o].state = "GLOBAL"]
               /\ global' = Append(global, o)
               /\ send' = Without(send, o)
               /\ changes' = changes + 1
               /\ worker' = [worker EXCEPT !.pc = "end"]
               /\ UNCHANGED local /\ UNCHANGED alive
      <4>1. [ops[o] EXCEPT !.state = "GLOBAL"] \in OpType
        BY <3>1, OperationAt DEF Typed
      <4>2. ops' \in Seq(OpType) /\ Len(ops') = Len(ops)
        BY <3>1, <3>3, <4>1, SMTT(30) DEF Typed, HeapTyped, Indexes
      <4>3. Indexes' = Indexes /\ Blocks' = Blocks /\ Workers' = Workers /\ Mains' = Mains
        BY <4>2, SameIndexes DEF Typed
      <4>4. send' \in Seq(Indexes)
        BY <1>0, <3>3, WithoutIsStack
      <4>5. HeapTyped'
        BY <1>6, <3>1, <3>3, <4>2, <4>3, <4>4 DEF ConfirmOperation, Enumerated, Typed, HeapTyped
      <4>6. MainTyped'
        BY <1>6, <4>2, <4>3, SameIndexes DEF ConfirmOperation, Enumerated, Typed, MainTyped
      <4>7. worker' \in Workers /\ worker'.pc = "end" /\ worker'.items = worker.items
        BY <1>0, <3>3 DEF Workers, Pcs
      <4>8. NetTyped' /\ QueueTyped'
        BY <1>6, <2>1, <3>3, <4>3, <4>7 DEF ConfirmOperation, Enumerated, Typed, NetTyped, QueueTyped
      <4> QED
        BY <4>5, <4>6, <4>8 DEF Typed
    <3> QED
      BY <1>6, <2>4, <3>2, <3>3, Zenon DEF ConfirmOperation, Enumerated
  <2> QED
    BY <1>0, <2>1, <2>2, <2>3, <2>4
<1>7. CASE TestCount
  <2>1. worker.pc \in DOMAIN After /\ worker.items \in Seq(Items) /\ worker.items # << >>
    BY <1>0, <1>7 DEF TestCount, After
  <2>2. CASE worker' = [worker EXCEPT !.tested = TRUE]
    <3>1. worker' \in Workers /\ worker'.pc = worker.pc /\ worker'.items = worker.items
      BY <1>0, <2>2 DEF Workers
    <3> QED
      BY <1>0, <1>7, <2>1, <3>1, WorkerSteps DEF TestCount
  <2>3. CASE worker' = [worker EXCEPT !.pc = After[@], !.i = 0]
    <3>1. After[worker.pc] \in DOMAIN After \cup {"show"}
      BY <2>1 DEF After
    <3>2. /\ worker' \in Workers /\ worker'.pc \in DOMAIN After \cup {"show"}
          /\ worker'.items = worker.items
      BY <1>0, <2>3, <3>1 DEF Workers, Pcs
    <3> QED
      BY <1>0, <1>7, <2>1, <3>2, WorkerSteps DEF TestCount, After
  <2> QED
    BY <1>7, <2>2, <2>3 DEF TestCount
<1>8. CASE ObjectAtIndex
  <2>1. /\ worker.pc \in DOMAIN After /\ worker.items \in Seq(Items) /\ worker.items # << >>
        /\ worker.i \in Nat /\ StackOf(worker.pc) \in Seq(Indexes)
        /\ Len(StackOf(worker.pc)) \in Nat
    BY <1>0, <1>8 DEF ObjectAtIndex, After, StackOf, Workers
  <2>2. CASE worker.i < Len(StackOf(worker.pc))
    <3> DEFINE o == StackOf(worker.pc)[worker.i + 1]
               next == [worker EXCEPT !.i = @ + 1, !.tested = FALSE]
    <3>1. o \in Indexes
      BY <2>1, <2>2
    <3>2. next \in Workers /\ next.pc = worker.pc /\ next.items = worker.items
      <4> DEFINE j == worker.i + 1
      <4>1. j \in Nat /\ next = [worker EXCEPT !.i = j, !.tested = FALSE]
        BY <2>1
      <4> HIDE DEF j, next
      <4> QED
        BY <1>0, <4>1 DEF Workers
    <3>0. ~(worker.i >= Len(StackOf(worker.pc)))
      BY <2>1, <2>2
    <3> HIDE DEF next
    <3>3. \/ worker' = [next EXCEPT !.carried = Append(@, o)]
          \/ worker' = [next EXCEPT !.adjusted = Append(@, o)]
      BY <1>8, <3>0, Zenon DEF ObjectAtIndex, next
    <3>4. alive' = alive
      BY <1>8, <3>0, Zenon DEF ObjectAtIndex
    <3>5. worker' \in Workers /\ worker'.pc = worker.pc /\ worker'.items = worker.items
      BY <3>1, <3>2, <3>3, WorkerCollects, ZenonT(30)
    <3> QED
      BY <1>0, <1>8, <2>1, <3>4, <3>5, WorkerSteps DEF ObjectAtIndex
  <2>3. CASE worker.i >= Len(StackOf(worker.pc))
    <3>0. ~(worker.i < Len(StackOf(worker.pc)))
      BY <2>1, <2>3
    <3>1. worker' = worker /\ alive' = FALSE
      BY <1>8, <3>0, Zenon DEF ObjectAtIndex
    <3> QED
      BY <1>0, <1>8, <2>1, <3>1, WorkerSteps DEF ObjectAtIndex
  <2> QED
    BY <2>1, <2>2, <2>3
<1>9. CASE Show
  <2>1. worker' \in Workers /\ worker'.pc = "end" /\ worker'.items = worker.items
    BY <1>0, <1>9 DEF Show, Workers, Pcs
  <2> QED
    BY <1>0, <1>9, <2>1, WorkerSteps DEF Show
<1> QED
  BY <1>1, <1>2, <1>3, <1>4, <1>5, <1>6, <1>7, <1>8, <1>9 DEF StackQueue

LEMMA InitTyped == Init => Typed
<1> SUFFICES ASSUME Init PROVE Typed
  OBVIOUS
<1>1. HeapTyped
  BY DEF Init, HeapTyped
<1>2. MainTyped
  BY DEF Init, IdleMain, MainTyped, Mains
<1>3. NetTyped
  BY DEF Init, IdleNet, NetTyped
<1>4. QueueTyped
  BY IdleWorkerTyped DEF Init, QueueTyped
<1> QED
  BY <1>1, <1>2, <1>3, <1>4 DEF Typed

LEMMA StepTyped ==
  ASSUME Typed, [Next]_vars
  PROVE  Typed'
<1>1. CASE Next
  BY <1>1, KeystrokeTyped, TickTyped, FrameworkTyped, StackQueueTyped DEF Next
<1>2. CASE UNCHANGED vars
  <2>1. /\ HeapTyped' /\ MainTyped'
        /\ Indexes' = Indexes /\ Blocks' = Blocks /\ Workers' = Workers
    BY <1>2, HeapStays DEF vars, Typed, HeapTyped
  <2> QED
    BY <1>2, <2>1 DEF vars, Typed, NetTyped, QueueTyped
<1> QED
  BY <1>1, <1>2

LEMMA AlwaysTyped == Spec => []Typed
<1>1. Typed /\ [Next]_vars => Typed'
  BY StepTyped
<1> QED
  BY InitTyped, <1>1, PTL DEF Spec

\* However the three threads interleave, every array holds indexes of operations and
\* every block of the stack queue gets what it expects.
THEOREM ThreadTypes == Spec => []TypeOK
<1> QED
  BY AlwaysTyped, TypedIsTypeOK, PTL

-----------------------------------------------------------------------------
(* Exceptions.                                                             *)

\* What the stack queue has tested still holds when it relies on it.
TestedInv ==
  /\ alive
  /\ main.pc \in TickSteps => worker.pc = "idle"
  /\ worker.pc \in DOMAIN After /\ worker.tested => worker.i < Len(StackOf(worker.pc))
  /\ worker.pc = "confirm" => worker.mark = changes

\* Steps of the other threads that leave the stack queue its arrays, or add to the
\* local stack.
Harmless ==
  /\ alive' = alive /\ worker' = worker /\ send' = send /\ changes' = changes
  /\ local' = local \/ \E o : local' = Append(local, o)
  /\ main'.pc \in TickSteps => main.pc \in TickSteps

LEMMA HarmlessPreserves ==
  ASSUME Typed, TestedInv, Harmless
  PROVE  TestedInv'
<1>1. /\ local \in Seq(Indexes) /\ send \in Seq(Indexes) /\ worker.i \in Nat
  BY DEF Typed, HeapTyped, QueueTyped, Workers
<1>2. Len(local) \in Nat /\ Len(send) \in Nat
  BY <1>1
<1>3. Len(local') >= Len(local) /\ Len(local') \in Nat
  <2>1. CASE local' = local
    BY <1>2, <2>1
  <2>2. CASE \E o : local' = Append(local, o)
    <3>1. PICK o : local' = Append(local, o)
      BY <2>2
    <3>2. local \in Seq(Indexes \cup {o})
      BY <1>1
    <3>3. Len(local') = Len(local) + 1
      BY <3>1, <3>2
    <3> QED
      BY <1>2, <3>3
  <2> QED
    BY <2>1, <2>2 DEF Harmless
<1>4. StackOf(worker.pc)' = send \/ StackOf(worker.pc)' = local'
  BY DEF StackOf, Harmless
<1>5. worker.pc \in DOMAIN After /\ worker.tested => worker.i < Len(StackOf(worker.pc)')
  <2>1. CASE worker.pc \in {"carrySend", "adjustSend"}
    BY <2>1 DEF TestedInv, StackOf, Harmless
  <2>2. CASE worker.pc \notin {"carrySend", "adjustSend"}
    BY <1>1, <1>2, <1>3, <2>2 DEF TestedInv, StackOf, Harmless
  <2> QED
    BY <2>1, <2>2
<1> QED
  BY <1>5 DEF TestedInv, Harmless

LEMMA StepIsHarmless ==
  ASSUME "timer" \notin Overlaps, Typed, TestedInv, [Next]_vars
  PROVE  Tick \/ StackQueue \/ Harmless
<1> USE DEF TickSteps
<1>1. CASE LoadOperationID
  BY <1>1 DEF LoadOperationID, heap, Harmless, Typed, MainTyped, Mains
<1>2. CASE StoreOperationID
  BY <1>2 DEF StoreOperationID, Harmless, Typed, MainTyped, Mains
<1>3. CASE FindLocalStack
  BY <1>3 DEF FindLocalStack, heap, Harmless, Typed, MainTyped, Mains
<1>4. CASE AddToLocalStack
  BY <1>4 DEF AddToLocalStack, Harmless, IdleMain
<1>5. CASE ForeignEvent \/ Framework
  <2>1. UNCHANGED <<heap, main, worker, alive>>
    BY <1>5 DEF ForeignEvent, Framework, LoadDecodedID, StoreDecodedID, AddNewChangeSet
  <2> QED
    BY <2>1 DEF heap, Harmless
<1>6. CASE UNCHANGED vars
  BY <1>6 DEF vars, heap, Harmless
<1> QED
  BY <1>1, <1>2, <1>3, <1>4, <1>5, <1>6 DEF Next, Keystroke

LEMMA TickPreserves ==
  ASSUME "timer" \notin Overlaps, Typed, TestedInv, Tick
  PROVE  TestedInv'
<1>1. worker.pc = "idle" /\ worker' = worker /\ alive' = alive
  BY DEF Tick, FindLocalOperations, SwapLocalStack, BroadcastChangeSet, AddChangeSetToLocal,
         PutIntoSendStack, WorkerAway, TestedInv, TickSteps
<1> QED
  BY <1>1 DEF TestedInv, After

LEMMA QueuePreserves ==
  ASSUME "timer" \notin Overlaps, Typed, TestedInv, StackQueue
  PROVE  TestedInv'
<1>0. /\ worker \in Workers /\ worker.i \in Nat /\ Len(send) \in Nat /\ Len(local) \in Nat
      /\ DOMAIN worker = DOMAIN IdleWorker
  BY DEF Typed, HeapTyped, QueueTyped, Workers, IdleWorker
<1>1. CASE BeginBlock
  <2>1. worker'.pc \in {"item", "copy"} /\ alive' = alive /\ main' = main
    BY <1>1 DEF BeginBlock, IdleWorker
  <2>2. main.pc \notin TickSteps
    BY <1>1 DEF BeginBlock, MainAway
  <2> QED
    BY <2>1, <2>2 DEF TestedInv, After
<1>2. CASE BeginItem
  <2>1. main.pc \notin TickSteps /\ main' = main /\ alive' = alive /\ changes' = changes
    BY <1>2 DEF BeginItem, TestedInv, heap
  <2>2. CASE worker' = IdleWorker
    BY <2>1, <2>2 DEF TestedInv, IdleWorker, After
  <2>3. CASE worker' = [worker EXCEPT !.pc = IF send = << >> THEN "end" ELSE "confirm",
                                      !.i = 0, !.mark = changes]
    <3>1. worker'.pc \in {"end", "confirm"} /\ worker'.mark = changes
      BY <1>0, <2>3 DEF IdleWorker
    <3> QED
      BY <2>1, <3>1 DEF TestedInv, After
  <2>4. CASE worker' = [worker EXCEPT !.pc = "carrySend", !.i = 0, !.tested = FALSE,
                                      !.present = Range(send \o local),
                                      !.carried = << >>, !.adjusted = << >>]
    <3>1. worker'.pc = "carrySend" /\ worker'.tested = FALSE
      BY <1>0, <2>4 DEF IdleWorker
    <3> QED
      BY <2>1, <3>1 DEF TestedInv, After
  <2> QED
    BY <1>2, <2>2, <2>3, <2>4 DEF BeginItem
<1>3. CASE EndItem
  <2>1. /\ main.pc \notin TickSteps /\ main' = main /\ alive' = alive
        /\ worker'.pc = "item"
    BY <1>0, <1>3 DEF EndItem, TestedInv, IdleWorker
  <2> QED
    BY <2>1 DEF TestedInv, After
<1>4. CASE CopyLocalStack
  <2>1. /\ main.pc \notin TickSteps /\ main' = main /\ alive' = alive
        /\ worker'.pc = "assign"
    BY <1>0, <1>4 DEF CopyLocalStack, TestedInv, IdleWorker
  <2> QED
    BY <2>1 DEF TestedInv, After
<1>5. CASE AssignLocalStack
  <2>1. /\ main.pc \notin TickSteps /\ main'.pc = main.pc /\ alive' = alive
        /\ worker'.pc = "idle"
    BY <1>5 DEF AssignLocalStack, TestedInv, IdleWorker, Typed, MainTyped, Mains
  <2> QED
    BY <2>1 DEF TestedInv, After
<1>6. CASE ConfirmOperation
  <2>1. main.pc \notin TickSteps /\ main' = main /\ worker.pc = "confirm" /\ changes = worker.mark
    BY <1>6 DEF ConfirmOperation, Enumerated, TestedInv
  <2>2. alive' = alive
    BY <1>6, <2>1, Zenon DEF ConfirmOperation, Enumerated
  <2>3. \/ worker' = [worker EXCEPT !.pc = "end"]
        \/ worker' = [worker EXCEPT !.i = @ + 1] /\ UNCHANGED heap
    BY <1>6, <2>1, Zenon DEF ConfirmOperation, Enumerated
  <2>4. \/ worker'.pc = "end"
        \/ worker'.pc = "confirm" /\ worker'.mark = worker.mark /\ changes' = changes
    BY <1>0, <2>1, <2>3 DEF IdleWorker, heap
  <2> QED
    BY <2>1, <2>2, <2>4 DEF TestedInv, After
<1>7. CASE TestCount
  <2>1. /\ main.pc \notin TickSteps /\ main' = main /\ alive' = alive
        /\ worker.pc \in DOMAIN After /\ ~worker.tested /\ send' = send /\ local' = local
    BY <1>7 DEF TestCount, TestedInv, heap, After
  <2>2. CASE worker' = [worker EXCEPT !.tested = TRUE] /\ worker.i < Len(StackOf(worker.pc))
    <3>1. worker'.pc = worker.pc /\ worker'.i = worker.i
      BY <1>0, <2>2 DEF IdleWorker
    <3>2. StackOf(worker.pc)' = StackOf(worker.pc)
      BY <2>1, <3>1 DEF StackOf
    <3> QED
      BY <2>1, <2>2, <3>1, <3>2 DEF TestedInv, After
  <2>3. CASE worker' = [worker EXCEPT !.pc = After[@], !.i = 0]
    <3>1. /\ worker'.tested = worker.tested /\ worker'.pc = After[worker.pc]
          /\ After[worker.pc] # "confirm"
      BY <1>0, <2>1, <2>3 DEF IdleWorker, After
    <3> QED
      BY <2>1, <3>1 DEF TestedInv
  <2> QED
    BY <1>7, <2>2, <2>3 DEF TestCount
<1>8. CASE ObjectAtIndex
  <2>1. /\ main.pc \notin TickSteps /\ main' = main
        /\ worker.pc \in DOMAIN After /\ worker.tested
        /\ worker.i < Len(StackOf(worker.pc))
    BY <1>8 DEF ObjectAtIndex, TestedInv, After
  <2>2. Len(StackOf(worker.pc)) \in Nat
    BY <1>0 DEF StackOf
  <2>3. ~(worker.i >= Len(StackOf(worker.pc)))
    BY <1>0, <2>1, <2>2
  <2> DEFINE next == [worker EXCEPT !.i = @ + 1, !.tested = FALSE]
  <2>4. alive' = alive
    BY <1>8, <2>3, Zenon DEF ObjectAtIndex
  <2>5. \E o : \/ worker' = [next EXCEPT !.carried = Append(@, o)]
               \/ worker' = [next EXCEPT !.adjusted = Append(@, o)]
    BY <1>8, <2>3, Zenon DEF ObjectAtIndex
  <2>6. DOMAIN next = DOMAIN worker /\ next.pc = worker.pc /\ next.tested = FALSE
    BY <1>0 DEF IdleWorker
  <2> HIDE DEF next
  <2>7. worker'.pc = worker.pc /\ worker'.tested = FALSE
    BY <1>0, <2>5, <2>6 DEF IdleWorker
  <2> QED
    BY <2>1, <2>4, <2>7 DEF TestedInv, After
<1>9. CASE Show
  <2>1. /\ main.pc \notin TickSteps /\ main' = main /\ alive' = alive
        /\ worker'.pc = "end"
    BY <1>0, <1>9 DEF Show, TestedInv, IdleWorker
  <2> QED
    BY <2>1 DEF TestedInv, After
<1> QED
  BY <1>1, <1>2, <1>3, <1>4, <1>5, <1>6, <1>7, <1>8, <1>9 DEF StackQueue

LEMMA AlwaysTested ==
  ASSUME "timer" \notin Overlaps
  PROVE  Spec => []TestedInv
<1>1. Init => TestedInv
  BY DEF Init, TestedInv, IdleMain, IdleWorker, After, TickSteps
<1>2. Typed /\ TestedInv /\ [Next]_vars => TestedInv'
  BY StepIsHarmless, HarmlessPreserves, TickPreserves, QueuePreserves
<1> QED
  BY AlwaysTyped, <1>1, <1>2, PTL DEF Spec

\* As long as no tick of the timer comes into the middle of a block of the stack queue,
\* no loop and no enumeration of the stack queue raises an exception, whatever is typed
\* and decoded meanwhile.
THEOREM NoExceptionUnlessTimer ==
  "timer" \notin Overlaps => (Spec => []NoException)
<1> SUFFICES ASSUME "timer" \notin Overlaps
             PROVE  Spec => []NoException
  OBVIOUS
<1>1. TestedInv => NoException
  BY DEF TestedInv, NoException
<1>2. Spec => []TestedInv
  BY AlwaysTested
<1> QED
  BY <1>1, <1>2, PTL

-----------------------------------------------------------------------------
(* Arrays in which nothing is twice.                                       *)

\* The things in an array, and that none of them is in it twice.
Members(s) == {s[k] : k \in 1..Len(s)}

Distinct(s) == \A j, k \in 1..Len(s) : s[j] = s[k] => j = k

\* An empty array, two arrays one after the other, a longer and a shorter one.
LEMMA EmptyDistinct == Distinct(<< >>) /\ Members(<< >>) = {}
BY EmptySeq DEF Distinct, Members

LEMMA JoinDistinct ==
  ASSUME NEW S, NEW s \in Seq(S), NEW t \in Seq(S),
         Distinct(s), Distinct(t), Members(s) \cap Members(t) = {}
  PROVE  Distinct(s \o t) /\ Members(s \o t) = Members(s) \cup Members(t)
<1> DEFINE st == s \o t
           m == Len(s)
           n == Len(t)
<1>1. /\ m \in Nat /\ n \in Nat /\ Len(st) = m + n
      /\ \A k \in 1..m : st[k] = s[k]
      /\ \A k \in 1..n : st[m + k] = t[k]
  OBVIOUS
<1> HIDE DEF st, m, n
<1>2. \A k \in 1..Len(st) : k \in 1..m \/ (k - m \in 1..n /\ k = m + (k - m))
  BY <1>1
<1>3. \A k \in 1..m : k \in 1..Len(st) /\ s[k] \in Members(s)
  BY <1>1 DEF Members, m
<1>4. \A k \in 1..n : m + k \in 1..Len(st) /\ t[k] \in Members(t)
  BY <1>1 DEF Members, n
<1>5. ASSUME NEW j \in 1..Len(st), NEW k \in 1..Len(st), st[j] = st[k]
      PROVE  j = k
  <2>1. CASE j \in 1..m /\ k \in 1..m
    BY <1>1, <1>5, <2>1 DEF Distinct, m
  <2>2. CASE j \in 1..m /\ k - m \in 1..n
    <3>1. s[j] = t[k - m]
      BY <1>1, <1>2, <1>5, <2>2
    <3> QED
      BY <1>3, <1>4, <2>2, <3>1
  <2>3. CASE j - m \in 1..n /\ k \in 1..m
    <3>1. t[j - m] = s[k]
      BY <1>1, <1>2, <1>5, <2>3
    <3> QED
      BY <1>3, <1>4, <2>3, <3>1
  <2>4. CASE j - m \in 1..n /\ k - m \in 1..n
    <3>1. t[j - m] = t[k - m]
      BY <1>1, <1>2, <1>5, <2>4
    <3>2. j - m = k - m
      BY <2>4, <3>1 DEF Distinct, n
    <3> QED
      BY <1>1, <3>2
  <2> QED
    BY <1>2, <2>1, <2>2, <2>3, <2>4
<1>6. Members(st) \subseteq Members(s) \cup Members(t)
  <2> SUFFICES ASSUME NEW k \in 1..Len(st)
               PROVE  st[k] \in Members(s) \cup Members(t)
    BY DEF Members
  <2> QED
    BY <1>1, <1>2, <1>3, <1>4
<1>7. Members(s) \cup Members(t) \subseteq Members(st)
  <2>1. \A k \in 1..m : s[k] \in Members(st)
    BY <1>1, <1>3 DEF Members
  <2>2. \A k \in 1..n : t[k] \in Members(st)
    BY <1>1, <1>4 DEF Members
  <2> QED
    BY <2>1, <2>2 DEF Members, m, n
<1> QED
  BY <1>5, <1>6, <1>7 DEF Distinct, st

LEMMA AppendDistinct ==
  ASSUME NEW S, NEW s \in Seq(S), NEW x \in S, Distinct(s), x \notin Members(s)
  PROVE  Distinct(Append(s, x)) /\ Members(Append(s, x)) = Members(s) \cup {x}
<1> DEFINE t == Append(s, x)
           m == Len(s)
<1>1. m \in Nat /\ Len(t) = m + 1 /\ t[m + 1] = x /\ \A k \in 1..m : t[k] = s[k]
  OBVIOUS
<1> HIDE DEF t, m
<1>2. 1..Len(t) = 1..m \cup {m + 1}
  BY <1>1
<1>3. \A k \in 1..m : s[k] \in Members(s) /\ k # m + 1
  BY <1>1 DEF Members, m
<1>4. Distinct(t)
  <2> SUFFICES ASSUME NEW j \in 1..Len(t), NEW k \in 1..Len(t), t[j] = t[k]
               PROVE  j = k
    BY DEF Distinct
  <2>1. CASE j \in 1..m /\ k \in 1..m
    BY <1>1, <2>1 DEF Distinct, m
  <2>2. CASE ~(j \in 1..m /\ k \in 1..m)
    BY <1>1, <1>2, <1>3, <2>2
  <2> QED
    BY <2>1, <2>2
<1>5. Members(t) = Members(s) \cup {x}
  BY <1>1, <1>2 DEF Members, m
<1> QED
  BY <1>4, <1>5 DEF t

LEMMA WithoutDistinct ==
  ASSUME NEW S, NEW stack \in Seq(S), NEW o, Distinct(stack)
  PROVE  /\ Distinct(Without(stack, o))
         /\ Members(Without(stack, o)) = Members(stack) \ {o}
<1> DEFINE n == Len(stack)
           First(k) == {stack[j] : j \in 1..k}
<1>1. PICK f : Removes(f, S, stack, o)
  BY WithoutRuns
<1> DEFINE Good(k) == Distinct(f[k]) /\ Members(f[k]) = First(k) \ {o}
           Turns == {k \in 0..n : Good(k)}
           turn == [k \in 0..n |-> k]
<1>2. n \in Nat /\ \A k \in 1..n : stack[k] \in S
  OBVIOUS
<1>3. First(0) = {}
  OBVIOUS
<1>4. Good(0)
  BY <1>1, <1>3, EmptyDistinct DEF Removes
<1>5. ASSUME NEW k \in 1..n, Good(k - 1)
      PROVE  Good(k)
  <2>1. k \in 0..n /\ k - 1 \in 0..n
    BY <1>2
  <2>2. First(k) = First(k - 1) \cup {stack[k]}
    <3>1. 1..k = 1..(k - 1) \cup {k}
      OBVIOUS
    <3> QED
      BY <3>1
  <2>3. stack[k] \notin First(k - 1)
    <3>1. \A j \in 1..(k - 1) : j \in 1..n /\ j # k
      BY <1>2
    <3> QED
      BY <3>1 DEF Distinct
  <2>4. Distinct(f[k - 1]) /\ Members(f[k - 1]) = First(k - 1) \ {o}
    BY <1>5
  <2> HIDE DEF First
  <2>5. CASE stack[k] = o
    BY <1>1, <2>2, <2>3, <2>4, <2>5 DEF Removes
  <2>6. CASE stack[k] # o
    <3>1. f[k] = Append(f[k - 1], stack[k]) /\ stack[k] \in S /\ f[k - 1] \in Seq(S)
      BY <1>1, <1>2, <2>1, <2>6 DEF Removes
    <3>2. stack[k] \notin Members(f[k - 1])
      BY <2>3, <2>4
    <3>3. Distinct(f[k]) /\ Members(f[k]) = Members(f[k - 1]) \cup {stack[k]}
      BY <2>4, <3>1, <3>2, AppendDistinct
    <3> QED
      BY <2>2, <2>4, <2>6, <3>3
  <2> QED
    BY <2>5, <2>6
<1>6. turn[0] \in Turns /\ \A k \in 1..n : turn[k - 1] \in Turns => turn[k] \in Turns
  <2> HIDE DEF Good
  <2> QED
    BY <1>2, <1>4, <1>5
<1>7. Good(n)
  <2> HIDE DEF Good
  <2>1. \A k \in 0..n : turn[k] \in Turns
    <3> HIDE DEF turn, Turns
    <3> QED
      BY <1>2, <1>6, LoopKeeps
  <2> QED
    BY <1>2, <2>1
<1> QED
  BY <1>1, <1>7 DEF Members, Removes

-----------------------------------------------------------------------------
(* Things dealt to shelves: each is on one shelf, and there once.          *)

\* The members of X are dealt to the shelves of f.
Dealt(f, X) ==
  /\ \A s \in DOMAIN f : Distinct(f[s]) /\ Members(f[s]) \subseteq X
  /\ \A s, t \in DOMAIN f : s # t => Members(f[s]) \cap Members(f[t]) = {}
  /\ \A x \in X : \E s \in DOMAIN f : x \in Members(f[s])

\* Two shelves exchange things.
LEMMA DealtMoved ==
  ASSUME NEW X, NEW f, NEW g, Dealt(f, X), DOMAIN g = DOMAIN f,
         NEW a \in DOMAIN f, NEW b \in DOMAIN f, a # b,
         \A s \in DOMAIN f \ {a, b} : g[s] = f[s],
         Distinct(g[a]), Distinct(g[b]), Members(g[a]) \cap Members(g[b]) = {},
         Members(g[a]) \cup Members(g[b]) = Members(f[a]) \cup Members(f[b])
  PROVE  Dealt(g, X)
<1>1. \A s \in DOMAIN f : Distinct(g[s]) /\ Members(g[s]) \subseteq X
  BY DEF Dealt
<1>2. \A s, t \in DOMAIN f : s # t => Members(g[s]) \cap Members(g[t]) = {}
  <2> SUFFICES ASSUME NEW s \in DOMAIN f, NEW t \in DOMAIN f, s # t
               PROVE  Members(g[s]) \cap Members(g[t]) = {}
    OBVIOUS
  <2>1. CASE s \notin {a, b} /\ t \notin {a, b}
    BY <2>1 DEF Dealt
  <2>2. CASE s \in {a, b} /\ t \in {a, b}
    BY <2>2
  <2>3. CASE s \notin {a, b} /\ t \in {a, b}
    BY <2>3 DEF Dealt
  <2>4. CASE s \in {a, b} /\ t \notin {a, b}
    BY <2>4 DEF Dealt
  <2> QED
    BY <2>1, <2>2, <2>3, <2>4
<1>3. \A x \in X : \E s \in DOMAIN f : x \in Members(g[s])
  <2> SUFFICES ASSUME NEW x \in X
               PROVE  \E s \in DOMAIN f : x \in Members(g[s])
    OBVIOUS
  <2>1. PICK s \in DOMAIN f : x \in Members(f[s])
    BY DEF Dealt
  <2> QED
    BY <2>1
<1> QED
  BY <1>1, <1>2, <1>3 DEF Dealt

\* A shelf gets something new.
LEMMA DealtGrown ==
  ASSUME NEW X, NEW f, NEW g, NEW x, Dealt(f, X), x \notin X, DOMAIN g = DOMAIN f,
         NEW a \in DOMAIN f, \A s \in DOMAIN f \ {a} : g[s] = f[s],
         Distinct(g[a]), Members(g[a]) = Members(f[a]) \cup {x}
  PROVE  Dealt(g, X \cup {x})
<1>1. \A s \in DOMAIN f : Distinct(g[s]) /\ Members(g[s]) \subseteq X \cup {x}
  BY DEF Dealt
<1>2. \A s, t \in DOMAIN f : s # t => Members(g[s]) \cap Members(g[t]) = {}
  <2> SUFFICES ASSUME NEW s \in DOMAIN f, NEW t \in DOMAIN f, s # t
               PROVE  Members(g[s]) \cap Members(g[t]) = {}
    OBVIOUS
  <2>1. CASE s # a /\ t # a
    BY <2>1 DEF Dealt
  <2>2. CASE s = a
    BY <2>2 DEF Dealt
  <2>3. CASE t = a
    BY <2>3 DEF Dealt
  <2> QED
    BY <2>1, <2>2, <2>3
<1>3. \A y \in X \cup {x} : \E s \in DOMAIN f : y \in Members(g[s])
  BY DEF Dealt
<1> QED
  BY <1>1, <1>2, <1>3 DEF Dealt

\* Shelves move as a whole, and those left behind were empty.
LEMMA DealtRenamed ==
  ASSUME NEW X, NEW f, NEW g, NEW to, Dealt(f, X), DOMAIN g = DOMAIN f,
         \A s \in DOMAIN f : to[s] \in DOMAIN f /\ g[s] = f[to[s]],
         \A s, t \in DOMAIN f : to[s] = to[t] => s = t,
         \A t \in DOMAIN f : (\E s \in DOMAIN f : to[s] = t) \/ f[t] = << >>
  PROVE  Dealt(g, X)
<1>1. \A s \in DOMAIN f : Distinct(g[s]) /\ Members(g[s]) \subseteq X
  BY DEF Dealt
<1>2. \A s, t \in DOMAIN f : s # t => Members(g[s]) \cap Members(g[t]) = {}
  BY DEF Dealt
<1>3. \A x \in X : \E s \in DOMAIN f : x \in Members(g[s])
  <2> SUFFICES ASSUME NEW x \in X
               PROVE  \E s \in DOMAIN f : x \in Members(g[s])
    OBVIOUS
  <2>1. PICK t \in DOMAIN f : x \in Members(f[t])
    BY DEF Dealt
  <2>2. PICK s \in DOMAIN f : to[s] = t
    BY <2>1, EmptyDistinct
  <2> QED
    BY <2>1, <2>2
<1> QED
  BY <1>1, <1>2, <1>3 DEF Dealt

-----------------------------------------------------------------------------
(* The shelves of a device, with a block's for every number.               *)

AtLocal == <<"local", 0>>
AtTimer == <<"timer", 0>>
AtReturn == <<"return", 0>>
AtSend == <<"send", 0>>
AtGlobal == <<"global", 0>>
AtBlock(k) == <<"block", k>>
Numbers == Nat \ {0}

AllShelves ==
  {AtLocal, AtTimer, AtReturn, AtSend, AtGlobal} \cup {AtBlock(k) : k \in Numbers}

Returns(queue, k) == k \in DOMAIN queue /\ queue[k].kind = "local"
Waits(queue, k) == IF Returns(queue, k) THEN queue[k].items ELSE << >>

\* Everything an operation may be in, as one function.
Laid(lo, ti, queue, re, se, gl) ==
  [s \in AllShelves |->
     CASE s = AtLocal -> lo [] s = AtTimer -> ti [] s = AtReturn -> re
       [] s = AtSend -> se [] s = AtGlobal -> gl
       [] OTHER -> Waits(queue, s[2])]

\* No two of them are the same.
LEMMA ShelvesDiffer ==
  /\ AtLocal # AtTimer /\ AtLocal # AtReturn /\ AtLocal # AtSend /\ AtLocal # AtGlobal
  /\ AtTimer # AtReturn /\ AtTimer # AtSend /\ AtTimer # AtGlobal
  /\ AtReturn # AtSend /\ AtReturn # AtGlobal /\ AtSend # AtGlobal
  /\ \A k : /\ AtBlock(k) # AtLocal /\ AtBlock(k) # AtTimer /\ AtBlock(k) # AtReturn
           /\ AtBlock(k) # AtSend /\ AtBlock(k) # AtGlobal /\ AtBlock(k)[2] = k
  /\ \A j, k : AtBlock(j) = AtBlock(k) => j = k
BY DEF AtLocal, AtTimer, AtReturn, AtSend, AtGlobal, AtBlock

\* What is on each shelf.
LEMMA LaidOut ==
  ASSUME NEW lo, NEW ti, NEW queue, NEW re, NEW se, NEW gl
  PROVE  LET f == Laid(lo, ti, queue, re, se, gl)
         IN  /\ DOMAIN f = AllShelves
             /\ f[AtLocal] = lo /\ f[AtTimer] = ti /\ f[AtReturn] = re
             /\ f[AtSend] = se /\ f[AtGlobal] = gl
             /\ \A k \in Numbers : f[AtBlock(k)] = Waits(queue, k)
<1>1. /\ AtLocal \in AllShelves /\ AtTimer \in AllShelves /\ AtReturn \in AllShelves
      /\ AtSend \in AllShelves /\ AtGlobal \in AllShelves
      /\ \A k \in Numbers : AtBlock(k) \in AllShelves
  BY DEF AllShelves
<1> QED
  BY <1>1, ShelvesDiffer DEF Laid

-----------------------------------------------------------------------------
(* Nothing lost, nothing twice.                                            *)

\* The array in the hands of the timer, and the one that returns.
InTimer == IF main.pc \in TickSteps /\ ~main.same THEN main.array ELSE << >>
InReturn == IF worker.pc \in {"copy", "assign"} THEN worker.items ELSE << >>

Shelved == Laid(local, InTimer, blocks, InReturn, send, global)

\* The main thread's array is the local stack until it is swapped, and the copy that
\* is about to become the local stack still has all of it.
Orderly ==
  /\ main.pc \in {"receiver", "found"} => main.same
  /\ main.pc \in {"swapped", "accepted"} => ~main.same
  /\ worker.pc \in {"copy", "assign"} => main.pc = "idle"
  /\ worker.pc = "assign" => worker.copy = worker.items \o local

\* No refused change set is on its way back.
NoneRefused ==
  /\ worker.pc \notin {"copy", "assign"}
  /\ \A k \in DOMAIN blocks : blocks[k].kind = "new"

\* The inductive invariant.
KeptInv ==
  /\ Orderly
  /\ "refuse" \notin Overlaps => NoneRefused
  /\ Dealt(Shelved, Indexes \ Pending)

\* The handling of an item is no return of a refused change set.
LEMMA QuietItems ==
  ASSUME Typed,
         BeginItem \/ EndItem \/ ConfirmOperation \/ TestCount \/ ObjectAtIndex \/ Show
  PROVE  /\ worker.pc \notin {"copy", "assign"} /\ worker'.pc \notin {"copy", "assign"}
         /\ main' = main /\ local' = local /\ blocks' = blocks
<1>1. worker \in Workers
  BY DEF Typed, QueueTyped
<1>2. CASE BeginItem
  BY <1>1, <1>2 DEF BeginItem, heap, Workers, IdleWorker
<1>3. CASE EndItem
  BY <1>1, <1>3 DEF EndItem, heap, Workers
<1>4. CASE ConfirmOperation
  BY <1>1, <1>4 DEF ConfirmOperation, Enumerated, heap, Workers
<1>5. CASE TestCount
  <2>1. After[worker.pc] \notin {"copy", "assign"}
    BY <1>5 DEF TestCount, After
  <2> QED
    BY <1>1, <1>5, <2>1 DEF TestCount, After, heap, Workers
<1>6. CASE ObjectAtIndex
  <2>1. worker.pc \notin {"copy", "assign"} /\ worker'.pc = worker.pc
    <3>1. worker.pc \in DOMAIN After
      BY <1>6 DEF ObjectAtIndex
    <3>2. worker'.pc = worker.pc
      BY <1>1, <1>6 DEF ObjectAtIndex, Workers
    <3> QED
      BY <3>1, <3>2 DEF After
  <2> QED
    BY <1>6, <2>1 DEF ObjectAtIndex, heap
<1>7. CASE Show
  BY <1>1, <1>7 DEF Show, heap, Workers
<1> QED
  BY <1>2, <1>3, <1>4, <1>5, <1>6, <1>7

\* Without refusals nothing returns to the local stack.
LEMMA NoneReturns ==
  ASSUME "refuse" \notin Overlaps, Typed, NoneRefused, [Next]_vars
  PROVE  NoneRefused'
<1>1. blocks \in Seq(Blocks)
  BY DEF Typed, QueueTyped
<1>2. CASE Keystroke \/ ForeignEvent \/ LoadDecodedID \/ StoreDecodedID \/ UNCHANGED vars
  BY <1>2 DEF Keystroke, LoadOperationID, StoreOperationID, FindLocalStack,
              AddToLocalStack, ForeignEvent, LoadDecodedID, StoreDecodedID, vars,
              NoneRefused
<1>3. CASE Tick
  BY <1>3 DEF Tick, FindLocalOperations, SwapLocalStack, BroadcastChangeSet,
              AddChangeSetToLocal, PutIntoSendStack, NoneRefused
<1>4. CASE AddNewChangeSet
  <2> DEFINE n == Len(blocks)
             new == [kind |-> "new", items |-> Head(session)]
  <2>1. /\ n \in Nat /\ blocks' = Append(blocks, new) /\ new.kind = "new"
        /\ DOMAIN blocks' = 1..(n + 1) /\ blocks'[n + 1] = new
        /\ \A k \in 1..n : blocks'[k] = blocks[k]
    BY <1>1, <1>4 DEF AddNewChangeSet
  <2> HIDE DEF new
  <2>2. \A k \in 1..(n + 1) : k \in 1..n \/ k = n + 1
    BY <2>1
  <2>3. \A k \in DOMAIN blocks' : blocks'[k].kind = "new"
    BY <1>1, <2>1, <2>2 DEF NoneRefused
  <2> QED
    BY <1>4, <2>3 DEF AddNewChangeSet, NoneRefused
<1>5. CASE BeginBlock
  <2>1. /\ blocks # << >> /\ blocks' = Tail(blocks) /\ Head(blocks).kind = "new"
        /\ \A k \in DOMAIN blocks' : k + 1 \in DOMAIN blocks /\ blocks'[k] = blocks[k + 1]
    BY <1>1, <1>5 DEF BeginBlock, NoneRefused
  <2>2. worker'.pc = "item"
    BY <1>5, <2>1 DEF BeginBlock, IdleWorker
  <2> QED
    BY <2>1, <2>2 DEF NoneRefused
<1>6. CASE StackQueue /\ ~BeginBlock
  BY <1>6, QuietItems DEF StackQueue, CopyLocalStack, AssignLocalStack, NoneRefused
<1> QED
  BY <1>2, <1>3, <1>4, <1>5, <1>6 DEF Next, Framework

\* The order of the threads' steps.
LEMMA OrderlyKept ==
  ASSUME ~({"refuse", "return"} \subseteq Overlaps), Typed, Orderly, [Next]_vars,
         "refuse" \notin Overlaps => NoneRefused
  PROVE  Orderly'
<1>1. main \in Mains
  BY DEF Typed, MainTyped
<1>2. "return" \in Overlaps => NoneRefused
  OBVIOUS
<1> USE DEF Orderly
<1>3. CASE Keystroke
  <2>2. worker' = worker
    BY <1>3 DEF Keystroke, LoadOperationID, StoreOperationID, FindLocalStack,
                AddToLocalStack
  <2>3. worker.pc \notin {"copy", "assign"}
    BY <1>2, <1>3 DEF Keystroke, LoadOperationID, StoreOperationID, FindLocalStack,
                      AddToLocalStack, WorkerAway, NoneRefused
  <2>4. CASE LoadOperationID
    <3>1. main'.pc = "counted"
      BY <1>1, <2>4 DEF LoadOperationID, Mains
    <3> QED
      BY <2>2, <2>3, <3>1
  <2>5. CASE StoreOperationID
    <3>1. main'.pc = "made"
      BY <1>1, <2>5 DEF StoreOperationID, Mains
    <3> QED
      BY <2>2, <2>3, <3>1
  <2>6. CASE FindLocalStack
    <3>1. main'.pc = "receiver" /\ main'.same
      BY <1>1, <2>6 DEF FindLocalStack, Mains
    <3> QED
      BY <2>2, <2>3, <3>1
  <2>7. CASE AddToLocalStack
    <3>1. main'.pc = "idle"
      BY <2>7 DEF AddToLocalStack, IdleMain
    <3> QED
      BY <2>2, <2>3, <3>1
  <2> QED
    BY <1>3, <2>4, <2>5, <2>6, <2>7 DEF Keystroke
<1>4. CASE Tick
  <2>1. worker' = worker
    BY <1>4 DEF Tick, FindLocalOperations, SwapLocalStack, BroadcastChangeSet,
                AddChangeSetToLocal, PutIntoSendStack
  <2>2. worker.pc \notin {"copy", "assign"}
    BY <1>2, <1>4 DEF Tick, FindLocalOperations, SwapLocalStack, BroadcastChangeSet,
                      AddChangeSetToLocal, PutIntoSendStack, WorkerAway, NoneRefused
  <2>3. CASE FindLocalOperations
    <3>1. main'.pc = "found" /\ main'.same
      BY <1>1, <2>3 DEF FindLocalOperations, Mains
    <3> QED
      BY <2>1, <2>2, <3>1
  <2>4. CASE SwapLocalStack
    <3>1. main'.pc = "idle" \/ (main'.pc = "swapped" /\ ~main'.same)
      BY <1>1, <2>4 DEF SwapLocalStack, Mains, IdleMain
    <3> QED
      BY <2>1, <2>2, <3>1
  <2>5. CASE BroadcastChangeSet
    <3>1. main'.pc = "accepted" /\ ~main'.same
      BY <1>1, <2>5 DEF BroadcastChangeSet, Mains
    <3> QED
      BY <2>1, <2>2, <3>1
  <2>6. CASE AddChangeSetToLocal \/ PutIntoSendStack
    <3>1. main'.pc = "idle"
      BY <2>6 DEF AddChangeSetToLocal, PutIntoSendStack, IdleMain
    <3> QED
      BY <2>1, <2>2, <3>1
  <2> QED
    BY <1>4, <2>3, <2>4, <2>5, <2>6 DEF Tick
<1>5. CASE ForeignEvent \/ Framework \/ UNCHANGED vars
  BY <1>5 DEF ForeignEvent, Framework, LoadDecodedID, StoreDecodedID, AddNewChangeSet,
              heap, vars
<1>6. CASE StackQueue
  <2>1. CASE BeginBlock
    <3>1. /\ worker'.pc \in {"item", "copy"}
          /\ worker'.pc = "copy" => Head(blocks).kind # "new"
      BY <2>1 DEF BeginBlock, IdleWorker
    <3>2. blocks # << >> /\ main' = main
      BY <2>1 DEF BeginBlock
    <3>3. Head(blocks).kind # "new" => Head(blocks).kind = "local"
      BY <3>2 DEF Typed, QueueTyped, Blocks
    <3>4. Head(blocks).kind = "local" => main.pc = "idle"
      BY <1>2, <2>1, <3>2 DEF BeginBlock, MainAway, NoneRefused
    <3> QED
      BY <3>1, <3>2, <3>3, <3>4
  <2>2. CASE CopyLocalStack
    <3>1. worker'.pc = "assign" /\ worker'.copy = worker.items \o local
          /\ worker'.items = worker.items
      BY <2>2 DEF CopyLocalStack, Typed, QueueTyped, Workers
    <3>2. main' = main /\ local' = local /\ worker.pc = "copy"
      BY <2>2 DEF CopyLocalStack, heap
    <3> QED
      BY <3>1, <3>2
  <2>3. CASE AssignLocalStack
    <3>1. worker'.pc = "idle"
      BY <2>3 DEF AssignLocalStack, IdleWorker
    <3>2. main.pc = "idle" /\ main'.pc = "idle"
      BY <1>1, <2>3 DEF AssignLocalStack, Mains
    <3> QED
      BY <3>1, <3>2
  <2>4. CASE BeginItem \/ EndItem \/ ConfirmOperation \/ TestCount \/ ObjectAtIndex \/ Show
    <3>1. main' = main
      BY <2>4 DEF BeginItem, EndItem, ConfirmOperation, Enumerated, TestCount, ObjectAtIndex, Show
    <3>2. worker'.pc \notin {"copy", "assign"}
      BY <2>4, QuietItems
    <3> QED
      BY <3>1, <3>2
  <2> QED
    BY <1>6, <2>1, <2>2, <2>3, <2>4 DEF StackQueue
<1> QED
  BY <1>3, <1>4, <1>5, <1>6 DEF Next

\* The shelves before and after a step.
LEMMA ShelvedBefore ==
  /\ DOMAIN Shelved = AllShelves
  /\ Shelved[AtLocal] = local /\ Shelved[AtTimer] = InTimer
  /\ Shelved[AtReturn] = InReturn /\ Shelved[AtSend] = send
  /\ Shelved[AtGlobal] = global
  /\ \A k \in Numbers : Shelved[AtBlock(k)] = Waits(blocks, k)
BY LaidOut DEF Shelved

LEMMA ShelvedAfter ==
  /\ DOMAIN Shelved' = AllShelves
  /\ Shelved'[AtLocal] = local' /\ Shelved'[AtTimer] = InTimer'
  /\ Shelved'[AtReturn] = InReturn' /\ Shelved'[AtSend] = send'
  /\ Shelved'[AtGlobal] = global'
  /\ \A k \in Numbers : Shelved'[AtBlock(k)] = Waits(blocks', k)
BY LaidOut DEF Shelved

LEMMA TheShelves ==
  /\ AtLocal \in AllShelves /\ AtTimer \in AllShelves /\ AtReturn \in AllShelves
  /\ AtSend \in AllShelves /\ AtGlobal \in AllShelves
  /\ \A k \in Numbers : AtBlock(k) \in AllShelves
BY DEF AllShelves

\* What a step that touches no shelf leaves.
LEMMA ShelvesStay ==
  ASSUME local' = local, send' = send, global' = global, InTimer' = InTimer,
         InReturn' = InReturn, \A k \in Numbers : Waits(blocks', k) = Waits(blocks, k),
         NEW X, Dealt(Shelved, X)
  PROVE  Dealt(Shelved', X)
<1>1. \A s \in AllShelves : Shelved'[s] = Shelved[s]
  BY ShelvedBefore, ShelvedAfter DEF AllShelves
<1> QED
  BY <1>1, ShelvedBefore, ShelvedAfter DEF Dealt

\* A keystroke puts one operation onto the local stack's shelf, at its end.
LEMMA KeystrokeDeals ==
  ASSUME Typed, Orderly, Dealt(Shelved, Indexes \ Pending), Keystroke
  PROVE  Dealt(Shelved, Indexes \ Pending)'
<1> DEFINE n == Len(ops)
           X == Indexes \ Pending
<1>1. /\ main \in Mains /\ ops \in Seq(OpType) /\ n \in Nat /\ Indexes = 1..n
      /\ local \in Seq(Indexes)
  BY DEF Typed, MainTyped, HeapTyped, Indexes
<1>2. main.pc \notin TickSteps /\ main'.pc \notin TickSteps
  <2>1. CASE LoadOperationID
    BY <1>1, <2>1 DEF LoadOperationID, Mains, TickSteps
  <2>2. CASE StoreOperationID
    BY <1>1, <2>2 DEF StoreOperationID, Mains, TickSteps
  <2>3. CASE FindLocalStack
    BY <1>1, <2>3 DEF FindLocalStack, Mains, TickSteps
  <2>4. CASE AddToLocalStack
    BY <1>1, <2>4 DEF AddToLocalStack, IdleMain, TickSteps
  <2> QED
    BY <2>1, <2>2, <2>3, <2>4 DEF Keystroke
<1>3. InTimer' = InTimer /\ InReturn' = InReturn
  BY <1>2 DEF Keystroke, LoadOperationID, StoreOperationID, FindLocalStack,
              AddToLocalStack, InTimer, InReturn, heap
<1>4. CASE LoadOperationID \/ StoreOperationID \/ FindLocalStack
  <2>1. UNCHANGED <<local, send, global, blocks>>
    BY <1>4 DEF LoadOperationID, StoreOperationID, FindLocalStack, heap
  <2>2. Dealt(Shelved', X)
    BY <1>3, <2>1, ShelvesStay
  <2>3. (Indexes \ Pending)' = Indexes \ Pending
    <3>1. CASE LoadOperationID
      BY <1>1, <3>1 DEF LoadOperationID, heap, Mains, Pending, Indexes
    <3>2. CASE StoreOperationID
      <4>1. Len(ops') = n + 1 /\ Indexes' = 1..(n + 1)
        BY <1>1, <3>2 DEF StoreOperationID, Indexes
      <4>2. Pending = {} /\ Pending' = {n + 1}
        BY <1>1, <3>2, <4>1 DEF StoreOperationID, Mains, Pending
      <4> QED
        BY <1>1, <4>1, <4>2
    <3>3. CASE FindLocalStack
      BY <1>1, <3>3 DEF FindLocalStack, heap, Mains, Pending, Indexes
    <3> QED
      BY <1>4, <3>1, <3>2, <3>3
  <2> QED
    BY <2>2, <2>3
<1>5. CASE AddToLocalStack
  <2>1. /\ local' = Append(local, n) /\ main.pc = "receiver" /\ main'.pc = "idle"
        /\ UNCHANGED <<ops, send, global, blocks>>
    BY <1>5 DEF AddToLocalStack, Orderly, IdleMain
  <2>2. n \in Indexes
    BY <1>1, <2>1 DEF Typed, MainTyped
  <2>3. Pending = {n} /\ (Indexes \ Pending)' = X \cup {n} /\ n \notin X
    BY <2>1, <2>2 DEF Pending, Indexes
  <2>4. \A k \in Numbers : Waits(blocks', k) = Waits(blocks, k)
    BY <2>1
  <2>5. \A s \in DOMAIN Shelved \ {AtLocal} : Shelved'[s] = Shelved[s]
    BY <1>3, <2>1, <2>4, ShelvedBefore, ShelvedAfter DEF AllShelves
  <2>6. Distinct(local) /\ n \notin Members(local)
    BY <2>3, ShelvedBefore, TheShelves DEF Dealt
  <2>7. Distinct(local') /\ Members(local') = Members(local) \cup {n}
    BY <1>1, <2>1, <2>2, <2>6, AppendDistinct
  <2>8. Dealt(Shelved', X \cup {n})
    BY <2>3, <2>5, <2>7, ShelvedBefore, ShelvedAfter, TheShelves, DealtGrown
  <2> QED
    BY <2>3, <2>8
<1> QED
  BY <1>4, <1>5 DEF Keystroke

\* A tick moves whole arrays: local to timer, timer to block, timer to send.
LEMMA TickDeals ==
  ASSUME Typed, Orderly, Dealt(Shelved, Indexes \ Pending), Tick
  PROVE  Dealt(Shelved, Indexes \ Pending)'
<1> DEFINE X == Indexes \ Pending
<1>1. /\ main \in Mains /\ local \in Seq(Indexes) /\ send \in Seq(Indexes)
      /\ main.array \in Seq(Indexes)
  BY DEF Typed, MainTyped, HeapTyped, Mains
<1>2. /\ DOMAIN Shelved = AllShelves /\ DOMAIN Shelved' = AllShelves
      /\ AtLocal \in AllShelves /\ AtTimer \in AllShelves /\ AtSend \in AllShelves
  BY ShelvedBefore, ShelvedAfter, TheShelves
<1>3. InReturn' = InReturn
  BY DEF Tick, FindLocalOperations, SwapLocalStack, BroadcastChangeSet,
         AddChangeSetToLocal, PutIntoSendStack, InReturn
<1>4. X' = X
  <2>1. Indexes' = Indexes
    BY DEF Tick, FindLocalOperations, SwapLocalStack, BroadcastChangeSet,
           AddChangeSetToLocal, PutIntoSendStack, Indexes, heap
  <2>2. main.pc \notin {"made", "receiver"}
    BY DEF Tick, FindLocalOperations, SwapLocalStack, BroadcastChangeSet,
           AddChangeSetToLocal, PutIntoSendStack
  <2>3. main'.pc \notin {"made", "receiver"}
    <3>1. CASE FindLocalOperations
      BY <1>1, <3>1 DEF FindLocalOperations, Mains
    <3>2. CASE SwapLocalStack
      BY <1>1, <3>2 DEF SwapLocalStack, Mains, IdleMain
    <3>3. CASE BroadcastChangeSet
      BY <1>1, <3>3 DEF BroadcastChangeSet, Mains
    <3>4. CASE AddChangeSetToLocal \/ PutIntoSendStack
      BY <3>4 DEF AddChangeSetToLocal, PutIntoSendStack, IdleMain
    <3> QED
      BY <3>1, <3>2, <3>3, <3>4 DEF Tick
  <2> QED
    BY <2>1, <2>2, <2>3 DEF Pending
<1>5. CASE FindLocalOperations
  <2>1. InTimer = << >> /\ InTimer' = << >>
    BY <1>1, <1>5 DEF FindLocalOperations, InTimer, Mains, TickSteps
  <2>2. UNCHANGED <<local, send, global, blocks>>
    BY <1>5 DEF FindLocalOperations, heap
  <2> QED
    BY <1>3, <1>4, <2>1, <2>2, ShelvesStay
<1>6. CASE SwapLocalStack
  <2>1. InTimer = << >> /\ Found = local
    BY <1>6 DEF SwapLocalStack, Orderly, InTimer, Found
  <2>2. InTimer' = local
    BY <1>1, <1>6, <2>1 DEF SwapLocalStack, InTimer, Mains, TickSteps, IdleMain
  <2>3. local' = << >> /\ UNCHANGED <<send, global, blocks>>
    BY <1>6 DEF SwapLocalStack
  <2>4. \A s \in DOMAIN Shelved \ {AtLocal, AtTimer} : Shelved'[s] = Shelved[s]
    BY <1>3, <2>3, ShelvedBefore, ShelvedAfter DEF AllShelves
  <2>5. /\ Shelved[AtLocal] = local /\ Shelved[AtTimer] = << >>
        /\ Shelved'[AtLocal] = << >> /\ Shelved'[AtTimer] = local
        /\ AtLocal # AtTimer
    BY <2>1, <2>2, <2>3, ShelvedBefore, ShelvedAfter, ShelvesDiffer
  <2>6. Distinct(local)
    BY <1>2, <2>5 DEF Dealt
  <2>7. Dealt(Shelved', X)
    BY <1>2, <2>4, <2>5, <2>6, EmptyDistinct, DealtMoved
  <2> QED
    BY <1>4, <2>7
<1>7. CASE BroadcastChangeSet
  <2>1. InTimer' = InTimer
    BY <1>1, <1>7 DEF BroadcastChangeSet, InTimer, Mains, TickSteps
  <2>2. UNCHANGED <<local, send, global, blocks>>
    BY <1>7 DEF BroadcastChangeSet, heap
  <2> QED
    BY <1>3, <1>4, <2>1, <2>2, ShelvesStay
<1>8. CASE AddChangeSetToLocal
  <2> DEFINE n == Len(blocks)
             new == [kind |-> "local", items |-> main.array]
  <2>1. n \in Nat /\ blocks \in Seq(Blocks) /\ blocks' = Append(blocks, new)
    BY <1>8 DEF AddChangeSetToLocal, Typed, QueueTyped
  <2>2. /\ new.kind = "local" /\ new.items = main.array
        /\ Len(blocks') = n + 1 /\ blocks'[n + 1] = new
        /\ \A k \in 1..n : blocks'[k] = blocks[k]
    BY <2>1
  <2>3. /\ Waits(blocks, n + 1) = << >> /\ Waits(blocks', n + 1) = main.array
        /\ \A k \in Numbers : k # n + 1 => Waits(blocks', k) = Waits(blocks, k)
    BY <2>1, <2>2 DEF Waits, Returns, Numbers
  <2>4. InTimer = main.array /\ InTimer' = << >>
    BY <1>8 DEF AddChangeSetToLocal, Orderly, InTimer, TickSteps, IdleMain
  <2>5. UNCHANGED <<local, send, global>>
    BY <1>8 DEF AddChangeSetToLocal, heap
  <2>6. n + 1 \in Numbers /\ AtBlock(n + 1) \in AllShelves
    BY <2>1, TheShelves DEF Numbers
  <2>7. \A s \in DOMAIN Shelved \ {AtTimer, AtBlock(n + 1)} : Shelved'[s] = Shelved[s]
    BY <1>3, <2>3, <2>5, ShelvedBefore, ShelvedAfter DEF AllShelves
  <2> HIDE DEF n
  <2>8. /\ Shelved[AtTimer] = main.array /\ Shelved[AtBlock(n + 1)] = << >>
        /\ Shelved'[AtTimer] = << >> /\ Shelved'[AtBlock(n + 1)] = main.array
        /\ AtTimer # AtBlock(n + 1)
    BY <2>3, <2>4, <2>6, ShelvedBefore, ShelvedAfter, ShelvesDiffer
  <2>9. Distinct(main.array)
    BY <1>2, <2>8 DEF Dealt
  <2>10. Dealt(Shelved', X)
    BY <1>2, <2>6, <2>7, <2>8, <2>9, EmptyDistinct, DealtMoved
  <2> QED
    BY <1>4, <2>10
<1>9. CASE PutIntoSendStack
  <2>1. InTimer = main.array /\ InTimer' = << >>
    BY <1>9 DEF PutIntoSendStack, Orderly, InTimer, TickSteps, IdleMain
  <2>2. send' = send \o main.array /\ UNCHANGED <<local, global, blocks>>
    BY <1>9 DEF PutIntoSendStack
  <2>3. \A s \in DOMAIN Shelved \ {AtTimer, AtSend} : Shelved'[s] = Shelved[s]
    BY <1>3, <2>2, ShelvedBefore, ShelvedAfter DEF AllShelves
  <2>4. /\ Distinct(send) /\ Distinct(main.array)
        /\ Members(send) \cap Members(main.array) = {}
    BY <1>2, <2>1, ShelvedBefore, ShelvesDiffer DEF Dealt
  <2>5. Distinct(send') /\ Members(send') = Members(send) \cup Members(main.array)
    BY <1>1, <2>2, <2>4, JoinDistinct
  <2>6. Dealt(Shelved', X)
    BY <1>2, <2>1, <2>3, <2>5, ShelvedBefore, ShelvedAfter, ShelvesDiffer,
       EmptyDistinct, DealtMoved
  <2> QED
    BY <1>4, <2>6
<1> QED
  BY <1>5, <1>6, <1>7, <1>8, <1>9 DEF Tick

\* Events touch no shelf.
LEMMA FrameworkDeals ==
  ASSUME Typed, Dealt(Shelved, Indexes \ Pending), ForeignEvent \/ Framework
  PROVE  Dealt(Shelved, Indexes \ Pending)'
<1>1. UNCHANGED <<ops, local, send, global, main, worker>>
  BY DEF ForeignEvent, Framework, LoadDecodedID, StoreDecodedID, AddNewChangeSet, heap
<1>2. InTimer' = InTimer /\ InReturn' = InReturn /\ Indexes' = Indexes /\ Pending' = Pending
  BY <1>1 DEF InTimer, InReturn, Indexes, Pending
<1>3. \A k \in Numbers : Waits(blocks', k) = Waits(blocks, k)
  <2>1. CASE AddNewChangeSet
    <3> DEFINE n == Len(blocks)
               new == [kind |-> "new", items |-> Head(session)]
    <3>1. n \in Nat /\ blocks \in Seq(Blocks) /\ blocks' = Append(blocks, new)
      BY <2>1 DEF AddNewChangeSet, Typed, QueueTyped
    <3>2. /\ new.kind = "new" /\ Len(blocks') = n + 1 /\ blocks'[n + 1] = new
          /\ \A k \in 1..n : blocks'[k] = blocks[k]
      BY <3>1
    <3> QED
      BY <3>1, <3>2 DEF Waits, Returns, Numbers
  <2>2. CASE ForeignEvent \/ LoadDecodedID \/ StoreDecodedID
    BY <2>2 DEF ForeignEvent, LoadDecodedID, StoreDecodedID
  <2> QED
    BY <2>1, <2>2 DEF Framework
<1> QED
  BY <1>1, <1>2, <1>3, ShelvesStay

\* The oldest block leaves the queue: every other one moves up.
LEMMA BlockBegins ==
  ASSUME Typed, Orderly, Dealt(Shelved, Indexes \ Pending), BeginBlock
  PROVE  Dealt(Shelved, Indexes \ Pending)'
<1> DEFINE X == Indexes \ Pending
           to == [s \in AllShelves |->
                    IF s = AtReturn THEN AtBlock(1)
                    ELSE IF \E k \in Numbers : s = AtBlock(k) THEN AtBlock(s[2] + 1)
                    ELSE s]
<1>1. /\ blocks \in Seq(Blocks) /\ blocks # << >> /\ blocks' = Tail(blocks)
      /\ UNCHANGED <<ops, local, send, global, main>> /\ worker.pc = "idle"
  BY DEF BeginBlock, Typed, QueueTyped, heap
<1>2. X' = X /\ InTimer' = InTimer /\ InReturn = << >>
  BY <1>1 DEF Indexes, Pending, InTimer, InReturn
<1>3. \A k \in Numbers : k + 1 \in Numbers /\ Waits(blocks', k) = Waits(blocks, k + 1)
  BY <1>1 DEF Numbers, Waits, Returns
<1>4. 1 \in Numbers /\ InReturn' = Waits(blocks, 1)
  <2>1. Head(blocks) = blocks[1] /\ 1 \in DOMAIN blocks /\ blocks[1] \in Blocks
    BY <1>1
  <2>2. CASE blocks[1].kind = "new"
    BY <2>1, <2>2 DEF BeginBlock, IdleWorker, InReturn, Waits, Returns, Numbers
  <2>3. CASE blocks[1].kind = "local"
    BY <2>1, <2>3 DEF BeginBlock, IdleWorker, InReturn, Waits, Returns, Numbers
  <2> QED
    BY <2>1, <2>2, <2>3 DEF Blocks
<1>5. /\ to[AtLocal] = AtLocal /\ to[AtTimer] = AtTimer /\ to[AtSend] = AtSend
      /\ to[AtGlobal] = AtGlobal /\ to[AtReturn] = AtBlock(1)
      /\ \A k \in Numbers : to[AtBlock(k)] = AtBlock(k + 1)
  BY TheShelves, ShelvesDiffer
<1> HIDE DEF to
<1>6. \A s \in AllShelves : to[s] \in AllShelves /\ Shelved'[s] = Shelved[to[s]]
  <2> SUFFICES ASSUME NEW s \in AllShelves
               PROVE  to[s] \in AllShelves /\ Shelved'[s] = Shelved[to[s]]
    OBVIOUS
  <2>1. CASE s \in {AtLocal, AtTimer, AtSend, AtGlobal}
    BY <1>1, <1>2, <1>5, <2>1, ShelvedBefore, ShelvedAfter
  <2>2. CASE s = AtReturn
    BY <1>4, <1>5, <2>2, ShelvedBefore, ShelvedAfter, TheShelves
  <2>3. ASSUME NEW k \in Numbers, s = AtBlock(k)
        PROVE  to[s] \in AllShelves /\ Shelved'[s] = Shelved[to[s]]
    BY <1>3, <1>5, <2>3, ShelvedBefore, ShelvedAfter, TheShelves
  <2> QED
    BY <2>1, <2>2, <2>3 DEF AllShelves
<1>7. \A s, t \in AllShelves : to[s] = to[t] => s = t
  <2>1. \A k \in Numbers : k + 1 # 1 /\ \A j \in Numbers : j + 1 = k + 1 => j = k
    BY DEF Numbers
  <2> QED
    BY <1>3, <1>4, <1>5, <2>1, ShelvesDiffer DEF AllShelves
<1>8. \A t \in AllShelves : (\E s \in AllShelves : to[s] = t) \/ Shelved[t] = << >>
  <2>1. \A k \in Numbers : k = 1 \/ (k - 1 \in Numbers /\ k = (k - 1) + 1)
    BY DEF Numbers
  <2>2. \A k \in Numbers : \E s \in AllShelves : to[s] = AtBlock(k)
    BY <1>5, <2>1, TheShelves
  <2> QED
    BY <1>2, <1>5, <2>2, ShelvedBefore, TheShelves DEF AllShelves
<1>9. Dealt(Shelved', X)
  BY <1>6, <1>7, <1>8, ShelvedBefore, ShelvedAfter, DealtRenamed
<1> QED
  BY <1>2, <1>9

\* A refused change set returns.
LEMMA ReturnDeals ==
  ASSUME Typed, Orderly, Dealt(Shelved, Indexes \ Pending), AssignLocalStack
  PROVE  Dealt(Shelved, Indexes \ Pending)'
<1> DEFINE X == Indexes \ Pending
<1>1. /\ worker.items \in Seq(Indexes) /\ local \in Seq(Indexes)
      /\ local' = worker.items \o local /\ InReturn = worker.items /\ InReturn' = << >>
  BY DEF AssignLocalStack, Orderly, Typed, HeapTyped, QueueTyped, InReturn, IdleWorker
<1>2. X' = X /\ InTimer' = InTimer /\ UNCHANGED <<send, global, blocks>>
  <2>1. main.pc = "idle" /\ main'.pc = "idle"
    BY DEF AssignLocalStack, Orderly, Typed, MainTyped, Mains
  <2> QED
    BY <2>1 DEF AssignLocalStack, Indexes, Pending, InTimer, TickSteps
<1>3. \A s \in DOMAIN Shelved \ {AtLocal, AtReturn} : Shelved'[s] = Shelved[s]
  BY <1>2, ShelvedBefore, ShelvedAfter DEF AllShelves
<1>4. /\ DOMAIN Shelved = AllShelves /\ DOMAIN Shelved' = AllShelves
      /\ AtLocal \in AllShelves /\ AtReturn \in AllShelves /\ AtLocal # AtReturn
      /\ Shelved[AtLocal] = local /\ Shelved[AtReturn] = worker.items
      /\ Shelved'[AtLocal] = local' /\ Shelved'[AtReturn] = << >>
  BY <1>1, ShelvedBefore, ShelvedAfter, TheShelves, ShelvesDiffer
<1>5. /\ Distinct(local) /\ Distinct(worker.items)
      /\ Members(worker.items) \cap Members(local) = {}
  BY <1>4 DEF Dealt
<1>6. Distinct(local') /\ Members(local') = Members(worker.items) \cup Members(local)
  BY <1>1, <1>5, JoinDistinct
<1>7. Dealt(Shelved', X)
  BY <1>3, <1>4, <1>6, EmptyDistinct, DealtMoved
<1> QED
  BY <1>2, <1>7

\* A confirmed operation goes from the send to the global stack.
LEMMA ItemsDeal ==
  ASSUME Typed, Dealt(Shelved, Indexes \ Pending),
         BeginItem \/ EndItem \/ ConfirmOperation \/ TestCount \/ ObjectAtIndex \/ Show
  PROVE  Dealt(Shelved, Indexes \ Pending)'
<1> DEFINE X == Indexes \ Pending
<1>1. /\ InReturn = << >> /\ InReturn' = << >> /\ InTimer' = InTimer
      /\ local' = local /\ blocks' = blocks /\ main' = main
  BY QuietItems DEF InReturn, InTimer
<1>2. CASE send' = send /\ global' = global /\ ops' = ops
  <2>1. X' = X
    BY <1>1, <1>2 DEF Indexes, Pending
  <2> QED
    BY <1>1, <1>2, <2>1, ShelvesStay
<1>3. CASE ConfirmOperation /\ ~UNCHANGED <<send, global, ops>>
  <2> DEFINE o == send[worker.i + 1]
  <2>1. /\ worker.i < Len(send) /\ global' = Append(global, o)
        /\ send' = Without(send, o) /\ ops' = [ops EXCEPT ![o].state = "GLOBAL"]
    BY <1>3 DEF ConfirmOperation, Enumerated, heap
  <2>2. /\ send \in Seq(Indexes) /\ global \in Seq(Indexes) /\ ops \in Seq(OpType)
        /\ worker.i + 1 \in 1..Len(send) /\ o \in Indexes /\ o \in Members(send)
    <3>1. worker.i \in Nat /\ send \in Seq(Indexes) /\ global \in Seq(Indexes)
          /\ ops \in Seq(OpType)
      BY DEF Typed, HeapTyped, QueueTyped, Workers
    <3>2. worker.i + 1 \in 1..Len(send)
      BY <2>1, <3>1
    <3> QED
      BY <3>1, <3>2 DEF Members
  <2>3. X' = X
    <3>1. DOMAIN ops' = DOMAIN ops /\ Len(ops') = Len(ops)
      BY <2>1, <2>2
    <3> QED
      BY <1>1, <3>1 DEF Indexes, Pending
  <2>4. \A s \in DOMAIN Shelved \ {AtSend, AtGlobal} : Shelved'[s] = Shelved[s]
    BY <1>1, ShelvedBefore, ShelvedAfter DEF AllShelves
  <2>5. /\ DOMAIN Shelved = AllShelves /\ DOMAIN Shelved' = AllShelves
        /\ AtSend \in AllShelves /\ AtGlobal \in AllShelves /\ AtSend # AtGlobal
        /\ Shelved[AtSend] = send /\ Shelved[AtGlobal] = global
        /\ Shelved'[AtSend] = send' /\ Shelved'[AtGlobal] = global'
    BY ShelvedBefore, ShelvedAfter, TheShelves, ShelvesDiffer
  <2> HIDE DEF o
  <2>6. Distinct(send) /\ Distinct(global) /\ Members(send) \cap Members(global) = {}
    BY <2>5 DEF Dealt
  <2>7. Distinct(send') /\ Members(send') = Members(send) \ {o}
    BY <2>1, <2>2, <2>6, WithoutDistinct
  <2>8. Distinct(global') /\ Members(global') = Members(global) \cup {o}
    <3>1. o \notin Members(global)
      BY <2>2, <2>6
    <3> QED
      BY <2>1, <2>2, <2>6, <3>1, AppendDistinct
  <2>9. Dealt(Shelved', X)
    BY <2>2, <2>4, <2>5, <2>6, <2>7, <2>8, DealtMoved
  <2> QED
    BY <2>3, <2>9
<1> QED
  BY <1>2, <1>3 DEF BeginItem, EndItem, TestCount, ObjectAtIndex, Show, heap

\* The shelves of StackThreads are those of AllShelves that can hold something.
LEMMA TheSameShelves ==
  ASSUME Typed
  PROVE  /\ \A s \in Shelves : s \in AllShelves /\ Shelf(s) = Shelved[s]
         /\ \A s \in AllShelves : s \in Shelves \/ Shelved[s] = << >>
<1>1. DOMAIN blocks \subseteq Numbers
  BY DEF Typed, QueueTyped, Numbers
<1>2. Shelves = {AtLocal, AtTimer, AtReturn, AtSend, AtGlobal}
                  \cup {AtBlock(k) : k \in DOMAIN blocks}
  BY DEF Shelves, AtLocal, AtTimer, AtReturn, AtSend, AtGlobal, AtBlock
<1>3. \A s \in Shelves : s \in AllShelves
  BY <1>1, <1>2 DEF AllShelves
<1>4. /\ Shelf(AtLocal) = local /\ Shelf(AtTimer) = InTimer /\ Shelf(AtReturn) = InReturn
      /\ Shelf(AtSend) = send /\ Shelf(AtGlobal) = global
  BY DEF Shelf, InTimer, InReturn, AtLocal, AtTimer, AtReturn, AtSend, AtGlobal
<1>5. \A k \in DOMAIN blocks : Shelf(AtBlock(k)) = Waits(blocks, k)
  BY DEF Shelf, AtBlock, Waits, Returns
<1>6. \A s \in Shelves : Shelf(s) = Shelved[s]
  BY <1>1, <1>2, <1>4, <1>5, ShelvedBefore
<1>7. \A s \in AllShelves : s \in Shelves \/ Shelved[s] = << >>
  <2>1. \A k \in Numbers : k \notin DOMAIN blocks => Waits(blocks, k) = << >>
    BY DEF Waits, Returns
  <2> QED
    BY <1>2, <2>1, ShelvedBefore DEF AllShelves
<1> QED
  BY <1>3, <1>6, <1>7

LEMMA ShelvesAreArrays ==
  ASSUME Typed
  PROVE  \A s \in Shelves : DOMAIN Shelf(s) = 1..Len(Shelf(s))
<1>1. /\ local \in Seq(Indexes) /\ send \in Seq(Indexes) /\ global \in Seq(Indexes)
      /\ InTimer \in Seq(Indexes) /\ InReturn \in Seq(Indexes)
  BY DEF Typed, HeapTyped, MainTyped, Mains, QueueTyped, InTimer, InReturn
<1>2. \A k \in Numbers : Waits(blocks, k) \in Seq(Indexes)
  BY DEF Typed, QueueTyped, Blocks, Waits, Returns
<1>3. \A s \in AllShelves : Shelved[s] \in Seq(Indexes)
  BY <1>1, <1>2, ShelvedBefore DEF AllShelves
<1>4. \A s \in Shelves : Shelf(s) \in Seq(Indexes)
  BY <1>3, TheSameShelves
<1> QED
  BY <1>4

\* Being on one shelf, once, is having one place.
LEMMA DealtIsKept ==
  ASSUME Typed, Dealt(Shelved, Indexes \ Pending)
  PROVE  KeptOnce
<1> SUFFICES ASSUME NEW o \in Indexes \ Pending
             PROVE  Cardinality(Places(o)) = 1
  BY DEF KeptOnce
<1>1. PICK s \in AllShelves : o \in Members(Shelved[s])
  BY ShelvedBefore DEF Dealt
<1>2. s \in Shelves /\ Shelf(s) = Shelved[s]
  BY <1>1, TheSameShelves, EmptyDistinct
<1>3. PICK k \in DOMAIN Shelf(s) : Shelf(s)[k] = o
  BY <1>1, <1>2, ShelvesAreArrays DEF Members
<1>4. ASSUME NEW t \in Shelves, NEW j \in DOMAIN Shelf(t), Shelf(t)[j] = o
      PROVE  t = s /\ j = k
  <2>1. t \in AllShelves /\ Shelf(t) = Shelved[t] /\ o \in Members(Shelved[t])
    BY <1>4, TheSameShelves, ShelvesAreArrays DEF Members
  <2>2. t = s
    BY <1>1, <2>1, ShelvedBefore DEF Dealt
  <2>3. Distinct(Shelf(s)) /\ j \in 1..Len(Shelf(s)) /\ k \in 1..Len(Shelf(s))
    BY <1>1, <1>2, <1>3, <2>2, ShelvedBefore, ShelvesAreArrays DEF Dealt
  <2> QED
    BY <1>3, <1>4, <2>2, <2>3 DEF Distinct
<1>5. Places(o) = {<<s, k>>}
  BY <1>2, <1>3, <1>4 DEF Places
<1> QED
  BY <1>5, FS_Singleton

LEMMA InitDealt == Init => KeptInv
<1> SUFFICES ASSUME Init PROVE KeptInv
  OBVIOUS
<1>1. Orderly
  BY DEF Init, Orderly, IdleMain, IdleWorker
<1>2. /\ local = << >> /\ send = << >> /\ global = << >> /\ InTimer = << >>
      /\ InReturn = << >> /\ \A k \in Numbers : Waits(blocks, k) = << >>
  BY DEF Init, IdleMain, IdleWorker, TickSteps, InTimer, InReturn, Waits, Returns, Numbers
<1>3. \A s \in AllShelves : Shelved[s] = << >>
  BY <1>2, ShelvedBefore DEF AllShelves
<1>4. Indexes \ Pending = {}
  BY DEF Init, Indexes
<1>5. Dealt(Shelved, Indexes \ Pending)
  BY <1>3, <1>4, ShelvedBefore, EmptyDistinct DEF Dealt
<1>6. NoneRefused
  BY DEF Init, NoneRefused, IdleWorker
<1> QED
  BY <1>1, <1>5, <1>6 DEF KeptInv

LEMMA KeptPreserved ==
  ASSUME ~({"refuse", "return"} \subseteq Overlaps), Typed, KeptInv, [Next]_vars
  PROVE  KeptInv'
<1>1. /\ Orderly /\ Orderly' /\ Dealt(Shelved, Indexes \ Pending)
      /\ "refuse" \notin Overlaps => NoneRefused'
  BY NoneReturns, OrderlyKept DEF KeptInv
<1>2. CASE Keystroke
  BY <1>1, <1>2, KeystrokeDeals DEF KeptInv
<1>3. CASE Tick
  BY <1>1, <1>3, TickDeals DEF KeptInv
<1>4. CASE ForeignEvent \/ Framework
  BY <1>1, <1>4, FrameworkDeals DEF KeptInv
<1>5. CASE StackQueue
  <2>1. CASE BeginBlock
    BY <1>1, <2>1, BlockBegins DEF KeptInv
  <2>2. CASE CopyLocalStack
    <3>1. InReturn' = InReturn
      BY <2>2 DEF CopyLocalStack, InReturn, Typed, QueueTyped, Workers
    <3>2. UNCHANGED <<heap, main, blocks>>
      BY <2>2 DEF CopyLocalStack
    <3>3. InTimer' = InTimer /\ (Indexes \ Pending)' = Indexes \ Pending
      BY <3>2 DEF heap, InTimer, Indexes, Pending
    <3> QED
      BY <1>1, <3>1, <3>2, <3>3, ShelvesStay DEF heap, KeptInv
  <2>3. CASE AssignLocalStack
    BY <1>1, <2>3, ReturnDeals DEF KeptInv
  <2> QED
    BY <1>1, <1>5, <2>1, <2>2, <2>3, ItemsDeal DEF StackQueue, KeptInv
<1>6. CASE UNCHANGED vars
  <2>1. UNCHANGED <<heap, main, blocks, worker>>
    BY <1>6 DEF vars
  <2>2. InTimer' = InTimer /\ InReturn' = InReturn
        /\ (Indexes \ Pending)' = Indexes \ Pending
    BY <2>1 DEF heap, InTimer, InReturn, Indexes, Pending
  <2> QED
    BY <1>1, <2>1, <2>2, ShelvesStay DEF heap, KeptInv
<1> QED
  BY <1>2, <1>3, <1>4, <1>5, <1>6 DEF Next

LEMMA AlwaysKept ==
  ASSUME ~({"refuse", "return"} \subseteq Overlaps)
  PROVE  Spec => []KeptInv
<1>1. Typed /\ KeptInv /\ [Next]_vars => KeptInv'
  BY KeptPreserved
<1> QED
  BY AlwaysTyped, InitDealt, <1>1, PTL DEF Spec

\* An operation that was put into the local stack is in one place from then on, as long
\* as no keystroke and no tick comes between the copy and the assignment of
\* addChangeSetToLocal, or no broadcast is refused.
THEOREM KeptUnlessReturning ==
  ~({"refuse", "return"} \subseteq Overlaps) => (Spec => []KeptOnce)
<1> SUFFICES ASSUME ~({"refuse", "return"} \subseteq Overlaps)
             PROVE  Spec => []KeptOnce
  OBVIOUS
<1>1. Typed /\ KeptInv => KeptOnce
  BY DealtIsKept DEF KeptInv
<1>2. Spec => []KeptInv
  BY AlwaysKept
<1> QED
  BY AlwaysTyped, <1>1, <1>2, PTL

-----------------------------------------------------------------------------
(* Adjusted once.                                                          *)

\* The array t starts with s.
Starts(s, t) == Len(s) <= Len(t) /\ \A k \in 1..Len(s) : s[k] = t[k]

LEMMA StartsLonger ==
  ASSUME NEW S, NEW s \in Seq(S), NEW t \in Seq(S), NEW u \in Seq(S), Starts(s, t), Starts(t, u)
  PROVE  Starts(s, u)
<1>1. Len(s) \in Nat /\ Len(t) \in Nat /\ Len(u) \in Nat
  OBVIOUS
<1>2. \A k \in 1..Len(s) : k \in 1..Len(t)
  BY <1>1 DEF Starts
<1> QED
  BY <1>1, <1>2 DEF Starts

LEMMA StartsMembers ==
  ASSUME NEW S, NEW s \in Seq(S), NEW t \in Seq(S), Starts(s, t)
  PROVE  /\ Members(s) \subseteq Members(t)
         /\ Distinct(t) => Distinct(s)
         /\ Len(s) >= Len(t) => Members(t) \subseteq Members(s)
<1>1. Len(s) \in Nat /\ Len(t) \in Nat
  OBVIOUS
<1>2. \A k \in 1..Len(s) : k \in 1..Len(t) /\ s[k] = t[k]
  BY <1>1 DEF Starts
<1>3. Len(s) >= Len(t) => Len(s) = Len(t)
  BY <1>1 DEF Starts
<1> QED
  BY <1>2, <1>3 DEF Members, Distinct

LEMMA StartsGrow ==
  ASSUME NEW S, NEW s \in Seq(S), NEW t \in Seq(S), NEW n \in Nat, NEW x,
         Starts(s, t), n = Len(s), n < Len(t), x = t[n + 1]
  PROVE  Starts(Append(s, x), t) /\ Len(Append(s, x)) = n + 1
<1> DEFINE g == Append(s, x)
<1>1. Len(t) \in Nat /\ n + 1 \in 1..Len(t)
  OBVIOUS
<1>2. x \in S
  BY <1>1
<1>3. Len(g) = n + 1 /\ g[n + 1] = x /\ \A k \in 1..n : g[k] = s[k]
  BY <1>2
<1> HIDE DEF g
<1>4. \A k \in 1..Len(g) : k \in 1..n \/ k = n + 1
  BY <1>1, <1>3
<1>5. \A k \in 1..n : s[k] = t[k]
  BY DEF Starts
<1>6. \A k \in 1..Len(g) : g[k] = t[k]
  BY <1>3, <1>4, <1>5
<1>7. Len(g) <= Len(t)
  BY <1>1, <1>3
<1> QED
  BY <1>3, <1>6, <1>7 DEF Starts, g

\* What two arrays one after the other start with.
LEMMA StartsJoin ==
  ASSUME NEW S, NEW s \in Seq(S), NEW t \in Seq(S), NEW u \in Seq(S), Starts(t, u)
  PROVE  /\ s \o t \in Seq(S) /\ Len(s \o t) = Len(s) + Len(t)
         /\ \A k \in 1..Len(s) : (s \o t)[k] = s[k]
         /\ \A k \in 1..Len(t) : (s \o t)[Len(s) + k] = t[k]
         /\ Starts(<< >>, s \o t) /\ Starts(s \o t, s \o u)
<1> DEFINE a == s \o t
           b == s \o u
           m == Len(s)
<1>1. /\ m \in Nat /\ Len(t) \in Nat /\ Len(u) \in Nat
      /\ a \in Seq(S) /\ Len(a) = m + Len(t) /\ Len(b) = m + Len(u)
      /\ \A k \in 1..m : a[k] = s[k] /\ b[k] = s[k]
      /\ \A k \in 1..Len(t) : a[m + k] = t[k]
      /\ \A k \in 1..Len(u) : b[m + k] = u[k]
  OBVIOUS
<1> HIDE DEF a, b, m
<1>2. Starts(a, b)
  <2>1. Len(t) <= Len(u) /\ \A k \in 1..Len(t) : t[k] = u[k] /\ k \in 1..Len(u)
    BY <1>1 DEF Starts
  <2>2. ASSUME NEW k \in 1..Len(a), k \notin 1..m
        PROVE  a[k] = b[k]
    <3>1. k - m \in 1..Len(t) /\ m + (k - m) = k
      BY <1>1, <2>2
    <3> QED
      BY <1>1, <2>1, <3>1, ZenonT(30)
  <2>3. Len(a) <= Len(b)
    BY <1>1, <2>1
  <2> QED
    BY <1>1, <2>2, <2>3 DEF Starts
<1>3. Starts(<< >>, a)
  <2>1. Len(<< >>) = 0 /\ Len(a) \in Nat
    BY <1>1
  <2>2. \A k \in 1..Len(<< >>) : FALSE
    BY <2>1
  <2> QED
    BY <2>1, <2>2 DEF Starts
<1> QED
  BY <1>1, <1>2, <1>3 DEF a, b, m

LEMMA OnceInDistinct ==
  ASSUME NEW S, NEW s \in Seq(S), Distinct(s), NEW o \in Members(s)
  PROVE  Cardinality({k \in DOMAIN s : s[k] = o}) = 1
<1>1. PICK k \in 1..Len(s) : s[k] = o
  BY DEF Members
<1>2. DOMAIN s = 1..Len(s)
  OBVIOUS
<1>3. {j \in DOMAIN s : s[j] = o} = {k}
  BY <1>1, <1>2 DEF Distinct
<1> QED
  BY <1>3, FS_Singleton

\* The passes in which a foreign operation is handled, and those that come after both
\* loops that carry it.
Adjusting == {"adjustSend", "adjustLocal", "show"}
Handling == {"carrySend", "carryLocal"} \cup Adjusting

\* How far the loops of a foreign operation have come over the send stack and the local
\* stack: all four run over the same operations, except that some may be added at the end.
Progress(w, se, lo) ==
  LET waiting == se \o lo
  IN  /\ w.pc \in {"carrySend", "adjustSend"} => w.i <= Len(se)
      /\ w.pc \in {"carryLocal", "adjustLocal"} => w.i <= Len(lo)
      /\ w.pc \in Handling =>
           /\ w.present \subseteq Members(waiting)
           /\ Starts(w.carried, waiting) /\ Starts(w.adjusted, waiting)
      /\ w.pc = "carrySend" => Len(w.carried) = w.i
      /\ w.pc = "carryLocal" => Len(w.carried) = Len(se) + w.i
      /\ w.pc \in {"carrySend", "carryLocal"} => Len(w.adjusted) = 0
      /\ w.pc \in Adjusting => w.present \subseteq Members(w.carried)
      /\ w.pc = "adjustSend" => Len(w.adjusted) = w.i
      /\ w.pc = "adjustLocal" => Len(w.adjusted) = Len(se) + w.i
      /\ w.pc = "show" => w.present \subseteq Members(w.adjusted)

WaitingInv == Progress(worker, send, local)

\* Operations that are added to the local stack meanwhile.
LEMMA ProgressStays ==
  ASSUME NEW w \in Workers, NEW se \in Seq(Indexes), NEW lo \in Seq(Indexes), NEW mo,
         mo = lo \/ \E o : mo = Append(lo, o),
         Progress(w, se, lo)
  PROVE  Progress(w, se, mo)
<1>1. PICK S : Indexes \subseteq S /\ mo \in Seq(S)
  <2>1. CASE mo = lo
    BY <2>1
  <2>2. CASE \E o : mo = Append(lo, o)
    <3>1. PICK o : mo = Append(lo, o)
      BY <2>2
    <3>2. Indexes \subseteq Indexes \cup {o} /\ lo \in Seq(Indexes \cup {o})
      OBVIOUS
    <3>3. mo \in Seq(Indexes \cup {o})
      BY <3>1, <3>2
    <3> QED
      BY <3>2, <3>3
  <2> QED
    BY <2>1, <2>2
<1>2. /\ se \in Seq(S) /\ lo \in Seq(S) /\ w.carried \in Seq(S) /\ w.adjusted \in Seq(S)
      /\ w.i \in Nat
  BY <1>1 DEF Workers
<1>3. Starts(lo, mo) /\ Len(lo) \in Nat /\ Len(mo) \in Nat
  <2>1. Len(lo) \in Nat /\ Len(mo) \in Nat
    BY <1>1, <1>2
  <2>2. CASE mo = lo
    BY <2>1, <2>2 DEF Starts
  <2>3. CASE \E o : mo = Append(lo, o)
    <3>1. PICK o : mo = Append(lo, o)
      BY <2>3
    <3>2. Len(mo) = Len(lo) + 1 /\ \A k \in 1..Len(lo) : mo[k] = lo[k]
      BY <3>1
    <3> QED
      BY <2>1, <3>2 DEF Starts
  <2> QED
    BY <2>2, <2>3
<1>4. /\ se \o lo \in Seq(S) /\ se \o mo \in Seq(S) /\ Starts(se \o lo, se \o mo)
  <2>1. Starts(mo, mo)
    BY <1>1, <1>3 DEF Starts
  <2> QED
    BY <1>1, <1>2, <1>3, <2>1, StartsJoin
<1>5. w.pc \in Handling =>
        Starts(w.carried, se \o mo) /\ Starts(w.adjusted, se \o mo)
  BY <1>2, <1>4, StartsLonger DEF Progress
<1>6. Members(se \o lo) \subseteq Members(se \o mo)
  BY <1>4, StartsMembers
<1>7. w.i <= Len(lo) => w.i <= Len(mo)
  BY <1>2, <1>3 DEF Starts
<1> QED
  BY <1>5, <1>6, <1>7 DEF Progress

LEMMA WaitingHandled ==
  ASSUME Typed, TestedInv, WaitingInv, BeginItem \/ TestCount \/ ObjectAtIndex
  PROVE  WaitingInv'
<1> DEFINE se == send
           lo == local
           waiting == se \o lo
           w == worker
<1>1. /\ se \in Seq(Indexes) /\ lo \in Seq(Indexes) /\ w \in Workers
      /\ send' = se /\ local' = lo
  <2>1. send' = send /\ local' = local
    BY DEF BeginItem, TestCount, ObjectAtIndex, heap
  <2> QED
    BY <2>1 DEF Typed, HeapTyped, QueueTyped
<1>2. /\ waiting \in Seq(Indexes) /\ Len(waiting) = Len(se) + Len(lo)
      /\ \A k \in 1..Len(se) : waiting[k] = se[k]
      /\ \A k \in 1..Len(lo) : waiting[Len(se) + k] = lo[k]
      /\ Starts(<< >>, waiting)
      /\ Len(se) \in Nat /\ Len(lo) \in Nat
  <2>1. Starts(lo, lo) /\ Len(lo) \in Nat /\ Len(se) \in Nat
    BY <1>1 DEF Starts
  <2> HIDE DEF se, lo
  <2> QED
    BY <1>1, <2>1, StartsJoin
<1>3. /\ w.i \in Nat /\ w.carried \in Seq(Indexes) /\ w.adjusted \in Seq(Indexes)
      /\ Len(w.carried) \in Nat /\ Len(w.adjusted) \in Nat
      /\ w.present \subseteq Indexes
  BY <1>1 DEF Workers
<1>4. Progress(w, se, lo)
  BY DEF WaitingInv
<1>5. /\ StackOf("carrySend") = se /\ StackOf("adjustSend") = se
      /\ StackOf("carryLocal") = lo /\ StackOf("adjustLocal") = lo
  BY DEF StackOf
<1>6. /\ After["carrySend"] = "carryLocal" /\ After["carryLocal"] = "adjustSend"
      /\ After["adjustSend"] = "adjustLocal" /\ After["adjustLocal"] = "show"
      /\ DOMAIN After = {"carrySend", "carryLocal", "adjustSend", "adjustLocal"}
  BY DEF After
<1>7. CASE BeginItem
  <2>1. CASE worker'.pc \notin Handling
    BY <2>1 DEF WaitingInv, Progress, Handling, Adjusting
  <2>2. CASE worker' = [w EXCEPT !.pc = "carrySend", !.i = 0, !.tested = FALSE,
                                 !.present = Range(se \o lo),
                                 !.carried = << >>, !.adjusted = << >>]
    <3>1. /\ worker'.pc = "carrySend" /\ worker'.i = 0 /\ worker'.present = Range(waiting)
          /\ worker'.carried = << >> /\ worker'.adjusted = << >>
      BY <1>1, <2>2 DEF Workers
    <3>2. Range(waiting) = Members(waiting)
      <4> HIDE DEF waiting
      <4>1. DOMAIN waiting = 1..Len(waiting)
        BY <1>2
      <4> QED
        BY <4>1 DEF Range, Members
    <3>3. Len(<< >>) = 0
      OBVIOUS
    <3> HIDE DEF waiting, se, lo
    <3>4. Progress(worker', se, lo)
      BY <1>2, <3>1, <3>2, <3>3 DEF Progress, Adjusting, waiting
    <3> QED
      BY <1>1, <3>4 DEF WaitingInv, se, lo
  <2>3. \/ worker'.pc \notin Handling
        \/ worker' = [w EXCEPT !.pc = "carrySend", !.i = 0, !.tested = FALSE,
                               !.present = Range(se \o lo),
                               !.carried = << >>, !.adjusted = << >>]
    <3>1. /\ IdleWorker.pc \notin Handling
          /\ \A p \in {"end", "confirm"} : p \notin Handling
      BY DEF IdleWorker, Handling, Adjusting
    <3>2. \A p : [w EXCEPT !.pc = p, !.i = 0, !.mark = changes].pc = p
      BY <1>1 DEF Workers
    <3> QED
      BY <1>7, <3>1, <3>2 DEF BeginItem
  <2> QED
    BY <2>1, <2>2, <2>3
<1>8. CASE TestCount
  <2>1. w.pc \in DOMAIN After
    BY <1>8 DEF TestCount
  <2>2. CASE worker' = [w EXCEPT !.tested = TRUE]
    <3>1. /\ worker'.pc = w.pc /\ worker'.i = w.i /\ worker'.present = w.present
          /\ worker'.carried = w.carried /\ worker'.adjusted = w.adjusted
      BY <1>1, <2>2 DEF Workers
    <3> HIDE DEF waiting, se, lo, w
    <3>2. Progress(worker', se, lo)
      BY <1>4, <3>1 DEF Progress
    <3> QED
      BY <1>1, <3>2 DEF WaitingInv, se, lo
  <2>3. CASE /\ worker' = [w EXCEPT !.pc = After[w.pc], !.i = 0]
             /\ ~(w.i < Len(StackOf(w.pc)))
    <3>1. /\ worker'.pc = After[w.pc] /\ worker'.i = 0 /\ worker'.present = w.present
          /\ worker'.carried = w.carried /\ worker'.adjusted = w.adjusted
      BY <1>1, <2>3 DEF Workers
    <3>2. /\ w.pc = "carryLocal" => Members(waiting) \subseteq Members(w.carried)
          /\ w.pc = "adjustLocal" => Members(waiting) \subseteq Members(w.adjusted)
      <4>1. /\ w.pc = "carryLocal" =>
                 Starts(w.carried, waiting) /\ Len(w.carried) >= Len(waiting)
            /\ w.pc = "adjustLocal" =>
                 Starts(w.adjusted, waiting) /\ Len(w.adjusted) >= Len(waiting)
        <5> HIDE DEF se, lo, waiting, w
        <5>1. w.pc \in {"carryLocal", "adjustLocal"} => w.i >= Len(lo)
          BY <1>2, <1>3, <1>5, <2>3 DEF w
        <5> QED
          BY <1>2, <1>3, <1>4, <5>1 DEF Progress, Handling, Adjusting, waiting
      <4> HIDE DEF waiting, se, lo, w
      <4> QED
        BY <1>2, <1>3, <4>1, StartsMembers
    <3>3. w.pc \in {"carrySend", "adjustSend"} => w.i >= Len(se) /\ w.i <= Len(se)
      <4> HIDE DEF se, lo, waiting
      <4> QED
        BY <1>2, <1>3, <1>4, <1>5, <2>3 DEF Progress
    <3> HIDE DEF waiting, se, lo, w
    <3>4. CASE w.pc = "carrySend"
      <4>1. worker'.pc = "carryLocal" /\ w.i = Len(se)
        BY <1>2, <1>3, <1>6, <3>1, <3>3, <3>4
      <4> QED
        BY <1>1, <1>2, <1>3, <1>4, <3>1, <3>4, <4>1
        DEF Progress, Handling, Adjusting, WaitingInv, se, lo
    <3>5. CASE w.pc = "carryLocal"
      <4>1. worker'.pc = "adjustSend"
        BY <1>6, <3>1, <3>5
      <4>2. w.present \subseteq Members(waiting)
        BY <1>4, <3>5 DEF Progress, Handling, waiting
      <4> QED
        BY <1>1, <1>2, <1>3, <1>4, <3>1, <3>2, <3>5, <4>1, <4>2
        DEF Progress, Handling, Adjusting, WaitingInv, se, lo
    <3>6. CASE w.pc = "adjustSend"
      <4>1. worker'.pc = "adjustLocal" /\ w.i = Len(se)
        BY <1>2, <1>3, <1>6, <3>1, <3>3, <3>6
      <4> QED
        BY <1>1, <1>2, <1>3, <1>4, <3>1, <3>6, <4>1
        DEF Progress, Handling, Adjusting, WaitingInv, se, lo
    <3>7. CASE w.pc = "adjustLocal"
      <4>1. worker'.pc = "show"
        BY <1>6, <3>1, <3>7
      <4>2. w.present \subseteq Members(waiting)
        BY <1>4, <3>7 DEF Progress, Handling, Adjusting, waiting
      <4> QED
        BY <1>1, <1>2, <1>3, <1>4, <3>1, <3>2, <3>7, <4>1, <4>2
        DEF Progress, Handling, Adjusting, WaitingInv, se, lo
    <3> QED
      BY <1>6, <2>1, <3>4, <3>5, <3>6, <3>7
  <2> QED
    BY <1>8, <2>2, <2>3 DEF TestCount
<1>9. CASE ObjectAtIndex
  <2> DEFINE stack == StackOf(w.pc)
             o == stack[w.i + 1]
             next == [w EXCEPT !.i = @ + 1, !.tested = FALSE]
  <2>1. w.pc \in DOMAIN After /\ w.tested /\ w.i < Len(stack)
    BY <1>9 DEF ObjectAtIndex, TestedInv
  <2>2. stack \in Seq(Indexes) /\ Len(stack) \in Nat /\ ~(w.i >= Len(stack))
    BY <1>1, <1>3, <2>1 DEF StackOf
  <2>3. worker' = IF w.pc \in {"carrySend", "carryLocal"}
                    THEN [next EXCEPT !.carried = Append(@, o)]
                    ELSE [next EXCEPT !.adjusted = Append(@, o)]
    BY <1>9, <2>2, Zenon DEF ObjectAtIndex
  <2>4. /\ worker'.pc = w.pc /\ worker'.i = w.i + 1 /\ worker'.present = w.present
        /\ w.pc \in {"carrySend", "carryLocal"} =>
             worker'.carried = Append(w.carried, o) /\ worker'.adjusted = w.adjusted
        /\ w.pc \notin {"carrySend", "carryLocal"} =>
             worker'.carried = w.carried /\ worker'.adjusted = Append(w.adjusted, o)
    <3>1. /\ next.pc = w.pc /\ next.i = w.i + 1 /\ next.present = w.present
          /\ next.carried = w.carried /\ next.adjusted = w.adjusted
          /\ DOMAIN next = DOMAIN w
          /\ DOMAIN w = {"pc", "items", "i", "tested", "mark", "copy", "present", "carried",
                         "adjusted"}
      BY <1>1 DEF Workers
    <3> HIDE DEF next, o, w
    <3> QED
      BY <2>3, <3>1
  <2> HIDE DEF w, se, lo, waiting
  <2>5. CASE w.pc \in {"carrySend", "adjustSend"}
    <3>1. w.i < Len(se) /\ o = se[w.i + 1] /\ w.i + 1 \in 1..Len(se)
      BY <1>2, <1>3, <1>5, <2>1, <2>5
    <3>2. o = waiting[w.i + 1] /\ w.i < Len(waiting)
      BY <1>2, <1>3, <3>1
    <3> HIDE DEF o, stack
    <3>3. CASE w.pc = "carrySend"
      <4>1. Starts(w.carried, waiting) /\ Len(w.carried) = w.i
        BY <1>4, <3>3 DEF Progress, Handling, waiting
      <4>2. Starts(worker'.carried, waiting) /\ Len(worker'.carried) = w.i + 1
        <5>0. /\ w.carried \in Seq(Indexes) /\ waiting \in Seq(Indexes)
              /\ w.i \in Nat /\ w.i = Len(w.carried)
              /\ w.i < Len(waiting) /\ o = waiting[w.i + 1]
          BY <1>2, <1>3, <3>2, <4>1
        <5>1. /\ Starts(Append(w.carried, o), waiting)
              /\ Len(Append(w.carried, o)) = w.i + 1
          BY <4>1, <5>0, StartsGrow, ZenonT(40)
        <5> QED
          BY <1>2, <1>3, <2>4, <3>3, <5>1
      <4>3. w.i + 1 <= Len(se)
        BY <1>2, <1>3, <3>1
      <4> QED
        BY <1>1, <1>4, <2>4, <3>3, <4>2, <4>3
        DEF Progress, Handling, Adjusting, WaitingInv, se, lo, waiting
    <3>4. CASE w.pc = "adjustSend"
      <4>1. Starts(w.adjusted, waiting) /\ Len(w.adjusted) = w.i
        BY <1>4, <3>4 DEF Progress, Handling, Adjusting, waiting
      <4>2. Starts(worker'.adjusted, waiting) /\ Len(worker'.adjusted) = w.i + 1
        <5>0. /\ w.adjusted \in Seq(Indexes) /\ waiting \in Seq(Indexes)
              /\ w.i \in Nat /\ w.i = Len(w.adjusted)
              /\ w.i < Len(waiting) /\ o = waiting[w.i + 1]
          BY <1>2, <1>3, <3>2, <4>1
        <5>1. /\ Starts(Append(w.adjusted, o), waiting)
              /\ Len(Append(w.adjusted, o)) = w.i + 1
          BY <4>1, <5>0, StartsGrow, ZenonT(40)
        <5> QED
          BY <1>2, <1>3, <2>4, <3>4, <5>1
      <4>3. w.i + 1 <= Len(se)
        BY <1>2, <1>3, <3>1
      <4> QED
        BY <1>1, <1>4, <2>4, <3>4, <4>2, <4>3
        DEF Progress, Handling, Adjusting, WaitingInv, se, lo, waiting
    <3> QED
      BY <2>5, <3>3, <3>4
  <2>6. CASE w.pc \in {"carryLocal", "adjustLocal"}
    <3>1. w.i < Len(lo) /\ o = lo[w.i + 1] /\ w.i + 1 \in 1..Len(lo)
      BY <1>2, <1>3, <1>5, <2>1, <2>6
    <3> HIDE DEF o, stack
    <3>2. /\ Len(se) + (w.i + 1) = (Len(se) + w.i) + 1 /\ Len(se) + w.i \in Nat
          /\ Len(se) + w.i < Len(waiting) /\ o = waiting[(Len(se) + w.i) + 1]
      <4>1. Len(se) + (w.i + 1) = (Len(se) + w.i) + 1 /\ Len(se) + w.i \in Nat
        BY <1>2, <1>3
      <4>2. Len(se) + w.i < Len(waiting)
        BY <1>2, <1>3, <3>1
      <4>3. o = waiting[Len(se) + (w.i + 1)]
        BY <1>2, <3>1
      <4> QED
        BY <4>1, <4>2, <4>3
    <3>3. CASE w.pc = "carryLocal"
      <4>1. Starts(w.carried, waiting) /\ Len(w.carried) = Len(se) + w.i
        BY <1>4, <3>3 DEF Progress, Handling, waiting
      <4>2. /\ Starts(worker'.carried, waiting)
            /\ Len(worker'.carried) = Len(se) + (w.i + 1)
        <5> DEFINE n == Len(se) + w.i
        <5>0. /\ w.carried \in Seq(Indexes) /\ waiting \in Seq(Indexes)
              /\ n \in Nat /\ n = Len(w.carried) /\ n < Len(waiting) /\ o = waiting[n + 1]
              /\ Starts(w.carried, waiting)
          BY <1>2, <1>3, <3>2, <4>1
        <5> HIDE DEF n
        <5>1. Starts(Append(w.carried, o), waiting) /\ Len(Append(w.carried, o)) = n + 1
          BY <5>0, StartsGrow, Zenon
        <5>2. n + 1 = Len(se) + (w.i + 1)
          BY <3>2 DEF n
        <5> QED
          BY <2>4, <3>3, <5>1, <5>2
      <4>3. w.i + 1 <= Len(lo)
        BY <1>2, <1>3, <3>1
      <4> QED
        BY <1>1, <1>4, <2>4, <3>3, <4>2, <4>3
        DEF Progress, Handling, Adjusting, WaitingInv, se, lo, waiting
    <3>4. CASE w.pc = "adjustLocal"
      <4>1. Starts(w.adjusted, waiting) /\ Len(w.adjusted) = Len(se) + w.i
        BY <1>4, <3>4 DEF Progress, Handling, Adjusting, waiting
      <4>2. /\ Starts(worker'.adjusted, waiting)
            /\ Len(worker'.adjusted) = Len(se) + (w.i + 1)
        <5> DEFINE n == Len(se) + w.i
        <5>0. /\ w.adjusted \in Seq(Indexes) /\ waiting \in Seq(Indexes)
              /\ n \in Nat /\ n = Len(w.adjusted) /\ n < Len(waiting) /\ o = waiting[n + 1]
              /\ Starts(w.adjusted, waiting)
          BY <1>2, <1>3, <3>2, <4>1
        <5> HIDE DEF n
        <5>1. Starts(Append(w.adjusted, o), waiting) /\ Len(Append(w.adjusted, o)) = n + 1
          BY <5>0, StartsGrow, Zenon
        <5>2. n + 1 = Len(se) + (w.i + 1)
          BY <3>2 DEF n
        <5> QED
          BY <2>4, <3>4, <5>1, <5>2
      <4>3. w.i + 1 <= Len(lo)
        BY <1>2, <1>3, <3>1
      <4> QED
        BY <1>1, <1>4, <2>4, <3>4, <4>2, <4>3
        DEF Progress, Handling, Adjusting, WaitingInv, se, lo, waiting
    <3> QED
      BY <2>6, <3>3, <3>4
  <2> QED
    BY <1>6, <2>1, <2>5, <2>6
<1> QED
  BY <1>7, <1>8, <1>9

LEMMA WaitingPreserved ==
  ASSUME "timer" \notin Overlaps, Typed, TestedInv, WaitingInv, [Next]_vars
  PROVE  WaitingInv'
<1>0. /\ worker \in Workers /\ send \in Seq(Indexes) /\ local \in Seq(Indexes)
      /\ DOMAIN worker = DOMAIN IdleWorker
  BY DEF Typed, HeapTyped, QueueTyped, Workers, IdleWorker
<1>1. CASE Harmless
  <2>1. worker' = worker /\ send' = send
        /\ (local' = local \/ \E o : local' = Append(local, o))
    BY <1>1 DEF Harmless
  <2>2. Progress(worker, send, local')
    BY <1>0, <2>1, ProgressStays DEF WaitingInv
  <2> QED
    BY <2>1, <2>2 DEF WaitingInv
<1>2. CASE BeginItem \/ TestCount \/ ObjectAtIndex
  BY <1>2, WaitingHandled
<1>3. CASE worker'.pc \notin Handling
  BY <1>3 DEF WaitingInv, Progress, Handling, Adjusting
<1>4. CASE Tick
  <2>1. worker' = worker /\ worker.pc = "idle"
    BY <1>4 DEF Tick, FindLocalOperations, SwapLocalStack, BroadcastChangeSet,
                AddChangeSetToLocal, PutIntoSendStack, WorkerAway, TestedInv, TickSteps
  <2> QED
    BY <1>3, <2>1 DEF Handling, Adjusting
<1>5. CASE StackQueue
  <2>1. CASE BeginBlock
    <3>1. worker'.pc \in {"item", "copy"}
      BY <2>1 DEF BeginBlock, IdleWorker
    <3> QED
      BY <1>3, <3>1 DEF Handling, Adjusting
  <2>2. CASE EndItem \/ CopyLocalStack \/ AssignLocalStack \/ Show
    <3>1. worker'.pc \in {"item", "assign", "idle", "end"}
      <4>1. CASE EndItem
        BY <1>0, <4>1 DEF EndItem, IdleWorker
      <4>2. CASE CopyLocalStack
        BY <1>0, <4>2 DEF CopyLocalStack, IdleWorker
      <4>3. CASE AssignLocalStack
        BY <4>3 DEF AssignLocalStack, IdleWorker
      <4>4. CASE Show
        BY <1>0, <4>4 DEF Show, IdleWorker
      <4> QED
        BY <2>2, <4>1, <4>2, <4>3, <4>4
    <3> QED
      BY <1>3, <3>1 DEF Handling, Adjusting
  <2>3. CASE ConfirmOperation
    <3>1. worker.pc = "confirm"
      BY <2>3 DEF ConfirmOperation, Enumerated
    <3>2. \/ worker' = [worker EXCEPT !.pc = "end"]
          \/ worker' = [worker EXCEPT !.i = @ + 1]
          \/ worker' = worker
      BY <2>3, Zenon DEF ConfirmOperation, Enumerated
    <3>3. worker'.pc \in {"end", "confirm"}
      BY <1>0, <3>1, <3>2 DEF IdleWorker
    <3> QED
      BY <1>3, <3>3 DEF Handling, Adjusting
  <2> QED
    BY <1>2, <1>5, <2>1, <2>2, <2>3 DEF StackQueue
<1> QED
  BY <1>1, <1>4, <1>5, StepIsHarmless

\* Nothing waits twice.
LEMMA WaitingDistinct ==
  ASSUME Typed, Dealt(Shelved, Indexes \ Pending)
  PROVE  /\ send \in Seq(Indexes) /\ local \in Seq(Indexes)
         /\ Distinct(send) /\ Distinct(send \o local)
<1>1. send \in Seq(Indexes) /\ local \in Seq(Indexes)
  BY DEF Typed, HeapTyped
<1>2. /\ AtSend \in DOMAIN Shelved /\ AtLocal \in DOMAIN Shelved /\ AtLocal # AtSend
      /\ Shelved[AtSend] = send /\ Shelved[AtLocal] = local
  BY ShelvedBefore, ShelvesDiffer DEF AllShelves
<1>3. Distinct(send) /\ Distinct(local) /\ Members(send) \cap Members(local) = {}
  BY <1>2 DEF Dealt
<1> QED
  BY <1>1, <1>3, JoinDistinct

LEMMA WaitingIsAdjusted ==
  ASSUME Typed, Dealt(Shelved, Indexes \ Pending), WaitingInv
  PROVE  WaitingAdjustedOnce
<1> DEFINE waiting == send \o local
<1>1. /\ waiting \in Seq(Indexes) /\ Distinct(waiting)
      /\ worker.carried \in Seq(Indexes) /\ worker.adjusted \in Seq(Indexes)
  <2>1. send \in Seq(Indexes) /\ local \in Seq(Indexes) /\ Distinct(waiting)
    BY WaitingDistinct
  <2>2. worker \in Workers
    BY DEF Typed, QueueTyped
  <2> QED
    BY <2>1, <2>2 DEF Workers
<1> SUFFICES ASSUME worker.pc = "show", NEW o \in worker.present
             PROVE  /\ Cardinality({k \in DOMAIN worker.carried : worker.carried[k] = o}) = 1
                    /\ Cardinality({k \in DOMAIN worker.adjusted : worker.adjusted[k] = o}) = 1
  BY DEF WaitingAdjustedOnce
<1>2. /\ Starts(worker.carried, waiting) /\ Starts(worker.adjusted, waiting)
      /\ o \in Members(worker.carried) /\ o \in Members(worker.adjusted)
  BY DEF WaitingInv, Progress, Handling, Adjusting
<1> HIDE DEF waiting
<1>3. Distinct(worker.carried) /\ Distinct(worker.adjusted)
  BY <1>1, <1>2, StartsMembers
<1> QED
  BY <1>1, <1>2, <1>3, OnceInDistinct

\* As long as no tick of the timer comes into the middle of a block of the stack queue,
\* and nothing comes in while a refused change set returns, a foreign operation is carried
\* past each operation that waits once, and each of these is adjusted by it once
\* (addNewGlobalOperation and updateLocalStackAndSendStackWithOperation), however many
\* keystrokes add to the local stack between the loops.
THEOREM AdjustedUnlessTimer ==
  "timer" \notin Overlaps /\ ~({"refuse", "return"} \subseteq Overlaps) =>
    (Spec => []WaitingAdjustedOnce)
<1> SUFFICES ASSUME "timer" \notin Overlaps, ~({"refuse", "return"} \subseteq Overlaps)
             PROVE  Spec => []WaitingAdjustedOnce
  OBVIOUS
<1>1. Init => WaitingInv
  BY DEF Init, WaitingInv, Progress, IdleWorker, Handling, Adjusting
<1>2. Typed /\ TestedInv /\ WaitingInv /\ [Next]_vars => WaitingInv'
  BY WaitingPreserved
<1>3. Typed /\ KeptInv /\ WaitingInv => WaitingAdjustedOnce
  BY WaitingIsAdjusted DEF KeptInv
<1>4. Spec => []TestedInv
  BY AlwaysTested
<1>5. Spec => []KeptInv
  BY AlwaysKept
<1> QED
  BY AlwaysTyped, <1>1, <1>2, <1>3, <1>4, <1>5, PTL DEF Spec

-----------------------------------------------------------------------------
(* Arrays of arrays, laid one behind the other.                            *)

\* The turns of FlattenSeq.
Flattens(f, S, seqs) ==
  /\ f[0] = << >> /\ f[Len(seqs)] = FlattenSeq(seqs)
  /\ \A k \in 0..Len(seqs) : f[k] \in Seq(S)
  /\ \A k \in 1..Len(seqs) : f[k] = f[k - 1] \o seqs[k]

LEMMA FlattenRuns ==
  ASSUME NEW S, NEW seqs \in Seq(Seq(S))
  PROVE  \E f : Flattens(f, S, seqs)
<1> DEFINE n == Len(seqs)
           Stacks == Seq(S)
           Lays(g) == g = [i \in 1..n |-> IF i = 1 THEN seqs[i] ELSE g[i - 1] \o seqs[i]]
           laid == CHOOSE g : Lays(g)
           step == [k \in 1..n |-> [r \in Stacks |-> r \o seqs[k]]]
           h == [k \in 0..n |-> IF k = 0 THEN << >> ELSE laid[k]]
<1>1. n \in Nat /\ (\A k \in 1..n : seqs[k] \in Stacks) /\ << >> \in Stacks
  OBVIOUS
<1>2. CASE n = 0
  <2>1. seqs = << >> /\ FlattenSeq(seqs) = << >>
    BY <1>2 DEF FlattenSeq
  <2>2. Flattens([k \in 0..0 |-> << >>], S, seqs)
    BY <1>1, <1>2, <2>1 DEF Flattens
  <2> QED
    BY <2>2
<1>3. CASE n # 0
  <2>1. FlattenSeq(seqs) = laid[n]
    BY <1>3 DEF FlattenSeq
  <2> HIDE DEF n
  <2>2. \A r \in Stacks : \A k \in 1..n : r \o seqs[k] \in Stacks
    BY <1>1
  <2>3. \A r \in Stacks : << >> \o r = r
    OBVIOUS
  <2> HIDE DEF Stacks
  <2>4. PICK f : IsRun(f, n, Stacks, << >>, step)
    <3>1. step \in [1..n -> [Stacks -> Stacks]]
      BY <2>2
    <3> HIDE DEF step
    <3> QED
      BY <1>1, <3>1, LoopRuns
  <2>5. \A k \in 1..n : f[k - 1] \in Stacks /\ f[k] = f[k - 1] \o seqs[k] /\ f[0] = << >>
    <3> SUFFICES ASSUME NEW k \in 1..n
                 PROVE  f[k - 1] \in Stacks /\ f[k] = f[k - 1] \o seqs[k] /\ f[0] = << >>
      OBVIOUS
    <3>1. k - 1 \in 0..n
      BY <1>1
    <3> QED
      BY <2>4, <3>1 DEF IsRun
  <2>6. Lays([i \in 1..n |-> f[i]])
    <3> SUFFICES ASSUME NEW i \in 1..n
                 PROVE  f[i] = IF i = 1 THEN seqs[i]
                               ELSE [j \in 1..n |-> f[j]][i - 1] \o seqs[i]
      OBVIOUS
    <3>1. CASE i = 1
      <4>1. i - 1 = 0 /\ seqs[i] \in Stacks
        BY <1>1, <3>1
      <4>2. f[i] = << >> \o seqs[i]
        BY <2>5, <4>1
      <4> QED
        BY <2>3, <3>1, <4>1, <4>2
    <3>2. CASE i # 1
      <4>1. i - 1 \in 1..n
        BY <1>1, <3>2
      <4> QED
        BY <2>5, <3>2, <4>1
    <3> QED
      BY <3>1, <3>2
  <2>7. Lays(laid)
    <3> HIDE DEF Lays
    <3> QED
      BY <2>6
  <2> HIDE DEF laid
  <2>8. h[0] = << >> /\ h[n] = FlattenSeq(seqs)
    BY <1>1, <1>3, <2>1
  <2>9. \A k \in 1..n : h[k] = h[k - 1] \o seqs[k]
    <3> SUFFICES ASSUME NEW k \in 1..n
                 PROVE  h[k] = h[k - 1] \o seqs[k]
      OBVIOUS
    <3>0. k - 1 \in 0..n /\ k \in 0..n /\ k # 0
      BY <1>1
    <3>1. CASE k = 1
      <4>1. h[k] = seqs[k] /\ h[k - 1] = << >>
        BY <2>7, <3>0, <3>1
      <4> QED
        BY <1>1, <2>3, <4>1
    <3>2. CASE k # 1
      <4>1. h[k] = laid[k] /\ h[k - 1] = laid[k - 1]
        BY <1>1, <3>0, <3>2
      <4> QED
        BY <2>7, <3>2, <4>1
    <3> QED
      BY <3>1, <3>2
  <2> HIDE DEF h
  <2>10. \A k \in 1..n : h[k - 1] \in Stacks => h[k] \in Stacks
    BY <2>2, <2>9
  <2>11. \A k \in 0..n : h[k] \in Stacks
    BY <1>1, <2>8, <2>10, LoopKeeps
  <2>12. Flattens(h, S, seqs)
    BY <2>8, <2>9, <2>11 DEF Flattens, n, Stacks
  <2> QED
    BY <2>12
<1> QED
  BY <1>2, <1>3

LEMMA FlattenIsArray ==
  ASSUME NEW S, NEW seqs \in Seq(Seq(S))
  PROVE  FlattenSeq(seqs) \in Seq(S)
<1>1. PICK f : Flattens(f, S, seqs)
  BY FlattenRuns
<1>2. Len(seqs) \in 0..Len(seqs)
  OBVIOUS
<1> QED
  BY <1>1, <1>2 DEF Flattens

LEMMA FlattenEmpty == FlattenSeq(<< >>) = << >>
BY DEF FlattenSeq

\* What is true before a loop, and stays so, is true after it.
LEMMA HoldsAfter ==
  ASSUME NEW n \in Nat, NEW G, 0 \in G, \A k \in 1..n : k - 1 \in G => k \in G
  PROVE  n \in G
<1> DEFINE turn == [k \in 0..n |-> k]
<1>1. turn[0] = 0 /\ \A k \in 1..n : k - 1 \in 0..n /\ turn[k - 1] = k - 1 /\ turn[k] = k
  OBVIOUS
<1>2. turn[n] = n /\ n \in 0..n
  OBVIOUS
<1> HIDE DEF turn
<1>3. \A k \in 1..n : turn[k - 1] \in G => turn[k] \in G
  BY <1>1
<1>4. \A k \in 0..n : turn[k] \in G
  BY <1>1, <1>3, LoopKeeps
<1> QED
  BY <1>2, <1>4

\* One array more at the end.
LEMMA FlattenAppend ==
  ASSUME NEW S, NEW seqs \in Seq(Seq(S)), NEW x \in Seq(S)
  PROVE  FlattenSeq(Append(seqs, x)) = FlattenSeq(seqs) \o x
<1> DEFINE n == Len(seqs)
           more == Append(seqs, x)
<1>1. /\ n \in Nat /\ more \in Seq(Seq(S)) /\ Len(more) = n + 1 /\ more[n + 1] = x
      /\ \A k \in 1..n : more[k] = seqs[k]
  OBVIOUS
<1>2. PICK f : Flattens(f, S, seqs)
  BY FlattenRuns
<1> HIDE DEF more
<1>3. PICK g : Flattens(g, S, more)
  BY <1>1, FlattenRuns
<1> DEFINE Good == {k \in 0..n : f[k] = g[k]}
<1>4. 0 \in Good
  BY <1>1, <1>2, <1>3 DEF Flattens
<1>5. \A k \in 1..n : k - 1 \in Good => k \in Good
  <2> SUFFICES ASSUME NEW k \in 1..n, f[k - 1] = g[k - 1]
               PROVE  f[k] = g[k]
    BY SMTT(30)
  <2>1. k \in 1..(n + 1)
    BY <1>1
  <2> QED
    BY <1>1, <1>2, <1>3, <2>1 DEF Flattens
<1>6. n \in Good
  <2> HIDE DEF Good, n
  <2> QED
    BY <1>1, <1>4, <1>5, HoldsAfter
<1>7. n + 1 \in 1..(n + 1) /\ (n + 1) - 1 = n
  BY <1>1
<1>8. g[n + 1] = g[n] \o x
  BY <1>1, <1>3, <1>7 DEF Flattens
<1>9. g[n + 1] = FlattenSeq(more) /\ f[n] = FlattenSeq(seqs)
  BY <1>1, <1>2, <1>3 DEF Flattens
<1> QED
  BY <1>6, <1>8, <1>9 DEF more

\* Arrays are joined in any order, and the empty one adds nothing.
Joins(R) ==
  /\ << >> \in R /\ \A a \in R : << >> \o a = a /\ a \o << >> = a
  /\ \A a, b \in R : a \o b \in R
  /\ \A a, b, c \in R : (a \o b) \o c = a \o (b \o c)

LEMMA ArraysJoin ==
  ASSUME NEW S
  PROVE  Joins(Seq(S))
<1>1. \A a, b, c \in Seq(S) : (a \o b) \o c = a \o (b \o c)
  BY ConcatAssociative
<1>2. << >> \in Seq(S) /\ \A a, b \in Seq(S) : a \o b \in Seq(S)
  OBVIOUS
<1>3. \A a \in Seq(S) : << >> \o a = a /\ a \o << >> = a
  OBVIOUS
<1> QED
  BY <1>1, <1>2, <1>3 DEF Joins

\* One array less at the front.
LEMMA FlattenTail ==
  ASSUME NEW S, NEW seqs \in Seq(Seq(S)), seqs # << >>
  PROVE  FlattenSeq(seqs) = Head(seqs) \o FlattenSeq(Tail(seqs))
<1> DEFINE n == Len(seqs)
           less == Tail(seqs)
           x == Head(seqs)
           m == n - 1
<1>1. /\ n \in Nat /\ m \in Nat /\ n = m + 1 /\ less \in Seq(Seq(S)) /\ Len(less) = m
      /\ x \in Seq(S) /\ x = seqs[1] /\ \A k \in 1..m : less[k] = seqs[k + 1]
  OBVIOUS
<1>2. \A k \in 1..m : less[k] \in Seq(S)
  BY <1>1
<1>3. PICK f : Flattens(f, S, seqs)
  BY FlattenRuns
<1> HIDE DEF less, m, x
<1>4. PICK g : Flattens(g, S, less)
  BY <1>1, FlattenRuns
<1>5. /\ f[0] = << >> /\ \A k \in 1..n : f[k] = f[k - 1] \o seqs[k]
      /\ f[n] = FlattenSeq(seqs)
  BY <1>3 DEF Flattens
<1>6. /\ g[0] = << >> /\ \A k \in 1..m : g[k] = g[k - 1] \o less[k]
      /\ \A k \in 0..m : g[k] \in Seq(S)
      /\ g[m] = FlattenSeq(less)
  BY <1>1, <1>4 DEF Flattens
<1> DEFINE Good == {k \in 0..m : f[k + 1] = x \o g[k]}
<1>7. 0 \in Good
  <2>1. 1 \in 1..n /\ 1 - 1 = 0 /\ 0 + 1 = 1 /\ 0 \in 0..m
    BY <1>1
  <2>2. f[1] = << >> \o x
    BY <1>1, <1>5, <2>1
  <2>3. << >> \o x = x /\ x \o << >> = x
    BY <1>1
  <2> QED
    BY <1>6, <2>1, <2>2, <2>3
<1>8. ASSUME NEW k \in 1..m, k - 1 \in Good
      PROVE  k \in Good
  <2>1. /\ k + 1 \in 1..n /\ (k + 1) - 1 = k /\ (k - 1) + 1 = k /\ k - 1 \in 0..m
        /\ k \in 0..m
    BY <1>1
  <2>2. f[k] = x \o g[k - 1]
    BY <1>8, <2>1
  <2>3. f[k + 1] = f[k] \o less[k]
    BY <1>1, <1>5, <2>1
  <2>4. g[k] = g[k - 1] \o less[k] /\ g[k - 1] \in Seq(S) /\ less[k] \in Seq(S)
    BY <1>2, <1>6, <2>1
  <2>5. (x \o g[k - 1]) \o less[k] = x \o (g[k - 1] \o less[k])
    <3> DEFINE R == Seq(S)
    <3>1. Joins(R) /\ x \in R /\ g[k - 1] \in R /\ less[k] \in R
      BY <1>1, <2>4, ArraysJoin
    <3> HIDE DEF R
    <3> QED
      BY <3>1 DEF Joins
  <2> QED
    BY <2>1, <2>2, <2>3, <2>4, <2>5
<1>9. m \in Good
  <2> HIDE DEF Good
  <2> QED
    BY <1>1, <1>7, <1>8, HoldsAfter
<1> QED
  BY <1>1, <1>5, <1>6, <1>9 DEF less, x

\* Arrays of one each.
LEMMA FlattenSingles ==
  ASSUME NEW S, NEW s \in Seq(S)
  PROVE  FlattenSeq([k \in DOMAIN s |-> <<s[k]>>]) = s
<1> DEFINE n == Len(s)
           ones == [k \in DOMAIN s |-> <<s[k]>>]
<1>1. /\ n \in Nat /\ DOMAIN s = 1..n /\ (\A k \in 1..n : s[k] \in S)
      /\ ones \in Seq(Seq(S)) /\ Len(ones) = n /\ \A k \in 1..n : ones[k] = <<s[k]>>
  <2>1. n \in Nat /\ DOMAIN s = 1..n /\ (\A k \in 1..n : s[k] \in S)
    OBVIOUS
  <2>2. \A k \in DOMAIN s : ones[k] = <<s[k]>> /\ ones[k] \in Seq(S)
    BY <2>1
  <2>3. ones \in Seq(Seq(S)) /\ Len(ones) = Len(s)
    <3> DEFINE T == Seq(S)
    <3>1. \A k \in DOMAIN s : ones[k] \in T
      BY <2>2
    <3>2. DOMAIN ones = DOMAIN s /\ ones = [k \in DOMAIN s |-> ones[k]]
      OBVIOUS
    <3> HIDE DEF ones, T
    <3>3. ones \in Seq(T) /\ Len(ones) = Len(s)
      BY <3>1, <3>2, FunctionIsSequence
    <3> QED
      BY <3>3 DEF T
  <2> QED
    BY <2>1, <2>2, <2>3
<1> HIDE DEF ones
<1>2. PICK f : Flattens(f, S, ones)
  BY <1>1, FlattenRuns
<1> DEFINE Good == {k \in 0..n : f[k] = SubSeq(s, 1, k)}
<1>3. 0 \in Good
  <2>1. SubSeq(s, 1, 0) = << >>
    OBVIOUS
  <2> QED
    BY <1>1, <1>2, <2>1 DEF Flattens
<1>4. \A k \in 1..n : k - 1 \in Good => k \in Good
  <2> SUFFICES ASSUME NEW k \in 1..n, f[k - 1] = SubSeq(s, 1, k - 1)
               PROVE  f[k] = SubSeq(s, 1, k)
    BY <1>1
  <2>1. f[k] = SubSeq(s, 1, k - 1) \o <<s[k]>>
    BY <1>1, <1>2 DEF Flattens
  <2>2. SubSeq(s, 1, k - 1) \o <<s[k]>> = SubSeq(s, 1, k)
    BY <1>1
  <2> QED
    BY <2>1, <2>2
<1>5. n \in Good
  <2> HIDE DEF Good, n
  <2> QED
    BY <1>1, <1>3, <1>4, HoldsAfter
<1>6. SubSeq(s, 1, n) = s
  BY <1>1
<1> QED
  BY <1>1, <1>2, <1>5, <1>6 DEF Flattens, ones

\* What an array has, one by one, and what it has laid one behind the other.
Mapped(s, g) == [k \in DOMAIN s |-> g[s[k]]]
Gathered(s, g) == FlattenSeq(Mapped(s, g))

\* m has for each member of s what g has for it.
Maps(m, s, g, U) ==
  m \in Seq(U) /\ Len(m) = Len(s) /\ \A k \in 1..Len(s) : m[k] = g[s[k]]

LEMMA MappedIsArray ==
  ASSUME NEW T, NEW U, NEW s \in Seq(T), NEW g \in [T -> U]
  PROVE  Maps(Mapped(s, g), s, g, U)
<1> DEFINE m == Mapped(s, g)
<1>1. Len(s) \in Nat /\ DOMAIN s = 1..Len(s) /\ \A k \in 1..Len(s) : s[k] \in T
  OBVIOUS
<1>2. DOMAIN m = DOMAIN s /\ m = [k \in DOMAIN s |-> m[k]]
  BY DEF Mapped
<1>3. \A k \in 1..Len(s) : m[k] = g[s[k]]
  BY <1>1 DEF Mapped
<1>4. \A k \in 1..Len(s) : m[k] \in U
  BY <1>1, <1>3
<1> HIDE DEF m
<1>5. m \in Seq(U) /\ Len(m) = Len(s)
  BY <1>1, <1>2, <1>4, FunctionIsSequence
<1> QED
  BY <1>1, <1>3, <1>5 DEF m, Maps

MapAppends(s, g, x) == Mapped(Append(s, x), g) = Append(Mapped(s, g), g[x])

LEMMA MappedAppend ==
  ASSUME NEW T, NEW U, NEW s \in Seq(T), NEW g \in [T -> U], NEW x \in T
  PROVE  MapAppends(s, g, x)
<1> DEFINE t == Append(s, x)
           l == Mapped(t, g)
           m == Mapped(s, g)
           r == Append(m, g[x])
           n == Len(s)
<1>1. /\ n \in Nat /\ t \in Seq(T) /\ Len(t) = n + 1 /\ t[n + 1] = x
      /\ \A k \in 1..n : t[k] = s[k]
  OBVIOUS
<1>2. /\ m \in Seq(U) /\ Len(m) = n /\ \A k \in 1..n : m[k] = g[s[k]]
  <2>1. Maps(m, s, g, U)
    BY MappedIsArray
  <2> QED
    BY <2>1 DEF Maps
<1> HIDE DEF t, n
<1>3. /\ l \in Seq(U) /\ Len(l) = n + 1 /\ \A k \in 1..(n + 1) : l[k] = g[t[k]]
  <2>1. Maps(l, t, g, U)
    BY <1>1, MappedIsArray
  <2> QED
    BY <1>1, <2>1 DEF Maps
<1> HIDE DEF l, m
<1>4. /\ r \in Seq(U) /\ Len(r) = n + 1 /\ r[n + 1] = g[x] /\ \A k \in 1..n : r[k] = m[k]
  BY <1>1, <1>2
<1> HIDE DEF r
<1>5. ASSUME NEW k \in 1..(n + 1)
      PROVE  l[k] = r[k]
  <2>1. CASE k = n + 1
    BY <1>1, <1>3, <1>4, <2>1
  <2>2. CASE k # n + 1
    <3>1. k \in 1..n
      BY <1>1, <2>2
    <3> QED
      BY <1>1, <1>2, <1>3, <1>4, <3>1
  <2> QED
    BY <2>1, <2>2
<1>6. l = r
  BY <1>3, <1>4, <1>5, SeqEqual
<1> QED
  BY <1>6 DEF l, m, r, t, MapAppends

MapBegins(s, g) ==
  /\ Mapped(s, g) # << >> /\ Head(Mapped(s, g)) = g[Head(s)]
  /\ Mapped(Tail(s), g) = Tail(Mapped(s, g))

LEMMA MappedTail ==
  ASSUME NEW T, NEW U, NEW s \in Seq(T), NEW g \in [T -> U], s # << >>
  PROVE  MapBegins(s, g)
<1> DEFINE t == Tail(s)
           l == Mapped(t, g)
           m == Mapped(s, g)
           r == Tail(m)
           n == Len(s)
<1>1. /\ n \in Nat /\ n >= 1 /\ t \in Seq(T) /\ Len(t) = n - 1 /\ Head(s) = s[1]
      /\ \A k \in 1..(n - 1) : t[k] = s[k + 1]
  OBVIOUS
<1>2. m \in Seq(U) /\ Len(m) = n /\ \A k \in 1..n : m[k] = g[s[k]]
  <2>1. Maps(m, s, g, U)
    BY MappedIsArray
  <2> QED
    BY <2>1 DEF Maps
<1> HIDE DEF t, n
<1>3. l \in Seq(U) /\ Len(l) = n - 1 /\ \A k \in 1..(n - 1) : l[k] = g[t[k]]
  <2>1. Maps(l, t, g, U)
    BY <1>1, MappedIsArray
  <2> QED
    BY <1>1, <2>1 DEF Maps
<1> HIDE DEF l, m
<1>4. /\ r \in Seq(U) /\ Len(r) = n - 1 /\ \A k \in 1..(n - 1) : r[k] = m[k + 1]
      /\ m # << >> /\ Head(m) = m[1]
  BY <1>1, <1>2
<1> HIDE DEF r
<1>5. ASSUME NEW k \in 1..(n - 1)
      PROVE  l[k] = r[k]
  <2>1. k + 1 \in 1..n
    BY <1>1
  <2>2. l[k] = g[t[k]]
    BY <1>3
  <2>3. t[k] = s[k + 1]
    BY <1>1
  <2>4. r[k] = m[k + 1]
    BY <1>4
  <2>5. m[k + 1] = g[s[k + 1]]
    BY <1>2, <2>1
  <2> QED
    BY <2>2, <2>3, <2>4, <2>5
<1>6. l = r
  BY <1>3, <1>4, <1>5, SeqEqual
<1>7. Head(m) = g[Head(s)]
  BY <1>1, <1>2, <1>4
<1> QED
  BY <1>4, <1>6, <1>7 DEF l, m, r, t, MapBegins

MapJoins(s, t, g) == Mapped(s \o t, g) = Mapped(s, g) \o Mapped(t, g)

LEMMA MappedJoin ==
  ASSUME NEW T, NEW U, NEW s \in Seq(T), NEW t \in Seq(T), NEW g \in [T -> U]
  PROVE  MapJoins(s, t, g)
<1> DEFINE st == s \o t
           l == Mapped(st, g)
           p == Mapped(s, g)
           q == Mapped(t, g)
           r == p \o q
           m == Len(s)
           n == Len(t)
<1>1. /\ m \in Nat /\ n \in Nat /\ st \in Seq(T) /\ Len(st) = m + n
      /\ \A k \in 1..m : st[k] = s[k]
      /\ \A k \in 1..n : st[m + k] = t[k]
  OBVIOUS
<1>2. /\ p \in Seq(U) /\ Len(p) = m /\ \A k \in 1..m : p[k] = g[s[k]]
      /\ q \in Seq(U) /\ Len(q) = n /\ \A k \in 1..n : q[k] = g[t[k]]
  <2>1. Maps(p, s, g, U) /\ Maps(q, t, g, U)
    BY MappedIsArray
  <2> QED
    BY <2>1 DEF Maps
<1> HIDE DEF st, m, n
<1>3. l \in Seq(U) /\ Len(l) = m + n /\ \A k \in 1..(m + n) : l[k] = g[st[k]]
  <2>1. Maps(l, st, g, U)
    BY <1>1, MappedIsArray
  <2> QED
    BY <1>1, <2>1 DEF Maps
<1> HIDE DEF l, p, q
<1>4. /\ r \in Seq(U) /\ Len(r) = m + n /\ \A k \in 1..m : r[k] = p[k]
      /\ \A k \in 1..n : r[m + k] = q[k]
  <2>1. p \in Seq(U) /\ q \in Seq(U)
    BY <1>2
  <2>2. /\ r \in Seq(U) /\ Len(r) = Len(p) + Len(q) /\ \A k \in 1..Len(p) : r[k] = p[k]
        /\ \A k \in 1..Len(q) : r[Len(p) + k] = q[k]
    BY <2>1
  <2> HIDE DEF r
  <2> QED
    BY <1>2, <2>2
<1> HIDE DEF r
<1>5. ASSUME NEW k \in 1..(m + n)
      PROVE  l[k] = r[k]
  <2>0. l[k] = g[st[k]]
    BY <1>3
  <2>1. CASE k \in 1..m
    <3>1. st[k] = s[k] /\ r[k] = p[k] /\ p[k] = g[s[k]]
      BY <1>1, <1>2, <1>4, <2>1
    <3> QED
      BY <2>0, <3>1
  <2>2. CASE k \notin 1..m
    <3> DEFINE j == k - m
    <3>1. j \in 1..n /\ m + j = k
      BY <1>1, <2>2
    <3> HIDE DEF j
    <3>2. st[m + j] = t[j] /\ r[m + j] = q[j] /\ q[j] = g[t[j]]
      BY <1>1, <1>2, <1>4, <3>1
    <3> QED
      BY <2>0, <3>1, <3>2
  <2> QED
    BY <2>1, <2>2
<1>6. l = r
  BY <1>3, <1>4, <1>5, SeqEqual
<1> QED
  BY <1>6 DEF l, p, q, r, st, MapJoins

LEMMA GatheredEmpty == \A g : Gathered(<< >>, g) = << >>
<1>1. \A g : Mapped(<< >>, g) = << >>
  BY DEF Mapped
<1> QED
  BY <1>1, FlattenEmpty DEF Gathered

LEMMA GatheredIsArray ==
  ASSUME NEW S, NEW T, NEW s \in Seq(T), NEW g \in [T -> Seq(S)]
  PROVE  Gathered(s, g) \in Seq(S)
<1>1. Mapped(s, g) \in Seq(Seq(S))
  <2> DEFINE U == Seq(S)
  <2> HIDE DEF U
  <2>1. Maps(Mapped(s, g), s, g, U)
    BY MappedIsArray DEF U
  <2> QED
    BY <2>1 DEF U, Maps
<1> QED
  BY <1>1, FlattenIsArray DEF Gathered

GatherAppends(s, g, x) == Gathered(Append(s, x), g) = Gathered(s, g) \o g[x]

LEMMA GatheredAppend ==
  ASSUME NEW S, NEW T, NEW s \in Seq(T), NEW x \in T,
         NEW g, g \in [T -> Seq(S)]
  PROVE  GatherAppends(s, g, x)
<1> DEFINE U == Seq(S)
<1>1. g \in [T -> U] /\ g[x] \in U
  OBVIOUS
<1> HIDE DEF U
<1>2. Mapped(s, g) \in Seq(U) /\ Mapped(Append(s, x), g) = Append(Mapped(s, g), g[x])
  <2>1. Maps(Mapped(s, g), s, g, U)
    BY <1>1, MappedIsArray
  <2>2. MapAppends(s, g, x)
    BY <1>1, MappedAppend
  <2> QED
    BY <2>1, <2>2 DEF Maps, MapAppends
<1> USE DEF U
<1>3. FlattenSeq(Append(Mapped(s, g), g[x])) = FlattenSeq(Mapped(s, g)) \o g[x]
  BY <1>1, <1>2, FlattenAppend
<1> QED
  BY <1>2, <1>3 DEF Gathered, GatherAppends

GatherBegins(s, g) == Gathered(s, g) = g[Head(s)] \o Gathered(Tail(s), g)

LEMMA GatheredTail ==
  ASSUME NEW S, NEW T, NEW s \in Seq(T), s # << >>,
         NEW g, g \in [T -> Seq(S)]
  PROVE  GatherBegins(s, g)
<1> DEFINE U == Seq(S)
<1>1. g \in [T -> U]
  OBVIOUS
<1> HIDE DEF U
<1>2. /\ Mapped(s, g) \in Seq(U) /\ Mapped(s, g) # << >>
      /\ Head(Mapped(s, g)) = g[Head(s)]
      /\ Mapped(Tail(s), g) = Tail(Mapped(s, g))
  <2>1. Maps(Mapped(s, g), s, g, U)
    BY <1>1, MappedIsArray
  <2>2. MapBegins(s, g)
    BY <1>1, MappedTail
  <2> QED
    BY <2>1, <2>2 DEF Maps, MapBegins
<1> USE DEF U
<1>3. FlattenSeq(Mapped(s, g)) = Head(Mapped(s, g)) \o FlattenSeq(Tail(Mapped(s, g)))
  BY <1>2, FlattenTail
<1> QED
  BY <1>2, <1>3 DEF Gathered, GatherBegins

-----------------------------------------------------------------------------
(* Confirmations.                                                          *)

AnyBlocks ==
  [kind : {"new"}, items : Seq(Items)] \cup [kind : {"local"}, items : Seq(Nat)]

\* What the properties say of an operation: which one it is, and its ID.
Tags == [op : Nat, id : Nat]

\* The own operations of an item, of an event, and of a waiting block.
TagOf == [item \in Items |-> [op |-> item.op, id |-> item.id]]
OwnOfItem == [item \in Items |-> IF item.mine THEN <<TagOf[item]>> ELSE << >>]
OwnOfEvent == [items \in Seq(Items) |-> OwnAmong(items)]
OwnOfBlock ==
  [block \in AnyBlocks |-> IF block.kind = "new" THEN OwnAmong(block.items) ELSE << >>]

LEMMA OwnIsGathered ==
  ASSUME NEW items \in Seq(Items)
  PROVE  OwnAmong(items) = Gathered(items, OwnOfItem)
<1>1. \A k \in DOMAIN items : items[k] \in Items
  OBVIOUS
<1>2. Mapped(items, OwnOfItem)
        = [k \in DOMAIN items |-> IF items[k].mine THEN <<[op |-> items[k].op, id |-> items[k].id]>> ELSE << >>]
  BY <1>1 DEF Mapped, OwnOfItem, TagOf
<1> QED
  BY <1>2 DEF OwnAmong, Gathered

LEMMA OwnTypes ==
  /\ OwnOfItem \in [Items -> Seq(Tags)]
  /\ OwnOfEvent \in [Seq(Items) -> Seq(Tags)]
  /\ OwnOfBlock \in [AnyBlocks -> Seq(Tags)]
  /\ \A items \in Seq(Items) : OwnAmong(items) \in Seq(Tags)
<1>1. OwnOfItem \in [Items -> Seq(Tags)]
  <2>1. \A item \in Items : TagOf[item] \in Tags
    BY DEF TagOf, Items, Tags
  <2> QED
    BY <2>1 DEF OwnOfItem
<1>2. \A items \in Seq(Items) : OwnAmong(items) \in Seq(Tags)
  BY <1>1, OwnIsGathered, GatheredIsArray
<1>3. << >> \in Seq(Tags)
  OBVIOUS
<1>4. \A block \in AnyBlocks : block.kind = "new" => block.items \in Seq(Items)
  BY DEF AnyBlocks
<1> QED
  BY <1>1, <1>2, <1>3, <1>4 DEF OwnOfEvent, OwnOfBlock

LEMMA OwnOfNone == OwnAmong(<< >>) = << >>
<1>1. << >> \in Seq(Items)
  OBVIOUS
<1> QED
  BY <1>1, OwnIsGathered, GatheredEmpty

LEMMA OwnOfFirst ==
  ASSUME NEW items \in Seq(Items), items # << >>
  PROVE  /\ Head(items) \in Items /\ Tail(items) \in Seq(Items)
         /\ Head(items).mine =>
              OwnAmong(items) = <<TagOf[Head(items)]>> \o OwnAmong(Tail(items))
         /\ ~Head(items).mine => OwnAmong(items) = OwnAmong(Tail(items))
<1>1. Head(items) \in Items /\ Tail(items) \in Seq(Items)
  OBVIOUS
<1>2. OwnAmong(items) = OwnOfItem[Head(items)] \o OwnAmong(Tail(items))
  <2>1. GatherBegins(items, OwnOfItem)
    BY OwnTypes, GatheredTail
  <2> QED
    BY <1>1, <2>1, OwnIsGathered DEF GatherBegins
<1>3. OwnAmong(Tail(items)) \in Seq(Tags)
  BY <1>1, OwnTypes
<1>4. << >> \o OwnAmong(Tail(items)) = OwnAmong(Tail(items))
  BY <1>3, ArraysJoin DEF Joins
<1> QED
  BY <1>1, <1>2, <1>4 DEF OwnOfItem

\* What the stack queue has begun and not yet worked through.
Begun(w) ==
  CASE w.pc \in {"copy", "assign"} -> << >>
    [] w.pc = "end" -> Tail(w.items)
    [] OTHER -> w.items

ComingOf(items, queue, events) ==
  (OwnAmong(items) \o Gathered(queue, OwnOfBlock)) \o Gathered(events, OwnOfEvent)

Settled == worker.pc = "idle" => worker.items = << >>

LEMMA ComingTyped ==
  ASSUME Typed, Settled
  PROVE  /\ Begun(worker) \in Seq(Items) /\ blocks \in Seq(AnyBlocks)
         /\ session \in Seq(Seq(Items))
<1>1. blocks \in Seq(AnyBlocks)
  <2>1. Indexes \subseteq Nat
    BY DEF Typed, HeapTyped, Indexes
  <2>2. Blocks \subseteq AnyBlocks
    <3>1. Seq(Indexes) \subseteq Seq(Nat)
      <4> SUFFICES ASSUME NEW s \in Seq(Indexes)
                   PROVE  s \in Seq(Nat)
        OBVIOUS
      <4>1. /\ DOMAIN s = DOMAIN s /\ s = [k \in DOMAIN s |-> s[k]]
            /\ \A k \in DOMAIN s : s[k] \in Nat
        BY <2>1
      <4> QED
        BY <4>1, FunctionIsSequence
    <3> QED
      BY <3>1 DEF Blocks, AnyBlocks
  <2> HIDE DEF Blocks, AnyBlocks
  <2> QED
    BY <2>2 DEF Typed, QueueTyped
<1>2. Begun(worker) \in Seq(Items)
  <2>1. CASE worker.pc \in {"copy", "assign"}
    BY <2>1 DEF Begun
  <2>2. CASE worker.pc \notin {"copy", "assign"}
    <3>1. worker.items \in Seq(Items)
      <4>1. CASE worker.pc = "idle"
        <5>1. << >> \in Seq(Items)
          OBVIOUS
        <5> QED
          BY <4>1, <5>1 DEF Settled
      <4>2. CASE worker.pc # "idle"
        BY <2>2, <4>2 DEF Typed, QueueTyped
      <4> QED
        BY <4>1, <4>2
    <3>2. worker.pc = "end" => worker.items # << >>
      BY DEF Typed, QueueTyped
    <3> QED
      BY <2>2, <3>1, <3>2 DEF Begun
  <2> QED
    BY <2>1, <2>2
<1> QED
  BY <1>1, <1>2 DEF Typed, NetTyped

LEMMA ComingIsLaid ==
  ASSUME Typed, Settled
  PROVE  Coming = ComingOf(Begun(worker), blocks, session)
<1>1. /\ Begun(worker) \in Seq(Items) /\ blocks \in Seq(AnyBlocks)
      /\ session \in Seq(Seq(Items))
  BY ComingTyped
<1>2. Mapped(blocks, OwnOfBlock)
        = [k \in DOMAIN blocks |->
             IF blocks[k].kind = "new" THEN OwnAmong(blocks[k].items) ELSE << >>]
  <2>1. \A k \in DOMAIN blocks : blocks[k] \in AnyBlocks
    BY <1>1
  <2> QED
    BY <2>1 DEF Mapped, OwnOfBlock
<1>3. Mapped(session, OwnOfEvent) = [k \in DOMAIN session |-> OwnAmong(session[k])]
  <2>1. \A k \in DOMAIN session : session[k] \in Seq(Items)
    BY <1>1
  <2> QED
    BY <2>1 DEF Mapped, OwnOfEvent
<1> QED
  BY <1>2, <1>3 DEF Coming, ComingOf, Begun, Gathered

\* The operations of an array, with their IDs.
Tagged(made, s) == [k \in DOMAIN s |-> [op |-> s[k], id |-> made[s[k]].operationID]]

\* IDs are never changed.
Numbered(made, more) ==
  /\ made \in Seq(OpType) /\ more \in Seq(OpType) /\ DOMAIN made \subseteq DOMAIN more
  /\ \A o \in DOMAIN made : more[o].operationID = made[o].operationID

LEMMA IDsStay ==
  ASSUME NEW made, NEW more, Numbered(made, more), NEW s \in Seq(DOMAIN made)
  PROVE  Tagged(more, s) = Tagged(made, s)
<1>1. \A k \in DOMAIN s : s[k] \in DOMAIN made
  OBVIOUS
<1> QED
  BY <1>1 DEF Numbered, Tagged

LEMMA IDsLaid ==
  ASSUME NEW made \in Seq(OpType), NEW s \in Seq(DOMAIN made), NEW t \in Seq(DOMAIN made)
  PROVE  /\ Tagged(made, s) \in Seq(Tags)
         /\ Tagged(made, s \o t) = Tagged(made, s) \o Tagged(made, t)
<1> DEFINE T == DOMAIN made
           g == [o \in T |-> [op |-> o, id |-> made[o].operationID]]
<1>1. g \in [T -> Tags]
  <2>1. \A o \in T : made[o] \in OpType /\ o \in Nat
    OBVIOUS
  <2> QED
    BY <2>1 DEF OpType, Tags
<1>2. \A u \in Seq(T) : Tagged(made, u) = Mapped(u, g)
  <2> SUFFICES ASSUME NEW u \in Seq(T)
               PROVE  Tagged(made, u) = Mapped(u, g)
    OBVIOUS
  <2>1. \A k \in DOMAIN u : u[k] \in T
    OBVIOUS
  <2> QED
    BY <2>1 DEF Tagged, Mapped
<1>3. s \in Seq(T) /\ t \in Seq(T) /\ s \o t \in Seq(T)
  OBVIOUS
<1> HIDE DEF T, g
<1>4. Maps(Mapped(s, g), s, g, Tags) /\ MapJoins(s, t, g)
  BY <1>1, <1>3, MappedIsArray, MappedJoin
<1> QED
  BY <1>2, <1>3, <1>4 DEF Maps, MapJoins

\* The first of them.
LEMMA IDsBegin ==
  ASSUME NEW made \in Seq(OpType), NEW s \in Seq(DOMAIN made), s # << >>
  PROVE  /\ Tail(s) \in Seq(DOMAIN made) /\ Tagged(made, s) # << >>
         /\ Head(Tagged(made, s)) = [op |-> s[1], id |-> made[s[1]].operationID]
         /\ Tail(Tagged(made, s)) = Tagged(made, Tail(s))
<1> DEFINE T == DOMAIN made
           g == [o \in T |-> [op |-> o, id |-> made[o].operationID]]
<1>1. g \in [T -> Tags]
  <2>1. \A o \in T : made[o] \in OpType /\ o \in Nat
    OBVIOUS
  <2> QED
    BY <2>1 DEF OpType, Tags
<1>2. \A u \in Seq(T) : Tagged(made, u) = Mapped(u, g)
  <2> SUFFICES ASSUME NEW u \in Seq(T)
               PROVE  Tagged(made, u) = Mapped(u, g)
    OBVIOUS
  <2>1. \A k \in DOMAIN u : u[k] \in T
    OBVIOUS
  <2> QED
    BY <2>1 DEF Tagged, Mapped
<1>3. s \in Seq(T) /\ Tail(s) \in Seq(T) /\ Head(s) = s[1] /\ s[1] \in T
  OBVIOUS
<1>4. g[s[1]] = [op |-> s[1], id |-> made[s[1]].operationID]
  BY <1>3
<1> HIDE DEF T, g
<1>5. MapBegins(s, g)
  BY <1>1, <1>3, MappedTail
<1> QED
  BY <1>2, <1>3, <1>4, <1>5 DEF MapBegins, T

\* A broadcast has the IDs of the operations it takes.
LEMMA OwnOfBroadcast ==
  ASSUME NEW made \in Seq(OpType), NEW s \in Seq(DOMAIN made)
  PROVE  LET event == [i \in DOMAIN s |-> [mine |-> TRUE, id |-> made[s[i]].operationID, op |-> s[i]]]
         IN  event \in Seq(Items) /\ OwnAmong(event) = Tagged(made, s)
<1> DEFINE event == [i \in DOMAIN s |-> [mine |-> TRUE, id |-> made[s[i]].operationID, op |-> s[i]]]
           ids == Tagged(made, s)
<1>1. \A k \in DOMAIN s : s[k] \in DOMAIN made /\ made[s[k]].operationID \in Nat
  <2>1. \A o \in DOMAIN made : made[o] \in OpType
    OBVIOUS
  <2> QED
    BY <2>1 DEF OpType
<1>2. \A k \in DOMAIN s : event[k] \in Items
  BY <1>1 DEF Items
<1>3. event \in Seq(Items)
  <2>1. DOMAIN event = DOMAIN s /\ event = [k \in DOMAIN s |-> event[k]]
    OBVIOUS
  <2> HIDE DEF event
  <2> QED
    BY <1>2, <2>1, FunctionIsSequence
<1>4. ids \in Seq(Tags) /\ DOMAIN ids = DOMAIN s
  <2>1. ids \in Seq(Tags)
    BY IDsLaid
  <2> QED
    BY <2>1 DEF Tagged
<1>5. [k \in DOMAIN event |->
           IF event[k].mine THEN <<[op |-> event[k].op, id |-> event[k].id]>> ELSE << >>]
        = [k \in DOMAIN ids |-> <<ids[k]>>]
  BY <1>4 DEF Tagged
<1> HIDE DEF event, ids
<1>6. OwnAmong(event) = ids
  BY <1>4, <1>5, FlattenSingles DEF OwnAmong
<1> QED
  BY <1>3, <1>6 DEF event, ids

\* The parts of what is coming.
LEMMA ComingParts ==
  ASSUME NEW items \in Seq(Items), NEW queue \in Seq(AnyBlocks), NEW events \in Seq(Seq(Items))
  PROVE  /\ OwnAmong(items) \in Seq(Tags) /\ Gathered(queue, OwnOfBlock) \in Seq(Tags)
         /\ Gathered(events, OwnOfEvent) \in Seq(Tags)
BY OwnTypes, GatheredIsArray

\* An event is added to the session.
LEMMA ComingGrows ==
  ASSUME NEW items \in Seq(Items), NEW queue \in Seq(AnyBlocks),
         NEW events \in Seq(Seq(Items)), NEW e \in Seq(Items)
  PROVE  ComingOf(items, queue, Append(events, e)) = ComingOf(items, queue, events) \o OwnAmong(e)
<1> DEFINE R == Seq(Tags)
           a == OwnAmong(items)
           b == Gathered(queue, OwnOfBlock)
           c == Gathered(events, OwnOfEvent)
           d == OwnAmong(e)
<1>1. Joins(R) /\ a \in R /\ b \in R /\ c \in R /\ d \in R
  BY ArraysJoin, ComingParts, OwnTypes
<1>2. Gathered(Append(events, e), OwnOfEvent) = c \o d
  <2>1. GatherAppends(events, OwnOfEvent, e)
    BY OwnTypes, GatheredAppend
  <2>2. OwnOfEvent[e] = d
    BY DEF OwnOfEvent
  <2> QED
    BY <2>1, <2>2 DEF GatherAppends
<1> HIDE DEF R, a, b, c, d
<1>3. (a \o b) \o (c \o d) = ((a \o b) \o c) \o d
  <2>1. PICK u : u = a \o b /\ u \in R
    BY <1>1 DEF Joins
  <2>2. (u \o c) \o d = u \o (c \o d)
    <3>1. \A p, q, r \in R : (p \o q) \o r = p \o (q \o r)
      BY <1>1 DEF Joins
    <3>2. u \in R /\ c \in R /\ d \in R
      BY <1>1, <2>1
    <3> QED
      BY <3>1, <3>2
  <2> QED
    BY <2>1, <2>2
<1> QED
  BY <1>2, <1>3 DEF ComingOf, a, b, c, d

\* An event goes from the session into the stack queue.
LEMMA ComingQueued ==
  ASSUME NEW items \in Seq(Items), NEW queue \in Seq(AnyBlocks),
         NEW events \in Seq(Seq(Items)), events # << >>
  PROVE  LET block == [kind |-> "new", items |-> Head(events)]
         IN  ComingOf(items, Append(queue, block), Tail(events)) = ComingOf(items, queue, events)
<1> DEFINE R == Seq(Tags)
           block == [kind |-> "new", items |-> Head(events)]
           a == OwnAmong(items)
           b == Gathered(queue, OwnOfBlock)
           c == OwnAmong(Head(events))
           d == Gathered(Tail(events), OwnOfEvent)
<1>1. /\ Head(events) \in Seq(Items) /\ Tail(events) \in Seq(Seq(Items))
      /\ block \in AnyBlocks
  BY DEF AnyBlocks
<1>2. Joins(R) /\ a \in R /\ b \in R /\ c \in R /\ d \in R
  BY <1>1, ArraysJoin, ComingParts, OwnTypes
<1>3. Gathered(Append(queue, block), OwnOfBlock) = b \o c
  <2>1. OwnOfBlock[block] = c
    BY <1>1 DEF OwnOfBlock
  <2> HIDE DEF block
  <2>2. GatherAppends(queue, OwnOfBlock, block)
    BY <1>1, OwnTypes, GatheredAppend
  <2> QED
    BY <2>1, <2>2 DEF GatherAppends
<1>4. Gathered(events, OwnOfEvent) = c \o d
  <2>1. GatherBegins(events, OwnOfEvent)
    BY OwnTypes, GatheredTail
  <2>2. OwnOfEvent[Head(events)] = c
    BY <1>1 DEF OwnOfEvent
  <2> QED
    BY <2>1, <2>2 DEF GatherBegins
<1> HIDE DEF R, a, b, c, d, block
<1>5. (a \o (b \o c)) \o d = (a \o b) \o (c \o d)
  <2>1. a \o (b \o c) = (a \o b) \o c
    BY <1>2 DEF Joins
  <2>2. ((a \o b) \o c) \o d = (a \o b) \o (c \o d)
    <3>1. PICK u : u = a \o b /\ u \in R
      BY <1>2 DEF Joins
    <3>2. (u \o c) \o d = u \o (c \o d)
      <4>1. \A x, y, z \in R : (x \o y) \o z = x \o (y \o z)
        BY <1>2 DEF Joins
      <4>2. u \in R /\ c \in R /\ d \in R
        BY <1>2, <3>1
      <4> QED
        BY <4>1, <4>2
    <3> QED
      BY <3>1, <3>2
  <2> QED
    BY <2>1, <2>2
<1> QED
  BY <1>3, <1>4, <1>5 DEF ComingOf, a, b, d, block

\* A refused change set is put into the stack queue.
LEMMA ComingReturns ==
  ASSUME NEW items \in Seq(Items), NEW queue \in Seq(AnyBlocks),
         NEW events \in Seq(Seq(Items)), NEW block \in AnyBlocks, block.kind = "local"
  PROVE  ComingOf(items, Append(queue, block), events) = ComingOf(items, queue, events)
<1> DEFINE R == Seq(Tags)
           b == Gathered(queue, OwnOfBlock)
<1>1. Joins(R) /\ b \in R
  BY ArraysJoin, ComingParts
<1>2. Gathered(Append(queue, block), OwnOfBlock) = b \o << >>
  <2>1. GatherAppends(queue, OwnOfBlock, block)
    BY OwnTypes, GatheredAppend
  <2>2. OwnOfBlock[block] = << >>
    BY DEF OwnOfBlock
  <2> QED
    BY <2>1, <2>2 DEF GatherAppends
<1> HIDE DEF R, b
<1>3. b \o << >> = b
  BY <1>1 DEF Joins
<1> QED
  BY <1>2, <1>3 DEF ComingOf, b

\* The stack queue begins a block.
LEMMA ComingBegins ==
  ASSUME NEW queue \in Seq(AnyBlocks), NEW events \in Seq(Seq(Items)), queue # << >>,
         NEW items, items = IF Head(queue).kind = "new" THEN Head(queue).items ELSE << >>
  PROVE  /\ items \in Seq(Items) /\ Tail(queue) \in Seq(AnyBlocks)
         /\ ComingOf(items, Tail(queue), events) = ComingOf(<< >>, queue, events)
<1> DEFINE R == Seq(Tags)
           b == Gathered(Tail(queue), OwnOfBlock)
           a == OwnAmong(items)
<1>1. Head(queue) \in AnyBlocks /\ Tail(queue) \in Seq(AnyBlocks)
  OBVIOUS
<1>2. items \in Seq(Items) /\ OwnOfBlock[Head(queue)] = a
  <2>1. << >> \in Seq(Items)
    OBVIOUS
  <2>2. OwnOfBlock[Head(queue)] = a
    BY <1>1, OwnOfNone DEF OwnOfBlock
  <2>3. Head(queue).kind = "new" => Head(queue).items \in Seq(Items)
    BY <1>1 DEF AnyBlocks
  <2> QED
    BY <2>1, <2>2, <2>3
<1>3. Joins(R) /\ a \in R /\ b \in R
  BY <1>1, <1>2, ArraysJoin, ComingParts, OwnTypes
<1>4. Gathered(queue, OwnOfBlock) = a \o b
  <2>1. GatherBegins(queue, OwnOfBlock)
    BY OwnTypes, GatheredTail
  <2> QED
    BY <1>2, <2>1 DEF GatherBegins
<1> HIDE DEF R, a, b
<1>5. << >> \o (a \o b) = a \o b
  BY <1>3 DEF Joins
<1> QED
  BY <1>1, <1>2, <1>4, <1>5, OwnOfNone DEF ComingOf, a, b

\* An item is worked through.
LEMMA ComingHandled ==
  ASSUME NEW items \in Seq(Items), NEW queue \in Seq(AnyBlocks),
         NEW events \in Seq(Seq(Items)), items # << >>
  PROVE  /\ ComingOf(Tail(items), queue, events) \in Seq(Tags)
         /\ Head(items).mine =>
              ComingOf(items, queue, events)
                = <<TagOf[Head(items)]>> \o ComingOf(Tail(items), queue, events)
         /\ ~Head(items).mine =>
              ComingOf(items, queue, events) = ComingOf(Tail(items), queue, events)
<1> DEFINE R == Seq(Tags)
           x == <<TagOf[Head(items)]>>
           a == OwnAmong(Tail(items))
           b == Gathered(queue, OwnOfBlock)
           c == Gathered(events, OwnOfEvent)
<1>1. /\ Head(items) \in Items /\ Tail(items) \in Seq(Items)
      /\ Head(items).mine => OwnAmong(items) = x \o a
      /\ ~Head(items).mine => OwnAmong(items) = a
  BY OwnOfFirst
<1>2. x \in R
  <2>1. TagOf[Head(items)] \in Tags
    BY <1>1 DEF TagOf, Items, Tags
  <2> QED
    BY <2>1
<1>3. Joins(R) /\ a \in R /\ b \in R /\ c \in R
  BY <1>1, ArraysJoin, ComingParts
<1> HIDE DEF R, x, a, b, c
<1>4. /\ ((x \o a) \o b) \o c = x \o ((a \o b) \o c)
      /\ (a \o b) \o c \in R
  <2>1. (x \o a) \o b = x \o (a \o b) /\ a \o b \in R
    BY <1>2, <1>3 DEF Joins
  <2>2. (x \o (a \o b)) \o c = x \o ((a \o b) \o c)
    BY <1>2, <1>3, <2>1, ZenonT(30) DEF Joins
  <2> QED
    BY <1>3, <2>1, <2>2 DEF Joins
<1> QED
  BY <1>1, <1>4 DEF ComingOf, R, x, a, b, c

\* The operations that were accepted and not yet confirmed.
Unconfirmed == IF main.pc = "accepted" THEN send \o main.array ELSE send

Matched == ComingOf(Begun(worker), blocks, session) = Tagged(ops, Unconfirmed)

Sent == \A k \in 1..Len(send) : ops[send[k]].state = "SEND"

\* What the stack queue knows of the item it handles.
Expecting ==
  /\ worker.pc = "confirm" => send # << >> /\ worker.i = 0 /\ Head(worker.items).mine
  /\ worker.pc \in Handling => ~Head(worker.items).mine

\* The inductive invariant.
ComingInv == Settled /\ Matched /\ Sent /\ Expecting

LEMMA ComingFacts ==
  ASSUME Typed, ComingInv
  PROVE  /\ Begun(worker) \in Seq(Items) /\ blocks \in Seq(AnyBlocks)
         /\ session \in Seq(Seq(Items))
         /\ ops \in Seq(OpType) /\ send \in Seq(DOMAIN ops) /\ main.array \in Seq(DOMAIN ops)
         /\ Unconfirmed \in Seq(DOMAIN ops) /\ worker \in Workers
         /\ \A k \in 1..Len(send) : send[k] \in DOMAIN ops
         /\ Numbered(ops, ops)
<1>1. /\ ops \in Seq(OpType) /\ send \in Seq(DOMAIN ops) /\ main.array \in Seq(DOMAIN ops)
      /\ worker \in Workers
  BY DEF Typed, HeapTyped, MainTyped, Mains, QueueTyped, Indexes
<1>2. send \o main.array \in Seq(DOMAIN ops) /\ \A k \in 1..Len(send) : send[k] \in DOMAIN ops
  BY <1>1
<1>3. Unconfirmed \in Seq(DOMAIN ops)
  BY <1>1, <1>2 DEF Unconfirmed
<1>4. Numbered(ops, ops)
  BY <1>1 DEF Numbered
<1> QED
  BY <1>1, <1>2, <1>3, <1>4, ComingTyped DEF ComingInv

\* A step that leaves what is coming and what is unconfirmed, and the stack queue.
LEMMA ComingStays ==
  ASSUME Typed, ComingInv, UNCHANGED <<worker, send>>, Unconfirmed' = Unconfirmed,
         Numbered(ops, ops'), \A o \in DOMAIN ops : ops'[o] = ops[o],
         ComingOf(Begun(worker), blocks', session') = ComingOf(Begun(worker), blocks, session)
  PROVE  ComingInv'
<1>1. /\ Unconfirmed \in Seq(DOMAIN ops) /\ \A k \in 1..Len(send) : send[k] \in DOMAIN ops
  BY ComingFacts
<1>2. Tagged(ops', Unconfirmed) = Tagged(ops, Unconfirmed)
  BY <1>1, IDsStay
<1>3. Begun(worker') = Begun(worker)
  OBVIOUS
<1>4. ComingOf(Begun(worker'), blocks', session') = Tagged(ops', Unconfirmed')
  BY <1>2, <1>3 DEF ComingInv, Matched
<1>5. Sent'
  BY <1>1 DEF ComingInv, Sent
<1> QED
  BY <1>4, <1>5 DEF ComingInv, Matched, Settled, Expecting

LEMMA ComingUntouched ==
  ASSUME Typed, ComingInv, UNCHANGED <<worker, send, ops, blocks>>,
         Unconfirmed' = Unconfirmed,
         ComingOf(Begun(worker), blocks, session') = ComingOf(Begun(worker), blocks, session)
  PROVE  ComingInv'
<1>1. Numbered(ops, ops') /\ \A o \in DOMAIN ops : ops'[o] = ops[o]
  BY ComingFacts
<1> QED
  BY <1>1, ComingStays

LEMMA KeystrokeComing ==
  ASSUME Typed, ComingInv, Keystroke
  PROVE  ComingInv'
<1>0. /\ main \in Mains /\ ops \in Seq(OpType) /\ Numbered(ops, ops)
  BY ComingFacts DEF Typed, MainTyped
<1>1. /\ UNCHANGED <<worker, send, blocks, session>>
      /\ main.pc # "accepted" /\ main'.pc # "accepted"
  <2>1. CASE LoadOperationID
    BY <1>0, <2>1 DEF LoadOperationID, heap, Mains
  <2>2. CASE StoreOperationID
    BY <1>0, <2>2 DEF StoreOperationID, Mains
  <2>3. CASE FindLocalStack
    BY <1>0, <2>3 DEF FindLocalStack, heap, Mains
  <2>4. CASE AddToLocalStack
    BY <1>0, <2>4 DEF AddToLocalStack, IdleMain
  <2> QED
    BY <2>1, <2>2, <2>3, <2>4 DEF Keystroke
<1>2. Unconfirmed' = Unconfirmed
  BY <1>1 DEF Unconfirmed
<1>3. Numbered(ops, ops') /\ \A o \in DOMAIN ops : ops'[o] = ops[o]
  <2>1. CASE StoreOperationID
    <3> DEFINE op == [operationID |-> main.id, state |-> "LOCAL"]
    <3>1. op \in OpType /\ ops' = Append(ops, op)
      <4>1. main.id \in Nat
        BY <2>1 DEF StoreOperationID, Typed, MainTyped, Mains, NoID
      <4> QED
        BY <2>1, <4>1 DEF StoreOperationID, OpType
    <3> HIDE DEF op
    <3>2. /\ ops' \in Seq(OpType) /\ DOMAIN ops \subseteq DOMAIN ops'
          /\ \A o \in DOMAIN ops : ops'[o] = ops[o]
      BY <1>0, <3>1
    <3> QED
      BY <1>0, <3>2 DEF Numbered
  <2>2. CASE ops' = ops
    BY <1>0, <2>2
  <2> QED
    BY <2>1, <2>2
    DEF Keystroke, LoadOperationID, FindLocalStack, AddToLocalStack, heap
<1> QED
  BY <1>1, <1>2, <1>3, ComingStays

LEMMA JoinParts ==
  ASSUME NEW S, NEW s \in Seq(S), NEW t \in Seq(S)
  PROVE  /\ Len(s \o t) = Len(s) + Len(t) /\ Len(s) \in Nat /\ Len(t) \in Nat
         /\ \A k \in 1..Len(s) : (s \o t)[k] = s[k]
         /\ \A k \in 1..Len(t) : (s \o t)[Len(s) + k] = t[k]
         /\ \A k \in 1..Len(t) : k \in DOMAIN t /\ t[k] \in S
OBVIOUS

\* A refused change set and a tick that finds nothing say nothing of the session; a
\* broadcast adds what is unconfirmed.
LEMMA TickComing ==
  ASSUME "timer" \notin Overlaps, Typed, TestedInv, Orderly, ComingInv, Tick
  PROVE  ComingInv'
<1>0. /\ main \in Mains /\ worker' = worker /\ worker.pc = "idle"
  BY DEF Tick, FindLocalOperations, SwapLocalStack, BroadcastChangeSet, AddChangeSetToLocal,
         PutIntoSendStack, WorkerAway, TestedInv, TickSteps, Typed, MainTyped
<1>1. /\ Begun(worker) \in Seq(Items) /\ blocks \in Seq(AnyBlocks)
      /\ session \in Seq(Seq(Items))
      /\ ops \in Seq(OpType) /\ send \in Seq(DOMAIN ops) /\ main.array \in Seq(DOMAIN ops)
      /\ \A k \in 1..Len(send) : send[k] \in DOMAIN ops
      /\ Numbered(ops, ops) /\ Unconfirmed \in Seq(DOMAIN ops)
  BY ComingFacts
<1>2. CASE FindLocalOperations \/ SwapLocalStack
  <2>1. /\ UNCHANGED <<send, ops, blocks, session>>
        /\ main.pc # "accepted" /\ main'.pc # "accepted"
    <3>1. CASE FindLocalOperations
      BY <1>0, <3>1 DEF FindLocalOperations, heap, Mains
    <3>2. CASE SwapLocalStack
      <4>1. \/ main' = IdleMain
            \/ main' = [main EXCEPT !.pc = "swapped", !.same = FALSE, !.array = Found]
        BY <3>2 DEF SwapLocalStack
      <4>2. main.pc = "found" /\ UNCHANGED <<send, ops, blocks, session>>
        BY <3>2 DEF SwapLocalStack
      <4> QED
        <5>1. main'.pc \in {"idle", "swapped"}
          <6>1. CASE main' = IdleMain
            BY <6>1 DEF IdleMain
          <6>2. CASE main' = [main EXCEPT !.pc = "swapped", !.same = FALSE, !.array = Found]
            BY <1>0, <6>2 DEF Mains
          <6> QED
            BY <4>1, <6>1, <6>2
        <5> QED
          BY <4>2, <5>1
    <3> QED
      BY <1>2, <3>1, <3>2
  <2>2. Unconfirmed' = Unconfirmed
    BY <2>1 DEF Unconfirmed
  <2> QED
    BY <1>0, <2>1, <2>2, ComingUntouched
<1>3. CASE BroadcastChangeSet
  <2> DEFINE event == [i \in DOMAIN main.array |->
                         [mine |-> TRUE, id |-> ops[main.array[i]].operationID, op |-> main.array[i]]]
  <2>1. /\ main.pc = "swapped" /\ session' = Append(session, event)
        /\ main'.pc = "accepted" /\ main'.array = main.array
        /\ UNCHANGED <<send, ops, blocks>>
    BY <1>0, <1>3 DEF BroadcastChangeSet, heap, Mains
  <2>2. event \in Seq(Items) /\ OwnAmong(event) = Tagged(ops, main.array)
    BY <1>1, OwnOfBroadcast
  <2> HIDE DEF event
  <2>3. ComingOf(Begun(worker), blocks, session')
          = ComingOf(Begun(worker), blocks, session) \o Tagged(ops, main.array)
    <3>1. ComingOf(Begun(worker), blocks, Append(session, event))
            = ComingOf(Begun(worker), blocks, session) \o OwnAmong(event)
      BY <1>1, <2>2, ComingGrows
    <3> QED
      BY <2>1, <2>2, <3>1
  <2>4. Unconfirmed = send /\ Unconfirmed' = send \o main.array
    BY <2>1 DEF Unconfirmed
  <2>5. Tagged(ops, send \o main.array) = Tagged(ops, send) \o Tagged(ops, main.array)
    BY <1>1, IDsLaid
  <2>6. Matched'
    BY <1>0, <2>1, <2>3, <2>4, <2>5 DEF ComingInv, Matched
  <2> QED
    BY <1>0, <2>1, <2>6 DEF ComingInv, Settled, Sent, Expecting
<1>4. CASE AddChangeSetToLocal
  <2> DEFINE block == [kind |-> "local", items |-> main.array]
  <2>1. /\ main.pc = "swapped" /\ main'.pc = "idle" /\ blocks' = Append(blocks, block)
        /\ UNCHANGED <<send, ops, session>>
    BY <1>4 DEF AddChangeSetToLocal, heap, IdleMain
  <2>2. block \in AnyBlocks /\ block.kind = "local"
    <3>1. \A k \in DOMAIN main.array : main.array[k] \in Nat
      BY <1>1
    <3>2. main.array \in Seq(Nat)
      <4>1. main.array = [k \in DOMAIN main.array |-> main.array[k]]
        BY <1>1
      <4> QED
        BY <1>1, <3>1, <4>1, FunctionIsSequence
    <3> QED
      BY <3>2 DEF AnyBlocks
  <2> HIDE DEF block
  <2>3. ComingOf(Begun(worker), blocks', session) = ComingOf(Begun(worker), blocks, session)
    BY <1>1, <2>1, <2>2, ComingReturns
  <2>4. Unconfirmed' = Unconfirmed
    BY <2>1 DEF Unconfirmed
  <2>5. Numbered(ops, ops') /\ \A o \in DOMAIN ops : ops'[o] = ops[o]
    BY <1>1, <2>1
  <2> QED
    BY <1>0, <2>1, <2>3, <2>4, <2>5, ComingStays
<1>5. CASE PutIntoSendStack
  <2> DEFINE taken == main.array
  <2>1. /\ main.pc = "accepted" /\ main'.pc = "idle" /\ send' = send \o taken
        /\ ops' = [o \in DOMAIN ops |->
                     IF o \in Range(taken) THEN [ops[o] EXCEPT !.state = "SEND"] ELSE ops[o]]
        /\ UNCHANGED <<blocks, session>>
    BY <1>5 DEF PutIntoSendStack, IdleMain
  <2>2. \A o \in DOMAIN ops : /\ [ops[o] EXCEPT !.state = "SEND"] \in OpType /\ ops[o] \in OpType
                              /\ ops'[o].operationID = ops[o].operationID
                              /\ ops[o].state = "SEND" => ops'[o].state = "SEND"
                              /\ o \in Range(taken) => ops'[o].state = "SEND"
    <3>1. \A o \in DOMAIN ops : ops[o] \in OpType
      BY <1>1
    <3> QED
      BY <2>1, <3>1 DEF OpType
  <2>3. Numbered(ops, ops')
    <3>1. ops' \in Seq(OpType) /\ DOMAIN ops' = DOMAIN ops
      <4>1. \A o \in DOMAIN ops : ops'[o] \in OpType
        BY <2>1, <2>2
      <4>2. DOMAIN ops' = DOMAIN ops /\ ops' = [o \in DOMAIN ops |-> ops'[o]]
        BY <2>1
      <4> QED
        BY <1>1, <4>1, <4>2, FunctionIsSequence
    <3> QED
      BY <1>1, <2>2, <3>1 DEF Numbered
  <2>4. Unconfirmed = send \o taken /\ Unconfirmed' = send \o taken
    BY <2>1 DEF Unconfirmed
  <2>5. Matched'
    <3>1. Tagged(ops', Unconfirmed) = Tagged(ops, Unconfirmed)
      BY <1>1, <2>3, IDsStay
    <3>2. Begun(worker') = Begun(worker)
      BY <1>0
    <3> QED
      BY <2>1, <2>4, <3>1, <3>2 DEF ComingInv, Matched
  <2>6. Sent'
    <3>1. /\ Len(send') = Len(send) + Len(taken) /\ Len(send) \in Nat /\ Len(taken) \in Nat
          /\ \A k \in 1..Len(send) : send'[k] = send[k]
          /\ \A k \in 1..Len(taken) : send'[Len(send) + k] = taken[k]
          /\ \A k \in 1..Len(taken) : k \in DOMAIN taken /\ taken[k] \in DOMAIN ops
      <4>1. send' = send \o taken
        BY <2>1
      <4>2. send \in Seq(DOMAIN ops) /\ taken \in Seq(DOMAIN ops)
        BY <1>1
      <4> HIDE DEF taken
      <4> QED
        BY <4>1, <4>2, JoinParts
    <3> SUFFICES ASSUME NEW k \in 1..Len(send')
                 PROVE  ops'[send'[k]].state = "SEND"
      BY DEF Sent
    <3>2. CASE k \in 1..Len(send)
      BY <1>1, <2>2, <3>1, <3>2 DEF ComingInv, Sent
    <3>3. CASE k \notin 1..Len(send)
      <4> DEFINE j == k - Len(send)
      <4>1. j \in 1..Len(taken) /\ Len(send) + j = k
        BY <3>1, <3>3
      <4> HIDE DEF j, taken
      <4>2. send'[k] = taken[j] /\ taken[j] \in DOMAIN ops /\ taken[j] \in Range(taken)
        BY <3>1, <4>1 DEF Range
      <4> QED
        BY <2>2, <4>2
    <3> QED
      BY <3>2, <3>3
  <2> QED
    BY <1>0, <2>5, <2>6 DEF ComingInv, Settled, Expecting, Handling, Adjusting
<1> QED
  BY <1>2, <1>3, <1>4, <1>5 DEF Tick

LEMMA SessionComing ==
  ASSUME Typed, ComingInv, ForeignEvent \/ Framework
  PROVE  ComingInv'
<1>1. /\ Begun(worker) \in Seq(Items) /\ blocks \in Seq(AnyBlocks)
      /\ session \in Seq(Seq(Items))
      /\ Numbered(ops, ops)
  BY ComingFacts
<1>2. UNCHANGED <<heap, main, worker>>
  BY DEF ForeignEvent, Framework, LoadDecodedID, StoreDecodedID, AddNewChangeSet
<1>3. Unconfirmed' = Unconfirmed /\ UNCHANGED <<ops, send, worker>>
  BY <1>2 DEF heap, Unconfirmed
<1>4. CASE ForeignEvent
  <2> DEFINE event == <<[mine |-> FALSE, id |-> 0, op |-> 0]>>
  <2>1. session' = Append(session, event) /\ blocks' = blocks
    BY <1>4 DEF ForeignEvent
  <2>2. event \in Seq(Items) /\ event # << >> /\ ~Head(event).mine /\ Tail(event) = << >>
    BY DEF Items
  <2> HIDE DEF event
  <2>3. OwnAmong(event) = << >>
    BY <2>2, OwnOfFirst, OwnOfNone
  <2>4. ComingOf(Begun(worker), blocks, Append(session, event))
          = ComingOf(Begun(worker), blocks, session) \o << >>
    BY <1>1, <2>2, <2>3, ComingGrows
  <2>5. ComingOf(Begun(worker), blocks, session) \in Seq(Tags)
    <3>1. Tagged(ops, Unconfirmed) \in Seq(Tags)
      <4>1. ops \in Seq(OpType) /\ Unconfirmed \in Seq(DOMAIN ops)
        BY ComingFacts
      <4> QED
        BY <4>1, IDsLaid
    <3> QED
      BY <3>1 DEF ComingInv, Matched
  <2>6. ComingOf(Begun(worker), blocks, session) \o << >>
          = ComingOf(Begun(worker), blocks, session)
    BY <2>5, ArraysJoin DEF Joins
  <2> QED
    BY <1>3, <2>1, <2>4, <2>6, ComingUntouched
<1>5. CASE LoadDecodedID \/ StoreDecodedID
  <2>1. session' = session /\ blocks' = blocks
    BY <1>5 DEF LoadDecodedID, StoreDecodedID
  <2> QED
    BY <1>3, <2>1, ComingUntouched
<1>6. CASE AddNewChangeSet
  <2> DEFINE block == [kind |-> "new", items |-> Head(session)]
  <2>1. session # << >> /\ blocks' = Append(blocks, block) /\ session' = Tail(session)
    BY <1>6 DEF AddNewChangeSet
  <2>2. ComingOf(Begun(worker), Append(blocks, block), Tail(session))
          = ComingOf(Begun(worker), blocks, session)
    BY <1>1, <2>1, ComingQueued
  <2>3. Numbered(ops, ops') /\ \A o \in DOMAIN ops : ops'[o] = ops[o]
    BY <1>1, <1>3
  <2> HIDE DEF block
  <2> QED
    BY <1>3, <2>1, <2>2, <2>3, ComingStays
<1> QED
  BY <1>4, <1>5, <1>6 DEF Framework

\* A step of the stack queue that leaves the arrays.
LEMMA WorkerComing ==
  ASSUME Typed, ComingInv, UNCHANGED <<ops, send, session>>, Unconfirmed' = Unconfirmed,
         Settled', Expecting',
         ComingOf(Begun(worker'), blocks', session) = ComingOf(Begun(worker), blocks, session)
  PROVE  ComingInv'
<1>1. Tagged(ops', Unconfirmed') = Tagged(ops, Unconfirmed)
  OBVIOUS
<1>2. Matched'
  BY <1>1 DEF ComingInv, Matched
<1>3. Sent'
  BY DEF ComingInv, Sent
<1> QED
  BY <1>2, <1>3 DEF ComingInv

LEMMA BlockComing ==
  ASSUME Typed, ComingInv, BeginBlock
  PROVE  ComingInv'
<1>1. /\ Begun(worker) \in Seq(Items) /\ blocks \in Seq(AnyBlocks)
      /\ session \in Seq(Seq(Items))
  BY ComingFacts
<1>2. /\ worker.pc = "idle" /\ blocks # << >> /\ blocks' = Tail(blocks)
      /\ UNCHANGED <<heap, main, session>>
      /\ worker' = [IdleWorker EXCEPT
                      !.pc = IF Head(blocks).kind = "new" THEN "item" ELSE "copy",
                      !.items = Head(blocks).items]
  BY DEF BeginBlock
<1> DEFINE items == IF Head(blocks).kind = "new" THEN Head(blocks).items ELSE << >>
<1>3. Begun(worker) = << >>
  BY <1>2 DEF ComingInv, Settled, Begun
<1>4. /\ worker'.pc = IF Head(blocks).kind = "new" THEN "item" ELSE "copy"
      /\ worker'.items = Head(blocks).items
  BY <1>2 DEF IdleWorker
<1>5. Begun(worker') = items
  BY <1>4 DEF Begun
<1>6. ComingOf(items, Tail(blocks), session) = ComingOf(<< >>, blocks, session)
  <2>1. \A more : more = items =>
          ComingOf(more, Tail(blocks), session) = ComingOf(<< >>, blocks, session)
    BY <1>1, <1>2, ComingBegins
  <2> QED
    BY <2>1
<1> HIDE DEF items
<1>7. Settled' /\ Expecting'
  BY <1>4 DEF Settled, Expecting, Handling, Adjusting
<1>8. Unconfirmed' = Unconfirmed /\ UNCHANGED <<ops, send, session>>
  BY <1>2 DEF heap, Unconfirmed
<1>9. ComingOf(Begun(worker'), blocks', session) = ComingOf(Begun(worker), blocks, session)
  BY <1>2, <1>3, <1>5, <1>6
<1> QED
  BY <1>7, <1>8, <1>9, WorkerComing

LEMMA ReturnComing ==
  ASSUME Typed, Orderly, ComingInv, CopyLocalStack \/ AssignLocalStack
  PROVE  ComingInv'
<1>0. worker \in Workers /\ main \in Mains
  BY ComingFacts DEF Typed, MainTyped
<1>1. CASE CopyLocalStack
  <2>1. worker.pc = "copy" /\ worker'.pc = "assign" /\ UNCHANGED <<heap, main, blocks, session>>
    BY <1>0, <1>1 DEF CopyLocalStack, Workers
  <2>2. Begun(worker') = Begun(worker) /\ Settled' /\ Expecting'
    BY <2>1 DEF Begun, Settled, Expecting, Handling, Adjusting
  <2>3. Unconfirmed' = Unconfirmed /\ UNCHANGED <<ops, send, blocks, session>>
    BY <2>1 DEF heap, Unconfirmed
  <2> QED
    BY <2>2, <2>3, WorkerComing
<1>2. CASE AssignLocalStack
  <2>1. /\ worker.pc = "assign" /\ worker' = IdleWorker
        /\ UNCHANGED <<ops, send, blocks, session>>
        /\ main' = IF main.same THEN [main EXCEPT !.same = FALSE, !.array = local] ELSE main
    BY <1>2 DEF AssignLocalStack
  <2>2. Begun(worker') = Begun(worker) /\ Settled' /\ Expecting'
    BY <2>1 DEF Begun, Settled, Expecting, Handling, Adjusting, IdleWorker
  <2>3. main.pc = "idle" /\ main'.pc = "idle"
    BY <1>0, <2>1 DEF Orderly, Mains
  <2>4. Unconfirmed' = Unconfirmed
    BY <2>1, <2>3 DEF Unconfirmed
  <2> QED
    BY <2>1, <2>2, <2>4, WorkerComing
<1> QED
  BY <1>1, <1>2

\* As long as no tick comes in between, the main thread has accepted nothing meanwhile.
LEMMA NoneAccepted ==
  ASSUME TestedInv, worker.pc # "idle"
  PROVE  Unconfirmed = send /\ main.pc # "accepted"
BY DEF TestedInv, TickSteps, Unconfirmed

LEMMA ItemComing ==
  ASSUME Typed, TestedInv, ComingInv, BeginItem
  PROVE  ComingInv'
<1>1. /\ Begun(worker) \in Seq(Items) /\ blocks \in Seq(AnyBlocks)
      /\ session \in Seq(Seq(Items)) /\ worker \in Workers
  BY ComingFacts
<1>2. worker.pc = "item" /\ UNCHANGED <<heap, main, blocks, session>>
  BY DEF BeginItem
<1>3. Begun(worker) = worker.items
  BY <1>2 DEF Begun
<1>4. Unconfirmed = send /\ Unconfirmed' = Unconfirmed /\ UNCHANGED <<ops, send, blocks, session>>
  BY <1>2, NoneAccepted DEF heap, Unconfirmed
<1>5. ASSUME Begun(worker') = Begun(worker), Settled', Expecting'
      PROVE  ComingInv'
  BY <1>4, <1>5, WorkerComing
<1>6. CASE worker.items = << >>
  <2>1. worker' = IdleWorker
    BY <1>6 DEF BeginItem
  <2> QED
    BY <1>3, <1>5, <1>6, <2>1 DEF Begun, Settled, Expecting, Handling, Adjusting, IdleWorker
<1>7. CASE worker.items # << >> /\ Head(worker.items).mine
  <2>1. send # << >>
    <3> SUFFICES ASSUME send = << >> PROVE FALSE
      OBVIOUS
    <3>1. Tagged(ops, Unconfirmed) = << >>
      BY <1>4 DEF Tagged
    <3>2. PICK c \in Seq(Tags) :
            ComingOf(worker.items, blocks, session) = <<TagOf[Head(worker.items)]>> \o c
      BY <1>1, <1>3, <1>7, ComingHandled
    <3>3. TagOf[Head(worker.items)] \in Tags
      <4>1. Head(worker.items) \in Items
        BY <1>1, <1>3, <1>7, OwnOfFirst
      <4> QED
        BY <4>1 DEF Items, TagOf, Tags
    <3>4. <<TagOf[Head(worker.items)]>> \o c # << >>
      BY <3>3
    <3> QED
      BY <1>3, <3>1, <3>2, <3>4 DEF ComingInv, Matched
  <2>2. worker' = [worker EXCEPT !.pc = "confirm", !.i = 0, !.mark = changes]
    BY <1>7, <2>1 DEF BeginItem
  <2>3. worker'.pc = "confirm" /\ worker'.i = 0 /\ worker'.items = worker.items
    BY <1>1, <2>2 DEF Workers
  <2>4. Begun(worker') = Begun(worker)
    BY <1>3, <2>3 DEF Begun
  <2>5. Settled' /\ Expecting'
    BY <1>4, <1>7, <2>1, <2>3 DEF Settled, Expecting, Handling, Adjusting
  <2> QED
    BY <1>5, <2>4, <2>5
<1>8. CASE worker.items # << >> /\ ~Head(worker.items).mine
  <2>1. worker' = [worker EXCEPT !.pc = "carrySend", !.i = 0, !.tested = FALSE,
                                 !.present = Range(send \o local),
                                 !.carried = << >>, !.adjusted = << >>]
    BY <1>8 DEF BeginItem
  <2>2. worker'.pc = "carrySend" /\ worker'.items = worker.items
    BY <1>1, <2>1 DEF Workers
  <2>3. Begun(worker') = Begun(worker)
    BY <1>3, <2>2 DEF Begun
  <2>4. Settled' /\ Expecting'
    BY <1>8, <2>2 DEF Settled, Expecting, Handling, Adjusting
  <2> QED
    BY <1>5, <2>3, <2>4
<1> QED
  BY <1>6, <1>7, <1>8

LEMMA LoopComing ==
  ASSUME Typed, TestedInv, ComingInv, EndItem \/ TestCount \/ ObjectAtIndex \/ Show
  PROVE  ComingInv'
<1>1. /\ Begun(worker) \in Seq(Items) /\ blocks \in Seq(AnyBlocks)
      /\ session \in Seq(Seq(Items)) /\ worker \in Workers
  BY ComingFacts
<1>2. UNCHANGED <<heap, main, blocks, session>>
  BY DEF EndItem, TestCount, ObjectAtIndex, Show
<1>3. Unconfirmed' = Unconfirmed /\ UNCHANGED <<ops, send, blocks, session>>
  BY <1>2 DEF heap, Unconfirmed
<1>4. ASSUME Settled', Expecting',
             ComingOf(Begun(worker'), blocks, session) = ComingOf(Begun(worker), blocks, session)
      PROVE  ComingInv'
  BY <1>3, <1>4, WorkerComing
<1>5. CASE EndItem
  <2>1. worker.pc = "end" /\ worker'.pc = "item" /\ worker'.items = Tail(worker.items)
    BY <1>1, <1>5 DEF EndItem, Workers
  <2>2. Begun(worker') = Begun(worker)
    BY <2>1 DEF Begun
  <2> QED
    BY <1>4, <2>1, <2>2 DEF Settled, Expecting, Handling, Adjusting
<1>6. CASE TestCount \/ ObjectAtIndex
  <2>1. worker.pc \in DOMAIN After
    BY <1>6 DEF TestCount, ObjectAtIndex
  <2>2. worker'.pc \in Handling /\ worker'.items = worker.items
    <3>1. CASE TestCount
      <4>1. \/ worker' = [worker EXCEPT !.tested = TRUE]
            \/ worker' = [worker EXCEPT !.pc = After[worker.pc], !.i = 0]
        BY <3>1 DEF TestCount
      <4>2. worker.pc \in Handling /\ After[worker.pc] \in Handling
        BY <2>1 DEF After, Handling, Adjusting
      <4>3. /\ worker'.pc = worker.pc \/ worker'.pc = After[worker.pc]
            /\ worker'.items = worker.items
        BY <1>1, <4>1 DEF Workers
      <4> QED
        BY <4>2, <4>3
    <3>2. CASE ObjectAtIndex
      <4> DEFINE o == StackOf(worker.pc)[worker.i + 1]
                 next == [worker EXCEPT !.i = @ + 1, !.tested = FALSE]
      <4>1. \/ worker' = [next EXCEPT !.carried = Append(@, o)]
            \/ worker' = [next EXCEPT !.adjusted = Append(@, o)]
            \/ worker' = worker
        BY <3>2 DEF ObjectAtIndex
      <4>2. next.pc = worker.pc /\ next.items = worker.items /\ DOMAIN next = DOMAIN worker
        BY <1>1 DEF Workers
      <4> HIDE DEF next, o
      <4>3. "pc" \in DOMAIN next /\ "items" \in DOMAIN next
        BY <1>1, <4>2 DEF Workers
      <4>4. worker'.pc = worker.pc /\ worker'.items = worker.items
        BY <4>1, <4>2, <4>3
      <4> QED
        BY <2>1, <4>4 DEF After, Handling, Adjusting
    <3> QED
      BY <1>6, <3>1, <3>2
  <2>3. Begun(worker') = worker.items /\ Begun(worker) = worker.items
    BY <2>1, <2>2 DEF Begun, After, Handling, Adjusting
  <2>4. ~Head(worker.items).mine
    BY <2>1 DEF ComingInv, Expecting, After, Handling, Adjusting
  <2> QED
    BY <1>4, <2>2, <2>3, <2>4 DEF Settled, Expecting, Handling, Adjusting
<1>7. CASE Show
  <2>1. worker.pc = "show" /\ worker'.pc = "end" /\ worker'.items = worker.items
    BY <1>1, <1>7 DEF Show, Workers
  <2>2. Begun(worker') = Tail(worker.items) /\ Begun(worker) = worker.items
    BY <2>1 DEF Begun
  <2>3. ~Head(worker.items).mine /\ worker.items # << >>
    BY <2>1 DEF ComingInv, Expecting, Handling, Adjusting, Typed, QueueTyped
  <2>4. ComingOf(Tail(worker.items), blocks, session) = ComingOf(worker.items, blocks, session)
    BY <1>1, <2>2, <2>3, ComingHandled
  <2> QED
    BY <1>4, <2>1, <2>2, <2>4 DEF Settled, Expecting, Handling, Adjusting
<1> QED
  BY <1>5, <1>6, <1>7

\* removeObject of the first, when it is there once.
LEMMA WithoutFirst ==
  ASSUME NEW S, NEW s \in Seq(S), s # << >>, Distinct(s)
  PROVE  Without(s, s[1]) = Tail(s)
<1> DEFINE n == Len(s)
           o == s[1]
<1>1. PICK f : Removes(f, S, s, o)
  BY WithoutRuns
<1>2. n \in Nat /\ n >= 1 /\ \A k \in 2..n : s[k] # o
  BY DEF Distinct
<1> DEFINE Good == {k \in 0..n : f[k] = SubSeq(s, 2, k)}
<1>3. 0 \in Good
  BY <1>1, <1>2 DEF Removes
<1>4. ASSUME NEW k \in 1..n, k - 1 \in Good
      PROVE  k \in Good
  <2>1. f[k - 1] = SubSeq(s, 2, k - 1)
    BY <1>4
  <2>2. CASE k = 1
    <3>1. f[1] = f[0] /\ f[0] = << >>
      BY <1>1, <1>2 DEF Removes
    <3>2. SubSeq(s, 2, 1) = << >>
      OBVIOUS
    <3>3. f[k] = SubSeq(s, 2, k)
      BY <2>2, <3>1, <3>2
    <3> QED
      BY <3>3
  <2>3. CASE k # 1
    <3>1. k \in 2..n /\ s[k] # o
      BY <1>2, <2>3
    <3>2. f[k] = Append(f[k - 1], s[k])
      BY <1>1, <3>1 DEF Removes
    <3>3. Append(SubSeq(s, 2, k - 1), s[k]) = SubSeq(s, 2, k)
      BY <3>1
    <3>4. f[k] = SubSeq(s, 2, k)
      BY <2>1, <3>2, <3>3
    <3> QED
      BY <3>4
  <2> QED
    BY <2>2, <2>3
<1>5. n \in Good
  <2> HIDE DEF Good, n
  <2> QED
    BY <1>2, <1>3, <1>4, HoldsAfter
<1>6. SubSeq(s, 2, n) = Tail(s)
  BY <1>2
<1> QED
  BY <1>1, <1>5, <1>6 DEF Removes

LEMMA ConfirmComing ==
  ASSUME Typed, TestedInv, Distinct(send), ComingInv, ConfirmOperation
  PROVE  ComingInv'
<1>1. /\ Begun(worker) \in Seq(Items) /\ blocks \in Seq(AnyBlocks)
      /\ session \in Seq(Seq(Items)) /\ worker \in Workers
      /\ ops \in Seq(OpType) /\ send \in Seq(DOMAIN ops)
      /\ \A k \in 1..Len(send) : send[k] \in DOMAIN ops
  BY ComingFacts
<1>2. worker.pc = "confirm" /\ UNCHANGED <<main, blocks, session>>
  BY DEF ConfirmOperation, Enumerated
<1>3. /\ Begun(worker) = worker.items /\ worker.items # << >>
      /\ send # << >> /\ worker.i = 0 /\ Head(worker.items).mine
      /\ worker.mark = changes
  BY <1>2 DEF Begun, Typed, QueueTyped, ComingInv, Expecting, TestedInv
<1>4. Unconfirmed = send /\ Unconfirmed' = send'
  BY <1>2, NoneAccepted DEF Unconfirmed
<1> DEFINE o == send[1]
           rest == ComingOf(Tail(worker.items), blocks, session)
           tag == TagOf[Head(worker.items)]
<1>5. o \in DOMAIN ops /\ ops[o].state = "SEND" /\ Len(send) \in Nat /\ 0 < Len(send)
  BY <1>1, <1>3 DEF ComingInv, Sent
<1>6. tag = [op |-> o, id |-> ops[o].operationID] /\ rest = Tagged(ops, Tail(send))
  <2>1. /\ ComingOf(worker.items, blocks, session) = <<tag>> \o rest
        /\ rest \in Seq(Tags)
    BY <1>1, <1>3, ComingHandled
  <2>2. /\ Tagged(ops, send) # << >> /\ Head(Tagged(ops, send)) = [op |-> o, id |-> ops[o].operationID]
        /\ Tail(Tagged(ops, send)) = Tagged(ops, Tail(send))
    BY <1>1, <1>3, IDsBegin
  <2>3. Tagged(ops, send) = <<tag>> \o rest
    BY <1>3, <1>4, <2>1 DEF ComingInv, Matched
  <2>4. tag \in Tags
    <3>1. Head(worker.items) \in Items
      BY <1>1, <1>3, OwnOfFirst
    <3> QED
      BY <3>1 DEF Items, TagOf, Tags
  <2> HIDE DEF tag, rest
  <2>5. Head(<<tag>> \o rest) = tag /\ Tail(<<tag>> \o rest) = rest
    BY <2>1, <2>4
  <2> QED
    BY <2>2, <2>3, <2>5
<1>7. /\ ops' = [ops EXCEPT ![o].state = "GLOBAL"]
      /\ send' = Without(send, o)
      /\ worker' = [worker EXCEPT !.pc = "end"]
  <2>1. ~(worker.i >= Len(send)) /\ send[worker.i + 1] = o
    BY <1>3, <1>5
  <2>2. ~(changes # worker.mark)
    BY <1>3
  <2>3. ~(ops[o].operationID # Head(worker.items).id \/ ops[o].state # "SEND")
    <3>1. TagOf[Head(worker.items)].id = Head(worker.items).id
      <4>1. Head(worker.items) \in Items
        BY <1>1, <1>3, OwnOfFirst
      <4> QED
        BY <4>1 DEF TagOf
    <3> QED
      BY <1>5, <1>6, <3>1
  <2> HIDE DEF o
  <2> QED
    BY <2>1, <2>2, <2>3, Zenon DEF ConfirmOperation, Enumerated
<1>8. send' = Tail(send)
  BY <1>1, <1>3, <1>7, WithoutFirst
<1>9. /\ Numbered(ops, ops') /\ \A p \in DOMAIN ops : p # o => ops'[p] = ops[p]
  <2>1. [ops[o] EXCEPT !.state = "GLOBAL"] \in OpType
        /\ [ops[o] EXCEPT !.state = "GLOBAL"].operationID = ops[o].operationID
    <3>1. ops[o] \in OpType
      BY <1>1, <1>5
    <3> QED
      BY <3>1 DEF OpType
  <2> DEFINE new == [ops[o] EXCEPT !.state = "GLOBAL"]
  <2>2. ops' = [ops EXCEPT ![o] = new]
    BY <1>7
  <2> HIDE DEF new, o
  <2>3. /\ ops' \in Seq(OpType) /\ DOMAIN ops' = DOMAIN ops
        /\ \A p \in DOMAIN ops : ops'[p] = IF p = o THEN new ELSE ops[p]
    BY <1>1, <1>5, <2>1, <2>2 DEF new
  <2> QED
    BY <1>1, <2>1, <2>3 DEF Numbered, new
<1>10. Begun(worker') = Tail(worker.items) /\ Settled' /\ Expecting'
  <2>1. worker'.pc = "end" /\ worker'.items = worker.items
    BY <1>1, <1>7 DEF Workers
  <2> QED
    BY <2>1 DEF Begun, Settled, Expecting, Handling, Adjusting
<1>11. Matched'
  <2>1. Tail(send) \in Seq(DOMAIN ops)
    BY <1>1, <1>3
  <2>2. Tagged(ops', Tail(send)) = Tagged(ops, Tail(send))
    BY <1>9, <2>1, IDsStay
  <2> QED
    BY <1>2, <1>4, <1>6, <1>8, <1>10, <2>2 DEF Matched
<1>12. Sent'
  <2>1. /\ Len(Tail(send)) = Len(send) - 1
        /\ \A k \in 1..Len(Tail(send)) : Tail(send)[k] = send[k + 1] /\ k + 1 \in 1..Len(send)
    BY <1>1, <1>3
  <2>2. \A k \in 1..Len(Tail(send)) : send[k + 1] # o
    BY <1>5, <2>1 DEF Distinct
  <2> HIDE DEF o
  <2>3. ASSUME NEW k \in 1..Len(Tail(send))
        PROVE  ops'[Tail(send)[k]].state = "SEND"
    <3>1. Tail(send)[k] = send[k + 1] /\ send[k + 1] \in DOMAIN ops /\ send[k + 1] # o
      BY <1>1, <2>1, <2>2
    <3>2. ops'[send[k + 1]] = ops[send[k + 1]]
      BY <1>9, <3>1
    <3>3. ops[send[k + 1]].state = "SEND"
      BY <2>1 DEF ComingInv, Sent
    <3> QED
      BY <3>1, <3>2, <3>3
  <2> QED
    BY <1>8, <2>3 DEF Sent
<1> QED
  BY <1>10, <1>11, <1>12 DEF ComingInv

LEMMA ComingPreserved ==
  ASSUME "timer" \notin Overlaps, Typed, TestedInv, KeptInv, ComingInv, [Next]_vars
  PROVE  ComingInv'
<1>1. Orderly /\ Distinct(send)
  BY WaitingDistinct DEF KeptInv
<1>2. CASE UNCHANGED vars
  BY <1>2 DEF vars, heap, ComingInv, Settled, Matched, Unconfirmed, Sent, Expecting
<1>3. CASE StackQueue
  BY <1>1, <1>3, BlockComing, ItemComing, LoopComing, ReturnComing, ConfirmComing
  DEF StackQueue
<1> QED
  BY <1>1, <1>2, <1>3, KeystrokeComing, TickComing, SessionComing DEF Next

\* As long as no tick of the timer comes into the middle of a block of the stack queue,
\* and nothing comes in while a refused change set returns, sendStack has exactly the
\* operations whose events are still to come, in that order (putChangeSetIntoSendStack,
\* addNewChangeSet, updateOperationFromSendToGlobal): a confirmation finds its operation,
\* first of all, whether or not broadcasts were refused and repeated before it, and
\* also when the decoding of events made the counter repeat an ID.
THEOREM ConfirmedUnlessTimer ==
  "timer" \notin Overlaps /\ ~({"refuse", "return"} \subseteq Overlaps) =>
    (Spec => []ConfirmationsCome)
<1> SUFFICES ASSUME "timer" \notin Overlaps, ~({"refuse", "return"} \subseteq Overlaps)
             PROVE  Spec => []ConfirmationsCome
  OBVIOUS
<1>1. Init => ComingInv
  <2> SUFFICES ASSUME Init PROVE ComingInv
    OBVIOUS
  <2>1. /\ worker.pc = "idle" /\ worker.items = << >> /\ blocks = << >> /\ session = << >>
        /\ Unconfirmed = << >> /\ send = << >>
    BY DEF Init, IdleWorker, IdleMain, Unconfirmed
  <2>2. Begun(worker) = << >>
    BY <2>1 DEF Begun
  <2>3. ComingOf(<< >>, << >>, << >>) = (<< >> \o << >>) \o << >>
    BY OwnOfNone, GatheredEmpty DEF ComingOf
  <2>4. (<< >> \o << >>) \o << >> = << >>
    OBVIOUS
  <2>5. Tagged(ops, << >>) = << >>
    BY DEF Tagged
  <2>6. Matched
    BY <2>1, <2>2, <2>3, <2>4, <2>5 DEF Matched
  <2> QED
    BY <2>1, <2>6 DEF ComingInv, Settled, Sent, Expecting, Handling, Adjusting
<1>2. Typed /\ TestedInv /\ KeptInv /\ ComingInv /\ [Next]_vars => ComingInv'
  BY ComingPreserved
<1>3. Typed /\ ComingInv => ConfirmationsCome
  <2> SUFFICES ASSUME Typed, ComingInv, main.pc # "accepted"
               PROVE  Coming = [k \in DOMAIN send |->
                           [op |-> send[k], id |-> ops[send[k]].operationID]]
    BY DEF ConfirmationsCome
  <2>1. Coming = ComingOf(Begun(worker), blocks, session)
    BY ComingIsLaid DEF ComingInv
  <2>2. ComingOf(Begun(worker), blocks, session) = Tagged(ops, send)
    BY DEF ComingInv, Matched, Unconfirmed
  <2> QED
    BY <2>1, <2>2 DEF Tagged
<1>4. Spec => []TestedInv
  BY AlwaysTested
<1>5. Spec => []KeptInv
  BY AlwaysKept
<1> QED
  BY AlwaysTyped, <1>1, <1>2, <1>3, <1>4, <1>5, PTL DEF Spec
=============================================================================
