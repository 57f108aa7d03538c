---------------------------- MODULE StackThreads ----------------------------
(***************************************************************************)
(* One device of SharedDoc, looked at more closely: what its three threads *)
(* may do to its arrays and to the counter of operation IDs between two    *)
(* messages of one another. No lock protects them.                         *)
(*   main    - a keystroke and a tick of the timer;                        *)
(*   net     - the thread of the Collabrify framework that decodes events; *)
(*   worker  - the serial queue "com.xxxDoc.stackQueue".                   *)
(* A step is one message to a shared array, or one load or store of a      *)
(* shared variable. localStack is a variable that points to an array: a    *)
(* tick and the return of a refused change set put another array there, a  *)
(* keystroke appends to the array it found there, and only the main thread *)
(* keeps an array across steps. sendStack is one array all the time.       *)
(***************************************************************************)
EXTENDS Integers, FiniteSets, Sequences, SequencesExt

CONSTANTS
  Overlaps,    \* which threads may be in the middle of something at once
  MaxKeys,     \* bound: keystrokes
  MaxForeign   \* bound: operations of other devices

\* "keys"   a keystroke while a block of the stack queue is under way
\* "timer"  a tick while a block of the stack queue is under way
\* "decode" the framework decodes an event during a keystroke
\* "refuse" broadcasts may be refused
\* "return" a keystroke or a tick, as far as these overlap with the stack queue, also
\*          while a refused change set returns to the local stack
\* The program allows all of them.
ASSUME OverlapsAssumption ==
  Overlaps \subseteq {"keys", "timer", "decode", "refuse", "return"}
ASSUME BoundsAssumption == MaxKeys \in Nat /\ MaxForeign \in Nat

VARIABLES
  ops,      \* the device's operations, in the order they were made
  local,    \* the array localStack points to, of indexes into ops
  send,     \* sendStack
  changes,  \* how often sendStack was changed
  global,   \* the device's own operations on globalStack
  nextID,   \* the counter of xxxDocOperation
  main,     \* the main thread: pc; id, the operation ID it loaded; same, whether
            \* the array it found is still localStack; array, its content if not
  net,      \* [done, id] of the framework's thread
  session,  \* events on their way back: sequences of [mine, id, op]; op says for the
            \* properties alone which of the device's own operations it was
  blocks,   \* work waiting in the stack queue
  worker,   \* the block under way
  foreign,  \* operations other devices have made
  alive     \* no exception was raised

heap == <<ops, local, send, changes, global>>
vars == <<heap, nextID, main, net, session, blocks, worker, foreign, alive>>

NoID == -1
IdleMain == [pc |-> "idle", id |-> NoID, same |-> FALSE, array |-> << >>]
IdleNet == [done |-> 0, id |-> NoID]
IdleWorker ==
  [pc |-> "idle", items |-> << >>, i |-> 0, tested |-> FALSE, mark |-> 0,
   copy |-> << >>, present |-> {}, carried |-> << >>, adjusted |-> << >>]

Init ==
  /\ ops = << >>
  /\ local = << >>
  /\ send = << >>
  /\ changes = 0
  /\ global = << >>
  /\ nextID = 0
  /\ main = IdleMain
  /\ net = IdleNet
  /\ session = << >>
  /\ blocks = << >>
  /\ worker = IdleWorker
  /\ foreign = 0
  /\ alive = TRUE

\* Steps of a keystroke and of a tick.
KeySteps == {"counted", "made", "receiver"}
TickSteps == {"found", "swapped", "accepted"}

\* The stack queue is between two blocks, or the run lets it meet the main
\* thread's handler.
WorkerAway(overlap) ==
  \/ worker.pc = "idle"
  \/ /\ overlap \in Overlaps
     /\ worker.pc \in {"copy", "assign"} => "return" \in Overlaps

\* ... and the other way round, when it wants to begin a block.
MainAway(block) ==
  /\ main.pc \in KeySteps => "keys" \in Overlaps
  /\ main.pc \in TickSteps => "timer" \in Overlaps
  /\ main.pc # "idle" /\ block.kind = "local" => "return" \in Overlaps

-----------------------------------------------------------------------------
(* A keystroke: textView:shouldChangeTextInRange:replacementText:.         *)

\* Mutant of LoadOperationID: nothing is loaded.
LoadNothing ==
  /\ alive /\ main.pc = "idle"
  /\ Len(ops) < MaxKeys
  /\ WorkerAway("keys")
  /\ "decode" \in Overlaps \/ net = IdleNet
  /\ main' = [main EXCEPT !.pc = "counted"]
  /\ UNCHANGED <<heap, nextID, net, session, blocks, worker, foreign, alive>>

\* nextID++ of getOperationID, loaded ...
LoadOperationID ==
  /\ alive /\ main.pc = "idle"
  /\ Len(ops) < MaxKeys
  /\ WorkerAway("keys")
  /\ "decode" \in Overlaps \/ net = IdleNet
  /\ main' = [main EXCEPT !.pc = "counted", !.id = nextID]
  /\ UNCHANGED <<heap, nextID, net, session, blocks, worker, foreign, alive>>

\* ... and stored: the operation is initialised.
StoreOperationID ==
  /\ alive /\ main.pc = "counted"
  /\ nextID' = main.id + 1
  /\ ops' = Append(ops, [operationID |-> main.id, state |-> "LOCAL"])
  /\ main' = [main EXCEPT !.pc = "made"]
  /\ UNCHANGED <<local, send, changes, global, net, session, blocks,
                 worker, foreign, alive>>

\* The receiver of addObject is evaluated: self.stackManager.localStack.
FindLocalStack ==
  /\ alive /\ main.pc = "made"
  /\ main' = [main EXCEPT !.pc = "receiver", !.same = TRUE]
  /\ UNCHANGED <<heap, nextID, net, session, blocks, worker, foreign, alive>>

AddToLocalStack ==
  /\ alive /\ main.pc = "receiver"
  /\ local' = IF main.same THEN Append(local, Len(ops)) ELSE local
  /\ main' = IdleMain
  /\ UNCHANGED <<ops, send, changes, global, nextID, net, session, blocks,
                 worker, foreign, alive>>

Keystroke == LoadOperationID \/ StoreOperationID \/ FindLocalStack \/ AddToLocalStack

-----------------------------------------------------------------------------
(* A tick: updateChangeSetToAllUser, with getLocalOperations.              *)

\* result = self.localStack
FindLocalOperations ==
  /\ alive /\ main.pc = "idle"
  /\ WorkerAway("timer")
  /\ main' = [main EXCEPT !.pc = "found", !.same = TRUE]
  /\ UNCHANGED <<heap, nextID, net, session, blocks, worker, foreign, alive>>

\* The array the main thread found, as it is now.
Found == IF main.same THEN local ELSE main.array

\* Mutant of SwapLocalStack: the array found is emptied instead of replaced.
ClearLocalStack ==
  /\ alive /\ main.pc = "found"
  /\ local' = << >>
  /\ main' = IF Found = << >> THEN IdleMain
             ELSE [main EXCEPT !.pc = "swapped", !.same = FALSE, !.array = << >>]
  /\ UNCHANGED <<ops, send, changes, global, nextID, net, session, blocks, worker,
                 foreign, alive>>

\* self.localStack = a new array; a tick that found nothing ends.
SwapLocalStack ==
  /\ alive /\ main.pc = "found"
  /\ local' = << >>
  /\ main' = IF Found = << >> THEN IdleMain
             ELSE [main EXCEPT !.pc = "swapped", !.same = FALSE, !.array = Found]
  /\ UNCHANGED <<ops, send, changes, global, nextID, net, session, blocks, worker,
                 foreign, alive>>

BroadcastChangeSet ==
  /\ alive /\ main.pc = "swapped"
  /\ LET taken == main.array
     IN  session' = Append(session,
           [i \in DOMAIN taken |->
              [mine |-> TRUE, id |-> ops[taken[i]].operationID, op |-> taken[i]]])
  /\ main' = [main EXCEPT !.pc = "accepted"]
  /\ UNCHANGED <<heap, nextID, net, blocks, worker, foreign, alive>>

\* The broadcast returned -1: addChangeSetToLocal.
AddChangeSetToLocal ==
  /\ alive /\ main.pc = "swapped"
  /\ "refuse" \in Overlaps
  /\ blocks' = Append(blocks, [kind |-> "local", items |-> main.array])
  /\ main' = IdleMain
  /\ UNCHANGED <<heap, nextID, net, session, worker, foreign, alive>>

\* The states are marked and sendStack takes the operations, in one message.
PutIntoSendStack ==
  /\ alive /\ main.pc = "accepted"
  /\ LET taken == main.array
     IN  /\ ops' = [o \in DOMAIN ops |->
              IF o \in Range(taken) THEN [ops[o] EXCEPT !.state = "SEND"] ELSE ops[o]]
         /\ send' = send \o taken
  /\ changes' = changes + 1
  /\ main' = IdleMain
  /\ UNCHANGED <<local, global, nextID, net, session, blocks, worker,
                 foreign, alive>>

Tick ==
  \/ FindLocalOperations \/ SwapLocalStack
  \/ BroadcastChangeSet \/ AddChangeSetToLocal \/ PutIntoSendStack

-----------------------------------------------------------------------------
(* The framework's thread: client:receivedEventWithOrderID:... and the     *)
(* decoder, which takes an operation ID for every operation it builds and  *)
(* then overwrites it with the one it decoded.                             *)

\* Another device's operation comes into the session.
ForeignEvent ==
  /\ foreign < MaxForeign
  /\ foreign' = foreign + 1
  /\ session' = Append(session, <<[mine |-> FALSE, id |-> 0, op |-> 0]>>)
  /\ UNCHANGED <<heap, nextID, main, net, blocks, worker, alive>>

LoadDecodedID ==
  /\ alive
  /\ session # << >> /\ net.id = NoID /\ net.done < Len(Head(session))
  /\ "decode" \in Overlaps \/ main.pc # "counted"
  /\ net' = [net EXCEPT !.id = nextID]
  /\ UNCHANGED <<heap, nextID, main, session, blocks, worker, foreign, alive>>

StoreDecodedID ==
  /\ alive
  /\ net.id # NoID
  /\ nextID' = net.id + 1
  /\ net' = [done |-> net.done + 1, id |-> NoID]
  /\ UNCHANGED <<heap, main, session, blocks, worker, foreign, alive>>

\* addNewChangeSet puts its block into the stack queue.
AddNewChangeSet ==
  /\ alive
  /\ session # << >> /\ net.id = NoID /\ net.done = Len(Head(session))
  /\ blocks' = Append(blocks, [kind |-> "new", items |-> Head(session)])
  /\ session' = Tail(session)
  /\ net' = IdleNet
  /\ UNCHANGED <<heap, nextID, main, worker, foreign, alive>>

Framework == LoadDecodedID \/ StoreDecodedID \/ AddNewChangeSet

-----------------------------------------------------------------------------
(* The stack queue.                                                        *)

\* The operation at the head of the block's loop, or the end of the block.
BeginItem ==
  /\ alive /\ worker.pc = "item"
  /\ worker' =
       IF worker.items = << >> THEN IdleWorker
       ELSE IF Head(worker.items).mine
         THEN [worker EXCEPT !.pc = IF send = << >> THEN "end" ELSE "confirm",
                             !.i = 0, !.mark = changes]
         ELSE [worker EXCEPT !.pc = "carrySend", !.i = 0, !.tested = FALSE,
                             !.present = Range(send \o local),
                             !.carried = << >>, !.adjusted = << >>]
  /\ UNCHANGED <<heap, nextID, main, net, session, blocks, foreign, alive>>

EndItem ==
  /\ alive /\ worker.pc = "end"
  /\ worker' = [worker EXCEPT !.pc = "item", !.items = Tail(@)]
  /\ UNCHANGED <<heap, nextID, main, net, session, blocks, foreign, alive>>

\* Mutant of BeginBlock: the queue is not serial.
BeginAnyBlock ==
  /\ alive /\ worker.pc = "idle"
  /\ \E k \in DOMAIN blocks :
       /\ MainAway(blocks[k])
       /\ worker' = [IdleWorker EXCEPT
                       !.pc = IF blocks[k].kind = "new" THEN "item" ELSE "copy",
                       !.items = blocks[k].items]
       /\ blocks' = RemoveAt(blocks, k)
  /\ UNCHANGED <<heap, nextID, main, net, session, foreign, alive>>

\* The queue is serial: the oldest block begins.
BeginBlock ==
  /\ alive /\ worker.pc = "idle"
  /\ blocks # << >>
  /\ MainAway(Head(blocks))
  /\ worker' = [IdleWorker EXCEPT
                  !.pc = IF Head(blocks).kind = "new" THEN "item" ELSE "copy",
                  !.items = Head(blocks).items]
  /\ blocks' = Tail(blocks)
  /\ UNCHANGED <<heap, nextID, main, net, session, foreign, alive>>

\* addChangeSetToLocal's block: a copy of the refused operations and of
\* localStack ...
CopyLocalStack ==
  /\ alive /\ worker.pc = "copy"
  /\ worker' = [worker EXCEPT !.pc = "assign", !.copy = worker.items \o local]
  /\ UNCHANGED <<heap, nextID, main, net, session, blocks, foreign, alive>>

\* ... becomes the localStack.
AssignLocalStack ==
  /\ alive /\ worker.pc = "assign"
  /\ local' = worker.copy
  /\ main' = IF main.same THEN [main EXCEPT !.same = FALSE, !.array = local] ELSE main
  /\ worker' = IdleWorker
  /\ UNCHANGED <<ops, send, changes, global, nextID, net, session, blocks,
                 foreign, alive>>

\* removeObject: every occurrence goes.
Without(stack, o) ==
  LET kept[k \in 0..Len(stack)] ==
        IF k = 0 THEN << >>
        ELSE IF stack[k] = o THEN kept[k - 1] ELSE Append(kept[k - 1], stack[k])
  IN  kept[Len(stack)]

\* Mutant of Enumerated: the enumeration goes backwards.
EnumeratedBackwards == send[Len(send) - worker.i]

\* The operation of this turn of the enumeration of sendStack.
Enumerated == send[worker.i + 1]

\* updateOperationFromSendToGlobal: one turn of the enumeration, which raises an
\* exception when it finds the array changed since it began. Not found: nothing.
ConfirmOperation ==
  /\ alive /\ worker.pc = "confirm"
  /\ \/ /\ worker.i >= Len(send)
        /\ worker' = [worker EXCEPT !.pc = "end"]
        /\ UNCHANGED <<heap, alive>>
     \/ /\ worker.i < Len(send)
        /\ changes # worker.mark
        /\ alive' = FALSE
        /\ UNCHANGED <<heap, worker>>
     \/ /\ worker.i < Len(send)
        /\ changes = worker.mark
        /\ LET o == Enumerated
           IN  \/ /\ ops[o].operationID = Head(worker.items).id /\ ops[o].state = "SEND"
                  /\ ops' = [ops EXCEPT ![o].state = "GLOBAL"]
                  /\ global' = Append(global, o)
                  /\ send' = Without(send, o)
                  /\ changes' = changes + 1
                  /\ worker' = [worker EXCEPT !.pc = "end"]
                  /\ UNCHANGED local
               \/ /\ ops[o].operationID # Head(worker.items).id \/ ops[o].state # "SEND"
                  /\ worker' = [worker EXCEPT !.i = @ + 1]
                  /\ UNCHANGED heap
        /\ UNCHANGED alive
  /\ UNCHANGED <<nextID, main, net, session, blocks, foreign>>

\* addNewGlobalOperation carries the new operation past the send and the local
\* stack, then updateLocalStackAndSendStackWithOperation adjusts both.
After == [carrySend |-> "carryLocal", carryLocal |-> "adjustSend",
          adjustSend |-> "adjustLocal", adjustLocal |-> "show"]

\* Mutant of StackOf: both adjusting loops go over the local stack.
StackOfWrongLoop(pass) == IF pass = "carrySend" THEN send ELSE local

StackOf(pass) == IF pass \in {"carrySend", "adjustSend"} THEN send ELSE local

\* Mutant of TestCount: one turn too many.
TestCountTooFar ==
  /\ alive /\ worker.pc \in DOMAIN After /\ ~worker.tested
  /\ worker' = IF worker.i <= Len(StackOf(worker.pc))
                 THEN [worker EXCEPT !.tested = TRUE]
                 ELSE [worker EXCEPT !.pc = After[@], !.i = 0]
  /\ UNCHANGED <<heap, nextID, main, net, session, blocks, foreign, alive>>

\* i < self.localStack.count, or the end of a loop.
TestCount ==
  /\ alive /\ worker.pc \in DOMAIN After /\ ~worker.tested
  /\ worker' = IF worker.i < Len(StackOf(worker.pc))
                 THEN [worker EXCEPT !.tested = TRUE]
                 ELSE [worker EXCEPT !.pc = After[@], !.i = 0]
  /\ UNCHANGED <<heap, nextID, main, net, session, blocks, foreign, alive>>

\* [self.localStack objectAtIndex:i] and what is done with the operation: the
\* stack is looked up once more.
ObjectAtIndex ==
  /\ alive /\ worker.pc \in DOMAIN After /\ worker.tested
  /\ LET stack == StackOf(worker.pc)
     IN  \/ /\ worker.i < Len(stack)
            /\ LET o == stack[worker.i + 1]
                   next == [worker EXCEPT !.i = @ + 1, !.tested = FALSE]
               IN  worker' = IF worker.pc \in {"carrySend", "carryLocal"}
                               THEN [next EXCEPT !.carried = Append(@, o)]
                               ELSE [next EXCEPT !.adjusted = Append(@, o)]
            /\ UNCHANGED alive
         \/ /\ worker.i >= Len(stack)
            /\ alive' = FALSE
            /\ UNCHANGED worker
  /\ UNCHANGED <<heap, nextID, main, net, session, blocks, foreign>>

\* updateInputViewForOperation posts to the main queue; SharedDoc has the rest.
Show ==
  /\ alive /\ worker.pc = "show"
  /\ worker' = [worker EXCEPT !.pc = "end"]
  /\ UNCHANGED <<heap, nextID, main, net, session, blocks, foreign, alive>>

StackQueue ==
  \/ BeginBlock \/ BeginItem \/ EndItem
  \/ CopyLocalStack \/ AssignLocalStack
  \/ ConfirmOperation
  \/ TestCount \/ ObjectAtIndex \/ Show

-----------------------------------------------------------------------------
Next == Keystroke \/ Tick \/ ForeignEvent \/ Framework \/ StackQueue

Spec == Init /\ [][Next]_vars

-----------------------------------------------------------------------------
(* Types.                                                                  *)

Items == [mine : BOOLEAN, id : Nat, op : Nat]

Indexes == DOMAIN ops

WorkerTyped ==
  /\ worker.pc \in {"idle", "item", "end", "copy", "assign", "confirm", "show"}
                     \cup DOMAIN After
  /\ worker.i \in Nat /\ worker.tested \in BOOLEAN /\ worker.mark \in Nat
  /\ worker.copy \in Seq(Indexes)
  /\ worker.pc \in {"copy", "assign"} => worker.items \in Seq(Indexes)
  /\ worker.pc \notin {"idle", "copy", "assign"} => worker.items \in Seq(Items)
  /\ worker.pc \notin {"idle", "item", "copy", "assign"} => worker.items # << >>

TypeOK ==
  /\ ops \in Seq([operationID : Nat, state : {"LOCAL", "SEND", "GLOBAL"}])
  /\ local \in Seq(Indexes)
  /\ send \in Seq(Indexes)
  /\ changes \in Nat
  /\ global \in Seq(Indexes)
  /\ nextID \in Nat
  /\ main \in [pc : {"idle"} \cup KeySteps \cup TickSteps, id : Nat \cup {NoID},
               same : BOOLEAN, array : Seq(Indexes)]
  /\ main.pc = "counted" => main.id # NoID
  /\ main.pc \in {"made", "receiver"} => ops # << >>
  /\ net \in [done : Nat, id : Nat \cup {NoID}]
  /\ session \in Seq(Seq(Items))
  /\ \A k \in DOMAIN blocks :
       \/ blocks[k].kind = "new" /\ blocks[k].items \in Seq(Items)
       \/ blocks[k].kind = "local" /\ blocks[k].items \in Seq(Indexes)
  /\ WorkerTyped
  /\ foreign \in Nat
  /\ alive \in BOOLEAN

-----------------------------------------------------------------------------
(* Safety.                                                                 *)

\* No loop over a stack (addNewGlobalOperation, updateLocalStackAndSendStack...)
\* asks for an index behind the end, and no enumeration of sendStack
\* (updateOperationFromSendToGlobal) meets a change of another thread: neither
\* raises an exception.
NoException == alive

\* The range of a waiting operation "is not available. So we should update them"
\* (xxxDocStackManager.m:349): an operation that waited in the send or the local
\* stack when a foreign one came, and still waits, was adjusted once, and the
\* foreign one was carried past it once.
WaitingAdjustedOnce ==
  worker.pc = "show" =>
    \A o \in worker.present \cap Range(send \o local) :
      /\ Cardinality({k \in DOMAIN worker.carried : worker.carried[k] = o}) = 1
      /\ Cardinality({k \in DOMAIN worker.adjusted : worker.adjusted[k] = o}) = 1

\* The arrays an operation may be in: the local stack, the one in the hands of the
\* timer, those that wait to return to the local stack and the one that returns, the
\* send stack, and the global stack.
Shelves ==
  {"local", "timer", "return", "send", "global"} \X {0} \cup {"block"} \X DOMAIN blocks

Shelf(s) ==
  CASE s[1] = "local"  -> local
    [] s[1] = "timer"  -> IF main.pc \in TickSteps /\ ~main.same THEN main.array ELSE << >>
    [] s[1] = "block"  -> IF blocks[s[2]].kind = "local" THEN blocks[s[2]].items ELSE << >>
    [] s[1] = "return" -> IF worker.pc \in {"copy", "assign"} THEN worker.items ELSE << >>
    [] s[1] = "send"   -> send
    [] s[1] = "global" -> global

Places(o) ==
  UNION {{<<s, k>> : k \in {j \in DOMAIN Shelf(s) : Shelf(s)[j] = o}} : s \in Shelves}

\* The operation a keystroke has made and not yet put into the local stack.
Pending == IF main.pc \in {"made", "receiver"} THEN {Len(ops)} ELSE {}

\* A keystroke is "put [...] into operation array" (xxxDocViewController.m:343), and
\* from then on it is in one place: no swap or copy of localStack drops it or keeps
\* it twice.
KeptOnce == \A o \in Indexes \ Pending : Cardinality(Places(o)) = 1

\* getLocalOperations should "atomic create new stack" (xxxDocStackManager.m:99): the
\* array it is about to return is the one it is about to replace.
AtomicSwap == main.pc = "found" => main.same

\* operationID is "The local unique identifier of operation." (xxxDocOperation.h:32)
LocallyUnique ==
  \A o, p \in DOMAIN ops : o # p => ops[o].operationID # ops[p].operationID

\* The device's own operations among items, each with the ID its event has.
OwnAmong(items) ==
  FlattenSeq([k \in DOMAIN items |->
                IF items[k].mine THEN <<[op |-> items[k].op, id |-> items[k].id]>> ELSE << >>])

\* The own operations whose events are still to come, or not yet worked through.
Coming ==
  LET begun == CASE worker.pc \in {"copy", "assign"} -> << >>
                 [] worker.pc = "end" -> Tail(worker.items)
                 [] OTHER -> worker.items
      queued == [k \in DOMAIN blocks |->
                   IF blocks[k].kind = "new" THEN OwnAmong(blocks[k].items) ELSE << >>]
      underWay == [k \in DOMAIN session |-> OwnAmong(session[k])]
  IN  OwnAmong(begun) \o FlattenSeq(queued) \o FlattenSeq(underWay)

\* sendStack has "The operations that wait for confirm" (xxxDocStackManager.h:21), in
\* the order in which their events come, refused and repeated broadcasts included: no
\* event is left without its operation and no operation waits for an event that never
\* comes. A confirmation is looked up by the operation ID alone, and IDs repeat when an
\* event is decoded during a keystroke (SameID.cfg): it must still move the operation
\* the event was made of, and not another one with the same ID.
ConfirmationsCome ==
  main.pc # "accepted" =>
    Coming = [k \in DOMAIN send |-> [op |-> send[k], id |-> ops[send[k]].operationID]]

\* If no broadcast is refused, own operations reach the global stack in the order in
\* which they were typed.
ConfirmedInOrder ==
  \A k, m \in DOMAIN global : k < m => global[k] < global[m]
=============================================================================
