# A verification model of xxxDoc

xxxDoc (`src/xxxDoc/xxxDoc`) is an iOS editor for a document that several devices
edit at the same time. Every device applies its user's keystrokes at once, sends
them about once a second to a session of the Collabrify service, and replays what
the session delivers to all devices in one order, after moving each foreign edit
to where it belongs in the local text. There is no server-side transformation:
whether the texts agree is decided by the index arithmetic of
`xxxDocStackManager.m` and by the order in which three threads touch its stacks.
What the devices exchange is encoded by Google Protocol Buffers, which is vendored in
the repository; the parts of it that the app runs are modelled too.

## The system

| component | state | operations | how it interacts |
|---|---|---|---|
| `xxxDocOperation` | range, the two strings, state, operationID, globalID, referID, participantID; the static `nextID` | init, copy | made by the view controller and by the decoder, moved between stacks |
| `xxxDocStackManager` | `globalStack`, `sendStack`, `localStack`, `undoStack`, `redoStack`; the global variable `queue` | get local/undo/redo operations, put a refused change set back, `addNewChangeSet` and what it calls, the two `updateIndex` | singleton used by the main thread and the Collabrify thread; its own serial queue; posts to the main queue |
| `xxxDocViewController` | the text view (text, selection), the timer | keystroke, undo, redo, timer tick, create, join | main thread; calls the stack manager and the worker |
| `xxxDocCollabrifyWorker` | the client, sessionID, participantID | create, join, broadcast, receive an event | callbacks on a thread of the framework |
| `xxxDocChangeSet` | operationArray, two unread integers | | one broadcast, one event |
| `xxxDocBufferWorker` | none | `getDataFromChangeSet`, `getChangeSetFromNSData` | called by the worker: one broadcast, one event |
| generated classes (`changeSet.pb.*`) and the streams they use (`coded_stream`, `wire_format*`, `message_lite`) | the fields of a message; position, limit and depth of a parse | sizes, serialization, parsing, merging | called by the buffer worker |
| `once.*`, generated pool and factory (`message.cc`, `descriptor.cc`) | once objects, a lock, the map of prototypes | `GoogleOnceInit`, `GetPrototype`, `descriptor` | any thread that touches the descriptors |
| `repeated_field.*` | an array of objects, in use or cleared | the list operations, with objects given and taken | holds the operations of a change set's message |
| Collabrify service (external) | the ordered events of a session | | delivers every event to every member, in order |
| text view, cursor, login, delegate, main | none that matters | | |

What is hard, with the properties that make each part correct:

* *Three threads, one set of arrays.* The main thread (keyboard, buttons, timer,
  and the blocks that show foreign edits), the framework's thread, and the serial
  queue `com.xxxDoc.stackQueue`. A timer tick is a sequence of calls with no lock
  ("TODO: verify atomic here"). No operation may be lost, repeated, adjusted twice
  or stuck (`NothingLost`, `SendMatchesLog`, `OnlyUnconfirmedWait`; between the
  single accesses to the arrays `KeptOnce`, `WaitingAdjustedOnce`, `NoException`, and
  `ConfirmationsCome`, although the counter of IDs gives some out twice).
* *Refused broadcasts.* A broadcast may return -1; what was taken from a stack has
  to return to it, from a block that runs later (`NothingLost`,
  `LineKept`, `EveryEditArrives`, `AddedBack`).
* *Order.* All devices must apply the session's order
  (`ImplementsOrderedLog`, `GlobalFollowsLog`), although a device's own operations
  come from its send stack and foreign ones from the wire.
* *Carrying ranges.* A foreign edit is moved past what its author had not seen and
  past what this device has not yet had confirmed; the waiting edits are moved in
  turn (`TextIsReplay`, `GlobalStacksAgree`, `Converged`, `AccurateInOrder`).
* *Stale ranges.* A range computed on the stack queue is used later on the main
  thread (`ShownFits`, `InsertsSurvive`, `CaretKeepsItsPlace`).
* *Undo history.* Undo and redo count along the global stack
  (`UndoRedoHistory`), and do not see what is still on its way (`UndosDiffer`).
* *Data that is not what was sent.* Strings without an encoding, 64 bit numbers in
  ints, defaults, the "test bc" event of a join, any bytes at all
  (`ArrivesAsSent`, `Decoded`, `RoundTrip`, `ParseIsMerge`, `CutIsPrefix`,
  `LimitsNest`, `DepthBounded`, `MakesProgress`).
* *First use by several threads.* Initialisers that call each other, on processors
  that reorder memory, one of them under a lock (`InvokedOnce`,
  `ReturnsInitialized`, `RegisteredOnce`, `AllOrNone`, `AnswersInitialized`,
  `PrototypesReturn`).
* *Objects that are used again.* (`OwnedOnce`, `ClearedAreClear`, `GrowsWhenFull`,
  `ImplementsLists`).
* *Arithmetic.* ints, unsigned lengths and differences (`TypeOK` of `SharedDoc`).

`PROJECT.json` lists every hazard with its line.

## Modules

| module | what it is |
|---|---|
| `Operation` | an edit as a record; `Carried` with `UpdateIndex` and `UpdateIndexV2`; a range moved by its two ends |
| `StackManager` | what the stack manager computes from one device's stacks: `UpdateOperationThroughGlobalStack`, `RangeOnGlobal` (first loop of `addNewGlobalOperation`), `RangeOnScreen` (second and third), `UpdateStackWithOperation`, the scans of undo and redo, the inverse operation. No state. Loops are recursive functions, so that they can be proved about |
| `SharedDoc` | the state machine: all devices and the session |
| `OrderedLog` | the abstract specification of `SharedDoc`: one order, every device applies it item by item |
| `StackThreads` | one device of `SharedDoc`, its handlers taken apart into the single messages to its arrays and the loads and stores of `nextID` |
| `Wire` | the encoding: sizes, varints, the serialization of the three messages, and `MergeFrom` |
| `MessageParser` | `ParseFromArray` of a change set, a step for a field: limits, groups, unknown fields, recursion budget |
| `BufferWorker` | extends the parser by the app's own part: device to bytes, bytes to device |
| `OnceInit` | `GoogleOnceInit` with its memory order, for initialisers that call each other |
| `MessageFactory` | extends it by `GetPrototype` of the generated factory, and by `descriptor()` |
| `RepeatedPtrField` | the array behind a repeated field, with ownership of its objects |
| `ElementLists` | the abstract specification of `RepeatedPtrField`: plain lists |
| `MC...` | instances for TLC |
| `StackManagerProofs` | proofs about the operators of `Operation` and `StackManager` |
| `SharedDocProofs` | types of `SharedDoc`, and that global stacks follow the log, with every freedom; the send stack and the refinement of `OrderedLog`, for devices that edit in the session |
| `EditProofs` | nothing is lost, operations keep their place in line; for insertions: they survive, the caret stays, what is shown fits |
| `ConvergenceProofs` | two users who insert, one insertion of each on its way at a time, see the same text; one user alone has an undo history |
| `StackThreadsProofs`, `MessageParserProofs`, `MessageFactoryProofs` (with `OnceInit`), `RepeatedPtrFieldProofs` | the proofs about the modules of these names |

Three groups compose: `SharedDoc` uses `StackManager`, which uses `Operation`;
`BufferWorker` extends `MessageParser`, which extends `Wire`; `MessageFactory` extends
`OnceInit`. `StackThreads` and `BufferWorker` look into what is one step of
`SharedDoc`: the first into the handlers of the timer and the stack queue, the second
into a broadcast and an event.

### SharedDoc

`SharedDoc` in terms of the code: `local`, `send`, `global`, `undo`, `redo` are the
stacks; `text` and `caret` the text view; `stackQ` the blocks waiting in the serial
queue (a block of `addNewChangeSet` is an entry for each of its operations, so that
the main thread may run between two of them), `uiQ` the blocks waiting in the main
queue, `queueMade` whether the global `queue` is still nil; `timer` and `batch` the
program counter and the local variable of `updateChangeSetToAllUser`; `log` and
`received` the session and what of it was handed to each device; `alive` becomes
FALSE where the code raises an exception or dereferences a nil queue.

| action | code |
|---|---|
| `Type`, `ShouldChangeText` | `textView:shouldChangeTextInRange:replacementText:` |
| `UndoAct`, `RedoAct` | `undoAct:` with `undoOperation:`, `redoAct:` with `redoOperation:` |
| `CreateSess`, `JoinSess` | the buttons, with the completion handlers of create and join |
| `GetLocalChangeSet` | start of a tick: `getLocalOperations` |
| `BroadcastLocal` / `RefuseLocal` | `broadcastChangeSet:`, and `addChangeSetToLocal:` when it returned -1 |
| `PutIntoSendStack` | marking the operations SEND and adding them to the send stack |
| `SendUndoAndRedo` | the rest of the tick: undo and redo operations, both results of the broadcast |
| `ReceivedEvent` | `client:receivedEventWithOrderID:...` |
| `AddNewOperation` | one turn of the loop of `addNewChangeSet`, with `updateOperationFromSendToGlobal` or `addNewGlobalOperation` |
| `AddBack` | the blocks of `addChangeSetToLocal` and `addChangeSetToUndoAndRedo` |
| `UpdateInputView` | the block of `updateInputViewForOperation` |

Characters are told apart by device, operation and place, so that a lost, doubled
or misplaced character is visible whatever its letter.

#### Freedoms

The program gives its users and threads more freedom than its algorithm can take.
The constant `Freedoms` names six of them; the program allows all. A run removes
some, to ask what holds under the rest:

* `early` edits before the device is in the session (its participant ID is -1);
* `fail` a broadcast in the session may be refused;
* `overlap` the main thread serves users and the timer while blocks wait in the
  stack queue or the main queue;
* `burst` a user edits while earlier edits of the same user are unconfirmed;
* `undo` undo and redo;
* `split` the other two threads run between the calls of a timer tick.

A restriction is an assumption on users and scheduling, never a change of the
code's own steps; what is false without it is shown by a run that expects a
violation or said below.

### StackThreads

The arrays hold indexes into `ops`, the operations in the order of typing; `changes`
counts the changes of `sendStack`, by which Objective-C's enumeration notices them.
`main`, `net` and `worker` are the program counters and local variables of the three
threads. `main.same` says whether the array the main thread holds is still
`localStack`: this is the difference between an append to an array and an assignment
of another one.

| action | code |
|---|---|
| `LoadOperationID`, `StoreOperationID`, `FindLocalStack`, `AddToLocalStack` | a keystroke: `nextID++` of the operation's init, then the receiver and the message of `[self.stackManager.localStack addObject:]` |
| `FindLocalOperations`, `SwapLocalStack` | `getLocalOperations` |
| `BroadcastChangeSet`, `AddChangeSetToLocal`, `PutIntoSendStack` | the rest of the tick |
| `LoadDecodedID`, `StoreDecodedID`, `AddNewChangeSet` | an event on the framework's thread |
| `BeginBlock`, `BeginItem`, `EndItem` | the serial queue and the loop of `addNewChangeSet` |
| `CopyLocalStack`, `AssignLocalStack` | the block of `addChangeSetToLocal` |
| `ConfirmOperation` | one turn of the enumeration in `updateOperationFromSendToGlobal` |
| `TestCount`, `ObjectAtIndex`, `Show` | the two carrying loops of `addNewGlobalOperation`, the two loops of `updateLocalStackAndSendStackWithOperation`, and the end |

The constant `Overlaps` says which threads may be in the middle of something at the
same time: `keys` and `timer` for the main thread against the stack queue, `return` for
either against the block of a refused change set, `decode` for the framework's thread
against a keystroke, and `refuse` for broadcasts that are refused. The program allows
all five.

### Wire, MessageParser, BufferWorker

A message is a function from the numbers of the fields that are set to their values.
`WriteFields` goes through the fields in the order of the generated code; sizes are
computed apart from the bytes, as in `ByteSize`. `frames` of the parser is the
recursion of `MergePartialFromCodedStream` and `SkipMessage`, with the limits that
`PopLimit` restores, and `depth` the counter `recursion_depth_` beside it, which is raised
on the way in and lowered on the way out, and is what the limit is compared with. The
size of a varint is computed by the comparisons of `VarintSize64`, with its constants; a
string is cut at its first byte 0 where the code goes through a C string. `ReadInt64`, `ReadState`, `ReadString`, `EnterMessage`, `EndMessage`,
`EnterGroup`, `EndGroup`, `BadTag` and the `Skip...` actions are what a step of the
generated parser does with the next tag. `GetDataFromChangeSet`, `JoinSession` (its
handler broadcasts "test bc") and `ReceivedData` (whatever else a session may carry)
start a parse with `ParseFromArray`; `Parse` is a step of it; `GetChangeSetFromNSData`
takes what was merged, without a look at the parser's result, as the code does.

### OnceInit, MessageFactory

`stack[t]` has the calls of `GoogleOnceInit` a thread is in, `knows[t]` the
initialisations whose writes it sees, `published[o]` those that reading the state of `o`
with an `Acquire_Load` gives. `AcquireLoad`, `AcquireCompareAndSwap`, `RunClosure`,
`EndClosure`, `ReleaseStore` and `Wait` are the lines of `GoogleOnceInitImpl`;
`GetPrototype`, `Look`, `AskPool`, `CheckPool`, `Lock`, `AssignDescriptors`, `AskFactory`,
`RegisterType`, `EndRegistration` and `Unlock` those of `GetPrototype` and of the
registration function it calls. The registration of the file itself, and the first
use of the pool, the factory and the shutdown list, happen in static initialisers
before there are threads (`StaticallyDone`).

### RepeatedPtrField

`elements[f]` is the array up to `allocated_size_`; the objects behind `current_size[f]`
are the cleared ones. `live` is the heap, `own` what the caller must delete or give away.
There is one action for each operation of the class that changes its state, in both
branches of `Add` and all four of `AddAllocated`. A repeated field merged into itself is
left out: the code forbids it for messages ("GOOGLE_CHECK_NE(&from, this)").

## Runs

| run | module, instance | question |
|---|---|---|
| `WholeTimer` | `SharedDoc`, 2 devices, all edits, all but `early` and `split`, 3 operations | `NothingLost`, `SendMatchesLog`, `GlobalFollowsLog`, `LineKept`, `TypeOK`, refinement of `OrderedLog` |
| `Lockstep` | 2 devices, insertions, `fail`, 4 operations | `TextIsReplay`, `GlobalStacksAgree`, `Converged` |
| `Bursts` | 2 devices, insertions, `overlap` and `burst`, 3 operations | `InsertsSurvive`, `ShownFits`, `CaretKeepsItsPlace` |
| `Arrive` | 2 devices, insertions, `fail`, `overlap`, `burst`, 2 operations, fairness | `EveryEditArrives` |
| `UndoHistory` | 1 device, one-character edits, `undo`, 7 operations | `UndoRedoHistory`: the scans of undo and redo against a history kept apart |
| `Keys` | `StackThreads`, `keys`, `refuse` and `decode`, 3 keystrokes, 2 foreign operations | `NoException`, `WaitingAdjustedOnce`, `KeptOnce`, `ConfirmationsCome`, `TypeOK` |
| `Codec` | `BufferWorker`, change sets of a device, "test bc", some ten thousand other arrays of bytes, fairness | the parser: `LimitsNest`, `DepthBounded`, `MakesProgress`, `RoundTrip`, `ParseIsMerge`, `CutIsPrefix`, `TypeOK`; the app: `ArrivesAsSent`, `Decoded` |
| `Prototypes` | `MessageFactory`, 2 threads, the 3 types and a foreign one, fairness | `InvokedOnce`, `ReturnsInitialized`, `RegisteredOnce`, `AllOrNone`, `AnswersInitialized`, `PrototypesReturn` |
| `Elements` | `RepeatedPtrField`, 2 fields, 3 objects | `OwnedOnce`, `ClearedAreClear`, `GrowsWhenFull`, `TypeOK`, refinement of `ElementLists` |
| `ThreeUsers` | `SharedDoc`, 3 devices, insertions, none, 4 operations | violated: `GlobalStacksAgree` |
| `TornTimer` | 2 devices, `split`, 1 operation | violated: `OnlyUnconfirmedWait` |
| `NilQueue` | 1 device, `early`, 2 operations | violated: `AddedBack` |

`tlc -config <run>.cfg MCSharedDoc` (or `MCStackThreads`, `MCBufferWorker`,
`MCMessageFactory`, `MCRepeatedPtrField`) repeats one.

### Bounds

`SharedDoc`: `MaxInputs` counts operations of all users together; it is the only bound,
since everything else (log, stacks, queues) is made from operations. Two
operations are the least for a conflict, three for an operation that meets two
others or for undo and redo of one, and four for two concurrent pairs in a
row, where the second pair refers to what came of the first. `UndoHistory` needs
seven: two keystrokes, undone, redone and a third. Edits longer than one character
are refused by the code; the model tries one of each kind (`CutTwo`, `PutTwo`) and
otherwise needs none. The runs do not check for deadlock: users may stop, and then
the system is quiet. Devices are symmetric, so the safety runs use symmetry.

`StackThreads`: with three keystrokes one operation can wait in the send stack, one in
the local stack and one be typed in the middle of a loop; two foreign operations give
an adjusted stack to be adjusted again. Events are decoded during keystrokes too, so that two of
the three own operations may get the same ID and wait in the send stack together: an
enumeration that goes backwards then confirms the wrong one, and is found by nothing else.

Codec: an int has 8 bits and an int64 22, so that a varint has one to four bytes and
three of the constants of `VarintSize64` are compared with. The numbers in the instance are
those at the boundaries (127 and 128, 16383 and 16384, the largest and the smallest of
each kind, negative ones).
`RecursionLimit` is 3, so that input nested to the limit and one deeper is short. The
other data are all arrays of up to three bytes over eleven bytes of every kind, all of
up to five over the six that nest, fixed-size fields of all lengths, a negative
length in a group, every prefix of every encoding, and every pair of encodings one
after the other.

Prototypes: two threads are what a race needs; the four once objects and their calls
are those of the program, not bounded. With three threads (`Threads <- ThreeThreads`) all
properties hold too, in four minutes. The theorems are about any number.

Elements: an array begins with `kMinRepeatedFieldAllocationSize` = 2 slots instead of 4,
so that three objects fill one, and the four branches of `AddAllocated` are all
reached. `MaxOwn` bounds what the caller holds, `MaxReserve` the argument of `Reserve`.

### Further instances

These configurations are kept beside the runs, as answers to questions about what the
runs leave out. Repeat one with `tlc -config <name>.cfg <module>`.

| configuration | module | shows |
|---|---|---|
| `Anything` | `MCSharedDoc` | `GlobalFollowsLog` holds under every freedom |
| `Accepted` | `MCStackThreads` | with all threads overlapping and no refusals, `KeptOnce` and `ConfirmedInOrder` hold |
| `NoReturns` | `MCStackThreads` | with refusals too, but no keystroke or tick during the return of a refused change set, `KeptOnce` holds |
| `Lazy` | `MCOnceInit` | three threads that initialise what nothing has initialised before: `InvokedOnce`, `ReturnsInitialized` |
| `Refused` | `MCSharedDoc` | `ChangeSetSorted` violated: two refusals in a row bring operations back in the wrong order |
| `Deletes` | `MCSharedDoc` | `AccurateInOrder` violated: the entry of a waiting deletion is widened over what another user inserts at its start, and the screen is not |
| `StaleView` | `MCSharedDoc` | `AccurateInOrder` violated: a keystroke between the block that places a foreign insertion and the block that shows it |
| `UndoTwice` | `MCSharedDoc` | `UndosDiffer` violated: the second press gets the same operation |
| `RedoAfterInput` | `MCSharedDoc` | `RedoClearedByInput` violated: a redo after a keystroke brings back what was undone before it |
| `LostKeystroke` | `MCStackThreads` | `KeptOnce` violated: a keystroke between copy and assignment of `addChangeSetToLocal` is lost |
| `TornSwap` | `MCStackThreads` | `AtomicSwap` violated: the array a tick took is not the one it replaces |
| `TornLoops` | `MCStackThreads` | `WaitingAdjustedOnce` violated: a tick moves an operation from one stack to the other between two loops |
| `SameID` | `MCStackThreads` | `LocallyUnique` violated: two threads load `nextID` before either stores it (`Keys` allows that too, and asks what comes of it) |
| `CutOff` | `MCBufferWorker` | `CutIsRejected` violated: see below |

What is known from experiments with other values of the constants:

* `Lockstep` holds with 3 operations of three devices, without refusals; with 4
  of three it does not (`ThreeUsers`), though each text is still what the device's own
  stacks say (`TextIsReplay`).
* With `overlap` and without `burst`, two insertions are enough for `Converged` and
  `TextIsReplay` to fail (`StaleView`); the global stacks agree all the same, with four
  operations and, by `TwoStacksAgree`, with any number. With `fail` and `overlap`
  together they do not: while a refused operation is on its way back its user may type
  the next one, as with `burst`.
* With two insertions of one user on their way (`burst`) and four operations the
  global ranges of two devices may differ and so may the texts: an operation is
  carried through a stack whose earlier entries already contain its author's
  other pending edits.
* Undo of two devices breaks `Converged` and `TextIsReplay`, if it is concurrent with
  typing: it travels as a deletion and is widened like one.
* A deletion breaks `Converged`, `GlobalStacksAgree` and `TextIsReplay` with three
  operations.
* With `fail`, `overlap` and `burst` an operation may be sent before an older one
  that was refused; its range then presupposes text the others do not have, and
  `ShownFits` fails (the replacement raises an exception). So it may for a redo after
  a keystroke, with six operations.
* With `split`, an operation stuck in the send stack is carried past for ever, and
  ranges shown later may lie outside the text.
* An operation made outside the session is taken for a foreign one by its own
  author and applied a second time.
* With `timer` among `Overlaps`, a loop may ask for an index that is gone
  (`NoException`).

This is why the content properties are checked under few freedoms, and delivery
under all or nearly all.

### Fairness

`Arrive` uses `FairSpec`. Strong fairness of `GetLocalChangeSet`: the timer repeats,
and a tick is postponed only by other work of the same run loop. `BroadcastLocal`
is strongly fair: a broadcast tried again and again is accepted some time; without
this a session that refuses for ever shows nothing. The rest of a tick is weakly
fair: it is straight-line code. `ReceivedEvent`, the stack queue and the main queue
are strongly fair, since in the model they wait for the other threads' handlers
to end (`Undisturbed`) and the code's queues are first in, first out. Users owe
nothing: they may stop at any time, create no session or never join.

`Codec` uses `BWFairSpec`: the parser's loop and the decoder are one thread's straight-line
code and go on. That the parse ends is the property, not the assumption: weak fairness
only says that steps are taken, `MakesProgress` and `Decoded` that they lead to an end.

`Prototypes` uses `MFFairSpec`: every thread that can take a step takes one. A thread that
waits at a once object can take none until the other thread is done, so that it gets on is
to be shown. The lock need not be fair: a type is missed only until the file is registered,
so only finitely many calls ever take the lock for writing.

## Findings

Three places where the code does not do what its comments say; each is a run that
expects the violation.

1. A global entry is "the accurate operation if happen at that order in global stack"
   (`xxxDocStackManager.m:257`). `updateOperation:ThroughGlobalStackFromIndex:` carries each
   operation its author had not seen to the end of the stack, while the range it is
   compared with has been carried only up to that operation. With three users four
   insertions are enough (`ThreeUsers`): a first insertion by a; a second one by a in
   front of it; one by b at the start, which had seen neither; one by d behind the
   first, which had seen only the first. The device of a places d's insertion at 2, d
   itself at 3, and the two texts differ for ever.
2. `sendStack` holds "The operations that wait for confirm"
   (`xxxDocStackManager.h:21`). If the session's echo is handled before line 310 of
   `xxxDocViewController.m`, the confirmation is lost, the operation is missing
   in its author's global stack and waits for ever (`TornTimer`).
3. `addChangeSetToLocal` is to "Add change set back if braod cast fail"
   (`xxxDocStackManager.m:139`). It dispatches on the global variable `queue`, which is nil
   until the first event is received: the app stops (`NilQueue`).

Further disagreements, each shown by one of the further instances:

* A change set is "sort by the modified time" (`xxxDocChangeSet.h:13`): `Refused`.
* What is shown is "the accurate operation taking send and local stack into account"
  (`xxxDocStackManager.m:260`): its range is computed by the stack queue and used by a
  later block of the main thread (:299). In `StaleView` b types in front of a foreign
  character that is placed and not yet shown: the device of b shows the foreign one
  first, the device of a the other, for ever, although both global stacks say the same.
* A range in the stack is "the accurate operation if happen at that order in global
  stack" also for a deletion: `Deletes`.
* "so we don't get the same operation to undo every time"
  (`xxxDocViewController.m:164`): `UndoTwice`. "Clear the stack once user have new input."
  (`xxxDocViewController.m:22`, of redo): `RedoAfterInput`.
* "put operation into operation array." (`xxxDocViewController.m:343`): `LostKeystroke`.
* "atomic create new stack." (`xxxDocStackManager.m:99`): `TornSwap`.
* "the range in local stack and send stack is not available. So we should update them."
  (`xxxDocStackManager.m:349`): `TornLoops`.
* "The local unique identifier of operation." (`xxxDocOperation.h:32`): `SameID`. The
  framework calls back on a thread of its own (`CollabrifyClient.h:50`).
* `ParseFromArray` "Returns false on a read error or if the input is in the wrong format"
  (`message_lite.h:115`): `CutOff`. An embedded length that is longer than the input is
  clipped to it (`PushLimit`), so that the two bytes 26 5, an operation of five bytes of
  which none is there, are accepted as an empty operation.

## Proofs

Each theorem holds for all values of the constants under the named assumptions of its
module: any set of devices, edits and freedoms, any number of operations, arrays of bytes
of any length, any widths, any number of threads, types and once objects.

### SharedDoc

`TypeCorrect`: every reachable state is well typed. The interesting part is the range
of an operation. Both ends of a range are carried by the same version of
`updateIndex`; each version is monotone in the index (`IndexOrderKept`) and never
negative (`IndexIsNat`), provided that an operation puts and cuts at most one
character and is well formed itself, so a range stays one
(`UpdatedRangeIsRange`), through each of the loops (`RangeOnGlobalIsRange`,
`RangeOnScreenIsRange`, `UpdatedStackIsStack`). The inductive invariant `TypeInv` adds to
`TypeOK` that what waits in a stack queue was handed over and that what was handed
over is in the log, without which reading the log at that place would mean
nothing.

`DeliveryCorrect`: every global stack is a subsequence of the log (`GlobalFollowsLog`),
with every freedom granted, torn timer handlers, refusals and confirmations that
find nothing included. What has to be shown is that a confirmation, which looks for
its operation on the send stack by operation ID and nothing else, cannot take another
operation. The inductive invariant `DeliveryInv` adds two parts to `TypeInv`:

* `OneAuthor`: all that a device holds (in its five stacks but the global one, in
  the change set the timer took, in blocks that wait in its stack queue) and all that
  the session has of it are told apart by operation ID alone, and every ID was given
  out by the device's counter. An operation made before the session carries no
  participant ID, and so is not the one a later operation's confirmation finds.
* `InOrder`: there is a placing of the global stack in the log that is increasing and
  lies below every place still waiting in the stack queue, and these wait sorted;
  serving the queue from its front then extends the placing. That something waits
  implies that the device is in the session (so `ParticipantID` is its own).

The proof has one lemma for each group of actions, which show what a step leaves of
identities (`GainsAtMost`) and of the order (`InOrderOf`), and two lemmas that turn this
into the invariant (`StepThatMoves`, `StepThatMakes`). It rests on the atomic steps of
`SharedDoc`; how far IDs are unique without them is the next group.

The groups below have hypotheses on `Freedoms`. Without "early" a device edits in
the session only, which is what the program is for; what an edit before the session may
do is shown by the violated run `NilQueue` (a change set that comes back has no queue to go
to), and `DeliveryCorrect` holds with the freedom.
Without "split" the timer's handler is not interrupted between the broadcast and the send
stack: `TornTimer` is the instance with it, in which a confirmation comes too early and is
taken for a foreign operation.

**The session** (`SharedDocProofs`; no "early", no "split"). `SessionInv` says of each device
how its stacks and the log belong together:

* `Signed`: what a device holds carries its participant ID and the state its place demands.
* `Carrying`: the handler has a change set in its hand from its first call to its last.
* `Prefix`: the global stack is the part of the log that was worked through, and what waits
  in the stack queue is the rest of what was handed over.
* `Matched`: what waits on the send stack (between the broadcast and its end, in the
  handler) corresponds one to one, in order, to the device's keystrokes in the log behind its
  global stack.

`ConfirmationIsFirst` follows: the confirmation that is served next is that of the first
operation on the send stack, so `updateOperationFromSendToGlobal` finds it. That is what
keeps `Prefix` and `Matched`, which need each other here. `SendStackCorrect`
(`SendMatchesLog`) is `Matched` in the words of the run. `OrderedLogImplemented`
(`ImplementsOrderedLog`) maps each step: a broadcast extends the order, a block of the stack
queue applies its next item on one device (`Applies`), all other steps stutter
(`StepIsOrdered`).

**What was typed** (`EditProofs`; no "early", but "split", refusals and bursts). `LedgerInv`
keeps the books: each operation a device has given an ID is in one place (`Dealt`: stacks, the
handler's change set, blocks that put it back), no place holds one twice (`Once`), and the
log holds each once (`LogOnce`). `LedgerCorrect` (`NothingLost`) is a count over it.

`LineStays` (`LineKept`; no hypotheses at all) is about the order of these places. Line up what
the session has of a device, what its timer has in hand, the blocks that put something
back, and the stacks. `LineKept` says of every step, for keystrokes, undos and redos each
among themselves: what was in front of another one stays in front of it, and what is new
comes last. Nothing but refusals can disturb this, and they do not, although what is refused
moves from the front of the line into a block and out of it into the stack again:
`addChangeSetToLocal` and `addChangeSetToUndoAndRedo` put it in front of what was typed since.
The one exception is named in the property: the timer takes the younger
operations while older ones are on their way back. `Refused` shows what comes of
that, a change set in the wrong order. For the proof the line is cut into rows, one for each
state of an operation (`RowOf`, `LineRowOf`: which operation IDs, and which is in front of
which). Rows are put one behind the other (`Behind`), which is associative, and
`WholeRow` is the row of session, timer, queue (`QueueRow`) and stacks (`WaitRow`). Each state
waits in one stack only, so an action adds to the end of a row or moves what is in it from
one part to the next. `LineByRows` says that a step that keeps the rows keeps the line.
The invariant `LineInv` is that of `DeliveryCorrect` and that each state is where it
belongs (`Lined`).

**Insertions** (`EditProofs`; no "early", users only insert). `InsertInv` adds to the ledger
that all ranges of insertions are empty, wherever they were carried (`OnlyInsertions`), and
what each text shows: its own characters, those of operations it has worked through, less
those that wait in the main queue (`Shown`). A text never has a character before its
operation is handed over, so what is put in is new, and the text stays injective:
`InsertionsSurvive` (`InsertsSurvive`). `CaretStays` (`CaretKeepsItsPlace`) needs in addition
that the caret lies in the text (`CaretInText`): `updateIndex` then carries it past exactly
those insertions that are made in front of it (`CaretCarried`, `PlaceKept`).

`InsertionsFit` (`ShownFits`; also no "fail" and no "split") says that the range
`updateInputView` shows next lies in the text, so no device ends with `NSRangeException`
because of what others type. Its invariant `FitInv` follows no range through the loops in
detail; it counts:

* `SortedInv`: while nothing is refused, what a device holds is in the order of typing and
  nothing comes back (`NoReturn`).
* An insertion lengthens the text by one, so the text and what waits to be shown are as
  long as the operations the device has made or knows of others (`TextCounted`).
* An operation that its device still holds lies at most as far as those it had
  placed when it was typed and those of others it has placed since (`Reaches`). When it is
  sent this bounds it by the operations in front of it in the log that its author had
  `Accounted` for (`LogFits`).
* On another device, `updateOperationByGlobalStack` carries it only past operations its
  author had not accounted for (`MoversUnaccounted`), each of which moves it by one at most
  (`GlobalGrows`, `ScreenGrows` in `StackManagerProofs`). So where it is shown it lies within
  the number of operations that device has placed (`RoomForAll`), which is the text's length.

The hypotheses are needed. TLC violates `ShownFits` for insertions as soon as a broadcast
may be refused: operations typed later are then sent first, with ranges that presuppose
text nobody else has. So it does with a torn handler, where the author's own confirmation is
taken for a foreign operation. In both cases it is another device that crashes.

**Two users** (`ConvergenceProofs`; at most two devices, users only insert, one insertion of
each on its way at a time: no "burst"). With no freedom but "fail" (`InTurns`) a user types
when the own device has nothing waiting; the other device may be anywhere in its work, so
that the two insert concurrently all the time, and a broadcast may be refused again and
again. Then `TwoUsersConverge` (`Converged`), `TwoTextsReplay` (`TextIsReplay`) and
`TwoUsersFit` (`ShownFits`) hold for any edits that insert and any number of them. With no
freedom but "overlap" keystrokes and ticks fall between the blocks: the texts may then part
(`StaleView`), the stacks do not. `TwoStacksAgree` (`GlobalStacksAgree`) holds in both cases
(`Calm`): what goes wrong in `StaleView` is what is shown, not what is kept.

* *One reckoning.* Where an operation comes in on a global stack can be told from the log
  alone. `Table(log, H, R)` does: operation k refers to the last one its author had worked
  through and is carried past each one behind that; `H[k][j]` is where it stands behind the
  first j, `R[k]` the text the first k operations make. `TableGrows` adds the row of the next
  operation. `PlacedOnGlobal` shows that the first loop of `addNewGlobalOperation` computes
  this row. It uses that there are two users: all that the operation is carried past is of
  one other author, and an author's own operations do not move each other (`ThroughOwn`),
  so each is passed at the range it has on the stack. With three users it is passed at a
  later range, which is what `ThreeUsers` violates.
* *Where a device stands.* `Standing(c, H, R)`: once all that waits is shown (`Becomes`), the
  text is `R[n]` for the n operations of the global stack (with "overlap", it has as many
  characters: `Shows`); besides it the device keeps no
  character, or one that is not in the session (`AtHome`: in the local stack, in the
  handler, or refused and queued to come back), or one that is, at the place the table has
  for it (`Underway`, `Travels`).
* *Two orders, one text.* A foreign operation meets the character that waits in the other
  order than the session has them. It is placed by the second version of `updateIndex`,
  which lets it land behind a character at the same place, and the character that waits is
  carried past it by the first, which lets it stay in front. `PastEachOther` says that this
  is the same text as the other order, ties included. `ForeignAgrees` and
  `ConfirmationAgrees` are the two steps in which the stack queue uses the table; the
  latter takes the character to its place in the session without touching the text.

`PairInvariant` puts these together with `SessionInv` and `InsertInv`. `InTurns` is met in
the run `Lockstep`, and each hypothesis is needed: see the experiments above for a third user,
for two insertions of one user on their way, for keystrokes between the blocks, for
undo and for deletions.

**One user, undo and redo** (`ConvergenceProofs`; one device, any edits, no freedoms but
"undo" and "fail"). `LoneUserRetraces` (`UndoRedoHistory`): `undoAct` and `redoAct` keep no
history. They scan the global stack from the top for the first operation at which the
user's edits and redos outnumber the undos (the undos outnumber the redos), counted from
there to the top, and broadcast its inverse. That this
is an undo history, for any number and order of keystrokes of any kind, undos and redos, is
what the theorem says. `History` is that history, recorded beside the program operation by
operation; a redo that nothing can be redone for, which the program answers with an old undo
(`RedoAfterInput`), ends what it can tell (`known`).

* *Rungs.* `Over(stack, c, S, T, i)` is what the scan compares at i: how many operations of
  the marks S there are from i to the top, less those of T. `Rungs` says that for
  each text of the past (the future) there is one operation in the stack that made the next
  text out of it, the jth of n being where the difference reaches n - j + 1 and above which it
  stays below that. So the scan stops at the top rung (`TopRung`). An operation of S
  adds a rung at the top (`RungAdded`), one of T takes the top one away (`RungTaken`), since
  every difference below falls by one. Keystrokes and redos are S, undos T for the past; undos
  S, redos T for the future: what moves a text from one to the other moves the rung.
* *Inverses.* `Makes(op, t, u)`: op fits t, cuts out of it what it says it does, and makes u.
  `InverseTakesBack`: then the inverse, which has the two strings swapped and the length of
  the new one, makes t of u, and is itself one that can be taken back. Strings may be of any length.
* *On the way.* Between the button and the global stack lie the local stacks, the handler,
  the session, and the stack and main queues. `Goes` says where the one operation may be and
  what it will make: a keystroke is shown at once and leads from the history's text to the one
  shown (`Typing`); an undo or redo is not shown until it comes back, and must still lead from the
  text shown (`Retracing`). It comes back as an operation of somebody else's would, is carried
  past the stack (`OwnStays`: an operation stays where it is among its author's own), and is shown.

`LoneInvariant` puts `Goes` and the rungs together with `SessionInv`. TLC checked it for six
inputs with refusals before it was proved. The hypothesis that each input waits for
the one before is needed: see `UndoTwice`.

### StackThreads

`ThreadTypes` (`TypeOK`) needs the parts of `Typed`, which also say what each program
counter promises about a thread's local variables. `NoExceptionUnlessTimer`: as long as no
tick comes into a block of the stack queue, no loop or enumeration raises an exception,
whatever is typed, decoded or refused meanwhile; `TestedInv` says that what the queue has
tested still holds when it relies on it, since everybody else only appends.

`KeptUnlessReturning` (`KeptOnce`): as long as no keystroke and no tick comes between the
copy and the assignment of `addChangeSetToLocal`, or no broadcast is refused, no operation
is lost or doubled, however the timer, the stack queue and the framework overlap otherwise.
`KeptInv` lays all arrays an operation may be in out as shelves (`Shelved`) and says that the
operations are dealt to them (`Dealt`): none is on two shelves, or twice on one. A step
lets two shelves exchange what they have (`DealtMoved`), puts a new operation onto one
(`DealtGrown`) or moves the shelves of the waiting blocks up (`DealtRenamed`). `Orderly` says
why the exchange is complete: the array the main thread holds is the local stack until it
is swapped, and the copy that is about to become the local stack still has all of it. That
`removeObject` takes out its operation and nothing else (`WithoutDistinct`) is shown along
the turns of its loop.

The last two theorems need both: no tick comes into a block of the stack queue, and nothing
comes into the return of a refused change set. `AdjustedUnlessTimer` (`WaitingAdjustedOnce`):
the four loops all run over the send stack and then the local stack, and while they run this
one array can only grow at its end. So what was carried, and later what was adjusted, is how
it starts (`Starts`), as far as the loop has come; `Progress` says how far for each program
counter, and when a loop has met the end of the local stack, everything that waited when the
foreign operation came is in. That each is in once is `KeptInv`: nothing waits twice.

`ConfirmedUnlessTimer` (`ConfirmationsCome`): `ComingInv` says that the own operations in what
the stack queue has begun, in its waiting blocks and in the session are, in this order, those
on the send stack and behind it those of a change set that was accepted and not yet put there
(`Matched`); that those on the send stack are in state "SEND"; and what the stack queue knows of
the item it handles (`Expecting`). They are compared by operation and ID together (`Tagged`,
`TagOf`), since IDs repeat when an event is decoded during a keystroke, and the loop looks at
nothing but the ID. The confirmation that comes next is then that of the first
operation on the send stack: its loop ends in the first turn, and `removeObject` takes out the
head and no more (`WithoutFirst`). A refused change set is not among what is coming, which is
why refusals and the order in which refused operations are sent again do not matter. What is
coming is laid out over three queues of arrays; the lemmas about `FlattenSeq`
(`FlattenAppend`, `FlattenTail`, `FlattenSingles`) and those named `Coming...` say what becomes
of it when an item goes from one queue to the next.

The hypotheses are needed: `TornLoops` and `LostKeystroke` are instances without
them, and `TornTimer` is one of `SharedDoc` in which a tick meets its own confirmation.

### MessageParser

One inductive invariant, `ParserInv`, for `LimitsAlwaysNest`, `AlwaysConsumesAll`,
`AlwaysDepthBounded` and `AlwaysProgress`: the limits of the frames are ordered from the
innermost to the end of the input, the position is not behind the innermost, no more
frames are open than the budget allows, and the depth counter is their number less one, so
that the test of the counter in `EnterMessage` and `EnterGroup` is one of the frames. The
steps are proved in four kinds: what reads, what enters a message or group, what leaves
one, and what ends the parse. Together the four say that on any bytes, however long, the parser terminates without reading outside the
array or deeper than its budget, and calls a parse successful only at the end of the input.

### OnceInit and MessageFactory

`OnceInvariant` proves `OnceInv`: to `TypeOK` it adds where the frames of a thread may stand
(`FrameInv`: a frame waits for the one above it, and objects only call later ones), that a
closure is started at most once and by whom (`RunsInv`, `OneWorks`), that a done object
publishes its own initialisation and all that its initialiser called (`PublishedInv`), and
that a thread inside a closure knows the calls the closure has finished (`KnowsInv`).
`AlwaysInvokedOnce` and `AlwaysReturnsInitialized` follow; the second needs `PublishedInv` for
whoever reads the done state, and `KnowsInv` for whoever writes it.

`FactoryInvariant` extends it to `GetPrototype`: `Exclusive` (who is between lock and unlock
holds the mutex), `RegisterInv` (how much is registered at each program counter) and
`DescriptorsInv` (what an unlock published includes the descriptors as soon as the file is
registered). From it, `AlwaysRegisteredOnce`, `AlwaysAllOrNone` and `AlwaysAnswersInitialized`.

### RepeatedPtrField

`FieldInvariant` proves `FieldInv`: `Shape` (types, and the three sizes in order), `OwnedOnce`
and `ClearedAreClear`. None of the three is inductive alone. If two places held the same
pointer, filling an element would fill a cleared one, and deleting a range would leave a
pointer in another array; if a cleared object had contents, `Add` would hand them out.
An operation on one field is reduced to what becomes of that field and the caller's objects
(`FieldChange`: `OnlyOf`, `SizesFit`, `SharesOut`, `Contents`), and under it lie lemmas about
the ways arrays change (`AppendOne`, `WithoutLast`, `Replaced`, `Joined`, `Exchanged`,
`WithoutGap`, `MovedLast`). The heap returns any new objects (`NewIsFresh`). From it follow
`FieldTypes`, `Ownership` and `ClearedReused`; `GrowthNeeded` (`GrowsWhenFull`) is a property of
steps under it.

`ListsImplemented` (`ImplementsLists`): repeated fields implement `ElementLists`. `ListOf` and
`OwnOf` are the lists behind the pointers. For each operation one lemma says what they become
(`AddShows`, `MergeIntoShows`, ...), which takes from `FieldInv` that no other list shows an
object that was written (`OthersShow`) and that an object taken out of reuse is empty; then
each is an action of `ElementLists` or, for `Reserve`, a stutter (`StepImplements`). Several
operations are the same action there: `Clear` and `Destroy` empty a list, `AddCleared` and
`CallerDelete` discard an element, `ReleaseLast` takes a range of one.

### Only model-checked

* Liveness under fairness is beyond the prover: `EveryEditArrives`, `Decoded`,
  `PrototypesReturn`.
* What a recursive function or a fold computes for every input takes induction over data,
  which the prover cannot instantiate: `RoundTrip`, `ParseIsMerge`, `CutIsPrefix`,
  `ArrivesAsSent`, and `TypeOK` of `MessageParser` (a decoded
  varint is a number by induction over its bytes). That the loops of the stack manager return
  ranges is proved by a least-element argument instead, and so are, for insertions, where
  they bring an operation, and what one more operation adds to a history (`HistoryGrows`).
* `UndoRedoHistory` is a theorem for one user. With a second one it is not meant: the
  history would tell of the other's edits.
* `Converged`, `GlobalStacksAgree` and `TextIsReplay` are theorems for two users who insert
  in turns (the second also out of turn), and are false beyond in each of the ways listed
  above. For which pairs of
  deletions and insertions they would still hold is open.
* `ShownFits` where users delete or undo is neither proved nor the question of a run: a redo
  may break it (see above), and the count of `FitInv` needs texts that only grow.

## Not modelled, and why

* The rest of Protocol Buffers, which is most of the lines in the repository: descriptors
  and their construction, reflection, text format, extension sets, dynamic messages,
  services, unknown field sets, zero-copy streams. The app parses and writes one
  `ChangeSet` on one array and calls none of it: a model of it would say nothing of xxxDoc,
  and there is no use in `src/` to take its inputs from. Unknown fields are skipped by the
  parser as they are in the code; that the library keeps their bytes is left out.
* `RepeatedField` (scalars): `changeSet.proto` has none. The build without thread safety of
  `once.h`: the app's build has it.
* The app never asks for a prototype or a descriptor itself. `MessageFactory` states what
  the library promises a program that does.
* The codec inside `SharedDoc`: there an event is the change set that was broadcast, which
  `ArrivesAsSent` justifies for strings that have an encoding, and the "test bc" event of
  a join is one without operations.
* The text views and index arithmetic inside `StackThreads`: its operations have no
  ranges. What is done with an operation an access finds is in `SharedDoc`.
* More than one session. `createSession` makes a new session and `joinSession` takes
  a fixed ID; devices in different sessions have nothing to do with each other. The
  model has one session, which its first member created. Leaving is not
  implemented in the program.
* Loss or duplication by the service: the framework hands over every event once and
  in order. A crash ends a device: nothing is saved, and a device that restarts is a
  new one.
* Selections: the text view forbids them, so only the caret is kept.
* Layout, log lines, base file, list of sessions, cursor class, login view,
  application delegate: no state of the document.
* The width of IDs and indexes in `SharedDoc`: they are unbounded there. `TypeOK` shows that
  nothing goes below zero, which is where unsigned arithmetic would bite first; the
  narrowing of 64 bit numbers is in `BufferWorker`.

## Plan

Done: the editor (`Operation`, `StackManager`, `SharedDoc`, `OrderedLog`), its threads
(`StackThreads`), the codec (`Wire`, `MessageParser`, `BufferWorker`), the library's lazy
initialisation and its lists, both refinements, and the theorems above. Left, in this order:

1. For which pairs of one-character edits the two orders give the same text (the diamond
   property, deletions included), as a characterisation over bounded ranges: for
   insertions it is `PastEachOther`, for deletions `Deletes` says that it cannot be all.
2. What is model-checked only for want of induction over data: `RoundTrip`, `ParseIsMerge` and
   the type invariant of `MessageParser`. Another prover could start from the invariants here.
3. More than two users, several insertions of one user on their way, deletions: the
   properties fail there, and what is needed is another program, not a proof.
