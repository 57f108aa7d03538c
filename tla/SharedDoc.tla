------------------------------ MODULE SharedDoc ------------------------------
(***************************************************************************)
(* The collaborative document: every device edits its own text view, keeps *)
(* its operations in stacks, broadcasts them once a second, and replays    *)
(* what the Collabrify service delivers to all devices in one order.       *)
(*                                                                         *)
(* On each device three threads meet in the stacks:                        *)
(*   main       - the keyboard (Type), the buttons (UndoAct, RedoAct), the *)
(*                timer (GetLocalChangeSet .. SendUndoAndRedo) and the     *)
(*                blocks of the main queue (UpdateInputView);              *)
(*   Collabrify - hands over events in order (ReceivedEvent);              *)
(*   stackQueue - the serial queue "com.xxxDoc.stackQueue"                 *)
(*                (AddNewOperation, AddBack).                              *)
(* The timer's handler gives the other two threads a turn at each of its   *)
(* calls; every other handler, and one operation of a block of the stack   *)
(* queue, is one step.                                                     *)
(***************************************************************************)
EXTENDS StackManager

CONSTANTS
  Clients,        \* the devices; a device is also its own participant ID
  NoParticipant,  \* participantID of a device outside a session (-1)
  Edits,          \* the edits a user may try: <<characters cut, characters put>>
  Freedoms,       \* what may go on at the same time, or wrong: see below
  MaxInputs       \* bound: how many operations the users make in all

ASSUME ParticipantAssumption == NoParticipant \notin Clients
ASSUME EditsAssumption == Edits \subseteq (Nat \X Nat)
ASSUME InputsAssumption == MaxInputs \in Nat

\* "early"   users type, undo and redo before they are in the session
\* "fail"    a broadcast in the session may return -1
\* "overlap" the main thread serves users and timer while blocks wait in the
\*           stack queue or the main queue
\* "burst"   a user makes another operation while earlier ones of the same user
\*           are still on their way to the session and back
\* "undo"    users press undo and redo
\* "split"   the other two threads run between the calls of the timer's handler
\* The program allows all six. A run takes some of them away to ask what holds
\* under the remaining ones.
ASSUME FreedomsAssumption ==
  Freedoms \subseteq {"early", "fail", "overlap", "burst", "undo", "split"}

VARIABLES
  member,    \* member[c]: c is in the session
  log,       \* the service's order: [op, order], the operations of one event
             \* side by side under its order ID
  received,  \* received[c]: how much of log was handed to c
  text,      \* text[c]: inputTextView.text
  caret,     \* caret[c]: inputTextView.selectedRange.location
  local,     \* local[c], send[c], global[c], undo[c], redo[c]: the stacks
  send,
  global,
  undo,
  redo,
  stackQ,    \* stackQ[c]: work waiting in the stack queue
  uiQ,       \* uiQ[c]: operations waiting to be shown by the main queue
  queueMade, \* queueMade[c]: the global "queue" of StackManager.m is not nil
  timer,     \* timer[c]: how far the timer's handler is
  batch,     \* batch[c]: localChangeSet of the timer's handler
  nextID,    \* nextID[c]: operation IDs c has given out
  alive      \* alive[c]: c has not crashed

stacks == <<local, send, global, undo, redo>>
threads == <<stackQ, uiQ, queueMade, timer, batch>>
vars == <<member, log, received, text, caret, stacks, threads, nextID, alive>>

TimerSteps == {"idle", "taken", "sent", "undoRedo"}

Init ==
  /\ member = [c \in Clients |-> FALSE]
  /\ log = << >>
  /\ received = [c \in Clients |-> 0]
  /\ text = [c \in Clients |-> << >>]
  /\ caret = [c \in Clients |-> 0]
  /\ local = [c \in Clients |-> << >>]
  /\ send = [c \in Clients |-> << >>]
  /\ global = [c \in Clients |-> << >>]
  /\ undo = [c \in Clients |-> << >>]
  /\ redo = [c \in Clients |-> << >>]
  /\ stackQ = [c \in Clients |-> << >>]
  /\ uiQ = [c \in Clients |-> << >>]
  /\ queueMade = [c \in Clients |-> FALSE]
  /\ timer = [c \in Clients |-> "idle"]
  /\ batch = [c \in Clients |-> << >>]
  /\ nextID = [c \in Clients |-> 0]
  /\ alive = [c \in Clients |-> TRUE]

-----------------------------------------------------------------------------
\* self.clientWorker.participantID
ParticipantID(c) == IF member[c] THEN c ELSE NoParticipant

\* Without "split" nothing else happens while a timer's handler is under way. Of
\* the same device that is what is taken away; other devices do not notice.
Undisturbed ==
  "split" \in Freedoms \/ \A d \in Clients : alive[d] => timer[d] = "idle"

\* The main thread of c is between two handlers.
MainFree(c) == alive[c] /\ timer[c] = "idle" /\ Undisturbed

\* ... and the run lets it turn to the user or to the timer.
AtTurn(c) ==
  /\ MainFree(c)
  /\ "overlap" \in Freedoms \/ (stackQ[c] = << >> /\ uiQ[c] = << >>)

\* Nothing the user of c did is waiting to be sent, on its way or unconfirmed.
NothingPending(c) ==
  /\ local[c] \o send[c] \o undo[c] \o redo[c] = << >>
  /\ \A k \in (received[c] + 1)..Len(log) : log[k].op.participantID # c

\* The user of c may make an operation. InputsLeft is the model's bound: each
\* operation takes one operation ID.
InputsLeft == FoldFunction(+, 0, nextID) < MaxInputs

MayInput(c) ==
  /\ AtTurn(c)
  /\ InputsLeft
  /\ "burst" \in Freedoms \/ NothingPending(c)

-----------------------------------------------------------------------------
(* The session, kept by the Collabrify service.                            *)

\* The event of a broadcast change set: its operations under the next order ID.
Event(ops) ==
  LET next == IF log = << >> THEN 1 ELSE log[Len(log)].order + 1
  IN  [i \in DOMAIN ops |-> [op |-> ops[i], order |-> next]]

CreateSess(c) ==
  /\ alive[c] /\ Undisturbed
  /\ \A d \in Clients : ~member[d]
  /\ member' = [member EXCEPT ![c] = TRUE]
  /\ UNCHANGED <<log, received, text, caret, stacks, threads, nextID, alive>>

\* The "test bc" event the completion handler broadcasts has no operations, so
\* no device does anything with it.
JoinSess(c) ==
  /\ alive[c] /\ Undisturbed
  /\ ~member[c]
  /\ \E d \in Clients : member[d]
  /\ member' = [member EXCEPT ![c] = TRUE]
  /\ UNCHANGED <<log, received, text, caret, stacks, threads, nextID, alive>>

-----------------------------------------------------------------------------
(* The user, on the main thread.                                           *)

NewOperation(c, range, cut, put) ==
  [participantID  |-> ParticipantID(c),
   operationID    |-> nextID[c],
   globalID       |-> 0,
   referID        |-> 0,
   state          |-> "LOCAL",
   range          |-> range,
   originalString |-> cut,
   replaceString  |-> put]

\* The glyphs of a keystroke are told apart by the device and the operation.
Typed(c, n) == [i \in 1..n |-> <<c, nextID[c], i>>]

\* Mutant of ShouldChangeText: the newest operation goes to the front.
ShouldChangeTextPutsFirst(c, range, put) ==
  /\ range.length <= 1
  /\ Len(put) <= 1
  /\ local' = [local EXCEPT ![c] =
                 <<NewOperation(c, range, Substring(text[c], range), put)>> \o @]
  /\ nextID' = [nextID EXCEPT ![c] = @ + 1]
  /\ text' = [text EXCEPT ![c] = Replace(@, range, put)]
  /\ caret' = [caret EXCEPT ![c] = range.location + Len(put)]
  /\ UNCHANGED <<member, log, received, send, global, undo, redo, threads, alive>>

\* textView:shouldChangeTextInRange:replacementText: and the change UIKit makes
\* when it answers YES, which leaves the caret behind what was typed.
ShouldChangeText(c, range, put) ==
  /\ range.length <= 1
  /\ Len(put) <= 1
  /\ local' = [local EXCEPT ![c] =
                 Append(@, NewOperation(c, range, Substring(text[c], range), put))]
  /\ nextID' = [nextID EXCEPT ![c] = @ + 1]
  /\ text' = [text EXCEPT ![c] = Replace(@, range, put)]
  /\ caret' = [caret EXCEPT ![c] = range.location + Len(put)]
  /\ UNCHANGED <<member, log, received, send, global, undo, redo, threads, alive>>

Type(c) ==
  /\ MayInput(c)
  /\ member[c] \/ "early" \in Freedoms
  /\ \E edit \in Edits, location \in 0..Len(text[c]) :
       LET range == [location |-> location, length |-> edit[1]]
       IN  /\ Within(range, text[c])
           /\ ShouldChangeText(c, range, Typed(c, edit[2]))

\* The inverse takes the operation's range as it stands in the global stack.
UndoAct(c) ==
  /\ MayInput(c)
  /\ "undo" \in Freedoms
  /\ LET target == UndoTarget(global[c], ParticipantID(c))
     IN  /\ target # 0
         /\ undo' = [undo EXCEPT ![c] =
              Append(@, InverseOf(global[c][target], ParticipantID(c), nextID[c], "UNDO"))]
  /\ nextID' = [nextID EXCEPT ![c] = @ + 1]
  /\ UNCHANGED <<member, log, received, text, caret, local, send, global, redo,
                 threads, alive>>

RedoAct(c) ==
  /\ MayInput(c)
  /\ "undo" \in Freedoms
  /\ LET target == RedoTarget(global[c], ParticipantID(c))
     IN  /\ target # 0
         /\ redo' = [redo EXCEPT ![c] =
              Append(@, InverseOf(global[c][target], ParticipantID(c), nextID[c], "REDO"))]
  /\ nextID' = [nextID EXCEPT ![c] = @ + 1]
  /\ UNCHANGED <<member, log, received, text, caret, local, send, global, undo,
                 threads, alive>>

-----------------------------------------------------------------------------
(* The timer's handler, updateChangeSetToAllUser, on the main thread: one  *)
(* step for each call it makes.                                            *)

Refer(c) == IF global[c] = << >> THEN NoRefer ELSE global[c][Len(global[c])].globalID

\* The handler starts. With every stack empty it would do nothing at all.
GetLocalChangeSet(c) ==
  /\ AtTurn(c)
  /\ local[c] \o undo[c] \o redo[c] # << >>
  /\ batch' = [batch EXCEPT ![c] =
                 [i \in DOMAIN local[c] |-> [local[c][i] EXCEPT !.referID = Refer(c)]]]
  /\ local' = [local EXCEPT ![c] = << >>]
  /\ timer' = [timer EXCEPT ![c] = IF local[c] = << >> THEN "undoRedo" ELSE "taken"]
  /\ UNCHANGED <<member, log, received, text, caret, send, global, undo, redo,
                 stackQ, uiQ, queueMade, nextID, alive>>

Refusable(c) == ~member[c] \/ "fail" \in Freedoms

BroadcastLocal(c) ==
  /\ alive[c] /\ timer[c] = "taken"
  /\ member[c]
  /\ log' = log \o Event(batch[c])
  /\ timer' = [timer EXCEPT ![c] = "sent"]
  /\ UNCHANGED <<member, received, text, caret, stacks, stackQ, uiQ, queueMade,
                 batch, nextID, alive>>

\* dispatch_async on the raw global queue, which is nil until the first event
\* made it.
DispatchBack(c, kind, ops) ==
  IF queueMade[c]
    THEN /\ stackQ' = [stackQ EXCEPT ![c] = Append(@, [kind |-> kind, at |-> 0, ops |-> ops])]
         /\ UNCHANGED alive
    ELSE /\ alive' = [alive EXCEPT ![c] = FALSE]
         /\ UNCHANGED stackQ

\* The broadcast returned -1: addChangeSetToLocal.
RefuseLocal(c) ==
  /\ alive[c] /\ timer[c] = "taken"
  /\ Refusable(c)
  /\ DispatchBack(c, "local", batch[c])
  /\ batch' = [batch EXCEPT ![c] = << >>]
  /\ timer' = [timer EXCEPT ![c] = "undoRedo"]
  /\ UNCHANGED <<member, log, received, text, caret, stacks, uiQ, queueMade, nextID>>

\* Mutant of PutIntoSendStack: in front of what waits there already.
PutInFrontOfSendStack(c) ==
  /\ alive[c] /\ timer[c] = "sent"
  /\ send' = [send EXCEPT ![c] =
       [i \in DOMAIN batch[c] |-> [batch[c][i] EXCEPT !.state = "SEND"]] \o @]
  /\ batch' = [batch EXCEPT ![c] = << >>]
  /\ timer' = [timer EXCEPT ![c] = "undoRedo"]
  /\ UNCHANGED <<member, log, received, text, caret, local, global, undo, redo,
                 stackQ, uiQ, queueMade, nextID, alive>>

\* Mutant of PutIntoSendStack: the state stays LOCAL.
PutUnmarkedIntoSendStack(c) ==
  /\ alive[c] /\ timer[c] = "sent"
  /\ send' = [send EXCEPT ![c] = @ \o batch[c]]
  /\ batch' = [batch EXCEPT ![c] = << >>]
  /\ timer' = [timer EXCEPT ![c] = "undoRedo"]
  /\ UNCHANGED <<member, log, received, text, caret, local, global, undo, redo,
                 stackQ, uiQ, queueMade, nextID, alive>>

\* The broadcast operations wait for their confirmation.
PutIntoSendStack(c) ==
  /\ alive[c] /\ timer[c] = "sent"
  /\ send' = [send EXCEPT ![c] =
       @ \o [i \in DOMAIN batch[c] |-> [batch[c][i] EXCEPT !.state = "SEND"]]]
  /\ batch' = [batch EXCEPT ![c] = << >>]
  /\ timer' = [timer EXCEPT ![c] = "undoRedo"]
  /\ UNCHANGED <<member, log, received, text, caret, local, global, undo, redo,
                 stackQ, uiQ, queueMade, nextID, alive>>

SendUndoAndRedo(c) ==
  /\ alive[c] /\ timer[c] = "undoRedo"
  /\ timer' = [timer EXCEPT ![c] = "idle"]
  /\ undo' = [undo EXCEPT ![c] = << >>]
  /\ redo' = [redo EXCEPT ![c] = << >>]
  /\ \/ /\ undo[c] \o redo[c] = << >>
        /\ UNCHANGED <<log, stackQ, alive>>
     \/ /\ undo[c] \o redo[c] # << >>
        /\ member[c]
        /\ log' = log \o Event(undo[c] \o redo[c])
        /\ UNCHANGED <<stackQ, alive>>
     \/ /\ undo[c] \o redo[c] # << >>
        /\ Refusable(c)
        /\ DispatchBack(c, "undoRedo", undo[c] \o redo[c])
        /\ UNCHANGED log
  /\ UNCHANGED <<member, received, text, caret, local, send, global, uiQ, queueMade,
                 batch, nextID>>

-----------------------------------------------------------------------------
(* The Collabrify thread.                                                  *)

\* client:receivedEventWithOrderID:...: the next event, whole, becomes one
\* block of the stack queue (here an entry for each of its operations), which
\* the first event creates. Decoding takes an operation ID for every operation
\* and overwrites it, which only leaves gaps in nextID.
ReceivedEvent(c) ==
  /\ alive[c] /\ member[c] /\ Undisturbed
  /\ \E last \in (received[c] + 1)..Len(log) :
       /\ \A k \in (received[c] + 1)..Len(log) :
            k <= last <=> log[k].order = log[received[c] + 1].order
       /\ stackQ' = [stackQ EXCEPT ![c] =
            @ \o [i \in 1..(last - received[c]) |->
                    [kind |-> "new", at |-> received[c] + i, ops |-> << >>]]]
       /\ received' = [received EXCEPT ![c] = last]
  /\ queueMade' = [queueMade EXCEPT ![c] = TRUE]
  /\ UNCHANGED <<member, log, text, caret, stacks, uiQ, timer, batch, nextID, alive>>

-----------------------------------------------------------------------------
(* The stack queue.                                                        *)

\* An operation as addNewChangeSet passes it on.
Delivered(entry) ==
  [entry.op EXCEPT !.state = IF @ \in {"LOCAL", "SEND"} THEN "GLOBAL" ELSE @,
                   !.globalID = entry.order]

\* Mutant of Mine: told by the operation ID alone.
MineByOperationID(c, op) ==
  /\ op.state = "GLOBAL"
  /\ \E i \in DOMAIN send[c] : send[c][i].operationID = op.operationID

\* Mutant of Mine: the state is not looked at.
MineInAnyState(c, op) == ParticipantID(c) = op.participantID

\* The device's own keystrokes, back from the session; its undos and redos are
\* placed like the operations of others.
Mine(c, op) == ParticipantID(c) = op.participantID /\ op.state = "GLOBAL"

\* updateOperationFromSendToGlobal: the operation on the send stack moves, with
\* the range it has there; one that is not found changes nothing.
UpdateOperationFromSendToGlobal(c, op) ==
  LET Awaits(waiting) == waiting.operationID = op.operationID /\ waiting.state = "SEND"
      i == SelectInSeq(send[c], Awaits)
  IN  /\ IF i = 0
           THEN UNCHANGED <<global, send>>
           ELSE /\ global' = [global EXCEPT ![c] =
                     Append(@, [send[c][i] EXCEPT !.globalID = op.globalID,
                                                  !.state = op.state])]
                /\ send' = [send EXCEPT ![c] = RemoveAt(@, i)]
      /\ UNCHANGED <<local, uiQ>>

AddNewGlobalOperation(c, op) ==
  LET placed == [op EXCEPT !.range = RangeOnGlobal(global[c], op)]
      shown  == [placed EXCEPT !.range =
                   RangeOnScreen(@, op.participantID, send[c] \o local[c])]
  IN  /\ global' = [global EXCEPT ![c] = Append(@, placed)]
      /\ send'   = [send EXCEPT ![c] = UpdateStackWithOperation(@, shown)]
      /\ local'  = [local EXCEPT ![c] = UpdateStackWithOperation(@, shown)]
      /\ uiQ'    = [uiQ EXCEPT ![c] = Append(@, shown)]

\* Mutant of AddNewOperation: the queue is not serial.
AddNewOperationInAnyOrder(c) ==
  /\ alive[c] /\ Undisturbed
  /\ \E i \in DOMAIN stackQ[c] :
       /\ stackQ[c][i].kind = "new"
       /\ LET op == Delivered(log[stackQ[c][i].at])
          IN  \/ Mine(c, op) /\ UpdateOperationFromSendToGlobal(c, op)
              \/ ~Mine(c, op) /\ AddNewGlobalOperation(c, op)
       /\ stackQ' = [stackQ EXCEPT ![c] = RemoveAt(@, i)]
  /\ UNCHANGED <<member, log, received, text, caret, undo, redo, queueMade, timer,
                 batch, nextID, alive>>

\* One operation of addNewChangeSet's block.
AddNewOperation(c) ==
  /\ alive[c] /\ Undisturbed
  /\ stackQ[c] # << >>
  /\ Head(stackQ[c]).kind = "new"
  /\ LET op == Delivered(log[Head(stackQ[c]).at])
     IN  \/ Mine(c, op) /\ UpdateOperationFromSendToGlobal(c, op)
         \/ ~Mine(c, op) /\ AddNewGlobalOperation(c, op)
  /\ stackQ' = [stackQ EXCEPT ![c] = Tail(@)]
  /\ UNCHANGED <<member, log, received, text, caret, undo, redo, queueMade, timer,
                 batch, nextID, alive>>

\* Mutant of AddBack: what has gathered since is overwritten.
AddBackOverwrites(c) ==
  /\ alive[c] /\ Undisturbed
  /\ stackQ[c] # << >>
  /\ LET block == Head(stackQ[c])
     IN  \/ /\ block.kind = "local"
            /\ local' = [local EXCEPT ![c] = block.ops]
            /\ UNCHANGED <<undo, redo>>
         \/ /\ block.kind = "undoRedo"
            /\ undo' = [undo EXCEPT ![c] = InState(block.ops, {"UNDO"})]
            /\ redo' = [redo EXCEPT ![c] = InState(block.ops, States \ {"UNDO"})]
            /\ UNCHANGED local
  /\ stackQ' = [stackQ EXCEPT ![c] = Tail(@)]
  /\ UNCHANGED <<member, log, received, text, caret, send, global, uiQ, queueMade,
                 timer, batch, nextID, alive>>

\* Mutant of AddBack: behind what has gathered since.
AddBackBehind(c) ==
  /\ alive[c] /\ Undisturbed
  /\ stackQ[c] # << >>
  /\ LET block == Head(stackQ[c])
     IN  \/ /\ block.kind = "local"
            /\ local' = [local EXCEPT ![c] = @ \o block.ops]
            /\ UNCHANGED <<undo, redo>>
         \/ /\ block.kind = "undoRedo"
            /\ undo' = [undo EXCEPT ![c] = @ \o InState(block.ops, {"UNDO"})]
            /\ redo' = [redo EXCEPT ![c] = @ \o InState(block.ops, States \ {"UNDO"})]
            /\ UNCHANGED local
  /\ stackQ' = [stackQ EXCEPT ![c] = Tail(@)]
  /\ UNCHANGED <<member, log, received, text, caret, send, global, uiQ, queueMade,
                 timer, batch, nextID, alive>>

\* The blocks of addChangeSetToLocal and addChangeSetToUndoAndRedo put what was
\* refused in front of what has gathered since.
AddBack(c) ==
  /\ alive[c] /\ Undisturbed
  /\ stackQ[c] # << >>
  /\ LET block == Head(stackQ[c])
     IN  \/ /\ block.kind = "local"
            /\ local' = [local EXCEPT ![c] = block.ops \o @]
            /\ UNCHANGED <<undo, redo>>
         \/ /\ block.kind = "undoRedo"
            /\ undo' = [undo EXCEPT ![c] = InState(block.ops, {"UNDO"}) \o @]
            /\ redo' = [redo EXCEPT ![c] = InState(block.ops, States \ {"UNDO"}) \o @]
            /\ UNCHANGED local
  /\ stackQ' = [stackQ EXCEPT ![c] = Tail(@)]
  /\ UNCHANGED <<member, log, received, text, caret, send, global, uiQ, queueMade,
                 timer, batch, nextID, alive>>

-----------------------------------------------------------------------------
(* The main queue.                                                         *)

\* updateInputViewForOperation's block: replace the text, then carry the caret
\* past the operation as an author nobody has.
UpdateInputView(c) ==
  /\ MainFree(c)
  /\ uiQ[c] # << >>
  /\ LET op == Head(uiQ[c])
     IN  IF Within(op.range, text[c])
           THEN /\ text' = [text EXCEPT ![c] = Replace(@, op.range, op.replaceString)]
                /\ caret' = [caret EXCEPT ![c] = UpdateIndex(@, op, NoParticipant)]
                /\ UNCHANGED alive
           ELSE /\ alive' = [alive EXCEPT ![c] = FALSE]
                /\ UNCHANGED <<text, caret>>
  /\ uiQ' = [uiQ EXCEPT ![c] = Tail(@)]
  /\ UNCHANGED <<member, log, received, stacks, stackQ, queueMade, timer, batch,
                 nextID>>

-----------------------------------------------------------------------------
User(c) == Type(c) \/ UndoAct(c) \/ RedoAct(c) \/ CreateSess(c) \/ JoinSess(c)

Timer(c) ==
  \/ GetLocalChangeSet(c)
  \/ BroadcastLocal(c)
  \/ RefuseLocal(c)
  \/ PutIntoSendStack(c)
  \/ SendUndoAndRedo(c)

StackQueue(c) == AddNewOperation(c) \/ AddBack(c)

Next ==
  \E c \in Clients :
    User(c) \/ Timer(c) \/ ReceivedEvent(c) \/ StackQueue(c) \/ UpdateInputView(c)

Spec == Init /\ [][Next]_vars
-----------------------------------------------------------------------------
(* Fairness, for the liveness properties: every thread comes round to what *)
(* waits for it, and a broadcast that is repeated for ever is accepted some *)
(* time. Users owe nothing.                                                *)

Fairness ==
  \A c \in Clients :
    /\ SF_vars(GetLocalChangeSet(c))
    /\ SF_vars(BroadcastLocal(c))
    /\ WF_vars(RefuseLocal(c) \/ PutIntoSendStack(c) \/ SendUndoAndRedo(c))
    /\ SF_vars(ReceivedEvent(c))
    /\ SF_vars(StackQueue(c))
    /\ SF_vars(UpdateInputView(c))

FairSpec == Spec /\ Fairness

-----------------------------------------------------------------------------
(* Types.                                                                  *)

Glyphs == Clients \X Nat \X Nat

Ops == Operations(Clients \cup {NoParticipant}, Glyphs)

Blocks == [kind : {"new", "local", "undoRedo"}, at : Nat, ops : Seq(Ops)]

\* The range of an operation is a pair of natural numbers in every stack and
\* queue: the code keeps the ends of a range in ints, compares them with
\* unsigned locations and stores their difference in an unsigned length, so a
\* negative one would wrap (StackManager.m, both updateIndex methods).
TypeOK ==
  /\ member \in [Clients -> BOOLEAN]
  /\ log \in Seq([op : Ops, order : Nat])
  /\ received \in [Clients -> Nat]
  /\ text \in [Clients -> Seq(Glyphs)]
  /\ caret \in [Clients -> Nat]
  /\ local \in [Clients -> Seq(Ops)]
  /\ send \in [Clients -> Seq(Ops)]
  /\ global \in [Clients -> Seq(Ops)]
  /\ undo \in [Clients -> Seq(Ops)]
  /\ redo \in [Clients -> Seq(Ops)]
  /\ stackQ \in [Clients -> Seq(Blocks)]
  /\ uiQ \in [Clients -> Seq(Ops)]
  /\ queueMade \in [Clients -> BOOLEAN]
  /\ timer \in [Clients -> TimerSteps]
  /\ batch \in [Clients -> Seq(Ops)]
  /\ nextID \in [Clients -> Nat]
  /\ alive \in [Clients -> BOOLEAN]

-----------------------------------------------------------------------------
(* Delivery: what the stacks hold of the session's order.                  *)

SameOp(a, b) == a.participantID = b.participantID /\ a.operationID = b.operationID

\* Whatever is torn, refused or lost, the global stack of a device (addNewChangeSet)
\* holds operations of the log in the log's order, none of them twice: two
\* devices never disagree on which of two operations came first.
GlobalFollowsLog ==
  \A c \in Clients :
    \E f \in [DOMAIN global[c] -> 1..received[c]] :
      /\ \A i, j \in DOMAIN global[c] : i < j => f[i] < f[j]
      /\ \A i \in DOMAIN global[c] : SameOp(global[c][i], log[f[i]].op)

\* The places of the log that were handed to c and wait in its stack queue.
Waiting(c) ==
  {stackQ[c][i].at : i \in {j \in DOMAIN stackQ[c] : stackQ[c][j].kind = "new"}}

\* The keystrokes of c in the session that c itself has not seen confirmed.
Unconfirmed(c) ==
  {k \in DOMAIN log : /\ k > received[c] \/ k \in Waiting(c)
                      /\ log[k].op.participantID = c
                      /\ log[k].op.state = "LOCAL"}

\* The send stack holds "The operations that wait for confirm."
\* (xxxDocStackManager.h:21): a confirmation is still to come for each of them.
OnlyUnconfirmedWait ==
  \A c \in Clients : \A i \in DOMAIN send[c] :
    \E k \in Unconfirmed(c) : SameOp(send[c][i], log[k].op)

\* ... and exactly they wait there, in the order in which their confirmations
\* will come; updateOperationFromSendToGlobal always finds the first.
SendMatchesLog ==
  \A c \in Clients :
    alive[c] =>
      LET waiting == IF timer[c] = "sent" THEN send[c] \o batch[c] ELSE send[c]
      IN  \E f \in [DOMAIN waiting -> Unconfirmed(c)] :
            /\ \A i, j \in DOMAIN waiting : i < j => f[i] < f[j]
            /\ \A k \in Unconfirmed(c) : \E i \in DOMAIN waiting : f[i] = k
            /\ \A i \in DOMAIN waiting : SameOp(waiting[i], log[f[i]].op)

\* What the timer's handler has taken and not yet broadcast.
Taken(c) == IF timer[c] = "taken" THEN batch[c] ELSE << >>

\* What c has made and not yet, or not successfully, broadcast: one sequence of
\* operations for each place where they can be.
Unsent(c) ==
  <<local[c], undo[c], redo[c], Taken(c)>>
    \o [i \in DOMAIN stackQ[c] |-> stackQ[c][i].ops]

\* Where the operation that c gave the ID n is kept, and where the session has it.
Kept(c, n) ==
  {spot \in UNION {{s} \X DOMAIN Unsent(c)[s] : s \in DOMAIN Unsent(c)} :
     Unsent(c)[spot[1]][spot[2]].operationID = n}

Logged(c, n) == {k \in DOMAIN log : log[k].op.operationID = n /\ log[k].op.participantID = c}

\* Every operation a device ever made is in one place: still with the device, or
\* in the session, once. No swap of a stack, refused broadcast or return of a
\* change set (getLocalOperations, addChangeSetToLocal, addChangeSetToUndoAndRedo)
\* loses or repeats one.
NothingLost ==
  \A c \in Clients :
    alive[c] => \A n \in 0..(nextID[c] - 1) :
                  Cardinality(Kept(c, n)) + Cardinality(Logged(c, n)) = 1

\* The order in which c's operations go, or went, to the session: first what is in it,
\* then what the timer is about to broadcast, then what was refused, of which each
\* block will put its own in front, then what has gathered since.
Line(c) ==
  <<[k \in DOMAIN log |-> log[k].op], Taken(c)>>
    \o Reverse([i \in DOMAIN stackQ[c] |-> stackQ[c][i].ops])
    \o <<local[c], undo[c], redo[c]>>

\* The places in line of what c made in the session.
Spots(line, c) ==
  UNION {{i} \X {k \in DOMAIN line[i] : line[i][k].participantID = c} : i \in DOMAIN line}

InFront(p, q) == p[1] < q[1] \/ (p[1] = q[1] /\ p[2] < q[2])

Label(op) == <<op.state, op.operationID>>

LabelAt(line, p) == Label(line[p[1]][p[2]])

Labels(line, c) == {LabelAt(line, p) : p \in Spots(line, c)}

\* Which operation is in front of which; keystrokes, undos and redos are three lines.
Precedence(line, c) ==
  {<<LabelAt(line, pair[1]), LabelAt(line, pair[2])>> : pair \in
     {pair \in Spots(line, c) \X Spots(line, c) :
        /\ InFront(pair[1], pair[2])
        /\ LabelAt(line, pair[1])[1] = LabelAt(line, pair[2])[1]}}

LabelsIn(c, ops) == {Label(ops[i]) : i \in {j \in DOMAIN ops : ops[j].participantID = c}}

Returning(c) == UNION {LabelsIn(c, stackQ[c][i].ops) : i \in DOMAIN stackQ[c]}

Gathered(c) == LabelsIn(c, local[c]) \cup LabelsIn(c, undo[c]) \cup LabelsIn(c, redo[c])

\* What is new goes to the end of the line, and an operation in front of another one
\* stays there, from the stack over refusals and returns (addChangeSetToLocal,
\* addChangeSetToUndoAndRedo) to the session, whatever the user does and however
\* often it is refused. There is one way to change places: the timer takes the
\* younger while the older is on its way back.
LineKept ==
  [][\A c \in Clients :
       alive'[c] =>
         LET before == Precedence(Line(c), c)
             after  == Precedence(Line(c)', c)
         IN  /\ \A pair \in after : pair[1] \in Labels(Line(c), c)
             /\ \A pair \in before :
                  IF pair[1] \in Returning(c) /\ pair[2] \in Gathered(c) \ Gathered(c)'
                    THEN <<pair[2], pair[1]>> \in after
                    ELSE pair \in after]_vars

\* "Add change set back if braod cast fail" (xxxDocStackManager.m:139): the
\* operations of a refused change set are with the device, also when no event has
\* made the queue that takes them back.
AddedBack ==
  \A c \in Clients : \A n \in 0..(nextID[c] - 1) :
    \/ Kept(c, n) # {}
    \/ Logged(c, n) \cup Logged(NoParticipant, n) # {}

\* A change set's operationArray is "sort by the modified time"
\* (xxxDocChangeSet.h:13); operation IDs are given out in that order.
ChangeSetSorted ==
  \A c \in Clients : \A i, j \in DOMAIN batch[c] :
    i < j => batch[c][i].operationID < batch[c][j].operationID

\* Pressing undo again does not get "the same operation to undo every time"
\* (xxxDocViewController.m:164): no two undos waiting to be sent are the same
\* inverse of the same operation.
UndosDiffer ==
  \A c \in Clients : \A i, j \in DOMAIN undo[c] :
    i # j => [undo[c][i] EXCEPT !.operationID = 0] # [undo[c][j] EXCEPT !.operationID = 0]

\* "Clear the stack once user have new input." (xxxDocViewController.m:23, of what
\* can be redone): no redo waiting to be sent takes up an undo from before the
\* user's last keystroke.
RedoClearedByInput ==
  \A c \in Clients : \A i \in DOMAIN redo[c], j \in DOMAIN global[c] :
    (global[c][j].participantID = c /\ global[c][j].state = "GLOBAL")
      => global[c][j].globalID < redo[c][i].referID

-----------------------------------------------------------------------------
(* Content: what the users see.                                            *)

\* The text the operations make of an empty document; << >> once one of them
\* does not fit.
Replay(ops) ==
  LET shown[k \in 0..Len(ops)] ==
        IF k = 0
          THEN << >>
          ELSE IF Within(ops[k].range, shown[k - 1])
                 THEN Replace(shown[k - 1], ops[k].range, ops[k].replaceString)
                 ELSE << >>
  IN  shown[Len(ops)]

\* Nothing is being shown or sent on c.
Idle(c) == alive[c] /\ uiQ[c] = << >> /\ timer[c] = "idle"

\* A device shows its global stack, then what it has sent, then what is local, unless
\* a refused change set is on its way back to the local stack.
TextIsReplay ==
  \A c \in Clients :
    (Idle(c) /\ \A i \in DOMAIN stackQ[c] : stackQ[c][i].kind = "new")
      => text[c] = Replay(global[c] \o send[c] \o local[c])

Settled(c) ==
  /\ member[c] /\ Idle(c)
  /\ stackQ[c] = << >>
  /\ local[c] \o undo[c] \o redo[c] \o send[c] = << >>
  /\ received[c] = Len(log)

\* An entry of the global stack is "the accurate operation if happen at that order
\* in global stack" (StackManager.m:257): replaying the stack gives the text.
AccurateInOrder ==
  \A c \in Clients : Settled(c) => text[c] = Replay(global[c])

\* The text that the keystrokes, undos and redos of a single user should give:
\* past holds the texts to come back to, future those that were undone, and a
\* redo that no undo since the last keystroke answers leaves it open (~known).
Recorded(h, op) ==
  CASE op.state = "UNDO" /\ h.past # << >> ->
         [h EXCEPT !.text = Last(h.past), !.past = Front(@), !.future = Append(@, h.text)]
    [] op.state = "REDO" /\ h.future # << >> ->
         [h EXCEPT !.text = Last(h.future), !.future = Front(@), !.past = Append(@, h.text)]
    [] op.state = "GLOBAL" /\ Within(op.range, h.text) ->
         [h EXCEPT !.text = Replace(@, op.range, op.replaceString),
                   !.past = Append(@, h.text), !.future = << >>]
    [] OTHER -> [h EXCEPT !.known = FALSE]

History(ops) ==
  LET after[k \in 0..Len(ops)] ==
        IF k = 0
          THEN [text |-> << >>, past |-> << >>, future |-> << >>, known |-> TRUE]
          ELSE Recorded(after[k - 1], ops[k])
  IN  after[Len(ops)]

\* The scans of undoAct and redoAct through the global stack, and the inverses they
\* broadcast, amount to an undo history: for a user alone in the session an undo
\* brings back the text from before the newest edit still in force, a redo the text
\* from before its undo, along any alternation of the two and of keystrokes.
UndoRedoHistory ==
  \A c \in Clients :
    Settled(c) => LET h == History(global[c]) IN h.known => text[c] = h.text

\* Devices that have everything, and have nothing to add, show the same text.
Converged ==
  \A c, d \in Clients : Settled(c) /\ Settled(d) => text[c] = text[d]

\* Two devices place the same operation of the session at the same range, although
\* one took it from its send stack and the other computed it.
GlobalStacksAgree ==
  \A c, d \in Clients : \A i \in DOMAIN global[c] \cap DOMAIN global[d] :
    SameOp(global[c][i], global[d][i]) => global[c][i].range = global[d][i].range

\* When users only insert, the text of an idle device has every character it knows
\* of, its own and those of the operations it has worked through, and each once.
InsertsSurvive ==
  \A c \in Clients :
    Idle(c) =>
      /\ IsInjective(text[c])
      /\ Range(text[c]) =
           {<<c, n, 1>> : n \in 0..(nextID[c] - 1)}
             \cup UNION {Range(log[k].op.replaceString) :
                           k \in (1..received[c]) \ Waiting(c)}

\* The next operation to be shown fits the text it was computed for, whatever was
\* typed between the stack queue's block and the main queue's.
ShownFits ==
  \A c \in Clients : alive[c] /\ uiQ[c] # << >> => Within(Head(uiQ[c]).range, text[c])

\* A place in one text is inside another one and between the same characters: what
\* is in both is in front of both places or behind both, and in the same order.
SamePlace(before, place, after, moved) ==
  /\ moved <= Len(after)
  /\ \A i, k \in DOMAIN before, j, m \in DOMAIN after :
       (before[i] = after[j] /\ before[k] = after[m]) =>
         /\ i <= place <=> j <= moved
         /\ i < k <=> j < m

\* Showing a foreign operation leaves the caret where it was between the characters.
CaretKeepsItsPlace ==
  [][\A c \in Clients :
       (uiQ'[c] # uiQ[c] /\ text'[c] # text[c]) =>
         SamePlace(text[c], caret[c], text'[c], caret'[c])]_vars

\* Whatever is typed in the session reaches the global stack of every member: a
\* refused broadcast is repeated by the timer until it is accepted.
EveryEditArrives ==
  <>[](\A c \in Clients : (alive[c] /\ member[c]) =>
         /\ local[c] \o send[c] \o batch[c] = << >>
         /\ Len(global[c]) = Len(log))

-----------------------------------------------------------------------------
(* SharedDoc implements the ordered log: what a device has applied is what *)
(* its global stack holds.                                                 *)

Identity(op) == <<op.participantID, op.operationID>>

Ordered ==
  INSTANCE OrderedLog
    WITH order   <- [k \in DOMAIN log |-> Identity(log[k].op)],
         applied <- [c \in Clients |->
                       [i \in DOMAIN global[c] |-> Identity(global[c][i])]]

\* The global stack of every device is at every moment a prefix of the session's
\* order, and grows by the operation that comes next.
ImplementsOrderedLog == Ordered!Spec
=============================================================================
