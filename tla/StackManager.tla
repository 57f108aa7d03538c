---------------------------- MODULE StackManager ----------------------------
(***************************************************************************)
(* What xxxDocStackManager computes from the stacks of one device: how a   *)
(* foreign operation is brought forward through the global stack, past the *)
(* operations still waiting in the send and local stacks, how the waiting  *)
(* operations are adjusted in turn, and which operation undo and redo pick *)
(* (the two scans are in xxxDocViewController). The stacks are sequences   *)
(* of operations, oldest first, and nothing here has a state: SharedDoc    *)
(* calls these operators from its actions.                                 *)
(***************************************************************************)
EXTENDS Operation, SequencesExt

\* updateOperation:ThroughGlobalStackFromIndex: the i-th global operation, with
\* the range it has once everything above it in the stack is applied.
UpdateOperationThroughGlobalStack(stack, i) ==
  LET carried[k \in 0..(Len(stack) - i)] ==
        IF k = 0
          THEN stack[i].range
          ELSE UpdateRangeV2(carried[k - 1], stack[i + k], stack[i].participantID)
  IN  [stack[i] EXCEPT !.range = carried[Len(stack) - i]]

\* Mutant of Unseen: the reference operation is not looked for.
UnseenAll(stack, op) == DOMAIN stack

\* The positions of the global stack an operation has not taken into account:
\* everything that lies above the reference operation, and carries another
\* globalID, or the whole stack for one that refers to the ground.
Unseen(stack, op) ==
  {i \in DOMAIN stack :
     /\ stack[i].globalID # op.referID
     /\ \/ op.referID = NoRefer
        \/ \E j \in 1..(i - 1) : stack[j].globalID = op.referID}

\* The range a foreign operation takes at the end of the global stack
\* (first loop of addNewGlobalOperation).
RangeOnGlobal(stack, op) ==
  LET carried[k \in 0..Len(stack)] ==
        IF k = 0
          THEN op.range
          ELSE IF k \in Unseen(stack, op)
                 THEN UpdateRange(carried[k - 1],
                                  UpdateOperationThroughGlobalStack(stack, k),
                                  op.participantID)
                 ELSE carried[k - 1]
  IN  carried[Len(stack)]

\* Mutant of RangeOnScreen: with the other version of updateIndex.
RangeOnScreenV1(range, author, waiting) ==
  LET carried[k \in 0..Len(waiting)] ==
        IF k = 0
          THEN range
          ELSE UpdateRange(carried[k - 1], waiting[k], author)
  IN  carried[Len(waiting)]

\* The range it takes in the text on the screen, which already shows the
\* waiting operations (second and third loop).
RangeOnScreen(range, author, waiting) ==
  LET carried[k \in 0..Len(waiting)] ==
        IF k = 0
          THEN range
          ELSE UpdateRangeV2(carried[k - 1], waiting[k], author)
  IN  carried[Len(waiting)]

\* Mutant of UpdateStackWithOperation: the waiting operations are not adjusted.
StackLeftAlone(stack, shown) == stack

\* updateLocalStackAndSendStackWithOperation, for one of the two stacks.
UpdateStackWithOperation(stack, shown) ==
  [i \in DOMAIN stack |->
     [stack[i] EXCEPT !.range =
        UpdateRange(@, shown, stack[i].participantID)]]

-----------------------------------------------------------------------------
\* How many operations of author in state S lie at or above position i.
CountFrom(stack, i, author, S) ==
  Cardinality({j \in i..Len(stack) :
                 stack[j].participantID = author /\ stack[j].state \in S})

\* Mutant of UndoTarget: a redo is not something that can be undone.
UndoTargetSkipsRedos(stack, author) ==
  LET Outnumbered(i) == CountFrom(stack, i, author, {"UNDO"})
                          < CountFrom(stack, i, author, {"GLOBAL"})
  IN  Max({0} \cup {i \in DOMAIN stack : Outnumbered(i)})

\* undoAct scans from the top of the stack down to the first operation at which
\* author's own edits and redos outnumber the undos; 0 when there is none.
UndoTarget(stack, author) ==
  LET Outnumbered(i) == CountFrom(stack, i, author, {"UNDO"})
                          < CountFrom(stack, i, author, {"GLOBAL", "REDO"})
  IN  Max({0} \cup {i \in DOMAIN stack : Outnumbered(i)})

\* redoAct: the first operation, from the top, at which undos outnumber redos.
RedoTarget(stack, author) ==
  LET Outnumbered(i) == CountFrom(stack, i, author, {"REDO"})
                          < CountFrom(stack, i, author, {"UNDO"})
  IN  Max({0} \cup {i \in DOMAIN stack : Outnumbered(i)})

\* The operations of a refused change set that go back to one of the two stacks.
InState(ops, S) ==
  LET kept[k \in 0..Len(ops)] ==
        IF k = 0
          THEN << >>
          ELSE IF ops[k].state \in S THEN Append(kept[k - 1], ops[k]) ELSE kept[k - 1]
  IN  kept[Len(ops)]

\* undoOperation and redoOperation build the same inverse edit, where the
\* operation's text now stands, and refer it to the operation's change set.
InverseOf(op, author, id, state) ==
  [participantID  |-> author,
   operationID    |-> id,
   globalID       |-> 0,
   referID        |-> op.globalID,
   state          |-> state,
   range          |-> [location |-> op.range.location,
                       length   |-> Len(op.replaceString)],
   originalString |-> op.replaceString,
   replaceString  |-> op.originalString]
=============================================================================
