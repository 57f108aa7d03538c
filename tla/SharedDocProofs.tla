--------------------------- MODULE SharedDocProofs ---------------------------
(***************************************************************************)
(* Theorems about SharedDoc, for any devices, edits and number of inputs:  *)
(* first the types of its variables (TypeCorrect) and the order of what    *)
(* the global stacks hold (DeliveryCorrect), with every freedom.           *)
(*                                                                         *)
(* Then, as long as devices edit in the session only and the timer's       *)
(* handler runs in one piece, with refusals, bursts, undo and redo:        *)
(* SharedDoc implements OrderedLog, and the send stack holds exactly what  *)
(* awaits its confirmation, in the order the confirmations come.           *)
(* Session(c) says of a device how its stacks and the log belong together. *)
(* Its heart is Matched: what waits on the send stack (and, between the    *)
(* broadcast and its end, in the handler) corresponds one to one and in    *)
(* order to the keystrokes of c in the log behind c's global stack. So the *)
(* confirmation that is served next is that of the first operation on the  *)
(* send stack: it is found (ConfirmationIsFirst), and the global stack     *)
(* stays a prefix of the log.                                              *)
(***************************************************************************)
EXTENDS SharedDoc, StackManagerProofs

-----------------------------------------------------------------------------
(* What the helpers of the actions return.                                 *)

LEMMA MinIsMember ==
  ASSUME NEW T \in SUBSET Nat, T # {}
  PROVE  Min(T) \in T
<1>1. \E m \in T : \A k \in T : m <= k
  BY LeastElement
<1> QED
  BY <1>1 DEF Min

LEMMA MaxIsMember ==
  ASSUME NEW n \in Nat, NEW T \in SUBSET (0..n), T # {}
  PROVE  Max(T) \in T
<1> DEFINE D == {n - k : k \in T}
<1>1. D \in SUBSET Nat /\ D # {}
  <2>1. \A k \in T : n - k \in Nat
    OBVIOUS
  <2>2. PICK k \in T : TRUE
    OBVIOUS
  <2>3. n - k \in D
    OBVIOUS
  <2> QED  BY <2>1, <2>3
<1>2. PICK m \in D : \A k \in D : m <= k
  <2> HIDE DEF D
  <2> QED  BY <1>1, LeastElement
<1>3. \A k \in T : n - m >= k /\ k \in Nat
  BY <1>2
<1>4. n - m \in T
  BY <1>2
<1> QED
  BY <1>3, <1>4 DEF Max

\* The scan for an operation to undo or redo ends at an operation, or at 0.
LEMMA TargetIsPlace ==
  ASSUME NEW S, NEW stack \in Seq(S), NEW author
  PROVE  /\ UndoTarget(stack, author) \in {0} \cup 1..Len(stack)
         /\ RedoTarget(stack, author) \in {0} \cup 1..Len(stack)
<1> DEFINE U == {i \in DOMAIN stack : CountFrom(stack, i, author, {"UNDO"})
                                        < CountFrom(stack, i, author, {"GLOBAL", "REDO"})}
           R == {i \in DOMAIN stack : CountFrom(stack, i, author, {"REDO"})
                                        < CountFrom(stack, i, author, {"UNDO"})}
<1>1. Len(stack) \in Nat /\ DOMAIN stack = 1..Len(stack)
  OBVIOUS
<1>2. UndoTarget(stack, author) = Max({0} \cup U) /\ RedoTarget(stack, author) = Max({0} \cup R)
  BY DEF UndoTarget, RedoTarget
<1>3. {0} \cup U \in SUBSET (0..Len(stack)) /\ {0} \cup R \in SUBSET (0..Len(stack))
  BY <1>1
<1>4. U \subseteq 1..Len(stack) /\ R \subseteq 1..Len(stack)
  BY <1>1
<1> HIDE DEF U, R
<1>5. Max({0} \cup U) \in {0} \cup U /\ Max({0} \cup R) \in {0} \cup R
  BY <1>1, <1>3, MaxIsMember
<1> QED
  BY <1>2, <1>4, <1>5

LEMMA RemoveAtIsSeq ==
  ASSUME NEW S, NEW s \in Seq(S), NEW i \in 1..Len(s)
  PROVE  RemoveAt(s, i) \in Seq(S)
<1>1. /\ SubSeq(s, 1, i - 1) \in Seq(S)
      /\ SubSeq(s, i + 1, Len(s)) \in Seq(S)
  BY LenProperties, ElementOfSeq, SubSeqProperties
<1> QED
  BY <1>1, ConcatProperties DEF RemoveAt

\* Replacing a range of a text by a string gives a text.
LEMMA ReplaceIsText ==
  ASSUME NEW G, NEW t \in Seq(G), NEW range \in Ranges, NEW put \in Seq(G),
         Within(range, t)
  PROVE  Replace(t, range, put) \in Seq(G)
<1>1. range.location \in Nat /\ range.length \in Nat /\ Len(t) \in Nat
  BY DEF Ranges
<1>2. range.location + range.length <= Len(t)
  BY DEF Within
<1>3. \A i \in 1..Len(t) : t[i] \in G
  OBVIOUS
<1>4. SubSeq(t, 1, range.location) \in Seq(G)
  BY <1>1, <1>2, <1>3, SubSeqProperties
<1>5. SubSeq(t, range.location + range.length + 1, Len(t)) \in Seq(G)
  BY <1>1, <1>2, <1>3, SubSeqProperties
<1> QED
  BY <1>4, <1>5, ConcatProperties DEF Replace

\* What one character or nothing is cut from a text is a string.
LEMMA SubstringIsString ==
  ASSUME NEW G, NEW t \in Seq(G), NEW range \in Ranges,
         Within(range, t), range.length <= 1
  PROVE  Substring(t, range) \in Strings(G)
<1>1. range.location \in Nat /\ range.length \in Nat /\ Len(t) \in Nat
  BY DEF Ranges
<1>2. range.location + range.length <= Len(t)
  BY DEF Within
<1>3. \A i \in (range.location + 1)..(range.location + range.length) : t[i] \in G
  BY <1>1, <1>2
<1>4. /\ SubSeq(t, range.location + 1, range.location + range.length) \in Seq(G)
      /\ Len(SubSeq(t, range.location + 1, range.location + range.length)) <= 1
  BY <1>1, <1>3, SubSeqProperties
<1> QED
  BY <1>4 DEF Substring, Strings

-----------------------------------------------------------------------------
(* Type correctness. A step is typed only in a state in which the stack    *)
(* queue waits for places of the log that exist: addNewChangeSet reads     *)
(* them.                                                                   *)

Participants == Clients \cup {NoParticipant}

Logs == Seq([op : Ops, order : Nat])

\* Collabrify hands over a prefix of the log, and what waits in the stack queue
\* was handed over.
HandedOver ==
  \A c \in Clients :
    /\ received[c] <= Len(log)
    /\ \A i \in 1..Len(stackQ[c]) :
         stackQ[c][i].kind = "new" => stackQ[c][i].at \in 1..received[c]

TypeInv == TypeOK /\ HandedOver

LEMMA TypeInvInitially == Init => TypeInv
<1> SUFFICES ASSUME Init  PROVE TypeInv
  OBVIOUS
<1>1. << >> \in Logs /\ << >> \in Seq(Ops) /\ << >> \in Seq(Blocks) /\ << >> \in Seq(Glyphs)
  BY EmptySeq DEF Logs
<1>2. TypeOK
  BY <1>1 DEF Init, TypeOK, TimerSteps, Logs
<1>3. HandedOver
  BY EmptySeq DEF Init, HandedOver
<1> QED
  BY <1>2, <1>3 DEF TypeInv

LEMMA ParticipantIDType ==
  ASSUME TypeOK, NEW c \in Clients
  PROVE  ParticipantID(c) \in Participants
BY DEF TypeOK, ParticipantID, Participants

\* A broadcast change set makes the log longer.
LEMMA EventType ==
  ASSUME TypeOK, NEW ops \in Seq(Ops)
  PROVE  /\ log \in Logs /\ Len(log) \in Nat
         /\ Event(ops) \in Logs
         /\ Len(Event(ops)) = Len(ops) /\ Len(ops) \in Nat
         /\ \A i \in 1..Len(ops) : Event(ops)[i].op = ops[i]
         /\ log \o Event(ops) \in Logs
         /\ Len(log) <= Len(log \o Event(ops))
<1> DEFINE next == IF log = << >> THEN 1 ELSE log[Len(log)].order + 1
           e(i) == [op |-> ops[i], order |-> next]
<1>1. log \in Logs /\ Len(log) \in Nat
  BY LenProperties DEF TypeOK, Logs
<1>2. next \in Nat
  <2>1. CASE log = << >>
    BY <2>1
  <2>2. CASE log # << >>
    <3>1. Len(log) \in 1..Len(log)
      BY <1>1, <2>2, EmptySeq DEF Logs
    <3>2. log[Len(log)] \in [op : Ops, order : Nat]
      BY <1>1, <3>1, ElementOfSeq DEF Logs
    <3> QED  BY <2>2, <3>2
  <2> QED  BY <2>1, <2>2
<1> HIDE DEF next
<1>3. Event(ops) = [i \in 1..Len(ops) |-> e(i)]
  BY LenProperties DEF Event, next
<1>4. \A i \in 1..Len(ops) : e(i) \in [op : Ops, order : Nat]
  BY <1>2, ElementOfSeq
<1>5. Len(ops) \in Nat
  BY LenProperties
<1>6. [i \in 1..Len(ops) |-> e(i)] \in Logs
  <2> HIDE DEF e
  <2> QED  BY <1>4, <1>5, IsASeq DEF Logs
<1>7. Len(Event(ops)) = Len(ops)
  <2> HIDE DEF e
  <2> QED  BY <1>3, <1>5, <1>6, LenProperties DEF Logs
<1>8. \A i \in 1..Len(ops) : Event(ops)[i].op = ops[i]
  BY <1>3
<1>9. log \o Event(ops) \in Logs /\ Len(log) <= Len(log \o Event(ops))
  <2>1. Event(ops) \in Logs
    BY <1>3, <1>6
  <2> QED  BY <1>1, <1>5, <1>7, <2>1, ConcatProperties DEF Logs
<1> QED
  BY <1>1, <1>3, <1>5, <1>6, <1>7, <1>8, <1>9

\* What DispatchBack does to the stack queue.
LEMMA DispatchBackType ==
  ASSUME TypeInv, NEW c \in Clients, NEW kind \in {"local", "undoRedo"},
         NEW ops \in Seq(Ops), DispatchBack(c, kind, ops)
  PROVE  /\ stackQ' \in [Clients -> Seq(Blocks)]
         /\ alive' \in [Clients -> BOOLEAN]
         /\ \A d \in Clients : \A i \in 1..Len(stackQ'[d]) :
              stackQ'[d][i].kind = "new" => stackQ'[d][i].at \in 1..received[d]
<1> DEFINE block == [kind |-> kind, at |-> 0, ops |-> ops]
<1>0. stackQ \in [Clients -> Seq(Blocks)] /\ alive \in [Clients -> BOOLEAN]
  BY DEF TypeInv, TypeOK
<1>1. block \in Blocks /\ block.kind # "new"
  BY DEF Blocks
<1>2. CASE queueMade[c]
  <2> HIDE DEF block
  <2>1. stackQ' = [stackQ EXCEPT ![c] = Append(stackQ[c], block)] /\ alive' = alive
    BY <1>2 DEF DispatchBack, block
  <2>2. /\ Append(stackQ[c], block) \in Seq(Blocks)
        /\ Len(Append(stackQ[c], block)) = Len(stackQ[c]) + 1
        /\ \A i \in 1..Len(stackQ[c]) : Append(stackQ[c], block)[i] = stackQ[c][i]
        /\ Append(stackQ[c], block)[Len(stackQ[c]) + 1] = block
    BY <1>0, <1>1, AppendProperties
  <2>3. ASSUME NEW d \in Clients, NEW i \in 1..Len(stackQ'[d]), stackQ'[d][i].kind = "new"
        PROVE  stackQ'[d][i].at \in 1..received[d]
    <3>1. CASE d # c
      BY <1>0, <2>1, <2>3, <3>1 DEF TypeInv, HandedOver
    <3>2. CASE d = c
      <4>1. Len(stackQ[c]) \in Nat /\ stackQ'[c] = Append(stackQ[c], block)
        BY <1>0, <2>1, LenProperties
      <4>2. i \in 1..Len(stackQ[c])
        BY <1>1, <2>2, <2>3, <3>2, <4>1
      <4> QED
        BY <2>2, <2>3, <3>2, <4>1, <4>2 DEF TypeInv, HandedOver
    <3> QED  BY <3>1, <3>2
  <2> QED
    BY <1>0, <2>1, <2>2, <2>3
<1>3. CASE ~queueMade[c]
  BY <1>0, <1>3 DEF DispatchBack, TypeInv, HandedOver
<1> QED
  BY <1>2, <1>3

\* An operation a user makes.
LEMMA NewOperationType ==
  ASSUME TypeOK, NEW c \in Clients, NEW range \in Ranges,
         NEW cut \in Strings(Glyphs), NEW put \in Strings(Glyphs)
  PROVE  NewOperation(c, range, cut, put) \in Ops
<1>1. ParticipantID(c) \in Participants /\ nextID[c] \in Nat
  BY ParticipantIDType DEF TypeOK
<1> QED
  BY <1>1 DEF NewOperation, Ops, Operations, States, Participants

\* An operation comes out of the log as one, whatever its state and its order.
LEMMA DeliveredType ==
  ASSUME NEW entry \in [op : Ops, order : Nat]
  PROVE  Delivered(entry) \in Ops
BY DEF Delivered, Ops, Operations, States

\* An operation confirmed: it leaves the send stack for the global one.
LEMMA ConfirmationType ==
  ASSUME TypeOK, NEW c \in Clients, NEW op \in Ops,
         UpdateOperationFromSendToGlobal(c, op)
  PROVE  /\ local' \in [Clients -> Seq(Ops)]
         /\ send' \in [Clients -> Seq(Ops)]
         /\ global' \in [Clients -> Seq(Ops)]
         /\ uiQ' \in [Clients -> Seq(Ops)]
<1> DEFINE Awaits(waiting) == waiting.operationID = op.operationID /\ waiting.state = "SEND"
           I == {k \in 1..Len(send[c]) : Awaits(send[c][k])}
           i == IF I # {} THEN Min(I) ELSE 0
           confirmed == [send[c][i] EXCEPT !.globalID = op.globalID, !.state = op.state]
<1>1. /\ IF i = 0
           THEN UNCHANGED <<global, send>>
           ELSE /\ global' = [global EXCEPT ![c] = Append(global[c], confirmed)]
                /\ send' = [send EXCEPT ![c] = RemoveAt(send[c], i)]
      /\ UNCHANGED <<local, uiQ>>
  BY DEF UpdateOperationFromSendToGlobal, SelectInSeq
<1>2. send[c] \in Seq(Ops) /\ global[c] \in Seq(Ops)
  BY DEF TypeOK
<1>3. I \in SUBSET (1..Len(send[c])) /\ I \in SUBSET Nat
  OBVIOUS
<1> HIDE DEF I
<1>4. i = 0 \/ i \in 1..Len(send[c])
  BY <1>3, MinIsMember
<1> HIDE DEF i
<1>5. CASE i = 0
  BY <1>1, <1>5 DEF TypeOK
<1>6. CASE i # 0
  <2>1. send[c][i] \in Ops
    BY <1>2, <1>4, <1>6, ElementOfSeq
  <2>2. confirmed \in Ops
    BY <2>1 DEF Ops, Operations
  <2> HIDE DEF confirmed
  <2>3. Append(global[c], confirmed) \in Seq(Ops)
    BY <1>2, <2>2, AppendProperties
  <2>4. RemoveAt(send[c], i) \in Seq(Ops)
    BY <1>2, <1>4, <1>6, RemoveAtIsSeq
  <2> QED  BY <1>1, <1>6, <2>3, <2>4, ZenonT(30) DEF TypeOK
<1> QED
  BY <1>5, <1>6

\* A foreign operation placed, shown and carried past: all stacks keep their type.
LEMMA ForeignType ==
  ASSUME TypeOK, NEW c \in Clients, NEW op \in Ops,
         AddNewGlobalOperation(c, op)
  PROVE  /\ local' \in [Clients -> Seq(Ops)]
         /\ send' \in [Clients -> Seq(Ops)]
         /\ global' \in [Clients -> Seq(Ops)]
         /\ uiQ' \in [Clients -> Seq(Ops)]
<1> DEFINE placed == [op EXCEPT !.range = RangeOnGlobal(global[c], op)]
           shown  == [placed EXCEPT !.range =
                        RangeOnScreen(placed.range, placed.participantID, send[c] \o local[c])]
<1>1. /\ global' = [global EXCEPT ![c] = Append(global[c], placed)]
      /\ send'   = [send EXCEPT ![c] = UpdateStackWithOperation(send[c], shown)]
      /\ local'  = [local EXCEPT ![c] = UpdateStackWithOperation(local[c], shown)]
      /\ uiQ'    = [uiQ EXCEPT ![c] = Append(uiQ[c], shown)]
  <2>1. shown = [placed EXCEPT !.range =
                   RangeOnScreen(placed.range, op.participantID, send[c] \o local[c])]
    BY DEF Ops, Operations
  <2> QED  BY <2>1 DEF AddNewGlobalOperation
<1>2. /\ send[c] \in Seq(Ops) /\ global[c] \in Seq(Ops)
      /\ local[c] \in Seq(Ops) /\ uiQ[c] \in Seq(Ops)
  BY DEF TypeOK
<1>3. placed \in Ops
  <2>1. RangeOnGlobal(global[c], op) \in Ranges
    BY <1>2, RangeOnGlobalIsRange DEF Ops
  <2> QED  BY <2>1, OperationsAreWellFormed DEF Ops
<1> HIDE DEF placed
<1>4. shown \in Ops
  <2>1. placed.range \in Ranges
    BY <1>3 DEF Ops, Operations
  <2>2. send[c] \o local[c] \in Seq(Ops)
    BY <1>2, ConcatProperties
  <2>3. RangeOnScreen(placed.range, placed.participantID, send[c] \o local[c]) \in Ranges
    BY <2>1, <2>2, RangeOnScreenIsRange DEF Ops
  <2> QED  BY <1>3, <2>3, OperationsAreWellFormed DEF Ops
<1> HIDE DEF shown
<1>5. Append(global[c], placed) \in Seq(Ops) /\ Append(uiQ[c], shown) \in Seq(Ops)
  BY <1>2, <1>3, <1>4, AppendProperties
<1>6. /\ UpdateStackWithOperation(send[c], shown) \in Seq(Ops)
      /\ UpdateStackWithOperation(local[c], shown) \in Seq(Ops)
  BY <1>2, <1>4, UpdatedStackIsStack DEF Ops
<1> QED
  BY <1>1, <1>5, <1>6 DEF TypeOK

-----------------------------------------------------------------------------
(* One lemma for each group of actions.                                    *)

LEMMA UserKeepsTypes ==
  ASSUME TypeInv, NEW c \in Clients, User(c)
  PROVE  TypeInv'
<1> USE DEF TypeInv
<1>1. CASE Type(c)
  <2>1. PICK edit \in Edits, location \in 0..Len(text[c]) :
          LET range == [location |-> location, length |-> edit[1]]
          IN  /\ Within(range, text[c])
              /\ ShouldChangeText(c, range, Typed(c, edit[2]))
    BY <1>1 DEF Type
  <2> DEFINE range == [location |-> location, length |-> edit[1]]
             put   == Typed(c, edit[2])
             op    == NewOperation(c, range, Substring(text[c], range), put)
  <2>2. /\ Within(range, text[c])
        /\ range.length <= 1
        /\ Len(put) <= 1
        /\ local' = [local EXCEPT ![c] = Append(local[c], op)]
        /\ nextID' = [nextID EXCEPT ![c] = nextID[c] + 1]
        /\ text' = [text EXCEPT ![c] = Replace(text[c], range, put)]
        /\ caret' = [caret EXCEPT ![c] = range.location + Len(put)]
        /\ UNCHANGED <<member, log, received, send, global, undo, redo, threads, alive>>
    BY <2>1 DEF ShouldChangeText
  <2>3. /\ text[c] \in Seq(Glyphs) /\ local[c] \in Seq(Ops) /\ nextID[c] \in Nat
    BY DEF TypeOK
  <2>4. range \in Ranges /\ range.location \in Nat
    <3>1. edit[1] \in Nat
      BY EditsAssumption
    <3>2. location \in Nat
      BY <2>3, LenProperties
    <3> QED  BY <3>1, <3>2 DEF Ranges
  <2>5. put \in Strings(Glyphs) /\ put \in Seq(Glyphs) /\ Len(put) \in Nat
    <3> DEFINE g(i) == <<c, nextID[c], i>>
    <3>1. edit[2] \in Nat
      BY EditsAssumption
    <3>2. \A i \in 1..edit[2] : g(i) \in Glyphs
      BY <2>3, <3>1 DEF Glyphs
    <3>3. put = [i \in 1..edit[2] |-> g(i)]
      BY DEF Typed
    <3>4. [i \in 1..edit[2] |-> g(i)] \in Seq(Glyphs)
      <4> HIDE DEF g
      <4> QED  BY <3>1, <3>2, IsASeq
    <3>5. put \in Seq(Glyphs)
      BY <3>3, <3>4
    <3> QED  BY <2>2, <3>5, LenProperties DEF Strings
  <2> HIDE DEF range, put
  <2>6. op \in Ops
    <3>1. Substring(text[c], range) \in Strings(Glyphs)
      BY <2>2, <2>3, <2>4, SubstringIsString
    <3> QED  BY <2>4, <2>5, <3>1, NewOperationType
  <2>7. Replace(text[c], range, put) \in Seq(Glyphs)
    BY <2>2, <2>3, <2>4, <2>5, ReplaceIsText
  <2> HIDE DEF op
  <2>8. Append(local[c], op) \in Seq(Ops)
    BY <2>3, <2>6, AppendProperties
  <2>9. range.location + Len(put) \in Nat /\ nextID[c] + 1 \in Nat
    BY <2>3, <2>4, <2>5
  <2>10. TypeOK'
    BY <2>2, <2>7, <2>8, <2>9 DEF TypeOK, threads
  <2> QED
    BY <2>2, <2>10 DEF HandedOver, threads
<1>2. ASSUME NEW target \in {0} \cup 1..Len(global[c]), target # 0,
             NEW state \in {"UNDO", "REDO"}
      PROVE  LET op == InverseOf(global[c][target], ParticipantID(c), nextID[c], state)
             IN  /\ Append(undo[c], op) \in Seq(Ops)
                 /\ Append(redo[c], op) \in Seq(Ops)
  <2>1. global[c] \in Seq(Ops) /\ undo[c] \in Seq(Ops) /\ redo[c] \in Seq(Ops) /\ nextID[c] \in Nat
    BY DEF TypeOK
  <2>2. global[c][target] \in Ops
    BY <1>2, <2>1, ElementOfSeq
  <2>3. ParticipantID(c) \in Clients \cup {NoParticipant}
    BY ParticipantIDType DEF Participants
  <2>4. InverseOf(global[c][target], ParticipantID(c), nextID[c], state) \in Ops
    BY <2>1, <2>2, <2>3, InverseIsOperation DEF Ops, States
  <2> QED  BY <2>1, <2>4, AppendProperties
<1>3. /\ UndoTarget(global[c], ParticipantID(c)) \in {0} \cup 1..Len(global[c])
      /\ RedoTarget(global[c], ParticipantID(c)) \in {0} \cup 1..Len(global[c])
  BY TargetIsPlace DEF TypeOK
<1>4. CASE UndoAct(c)
  <2> DEFINE op == InverseOf(global[c][UndoTarget(global[c], ParticipantID(c))],
                             ParticipantID(c), nextID[c], "UNDO")
  <2>1. /\ undo' = [undo EXCEPT ![c] = Append(undo[c], op)]
        /\ UndoTarget(global[c], ParticipantID(c)) # 0
        /\ nextID' = [nextID EXCEPT ![c] = nextID[c] + 1]
        /\ UNCHANGED <<member, log, received, text, caret, local, send, global, redo,
                       threads, alive>>
    BY <1>4 DEF UndoAct
  <2>2. Append(undo[c], op) \in Seq(Ops)
    BY <1>2, <1>3, <2>1
  <2> HIDE DEF op
  <2>3. nextID[c] + 1 \in Nat
    BY DEF TypeOK
  <2>4. TypeOK'
    BY <2>1, <2>2, <2>3 DEF TypeOK, threads
  <2> QED
    BY <2>1, <2>4 DEF HandedOver, threads
<1>5. CASE RedoAct(c)
  <2> DEFINE op == InverseOf(global[c][RedoTarget(global[c], ParticipantID(c))],
                             ParticipantID(c), nextID[c], "REDO")
  <2>1. /\ redo' = [redo EXCEPT ![c] = Append(redo[c], op)]
        /\ RedoTarget(global[c], ParticipantID(c)) # 0
        /\ nextID' = [nextID EXCEPT ![c] = nextID[c] + 1]
        /\ UNCHANGED <<member, log, received, text, caret, local, send, global, undo,
                       threads, alive>>
    BY <1>5 DEF RedoAct
  <2>2. Append(redo[c], op) \in Seq(Ops)
    BY <1>2, <1>3, <2>1
  <2> HIDE DEF op
  <2>3. nextID[c] + 1 \in Nat
    BY DEF TypeOK
  <2>4. TypeOK'
    BY <2>1, <2>2, <2>3 DEF TypeOK, threads
  <2> QED
    BY <2>1, <2>4 DEF HandedOver, threads
<1>6. CASE CreateSess(c) \/ JoinSess(c)
  BY <1>6 DEF CreateSess, JoinSess, TypeOK, HandedOver, stacks, threads
<1> QED
  BY <1>1, <1>4, <1>5, <1>6 DEF User

LEMMA TimerKeepsTypes ==
  ASSUME TypeInv, NEW c \in Clients, Timer(c)
  PROVE  TypeInv'
<1> USE DEF TypeInv
<1>0. /\ local[c] \in Seq(Ops) /\ undo[c] \in Seq(Ops) /\ redo[c] \in Seq(Ops)
      /\ send[c] \in Seq(Ops) /\ global[c] \in Seq(Ops) /\ batch[c] \in Seq(Ops)
  BY DEF TypeOK
<1>1. CASE GetLocalChangeSet(c)
  <2> DEFINE e(i) == [local[c][i] EXCEPT !.referID = Refer(c)]
             ops == [i \in DOMAIN local[c] |-> e(i)]
  <2>1. Refer(c) \in Nat \cup {NoRefer}
    <3>1. CASE global[c] = << >>
      BY <3>1 DEF Refer
    <3>2. CASE global[c] # << >>
      <4>1. Len(global[c]) \in 1..Len(global[c])
        BY <1>0, <3>2, LenProperties, EmptySeq
      <4>2. global[c][Len(global[c])] \in Ops
        BY <1>0, <4>1, ElementOfSeq
      <4> QED  BY <3>2, <4>2 DEF Refer, Ops, Operations
    <3> QED  BY <3>1, <3>2
  <2>2. \A i \in 1..Len(local[c]) : e(i) \in Ops
    <3> SUFFICES ASSUME NEW i \in 1..Len(local[c])  PROVE e(i) \in Ops
      OBVIOUS
    <3>1. local[c][i] \in Ops
      BY <1>0, ElementOfSeq
    <3> QED  BY <2>1, <3>1 DEF Ops, Operations
  <2> HIDE DEF e
  <2>3. ops \in Seq(Ops)
    <3>1. Len(local[c]) \in Nat /\ DOMAIN local[c] = 1..Len(local[c])
      BY <1>0
    <3> QED  BY <2>2, <3>1, IsASeq
  <2>4. /\ batch' = [batch EXCEPT ![c] = ops]
        /\ local' = [local EXCEPT ![c] = << >>]
        /\ timer' = [timer EXCEPT ![c] = IF local[c] = << >> THEN "undoRedo" ELSE "taken"]
        /\ UNCHANGED <<member, log, received, text, caret, send, global, undo, redo,
                       stackQ, uiQ, queueMade, nextID, alive>>
    BY <1>1 DEF GetLocalChangeSet, e
  <2> HIDE DEF ops
  <2>5. << >> \in Seq(Ops) /\ {"undoRedo", "taken"} \subseteq TimerSteps
    BY EmptySeq DEF TimerSteps
  <2>6. TypeOK'
    BY <2>3, <2>4, <2>5 DEF TypeOK
  <2> QED
    BY <2>4, <2>6 DEF HandedOver
<1>2. CASE BroadcastLocal(c)
  <2>1. log' \in Logs /\ Len(log) <= Len(log') /\ Len(log) \in Nat
    BY <1>0, <1>2, EventType, LenProperties DEF BroadcastLocal, TypeOK
  <2>2. TypeOK'
    BY <1>2, <2>1 DEF BroadcastLocal, TypeOK, Logs, stacks, TimerSteps
  <2>3. \A d \in Clients : received[d] <= Len(log')
    <3>1. Len(log') \in Nat
      BY <2>1, LenProperties DEF Logs
    <3>2. \A d \in Clients : received[d] \in Nat /\ received[d] <= Len(log)
      BY DEF TypeOK, HandedOver
    <3> QED  BY <2>1, <3>1, <3>2
  <2> QED
    BY <1>2, <2>2, <2>3 DEF BroadcastLocal, HandedOver
<1>3. CASE RefuseLocal(c)
  <2>1. /\ stackQ' \in [Clients -> Seq(Blocks)]
        /\ alive' \in [Clients -> BOOLEAN]
        /\ \A d \in Clients : \A i \in 1..Len(stackQ'[d]) :
              stackQ'[d][i].kind = "new" => stackQ'[d][i].at \in 1..received[d]
    BY <1>0, <1>3, DispatchBackType DEF RefuseLocal
  <2>2. << >> \in Seq(Ops)
    BY EmptySeq
  <2>3. TypeOK'
    BY <1>3, <2>1, <2>2 DEF RefuseLocal, TypeOK, stacks, TimerSteps
  <2> QED
    BY <1>3, <2>1, <2>3 DEF RefuseLocal, HandedOver
<1>4. CASE PutIntoSendStack(c)
  <2> DEFINE e(i) == [batch[c][i] EXCEPT !.state = "SEND"]
             ops == [i \in DOMAIN batch[c] |-> e(i)]
  <2>1. \A i \in 1..Len(batch[c]) : e(i) \in Ops
    <3> SUFFICES ASSUME NEW i \in 1..Len(batch[c])  PROVE e(i) \in Ops
      OBVIOUS
    <3>1. batch[c][i] \in Ops
      BY <1>0, ElementOfSeq
    <3> QED  BY <3>1 DEF Ops, Operations, States
  <2> HIDE DEF e
  <2>2. ops \in Seq(Ops)
    <3>1. Len(batch[c]) \in Nat /\ DOMAIN batch[c] = 1..Len(batch[c])
      BY <1>0
    <3> QED  BY <2>1, <3>1, IsASeq
  <2>3. /\ send' = [send EXCEPT ![c] = send[c] \o ops]
        /\ batch' = [batch EXCEPT ![c] = << >>]
        /\ timer' = [timer EXCEPT ![c] = "undoRedo"]
        /\ UNCHANGED <<member, log, received, text, caret, local, global, undo, redo,
                       stackQ, uiQ, queueMade, nextID, alive>>
    BY <1>4 DEF PutIntoSendStack, e
  <2> HIDE DEF ops
  <2>4. send[c] \o ops \in Seq(Ops) /\ << >> \in Seq(Ops)
    BY <1>0, <2>2, ConcatProperties, EmptySeq
  <2>5. TypeOK'
    BY <2>3, <2>4 DEF TypeOK, TimerSteps
  <2> QED
    BY <2>3, <2>5 DEF HandedOver
<1>5. CASE SendUndoAndRedo(c)
  <2> DEFINE ops == undo[c] \o redo[c]
  <2>1. ops \in Seq(Ops) /\ << >> \in Seq(Ops)
    BY <1>0, ConcatProperties, EmptySeq
  <2>2. /\ timer' = [timer EXCEPT ![c] = "idle"]
        /\ undo' = [undo EXCEPT ![c] = << >>]
        /\ redo' = [redo EXCEPT ![c] = << >>]
        /\ UNCHANGED <<member, received, text, caret, local, send, global, uiQ, queueMade,
                       batch, nextID>>
        /\ \/ UNCHANGED <<log, stackQ, alive>>
           \/ log' = log \o Event(ops) /\ UNCHANGED <<stackQ, alive>>
           \/ DispatchBack(c, "undoRedo", ops) /\ UNCHANGED log
    BY <1>5 DEF SendUndoAndRedo
  <2> HIDE DEF ops
  <2>3. /\ log' \in Logs
        /\ stackQ' \in [Clients -> Seq(Blocks)]
        /\ alive' \in [Clients -> BOOLEAN]
        /\ Len(log) <= Len(log')
        /\ \A d \in Clients : \A i \in 1..Len(stackQ'[d]) :
              stackQ'[d][i].kind = "new" => stackQ'[d][i].at \in 1..received[d]
    <3>0. log \in Logs /\ Len(log) \in Nat
      BY LenProperties DEF TypeOK, Logs
    <3>1. CASE UNCHANGED <<log, stackQ, alive>>
      BY <3>0, <3>1 DEF TypeOK, HandedOver
    <3>2. CASE log' = log \o Event(ops) /\ UNCHANGED <<stackQ, alive>>
      BY <2>1, <3>2, EventType DEF TypeOK, HandedOver
    <3>3. CASE DispatchBack(c, "undoRedo", ops) /\ UNCHANGED log
      BY <2>1, <3>0, <3>3, DispatchBackType
    <3> QED  BY <2>2, <3>1, <3>2, <3>3
  <2>4. TypeOK'
    BY <2>1, <2>2, <2>3 DEF TypeOK, Logs, TimerSteps
  <2>5. \A d \in Clients : received[d] <= Len(log')
    <3>1. Len(log) \in Nat /\ Len(log') \in Nat
      BY <2>3, LenProperties DEF Logs, TypeOK
    <3>2. \A d \in Clients : received[d] \in Nat /\ received[d] <= Len(log)
      BY DEF TypeOK, HandedOver
    <3> QED  BY <2>3, <3>1, <3>2
  <2> QED
    BY <2>2, <2>3, <2>4, <2>5 DEF HandedOver
<1> QED
  BY <1>1, <1>2, <1>3, <1>4, <1>5 DEF Timer

LEMMA ReceivedEventKeepsTypes ==
  ASSUME TypeInv, NEW c \in Clients, ReceivedEvent(c)
  PROVE  TypeInv'
<1> USE DEF TypeInv
<1>1. PICK last \in (received[c] + 1)..Len(log) :
        /\ stackQ' = [stackQ EXCEPT ![c] =
             stackQ[c] \o [i \in 1..(last - received[c]) |->
                     [kind |-> "new", at |-> received[c] + i, ops |-> << >>]]]
        /\ received' = [received EXCEPT ![c] = last]
  BY DEF ReceivedEvent
<1> DEFINE n == last - received[c]
           e(i) == [kind |-> "new", at |-> received[c] + i, ops |-> << >>]
           event == [i \in 1..n |-> e(i)]
<1>2. received[c] \in Nat /\ Len(log) \in Nat /\ stackQ[c] \in Seq(Blocks)
  BY LenProperties DEF TypeOK
<1>3. last \in Nat /\ n \in Nat /\ last <= Len(log) /\ received[c] + n = last /\ received[c] <= last
  BY <1>2
<1> HIDE DEF n
<1>4. \A i \in 1..n : e(i) \in Blocks
  BY <1>2, <1>3, EmptySeq DEF Blocks
<1>5. \A i \in 1..n : e(i).at \in 1..last
  BY <1>2, <1>3
<1>6. event \in Seq(Blocks)
  <2> HIDE DEF e
  <2> QED  BY <1>3, <1>4, IsASeq
<1>7. Len(event) = n /\ \A i \in 1..n : event[i] = e(i)
  <2> HIDE DEF e
  <2> QED  BY <1>3, <1>6, LenProperties
<1>8. stackQ' = [stackQ EXCEPT ![c] = stackQ[c] \o event]
  BY <1>1 DEF n
<1> HIDE DEF event, e
<1>9. /\ stackQ[c] \o event \in Seq(Blocks)
      /\ Len(stackQ[c] \o event) = Len(stackQ[c]) + n
      /\ \A i \in 1..(Len(stackQ[c]) + n) :
           (stackQ[c] \o event)[i] = IF i <= Len(stackQ[c]) THEN stackQ[c][i]
                                                           ELSE event[i - Len(stackQ[c])]
  BY <1>2, <1>6, <1>7, ConcatProperties
<1>10. TypeOK'
  <2>1. /\ received' = [received EXCEPT ![c] = last]
        /\ queueMade' = [queueMade EXCEPT ![c] = TRUE]
        /\ UNCHANGED <<member, log, text, caret, stacks, uiQ, timer, batch, nextID, alive>>
    BY <1>1 DEF ReceivedEvent
  <2>2. stackQ[c] \o event \in Seq(Blocks) /\ last \in Nat
    BY <1>3, <1>9
  <2> QED
    BY <1>8, <2>1, <2>2 DEF TypeOK, stacks
<1>11. HandedOver'
  <2>1. UNCHANGED log
    BY DEF ReceivedEvent
  <2>2. ASSUME NEW i \in 1..Len(stackQ'[c]), stackQ'[c][i].kind = "new"
        PROVE  stackQ'[c][i].at \in 1..last
    <3>0. stackQ'[c] = stackQ[c] \o event /\ Len(stackQ[c]) \in Nat
      BY <1>2, <1>8, LenProperties DEF TypeOK
    <3>1. CASE i <= Len(stackQ[c])
      <4>1. stackQ'[c][i] = stackQ[c][i] /\ i \in 1..Len(stackQ[c])
        BY <1>3, <1>9, <2>2, <3>0, <3>1
      <4>2. stackQ[c][i].at \in 1..received[c]
        BY <2>2, <4>1 DEF HandedOver
      <4> QED  BY <1>2, <1>3, <4>1, <4>2
    <3>2. CASE ~(i <= Len(stackQ[c]))
      <4>1. i - Len(stackQ[c]) \in 1..n
        BY <1>3, <1>9, <2>2, <3>0, <3>2
      <4>2. stackQ'[c][i] = event[i - Len(stackQ[c])]
        BY <1>3, <1>9, <2>2, <3>0, <3>2
      <4> QED  BY <1>5, <1>7, <4>1, <4>2
    <3> QED  BY <3>1, <3>2
  <2>3. /\ stackQ \in [Clients -> Seq(Blocks)] /\ received \in [Clients -> Nat]
        /\ \A d \in Clients : d # c => stackQ'[d] = stackQ[d] /\ received'[d] = received[d]
        /\ received'[c] = last
    BY <1>1, <1>8 DEF TypeOK
  <2> QED
    BY <1>3, <2>1, <2>2, <2>3 DEF HandedOver
<1> QED
  BY <1>10, <1>11

LEMMA StackQueueKeepsTypes ==
  ASSUME TypeInv, NEW c \in Clients, StackQueue(c)
  PROVE  TypeInv'
<1> USE DEF TypeInv
<1> DEFINE block == Head(stackQ[c])
<1>0. /\ stackQ[c] # << >>
      /\ stackQ' = [stackQ EXCEPT ![c] = Tail(stackQ[c])]
      /\ UNCHANGED <<member, log, received, text, caret, queueMade, timer, batch,
                     nextID, alive>>
  BY DEF StackQueue, AddNewOperation, AddBack
<1>1. stackQ[c] \in Seq(Blocks) /\ stackQ[c] # << >>
  BY <1>0 DEF TypeOK
<1>2. /\ block \in Blocks
      /\ Tail(stackQ[c]) \in Seq(Blocks)
      /\ Len(Tail(stackQ[c])) = Len(stackQ[c]) - 1
      /\ \A i \in 1..Len(Tail(stackQ[c])) : Tail(stackQ[c])[i] = stackQ[c][i + 1]
  BY <1>1, HeadTailProperties
<1>3. /\ stackQ' \in [Clients -> Seq(Blocks)]
      /\ HandedOver'
  <2>1. stackQ \in [Clients -> Seq(Blocks)]
    BY DEF TypeOK
  <2>2. ASSUME NEW i \in 1..Len(Tail(stackQ[c])), Tail(stackQ[c])[i].kind = "new"
        PROVE  Tail(stackQ[c])[i].at \in 1..received[c]
    <3>1. Len(stackQ[c]) \in Nat
      BY <1>1, LenProperties
    <3>2. i + 1 \in 1..Len(stackQ[c])
      BY <1>2, <3>1
    <3> QED  BY <1>2, <2>2, <3>2 DEF HandedOver
  <2> QED
    BY <1>0, <1>2, <2>1, <2>2 DEF HandedOver
<1>4. CASE AddNewOperation(c)
  <2>1. log[block.at] \in [op : Ops, order : Nat]
    <3>1. Len(stackQ[c]) \in Nat /\ Len(stackQ[c]) # 0 /\ stackQ[c][1] = block
      BY <1>1, LenProperties, EmptySeq
    <3>2. block.at \in 1..received[c] /\ received[c] <= Len(log) /\ received[c] \in Nat
      BY <1>4, <3>1 DEF AddNewOperation, HandedOver, TypeOK
    <3>3. log \in Seq([op : Ops, order : Nat]) /\ Len(log) \in Nat
      BY LenProperties DEF TypeOK
    <3>4. block.at \in 1..Len(log)
      BY <3>2, <3>3
    <3> QED  BY <3>3, <3>4, ElementOfSeq
  <2>2. Delivered(log[block.at]) \in Ops
    BY <2>1, DeliveredType
  <2>3. /\ \/ UpdateOperationFromSendToGlobal(c, Delivered(log[block.at]))
           \/ AddNewGlobalOperation(c, Delivered(log[block.at]))
        /\ UNCHANGED <<undo, redo>>
    BY <1>4 DEF AddNewOperation
  <2>4. /\ local' \in [Clients -> Seq(Ops)]
        /\ send' \in [Clients -> Seq(Ops)]
        /\ global' \in [Clients -> Seq(Ops)]
        /\ uiQ' \in [Clients -> Seq(Ops)]
    BY <2>2, <2>3, ConfirmationType, ForeignType
  <2>5. TypeOK'
    BY <1>0, <1>3, <2>3, <2>4 DEF TypeOK
  <2> QED  BY <1>3, <2>5
<1>5. CASE AddBack(c)
  <2>1. block.ops \in Seq(Ops)
    BY <1>2 DEF Blocks
  <2>2. local[c] \in Seq(Ops) /\ undo[c] \in Seq(Ops) /\ redo[c] \in Seq(Ops)
    BY DEF TypeOK
  <2>3. /\ InState(block.ops, {"UNDO"}) \in Seq(Ops)
        /\ InState(block.ops, States \ {"UNDO"}) \in Seq(Ops)
    BY <2>1, InStateIsStack DEF Ops
  <2>4. /\ block.ops \o local[c] \in Seq(Ops)
        /\ InState(block.ops, {"UNDO"}) \o undo[c] \in Seq(Ops)
        /\ InState(block.ops, States \ {"UNDO"}) \o redo[c] \in Seq(Ops)
    BY <2>1, <2>2, <2>3, ConcatProperties
  <2>5. /\ UNCHANGED <<send, global, uiQ>>
        /\ \/ /\ local' = [local EXCEPT ![c] = block.ops \o local[c]]
              /\ UNCHANGED <<undo, redo>>
           \/ /\ undo' = [undo EXCEPT ![c] = InState(block.ops, {"UNDO"}) \o undo[c]]
              /\ redo' = [redo EXCEPT ![c] = InState(block.ops, States \ {"UNDO"}) \o redo[c]]
              /\ UNCHANGED local
    BY <1>5 DEF AddBack
  <2>6. TypeOK'
    <3>1. /\ local' \in [Clients -> Seq(Ops)]
          /\ undo' \in [Clients -> Seq(Ops)]
          /\ redo' \in [Clients -> Seq(Ops)]
      <4>1. /\ local \in [Clients -> Seq(Ops)]
            /\ undo \in [Clients -> Seq(Ops)]
            /\ redo \in [Clients -> Seq(Ops)]
        BY DEF TypeOK
      <4>2. CASE /\ local' = [local EXCEPT ![c] = block.ops \o local[c]]
                 /\ UNCHANGED <<undo, redo>>
        BY <2>4, <4>1, <4>2
      <4>3. CASE /\ undo' = [undo EXCEPT ![c] = InState(block.ops, {"UNDO"}) \o undo[c]]
                 /\ redo' = [redo EXCEPT ![c] =
                               InState(block.ops, States \ {"UNDO"}) \o redo[c]]
                 /\ UNCHANGED local
        <5> DEFINE undone == InState(block.ops, {"UNDO"}) \o undo[c]
                   redone == InState(block.ops, States \ {"UNDO"}) \o redo[c]
        <5>1. undone \in Seq(Ops) /\ redone \in Seq(Ops)
          BY <2>4
        <5>2. /\ undo' = [undo EXCEPT ![c] = undone]
              /\ redo' = [redo EXCEPT ![c] = redone]
              /\ UNCHANGED local
          BY <4>3
        <5> HIDE DEF undone, redone
        <5> QED  BY <4>1, <5>1, <5>2
      <4> QED  BY <2>5, <4>2, <4>3
    <3>2. UNCHANGED <<send, global, uiQ>>
      BY <2>5
    <3> QED  BY <1>0, <1>3, <3>1, <3>2 DEF TypeOK
  <2> QED  BY <1>3, <2>6
<1> QED
  BY <1>4, <1>5 DEF StackQueue

LEMMA UpdateInputViewKeepsTypes ==
  ASSUME TypeInv, NEW c \in Clients, UpdateInputView(c)
  PROVE  TypeInv'
<1> USE DEF TypeInv
<1> DEFINE op == Head(uiQ[c])
<1>1. uiQ[c] \in Seq(Ops) /\ uiQ[c] # << >> /\ text[c] \in Seq(Glyphs) /\ caret[c] \in Nat
  BY DEF UpdateInputView, TypeOK
<1>2. op \in Ops /\ Tail(uiQ[c]) \in Seq(Ops)
  BY <1>1, HeadTailProperties
<1>3. /\ uiQ' = [uiQ EXCEPT ![c] = Tail(uiQ[c])]
      /\ UNCHANGED <<member, log, received, stacks, stackQ, queueMade, timer, batch, nextID>>
      /\ IF Within(op.range, text[c])
           THEN /\ text' = [text EXCEPT ![c] = Replace(text[c], op.range, op.replaceString)]
                /\ caret' = [caret EXCEPT ![c] = UpdateIndex(caret[c], op, NoParticipant)]
                /\ UNCHANGED alive
           ELSE /\ alive' = [alive EXCEPT ![c] = FALSE]
                /\ UNCHANGED <<text, caret>>
  BY DEF UpdateInputView
<1> HIDE DEF op
<1>4. op.range \in Ranges /\ op.replaceString \in Seq(Glyphs) /\ WellFormed(op)
  <2>1. op.range \in Ranges /\ op.replaceString \in Strings(Glyphs)
    BY <1>2 DEF Ops, Operations
  <2>2. WellFormed(op)
    BY <1>2, OperationsAreWellFormed DEF Ops
  <2> QED  BY <2>1, <2>2 DEF Strings
<1>5. CASE Within(op.range, text[c])
  <2>1. Replace(text[c], op.range, op.replaceString) \in Seq(Glyphs)
    BY <1>1, <1>4, <1>5, ReplaceIsText
  <2>2. UpdateIndex(caret[c], op, NoParticipant) \in Nat
    BY <1>1, <1>4, IndexIsNat
  <2>3. TypeOK'
    BY <1>2, <1>3, <1>5, <2>1, <2>2, ZenonT(30) DEF TypeOK, stacks
  <2> QED  BY <1>3, <2>3 DEF HandedOver
<1>6. CASE ~Within(op.range, text[c])
  <2>1. TypeOK'
    BY <1>2, <1>3, <1>6 DEF TypeOK, stacks
  <2> QED  BY <1>3, <2>1 DEF HandedOver
<1> QED
  BY <1>5, <1>6

LEMMA NextKeepsTypes == TypeInv /\ [Next]_vars => TypeInv'
<1> SUFFICES ASSUME TypeInv, [Next]_vars  PROVE TypeInv'
  OBVIOUS
<1>1. ASSUME NEW c \in Clients,
             User(c) \/ Timer(c) \/ ReceivedEvent(c) \/ StackQueue(c) \/ UpdateInputView(c)
      PROVE  TypeInv'
  BY <1>1, UserKeepsTypes, TimerKeepsTypes, ReceivedEventKeepsTypes,
     StackQueueKeepsTypes, UpdateInputViewKeepsTypes
<1>2. CASE UNCHANGED vars
  BY <1>2 DEF vars, stacks, threads, TypeInv, TypeOK, HandedOver
<1> QED
  BY <1>1, <1>2 DEF Next

THEOREM TypeInvariant == Spec => []TypeInv
<1> QED
  BY TypeInvInitially, NextKeepsTypes, PTL DEF Spec

\* Whatever the devices do, tear, lose or refuse, no range of an operation, in no
\* stack and no queue, ever gets a negative location or length, no character cut
\* or put grows beyond one, and the stack queue reads only what was handed over:
\* both ends of a range are carried past an operation by the same, monotone,
\* version of updateIndex.
THEOREM TypeCorrect == Spec => []TypeOK
<1>1. TypeInv => TypeOK
  BY DEF TypeInv
<1> QED
  BY <1>1, TypeInvariant, PTL

-----------------------------------------------------------------------------
(***************************************************************************)
(* GlobalFollowsLog, for any devices, edits, freedoms and number of inputs.*)
(*                                                                         *)
(* An operation of the session enters a global stack in one of two ways:   *)
(* as it came, or, at its author, from the send stack, where it is found   *)
(* by its operation ID alone. The second is the same operation because a   *)
(* device gives every operation ID to one operation, and so to one         *)
(* participant ID, even when it entered the session in between (OneAuthor).*)
(* The order is kept because the stack queue is served from its front, and *)
(* the places of the log that wait in it are sorted and lie behind those   *)
(* it has worked through (Sorted, Placing).                                *)
(***************************************************************************)

\* The identities of a sequence of operations, and of those a stack queue holds.
Ids(ops) == {Identity(ops[i]) : i \in 1..Len(ops)}

QueueIds(queue) == UNION {Ids(queue[i].ops) : i \in 1..Len(queue)}

\* The places of the log that wait in a queue, and that they wait in order.
Places(queue) == {queue[i].at : i \in {j \in 1..Len(queue) : queue[j].kind = "new"}}

Sorted(queue) ==
  \A i, j \in 1..Len(queue) :
    (i < j /\ queue[i].kind = "new" /\ queue[j].kind = "new") => queue[i].at < queue[j].at

-----------------------------------------------------------------------------
(* Sequences of operations.                                                *)

LEMMA IdsOfConcat ==
  ASSUME NEW s \in Seq(Ops), NEW t \in Seq(Ops)
  PROVE  Ids(s \o t) = Ids(s) \cup Ids(t)
<1> DEFINE st == s \o t
<1>1. /\ st \in Seq(Ops)
      /\ Len(st) = Len(s) + Len(t)
      /\ \A i \in 1..(Len(s) + Len(t)) : st[i] = IF i <= Len(s) THEN s[i] ELSE t[i - Len(s)]
  BY ConcatProperties
<1>2. Len(s) \in Nat /\ Len(t) \in Nat
  BY LenProperties
<1> HIDE DEF st
<1>3. ASSUME NEW i \in 1..Len(st)
      PROVE  Identity(st[i]) \in Ids(s) \cup Ids(t)
  <2>1. CASE i <= Len(s)
    <3>1. i \in 1..Len(s) /\ st[i] = s[i]
      BY <1>1, <1>2, <2>1
    <3> QED  BY <3>1 DEF Ids
  <2>2. CASE ~(i <= Len(s))
    <3>1. i - Len(s) \in 1..Len(t) /\ st[i] = t[i - Len(s)]
      BY <1>1, <1>2, <2>2
    <3> QED  BY <3>1 DEF Ids
  <2> QED  BY <2>1, <2>2
<1>4. ASSUME NEW i \in 1..Len(s)
      PROVE  Identity(s[i]) \in Ids(st)
  <2>1. i \in 1..Len(st) /\ st[i] = s[i]
    BY <1>1, <1>2
  <2> QED  BY <2>1 DEF Ids
<1>5. ASSUME NEW i \in 1..Len(t)
      PROVE  Identity(t[i]) \in Ids(st)
  <2>1. /\ Len(s) + i \in 1..(Len(s) + Len(t))
        /\ ~(Len(s) + i <= Len(s))
        /\ Len(s) + i - Len(s) = i
    BY <1>2
  <2>2. Len(s) + i \in 1..Len(st) /\ st[Len(s) + i] = t[i]
    BY <1>1, <2>1
  <2> QED  BY <2>2 DEF Ids
<1>6. Ids(st) \subseteq Ids(s) \cup Ids(t)
  BY <1>3 DEF Ids
<1>7. Ids(s) \subseteq Ids(st) /\ Ids(t) \subseteq Ids(st)
  BY <1>4, <1>5 DEF Ids
<1> QED
  BY <1>6, <1>7 DEF st

LEMMA Appended ==
  ASSUME NEW s \in Seq(Ops), NEW op
  PROVE  /\ Len(Append(s, op)) = Len(s) + 1
         /\ \A i \in 1..Len(s) : Append(s, op)[i] = s[i]
         /\ Append(s, op)[Len(s) + 1] = op
         /\ Len(s) \in Nat
<1> DEFINE O == Ops \cup {op}
<1>1. s \in Seq(O)
  <2>1. \A i \in 1..Len(s) : s[i] \in O
    BY ElementOfSeq
  <2> HIDE DEF O
  <2> QED  BY <2>1, LenProperties
<1> QED
  BY <1>1, AppendProperties, LenProperties

LEMMA IdsOfAppend ==
  ASSUME NEW s \in Seq(Ops), NEW op
  PROVE  Ids(Append(s, op)) = Ids(s) \cup {Identity(op)}
<1>1. 1..(Len(s) + 1) = 1..Len(s) \cup {Len(s) + 1}
  BY Appended
<1> QED
  BY <1>1, Appended DEF Ids

\* Changing other fields of the operations changes no identity.
LEMMA IdsOfCopy ==
  ASSUME NEW s \in Seq(Ops), NEW t, Len(t) = Len(s),
         \A i \in 1..Len(s) : Identity(t[i]) = Identity(s[i])
  PROVE  Ids(t) = Ids(s)
BY DEF Ids

LEMMA IdsOfEmpty == Ids(<< >>) = {}
BY EmptySeq DEF Ids

LEMMA IdsOfRemoveAt ==
  ASSUME NEW s \in Seq(Ops), NEW i \in 1..Len(s)
  PROVE  Ids(RemoveAt(s, i)) \subseteq Ids(s)
<1>1. Len(s) \in Nat /\ \A k \in 1..Len(s) : s[k] \in Ops
  BY LenProperties
<1> DEFINE front == SubSeq(s, 1, i - 1)
           back  == SubSeq(s, i + 1, Len(s))
<1>2. /\ front \in Seq(Ops)
      /\ Len(front) = i - 1
      /\ \A k \in 1..(i - 1) : front[k] = s[k]
  <2>1. /\ front \in Seq(Ops)
        /\ Len(front) = IF 1 <= i - 1 THEN (i - 1) - 1 + 1 ELSE 0
        /\ \A k \in 1..((i - 1) - 1 + 1) : front[k] = s[1 + k - 1]
    BY <1>1, SubSeqProperties
  <2> HIDE DEF front
  <2> QED  BY <1>1, <2>1
<1>3. /\ back \in Seq(Ops)
      /\ Len(back) = Len(s) - i
      /\ \A k \in 1..(Len(s) - i) : back[k] = s[i + k]
  <2>1. /\ back \in Seq(Ops)
        /\ Len(back) = IF i + 1 <= Len(s) THEN Len(s) - (i + 1) + 1 ELSE 0
        /\ \A k \in 1..(Len(s) - (i + 1) + 1) : back[k] = s[i + 1 + k - 1]
    BY <1>1, SubSeqProperties
  <2> HIDE DEF back
  <2> QED  BY <1>1, <2>1
<1> HIDE DEF front, back
<1>4. Ids(front) \subseteq Ids(s)
  <2>1. \A k \in 1..(i - 1) : k \in 1..Len(s)
    BY <1>1
  <2> QED  BY <1>2, <2>1 DEF Ids
<1>5. Ids(back) \subseteq Ids(s)
  <2>1. \A k \in 1..(Len(s) - i) : i + k \in 1..Len(s)
    BY <1>1
  <2> QED  BY <1>3, <2>1 DEF Ids
<1>6. Ids(front \o back) = Ids(front) \cup Ids(back)
  BY <1>2, <1>3, IdsOfConcat
<1> QED
  BY <1>4, <1>5, <1>6 DEF RemoveAt, front, back

\* What addChangeSetToUndoAndRedo picks out was there before.
LEMMA IdsOfInState ==
  ASSUME NEW s \in Seq(Ops), NEW S
  PROVE  Ids(InState(s, S)) \subseteq Ids(s)
<1> DEFINE O == {s[i] : i \in 1..Len(s)}
           kept == InState(s, S)
<1>1. s \in Seq(O)
  BY LenProperties
<1> HIDE DEF O
<1>2. kept \in Seq(O)
  BY <1>1, InStateIsStack
<1> HIDE DEF kept
<1>3. \A i \in 1..Len(kept) : kept[i] \in O
  BY <1>2
<1> QED
  BY <1>3 DEF Ids, O, kept

-----------------------------------------------------------------------------
(* The stack queue.                                                        *)

LEMMA QueueAppended ==
  ASSUME NEW queue \in Seq(Blocks), NEW block \in Blocks, block.kind # "new", Sorted(queue)
  PROVE  /\ Sorted(Append(queue, block))
         /\ Places(Append(queue, block)) = Places(queue)
         /\ QueueIds(Append(queue, block)) = QueueIds(queue) \cup Ids(block.ops)
<1> DEFINE longer == Append(queue, block)
           n == Len(queue)
<1>1. /\ n \in Nat
      /\ Len(longer) = n + 1
      /\ \A i \in 1..n : longer[i] = queue[i]
      /\ longer[n + 1] = block
  BY LenProperties, AppendProperties
<1> HIDE DEF longer, n
<1>2. 1..Len(longer) = 1..n \cup {n + 1}
  BY <1>1
<1>3. \A i \in 1..Len(longer) : longer[i].kind = "new" => i \in 1..n
  BY <1>1, <1>2
<1>4. Sorted(longer)
  BY <1>1, <1>3 DEF Sorted, n
<1>5. Places(longer) = Places(queue)
  BY <1>1, <1>2, <1>3 DEF Places, n
<1>6. QueueIds(longer) = QueueIds(queue) \cup Ids(block.ops)
  BY <1>1, <1>2 DEF QueueIds, n
<1> QED
  BY <1>4, <1>5, <1>6 DEF longer

LEMMA QueueServed ==
  ASSUME NEW queue \in Seq(Blocks), queue # << >>, Sorted(queue)
  PROVE  /\ Sorted(Tail(queue))
         /\ Places(Tail(queue)) \subseteq Places(queue)
         /\ QueueIds(Tail(queue)) \subseteq QueueIds(queue)
         /\ Ids(Head(queue).ops) \subseteq QueueIds(queue)
         /\ Head(queue).kind = "new" =>
              /\ Head(queue).at \in Places(queue)
              /\ \A p \in Places(Tail(queue)) : Head(queue).at < p
<1> DEFINE rest == Tail(queue)
           head == Head(queue)
<1>1. /\ Len(queue) \in Nat /\ Len(queue) # 0
      /\ Len(rest) = Len(queue) - 1
      /\ \A i \in 1..Len(rest) : rest[i] = queue[i + 1]
      /\ head = queue[1]
  BY LenProperties, HeadTailProperties, EmptySeq
<1> HIDE DEF rest, head
<1>2. \A i \in 1..Len(rest) : i + 1 \in 1..Len(queue) /\ 1 < i + 1
  BY <1>1
<1>3. 1 \in 1..Len(queue)
  BY <1>1
<1>4. Sorted(rest)
  <2> SUFFICES ASSUME NEW i \in 1..Len(rest), NEW j \in 1..Len(rest), i < j,
                      rest[i].kind = "new", rest[j].kind = "new"
               PROVE  rest[i].at < rest[j].at
    BY DEF Sorted
  <2>1. i + 1 < j + 1
    BY <1>1
  <2> QED  BY <1>1, <1>2, <2>1 DEF Sorted
<1>5. Places(rest) \subseteq Places(queue)
  BY <1>1, <1>2 DEF Places
<1>6. QueueIds(rest) \subseteq QueueIds(queue)
  BY <1>1, <1>2 DEF QueueIds
<1>7. Ids(head.ops) \subseteq QueueIds(queue)
  BY <1>1, <1>3 DEF QueueIds
<1>8. ASSUME head.kind = "new"
      PROVE  /\ head.at \in Places(queue)
             /\ \A p \in Places(rest) : head.at < p
  <2>1. head.at \in Places(queue)
    BY <1>1, <1>3, <1>8 DEF Places
  <2>2. ASSUME NEW i \in 1..Len(rest), rest[i].kind = "new"
        PROVE  head.at < rest[i].at
    BY <1>1, <1>2, <1>3, <1>8, <2>2 DEF Sorted
  <2> QED  BY <2>1, <2>2 DEF Places
<1> QED
  BY <1>4, <1>5, <1>6, <1>7, <1>8 DEF rest, head

\* An event is put behind what waits: the places from first + 1 to first + n.
LEMMA QueueExtended ==
  ASSUME NEW queue \in Seq(Blocks), Sorted(queue), NEW first \in Nat, NEW n \in Nat,
         \A p \in Places(queue) : p \in Nat /\ p <= first
  PROVE  LET event  == [i \in 1..n |-> [kind |-> "new", at |-> first + i, ops |-> << >>]]
             longer == queue \o event
         IN  /\ Sorted(longer)
             /\ \A p \in Places(longer) : p \in Places(queue) \/ p \in (first + 1)..(first + n)
             /\ QueueIds(longer) = QueueIds(queue)
<1> DEFINE e(i) == [kind |-> "new", at |-> first + i, ops |-> << >>]
           event == [i \in 1..n |-> e(i)]
           longer == queue \o event
           m == Len(queue)
<1>1. \A i \in 1..n : e(i) \in Blocks /\ e(i).at = first + i /\ e(i).ops = << >>
  BY EmptySeq DEF Blocks
<1>2. event \in Seq(Blocks) /\ Len(event) = n /\ \A i \in 1..n : event[i] = e(i)
  <2> HIDE DEF e
  <2>1. event \in Seq(Blocks)
    BY <1>1, IsASeq
  <2> QED  BY <2>1, LenProperties
<1> HIDE DEF event, e
<1>3. /\ m \in Nat
      /\ Len(longer) = m + n
      /\ \A i \in 1..(m + n) : longer[i] = IF i <= m THEN queue[i] ELSE event[i - m]
  BY <1>2, LenProperties, ConcatProperties
<1> HIDE DEF longer, m
<1>4. \A i \in 1..Len(longer) :
        \/ i \in 1..m /\ longer[i] = queue[i]
        \/ i - m \in 1..n /\ i > m /\ longer[i].at = first + (i - m) /\ longer[i].ops = << >>
  <2> SUFFICES ASSUME NEW i \in 1..Len(longer)
               PROVE  \/ i \in 1..m /\ longer[i] = queue[i]
                      \/ /\ i - m \in 1..n /\ i > m
                         /\ longer[i].at = first + (i - m) /\ longer[i].ops = << >>
    OBVIOUS
  <2>1. CASE i <= m
    BY <1>3, <2>1
  <2>2. CASE ~(i <= m)
    <3>1. i - m \in 1..n /\ i > m /\ longer[i] = event[i - m]
      BY <1>3, <2>2
    <3> QED  BY <1>1, <1>2, <3>1
  <2> QED  BY <2>1, <2>2
<1>5. \A i \in 1..m : i \in 1..Len(longer) /\ longer[i] = queue[i]
  BY <1>3
<1>6. \A i \in 1..m : queue[i].kind = "new" => queue[i].at \in Nat /\ queue[i].at <= first
  BY DEF Places, m
<1>7. Sorted(longer)
  <2> SUFFICES ASSUME NEW i \in 1..Len(longer), NEW j \in 1..Len(longer), i < j,
                      longer[i].kind = "new", longer[j].kind = "new"
               PROVE  longer[i].at < longer[j].at
    BY DEF Sorted
  <2>1. CASE i \in 1..m /\ j \in 1..m
    BY <1>5, <2>1 DEF Sorted, m
  <2>2. CASE i \in 1..m /\ j \notin 1..m
    <3>1. longer[i].at \in Nat /\ longer[i].at <= first
      BY <1>5, <1>6, <2>2
    <3>2. j - m \in 1..n /\ longer[j].at = first + (j - m)
      BY <1>4, <2>2
    <3> QED  BY <1>3, <3>1, <3>2
  <2>3. CASE i \notin 1..m
    <3>1. i - m \in 1..n /\ longer[i].at = first + (i - m) /\ i > m
      BY <1>4, <2>3
    <3>2. j \notin 1..m
      BY <1>3, <3>1
    <3>3. j - m \in 1..n /\ longer[j].at = first + (j - m)
      BY <1>4, <3>2
    <3> QED  BY <1>3, <3>1, <3>3
  <2> QED  BY <2>1, <2>2, <2>3
<1>8. ASSUME NEW i \in 1..Len(longer), longer[i].kind = "new"
      PROVE  longer[i].at \in Places(queue) \/ longer[i].at \in (first + 1)..(first + n)
  <2>1. CASE i \in 1..m /\ longer[i] = queue[i]
    BY <1>8, <2>1 DEF Places, m
  <2>2. CASE i - m \in 1..n /\ longer[i].at = first + (i - m)
    BY <1>3, <2>2
  <2> QED  BY <1>4, <2>1, <2>2
<1>9. QueueIds(longer) = QueueIds(queue)
  <2>1. ASSUME NEW i \in 1..Len(longer)
        PROVE  Ids(longer[i].ops) \subseteq QueueIds(queue)
    <3>1. CASE i \in 1..m /\ longer[i] = queue[i]
      BY <3>1 DEF QueueIds, m
    <3>2. CASE longer[i].ops = << >>
      BY <3>2, IdsOfEmpty
    <3> QED  BY <1>4, <3>1, <3>2
  <2>2. ASSUME NEW i \in 1..m
        PROVE  Ids(queue[i].ops) \subseteq QueueIds(longer)
    BY <1>5 DEF QueueIds
  <2>3. QueueIds(longer) \subseteq QueueIds(queue)
    BY <2>1 DEF QueueIds
  <2>4. QueueIds(queue) \subseteq QueueIds(longer)
    BY <2>2 DEF QueueIds, m
  <2> QED  BY <2>3, <2>4
<1> QED
  BY <1>7, <1>8, <1>9 DEF Places, longer, event, e

\* The place at the front of the queue leaves it when it is served.
LEMMA PlacesServed ==
  ASSUME NEW queue \in Seq(Blocks), queue # << >>
  PROVE  Places(queue) = IF Head(queue).kind = "new"
                           THEN Places(Tail(queue)) \cup {Head(queue).at}
                           ELSE Places(Tail(queue))
<1> DEFINE rest == Tail(queue)
           head == Head(queue)
<1>1. /\ Len(queue) \in Nat /\ Len(queue) # 0
      /\ Len(rest) = Len(queue) - 1
      /\ \A i \in 1..Len(rest) : rest[i] = queue[i + 1]
      /\ head = queue[1]
  BY LenProperties, HeadTailProperties, EmptySeq
<1> HIDE DEF rest, head
<1>2. \A i \in 1..Len(rest) : i + 1 \in 1..Len(queue)
  BY <1>1
<1>3. \A i \in 1..Len(queue) : i = 1 \/ (i - 1 \in 1..Len(rest) /\ queue[i] = rest[i - 1])
  BY <1>1
<1>4. 1 \in 1..Len(queue)
  BY <1>1
<1>5. ASSUME NEW p \in Places(rest)
      PROVE  p \in Places(queue)
  BY <1>1, <1>2 DEF Places
<1>6. ASSUME NEW p \in Places(queue)
      PROVE  p \in Places(rest) \/ (head.kind = "new" /\ p = head.at)
  <2>1. PICK i \in 1..Len(queue) : queue[i].kind = "new" /\ p = queue[i].at
    BY DEF Places
  <2>2. CASE i = 1
    BY <1>1, <2>1, <2>2
  <2>3. CASE i # 1
    <3>1. i - 1 \in 1..Len(rest) /\ rest[i - 1].kind = "new" /\ rest[i - 1].at = p
      BY <1>3, <2>1, <2>3
    <3> QED  BY <3>1 DEF Places
  <2> QED  BY <2>2, <2>3
<1>7. head.kind = "new" => head.at \in Places(queue)
  BY <1>1, <1>4 DEF Places
<1> QED
  BY <1>5, <1>6, <1>7 DEF rest, head

\* An event adds the places it brings.
LEMMA PlacesExtended ==
  ASSUME NEW queue \in Seq(Blocks), NEW first \in Nat, NEW n \in Nat
  PROVE  LET event == [i \in 1..n |-> [kind |-> "new", at |-> first + i, ops |-> << >>]]
         IN  Places(queue \o event) = Places(queue) \cup (first + 1)..(first + n)
<1> DEFINE e(i) == [kind |-> "new", at |-> first + i, ops |-> << >>]
           event == [i \in 1..n |-> e(i)]
           longer == queue \o event
           m == Len(queue)
<1>1. \A i \in 1..n : e(i) \in Blocks /\ e(i).at = first + i /\ e(i).kind = "new"
  BY EmptySeq DEF Blocks
<1>2. event \in Seq(Blocks) /\ Len(event) = n /\ \A i \in 1..n : event[i] = e(i)
  <2> HIDE DEF e
  <2>1. event \in Seq(Blocks)
    BY <1>1, IsASeq
  <2> QED  BY <2>1, LenProperties
<1> HIDE DEF event, e
<1>3. /\ m \in Nat
      /\ Len(longer) = m + n
      /\ \A i \in 1..(m + n) : longer[i] = IF i <= m THEN queue[i] ELSE event[i - m]
  BY <1>2, LenProperties, ConcatProperties
<1> HIDE DEF longer, m
<1>4. ASSUME NEW p \in Places(longer)
      PROVE  p \in Places(queue) \/ p \in (first + 1)..(first + n)
  <2>1. PICK i \in 1..Len(longer) : longer[i].kind = "new" /\ p = longer[i].at
    BY DEF Places
  <2>2. CASE i <= m
    <3>1. i \in 1..m /\ longer[i] = queue[i]
      BY <1>3, <2>2
    <3> QED  BY <2>1, <3>1 DEF Places, m
  <2>3. CASE ~(i <= m)
    <3>1. i - m \in 1..n /\ longer[i] = event[i - m]
      BY <1>3, <2>3
    <3>2. p = first + (i - m)
      BY <1>1, <1>2, <2>1, <3>1
    <3> QED  BY <1>3, <3>1, <3>2
  <2> QED  BY <2>2, <2>3
<1>5. ASSUME NEW p \in Places(queue)
      PROVE  p \in Places(longer)
  <2>1. PICK i \in 1..m : queue[i].kind = "new" /\ p = queue[i].at
    BY DEF Places, m
  <2>2. i \in 1..Len(longer) /\ longer[i] = queue[i]
    BY <1>3
  <2> QED  BY <2>1, <2>2 DEF Places
<1>6. ASSUME NEW p \in (first + 1)..(first + n)
      PROVE  p \in Places(longer)
  <2>1. p - first \in 1..n
    OBVIOUS
  <2>2. PICK i \in 1..n : p = first + i
    BY <2>1
  <2>3. m + i \in 1..Len(longer) /\ longer[m + i] = event[i]
    <3>1. m + i \in 1..(m + n) /\ ~(m + i <= m) /\ (m + i) - m = i
      BY <1>3
    <3> QED  BY <1>3, <3>1
  <2>4. longer[m + i].kind = "new" /\ longer[m + i].at = p
    BY <1>1, <1>2, <2>2, <2>3
  <2> QED  BY <2>3, <2>4 DEF Places
<1>7. Places(longer) = Places(queue) \cup (first + 1)..(first + n)
  BY <1>4, <1>5, <1>6
<1> QED
  BY <1>7 DEF longer, event, e

-----------------------------------------------------------------------------
(* One author for every operation ID of a device.                          *)

\* What a device holds of its own, and what the session has.
Held(c) ==
  Ids(local[c]) \cup Ids(batch[c]) \cup Ids(send[c]) \cup Ids(undo[c]) \cup Ids(redo[c])
    \cup QueueIds(stackQ[c])

LogIds == {Identity(log[k].op) : k \in 1..Len(log)}

Known(c) == Held(c) \cup (LogIds \cap ({c} \X Nat))

\* A device gives its operations its own participant ID, or none before it is in
\* the session, and no operation ID twice.
OneAuthor ==
  \A c \in Clients :
    /\ \A p \in Held(c) : p[1] \in {c, NoParticipant}
    /\ \A p \in Known(c) : p \in Participants \X Nat /\ p[2] < nextID[c]
    /\ \A p, q \in Known(c) : p[2] = q[2] => p = q

\* A step of c that makes no operation, and sends at most its own.
KeepsIdentities(c) ==
  /\ \A d \in Clients : Held(d)' \subseteq Held(d)
  /\ LogIds' \subseteq LogIds \cup Held(c)

LEMMA OneAuthorKept ==
  ASSUME OneAuthor, NEW c \in Clients, KeepsIdentities(c), UNCHANGED nextID
  PROVE  OneAuthor'
<1>1. ASSUME NEW d \in Clients
      PROVE  Known(d)' \subseteq Known(d)
  <2> SUFFICES ASSUME NEW p \in LogIds' \cap ({d} \X Nat)
               PROVE  p \in Known(d)
    BY DEF Known, KeepsIdentities
  <2>1. CASE p \in LogIds
    BY <2>1 DEF Known
  <2>2. CASE p \in Held(c)
    <3>1. p[1] = d /\ p[1] \in {c, NoParticipant}
      BY <2>2 DEF OneAuthor
    <3>2. d = c
      BY <3>1, ParticipantAssumption
    <3> QED  BY <2>2, <3>2 DEF Known
  <2> QED  BY <2>1, <2>2 DEF KeepsIdentities
<1> QED
  BY <1>1 DEF OneAuthor, KeepsIdentities, Participants

LEMMA OneAuthorExtended ==
  ASSUME OneAuthor, TypeOK, NEW c \in Clients,
         \A d \in Clients : d # c => Held(d)' \subseteq Held(d),
         Held(c)' \subseteq Held(c) \cup {<<ParticipantID(c), nextID[c]>>},
         LogIds' = LogIds,
         nextID' = [nextID EXCEPT ![c] = @ + 1]
  PROVE  OneAuthor'
<1> DEFINE new == <<ParticipantID(c), nextID[c]>>
<1>1. /\ new \in Participants \X Nat
      /\ new[1] \in {c, NoParticipant}
      /\ new[2] = nextID[c]
      /\ nextID[c] \in Nat
  BY ParticipantIDType DEF ParticipantID, TypeOK, Participants
<1>2. nextID'[c] = nextID[c] + 1 /\ \A d \in Clients : d # c => nextID'[d] = nextID[d]
  BY DEF TypeOK
<1>3. Known(c)' \subseteq Known(c) \cup {new}
  BY DEF Known
<1>4. \A d \in Clients : d # c => Known(d)' \subseteq Known(d)
  BY DEF Known
<1> HIDE DEF new
<1>5. \A p \in Known(c) : p \in Participants \X Nat /\ p[2] < nextID[c] /\ p[2] \in Nat
  BY DEF OneAuthor
<1>6. ASSUME NEW p \in Known(c)'
      PROVE  p \in Participants \X Nat /\ p[2] < nextID'[c]
  <2>1. CASE p \in Known(c)
    BY <1>1, <1>2, <1>5, <2>1
  <2>2. CASE p = new
    BY <1>1, <1>2, <2>2
  <2> QED  BY <1>3, <2>1, <2>2
<1>7. ASSUME NEW p \in Known(c)', NEW q \in Known(c)', p[2] = q[2]
      PROVE  p = q
  <2>1. CASE p \in Known(c) /\ q \in Known(c)
    BY <1>7, <2>1 DEF OneAuthor
  <2>2. CASE p = new /\ q = new
    BY <2>2
  <2>3. CASE p \in Known(c) /\ q = new
    BY <1>1, <1>5, <1>7, <2>3
  <2>4. CASE p = new /\ q \in Known(c)
    BY <1>1, <1>5, <1>7, <2>4
  <2> QED  BY <1>3, <2>1, <2>2, <2>3, <2>4
<1>8. \A p \in Held(c)' : p[1] \in {c, NoParticipant}
  BY <1>1 DEF OneAuthor, new
<1>9. ASSUME NEW d \in Clients, d # c
      PROVE  /\ \A p \in Held(d)' : p[1] \in {d, NoParticipant}
             /\ \A p \in Known(d)' : p \in Participants \X Nat /\ p[2] < nextID'[d]
             /\ \A p, q \in Known(d)' : p[2] = q[2] => p = q
  BY <1>2, <1>4, <1>9 DEF OneAuthor
<1> QED
  BY <1>6, <1>7, <1>8, <1>9 DEF OneAuthor, Participants

-----------------------------------------------------------------------------
(* The order of a global stack.                                            *)

\* f gives the place in the log of every operation of c's global stack.
Placing(c, f) ==
  /\ f \in [1..Len(global[c]) -> 1..received[c]]
  /\ \A i, j \in 1..Len(global[c]) : i < j => f[i] < f[j]
  /\ \A i \in 1..Len(global[c]) : Identity(global[c][i]) = Identity(log[f[i]].op)
  /\ \A i \in 1..Len(global[c]) : \A p \in Places(stackQ[c]) : f[i] < p

InOrderOf(c) ==
  /\ Sorted(stackQ[c])
  /\ Places(stackQ[c]) # {} => member[c]
  /\ \E f : Placing(c, f)

InOrder == \A c \in Clients : InOrderOf(c)

DeliveryInv == TypeInv /\ OneAuthor /\ InOrder

\* The log keeps what it has.
LogKept == \A k \in 1..Len(log) : log'[k] = log[k]

LEMMA InOrderKept ==
  ASSUME TypeInv, NEW d \in Clients, InOrderOf(d), LogKept,
         global'[d] = global[d], received'[d] = received[d], member[d] => member'[d],
         Sorted(stackQ'[d]), Places(stackQ'[d]) \subseteq Places(stackQ[d])
  PROVE  InOrderOf(d)'
<1>1. PICK f : Placing(d, f)
  BY DEF InOrderOf
<1>2. received[d] \in Nat /\ received[d] <= Len(log) /\ Len(log) \in Nat
  BY LenProperties DEF TypeInv, TypeOK, HandedOver
<1>3. \A i \in 1..Len(global[d]) : f[i] \in 1..Len(log)
  BY <1>1, <1>2 DEF Placing
<1>4. \A i \in 1..Len(global[d]) : Identity(global[d][i]) = Identity(log'[f[i]].op)
  BY <1>1, <1>3 DEF Placing, LogKept
<1>5. Placing(d, f)'
  BY <1>1, <1>4 DEF Placing
<1> QED
  BY <1>5 DEF InOrderOf

\* A broadcast adds the identities of its operations to the log.
LEMMA EventKeepsLog ==
  ASSUME TypeOK, NEW ops \in Seq(Ops), log' = log \o Event(ops)
  PROVE  LogKept /\ LogIds' \subseteq LogIds \cup Ids(ops)
<1> DEFINE event == Event(ops)
           m == Len(log)
<1>1. /\ log \in Logs /\ event \in Logs
      /\ m \in Nat /\ Len(ops) \in Nat /\ Len(event) = Len(ops)
      /\ \A i \in 1..Len(ops) : event[i].op = ops[i]
  BY EventType
<1> HIDE DEF event
<1>2. /\ Len(log') = m + Len(ops)
      /\ \A k \in 1..(m + Len(ops)) : log'[k] = IF k <= m THEN log[k] ELSE event[k - m]
  <2> DEFINE Entry == [op : Ops, order : Nat]
  <2>1. log \in Seq(Entry) /\ event \in Seq(Entry)
    BY <1>1 DEF Logs
  <2> HIDE DEF Entry
  <2>2. /\ Len(log \o event) = Len(log) + Len(event)
        /\ \A k \in 1..(Len(log) + Len(event)) :
             (log \o event)[k] = IF k <= Len(log) THEN log[k] ELSE event[k - Len(log)]
    BY <2>1, ConcatProperties
  <2>3. log' = log \o event
    BY DEF event
  <2> QED  BY <1>1, <2>2, <2>3
<1> HIDE DEF m
<1>3. LogKept
  BY <1>1, <1>2 DEF LogKept, m
<1>4. ASSUME NEW k \in 1..Len(log')
      PROVE  Identity(log'[k].op) \in LogIds \cup Ids(ops)
  <2>1. CASE k <= m
    <3>1. k \in 1..m /\ log'[k] = log[k]
      BY <1>1, <1>2, <2>1
    <3> QED  BY <3>1 DEF LogIds, m
  <2>2. CASE ~(k <= m)
    <3>1. k - m \in 1..Len(ops) /\ log'[k] = event[k - m]
      BY <1>1, <1>2, <2>2
    <3>2. log'[k].op = ops[k - m]
      BY <1>1, <3>1
    <3> QED  BY <3>1, <3>2 DEF Ids
  <2> QED  BY <2>1, <2>2
<1> QED
  BY <1>3, <1>4 DEF LogIds

-----------------------------------------------------------------------------
(* What a step of one device leaves to show.                               *)

\* The devices other than c keep all that is theirs.
OthersKept(c) ==
  \A d \in Clients : d # c =>
    /\ local'[d] = local[d] /\ batch'[d] = batch[d] /\ send'[d] = send[d]
    /\ undo'[d] = undo[d] /\ redo'[d] = redo[d] /\ stackQ'[d] = stackQ[d]
    /\ global'[d] = global[d] /\ received'[d] = received[d]
    /\ member[d] => member'[d]

\* What c has is bounded by what it had and the identities N.
GainsAtMost(c, N) ==
  /\ Ids(local'[c]) \subseteq Held(c) \cup N
  /\ Ids(batch'[c]) \subseteq Held(c) \cup N
  /\ Ids(send'[c]) \subseteq Held(c) \cup N
  /\ Ids(undo'[c]) \subseteq Held(c) \cup N
  /\ Ids(redo'[c]) \subseteq Held(c) \cup N
  /\ QueueIds(stackQ'[c]) \subseteq Held(c) \cup N

LEMMA OthersInOrder ==
  ASSUME DeliveryInv, NEW c \in Clients, OthersKept(c), LogKept, InOrderOf(c)'
  PROVE  InOrder'
<1>1. ASSUME NEW d \in Clients, d # c
      PROVE  InOrderOf(d)'
  <2>1. /\ stackQ'[d] = stackQ[d] /\ global'[d] = global[d]
        /\ received'[d] = received[d] /\ (member[d] => member'[d])
    BY <1>1 DEF OthersKept
  <2>2. TypeInv /\ InOrderOf(d) /\ Sorted(stackQ[d])
    BY DEF DeliveryInv, InOrder, InOrderOf
  <2>3. Sorted(stackQ'[d]) /\ Places(stackQ'[d]) \subseteq Places(stackQ[d])
    BY <2>1, <2>2
  <2> QED  BY <2>1, <2>2, <2>3, InOrderKept
<1> QED
  BY <1>1 DEF InOrder

LEMMA OthersHold ==
  ASSUME NEW c \in Clients, OthersKept(c)
  PROVE  \A d \in Clients : d # c => Held(d)' = Held(d)
BY DEF OthersKept, Held

\* A step that makes no operation, and sends at most c's own.
LEMMA StepThatMoves ==
  ASSUME DeliveryInv, NEW c \in Clients, OthersKept(c), LogKept, InOrderOf(c)',
         GainsAtMost(c, {}), LogIds' \subseteq LogIds \cup Held(c), UNCHANGED nextID
  PROVE  OneAuthor' /\ InOrder'
<1>1. Held(c)' \subseteq Held(c)
  BY DEF Held, GainsAtMost
<1>2. KeepsIdentities(c)
  BY <1>1, OthersHold DEF KeepsIdentities
<1>3. OneAuthor'
  BY <1>2, OneAuthorKept DEF DeliveryInv
<1> QED
  BY <1>3, OthersInOrder

\* A step in which the user of c makes an operation.
LEMMA StepThatMakes ==
  ASSUME DeliveryInv, NEW c \in Clients, OthersKept(c), UNCHANGED log, InOrderOf(c)',
         GainsAtMost(c, {<<ParticipantID(c), nextID[c]>>}),
         nextID' = [nextID EXCEPT ![c] = @ + 1]
  PROVE  OneAuthor' /\ InOrder'
<1>1. Held(c)' \subseteq Held(c) \cup {<<ParticipantID(c), nextID[c]>>}
  BY DEF Held, GainsAtMost
<1>2. LogIds' = LogIds /\ LogKept
  BY DEF LogIds, LogKept
<1>3. OneAuthor'
  BY <1>1, <1>2, OthersHold, OneAuthorExtended DEF DeliveryInv, TypeInv
<1> QED
  BY <1>2, <1>3, OthersInOrder

\* A step that leaves c's global stack and its queue alone.
LEMMA QueueAlone ==
  ASSUME DeliveryInv, NEW c \in Clients, LogKept,
         global'[c] = global[c], received'[c] = received[c], member[c] => member'[c],
         stackQ'[c] = stackQ[c]
  PROVE  InOrderOf(c)'
<1>1. TypeInv /\ InOrderOf(c) /\ Sorted(stackQ[c])
  BY DEF DeliveryInv, InOrder, InOrderOf
<1>2. Sorted(stackQ'[c]) /\ Places(stackQ'[c]) \subseteq Places(stackQ[c])
  BY <1>1
<1> QED
  BY <1>1, <1>2, InOrderKept

-----------------------------------------------------------------------------
(* One lemma for each group of actions.                                    *)

LEMMA UserDelivers ==
  ASSUME DeliveryInv, NEW c \in Clients, User(c)
  PROVE  OneAuthor' /\ InOrder'
<1> DEFINE id == <<ParticipantID(c), nextID[c]>>
<1>0. TypeOK /\ TypeInv
  BY DEF DeliveryInv, TypeInv
<1>1. /\ local[c] \in Seq(Ops) /\ undo[c] \in Seq(Ops) /\ redo[c] \in Seq(Ops)
      /\ local \in [Clients -> Seq(Ops)] /\ undo \in [Clients -> Seq(Ops)]
      /\ redo \in [Clients -> Seq(Ops)]
  BY <1>0 DEF TypeOK
<1>2. /\ Ids(local[c]) \subseteq Held(c) /\ Ids(batch[c]) \subseteq Held(c)
      /\ Ids(send[c]) \subseteq Held(c) /\ Ids(undo[c]) \subseteq Held(c)
      /\ Ids(redo[c]) \subseteq Held(c) /\ QueueIds(stackQ[c]) \subseteq Held(c)
  BY DEF Held
<1>3. ASSUME UNCHANGED <<member, log, received, send, global, stackQ, batch>>,
             nextID' = [nextID EXCEPT ![c] = @ + 1],
             \A d \in Clients : d # c =>
               local'[d] = local[d] /\ undo'[d] = undo[d] /\ redo'[d] = redo[d],
             Ids(local'[c]) \subseteq Ids(local[c]) \cup {id},
             Ids(undo'[c]) \subseteq Ids(undo[c]) \cup {id},
             Ids(redo'[c]) \subseteq Ids(redo[c]) \cup {id}
      PROVE  OneAuthor' /\ InOrder'
  <2>1. OthersKept(c) /\ LogKept
    BY <1>3 DEF OthersKept, LogKept
  <2>2. InOrderOf(c)'
    BY <1>3, <2>1, QueueAlone
  <2>3. GainsAtMost(c, {id})
    BY <1>2, <1>3 DEF GainsAtMost
  <2> QED
    BY <1>3, <2>1, <2>2, <2>3, StepThatMakes
<1>4. CASE Type(c)
  <2>1. PICK edit \in Edits, location \in 0..Len(text[c]) :
          LET range == [location |-> location, length |-> edit[1]]
          IN  /\ Within(range, text[c])
              /\ ShouldChangeText(c, range, Typed(c, edit[2]))
    BY <1>4 DEF Type
  <2> DEFINE range == [location |-> location, length |-> edit[1]]
             op    == NewOperation(c, range, Substring(text[c], range), Typed(c, edit[2]))
  <2>2. /\ local' = [local EXCEPT ![c] = Append(local[c], op)]
        /\ nextID' = [nextID EXCEPT ![c] = @ + 1]
        /\ UNCHANGED <<member, log, received, send, global, undo, redo, stackQ, batch>>
    BY <2>1 DEF ShouldChangeText, threads
  <2>3. Identity(op) = id
    BY DEF Identity, NewOperation
  <2> HIDE DEF op, range
  <2>4. Ids(local'[c]) = Ids(local[c]) \cup {id}
    BY <1>1, <2>2, <2>3, IdsOfAppend
  <2> QED
    BY <1>1, <1>3, <2>2, <2>4
<1>5. CASE UndoAct(c)
  <2> DEFINE op == InverseOf(global[c][UndoTarget(global[c], ParticipantID(c))],
                             ParticipantID(c), nextID[c], "UNDO")
  <2>1. /\ undo' = [undo EXCEPT ![c] = Append(undo[c], op)]
        /\ nextID' = [nextID EXCEPT ![c] = @ + 1]
        /\ UNCHANGED <<member, log, received, local, send, global, redo, stackQ, batch>>
    BY <1>5 DEF UndoAct, threads
  <2>2. Identity(op) = id
    BY DEF Identity, InverseOf
  <2> HIDE DEF op
  <2>3. Ids(undo'[c]) = Ids(undo[c]) \cup {id}
    BY <1>1, <2>1, <2>2, IdsOfAppend
  <2> QED
    BY <1>1, <1>3, <2>1, <2>3
<1>6. CASE RedoAct(c)
  <2> DEFINE op == InverseOf(global[c][RedoTarget(global[c], ParticipantID(c))],
                             ParticipantID(c), nextID[c], "REDO")
  <2>1. /\ redo' = [redo EXCEPT ![c] = Append(redo[c], op)]
        /\ nextID' = [nextID EXCEPT ![c] = @ + 1]
        /\ UNCHANGED <<member, log, received, local, send, global, undo, stackQ, batch>>
    BY <1>6 DEF RedoAct, threads
  <2>2. Identity(op) = id
    BY DEF Identity, InverseOf
  <2> HIDE DEF op
  <2>3. Ids(redo'[c]) = Ids(redo[c]) \cup {id}
    BY <1>1, <2>1, <2>2, IdsOfAppend
  <2> QED
    BY <1>1, <1>3, <2>1, <2>3
<1>7. CASE CreateSess(c) \/ JoinSess(c)
  <2>1. /\ member' = [member EXCEPT ![c] = TRUE]
        /\ UNCHANGED <<log, received, local, send, global, undo, redo, stackQ, batch, nextID>>
    BY <1>7 DEF CreateSess, JoinSess, stacks, threads
  <2>2. OthersKept(c) /\ LogKept /\ (member[c] => member'[c])
    BY <1>0, <2>1 DEF OthersKept, LogKept, TypeOK
  <2>3. InOrderOf(c)'
    BY <2>1, <2>2, QueueAlone
  <2>4. GainsAtMost(c, {})
    BY <1>2, <2>1 DEF GainsAtMost
  <2>5. LogIds' = LogIds
    BY <2>1 DEF LogIds
  <2> QED
    BY <2>1, <2>2, <2>3, <2>4, <2>5, StepThatMoves
<1> QED
  BY <1>4, <1>5, <1>6, <1>7 DEF User

\* A refused change set waits in the stack queue behind what waits there.
LEMMA DispatchBackKeepsQueue ==
  ASSUME TypeOK, NEW c \in Clients, NEW kind \in {"local", "undoRedo"},
         NEW ops \in Seq(Ops), DispatchBack(c, kind, ops), Sorted(stackQ[c])
  PROVE  /\ \A d \in Clients : d # c => stackQ'[d] = stackQ[d]
         /\ Sorted(stackQ'[c])
         /\ Places(stackQ'[c]) = Places(stackQ[c])
         /\ QueueIds(stackQ'[c]) \subseteq QueueIds(stackQ[c]) \cup Ids(ops)
<1> DEFINE block == [kind |-> kind, at |-> 0, ops |-> ops]
<1>1. stackQ \in [Clients -> Seq(Blocks)] /\ stackQ[c] \in Seq(Blocks)
  BY DEF TypeOK
<1>2. block \in Blocks /\ block.kind # "new" /\ block.ops = ops
  BY DEF Blocks
<1>3. \/ stackQ' = [stackQ EXCEPT ![c] = Append(stackQ[c], block)]
      \/ stackQ' = stackQ
  BY DEF DispatchBack
<1> HIDE DEF block
<1>4. CASE stackQ' = [stackQ EXCEPT ![c] = Append(stackQ[c], block)]
  <2>1. stackQ'[c] = Append(stackQ[c], block)
    BY <1>1, <1>4
  <2>2. /\ Sorted(Append(stackQ[c], block))
        /\ Places(Append(stackQ[c], block)) = Places(stackQ[c])
        /\ QueueIds(Append(stackQ[c], block)) = QueueIds(stackQ[c]) \cup Ids(ops)
    BY <1>1, <1>2, QueueAppended
  <2> QED  BY <1>4, <2>1, <2>2
<1>5. CASE stackQ' = stackQ
  BY <1>5
<1> QED
  BY <1>3, <1>4, <1>5

LEMMA TimerDelivers ==
  ASSUME DeliveryInv, NEW c \in Clients, Timer(c)
  PROVE  OneAuthor' /\ InOrder'
<1>0. TypeOK /\ TypeInv /\ InOrderOf(c) /\ Sorted(stackQ[c])
  BY DEF DeliveryInv, TypeInv, InOrder, InOrderOf
<1>1. /\ local[c] \in Seq(Ops) /\ undo[c] \in Seq(Ops) /\ redo[c] \in Seq(Ops)
      /\ send[c] \in Seq(Ops) /\ batch[c] \in Seq(Ops)
      /\ local \in [Clients -> Seq(Ops)] /\ undo \in [Clients -> Seq(Ops)]
      /\ redo \in [Clients -> Seq(Ops)] /\ send \in [Clients -> Seq(Ops)]
      /\ batch \in [Clients -> Seq(Ops)]
  BY <1>0 DEF TypeOK
<1>2. /\ Ids(local[c]) \subseteq Held(c) /\ Ids(batch[c]) \subseteq Held(c)
      /\ Ids(send[c]) \subseteq Held(c) /\ Ids(undo[c]) \subseteq Held(c)
      /\ Ids(redo[c]) \subseteq Held(c) /\ QueueIds(stackQ[c]) \subseteq Held(c)
  BY DEF Held
<1>3. ASSUME UNCHANGED <<member, received, global, nextID>>,
             \A d \in Clients : d # c =>
               /\ local'[d] = local[d] /\ undo'[d] = undo[d] /\ redo'[d] = redo[d]
               /\ batch'[d] = batch[d] /\ send'[d] = send[d] /\ stackQ'[d] = stackQ[d],
             Sorted(stackQ'[c]), Places(stackQ'[c]) \subseteq Places(stackQ[c]),
             LogKept, LogIds' \subseteq LogIds \cup Held(c), GainsAtMost(c, {})
      PROVE  OneAuthor' /\ InOrder'
  <2>1. OthersKept(c)
    BY <1>3 DEF OthersKept
  <2>2. InOrderOf(c)'
    BY <1>0, <1>3, InOrderKept
  <2> QED
    BY <1>3, <2>1, <2>2, StepThatMoves
<1>4. UNCHANGED log => LogKept /\ LogIds' \subseteq LogIds
  BY DEF LogKept, LogIds
<1>5. Ids(<< >>) = {}
  BY IdsOfEmpty
<1>6. CASE GetLocalChangeSet(c)
  <2> DEFINE e(i) == [local[c][i] EXCEPT !.referID = Refer(c)]
             ops == [i \in DOMAIN local[c] |-> e(i)]
  <2>1. /\ batch' = [batch EXCEPT ![c] = ops]
        /\ local' = [local EXCEPT ![c] = << >>]
        /\ UNCHANGED <<member, log, received, send, global, undo, redo, stackQ, nextID>>
    BY <1>6 DEF GetLocalChangeSet
  <2>2. Ids(ops) = Ids(local[c])
    <3>1. \A i \in 1..Len(local[c]) : Identity(e(i)) = Identity(local[c][i])
      <4> SUFFICES ASSUME NEW i \in 1..Len(local[c])
                   PROVE  Identity(e(i)) = Identity(local[c][i])
        OBVIOUS
      <4>1. local[c][i] \in Ops
        BY <1>1, ElementOfSeq
      <4> QED  BY <4>1 DEF Identity, Ops, Operations
    <3> HIDE DEF e
    <3>2. Len(ops) = Len(local[c]) /\ \A i \in 1..Len(local[c]) : ops[i] = e(i)
      BY <1>1
    <3> HIDE DEF ops
    <3> QED  BY <1>1, <3>1, <3>2, IdsOfCopy
  <2> HIDE DEF ops
  <2>3. Ids(batch'[c]) = Ids(local[c]) /\ Ids(local'[c]) = {}
    BY <1>1, <1>5, <2>1, <2>2
  <2>4. GainsAtMost(c, {})
    BY <1>2, <2>1, <2>3 DEF GainsAtMost
  <2>5. \A d \in Clients : d # c => local'[d] = local[d] /\ batch'[d] = batch[d]
    BY <1>1, <2>1
  <2> QED
    BY <1>0, <1>3, <1>4, <2>1, <2>4, <2>5
<1>7. CASE BroadcastLocal(c)
  <2>1. /\ log' = log \o Event(batch[c])
        /\ UNCHANGED <<member, received, local, send, global, undo, redo, stackQ, batch, nextID>>
    BY <1>7 DEF BroadcastLocal, stacks
  <2>2. LogKept /\ LogIds' \subseteq LogIds \cup Ids(batch[c])
    BY <1>0, <1>1, <2>1, EventKeepsLog
  <2>3. GainsAtMost(c, {})
    BY <1>2, <2>1 DEF GainsAtMost
  <2> QED
    BY <1>0, <1>2, <1>3, <2>1, <2>2, <2>3
<1>8. CASE RefuseLocal(c)
  <2>1. /\ DispatchBack(c, "local", batch[c])
        /\ batch' = [batch EXCEPT ![c] = << >>]
        /\ UNCHANGED <<member, log, received, local, send, global, undo, redo, nextID>>
    BY <1>8 DEF RefuseLocal, stacks
  <2>2. /\ \A d \in Clients : d # c => stackQ'[d] = stackQ[d]
        /\ Sorted(stackQ'[c])
        /\ Places(stackQ'[c]) = Places(stackQ[c])
        /\ QueueIds(stackQ'[c]) \subseteq QueueIds(stackQ[c]) \cup Ids(batch[c])
    BY <1>0, <1>1, <2>1, DispatchBackKeepsQueue
  <2>3. /\ Ids(batch'[c]) = {}
        /\ \A d \in Clients : d # c => batch'[d] = batch[d]
    BY <1>1, <1>5, <2>1
  <2>4. GainsAtMost(c, {})
    BY <1>2, <2>1, <2>2, <2>3 DEF GainsAtMost
  <2> QED
    BY <1>3, <1>4, <2>1, <2>2, <2>3, <2>4
<1>9. CASE PutIntoSendStack(c)
  <2> DEFINE e(i) == [batch[c][i] EXCEPT !.state = "SEND"]
             ops == [i \in DOMAIN batch[c] |-> e(i)]
  <2>1. /\ send' = [send EXCEPT ![c] = send[c] \o ops]
        /\ batch' = [batch EXCEPT ![c] = << >>]
        /\ UNCHANGED <<member, log, received, local, global, undo, redo, stackQ, nextID>>
    BY <1>9 DEF PutIntoSendStack
  <2>2. \A i \in 1..Len(batch[c]) : e(i) \in Ops /\ Identity(e(i)) = Identity(batch[c][i])
    <3> SUFFICES ASSUME NEW i \in 1..Len(batch[c])
                 PROVE  e(i) \in Ops /\ Identity(e(i)) = Identity(batch[c][i])
      OBVIOUS
    <3>1. batch[c][i] \in Ops
      BY <1>1, ElementOfSeq
    <3> QED  BY <3>1 DEF Identity, Ops, Operations, States
  <2> HIDE DEF e
  <2>3. ops \in Seq(Ops)
    <3>1. Len(batch[c]) \in Nat /\ DOMAIN batch[c] = 1..Len(batch[c])
      BY <1>1
    <3> QED  BY <2>2, <3>1, IsASeq
  <2>4. Ids(ops) = Ids(batch[c])
    <3>1. Len(ops) = Len(batch[c]) /\ \A i \in 1..Len(batch[c]) : ops[i] = e(i)
      BY <1>1
    <3> HIDE DEF ops
    <3> QED  BY <1>1, <2>2, <3>1, IdsOfCopy
  <2> HIDE DEF ops
  <2>5. Ids(send'[c]) = Ids(send[c]) \cup Ids(batch[c])
    <3>1. Ids(send[c] \o ops) = Ids(send[c]) \cup Ids(ops)
      BY <1>1, <2>3, IdsOfConcat
    <3> QED  BY <1>1, <2>1, <2>4, <3>1
  <2>6. /\ Ids(batch'[c]) = {}
        /\ \A d \in Clients : d # c => batch'[d] = batch[d] /\ send'[d] = send[d]
    BY <1>1, <1>5, <2>1
  <2>7. GainsAtMost(c, {})
    BY <1>2, <2>1, <2>5, <2>6 DEF GainsAtMost
  <2> QED
    BY <1>0, <1>3, <1>4, <2>1, <2>6, <2>7
<1>10. CASE SendUndoAndRedo(c)
  <2> DEFINE ops == undo[c] \o redo[c]
  <2>1. ops \in Seq(Ops) /\ Ids(ops) \subseteq Held(c)
    BY <1>1, <1>2, ConcatProperties, IdsOfConcat
  <2>2. /\ undo' = [undo EXCEPT ![c] = << >>]
        /\ redo' = [redo EXCEPT ![c] = << >>]
        /\ UNCHANGED <<member, received, local, send, global, batch, nextID>>
        /\ \/ UNCHANGED <<log, stackQ>>
           \/ log' = log \o Event(ops) /\ UNCHANGED stackQ
           \/ DispatchBack(c, "undoRedo", ops) /\ UNCHANGED log
    BY <1>10 DEF SendUndoAndRedo
  <2> HIDE DEF ops
  <2>3. /\ Ids(undo'[c]) = {} /\ Ids(redo'[c]) = {}
        /\ \A d \in Clients : d # c => undo'[d] = undo[d] /\ redo'[d] = redo[d]
    BY <1>1, <1>5, <2>2
  <2>4. LogKept /\ LogIds' \subseteq LogIds \cup Held(c)
    <3>1. CASE UNCHANGED log
      BY <1>4, <3>1
    <3>2. CASE log' = log \o Event(ops)
      BY <1>0, <2>1, <3>2, EventKeepsLog
    <3> QED  BY <2>2, <3>1, <3>2
  <2>5. /\ \A d \in Clients : d # c => stackQ'[d] = stackQ[d]
        /\ Sorted(stackQ'[c])
        /\ Places(stackQ'[c]) = Places(stackQ[c])
        /\ QueueIds(stackQ'[c]) \subseteq Held(c)
    <3>1. CASE UNCHANGED stackQ
      BY <1>0, <1>2, <3>1
    <3>2. CASE DispatchBack(c, "undoRedo", ops)
      BY <1>0, <1>2, <2>1, <3>2, DispatchBackKeepsQueue
    <3> QED  BY <2>2, <3>1, <3>2
  <2>6. GainsAtMost(c, {})
    BY <1>2, <2>2, <2>3, <2>5 DEF GainsAtMost
  <2> QED
    BY <1>3, <2>2, <2>3, <2>4, <2>5, <2>6
<1> QED
  BY <1>6, <1>7, <1>8, <1>9, <1>10 DEF Timer

LEMMA ReceivedEventDelivers ==
  ASSUME DeliveryInv, NEW c \in Clients, ReceivedEvent(c)
  PROVE  OneAuthor' /\ InOrder'
<1>0. TypeOK /\ TypeInv /\ InOrderOf(c) /\ Sorted(stackQ[c]) /\ HandedOver
  BY DEF DeliveryInv, TypeInv, InOrder, InOrderOf
<1>1. /\ received[c] \in Nat /\ Len(log) \in Nat /\ stackQ[c] \in Seq(Blocks)
      /\ stackQ \in [Clients -> Seq(Blocks)] /\ received \in [Clients -> Nat]
  BY <1>0, LenProperties DEF TypeOK
<1>2. PICK last \in (received[c] + 1)..Len(log) :
        /\ stackQ' = [stackQ EXCEPT ![c] =
             stackQ[c] \o [i \in 1..(last - received[c]) |->
                     [kind |-> "new", at |-> received[c] + i, ops |-> << >>]]]
        /\ received' = [received EXCEPT ![c] = last]
  BY DEF ReceivedEvent
<1>3. member[c] /\ UNCHANGED <<member, log, local, send, global, undo, redo, batch, nextID>>
  BY DEF ReceivedEvent, stacks
<1> DEFINE n == last - received[c]
           event == [i \in 1..n |-> [kind |-> "new", at |-> received[c] + i, ops |-> << >>]]
           longer == stackQ[c] \o event
<1>4. stackQ'[c] = longer /\ received'[c] = last
  BY <1>1, <1>2
<1>5. \A p \in Places(stackQ[c]) : p \in Nat /\ p <= received[c]
  <2>1. \A i \in 1..Len(stackQ[c]) :
          stackQ[c][i].kind = "new" => stackQ[c][i].at \in 1..received[c]
    BY <1>0 DEF HandedOver
  <2> QED  BY <1>1, <2>1 DEF Places
<1>6. n \in Nat /\ received[c] + n = last /\ last \in Nat
  BY <1>1
<1> HIDE DEF n
<1>7. /\ Sorted(longer)
      /\ \A p \in Places(longer) :
           p \in Places(stackQ[c]) \/ p \in (received[c] + 1)..(received[c] + n)
      /\ QueueIds(longer) = QueueIds(stackQ[c])
  BY <1>0, <1>1, <1>5, <1>6, QueueExtended
<1> HIDE DEF longer, event
<1>8. OthersKept(c) /\ LogKept /\ LogIds' \subseteq LogIds
  BY <1>1, <1>2, <1>3 DEF OthersKept, LogKept, LogIds
<1>9. GainsAtMost(c, {})
  BY <1>3, <1>4, <1>7 DEF GainsAtMost, Held
<1>10. InOrderOf(c)'
  <2>1. PICK f : Placing(c, f)
    BY <1>0 DEF InOrderOf
  <2> DEFINE m == Len(global[c])
  <2>2. /\ f \in [1..m -> 1..received[c]]
        /\ \A i, j \in 1..m : i < j => f[i] < f[j]
        /\ \A i \in 1..m : Identity(global[c][i]) = Identity(log[f[i]].op)
        /\ \A i \in 1..m : \A p \in Places(stackQ[c]) : f[i] < p
    BY <2>1 DEF Placing
  <2> HIDE DEF m
  <2>3. f \in [1..m -> 1..last]
    BY <1>1, <1>6, <2>2
  <2>4. \A i \in 1..m : \A p \in Places(longer) : f[i] < p
    <3> SUFFICES ASSUME NEW i \in 1..m, NEW p \in Places(longer)  PROVE f[i] < p
      OBVIOUS
    <3>1. f[i] \in 1..received[c]
      BY <2>2
    <3>2. CASE p \in Places(stackQ[c])
      BY <2>2, <3>2
    <3>3. CASE p \in (received[c] + 1)..(received[c] + n)
      BY <1>1, <1>6, <3>1, <3>3
    <3> QED  BY <1>7, <3>2, <3>3
  <2>5. Placing(c, f)'
    BY <1>3, <1>4, <2>2, <2>3, <2>4 DEF Placing, m
  <2> QED
    BY <1>3, <1>4, <1>7, <2>5 DEF InOrderOf
<1> QED
  BY <1>3, <1>8, <1>9, <1>10, StepThatMoves

\* The front of the stack queue enters the global stack behind what is there.
LEMMA PlacedNext ==
  ASSUME DeliveryInv, NEW c \in Clients, stackQ[c] # << >>, Head(stackQ[c]).kind = "new",
         UNCHANGED <<log, received, member>>, stackQ'[c] = Tail(stackQ[c]),
         NEW op, global'[c] = Append(global[c], op),
         Identity(op) = Identity(log[Head(stackQ[c]).at].op)
  PROVE  InOrderOf(c)'
<1> DEFINE at == Head(stackQ[c]).at
           m == Len(global[c])
           longer == Append(global[c], op)
<1>0. TypeOK /\ TypeInv /\ InOrderOf(c) /\ HandedOver
  BY DEF DeliveryInv, TypeInv, InOrder
<1>1. global[c] \in Seq(Ops) /\ stackQ[c] \in Seq(Blocks) /\ received[c] \in Nat
  BY <1>0 DEF TypeOK
<1>2. /\ Len(longer) = m + 1
      /\ \A i \in 1..m : longer[i] = global[c][i]
      /\ longer[m + 1] = op
      /\ m \in Nat
  BY <1>1, Appended
<1>3. /\ Sorted(Tail(stackQ[c]))
      /\ Places(Tail(stackQ[c])) \subseteq Places(stackQ[c])
      /\ at \in Places(stackQ[c])
      /\ \A p \in Places(Tail(stackQ[c])) : at < p
  BY <1>0, <1>1, QueueServed DEF InOrderOf
<1>4. \A p \in Places(stackQ[c]) : p \in 1..received[c]
  BY <1>0 DEF HandedOver, Places
<1>5. at \in 1..received[c] /\ Identity(op) = Identity(log[at].op)
  BY <1>3, <1>4
<1>6. PICK f : Placing(c, f)
  BY <1>0 DEF InOrderOf
<1>7. /\ f \in [1..m -> 1..received[c]]
      /\ \A i, j \in 1..m : i < j => f[i] < f[j]
      /\ \A i \in 1..m : Identity(global[c][i]) = Identity(log[f[i]].op)
      /\ \A i \in 1..m : \A p \in Places(stackQ[c]) : f[i] < p
  BY <1>6 DEF Placing
<1>8. global'[c] = longer
  OBVIOUS
<1> HIDE DEF at, m, longer
<1> PICK g : g = [i \in 1..(m + 1) |-> IF i = m + 1 THEN at ELSE f[i]]
  OBVIOUS
<1>9. \A i \in 1..(m + 1) : i \in 1..m \/ i = m + 1
  BY <1>2
<1>10. /\ \A i \in 1..m : g[i] = f[i]
       /\ g[m + 1] = at
  BY <1>2
<1>11. g \in [1..(m + 1) -> 1..received[c]]
  BY <1>5, <1>7, <1>9
<1>12. ASSUME NEW i \in 1..(m + 1), NEW j \in 1..(m + 1), i < j
       PROVE  g[i] < g[j]
  <2>1. i \in 1..m
    BY <1>2, <1>12
  <2>2. CASE j \in 1..m
    BY <1>7, <1>10, <1>12, <2>1, <2>2
  <2>3. CASE j = m + 1
    BY <1>3, <1>7, <1>10, <2>1, <2>3
  <2> QED  BY <1>9, <2>2, <2>3
<1>13. ASSUME NEW i \in 1..(m + 1)
       PROVE  Identity(longer[i]) = Identity(log[g[i]].op)
  BY <1>2, <1>5, <1>7, <1>9, <1>10
<1>14. ASSUME NEW i \in 1..(m + 1), NEW p \in Places(Tail(stackQ[c]))
       PROVE  g[i] < p
  BY <1>3, <1>7, <1>9, <1>10
<1>15. Placing(c, g)'
  <2>1. global'[c] = longer /\ Len(longer) = m + 1 /\ received' = received
        /\ log' = log /\ stackQ'[c] = Tail(stackQ[c])
    BY <1>2, <1>8
  <2> QED  BY <1>11, <1>12, <1>13, <1>14, <2>1 DEF Placing
<1> QED
  <2>1. Places(stackQ[c]) # {} /\ member[c]
    BY <1>0, <1>3 DEF InOrderOf
  <2> QED  BY <1>3, <1>15, <2>1 DEF InOrderOf

\* The operation a confirmation takes from the send stack is the one confirmed,
\* although only their operation IDs are compared.
LEMMA ConfirmationDelivers ==
  ASSUME DeliveryInv, NEW c \in Clients, AddNewOperation(c),
         Mine(c, Delivered(log[Head(stackQ[c]).at])),
         UpdateOperationFromSendToGlobal(c, Delivered(log[Head(stackQ[c]).at]))
  PROVE  /\ \A d \in Clients : d # c => global'[d] = global[d] /\ send'[d] = send[d]
         /\ UNCHANGED <<local, uiQ>>
         /\ Ids(send'[c]) \subseteq Ids(send[c])
         /\ \/ global'[c] = global[c]
            \/ \E op : /\ global'[c] = Append(global[c], op)
                       /\ Identity(op) = Identity(log[Head(stackQ[c]).at].op)
<1> DEFINE at == Head(stackQ[c]).at
           op == Delivered(log[at])
           Awaits(waiting) == waiting.operationID = op.operationID /\ waiting.state = "SEND"
           I == {k \in 1..Len(send[c]) : Awaits(send[c][k])}
           i == IF I # {} THEN Min(I) ELSE 0
           confirmed == [send[c][i] EXCEPT !.globalID = op.globalID, !.state = op.state]
<1>1. /\ IF i = 0
           THEN UNCHANGED <<global, send>>
           ELSE /\ global' = [global EXCEPT ![c] = Append(global[c], confirmed)]
                /\ send' = [send EXCEPT ![c] = RemoveAt(send[c], i)]
      /\ UNCHANGED <<local, uiQ>>
  BY DEF UpdateOperationFromSendToGlobal, SelectInSeq
<1>2. /\ TypeOK /\ HandedOver /\ OneAuthor /\ InOrderOf(c)
      /\ send[c] \in Seq(Ops) /\ global[c] \in Seq(Ops) /\ stackQ[c] \in Seq(Blocks)
      /\ send \in [Clients -> Seq(Ops)] /\ global \in [Clients -> Seq(Ops)]
  BY DEF DeliveryInv, TypeInv, TypeOK, InOrder
<1>3. at \in Places(stackQ[c]) /\ member[c]
  <2>1. stackQ[c] # << >> /\ Head(stackQ[c]).kind = "new"
    BY DEF AddNewOperation
  <2>2. at \in Places(stackQ[c])
    BY <1>2, <2>1, QueueServed DEF InOrderOf
  <2> QED  BY <1>2, <2>2 DEF InOrderOf
<1>4. at \in 1..Len(log) /\ log[at] \in [op : Ops, order : Nat]
  <2>1. at \in 1..received[c]
    BY <1>2, <1>3 DEF HandedOver, Places
  <2>2. received[c] <= Len(log) /\ received[c] \in Nat /\ Len(log) \in Nat
        /\ log \in Seq([op : Ops, order : Nat])
    BY <1>2, LenProperties DEF HandedOver, TypeOK
  <2>3. at \in 1..Len(log)
    BY <2>1, <2>2
  <2> QED  BY <2>2, <2>3, ElementOfSeq
<1> HIDE DEF at
<1>5. /\ Identity(op) = Identity(log[at].op)
      /\ op.participantID = c
  <2>1. Identity(op) = Identity(log[at].op)
    BY <1>4 DEF Delivered, Identity, Ops, Operations
  <2>2. op.participantID = c
    BY <1>3 DEF Mine, ParticipantID, at
  <2> QED  BY <2>1, <2>2
<1>6. Identity(op) \in Known(c)
  <2>1. Identity(log[at].op) \in LogIds
    BY <1>4 DEF LogIds
  <2>2. Identity(log[at].op) \in Clients \X Nat
    BY <1>4, <1>5 DEF Identity, Ops, Operations
  <2> QED  BY <1>5, <2>1, <2>2 DEF Known, Identity
<1> HIDE DEF op
<1>7. I \in SUBSET (1..Len(send[c])) /\ I \in SUBSET Nat
  OBVIOUS
<1>8. i = 0 \/ i \in I
  <2> HIDE DEF I
  <2> QED  BY <1>7, MinIsMember
<1> HIDE DEF i
<1>9. CASE i = 0
  BY <1>1, <1>9
<1>10. CASE i # 0
  <2>1. /\ i \in 1..Len(send[c])
        /\ send[c][i].operationID = op.operationID
    BY <1>8, <1>10
  <2>2. send[c][i] \in Ops
    BY <1>2, <2>1, ElementOfSeq
  <2>3. Identity(send[c][i]) \in Known(c)
    BY <2>1 DEF Ids, Held, Known
  <2>4. Identity(send[c][i])[2] = Identity(op)[2]
    BY <2>1 DEF Identity
  <2>5. Identity(send[c][i]) = Identity(op)
    BY <1>2, <1>6, <2>3, <2>4 DEF OneAuthor
  <2>6. Identity(confirmed) = Identity(op)
    BY <2>2, <2>5 DEF Identity, Ops, Operations
  <2> HIDE DEF confirmed, I
  <2>7. Ids(RemoveAt(send[c], i)) \subseteq Ids(send[c])
    BY <1>2, <2>1, IdsOfRemoveAt
  <2>8. /\ global'[c] = Append(global[c], confirmed)
        /\ send'[c] = RemoveAt(send[c], i)
        /\ \A d \in Clients : d # c => global'[d] = global[d] /\ send'[d] = send[d]
        /\ UNCHANGED <<local, uiQ>>
    BY <1>1, <1>2, <1>10
  <2> QED
    BY <1>5, <2>6, <2>7, <2>8 DEF at
<1> QED
  BY <1>9, <1>10

\* A foreign operation enters the global stack as what it is, and moves the ranges
\* of what waits, no more.
LEMMA ForeignDelivers ==
  ASSUME DeliveryInv, NEW c \in Clients, AddNewOperation(c),
         AddNewGlobalOperation(c, Delivered(log[Head(stackQ[c]).at]))
  PROVE  /\ \A d \in Clients : d # c =>
              global'[d] = global[d] /\ send'[d] = send[d] /\ local'[d] = local[d]
         /\ Ids(send'[c]) = Ids(send[c])
         /\ Ids(local'[c]) = Ids(local[c])
         /\ \E op : /\ global'[c] = Append(global[c], op)
                    /\ Identity(op) = Identity(log[Head(stackQ[c]).at].op)
<1> DEFINE at == Head(stackQ[c]).at
           op == Delivered(log[at])
           placed == [op EXCEPT !.range = RangeOnGlobal(global[c], op)]
           shown  == [placed EXCEPT !.range =
                        RangeOnScreen(@, op.participantID, send[c] \o local[c])]
<1>1. /\ global' = [global EXCEPT ![c] = Append(global[c], placed)]
      /\ send'   = [send EXCEPT ![c] = UpdateStackWithOperation(send[c], shown)]
      /\ local'  = [local EXCEPT ![c] = UpdateStackWithOperation(local[c], shown)]
  BY DEF AddNewGlobalOperation
<1>2. /\ TypeOK /\ HandedOver /\ InOrderOf(c) /\ stackQ[c] \in Seq(Blocks)
      /\ send[c] \in Seq(Ops) /\ local[c] \in Seq(Ops)
      /\ send \in [Clients -> Seq(Ops)] /\ global \in [Clients -> Seq(Ops)]
      /\ local \in [Clients -> Seq(Ops)]
  BY DEF DeliveryInv, TypeInv, TypeOK, InOrder
<1>3. log[at] \in [op : Ops, order : Nat]
  <2>1. stackQ[c] # << >> /\ Head(stackQ[c]).kind = "new"
    BY DEF AddNewOperation
  <2>2. at \in Places(stackQ[c])
    BY <1>2, <2>1, QueueServed DEF InOrderOf
  <2>3. at \in 1..received[c]
    BY <1>2, <2>2 DEF HandedOver, Places
  <2>4. received[c] <= Len(log) /\ received[c] \in Nat /\ Len(log) \in Nat
        /\ log \in Seq([op : Ops, order : Nat])
    BY <1>2, LenProperties DEF HandedOver, TypeOK
  <2>5. at \in 1..Len(log)
    BY <2>3, <2>4
  <2> QED  BY <2>4, <2>5, ElementOfSeq
<1> HIDE DEF at
<1>4. Identity(placed) = Identity(log[at].op)
  BY <1>3 DEF Delivered, Identity, Ops, Operations
<1> HIDE DEF placed, shown
<1>5. ASSUME NEW stack \in Seq(Ops)
      PROVE  Ids(UpdateStackWithOperation(stack, shown)) = Ids(stack)
  <2> DEFINE e(i) == [stack[i] EXCEPT !.range =
                        UpdateRange(stack[i].range, shown, stack[i].participantID)]
             moved == UpdateStackWithOperation(stack, shown)
  <2>1. \A i \in 1..Len(stack) : Identity(e(i)) = Identity(stack[i])
    <3> SUFFICES ASSUME NEW i \in 1..Len(stack)
                 PROVE  Identity(e(i)) = Identity(stack[i])
      OBVIOUS
    <3>1. stack[i] \in Ops
      BY ElementOfSeq
    <3> QED  BY <3>1 DEF Identity, Ops, Operations
  <2>2. moved = [i \in 1..Len(stack) |-> e(i)]
    BY DEF UpdateStackWithOperation
  <2> HIDE DEF e
  <2>3. Len(moved) = Len(stack) /\ \A i \in 1..Len(stack) : moved[i] = e(i)
    BY <2>2, LenProperties
  <2> HIDE DEF moved
  <2>4. Ids(moved) = Ids(stack)
    BY <2>1, <2>3, IdsOfCopy
  <2> QED  BY <2>4 DEF moved
<1>6. /\ global'[c] = Append(global[c], placed)
      /\ send'[c] = UpdateStackWithOperation(send[c], shown)
      /\ local'[c] = UpdateStackWithOperation(local[c], shown)
      /\ \A d \in Clients : d # c =>
           global'[d] = global[d] /\ send'[d] = send[d] /\ local'[d] = local[d]
  BY <1>1, <1>2
<1> QED
  BY <1>2, <1>4, <1>5, <1>6 DEF at

LEMMA StackQueueDelivers ==
  ASSUME DeliveryInv, NEW c \in Clients, StackQueue(c)
  PROVE  OneAuthor' /\ InOrder'
<1> DEFINE block == Head(stackQ[c])
<1>1. /\ stackQ[c] # << >>
      /\ stackQ' = [stackQ EXCEPT ![c] = Tail(stackQ[c])]
      /\ UNCHANGED <<member, log, received, batch, nextID>>
  BY DEF StackQueue, AddNewOperation, AddBack
<1>2. /\ TypeOK /\ TypeInv /\ InOrderOf(c) /\ Sorted(stackQ[c])
      /\ stackQ[c] \in Seq(Blocks) /\ stackQ \in [Clients -> Seq(Blocks)]
      /\ local[c] \in Seq(Ops) /\ undo[c] \in Seq(Ops) /\ redo[c] \in Seq(Ops)
      /\ local \in [Clients -> Seq(Ops)] /\ undo \in [Clients -> Seq(Ops)]
      /\ redo \in [Clients -> Seq(Ops)]
  BY DEF DeliveryInv, TypeInv, TypeOK, InOrder, InOrderOf
<1>3. /\ Sorted(Tail(stackQ[c]))
      /\ Places(Tail(stackQ[c])) \subseteq Places(stackQ[c])
      /\ QueueIds(Tail(stackQ[c])) \subseteq QueueIds(stackQ[c])
      /\ Ids(block.ops) \subseteq QueueIds(stackQ[c])
  BY <1>1, <1>2, QueueServed
<1>4. stackQ'[c] = Tail(stackQ[c]) /\ \A d \in Clients : d # c => stackQ'[d] = stackQ[d]
  BY <1>1, <1>2
<1>5. /\ Ids(local[c]) \subseteq Held(c) /\ Ids(batch[c]) \subseteq Held(c)
      /\ Ids(send[c]) \subseteq Held(c) /\ Ids(undo[c]) \subseteq Held(c)
      /\ Ids(redo[c]) \subseteq Held(c) /\ QueueIds(stackQ[c]) \subseteq Held(c)
  BY DEF Held
<1>6. LogKept /\ LogIds' \subseteq LogIds
  BY <1>1 DEF LogKept, LogIds
<1>7. ASSUME UNCHANGED <<undo, redo>>,
             \A d \in Clients : d # c =>
               global'[d] = global[d] /\ send'[d] = send[d] /\ local'[d] = local[d],
             Ids(send'[c]) \subseteq Ids(send[c]), Ids(local'[c]) \subseteq Ids(local[c]),
             InOrderOf(c)'
      PROVE  OneAuthor' /\ InOrder'
  <2>1. OthersKept(c)
    BY <1>1, <1>4, <1>7 DEF OthersKept
  <2>2. GainsAtMost(c, {})
    BY <1>1, <1>3, <1>4, <1>5, <1>7 DEF GainsAtMost
  <2> QED
    BY <1>1, <1>6, <1>7, <2>1, <2>2, StepThatMoves
<1>8. global'[c] = global[c] => InOrderOf(c)'
  BY <1>1, <1>2, <1>3, <1>4, <1>6, InOrderKept
<1>9. CASE AddNewOperation(c)
  <2> DEFINE entry == log[block.at]
  <2>1. /\ block.kind = "new"
        /\ UNCHANGED <<undo, redo>>
        /\ \/ Mine(c, Delivered(entry)) /\ UpdateOperationFromSendToGlobal(c, Delivered(entry))
           \/ AddNewGlobalOperation(c, Delivered(entry))
    BY <1>9 DEF AddNewOperation
  <2>2. ASSUME NEW op, global'[c] = Append(global[c], op), Identity(op) = Identity(entry.op)
        PROVE  InOrderOf(c)'
    BY <1>1, <1>4, <2>1, <2>2, PlacedNext
  <2>3. CASE Mine(c, Delivered(entry)) /\ UpdateOperationFromSendToGlobal(c, Delivered(entry))
    <3>1. /\ \A d \in Clients : d # c => global'[d] = global[d] /\ send'[d] = send[d]
          /\ UNCHANGED local
          /\ Ids(send'[c]) \subseteq Ids(send[c])
          /\ \/ global'[c] = global[c]
             \/ \E op : /\ global'[c] = Append(global[c], op)
                        /\ Identity(op) = Identity(entry.op)
      BY <1>9, <2>3, ConfirmationDelivers
    <3>2. InOrderOf(c)'
      BY <1>8, <2>2, <3>1
    <3> QED  BY <1>7, <2>1, <3>1, <3>2
  <2>4. CASE AddNewGlobalOperation(c, Delivered(entry))
    <3>1. /\ \A d \in Clients : d # c =>
               global'[d] = global[d] /\ send'[d] = send[d] /\ local'[d] = local[d]
          /\ Ids(send'[c]) = Ids(send[c])
          /\ Ids(local'[c]) = Ids(local[c])
          /\ \E op : /\ global'[c] = Append(global[c], op)
                     /\ Identity(op) = Identity(entry.op)
      BY <1>9, <2>4, ForeignDelivers
    <3>2. InOrderOf(c)'
      BY <2>2, <3>1
    <3> QED  BY <1>7, <2>1, <3>1, <3>2
  <2> QED
    BY <2>1, <2>3, <2>4
<1>10. CASE AddBack(c)
  <2> DEFINE undone == InState(block.ops, {"UNDO"})
             redone == InState(block.ops, States \ {"UNDO"})
  <2>1. block.ops \in Seq(Ops)
    <3>1. stackQ[c] \in Seq(Blocks) /\ stackQ[c] # << >>
      BY <1>1, <1>2
    <3>2. block \in Blocks
      BY <3>1, HeadTailProperties
    <3> QED  BY <3>2 DEF Blocks
  <2>2. /\ undone \in Seq(Ops) /\ redone \in Seq(Ops)
        /\ Ids(undone) \subseteq Ids(block.ops) /\ Ids(redone) \subseteq Ids(block.ops)
    BY <2>1, InStateIsStack, IdsOfInState
  <2>3. /\ UNCHANGED <<send, global>>
        /\ \/ /\ local' = [local EXCEPT ![c] = block.ops \o local[c]]
              /\ UNCHANGED <<undo, redo>>
           \/ /\ undo' = [undo EXCEPT ![c] = undone \o undo[c]]
              /\ redo' = [redo EXCEPT ![c] = redone \o redo[c]]
              /\ UNCHANGED local
    BY <1>10 DEF AddBack
  <2> HIDE DEF undone, redone, block
  <2>4. /\ Ids(block.ops \o local[c]) \subseteq Held(c)
        /\ Ids(undone \o undo[c]) \subseteq Held(c)
        /\ Ids(redone \o redo[c]) \subseteq Held(c)
    <3>1. /\ Ids(block.ops \o local[c]) = Ids(block.ops) \cup Ids(local[c])
          /\ Ids(undone \o undo[c]) = Ids(undone) \cup Ids(undo[c])
          /\ Ids(redone \o redo[c]) = Ids(redone) \cup Ids(redo[c])
      BY <1>2, <2>1, <2>2, IdsOfConcat
    <3> QED  BY <1>3, <1>5, <2>2, <3>1
  <2>5. /\ Ids(local'[c]) \subseteq Held(c)
        /\ Ids(undo'[c]) \subseteq Held(c)
        /\ Ids(redo'[c]) \subseteq Held(c)
        /\ \A d \in Clients : d # c =>
             local'[d] = local[d] /\ undo'[d] = undo[d] /\ redo'[d] = redo[d]
    <3>1. CASE local' = [local EXCEPT ![c] = block.ops \o local[c]] /\ UNCHANGED <<undo, redo>>
      BY <1>2, <1>5, <2>4, <3>1
    <3>2. CASE /\ undo' = [undo EXCEPT ![c] = undone \o undo[c]]
               /\ redo' = [redo EXCEPT ![c] = redone \o redo[c]]
               /\ UNCHANGED local
      <4>1. undo'[c] = undone \o undo[c] /\ redo'[c] = redone \o redo[c] /\ local' = local
        BY <1>2, <3>2
      <4>2. \A d \in Clients : d # c => undo'[d] = undo[d] /\ redo'[d] = redo[d]
        BY <1>2, <3>2
      <4> QED  BY <1>5, <2>4, <4>1, <4>2
    <3> QED  BY <2>3, <3>1, <3>2
  <2>6. OthersKept(c)
    BY <1>1, <1>4, <2>3, <2>5 DEF OthersKept
  <2>7. GainsAtMost(c, {})
    BY <1>1, <1>3, <1>4, <1>5, <2>3, <2>5 DEF GainsAtMost
  <2>8. InOrderOf(c)'
    BY <1>8, <2>3
  <2> QED
    BY <1>1, <1>6, <2>6, <2>7, <2>8, StepThatMoves
<1> QED
  BY <1>9, <1>10 DEF StackQueue

\* A step that is not about the stacks, and a stuttering step.
LEMMA StacksAlone ==
  ASSUME DeliveryInv, UNCHANGED <<member, log, received, stacks, stackQ, batch, nextID>>
  PROVE  OneAuthor' /\ InOrder'
<1>1. \A c \in Clients : Held(c)' = Held(c)
  BY DEF Held, stacks
<1>2. LogIds' = LogIds /\ LogKept
  BY DEF LogIds, LogKept
<1>3. OneAuthor'
  <2>1. \A c \in Clients : Known(c)' = Known(c)
    BY <1>1, <1>2 DEF Known
  <2> QED  BY <1>1, <2>1 DEF DeliveryInv, OneAuthor, Participants
<1>4. InOrder'
  <2> SUFFICES ASSUME NEW c \in Clients  PROVE InOrderOf(c)'
    BY DEF InOrder
  <2>1. global' = global /\ received' = received /\ member' = member /\ stackQ' = stackQ
    BY DEF stacks
  <2> QED  BY <1>2, <2>1, QueueAlone
<1> QED
  BY <1>3, <1>4

-----------------------------------------------------------------------------
LEMMA DeliveryInitially == Init => DeliveryInv
<1> SUFFICES ASSUME Init  PROVE DeliveryInv
  OBVIOUS
<1>1. ASSUME NEW c \in Clients
      PROVE  Known(c) = {} /\ Held(c) = {}
  <2>1. /\ log = << >> /\ local[c] = << >> /\ batch[c] = << >> /\ send[c] = << >>
        /\ undo[c] = << >> /\ redo[c] = << >> /\ stackQ[c] = << >>
    BY <1>1 DEF Init
  <2>2. Len(<< >>) = 0
    BY EmptySeq
  <2>3. QueueIds(<< >>) = {} /\ LogIds = {}
    BY <2>1, <2>2 DEF QueueIds, LogIds
  <2> QED  BY <2>1, <2>3, IdsOfEmpty DEF Known, Held
<1>2. ASSUME NEW c \in Clients
      PROVE  InOrderOf(c)
  <2>1. stackQ[c] = << >> /\ global[c] = << >> /\ received[c] = 0
    BY <1>2 DEF Init
  <2>2. Len(<< >>) = 0 /\ 1..0 = {}
    BY EmptySeq
  <2>3. Sorted(stackQ[c]) /\ Places(stackQ[c]) = {}
    BY <2>1, <2>2 DEF Sorted, Places
  <2>4. Placing(c, [i \in {} |-> 0])
    BY <2>1, <2>2 DEF Placing
  <2> QED  BY <2>3, <2>4 DEF InOrderOf
<1>3. OneAuthor
  BY <1>1 DEF OneAuthor
<1> QED
  BY <1>2, <1>3, TypeInvInitially DEF DeliveryInv, InOrder

LEMMA NextDelivers == DeliveryInv /\ [Next]_vars => DeliveryInv'
<1> SUFFICES ASSUME DeliveryInv, [Next]_vars  PROVE DeliveryInv'
  OBVIOUS
<1>1. TypeInv'
  BY NextKeepsTypes DEF DeliveryInv
<1>2. OneAuthor' /\ InOrder'
  <2>1. ASSUME NEW c \in Clients,
               User(c) \/ Timer(c) \/ ReceivedEvent(c) \/ StackQueue(c)
        PROVE  OneAuthor' /\ InOrder'
    BY <2>1, UserDelivers, TimerDelivers, ReceivedEventDelivers, StackQueueDelivers
  <2>2. ASSUME NEW c \in Clients, UpdateInputView(c)
        PROVE  OneAuthor' /\ InOrder'
    BY <2>2, StacksAlone DEF UpdateInputView
  <2>3. CASE UNCHANGED vars
    BY <2>3, StacksAlone DEF vars, threads
  <2> QED  BY <2>1, <2>2, <2>3 DEF Next
<1> QED
  BY <1>1, <1>2 DEF DeliveryInv

LEMMA DeliveryFollows == DeliveryInv => GlobalFollowsLog
<1> SUFFICES ASSUME DeliveryInv, NEW c \in Clients
             PROVE  \E f \in [DOMAIN global[c] -> 1..received[c]] :
                      /\ \A i, j \in DOMAIN global[c] : i < j => f[i] < f[j]
                      /\ \A i \in DOMAIN global[c] : SameOp(global[c][i], log[f[i]].op)
  BY DEF GlobalFollowsLog
<1>1. PICK f : Placing(c, f)
  BY DEF DeliveryInv, InOrder, InOrderOf
<1>2. DOMAIN global[c] = 1..Len(global[c])
  <2>1. global[c] \in Seq(Ops)
    BY DEF DeliveryInv, TypeInv, TypeOK
  <2> QED  BY <2>1, LenProperties
<1>3. \A i \in 1..Len(global[c]) : SameOp(global[c][i], log[f[i]].op)
  BY <1>1 DEF Placing, Identity, SameOp
<1> QED
  BY <1>1, <1>2, <1>3 DEF Placing

\* However the threads of the devices interleave, whatever is refused or lost and
\* whichever confirmation finds nothing, the global stacks hold the session's
\* operations in the session's order, none twice: addNewChangeSet never lets two
\* devices disagree on which of two operations came first.
THEOREM DeliveryCorrect == Spec => []GlobalFollowsLog
<1>1. Spec => []DeliveryInv
  BY DeliveryInitially, NextDelivers, PTL DEF Spec
<1> QED
  BY <1>1, DeliveryFollows, PTL

-----------------------------------------------------------------------------
(* The session.                                                            *)

\* The operations of a sequence are signed by c and in one of the states S.
Marked(ops, c, S) ==
  \A i \in 1..Len(ops) : ops[i].participantID = c /\ ops[i].state \in S

\* What c holds is signed by c and marked as its place demands; only a member is
\* handed anything.
Signed(c) ==
  /\ Marked(local[c], c, {"LOCAL"})
  /\ Marked(batch[c], c, {"LOCAL"})
  /\ Marked(send[c], c, {"SEND"})
  /\ Marked(undo[c], c, {"UNDO"})
  /\ Marked(redo[c], c, {"REDO"})
  /\ \A i \in 1..Len(stackQ[c]) :
       /\ stackQ[c][i].kind = "local" => Marked(stackQ[c][i].ops, c, {"LOCAL"})
       /\ stackQ[c][i].kind = "undoRedo" => Marked(stackQ[c][i].ops, c, {"UNDO", "REDO"})
  /\ ~member[c] => received[c] = 0

\* The marks of an operation in the session.
LogStates == {"LOCAL", "UNDO", "REDO"}

\* The handler carries a change set from its first call until it has put it away.
Carrying(c) == batch[c] = << >> <=> timer[c] \in {"idle", "undoRedo"}

\* The global stack is a prefix of the log, and the stack queue holds what follows.
Prefix(c) ==
  /\ Len(global[c]) <= received[c]
  /\ Places(stackQ[c]) = (Len(global[c]) + 1)..received[c]
  /\ \A i \in 1..Len(global[c]) : Identity(global[c][i]) = Identity(log[i].op)

\* What waits for a confirmation, and the confirmations to come.
Awaiting(c) == IF timer[c] = "sent" THEN send[c] \o batch[c] ELSE send[c]

\* A keystroke of c; its undos and redos are not confirmed but placed like others'.
Keystroke(entry, c) == entry.op.participantID = c /\ entry.op.state = "LOCAL"

Expected(c) == {k \in (Len(global[c]) + 1)..Len(log) : Keystroke(log[k], c)}

\* f takes what waits, in order, to the confirmations.
Matching(c, f) ==
  /\ f \in [1..Len(Awaiting(c)) -> Expected(c)]
  /\ \A i, j \in 1..Len(Awaiting(c)) : i < j => f[i] < f[j]
  /\ \A k \in Expected(c) : \E i \in 1..Len(Awaiting(c)) : f[i] = k
  /\ \A i \in 1..Len(Awaiting(c)) : Identity(Awaiting(c)[i]) = Identity(log[f[i]].op)

Matched(c) == \E f : Matching(c, f)

Session(c) == Signed(c) /\ Carrying(c) /\ Prefix(c) /\ Matched(c)

SessionInv ==
  /\ DeliveryInv
  /\ \A k \in 1..Len(log) : log[k].op.state \in LogStates
  /\ \A c \in Clients : Session(c)

-----------------------------------------------------------------------------
(* Signatures.                                                             *)

\* Signatures survive what is done to the stacks.
LEMMA MarkedAppend ==
  ASSUME NEW s \in Seq(Ops), NEW op, NEW c, NEW S, Marked(s, c, S),
         op.participantID = c, op.state \in S
  PROVE  Marked(Append(s, op), c, S)
<1>1. /\ Len(Append(s, op)) = Len(s) + 1
      /\ \A i \in 1..Len(s) : Append(s, op)[i] = s[i]
      /\ Append(s, op)[Len(s) + 1] = op
      /\ Len(s) \in Nat
  BY Appended
<1>2. \A i \in 1..(Len(s) + 1) : i \in 1..Len(s) \/ i = Len(s) + 1
  BY <1>1
<1> QED
  BY <1>1, <1>2 DEF Marked

LEMMA MarkedConcat ==
  ASSUME NEW s \in Seq(Ops), NEW t \in Seq(Ops), NEW c, NEW S,
         Marked(s, c, S), Marked(t, c, S)
  PROVE  Marked(s \o t, c, S)
<1>1. /\ Len(s \o t) = Len(s) + Len(t)
      /\ \A i \in 1..(Len(s) + Len(t)) : (s \o t)[i] = IF i <= Len(s) THEN s[i] ELSE t[i - Len(s)]
  BY ConcatProperties
<1>2. Len(s) \in Nat /\ Len(t) \in Nat
  BY LenProperties
<1> DEFINE st == s \o t
<1> HIDE DEF st
<1> SUFFICES ASSUME NEW i \in 1..Len(st)
             PROVE  st[i].participantID = c /\ st[i].state \in S
  BY DEF Marked, st
<1>3. CASE i <= Len(s)
  <2>1. i \in 1..Len(s) /\ st[i] = s[i]
    BY <1>1, <1>2, <1>3 DEF st
  <2> QED  BY <2>1 DEF Marked
<1>4. CASE ~(i <= Len(s))
  <2>1. i - Len(s) \in 1..Len(t) /\ st[i] = t[i - Len(s)]
    BY <1>1, <1>2, <1>4 DEF st
  <2> QED  BY <2>1 DEF Marked
<1> QED
  BY <1>3, <1>4

LEMMA MarkedEmpty == \A c, S : Marked(<< >>, c, S)
BY EmptySeq DEF Marked

LEMMA MarkedMore ==
  ASSUME NEW s, NEW c, NEW S, NEW R, S \subseteq R, Marked(s, c, S)
  PROVE  Marked(s, c, R)
BY DEF Marked

LEMMA MarkedInState ==
  ASSUME NEW s \in Seq(Ops), NEW c, NEW R, NEW S, Marked(s, c, R)
  PROVE  Marked(InState(s, S), c, R \cap S)
<1> DEFINE O == {s[i] : i \in 1..Len(s)}
           K == {o \in O : o.state \in S}
           kept == InState(s, S)
<1>1. s \in Seq(O)
  BY LenProperties
<1> HIDE DEF O
<1>2. kept \in Seq(K)
  BY <1>1, InStatePicks
<1> HIDE DEF kept
<1>3. \A i \in 1..Len(kept) : kept[i] \in K
  BY <1>2, ElementOfSeq
<1>4. \A o \in O : o.participantID = c /\ o.state \in R
  BY DEF O, Marked
<1>5. Marked(kept, c, R \cap S)
  BY <1>3, <1>4 DEF Marked
<1> QED
  BY <1>5 DEF kept

-----------------------------------------------------------------------------
(* The stack queue and the send stack, exactly.                            *)

\* The first operation of a send stack taken out.
LEMMA FirstRemoved ==
  ASSUME NEW s \in Seq(Ops), s # << >>
  PROVE  /\ Len(s) \in Nat /\ Len(s) >= 1
         /\ RemoveAt(s, 1) \in Seq(Ops)
         /\ Len(RemoveAt(s, 1)) = Len(s) - 1
         /\ \A i \in 1..(Len(s) - 1) : RemoveAt(s, 1)[i] = s[i + 1]
<1>0. Len(s) \in Nat /\ Len(s) # 0
  BY LenProperties, EmptySeq
<1>1. /\ Len(s) \in Nat /\ Len(s) >= 1
      /\ \A i \in 1..Len(s) : s[i] \in Ops
  BY <1>0, ElementOfSeq
<1> DEFINE front == SubSeq(s, 1, 0)
           back  == SubSeq(s, 2, Len(s))
<1>2. front \in Seq(Ops) /\ Len(front) = 0
  BY <1>1, SubSeqProperties
<1>3. /\ back \in Seq(Ops)
      /\ Len(back) = Len(s) - 1
      /\ \A i \in 1..(Len(s) - 1) : back[i] = s[i + 1]
  <2>1. /\ back \in Seq(Ops)
        /\ Len(back) = IF 2 <= Len(s) THEN Len(s) - 2 + 1 ELSE 0
        /\ \A i \in 1..(Len(s) - 2 + 1) : back[i] = s[2 + i - 1]
    BY <1>1, SubSeqProperties
  <2> HIDE DEF back
  <2>2. Len(back) = Len(s) - 1
    <3>1. Len(back) = IF 2 <= Len(s) THEN Len(s) - 2 + 1 ELSE 0
      BY <2>1
    <3>2. CASE Len(s) = 1
      BY <3>1, <3>2
    <3>3. CASE Len(s) >= 2
      <4>1. Len(back) = Len(s) - 2 + 1
        BY <1>1, <3>1, <3>3
      <4> QED  BY <1>1, <4>1
    <3>4. \A n \in Nat : n # 0 => n = 1 \/ n >= 2
      OBVIOUS
    <3>5. Len(s) = 1 \/ Len(s) >= 2
      BY <1>0, <3>4
    <3> QED  BY <3>2, <3>3, <3>5
  <2>3. ASSUME NEW i \in 1..(Len(s) - 1)  PROVE back[i] = s[i + 1]
    <3>1. i \in 1..(Len(s) - 2 + 1) /\ 2 + i - 1 = i + 1
      BY <1>1
    <3> QED  BY <2>1, <3>1
  <2> QED  BY <2>1, <2>2, <2>3
<1> HIDE DEF front, back
<1>4. RemoveAt(s, 1) = front \o back
  <2>1. 1 - 1 = 0 /\ 1 + 1 = 2
    OBVIOUS
  <2> QED  BY <2>1 DEF RemoveAt, front, back
<1>5. /\ front \o back \in Seq(Ops)
      /\ Len(front \o back) = Len(s) - 1
      /\ \A i \in 1..(Len(s) - 1) : (front \o back)[i] = back[i]
  <2>1. /\ front \o back \in Seq(Ops)
        /\ Len(front \o back) = Len(front) + Len(back)
        /\ \A i \in 1..(Len(front) + Len(back)) :
             (front \o back)[i] = IF i <= Len(front) THEN front[i] ELSE back[i - Len(front)]
    BY <1>2, <1>3, ConcatProperties
  <2> QED  BY <1>1, <1>2, <1>3, <2>1
<1> QED
  BY <1>1, <1>3, <1>4, <1>5

-----------------------------------------------------------------------------
(* Steps that leave c's own part, or the others', alone.                   *)

\* Nothing of the other devices changes.
OthersStay(c) ==
  \A d \in Clients : d # c =>
    /\ local'[d] = local[d] /\ batch'[d] = batch[d] /\ send'[d] = send[d]
    /\ undo'[d] = undo[d] /\ redo'[d] = redo[d] /\ stackQ'[d] = stackQ[d]
    /\ global'[d] = global[d] /\ received'[d] = received[d]
    /\ timer'[d] = timer[d] /\ member'[d] = member[d]

\* The log keeps what it has, and what joins it is c's.
LogGrows(c) ==
  /\ LogKept
  /\ Len(log) \in Nat /\ Len(log') \in Nat /\ Len(log) <= Len(log')
  /\ \A k \in (Len(log) + 1)..Len(log') :
       log'[k].op.participantID = c /\ log'[k].op.state \in LogStates

LEMMA LogAlone ==
  ASSUME TypeOK, UNCHANGED log, NEW c
  PROVE  LogGrows(c)
<1>1. Len(log) \in Nat
  BY LenProperties DEF TypeOK
<1> QED  BY <1>1 DEF LogGrows, LogKept

\* A broadcast, seen entry by entry.
LEMMA EventGrows ==
  ASSUME TypeOK, NEW c, NEW ops \in Seq(Ops), Marked(ops, c, LogStates),
         log' = log \o Event(ops)
  PROVE  /\ LogGrows(c)
         /\ Len(log') = Len(log) + Len(ops)
         /\ Len(log) \in Nat /\ Len(ops) \in Nat
         /\ \A k \in 1..Len(log) : log'[k] = log[k]
         /\ \A i \in 1..Len(ops) : log'[Len(log) + i].op = ops[i]
<1> DEFINE event == Event(ops)
           m == Len(log)
           Entry == [op : Ops, order : Nat]
<1>1. /\ log \in Logs /\ event \in Logs
      /\ m \in Nat /\ Len(ops) \in Nat /\ Len(event) = Len(ops)
      /\ \A i \in 1..Len(ops) : event[i].op = ops[i]
  BY EventType
<1> HIDE DEF event
<1>2. /\ Len(log') = m + Len(ops)
      /\ \A k \in 1..(m + Len(ops)) : log'[k] = IF k <= m THEN log[k] ELSE event[k - m]
  <2>1. log \in Seq(Entry) /\ event \in Seq(Entry)
    BY <1>1 DEF Logs
  <2> HIDE DEF Entry
  <2>2. /\ Len(log \o event) = Len(log) + Len(event)
        /\ \A k \in 1..(Len(log) + Len(event)) :
             (log \o event)[k] = IF k <= Len(log) THEN log[k] ELSE event[k - Len(log)]
    BY <2>1, ConcatProperties
  <2>3. log' = log \o event
    BY DEF event
  <2> QED  BY <1>1, <2>2, <2>3
<1> HIDE DEF m
<1>3. \A k \in 1..m : log'[k] = log[k]
  BY <1>1, <1>2
<1>4. ASSUME NEW i \in 1..Len(ops)
      PROVE  log'[m + i].op = ops[i]
  <2>1. m + i \in 1..(m + Len(ops)) /\ ~(m + i <= m) /\ (m + i) - m = i
    BY <1>1
  <2> QED  BY <1>1, <1>2, <2>1
<1>5. ASSUME NEW k \in (m + 1)..Len(log')
      PROVE  log'[k].op.participantID = c /\ log'[k].op.state \in LogStates
  <2>1. k - m \in 1..Len(ops) /\ m + (k - m) = k
    BY <1>1, <1>2
  <2>2. log'[k].op = ops[k - m]
    BY <1>4, <2>1
  <2> QED  BY <2>1, <2>2 DEF Marked
<1>6. m <= Len(log') /\ Len(log') \in Nat
  BY <1>1, <1>2
<1> QED
  BY <1>1, <1>2, <1>3, <1>4, <1>5, <1>6 DEF LogGrows, LogKept, m

\* The confirmations to come are the same when nothing of d's joins the log.
LEMMA ExpectedKept ==
  ASSUME LogKept, Len(log) \in Nat, Len(log') \in Nat, Len(log) <= Len(log'),
         NEW d, \A k \in (Len(log) + 1)..Len(log') : ~Keystroke(log'[k], d),
         Len(global[d]) \in Nat, Len(global'[d]) = Len(global[d])
  PROVE  Expected(d)' = Expected(d)
<1> DEFINE g == Len(global[d])
           m == Len(log)
           n == Len(log')
<1>1. Expected(d)' = {k \in (g + 1)..n : Keystroke(log'[k], d)}
  BY DEF Expected, Keystroke
<1>2. Expected(d) = {k \in (g + 1)..m : Keystroke(log[k], d)}
  BY DEF Expected
<1> HIDE DEF g, m, n
<1>3. g \in Nat /\ m \in Nat /\ n \in Nat /\ m <= n
  BY DEF g, m, n
<1>4. \A k \in 1..m : log'[k] = log[k]
  BY DEF LogKept, m
<1>5. \A k \in (m + 1)..n : ~Keystroke(log'[k], d)
  BY DEF m, n
<1>6. \A k \in (g + 1)..n : k \in 1..m \/ k \in (m + 1)..n
  BY <1>3
<1>7. \A k \in (g + 1)..m : k \in 1..m /\ k \in (g + 1)..n
  BY <1>3
<1>8. \A k \in (g + 1)..n : k \in 1..m => k \in (g + 1)..m
  BY <1>3
<1>9. ASSUME NEW k \in (g + 1)..n, Keystroke(log'[k], d)
      PROVE  k \in (g + 1)..m /\ Keystroke(log[k], d)
  BY <1>4, <1>5, <1>6, <1>8, <1>9
<1>10. ASSUME NEW k \in (g + 1)..m, Keystroke(log[k], d)
       PROVE  k \in (g + 1)..n /\ Keystroke(log'[k], d)
  BY <1>4, <1>7, <1>10
<1> QED
  BY <1>1, <1>2, <1>9, <1>10

\* A matching stays one when neither what waits nor what is to come changes.
LEMMA MatchedKept ==
  ASSUME NEW d, Matched(d), LogKept, Len(global[d]) \in Nat,
         Expected(d)' = Expected(d),
         Len(Awaiting(d))' = Len(Awaiting(d)),
         \A i \in 1..Len(Awaiting(d)) : Identity(Awaiting(d)[i])' = Identity(Awaiting(d)[i])
  PROVE  Matched(d)'
<1> PICK f : Matching(d, f)
  BY DEF Matched
<1> DEFINE n == Len(Awaiting(d))
<1>1. /\ f \in [1..n -> Expected(d)]
      /\ \A i, j \in 1..n : i < j => f[i] < f[j]
      /\ \A k \in Expected(d) : \E i \in 1..n : f[i] = k
      /\ \A i \in 1..n : Identity(Awaiting(d)[i]) = Identity(log[f[i]].op)
  BY DEF Matching
<1>2. \A k \in Expected(d) : k \in 1..Len(log)
  BY DEF Expected
<1>3. \A i \in 1..n : Identity(Awaiting(d)[i])' = Identity(log'[f[i]].op)
  BY <1>1, <1>2 DEF LogKept
<1> QED
  BY <1>1, <1>3 DEF Matched, Matching

\* A global stack that stays is still a prefix of what the log has become.
LEMMA PrefixKept ==
  ASSUME NEW d \in Clients, Prefix(d), TypeInv, LogKept,
         global'[d] = global[d], received'[d] = received[d],
         Places(stackQ[d])' = Places(stackQ[d])
  PROVE  Prefix(d)'
<1>1. received[d] \in Nat /\ received[d] <= Len(log) /\ Len(log) \in Nat
  BY LenProperties DEF TypeInv, TypeOK, HandedOver
<1>2. global[d] \in Seq(Ops) /\ Len(global[d]) \in Nat
  BY LenProperties DEF TypeInv, TypeOK
<1>3. \A i \in 1..Len(global[d]) : i \in 1..Len(log)
  BY <1>1, <1>2 DEF Prefix
<1>4. \A i \in 1..Len(global[d]) : Identity(global[d][i]) = Identity(log'[i].op)
  BY <1>3 DEF Prefix, LogKept
<1> QED
  BY <1>4 DEF Prefix

\* A device's step leaves the others' parts of the invariant alone.
LEMMA OthersInSession ==
  ASSUME SessionInv, NEW c \in Clients, OthersStay(c), LogGrows(c)
  PROVE  \A d \in Clients : d # c => Session(d)'
<1> SUFFICES ASSUME NEW d \in Clients, d # c  PROVE Session(d)'
  OBVIOUS
<1>1. /\ local'[d] = local[d] /\ batch'[d] = batch[d] /\ send'[d] = send[d]
      /\ undo'[d] = undo[d] /\ redo'[d] = redo[d] /\ stackQ'[d] = stackQ[d]
      /\ global'[d] = global[d] /\ received'[d] = received[d]
      /\ timer'[d] = timer[d] /\ member'[d] = member[d]
  BY DEF OthersStay
<1>2. Signed(d) /\ Carrying(d) /\ Prefix(d) /\ Matched(d) /\ TypeInv /\ TypeOK
  BY DEF SessionInv, Session, DeliveryInv, TypeInv
<1>3. Signed(d)'
  BY <1>1, <1>2 DEF Signed, Marked
<1>4. Carrying(d)'
  BY <1>1, <1>2 DEF Carrying
<1>5. LogKept
  BY DEF LogGrows
<1>6. Prefix(d)'
  <2>1. Places(stackQ[d])' = Places(stackQ[d])
    BY <1>1 DEF Places
  <2> QED  BY <1>1, <1>2, <1>5, <2>1, PrefixKept
<1>7. Len(global[d]) \in Nat
  BY <1>2, LenProperties DEF TypeOK
<1>8. Expected(d)' = Expected(d)
  <2>1. \A k \in (Len(log) + 1)..Len(log') : ~Keystroke(log'[k], d)
    BY DEF LogGrows, Keystroke
  <2> QED  BY <1>1, <1>5, <1>7, <2>1, ExpectedKept DEF LogGrows
<1>9. Awaiting(d)' = Awaiting(d)
  BY <1>1 DEF Awaiting
<1>10. Matched(d)'
  <2>1. Len(Awaiting(d))' = Len(Awaiting(d))
    BY <1>9
  <2>2. \A i \in 1..Len(Awaiting(d)) : Identity(Awaiting(d)[i])' = Identity(Awaiting(d)[i])
    BY <1>9 DEF Identity
  <2> QED  BY <1>2, <1>5, <1>7, <1>8, <2>1, <2>2, MatchedKept
<1> QED
  BY <1>3, <1>4, <1>6, <1>10 DEF Session

\* A step of c keeps the invariant when it keeps c's part of it.
LEMMA StepOfOne ==
  ASSUME SessionInv, DeliveryInv', NEW c \in Clients, OthersStay(c), LogGrows(c), Session(c)'
  PROVE  SessionInv'
<1>1. \A d \in Clients : Session(d)'
  BY OthersInSession
<1>2. ASSUME NEW k \in 1..Len(log')
      PROVE  log'[k].op.state \in LogStates
  <2>1. k \in 1..Len(log) \/ k \in (Len(log) + 1)..Len(log')
    BY DEF LogGrows
  <2>2. CASE k \in 1..Len(log)
    BY <2>2 DEF SessionInv, LogGrows, LogKept
  <2>3. CASE k \in (Len(log) + 1)..Len(log')
    BY <2>3 DEF LogGrows
  <2> QED  BY <2>1, <2>2, <2>3
<1> QED
  BY <1>1, <1>2 DEF SessionInv, LogStates

\* A step of c that serves no event and sends no keystroke keeps the invariant when
\* it leaves what c waits for.
LEMMA StepBesides ==
  ASSUME SessionInv, DeliveryInv', NEW c \in Clients, OthersStay(c), LogGrows(c),
         \A k \in (Len(log) + 1)..Len(log') : ~Keystroke(log'[k], c),
         Signed(c)', Carrying(c)',
         global'[c] = global[c], received'[c] = received[c],
         Places(stackQ[c])' = Places(stackQ[c]),
         Len(Awaiting(c))' = Len(Awaiting(c)),
         \A i \in 1..Len(Awaiting(c)) : Identity(Awaiting(c)[i])' = Identity(Awaiting(c)[i])
  PROVE  SessionInv'
<1>1. /\ TypeInv /\ TypeOK /\ Prefix(c) /\ Matched(c) /\ LogKept
      /\ Len(log) \in Nat /\ Len(log') \in Nat /\ Len(log) <= Len(log')
  BY DEF SessionInv, Session, DeliveryInv, TypeInv, LogGrows
<1>2. Len(global[c]) \in Nat
  BY <1>1, LenProperties DEF TypeOK
<1>3. Prefix(c)'
  BY <1>1, PrefixKept
<1>4. Expected(c)' = Expected(c)
  BY <1>1, <1>2, ExpectedKept
<1>5. Matched(c)'
  BY <1>1, <1>2, <1>4, MatchedKept
<1> QED
  BY <1>3, <1>5, StepOfOne DEF Session

\* ... in particular when it leaves the log, its queue and its send stack alone.
LEMMA StepAside ==
  ASSUME SessionInv, DeliveryInv', NEW c \in Clients, OthersStay(c), Signed(c)',
         UNCHANGED <<log, send, global, received, stackQ, batch, timer>>
  PROVE  SessionInv'
<1>1. TypeOK /\ Carrying(c)
  BY DEF SessionInv, Session, DeliveryInv, TypeInv
<1>2. LogGrows(c) /\ Len(log) \in Nat
  BY <1>1, LogAlone DEF LogGrows
<1>3. \A k \in (Len(log) + 1)..Len(log') : ~Keystroke(log'[k], c)
  BY <1>2
<1>4. Awaiting(c)' = Awaiting(c)
  BY DEF Awaiting
<1>5. Len(Awaiting(c))' = Len(Awaiting(c))
  BY <1>4
<1>6. \A i \in 1..Len(Awaiting(c)) : Identity(Awaiting(c)[i])' = Identity(Awaiting(c)[i])
  BY <1>4 DEF Identity
<1>7. Carrying(c)' /\ Places(stackQ[c])' = Places(stackQ[c])
  BY <1>1 DEF Carrying, Places
<1> QED
  BY <1>2, <1>3, <1>5, <1>6, <1>7, StepBesides

\* Who has nothing of the session is not in it.
LEMMA HolderIsMember ==
  ASSUME SessionInv, NEW c \in Clients, Len(global[c]) # 0
  PROVE  member[c] /\ ParticipantID(c) = c
<1>1. Signed(c) /\ Prefix(c) /\ TypeOK
  BY DEF SessionInv, Session, DeliveryInv, TypeInv
<1>2. received[c] \in Nat /\ Len(global[c]) \in Nat /\ Len(global[c]) <= received[c]
  BY <1>1, LenProperties DEF TypeOK, Prefix
<1>3. received[c] # 0
  BY <1>2
<1> QED
  BY <1>1, <1>3 DEF Signed, ParticipantID

\* A keystroke, an undo, a redo, and entering the session.
LEMMA UserInSession ==
  ASSUME SessionInv, DeliveryInv', "early" \notin Freedoms, NEW c \in Clients, User(c)
  PROVE  SessionInv'
<1>1. /\ TypeOK /\ Signed(c)
      /\ local[c] \in Seq(Ops) /\ undo[c] \in Seq(Ops) /\ redo[c] \in Seq(Ops)
      /\ local \in [Clients -> Seq(Ops)] /\ undo \in [Clients -> Seq(Ops)]
      /\ redo \in [Clients -> Seq(Ops)] /\ member \in [Clients -> BOOLEAN]
      /\ global[c] \in Seq(Ops)
  BY DEF SessionInv, Session, DeliveryInv, TypeInv, TypeOK
<1>2. CASE Type(c)
  <2>1. PICK edit \in Edits, location \in 0..Len(text[c]) :
          LET range == [location |-> location, length |-> edit[1]]
          IN  /\ Within(range, text[c])
              /\ ShouldChangeText(c, range, Typed(c, edit[2]))
    BY <1>2 DEF Type
  <2> DEFINE range == [location |-> location, length |-> edit[1]]
             op    == NewOperation(c, range, Substring(text[c], range), Typed(c, edit[2]))
  <2>2. /\ local' = [local EXCEPT ![c] = Append(local[c], op)]
        /\ UNCHANGED <<member, log, received, send, global, undo, redo, stackQ, batch, timer>>
    BY <2>1 DEF ShouldChangeText, threads
  <2>3. op.participantID = c /\ op.state \in {"LOCAL"}
    BY <1>2 DEF Type, NewOperation, ParticipantID
  <2> HIDE DEF op, range
  <2>4. local'[c] = Append(local[c], op) /\ \A d \in Clients : d # c => local'[d] = local[d]
    BY <1>1, <2>2
  <2>5. Marked(local'[c], c, {"LOCAL"})
    <3>1. Marked(local[c], c, {"LOCAL"})
      BY <1>1 DEF Signed
    <3>2. Marked(Append(local[c], op), c, {"LOCAL"})
      BY <1>1, <2>3, <3>1, MarkedAppend
    <3> QED  BY <2>4, <3>2
  <2>6. Signed(c)'
    BY <1>1, <2>2, <2>5 DEF Signed, Marked
  <2>7. OthersStay(c)
    BY <2>2, <2>4 DEF OthersStay
  <2> QED  BY <2>2, <2>6, <2>7, StepAside
<1>3. CASE UndoAct(c)
  <2> DEFINE target == UndoTarget(global[c], ParticipantID(c))
             op == InverseOf(global[c][target], ParticipantID(c), nextID[c], "UNDO")
  <2>1. /\ target # 0
        /\ undo' = [undo EXCEPT ![c] = Append(undo[c], op)]
        /\ UNCHANGED <<member, log, received, send, global, local, redo, stackQ, batch, timer>>
    BY <1>3 DEF UndoAct, threads
  <2>2. Len(global[c]) # 0
    <3>1. target \in {0} \cup 1..Len(global[c])
      BY <1>1, TargetIsPlace
    <3> HIDE DEF target
    <3> QED  BY <2>1, <3>1
  <2>3. op.participantID = c /\ op.state \in {"UNDO"}
    BY <2>2, HolderIsMember DEF InverseOf
  <2> HIDE DEF op, target
  <2>4. undo'[c] = Append(undo[c], op) /\ \A d \in Clients : d # c => undo'[d] = undo[d]
    BY <1>1, <2>1
  <2>5. Marked(undo'[c], c, {"UNDO"})
    <3>1. Marked(undo[c], c, {"UNDO"})
      BY <1>1 DEF Signed
    <3>2. Marked(Append(undo[c], op), c, {"UNDO"})
      BY <1>1, <2>3, <3>1, MarkedAppend
    <3> QED  BY <2>4, <3>2
  <2>6. Signed(c)'
    BY <1>1, <2>1, <2>5 DEF Signed, Marked
  <2>7. OthersStay(c)
    BY <2>1, <2>4 DEF OthersStay
  <2> QED  BY <2>1, <2>6, <2>7, StepAside
<1>4. CASE RedoAct(c)
  <2> DEFINE target == RedoTarget(global[c], ParticipantID(c))
             op == InverseOf(global[c][target], ParticipantID(c), nextID[c], "REDO")
  <2>1. /\ target # 0
        /\ redo' = [redo EXCEPT ![c] = Append(redo[c], op)]
        /\ UNCHANGED <<member, log, received, send, global, local, undo, stackQ, batch, timer>>
    BY <1>4 DEF RedoAct, threads
  <2>2. Len(global[c]) # 0
    <3>1. target \in {0} \cup 1..Len(global[c])
      BY <1>1, TargetIsPlace
    <3> HIDE DEF target
    <3> QED  BY <2>1, <3>1
  <2>3. op.participantID = c /\ op.state \in {"REDO"}
    BY <2>2, HolderIsMember DEF InverseOf
  <2> HIDE DEF op, target
  <2>4. redo'[c] = Append(redo[c], op) /\ \A d \in Clients : d # c => redo'[d] = redo[d]
    BY <1>1, <2>1
  <2>5. Marked(redo'[c], c, {"REDO"})
    <3>1. Marked(redo[c], c, {"REDO"})
      BY <1>1 DEF Signed
    <3>2. Marked(Append(redo[c], op), c, {"REDO"})
      BY <1>1, <2>3, <3>1, MarkedAppend
    <3> QED  BY <2>4, <3>2
  <2>6. Signed(c)'
    BY <1>1, <2>1, <2>5 DEF Signed, Marked
  <2>7. OthersStay(c)
    BY <2>1, <2>4 DEF OthersStay
  <2> QED  BY <2>1, <2>6, <2>7, StepAside
<1>5. CASE CreateSess(c) \/ JoinSess(c)
  <2>1. /\ member' = [member EXCEPT ![c] = TRUE]
        /\ UNCHANGED <<log, received, local, send, global, undo, redo, stackQ, batch, timer>>
    BY <1>5 DEF CreateSess, JoinSess, stacks, threads
  <2>2. member'[c] /\ \A d \in Clients : d # c => member'[d] = member[d]
    BY <1>1, <2>1
  <2>3. Signed(c)'
    BY <1>1, <2>1, <2>2 DEF Signed, Marked
  <2>4. OthersStay(c)
    BY <2>1, <2>2 DEF OthersStay
  <2> QED  BY <2>1, <2>3, <2>4, StepAside
<1> QED
  BY <1>2, <1>3, <1>4, <1>5 DEF User

\* A refused change set goes to the stack queue, behind what waits there.
LEMMA RefusedIsSigned ==
  ASSUME TypeOK, NEW c \in Clients, NEW kind \in {"local", "undoRedo"},
         NEW ops \in Seq(Ops), DispatchBack(c, kind, ops), Sorted(stackQ[c]), Signed(c),
         kind = "local" => Marked(ops, c, {"LOCAL"}),
         kind = "undoRedo" => Marked(ops, c, {"UNDO", "REDO"})
  PROVE  /\ \A i \in 1..Len(stackQ'[c]) :
              /\ stackQ'[c][i].kind = "local" => Marked(stackQ'[c][i].ops, c, {"LOCAL"})
              /\ stackQ'[c][i].kind = "undoRedo" => Marked(stackQ'[c][i].ops, c, {"UNDO", "REDO"})
         /\ Places(stackQ'[c]) = Places(stackQ[c])
         /\ \A d \in Clients : d # c => stackQ'[d] = stackQ[d]
<1> DEFINE block == [kind |-> kind, at |-> 0, ops |-> ops]
<1>1. stackQ \in [Clients -> Seq(Blocks)] /\ stackQ[c] \in Seq(Blocks)
  BY DEF TypeOK
<1>2. block \in Blocks /\ block.kind = kind /\ block.ops = ops
  BY DEF Blocks
<1>3. \/ stackQ' = [stackQ EXCEPT ![c] = Append(stackQ[c], block)]
      \/ stackQ' = stackQ
  BY DEF DispatchBack
<1> HIDE DEF block
<1>4. CASE stackQ' = [stackQ EXCEPT ![c] = Append(stackQ[c], block)]
  <2> DEFINE queue == stackQ[c]
             longer == stackQ'[c]
  <2>1. /\ Len(longer) = Len(queue) + 1 /\ Len(queue) \in Nat
        /\ \A i \in 1..Len(queue) : longer[i] = queue[i]
        /\ longer[Len(queue) + 1] = block
    BY <1>1, <1>2, <1>4, AppendProperties, LenProperties
  <2>2. \A i \in 1..Len(longer) : i \in 1..Len(queue) \/ i = Len(queue) + 1
    BY <2>1
  <2>3. \A i \in 1..Len(queue) :
          /\ queue[i].kind = "local" => Marked(queue[i].ops, c, {"LOCAL"})
          /\ queue[i].kind = "undoRedo" => Marked(queue[i].ops, c, {"UNDO", "REDO"})
    BY DEF Signed
  <2> HIDE DEF queue, longer
  <2>4. \A i \in 1..Len(longer) :
          /\ longer[i].kind = "local" => Marked(longer[i].ops, c, {"LOCAL"})
          /\ longer[i].kind = "undoRedo" => Marked(longer[i].ops, c, {"UNDO", "REDO"})
    <3> SUFFICES ASSUME NEW i \in 1..Len(longer)
                 PROVE  /\ longer[i].kind = "local" => Marked(longer[i].ops, c, {"LOCAL"})
                        /\ longer[i].kind = "undoRedo" =>
                             Marked(longer[i].ops, c, {"UNDO", "REDO"})
      OBVIOUS
    <3>1. CASE i \in 1..Len(queue)
      BY <2>1, <2>3, <3>1
    <3>2. CASE i = Len(queue) + 1
      BY <1>2, <2>1, <3>2
    <3> QED  BY <2>2, <3>1, <3>2
  <2>5. \A d \in Clients : d # c => stackQ'[d] = stackQ[d]
    BY <1>1, <1>4
  <2> QED  BY <2>4, <2>5, DispatchBackKeepsQueue DEF longer
<1>5. CASE stackQ' = stackQ
  BY <1>5 DEF Signed
<1> QED
  BY <1>3, <1>4, <1>5

-----------------------------------------------------------------------------
(* The timer's handler.                                                    *)

\* The handler takes the local stack.
LEMMA GetLocalChangeSetInSession ==
  ASSUME SessionInv, DeliveryInv', NEW c \in Clients, GetLocalChangeSet(c)
  PROVE  SessionInv'
<1>1. /\ TypeOK /\ Signed(c) /\ Carrying(c)
      /\ local[c] \in Seq(Ops) /\ local \in [Clients -> Seq(Ops)]
      /\ batch \in [Clients -> Seq(Ops)] /\ timer \in [Clients -> TimerSteps]
      /\ timer[c] = "idle"
  BY DEF SessionInv, Session, DeliveryInv, TypeInv, TypeOK, GetLocalChangeSet, AtTurn, MainFree
<1> DEFINE f == [i \in DOMAIN local[c] |-> [local[c][i] EXCEPT !.referID = Refer(c)]]
<1>2. /\ batch' = [batch EXCEPT ![c] = f]
      /\ local' = [local EXCEPT ![c] = << >>]
      /\ timer' = [timer EXCEPT ![c] = IF local[c] = << >> THEN "undoRedo" ELSE "taken"]
      /\ UNCHANGED <<member, log, received, send, global, undo, redo, stackQ>>
  BY DEF GetLocalChangeSet
<1>3. Len(f) = Len(local[c]) /\ Len(local[c]) \in Nat
  BY <1>1
<1>4. ASSUME NEW i \in 1..Len(local[c])
      PROVE  f[i].participantID = local[c][i].participantID /\ f[i].state = local[c][i].state
  <2>1. local[c][i] \in Ops /\ i \in DOMAIN local[c]
    BY <1>1, ElementOfSeq
  <2> QED  BY <2>1 DEF Ops, Operations
<1>5. f = << >> <=> local[c] = << >>
  <2>1. f \in Seq(Ops)
    <3>1. batch' \in [Clients -> Seq(Ops)]
      BY DEF DeliveryInv, TypeInv, TypeOK
    <3>2. batch'[c] = f
      BY <1>1, <1>2
    <3> QED  BY <3>1, <3>2
  <2>2. Len(f) = 0 <=> f = << >>
    <3> HIDE DEF f
    <3> QED  BY <2>1, EmptySeq
  <2>3. Len(local[c]) = 0 <=> local[c] = << >>
    BY <1>1, EmptySeq
  <2> QED  BY <1>3, <2>2, <2>3
<1> HIDE DEF f
<1>6. /\ batch'[c] = f /\ local'[c] = << >>
      /\ timer'[c] = IF local[c] = << >> THEN "undoRedo" ELSE "taken"
      /\ \A d \in Clients : d # c =>
           batch'[d] = batch[d] /\ local'[d] = local[d] /\ timer'[d] = timer[d]
  BY <1>1, <1>2
<1>7. OthersStay(c) /\ LogGrows(c) /\ Len(log) \in Nat
  BY <1>1, <1>2, <1>6, LogAlone DEF OthersStay, LogGrows
<1>8. Signed(c)'
  <2>1. Marked(f, c, {"LOCAL"})
    BY <1>1, <1>3, <1>4 DEF Signed, Marked
  <2>2. Marked(batch'[c], c, {"LOCAL"}) /\ Marked(local'[c], c, {"LOCAL"})
    BY <1>6, <2>1, MarkedEmpty
  <2>3. UNCHANGED <<member, received, send, undo, redo, stackQ>>
    BY <1>2
  <2> QED  BY <1>1, <2>2, <2>3 DEF Signed, Marked
<1>9. Carrying(c)'
  BY <1>5, <1>6 DEF Carrying
<1>10. Awaiting(c)' = Awaiting(c)
  <2>1. timer'[c] # "sent"
    BY <1>6
  <2> QED  BY <1>1, <1>2, <2>1 DEF Awaiting
<1>11. \A k \in (Len(log) + 1)..Len(log') : ~Keystroke(log'[k], c)
  BY <1>2, <1>7
<1>12. Places(stackQ[c])' = Places(stackQ[c]) /\ Len(Awaiting(c))' = Len(Awaiting(c))
  BY <1>2, <1>10 DEF Places
<1>13. \A i \in 1..Len(Awaiting(c)) : Identity(Awaiting(c)[i])' = Identity(Awaiting(c)[i])
  BY <1>10 DEF Identity
<1> QED
  BY <1>2, <1>7, <1>8, <1>9, <1>11, <1>12, <1>13, StepBesides

\* A refused change set goes to the stack queue.
LEMMA RefuseLocalInSession ==
  ASSUME SessionInv, DeliveryInv', NEW c \in Clients, RefuseLocal(c)
  PROVE  SessionInv'
<1>1. /\ TypeOK /\ Signed(c) /\ Sorted(stackQ[c])
      /\ batch[c] \in Seq(Ops) /\ Marked(batch[c], c, {"LOCAL"})
      /\ batch \in [Clients -> Seq(Ops)] /\ timer \in [Clients -> TimerSteps]
      /\ timer[c] = "taken"
  BY DEF SessionInv, Session, DeliveryInv, TypeInv, TypeOK, RefuseLocal, InOrder, InOrderOf, Signed
<1>2. /\ DispatchBack(c, "local", batch[c])
      /\ batch' = [batch EXCEPT ![c] = << >>]
      /\ timer' = [timer EXCEPT ![c] = "undoRedo"]
      /\ UNCHANGED <<member, log, received, local, send, global, undo, redo>>
  BY DEF RefuseLocal, stacks
<1>3. /\ \A i \in 1..Len(stackQ'[c]) :
           /\ stackQ'[c][i].kind = "local" => Marked(stackQ'[c][i].ops, c, {"LOCAL"})
           /\ stackQ'[c][i].kind = "undoRedo" => Marked(stackQ'[c][i].ops, c, {"UNDO", "REDO"})
      /\ Places(stackQ'[c]) = Places(stackQ[c])
      /\ \A d \in Clients : d # c => stackQ'[d] = stackQ[d]
  BY <1>1, <1>2, RefusedIsSigned
<1>4. /\ batch'[c] = << >> /\ timer'[c] = "undoRedo"
      /\ \A d \in Clients : d # c => batch'[d] = batch[d] /\ timer'[d] = timer[d]
  BY <1>1, <1>2
<1>5. OthersStay(c) /\ LogGrows(c) /\ Len(log) \in Nat
  BY <1>1, <1>2, <1>3, <1>4, LogAlone DEF OthersStay, LogGrows
<1>6. Signed(c)'
  <2>1. Marked(batch'[c], c, {"LOCAL"})
    BY <1>4, MarkedEmpty
  <2> QED  BY <1>1, <1>2, <1>3, <2>1 DEF Signed, Marked
<1>7. Carrying(c)'
  BY <1>4 DEF Carrying
<1>8. Awaiting(c)' = Awaiting(c)
  BY <1>1, <1>2, <1>4 DEF Awaiting
<1>9. \A k \in (Len(log) + 1)..Len(log') : ~Keystroke(log'[k], c)
  BY <1>2, <1>5
<1>10. Places(stackQ[c])' = Places(stackQ[c]) /\ Len(Awaiting(c))' = Len(Awaiting(c))
  BY <1>3, <1>8 DEF Places
<1>11. \A i \in 1..Len(Awaiting(c)) : Identity(Awaiting(c)[i])' = Identity(Awaiting(c)[i])
  BY <1>8 DEF Identity
<1> QED
  BY <1>2, <1>5, <1>6, <1>7, <1>9, <1>10, <1>11, StepBesides

\* What the handler carried becomes the end of the send stack: what waits is the same.
LEMMA PutIntoSendStackInSession ==
  ASSUME SessionInv, DeliveryInv', NEW c \in Clients, PutIntoSendStack(c)
  PROVE  SessionInv'
<1>1. /\ TypeOK /\ Signed(c)
      /\ send[c] \in Seq(Ops) /\ batch[c] \in Seq(Ops)
      /\ batch \in [Clients -> Seq(Ops)] /\ timer \in [Clients -> TimerSteps]
      /\ send \in [Clients -> Seq(Ops)]
      /\ timer[c] = "sent"
  BY DEF SessionInv, Session, DeliveryInv, TypeInv, TypeOK, PutIntoSendStack
<1> DEFINE e(i) == [batch[c][i] EXCEPT !.state = "SEND"]
           ops == [i \in DOMAIN batch[c] |-> e(i)]
<1>2. /\ send' = [send EXCEPT ![c] = send[c] \o ops]
      /\ batch' = [batch EXCEPT ![c] = << >>]
      /\ timer' = [timer EXCEPT ![c] = "undoRedo"]
      /\ UNCHANGED <<member, log, received, local, global, undo, redo, stackQ>>
  BY DEF PutIntoSendStack
<1>3. \A i \in 1..Len(batch[c]) :
        /\ e(i) \in Ops /\ Identity(e(i)) = Identity(batch[c][i])
        /\ e(i).participantID = batch[c][i].participantID /\ e(i).state = "SEND"
  <2> SUFFICES ASSUME NEW i \in 1..Len(batch[c])
               PROVE  /\ e(i) \in Ops /\ Identity(e(i)) = Identity(batch[c][i])
                      /\ e(i).participantID = batch[c][i].participantID /\ e(i).state = "SEND"
    OBVIOUS
  <2>1. batch[c][i] \in Ops
    BY <1>1, ElementOfSeq
  <2> QED  BY <2>1 DEF Identity, Ops, Operations, States
<1>4. /\ ops \in Seq(Ops) /\ Len(ops) = Len(batch[c]) /\ Len(batch[c]) \in Nat
      /\ \A i \in 1..Len(batch[c]) : ops[i] = e(i)
  <2> HIDE DEF e
  <2>1. Len(batch[c]) \in Nat /\ DOMAIN batch[c] = 1..Len(batch[c])
    BY <1>1
  <2>2. ops \in Seq(Ops)
    BY <1>3, <2>1, IsASeq
  <2> QED  BY <2>1, <2>2
<1> HIDE DEF ops, e
<1>5. /\ send'[c] = send[c] \o ops /\ batch'[c] = << >> /\ timer'[c] = "undoRedo"
      /\ \A d \in Clients : d # c =>
           batch'[d] = batch[d] /\ timer'[d] = timer[d] /\ send'[d] = send[d]
  BY <1>1, <1>2
<1>6. OthersStay(c) /\ LogGrows(c) /\ Len(log) \in Nat
  BY <1>1, <1>2, <1>5, LogAlone DEF OthersStay, LogGrows
<1>7. Signed(c)'
  <2>0. \A i \in 1..Len(batch[c]) : batch[c][i].participantID = c
    BY <1>1 DEF Signed, Marked
  <2>1. Marked(ops, c, {"SEND"}) /\ Marked(send[c], c, {"SEND"})
    <3>1. Marked(ops, c, {"SEND"})
      BY <1>3, <1>4, <2>0 DEF Marked
    <3> QED  BY <1>1, <3>1 DEF Signed
  <2>2. Marked(send'[c], c, {"SEND"}) /\ Marked(batch'[c], c, {"LOCAL"})
    BY <1>1, <1>4, <1>5, <2>1, MarkedConcat, MarkedEmpty
  <2> QED  BY <1>1, <1>2, <2>2 DEF Signed, Marked
<1>8. Carrying(c)'
  BY <1>5 DEF Carrying
<1>9. /\ Awaiting(c) = send[c] \o batch[c]
      /\ Awaiting(c)' = send[c] \o ops
  BY <1>1, <1>5 DEF Awaiting
<1> DEFINE before == send[c] \o batch[c]
           after  == send[c] \o ops
<1>10. /\ Len(before) = Len(send[c]) + Len(batch[c]) /\ Len(send[c]) \in Nat
       /\ Len(after) = Len(send[c]) + Len(batch[c])
       /\ \A i \in 1..(Len(send[c]) + Len(batch[c])) :
            before[i] = IF i <= Len(send[c]) THEN send[c][i] ELSE batch[c][i - Len(send[c])]
       /\ \A i \in 1..(Len(send[c]) + Len(batch[c])) :
            after[i] = IF i <= Len(send[c]) THEN send[c][i] ELSE ops[i - Len(send[c])]
  <2>1. /\ Len(before) = Len(send[c]) + Len(batch[c]) /\ Len(send[c]) \in Nat
        /\ \A i \in 1..(Len(send[c]) + Len(batch[c])) :
             before[i] = IF i <= Len(send[c]) THEN send[c][i] ELSE batch[c][i - Len(send[c])]
    BY <1>1, ConcatProperties, LenProperties
  <2>2. /\ Len(after) = Len(send[c]) + Len(ops)
        /\ \A i \in 1..(Len(send[c]) + Len(ops)) :
             after[i] = IF i <= Len(send[c]) THEN send[c][i] ELSE ops[i - Len(send[c])]
    BY <1>1, <1>4, ConcatProperties, ZenonT(30)
  <2> HIDE DEF before, after
  <2>3. Len(ops) = Len(batch[c])
    BY <1>4
  <2> QED  BY <2>1, <2>2, <2>3
<1> HIDE DEF before, after
<1>11. ASSUME NEW i \in 1..Len(before)
       PROVE  Identity(after[i]) = Identity(before[i])
  <2>1. CASE i <= Len(send[c])
    BY <1>4, <1>10, <2>1
  <2>2. CASE ~(i <= Len(send[c]))
    <3>0. i \in 1..(Len(send[c]) + Len(batch[c]))
      BY <1>10
    <3>1. i - Len(send[c]) \in 1..Len(batch[c])
      <4>1. \A m, n \in Nat : \A k \in 1..(m + n) : ~(k <= m) => k - m \in 1..n
        OBVIOUS
      <4> QED  BY <1>4, <1>10, <2>2, <3>0, <4>1
    <3>2. after[i] = ops[i - Len(send[c])] /\ before[i] = batch[c][i - Len(send[c])]
      BY <1>10, <2>2, <3>0
    <3> QED  BY <1>3, <1>4, <3>1, <3>2
  <2> QED  BY <2>1, <2>2
<1>12. \A k \in (Len(log) + 1)..Len(log') : ~Keystroke(log'[k], c)
  BY <1>2, <1>6
<1>13. Places(stackQ[c])' = Places(stackQ[c]) /\ Len(Awaiting(c))' = Len(Awaiting(c))
  BY <1>2, <1>9, <1>10 DEF Places, before, after
<1>14. ASSUME NEW i \in 1..Len(Awaiting(c))
       PROVE  Identity(Awaiting(c)[i])' = Identity(Awaiting(c)[i])
  <2>1. Awaiting(c) = before /\ Awaiting(c)' = after
    BY <1>9 DEF before, after
  <2>2. Identity(after[i]) = Identity(before[i])
    BY <1>11, <2>1
  <2>3. Identity(Awaiting(c)[i])' = Identity(after[i])
    BY <2>1 DEF Identity
  <2> QED  BY <2>1, <2>2, <2>3
<1> QED
  BY <1>2, <1>6, <1>7, <1>8, <1>12, <1>13, <1>14, StepBesides

\* Undos and redos reach the log, or the stack queue, and nobody waits for them.
LEMMA SendUndoAndRedoInSession ==
  ASSUME SessionInv, DeliveryInv', NEW c \in Clients, SendUndoAndRedo(c)
  PROVE  SessionInv'
<1>1. /\ TypeOK /\ Signed(c) /\ Carrying(c) /\ Sorted(stackQ[c])
      /\ undo[c] \in Seq(Ops) /\ redo[c] \in Seq(Ops)
      /\ undo \in [Clients -> Seq(Ops)] /\ redo \in [Clients -> Seq(Ops)]
      /\ timer \in [Clients -> TimerSteps] /\ timer[c] = "undoRedo"
      /\ Marked(undo[c], c, {"UNDO"}) /\ Marked(redo[c], c, {"REDO"})
  BY DEF SessionInv, Session, DeliveryInv, TypeInv, TypeOK, SendUndoAndRedo, InOrder, InOrderOf, Signed
<1> DEFINE ops == undo[c] \o redo[c]
<1>2. /\ undo' = [undo EXCEPT ![c] = << >>]
      /\ redo' = [redo EXCEPT ![c] = << >>]
      /\ timer' = [timer EXCEPT ![c] = "idle"]
      /\ UNCHANGED <<member, received, local, send, global, batch>>
      /\ \/ UNCHANGED <<log, stackQ>>
         \/ log' = log \o Event(ops) /\ UNCHANGED stackQ
         \/ DispatchBack(c, "undoRedo", ops) /\ UNCHANGED log
  BY DEF SendUndoAndRedo
<1>3. ops \in Seq(Ops) /\ Marked(ops, c, {"UNDO", "REDO"})
  <2>1. Marked(undo[c], c, {"UNDO", "REDO"}) /\ Marked(redo[c], c, {"UNDO", "REDO"})
    BY <1>1 DEF Marked
  <2> QED  BY <1>1, <2>1, MarkedConcat, ConcatProperties
<1> HIDE DEF ops
<1>4. /\ undo'[c] = << >> /\ redo'[c] = << >> /\ timer'[c] = "idle"
      /\ \A d \in Clients : d # c =>
           undo'[d] = undo[d] /\ redo'[d] = redo[d] /\ timer'[d] = timer[d]
  BY <1>1, <1>2
<1>5. /\ \A i \in 1..Len(stackQ'[c]) :
           /\ stackQ'[c][i].kind = "local" => Marked(stackQ'[c][i].ops, c, {"LOCAL"})
           /\ stackQ'[c][i].kind = "undoRedo" => Marked(stackQ'[c][i].ops, c, {"UNDO", "REDO"})
      /\ Places(stackQ'[c]) = Places(stackQ[c])
      /\ \A d \in Clients : d # c => stackQ'[d] = stackQ[d]
  <2>1. CASE UNCHANGED stackQ
    BY <1>1, <2>1 DEF Signed
  <2>2. CASE DispatchBack(c, "undoRedo", ops)
    BY <1>1, <1>3, <2>2, RefusedIsSigned
  <2> QED  BY <1>2, <2>1, <2>2
<1>6. LogGrows(c) /\ \A k \in (Len(log) + 1)..Len(log') : ~Keystroke(log'[k], c)
  <2>1. CASE UNCHANGED log
    <3>1. LogGrows(c) /\ Len(log) \in Nat
      BY <1>1, <2>1, LogAlone DEF LogGrows
    <3> QED  BY <2>1, <3>1
  <2>2. CASE log' = log \o Event(ops)
    <3>1. Marked(ops, c, LogStates)
      BY <1>3 DEF Marked, LogStates
    <3>2. /\ LogGrows(c) /\ Len(log') = Len(log) + Len(ops)
          /\ Len(log) \in Nat /\ Len(ops) \in Nat
          /\ \A i \in 1..Len(ops) : log'[Len(log) + i].op = ops[i]
      BY <1>1, <1>3, <2>2, <3>1, EventGrows
    <3>3. ASSUME NEW k \in (Len(log) + 1)..Len(log')  PROVE ~Keystroke(log'[k], c)
      <4>1. k - Len(log) \in 1..Len(ops) /\ Len(log) + (k - Len(log)) = k
        BY <3>2
      <4>2. log'[k].op = ops[k - Len(log)]
        BY <3>2, <4>1
      <4> QED  BY <1>3, <4>1, <4>2 DEF Marked, Keystroke
    <3> QED  BY <3>2, <3>3
  <2> QED  BY <1>2, <2>1, <2>2
<1>7. OthersStay(c)
  BY <1>2, <1>4, <1>5 DEF OthersStay
<1>8. Signed(c)'
  <2>1. Marked(undo'[c], c, {"UNDO"}) /\ Marked(redo'[c], c, {"REDO"})
    BY <1>4, MarkedEmpty
  <2> QED  BY <1>1, <1>2, <1>5, <2>1 DEF Signed, Marked
<1>9. Carrying(c)'
  BY <1>1, <1>2, <1>4 DEF Carrying
<1>10. Awaiting(c)' = Awaiting(c)
  BY <1>1, <1>2, <1>4 DEF Awaiting
<1>11. Places(stackQ[c])' = Places(stackQ[c]) /\ Len(Awaiting(c))' = Len(Awaiting(c))
  BY <1>5, <1>10 DEF Places
<1>12. \A i \in 1..Len(Awaiting(c)) : Identity(Awaiting(c)[i])' = Identity(Awaiting(c)[i])
  BY <1>10 DEF Identity
<1> QED
  BY <1>2, <1>6, <1>7, <1>8, <1>9, <1>11, <1>12, StepBesides

\* A keystroke is broadcast: its confirmation is the last to come.
LEMMA BroadcastLocalInSession ==
  ASSUME SessionInv, DeliveryInv', NEW c \in Clients, BroadcastLocal(c)
  PROVE  SessionInv'
<1>1. /\ TypeOK /\ TypeInv /\ Signed(c) /\ Carrying(c) /\ Prefix(c) /\ Matched(c)
      /\ send[c] \in Seq(Ops) /\ batch[c] \in Seq(Ops) /\ global[c] \in Seq(Ops)
      /\ timer \in [Clients -> TimerSteps] /\ timer[c] = "taken"
      /\ Marked(batch[c], c, {"LOCAL"})
  BY DEF SessionInv, Session, DeliveryInv, TypeInv, TypeOK, BroadcastLocal, Signed
<1>2. /\ log' = log \o Event(batch[c])
      /\ timer' = [timer EXCEPT ![c] = "sent"]
      /\ UNCHANGED <<member, received, local, send, global, undo, redo, stackQ, batch>>
  BY DEF BroadcastLocal, stacks
<1> DEFINE m == Len(log)
           b == Len(batch[c])
           s == Len(send[c])
           l == Len(global[c])
           now == send[c] \o batch[c]
<1>3. timer'[c] = "sent" /\ \A d \in Clients : d # c => timer'[d] = timer[d]
  BY <1>1, <1>2
<1>4. /\ LogGrows(c) /\ Len(log') = m + b /\ m \in Nat /\ b \in Nat
      /\ \A k \in 1..m : log'[k] = log[k]
      /\ \A i \in 1..b : log'[m + i].op = batch[c][i]
  <2>1. Marked(batch[c], c, LogStates)
    BY <1>1 DEF Marked, LogStates
  <2> QED  BY <1>1, <1>2, <2>1, EventGrows
<1>5. OthersStay(c)
  BY <1>2, <1>3 DEF OthersStay
<1>6. Signed(c)'
  BY <1>1, <1>2 DEF Signed, Marked
<1>7. Carrying(c)'
  BY <1>1, <1>2, <1>3 DEF Carrying
<1>8. LogKept
  BY <1>4 DEF LogGrows
<1>9. Prefix(c)'
  <2>1. Places(stackQ[c])' = Places(stackQ[c])
    BY <1>2 DEF Places
  <2> QED  BY <1>1, <1>2, <1>8, <2>1, PrefixKept
<1>10. s \in Nat /\ l \in Nat /\ l <= m
  <2>1. received[c] \in Nat /\ received[c] <= m /\ l <= received[c]
    BY <1>1 DEF TypeInv, TypeOK, HandedOver, Prefix
  <2> QED  BY <1>1, <1>4, <2>1, LenProperties
<1>11. /\ Len(now) = s + b
       /\ \A i \in 1..(s + b) : now[i] = IF i <= s THEN send[c][i] ELSE batch[c][i - s]
  BY <1>1, ConcatProperties
<1>12. Awaiting(c) = send[c] /\ Awaiting(c)' = now
  BY <1>1, <1>2, <1>3 DEF Awaiting
<1>13. ASSUME NEW i \in 1..b
       PROVE  Keystroke(log'[m + i], c) /\ Identity(log'[m + i].op) = Identity(batch[c][i])
  BY <1>1, <1>4 DEF Keystroke, Marked
<1>14. Expected(c)' = Expected(c) \cup (m + 1)..(m + b)
  <2>1. Expected(c)' = {k \in (l + 1)..(m + b) : Keystroke(log'[k], c)}
    BY <1>2, <1>4 DEF Expected, Keystroke
  <2>2. Expected(c) = {k \in (l + 1)..m : Keystroke(log[k], c)}
    BY DEF Expected
  <2> HIDE DEF m, b, s, l, now
  <2>3. ASSUME NEW k \in (l + 1)..m  PROVE Keystroke(log'[k], c) <=> Keystroke(log[k], c)
    <3>1. k \in 1..m
      BY <1>4, <1>10
    <3> QED  BY <1>4, <3>1
  <2>4. ASSUME NEW k \in (m + 1)..(m + b)  PROVE Keystroke(log'[k], c)
    <3>1. k - m \in 1..b /\ m + (k - m) = k
      BY <1>4
    <3> QED  BY <1>13, <3>1
  <2>5. \A k \in (l + 1)..(m + b) : k \in (l + 1)..m \/ k \in (m + 1)..(m + b)
    BY <1>4, <1>10
  <2>6. (l + 1)..m \subseteq (l + 1)..(m + b) /\ (m + 1)..(m + b) \subseteq (l + 1)..(m + b)
    BY <1>4, <1>10
  <2> QED  BY <2>1, <2>2, <2>3, <2>4, <2>5, <2>6
<1>15. Matched(c)'
  <2> PICK f : Matching(c, f)
    BY <1>1 DEF Matched
  <2>1. /\ f \in [1..s -> Expected(c)]
        /\ \A i, j \in 1..s : i < j => f[i] < f[j]
        /\ \A k \in Expected(c) : \E i \in 1..s : f[i] = k
        /\ \A i \in 1..s : Identity(send[c][i]) = Identity(log[f[i]].op)
    BY <1>12 DEF Matching
  <2>2. \A k \in Expected(c) : k \in 1..m
    BY <1>10 DEF Expected
  <2> HIDE DEF m, b, s, l, now
  <2> PICK g : g = [i \in 1..(s + b) |-> IF i <= s THEN f[i] ELSE m + (i - s)]
    OBVIOUS
  <2>3. \A i \in 1..(s + b) :
          \/ i \in 1..s /\ i <= s
          \/ i - s \in 1..b /\ ~(i <= s)
    BY <1>4, <1>10
  <2>4. \A i \in 1..s : i \in 1..(s + b) /\ i <= s
    BY <1>4, <1>10
  <2>5. \A i \in 1..b : s + i \in 1..(s + b) /\ ~(s + i <= s) /\ (s + i) - s = i
    BY <1>4, <1>10
  <2>6. \A i \in 1..b : m + i \in (m + 1)..(m + b)
    BY <1>4
  <2>7. \A i \in 1..s : g[i] = f[i]
    BY <2>4
  <2>8. \A i \in 1..(s + b) : i - s \in 1..b => g[i] = m + (i - s)
    BY <1>10, <2>3
  <2>9. ASSUME NEW i \in 1..(s + b)
        PROVE  g[i] \in Expected(c)'
    <3>1. CASE i \in 1..s
      BY <1>14, <2>1, <2>7, <3>1
    <3>2. CASE i - s \in 1..b
      BY <1>14, <2>6, <2>8, <3>2
    <3> QED  BY <2>3, <3>1, <3>2
  <2>10. g \in [1..(s + b) -> Expected(c)']
    <3>1. g = [i \in 1..(s + b) |-> g[i]]
      OBVIOUS
    <3> QED  BY <2>9, <3>1
  <2>11. ASSUME NEW i \in 1..(s + b), NEW j \in 1..(s + b), i < j
         PROVE  g[i] < g[j]
    <3>1. CASE i \in 1..s /\ j \in 1..s
      BY <2>1, <2>7, <2>11, <3>1
    <3>2. CASE i \in 1..s /\ j - s \in 1..b
      <4>1. g[i] \in 1..m /\ g[j] = m + (j - s)
        BY <2>1, <2>2, <2>7, <2>8, <3>2
      <4> QED  BY <1>4, <3>2, <4>1
    <3>3. CASE i - s \in 1..b /\ j - s \in 1..b
      <4>1. g[i] = m + (i - s) /\ g[j] = m + (j - s)
        BY <2>8, <3>3
      <4> QED  BY <1>4, <1>10, <2>11, <4>1
    <3>4. CASE i - s \in 1..b /\ j \in 1..s
      BY <1>10, <2>11, <3>4
    <3> QED  BY <2>3, <3>1, <3>2, <3>3, <3>4
  <2>12. ASSUME NEW k \in Expected(c)'
         PROVE  \E i \in 1..(s + b) : g[i] = k
    <3>1. CASE k \in Expected(c)
      BY <2>1, <2>4, <2>7, <3>1
    <3>2. CASE k \in (m + 1)..(m + b)
      <4>1. k - m \in 1..b /\ m + (k - m) = k
        BY <1>4, <3>2
      <4>2. PICK i \in 1..b : m + i = k
        BY <4>1
      <4>3. s + i \in 1..(s + b) /\ (s + i) - s = i
        BY <2>5
      <4>4. g[s + i] = m + ((s + i) - s)
        BY <2>8, <4>3
      <4> QED  BY <4>2, <4>3, <4>4
    <3> QED  BY <1>14, <3>1, <3>2
  <2>13. ASSUME NEW i \in 1..(s + b)
         PROVE  Identity(now[i]) = Identity(log'[g[i]].op)
    <3>1. CASE i \in 1..s
      <4>1. now[i] = send[c][i] /\ g[i] = f[i] /\ f[i] \in 1..m
        BY <1>11, <2>1, <2>2, <2>4, <2>7, <3>1
      <4>2. log'[f[i]] = log[f[i]]
        BY <1>4, <4>1
      <4> QED  BY <2>1, <3>1, <4>1, <4>2
    <3>2. CASE i - s \in 1..b /\ ~(i <= s)
      <4>1. now[i] = batch[c][i - s] /\ g[i] = m + (i - s)
        BY <1>11, <2>8, <3>2
      <4> QED  BY <1>13, <3>2, <4>1
    <3> QED  BY <2>3, <3>1, <3>2
  <2>14. Matching(c, g)'
    <3>1. Awaiting(c)' = now /\ Len(now) = s + b
      BY <1>11, <1>12
    <3>2. \A i \in 1..(s + b) : Identity(Awaiting(c)[i])' = Identity(log'[g[i]].op)
      BY <2>13, <3>1 DEF Identity
    <3> QED  BY <2>10, <2>11, <2>12, <3>1, <3>2 DEF Matching, Identity
  <2> QED  BY <2>14 DEF Matched
<1> QED
  BY <1>4, <1>5, <1>6, <1>7, <1>9, <1>15, StepOfOne DEF Session

\* An event is handed over: the queue holds more of the log.
LEMMA ReceivedEventInSession ==
  ASSUME SessionInv, DeliveryInv', NEW c \in Clients, ReceivedEvent(c)
  PROVE  SessionInv'
<1>1. /\ TypeOK /\ Signed(c) /\ Carrying(c) /\ Prefix(c) /\ Matched(c)
      /\ stackQ[c] \in Seq(Blocks) /\ stackQ \in [Clients -> Seq(Blocks)]
      /\ received \in [Clients -> Nat] /\ received[c] \in Nat
      /\ global[c] \in Seq(Ops)
  BY DEF SessionInv, Session, DeliveryInv, TypeInv, TypeOK
<1>2. PICK last \in (received[c] + 1)..Len(log) :
        /\ stackQ' = [stackQ EXCEPT ![c] =
             stackQ[c] \o [i \in 1..(last - received[c]) |->
                     [kind |-> "new", at |-> received[c] + i, ops |-> << >>]]]
        /\ received' = [received EXCEPT ![c] = last]
  BY DEF ReceivedEvent
<1>3. member[c] /\ UNCHANGED <<member, log, local, send, global, undo, redo, batch, timer>>
  BY DEF ReceivedEvent, stacks
<1> DEFINE r == received[c]
           n == last - r
           e(i) == [kind |-> "new", at |-> r + i, ops |-> << >>]
           event == [i \in 1..n |-> e(i)]
           longer == stackQ[c] \o event
           l == Len(global[c])
<1>4. stackQ'[c] = longer /\ received'[c] = last
      /\ \A d \in Clients : d # c => stackQ'[d] = stackQ[d] /\ received'[d] = received[d]
  BY <1>1, <1>2
<1>5. n \in Nat /\ r + n = last /\ last \in Nat /\ last > r
  <2>1. Len(log) \in Nat
    BY <1>1, LenProperties DEF TypeOK
  <2> QED  BY <1>1, <2>1
<1> HIDE DEF n
<1>6. Places(longer) = Places(stackQ[c]) \cup (r + 1)..(r + n)
  BY <1>1, <1>5, PlacesExtended
<1>7. ASSUME NEW i \in 1..Len(longer)
      PROVE  longer[i].kind = "new" \/ (i \in 1..Len(stackQ[c]) /\ longer[i] = stackQ[c][i])
  <2>1. \A k \in 1..n : e(k) \in Blocks /\ e(k).kind = "new"
    BY <1>1, <1>5, EmptySeq DEF Blocks
  <2>2. event \in Seq(Blocks) /\ Len(event) = n /\ \A k \in 1..n : event[k] = e(k)
    <3> HIDE DEF e
    <3>1. event \in Seq(Blocks)
      BY <1>5, <2>1, IsASeq
    <3> QED  BY <1>5, <3>1, LenProperties
  <2> HIDE DEF event, e
  <2> DEFINE q == Len(stackQ[c])
  <2>3. /\ q \in Nat /\ Len(longer) = q + n
        /\ \A k \in 1..(q + n) : longer[k] = IF k <= q THEN stackQ[c][k] ELSE event[k - q]
    BY <1>1, <2>2, LenProperties, ConcatProperties
  <2> HIDE DEF longer, q
  <2>4. i \in 1..(q + n)
    BY <2>3
  <2>5. CASE i <= q
    BY <2>3, <2>4, <2>5 DEF q
  <2>6. CASE ~(i <= q)
    <3>1. i - q \in 1..n /\ longer[i] = event[i - q]
      BY <1>5, <2>3, <2>4, <2>6
    <3> QED  BY <2>1, <2>2, <3>1
  <2> QED  BY <2>5, <2>6
<1> HIDE DEF longer
<1>8. OthersStay(c) /\ LogGrows(c) /\ Len(log) \in Nat /\ LogKept
  BY <1>1, <1>3, <1>4, LogAlone DEF OthersStay, LogGrows
<1>9. Signed(c)'
  <2>1. \A i \in 1..Len(longer) :
          /\ longer[i].kind = "local" => Marked(longer[i].ops, c, {"LOCAL"})
          /\ longer[i].kind = "undoRedo" => Marked(longer[i].ops, c, {"UNDO", "REDO"})
    BY <1>1, <1>7 DEF Signed
  <2>2. stackQ'[c] = longer /\ member'[c]
    BY <1>3, <1>4
  <2> QED  BY <1>1, <1>3, <2>1, <2>2 DEF Signed, Marked
<1>10. Carrying(c)'
  BY <1>1, <1>3 DEF Carrying
<1>11. Prefix(c)'
  <2>1. l \in Nat /\ l <= r /\ Places(stackQ[c]) = (l + 1)..r /\ r \in Nat
        /\ \A i \in 1..l : Identity(global[c][i]) = Identity(log[i].op)
    BY <1>1, LenProperties DEF Prefix
  <2> HIDE DEF l, r
  <2>2. l <= last
    BY <1>5, <2>1
  <2>3. Places(longer) = (l + 1)..last
    BY <1>5, <1>6, <2>1
  <2> QED  BY <1>3, <1>4, <2>1, <2>2, <2>3 DEF Prefix, l, r
<1>12. Matched(c)'
  <2>1. Len(global[c]) \in Nat
    BY <1>1, LenProperties
  <2>2. Expected(c)' = Expected(c)
    BY <1>3 DEF Expected, Keystroke
  <2>3. Awaiting(c)' = Awaiting(c)
    BY <1>3 DEF Awaiting
  <2>4. Len(Awaiting(c))' = Len(Awaiting(c))
    BY <2>3
  <2>5. \A i \in 1..Len(Awaiting(c)) : Identity(Awaiting(c)[i])' = Identity(Awaiting(c)[i])
    BY <2>3 DEF Identity
  <2> QED  BY <1>1, <1>8, <2>1, <2>2, <2>4, <2>5, MatchedKept
<1> QED
  BY <1>8, <1>9, <1>10, <1>11, <1>12, StepOfOne DEF Session

\* A refused change set returns to the stacks it came from.
LEMMA AddBackInSession ==
  ASSUME SessionInv, DeliveryInv', NEW c \in Clients, AddBack(c)
  PROVE  SessionInv'
<1> DEFINE block == Head(stackQ[c])
           undone == InState(block.ops, {"UNDO"})
           redone == InState(block.ops, States \ {"UNDO"})
<1>1. /\ TypeOK /\ Signed(c) /\ Carrying(c)
      /\ stackQ[c] \in Seq(Blocks) /\ stackQ \in [Clients -> Seq(Blocks)]
      /\ local[c] \in Seq(Ops) /\ undo[c] \in Seq(Ops) /\ redo[c] \in Seq(Ops)
      /\ local \in [Clients -> Seq(Ops)] /\ undo \in [Clients -> Seq(Ops)]
      /\ redo \in [Clients -> Seq(Ops)]
  BY DEF SessionInv, Session, DeliveryInv, TypeInv, TypeOK
<1>2. /\ stackQ[c] # << >>
      /\ stackQ' = [stackQ EXCEPT ![c] = Tail(stackQ[c])]
      /\ UNCHANGED <<member, log, received, send, global, batch, timer>>
      /\ \/ /\ block.kind = "local"
            /\ local' = [local EXCEPT ![c] = block.ops \o local[c]]
            /\ UNCHANGED <<undo, redo>>
         \/ /\ block.kind = "undoRedo"
            /\ undo' = [undo EXCEPT ![c] = undone \o undo[c]]
            /\ redo' = [redo EXCEPT ![c] = redone \o redo[c]]
            /\ UNCHANGED local
  BY DEF AddBack
<1>3. /\ Len(stackQ[c]) \in Nat /\ Len(stackQ[c]) # 0
      /\ Len(Tail(stackQ[c])) = Len(stackQ[c]) - 1
      /\ \A i \in 1..Len(Tail(stackQ[c])) : Tail(stackQ[c])[i] = stackQ[c][i + 1]
      /\ block = stackQ[c][1] /\ block \in Blocks
  BY <1>1, <1>2, LenProperties, HeadTailProperties, EmptySeq, SMTT(40)
<1>4. 1 \in 1..Len(stackQ[c]) /\ \A i \in 1..Len(Tail(stackQ[c])) : i + 1 \in 1..Len(stackQ[c])
  BY <1>3
<1>5. /\ block.ops \in Seq(Ops)
      /\ block.kind = "local" => Marked(block.ops, c, {"LOCAL"})
      /\ block.kind = "undoRedo" => Marked(block.ops, c, {"UNDO", "REDO"})
  <2>1. \A i \in 1..Len(stackQ[c]) :
          /\ stackQ[c][i].kind = "local" => Marked(stackQ[c][i].ops, c, {"LOCAL"})
          /\ stackQ[c][i].kind = "undoRedo" => Marked(stackQ[c][i].ops, c, {"UNDO", "REDO"})
    BY <1>1 DEF Signed
  <2>2. /\ stackQ[c][1].kind = "local" => Marked(stackQ[c][1].ops, c, {"LOCAL"})
        /\ stackQ[c][1].kind = "undoRedo" => Marked(stackQ[c][1].ops, c, {"UNDO", "REDO"})
    BY <1>4, <2>1
  <2>3. block.ops \in Seq(Ops)
    BY <1>3 DEF Blocks
  <2> QED  BY <1>3, <2>2, <2>3
<1>6. \A i \in 1..Len(Tail(stackQ[c])) :
        /\ Tail(stackQ[c])[i].kind = "local" => Marked(Tail(stackQ[c])[i].ops, c, {"LOCAL"})
        /\ Tail(stackQ[c])[i].kind = "undoRedo" =>
             Marked(Tail(stackQ[c])[i].ops, c, {"UNDO", "REDO"})
  BY <1>1, <1>3, <1>4 DEF Signed
<1>7. stackQ'[c] = Tail(stackQ[c]) /\ \A d \in Clients : d # c => stackQ'[d] = stackQ[d]
  BY <1>1, <1>2
<1> DEFINE rest == Tail(stackQ[c])
<1>8. Places(stackQ[c])' = Places(stackQ[c])
  <2>1. block.kind # "new"
    BY <1>2
  <2>2. Places(stackQ[c]) = Places(rest)
    BY <1>1, <1>2, <2>1, PlacesServed
  <2>3. Places(stackQ[c])' = Places(rest)
    BY <1>7 DEF Places
  <2> QED  BY <2>2, <2>3
<1> HIDE DEF block, undone, redone, rest
<1>9. /\ Marked(local'[c], c, {"LOCAL"}) /\ Marked(undo'[c], c, {"UNDO"})
      /\ Marked(redo'[c], c, {"REDO"})
      /\ \A d \in Clients : d # c =>
           local'[d] = local[d] /\ undo'[d] = undo[d] /\ redo'[d] = redo[d]
  <2>0. /\ Marked(local[c], c, {"LOCAL"}) /\ Marked(undo[c], c, {"UNDO"})
        /\ Marked(redo[c], c, {"REDO"})
    BY <1>1 DEF Signed
  <2>1. CASE /\ block.kind = "local"
             /\ local' = [local EXCEPT ![c] = block.ops \o local[c]]
             /\ UNCHANGED <<undo, redo>>
    <3>1. Marked(block.ops \o local[c], c, {"LOCAL"})
      BY <1>1, <1>5, <2>0, <2>1, MarkedConcat
    <3> QED  BY <1>1, <2>0, <2>1, <3>1
  <2>2. CASE /\ block.kind = "undoRedo"
             /\ undo' = [undo EXCEPT ![c] = undone \o undo[c]]
             /\ redo' = [redo EXCEPT ![c] = redone \o redo[c]]
             /\ UNCHANGED local
    <3>1. undone \in Seq(Ops) /\ redone \in Seq(Ops)
      BY <1>5, InStateIsStack DEF undone, redone
    <3>2. Marked(undone, c, {"UNDO"})
      <4>1. Marked(undone, c, {"UNDO", "REDO"} \cap {"UNDO"})
        BY <1>5, <2>2, MarkedInState DEF undone
      <4> QED  BY <4>1 DEF Marked
    <3>3. Marked(redone, c, {"REDO"})
      <4>1. Marked(redone, c, {"UNDO", "REDO"} \cap (States \ {"UNDO"}))
        BY <1>5, <2>2, MarkedInState DEF redone
      <4> QED  BY <4>1 DEF Marked
    <3>4. Marked(undone \o undo[c], c, {"UNDO"}) /\ Marked(redone \o redo[c], c, {"REDO"})
      BY <1>1, <2>0, <3>1, <3>2, <3>3, MarkedConcat
    <3>5. undo'[c] = undone \o undo[c] /\ redo'[c] = redone \o redo[c] /\ local' = local
          /\ \A d \in Clients : d # c => undo'[d] = undo[d] /\ redo'[d] = redo[d]
      BY <1>1, <2>2
    <3> QED  BY <2>0, <3>4, <3>5
  <2> QED  BY <1>2, <2>1, <2>2 DEF block, undone, redone
<1>10. OthersStay(c) /\ LogGrows(c) /\ Len(log) \in Nat
  BY <1>1, <1>2, <1>7, <1>9, LogAlone DEF OthersStay, LogGrows
<1>11. Signed(c)'
  <2>1. UNCHANGED <<member, received, send, batch>>
    BY <1>2
  <2>2. Marked(send[c], c, {"SEND"}) /\ Marked(batch[c], c, {"LOCAL"}) /\ (~member[c] => received[c] = 0)
    BY <1>1 DEF Signed
  <2>3. Marked(send'[c], c, {"SEND"}) /\ Marked(batch'[c], c, {"LOCAL"}) /\ (~member'[c] => received'[c] = 0)
    BY <2>1, <2>2
  <2> QED  BY <1>6, <1>7, <1>9, <2>3 DEF Signed, Marked
<1>12. Carrying(c)' /\ Awaiting(c)' = Awaiting(c)
  BY <1>1, <1>2 DEF Carrying, Awaiting
<1>13. \A k \in (Len(log) + 1)..Len(log') : ~Keystroke(log'[k], c)
  BY <1>2, <1>10
<1>14. Len(Awaiting(c))' = Len(Awaiting(c))
  BY <1>12
<1>15. \A i \in 1..Len(Awaiting(c)) : Identity(Awaiting(c)[i])' = Identity(Awaiting(c)[i])
  BY <1>12 DEF Identity
<1> QED
  BY <1>2, <1>8, <1>10, <1>11, <1>12, <1>13, <1>14, <1>15, StepBesides

-----------------------------------------------------------------------------
(* The stack queue.                                                        *)

\* The front of the stack queue holds the place behind the global stack.
LEMMA ServedNext ==
  ASSUME SessionInv, "split" \notin Freedoms, NEW c \in Clients, AddNewOperation(c)
  PROVE  LET l    == Len(global[c])
             rest == Tail(stackQ[c])
         IN  /\ timer[c] = "idle"
             /\ l \in Nat /\ Len(log) \in Nat /\ received[c] \in Nat
             /\ l + 1 <= received[c] /\ received[c] <= Len(log)
             /\ Head(stackQ[c]).at = l + 1
             /\ Places(rest) = (l + 2)..received[c]
             /\ \A i \in 1..Len(rest) :
                  /\ rest[i].kind = "local" => Marked(rest[i].ops, c, {"LOCAL"})
                  /\ rest[i].kind = "undoRedo" => Marked(rest[i].ops, c, {"UNDO", "REDO"})
<1> DEFINE l    == Len(global[c])
           rest == Tail(stackQ[c])
           at   == Head(stackQ[c]).at
           r    == received[c]
<1>1. /\ TypeOK /\ HandedOver /\ Signed(c) /\ Prefix(c) /\ Sorted(stackQ[c])
      /\ stackQ[c] \in Seq(Blocks)
  BY DEF SessionInv, Session, DeliveryInv, TypeInv, TypeOK, InOrder, InOrderOf
<1>2. timer[c] = "idle" /\ stackQ[c] # << >> /\ Head(stackQ[c]).kind = "new"
  BY DEF AddNewOperation, Undisturbed
<1>3. l \in Nat /\ Len(log) \in Nat /\ r \in Nat /\ r <= Len(log)
  BY <1>1, LenProperties DEF TypeOK, HandedOver
<1>4. Places(stackQ[c]) = (l + 1)..r
  BY <1>1 DEF Prefix
<1>5. /\ Places(stackQ[c]) = Places(rest) \cup {at}
      /\ \A p \in Places(rest) : at < p
  BY <1>1, <1>2, PlacesServed, QueueServed
<1>6. \A i \in 1..Len(rest) :
        /\ rest[i].kind = "local" => Marked(rest[i].ops, c, {"LOCAL"})
        /\ rest[i].kind = "undoRedo" => Marked(rest[i].ops, c, {"UNDO", "REDO"})
  <2>1. /\ Len(stackQ[c]) \in Nat /\ Len(stackQ[c]) # 0
        /\ Len(rest) = Len(stackQ[c]) - 1
        /\ \A i \in 1..Len(rest) : rest[i] = stackQ[c][i + 1]
    BY <1>1, <1>2, LenProperties, HeadTailProperties, EmptySeq
  <2> HIDE DEF rest
  <2>2. \A i \in 1..Len(rest) : i + 1 \in 1..Len(stackQ[c])
    BY <2>1
  <2> QED  BY <1>1, <2>1, <2>2 DEF Signed
<1> HIDE DEF l, rest, at, r
<1>7. at \in (l + 1)..r
  BY <1>4, <1>5
<1>8. at = l + 1
  <2>1. l + 1 \in (l + 1)..r
    BY <1>3, <1>7
  <2>2. l + 1 \in Places(rest) \/ l + 1 = at
    BY <1>4, <1>5, <2>1
  <2>3. l + 1 \notin Places(rest)
    BY <1>3, <1>5, <1>7
  <2> QED  BY <2>2, <2>3
<1>9. Places(rest) = (l + 2)..r
  <2>1. ASSUME NEW p \in Places(rest)  PROVE p \in (l + 2)..r
    <3>1. p \in (l + 1)..r /\ l + 1 < p
      BY <1>4, <1>5, <1>8, <2>1
    <3> QED  BY <1>3, <3>1
  <2>2. ASSUME NEW p \in (l + 2)..r  PROVE p \in Places(rest)
    <3>1. p \in (l + 1)..r /\ p # l + 1
      BY <1>3
    <3> QED  BY <1>4, <1>5, <1>8, <3>1
  <2> QED  BY <2>1, <2>2
<1>10. l + 1 <= r
  BY <1>3, <1>7
<1> QED
  BY <1>2, <1>3, <1>6, <1>8, <1>9, <1>10 DEF l, rest, at, r

\* What the served operation leaves of the confirmations to come.
LEMMA ExpectedServed ==
  ASSUME SessionInv, "split" \notin Freedoms, NEW c \in Clients, AddNewOperation(c),
         Len(global'[c]) = Len(global[c]) + 1
  PROVE  LET at == Head(stackQ[c]).at
         IN  /\ \A k \in Expected(c)' : k \in Expected(c) /\ k > at
             /\ \A k \in Expected(c) : k >= at
             /\ \A k \in Expected(c) : k # at => k \in Expected(c)'
             /\ at \in Expected(c) <=> Keystroke(log[at], c)
<1> DEFINE l == Len(global[c])
           m == Len(log)
           at == Head(stackQ[c]).at
<1>1. /\ l \in Nat /\ m \in Nat /\ l + 1 <= m /\ at = l + 1
  BY ServedNext
<1>2. Expected(c) = {k \in (l + 1)..m : Keystroke(log[k], c)}
  BY DEF Expected
<1>3. Expected(c)' = {k \in (l + 1 + 1)..m : Keystroke(log[k], c)}
  <2>1. log' = log
    BY DEF AddNewOperation
  <2> QED  BY <2>1 DEF Expected, Keystroke
<1> HIDE DEF l, m, at
<1>4. \A k \in (l + 1 + 1)..m : k \in (l + 1)..m /\ k > at
  BY <1>1
<1>5. \A k \in (l + 1)..m : k >= at /\ (k # at => k \in (l + 1 + 1)..m)
  BY <1>1
<1>6. at \in (l + 1)..m
  BY <1>1
<1> QED
  BY <1>2, <1>3, <1>4, <1>5, <1>6 DEF at

\* What a served operation does besides.
Serves(c) ==
  /\ \A d \in Clients : d # c =>
       global'[d] = global[d] /\ send'[d] = send[d] /\ local'[d] = local[d]
  /\ \E op : /\ global'[c] = Append(global[c], op)
             /\ Identity(op) = Identity(log[Head(stackQ[c]).at].op)

\* The global stack stays a prefix of the log.
LEMMA ServedPrefix ==
  ASSUME SessionInv, "split" \notin Freedoms, NEW c \in Clients, AddNewOperation(c), Serves(c)
  PROVE  /\ Prefix(c)' /\ Carrying(c)' /\ OthersStay(c) /\ LogGrows(c)
         /\ Len(global'[c]) = Len(global[c]) + 1
<1> DEFINE l == Len(global[c])
           r == received[c]
           rest == Tail(stackQ[c])
           at == Head(stackQ[c]).at
<1>1. /\ l \in Nat /\ r \in Nat /\ l + 1 <= r /\ at = l + 1 /\ Places(rest) = (l + 2)..r
  BY ServedNext
<1>2. /\ TypeOK /\ Prefix(c) /\ Carrying(c) /\ global[c] \in Seq(Ops)
      /\ stackQ \in [Clients -> Seq(Blocks)]
  BY DEF SessionInv, Session, DeliveryInv, TypeInv, TypeOK
<1>3. PICK op : /\ global'[c] = Append(global[c], op)
                /\ Identity(op) = Identity(log[at].op)
  BY DEF Serves
<1>4. /\ Len(global'[c]) = l + 1
      /\ \A i \in 1..l : global'[c][i] = global[c][i]
      /\ global'[c][l + 1] = op
  BY <1>2, <1>3, Appended
<1>5. /\ stackQ' = [stackQ EXCEPT ![c] = rest]
      /\ UNCHANGED <<member, log, received, undo, redo, timer, batch>>
  BY DEF AddNewOperation
<1>6. stackQ'[c] = rest /\ \A d \in Clients : d # c => stackQ'[d] = stackQ[d]
  BY <1>2, <1>5
<1>7. OthersStay(c)
  BY <1>5, <1>6 DEF OthersStay, Serves
<1>8. LogGrows(c) /\ Carrying(c)'
  BY <1>2, <1>5, LogAlone DEF Carrying
<1> HIDE DEF l, r, rest, at
<1>9. \A i \in 1..(l + 1) : Identity(global'[c][i]) = Identity(log[i].op)
  <2>1. \A i \in 1..(l + 1) : i \in 1..l \/ i = l + 1
    BY <1>1
  <2>2. \A i \in 1..l : Identity(global[c][i]) = Identity(log[i].op)
    BY <1>2 DEF Prefix, l
  <2> QED  BY <1>1, <1>3, <1>4, <2>1, <2>2
<1>10. Prefix(c)'
  <2>1. Places(stackQ[c])' = ((l + 1) + 1)..r
    <3>1. Places(stackQ[c])' = Places(rest)
      BY <1>6 DEF Places
    <3>2. (l + 1) + 1 = l + 2
      BY <1>1
    <3> QED  BY <1>1, <3>1, <3>2
  <2>2. received'[c] = r /\ log' = log
    BY <1>5 DEF r
  <2> QED  BY <1>1, <1>4, <1>9, <2>1, <2>2 DEF Prefix, Identity
<1> QED
  BY <1>4, <1>7, <1>8, <1>10 DEF l

\* A confirmation finds the operation it is about, first on the send stack.
LEMMA ConfirmationIsFirst ==
  ASSUME SessionInv, "split" \notin Freedoms, NEW c \in Clients, AddNewOperation(c),
         Mine(c, Delivered(log[Head(stackQ[c]).at])),
         UpdateOperationFromSendToGlobal(c, Delivered(log[Head(stackQ[c]).at]))
  PROVE  /\ send[c] # << >> /\ send'[c] = RemoveAt(send[c], 1)
         /\ Keystroke(log[Head(stackQ[c]).at], c)
         /\ Serves(c) /\ UNCHANGED local
<1> DEFINE at == Head(stackQ[c]).at
           op == Delivered(log[at])
           Awaits(waiting) == waiting.operationID = op.operationID /\ waiting.state = "SEND"
           I == {k \in 1..Len(send[c]) : Awaits(send[c][k])}
           i == IF I # {} THEN Min(I) ELSE 0
           confirmed == [send[c][i] EXCEPT !.globalID = op.globalID, !.state = op.state]
<1>1. /\ IF i = 0
           THEN UNCHANGED <<global, send>>
           ELSE /\ global' = [global EXCEPT ![c] = Append(global[c], confirmed)]
                /\ send' = [send EXCEPT ![c] = RemoveAt(send[c], i)]
      /\ UNCHANGED <<local, uiQ>>
  BY DEF UpdateOperationFromSendToGlobal, SelectInSeq
<1>2. /\ TypeOK /\ DeliveryInv /\ Signed(c) /\ Matched(c)
      /\ send[c] \in Seq(Ops) /\ global[c] \in Seq(Ops)
      /\ send \in [Clients -> Seq(Ops)] /\ global \in [Clients -> Seq(Ops)]
      /\ Len(send[c]) \in Nat
  BY LenProperties DEF SessionInv, Session, DeliveryInv, TypeInv, TypeOK
<1>3. /\ at \in 1..Len(log) /\ log[at] \in [op : Ops, order : Nat] /\ log[at].op.state \in LogStates
      /\ received[c] # 0 /\ timer[c] = "idle" /\ at = Len(global[c]) + 1
      /\ Len(global[c]) \in Nat /\ Len(log) \in Nat /\ at <= Len(log)
  <2>1. /\ Len(global[c]) \in Nat /\ Len(log) \in Nat /\ received[c] \in Nat
        /\ Len(global[c]) + 1 <= received[c] /\ received[c] <= Len(log)
        /\ at = Len(global[c]) + 1 /\ timer[c] = "idle"
    BY ServedNext
  <2> HIDE DEF at
  <2>2. at \in 1..Len(log) /\ received[c] # 0 /\ at <= Len(log)
    BY <2>1
  <2>3. log[at] \in [op : Ops, order : Nat]
    BY <1>2, <2>2, ElementOfSeq DEF TypeOK
  <2> QED  BY <2>1, <2>2, <2>3 DEF SessionInv
<1>4. member[c]
  BY <1>2, <1>3 DEF Signed
<1> HIDE DEF at
<1>5. /\ op.participantID = log[at].op.participantID /\ op.operationID = log[at].op.operationID
      /\ Identity(op) = Identity(log[at].op)
      /\ op.state = "GLOBAL" => log[at].op.state \in {"LOCAL", "SEND"}
  BY <1>3 DEF Delivered, Identity, Ops, Operations, LogStates
<1>6. Keystroke(log[at], c)
  <2>1. op.participantID = c /\ op.state = "GLOBAL"
    BY <1>4 DEF Mine, ParticipantID, at
  <2> QED  BY <1>3, <1>5, <2>1 DEF Keystroke, LogStates
<1> HIDE DEF op
<1>7. PICK f : Matching(c, f)
  BY <1>2 DEF Matched
<1> DEFINE s == Len(send[c])
<1>8. /\ f \in [1..s -> Expected(c)]
      /\ \A k, j \in 1..s : k < j => f[k] < f[j]
      /\ \A k \in Expected(c) : \E j \in 1..s : f[j] = k
      /\ \A k \in 1..s : Identity(send[c][k]) = Identity(log[f[k]].op)
  <2>1. Awaiting(c) = send[c]
    BY <1>3 DEF Awaiting
  <2> QED  BY <1>7, <2>1 DEF Matching
<1>9. at \in Expected(c) /\ \A k \in Expected(c) : k \in Nat /\ k >= at
  BY <1>3, <1>6 DEF Expected
<1>10. PICK j \in 1..s : f[j] = at
  BY <1>8, <1>9
<1>11. j = 1
  <2>1. 1 \in 1..s /\ (1 < j \/ j = 1)
    BY <1>2
  <2>2. f[1] \in Nat /\ f[1] >= at
    BY <1>8, <1>9, <2>1
  <2>3. ~(f[1] < at)
    BY <1>3, <2>2
  <2> QED  BY <1>8, <1>10, <2>1, <2>3
<1>12. /\ 1 \in 1..s
       /\ send[c][1] \in Ops
       /\ Identity(send[c][1]) = Identity(op)
       /\ send[c][1].operationID = op.operationID
       /\ send[c][1].state = "SEND"
  <2>1. 1 \in 1..s
    BY <1>11
  <2>2. Identity(send[c][1]) = Identity(op)
    BY <1>5, <1>8, <1>10, <1>11, <2>1
  <2>3. send[c][1].operationID = op.operationID
    BY <2>2 DEF Identity
  <2>4. send[c][1].state = "SEND"
    BY <1>2, <2>1 DEF Signed, Marked
  <2> QED  BY <1>2, <2>1, <2>2, <2>3, <2>4, ElementOfSeq
<1>13. i = 1
  <2>1. 1 \in I /\ I \in SUBSET Nat /\ \A k \in I : 1 <= k
    BY <1>2, <1>12
  <2> HIDE DEF I
  <2>2. Min(I) = 1
    <3>1. \E x \in I : \A y \in I : x <= y
      BY <2>1
    <3>2. Min(I) \in I /\ \A y \in I : Min(I) <= y
      BY <3>1 DEF Min
    <3>3. Min(I) \in Nat /\ Min(I) <= 1 /\ 1 <= Min(I)
      BY <2>1, <3>2
    <3> QED  BY <3>3
  <2> QED  BY <2>1, <2>2
<1> HIDE DEF i
<1>14. Identity(confirmed) = Identity(op)
  BY <1>12, <1>13 DEF Identity, Ops, Operations
<1> HIDE DEF confirmed
<1>15. /\ global'[c] = Append(global[c], confirmed)
       /\ send'[c] = RemoveAt(send[c], 1)
       /\ \A d \in Clients : d # c => global'[d] = global[d] /\ send'[d] = send[d]
       /\ UNCHANGED local
  BY <1>1, <1>2, <1>13
<1>16. send[c] # << >>
  BY <1>2, <1>12, EmptySeq
<1>17. Serves(c)
  BY <1>5, <1>14, <1>15 DEF Serves, at
<1> QED
  BY <1>6, <1>15, <1>16, <1>17 DEF at

\* A confirmation takes the first operation off the send stack, and its matching
\* moves up by one.
LEMMA ConfirmationInSession ==
  ASSUME SessionInv, DeliveryInv', "split" \notin Freedoms, NEW c \in Clients, AddNewOperation(c),
         Mine(c, Delivered(log[Head(stackQ[c]).at])),
         UpdateOperationFromSendToGlobal(c, Delivered(log[Head(stackQ[c]).at]))
  PROVE  SessionInv'
<1> DEFINE at == Head(stackQ[c]).at
           s == Len(send[c])
           rest == Tail(stackQ[c])
<1>1. /\ send[c] # << >> /\ send'[c] = RemoveAt(send[c], 1)
      /\ Keystroke(log[at], c) /\ Serves(c) /\ UNCHANGED local
  BY ConfirmationIsFirst
<1>2. /\ Prefix(c)' /\ Carrying(c)' /\ OthersStay(c) /\ LogGrows(c)
      /\ Len(global'[c]) = Len(global[c]) + 1
  BY <1>1, ServedPrefix
<1>3. /\ \A k \in Expected(c)' : k \in Expected(c) /\ k > at
      /\ \A k \in Expected(c) : k >= at
      /\ \A k \in Expected(c) : k # at => k \in Expected(c)'
      /\ at \in Expected(c)
  BY <1>1, <1>2, ExpectedServed
<1>4. /\ Signed(c) /\ Matched(c) /\ send[c] \in Seq(Ops)
      /\ stackQ \in [Clients -> Seq(Blocks)]
  BY DEF SessionInv, Session, DeliveryInv, TypeInv, TypeOK
<1>5. /\ stackQ' = [stackQ EXCEPT ![c] = rest]
      /\ UNCHANGED <<member, log, received, undo, redo, timer, batch>>
  BY DEF AddNewOperation
<1>6. /\ timer[c] = "idle" /\ at \in Nat
      /\ \A i \in 1..Len(rest) :
           /\ rest[i].kind = "local" => Marked(rest[i].ops, c, {"LOCAL"})
           /\ rest[i].kind = "undoRedo" => Marked(rest[i].ops, c, {"UNDO", "REDO"})
  BY ServedNext
<1>7. stackQ'[c] = rest
  BY <1>4, <1>5
<1>8. /\ s \in Nat /\ s >= 1 /\ Len(send'[c]) = s - 1
      /\ \A i \in 1..(s - 1) : send'[c][i] = send[c][i + 1]
  BY <1>1, <1>4, FirstRemoved
<1>9. \A i \in 1..(s - 1) : i + 1 \in 1..s /\ i \in 1..s
  BY <1>8
<1>10. Signed(c)'
  <2>1. Marked(send'[c], c, {"SEND"})
    <3>1. Marked(send[c], c, {"SEND"})
      BY <1>4 DEF Signed
    <3> QED  BY <1>8, <1>9, <3>1 DEF Marked
  <2>2. Marked(local'[c], c, {"LOCAL"})
    BY <1>1, <1>4 DEF Signed
  <2>3. /\ Marked(batch'[c], c, {"LOCAL"}) /\ Marked(undo'[c], c, {"UNDO"})
        /\ Marked(redo'[c], c, {"REDO"}) /\ (~member'[c] => received'[c] = 0)
    BY <1>4, <1>5 DEF Signed
  <2> QED  BY <1>6, <1>7, <2>1, <2>2, <2>3, SMTT(40) DEF Signed, Marked
<1>11. Matched(c)'
  <2> PICK f : Matching(c, f)
    BY <1>4 DEF Matched
  <2>1. Awaiting(c) = send[c] /\ Awaiting(c)' = send'[c]
    BY <1>5, <1>6 DEF Awaiting
  <2>2. /\ f \in [1..s -> Expected(c)]
        /\ \A i, j \in 1..s : i < j => f[i] < f[j]
        /\ \A k \in Expected(c) : \E i \in 1..s : f[i] = k
        /\ \A i \in 1..s : Identity(send[c][i]) = Identity(log[f[i]].op)
    BY <2>1 DEF Matching
  <2> HIDE DEF at, s
  <2> PICK g : g = [i \in 1..(s - 1) |-> f[i + 1]]
    OBVIOUS
  <2>3. \A i \in 1..(s - 1) : g[i] = f[i + 1]
    OBVIOUS
  <2>4. \A k \in Expected(c) : k \in Nat
    <3>1. Len(global[c]) \in Nat
      BY ServedNext
    <3> QED  BY <3>1 DEF Expected
  <2>5. ASSUME NEW i \in 1..(s - 1)
        PROVE  g[i] \in Expected(c)'
    <3>1. 1 \in 1..s /\ i + 1 \in 1..s /\ 1 < i + 1
      BY <1>8, <1>9
    <3>2. f[1] \in Expected(c) /\ f[i + 1] \in Expected(c) /\ f[1] < f[i + 1]
      BY <2>2, <3>1
    <3>3. at <= f[1] /\ f[1] \in Nat /\ f[i + 1] \in Nat
      BY <1>3, <2>4, <3>2
    <3>4. f[i + 1] # at
      BY <1>6, <3>2, <3>3
    <3> QED  BY <1>3, <2>3, <3>2, <3>4
  <2>6. g \in [1..(s - 1) -> Expected(c)']
    <3>1. g = [i \in 1..(s - 1) |-> g[i]]
      OBVIOUS
    <3> QED  BY <2>5, <3>1
  <2>7. ASSUME NEW i \in 1..(s - 1), NEW j \in 1..(s - 1), i < j
        PROVE  g[i] < g[j]
    <3>1. i + 1 \in 1..s /\ j + 1 \in 1..s /\ i + 1 < j + 1
      BY <1>9, <2>7
    <3> QED  BY <2>2, <2>3, <3>1
  <2>8. ASSUME NEW k \in Expected(c)'
        PROVE  \E i \in 1..(s - 1) : g[i] = k
    <3>1. k \in Expected(c) /\ k > at
      BY <1>3
    <3>2. PICK j \in 1..s : f[j] = k
      BY <2>2, <3>1
    <3>3. PICK i \in 1..s : f[i] = at
      BY <1>3, <2>2
    <3>4. j # 1
      <4>1. SUFFICES ASSUME j = 1  PROVE FALSE
        OBVIOUS
      <4>2. i = 1 \/ 1 < i
        BY <1>8
      <4>3. CASE i = 1
        BY <1>6, <3>1, <3>2, <3>3, <4>1, <4>3
      <4>4. CASE 1 < i
        <5>1. k < at
          BY <2>2, <3>2, <3>3, <4>1, <4>4
        <5> QED  BY <1>6, <2>4, <3>1, <5>1
      <4> QED  BY <4>2, <4>3, <4>4
    <3>5. j - 1 \in 1..(s - 1) /\ (j - 1) + 1 = j
      BY <1>8, <3>4
    <3> QED  BY <2>3, <3>2, <3>5
  <2>9. ASSUME NEW i \in 1..(s - 1)
        PROVE  Identity(send'[c][i]) = Identity(log[g[i]].op)
    BY <1>8, <1>9, <2>2, <2>3
  <2>10. Matching(c, g)'
    <3>1. Awaiting(c)' = send'[c] /\ Len(send'[c]) = s - 1 /\ log' = log
      BY <1>5, <1>8, <2>1
    <3> QED  BY <2>6, <2>7, <2>8, <2>9, <3>1 DEF Matching, Identity
  <2> QED  BY <2>10 DEF Matched
<1> QED
  BY <1>2, <1>10, <1>11, StepOfOne DEF Session

\* A foreign operation, or an undo or redo of the device itself, moves the ranges
\* of what waits.
LEMMA ForeignInSession ==
  ASSUME SessionInv, DeliveryInv', "split" \notin Freedoms, NEW c \in Clients, AddNewOperation(c),
         ~Mine(c, Delivered(log[Head(stackQ[c]).at])),
         AddNewGlobalOperation(c, Delivered(log[Head(stackQ[c]).at]))
  PROVE  SessionInv'
<1> DEFINE at == Head(stackQ[c]).at
           rest == Tail(stackQ[c])
           op == Delivered(log[at])
           placed == [op EXCEPT !.range = RangeOnGlobal(global[c], op)]
           shown  == [placed EXCEPT !.range =
                        RangeOnScreen(@, op.participantID, send[c] \o local[c])]
<1>1. DeliveryInv
  BY DEF SessionInv
<1>2. Serves(c)
  BY <1>1, ForeignDelivers DEF Serves
<1>3. /\ Prefix(c)' /\ Carrying(c)' /\ OthersStay(c) /\ LogGrows(c)
      /\ Len(global'[c]) = Len(global[c]) + 1
  BY <1>2, ServedPrefix
<1>4. /\ Signed(c) /\ Matched(c) /\ send[c] \in Seq(Ops) /\ local[c] \in Seq(Ops)
      /\ send \in [Clients -> Seq(Ops)] /\ local \in [Clients -> Seq(Ops)]
      /\ stackQ \in [Clients -> Seq(Blocks)] /\ log \in Seq([op : Ops, order : Nat])
  BY DEF SessionInv, Session, DeliveryInv, TypeInv, TypeOK
<1>5. /\ stackQ' = [stackQ EXCEPT ![c] = rest]
      /\ UNCHANGED <<member, log, received, undo, redo, timer, batch>>
  BY DEF AddNewOperation
<1>6. /\ timer[c] = "idle" /\ at \in 1..Len(log) /\ received[c] # 0 /\ Len(global[c]) \in Nat
      /\ \A i \in 1..Len(rest) :
           /\ rest[i].kind = "local" => Marked(rest[i].ops, c, {"LOCAL"})
           /\ rest[i].kind = "undoRedo" => Marked(rest[i].ops, c, {"UNDO", "REDO"})
  <2>1. /\ Len(global[c]) \in Nat /\ Len(log) \in Nat /\ received[c] \in Nat
        /\ Len(global[c]) + 1 <= received[c] /\ received[c] <= Len(log)
        /\ at = Len(global[c]) + 1 /\ timer[c] = "idle"
        /\ \A i \in 1..Len(rest) :
             /\ rest[i].kind = "local" => Marked(rest[i].ops, c, {"LOCAL"})
             /\ rest[i].kind = "undoRedo" => Marked(rest[i].ops, c, {"UNDO", "REDO"})
    BY ServedNext
  <2> HIDE DEF at, rest
  <2> QED  BY <2>1
<1>7. stackQ'[c] = rest
  BY <1>4, <1>5
<1>8. ~Keystroke(log[at], c)
  <2>1. member[c]
    BY <1>4, <1>6 DEF Signed
  <2>2. log[at] \in [op : Ops, order : Nat]
    BY <1>4, <1>6, ElementOfSeq
  <2>3. log[at].op.state = "LOCAL" =>
          /\ op.participantID = log[at].op.participantID /\ op.state = "GLOBAL"
    <3> HIDE DEF at
    <3> QED  BY <2>2 DEF Delivered, Ops, Operations
  <2>4. ~(op.participantID = c /\ op.state = "GLOBAL")
    BY <2>1 DEF Mine, ParticipantID
  <2> HIDE DEF at, op
  <2> QED  BY <2>3, <2>4 DEF Keystroke
<1>9. Expected(c)' = Expected(c)
  <2>1. /\ \A k \in Expected(c)' : k \in Expected(c) /\ k > at
        /\ \A k \in Expected(c) : k # at => k \in Expected(c)'
        /\ at \notin Expected(c)
    BY <1>3, <1>8, ExpectedServed
  <2> HIDE DEF at
  <2> QED  BY <2>1
<1>10. /\ send'[c] = UpdateStackWithOperation(send[c], shown)
       /\ local'[c] = UpdateStackWithOperation(local[c], shown)
  BY <1>4 DEF AddNewGlobalOperation
<1> HIDE DEF placed, shown
<1>11. ASSUME NEW stack \in Seq(Ops)
       PROVE  LET moved == UpdateStackWithOperation(stack, shown)
              IN  /\ Len(moved) = Len(stack)
                  /\ \A i \in 1..Len(stack) :
                       /\ Identity(moved[i]) = Identity(stack[i])
                       /\ moved[i].participantID = stack[i].participantID
                       /\ moved[i].state = stack[i].state
  <2> DEFINE e(i) == [stack[i] EXCEPT !.range =
                        UpdateRange(stack[i].range, shown, stack[i].participantID)]
             moved == UpdateStackWithOperation(stack, shown)
  <2>1. \A i \in 1..Len(stack) :
          /\ Identity(e(i)) = Identity(stack[i])
          /\ e(i).participantID = stack[i].participantID /\ e(i).state = stack[i].state
    <3> SUFFICES ASSUME NEW i \in 1..Len(stack)
                 PROVE  /\ Identity(e(i)) = Identity(stack[i])
                        /\ e(i).participantID = stack[i].participantID
                        /\ e(i).state = stack[i].state
      OBVIOUS
    <3>1. stack[i] \in Ops
      BY ElementOfSeq
    <3> QED  BY <3>1 DEF Identity, Ops, Operations
  <2>2. moved = [i \in 1..Len(stack) |-> e(i)]
    BY DEF UpdateStackWithOperation
  <2> HIDE DEF e
  <2>3. Len(moved) = Len(stack) /\ \A i \in 1..Len(stack) : moved[i] = e(i)
    BY <2>2, LenProperties
  <2> HIDE DEF moved
  <2> QED  BY <2>1, <2>3 DEF moved
<1>12. /\ Len(send'[c]) = Len(send[c])
       /\ \A i \in 1..Len(send[c]) :
            /\ Identity(send'[c][i]) = Identity(send[c][i])
            /\ send'[c][i].participantID = send[c][i].participantID
            /\ send'[c][i].state = send[c][i].state
  BY <1>4, <1>10, <1>11
<1>13. /\ Len(local'[c]) = Len(local[c])
       /\ \A i \in 1..Len(local[c]) :
            /\ local'[c][i].participantID = local[c][i].participantID
            /\ local'[c][i].state = local[c][i].state
  BY <1>4, <1>10, <1>11
<1>14. Signed(c)'
  <2>1. Marked(send'[c], c, {"SEND"})
    <3>1. Marked(send[c], c, {"SEND"})
      BY <1>4 DEF Signed
    <3> QED  BY <1>12, <3>1 DEF Marked
  <2>2. Marked(local'[c], c, {"LOCAL"})
    <3>1. Marked(local[c], c, {"LOCAL"})
      BY <1>4 DEF Signed
    <3> QED  BY <1>13, <3>1 DEF Marked
  <2>3. /\ Marked(batch'[c], c, {"LOCAL"}) /\ Marked(undo'[c], c, {"UNDO"})
        /\ Marked(redo'[c], c, {"REDO"}) /\ (~member'[c] => received'[c] = 0)
    BY <1>4, <1>5 DEF Signed
  <2> HIDE DEF rest
  <2>4. \A i \in 1..Len(stackQ'[c]) :
          /\ stackQ'[c][i].kind = "local" => Marked(stackQ'[c][i].ops, c, {"LOCAL"})
          /\ stackQ'[c][i].kind = "undoRedo" => Marked(stackQ'[c][i].ops, c, {"UNDO", "REDO"})
    BY <1>6, <1>7
  <2> QED  BY <2>1, <2>2, <2>3, <2>4 DEF Signed, Marked
<1>15. Matched(c)'
  <2>1. Awaiting(c) = send[c] /\ Awaiting(c)' = send'[c]
    BY <1>5, <1>6 DEF Awaiting
  <2>2. Len(Awaiting(c))' = Len(Awaiting(c))
    BY <1>12, <2>1
  <2>3. \A i \in 1..Len(Awaiting(c)) : Identity(Awaiting(c)[i])' = Identity(Awaiting(c)[i])
    BY <1>12, <2>1 DEF Identity
  <2>4. LogKept
    BY <1>3 DEF LogGrows
  <2> QED  BY <1>4, <1>6, <1>9, <2>2, <2>3, <2>4, MatchedKept
<1> QED
  BY <1>3, <1>14, <1>15, StepOfOne DEF Session

-----------------------------------------------------------------------------
LEMMA SessionInitially == Init => SessionInv
<1> SUFFICES ASSUME Init  PROVE SessionInv
  OBVIOUS
<1>1. DeliveryInv
  BY DeliveryInitially
<1>2. Len(<< >>) = 0 /\ 1..0 = {}
  BY EmptySeq
<1>3. ASSUME NEW c \in Clients
      PROVE  Session(c)
  <2>1. /\ local[c] = << >> /\ batch[c] = << >> /\ send[c] = << >> /\ undo[c] = << >>
        /\ redo[c] = << >> /\ stackQ[c] = << >> /\ global[c] = << >> /\ received[c] = 0
        /\ timer[c] = "idle" /\ log = << >>
    BY <1>3 DEF Init
  <2>2. Signed(c)
    BY <1>2, <2>1, MarkedEmpty DEF Signed
  <2>3. Carrying(c)
    BY <2>1 DEF Carrying
  <2>4. Prefix(c)
    <3>1. Places(stackQ[c]) = {}
      BY <1>2, <2>1 DEF Places
    <3> QED  BY <1>2, <2>1, <3>1 DEF Prefix
  <2>5. Matched(c)
    <3>1. Expected(c) = {} /\ Awaiting(c) = << >>
      BY <1>2, <2>1 DEF Expected, Awaiting
    <3>2. Matching(c, [i \in {} |-> 0])
      BY <1>2, <3>1 DEF Matching
    <3> QED  BY <3>2 DEF Matched
  <2> QED  BY <2>2, <2>3, <2>4, <2>5 DEF Session
<1>4. \A k \in 1..Len(log) : log[k].op.state \in LogStates
  BY <1>2 DEF Init
<1> QED
  BY <1>1, <1>3, <1>4 DEF SessionInv

LEMMA NextInSession ==
  ASSUME "early" \notin Freedoms, "split" \notin Freedoms, SessionInv, [Next]_vars
  PROVE  SessionInv'
<1>1. DeliveryInv'
  BY NextDelivers DEF SessionInv
<1>2. ASSUME NEW c \in Clients, User(c)
      PROVE  SessionInv'
  BY <1>1, <1>2, UserInSession
<1>3. ASSUME NEW c \in Clients, Timer(c)
      PROVE  SessionInv'
  BY <1>1, <1>3, GetLocalChangeSetInSession, BroadcastLocalInSession, RefuseLocalInSession,
     PutIntoSendStackInSession, SendUndoAndRedoInSession DEF Timer
<1>4. ASSUME NEW c \in Clients, ReceivedEvent(c)
      PROVE  SessionInv'
  BY <1>1, <1>4, ReceivedEventInSession
<1>5. ASSUME NEW c \in Clients, StackQueue(c)
      PROVE  SessionInv'
  <2>1. CASE AddNewOperation(c)
    <3>1. \/ /\ Mine(c, Delivered(log[Head(stackQ[c]).at]))
             /\ UpdateOperationFromSendToGlobal(c, Delivered(log[Head(stackQ[c]).at]))
          \/ /\ ~Mine(c, Delivered(log[Head(stackQ[c]).at]))
             /\ AddNewGlobalOperation(c, Delivered(log[Head(stackQ[c]).at]))
      BY <2>1 DEF AddNewOperation
    <3> QED  BY <1>1, <2>1, <3>1, ConfirmationInSession, ForeignInSession
  <2>2. CASE AddBack(c)
    BY <1>1, <2>2, AddBackInSession
  <2> QED  BY <1>5, <2>1, <2>2 DEF StackQueue
<1>6. ASSUME UNCHANGED <<member, log, received, stacks, stackQ, batch, timer>>, Clients # {}
      PROVE  SessionInv'
  <2> PICK c \in Clients : TRUE
    BY <1>6
  <2>1. UNCHANGED <<local, send, global, undo, redo>>
    BY <1>6 DEF stacks
  <2>2. OthersStay(c)
    BY <1>6, <2>1 DEF OthersStay
  <2>3. Signed(c)'
    <3>1. Signed(c)
      BY DEF SessionInv, Session
    <3> QED  BY <1>6, <2>1, <3>1 DEF Signed, Marked
  <2> QED  BY <1>1, <1>6, <2>1, <2>2, <2>3, StepAside
<1>7. ASSUME NEW c \in Clients, UpdateInputView(c)
      PROVE  SessionInv'
  BY <1>6, <1>7 DEF UpdateInputView
<1>8. CASE UNCHANGED vars
  <2>1. CASE Clients = {}
    <3>1. log' = log
      BY <1>8 DEF vars
    <3> QED  BY <1>1, <2>1, <3>1 DEF SessionInv, LogStates
  <2>2. CASE Clients # {}
    BY <1>6, <1>8, <2>2 DEF vars, threads
  <2> QED  BY <2>1, <2>2
<1> QED
  BY <1>2, <1>3, <1>4, <1>5, <1>7, <1>8 DEF Next

\* What is unconfirmed is what is expected.
LEMMA UnconfirmedIsExpected ==
  ASSUME SessionInv, NEW c \in Clients
  PROVE  Unconfirmed(c) = Expected(c)
<1> DEFINE l == Len(global[c])
           m == Len(log)
           r == received[c]
<1>1. /\ TypeOK /\ Prefix(c) /\ r \in Nat /\ r <= m /\ m \in Nat /\ DOMAIN log = 1..m
      /\ stackQ[c] \in Seq(Blocks)
  BY LenProperties DEF SessionInv, Session, DeliveryInv, TypeInv, TypeOK, HandedOver
<1>2. l \in Nat /\ l <= r
  BY <1>1, LenProperties DEF TypeOK, Prefix
<1>3. Waiting(c) = (l + 1)..r
  <2>1. DOMAIN stackQ[c] = 1..Len(stackQ[c])
    BY <1>1, LenProperties
  <2>2. Waiting(c) = Places(stackQ[c])
    BY <2>1 DEF Waiting, Places
  <2> QED  BY <1>1, <2>2 DEF Prefix
<1>4. Unconfirmed(c) = {k \in 1..m : (k > r \/ k \in (l + 1)..r) /\ Keystroke(log[k], c)}
  BY <1>1, <1>3 DEF Unconfirmed, Keystroke
<1>5. Expected(c) = {k \in (l + 1)..m : Keystroke(log[k], c)}
  BY DEF Expected
<1> HIDE DEF l, m, r
<1>6. \A k \in 1..m : (k > r \/ k \in (l + 1)..r) => k \in (l + 1)..m
  BY <1>1, <1>2
<1>7. \A k \in (l + 1)..m : k \in 1..m /\ (k > r \/ k \in (l + 1)..r)
  BY <1>1, <1>2
<1> QED
  BY <1>4, <1>5, <1>6, <1>7

\* The matching is the one SendMatchesLog asks for.
LEMMA SessionFollows == SessionInv => SendMatchesLog
<1> SUFFICES ASSUME SessionInv, NEW c \in Clients
             PROVE  LET waiting == IF timer[c] = "sent" THEN send[c] \o batch[c] ELSE send[c]
                    IN  \E f \in [DOMAIN waiting -> Unconfirmed(c)] :
                          /\ \A i, j \in DOMAIN waiting : i < j => f[i] < f[j]
                          /\ \A k \in Unconfirmed(c) : \E i \in DOMAIN waiting : f[i] = k
                          /\ \A i \in DOMAIN waiting : SameOp(waiting[i], log[f[i]].op)
  BY DEF SendMatchesLog
<1> DEFINE waiting == IF timer[c] = "sent" THEN send[c] \o batch[c] ELSE send[c]
<1>1. Matched(c) /\ send[c] \in Seq(Ops) /\ batch[c] \in Seq(Ops)
  BY DEF SessionInv, Session, DeliveryInv, TypeInv, TypeOK
<1>2. Awaiting(c) = waiting
  BY DEF Awaiting
<1>3. waiting \in Seq(Ops)
  BY <1>1, ConcatProperties
<1> HIDE DEF waiting
<1>4. DOMAIN waiting = 1..Len(waiting)
  BY <1>3, LenProperties
<1> PICK f : Matching(c, f)
  BY <1>1 DEF Matched
<1>5. /\ f \in [DOMAIN waiting -> Unconfirmed(c)]
      /\ \A i, j \in DOMAIN waiting : i < j => f[i] < f[j]
      /\ \A k \in Unconfirmed(c) : \E i \in DOMAIN waiting : f[i] = k
      /\ \A i \in DOMAIN waiting : Identity(waiting[i]) = Identity(log[f[i]].op)
  BY <1>2, <1>4, UnconfirmedIsExpected DEF Matching
<1>6. \A i \in DOMAIN waiting : SameOp(waiting[i], log[f[i]].op)
  BY <1>5 DEF Identity, SameOp
<1> QED
  BY <1>5, <1>6 DEF waiting

\* The inductive invariant holds whatever overlaps, as long as devices edit in the
\* session only and updateChangeSetToAllUser is not torn.
THEOREM SessionInvariant ==
  ("early" \notin Freedoms /\ "split" \notin Freedoms) => (Spec => []SessionInv)
<1> SUFFICES ASSUME "early" \notin Freedoms, "split" \notin Freedoms
             PROVE  Spec => []SessionInv
  OBVIOUS
<1>1. Init => SessionInv
  BY SessionInitially
<1>2. SessionInv /\ [Next]_vars => SessionInv'
  BY NextInSession
<1> QED
  BY <1>1, <1>2, PTL DEF Spec

\* Then the send stack is what awaits its confirmation, in that order:
\* updateOperationFromSendToGlobal always finds the first.
THEOREM SendStackCorrect ==
  ("early" \notin Freedoms /\ "split" \notin Freedoms) => (Spec => []SendMatchesLog)
BY SessionInvariant, SessionFollows, PTL

-----------------------------------------------------------------------------
(* SharedDoc implements OrderedLog.                                        *)

\* The refinement mapping.
Order == [k \in DOMAIN log |-> Identity(log[k].op)]

Applied == [c \in Clients |-> [i \in DOMAIN global[c] |-> Identity(global[c][i])]]

Pairs == (Clients \cup {NoParticipant}) \X Nat

LEMMA PairOf == \A op \in Ops : Identity(op) \in Pairs
BY DEF Identity, Ops, Operations, Pairs

LEMMA OrderIsSeq ==
  TypeOK => /\ Order \in Seq(Pairs) /\ Len(Order) = Len(log) /\ Len(log) \in Nat
            /\ \A k \in 1..Len(log) : Order[k] = Identity(log[k].op)
<1> SUFFICES ASSUME TypeOK
             PROVE  /\ Order \in Seq(Pairs) /\ Len(Order) = Len(log) /\ Len(log) \in Nat
                    /\ \A k \in 1..Len(log) : Order[k] = Identity(log[k].op)
  OBVIOUS
<1>1. /\ Len(log) \in Nat /\ DOMAIN log = 1..Len(log)
      /\ \A k \in 1..Len(log) : log[k] \in [op : Ops, order : Nat]
  BY LenProperties, ElementOfSeq DEF TypeOK
<1> DEFINE e(k) == Identity(log[k].op)
<1>2. \A k \in 1..Len(log) : e(k) \in Pairs
  BY <1>1, PairOf
<1>3. Order = [k \in 1..Len(log) |-> e(k)]
  BY <1>1 DEF Order
<1> HIDE DEF e
<1>4. Order \in Seq(Pairs)
  BY <1>1, <1>2, <1>3, IsASeq
<1>5. Len(Order) = Len(log) /\ \A k \in 1..Len(log) : Order[k] = e(k)
  BY <1>1, <1>3, <1>4, LenProperties
<1> QED
  BY <1>1, <1>4, <1>5 DEF e

LEMMA AppliedIsSeq ==
  TypeOK => \A c \in Clients :
              /\ Applied[c] \in Seq(Pairs) /\ Len(Applied[c]) = Len(global[c])
              /\ Len(global[c]) \in Nat
              /\ \A i \in 1..Len(global[c]) : Applied[c][i] = Identity(global[c][i])
<1> SUFFICES ASSUME TypeOK, NEW c \in Clients
             PROVE  /\ Applied[c] \in Seq(Pairs) /\ Len(Applied[c]) = Len(global[c])
                    /\ Len(global[c]) \in Nat
                    /\ \A i \in 1..Len(global[c]) : Applied[c][i] = Identity(global[c][i])
  OBVIOUS
<1> DEFINE s == global[c]
<1>1. /\ Len(s) \in Nat /\ DOMAIN s = 1..Len(s)
      /\ \A i \in 1..Len(s) : s[i] \in Ops
  BY LenProperties, ElementOfSeq DEF TypeOK
<1> DEFINE e(i) == Identity(s[i])
<1>2. \A i \in 1..Len(s) : e(i) \in Pairs
  BY <1>1, PairOf
<1>3. Applied[c] = [i \in 1..Len(s) |-> e(i)]
  BY <1>1 DEF Applied
<1> HIDE DEF e, s
<1>4. Applied[c] \in Seq(Pairs)
  BY <1>1, <1>2, <1>3, IsASeq
<1>5. Len(Applied[c]) = Len(s) /\ \A i \in 1..Len(s) : Applied[c][i] = e(i)
  BY <1>1, <1>3, <1>4, LenProperties
<1> QED
  BY <1>1, <1>4, <1>5 DEF e, s

LEMMA OrderIsSeqNext ==
  TypeOK' => /\ Order' \in Seq(Pairs) /\ Len(Order') = Len(log')
             /\ \A k \in 1..Len(log') : Order'[k] = Identity(log'[k].op)
<1>1. (TypeOK => /\ Order \in Seq(Pairs) /\ Len(Order) = Len(log) /\ Len(log) \in Nat
                 /\ \A k \in 1..Len(log) : Order[k] = Identity(log[k].op))'
  BY OrderIsSeq, PTL
<1> QED
  BY <1>1 DEF Identity, Pairs

LEMMA AppliedIsSeqNext ==
  TypeOK' => \A c \in Clients :
               /\ Applied'[c] \in Seq(Pairs) /\ Len(Applied'[c]) = Len(global'[c])
               /\ \A i \in 1..Len(global'[c]) : Applied'[c][i] = Identity(global'[c][i])
<1>1. (TypeOK => \A c \in Clients :
                   /\ Applied[c] \in Seq(Pairs) /\ Len(Applied[c]) = Len(global[c])
                   /\ Len(global[c]) \in Nat
                   /\ \A i \in 1..Len(global[c]) : Applied[c][i] = Identity(global[c][i]))'
  BY AppliedIsSeq, PTL
<1> QED
  BY <1>1 DEF Identity, Pairs

\* A broadcast of one operation or more publishes them.
LEMMA Publishes ==
  ASSUME TypeOK, TypeOK', NEW ops \in Seq(Ops), ops # << >>,
         log' = log \o Event(ops), UNCHANGED global,
         NEW c \in Clients, Marked(ops, c, LogStates)
  PROVE  /\ Len(Order') > Len(Order)
         /\ SubSeq(Order', 1, Len(Order)) = Order
         /\ UNCHANGED Applied
<1>1. /\ Len(log') = Len(log) + Len(ops) /\ Len(log) \in Nat /\ Len(ops) \in Nat
      /\ \A k \in 1..Len(log) : log'[k] = log[k]
  BY EventGrows
<1>2. Len(ops) # 0
  BY EmptySeq
<1>3. /\ Order \in Seq(Pairs) /\ Len(Order) = Len(log)
      /\ \A k \in 1..Len(log) : Order[k] = Identity(log[k].op)
  BY OrderIsSeq
<1>4. /\ Order' \in Seq(Pairs) /\ Len(Order') = Len(log')
      /\ \A k \in 1..Len(log') : Order'[k] = Identity(log'[k].op)
  BY OrderIsSeqNext
<1> DEFINE m == Len(log)
           longer == Order'
           front == SubSeq(longer, 1, m)
<1>5. \A k \in 1..m : k \in 1..Len(log')
  BY <1>1
<1>6. \A k \in 1..m : longer[k] = Order[k]
  BY <1>1, <1>3, <1>4, <1>5
<1>7. \A k \in 1..m : longer[k] \in Pairs
  BY <1>3, <1>6, ElementOfSeq
<1> HIDE DEF longer
<1>8. /\ front \in Seq(Pairs) /\ Len(front) = m
      /\ \A k \in 1..m : front[k] = longer[k]
  <2>1. m \in Nat
    BY <1>1
  <2> HIDE DEF m
  <2>2. /\ front \in Seq(Pairs)
        /\ Len(front) = IF 1 <= m THEN m - 1 + 1 ELSE 0
        /\ \A k \in 1..(m - 1 + 1) : front[k] = longer[1 + k - 1]
    BY <1>7, <2>1, SubSeqProperties
  <2> HIDE DEF front
  <2>3. m - 1 + 1 = m /\ \A k \in 1..m : 1 + k - 1 = k
    BY <2>1
  <2>4. Len(front) = m
    BY <2>1, <2>2
  <2> QED  BY <2>2, <2>3, <2>4
<1> HIDE DEF front
<1>9. front = Order
  <2>1. Len(front) = Len(Order) /\ \A k \in 1..Len(front) : front[k] = Order[k]
    BY <1>3, <1>6, <1>8
  <2> QED  BY <1>3, <1>8, <2>1, SeqEqual
<1>10. SubSeq(Order', 1, Len(Order)) = Order
  BY <1>3, <1>9 DEF front, longer
<1>11. Len(Order') > Len(Order)
  BY <1>1, <1>2, <1>3, <1>4
<1>12. UNCHANGED Applied
  BY DEF Applied, Identity
<1> QED
  BY <1>10, <1>11, <1>12

\* An operation that is served is the next of the order.
LEMMA Applies ==
  ASSUME SessionInv, TypeOK', "split" \notin Freedoms, NEW c \in Clients,
         AddNewOperation(c), Serves(c)
  PROVE  /\ Len(Applied[c]) < Len(Order)
         /\ Applied' = [Applied EXCEPT ![c] = Append(Applied[c], Order[Len(Applied[c]) + 1])]
         /\ UNCHANGED Order
<1> DEFINE l == Len(global[c])
           at == Head(stackQ[c]).at
<1>1. TypeOK
  BY DEF SessionInv, DeliveryInv, TypeInv
<1>2. /\ l \in Nat /\ Len(log) \in Nat /\ at = l + 1 /\ l + 1 <= Len(log)
  <2>1. /\ l \in Nat /\ Len(log) \in Nat /\ received[c] \in Nat
        /\ at = l + 1 /\ l + 1 <= received[c] /\ received[c] <= Len(log)
    BY ServedNext
  <2> HIDE DEF l, at
  <2> QED  BY <2>1
<1>3. UNCHANGED log
  BY DEF AddNewOperation
<1>4. PICK op : global'[c] = Append(global[c], op) /\ Identity(op) = Identity(log[at].op)
  BY DEF Serves
<1>5. \A d \in Clients : d # c => global'[d] = global[d]
  BY DEF Serves
<1> HIDE DEF l, at
<1>6. /\ Order \in Seq(Pairs) /\ Len(Order) = Len(log)
      /\ \A k \in 1..Len(log) : Order[k] = Identity(log[k].op)
  BY <1>1, OrderIsSeq
<1>7. /\ Applied[c] \in Seq(Pairs) /\ Len(Applied[c]) = l
      /\ \A i \in 1..l : Applied[c][i] = Identity(global[c][i])
  BY <1>1, AppliedIsSeq DEF l
<1>8. l + 1 \in 1..Len(log) /\ at \in 1..Len(log)
  BY <1>2
<1>9. Order[l + 1] = Identity(op) /\ Order[l + 1] \in Pairs
  BY <1>2, <1>4, <1>6, <1>8, ElementOfSeq
<1>10. /\ Len(global'[c]) = l + 1
       /\ \A i \in 1..l : global'[c][i] = global[c][i]
       /\ global'[c][l + 1] = op
  <2>1. global[c] \in Seq(Ops)
    BY <1>1 DEF TypeOK
  <2> QED  BY <1>4, <2>1, Appended DEF l
<1>11. /\ Applied'[c] \in Seq(Pairs) /\ Len(Applied'[c]) = l + 1
       /\ \A i \in 1..(l + 1) : Applied'[c][i] = Identity(global'[c][i])
  BY <1>10, AppliedIsSeqNext
<1> DEFINE s == Applied[c]
           p == Order[l + 1]
           t == Append(s, p)
<1>12. /\ t \in Seq(Pairs) /\ Len(t) = l + 1
       /\ \A i \in 1..l : t[i] = s[i]
       /\ t[l + 1] = p
  <2>1. s \in Seq(Pairs) /\ p \in Pairs /\ Len(s) = l
    BY <1>7, <1>9
  <2> HIDE DEF s, p
  <2> QED  BY <2>1, AppendProperties
<1>13. Applied'[c] = t
  <2> DEFINE u == Applied'[c]
  <2>1. ASSUME NEW i \in 1..(l + 1)
        PROVE  u[i] = t[i]
    <3>1. i \in 1..l \/ i = l + 1
      BY <1>2
    <3>2. CASE i \in 1..l
      BY <1>7, <1>10, <1>11, <1>12, <3>2
    <3>3. CASE i = l + 1
      BY <1>9, <1>10, <1>11, <1>12, <3>3
    <3> QED  BY <3>1, <3>2, <3>3
  <2>2. u \in Seq(Pairs) /\ Len(u) = l + 1
    BY <1>11
  <2> HIDE DEF u, t
  <2>3. u = t
    BY <1>12, <2>1, <2>2, SeqEqual
  <2> QED  BY <2>3 DEF u
<1> HIDE DEF s, p, t
<1>14. ASSUME NEW d \in Clients, d # c
       PROVE  Applied'[d] = Applied[d]
  BY <1>5, <1>14 DEF Applied, Identity
<1>15. Applied' = [Applied EXCEPT ![c] = t]
  <2>1. Applied' = [d \in Clients |-> Applied'[d]] /\ Applied = [d \in Clients |-> Applied[d]]
    BY DEF Applied
  <2> QED  BY <1>13, <1>14, <2>1
<1>16. Len(Applied[c]) < Len(Order)
  BY <1>2, <1>6, <1>7
<1>17. UNCHANGED Order
  BY <1>3 DEF Order, Identity
<1> QED
  BY <1>7, <1>15, <1>16, <1>17 DEF t, s, p

\* Nothing in order, nothing applied.
LEMMA OrderedInitially == Init => Ordered!Init
<1> SUFFICES ASSUME Init  PROVE Ordered!Init
  OBVIOUS
<1>1. DOMAIN << >> = {}
  BY EmptySeq
<1>2. log = << >> /\ \A c \in Clients : global[c] = << >>
  BY DEF Init
<1>3. [k \in DOMAIN log |-> Identity(log[k].op)] = << >>
  BY <1>1, <1>2
<1>4. [c \in Clients |-> [i \in DOMAIN global[c] |-> Identity(global[c][i])]]
        = [c \in Clients |-> << >>]
  BY <1>1, <1>2
<1> QED
  BY <1>3, <1>4 DEF Ordered!Init

\* BroadcastLocal, and SendUndoAndRedo with something to send, publish; a served
\* operation is applied; all other steps stutter. An event is never empty, as the
\* handler carries something when it broadcasts (Carrying).
LEMMA StepIsOrdered ==
  ASSUME SessionInv, SessionInv', "split" \notin Freedoms, [Next]_vars
  PROVE  [Ordered!Next]_(Ordered!vars)
<1>1. TypeOK /\ TypeOK'
  BY DEF SessionInv, DeliveryInv, TypeInv
<1>2. ASSUME UNCHANGED <<log, global>>
      PROVE  UNCHANGED Ordered!vars
  BY <1>2 DEF Ordered!vars, Identity
<1>3. ASSUME NEW c \in Clients, NEW ops \in Seq(Ops), ops # << >>, Marked(ops, c, LogStates),
             log' = log \o Event(ops), UNCHANGED global
      PROVE  Ordered!Next
  <2>1. /\ Len(Order') > Len(Order)
        /\ SubSeq(Order', 1, Len(Order)) = Order
        /\ UNCHANGED Applied
    BY <1>1, <1>3, Publishes
  <2>2. Ordered!Publish
    BY <2>1 DEF Ordered!Publish, Order, Applied
  <2> QED  BY <2>2 DEF Ordered!Next
<1>4. ASSUME NEW c \in Clients, AddNewOperation(c), Serves(c)
      PROVE  Ordered!Next
  <2>1. /\ Len(Applied[c]) < Len(Order)
        /\ Applied' = [Applied EXCEPT ![c] = Append(Applied[c], Order[Len(Applied[c]) + 1])]
        /\ UNCHANGED Order
    BY <1>1, <1>4, Applies
  <2>2. Ordered!Apply(c)
    BY <2>1 DEF Ordered!Apply, Order, Applied
  <2> QED  BY <2>2 DEF Ordered!Next
<1>5. ASSUME NEW c \in Clients, BroadcastLocal(c)
      PROVE  Ordered!Next
  <2>1. /\ batch[c] \in Seq(Ops) /\ Marked(batch[c], c, {"LOCAL"}) /\ Carrying(c)
    BY <1>1 DEF TypeOK, SessionInv, Session, Signed
  <2>2. timer[c] = "taken" /\ log' = log \o Event(batch[c]) /\ UNCHANGED global
    BY <1>5 DEF BroadcastLocal, stacks
  <2>3. batch[c] # << >>
    BY <2>1, <2>2 DEF Carrying
  <2>4. Marked(batch[c], c, LogStates)
    BY <2>1 DEF Marked, LogStates
  <2> QED  BY <1>3, <2>1, <2>2, <2>3, <2>4
<1>6. ASSUME NEW c \in Clients, SendUndoAndRedo(c)
      PROVE  Ordered!Next \/ UNCHANGED Ordered!vars
  <2> DEFINE ops == undo[c] \o redo[c]
  <2>1. /\ undo[c] \in Seq(Ops) /\ redo[c] \in Seq(Ops)
        /\ Marked(undo[c], c, LogStates) /\ Marked(redo[c], c, LogStates)
    <3>1. Marked(undo[c], c, {"UNDO"}) /\ Marked(redo[c], c, {"REDO"})
      BY DEF SessionInv, Session, Signed
    <3> QED  BY <1>1, <3>1 DEF TypeOK, Marked, LogStates
  <2>2. ops \in Seq(Ops) /\ Marked(ops, c, LogStates)
    BY <2>1, MarkedConcat, ConcatProperties
  <2>3. /\ UNCHANGED global
        /\ \/ UNCHANGED log
           \/ ops # << >> /\ log' = log \o Event(ops)
    BY <1>6 DEF SendUndoAndRedo
  <2> HIDE DEF ops
  <2> QED  BY <1>2, <1>3, <2>2, <2>3
<1>7. ASSUME NEW c \in Clients, AddNewOperation(c)
      PROVE  Ordered!Next
  <2>1. \/ /\ Mine(c, Delivered(log[Head(stackQ[c]).at]))
           /\ UpdateOperationFromSendToGlobal(c, Delivered(log[Head(stackQ[c]).at]))
        \/ /\ ~Mine(c, Delivered(log[Head(stackQ[c]).at]))
           /\ AddNewGlobalOperation(c, Delivered(log[Head(stackQ[c]).at]))
    BY <1>7 DEF AddNewOperation
  <2>2. Serves(c)
    <3>1. DeliveryInv
      BY DEF SessionInv
    <3> QED  BY <1>7, <2>1, <3>1, ConfirmationIsFirst, ForeignDelivers DEF Serves
  <2> QED  BY <1>4, <1>7, <2>2
<1>8. ASSUME NEW c \in Clients,
             \/ User(c) \/ GetLocalChangeSet(c) \/ RefuseLocal(c) \/ PutIntoSendStack(c)
             \/ ReceivedEvent(c) \/ AddBack(c) \/ UpdateInputView(c)
      PROVE  UNCHANGED <<log, global>>
  BY <1>8 DEF User, Type, ShouldChangeText, UndoAct, RedoAct, CreateSess, JoinSess, stacks,
     GetLocalChangeSet, RefuseLocal, PutIntoSendStack, ReceivedEvent, AddBack, UpdateInputView
<1>9. UNCHANGED vars => UNCHANGED <<log, global>>
  BY DEF vars, stacks
<1> QED
  BY <1>2, <1>5, <1>6, <1>7, <1>8, <1>9 DEF Next, Timer, StackQueue

\* Every device's global stack (addNewChangeSet) is a prefix of the session's order at
\* every moment, and grows by the operation that comes next.
THEOREM OrderedLogImplemented ==
  ("early" \notin Freedoms /\ "split" \notin Freedoms) => (Spec => ImplementsOrderedLog)
<1> SUFFICES ASSUME "early" \notin Freedoms, "split" \notin Freedoms
             PROVE  Spec => ImplementsOrderedLog
  OBVIOUS
<1>1. Init => Ordered!Init
  BY OrderedInitially
<1>2. SessionInv /\ SessionInv' /\ [Next]_vars => [Ordered!Next]_(Ordered!vars)
  BY StepIsOrdered
<1>3. Spec => []SessionInv
  BY SessionInvariant
<1> QED
  BY <1>1, <1>2, <1>3, PTL DEF Spec, ImplementsOrderedLog, Ordered!Spec
=============================================================================
