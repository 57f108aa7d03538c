----------------------------- MODULE EditProofs -----------------------------
(***************************************************************************)
(* What becomes of a user's edits in SharedDoc, for any devices, edits and *)
(* number of inputs, when devices edit in the session only.                *)
(*                                                                         *)
(* LedgerInv keeps the books of a device: each operation it has given an   *)
(* operation ID is in exactly one place, among its stacks, what the        *)
(* timer's handler has taken, the blocks that put back what was refused,   *)
(* and the session. It stays so when the handler of the timer is torn,     *)
(* when broadcasts are refused and when blocks of the stack queue come in  *)
(* between. From it follow:                                                *)
(*   - NothingLost, by counting;                                           *)
(*   - with InsertInv, while users only insert, that the text has every    *)
(*     character it should have and each once: what is put in is new,      *)
(*     because an operation is handed over once and the confirmation of a  *)
(*     device's own is never applied to its text again;                    *)
(*   - with CaretInText, that showing an operation leaves the caret        *)
(*     between the characters it was between;                              *)
(*   - with SortedInv and FitInv, while no broadcast is refused and the    *)
(*     timer's handler is not torn, that what is shown next fits the text. *)
(*     FitInv bounds each range by a number of operations that its bearer  *)
(*     has placed.                                                         *)
(*                                                                         *)
(* LineKept needs less: only Lined, which states wait in which stack and   *)
(* which block. The line of a device is a sequence of sequences; its Rows, *)
(* one for each state, are the sets of IDs and of ordered pairs, and they  *)
(* compose with Behind, which is associative. Each action then moves a row *)
(* from one place of the composition to another.                           *)
(***************************************************************************)
EXTENDS SharedDocProofs

-----------------------------------------------------------------------------
(* Sequences of operations without repetition.                             *)

\* No operation occurs twice in a sequence, or in the blocks of a stack queue.
Once(ops) == \A i, j \in 1..Len(ops) : Identity(ops[i]) = Identity(ops[j]) => i = j

QueueOnce(queue) ==
  /\ \A i \in 1..Len(queue) : Once(queue[i].ops)
  /\ \A i, j \in 1..Len(queue) : i # j => Ids(queue[i].ops) \cap Ids(queue[j].ops) = {}

LEMMA OnceEmpty == Once(<< >>)
BY EmptySeq DEF Once

LEMMA OnceCopy ==
  ASSUME NEW s \in Seq(Ops), Once(s), NEW t, Len(t) = Len(s),
         \A i \in 1..Len(s) : Identity(t[i]) = Identity(s[i])
  PROVE  Once(t)
BY DEF Once

LEMMA OnceAppend ==
  ASSUME NEW s \in Seq(Ops), Once(s), NEW op, Identity(op) \notin Ids(s)
  PROVE  Once(Append(s, op))
<1>1. /\ Len(s) \in Nat /\ Len(Append(s, op)) = Len(s) + 1
      /\ \A i \in 1..Len(s) : Append(s, op)[i] = s[i]
      /\ Append(s, op)[Len(s) + 1] = op
  BY Appended
<1>2. 1..(Len(s) + 1) = 1..Len(s) \cup {Len(s) + 1}
  BY <1>1
<1>3. \A i \in 1..Len(s) : Identity(s[i]) # Identity(op)
  BY DEF Ids
<1> QED
  BY <1>1, <1>2, <1>3 DEF Once

LEMMA OnceConcat ==
  ASSUME NEW s \in Seq(Ops), NEW t \in Seq(Ops), Once(s), Once(t), Ids(s) \cap Ids(t) = {}
  PROVE  Once(s \o t)
<1> DEFINE st == s \o t
           m == Len(s)
           n == Len(t)
<1>1. /\ m \in Nat /\ n \in Nat
      /\ Len(st) = m + n
      /\ \A i \in 1..(m + n) : st[i] = IF i <= m THEN s[i] ELSE t[i - m]
  BY ConcatProperties, LenProperties
<1>2. \A i \in 1..m, j \in 1..n : Identity(s[i]) # Identity(t[j])
  BY DEF Ids
<1> HIDE DEF st, m, n
<1>3. ASSUME NEW i \in 1..(m + n)
      PROVE  \/ i \in 1..m /\ st[i] = s[i]
             \/ i - m \in 1..n /\ st[i] = t[i - m]
  BY <1>1
<1>4. ASSUME NEW i \in 1..(m + n), NEW j \in 1..(m + n), Identity(st[i]) = Identity(st[j])
      PROVE  i = j
  <2>1. CASE i \in 1..m /\ st[i] = s[i] /\ j \in 1..m /\ st[j] = s[j]
    BY <1>4, <2>1 DEF Once, m
  <2>2. CASE i - m \in 1..n /\ st[i] = t[i - m] /\ j - m \in 1..n /\ st[j] = t[j - m]
    <3>1. i - m = j - m
      BY <1>4, <2>2 DEF Once, n
    <3> QED  BY <1>1, <3>1
  <2>3. CASE i \in 1..m /\ st[i] = s[i] /\ j - m \in 1..n /\ st[j] = t[j - m]
    BY <1>2, <1>4, <2>3
  <2>4. CASE i - m \in 1..n /\ st[i] = t[i - m] /\ j \in 1..m /\ st[j] = s[j]
    BY <1>2, <1>4, <2>4
  <2> QED  BY <1>3, <2>1, <2>2, <2>3, <2>4
<1> QED
  BY <1>1, <1>4 DEF Once, st

\* addChangeSetToUndoAndRedo picks every operation of a state, and each once.
LEMMA PickedOnce ==
  ASSUME NEW ops \in Seq(Ops), Once(ops), NEW S
  PROVE  /\ Once(InState(ops, S))
         /\ Ids(InState(ops, S)) = {Identity(ops[i]) : i \in {j \in 1..Len(ops) : ops[j].state \in S}}
<1> DEFINE n == Len(ops)
           Picked(k) == {Identity(ops[i]) : i \in {j \in 1..k : ops[j].state \in S}}
<1>1. PICK f : /\ f[0] = << >>
               /\ \A k \in 1..n :
                    f[k] = IF ops[k].state \in S THEN Append(f[k - 1], ops[k]) ELSE f[k - 1]
               /\ \A k \in 0..n : f[k] \in Seq(OfState(Ops, S))
               /\ InState(ops, S) = f[n]
  <2> HIDE DEF n
  <2> QED  BY InStateRuns DEF n
<1>2. n \in Nat
  BY LenProperties
<1>3. ASSUME NEW k \in 0..n
      PROVE  f[k] \in Seq(Ops)
  <2>1. \A i \in 1..Len(f[k]) : f[k][i] \in Ops
    BY <1>1, ElementOfSeq DEF OfState
  <2>2. f[k] = [i \in 1..Len(f[k]) |-> f[k][i]] /\ Len(f[k]) \in Nat
    BY <1>1, LenProperties
  <2>3. [i \in 1..Len(f[k]) |-> f[k][i]] \in Seq(Ops)
    BY <2>1, <2>2, IsASeq
  <2> QED  BY <2>2, <2>3
<1> DEFINE Good(k) == Once(f[k]) /\ Ids(f[k]) = Picked(k)
<1> HIDE DEF n
<1>4. Good(0)
  <2>1. Picked(0) = {}
    OBVIOUS
  <2> HIDE DEF Picked
  <2> QED  BY <1>1, <2>1, OnceEmpty, IdsOfEmpty
<1>5. ASSUME NEW k \in 1..n, Good(k - 1)
      PROVE  Good(k)
  <2>1. k - 1 \in 0..n /\ 1..k = 1..(k - 1) \cup {k} /\ k \notin 1..(k - 1)
    BY <1>2
  <2>2. f[k - 1] \in Seq(Ops)
    BY <1>3, <2>1
  <2>3. CASE ops[k].state \in S
    <3>1. f[k] = Append(f[k - 1], ops[k])
      BY <1>1, <2>3
    <3>2. Picked(k) = Picked(k - 1) \cup {Identity(ops[k])}
      BY <2>1, <2>3
    <3>3. \A i \in 1..(k - 1) : i \in 1..n /\ i # k
      BY <1>2
    <3>4. Identity(ops[k]) \notin Picked(k - 1)
      BY <3>3 DEF Once, n
    <3> HIDE DEF Picked
    <3> QED  BY <1>5, <2>2, <3>1, <3>2, <3>4, OnceAppend, IdsOfAppend
  <2>4. CASE ops[k].state \notin S
    <3>1. f[k] = f[k - 1]
      BY <1>1, <2>4
    <3>2. Picked(k) = Picked(k - 1)
      BY <2>1, <2>4
    <3> HIDE DEF Picked
    <3> QED  BY <1>5, <3>1, <3>2
  <2> QED  BY <2>3, <2>4
<1> DEFINE g == [k \in 0..n |-> IF Good(k) THEN 1 ELSE 0]
<1> HIDE DEF Good
<1>6. g[0] \in {1}
  BY <1>2, <1>4
<1>7. \A k \in 1..n : g[k - 1] \in {1} => g[k] \in {1}
  <2> SUFFICES ASSUME NEW k \in 1..n, g[k - 1] \in {1}  PROVE g[k] \in {1}
    OBVIOUS
  <2>1. k \in 0..n /\ k - 1 \in 0..n
    BY <1>2
  <2>2. Good(k - 1)
    BY <2>1
  <2> QED  BY <1>5, <2>1, <2>2
<1> HIDE DEF g
<1>8. \A k \in 0..n : g[k] \in {1}
  <2> DEFINE one == {1}
  <2>1. g[0] \in one /\ \A k \in 1..n : g[k - 1] \in one => g[k] \in one
    BY <1>6, <1>7
  <2> HIDE DEF one, Picked
  <2>2. \A k \in 0..n : g[k] \in one
    BY <1>2, <2>1, LoopKeeps
  <2> QED  BY <2>2 DEF one
<1>9. Good(n)
  <2>1. n \in 0..n
    BY <1>2
  <2> QED  BY <1>8, <2>1 DEF g
<1> QED
  BY <1>1, <1>9 DEF Good, n

\* The two loops share out what was refused.
LEMMA PickedApart ==
  ASSUME NEW ops \in Seq(Ops), Once(ops), NEW S
  PROVE  /\ Ids(InState(ops, S)) \cup Ids(InState(ops, States \ S)) = Ids(ops)
         /\ Ids(InState(ops, S)) \cap Ids(InState(ops, States \ S)) = {}
<1>1. \A i \in 1..Len(ops) : ops[i].state \in States
  <2> SUFFICES ASSUME NEW i \in 1..Len(ops)  PROVE ops[i].state \in States
    OBVIOUS
  <2>1. ops[i] \in Ops
    BY ElementOfSeq
  <2> QED  BY <2>1 DEF Ops, Operations
<1>2. /\ Ids(InState(ops, S)) =
           {Identity(ops[i]) : i \in {j \in 1..Len(ops) : ops[j].state \in S}}
      /\ Ids(InState(ops, States \ S)) =
           {Identity(ops[i]) : i \in {j \in 1..Len(ops) : ops[j].state \in States \ S}}
  BY PickedOnce
<1> QED
  BY <1>1, <1>2 DEF Ids, Once

\* The entries of an event are kept in the log, not in the queue.
EventsEmpty(queue) == \A i \in 1..Len(queue) : queue[i].kind = "new" => queue[i].ops = << >>

LEMMA QueueOnceAppended ==
  ASSUME NEW queue \in Seq(Blocks), QueueOnce(queue), EventsEmpty(queue),
         NEW block \in Blocks, block.kind # "new", Once(block.ops),
         Ids(block.ops) \cap QueueIds(queue) = {}
  PROVE  QueueOnce(Append(queue, block)) /\ EventsEmpty(Append(queue, block))
<1> DEFINE longer == Append(queue, block)
           n == Len(queue)
<1>1. /\ n \in Nat
      /\ Len(longer) = n + 1
      /\ \A i \in 1..n : longer[i] = queue[i]
      /\ longer[n + 1] = block
  BY LenProperties, AppendProperties
<1> HIDE DEF longer, n
<1>2. 1..(n + 1) = 1..n \cup {n + 1}
  BY <1>1
<1>3. \A i \in 1..n : Ids(queue[i].ops) \cap Ids(block.ops) = {}
  BY DEF QueueIds, n
<1>4. \A i \in 1..Len(longer) : Once(longer[i].ops)
  BY <1>1, <1>2 DEF QueueOnce, n
<1>5. ASSUME NEW i \in 1..Len(longer), NEW j \in 1..Len(longer), i # j
      PROVE  Ids(longer[i].ops) \cap Ids(longer[j].ops) = {}
  <2>1. CASE i \in 1..n /\ j \in 1..n
    BY <1>1, <1>5, <2>1 DEF QueueOnce, n
  <2>2. CASE i \in 1..n /\ j = n + 1
    BY <1>1, <1>3, <2>2
  <2>3. CASE i = n + 1 /\ j \in 1..n
    BY <1>1, <1>3, <2>3
  <2> QED  BY <1>1, <1>2, <1>5, <2>1, <2>2, <2>3
<1>6. EventsEmpty(longer)
  BY <1>1, <1>2 DEF EventsEmpty, n
<1> QED
  BY <1>4, <1>5, <1>6 DEF QueueOnce, longer

LEMMA QueueOnceServed ==
  ASSUME NEW queue \in Seq(Blocks), queue # << >>, QueueOnce(queue), EventsEmpty(queue)
  PROVE  /\ QueueOnce(Tail(queue)) /\ EventsEmpty(Tail(queue))
         /\ Once(Head(queue).ops)
         /\ Ids(Head(queue).ops) \cap QueueIds(Tail(queue)) = {}
         /\ QueueIds(queue) = Ids(Head(queue).ops) \cup QueueIds(Tail(queue))
         /\ Head(queue).kind = "new" => Head(queue).ops = << >>
<1> DEFINE rest == Tail(queue)
           head == Head(queue)
           n == Len(queue)
<1>1. /\ n \in Nat /\ n # 0
      /\ Len(rest) = n - 1
      /\ \A i \in 1..Len(rest) : rest[i] = queue[i + 1]
      /\ head = queue[1]
  BY LenProperties, HeadTailProperties, EmptySeq
<1> HIDE DEF rest, head, n
<1>2. \A i \in 1..Len(rest) : i + 1 \in 1..n /\ i + 1 # 1
  BY <1>1
<1>3. 1 \in 1..n
  BY <1>1
<1>4. \A i \in 1..n : i = 1 \/ (i - 1 \in 1..Len(rest) /\ queue[i] = rest[i - 1])
  <2> SUFFICES ASSUME NEW i \in 1..n, i # 1
               PROVE  i - 1 \in 1..Len(rest) /\ queue[i] = rest[i - 1]
    OBVIOUS
  <2>1. i - 1 \in 1..Len(rest) /\ (i - 1) + 1 = i
    BY <1>1
  <2> QED  BY <1>1, <2>1
<1>5. QueueOnce(rest)
  <2>1. \A i \in 1..Len(rest) : Once(rest[i].ops)
    BY <1>1, <1>2 DEF QueueOnce, n
  <2>2. ASSUME NEW i \in 1..Len(rest), NEW j \in 1..Len(rest), i # j
        PROVE  Ids(rest[i].ops) \cap Ids(rest[j].ops) = {}
    <3>1. i + 1 \in 1..n /\ j + 1 \in 1..n /\ i + 1 # j + 1
      BY <1>1, <1>2, <2>2
    <3> QED  BY <1>1, <3>1 DEF QueueOnce, n
  <2> QED  BY <2>1, <2>2 DEF QueueOnce
<1>6. EventsEmpty(rest)
  BY <1>1, <1>2 DEF EventsEmpty, n
<1>7. Once(head.ops) /\ (head.kind = "new" => head.ops = << >>)
  BY <1>1, <1>3 DEF QueueOnce, EventsEmpty, n
<1>8. Ids(head.ops) \cap QueueIds(rest) = {}
  <2>1. \A i \in 1..Len(rest) : Ids(head.ops) \cap Ids(rest[i].ops) = {}
    BY <1>1, <1>2, <1>3 DEF QueueOnce, n
  <2> QED  BY <2>1 DEF QueueIds
<1>9. QueueIds(queue) = Ids(head.ops) \cup QueueIds(rest)
  <2>1. \A i \in 1..n : Ids(queue[i].ops) \subseteq Ids(head.ops) \cup QueueIds(rest)
    BY <1>1, <1>4, ZenonT(30) DEF QueueIds
  <2>2. Ids(head.ops) \subseteq QueueIds(queue)
    BY <1>1, <1>3 DEF QueueIds, n
  <2>3. \A i \in 1..Len(rest) : Ids(rest[i].ops) \subseteq QueueIds(queue)
    BY <1>1, <1>2 DEF QueueIds, n
  <2> QED  BY <2>1, <2>2, <2>3 DEF QueueIds, n
<1> QED
  BY <1>5, <1>6, <1>7, <1>8, <1>9 DEF rest, head

LEMMA QueueOnceExtended ==
  ASSUME NEW queue \in Seq(Blocks), QueueOnce(queue), EventsEmpty(queue),
         NEW first \in Nat, NEW n \in Nat
  PROVE  LET event  == [i \in 1..n |-> [kind |-> "new", at |-> first + i, ops |-> << >>]]
         IN  QueueOnce(queue \o event) /\ EventsEmpty(queue \o event)
<1> DEFINE e(i) == [kind |-> "new", at |-> first + i, ops |-> << >>]
           event == [i \in 1..n |-> e(i)]
           longer == queue \o event
           m == Len(queue)
<1>1. \A i \in 1..n : e(i) \in Blocks /\ e(i).ops = << >>
  BY EmptySeq DEF Blocks
<1>2. event \in Seq(Blocks) /\ Len(event) = n /\ \A i \in 1..n : event[i] = e(i)
  <2> HIDE DEF e
  <2>1. event \in Seq(Blocks)
    BY <1>1, IsASeq
  <2> QED  BY <2>1, LenProperties
<1> HIDE DEF event, e
<1>3. /\ m \in Nat
      /\ Len(longer) = m + n
      /\ \A i \in 1..(m + n) : longer[i] = IF i <= m THEN queue[i] ELSE event[i - m]
  BY <1>2, LenProperties, ConcatProperties
<1> HIDE DEF longer, m
<1>4. \A i \in 1..Len(longer) :
        \/ i \in 1..m /\ longer[i] = queue[i]
        \/ longer[i].ops = << >>
  <2> SUFFICES ASSUME NEW i \in 1..Len(longer)
               PROVE  \/ i \in 1..m /\ longer[i] = queue[i]
                      \/ longer[i].ops = << >>
    OBVIOUS
  <2>1. CASE i <= m
    BY <1>3, <2>1
  <2>2. CASE ~(i <= m)
    <3>1. i - m \in 1..n /\ longer[i] = event[i - m]
      BY <1>3, <2>2
    <3> QED  BY <1>1, <1>2, <3>1
  <2> QED  BY <2>1, <2>2
<1>5. \A i \in 1..Len(longer) : Once(longer[i].ops)
  BY <1>4, OnceEmpty DEF QueueOnce, m
<1>6. \A i, j \in 1..Len(longer) : i # j => Ids(longer[i].ops) \cap Ids(longer[j].ops) = {}
  BY <1>4, IdsOfEmpty DEF QueueOnce, m
<1>7. EventsEmpty(longer)
  BY <1>4 DEF EventsEmpty, m
<1> QED
  BY <1>5, <1>6, <1>7 DEF QueueOnce, longer, event, e

-----------------------------------------------------------------------------
(* The invariant.                                                          *)

\* The sets share out all, without overlaps.
Dealt(L, U, R, T, Q, G, all) ==
  /\ L \cup U \cup R \cup T \cup Q \cup G = all
  /\ L \cap (U \cup R \cup T \cup Q \cup G) = {}
  /\ U \cap (R \cup T \cup Q \cup G) = {}
  /\ R \cap (T \cup Q \cup G) = {}
  /\ T \cap (Q \cup G) = {}
  /\ Q \cap G = {}

\* The operations of c that are in the session.
InLog(c) == {p \in LogIds : p[1] = c}

\* The identities c has given out.
Given(c) == {c} \X (0..(nextID[c] - 1))

Ledger(c) ==
  /\ Once(local[c]) /\ Once(undo[c]) /\ Once(redo[c]) /\ Once(Taken(c))
  /\ QueueOnce(stackQ[c])
  /\ Dealt(Ids(local[c]), Ids(undo[c]), Ids(redo[c]), Ids(Taken(c)), QueueIds(stackQ[c]),
           InLog(c), Given(c))

LogOnce == \A k, l \in 1..Len(log) : Identity(log[k].op) = Identity(log[l].op) => k = l

LedgerInv ==
  /\ DeliveryInv
  /\ LogOnce
  /\ \A c \in Clients : ~member[c] => received[c] = 0
  /\ \A c \in Clients : EventsEmpty(stackQ[c])
  /\ \A c \in Clients : alive[c] => Ledger(c)

\* The devices other than c keep all that is theirs.
OthersUntouched(c) ==
  \A d \in Clients : d # c =>
    /\ local'[d] = local[d] /\ undo'[d] = undo[d] /\ redo'[d] = redo[d]
    /\ batch'[d] = batch[d] /\ timer'[d] = timer[d] /\ stackQ'[d] = stackQ[d]
    /\ nextID'[d] = nextID[d] /\ member'[d] = member[d] /\ received'[d] = received[d]
    /\ alive'[d] = alive[d]

\* A step of c that sends at most operations of c; what it leaves to show.
LEMMA StepOfLedger ==
  ASSUME LedgerInv, NEW c \in Clients, OthersUntouched(c), DeliveryInv', LogOnce',
         LogIds \subseteq LogIds', \A p \in LogIds' : p \in LogIds \/ p[1] = c,
         ~member'[c] => received'[c] = 0, EventsEmpty(stackQ'[c]),
         alive'[c] => Ledger(c)'
  PROVE  LedgerInv'
<1>1. ASSUME NEW d \in Clients, d # c
      PROVE  /\ ~member'[d] => received'[d] = 0
             /\ EventsEmpty(stackQ'[d])
             /\ alive'[d] => Ledger(d)'
  <2>1. InLog(d)' = InLog(d)
    BY <1>1 DEF InLog
  <2>2. Taken(d)' = Taken(d) /\ Given(d)' = Given(d)
    BY <1>1 DEF OthersUntouched, Taken, Given
  <2>3. alive'[d] => Ledger(d)'
    <3>1. /\ local'[d] = local[d] /\ undo'[d] = undo[d] /\ redo'[d] = redo[d]
          /\ stackQ'[d] = stackQ[d] /\ alive'[d] = alive[d]
      BY <1>1 DEF OthersUntouched
    <3>2. alive[d] => Ledger(d)
      BY DEF LedgerInv
    <3> QED  BY <2>1, <2>2, <3>1, <3>2 DEF Ledger
  <2> QED
    BY <1>1, <2>3 DEF OthersUntouched, LedgerInv
<1> QED
  BY <1>1 DEF LedgerInv

LEMMA GivenGrows ==
  ASSUME TypeOK, NEW c \in Clients, nextID' = [nextID EXCEPT ![c] = @ + 1]
  PROVE  /\ Given(c)' = Given(c) \cup {<<c, nextID[c]>>}
         /\ <<c, nextID[c]>> \notin Given(c)
<1>1. nextID[c] \in Nat /\ nextID'[c] = nextID[c] + 1
  BY DEF TypeOK
<1>2. 0..(nextID'[c] - 1) = 0..(nextID[c] - 1) \cup {nextID[c]}
  BY <1>1
<1>3. nextID[c] \notin 0..(nextID[c] - 1)
  BY <1>1
<1> QED
  BY <1>2, <1>3 DEF Given

LEMMA LogStays ==
  ASSUME UNCHANGED log
  PROVE  /\ LogIds' = LogIds
         /\ \A c : InLog(c)' = InLog(c)
         /\ LogOnce => LogOnce'
BY DEF LogIds, InLog, LogOnce

\* Who is not in the session has received nothing that could be undone.
LEMMA NothingBeforeSession ==
  ASSUME LedgerInv, NEW c \in Clients, ~member[c]
  PROVE  Len(global[c]) = 0
<1>1. received[c] = 0 /\ InOrderOf(c) /\ Len(global[c]) \in Nat
  BY LenProperties DEF LedgerInv, DeliveryInv, InOrder, TypeInv, TypeOK
<1>2. PICK f : Placing(c, f)
  BY <1>1 DEF InOrderOf
<1>3. f \in [1..Len(global[c]) -> 1..0]
  BY <1>1, <1>2 DEF Placing
<1>4. CASE Len(global[c]) # 0
  <2>1. 1 \in 1..Len(global[c])
    BY <1>1, <1>4
  <2>2. f[1] \in 1..0
    BY <1>3, <2>1
  <2> QED  BY <2>2
<1> QED
  BY <1>4

LEMMA UserKeepsLedger ==
  ASSUME LedgerInv, "early" \notin Freedoms, NEW c \in Clients, User(c), DeliveryInv'
  PROVE  LedgerInv'
<1> DEFINE x == <<c, nextID[c]>>
<1>1. /\ TypeOK
      /\ local[c] \in Seq(Ops) /\ undo[c] \in Seq(Ops) /\ redo[c] \in Seq(Ops)
      /\ local \in [Clients -> Seq(Ops)] /\ undo \in [Clients -> Seq(Ops)]
      /\ redo \in [Clients -> Seq(Ops)] /\ global[c] \in Seq(Ops)
      /\ nextID \in [Clients -> Nat] /\ member \in [Clients -> BOOLEAN]
      /\ LogOnce /\ (~member[c] => received[c] = 0) /\ EventsEmpty(stackQ[c])
  BY DEF LedgerInv, DeliveryInv, TypeInv, TypeOK
<1>2. /\ alive[c]
      /\ UNCHANGED <<log, received, batch, timer, stackQ, alive>>
  BY DEF User, Type, UndoAct, RedoAct, CreateSess, JoinSess, ShouldChangeText, MayInput,
         AtTurn, MainFree, threads
<1>3. Ledger(c)
  BY <1>2 DEF LedgerInv
<1>4. /\ LogIds' = LogIds /\ InLog(c)' = InLog(c) /\ LogOnce'
      /\ Taken(c)' = Taken(c)
  BY <1>1, <1>2, LogStays DEF Taken
<1>5. ASSUME OthersUntouched(c), ~member'[c] => ~member[c], Ledger(c)'
      PROVE  LedgerInv'
  BY <1>1, <1>2, <1>4, <1>5, StepOfLedger
<1>6. ASSUME member[c], nextID' = [nextID EXCEPT ![c] = @ + 1], UNCHANGED member,
             NEW op, Identity(op) = <<ParticipantID(c), nextID[c]>>,
             \/ local' = [local EXCEPT ![c] = Append(@, op)] /\ UNCHANGED <<undo, redo>>
             \/ undo' = [undo EXCEPT ![c] = Append(@, op)] /\ UNCHANGED <<local, redo>>
             \/ redo' = [redo EXCEPT ![c] = Append(@, op)] /\ UNCHANGED <<local, undo>>
      PROVE  LedgerInv'
  <2>1. Identity(op) = x
    BY <1>6 DEF ParticipantID
  <2>2. Given(c)' = Given(c) \cup {x} /\ x \notin Given(c)
    BY <1>1, <1>6, GivenGrows
  <2>3. OthersUntouched(c)
    BY <1>1, <1>2, <1>6 DEF OthersUntouched
  <2> HIDE DEF x
  <2>4. Dealt(Ids(local[c]), Ids(undo[c]), Ids(redo[c]), Ids(Taken(c)), QueueIds(stackQ[c]),
              InLog(c), Given(c))
    BY <1>3 DEF Ledger
  <2>5. /\ Dealt(Ids(local[c]) \cup {x}, Ids(undo[c]), Ids(redo[c]), Ids(Taken(c)),
                 QueueIds(stackQ[c]), InLog(c), Given(c) \cup {x})
        /\ Dealt(Ids(local[c]), Ids(undo[c]) \cup {x}, Ids(redo[c]), Ids(Taken(c)),
                 QueueIds(stackQ[c]), InLog(c), Given(c) \cup {x})
        /\ Dealt(Ids(local[c]), Ids(undo[c]), Ids(redo[c]) \cup {x}, Ids(Taken(c)),
                 QueueIds(stackQ[c]), InLog(c), Given(c) \cup {x})
        /\ x \notin Ids(local[c]) /\ x \notin Ids(undo[c]) /\ x \notin Ids(redo[c])
    <3>1. /\ x \notin Ids(local[c]) /\ x \notin Ids(undo[c]) /\ x \notin Ids(redo[c])
          /\ x \notin Ids(Taken(c)) /\ x \notin QueueIds(stackQ[c]) /\ x \notin InLog(c)
      BY <2>2, <2>4 DEF Dealt
    <3> QED  BY <2>4, <3>1 DEF Dealt
  <2>6. /\ Once(Append(local[c], op)) /\ Once(Append(undo[c], op)) /\ Once(Append(redo[c], op))
        /\ Ids(Append(local[c], op)) = Ids(local[c]) \cup {x}
        /\ Ids(Append(undo[c], op)) = Ids(undo[c]) \cup {x}
        /\ Ids(Append(redo[c], op)) = Ids(redo[c]) \cup {x}
    BY <1>1, <1>3, <2>1, <2>5, OnceAppend, IdsOfAppend DEF Ledger
  <2>7. stackQ' = stackQ
    BY <1>2
  <2>8. Ledger(c)'
    <3>1. CASE local' = [local EXCEPT ![c] = Append(@, op)] /\ UNCHANGED <<undo, redo>>
      <4>1. local'[c] = Append(local[c], op)
        BY <1>1, <3>1
      <4> QED  BY <1>3, <1>4, <2>2, <2>5, <2>6, <2>7, <3>1, <4>1 DEF Ledger
    <3>2. CASE undo' = [undo EXCEPT ![c] = Append(@, op)] /\ UNCHANGED <<local, redo>>
      <4>1. undo'[c] = Append(undo[c], op)
        BY <1>1, <3>2
      <4> QED  BY <1>3, <1>4, <2>2, <2>5, <2>6, <2>7, <3>2, <4>1 DEF Ledger
    <3>3. CASE redo' = [redo EXCEPT ![c] = Append(@, op)] /\ UNCHANGED <<local, undo>>
      <4>1. redo'[c] = Append(redo[c], op)
        BY <1>1, <3>3
      <4> QED  BY <1>3, <1>4, <2>2, <2>5, <2>6, <2>7, <3>3, <4>1 DEF Ledger
    <3> QED  BY <1>6, <3>1, <3>2, <3>3
  <2> QED  BY <1>5, <1>6, <2>3, <2>8
<1>7. CASE Type(c)
  <2>1. member[c]
    BY <1>7 DEF Type
  <2>2. PICK range, put : ShouldChangeText(c, range, put)
    BY <1>7 DEF Type
  <2>3. Identity(NewOperation(c, range, Substring(text[c], range), put))
          = <<ParticipantID(c), nextID[c]>>
    BY DEF Identity, NewOperation
  <2> QED
    BY <1>6, <2>1, <2>2, <2>3 DEF ShouldChangeText
<1>8. CASE UndoAct(c)
  <2> DEFINE target == UndoTarget(global[c], ParticipantID(c))
             op == InverseOf(global[c][target], ParticipantID(c), nextID[c], "UNDO")
  <2>1. target # 0
    BY <1>8 DEF UndoAct
  <2>2. member[c]
    <3>1. target \in {0} \cup 1..Len(global[c])
      BY <1>1, TargetIsPlace
    <3> HIDE DEF target
    <3>2. ~member[c] => Len(global[c]) = 0
      BY NothingBeforeSession
    <3> QED  BY <2>1, <3>1, <3>2
  <2>3. Identity(op) = <<ParticipantID(c), nextID[c]>>
    BY DEF Identity, InverseOf
  <2>4. /\ undo' = [undo EXCEPT ![c] = Append(@, op)]
        /\ nextID' = [nextID EXCEPT ![c] = @ + 1]
        /\ UNCHANGED <<member, local, redo>>
    BY <1>8 DEF UndoAct
  <2> QED
    BY <1>6, <2>2, <2>3, <2>4
<1>9. CASE RedoAct(c)
  <2> DEFINE target == RedoTarget(global[c], ParticipantID(c))
             op == InverseOf(global[c][target], ParticipantID(c), nextID[c], "REDO")
  <2>1. target # 0
    BY <1>9 DEF RedoAct
  <2>2. member[c]
    <3>1. target \in {0} \cup 1..Len(global[c])
      BY <1>1, TargetIsPlace
    <3> HIDE DEF target
    <3>2. ~member[c] => Len(global[c]) = 0
      BY NothingBeforeSession
    <3> QED  BY <2>1, <3>1, <3>2
  <2>3. Identity(op) = <<ParticipantID(c), nextID[c]>>
    BY DEF Identity, InverseOf
  <2>4. /\ redo' = [redo EXCEPT ![c] = Append(@, op)]
        /\ nextID' = [nextID EXCEPT ![c] = @ + 1]
        /\ UNCHANGED <<member, local, undo>>
    BY <1>9 DEF RedoAct
  <2> QED
    BY <1>6, <2>2, <2>3, <2>4
<1>10. CASE CreateSess(c) \/ JoinSess(c)
  <2>1. /\ member' = [member EXCEPT ![c] = TRUE]
        /\ UNCHANGED <<local, undo, redo, nextID>>
    BY <1>10 DEF CreateSess, JoinSess, stacks
  <2>2. OthersUntouched(c) /\ member'[c]
    BY <1>1, <1>2, <2>1 DEF OthersUntouched
  <2>3. Given(c)' = Given(c) /\ stackQ' = stackQ
    BY <1>2, <2>1 DEF Given
  <2>4. Ledger(c)'
    BY <1>3, <1>4, <2>1, <2>3 DEF Ledger
  <2> QED  BY <1>5, <2>2, <2>4
<1> QED
  BY <1>7, <1>8, <1>9, <1>10 DEF User

\* A refused change set is put into the queue whole, unless the device crashes.
LEMMA RefusedIsQueued ==
  ASSUME TypeOK, NEW c \in Clients, NEW kind \in {"local", "undoRedo"}, NEW ops \in Seq(Ops),
         DispatchBack(c, kind, ops), EventsEmpty(stackQ[c])
  PROVE  /\ \A d \in Clients : d # c => stackQ'[d] = stackQ[d] /\ alive'[d] = alive[d]
         /\ EventsEmpty(stackQ'[c])
         /\ (alive'[c] /\ QueueOnce(stackQ[c]) /\ Once(ops) /\ Ids(ops) \cap QueueIds(stackQ[c]) = {})
              => /\ QueueOnce(stackQ'[c])
                 /\ QueueIds(stackQ'[c]) = QueueIds(stackQ[c]) \cup Ids(ops)
<1> DEFINE block == [kind |-> kind, at |-> 0, ops |-> ops]
<1>1. /\ stackQ \in [Clients -> Seq(Blocks)] /\ stackQ[c] \in Seq(Blocks)
      /\ alive \in [Clients -> BOOLEAN]
  BY DEF TypeOK
<1>2. block \in Blocks /\ block.kind # "new" /\ block.ops = ops
  BY DEF Blocks
<1>3. \/ stackQ' = [stackQ EXCEPT ![c] = Append(stackQ[c], block)] /\ alive' = alive
      \/ stackQ' = stackQ /\ alive' = [alive EXCEPT ![c] = FALSE]
  BY DEF DispatchBack
<1> HIDE DEF block
<1>4. CASE stackQ' = [stackQ EXCEPT ![c] = Append(stackQ[c], block)] /\ alive' = alive
  <2> DEFINE queue == stackQ[c]
  <2>1. stackQ'[c] = Append(queue, block)
    BY <1>1, <1>4
  <2>2. queue \in Seq(Blocks) /\ EventsEmpty(queue)
    BY <1>1
  <2>3. \A d \in Clients : d # c => stackQ'[d] = stackQ[d] /\ alive'[d] = alive[d]
    BY <1>4
  <2>4. EventsEmpty(Append(queue, block))
    <3> HIDE DEF queue
    <3>1. /\ Len(queue) \in Nat /\ Len(Append(queue, block)) = Len(queue) + 1
          /\ \A i \in 1..Len(queue) : Append(queue, block)[i] = queue[i]
          /\ Append(queue, block)[Len(queue) + 1] = block
      BY <1>2, <2>2, LenProperties, AppendProperties
    <3>2. 1..(Len(queue) + 1) = 1..Len(queue) \cup {Len(queue) + 1}
      BY <3>1
    <3> QED  BY <1>2, <2>2, <3>1, <3>2 DEF EventsEmpty
  <2>5. ASSUME QueueOnce(queue), Once(ops), Ids(ops) \cap QueueIds(queue) = {}
        PROVE  /\ QueueOnce(Append(queue, block))
               /\ QueueIds(Append(queue, block)) = QueueIds(queue) \cup Ids(ops)
    <3> HIDE DEF queue
    <3>1. QueueOnce(Append(queue, block))
      BY <1>2, <2>2, <2>5, QueueOnceAppended
    <3>2. /\ Len(queue) \in Nat /\ Len(Append(queue, block)) = Len(queue) + 1
          /\ \A i \in 1..Len(queue) : Append(queue, block)[i] = queue[i]
          /\ Append(queue, block)[Len(queue) + 1] = block
      BY <1>2, <2>2, LenProperties, AppendProperties
    <3>3. 1..(Len(queue) + 1) = 1..Len(queue) \cup {Len(queue) + 1}
      BY <3>2
    <3>4. QueueIds(Append(queue, block)) = QueueIds(queue) \cup Ids(ops)
      BY <1>2, <3>2, <3>3 DEF QueueIds
    <3> QED  BY <3>1, <3>4
  <2> QED  BY <2>1, <2>3, <2>4, <2>5
<1>5. CASE stackQ' = stackQ /\ alive' = [alive EXCEPT ![c] = FALSE]
  BY <1>1, <1>5
<1> QED
  BY <1>3, <1>4, <1>5

\* A broadcast adds its operations to the log, each once.
LEMMA EventOnce ==
  ASSUME TypeOK, LogOnce, NEW ops \in Seq(Ops), Once(ops), Ids(ops) \cap LogIds = {},
         log' = log \o Event(ops)
  PROVE  LogOnce' /\ LogIds' = LogIds \cup Ids(ops)
<1> DEFINE event == Event(ops)
           m == Len(log)
           n == Len(ops)
<1>1. /\ log \in Logs /\ event \in Logs
      /\ m \in Nat /\ n \in Nat /\ Len(event) = n
      /\ \A i \in 1..n : event[i].op = ops[i]
  BY EventType
<1>2. \A k \in 1..m, i \in 1..n : Identity(log[k].op) # Identity(ops[i])
  BY DEF LogIds, Ids
<1> HIDE DEF event, m, n
<1>3. /\ Len(log') = m + n
      /\ \A k \in 1..(m + n) : log'[k] = IF k <= m THEN log[k] ELSE event[k - m]
  <2> DEFINE Entry == [op : Ops, order : Nat]
  <2>1. log \in Seq(Entry) /\ event \in Seq(Entry)
    BY <1>1 DEF Logs
  <2> HIDE DEF Entry
  <2>2. /\ Len(log \o event) = Len(log) + Len(event)
        /\ \A k \in 1..(Len(log) + Len(event)) :
             (log \o event)[k] = IF k <= Len(log) THEN log[k] ELSE event[k - Len(log)]
    BY <2>1, ConcatProperties
  <2>3. log' = log \o event
    BY DEF event
  <2> QED  BY <1>1, <2>2, <2>3 DEF m
<1>4. ASSUME NEW k \in 1..(m + n)
      PROVE  \/ k \in 1..m /\ log'[k].op = log[k].op
             \/ k - m \in 1..n /\ log'[k].op = ops[k - m]
  <2>1. CASE k <= m
    BY <1>1, <1>3, <2>1
  <2>2. CASE ~(k <= m)
    <3>1. k - m \in 1..n
      BY <1>1, <2>2
    <3>2. log'[k] = event[k - m]
      BY <1>3, <2>2
    <3>3. \A i \in 1..n : event[i].op = ops[i]
      BY <1>1
    <3>4. event[k - m].op = ops[k - m]
      BY <3>1, <3>3
    <3> QED  BY <3>1, <3>2, <3>4
  <2> QED  BY <2>1, <2>2
<1>5. \A k \in 1..m : k \in 1..(m + n) /\ log'[k].op = log[k].op
  BY <1>1, <1>3
<1>6. \A i \in 1..n : m + i \in 1..(m + n) /\ log'[m + i].op = ops[i]
  <2> SUFFICES ASSUME NEW i \in 1..n
               PROVE  m + i \in 1..(m + n) /\ log'[m + i].op = ops[i]
    OBVIOUS
  <2>1. m + i \in 1..(m + n) /\ ~(m + i <= m) /\ (m + i) - m = i
    BY <1>1
  <2> QED  BY <1>1, <1>3, <2>1
<1>7. LogOnce'
  <2>1. ASSUME NEW k \in 1..(m + n), NEW l \in 1..(m + n),
               Identity(log'[k].op) = Identity(log'[l].op)
        PROVE  k = l
    <3>1. CASE k \in 1..m /\ log'[k].op = log[k].op /\ l \in 1..m /\ log'[l].op = log[l].op
      BY <2>1, <3>1 DEF LogOnce, m
    <3>2. CASE k - m \in 1..n /\ log'[k].op = ops[k - m] /\ l - m \in 1..n /\ log'[l].op = ops[l - m]
      <4>1. Identity(ops[k - m]) = Identity(ops[l - m])
        BY <2>1, <3>2
      <4>2. \A i, j \in 1..n : Identity(ops[i]) = Identity(ops[j]) => i = j
        BY DEF Once, n
      <4>3. k - m = l - m
        BY <3>2, <4>1, <4>2
      <4> QED  BY <1>1, <4>3
    <3>3. CASE k \in 1..m /\ log'[k].op = log[k].op /\ l - m \in 1..n /\ log'[l].op = ops[l - m]
      BY <1>2, <2>1, <3>3
    <3>4. CASE k - m \in 1..n /\ log'[k].op = ops[k - m] /\ l \in 1..m /\ log'[l].op = log[l].op
      BY <1>2, <2>1, <3>4
    <3> QED  BY <1>4, <3>1, <3>2, <3>3, <3>4
  <2> QED  BY <1>3, <2>1 DEF LogOnce
<1>8. LogIds' = LogIds \cup Ids(ops)
  <2>1. LogIds' = {Identity(log'[k].op) : k \in 1..(m + n)}
    BY <1>3 DEF LogIds
  <2>2. LogIds = {Identity(log[k].op) : k \in 1..m} /\ Ids(ops) = {Identity(ops[i]) : i \in 1..n}
    BY DEF LogIds, Ids, m, n
  <2>3. \A k \in 1..(m + n) : Identity(log'[k].op) \in LogIds \cup Ids(ops)
    BY <1>4, <2>2
  <2>4. \A k \in 1..m : Identity(log[k].op) \in LogIds'
    BY <1>5, <2>1
  <2>5. \A i \in 1..n : Identity(ops[i]) \in LogIds'
    BY <1>6, <2>1
  <2>6. LogIds' \subseteq LogIds \cup Ids(ops)
    BY <2>1, <2>3
  <2>7. LogIds \cup Ids(ops) \subseteq LogIds'
    BY <2>2, <2>4, <2>5
  <2> QED  BY <2>6, <2>7
<1> QED
  BY <1>7, <1>8

\* Moving the ranges of a stack changes no operation's identity.
LEMMA MovedStack ==
  ASSUME NEW stack \in Seq(Ops), NEW shown
  PROVE  /\ Ids(UpdateStackWithOperation(stack, shown)) = Ids(stack)
         /\ Once(stack) => Once(UpdateStackWithOperation(stack, shown))
<1> DEFINE e(i) == [stack[i] EXCEPT !.range =
                      UpdateRange(stack[i].range, shown, stack[i].participantID)]
           moved == UpdateStackWithOperation(stack, shown)
<1>1. \A i \in 1..Len(stack) : Identity(e(i)) = Identity(stack[i])
  <2> SUFFICES ASSUME NEW i \in 1..Len(stack)
               PROVE  Identity(e(i)) = Identity(stack[i])
    OBVIOUS
  <2>1. stack[i] \in Ops
    BY ElementOfSeq
  <2> QED  BY <2>1 DEF Identity, Ops, Operations
<1>2. moved = [i \in 1..Len(stack) |-> e(i)]
  BY DEF UpdateStackWithOperation
<1> HIDE DEF e
<1>3. Len(moved) = Len(stack) /\ \A i \in 1..Len(stack) : moved[i] = e(i)
  BY <1>2, LenProperties
<1> HIDE DEF moved
<1>4. Ids(moved) = Ids(stack) /\ (Once(stack) => Once(moved))
  BY <1>1, <1>3, IdsOfCopy, OnceCopy
<1> QED
  BY <1>4 DEF moved

LEMMA TimerKeepsLedger ==
  ASSUME LedgerInv, NEW c \in Clients, Timer(c), DeliveryInv'
  PROVE  LedgerInv'
<1>1. /\ TypeOK
      /\ local[c] \in Seq(Ops) /\ undo[c] \in Seq(Ops) /\ redo[c] \in Seq(Ops)
      /\ batch[c] \in Seq(Ops)
      /\ local \in [Clients -> Seq(Ops)] /\ undo \in [Clients -> Seq(Ops)]
      /\ redo \in [Clients -> Seq(Ops)] /\ batch \in [Clients -> Seq(Ops)]
      /\ timer \in [Clients -> TimerSteps]
      /\ LogOnce /\ (~member[c] => received[c] = 0) /\ EventsEmpty(stackQ[c])
  BY DEF LedgerInv, DeliveryInv, TypeInv, TypeOK
<1>2. /\ alive[c]
      /\ UNCHANGED <<member, received, nextID>>
  BY DEF Timer, GetLocalChangeSet, BroadcastLocal, RefuseLocal, PutIntoSendStack,
         SendUndoAndRedo, AtTurn, MainFree
<1>3. Ledger(c)
  BY <1>2 DEF LedgerInv
<1>4. Dealt(Ids(local[c]), Ids(undo[c]), Ids(redo[c]), Ids(Taken(c)), QueueIds(stackQ[c]),
            InLog(c), Given(c))
  BY <1>3 DEF Ledger
<1>5. Ids(<< >>) = {} /\ Once(<< >>) /\ Given(c)' = Given(c)
  BY <1>2, IdsOfEmpty, OnceEmpty DEF Given
<1>6. ASSUME UNCHANGED log, OthersUntouched(c), EventsEmpty(stackQ'[c]), alive'[c] => Ledger(c)'
      PROVE  LedgerInv'
  BY <1>1, <1>2, <1>6, LogStays, StepOfLedger
<1>7. ASSUME NEW ops \in Seq(Ops), Once(ops), Ids(ops) \subseteq Given(c),
             Ids(ops) \cap InLog(c) = {}, log' = log \o Event(ops)
      PROVE  /\ LogOnce' /\ LogIds \subseteq LogIds'
             /\ \A p \in LogIds' : p \in LogIds \/ p[1] = c
             /\ InLog(c)' = InLog(c) \cup Ids(ops)
  <2>1. \A p \in Ids(ops) : p[1] = c
    BY <1>7 DEF Given
  <2>2. Ids(ops) \cap LogIds = {}
    BY <1>7, <2>1 DEF InLog
  <2>3. LogOnce' /\ LogIds' = LogIds \cup Ids(ops)
    BY <1>1, <1>7, <2>2, EventOnce
  <2> QED  BY <2>1, <2>3 DEF InLog
<1>8. CASE GetLocalChangeSet(c)
  <2> DEFINE e(i) == [local[c][i] EXCEPT !.referID = Refer(c)]
             ops == [i \in DOMAIN local[c] |-> e(i)]
             next == IF local[c] = << >> THEN "undoRedo" ELSE "taken"
  <2>1. /\ batch' = [batch EXCEPT ![c] = ops]
        /\ local' = [local EXCEPT ![c] = << >>]
        /\ timer' = [timer EXCEPT ![c] = next]
        /\ timer[c] = "idle"
        /\ UNCHANGED <<log, undo, redo, stackQ, alive>>
    BY <1>8 DEF GetLocalChangeSet, AtTurn, MainFree
  <2>2. Ids(ops) = Ids(local[c]) /\ Once(ops)
    <3>1. \A i \in 1..Len(local[c]) : Identity(e(i)) = Identity(local[c][i])
      <4> SUFFICES ASSUME NEW i \in 1..Len(local[c])
                   PROVE  Identity(e(i)) = Identity(local[c][i])
        OBVIOUS
      <4>1. local[c][i] \in Ops
        BY <1>1, ElementOfSeq
      <4> QED  BY <4>1 DEF Identity, Ops, Operations
    <3> HIDE DEF e
    <3>2. Len(ops) = Len(local[c]) /\ \A i \in 1..Len(local[c]) : ops[i] = e(i)
      BY <1>1
    <3> HIDE DEF ops
    <3>3. Once(local[c])
      BY <1>3 DEF Ledger
    <3> QED  BY <1>1, <3>1, <3>2, <3>3, IdsOfCopy, OnceCopy
  <2> HIDE DEF ops, next
  <2>3. /\ batch'[c] = ops /\ local'[c] = << >> /\ timer'[c] = next
        /\ OthersUntouched(c)
    BY <1>1, <1>2, <2>1 DEF OthersUntouched
  <2>4. Ids(Taken(c)) = {}
    BY <1>5, <2>1 DEF Taken
  <2>5. Ids(Taken(c)') = Ids(local[c]) /\ Once(Taken(c)')
    <3>1. CASE local[c] = << >>
      BY <1>5, <2>3, <3>1 DEF Taken, next
    <3>2. CASE local[c] # << >>
      BY <2>2, <2>3, <3>2 DEF Taken, next
    <3> QED  BY <3>1, <3>2
  <2>6. Dealt({}, Ids(undo[c]), Ids(redo[c]), Ids(local[c]), QueueIds(stackQ[c]),
              InLog(c), Given(c))
    BY <1>4, <2>4 DEF Dealt
  <2>7. InLog(c)' = InLog(c)
    BY <2>1, LogStays
  <2>8. Ledger(c)'
    BY <1>3, <1>5, <2>1, <2>3, <2>5, <2>6, <2>7 DEF Ledger
  <2> QED  BY <1>1, <1>6, <2>1, <2>3, <2>8
<1>9. CASE BroadcastLocal(c)
  <2>1. /\ log' = log \o Event(batch[c])
        /\ timer' = [timer EXCEPT ![c] = "sent"]
        /\ timer[c] = "taken"
        /\ UNCHANGED <<local, undo, redo, stackQ, batch, alive>>
    BY <1>9 DEF BroadcastLocal, stacks
  <2>2. Taken(c) = batch[c] /\ Taken(c)' = << >> /\ OthersUntouched(c)
    BY <1>1, <1>2, <2>1 DEF Taken, OthersUntouched
  <2>3. Once(batch[c]) /\ Ids(batch[c]) \subseteq Given(c) /\ Ids(batch[c]) \cap InLog(c) = {}
    BY <1>3, <1>4, <2>2 DEF Ledger, Dealt
  <2>4. /\ LogOnce' /\ LogIds \subseteq LogIds'
        /\ \A p \in LogIds' : p \in LogIds \/ p[1] = c
        /\ InLog(c)' = InLog(c) \cup Ids(batch[c])
    BY <1>1, <1>7, <2>1, <2>3
  <2>5. Dealt(Ids(local[c]), Ids(undo[c]), Ids(redo[c]), {}, QueueIds(stackQ[c]),
              InLog(c) \cup Ids(batch[c]), Given(c))
    BY <1>4, <2>2 DEF Dealt
  <2>6. Ledger(c)'
    BY <1>3, <1>5, <2>1, <2>2, <2>4, <2>5 DEF Ledger
  <2> QED
    BY <1>1, <1>2, <2>1, <2>2, <2>4, <2>6, StepOfLedger
<1>10. CASE RefuseLocal(c)
  <2>1. /\ DispatchBack(c, "local", batch[c])
        /\ batch' = [batch EXCEPT ![c] = << >>]
        /\ timer' = [timer EXCEPT ![c] = "undoRedo"]
        /\ timer[c] = "taken"
        /\ UNCHANGED <<log, local, undo, redo>>
    BY <1>10 DEF RefuseLocal, stacks
  <2>2. Taken(c) = batch[c] /\ Taken(c)' = << >>
    BY <1>1, <2>1 DEF Taken
  <2>3. Once(batch[c]) /\ Ids(batch[c]) \cap QueueIds(stackQ[c]) = {} /\ QueueOnce(stackQ[c])
    BY <1>3, <1>4, <2>2 DEF Ledger, Dealt
  <2>4. /\ \A d \in Clients : d # c => stackQ'[d] = stackQ[d] /\ alive'[d] = alive[d]
        /\ EventsEmpty(stackQ'[c])
        /\ alive'[c] => /\ QueueOnce(stackQ'[c])
                        /\ QueueIds(stackQ'[c]) = QueueIds(stackQ[c]) \cup Ids(batch[c])
    BY <1>1, <2>1, <2>3, RefusedIsQueued
  <2>5. OthersUntouched(c)
    BY <1>1, <1>2, <2>1, <2>4 DEF OthersUntouched
  <2>6. Dealt(Ids(local[c]), Ids(undo[c]), Ids(redo[c]), {},
              QueueIds(stackQ[c]) \cup Ids(batch[c]), InLog(c), Given(c))
    BY <1>4, <2>2 DEF Dealt
  <2>7. InLog(c)' = InLog(c)
    BY <2>1, LogStays
  <2>8. alive'[c] => Ledger(c)'
    BY <1>3, <1>5, <2>1, <2>2, <2>4, <2>6, <2>7 DEF Ledger
  <2> QED  BY <1>6, <2>1, <2>4, <2>5, <2>8
<1>11. CASE PutIntoSendStack(c)
  <2>1. /\ timer' = [timer EXCEPT ![c] = "undoRedo"]
        /\ timer[c] = "sent"
        /\ \A d \in Clients : d # c => batch'[d] = batch[d]
        /\ UNCHANGED <<log, local, undo, redo, stackQ, alive>>
    BY <1>1, <1>11 DEF PutIntoSendStack
  <2>2. Taken(c)' = Taken(c) /\ InLog(c)' = InLog(c) /\ OthersUntouched(c)
    BY <1>1, <1>2, <2>1, LogStays DEF Taken, OthersUntouched
  <2>3. Ledger(c)'
    BY <1>3, <1>5, <2>1, <2>2 DEF Ledger
  <2> QED  BY <1>1, <1>6, <2>1, <2>2, <2>3
<1>12. CASE SendUndoAndRedo(c)
  <2> DEFINE ops == undo[c] \o redo[c]
  <2>1. /\ undo' = [undo EXCEPT ![c] = << >>]
        /\ redo' = [redo EXCEPT ![c] = << >>]
        /\ timer' = [timer EXCEPT ![c] = "idle"]
        /\ timer[c] = "undoRedo"
        /\ UNCHANGED <<local, batch>>
        /\ \/ ops = << >> /\ UNCHANGED <<log, stackQ, alive>>
           \/ log' = log \o Event(ops) /\ UNCHANGED <<stackQ, alive>>
           \/ DispatchBack(c, "undoRedo", ops) /\ UNCHANGED log
    BY <1>12 DEF SendUndoAndRedo
  <2>2. /\ Taken(c) = << >> /\ Taken(c)' = << >>
        /\ undo'[c] = << >> /\ redo'[c] = << >>
        /\ \A d \in Clients : d # c => undo'[d] = undo[d] /\ redo'[d] = redo[d] /\ timer'[d] = timer[d]
    BY <1>1, <2>1 DEF Taken
  <2>3. /\ ops \in Seq(Ops) /\ Once(ops) /\ Ids(ops) = Ids(undo[c]) \cup Ids(redo[c])
    <3>1. Once(undo[c]) /\ Once(redo[c]) /\ Ids(undo[c]) \cap Ids(redo[c]) = {}
      BY <1>3, <1>4 DEF Ledger, Dealt
    <3> QED  BY <1>1, <3>1, OnceConcat, IdsOfConcat, ConcatProperties
  <2> HIDE DEF ops
  <2>4. CASE ops = << >> /\ UNCHANGED <<log, stackQ, alive>>
    <3>1. Ids(undo[c]) = {} /\ Ids(redo[c]) = {}
      BY <1>5, <2>3, <2>4
    <3>2. OthersUntouched(c) /\ InLog(c)' = InLog(c)
      BY <1>2, <2>1, <2>2, <2>4, LogStays DEF OthersUntouched
    <3>3. Ledger(c)'
      BY <1>3, <1>5, <2>1, <2>2, <2>4, <3>1, <3>2 DEF Ledger
    <3> QED  BY <1>1, <1>6, <2>4, <3>2, <3>3
  <2>5. CASE log' = log \o Event(ops) /\ UNCHANGED <<stackQ, alive>>
    <3>1. Ids(ops) \subseteq Given(c) /\ Ids(ops) \cap InLog(c) = {}
      BY <1>4, <2>3 DEF Dealt
    <3>2. /\ LogOnce' /\ LogIds \subseteq LogIds'
          /\ \A p \in LogIds' : p \in LogIds \/ p[1] = c
          /\ InLog(c)' = InLog(c) \cup Ids(ops)
      BY <1>7, <2>3, <2>5, <3>1
    <3>3. Dealt(Ids(local[c]), {}, {}, {}, QueueIds(stackQ[c]), InLog(c) \cup Ids(ops), Given(c))
      BY <1>4, <1>5, <2>2, <2>3 DEF Dealt
    <3>4. OthersUntouched(c)
      BY <1>2, <2>1, <2>2, <2>5 DEF OthersUntouched
    <3>5. Ledger(c)'
      BY <1>3, <1>5, <2>1, <2>2, <2>5, <3>2, <3>3 DEF Ledger
    <3> QED
      BY <1>1, <1>2, <2>5, <3>2, <3>4, <3>5, StepOfLedger
  <2>6. CASE DispatchBack(c, "undoRedo", ops) /\ UNCHANGED log
    <3>1. Ids(ops) \cap QueueIds(stackQ[c]) = {} /\ QueueOnce(stackQ[c])
      BY <1>3, <1>4, <2>3 DEF Ledger, Dealt
    <3>2. /\ \A d \in Clients : d # c => stackQ'[d] = stackQ[d] /\ alive'[d] = alive[d]
          /\ EventsEmpty(stackQ'[c])
          /\ alive'[c] => /\ QueueOnce(stackQ'[c])
                          /\ QueueIds(stackQ'[c]) = QueueIds(stackQ[c]) \cup Ids(ops)
      BY <1>1, <2>3, <2>6, <3>1, RefusedIsQueued
    <3>3. OthersUntouched(c) /\ InLog(c)' = InLog(c)
      BY <1>2, <2>1, <2>2, <2>6, <3>2, LogStays DEF OthersUntouched
    <3>4. Dealt(Ids(local[c]), {}, {}, {}, QueueIds(stackQ[c]) \cup Ids(ops), InLog(c), Given(c))
      BY <1>4, <1>5, <2>2, <2>3 DEF Dealt
    <3>5. alive'[c] => Ledger(c)'
      BY <1>3, <1>5, <2>1, <2>2, <3>2, <3>3, <3>4 DEF Ledger
    <3> QED  BY <1>6, <2>6, <3>2, <3>3, <3>5
  <2> QED  BY <2>1, <2>4, <2>5, <2>6
<1> QED
  BY <1>8, <1>9, <1>10, <1>11, <1>12 DEF Timer

LEMMA ReceivedEventKeepsLedger ==
  ASSUME LedgerInv, NEW c \in Clients, ReceivedEvent(c), DeliveryInv'
  PROVE  LedgerInv'
<1>1. /\ TypeOK /\ LogOnce /\ EventsEmpty(stackQ[c])
      /\ stackQ[c] \in Seq(Blocks) /\ stackQ \in [Clients -> Seq(Blocks)]
      /\ received \in [Clients -> Nat] /\ received[c] \in Nat /\ Len(log) \in Nat
  BY LenProperties DEF LedgerInv, DeliveryInv, TypeInv, TypeOK
<1>2. /\ alive[c] /\ member[c]
      /\ UNCHANGED <<member, log, local, undo, redo, timer, batch, nextID, alive>>
  BY DEF ReceivedEvent, stacks
<1>3. PICK last \in (received[c] + 1)..Len(log) :
        /\ stackQ' = [stackQ EXCEPT ![c] =
             stackQ[c] \o [i \in 1..(last - received[c]) |->
                             [kind |-> "new", at |-> received[c] + i, ops |-> << >>]]]
        /\ received' = [received EXCEPT ![c] = last]
  BY DEF ReceivedEvent
<1>4. Ledger(c)
  BY <1>2 DEF LedgerInv
<1> DEFINE n == last - received[c]
           event == [i \in 1..n |-> [kind |-> "new", at |-> received[c] + i, ops |-> << >>]]
<1>5. n \in Nat
  BY <1>1
<1>6. QueueOnce(stackQ[c])
  BY <1>4 DEF Ledger
<1>7. QueueOnce(stackQ[c] \o event) /\ EventsEmpty(stackQ[c] \o event)
  <2> HIDE DEF n
  <2> QED  BY <1>1, <1>5, <1>6, QueueOnceExtended
<1>8. QueueIds(stackQ[c] \o event) = QueueIds(stackQ[c])
  <2>1. Sorted(stackQ[c]) /\ \A p \in Places(stackQ[c]) : p \in Nat /\ p <= received[c]
    BY <1>1 DEF LedgerInv, DeliveryInv, InOrder, InOrderOf, TypeInv, HandedOver, Places
  <2> HIDE DEF n
  <2> QED  BY <1>1, <1>5, <2>1, QueueExtended
<1>9. stackQ' = [stackQ EXCEPT ![c] = stackQ[c] \o event]
  BY <1>3
<1> HIDE DEF event, n
<1>10. stackQ'[c] = stackQ[c] \o event /\ OthersUntouched(c)
  BY <1>1, <1>2, <1>3, <1>9 DEF OthersUntouched
<1>11. Taken(c)' = Taken(c) /\ Given(c)' = Given(c)
  BY <1>2 DEF Taken, Given
<1>12. LogIds' = LogIds /\ InLog(c)' = InLog(c) /\ LogOnce'
  BY <1>1, <1>2, LogStays
<1>13. Ledger(c)'
  BY <1>2, <1>4, <1>7, <1>8, <1>10, <1>11, <1>12 DEF Ledger
<1> QED
  BY <1>1, <1>2, <1>7, <1>10, <1>12, <1>13, StepOfLedger

LEMMA StackQueueKeepsLedger ==
  ASSUME LedgerInv, NEW c \in Clients, StackQueue(c), DeliveryInv'
  PROVE  LedgerInv'
<1> DEFINE block == Head(stackQ[c])
<1>1. /\ TypeOK /\ LogOnce /\ EventsEmpty(stackQ[c]) /\ (~member[c] => received[c] = 0)
      /\ stackQ[c] \in Seq(Blocks) /\ stackQ \in [Clients -> Seq(Blocks)]
      /\ local[c] \in Seq(Ops) /\ undo[c] \in Seq(Ops) /\ redo[c] \in Seq(Ops)
      /\ local \in [Clients -> Seq(Ops)] /\ undo \in [Clients -> Seq(Ops)]
      /\ redo \in [Clients -> Seq(Ops)] /\ send[c] \in Seq(Ops)
  BY DEF LedgerInv, DeliveryInv, TypeInv, TypeOK
<1>2. /\ alive[c] /\ stackQ[c] # << >>
      /\ stackQ' = [stackQ EXCEPT ![c] = Tail(stackQ[c])]
      /\ UNCHANGED <<member, log, received, timer, batch, nextID, alive>>
  BY DEF StackQueue, AddNewOperation, AddBack
<1>3. Ledger(c)
  BY <1>2 DEF LedgerInv
<1>4. Dealt(Ids(local[c]), Ids(undo[c]), Ids(redo[c]), Ids(Taken(c)), QueueIds(stackQ[c]),
            InLog(c), Given(c))
  BY <1>3 DEF Ledger
<1>5. stackQ'[c] = Tail(stackQ[c]) /\ \A d \in Clients : d # c => stackQ'[d] = stackQ[d]
  BY <1>1, <1>2
<1>6. /\ QueueOnce(Tail(stackQ[c])) /\ EventsEmpty(Tail(stackQ[c]))
      /\ Once(block.ops)
      /\ Ids(block.ops) \cap QueueIds(Tail(stackQ[c])) = {}
      /\ QueueIds(stackQ[c]) = Ids(block.ops) \cup QueueIds(Tail(stackQ[c]))
      /\ block.kind = "new" => block.ops = << >>
  BY <1>1, <1>2, <1>3, QueueOnceServed DEF Ledger
<1>7. block.ops \in Seq(Ops)
  <2>1. stackQ[c] # << >> /\ stackQ[c] \in Seq(Blocks)
    BY <1>1, <1>2
  <2>2. block \in Blocks
    BY <2>1, HeadTailProperties
  <2> QED  BY <2>2 DEF Blocks
<1>8. /\ LogIds' = LogIds /\ InLog(c)' = InLog(c) /\ LogOnce'
      /\ Taken(c)' = Taken(c) /\ Given(c)' = Given(c)
  BY <1>1, <1>2, LogStays DEF Taken, Given
<1>9. ASSUME \A d \in Clients : d # c => /\ local'[d] = local[d]
                                         /\ undo'[d] = undo[d] /\ redo'[d] = redo[d],
             Ledger(c)'
      PROVE  LedgerInv'
  <2>1. OthersUntouched(c)
    BY <1>2, <1>5, <1>9 DEF OthersUntouched
  <2> QED  BY <1>1, <1>2, <1>5, <1>6, <1>8, <1>9, <2>1, StepOfLedger
<1> HIDE DEF block
<1>10. CASE AddNewOperation(c)
  <2> DEFINE op == Delivered(log[Head(stackQ[c]).at])
  <2>1. /\ block.kind = "new"
        /\ UNCHANGED <<undo, redo>>
        /\ \/ UpdateOperationFromSendToGlobal(c, op)
           \/ AddNewGlobalOperation(c, op)
    BY <1>10 DEF AddNewOperation, block
  <2>2. QueueIds(stackQ[c]) = QueueIds(Tail(stackQ[c]))
    BY <1>6, <2>1, IdsOfEmpty
  <2> HIDE DEF op
  <2>3. /\ Ids(local'[c]) = Ids(local[c]) /\ Once(local'[c])
        /\ \A d \in Clients : d # c => local'[d] = local[d]
    <3>1. CASE UpdateOperationFromSendToGlobal(c, op)
      <4>1. local' = local
        BY <3>1 DEF UpdateOperationFromSendToGlobal
      <4> QED  BY <1>3, <4>1 DEF Ledger
    <3>2. CASE AddNewGlobalOperation(c, op)
      <4>1. PICK shown : local' = [local EXCEPT ![c] = UpdateStackWithOperation(local[c], shown)]
        BY <3>2 DEF AddNewGlobalOperation
      <4>2. local'[c] = UpdateStackWithOperation(local[c], shown)
        BY <1>1, <4>1
      <4>3. Once(local[c])
        BY <1>3 DEF Ledger
      <4> QED  BY <1>1, <4>1, <4>2, <4>3, MovedStack
    <3> QED  BY <2>1, <3>1, <3>2
  <2>4. Ledger(c)'
    BY <1>3, <1>5, <1>6, <1>8, <2>1, <2>2, <2>3 DEF Ledger
  <2> QED  BY <1>9, <2>1, <2>3, <2>4
<1>11. CASE AddBack(c)
  <2> DEFINE undone == InState(block.ops, {"UNDO"})
             redone == InState(block.ops, States \ {"UNDO"})
  <2>1. \/ /\ local' = [local EXCEPT ![c] = block.ops \o local[c]]
           /\ UNCHANGED <<undo, redo>>
        \/ /\ undo' = [undo EXCEPT ![c] = undone \o undo[c]]
           /\ redo' = [redo EXCEPT ![c] = redone \o redo[c]]
           /\ UNCHANGED local
    BY <1>11 DEF AddBack, block
  <2>2. /\ undone \in Seq(Ops) /\ redone \in Seq(Ops)
        /\ Once(undone) /\ Once(redone)
        /\ Ids(undone) \cup Ids(redone) = Ids(block.ops)
        /\ Ids(undone) \cap Ids(redone) = {}
    BY <1>6, <1>7, InStateIsStack, PickedOnce, PickedApart
  <2> HIDE DEF undone, redone
  <2>3. CASE local' = [local EXCEPT ![c] = block.ops \o local[c]] /\ UNCHANGED <<undo, redo>>
    <3>1. /\ local'[c] = block.ops \o local[c]
          /\ \A d \in Clients : d # c => local'[d] = local[d]
      BY <1>1, <2>3
    <3>2. Ids(block.ops) \cap Ids(local[c]) = {} /\ Once(local[c])
      BY <1>3, <1>4, <1>6 DEF Dealt, Ledger
    <3>3. Once(local'[c]) /\ Ids(local'[c]) = Ids(block.ops) \cup Ids(local[c])
      BY <1>1, <1>6, <1>7, <3>1, <3>2, OnceConcat, IdsOfConcat
    <3>4. Dealt(Ids(local'[c]), Ids(undo[c]), Ids(redo[c]), Ids(Taken(c)),
                QueueIds(Tail(stackQ[c])), InLog(c), Given(c))
      BY <1>4, <1>6, <3>3 DEF Dealt
    <3>5. Ledger(c)'
      BY <1>3, <1>5, <1>6, <1>8, <2>3, <3>3, <3>4 DEF Ledger
    <3> QED  BY <1>9, <2>3, <3>1, <3>5
  <2>4. CASE /\ undo' = [undo EXCEPT ![c] = undone \o undo[c]]
             /\ redo' = [redo EXCEPT ![c] = redone \o redo[c]]
             /\ UNCHANGED local
    <3>1. /\ undo'[c] = undone \o undo[c] /\ redo'[c] = redone \o redo[c]
          /\ \A d \in Clients : d # c => undo'[d] = undo[d] /\ redo'[d] = redo[d]
      BY <1>1, <2>4
    <3>2. /\ Ids(undone) \cap Ids(undo[c]) = {} /\ Once(undo[c])
          /\ Ids(redone) \cap Ids(redo[c]) = {} /\ Once(redo[c])
      BY <1>3, <1>4, <1>6, <2>2 DEF Dealt, Ledger
    <3>3. /\ Once(undo'[c]) /\ Ids(undo'[c]) = Ids(undone) \cup Ids(undo[c])
          /\ Once(redo'[c]) /\ Ids(redo'[c]) = Ids(redone) \cup Ids(redo[c])
      BY <1>1, <2>2, <3>1, <3>2, OnceConcat, IdsOfConcat
    <3>4. Dealt(Ids(local[c]), Ids(undo'[c]), Ids(redo'[c]), Ids(Taken(c)),
                QueueIds(Tail(stackQ[c])), InLog(c), Given(c))
      BY <1>4, <1>6, <2>2, <3>3 DEF Dealt
    <3>5. Ledger(c)'
      BY <1>3, <1>5, <1>6, <1>8, <2>4, <3>3, <3>4 DEF Ledger
    <3> QED  BY <1>9, <2>4, <3>1, <3>5
  <2> QED  BY <2>1, <2>3, <2>4
<1> QED
  BY <1>10, <1>11 DEF StackQueue

\* A step that is not about the stacks can only stop a device.
LEMMA AsideKeepsLedger ==
  ASSUME LedgerInv, DeliveryInv',
         UNCHANGED <<member, log, received, stacks, stackQ, timer, batch, nextID>>,
         \A c \in Clients : alive'[c] => alive[c]
  PROVE  LedgerInv'
<1>1. ASSUME NEW c \in Clients
      PROVE  /\ Taken(c)' = Taken(c) /\ Given(c)' = Given(c) /\ InLog(c)' = InLog(c)
             /\ Ledger(c) => Ledger(c)'
  <2>1. Taken(c)' = Taken(c) /\ Given(c)' = Given(c) /\ InLog(c)' = InLog(c)
    BY LogStays DEF Taken, Given
  <2> QED  BY <2>1 DEF Ledger, stacks
<1>2. LogOnce'
  BY LogStays DEF LedgerInv
<1> QED
  BY <1>1, <1>2 DEF LedgerInv

LEMMA LedgerInitially == Init => LedgerInv
<1> SUFFICES ASSUME Init  PROVE LedgerInv
  OBVIOUS
<1>1. DeliveryInv /\ Len(<< >>) = 0
  BY DeliveryInitially, EmptySeq
<1>2. LogOnce /\ LogIds = {}
  BY <1>1 DEF Init, LogOnce, LogIds
<1>3. ASSUME NEW c \in Clients
      PROVE  received[c] = 0 /\ EventsEmpty(stackQ[c]) /\ Ledger(c)
  <2>1. /\ local[c] = << >> /\ undo[c] = << >> /\ redo[c] = << >> /\ Taken(c) = << >>
        /\ stackQ[c] = << >> /\ received[c] = 0 /\ nextID[c] = 0
    BY DEF Init, Taken
  <2>2. QueueOnce(stackQ[c]) /\ QueueIds(stackQ[c]) = {} /\ EventsEmpty(stackQ[c])
    BY <1>1, <2>1 DEF QueueOnce, QueueIds, EventsEmpty
  <2>3. InLog(c) = {} /\ Given(c) = {}
    BY <1>2, <2>1 DEF InLog, Given
  <2>4. Dealt({}, {}, {}, {}, {}, {}, {})
    BY DEF Dealt
  <2> QED  BY <2>1, <2>2, <2>3, <2>4, IdsOfEmpty, OnceEmpty DEF Ledger
<1> QED
  BY <1>1, <1>2, <1>3 DEF LedgerInv

LEMMA NextKeepsLedger == ("early" \notin Freedoms) /\ LedgerInv /\ [Next]_vars => LedgerInv'
<1> SUFFICES ASSUME "early" \notin Freedoms, LedgerInv, [Next]_vars
             PROVE  LedgerInv'
  OBVIOUS
<1>1. DeliveryInv'
  BY NextDelivers DEF LedgerInv
<1>2. ASSUME NEW c \in Clients,
             User(c) \/ Timer(c) \/ ReceivedEvent(c) \/ StackQueue(c)
      PROVE  LedgerInv'
  BY <1>1, <1>2, UserKeepsLedger, TimerKeepsLedger, ReceivedEventKeepsLedger,
     StackQueueKeepsLedger
<1>3. ASSUME NEW c \in Clients, UpdateInputView(c)
      PROVE  LedgerInv'
  <2>1. /\ UNCHANGED <<member, log, received, stacks, stackQ, timer, batch, nextID>>
        /\ alive' = alive \/ alive' = [alive EXCEPT ![c] = FALSE]
    BY <1>3 DEF UpdateInputView
  <2>2. alive \in [Clients -> BOOLEAN]
    BY DEF LedgerInv, DeliveryInv, TypeInv, TypeOK
  <2>3. \A d \in Clients : alive'[d] => alive[d]
    BY <2>1, <2>2
  <2> QED  BY <1>1, <2>1, <2>3, AsideKeepsLedger
<1>4. CASE UNCHANGED vars
  BY <1>1, <1>4, AsideKeepsLedger DEF vars, threads
<1> QED
  BY <1>2, <1>3, <1>4 DEF Next

\* The places of Unsent, one by one.
LEMMA UnsentPlaces ==
  ASSUME TypeOK, NEW c \in Clients
  PROVE  /\ Len(stackQ[c]) \in Nat
         /\ DOMAIN Unsent(c) = 1..(4 + Len(stackQ[c]))
         /\ Unsent(c)[1] = local[c] /\ Unsent(c)[2] = undo[c] /\ Unsent(c)[3] = redo[c]
         /\ Unsent(c)[4] = Taken(c)
         /\ \A i \in 1..Len(stackQ[c]) : Unsent(c)[4 + i] = stackQ[c][i].ops
<1> DEFINE O == Seq(Ops)
           four == <<local[c], undo[c], redo[c], Taken(c)>>
           m == Len(stackQ[c])
           e(i) == stackQ[c][i].ops
           blocks == [i \in 1..m |-> e(i)]
           all == four \o blocks
<1>1. /\ local[c] \in O /\ undo[c] \in O /\ redo[c] \in O /\ Taken(c) \in O
      /\ stackQ[c] \in Seq(Blocks) /\ m \in Nat /\ DOMAIN stackQ[c] = 1..m
  <2>1. << >> \in Seq(Ops)
    BY EmptySeq
  <2>2. stackQ[c] \in Seq(Blocks)
    BY DEF TypeOK
  <2> QED  BY <2>1, <2>2, LenProperties DEF TypeOK, Taken
<1>2. \A i \in 1..m : e(i) \in O
  <2> SUFFICES ASSUME NEW i \in 1..m  PROVE e(i) \in O
    OBVIOUS
  <2>1. stackQ[c][i] \in Blocks
    BY <1>1, ElementOfSeq
  <2> QED  BY <2>1 DEF Blocks
<1>3. Unsent(c) = all
  BY <1>1 DEF Unsent, Taken
<1> HIDE DEF e, m, O
<1>4. four \in Seq(O) /\ Len(four) = 4 /\ four[1] = local[c] /\ four[2] = undo[c]
      /\ four[3] = redo[c] /\ four[4] = Taken(c)
  BY <1>1
<1>5. blocks \in Seq(O) /\ Len(blocks) = m /\ \A i \in 1..m : blocks[i] = e(i)
  <2>1. blocks \in Seq(O)
    BY <1>1, <1>2, IsASeq
  <2> QED  BY <1>1, <2>1, LenProperties
<1> HIDE DEF four, blocks
<1>6. /\ all \in Seq(O) /\ Len(all) = 4 + m
      /\ \A i \in 1..(4 + m) : all[i] = IF i <= 4 THEN four[i] ELSE blocks[i - 4]
  <2>1. /\ four \o blocks \in Seq(O)
        /\ Len(four \o blocks) = Len(four) + Len(blocks)
        /\ \A i \in 1..(Len(four) + Len(blocks)) :
             (four \o blocks)[i] = IF i <= Len(four) THEN four[i] ELSE blocks[i - Len(four)]
    BY <1>4, <1>5, ConcatProperties
  <2> QED  BY <1>4, <1>5, <2>1
<1>7. DOMAIN all = 1..(4 + m)
  BY <1>6, LenProperties
<1> HIDE DEF all
<1>8. all[1] = local[c] /\ all[2] = undo[c] /\ all[3] = redo[c] /\ all[4] = Taken(c)
  BY <1>1, <1>4, <1>6
<1>9. ASSUME NEW i \in 1..m
      PROVE  all[4 + i] = e(i)
  <2>1. 4 + i \in 1..(4 + m) /\ ~(4 + i <= 4) /\ (4 + i) - 4 = i
    BY <1>1
  <2> QED  BY <1>5, <1>6, <2>1
<1> QED
  BY <1>1, <1>3, <1>7, <1>8, <1>9 DEF m, e

\* Every place holds operations of c, each once, and no two places the same one.
LEMMA PlacesApart ==
  ASSUME LedgerInv, NEW c \in Clients, alive[c]
  PROVE  LET spots == DOMAIN Unsent(c)
         IN  /\ \A s \in spots : /\ Once(Unsent(c)[s])
                                 /\ Ids(Unsent(c)[s]) \subseteq Given(c)
                                 /\ Ids(Unsent(c)[s]) \cap InLog(c) = {}
                                 /\ Unsent(c)[s] \in Seq(Ops)
             /\ \A s, t \in spots : s # t => Ids(Unsent(c)[s]) \cap Ids(Unsent(c)[t]) = {}
             /\ \A p \in Given(c) : p \in InLog(c) \/ \E s \in spots : p \in Ids(Unsent(c)[s])
<1> DEFINE S == Unsent(c)
           m == Len(stackQ[c])
           L == Ids(local[c])
           U == Ids(undo[c])
           R == Ids(redo[c])
           T == Ids(Taken(c))
           Q == QueueIds(stackQ[c])
<1>1. /\ TypeOK /\ m \in Nat
      /\ DOMAIN S = 1..(4 + m)
      /\ S[1] = local[c] /\ S[2] = undo[c] /\ S[3] = redo[c] /\ S[4] = Taken(c)
      /\ \A i \in 1..m : S[4 + i] = stackQ[c][i].ops
  BY UnsentPlaces DEF LedgerInv, DeliveryInv, TypeInv
<1>2. Ledger(c)
  BY DEF LedgerInv
<1>3. Dealt(L, U, R, T, Q, InLog(c), Given(c))
  BY <1>2 DEF Ledger
<1>4. /\ Once(local[c]) /\ Once(undo[c]) /\ Once(redo[c]) /\ Once(Taken(c))
      /\ QueueOnce(stackQ[c])
  BY <1>2 DEF Ledger
<1>5. /\ local[c] \in Seq(Ops) /\ undo[c] \in Seq(Ops) /\ redo[c] \in Seq(Ops)
      /\ Taken(c) \in Seq(Ops) /\ stackQ[c] \in Seq(Blocks)
  <2>1. << >> \in Seq(Ops)
    BY EmptySeq
  <2> QED  BY <1>1, <2>1 DEF TypeOK, Taken
<1>6. \A i \in 1..m : /\ stackQ[c][i].ops \in Seq(Ops)
                      /\ Once(stackQ[c][i].ops)
                      /\ Ids(stackQ[c][i].ops) \subseteq Q
  <2> SUFFICES ASSUME NEW i \in 1..m
               PROVE  /\ stackQ[c][i].ops \in Seq(Ops)
                      /\ Once(stackQ[c][i].ops)
                      /\ Ids(stackQ[c][i].ops) \subseteq Q
    OBVIOUS
  <2>1. stackQ[c][i] \in Blocks
    BY <1>5, ElementOfSeq
  <2> QED  BY <1>4, <2>1 DEF Blocks, QueueOnce, QueueIds
<1>7. \A i, j \in 1..m : i # j => Ids(stackQ[c][i].ops) \cap Ids(stackQ[c][j].ops) = {}
  BY <1>4 DEF QueueOnce
<1>8. \A p \in Q : \E i \in 1..m : p \in Ids(stackQ[c][i].ops)
  BY DEF QueueIds
<1> DEFINE B(i) == stackQ[c][i].ops
<1> HIDE DEF S, m, L, U, R, T, Q, B
<1>9. \A s \in DOMAIN S : s = 1 \/ s = 2 \/ s = 3 \/ s = 4 \/ (s - 4 \in 1..m /\ S[s] = S[4 + (s - 4)])
  BY <1>1
<1>10. /\ Ids(S[1]) = L /\ Ids(S[2]) = U /\ Ids(S[3]) = R /\ Ids(S[4]) = T
       /\ 1 \in DOMAIN S /\ 2 \in DOMAIN S /\ 3 \in DOMAIN S /\ 4 \in DOMAIN S
       /\ \A i \in 1..m : 4 + i \in DOMAIN S /\ S[4 + i] = B(i)
  BY <1>1 DEF L, U, R, T, B
<1>11. \A s \in DOMAIN S : s \in {1, 2, 3, 4} \/ (s - 4 \in 1..m /\ S[s] = B(s - 4))
  BY <1>9, <1>10
<1>12. ASSUME NEW s \in DOMAIN S
       PROVE  /\ Once(S[s])
              /\ Ids(S[s]) \subseteq Given(c)
              /\ Ids(S[s]) \cap InLog(c) = {}
              /\ S[s] \in Seq(Ops)
  <2>1. CASE s \in {1, 2, 3, 4}
    <3>1. /\ L \subseteq Given(c) /\ U \subseteq Given(c) /\ R \subseteq Given(c) /\ T \subseteq Given(c)
          /\ L \cap InLog(c) = {} /\ U \cap InLog(c) = {} /\ R \cap InLog(c) = {}
          /\ T \cap InLog(c) = {}
      BY <1>3 DEF Dealt
    <3> QED  BY <1>1, <1>4, <1>5, <1>10, <2>1, <3>1
  <2>2. CASE s - 4 \in 1..m /\ S[s] = B(s - 4)
    <3>1. Q \subseteq Given(c) /\ Q \cap InLog(c) = {}
      BY <1>3 DEF Dealt
    <3>2. Once(B(s - 4)) /\ Ids(B(s - 4)) \subseteq Q /\ B(s - 4) \in Seq(Ops)
      BY <1>6, <2>2 DEF B
    <3> QED  BY <2>2, <3>1, <3>2
  <2> QED  BY <1>11, <2>1, <2>2
<1>13. ASSUME NEW s \in DOMAIN S, NEW t \in DOMAIN S, s # t
       PROVE  Ids(S[s]) \cap Ids(S[t]) = {}
  <2>1. /\ L \cap U = {} /\ L \cap R = {} /\ L \cap T = {} /\ L \cap Q = {}
        /\ U \cap R = {} /\ U \cap T = {} /\ U \cap Q = {}
        /\ R \cap T = {} /\ R \cap Q = {} /\ T \cap Q = {}
    BY <1>3 DEF Dealt
  <2>2. CASE s \in {1, 2, 3, 4} /\ t \in {1, 2, 3, 4}
    BY <1>10, <1>13, <2>1, <2>2
  <2>3. CASE s \in {1, 2, 3, 4} /\ t - 4 \in 1..m /\ S[t] = B(t - 4)
    <3>1. Ids(S[t]) \subseteq Q
      BY <1>6, <2>3 DEF B
    <3> QED  BY <1>10, <2>1, <2>3, <3>1
  <2>4. CASE s - 4 \in 1..m /\ S[s] = B(s - 4) /\ t \in {1, 2, 3, 4}
    <3>1. Ids(S[s]) \subseteq Q
      BY <1>6, <2>4 DEF B
    <3> QED  BY <1>10, <2>1, <2>4, <3>1
  <2>5. CASE s - 4 \in 1..m /\ S[s] = B(s - 4) /\ t - 4 \in 1..m /\ S[t] = B(t - 4)
    <3>1. s - 4 # t - 4
      BY <1>1, <1>13
    <3> QED  BY <1>7, <2>5, <3>1 DEF B
  <2> QED  BY <1>11, <2>2, <2>3, <2>4, <2>5
<1>14. ASSUME NEW p \in Given(c), p \notin InLog(c)
       PROVE  \E s \in DOMAIN S : p \in Ids(S[s])
  <2>1. p \in L \/ p \in U \/ p \in R \/ p \in T \/ p \in Q
    BY <1>3, <1>14 DEF Dealt
  <2>2. CASE p \in Q
    <3>1. PICK i \in 1..m : p \in Ids(B(i))
      BY <1>8, <2>2 DEF B
    <3>2. 4 + i \in DOMAIN S /\ p \in Ids(S[4 + i])
      BY <1>10, <3>1
    <3> QED  BY <3>2
  <2> QED  BY <1>10, <2>1, <2>2
<1> QED
  BY <1>12, <1>13, <1>14 DEF S

LEMMA LedgerFollows == LedgerInv => NothingLost
<1> SUFFICES ASSUME LedgerInv, NEW c \in Clients, alive[c], NEW n \in 0..(nextID[c] - 1)
             PROVE  Cardinality(Kept(c, n)) + Cardinality(Logged(c, n)) = 1
  BY DEF NothingLost
<1> DEFINE S == Unsent(c)
           x == <<c, n>>
<1>1. /\ \A s \in DOMAIN S : /\ Once(S[s]) /\ Ids(S[s]) \subseteq Given(c)
                             /\ Ids(S[s]) \cap InLog(c) = {} /\ S[s] \in Seq(Ops)
      /\ \A s, t \in DOMAIN S : s # t => Ids(S[s]) \cap Ids(S[t]) = {}
      /\ \A p \in Given(c) : p \in InLog(c) \/ \E s \in DOMAIN S : p \in Ids(S[s])
  BY PlacesApart
<1>2. x \in Given(c)
  BY DEF Given
<1>3. /\ log \in Seq([op : Ops, order : Nat]) /\ DOMAIN log = 1..Len(log)
      /\ LogOnce
  BY LenProperties DEF LedgerInv, DeliveryInv, TypeInv, TypeOK
<1> HIDE DEF S
<1>4. \A s \in DOMAIN S : DOMAIN S[s] = 1..Len(S[s])
  BY <1>1, LenProperties
<1>5. ASSUME NEW s \in DOMAIN S, NEW i \in 1..Len(S[s])
      PROVE  S[s][i].operationID = n <=> Identity(S[s][i]) = x
  <2>1. Identity(S[s][i]) \in Given(c)
    BY <1>1 DEF Ids
  <2> QED  BY <2>1 DEF Given, Identity
<1>6. Kept(c, n) = {spot \in UNION {{s} \X (1..Len(S[s])) : s \in DOMAIN S} :
                      Identity(S[spot[1]][spot[2]]) = x}
  <2>1. Kept(c, n) = {spot \in UNION {{s} \X (1..Len(S[s])) : s \in DOMAIN S} :
                        S[spot[1]][spot[2]].operationID = n}
    BY <1>4 DEF Kept, S
  <2> QED  BY <1>5, <2>1
<1>7. Logged(c, n) = {k \in 1..Len(log) : Identity(log[k].op) = x}
  BY <1>3 DEF Logged, Identity
<1>8. x \in InLog(c) <=> \E k \in 1..Len(log) : Identity(log[k].op) = x
  BY DEF InLog, LogIds
<1>9. CASE x \in InLog(c)
  <2>1. PICK k \in 1..Len(log) : Identity(log[k].op) = x
    BY <1>8, <1>9
  <2>2. Logged(c, n) = {k}
    BY <1>3, <1>7, <2>1 DEF LogOnce
  <2>3. ASSUME NEW s \in DOMAIN S, NEW i \in 1..Len(S[s]), Identity(S[s][i]) = x
        PROVE  FALSE
    <3>1. x \in Ids(S[s])
      BY <2>3 DEF Ids
    <3> QED  BY <1>1, <1>9, <3>1
  <2>4. Kept(c, n) = {}
    BY <1>6, <2>3
  <2>5. Cardinality(Kept(c, n)) = 0
    BY <2>4, FS_EmptySet
  <2>6. Cardinality(Logged(c, n)) = 1
    BY <2>2, FS_Singleton
  <2> QED  BY <2>5, <2>6
<1>10. CASE x \notin InLog(c)
  <2>1. Logged(c, n) = {}
    BY <1>7, <1>8, <1>10
  <2>2. PICK s \in DOMAIN S : x \in Ids(S[s])
    BY <1>1, <1>2, <1>10
  <2>3. PICK i \in 1..Len(S[s]) : Identity(S[s][i]) = x
    BY <2>2 DEF Ids
  <2>4. ASSUME NEW t \in DOMAIN S, NEW j \in 1..Len(S[t]), Identity(S[t][j]) = x
        PROVE  t = s /\ j = i
    <3>1. x \in Ids(S[t])
      BY <2>4 DEF Ids
    <3>2. t = s
      BY <1>1, <2>2, <3>1
    <3> QED  BY <1>1, <2>3, <2>4, <3>2 DEF Once
  <2>5. Kept(c, n) = {<<s, i>>}
    BY <1>6, <2>3, <2>4
  <2>6. Cardinality(Kept(c, n)) = 1
    BY <2>5, FS_Singleton
  <2>7. Cardinality(Logged(c, n)) = 0
    BY <2>1, FS_EmptySet
  <2> QED  BY <2>6, <2>7
<1> QED
  BY <1>9, <1>10

\* The books are right after every step of every handler and block, refused and torn
\* ones included (updateChangeSetToAllUser, addChangeSetToLocal,
\* addChangeSetToUndoAndRedo, addNewChangeSet, the text view's input, undo and redo).
THEOREM LedgerInvariant == "early" \notin Freedoms => (Spec => []LedgerInv)
<1> SUFFICES ASSUME "early" \notin Freedoms  PROVE Spec => []LedgerInv
  OBVIOUS
<1>1. Init => LedgerInv
  BY LedgerInitially
<1>2. LedgerInv /\ [Next]_vars => LedgerInv'
  BY NextKeepsLedger
<1> QED
  BY <1>1, <1>2, PTL DEF Spec

\* So no swap of a stack, refused broadcast or return of a change set loses an operation
\* or repeats one.
THEOREM LedgerCorrect == "early" \notin Freedoms => (Spec => []NothingLost)
<1> SUFFICES ASSUME "early" \notin Freedoms  PROVE Spec => []NothingLost
  OBVIOUS
<1>1. Spec => []LedgerInv
  BY LedgerInvariant
<1> QED
  BY <1>1, LedgerFollows, PTL

-----------------------------------------------------------------------------
(* The order of a change set.                                              *)

\* The operation IDs of a sequence ascend and lie below n.
Ascending(ops) == \A i, j \in 1..Len(ops) : i < j => ops[i].operationID < ops[j].operationID

Below(ops, n) == \A i \in 1..Len(ops) : ops[i].operationID < n

\* No change set of keystrokes comes back, because it is only taken in the session,
\* where none is refused.
NoReturn(c) ==
  /\ local[c] # << >> => member[c]
  /\ timer[c] = "taken" => member[c]
  /\ \A i \in 1..Len(stackQ[c]) : stackQ[c][i].kind # "local"

SortedInv ==
  /\ LedgerInv
  /\ \A c \in Clients :
       /\ NoReturn(c)
       /\ Ascending(local[c]) /\ Below(local[c], nextID[c])
       /\ Ascending(batch[c])

LEMMA AscendingAppend ==
  ASSUME NEW s \in Seq(Ops), Ascending(s), NEW op, Below(s, op.operationID),
         NEW n, n = op.operationID + 1, op.operationID \in Nat
  PROVE  Ascending(Append(s, op)) /\ Below(Append(s, op), n)
<1>1. /\ Len(s) \in Nat /\ Len(Append(s, op)) = Len(s) + 1
      /\ \A i \in 1..Len(s) : Append(s, op)[i] = s[i]
      /\ Append(s, op)[Len(s) + 1] = op
  BY Appended
<1>2. \A i \in 1..Len(s) : s[i].operationID \in Nat
  <2> SUFFICES ASSUME NEW i \in 1..Len(s)  PROVE s[i].operationID \in Nat
    OBVIOUS
  <2>1. s[i] \in Ops
    BY ElementOfSeq
  <2> QED  BY <2>1 DEF Ops, Operations
<1>3. ASSUME NEW i \in 1..(Len(s) + 1), NEW j \in 1..(Len(s) + 1), i < j
      PROVE  Append(s, op)[i].operationID < Append(s, op)[j].operationID
  <2>1. i \in 1..Len(s)
    BY <1>1, <1>3
  <2>2. CASE j \in 1..Len(s)
    BY <1>1, <1>3, <2>1, <2>2 DEF Ascending
  <2>3. CASE j = Len(s) + 1
    BY <1>1, <2>1, <2>3 DEF Below
  <2> QED  BY <1>1, <2>2, <2>3
<1>4. ASSUME NEW i \in 1..(Len(s) + 1)
      PROVE  Append(s, op)[i].operationID < n
  <2>1. CASE i \in 1..Len(s)
    <3>1. Append(s, op)[i].operationID < op.operationID /\ s[i].operationID \in Nat
      BY <1>1, <1>2, <2>1 DEF Below
    <3> QED  BY <1>1, <2>1, <3>1
  <2>2. CASE i = Len(s) + 1
    BY <1>1, <2>2
  <2> QED  BY <1>1, <2>1, <2>2
<1> QED
  BY <1>1, <1>3, <1>4 DEF Ascending, Below

\* Changing other fields changes neither.
LEMMA AscendingCopy ==
  ASSUME NEW s \in Seq(Ops), NEW t, Len(t) = Len(s),
         \A i \in 1..Len(s) : t[i].operationID = s[i].operationID
  PROVE  /\ Ascending(s) => Ascending(t)
         /\ \A n : Below(s, n) => Below(t, n)
BY DEF Ascending, Below

LEMMA AscendingEmpty == Ascending(<< >>) /\ \A n : Below(<< >>, n)
BY EmptySeq DEF Ascending, Below

\* What a step leaves to show, of the one device whose stacks it touches.
LEMMA SortedKept ==
  ASSUME SortedInv, LedgerInv', NEW c \in Clients,
         \A d \in Clients : d # c =>
           /\ local'[d] = local[d] /\ batch'[d] = batch[d] /\ timer'[d] = timer[d]
           /\ stackQ'[d] = stackQ[d] /\ nextID'[d] = nextID[d]
           /\ member[d] => member'[d],
         NoReturn(c)', Ascending(local'[c]), Below(local'[c], nextID'[c]), Ascending(batch'[c])
  PROVE  SortedInv'
<1>1. ASSUME NEW d \in Clients, d # c
      PROVE  /\ NoReturn(d)'
             /\ Ascending(local'[d]) /\ Below(local'[d], nextID'[d])
             /\ Ascending(batch'[d])
  BY <1>1 DEF SortedInv, NoReturn
<1> QED
  BY <1>1 DEF SortedInv

\* A block put behind the queue.
LEMMA NoReturnQueued ==
  ASSUME TypeOK, NEW c \in Clients, NEW ops \in Seq(Ops), DispatchBack(c, "undoRedo", ops),
         \A i \in 1..Len(stackQ[c]) : stackQ[c][i].kind # "local"
  PROVE  /\ \A i \in 1..Len(stackQ'[c]) : stackQ'[c][i].kind # "local"
         /\ \A d \in Clients : d # c => stackQ'[d] = stackQ[d]
<1> DEFINE block == [kind |-> "undoRedo", at |-> 0, ops |-> ops]
           queue == stackQ[c]
<1>1. stackQ \in [Clients -> Seq(Blocks)] /\ queue \in Seq(Blocks) /\ block \in Blocks
      /\ block.kind # "local"
  BY DEF TypeOK, Blocks
<1>2. \/ stackQ' = [stackQ EXCEPT ![c] = Append(queue, block)]
      \/ stackQ' = stackQ
  BY DEF DispatchBack
<1> HIDE DEF block
<1>3. CASE stackQ' = [stackQ EXCEPT ![c] = Append(queue, block)]
  <2>1. stackQ'[c] = Append(queue, block)
    BY <1>1, <1>3
  <2> HIDE DEF queue
  <2>2. /\ Len(queue) \in Nat /\ Len(Append(queue, block)) = Len(queue) + 1
        /\ \A i \in 1..Len(queue) : Append(queue, block)[i] = queue[i]
        /\ Append(queue, block)[Len(queue) + 1] = block
    BY <1>1, LenProperties, AppendProperties
  <2>3. 1..(Len(queue) + 1) = 1..Len(queue) \cup {Len(queue) + 1}
    BY <2>2
  <2>4. \A i \in 1..Len(queue) : queue[i].kind # "local"
    BY DEF queue
  <2> QED  BY <1>1, <1>3, <2>1, <2>2, <2>3, <2>4
<1>4. CASE stackQ' = stackQ
  BY <1>4
<1> QED
  BY <1>2, <1>3, <1>4

LEMMA NextSorted ==
  ("early" \notin Freedoms /\ "fail" \notin Freedoms) /\ SortedInv /\ [Next]_vars => SortedInv'
<1> SUFFICES ASSUME "early" \notin Freedoms, "fail" \notin Freedoms, SortedInv, [Next]_vars
             PROVE  SortedInv'
  OBVIOUS
<1>1. LedgerInv'
  BY NextKeepsLedger DEF SortedInv
<1>2. /\ TypeOK /\ LedgerInv
      /\ local \in [Clients -> Seq(Ops)] /\ batch \in [Clients -> Seq(Ops)]
      /\ stackQ \in [Clients -> Seq(Blocks)] /\ nextID \in [Clients -> Nat]
      /\ timer \in [Clients -> TimerSteps] /\ member \in [Clients -> BOOLEAN]
  BY DEF SortedInv, LedgerInv, DeliveryInv, TypeInv, TypeOK
<1>3. ASSUME NEW c \in Clients
      PROVE  /\ NoReturn(c) /\ Ascending(local[c]) /\ Below(local[c], nextID[c])
             /\ Ascending(batch[c]) /\ local[c] \in Seq(Ops) /\ nextID[c] \in Nat
             /\ stackQ[c] \in Seq(Blocks)
  BY <1>2, <1>3 DEF SortedInv
<1>4. ASSUME NEW c \in Clients, Type(c)
      PROVE  SortedInv'
  <2>1. member[c]
    BY <1>4 DEF Type
  <2>2. PICK range, put : ShouldChangeText(c, range, put)
    BY <1>4 DEF Type
  <2> DEFINE op == NewOperation(c, range, Substring(text[c], range), put)
  <2>3. op.operationID = nextID[c]
    BY DEF NewOperation
  <2>4. /\ local' = [local EXCEPT ![c] = Append(@, op)]
        /\ nextID' = [nextID EXCEPT ![c] = @ + 1]
        /\ UNCHANGED <<member, batch, timer, stackQ>>
    BY <2>2 DEF ShouldChangeText, threads
  <2> HIDE DEF op
  <2>5. local'[c] = Append(local[c], op) /\ nextID'[c] = op.operationID + 1
    BY <1>2, <2>3, <2>4
  <2>6. Ascending(local'[c]) /\ Below(local'[c], nextID'[c])
    BY <1>3, <2>3, <2>5, AscendingAppend
  <2>7. NoReturn(c)'
    BY <1>3, <2>1, <2>4 DEF NoReturn
  <2> QED  BY <1>1, <1>2, <1>3, <2>4, <2>6, <2>7, SortedKept
<1>5. ASSUME NEW c \in Clients, UndoAct(c) \/ RedoAct(c)
      PROVE  SortedInv'
  <2>1. /\ nextID' = [nextID EXCEPT ![c] = @ + 1]
        /\ UNCHANGED <<member, local, batch, timer, stackQ>>
    BY <1>5 DEF UndoAct, RedoAct, threads
  <2>2. nextID'[c] = nextID[c] + 1
    BY <1>2, <2>1
  <2>3. ASSUME NEW i \in 1..Len(local[c])
        PROVE  local[c][i].operationID < nextID[c] + 1
    <3>1. local[c][i] \in Ops /\ local[c][i].operationID < nextID[c]
      BY <1>3, <2>3, ElementOfSeq DEF Below
    <3>2. local[c][i].operationID \in Nat
      BY <3>1 DEF Ops, Operations
    <3> QED  BY <1>3, <3>1, <3>2
  <2>4. Below(local'[c], nextID'[c])
    BY <2>1, <2>2, <2>3 DEF Below
  <2>5. NoReturn(c)'
    BY <1>3, <2>1 DEF NoReturn
  <2> QED  BY <1>1, <1>2, <1>3, <2>1, <2>4, <2>5, SortedKept
<1>6. ASSUME UNCHANGED <<local, batch, timer, stackQ, nextID>>, NEW c \in Clients,
             member' = member \/ member' = [member EXCEPT ![c] = TRUE]
      PROVE  SortedInv'
  <2>1. \A d \in Clients : member[d] => member'[d]
    BY <1>2, <1>6
  <2>2. NoReturn(c)'
    BY <1>3, <1>6, <2>1 DEF NoReturn
  <2> QED  BY <1>1, <1>3, <1>6, <2>1, <2>2, SortedKept
<1>7. ASSUME NEW c \in Clients, GetLocalChangeSet(c)
      PROVE  SortedInv'
  <2> DEFINE e(i) == [local[c][i] EXCEPT !.referID = Refer(c)]
             ops == [i \in DOMAIN local[c] |-> e(i)]
             next == IF local[c] = << >> THEN "undoRedo" ELSE "taken"
  <2>1. /\ batch' = [batch EXCEPT ![c] = ops]
        /\ local' = [local EXCEPT ![c] = << >>]
        /\ timer' = [timer EXCEPT ![c] = next]
        /\ UNCHANGED <<member, stackQ, nextID>>
    BY <1>7 DEF GetLocalChangeSet
  <2>2. Ascending(ops)
    <3>1. \A i \in 1..Len(local[c]) : e(i).operationID = local[c][i].operationID
      <4> SUFFICES ASSUME NEW i \in 1..Len(local[c])
                   PROVE  e(i).operationID = local[c][i].operationID
        OBVIOUS
      <4>1. local[c][i] \in Ops
        BY <1>3, ElementOfSeq
      <4> QED  BY <4>1 DEF Ops, Operations
    <3> HIDE DEF e
    <3>2. Len(ops) = Len(local[c]) /\ \A i \in 1..Len(local[c]) : ops[i] = e(i)
      BY <1>3
    <3> HIDE DEF ops
    <3> QED  BY <1>3, <3>1, <3>2, AscendingCopy
  <2> HIDE DEF ops
  <2>3. batch'[c] = ops /\ local'[c] = << >> /\ timer'[c] = next
        /\ \A d \in Clients : d # c =>
             local'[d] = local[d] /\ batch'[d] = batch[d] /\ timer'[d] = timer[d]
    BY <1>2, <2>1
  <2>4. NoReturn(c)'
    BY <1>3, <2>1, <2>3 DEF NoReturn
  <2> HIDE DEF next
  <2> QED  BY <1>1, <2>1, <2>2, <2>3, <2>4, AscendingEmpty, SortedKept
<1>8. ASSUME NEW c \in Clients, BroadcastLocal(c) \/ PutIntoSendStack(c)
      PROVE  SortedInv'
  <2>1. /\ timer'[c] \in {"sent", "undoRedo"}
        /\ \A d \in Clients : d # c => timer'[d] = timer[d] /\ batch'[d] = batch[d]
        /\ batch'[c] = batch[c] \/ batch'[c] = << >>
        /\ UNCHANGED <<member, local, stackQ, nextID>>
    BY <1>2, <1>8 DEF BroadcastLocal, PutIntoSendStack, stacks
  <2>2. NoReturn(c)'
    BY <1>3, <2>1 DEF NoReturn
  <2> QED  BY <1>1, <1>3, <2>1, <2>2, AscendingEmpty, SortedKept
<1>9. ASSUME NEW c \in Clients, RefuseLocal(c)
      PROVE  SortedInv'
  BY <1>3, <1>9 DEF RefuseLocal, Refusable, NoReturn
<1>10. ASSUME NEW c \in Clients, SendUndoAndRedo(c)
       PROVE  SortedInv'
  <2>1. /\ timer' = [timer EXCEPT ![c] = "idle"]
        /\ UNCHANGED <<member, local, batch, nextID>>
        /\ \/ UNCHANGED stackQ
           \/ DispatchBack(c, "undoRedo", undo[c] \o redo[c])
    BY <1>10 DEF SendUndoAndRedo
  <2>2. timer'[c] = "idle" /\ \A d \in Clients : d # c => timer'[d] = timer[d]
    BY <1>2, <2>1
  <2>3. undo[c] \o redo[c] \in Seq(Ops)
    BY <1>2, ConcatProperties DEF TypeOK
  <2>4. /\ \A i \in 1..Len(stackQ'[c]) : stackQ'[c][i].kind # "local"
        /\ \A d \in Clients : d # c => stackQ'[d] = stackQ[d]
    <3>1. \A i \in 1..Len(stackQ[c]) : stackQ[c][i].kind # "local"
      BY <1>3 DEF NoReturn
    <3> QED  BY <1>2, <2>1, <2>3, <3>1, NoReturnQueued
  <2>5. NoReturn(c)'
    BY <1>3, <2>1, <2>2, <2>4 DEF NoReturn
  <2> QED  BY <1>1, <1>3, <2>1, <2>2, <2>4, <2>5, SortedKept
<1>11. ASSUME NEW c \in Clients, ReceivedEvent(c)
       PROVE  SortedInv'
  <2>1. PICK last \in (received[c] + 1)..Len(log) :
          stackQ' = [stackQ EXCEPT ![c] =
            stackQ[c] \o [i \in 1..(last - received[c]) |->
                            [kind |-> "new", at |-> received[c] + i, ops |-> << >>]]]
    BY <1>11 DEF ReceivedEvent
  <2>2. UNCHANGED <<member, local, batch, timer, nextID>>
    BY <1>11 DEF ReceivedEvent, stacks
  <2> DEFINE n == last - received[c]
             e(i) == [kind |-> "new", at |-> received[c] + i, ops |-> << >>]
             event == [i \in 1..n |-> e(i)]
             queue == stackQ[c]
  <2>3. received[c] \in Nat /\ n \in Nat
    <3>1. received[c] \in Nat /\ log \in Seq([op : Ops, order : Nat])
      BY <1>2 DEF TypeOK
    <3>2. Len(log) \in Nat
      BY <3>1, LenProperties
    <3> QED  BY <3>1, <3>2
  <2>4. ASSUME NEW i \in 1..n
        PROVE  e(i) \in Blocks /\ e(i).kind = "new"
    <3>1. received[c] + i \in Nat
      <4> HIDE DEF n
      <4> QED  BY <2>3
    <3>2. << >> \in Seq(Ops)
      BY EmptySeq
    <3> QED  BY <3>1, <3>2 DEF Blocks
  <2>5. stackQ' = [stackQ EXCEPT ![c] = queue \o event]
    BY <2>1
  <2> HIDE DEF n, e
  <2>6. event \in Seq(Blocks) /\ Len(event) = n /\ \A i \in 1..n : event[i] = e(i)
    <3>1. event \in Seq(Blocks)
      BY <2>3, <2>4, IsASeq
    <3> QED  BY <2>3, <3>1, LenProperties
  <2> HIDE DEF event
  <2>7. /\ Len(queue) \in Nat /\ Len(queue \o event) = Len(queue) + n
        /\ \A i \in 1..(Len(queue) + n) :
             (queue \o event)[i] = IF i <= Len(queue) THEN queue[i] ELSE event[i - Len(queue)]
    <3>1. queue \in Seq(Blocks)
      BY <1>2 DEF TypeOK
    <3> HIDE DEF queue
    <3>2. /\ Len(queue \o event) = Len(queue) + Len(event)
          /\ \A i \in 1..(Len(queue) + Len(event)) :
               (queue \o event)[i] = IF i <= Len(queue) THEN queue[i] ELSE event[i - Len(queue)]
      BY <2>6, <3>1, ConcatProperties
    <3>3. Len(queue) \in Nat /\ Len(event) = n
      BY <2>6, <3>1, LenProperties
    <3> QED  BY <3>2, <3>3
  <2>8. \A i \in 1..Len(queue) : queue[i].kind # "local"
    BY <1>3 DEF NoReturn
  <2> HIDE DEF queue
  <2>9. ASSUME NEW i \in 1..Len(queue \o event)
        PROVE  (queue \o event)[i].kind # "local"
    <3>1. CASE i <= Len(queue)
      BY <2>3, <2>7, <2>8, <3>1
    <3>2. CASE ~(i <= Len(queue))
      <4>1. i - Len(queue) \in 1..n
        BY <2>3, <2>7, <3>2
      <4>2. (queue \o event)[i] = event[i - Len(queue)]
        BY <2>3, <2>7, <3>2
      <4> QED  BY <2>4, <2>6, <4>1, <4>2
    <3> QED  BY <3>1, <3>2
  <2>10. stackQ'[c] = queue \o event /\ \A d \in Clients : d # c => stackQ'[d] = stackQ[d]
    BY <1>2, <2>5 DEF queue
  <2>11. NoReturn(c)'
    BY <1>3, <2>2, <2>9, <2>10 DEF NoReturn
  <2> QED  BY <1>1, <1>3, <2>2, <2>10, <2>11, SortedKept
<1>12. ASSUME NEW c \in Clients, StackQueue(c)
       PROVE  SortedInv'
  <2> DEFINE queue == stackQ[c]
  <2>1. /\ queue # << >>
        /\ stackQ' = [stackQ EXCEPT ![c] = Tail(queue)]
        /\ UNCHANGED <<member, batch, timer, nextID>>
    BY <1>12 DEF StackQueue, AddNewOperation, AddBack
  <2>2. stackQ'[c] = Tail(queue) /\ \A d \in Clients : d # c => stackQ'[d] = stackQ[d]
    BY <1>2, <2>1
  <2>3. \A i \in 1..Len(queue) : queue[i].kind # "local"
    BY <1>3 DEF NoReturn
  <2>4. /\ \A i \in 1..Len(Tail(queue)) : Tail(queue)[i].kind # "local"
        /\ Head(queue).kind # "local"
    <3>1. queue \in Seq(Blocks)
      BY <1>3
    <3> HIDE DEF queue
    <3>2. /\ Len(queue) \in Nat /\ Len(queue) # 0 /\ Len(Tail(queue)) = Len(queue) - 1
          /\ \A i \in 1..Len(Tail(queue)) : Tail(queue)[i] = queue[i + 1]
          /\ Head(queue) = queue[1]
      BY <2>1, <3>1, LenProperties, HeadTailProperties, EmptySeq
    <3>3. 1 \in 1..Len(queue) /\ \A i \in 1..Len(Tail(queue)) : i + 1 \in 1..Len(queue)
      BY <3>2
    <3> QED  BY <2>3, <3>2, <3>3
  <2>5. /\ Ascending(local'[c]) /\ Below(local'[c], nextID[c])
        /\ local'[c] # << >> => local[c] # << >>
        /\ \A d \in Clients : d # c => local'[d] = local[d]
    <3>1. CASE UNCHANGED local
      BY <1>3, <3>1
    <3>2. ASSUME NEW shown, local' = [local EXCEPT ![c] = UpdateStackWithOperation(local[c], shown)]
          PROVE  /\ Ascending(local'[c]) /\ Below(local'[c], nextID[c])
                 /\ local'[c] # << >> => local[c] # << >>
                 /\ \A d \in Clients : d # c => local'[d] = local[d]
      <4> DEFINE e(i) == [local[c][i] EXCEPT !.range =
                            UpdateRange(local[c][i].range, shown, local[c][i].participantID)]
                 moved == UpdateStackWithOperation(local[c], shown)
      <4>1. \A i \in 1..Len(local[c]) : e(i).operationID = local[c][i].operationID
        <5> SUFFICES ASSUME NEW i \in 1..Len(local[c])
                     PROVE  e(i).operationID = local[c][i].operationID
          OBVIOUS
        <5>1. local[c][i] \in Ops
          BY <1>3, ElementOfSeq
        <5> QED  BY <5>1 DEF Ops, Operations
      <4>2. moved = [i \in 1..Len(local[c]) |-> e(i)]
        BY <1>3 DEF UpdateStackWithOperation
      <4>3. local[c] = << >> => moved = << >>
        BY <4>2, EmptySeq
      <4> HIDE DEF e
      <4>4. Len(moved) = Len(local[c]) /\ \A i \in 1..Len(local[c]) : moved[i] = e(i)
        BY <1>3, <4>2, LenProperties
      <4>5. local'[c] = moved /\ \A d \in Clients : d # c => local'[d] = local[d]
        BY <1>2, <3>2
      <4> HIDE DEF moved
      <4> QED  BY <1>3, <4>1, <4>3, <4>4, <4>5, AscendingCopy
    <3>3. CASE AddNewOperation(c)
      BY <3>1, <3>2, <3>3 DEF AddNewOperation, UpdateOperationFromSendToGlobal, AddNewGlobalOperation
    <3>4. CASE AddBack(c)
      BY <2>4, <3>1, <3>4 DEF AddBack
    <3> QED  BY <1>12, <3>3, <3>4 DEF StackQueue
  <2> HIDE DEF queue
  <2>6. NoReturn(c)'
    BY <1>3, <2>1, <2>2, <2>4, <2>5 DEF NoReturn
  <2> QED  BY <1>1, <1>3, <2>1, <2>2, <2>5, <2>6, SortedKept
<1>13. ASSUME NEW c \in Clients, CreateSess(c) \/ JoinSess(c)
       PROVE  SortedInv'
  <2>1. /\ member' = [member EXCEPT ![c] = TRUE]
        /\ UNCHANGED <<local, batch, timer, stackQ, nextID>>
    BY <1>13 DEF CreateSess, JoinSess, stacks, threads
  <2> QED  BY <1>6, <2>1
<1>14. ASSUME NEW c \in Clients, UpdateInputView(c)
       PROVE  SortedInv'
  <2>1. UNCHANGED <<member, local, batch, timer, stackQ, nextID>>
    BY <1>14 DEF UpdateInputView, stacks
  <2> QED  BY <1>6, <2>1
<1>15. CASE UNCHANGED vars
  <2>1. UNCHANGED <<member, local, batch, timer, stackQ, nextID>>
    BY <1>15 DEF vars, stacks, threads
  <2> QED  BY <1>1, <2>1 DEF SortedInv, NoReturn
<1> QED
  BY <1>4, <1>5, <1>7, <1>8, <1>9, <1>10, <1>11, <1>12, <1>13, <1>14, <1>15
  DEF Next, User, Timer

LEMMA SortedInitially == Init => SortedInv
<1> SUFFICES ASSUME Init, NEW c \in Clients
             PROVE  /\ NoReturn(c) /\ Ascending(local[c]) /\ Below(local[c], nextID[c])
                    /\ Ascending(batch[c])
  BY LedgerInitially DEF SortedInv
<1>1. /\ local[c] = << >> /\ batch[c] = << >> /\ stackQ[c] = << >> /\ timer[c] = "idle"
  BY DEF Init
<1>2. Len(stackQ[c]) = 0
  BY <1>1, EmptySeq
<1> QED
  BY <1>1, <1>2, AscendingEmpty DEF NoReturn

-----------------------------------------------------------------------------
(* The line of operations on their way to the session.                     *)

\* op is the one that device c, for state s, gave the operation ID n.
IsOp(op, c, s, n) == op.participantID = c /\ op.state = s /\ op.operationID = n

\* What a sequence of operations adds to the line of c in state s: operation IDs, and
\* which of them is in front of which.
RowOf(ops, c, s) ==
  [ids   |-> {n \in Nat : \E i \in 1..Len(ops) : IsOp(ops[i], c, s, n)},
   pairs |-> {p \in Nat \X Nat :
                \E i, j \in 1..Len(ops) :
                  i < j /\ IsOp(ops[i], c, s, p[1]) /\ IsOp(ops[j], c, s, p[2])}]

Rows == {r \in [ids : SUBSET Nat, pairs : SUBSET (Nat \X Nat)] : r.pairs \subseteq r.ids \X r.ids}

\* Two rows, the second behind the first.
Behind(x, y) ==
  [ids |-> x.ids \cup y.ids, pairs |-> x.pairs \cup y.pairs \cup (x.ids \X y.ids)]

NoOne == [ids |-> {}, pairs |-> {}]

\* The rows of a sequence of sequences, one behind the other.
LineRowOf(line, c, s) ==
  [ids   |-> {n \in Nat : \E i \in 1..Len(line) : n \in RowOf(line[i], c, s).ids},
   pairs |-> {p \in Nat \X Nat :
                \/ \E i \in 1..Len(line) : p \in RowOf(line[i], c, s).pairs
                \/ \E i, j \in 1..Len(line) :
                     /\ i < j
                     /\ p[1] \in RowOf(line[i], c, s).ids
                     /\ p[2] \in RowOf(line[j], c, s).ids}]

\* The rows of the blocks of a stack queue: the last one comes first.
QueueRow(queue, c, s) ==
  [ids   |-> {n \in Nat : \E i \in 1..Len(queue) : n \in RowOf(queue[i].ops, c, s).ids},
   pairs |-> {p \in Nat \X Nat :
                \/ \E i \in 1..Len(queue) : p \in RowOf(queue[i].ops, c, s).pairs
                \/ \E i, j \in 1..Len(queue) :
                     /\ i < j
                     /\ p[1] \in RowOf(queue[j].ops, c, s).ids
                     /\ p[2] \in RowOf(queue[i].ops, c, s).ids}]

LEMMA RowsAreRows ==
  /\ \A ops, c, s : RowOf(ops, c, s) \in Rows
  /\ \A line, c, s : LineRowOf(line, c, s) \in Rows
  /\ \A queue, c, s : QueueRow(queue, c, s) \in Rows
<1>1. ASSUME NEW ops, NEW c, NEW s
      PROVE  RowOf(ops, c, s) \in Rows
  BY DEF RowOf, Rows
<1>2. ASSUME NEW line, NEW c, NEW s
      PROVE  LineRowOf(line, c, s) \in Rows
  <2>1. \A i : RowOf(line[i], c, s).pairs \subseteq RowOf(line[i], c, s).ids \X RowOf(line[i], c, s).ids
    BY <1>1 DEF Rows
  <2> QED  BY <2>1 DEF LineRowOf, Rows
<1>3. ASSUME NEW queue, NEW c, NEW s
      PROVE  QueueRow(queue, c, s) \in Rows
  <2>1. \A i : RowOf(queue[i].ops, c, s).pairs
                 \subseteq RowOf(queue[i].ops, c, s).ids \X RowOf(queue[i].ops, c, s).ids
    BY <1>1 DEF Rows
  <2> QED  BY <2>1 DEF QueueRow, Rows
<1> QED
  BY <1>1, <1>2, <1>3

\* Rows are equal that have the same.
LEMMA RowsEqual ==
  ASSUME NEW x \in Rows, NEW y \in Rows,
         \A n \in Nat : n \in x.ids <=> n \in y.ids,
         \A m, n \in Nat : <<m, n>> \in x.pairs <=> <<m, n>> \in y.pairs
  PROVE  x = y
<1>1. x.ids = y.ids
  BY DEF Rows
<1>2. x.pairs = y.pairs
  BY DEF Rows
<1> QED
  BY <1>1, <1>2 DEF Rows

LEMMA BehindIsRow ==
  ASSUME NEW x \in Rows, NEW y \in Rows
  PROVE  Behind(x, y) \in Rows
BY DEF Rows, Behind

LEMMA BehindAssociates ==
  ASSUME NEW x \in Rows, NEW y \in Rows, NEW z \in Rows
  PROVE  Behind(x, Behind(y, z)) = Behind(Behind(x, y), z)
<1> DEFINE l == Behind(x, Behind(y, z))
           r == Behind(Behind(x, y), z)
<1>1. l \in Rows /\ r \in Rows
  BY BehindIsRow
<1>2. \A n \in Nat : n \in l.ids <=> n \in r.ids
  BY DEF Behind
<1>3. \A m, n \in Nat : <<m, n>> \in l.pairs <=> <<m, n>> \in r.pairs
  BY DEF Behind
<1> HIDE DEF l, r
<1>4. l = r
  BY <1>1, <1>2, <1>3, RowsEqual
<1> QED
  BY <1>4 DEF l, r

LEMMA BehindNoOne ==
  /\ NoOne \in Rows
  /\ \A x \in Rows : Behind(NoOne, x) = x /\ Behind(x, NoOne) = x
<1>1. NoOne \in Rows
  BY DEF NoOne, Rows
<1>2. ASSUME NEW x \in Rows
      PROVE  Behind(NoOne, x) = x /\ Behind(x, NoOne) = x
  <2>1. \A m, n \in Nat : /\ n \in Behind(NoOne, x).ids <=> n \in x.ids
                          /\ n \in Behind(x, NoOne).ids <=> n \in x.ids
                          /\ <<m, n>> \in Behind(NoOne, x).pairs <=> <<m, n>> \in x.pairs
                          /\ <<m, n>> \in Behind(x, NoOne).pairs <=> <<m, n>> \in x.pairs
    BY DEF Behind, NoOne
  <2> QED  BY <1>1, <2>1, BehindIsRow, RowsEqual
<1> QED
  BY <1>1, <1>2

\* Sequences without an operation of c in state s add nothing.
LEMMA RowElsewhere ==
  ASSUME NEW ops, NEW c, NEW s,
         \A i \in 1..Len(ops) : ~(ops[i].participantID = c /\ ops[i].state = s)
  PROVE  RowOf(ops, c, s) = NoOne
BY DEF RowOf, IsOp, NoOne

LEMMA RowOfEmpty == \A c, s : RowOf(<< >>, c, s) = NoOne
<1>1. Len(<< >>) = 0
  BY EmptySeq
<1> QED
  BY <1>1, RowElsewhere

\* Changing other fields changes no row.
LEMMA RowOfCopy ==
  ASSUME NEW s, NEW t, Len(t) = Len(s),
         \A i \in 1..Len(s) : /\ t[i].participantID = s[i].participantID
                              /\ t[i].state = s[i].state
                              /\ t[i].operationID = s[i].operationID
  PROVE  \A c, state : RowOf(t, c, state) = RowOf(s, c, state)
<1> SUFFICES ASSUME NEW c, NEW state  PROVE RowOf(t, c, state) = RowOf(s, c, state)
  OBVIOUS
<1>1. \A i \in 1..Len(s) : \A n : IsOp(t[i], c, state, n) <=> IsOp(s[i], c, state, n)
  BY DEF IsOp
<1>2. /\ \A n \in Nat : n \in RowOf(t, c, state).ids <=> n \in RowOf(s, c, state).ids
      /\ \A m, n \in Nat :
           <<m, n>> \in RowOf(t, c, state).pairs <=> <<m, n>> \in RowOf(s, c, state).pairs
  BY <1>1 DEF RowOf
<1> QED
  BY <1>2, RowsAreRows, RowsEqual

LEMMA RowOfConcat ==
  ASSUME NEW s \in Seq(Ops), NEW t \in Seq(Ops), NEW c, NEW state
  PROVE  RowOf(s \o t, c, state) = Behind(RowOf(s, c, state), RowOf(t, c, state))
<1> DEFINE st == s \o t
           m == Len(s)
           k == Len(t)
           x == RowOf(s, c, state)
           y == RowOf(t, c, state)
           Has(op, n) == IsOp(op, c, state, n)
<1>1. /\ m \in Nat /\ k \in Nat
      /\ Len(st) = m + k
      /\ \A i \in 1..(m + k) : st[i] = IF i <= m THEN s[i] ELSE t[i - m]
  BY ConcatProperties, LenProperties
<1>2. /\ \A n \in Nat : n \in x.ids <=> \E i \in 1..m : Has(s[i], n)
      /\ \A n \in Nat : n \in y.ids <=> \E i \in 1..k : Has(t[i], n)
      /\ \A a, b \in Nat : <<a, b>> \in x.pairs <=>
           \E i, j \in 1..m : i < j /\ Has(s[i], a) /\ Has(s[j], b)
      /\ \A a, b \in Nat : <<a, b>> \in y.pairs <=>
           \E i, j \in 1..k : i < j /\ Has(t[i], a) /\ Has(t[j], b)
      /\ \A n \in Nat : n \in RowOf(st, c, state).ids <=> \E i \in 1..Len(st) : Has(st[i], n)
      /\ \A a, b \in Nat : <<a, b>> \in RowOf(st, c, state).pairs <=>
           \E i, j \in 1..Len(st) : i < j /\ Has(st[i], a) /\ Has(st[j], b)
  BY DEF RowOf
<1> HIDE DEF st, m, k, x, y, Has
<1>3. /\ \A i \in 1..m : i \in 1..(m + k) /\ st[i] = s[i]
      /\ \A i \in 1..k : i + m \in 1..(m + k) /\ st[i + m] = t[i]
      /\ \A i \in 1..(m + k) : \/ i \in 1..m /\ st[i] = s[i]
                               \/ i - m \in 1..k /\ st[i] = t[i - m]
  BY <1>1
<1>4. ASSUME NEW n \in Nat
      PROVE  n \in RowOf(st, c, state).ids <=> n \in x.ids \/ n \in y.ids
  <2>1. ASSUME NEW i \in 1..(m + k), Has(st[i], n)
        PROVE  n \in x.ids \/ n \in y.ids
    BY <1>2, <1>3, <2>1
  <2>2. ASSUME n \in x.ids \/ n \in y.ids
        PROVE  \E i \in 1..(m + k) : Has(st[i], n)
    BY <1>2, <1>3, <2>2
  <2> QED  BY <1>1, <1>2, <2>1, <2>2
<1>5. ASSUME NEW a \in Nat, NEW b \in Nat
      PROVE  <<a, b>> \in RowOf(st, c, state).pairs <=>
               \/ <<a, b>> \in x.pairs \/ <<a, b>> \in y.pairs
               \/ a \in x.ids /\ b \in y.ids
  <2>1. ASSUME NEW i \in 1..(m + k), NEW j \in 1..(m + k), i < j, Has(st[i], a), Has(st[j], b)
        PROVE  \/ <<a, b>> \in x.pairs \/ <<a, b>> \in y.pairs
               \/ a \in x.ids /\ b \in y.ids
    <3>1. CASE j \in 1..m /\ st[j] = s[j]
      <4>1. i \in 1..m /\ st[i] = s[i]
        BY <1>1, <1>3, <2>1, <3>1
      <4> QED  BY <1>2, <2>1, <3>1, <4>1
    <3>2. CASE j - m \in 1..k /\ st[j] = t[j - m] /\ i \in 1..m /\ st[i] = s[i]
      BY <1>2, <2>1, <3>2
    <3>3. CASE j - m \in 1..k /\ st[j] = t[j - m] /\ i - m \in 1..k /\ st[i] = t[i - m]
      <4>1. i - m < j - m
        BY <1>1, <2>1
      <4> QED  BY <1>2, <2>1, <3>3, <4>1
    <3> QED  BY <1>3, <3>1, <3>2, <3>3
  <2>2. ASSUME <<a, b>> \in x.pairs
        PROVE  \E i, j \in 1..(m + k) : i < j /\ Has(st[i], a) /\ Has(st[j], b)
    BY <1>2, <1>3, <2>2
  <2>3. ASSUME <<a, b>> \in y.pairs
        PROVE  \E i, j \in 1..(m + k) : i < j /\ Has(st[i], a) /\ Has(st[j], b)
    <3>1. PICK i \in 1..k, j \in 1..k : i < j /\ Has(t[i], a) /\ Has(t[j], b)
      BY <1>2, <2>3
    <3>2. i + m < j + m
      BY <1>1, <3>1
    <3> QED  BY <1>3, <3>1, <3>2
  <2>4. ASSUME a \in x.ids, b \in y.ids
        PROVE  \E i, j \in 1..(m + k) : i < j /\ Has(st[i], a) /\ Has(st[j], b)
    <3>1. PICK i \in 1..m : Has(s[i], a)
      BY <1>2, <2>4
    <3>2. PICK j \in 1..k : Has(t[j], b)
      BY <1>2, <2>4
    <3>3. i < j + m
      BY <1>1
    <3> QED  BY <1>3, <3>1, <3>2, <3>3
  <2> QED  BY <1>1, <1>2, <2>1, <2>2, <2>3, <2>4
<1>6. x \in Rows /\ y \in Rows /\ RowOf(st, c, state) \in Rows
  BY RowsAreRows DEF x, y
<1>7. /\ \A n \in Nat : n \in Behind(x, y).ids <=> n \in x.ids \/ n \in y.ids
      /\ \A a, b \in Nat : <<a, b>> \in Behind(x, y).pairs <=>
           \/ <<a, b>> \in x.pairs \/ <<a, b>> \in y.pairs
           \/ a \in x.ids /\ b \in y.ids
  BY DEF Behind
<1>8. RowOf(st, c, state) = Behind(x, y)
  BY <1>4, <1>5, <1>6, <1>7, BehindIsRow, RowsEqual
<1> QED
  BY <1>8 DEF st, x, y

\* ... and so are those of sequences of sequences.
LEMMA LineRowOfConcat ==
  ASSUME NEW S, NEW s \in Seq(S), NEW t \in Seq(S), NEW c, NEW state
  PROVE  LineRowOf(s \o t, c, state) = Behind(LineRowOf(s, c, state), LineRowOf(t, c, state))
<1> DEFINE st == s \o t
           m == Len(s)
           k == Len(t)
           x == LineRowOf(s, c, state)
           y == LineRowOf(t, c, state)
           Has(ops, n) == n \in RowOf(ops, c, state).ids
           Both(ops, a, b) == <<a, b>> \in RowOf(ops, c, state).pairs
<1>1. /\ m \in Nat /\ k \in Nat
      /\ Len(st) = m + k
      /\ \A i \in 1..(m + k) : st[i] = IF i <= m THEN s[i] ELSE t[i - m]
  BY ConcatProperties, LenProperties
<1>2. /\ \A n \in Nat : n \in x.ids <=> \E i \in 1..m : Has(s[i], n)
      /\ \A n \in Nat : n \in y.ids <=> \E i \in 1..k : Has(t[i], n)
      /\ \A a, b \in Nat : <<a, b>> \in x.pairs <=>
           \/ \E i \in 1..m : Both(s[i], a, b)
           \/ \E i, j \in 1..m : i < j /\ Has(s[i], a) /\ Has(s[j], b)
      /\ \A a, b \in Nat : <<a, b>> \in y.pairs <=>
           \/ \E i \in 1..k : Both(t[i], a, b)
           \/ \E i, j \in 1..k : i < j /\ Has(t[i], a) /\ Has(t[j], b)
      /\ \A n \in Nat : n \in LineRowOf(st, c, state).ids <=> \E i \in 1..Len(st) : Has(st[i], n)
      /\ \A a, b \in Nat : <<a, b>> \in LineRowOf(st, c, state).pairs <=>
           \/ \E i \in 1..Len(st) : Both(st[i], a, b)
           \/ \E i, j \in 1..Len(st) : i < j /\ Has(st[i], a) /\ Has(st[j], b)
  BY DEF LineRowOf
<1> HIDE DEF st, m, k, x, y, Has, Both
<1>3. /\ \A i \in 1..m : i \in 1..(m + k) /\ st[i] = s[i]
      /\ \A i \in 1..k : i + m \in 1..(m + k) /\ st[i + m] = t[i]
      /\ \A i \in 1..(m + k) : \/ i \in 1..m /\ st[i] = s[i]
                               \/ i - m \in 1..k /\ st[i] = t[i - m]
  BY <1>1
<1>4. ASSUME NEW n \in Nat
      PROVE  n \in LineRowOf(st, c, state).ids <=> n \in x.ids \/ n \in y.ids
  <2>1. ASSUME NEW i \in 1..(m + k), Has(st[i], n)
        PROVE  n \in x.ids \/ n \in y.ids
    BY <1>2, <1>3, <2>1
  <2>2. ASSUME n \in x.ids \/ n \in y.ids
        PROVE  \E i \in 1..(m + k) : Has(st[i], n)
    BY <1>2, <1>3, <2>2
  <2> QED  BY <1>1, <1>2, <2>1, <2>2
<1>5. ASSUME NEW a \in Nat, NEW b \in Nat
      PROVE  <<a, b>> \in LineRowOf(st, c, state).pairs <=>
               \/ <<a, b>> \in x.pairs \/ <<a, b>> \in y.pairs
               \/ a \in x.ids /\ b \in y.ids
  <2> DEFINE Result == \/ <<a, b>> \in x.pairs \/ <<a, b>> \in y.pairs
                       \/ a \in x.ids /\ b \in y.ids
             Inside == \E i \in 1..(m + k) : Both(st[i], a, b)
             Across == \E i, j \in 1..(m + k) : i < j /\ Has(st[i], a) /\ Has(st[j], b)
  <2>1. ASSUME NEW i \in 1..(m + k), NEW j \in 1..(m + k), i < j, Has(st[i], a), Has(st[j], b)
        PROVE  Result
    <3>1. CASE j \in 1..m /\ st[j] = s[j]
      <4>1. i \in 1..m /\ st[i] = s[i]
        BY <1>1, <1>3, <2>1, <3>1
      <4> QED  BY <1>2, <2>1, <3>1, <4>1
    <3>2. CASE j - m \in 1..k /\ st[j] = t[j - m] /\ i \in 1..m /\ st[i] = s[i]
      BY <1>2, <2>1, <3>2
    <3>3. CASE j - m \in 1..k /\ st[j] = t[j - m] /\ i - m \in 1..k /\ st[i] = t[i - m]
      <4>1. i - m < j - m
        BY <1>1, <2>1
      <4> QED  BY <1>2, <2>1, <3>3, <4>1
    <3> QED  BY <1>3, <3>1, <3>2, <3>3
  <2>2. ASSUME NEW i \in 1..(m + k), Both(st[i], a, b)
        PROVE  Result
    <3>1. CASE i \in 1..m /\ st[i] = s[i]
      BY <1>2, <2>2, <3>1
    <3>2. CASE i - m \in 1..k /\ st[i] = t[i - m]
      <4>1. Both(t[i - m], a, b)
        BY <2>2, <3>2
      <4> QED  BY <1>2, <3>2, <4>1
    <3> QED  BY <1>3, <3>1, <3>2
  <2>3. ASSUME <<a, b>> \in x.pairs
        PROVE  Inside \/ Across
    <3>1. CASE \E i \in 1..m : Both(s[i], a, b)
      BY <1>3, <3>1
    <3>2. CASE \E i, j \in 1..m : i < j /\ Has(s[i], a) /\ Has(s[j], b)
      BY <1>3, <3>2
    <3> QED  BY <1>2, <2>3, <3>1, <3>2
  <2>4. ASSUME <<a, b>> \in y.pairs
        PROVE  Inside \/ Across
    <3>1. CASE \E i \in 1..k : Both(t[i], a, b)
      BY <1>3, <3>1
    <3>2. CASE \E i, j \in 1..k : i < j /\ Has(t[i], a) /\ Has(t[j], b)
      <4>1. PICK i \in 1..k, j \in 1..k : i < j /\ Has(t[i], a) /\ Has(t[j], b)
        BY <3>2
      <4>2. i + m < j + m
        BY <1>1, <4>1
      <4> QED  BY <1>3, <4>1, <4>2
    <3> QED  BY <1>2, <2>4, <3>1, <3>2
  <2>5. ASSUME a \in x.ids, b \in y.ids
        PROVE  Across
    <3>1. PICK i \in 1..m : Has(s[i], a)
      BY <1>2, <2>5
    <3>2. PICK j \in 1..k : Has(t[j], b)
      BY <1>2, <2>5
    <3>3. i < j + m
      BY <1>1
    <3> QED  BY <1>3, <3>1, <3>2, <3>3
  <2> QED  BY <1>1, <1>2, <2>1, <2>2, <2>3, <2>4, <2>5
<1>6. x \in Rows /\ y \in Rows /\ LineRowOf(st, c, state) \in Rows
  BY RowsAreRows DEF x, y
<1>7. /\ \A n \in Nat : n \in Behind(x, y).ids <=> n \in x.ids \/ n \in y.ids
      /\ \A a, b \in Nat : <<a, b>> \in Behind(x, y).pairs <=>
           \/ <<a, b>> \in x.pairs \/ <<a, b>> \in y.pairs
           \/ a \in x.ids /\ b \in y.ids
  BY DEF Behind
<1>8. LineRowOf(st, c, state) = Behind(x, y)
  BY <1>4, <1>5, <1>6, <1>7, BehindIsRow, RowsEqual
<1> QED
  BY <1>8 DEF st, x, y

LEMMA LineRowOfOne ==
  ASSUME NEW ops, NEW c, NEW state
  PROVE  LineRowOf(<<ops>>, c, state) = RowOf(ops, c, state)
<1>1. /\ \A n \in Nat : n \in LineRowOf(<<ops>>, c, state).ids <=> n \in RowOf(ops, c, state).ids
      /\ \A m, n \in Nat : <<m, n>> \in LineRowOf(<<ops>>, c, state).pairs
                             <=> <<m, n>> \in RowOf(ops, c, state).pairs
  BY DEF LineRowOf
<1> QED
  BY <1>1, RowsAreRows, RowsEqual

\* The queue, turned round, is part of the line.
LEMMA QueueTurned ==
  ASSUME NEW queue \in Seq(Blocks)
  PROVE  /\ Reverse([i \in DOMAIN queue |-> queue[i].ops]) \in Seq(Seq(Ops))
         /\ \A c, state : LineRowOf(Reverse([i \in DOMAIN queue |-> queue[i].ops]), c, state)
                            = QueueRow(queue, c, state)
<1> DEFINE n == Len(queue)
           back == [i \in 1..n |-> queue[n - i + 1].ops]
<1>1. n \in Nat /\ DOMAIN queue = 1..n
  BY LenProperties
<1>2. \A i \in 1..n : queue[i].ops \in Seq(Ops)
  <2>1. \A i \in 1..n : queue[i] \in Blocks
    BY ElementOfSeq
  <2> QED  BY <2>1 DEF Blocks
<1>3. Reverse([i \in DOMAIN queue |-> queue[i].ops]) = back
  <2> DEFINE e(i) == queue[i].ops
             all == [i \in 1..n |-> e(i)]
  <2> HIDE DEF n
  <2>1. all \in Seq(Seq(Ops))
    <3>1. \A i \in 1..n : e(i) \in Seq(Ops)
      BY <1>2
    <3> HIDE DEF e
    <3> QED  BY <1>1, <3>1, IsASeq
  <2>2. Len(all) = n
    BY <1>1, <2>1, LenProperties
  <2>3. \A i \in 1..n : n - i + 1 \in 1..n
    BY <1>1
  <2>4. Reverse(all) = [i \in 1..n |-> all[(n - i) + 1]]
    <3> HIDE DEF all
    <3> QED  BY <2>2 DEF Reverse
  <2>5. \A i \in 1..n : all[(n - i) + 1] = queue[n - i + 1].ops
    BY <2>3
  <2>6. all = [i \in DOMAIN queue |-> queue[i].ops]
    BY <1>1
  <2> HIDE DEF all, e
  <2> QED  BY <2>4, <2>5, <2>6
<1>4. back \in Seq(Seq(Ops))
  <2> DEFINE e(i) == queue[n - i + 1].ops
  <2>1. \A i \in 1..n : e(i) \in Seq(Ops)
    <3> HIDE DEF n
    <3>1. \A i \in 1..n : n - i + 1 \in 1..n
      BY <1>1
    <3> QED  BY <1>2, <3>1
  <2>2. back = [i \in 1..n |-> e(i)]
    OBVIOUS
  <2> HIDE DEF e, n
  <2>3. [i \in 1..n |-> e(i)] \in Seq(Seq(Ops))
    BY <1>1, <2>1, IsASeq
  <2> QED  BY <2>2, <2>3
<1>5. Len(back) = n
  <2> HIDE DEF n
  <2> QED  BY <1>1, <1>4, LenProperties
<1>6. ASSUME NEW c, NEW state
      PROVE  LineRowOf(back, c, state) = QueueRow(queue, c, state)
  <2> DEFINE Has(i, a) == a \in RowOf(queue[i].ops, c, state).ids
             Both(i, p) == p \in RowOf(queue[i].ops, c, state).pairs
  <2> HIDE DEF n
  <2>1. /\ \A i \in 1..n : n - i + 1 \in 1..n /\ back[i] = queue[n - i + 1].ops
        /\ \A i \in 1..n : back[n - i + 1] = queue[i].ops
        /\ \A i, j \in 1..n : i < j <=> n - j + 1 < n - i + 1
    <3>1. \A i \in 1..n : n - i + 1 \in 1..n /\ n - (n - i + 1) + 1 = i
      BY <1>1
    <3>2. \A i, j \in 1..n : i < j <=> n - j + 1 < n - i + 1
      BY <1>1
    <3> QED  BY <3>1, <3>2
  <2>2. /\ \A a \in Nat : a \in QueueRow(queue, c, state).ids <=> \E i \in 1..n : Has(i, a)
        /\ \A a, b \in Nat : <<a, b>> \in QueueRow(queue, c, state).pairs <=>
             \/ \E i \in 1..n : Both(i, <<a, b>>)
             \/ \E i, j \in 1..n : i < j /\ Has(j, a) /\ Has(i, b)
    BY DEF QueueRow, n
  <2> HIDE DEF back
  <2>3. /\ \A a \in Nat : a \in LineRowOf(back, c, state).ids <=>
             \E i \in 1..n : a \in RowOf(back[i], c, state).ids
        /\ \A a, b \in Nat : <<a, b>> \in LineRowOf(back, c, state).pairs <=>
             \/ \E i \in 1..n : <<a, b>> \in RowOf(back[i], c, state).pairs
             \/ \E i, j \in 1..n : /\ i < j
                                   /\ a \in RowOf(back[i], c, state).ids
                                   /\ b \in RowOf(back[j], c, state).ids
    BY <1>5 DEF LineRowOf
  <2>4. \A i \in 1..n : /\ RowOf(back[i], c, state) = RowOf(queue[n - i + 1].ops, c, state)
                        /\ RowOf(back[n - i + 1], c, state) = RowOf(queue[i].ops, c, state)
    BY <2>1
  <2>5. ASSUME NEW a \in Nat
        PROVE  a \in LineRowOf(back, c, state).ids <=> a \in QueueRow(queue, c, state).ids
    <3>1. ASSUME NEW i \in 1..n, a \in RowOf(back[i], c, state).ids
          PROVE  \E k \in 1..n : Has(k, a)
      BY <2>1, <2>4, <3>1
    <3>2. ASSUME NEW i \in 1..n, Has(i, a)
          PROVE  \E k \in 1..n : a \in RowOf(back[k], c, state).ids
      BY <2>1, <2>4, <3>2
    <3> HIDE DEF Has
    <3> QED  BY <2>2, <2>3, <3>1, <3>2
  <2>6. ASSUME NEW a \in Nat, NEW b \in Nat
        PROVE  <<a, b>> \in LineRowOf(back, c, state).pairs
                 <=> <<a, b>> \in QueueRow(queue, c, state).pairs
    <3>1. ASSUME NEW i \in 1..n, <<a, b>> \in RowOf(back[i], c, state).pairs
          PROVE  \E k \in 1..n : Both(k, <<a, b>>)
      BY <2>1, <2>4, <3>1
    <3>2. ASSUME NEW i \in 1..n, Both(i, <<a, b>>)
          PROVE  \E k \in 1..n : <<a, b>> \in RowOf(back[k], c, state).pairs
      BY <2>1, <2>4, <3>2
    <3>3. ASSUME NEW i \in 1..n, NEW j \in 1..n, i < j,
                 a \in RowOf(back[i], c, state).ids, b \in RowOf(back[j], c, state).ids
          PROVE  \E k, l \in 1..n : k < l /\ Has(l, a) /\ Has(k, b)
      <4>1. n - j + 1 < n - i + 1 /\ n - i + 1 \in 1..n /\ n - j + 1 \in 1..n
        BY <2>1, <3>3
      <4>2. Has(n - i + 1, a) /\ Has(n - j + 1, b)
        BY <2>4, <3>3
      <4> HIDE DEF Has
      <4> QED  BY <4>1, <4>2
    <3>4. ASSUME NEW i \in 1..n, NEW j \in 1..n, i < j, Has(j, a), Has(i, b)
          PROVE  \E k, l \in 1..n : /\ k < l
                                    /\ a \in RowOf(back[k], c, state).ids
                                    /\ b \in RowOf(back[l], c, state).ids
      <4>1. n - j + 1 < n - i + 1 /\ n - i + 1 \in 1..n /\ n - j + 1 \in 1..n
        BY <2>1, <3>4
      <4>2. a \in RowOf(back[n - j + 1], c, state).ids /\ b \in RowOf(back[n - i + 1], c, state).ids
        BY <2>4, <3>4
      <4> QED  BY <4>1, <4>2
    <3> HIDE DEF Has, Both
    <3> QED  BY <2>2, <2>3, <3>1, <3>2, <3>3, <3>4
  <2> QED  BY <2>5, <2>6, RowsAreRows, RowsEqual
<1> QED
  BY <1>3, <1>4, <1>6

\* A block that comes into the queue goes in front of the others.
LEMMA QueueRowAppended ==
  ASSUME NEW queue \in Seq(Blocks), NEW block \in Blocks, NEW c, NEW state
  PROVE  QueueRow(Append(queue, block), c, state)
           = Behind(RowOf(block.ops, c, state), QueueRow(queue, c, state))
<1> DEFINE n == Len(queue)
           longer == Append(queue, block)
           x == RowOf(block.ops, c, state)
           y == QueueRow(queue, c, state)
           z == QueueRow(longer, c, state)
           Has(b, a) == a \in RowOf(b.ops, c, state).ids
           Both(b, p) == p \in RowOf(b.ops, c, state).pairs
<1>1. /\ n \in Nat /\ Len(longer) = n + 1
      /\ \A i \in 1..n : longer[i] = queue[i]
      /\ longer[n + 1] = block
  BY LenProperties, AppendProperties
<1>2. /\ \A a \in Nat : a \in y.ids <=> \E i \in 1..n : Has(queue[i], a)
      /\ \A a, b \in Nat : <<a, b>> \in y.pairs <=>
           \/ \E i \in 1..n : Both(queue[i], <<a, b>>)
           \/ \E i, j \in 1..n : i < j /\ Has(queue[j], a) /\ Has(queue[i], b)
      /\ \A a \in Nat : a \in z.ids <=> \E i \in 1..Len(longer) : Has(longer[i], a)
      /\ \A a, b \in Nat : <<a, b>> \in z.pairs <=>
           \/ \E i \in 1..Len(longer) : Both(longer[i], <<a, b>>)
           \/ \E i, j \in 1..Len(longer) : i < j /\ Has(longer[j], a) /\ Has(longer[i], b)
      /\ \A a : Has(block, a) <=> a \in x.ids
      /\ \A p : Both(block, p) <=> p \in x.pairs
  BY DEF QueueRow
<1>3. x \in Rows /\ y \in Rows /\ z \in Rows
  BY RowsAreRows
<1> HIDE DEF n, longer, x, y, z, Has, Both
<1>4. /\ \A i \in 1..n : i \in 1..(n + 1) /\ i < n + 1
      /\ n + 1 \in 1..(n + 1)
      /\ \A i \in 1..(n + 1) : i \in 1..n \/ i = n + 1
      /\ \A i, j \in 1..(n + 1) : i < j => i \in 1..n
  BY <1>1
<1>5. ASSUME NEW a \in Nat
      PROVE  a \in z.ids <=> a \in x.ids \/ a \in y.ids
  BY <1>1, <1>2, <1>4
<1>6. ASSUME NEW a \in Nat, NEW b \in Nat
      PROVE  <<a, b>> \in z.pairs <=>
               \/ <<a, b>> \in x.pairs \/ <<a, b>> \in y.pairs
               \/ a \in x.ids /\ b \in y.ids
  <2>1. (\E i \in 1..(n + 1) : Both(longer[i], <<a, b>>)) <=>
          \/ \E i \in 1..n : Both(queue[i], <<a, b>>)
          \/ Both(block, <<a, b>>)
    BY <1>1, <1>4
  <2>2. (\E i, j \in 1..(n + 1) : i < j /\ Has(longer[j], a) /\ Has(longer[i], b)) <=>
          \/ \E i, j \in 1..n : i < j /\ Has(queue[j], a) /\ Has(queue[i], b)
          \/ Has(block, a) /\ \E i \in 1..n : Has(queue[i], b)
    BY <1>1, <1>4
  <2> QED  BY <1>1, <1>2, <2>1, <2>2
<1>7. /\ \A a \in Nat : a \in Behind(x, y).ids <=> a \in x.ids \/ a \in y.ids
      /\ \A a, b \in Nat : <<a, b>> \in Behind(x, y).pairs <=>
           \/ <<a, b>> \in x.pairs \/ <<a, b>> \in y.pairs
           \/ a \in x.ids /\ b \in y.ids
  BY DEF Behind
<1>8. z = Behind(x, y)
  BY <1>3, <1>5, <1>6, <1>7, BehindIsRow, RowsEqual
<1> QED
  BY <1>8 DEF z, x, y, longer

\* The block whose turn it is stands last in the line.
LEMMA QueueRowServed ==
  ASSUME NEW queue \in Seq(Blocks), queue # << >>, NEW c, NEW state
  PROVE  QueueRow(queue, c, state)
           = Behind(QueueRow(Tail(queue), c, state), RowOf(Head(queue).ops, c, state))
<1> DEFINE n == Len(queue)
           rest == Tail(queue)
           block == Head(queue)
           x == QueueRow(rest, c, state)
           y == RowOf(block.ops, c, state)
           z == QueueRow(queue, c, state)
           Has(b, a) == a \in RowOf(b.ops, c, state).ids
           Both(b, p) == p \in RowOf(b.ops, c, state).pairs
<1>1. /\ n \in Nat /\ n # 0 /\ Len(rest) = n - 1
      /\ \A i \in 1..(n - 1) : rest[i] = queue[i + 1]
      /\ queue[1] = block
  BY LenProperties, HeadTailProperties, EmptySeq
<1>2. /\ \A a \in Nat : a \in x.ids <=> \E i \in 1..Len(rest) : Has(rest[i], a)
      /\ \A a, b \in Nat : <<a, b>> \in x.pairs <=>
           \/ \E i \in 1..Len(rest) : Both(rest[i], <<a, b>>)
           \/ \E i, j \in 1..Len(rest) : i < j /\ Has(rest[j], a) /\ Has(rest[i], b)
      /\ \A a \in Nat : a \in z.ids <=> \E i \in 1..n : Has(queue[i], a)
      /\ \A a, b \in Nat : <<a, b>> \in z.pairs <=>
           \/ \E i \in 1..n : Both(queue[i], <<a, b>>)
           \/ \E i, j \in 1..n : i < j /\ Has(queue[j], a) /\ Has(queue[i], b)
      /\ \A a : Has(block, a) <=> a \in y.ids
      /\ \A p : Both(block, p) <=> p \in y.pairs
  BY DEF QueueRow
<1>3. x \in Rows /\ y \in Rows /\ z \in Rows
  BY RowsAreRows
<1> HIDE DEF n, rest, block, x, y, z, Has, Both
<1>4. /\ \A i \in 1..(n - 1) : i + 1 \in 1..n /\ 1 < i + 1
      /\ 1 \in 1..n
      /\ \A i \in 1..n : (i - 1 \in 1..(n - 1) /\ (i - 1) + 1 = i) \/ i = 1
      /\ \A i, j \in 1..n : i < j => j - 1 \in 1..(n - 1) /\ (j - 1) + 1 = j /\ i - 1 < j - 1
      /\ \A i, j \in 1..(n - 1) : i < j => i + 1 < j + 1
  BY <1>1
<1>5. \A i \in 1..n : \/ i = 1 /\ queue[i] = block
                      \/ i - 1 \in 1..(n - 1) /\ queue[i] = rest[i - 1]
  <2> SUFFICES ASSUME NEW i \in 1..n
               PROVE  \/ i = 1 /\ queue[i] = block
                      \/ i - 1 \in 1..(n - 1) /\ queue[i] = rest[i - 1]
    OBVIOUS
  <2>1. CASE i = 1
    BY <1>1, <2>1
  <2>2. CASE i # 1
    <3>1. i - 1 \in 1..(n - 1) /\ (i - 1) + 1 = i
      BY <1>4, <2>2
    <3>2. rest[i - 1] = queue[(i - 1) + 1]
      BY <1>1, <3>1
    <3> QED  BY <3>1, <3>2
  <2> QED  BY <2>1, <2>2
<1>6. ASSUME NEW a \in Nat
      PROVE  a \in z.ids <=> a \in x.ids \/ a \in y.ids
  <2>1. ASSUME NEW i \in 1..n, Has(queue[i], a)
        PROVE  a \in x.ids \/ a \in y.ids
    BY <1>1, <1>2, <1>5, <2>1
  <2>2. ASSUME NEW i \in 1..(n - 1), Has(rest[i], a)
        PROVE  \E k \in 1..n : Has(queue[k], a)
    BY <1>1, <1>4, <2>2
  <2>3. Has(block, a) => \E k \in 1..n : Has(queue[k], a)
    BY <1>1, <1>4
  <2> QED  BY <1>1, <1>2, <2>1, <2>2, <2>3
<1>7. ASSUME NEW a \in Nat, NEW b \in Nat
      PROVE  <<a, b>> \in z.pairs <=>
               \/ <<a, b>> \in x.pairs \/ <<a, b>> \in y.pairs
               \/ a \in x.ids /\ b \in y.ids
  <2> DEFINE Result == \/ <<a, b>> \in x.pairs \/ <<a, b>> \in y.pairs
                       \/ a \in x.ids /\ b \in y.ids
             Inside == \E i \in 1..n : Both(queue[i], <<a, b>>)
             Across == \E i, j \in 1..n : i < j /\ Has(queue[j], a) /\ Has(queue[i], b)
  <2>1. ASSUME NEW i \in 1..n, Both(queue[i], <<a, b>>)
        PROVE  Result
    BY <1>1, <1>2, <1>5, <2>1
  <2>2. ASSUME NEW i \in 1..n, NEW j \in 1..n, i < j, Has(queue[j], a), Has(queue[i], b)
        PROVE  Result
    <3>1. j - 1 \in 1..(n - 1) /\ queue[j] = rest[j - 1] /\ i - 1 < j - 1
      <4>1. j - 1 \in 1..(n - 1) /\ (j - 1) + 1 = j /\ i - 1 < j - 1
        BY <1>4, <2>2
      <4> QED  BY <1>1, <4>1
    <3>2. CASE i = 1 /\ queue[i] = block
      BY <1>1, <1>2, <2>2, <3>1, <3>2
    <3>3. CASE i - 1 \in 1..(n - 1) /\ queue[i] = rest[i - 1]
      BY <1>1, <1>2, <2>2, <3>1, <3>3
    <3> QED  BY <1>5, <3>2, <3>3
  <2>3. ASSUME <<a, b>> \in x.pairs
        PROVE  Inside \/ Across
    <3>1. CASE \E i \in 1..(n - 1) : Both(rest[i], <<a, b>>)
      BY <1>1, <1>4, <3>1
    <3>2. CASE \E i, j \in 1..(n - 1) : i < j /\ Has(rest[j], a) /\ Has(rest[i], b)
      BY <1>1, <1>4, <3>2
    <3> QED  BY <1>1, <1>2, <2>3, <3>1, <3>2
  <2>4. ASSUME <<a, b>> \in y.pairs
        PROVE  Inside
    BY <1>1, <1>2, <1>4, <2>4
  <2>5. ASSUME a \in x.ids, b \in y.ids
        PROVE  Across
    <3>1. PICK j \in 1..(n - 1) : Has(rest[j], a)
      BY <1>1, <1>2, <2>5
    <3>2. Has(queue[j + 1], a) /\ j + 1 \in 1..n /\ 1 < j + 1
      BY <1>1, <1>4, <3>1
    <3>3. Has(queue[1], b) /\ 1 \in 1..n
      BY <1>1, <1>2, <1>4, <2>5
    <3> QED  BY <3>2, <3>3
  <2> QED  BY <1>2, <2>1, <2>2, <2>3, <2>4, <2>5
<1>8. /\ \A a \in Nat : a \in Behind(x, y).ids <=> a \in x.ids \/ a \in y.ids
      /\ \A a, b \in Nat : <<a, b>> \in Behind(x, y).pairs <=>
           \/ <<a, b>> \in x.pairs \/ <<a, b>> \in y.pairs
           \/ a \in x.ids /\ b \in y.ids
  BY DEF Behind
<1>9. z = Behind(x, y)
  BY <1>3, <1>6, <1>7, <1>8, BehindIsRow, RowsEqual
<1> QED
  BY <1>9 DEF z, x, y, rest, block

LEMMA RowOfAppend ==
  ASSUME NEW s \in Seq(Ops), NEW op \in Ops, NEW c, NEW state
  PROVE  /\ RowOf(Append(s, op), c, state) = Behind(RowOf(s, c, state), RowOf(<<op>>, c, state))
         /\ RowOf(<<op>>, c, state).pairs = {}
         /\ state # op.state => RowOf(<<op>>, c, state) = NoOne
<1>1. <<op>> \in Seq(Ops) /\ Len(<<op>>) = 1 /\ <<op>>[1] = op
  OBVIOUS
<1>2. Append(s, op) = s \o <<op>>
  BY AppendIsConcat
<1>3. RowOf(<<op>>, c, state).pairs = {}
  BY <1>1 DEF RowOf
<1>4. state # op.state => RowOf(<<op>>, c, state) = NoOne
  BY <1>1, RowElsewhere
<1>5. RowOf(s \o <<op>>, c, state) = Behind(RowOf(s, c, state), RowOf(<<op>>, c, state))
  <2> DEFINE one == <<op>>
  <2>1. one \in Seq(Ops)
    BY <1>1
  <2> HIDE DEF one
  <2>2. RowOf(s \o one, c, state) = Behind(RowOf(s, c, state), RowOf(one, c, state))
    BY <2>1, RowOfConcat
  <2> QED  BY <2>2 DEF one
<1> QED
  BY <1>2, <1>3, <1>4, <1>5

\* The loops of addChangeSetToUndoAndRedo keep the order among what they pick.
LEMMA RowPicked ==
  ASSUME NEW ops \in Seq(Ops), NEW S, NEW c, NEW state \in S
  PROVE  RowOf(InState(ops, S), c, state) = RowOf(ops, c, state)
<1> DEFINE n == Len(ops)
<1>1. n \in Nat /\ \A i \in 1..n : ops[i] \in Ops
  BY LenProperties, ElementOfSeq
<1>2. PICK f : /\ f[0] = << >>
               /\ \A k \in 1..n :
                    f[k] = IF ops[k].state \in S THEN Append(f[k - 1], ops[k]) ELSE f[k - 1]
               /\ \A k \in 0..n : f[k] \in Seq(OfState(Ops, S))
               /\ InState(ops, S) = f[n]
  <2> HIDE DEF n
  <2> QED  BY InStateRuns DEF n
<1> HIDE DEF n
<1>3. ASSUME NEW k \in 0..n
      PROVE  f[k] \in Seq(Ops)
  <2>1. \A i \in 1..Len(f[k]) : f[k][i] \in Ops
    BY <1>2, ElementOfSeq DEF OfState
  <2>2. f[k] = [i \in 1..Len(f[k]) |-> f[k][i]] /\ Len(f[k]) \in Nat
    BY <1>2, LenProperties
  <2>3. [i \in 1..Len(f[k]) |-> f[k][i]] \in Seq(Ops)
    BY <2>1, <2>2, IsASeq
  <2> QED  BY <2>2, <2>3
<1> DEFINE front(k) == [i \in 1..k |-> ops[i]]
           Good(k) == RowOf(f[k], c, state) = RowOf(front(k), c, state)
<1>4. ASSUME NEW k \in 0..n
      PROVE  front(k) \in Seq(Ops) /\ Len(front(k)) = k
  <2>1. k \in Nat /\ \A i \in 1..k : ops[i] \in Ops
    BY <1>1
  <2> DEFINE e(i) == ops[i]
  <2>2. \A i \in 1..k : e(i) \in Ops
    BY <2>1
  <2> HIDE DEF e
  <2>3. [i \in 1..k |-> e(i)] \in Seq(Ops)
    BY <2>1, <2>2, IsASeq
  <2>4. front(k) \in Seq(Ops)
    BY <2>3 DEF e
  <2>5. DOMAIN front(k) = 1..k
    OBVIOUS
  <2> HIDE DEF front
  <2>6. Len(front(k)) \in Nat /\ 1..Len(front(k)) = 1..k
    BY <2>4, <2>5, LenProperties
  <2> QED  BY <2>1, <2>4, <2>6
<1>5. Good(0)
  <2>1. 0 \in 0..n
    BY <1>1
  <2>2. Len(front(0)) = 0 /\ front(0) \in Seq(Ops)
    BY <1>4, <2>1
  <2>3. front(0) = << >>
    BY <2>2, EmptySeq
  <2> QED  BY <1>2, <2>3
<1>6. ASSUME NEW k \in 1..n, Good(k - 1)
      PROVE  Good(k)
  <2>1. k \in 0..n /\ k - 1 \in 0..n /\ ops[k] \in Ops
    BY <1>1
  <2>2. /\ front(k - 1) \in Seq(Ops) /\ Len(front(k - 1)) = k - 1
        /\ front(k) \in Seq(Ops) /\ Len(front(k)) = k
        /\ f[k - 1] \in Seq(Ops)
    BY <1>3, <1>4, <2>1
  <2>3. /\ \A i \in 1..(k - 1) : front(k)[i] = front(k - 1)[i]
        /\ front(k)[k] = ops[k]
    BY <2>1
  <2> HIDE DEF front
  <2>4. front(k) = Append(front(k - 1), ops[k])
    <3> DEFINE longer == Append(front(k - 1), ops[k])
    <3>1. /\ longer \in Seq(Ops) /\ Len(longer) = (k - 1) + 1
          /\ \A i \in 1..(k - 1) : longer[i] = front(k - 1)[i]
          /\ longer[(k - 1) + 1] = ops[k]
      BY <2>1, <2>2, AppendProperties
    <3> HIDE DEF longer
    <3>2. (k - 1) + 1 = k /\ 1..k = 1..(k - 1) \cup {k}
      BY <2>1, <1>1
    <3>3. \A i \in 1..Len(front(k)) : front(k)[i] = longer[i]
      BY <2>2, <2>3, <3>1, <3>2
    <3>4. front(k) = longer
      BY <2>2, <3>1, <3>2, <3>3, SeqEqual
    <3> QED  BY <3>4 DEF longer
  <2>5. RowOf(front(k), c, state)
          = Behind(RowOf(front(k - 1), c, state), RowOf(<<ops[k]>>, c, state))
    BY <2>1, <2>2, <2>4, RowOfAppend
  <2>6. CASE ops[k].state \in S
    <3>1. f[k] = Append(f[k - 1], ops[k])
      BY <1>2, <2>6
    <3>2. RowOf(f[k], c, state)
            = Behind(RowOf(f[k - 1], c, state), RowOf(<<ops[k]>>, c, state))
      BY <2>1, <2>2, <3>1, RowOfAppend
    <3> QED  BY <1>6, <2>5, <3>2
  <2>7. CASE ops[k].state \notin S
    <3>1. f[k] = f[k - 1]
      BY <1>2, <2>7
    <3>2. RowOf(<<ops[k]>>, c, state) = NoOne
      BY <2>1, <2>2, <2>7, RowOfAppend
    <3>3. RowOf(front(k), c, state) = RowOf(front(k - 1), c, state)
      BY <2>5, <3>2, BehindNoOne, RowsAreRows
    <3> QED  BY <1>6, <3>1, <3>3
  <2> QED  BY <2>6, <2>7
<1>7. front(n) = ops
  <2>1. n \in 0..n
    BY <1>1
  <2>2. front(n) \in Seq(Ops) /\ Len(front(n)) = Len(ops)
    BY <1>4, <2>1 DEF n
  <2>3. \A i \in 1..n : front(n)[i] = ops[i]
    OBVIOUS
  <2> HIDE DEF front
  <2> QED  BY <2>2, <2>3, SeqEqual DEF n
<1> DEFINE g == [k \in 0..n |-> IF Good(k) THEN 1 ELSE 0]
<1> HIDE DEF Good
<1>8. g[0] \in {1}
  BY <1>1, <1>5
<1>9. \A k \in 1..n : g[k - 1] \in {1} => g[k] \in {1}
  <2> SUFFICES ASSUME NEW k \in 1..n, g[k - 1] \in {1}  PROVE g[k] \in {1}
    OBVIOUS
  <2>1. k \in 0..n /\ k - 1 \in 0..n
    BY <1>1
  <2>2. Good(k - 1)
    BY <2>1
  <2> QED  BY <1>6, <2>1, <2>2
<1> HIDE DEF g
<1>10. \A k \in 0..n : g[k] \in {1}
  <2> DEFINE one == {1}
  <2>1. g[0] \in one /\ \A k \in 1..n : g[k - 1] \in one => g[k] \in one
    BY <1>8, <1>9
  <2> HIDE DEF one
  <2>2. \A k \in 0..n : g[k] \in one
    BY <1>1, <2>1, LoopKeeps
  <2> QED  BY <2>2 DEF one
<1>11. Good(n)
  <2>1. n \in 0..n
    BY <1>1
  <2> QED  BY <1>10, <2>1 DEF g
<1> QED
  BY <1>2, <1>7, <1>11 DEF Good

LEMMA RowInState ==
  ASSUME NEW ops \in Seq(Ops), NEW S, NEW c, NEW state
  PROVE  RowOf(InState(ops, S), c, state) = IF state \in S THEN RowOf(ops, c, state) ELSE NoOne
<1>1. CASE state \notin S
  <2> DEFINE kept == InState(ops, S)
  <2>1. kept \in Seq({o \in Ops : o.state \in S})
    BY InStatePicks
  <2> HIDE DEF kept
  <2>2. \A i \in 1..Len(kept) : kept[i].state \in S
    BY <2>1, ElementOfSeq
  <2>3. RowOf(kept, c, state) = NoOne
    BY <1>1, <2>2, RowElsewhere
  <2> QED  BY <1>1, <2>3 DEF kept
<1>2. CASE state \in S
  BY <1>2, RowPicked
<1> QED
  BY <1>1, <1>2

\* What LineKept says of a line is in its rows, one for each state.
LEMMA SpotsRead ==
  ASSUME NEW line \in Seq(Seq(Ops)), NEW c
  PROVE  /\ \A p : p \in Spots(line, c) <=>
               \E i \in 1..Len(line) : \E k \in 1..Len(line[i]) :
                 p = <<i, k>> /\ line[i][k].participantID = c
         /\ \A i \in 1..Len(line) : line[i] \in Seq(Ops)
         /\ \A i \in 1..Len(line) : \A k \in 1..Len(line[i]) :
               line[i][k].operationID \in Nat
<1>1. DOMAIN line = 1..Len(line) /\ \A i \in 1..Len(line) : line[i] \in Seq(Ops)
  BY LenProperties, ElementOfSeq
<1>2. \A i \in 1..Len(line) : DOMAIN line[i] = 1..Len(line[i])
  BY <1>1, LenProperties
<1>3. ASSUME NEW i \in 1..Len(line), NEW k \in 1..Len(line[i])
      PROVE  line[i][k].operationID \in Nat
  <2>1. line[i][k] \in Ops
    BY <1>1, ElementOfSeq
  <2> QED  BY <2>1 DEF Ops, Operations
<1>4. ASSUME NEW p
      PROVE  p \in Spots(line, c) <=>
               \E i \in 1..Len(line) : \E k \in 1..Len(line[i]) :
                 p = <<i, k>> /\ line[i][k].participantID = c
  BY <1>1, <1>2 DEF Spots
<1> QED
  BY <1>1, <1>3, <1>4

LEMMA PrecedenceRead ==
  ASSUME NEW line \in Seq(Seq(Ops)), NEW c
  PROVE  /\ \A p \in Precedence(line, c) : \E s : \E m, n \in Nat :
               p = <<<<s, m>>, <<s, n>>>> /\ <<m, n>> \in LineRowOf(line, c, s).pairs
         /\ \A s : \A m, n \in Nat : <<m, n>> \in LineRowOf(line, c, s).pairs
               => <<<<s, m>>, <<s, n>>>> \in Precedence(line, c)
         /\ \A s : \A m \in Nat : m \in LineRowOf(line, c, s).ids
               => <<s, m>> \in Labels(line, c)
<1>1. ASSUME NEW p \in Precedence(line, c)
      PROVE  \E s : \E m, n \in Nat :
               p = <<<<s, m>>, <<s, n>>>> /\ <<m, n>> \in LineRowOf(line, c, s).pairs
  <2>1. PICK a \in Spots(line, c), b \in Spots(line, c) :
          /\ InFront(a, b)
          /\ LabelAt(line, a)[1] = LabelAt(line, b)[1]
          /\ p = <<LabelAt(line, a), LabelAt(line, b)>>
    BY <1>1 DEF Precedence
  <2>2. PICK i \in 1..Len(line) : \E k \in 1..Len(line[i]) :
          a = <<i, k>> /\ line[i][k].participantID = c
    BY SpotsRead
  <2>3. PICK k \in 1..Len(line[i]) : a = <<i, k>> /\ line[i][k].participantID = c
    BY <2>2
  <2>4. PICK j \in 1..Len(line) : \E l \in 1..Len(line[j]) :
          b = <<j, l>> /\ line[j][l].participantID = c
    BY SpotsRead
  <2>5. PICK l \in 1..Len(line[j]) : b = <<j, l>> /\ line[j][l].participantID = c
    BY <2>4
  <2> DEFINE s == line[i][k].state
             m == line[i][k].operationID
             n == line[j][l].operationID
  <2>6. /\ LabelAt(line, a) = <<s, m>>
        /\ LabelAt(line, b) = <<line[j][l].state, n>>
    BY <2>3, <2>5 DEF LabelAt, Label
  <2>7. s = line[j][l].state /\ p = <<<<s, m>>, <<s, n>>>>
    BY <2>1, <2>6
  <2>8. m \in Nat /\ n \in Nat
    BY SpotsRead
  <2>9. IsOp(line[i][k], c, s, m) /\ IsOp(line[j][l], c, s, n)
    BY <2>3, <2>5, <2>7 DEF IsOp
  <2>10. i < j \/ (i = j /\ k < l)
    BY <2>1, <2>3, <2>5 DEF InFront
  <2> HIDE DEF s, m, n
  <2>11. m \in RowOf(line[i], c, s).ids /\ n \in RowOf(line[j], c, s).ids
    BY <2>8, <2>9 DEF RowOf
  <2>12. i = j /\ k < l => <<m, n>> \in RowOf(line[i], c, s).pairs
    BY <2>8, <2>9 DEF RowOf
  <2>13. <<m, n>> \in LineRowOf(line, c, s).pairs
    BY <2>8, <2>10, <2>11, <2>12 DEF LineRowOf
  <2> QED  BY <2>7, <2>8, <2>13
<1>2. ASSUME NEW s, NEW m \in Nat, NEW n \in Nat,
             NEW i \in 1..Len(line), NEW j \in 1..Len(line),
             NEW k \in 1..Len(line[i]), NEW l \in 1..Len(line[j]),
             IsOp(line[i][k], c, s, m), IsOp(line[j][l], c, s, n),
             i < j \/ (i = j /\ k < l)
      PROVE  <<<<s, m>>, <<s, n>>>> \in Precedence(line, c)
  <2> DEFINE a == <<i, k>>
             b == <<j, l>>
  <2>1. a \in Spots(line, c) /\ b \in Spots(line, c)
    BY <1>2, SpotsRead DEF IsOp
  <2>2. InFront(a, b)
    BY <1>2 DEF InFront
  <2>3. LabelAt(line, a) = <<s, m>> /\ LabelAt(line, b) = <<s, n>>
    BY <1>2 DEF LabelAt, Label, IsOp
  <2>4. <<LabelAt(line, a), LabelAt(line, b)>> \in Precedence(line, c)
    <3> DEFINE pair == <<a, b>>
    <3>1. pair \in {x \in Spots(line, c) \X Spots(line, c) :
                     /\ InFront(x[1], x[2])
                     /\ LabelAt(line, x[1])[1] = LabelAt(line, x[2])[1]}
      <4>1. LabelAt(line, a)[1] = LabelAt(line, b)[1]
        BY <2>3
      <4> HIDE DEF a, b
      <4> QED  BY <2>1, <2>2, <4>1
    <3>2. pair[1] = a /\ pair[2] = b
      OBVIOUS
    <3> HIDE DEF a, b, pair
    <3> QED  BY <3>1, <3>2 DEF Precedence
  <2> QED  BY <2>3, <2>4
<1>3. ASSUME NEW s, NEW m \in Nat, NEW n \in Nat, <<m, n>> \in LineRowOf(line, c, s).pairs
      PROVE  <<<<s, m>>, <<s, n>>>> \in Precedence(line, c)
  <2>1. CASE \E i \in 1..Len(line) : <<m, n>> \in RowOf(line[i], c, s).pairs
    <3>1. PICK i \in 1..Len(line) : <<m, n>> \in RowOf(line[i], c, s).pairs
      BY <2>1
    <3>2. \E k, l \in 1..Len(line[i]) : /\ k < l
                                        /\ IsOp(line[i][k], c, s, m)
                                        /\ IsOp(line[i][l], c, s, n)
      BY <3>1 DEF RowOf
    <3> QED  BY <1>2, <3>2
  <2>2. CASE \E i, j \in 1..Len(line) : /\ i < j
                                        /\ m \in RowOf(line[i], c, s).ids
                                        /\ n \in RowOf(line[j], c, s).ids
    <3>1. PICK i \in 1..Len(line), j \in 1..Len(line) :
            i < j /\ m \in RowOf(line[i], c, s).ids /\ n \in RowOf(line[j], c, s).ids
      BY <2>2
    <3>2. PICK k \in 1..Len(line[i]) : IsOp(line[i][k], c, s, m)
      BY <3>1 DEF RowOf
    <3>3. PICK l \in 1..Len(line[j]) : IsOp(line[j][l], c, s, n)
      BY <3>1 DEF RowOf
    <3> QED  BY <1>2, <3>1, <3>2, <3>3
  <2>3. \/ \E i \in 1..Len(line) : <<m, n>> \in RowOf(line[i], c, s).pairs
        \/ \E i, j \in 1..Len(line) : /\ i < j
                                      /\ m \in RowOf(line[i], c, s).ids
                                      /\ n \in RowOf(line[j], c, s).ids
    BY <1>3 DEF LineRowOf
  <2> QED  BY <2>1, <2>2, <2>3
<1>4. ASSUME NEW s, NEW m \in Nat, m \in LineRowOf(line, c, s).ids
      PROVE  <<s, m>> \in Labels(line, c)
  <2>1. PICK i \in 1..Len(line) : m \in RowOf(line[i], c, s).ids
    BY <1>4 DEF LineRowOf
  <2>2. PICK k \in 1..Len(line[i]) : IsOp(line[i][k], c, s, m)
    BY <2>1 DEF RowOf
  <2>3. <<i, k>> \in Spots(line, c)
    BY <2>2, SpotsRead DEF IsOp
  <2>4. LabelAt(line, <<i, k>>) = <<s, m>>
    BY <2>2 DEF LabelAt, Label, IsOp
  <2> QED  BY <2>3, <2>4 DEF Labels
<1> QED
  BY <1>1, <1>3, <1>4

LEMMA LabelsRead ==
  ASSUME NEW ops \in Seq(Ops), NEW c, NEW s, NEW m \in Nat
  PROVE  <<s, m>> \in LabelsIn(c, ops) <=> m \in RowOf(ops, c, s).ids
<1>1. DOMAIN ops = 1..Len(ops)
  BY LenProperties
<1>2. <<s, m>> \in LabelsIn(c, ops) <=> \E i \in 1..Len(ops) : IsOp(ops[i], c, s, m)
  BY <1>1 DEF LabelsIn, Label, IsOp
<1> QED
  BY <1>2 DEF RowOf

-----------------------------------------------------------------------------
\* The line of c in state s: the session, what the timer has taken, what is on its way
\* back, what has gathered.
OpsOf(entries) == [k \in DOMAIN entries |-> entries[k].op]

WaitRow(l, u, r, c, s) == Behind(RowOf(l, c, s), Behind(RowOf(u, c, s), RowOf(r, c, s)))

WholeRow(entries, t, queue, l, u, r, c, s) ==
  Behind(RowOf(OpsOf(entries), c, s),
         Behind(RowOf(t, c, s), Behind(QueueRow(queue, c, s), WaitRow(l, u, r, c, s))))

LineOf(entries, t, queue, l, u, r) ==
  <<OpsOf(entries), t>> \o Reverse([i \in DOMAIN queue |-> queue[i].ops]) \o <<l, u, r>>

LEMMA OpsOfType ==
  ASSUME NEW entries \in Logs
  PROVE  /\ OpsOf(entries) \in Seq(Ops)
         /\ Len(OpsOf(entries)) = Len(entries) /\ Len(entries) \in Nat
         /\ \A k \in 1..Len(entries) : OpsOf(entries)[k] = entries[k].op
<1>1. entries \in Seq([op : Ops, order : Nat])
  BY DEF Logs
<1>2. DOMAIN entries = 1..Len(entries) /\ Len(entries) \in Nat
  BY <1>1, LenProperties
<1> DEFINE e(k) == entries[k].op
<1>3. \A k \in 1..Len(entries) : e(k) \in Ops
  <2>1. \A k \in 1..Len(entries) : entries[k] \in [op : Ops, order : Nat]
    BY <1>1, ElementOfSeq
  <2> QED  BY <2>1
<1>4. OpsOf(entries) = [k \in 1..Len(entries) |-> e(k)]
  BY <1>2 DEF OpsOf
<1>5. \A k \in 1..Len(entries) : OpsOf(entries)[k] = entries[k].op
  BY <1>4
<1> HIDE DEF e
<1>6. OpsOf(entries) \in Seq(Ops)
  BY <1>2, <1>3, <1>4, IsASeq
<1>7. DOMAIN OpsOf(entries) = 1..Len(entries)
  BY <1>4
<1>8. Len(OpsOf(entries)) \in Nat /\ 1..Len(OpsOf(entries)) = 1..Len(entries)
  BY <1>6, <1>7, LenProperties
<1> QED
  BY <1>2, <1>5, <1>6, <1>8

LEMMA OneTwo ==
  ASSUME NEW S, NEW x \in S, NEW y \in S
  PROVE  <<x, y>> = <<x>> \o <<y>>
<1> DEFINE both == <<x>> \o <<y>>
<1>1. <<x>> \in Seq(S) /\ <<y>> \in Seq(S) /\ <<x, y>> \in Seq(S)
  OBVIOUS
<1>2. both \in Seq(S) /\ Len(both) = 2 /\ both[1] = x /\ both[2] = y
  BY <1>1, ConcatProperties
<1>3. Len(<<x, y>>) = 2 /\ <<x, y>>[1] = x /\ <<x, y>>[2] = y
  OBVIOUS
<1> HIDE DEF both
<1>4. \A i \in 1..2 : both[i] = <<x, y>>[i]
  BY <1>2, <1>3
<1>5. both = <<x, y>>
  BY <1>1, <1>2, <1>3, <1>4, SeqEqual
<1> QED
  BY <1>5 DEF both

LEMMA OneTwoThree ==
  ASSUME NEW S, NEW x \in S, NEW y \in S, NEW z \in S
  PROVE  /\ <<x>> \in Seq(S) /\ <<y, z>> \in Seq(S) /\ <<x, y, z>> \in Seq(S)
         /\ <<x, y, z>> = <<x>> \o <<y, z>>
<1>1. <<x>> \in Seq(S) /\ <<y, z>> \in Seq(S) /\ <<x, y, z>> \in Seq(S)
  OBVIOUS
<1>2. <<x, y, z>> = <<x>> \o <<y, z>>
  OBVIOUS
<1> QED
  BY <1>1, <1>2

LEMMA LineOfRows ==
  ASSUME NEW entries \in Logs, NEW t \in Seq(Ops), NEW queue \in Seq(Blocks),
         NEW l \in Seq(Ops), NEW u \in Seq(Ops), NEW r \in Seq(Ops), NEW c
  PROVE  /\ LineOf(entries, t, queue, l, u, r) \in Seq(Seq(Ops))
         /\ \A s : LineRowOf(LineOf(entries, t, queue, l, u, r), c, s)
                     = WholeRow(entries, t, queue, l, u, r, c, s)
<1> DEFINE back == Reverse([i \in DOMAIN queue |-> queue[i].ops])
           S == Seq(Ops)
           e == OpsOf(entries)
           line == LineOf(entries, t, queue, l, u, r)
<1>1. e \in S /\ t \in S /\ l \in S /\ u \in S /\ r \in S
  BY OpsOfType
<1>2. back \in Seq(S) /\ \A s : LineRowOf(back, c, s) = QueueRow(queue, c, s)
  BY QueueTurned
<1>3. line = <<e, t>> \o back \o <<l, u, r>>
  BY DEF LineOf
<1>4. \A s : WholeRow(entries, t, queue, l, u, r, c, s)
              = Behind(RowOf(e, c, s), Behind(RowOf(t, c, s),
                       Behind(QueueRow(queue, c, s), WaitRow(l, u, r, c, s))))
  BY DEF WholeRow
<1> HIDE DEF back, S, e, line
<1>5. ASSUME NEW x \in S, NEW y \in S, NEW s
      PROVE  LineRowOf(<<x, y>>, c, s) = Behind(RowOf(x, c, s), RowOf(y, c, s))
  <2> DEFINE one == <<x>>
             two == <<y>>
             both == <<x, y>>
  <2>1. one \in Seq(S) /\ two \in Seq(S) /\ both = one \o two
    <3>1. <<x>> \in Seq(S) /\ <<y>> \in Seq(S)
      OBVIOUS
    <3>2. <<x, y>> = <<x>> \o <<y>>
      BY OneTwo
    <3> QED  BY <3>1, <3>2, Zenon
  <2>2. LineRowOf(one, c, s) = RowOf(x, c, s) /\ LineRowOf(two, c, s) = RowOf(y, c, s)
    BY LineRowOfOne
  <2> HIDE DEF one, two, both
  <2>3. LineRowOf(one \o two, c, s) = Behind(LineRowOf(one, c, s), LineRowOf(two, c, s))
    BY <2>1, LineRowOfConcat
  <2>4. LineRowOf(both, c, s) = Behind(RowOf(x, c, s), RowOf(y, c, s))
    BY <2>1, <2>2, <2>3
  <2> QED  BY <2>4 DEF both
<1>6. ASSUME NEW x \in S, NEW y \in S, NEW z \in S, NEW s
      PROVE  LineRowOf(<<x, y, z>>, c, s)
               = Behind(RowOf(x, c, s), Behind(RowOf(y, c, s), RowOf(z, c, s)))
  <2> DEFINE one == <<x>>
             two == <<y, z>>
             all == <<x, y, z>>
  <2>1. one \in Seq(S) /\ two \in Seq(S) /\ all = one \o two
    BY OneTwoThree
  <2>2. LineRowOf(one, c, s) = RowOf(x, c, s)
    BY LineRowOfOne
  <2>3. LineRowOf(two, c, s) = Behind(RowOf(y, c, s), RowOf(z, c, s))
    BY <1>5
  <2> HIDE DEF one, two, all
  <2>4. LineRowOf(one \o two, c, s) = Behind(LineRowOf(one, c, s), LineRowOf(two, c, s))
    BY <2>1, LineRowOfConcat
  <2>5. LineRowOf(all, c, s) = Behind(RowOf(x, c, s), Behind(RowOf(y, c, s), RowOf(z, c, s)))
    BY <2>1, <2>2, <2>3, <2>4
  <2> QED  BY <2>5 DEF all
<1> DEFINE head == <<e, t>>
           last == <<l, u, r>>
<1>7. head \in Seq(S) /\ last \in Seq(S)
  BY <1>1
<1>8. ASSUME NEW s
      PROVE  LineRowOf(line, c, s) = WholeRow(entries, t, queue, l, u, r, c, s)
  <2> DEFINE er == RowOf(e, c, s)
             tr == RowOf(t, c, s)
             q == QueueRow(queue, c, s)
             w == WaitRow(l, u, r, c, s)
             front == head \o back
  <2>1. LineRowOf(head, c, s) = Behind(er, tr) /\ LineRowOf(last, c, s) = w
    BY <1>1, <1>5, <1>6 DEF WaitRow
  <2>2. er \in Rows /\ tr \in Rows /\ q \in Rows /\ w \in Rows
    BY RowsAreRows, BehindIsRow DEF WaitRow
  <2>3. LineRowOf(back, c, s) = q
    BY <1>2
  <2>4. line = front \o last
    BY <1>3
  <2>5. WholeRow(entries, t, queue, l, u, r, c, s) = Behind(er, Behind(tr, Behind(q, w)))
    BY <1>4
  <2> HIDE DEF er, tr, q, w, head, last
  <2>6. LineRowOf(front, c, s) = Behind(LineRowOf(head, c, s), LineRowOf(back, c, s))
    BY <1>2, <1>7, LineRowOfConcat
  <2>7. front \in Seq(S)
    BY <1>2, <1>7, ConcatProperties
  <2> HIDE DEF front
  <2>8. LineRowOf(front \o last, c, s) = Behind(LineRowOf(front, c, s), LineRowOf(last, c, s))
    BY <1>7, <2>7, LineRowOfConcat
  <2>9. LineRowOf(line, c, s) = Behind(Behind(Behind(er, tr), q), w)
    BY <2>1, <2>3, <2>4, <2>6, <2>8
  <2>10. Behind(Behind(Behind(er, tr), q), w) = Behind(er, Behind(tr, Behind(q, w)))
    <3>1. Behind(q, w) \in Rows /\ Behind(er, tr) \in Rows
      BY <2>2, BehindIsRow
    <3>2. Behind(Behind(er, tr), Behind(q, w)) = Behind(Behind(Behind(er, tr), q), w)
      BY <2>2, <3>1, BehindAssociates
    <3>3. Behind(er, Behind(tr, Behind(q, w))) = Behind(Behind(er, tr), Behind(q, w))
      BY <2>2, <3>1, BehindAssociates
    <3> QED  BY <3>2, <3>3
  <2> QED  BY <2>5, <2>9, <2>10
<1>9. line \in Seq(S)
  <2>1. line = (head \o back) \o last
    BY <1>3
  <2> HIDE DEF head, last
  <2> QED  BY <1>2, <1>7, <2>1, ConcatProperties
<1> QED
  BY <1>8, <1>9 DEF S, line

\* What a step does to the row of one state: y is the whole row after it, x before it;
\* q was on its way back, g had gathered, h has gathered now.
RowKept(x, q, g, y, h) ==
  \A m, n \in Nat :
    /\ <<m, n>> \in y.pairs => m \in x.ids
    /\ <<m, n>> \in x.pairs => IF m \in q.ids /\ n \in g.ids \ h.ids
                                THEN <<n, m>> \in y.pairs
                                ELSE <<m, n>> \in y.pairs

RowsKept(c) ==
  \A s : RowKept(WholeRow(log, Taken(c), stackQ[c], local[c], undo[c], redo[c], c, s),
                 QueueRow(stackQ[c], c, s),
                 WaitRow(local[c], undo[c], redo[c], c, s),
                 WholeRow(log', Taken(c)', stackQ'[c], local'[c], undo'[c], redo'[c], c, s),
                 WaitRow(local'[c], undo'[c], redo'[c], c, s))

LEMMA WaitRowRead ==
  ASSUME NEW l \in Seq(Ops), NEW u \in Seq(Ops), NEW r \in Seq(Ops), NEW c, NEW s, NEW m \in Nat
  PROVE  <<s, m>> \in LabelsIn(c, l) \cup LabelsIn(c, u) \cup LabelsIn(c, r)
           <=> m \in WaitRow(l, u, r, c, s).ids
BY LabelsRead DEF WaitRow, Behind

LEMMA QueueRowRead ==
  ASSUME NEW queue \in Seq(Blocks), NEW c, NEW s, NEW m \in Nat
  PROVE  <<s, m>> \in UNION {LabelsIn(c, queue[i].ops) : i \in DOMAIN queue}
           <=> m \in QueueRow(queue, c, s).ids
<1>1. DOMAIN queue = 1..Len(queue)
  BY LenProperties
<1>2. ASSUME NEW i \in 1..Len(queue)
      PROVE  <<s, m>> \in LabelsIn(c, queue[i].ops) <=> m \in RowOf(queue[i].ops, c, s).ids
  <2>1. queue[i] \in Blocks
    BY ElementOfSeq
  <2>2. queue[i].ops \in Seq(Ops)
    BY <2>1 DEF Blocks
  <2> QED  BY <2>2, LabelsRead
<1> QED
  BY <1>1, <1>2 DEF QueueRow

\* The line is kept if its rows are.
LineKeptFor(c) ==
  /\ \A pair \in Precedence(Line(c)', c) : pair[1] \in Labels(Line(c), c)
  /\ \A pair \in Precedence(Line(c), c) :
       IF pair[1] \in Returning(c) /\ pair[2] \in Gathered(c) \ Gathered(c)'
         THEN <<pair[2], pair[1]>> \in Precedence(Line(c)', c)
         ELSE pair \in Precedence(Line(c)', c)

LEMMA LineByRows ==
  ASSUME TypeOK, TypeOK', NEW c \in Clients, RowsKept(c)
  PROVE  LineKeptFor(c)
<1> DEFINE line == LineOf(log, Taken(c), stackQ[c], local[c], undo[c], redo[c])
           next == LineOf(log', Taken(c)', stackQ'[c], local'[c], undo'[c], redo'[c])
           x(s) == WholeRow(log, Taken(c), stackQ[c], local[c], undo[c], redo[c], c, s)
           y(s) == WholeRow(log', Taken(c)', stackQ'[c], local'[c], undo'[c], redo'[c], c, s)
           q(s) == QueueRow(stackQ[c], c, s)
           g(s) == WaitRow(local[c], undo[c], redo[c], c, s)
           h(s) == WaitRow(local'[c], undo'[c], redo'[c], c, s)
           back == Returning(c)
           waiting == Gathered(c)
           still == Gathered(c)'
<1>1. Line(c) = line /\ Line(c)' = next
  BY DEF Line, LineOf, OpsOf
<1>2. /\ log \in Logs /\ Taken(c) \in Seq(Ops) /\ stackQ[c] \in Seq(Blocks)
      /\ local[c] \in Seq(Ops) /\ undo[c] \in Seq(Ops) /\ redo[c] \in Seq(Ops)
  BY EmptySeq DEF TypeOK, Taken, Logs
<1>3. /\ log' \in Logs /\ Taken(c)' \in Seq(Ops) /\ stackQ'[c] \in Seq(Blocks)
      /\ local'[c] \in Seq(Ops) /\ undo'[c] \in Seq(Ops) /\ redo'[c] \in Seq(Ops)
  BY EmptySeq DEF TypeOK, Taken, Logs
<1>4. line \in Seq(Seq(Ops)) /\ \A s : LineRowOf(line, c, s) = x(s)
  <2> DEFINE e == log
             t == Taken(c)
             queue == stackQ[c]
             l == local[c]
             u == undo[c]
             r == redo[c]
  <2>1. /\ e \in Logs /\ t \in Seq(Ops) /\ queue \in Seq(Blocks)
        /\ l \in Seq(Ops) /\ u \in Seq(Ops) /\ r \in Seq(Ops)
    BY <1>2
  <2> HIDE DEF e, t, queue, l, u, r
  <2>2. /\ LineOf(e, t, queue, l, u, r) \in Seq(Seq(Ops))
        /\ \A s : LineRowOf(LineOf(e, t, queue, l, u, r), c, s)
                    = WholeRow(e, t, queue, l, u, r, c, s)
    BY <2>1, LineOfRows
  <2> QED  BY <2>2 DEF e, t, queue, l, u, r
<1>5. next \in Seq(Seq(Ops)) /\ \A s : LineRowOf(next, c, s) = y(s)
  <2> DEFINE e == log'
             t == Taken(c)'
             queue == stackQ'[c]
             l == local'[c]
             u == undo'[c]
             r == redo'[c]
  <2>1. /\ e \in Logs /\ t \in Seq(Ops) /\ queue \in Seq(Blocks)
        /\ l \in Seq(Ops) /\ u \in Seq(Ops) /\ r \in Seq(Ops)
    BY <1>3
  <2> HIDE DEF e, t, queue, l, u, r
  <2>2. /\ LineOf(e, t, queue, l, u, r) \in Seq(Seq(Ops))
        /\ \A s : LineRowOf(LineOf(e, t, queue, l, u, r), c, s)
                    = WholeRow(e, t, queue, l, u, r, c, s)
    BY <2>1, LineOfRows
  <2> QED  BY <2>2 DEF e, t, queue, l, u, r
<1>6. \A s : \A m \in Nat : /\ <<s, m>> \in waiting <=> m \in g(s).ids
                            /\ <<s, m>> \in still <=> m \in h(s).ids
                            /\ <<s, m>> \in back <=> m \in q(s).ids
  <2>1. /\ waiting = LabelsIn(c, local[c]) \cup LabelsIn(c, undo[c]) \cup LabelsIn(c, redo[c])
        /\ still = LabelsIn(c, local'[c]) \cup LabelsIn(c, undo'[c]) \cup LabelsIn(c, redo'[c])
        /\ back = UNION {LabelsIn(c, stackQ[c][i].ops) : i \in DOMAIN stackQ[c]}
    BY DEF Gathered, Returning
  <2> HIDE DEF waiting, still, back
  <2> SUFFICES ASSUME NEW s, NEW m \in Nat
               PROVE  /\ <<s, m>> \in waiting <=> m \in g(s).ids
                      /\ <<s, m>> \in still <=> m \in h(s).ids
                      /\ <<s, m>> \in back <=> m \in q(s).ids
    OBVIOUS
  <2>2. <<s, m>> \in waiting <=> m \in g(s).ids
    BY <1>2, <2>1, WaitRowRead
  <2>3. <<s, m>> \in still <=> m \in h(s).ids
    BY <1>3, <2>1, WaitRowRead
  <2>4. <<s, m>> \in back <=> m \in q(s).ids
    BY <1>2, <2>1, QueueRowRead
  <2> QED  BY <2>2, <2>3, <2>4
<1>7. \A s : RowKept(x(s), q(s), g(s), y(s), h(s))
  BY DEF RowsKept
<1> HIDE DEF line, next, x, y, q, g, h, back, waiting, still
<1>8. ASSUME NEW pair \in Precedence(next, c)
      PROVE  pair[1] \in Labels(line, c)
  <2>1. \E s : \E m, n \in Nat :
          pair = <<<<s, m>>, <<s, n>>>> /\ <<m, n>> \in LineRowOf(next, c, s).pairs
    BY <1>5, PrecedenceRead
  <2>2. PICK s : \E m, n \in Nat :
          pair = <<<<s, m>>, <<s, n>>>> /\ <<m, n>> \in LineRowOf(next, c, s).pairs
    BY <2>1
  <2>3. PICK m \in Nat, n \in Nat :
          pair = <<<<s, m>>, <<s, n>>>> /\ <<m, n>> \in LineRowOf(next, c, s).pairs
    BY <2>2
  <2>4. m \in x(s).ids
    BY <1>5, <1>7, <2>3 DEF RowKept
  <2>5. <<s, m>> \in Labels(line, c)
    BY <1>4, <2>4, PrecedenceRead
  <2> QED  BY <2>3, <2>5
<1>9. ASSUME NEW pair \in Precedence(line, c)
      PROVE  IF pair[1] \in back /\ pair[2] \in waiting \ still
               THEN <<pair[2], pair[1]>> \in Precedence(next, c)
               ELSE pair \in Precedence(next, c)
  <2>1. \E s : \E m, n \in Nat :
          pair = <<<<s, m>>, <<s, n>>>> /\ <<m, n>> \in LineRowOf(line, c, s).pairs
    BY <1>4, PrecedenceRead
  <2>2. PICK s : \E m, n \in Nat :
          pair = <<<<s, m>>, <<s, n>>>> /\ <<m, n>> \in LineRowOf(line, c, s).pairs
    BY <2>1
  <2>3. PICK m \in Nat, n \in Nat :
          pair = <<<<s, m>>, <<s, n>>>> /\ <<m, n>> \in LineRowOf(line, c, s).pairs
    BY <2>2
  <2>4. IF m \in q(s).ids /\ n \in g(s).ids \ h(s).ids
          THEN <<n, m>> \in y(s).pairs
          ELSE <<m, n>> \in y(s).pairs
    BY <1>4, <1>7, <2>3 DEF RowKept
  <2>5. \A k, l \in Nat : <<k, l>> \in y(s).pairs => <<<<s, k>>, <<s, l>>>> \in Precedence(next, c)
    BY <1>5, PrecedenceRead
  <2>6. pair[1] = <<s, m>> /\ pair[2] = <<s, n>>
    BY <2>3
  <2>7. (m \in q(s).ids <=> pair[1] \in back) /\ (n \in g(s).ids \ h(s).ids <=> pair[2] \in waiting \ still)
    BY <1>6, <2>6
  <2>8. CASE m \in q(s).ids /\ n \in g(s).ids \ h(s).ids
    <3>1. <<<<s, n>>, <<s, m>>>> \in Precedence(next, c)
      BY <2>4, <2>5, <2>8
    <3> QED  BY <2>6, <2>7, <2>8, <3>1
  <2>9. CASE ~(m \in q(s).ids /\ n \in g(s).ids \ h(s).ids)
    <3>1. pair \in Precedence(next, c)
      BY <2>3, <2>4, <2>5, <2>9
    <3> QED  BY <2>7, <2>9, <3>1
  <2> QED  BY <2>8, <2>9
<1> QED
  BY <1>1, <1>8, <1>9 DEF LineKeptFor, back, waiting, still

\* The ways of a row.
LEMMA SameKept ==
  ASSUME NEW x \in Rows, NEW q, NEW g, NEW h, g.ids \subseteq h.ids
  PROVE  RowKept(x, q, g, x, h)
BY DEF RowKept, Rows

LEMMA NewKept ==
  ASSUME NEW x \in Rows, NEW one \in Rows, one.pairs = {}, NEW q, NEW g, NEW h,
         g.ids \subseteq h.ids
  PROVE  RowKept(x, q, g, Behind(x, one), h)
BY DEF RowKept, Rows, Behind

LEMMA TickKept ==
  ASSUME NEW a \in Rows, NEW q \in Rows, NEW g \in Rows
  PROVE  RowKept(Behind(a, Behind(q, g)), q, g, Behind(a, Behind(g, q)), NoOne)
BY DEF RowKept, Rows, Behind, NoOne

LEMMA RowMoves ==
  ASSUME NEW l \in Rows, NEW t \in Rows, NEW q \in Rows, NEW w \in Rows
  PROVE  \* broadcast by the timer, refused
         /\ RowKept(Behind(l, Behind(t, Behind(q, w))), q, w,
                    Behind(Behind(l, t), Behind(NoOne, Behind(q, w))), w)
         /\ RowKept(Behind(l, Behind(t, Behind(q, w))), q, w,
                    Behind(l, Behind(NoOne, Behind(Behind(t, q), w))), w)
         \* taken by the timer, broadcast at once, refused at once
         /\ RowKept(Behind(l, Behind(NoOne, Behind(q, w))), q, w,
                    Behind(l, Behind(w, Behind(q, NoOne))), NoOne)
         /\ RowKept(Behind(l, Behind(NoOne, Behind(q, w))), q, w,
                    Behind(Behind(l, w), Behind(NoOne, Behind(q, NoOne))), NoOne)
         /\ RowKept(Behind(l, Behind(NoOne, Behind(q, w))), q, w,
                    Behind(l, Behind(NoOne, Behind(Behind(w, q), NoOne))), NoOne)
<1> DEFINE x == Behind(l, Behind(t, Behind(q, w)))
           y == Behind(l, Behind(q, w))
           z == Behind(l, Behind(w, q))
<1>1. /\ Behind(q, w) \in Rows /\ Behind(t, Behind(q, w)) \in Rows
      /\ Behind(w, q) \in Rows
      /\ x \in Rows /\ y \in Rows
  BY BehindIsRow
<1>2. x = Behind(Behind(l, t), Behind(NoOne, Behind(q, w)))
  BY <1>1, BehindNoOne, BehindAssociates
<1>3. x = Behind(l, Behind(NoOne, Behind(Behind(t, q), w)))
  <2>1. Behind(Behind(t, q), w) = Behind(t, Behind(q, w))
    BY BehindAssociates
  <2> QED  BY <1>1, <2>1, BehindNoOne
<1>4. y = Behind(l, Behind(NoOne, Behind(q, w)))
  BY <1>1, BehindNoOne
<1>5. z = Behind(l, Behind(w, Behind(q, NoOne)))
  BY BehindNoOne
<1>6. z = Behind(Behind(l, w), Behind(NoOne, Behind(q, NoOne)))
  BY BehindNoOne, BehindAssociates
<1>7. z = Behind(l, Behind(NoOne, Behind(Behind(w, q), NoOne)))
  BY <1>1, BehindNoOne
<1>8. RowKept(y, q, w, z, NoOne)
  BY TickKept
<1> HIDE DEF x, y, z
<1>9. RowKept(x, q, w, x, w)
  BY <1>1, SameKept
<1> QED
  BY <1>2, <1>3, <1>4, <1>5, <1>6, <1>7, <1>8, <1>9 DEF x

\* ... made by the user, put back by the stack queue.
LEMMA RowMovesBack ==
  ASSUME NEW l \in Rows, NEW t \in Rows, NEW q \in Rows, NEW w \in Rows, NEW b \in Rows
  PROVE  /\ b.pairs = {} =>
              RowKept(Behind(l, Behind(t, Behind(q, w))), q, w,
                      Behind(l, Behind(t, Behind(q, Behind(w, b)))), Behind(w, b))
         /\ RowKept(Behind(l, Behind(t, Behind(Behind(q, b), w))), Behind(q, b), w,
                    Behind(l, Behind(t, Behind(q, Behind(b, w)))), Behind(b, w))
<1> DEFINE x == Behind(l, Behind(t, Behind(q, w)))
           y == Behind(l, Behind(t, Behind(Behind(q, b), w)))
           h == Behind(w, b)
           k == Behind(b, w)
           p == Behind(q, b)
<1>1. /\ Behind(q, w) \in Rows /\ Behind(t, Behind(q, w)) \in Rows
      /\ x \in Rows /\ h \in Rows /\ k \in Rows /\ p \in Rows
  BY BehindIsRow
<1>2. w.ids \subseteq h.ids /\ w.ids \subseteq k.ids
  BY DEF Behind
<1>3. Behind(x, b) = Behind(l, Behind(t, Behind(q, h)))
  <2>1. Behind(Behind(q, w), b) = Behind(q, Behind(w, b))
    BY BehindAssociates
  <2>2. Behind(Behind(t, Behind(q, w)), b) = Behind(t, Behind(Behind(q, w), b))
    BY <1>1, BehindAssociates
  <2>3. Behind(x, b) = Behind(l, Behind(Behind(t, Behind(q, w)), b))
    BY <1>1, BehindAssociates
  <2> QED  BY <2>1, <2>2, <2>3
<1>4. y = Behind(l, Behind(t, Behind(q, k)))
  BY BehindAssociates
<1>5. y \in Rows
  BY <1>1, BehindIsRow
<1> HIDE DEF x, y, h, k, p
<1>6. b.pairs = {} => RowKept(x, q, w, Behind(x, b), h)
  BY <1>1, <1>2, NewKept
<1>7. RowKept(y, p, w, y, k)
  BY <1>2, <1>5, SameKept
<1> QED
  BY <1>3, <1>4, <1>6, <1>7 DEF x, y, h, k, p

-----------------------------------------------------------------------------
\* What waits in each place has the states that belong there.
OpsIn(S) == {op \in Ops : op.state \in S}

LineBlocks ==
  {b \in Blocks : /\ b.kind = "new" => b.ops = << >>
                  /\ b.kind = "local" => b.ops \in Seq(OpsIn({"LOCAL"}))
                  /\ b.kind = "undoRedo" => b.ops \in Seq(OpsIn({"UNDO", "REDO"}))}

Lined(c) ==
  /\ local[c] \in Seq(OpsIn({"LOCAL"})) /\ batch[c] \in Seq(OpsIn({"LOCAL"}))
  /\ undo[c] \in Seq(OpsIn({"UNDO"})) /\ redo[c] \in Seq(OpsIn({"REDO"}))
  /\ stackQ[c] \in Seq(LineBlocks)

LineInv == DeliveryInv /\ \A c \in Clients : Lined(c)

LEMMA OpsInState ==
  ASSUME NEW S, NEW ops \in Seq(OpsIn(S))
  PROVE  /\ ops \in Seq(Ops)
         /\ \A i \in 1..Len(ops) : ops[i] \in Ops /\ ops[i].state \in S
<1>1. \A i \in 1..Len(ops) : ops[i] \in OpsIn(S)
  BY ElementOfSeq
<1>2. ops \in Seq(Ops)
  BY DEF OpsIn
<1> QED
  BY <1>1, <1>2 DEF OpsIn

LEMMA OpsInMore ==
  ASSUME NEW S, NEW T, S \subseteq T, NEW ops \in Seq(OpsIn(S))
  PROVE  ops \in Seq(OpsIn(T))
<1>1. OpsIn(S) \subseteq OpsIn(T)
  BY DEF OpsIn
<1> QED
  BY <1>1

LEMMA RowOfMarked ==
  ASSUME NEW S, NEW ops \in Seq(OpsIn(S)), NEW c, NEW s, s \notin S
  PROVE  RowOf(ops, c, s) = NoOne
BY OpsInState, RowElsewhere

LEMMA WaitRowMarked ==
  ASSUME NEW l \in Seq(OpsIn({"LOCAL"})), NEW u \in Seq(OpsIn({"UNDO"})),
         NEW r \in Seq(OpsIn({"REDO"})), NEW c, NEW s
  PROVE  WaitRow(l, u, r, c, s) = IF s = "LOCAL" THEN RowOf(l, c, s) ELSE RowOf(u \o r, c, s)
<1>1. l \in Seq(Ops) /\ u \in Seq(Ops) /\ r \in Seq(Ops)
  BY OpsInState
<1>2. RowOf(l, c, s) \in Rows /\ RowOf(u, c, s) \in Rows /\ RowOf(r, c, s) \in Rows
  BY RowsAreRows
<1>3. CASE s = "LOCAL"
  <2>1. RowOf(u, c, s) = NoOne /\ RowOf(r, c, s) = NoOne
    BY <1>3, RowOfMarked
  <2> QED  BY <1>2, <1>3, <2>1, BehindNoOne DEF WaitRow
<1>4. CASE s # "LOCAL"
  <2>1. RowOf(l, c, s) = NoOne
    BY <1>4, RowOfMarked
  <2>2. RowOf(u \o r, c, s) = Behind(RowOf(u, c, s), RowOf(r, c, s))
    BY <1>1, RowOfConcat
  <2>3. Behind(RowOf(u, c, s), RowOf(r, c, s)) \in Rows
    BY <1>2, BehindIsRow
  <2> QED  BY <1>4, <2>1, <2>2, <2>3, BehindNoOne DEF WaitRow
<1> QED
  BY <1>3, <1>4

LEMMA WaitRowGrows ==
  ASSUME NEW l \in Seq(OpsIn({"LOCAL"})), NEW u \in Seq(OpsIn({"UNDO"})),
         NEW r \in Seq(OpsIn({"REDO"})), NEW c, NEW s, NEW op \in Ops
  PROVE  /\ op.state = "LOCAL" =>
              WaitRow(Append(l, op), u, r, c, s) = Behind(WaitRow(l, u, r, c, s), RowOf(<<op>>, c, s))
         /\ op.state = "UNDO" =>
              WaitRow(l, Append(u, op), r, c, s) = Behind(WaitRow(l, u, r, c, s), RowOf(<<op>>, c, s))
         /\ op.state = "REDO" =>
              WaitRow(l, u, Append(r, op), c, s) = Behind(WaitRow(l, u, r, c, s), RowOf(<<op>>, c, s))
<1> DEFINE lr == RowOf(l, c, s)
           ur == RowOf(u, c, s)
           rr == RowOf(r, c, s)
           one == RowOf(<<op>>, c, s)
<1>1. l \in Seq(Ops) /\ u \in Seq(Ops) /\ r \in Seq(Ops)
  BY OpsInState
<1>2. lr \in Rows /\ ur \in Rows /\ rr \in Rows /\ one \in Rows
  BY RowsAreRows
<1>3. /\ RowOf(Append(l, op), c, s) = Behind(lr, one)
      /\ RowOf(Append(u, op), c, s) = Behind(ur, one)
      /\ RowOf(Append(r, op), c, s) = Behind(rr, one)
      /\ s # op.state => one = NoOne
  BY <1>1, RowOfAppend
<1>4. /\ s # "LOCAL" => lr = NoOne
      /\ s # "UNDO" => ur = NoOne
      /\ s # "REDO" => rr = NoOne
  BY RowOfMarked
<1>5. /\ WaitRow(l, u, r, c, s) = Behind(lr, Behind(ur, rr))
      /\ WaitRow(Append(l, op), u, r, c, s) = Behind(Behind(lr, one), Behind(ur, rr))
      /\ WaitRow(l, Append(u, op), r, c, s) = Behind(lr, Behind(Behind(ur, one), rr))
      /\ WaitRow(l, u, Append(r, op), c, s) = Behind(lr, Behind(ur, Behind(rr, one)))
  BY <1>3 DEF WaitRow
<1> HIDE DEF lr, ur, rr, one
<1>6. Behind(ur, rr) \in Rows /\ Behind(lr, Behind(ur, rr)) \in Rows /\ NoOne \in Rows
  BY <1>2, BehindIsRow, BehindNoOne
<1>7. CASE one = NoOne
  <2>1. /\ Behind(lr, one) = lr /\ Behind(ur, one) = ur /\ Behind(rr, one) = rr
        /\ Behind(Behind(lr, Behind(ur, rr)), one) = Behind(lr, Behind(ur, rr))
    BY <1>2, <1>6, <1>7, BehindNoOne
  <2> QED  BY <1>5, <2>1 DEF one
<1>8. CASE s = op.state
  <2>1. CASE op.state = "LOCAL"
    <3>1. ur = NoOne /\ rr = NoOne
      BY <1>4, <1>8, <2>1
    <3>2. Behind(ur, rr) = NoOne
      BY <1>2, <3>1, BehindNoOne
    <3>3. Behind(lr, one) \in Rows
      BY <1>2, BehindIsRow
    <3>4. /\ Behind(Behind(lr, one), NoOne) = Behind(lr, one)
          /\ Behind(lr, NoOne) = lr
      BY <1>2, <3>3, BehindNoOne
    <3> QED  BY <1>5, <2>1, <3>2, <3>4 DEF one
  <2>2. CASE op.state = "UNDO"
    <3>1. lr = NoOne /\ rr = NoOne
      BY <1>4, <1>8, <2>2
    <3>2. Behind(ur, one) \in Rows
      BY <1>2, BehindIsRow
    <3>3. /\ Behind(ur, NoOne) = ur /\ Behind(NoOne, ur) = ur
          /\ Behind(Behind(ur, one), NoOne) = Behind(ur, one)
          /\ Behind(NoOne, Behind(ur, one)) = Behind(ur, one)
      BY <1>2, <3>2, BehindNoOne
    <3> QED  BY <1>5, <2>2, <3>1, <3>3 DEF one
  <2>3. CASE op.state = "REDO"
    <3>1. lr = NoOne /\ ur = NoOne
      BY <1>4, <1>8, <2>3
    <3>2. Behind(rr, one) \in Rows
      BY <1>2, BehindIsRow
    <3>3. /\ Behind(NoOne, rr) = rr
          /\ Behind(NoOne, Behind(rr, one)) = Behind(rr, one)
      BY <1>2, <3>2, BehindNoOne
    <3> QED  BY <1>5, <2>3, <3>1, <3>3 DEF one
  <2> QED  BY <2>1, <2>2, <2>3
<1> QED
  BY <1>3, <1>7, <1>8

LEMMA LocalReturned ==
  ASSUME NEW l \in Seq(OpsIn({"LOCAL"})), NEW u \in Seq(Ops), NEW r \in Seq(Ops), NEW c, NEW s,
         NEW ops \in Seq(OpsIn({"LOCAL"}))
  PROVE  WaitRow(ops \o l, u, r, c, s) = Behind(RowOf(ops, c, s), WaitRow(l, u, r, c, s))
<1> DEFINE lr == RowOf(l, c, s)
           ur == RowOf(u, c, s)
           rr == RowOf(r, c, s)
           b == RowOf(ops, c, s)
<1>1. l \in Seq(Ops) /\ ops \in Seq(Ops)
  BY OpsInState
<1>2. lr \in Rows /\ ur \in Rows /\ rr \in Rows /\ b \in Rows
  BY RowsAreRows
<1>3. WaitRow(l, u, r, c, s) = Behind(lr, Behind(ur, rr))
  BY DEF WaitRow
<1>4. WaitRow(ops \o l, u, r, c, s) = Behind(Behind(b, lr), Behind(ur, rr))
  BY <1>1, RowOfConcat DEF WaitRow
<1> HIDE DEF lr, ur, rr, b
<1>5. Behind(ur, rr) \in Rows
  BY <1>2, BehindIsRow
<1>6. Behind(b, Behind(lr, Behind(ur, rr))) = Behind(Behind(b, lr), Behind(ur, rr))
  BY <1>2, <1>5, BehindAssociates
<1> SUFFICES WaitRow(ops \o l, u, r, c, s) = Behind(b, WaitRow(l, u, r, c, s))
  BY DEF b
<1> QED
  BY <1>3, <1>4, <1>6

LEMMA UndoAndRedoReturned ==
  ASSUME NEW l \in Seq(OpsIn({"LOCAL"})), NEW u \in Seq(OpsIn({"UNDO"})),
         NEW r \in Seq(OpsIn({"REDO"})), NEW ops \in Seq(OpsIn({"UNDO", "REDO"})),
         NEW undone \in Seq(Ops), NEW redone \in Seq(Ops), NEW c, NEW s,
         RowOf(undone, c, s) = IF s = "UNDO" THEN RowOf(ops, c, s) ELSE NoOne,
         RowOf(redone, c, s) = IF s = "REDO" THEN RowOf(ops, c, s) ELSE NoOne
  PROVE  WaitRow(l, undone \o u, redone \o r, c, s)
           = Behind(RowOf(ops, c, s), WaitRow(l, u, r, c, s))
<1> DEFINE lr == RowOf(l, c, s)
           ur == RowOf(u, c, s)
           rr == RowOf(r, c, s)
           b == RowOf(ops, c, s)
           x == RowOf(undone, c, s)
           y == RowOf(redone, c, s)
           un == undone \o u
           re == redone \o r
<1>1. u \in Seq(Ops) /\ r \in Seq(Ops)
  BY OpsInState
<1>2. lr \in Rows /\ ur \in Rows /\ rr \in Rows /\ b \in Rows /\ NoOne \in Rows
  BY RowsAreRows, BehindNoOne
<1>3. /\ s # "LOCAL" => lr = NoOne
      /\ s # "UNDO" => ur = NoOne
      /\ s # "REDO" => rr = NoOne
      /\ s \notin {"UNDO", "REDO"} => b = NoOne
  BY RowOfMarked
<1>4. RowOf(un, c, s) = Behind(x, ur) /\ RowOf(re, c, s) = Behind(y, rr)
  BY <1>1, RowOfConcat
<1> HIDE DEF un, re
<1>5. /\ WaitRow(l, u, r, c, s) = Behind(lr, Behind(ur, rr))
      /\ WaitRow(l, un, re, c, s) = Behind(lr, Behind(RowOf(un, c, s), RowOf(re, c, s)))
  BY DEF WaitRow
<1> SUFFICES WaitRow(l, un, re, c, s) = Behind(b, WaitRow(l, u, r, c, s))
  BY DEF un, re
<1>7. /\ x = IF s = "UNDO" THEN b ELSE NoOne
      /\ y = IF s = "REDO" THEN b ELSE NoOne
  OBVIOUS
<1> HIDE DEF lr, ur, rr, b, x, y
<1>6. Behind(lr, Behind(Behind(x, ur), Behind(y, rr))) = Behind(b, Behind(lr, Behind(ur, rr)))
  <2>1. CASE s = "UNDO"
    <3>1. x = b /\ y = NoOne /\ lr = NoOne /\ rr = NoOne
      BY <1>3, <1>7, <2>1
    <3>2. Behind(b, ur) \in Rows
      BY <1>2, BehindIsRow
    <3>3. /\ Behind(NoOne, NoOne) = NoOne
          /\ Behind(Behind(b, ur), NoOne) = Behind(b, ur)
          /\ Behind(NoOne, Behind(b, ur)) = Behind(b, ur)
          /\ Behind(ur, NoOne) = ur /\ Behind(NoOne, ur) = ur
      BY <1>2, <3>2, BehindNoOne
    <3> QED  BY <3>1, <3>3
  <2>2. CASE s = "REDO"
    <3>1. x = NoOne /\ y = b /\ lr = NoOne /\ ur = NoOne
      BY <1>3, <1>7, <2>2
    <3>2. Behind(b, rr) \in Rows
      BY <1>2, BehindIsRow
    <3>3. /\ Behind(NoOne, NoOne) = NoOne
          /\ Behind(NoOne, Behind(b, rr)) = Behind(b, rr)
          /\ Behind(NoOne, rr) = rr
      BY <1>2, <3>2, BehindNoOne
    <3> QED  BY <3>1, <3>3
  <2>3. CASE s \notin {"UNDO", "REDO"}
    <3>1. x = NoOne /\ y = NoOne /\ b = NoOne
      BY <1>3, <1>7, <2>3
    <3>2. Behind(lr, Behind(ur, rr)) \in Rows
      BY <1>2, BehindIsRow
    <3>3. /\ Behind(NoOne, ur) = ur /\ Behind(NoOne, rr) = rr
          /\ Behind(NoOne, Behind(lr, Behind(ur, rr))) = Behind(lr, Behind(ur, rr))
      BY <1>2, <3>2, BehindNoOne
    <3> QED  BY <3>1, <3>3
  <2> QED  BY <2>1, <2>2, <2>3
<1> QED
  BY <1>4, <1>5, <1>6

\* A broadcast puts its operations at the end of the session.
LEMMA LogRowGrows ==
  ASSUME TypeOK, NEW ops \in Seq(Ops), log' = log \o Event(ops)
  PROVE  \A c, s : RowOf(OpsOf(log'), c, s) = Behind(RowOf(OpsOf(log), c, s), RowOf(ops, c, s))
<1> DEFINE event == Event(ops)
           longer == log \o event
           m == Len(log)
           n == Len(ops)
<1>1. /\ log \in Logs /\ m \in Nat /\ event \in Logs /\ Len(event) = n /\ n \in Nat
      /\ \A i \in 1..n : event[i].op = ops[i]
      /\ longer \in Logs
  BY EventType
<1>2. /\ Len(longer) = m + n
      /\ \A i \in 1..(m + n) : longer[i] = IF i <= m THEN log[i] ELSE event[i - m]
  <2> DEFINE R == [op : Ops, order : Nat]
  <2>1. log \in Seq(R) /\ event \in Seq(R)
    BY <1>1 DEF Logs
  <2> HIDE DEF event, R, m, n
  <2>2. /\ Len(longer) = Len(log) + Len(event)
        /\ \A i \in 1..(Len(log) + Len(event)) :
             longer[i] = IF i <= Len(log) THEN log[i] ELSE event[i - Len(log)]
    BY <2>1, ConcatProperties
  <2>3. Len(log) = m /\ Len(event) = n
    BY <1>1 DEF m
  <2> HIDE DEF longer
  <2> QED  BY <2>2, <2>3
<1>3. /\ OpsOf(log) \in Seq(Ops) /\ Len(OpsOf(log)) = m
      /\ \A k \in 1..m : OpsOf(log)[k] = log[k].op
  BY <1>1, OpsOfType
<1>4. /\ OpsOf(longer) \in Seq(Ops) /\ Len(OpsOf(longer)) = m + n
      /\ \A k \in 1..(m + n) : OpsOf(longer)[k] = longer[k].op
  <2> HIDE DEF longer
  <2> QED  BY <1>1, <1>2, OpsOfType
<1> DEFINE all == OpsOf(log) \o ops
<1>5. /\ all \in Seq(Ops) /\ Len(all) = m + n
      /\ \A i \in 1..(m + n) : all[i] = IF i <= m THEN OpsOf(log)[i] ELSE ops[i - m]
  <2> DEFINE front == OpsOf(log)
  <2>1. front \in Seq(Ops) /\ Len(front) = m
    BY <1>3
  <2> HIDE DEF front, m
  <2>2. /\ front \o ops \in Seq(Ops) /\ Len(front \o ops) = Len(front) + Len(ops)
        /\ \A i \in 1..(Len(front) + Len(ops)) :
             (front \o ops)[i] = IF i <= Len(front) THEN front[i] ELSE ops[i - Len(front)]
    BY <2>1, ConcatProperties
  <2> QED  BY <2>1, <2>2 DEF front
<1> HIDE DEF longer, event, m, n, all
<1>6. \A i \in 1..(m + n) : OpsOf(longer)[i] = all[i]
  <2> SUFFICES ASSUME NEW i \in 1..(m + n)  PROVE OpsOf(longer)[i] = all[i]
    OBVIOUS
  <2>1. CASE i <= m
    <3>1. i \in 1..m
      BY <1>1, <2>1
    <3> QED  BY <1>2, <1>3, <1>4, <1>5, <2>1, <3>1
  <2>2. CASE ~(i <= m)
    <3>1. i - m \in 1..n
      BY <1>1, <2>2
    <3> QED  BY <1>1, <1>2, <1>4, <1>5, <2>2, <3>1
  <2> QED  BY <2>1, <2>2
<1>7. OpsOf(longer) = all
  BY <1>4, <1>5, <1>6, SeqEqual
<1>8. OpsOf(log') = OpsOf(longer)
  BY DEF longer, event
<1>9. \A c, s : RowOf(all, c, s) = Behind(RowOf(OpsOf(log), c, s), RowOf(ops, c, s))
  BY <1>3, RowOfConcat DEF all
<1> QED
  BY <1>7, <1>8, <1>9

\* New events have no operations on their way back.
LEMMA QueueRowOfEvents ==
  ASSUME NEW queue \in Seq(Blocks), NEW new \in Seq(Blocks),
         \A i \in 1..Len(new) : new[i].ops = << >>
  PROVE  \A c, s : QueueRow(queue \o new, c, s) = QueueRow(queue, c, s)
<1> SUFFICES ASSUME NEW c, NEW s
             PROVE  QueueRow(queue \o new, c, s) = QueueRow(queue, c, s)
  OBVIOUS
<1> DEFINE n == Len(queue)
           k == Len(new)
           longer == queue \o new
           y == QueueRow(queue, c, s)
           z == QueueRow(longer, c, s)
           Has(b, a) == a \in RowOf(b.ops, c, s).ids
           Both(b, p) == p \in RowOf(b.ops, c, s).pairs
<1>1. /\ n \in Nat /\ k \in Nat /\ Len(longer) = n + k
      /\ \A i \in 1..(n + k) : longer[i] = IF i <= n THEN queue[i] ELSE new[i - n]
  BY ConcatProperties, LenProperties
<1>2. /\ \A a \in Nat : a \in y.ids <=> \E i \in 1..n : Has(queue[i], a)
      /\ \A a, b \in Nat : <<a, b>> \in y.pairs <=>
           \/ \E i \in 1..n : Both(queue[i], <<a, b>>)
           \/ \E i, j \in 1..n : i < j /\ Has(queue[j], a) /\ Has(queue[i], b)
      /\ \A a \in Nat : a \in z.ids <=> \E i \in 1..Len(longer) : Has(longer[i], a)
      /\ \A a, b \in Nat : <<a, b>> \in z.pairs <=>
           \/ \E i \in 1..Len(longer) : Both(longer[i], <<a, b>>)
           \/ \E i, j \in 1..Len(longer) : i < j /\ Has(longer[j], a) /\ Has(longer[i], b)
  BY DEF QueueRow
<1>3. y \in Rows /\ z \in Rows
  BY RowsAreRows
<1>4. \A i \in 1..k : \A a : ~Has(new[i], a) /\ ~Both(new[i], a)
  BY RowOfEmpty DEF NoOne
<1> HIDE DEF n, k, longer, y, z, Has, Both
<1>5. /\ \A i \in 1..n : i \in 1..(n + k) /\ longer[i] = queue[i]
      /\ \A i \in 1..(n + k) : \/ i \in 1..n /\ longer[i] = queue[i]
                               \/ i - n \in 1..k /\ longer[i] = new[i - n]
  BY <1>1
<1>6. \A i \in 1..(n + k) : \A a : Has(longer[i], a) \/ Both(longer[i], a) => i \in 1..n /\ longer[i] = queue[i]
  BY <1>4, <1>5
<1>7. \A a \in Nat : a \in z.ids <=> a \in y.ids
  BY <1>1, <1>2, <1>5, <1>6
<1>8. \A a, b \in Nat : <<a, b>> \in z.pairs <=> <<a, b>> \in y.pairs
  BY <1>1, <1>2, <1>5, <1>6
<1>9. z = y
  BY <1>3, <1>7, <1>8, RowsEqual
<1> QED
  BY <1>9 DEF z, y, longer
-----------------------------------------------------------------------------
\* What a step has to show: every device keeps its line and its states.
LineStep == \A d \in Clients : Lined(d)' /\ (alive'[d] => RowsKept(d))

OthersAside(c) ==
  \A d \in Clients : d # c =>
    /\ local'[d] = local[d] /\ undo'[d] = undo[d] /\ redo'[d] = redo[d]
    /\ batch'[d] = batch[d] /\ timer'[d] = timer[d] /\ stackQ'[d] = stackQ[d]

\* What c broadcasts is nobody else's.
LEMMA OfNobodyElse ==
  ASSUME OneAuthor, NEW c \in Clients, NEW d \in Clients, d # c, NEW ops,
         Ids(ops) \subseteq Held(c)
  PROVE  \A s : RowOf(ops, d, s) = NoOne
<1>1. ASSUME NEW i \in 1..Len(ops)
      PROVE  ops[i].participantID # d
  <2>1. Identity(ops[i]) \in Held(c)
    BY DEF Ids
  <2>2. Identity(ops[i])[1] \in {c, NoParticipant}
    BY <2>1 DEF OneAuthor
  <2> QED  BY <2>2, ParticipantAssumption DEF Identity
<1> QED
  BY <1>1, RowElsewhere

LEMMA StepOfLine ==
  ASSUME LineInv, NEW c \in Clients, OthersAside(c), Lined(c)', alive'[c] => RowsKept(c),
         \A d \in Clients : d # c =>
           \A s : RowOf(OpsOf(log'), d, s) = RowOf(OpsOf(log), d, s)
  PROVE  LineStep
<1>1. ASSUME NEW d \in Clients, d # c
      PROVE  Lined(d)' /\ RowsKept(d)
  <2>1. /\ local'[d] = local[d] /\ undo'[d] = undo[d] /\ redo'[d] = redo[d]
        /\ batch'[d] = batch[d] /\ timer'[d] = timer[d] /\ stackQ'[d] = stackQ[d]
    BY <1>1 DEF OthersAside
  <2>2. Lined(d)'
    BY <2>1 DEF LineInv, Lined
  <2>3. Taken(d)' = Taken(d)
    BY <2>1 DEF Taken
  <2>4. ASSUME NEW s
        PROVE  /\ WholeRow(log', Taken(d)', stackQ'[d], local'[d], undo'[d], redo'[d], d, s)
                    = WholeRow(log, Taken(d), stackQ[d], local[d], undo[d], redo[d], d, s)
               /\ WaitRow(local'[d], undo'[d], redo'[d], d, s)
                    = WaitRow(local[d], undo[d], redo[d], d, s)
    BY <1>1, <2>1, <2>3 DEF WholeRow
  <2>5. ASSUME NEW s
        PROVE  WholeRow(log, Taken(d), stackQ[d], local[d], undo[d], redo[d], d, s) \in Rows
    BY RowsAreRows, BehindIsRow DEF WholeRow, WaitRow
  <2>6. RowsKept(d)
    BY <2>4, <2>5, SameKept DEF RowsKept
  <2> QED  BY <2>2, <2>6
<1> QED
  BY <1>1 DEF LineStep

\* A step that leaves the line alone.
LEMMA LineAside ==
  ASSUME LineInv, UNCHANGED <<log, local, undo, redo, batch, timer, stackQ>>
  PROVE  LineStep
<1>1. ASSUME NEW d \in Clients
      PROVE  Lined(d)' /\ RowsKept(d)
  <2>1. Lined(d)'
    BY DEF LineInv, Lined
  <2>2. Taken(d)' = Taken(d)
    BY DEF Taken
  <2>3. ASSUME NEW s
        PROVE  WholeRow(log, Taken(d), stackQ[d], local[d], undo[d], redo[d], d, s) \in Rows
    BY RowsAreRows, BehindIsRow DEF WholeRow, WaitRow
  <2>4. RowsKept(d)
    BY <2>2, <2>3, SameKept DEF RowsKept
  <2> QED  BY <2>1, <2>4
<1> QED
  BY <1>1 DEF LineStep

\* The rows of c before a step.
LEMMA RowsBefore ==
  ASSUME TypeOK, NEW c \in Clients, NEW s
  PROVE  /\ RowOf(OpsOf(log), c, s) \in Rows
         /\ RowOf(Taken(c), c, s) \in Rows
         /\ QueueRow(stackQ[c], c, s) \in Rows
         /\ WaitRow(local[c], undo[c], redo[c], c, s) \in Rows
BY RowsAreRows, BehindIsRow DEF WaitRow

LEMMA LastAppended ==
  ASSUME NEW s \in Seq(Ops), NEW op, Append(s, op) \in Seq(Ops)
  PROVE  op \in Ops
<1>1. Len(s) \in Nat /\ Len(Append(s, op)) = Len(s) + 1 /\ Append(s, op)[Len(s) + 1] = op
  BY LenProperties, Appended
<1>2. Len(s) + 1 \in 1..Len(Append(s, op))
  BY <1>1
<1> QED
  BY <1>1, <1>2, ElementOfSeq

LEMMA UserKeepsLine ==
  ASSUME LineInv, TypeOK', NEW c \in Clients, User(c)
  PROVE  LineStep
<1>1. /\ TypeOK /\ Lined(c)
      /\ local \in [Clients -> Seq(Ops)] /\ undo \in [Clients -> Seq(Ops)]
      /\ redo \in [Clients -> Seq(Ops)]
      /\ local[c] \in Seq(Ops) /\ undo[c] \in Seq(Ops) /\ redo[c] \in Seq(Ops)
      /\ local'[c] \in Seq(Ops) /\ undo'[c] \in Seq(Ops) /\ redo'[c] \in Seq(Ops)
  BY DEF LineInv, DeliveryInv, TypeInv, TypeOK
<1>2. /\ local[c] \in Seq(OpsIn({"LOCAL"})) /\ undo[c] \in Seq(OpsIn({"UNDO"}))
      /\ redo[c] \in Seq(OpsIn({"REDO"}))
  BY <1>1 DEF Lined

\* A new operation at the end of one of the stacks.
<1>3. ASSUME NEW op,
             \/ /\ op.state = "LOCAL" /\ local' = [local EXCEPT ![c] = Append(local[c], op)]
                /\ UNCHANGED <<undo, redo>>
             \/ /\ op.state = "UNDO" /\ undo' = [undo EXCEPT ![c] = Append(undo[c], op)]
                /\ UNCHANGED <<local, redo>>
             \/ /\ op.state = "REDO" /\ redo' = [redo EXCEPT ![c] = Append(redo[c], op)]
                /\ UNCHANGED <<local, undo>>,
             UNCHANGED <<log, batch, timer, stackQ>>
      PROVE  LineStep
  <2>1. /\ \/ /\ op.state = "LOCAL" /\ local'[c] = Append(local[c], op)
              /\ undo'[c] = undo[c] /\ redo'[c] = redo[c]
           \/ /\ op.state = "UNDO" /\ undo'[c] = Append(undo[c], op)
              /\ local'[c] = local[c] /\ redo'[c] = redo[c]
           \/ /\ op.state = "REDO" /\ redo'[c] = Append(redo[c], op)
              /\ local'[c] = local[c] /\ undo'[c] = undo[c]
        /\ OthersAside(c)
    BY <1>1, <1>3 DEF OthersAside
  <2>2. op \in Ops
    BY <1>1, <2>1, LastAppended
  <2>3. /\ op.state = "LOCAL" => op \in OpsIn({"LOCAL"})
        /\ op.state = "UNDO" => op \in OpsIn({"UNDO"})
        /\ op.state = "REDO" => op \in OpsIn({"REDO"})
    BY <2>2 DEF OpsIn
  <2> DEFINE l == local[c]
             u == undo[c]
             r == redo[c]
  <2> HIDE DEF l, u, r
  <2> DEFINE la == Append(l, op)
             ua == Append(u, op)
             ra == Append(r, op)
             L == Seq(OpsIn({"LOCAL"}))
             U == Seq(OpsIn({"UNDO"}))
             R == Seq(OpsIn({"REDO"}))
  <2>4a. /\ op.state = "LOCAL" => la \in L
         /\ op.state = "UNDO" => ua \in U
         /\ op.state = "REDO" => ra \in R
    BY <1>2, <2>3, AppendProperties DEF l, u, r
  <2>4b. \A s :
        /\ op.state = "LOCAL" =>
             WaitRow(Append(l, op), u, r, c, s) = Behind(WaitRow(l, u, r, c, s), RowOf(<<op>>, c, s))
        /\ op.state = "UNDO" =>
             WaitRow(l, Append(u, op), r, c, s) = Behind(WaitRow(l, u, r, c, s), RowOf(<<op>>, c, s))
        /\ op.state = "REDO" =>
             WaitRow(l, u, Append(r, op), c, s) = Behind(WaitRow(l, u, r, c, s), RowOf(<<op>>, c, s))
    <3>1. /\ l \in Seq(OpsIn({"LOCAL"})) /\ u \in Seq(OpsIn({"UNDO"}))
          /\ r \in Seq(OpsIn({"REDO"}))
      BY <1>2 DEF l, u, r
    <3> QED  BY <2>2, <3>1, WaitRowGrows
  <2>4. /\ local'[c] \in Seq(OpsIn({"LOCAL"})) /\ undo'[c] \in Seq(OpsIn({"UNDO"}))
        /\ redo'[c] \in Seq(OpsIn({"REDO"}))
    <3>1. l \in L /\ u \in U /\ r \in R
      BY <1>2 DEF l, u, r
    <3>3. \/ op.state = "LOCAL" /\ local'[c] = la /\ undo'[c] = u /\ redo'[c] = r
          \/ op.state = "UNDO" /\ undo'[c] = ua /\ local'[c] = l /\ redo'[c] = r
          \/ op.state = "REDO" /\ redo'[c] = ra /\ local'[c] = l /\ undo'[c] = u
      BY <2>1 DEF l, u, r
    <3> HIDE DEF L, U, R, la, ua, ra
    <3>4. local'[c] \in L /\ undo'[c] \in U /\ redo'[c] \in R
      BY <2>4a, <3>1, <3>3
    <3> QED  BY <3>4 DEF L, U, R
  <2>5. Lined(c)'
    BY <1>1, <1>3, <2>4 DEF Lined
  <2>6. Taken(c)' = Taken(c) /\ log' = log /\ stackQ'[c] = stackQ[c]
    BY <1>3 DEF Taken
  <2>7. ASSUME NEW s
        PROVE  WaitRow(local'[c], undo'[c], redo'[c], c, s)
                 = Behind(WaitRow(local[c], undo[c], redo[c], c, s), RowOf(<<op>>, c, s))
    BY <2>1, <2>4b DEF l, u, r
  <2>8. \A s : RowOf(<<op>>, c, s) \in Rows /\ RowOf(<<op>>, c, s).pairs = {}
    BY <1>1, <2>2, RowsAreRows, RowOfAppend
  <2>9. RowsKept(c)
    <3> SUFFICES ASSUME NEW s
                 PROVE  RowKept(WholeRow(log, Taken(c), stackQ[c], local[c], undo[c], redo[c], c, s),
                                QueueRow(stackQ[c], c, s),
                                WaitRow(local[c], undo[c], redo[c], c, s),
                                WholeRow(log', Taken(c)', stackQ'[c], local'[c], undo'[c], redo'[c], c, s),
                                WaitRow(local'[c], undo'[c], redo'[c], c, s))
      BY DEF RowsKept
    <3> DEFINE e == RowOf(OpsOf(log), c, s)
               t == RowOf(Taken(c), c, s)
               q == QueueRow(stackQ[c], c, s)
               w == WaitRow(local[c], undo[c], redo[c], c, s)
               b == RowOf(<<op>>, c, s)
    <3>1. /\ e \in Rows /\ t \in Rows /\ q \in Rows /\ w \in Rows
          /\ b \in Rows /\ b.pairs = {}
      BY <1>1, <2>8, RowsBefore
    <3>2. /\ WholeRow(log, Taken(c), stackQ[c], local[c], undo[c], redo[c], c, s)
               = Behind(e, Behind(t, Behind(q, w)))
          /\ WholeRow(log', Taken(c)', stackQ'[c], local'[c], undo'[c], redo'[c], c, s)
               = Behind(e, Behind(t, Behind(q, Behind(w, b))))
          /\ WaitRow(local'[c], undo'[c], redo'[c], c, s) = Behind(w, b)
      BY <2>6, <2>7 DEF WholeRow
    <3> HIDE DEF e, t, q, w, b
    <3>3. RowKept(Behind(e, Behind(t, Behind(q, w))), q, w,
                  Behind(e, Behind(t, Behind(q, Behind(w, b)))), Behind(w, b))
      BY <3>1, RowMovesBack
    <3> QED  BY <3>2, <3>3 DEF q, w
  <2> QED  BY <1>3, <2>1, <2>5, <2>9, StepOfLine
<1>4. CASE Type(c)
  <2>1. PICK edit \in Edits, location \in 0..Len(text[c]) :
          ShouldChangeText(c, [location |-> location, length |-> edit[1]], Typed(c, edit[2]))
    BY <1>4 DEF Type
  <2> DEFINE op == NewOperation(c, [location |-> location, length |-> edit[1]],
                                Substring(text[c], [location |-> location, length |-> edit[1]]),
                                Typed(c, edit[2]))
  <2>2. /\ local' = [local EXCEPT ![c] = Append(local[c], op)]
        /\ UNCHANGED <<log, undo, redo, batch, timer, stackQ>>
    BY <2>1 DEF ShouldChangeText, threads
  <2>3. op.state = "LOCAL"
    BY DEF NewOperation
  <2> HIDE DEF op
  <2> QED  BY <1>3, <2>2, <2>3
<1>5. CASE UndoAct(c)
  <2> DEFINE target == UndoTarget(global[c], ParticipantID(c))
             op == InverseOf(global[c][target], ParticipantID(c), nextID[c], "UNDO")
  <2>1. /\ undo' = [undo EXCEPT ![c] = Append(undo[c], op)]
        /\ UNCHANGED <<log, local, redo, batch, timer, stackQ>>
    BY <1>5 DEF UndoAct, threads
  <2>2. op.state = "UNDO"
    BY DEF InverseOf
  <2> HIDE DEF op
  <2> QED  BY <1>3, <2>1, <2>2
<1>6. CASE RedoAct(c)
  <2> DEFINE target == RedoTarget(global[c], ParticipantID(c))
             op == InverseOf(global[c][target], ParticipantID(c), nextID[c], "REDO")
  <2>1. /\ redo' = [redo EXCEPT ![c] = Append(redo[c], op)]
        /\ UNCHANGED <<log, local, undo, batch, timer, stackQ>>
    BY <1>6 DEF RedoAct, threads
  <2>2. op.state = "REDO"
    BY DEF InverseOf
  <2> HIDE DEF op
  <2> QED  BY <1>3, <2>1, <2>2
<1>7. CASE CreateSess(c) \/ JoinSess(c)
  BY <1>7, LineAside DEF CreateSess, JoinSess, stacks, threads
<1> QED
  BY <1>4, <1>5, <1>6, <1>7 DEF User

\* A copy of marked operations with other fields changed is marked.
LEMMA CopyMarked ==
  ASSUME NEW S, NEW ops \in Seq(OpsIn(S)), NEW copy \in Seq(Ops), Len(copy) = Len(ops),
         \A i \in 1..Len(ops) : copy[i].state = ops[i].state
  PROVE  copy \in Seq(OpsIn(S))
<1> DEFINE n == Len(copy)
           e(i) == copy[i]
<1>1. \A i \in 1..n : e(i) \in OpsIn(S)
  BY OpsInState, ElementOfSeq DEF OpsIn
<1>2. n \in Nat /\ copy = [i \in 1..n |-> e(i)]
  BY LenProperties
<1> HIDE DEF n, e
<1>3. [i \in 1..n |-> e(i)] \in Seq(OpsIn(S))
  BY <1>1, <1>2, IsASeq
<1> QED
  BY <1>2, <1>3

LEMMA GetLocalChangeSetKeepsLine ==
  ASSUME LineInv, TypeOK', NEW c \in Clients, GetLocalChangeSet(c)
  PROVE  LineStep
<1> DEFINE e(i) == [local[c][i] EXCEPT !.referID = Refer(c)]
           ops == [i \in DOMAIN local[c] |-> e(i)]
           next == IF local[c] = << >> THEN "undoRedo" ELSE "taken"
<1>1. /\ TypeOK /\ Lined(c)
      /\ local \in [Clients -> Seq(Ops)] /\ local[c] \in Seq(Ops)
      /\ batch \in [Clients -> Seq(Ops)] /\ timer \in [Clients -> TimerSteps]
      /\ local[c] \in Seq(OpsIn({"LOCAL"})) /\ undo[c] \in Seq(OpsIn({"UNDO"}))
      /\ redo[c] \in Seq(OpsIn({"REDO"}))
  BY DEF LineInv, DeliveryInv, TypeInv, TypeOK, Lined
<1>2. /\ batch' = [batch EXCEPT ![c] = ops]
      /\ local' = [local EXCEPT ![c] = << >>]
      /\ timer' = [timer EXCEPT ![c] = next]
      /\ timer[c] = "idle"
      /\ UNCHANGED <<log, undo, redo, stackQ>>
  BY DEF GetLocalChangeSet, AtTurn, MainFree
<1>3. \A i \in 1..Len(local[c]) :
        /\ e(i).participantID = local[c][i].participantID
        /\ e(i).state = local[c][i].state
        /\ e(i).operationID = local[c][i].operationID
  <2> SUFFICES ASSUME NEW i \in 1..Len(local[c])
               PROVE  /\ e(i).participantID = local[c][i].participantID
                      /\ e(i).state = local[c][i].state
                      /\ e(i).operationID = local[c][i].operationID
    OBVIOUS
  <2>1. local[c][i] \in Ops
    BY <1>1, ElementOfSeq
  <2> QED  BY <2>1 DEF Ops, Operations
<1> HIDE DEF e
<1>4. Len(ops) = Len(local[c]) /\ \A i \in 1..Len(local[c]) : ops[i] = e(i)
  BY <1>1
<1> HIDE DEF ops, next
<1>5. /\ batch'[c] = ops /\ local'[c] = << >> /\ timer'[c] = next
      /\ undo'[c] = undo[c] /\ redo'[c] = redo[c] /\ stackQ'[c] = stackQ[c] /\ log' = log
      /\ OthersAside(c)
  BY <1>1, <1>2 DEF OthersAside
<1>6. ops \in Seq(Ops)
  BY <1>5 DEF TypeOK
<1>7. /\ ops \in Seq(OpsIn({"LOCAL"}))
      /\ \A s : RowOf(ops, c, s) = RowOf(local[c], c, s)
  <2>1. ops \in Seq(OpsIn({"LOCAL"}))
    BY <1>1, <1>3, <1>4, <1>6, CopyMarked
  <2>2. \A s : RowOf(ops, c, s) = RowOf(local[c], c, s)
    BY <1>3, <1>4, RowOfCopy
  <2> QED  BY <2>1, <2>2
<1>8. << >> \in Seq(OpsIn({"LOCAL"}))
  BY EmptySeq
<1>9. Lined(c)'
  BY <1>1, <1>5, <1>7, <1>8 DEF Lined
<1>10. /\ \A s : RowOf(Taken(c)', c, s) = RowOf(local[c], c, s)
       /\ Taken(c) = << >>
  <2>1. CASE local[c] = << >>
    BY <1>2, <1>5, <2>1 DEF Taken, next
  <2>2. CASE local[c] # << >>
    BY <1>2, <1>5, <1>7, <2>2 DEF Taken, next
  <2> QED  BY <2>1, <2>2
<1>11. RowsKept(c)
  <2> SUFFICES ASSUME NEW s
               PROVE  RowKept(WholeRow(log, Taken(c), stackQ[c], local[c], undo[c], redo[c], c, s),
                              QueueRow(stackQ[c], c, s),
                              WaitRow(local[c], undo[c], redo[c], c, s),
                              WholeRow(log', Taken(c)', stackQ'[c], local'[c], undo'[c], redo'[c], c, s),
                              WaitRow(local'[c], undo'[c], redo'[c], c, s))
    BY DEF RowsKept
  <2> DEFINE x == RowOf(OpsOf(log), c, s)
             q == QueueRow(stackQ[c], c, s)
             l == RowOf(local[c], c, s)
             w == WaitRow(local[c], undo[c], redo[c], c, s)
             v == WaitRow(<< >>, undo[c], redo[c], c, s)
  <2>1. x \in Rows /\ q \in Rows /\ w \in Rows /\ l \in Rows /\ NoOne \in Rows
    BY <1>1, RowsBefore, BehindNoOne, RowsAreRows
  <2>2. /\ WholeRow(log, Taken(c), stackQ[c], local[c], undo[c], redo[c], c, s)
             = Behind(x, Behind(NoOne, Behind(q, w)))
        /\ WholeRow(log', Taken(c)', stackQ'[c], local'[c], undo'[c], redo'[c], c, s)
             = Behind(x, Behind(l, Behind(q, v)))
        /\ WaitRow(local'[c], undo'[c], redo'[c], c, s) = v
    BY <1>5, <1>10, RowOfEmpty DEF WholeRow
  <2>3. /\ w = IF s = "LOCAL" THEN l ELSE RowOf(undo[c] \o redo[c], c, s)
        /\ v = IF s = "LOCAL" THEN NoOne ELSE RowOf(undo[c] \o redo[c], c, s)
        /\ s # "LOCAL" => l = NoOne
    <3> DEFINE none == << >>
    <3>1. none \in Seq(OpsIn({"LOCAL"})) /\ RowOf(none, c, s) = NoOne
      BY <1>8, RowOfEmpty
    <3>2. w = IF s = "LOCAL" THEN l ELSE RowOf(undo[c] \o redo[c], c, s)
      BY <1>1, WaitRowMarked
    <3> HIDE DEF none
    <3>3. WaitRow(none, undo[c], redo[c], c, s)
            = IF s = "LOCAL" THEN RowOf(none, c, s) ELSE RowOf(undo[c] \o redo[c], c, s)
      BY <1>1, <3>1, WaitRowMarked
    <3>4. s # "LOCAL" => l = NoOne
      BY <1>1, RowOfMarked
    <3> QED  BY <3>1, <3>2, <3>3, <3>4 DEF none
  <2> HIDE DEF x, q, l, w, v
  <2>4. CASE s = "LOCAL"
    <3>1. RowKept(Behind(x, Behind(NoOne, Behind(q, w))), q, w,
                  Behind(x, Behind(w, Behind(q, NoOne))), NoOne)
      BY <2>1, RowMoves
    <3> QED  BY <2>2, <2>3, <2>4, <3>1 DEF q, w
  <2>5. CASE s # "LOCAL"
    <3>1. v = w /\ l = NoOne
      BY <2>3, <2>5
    <3>2. Behind(x, Behind(NoOne, Behind(q, w))) \in Rows
      BY <2>1, BehindIsRow
    <3>3. RowKept(Behind(x, Behind(NoOne, Behind(q, w))), q, w,
                  Behind(x, Behind(NoOne, Behind(q, w))), w)
      BY <3>2, SameKept
    <3> QED  BY <2>2, <3>1, <3>3 DEF q, w
  <2> QED  BY <2>4, <2>5
<1> QED
  BY <1>5, <1>9, <1>11, StepOfLine

LEMMA BroadcastLocalKeepsLine ==
  ASSUME LineInv, NEW c \in Clients, BroadcastLocal(c)
  PROVE  LineStep
<1>1. /\ TypeOK /\ OneAuthor /\ Lined(c)
      /\ batch[c] \in Seq(Ops) /\ timer \in [Clients -> TimerSteps]
  BY DEF LineInv, DeliveryInv, TypeInv, TypeOK
<1>2. /\ log' = log \o Event(batch[c])
      /\ timer' = [timer EXCEPT ![c] = "sent"]
      /\ timer[c] = "taken"
      /\ UNCHANGED <<local, undo, redo, stackQ, batch>>
  BY DEF BroadcastLocal, stacks
<1>3. Taken(c) = batch[c] /\ Taken(c)' = << >> /\ OthersAside(c) /\ Lined(c)'
  BY <1>1, <1>2 DEF Taken, OthersAside, Lined
<1>4. \A d, s : RowOf(OpsOf(log'), d, s) = Behind(RowOf(OpsOf(log), d, s), RowOf(batch[c], d, s))
  BY <1>1, <1>2, LogRowGrows
<1>5. \A d \in Clients : d # c => \A s : RowOf(OpsOf(log'), d, s) = RowOf(OpsOf(log), d, s)
  <2>1. Ids(batch[c]) \subseteq Held(c)
    BY DEF Held
  <2>2. \A d \in Clients : d # c => \A s : RowOf(batch[c], d, s) = NoOne
    BY <1>1, <2>1, OfNobodyElse
  <2> QED  BY <1>4, <2>2, BehindNoOne, RowsAreRows
<1>6. RowsKept(c)
  <2>1. ASSUME NEW s
        PROVE  RowKept(WholeRow(log, Taken(c), stackQ[c], local[c], undo[c], redo[c], c, s),
                       QueueRow(stackQ[c], c, s),
                       WaitRow(local[c], undo[c], redo[c], c, s),
                       WholeRow(log', Taken(c)', stackQ'[c], local'[c], undo'[c], redo'[c], c, s),
                       WaitRow(local'[c], undo'[c], redo'[c], c, s))
    <3> DEFINE e == RowOf(OpsOf(log), c, s)
               t == RowOf(Taken(c), c, s)
               q == QueueRow(stackQ[c], c, s)
               w == WaitRow(local[c], undo[c], redo[c], c, s)
    <3>1. /\ e \in Rows /\ t \in Rows /\ q \in Rows /\ w \in Rows /\ NoOne \in Rows
          /\ WholeRow(log, Taken(c), stackQ[c], local[c], undo[c], redo[c], c, s)
               = Behind(e, Behind(t, Behind(q, w)))
      BY <1>1, RowsBefore, BehindNoOne DEF WholeRow
    <3>2. /\ WholeRow(log', Taken(c)', stackQ'[c], local'[c], undo'[c], redo'[c], c, s)
               = Behind(Behind(e, t), Behind(NoOne, Behind(q, w)))
          /\ WaitRow(local'[c], undo'[c], redo'[c], c, s) = w
      BY <1>2, <1>3, <1>4, RowOfEmpty DEF WholeRow
    <3> HIDE DEF e, t, q, w
    <3>3. RowKept(Behind(e, Behind(t, Behind(q, w))), q, w,
                  Behind(Behind(e, t), Behind(NoOne, Behind(q, w))), w)
      BY <3>1, RowMoves
    <3> QED  BY <3>1, <3>2, <3>3 DEF q, w
  <2> QED  BY <2>1 DEF RowsKept
<1> QED
  BY <1>3, <1>5, <1>6, StepOfLine

\* A refused change set becomes the last block of the queue.
LEMMA RefusedInLine ==
  ASSUME TypeOK, NEW c \in Clients, stackQ[c] \in Seq(LineBlocks),
         NEW kind \in {"local", "undoRedo"}, NEW ops \in Seq(Ops), DispatchBack(c, kind, ops),
         kind = "local" => ops \in Seq(OpsIn({"LOCAL"})),
         kind = "undoRedo" => ops \in Seq(OpsIn({"UNDO", "REDO"}))
  PROVE  /\ stackQ'[c] \in Seq(LineBlocks)
         /\ alive'[c] => \A s : QueueRow(stackQ'[c], c, s)
                                 = Behind(RowOf(ops, c, s), QueueRow(stackQ[c], c, s))
         /\ \A d \in Clients : d # c => stackQ'[d] = stackQ[d]
<1> DEFINE block == [kind |-> kind, at |-> 0, ops |-> ops]
           queue == stackQ[c]
<1>1. /\ stackQ \in [Clients -> Seq(Blocks)] /\ queue \in Seq(Blocks)
      /\ alive \in [Clients -> BOOLEAN]
  BY DEF TypeOK
<1>2. block \in LineBlocks /\ block \in Blocks /\ block.ops = ops
  BY DEF Blocks, LineBlocks
<1>3. \/ stackQ' = [stackQ EXCEPT ![c] = Append(queue, block)] /\ alive' = alive
      \/ stackQ' = stackQ /\ alive' = [alive EXCEPT ![c] = FALSE]
  BY DEF DispatchBack
<1> HIDE DEF block
<1>4. CASE stackQ' = [stackQ EXCEPT ![c] = Append(queue, block)] /\ alive' = alive
  <2>1. /\ stackQ'[c] = Append(queue, block)
        /\ \A d \in Clients : d # c => stackQ'[d] = stackQ[d]
    BY <1>1, <1>4
  <2> HIDE DEF queue
  <2>2. Append(queue, block) \in Seq(LineBlocks)
    BY <1>2, AppendProperties DEF queue
  <2>3. \A s : QueueRow(Append(queue, block), c, s)
               = Behind(RowOf(ops, c, s), QueueRow(queue, c, s))
    BY <1>1, <1>2, QueueRowAppended
  <2> QED  BY <2>1, <2>2, <2>3 DEF queue
<1>5. CASE stackQ' = stackQ /\ alive' = [alive EXCEPT ![c] = FALSE]
  BY <1>1, <1>5
<1> QED
  BY <1>3, <1>4, <1>5

LEMMA RefuseLocalKeepsLine ==
  ASSUME LineInv, NEW c \in Clients, RefuseLocal(c)
  PROVE  LineStep
<1>1. /\ TypeOK /\ Lined(c)
      /\ batch[c] \in Seq(Ops) /\ timer \in [Clients -> TimerSteps]
      /\ batch \in [Clients -> Seq(Ops)]
      /\ batch[c] \in Seq(OpsIn({"LOCAL"})) /\ stackQ[c] \in Seq(LineBlocks)
  BY DEF LineInv, DeliveryInv, TypeInv, TypeOK, Lined
<1>2. /\ DispatchBack(c, "local", batch[c])
      /\ batch' = [batch EXCEPT ![c] = << >>]
      /\ timer' = [timer EXCEPT ![c] = "undoRedo"]
      /\ timer[c] = "taken"
      /\ UNCHANGED <<log, local, undo, redo>>
  BY DEF RefuseLocal, stacks
<1>3. /\ stackQ'[c] \in Seq(LineBlocks)
      /\ alive'[c] => \A s : QueueRow(stackQ'[c], c, s)
                              = Behind(RowOf(batch[c], c, s), QueueRow(stackQ[c], c, s))
      /\ \A d \in Clients : d # c => stackQ'[d] = stackQ[d]
  BY <1>1, <1>2, RefusedInLine
<1>4. /\ Taken(c) = batch[c] /\ Taken(c)' = << >> /\ OthersAside(c)
      /\ batch'[c] = << >>
  BY <1>1, <1>2, <1>3 DEF Taken, OthersAside
<1>5. Lined(c)'
  <2>1. << >> \in Seq(OpsIn({"LOCAL"}))
    BY EmptySeq
  <2> QED  BY <1>1, <1>2, <1>3, <1>4, <2>1 DEF Lined
<1>6. ASSUME alive'[c]
      PROVE  RowsKept(c)
  <2>1. ASSUME NEW s
        PROVE  RowKept(WholeRow(log, Taken(c), stackQ[c], local[c], undo[c], redo[c], c, s),
                       QueueRow(stackQ[c], c, s),
                       WaitRow(local[c], undo[c], redo[c], c, s),
                       WholeRow(log', Taken(c)', stackQ'[c], local'[c], undo'[c], redo'[c], c, s),
                       WaitRow(local'[c], undo'[c], redo'[c], c, s))
    <3> DEFINE e == RowOf(OpsOf(log), c, s)
               t == RowOf(Taken(c), c, s)
               q == QueueRow(stackQ[c], c, s)
               w == WaitRow(local[c], undo[c], redo[c], c, s)
    <3>1. /\ e \in Rows /\ t \in Rows /\ q \in Rows /\ w \in Rows /\ NoOne \in Rows
          /\ WholeRow(log, Taken(c), stackQ[c], local[c], undo[c], redo[c], c, s)
               = Behind(e, Behind(t, Behind(q, w)))
      BY <1>1, RowsBefore, BehindNoOne DEF WholeRow
    <3>2. /\ WholeRow(log', Taken(c)', stackQ'[c], local'[c], undo'[c], redo'[c], c, s)
               = Behind(e, Behind(NoOne, Behind(Behind(t, q), w)))
          /\ WaitRow(local'[c], undo'[c], redo'[c], c, s) = w
      BY <1>2, <1>3, <1>4, <1>6, RowOfEmpty DEF WholeRow
    <3> HIDE DEF e, t, q, w
    <3>3. RowKept(Behind(e, Behind(t, Behind(q, w))), q, w,
                  Behind(e, Behind(NoOne, Behind(Behind(t, q), w))), w)
      BY <3>1, RowMoves
    <3> QED  BY <3>1, <3>2, <3>3 DEF q, w
  <2> QED  BY <2>1 DEF RowsKept
<1> QED
  BY <1>2, <1>4, <1>5, <1>6, StepOfLine

LEMMA SendUndoAndRedoKeepsLine ==
  ASSUME LineInv, NEW c \in Clients, SendUndoAndRedo(c)
  PROVE  LineStep
<1> DEFINE ops == undo[c] \o redo[c]
<1>1. /\ TypeOK /\ OneAuthor /\ Lined(c)
      /\ undo[c] \in Seq(Ops) /\ redo[c] \in Seq(Ops) /\ ops \in Seq(Ops)
      /\ undo \in [Clients -> Seq(Ops)] /\ redo \in [Clients -> Seq(Ops)]
      /\ timer \in [Clients -> TimerSteps]
      /\ local[c] \in Seq(OpsIn({"LOCAL"})) /\ undo[c] \in Seq(OpsIn({"UNDO"}))
      /\ redo[c] \in Seq(OpsIn({"REDO"})) /\ stackQ[c] \in Seq(LineBlocks)
  BY DEF LineInv, DeliveryInv, TypeInv, TypeOK, Lined
<1>2. /\ undo' = [undo EXCEPT ![c] = << >>]
      /\ redo' = [redo EXCEPT ![c] = << >>]
      /\ timer' = [timer EXCEPT ![c] = "idle"]
      /\ timer[c] = "undoRedo"
      /\ UNCHANGED <<local, batch>>
      /\ \/ ops = << >> /\ UNCHANGED <<log, stackQ>>
         \/ log' = log \o Event(ops) /\ UNCHANGED stackQ
         \/ DispatchBack(c, "undoRedo", ops) /\ UNCHANGED log
  BY DEF SendUndoAndRedo
<1>3. /\ Taken(c) = << >> /\ Taken(c)' = << >>
      /\ undo'[c] = << >> /\ redo'[c] = << >>
      /\ \A d \in Clients : d # c =>
           /\ local'[d] = local[d] /\ undo'[d] = undo[d] /\ redo'[d] = redo[d]
           /\ batch'[d] = batch[d] /\ timer'[d] = timer[d]
  BY <1>1, <1>2 DEF Taken
<1>4. ASSUME NEW s
      PROVE  /\ WaitRow(local[c], undo[c], redo[c], c, s)
                  = IF s = "LOCAL" THEN WaitRow(local[c], << >>, << >>, c, s) ELSE RowOf(ops, c, s)
             /\ s = "LOCAL" => RowOf(ops, c, s) = NoOne
             /\ s # "LOCAL" => WaitRow(local[c], << >>, << >>, c, s) = NoOne
  <2> DEFINE l == RowOf(local[c], c, s)
             none == RowOf(<< >>, c, s)
  <2>1. WaitRow(local[c], undo[c], redo[c], c, s) = IF s = "LOCAL" THEN l ELSE RowOf(ops, c, s)
    BY <1>1, WaitRowMarked
  <2>2. WaitRow(local[c], << >>, << >>, c, s) = Behind(l, Behind(none, none))
    BY DEF WaitRow
  <2>3. none = NoOne
    BY RowOfEmpty
  <2>4. l \in Rows /\ NoOne \in Rows
    BY RowsAreRows, BehindNoOne
  <2>5. s # "LOCAL" => l = NoOne
    BY <1>1, RowOfMarked
  <2>6. s = "LOCAL" => RowOf(ops, c, s) = NoOne
    <3>1. s = "LOCAL" => RowOf(undo[c], c, s) = NoOne /\ RowOf(redo[c], c, s) = NoOne
      BY <1>1, RowOfMarked
    <3>2. RowOf(ops, c, s) = Behind(RowOf(undo[c], c, s), RowOf(redo[c], c, s))
      BY <1>1, RowOfConcat
    <3> QED  BY <2>4, <3>1, <3>2, BehindNoOne
  <2> HIDE DEF l, none, ops
  <2>7. Behind(l, Behind(none, none)) = l
    BY <2>3, <2>4, BehindNoOne
  <2> QED  BY <2>1, <2>2, <2>5, <2>6, <2>7
<1>5. ops \in Seq(OpsIn({"UNDO", "REDO"}))
  <2>1. undo[c] \in Seq(OpsIn({"UNDO", "REDO"})) /\ redo[c] \in Seq(OpsIn({"UNDO", "REDO"}))
    BY <1>1, OpsInMore
  <2> QED  BY <2>1, ConcatProperties
<1>6. ASSUME stackQ'[c] \in Seq(LineBlocks)
      PROVE  Lined(c)'
  <2>1. << >> \in Seq(OpsIn({"UNDO"})) /\ << >> \in Seq(OpsIn({"REDO"}))
    BY EmptySeq
  <2> QED  BY <1>1, <1>2, <1>3, <1>6, <2>1 DEF Lined
<1>7. CASE ops = << >> /\ UNCHANGED <<log, stackQ>>
  <2>1. ASSUME NEW s
        PROVE  RowKept(WholeRow(log, Taken(c), stackQ[c], local[c], undo[c], redo[c], c, s),
                       QueueRow(stackQ[c], c, s),
                       WaitRow(local[c], undo[c], redo[c], c, s),
                       WholeRow(log', Taken(c)', stackQ'[c], local'[c], undo'[c], redo'[c], c, s),
                       WaitRow(local'[c], undo'[c], redo'[c], c, s))
    <3> DEFINE e == RowOf(OpsOf(log), c, s)
               q == QueueRow(stackQ[c], c, s)
               w == WaitRow(local[c], undo[c], redo[c], c, s)
               b == RowOf(undo[c] \o redo[c], c, s)
               v == WaitRow(local[c], << >>, << >>, c, s)
    <3>1. /\ e \in Rows /\ q \in Rows /\ w \in Rows /\ b \in Rows /\ NoOne \in Rows
          /\ WholeRow(log, Taken(c), stackQ[c], local[c], undo[c], redo[c], c, s)
               = Behind(e, Behind(NoOne, Behind(q, w)))
      BY <1>1, <1>3, RowsBefore, RowsAreRows, BehindNoOne, RowOfEmpty DEF WholeRow
    <3>2. s = "LOCAL" => w = v /\ b = NoOne
      BY <1>4
    <3>3. s # "LOCAL" => w = b /\ v = NoOne
      BY <1>4
    <3>4. WaitRow(local'[c], undo'[c], redo'[c], c, s) = v
      BY <1>2, <1>3
    <3>5. /\ WholeRow(log', Taken(c)', stackQ'[c], local'[c], undo'[c], redo'[c], c, s)
               = Behind(e, Behind(NoOne, Behind(q, v)))
          /\ b = NoOne
      BY <1>2, <1>3, <1>7, RowOfEmpty DEF WholeRow
    <3> HIDE DEF e, q, w, b, v
    <3>6. w = v
      BY <3>2, <3>3, <3>5
    <3>7. Behind(e, Behind(NoOne, Behind(q, w))) \in Rows
      BY <3>1, BehindIsRow
    <3>8. RowKept(Behind(e, Behind(NoOne, Behind(q, w))), q, w,
                  Behind(e, Behind(NoOne, Behind(q, w))), w)
      BY <3>7, SameKept
    <3> QED  BY <3>1, <3>4, <3>5, <3>6, <3>8 DEF q, w
  <2>2. RowsKept(c)
    BY <2>1 DEF RowsKept
  <2>3. OthersAside(c) /\ Lined(c)'
    BY <1>1, <1>3, <1>6, <1>7 DEF OthersAside
  <2> QED  BY <1>7, <2>2, <2>3, StepOfLine
<1>8. CASE log' = log \o Event(ops) /\ UNCHANGED stackQ
  <2>0. \A d, s : RowOf(OpsOf(log'), d, s) = Behind(RowOf(OpsOf(log), d, s), RowOf(ops, d, s))
    BY <1>1, <1>8, LogRowGrows
  <2>1. ASSUME NEW s
        PROVE  RowKept(WholeRow(log, Taken(c), stackQ[c], local[c], undo[c], redo[c], c, s),
                       QueueRow(stackQ[c], c, s),
                       WaitRow(local[c], undo[c], redo[c], c, s),
                       WholeRow(log', Taken(c)', stackQ'[c], local'[c], undo'[c], redo'[c], c, s),
                       WaitRow(local'[c], undo'[c], redo'[c], c, s))
    <3> DEFINE e == RowOf(OpsOf(log), c, s)
               q == QueueRow(stackQ[c], c, s)
               w == WaitRow(local[c], undo[c], redo[c], c, s)
               b == RowOf(undo[c] \o redo[c], c, s)
               v == WaitRow(local[c], << >>, << >>, c, s)
    <3>1. /\ e \in Rows /\ q \in Rows /\ w \in Rows /\ b \in Rows /\ NoOne \in Rows
          /\ WholeRow(log, Taken(c), stackQ[c], local[c], undo[c], redo[c], c, s)
               = Behind(e, Behind(NoOne, Behind(q, w)))
      BY <1>1, <1>3, RowsBefore, RowsAreRows, BehindNoOne, RowOfEmpty DEF WholeRow
    <3>2. s = "LOCAL" => w = v /\ b = NoOne
      BY <1>4
    <3>3. s # "LOCAL" => w = b /\ v = NoOne
      BY <1>4
    <3>4. WaitRow(local'[c], undo'[c], redo'[c], c, s) = v
      BY <1>2, <1>3
    <3>5. WholeRow(log', Taken(c)', stackQ'[c], local'[c], undo'[c], redo'[c], c, s)
            = Behind(Behind(e, b), Behind(NoOne, Behind(q, v)))
      BY <1>2, <1>3, <1>8, <2>0, RowOfEmpty DEF WholeRow
    <3> HIDE DEF e, q, w, b, v
    <3>6. CASE s = "LOCAL"
      <4>1. Behind(e, Behind(NoOne, Behind(q, w))) \in Rows
        BY <3>1, BehindIsRow
      <4>2. RowKept(Behind(e, Behind(NoOne, Behind(q, w))), q, w,
                    Behind(e, Behind(NoOne, Behind(q, w))), w)
        BY <4>1, SameKept
      <4>3. Behind(e, NoOne) = e
        BY <3>1, BehindNoOne
      <4> QED  BY <3>1, <3>2, <3>4, <3>5, <3>6, <4>2, <4>3 DEF q, w
    <3>7. CASE s # "LOCAL"
      <4>1. RowKept(Behind(e, Behind(NoOne, Behind(q, w))), q, w,
                    Behind(Behind(e, w), Behind(NoOne, Behind(q, NoOne))), NoOne)
        BY <3>1, RowMoves
      <4> QED  BY <3>1, <3>3, <3>4, <3>5, <3>7, <4>1 DEF q, w
    <3> QED  BY <3>6, <3>7
  <2>2. RowsKept(c)
    BY <2>1 DEF RowsKept
  <2>3. OthersAside(c) /\ Lined(c)'
    BY <1>1, <1>3, <1>6, <1>8 DEF OthersAside
  <2>4. \A d \in Clients : d # c => \A s : RowOf(OpsOf(log'), d, s) = RowOf(OpsOf(log), d, s)
    <3>1. Ids(ops) \subseteq Held(c)
      BY <1>1, IdsOfConcat DEF Held
    <3>2. \A d \in Clients : d # c => \A s : RowOf(ops, d, s) = NoOne
      BY <1>1, <3>1, OfNobodyElse
    <3> QED  BY <2>0, <3>2, BehindNoOne, RowsAreRows
  <2> QED  BY <2>2, <2>3, <2>4, StepOfLine
<1>9. CASE DispatchBack(c, "undoRedo", ops) /\ UNCHANGED log
  <2>0. /\ stackQ'[c] \in Seq(LineBlocks)
        /\ alive'[c] => \A s : QueueRow(stackQ'[c], c, s)
                                = Behind(RowOf(ops, c, s), QueueRow(stackQ[c], c, s))
        /\ \A d \in Clients : d # c => stackQ'[d] = stackQ[d]
    BY <1>1, <1>5, <1>9, RefusedInLine
  <2>1. ASSUME alive'[c], NEW s
        PROVE  RowKept(WholeRow(log, Taken(c), stackQ[c], local[c], undo[c], redo[c], c, s),
                       QueueRow(stackQ[c], c, s),
                       WaitRow(local[c], undo[c], redo[c], c, s),
                       WholeRow(log', Taken(c)', stackQ'[c], local'[c], undo'[c], redo'[c], c, s),
                       WaitRow(local'[c], undo'[c], redo'[c], c, s))
    <3> DEFINE e == RowOf(OpsOf(log), c, s)
               q == QueueRow(stackQ[c], c, s)
               w == WaitRow(local[c], undo[c], redo[c], c, s)
               b == RowOf(undo[c] \o redo[c], c, s)
               v == WaitRow(local[c], << >>, << >>, c, s)
    <3>1. /\ e \in Rows /\ q \in Rows /\ w \in Rows /\ b \in Rows /\ NoOne \in Rows
          /\ WholeRow(log, Taken(c), stackQ[c], local[c], undo[c], redo[c], c, s)
               = Behind(e, Behind(NoOne, Behind(q, w)))
      BY <1>1, <1>3, RowsBefore, RowsAreRows, BehindNoOne, RowOfEmpty DEF WholeRow
    <3>2. s = "LOCAL" => w = v /\ b = NoOne
      BY <1>4
    <3>3. s # "LOCAL" => w = b /\ v = NoOne
      BY <1>4
    <3>4. WaitRow(local'[c], undo'[c], redo'[c], c, s) = v
      BY <1>2, <1>3
    <3>5. WholeRow(log', Taken(c)', stackQ'[c], local'[c], undo'[c], redo'[c], c, s)
            = Behind(e, Behind(NoOne, Behind(Behind(b, q), v)))
      BY <1>2, <1>3, <1>9, <2>0, <2>1, RowOfEmpty DEF WholeRow
    <3> HIDE DEF e, q, w, b, v
    <3>6. CASE s = "LOCAL"
      <4>1. Behind(e, Behind(NoOne, Behind(q, w))) \in Rows
        BY <3>1, BehindIsRow
      <4>2. RowKept(Behind(e, Behind(NoOne, Behind(q, w))), q, w,
                    Behind(e, Behind(NoOne, Behind(q, w))), w)
        BY <4>1, SameKept
      <4>3. Behind(NoOne, q) = q
        BY <3>1, BehindNoOne
      <4> QED  BY <3>1, <3>2, <3>4, <3>5, <3>6, <4>2, <4>3 DEF q, w
    <3>7. CASE s # "LOCAL"
      <4>1. RowKept(Behind(e, Behind(NoOne, Behind(q, w))), q, w,
                    Behind(e, Behind(NoOne, Behind(Behind(w, q), NoOne))), NoOne)
        BY <3>1, RowMoves
      <4> QED  BY <3>1, <3>3, <3>4, <3>5, <3>7, <4>1 DEF q, w
    <3> QED  BY <3>6, <3>7
  <2>2. alive'[c] => RowsKept(c)
    BY <2>1 DEF RowsKept
  <2>3. OthersAside(c) /\ Lined(c)'
    BY <1>3, <1>6, <2>0 DEF OthersAside
  <2> QED  BY <1>9, <2>2, <2>3, StepOfLine
<1> QED
  BY <1>2, <1>7, <1>8, <1>9

LEMMA SameRows ==
  ASSUME NEW c \in Clients, log' = log,
         \A s : /\ RowOf(Taken(c)', c, s) = RowOf(Taken(c), c, s)
                /\ QueueRow(stackQ'[c], c, s) = QueueRow(stackQ[c], c, s)
                /\ WaitRow(local'[c], undo'[c], redo'[c], c, s)
                     = WaitRow(local[c], undo[c], redo[c], c, s)
  PROVE  RowsKept(c)
<1>1. ASSUME NEW s
      PROVE  WholeRow(log', Taken(c)', stackQ'[c], local'[c], undo'[c], redo'[c], c, s)
               = WholeRow(log, Taken(c), stackQ[c], local[c], undo[c], redo[c], c, s)
  BY DEF WholeRow
<1>2. ASSUME NEW s
      PROVE  WholeRow(log, Taken(c), stackQ[c], local[c], undo[c], redo[c], c, s) \in Rows
  BY RowsAreRows, BehindIsRow DEF WholeRow, WaitRow
<1> QED
  BY <1>1, <1>2, SameKept DEF RowsKept

LEMMA PutIntoSendStackKeepsLine ==
  ASSUME LineInv, NEW c \in Clients, PutIntoSendStack(c)
  PROVE  LineStep
<1>1. /\ TypeOK /\ Lined(c)
      /\ timer \in [Clients -> TimerSteps] /\ batch \in [Clients -> Seq(Ops)]
  BY DEF LineInv, DeliveryInv, TypeInv, TypeOK
<1>2. /\ timer' = [timer EXCEPT ![c] = "undoRedo"]
      /\ timer[c] = "sent"
      /\ batch' = [batch EXCEPT ![c] = << >>]
      /\ UNCHANGED <<log, local, undo, redo, stackQ>>
  BY DEF PutIntoSendStack
<1>3. Taken(c) = << >> /\ Taken(c)' = << >> /\ OthersAside(c) /\ batch'[c] = << >>
  BY <1>1, <1>2 DEF Taken, OthersAside
<1>4. << >> \in Seq(OpsIn({"LOCAL"}))
  BY EmptySeq
<1>5. Lined(c)'
  BY <1>1, <1>2, <1>3, <1>4 DEF Lined
<1>6. RowsKept(c)
  BY <1>2, <1>3, SameRows
<1> QED
  BY <1>2, <1>3, <1>5, <1>6, StepOfLine

LEMMA ReceivedEventKeepsLine ==
  ASSUME LineInv, NEW c \in Clients, ReceivedEvent(c)
  PROVE  LineStep
<1>1. /\ TypeOK /\ Lined(c)
      /\ stackQ \in [Clients -> Seq(Blocks)] /\ stackQ[c] \in Seq(Blocks)
      /\ stackQ[c] \in Seq(LineBlocks) /\ received[c] \in Nat /\ Len(log) \in Nat
  BY LenProperties DEF LineInv, DeliveryInv, TypeInv, TypeOK, Lined
<1>2. UNCHANGED <<log, local, undo, redo, timer, batch>>
  BY DEF ReceivedEvent, stacks
<1>3. PICK last \in (received[c] + 1)..Len(log) :
        stackQ' = [stackQ EXCEPT ![c] =
          stackQ[c] \o [i \in 1..(last - received[c]) |->
                          [kind |-> "new", at |-> received[c] + i, ops |-> << >>]]]
  BY DEF ReceivedEvent
<1> DEFINE n == last - received[c]
           e(i) == [kind |-> "new", at |-> received[c] + i, ops |-> << >>]
           event == [i \in 1..n |-> e(i)]
<1>4. n \in Nat
  BY <1>1
<1> HIDE DEF n
<1>5. \A i \in 1..n : e(i) \in Blocks /\ e(i) \in LineBlocks /\ e(i).ops = << >>
  BY <1>1, <1>4, EmptySeq DEF Blocks, LineBlocks
<1>6. event \in Seq(Blocks) /\ event \in Seq(LineBlocks)
  <2> HIDE DEF e
  <2> QED  BY <1>4, <1>5, IsASeq
<1>7. \A i \in 1..Len(event) : event[i].ops = << >>
  <2>1. Len(event) = n
    <3> HIDE DEF e
    <3> QED  BY <1>4, <1>6, LenProperties
  <2> QED  BY <1>5, <2>1
<1>8. stackQ' = [stackQ EXCEPT ![c] = stackQ[c] \o event]
  BY <1>3 DEF n
<1> HIDE DEF event, e
<1>9. stackQ'[c] = stackQ[c] \o event /\ OthersAside(c)
  BY <1>1, <1>2, <1>8 DEF OthersAside
<1>10. stackQ'[c] \in Seq(LineBlocks)
  BY <1>1, <1>6, <1>9, ConcatProperties
<1>11. Lined(c)'
  BY <1>1, <1>2, <1>10 DEF Lined
<1>12. \A s : QueueRow(stackQ'[c], c, s) = QueueRow(stackQ[c], c, s)
  BY <1>1, <1>6, <1>7, <1>9, QueueRowOfEvents
<1>13. Taken(c)' = Taken(c)
  BY <1>2 DEF Taken
<1>14. RowsKept(c)
  BY <1>2, <1>12, <1>13, SameRows
<1> QED
  BY <1>2, <1>9, <1>11, <1>14, StepOfLine

\* The block whose turn it is leaves the queue.
LEMMA ServedInLine ==
  ASSUME LineInv, NEW c \in Clients, StackQueue(c)
  PROVE  /\ stackQ[c] # << >>
         /\ stackQ'[c] = Tail(stackQ[c])
         /\ \A d \in Clients : d # c => stackQ'[d] = stackQ[d]
         /\ Tail(stackQ[c]) \in Seq(LineBlocks)
         /\ Head(stackQ[c]) \in LineBlocks /\ Head(stackQ[c]).ops \in Seq(Ops)
         /\ \A s : QueueRow(stackQ[c], c, s)
                     = Behind(QueueRow(Tail(stackQ[c]), c, s), RowOf(Head(stackQ[c]).ops, c, s))
         /\ UNCHANGED <<log, batch, timer>>
<1>1. /\ stackQ \in [Clients -> Seq(Blocks)] /\ stackQ[c] \in Seq(Blocks)
      /\ stackQ[c] \in Seq(LineBlocks)
  BY DEF LineInv, DeliveryInv, TypeInv, TypeOK, Lined
<1>2. /\ stackQ[c] # << >>
      /\ stackQ' = [stackQ EXCEPT ![c] = Tail(stackQ[c])]
      /\ UNCHANGED <<log, batch, timer>>
  BY DEF StackQueue, AddNewOperation, AddBack
<1>3. Head(stackQ[c]) \in LineBlocks /\ Tail(stackQ[c]) \in Seq(LineBlocks)
  BY <1>1, <1>2, HeadTailProperties
<1>4. Head(stackQ[c]).ops \in Seq(Ops)
  BY <1>3 DEF LineBlocks, Blocks
<1>5. \A s : QueueRow(stackQ[c], c, s)
               = Behind(QueueRow(Tail(stackQ[c]), c, s), RowOf(Head(stackQ[c]).ops, c, s))
  BY <1>1, <1>2, QueueRowServed
<1>6. stackQ'[c] = Tail(stackQ[c]) /\ \A d \in Clients : d # c => stackQ'[d] = stackQ[d]
  BY <1>1, <1>2
<1> QED
  BY <1>2, <1>3, <1>4, <1>5, <1>6

\* Moving the ranges of a stack moves nobody in its row.
LEMMA MovedInLine ==
  ASSUME NEW S, NEW stack \in Seq(OpsIn(S)), NEW shown,
         UpdateStackWithOperation(stack, shown) \in Seq(Ops)
  PROVE  /\ UpdateStackWithOperation(stack, shown) \in Seq(OpsIn(S))
         /\ \A c, s : RowOf(UpdateStackWithOperation(stack, shown), c, s) = RowOf(stack, c, s)
<1> DEFINE e(i) == [stack[i] EXCEPT !.range =
                      UpdateRange(stack[i].range, shown, stack[i].participantID)]
           moved == UpdateStackWithOperation(stack, shown)
<1>1. stack \in Seq(Ops) /\ \A i \in 1..Len(stack) : stack[i] \in Ops
  BY OpsInState
<1>2. \A i \in 1..Len(stack) : /\ e(i).participantID = stack[i].participantID
                               /\ e(i).state = stack[i].state
                               /\ e(i).operationID = stack[i].operationID
  BY <1>1 DEF Ops, Operations
<1>3. moved = [i \in 1..Len(stack) |-> e(i)]
  BY DEF UpdateStackWithOperation
<1> HIDE DEF e
<1>4. Len(moved) = Len(stack) /\ \A i \in 1..Len(stack) : moved[i] = e(i)
  BY <1>1, <1>3, LenProperties
<1>5. moved \in Seq(Ops)
  OBVIOUS
<1> HIDE DEF moved
<1>6. moved \in Seq(OpsIn(S))
  BY <1>2, <1>4, <1>5, CopyMarked
<1>7. \A c, s : RowOf(moved, c, s) = RowOf(stack, c, s)
  BY <1>2, <1>4, RowOfCopy
<1> QED
  BY <1>6, <1>7 DEF moved

LEMMA AddNewOperationKeepsLine ==
  ASSUME LineInv, TypeOK', NEW c \in Clients, AddNewOperation(c)
  PROVE  LineStep
<1>1. /\ TypeOK /\ Lined(c)
      /\ local \in [Clients -> Seq(Ops)] /\ local' \in [Clients -> Seq(Ops)]
      /\ local[c] \in Seq(OpsIn({"LOCAL"}))
  BY DEF LineInv, DeliveryInv, TypeInv, TypeOK, Lined
<1>2. StackQueue(c)
  BY DEF StackQueue
<1>3. /\ stackQ'[c] = Tail(stackQ[c])
      /\ \A d \in Clients : d # c => stackQ'[d] = stackQ[d]
      /\ Tail(stackQ[c]) \in Seq(LineBlocks)
      /\ Head(stackQ[c]) \in LineBlocks
      /\ \A s : QueueRow(stackQ[c], c, s)
                  = Behind(QueueRow(Tail(stackQ[c]), c, s), RowOf(Head(stackQ[c]).ops, c, s))
      /\ UNCHANGED <<log, batch, timer>>
  BY <1>2, ServedInLine
<1>4. Head(stackQ[c]).kind = "new" /\ UNCHANGED <<undo, redo>>
  BY DEF AddNewOperation
<1>5. \A s : QueueRow(stackQ'[c], c, s) = QueueRow(stackQ[c], c, s)
  <2>1. Head(stackQ[c]).ops = << >>
    BY <1>3, <1>4 DEF LineBlocks
  <2> QED  BY <1>3, <2>1, RowOfEmpty, BehindNoOne, RowsAreRows
<1>6. /\ local'[c] \in Seq(OpsIn({"LOCAL"}))
      /\ \A s : RowOf(local'[c], c, s) = RowOf(local[c], c, s)
      /\ \A d \in Clients : d # c => local'[d] = local[d]
  <2> DEFINE op == Delivered(log[Head(stackQ[c]).at])
  <2>1. UpdateOperationFromSendToGlobal(c, op) \/ AddNewGlobalOperation(c, op)
    BY DEF AddNewOperation
  <2> HIDE DEF op
  <2>2. CASE UpdateOperationFromSendToGlobal(c, op)
    <3>1. local' = local
      BY <2>2 DEF UpdateOperationFromSendToGlobal
    <3> QED  BY <1>1, <3>1
  <2>3. CASE AddNewGlobalOperation(c, op)
    <3>1. PICK shown : local' = [local EXCEPT ![c] = UpdateStackWithOperation(local[c], shown)]
      BY <2>3 DEF AddNewGlobalOperation
    <3>2. /\ local'[c] = UpdateStackWithOperation(local[c], shown)
          /\ \A d \in Clients : d # c => local'[d] = local[d]
      BY <1>1, <3>1
    <3>3. UpdateStackWithOperation(local[c], shown) \in Seq(Ops)
      BY <1>1, <3>2
    <3> QED  BY <1>1, <3>2, <3>3, MovedInLine
  <2> QED  BY <2>1, <2>2, <2>3
<1>7. OthersAside(c) /\ Lined(c)'
  BY <1>1, <1>3, <1>4, <1>6 DEF OthersAside, Lined
<1>8. Taken(c)' = Taken(c)
  BY <1>3 DEF Taken
<1>9. \A s : WaitRow(local'[c], undo'[c], redo'[c], c, s)
               = WaitRow(local[c], undo[c], redo[c], c, s)
  BY <1>4, <1>6 DEF WaitRow
<1>10. RowsKept(c)
  BY <1>3, <1>5, <1>8, <1>9, SameRows
<1> QED
  BY <1>3, <1>7, <1>10, StepOfLine

LEMMA AddBackKeepsLine ==
  ASSUME LineInv, NEW c \in Clients, AddBack(c)
  PROVE  LineStep
<1> DEFINE ops == Head(stackQ[c]).ops
           undos == {"UNDO"}
           undone == InState(ops, undos)
           others == States \ {"UNDO"}
           redone == InState(ops, others)
<1>1. /\ TypeOK /\ Lined(c)
      /\ local \in [Clients -> Seq(Ops)] /\ undo \in [Clients -> Seq(Ops)]
      /\ redo \in [Clients -> Seq(Ops)]
      /\ local[c] \in Seq(OpsIn({"LOCAL"})) /\ undo[c] \in Seq(OpsIn({"UNDO"}))
      /\ redo[c] \in Seq(OpsIn({"REDO"}))
  BY DEF LineInv, DeliveryInv, TypeInv, TypeOK, Lined
<1>2. StackQueue(c)
  BY DEF StackQueue
<1>3. /\ stackQ'[c] = Tail(stackQ[c])
      /\ \A d \in Clients : d # c => stackQ'[d] = stackQ[d]
      /\ Tail(stackQ[c]) \in Seq(LineBlocks)
      /\ Head(stackQ[c]) \in LineBlocks /\ ops \in Seq(Ops)
      /\ \A s : QueueRow(stackQ[c], c, s) = Behind(QueueRow(Tail(stackQ[c]), c, s), RowOf(ops, c, s))
      /\ UNCHANGED <<log, batch, timer>>
  BY <1>2, ServedInLine
<1>4. \/ /\ Head(stackQ[c]).kind = "local"
         /\ local' = [local EXCEPT ![c] = ops \o local[c]]
         /\ UNCHANGED <<undo, redo>>
      \/ /\ Head(stackQ[c]).kind = "undoRedo"
         /\ undo' = [undo EXCEPT ![c] = undone \o undo[c]]
         /\ redo' = [redo EXCEPT ![c] = redone \o redo[c]]
         /\ UNCHANGED local
  BY DEF AddBack
<1>5. /\ Head(stackQ[c]).kind = "local" => ops \in Seq(OpsIn({"LOCAL"}))
      /\ Head(stackQ[c]).kind = "undoRedo" => ops \in Seq(OpsIn({"UNDO", "REDO"}))
  BY <1>3 DEF LineBlocks
<1>6. /\ undone \in Seq(OpsIn({"UNDO"}))
      /\ ops \in Seq(OpsIn({"UNDO", "REDO"})) => redone \in Seq(OpsIn({"REDO"}))
  <2> HIDE DEF ops
  <2>1. undone \in Seq(OpsIn({"UNDO"}))
    BY <1>3, InStatePicks DEF OpsIn
  <2>2. ASSUME ops \in Seq(OpsIn({"UNDO", "REDO"}))
        PROVE  redone \in Seq(OpsIn({"REDO"}))
    <3> DEFINE B == OpsIn({"UNDO", "REDO"})
    <3> HIDE DEF B
    <3>1. ops \in Seq(B)
      BY <2>2 DEF B
    <3>2. redone \in Seq({o \in B : o.state \in States \ {"UNDO"}})
      BY <3>1, InStatePicks
    <3>3. {o \in B : o.state \in States \ {"UNDO"}} \subseteq OpsIn({"REDO"})
      BY DEF OpsIn, B
    <3> HIDE DEF redone
    <3> QED  BY <3>2, <3>3
  <2> QED  BY <2>1, <2>2
<1>7. << >> \in Seq(OpsIn({"LOCAL"}))
  BY EmptySeq
<1> HIDE DEF ops
<1>12. /\ "UNDO" \in undos /\ "REDO" \notin undos /\ undos \subseteq {"UNDO"}
       /\ "REDO" \in others /\ "UNDO" \notin others
  BY DEF States
<1> HIDE DEF others, undos
<1>14. undone \in Seq(Ops) /\ redone \in Seq(Ops)
  BY <1>3, InStateIsStack
<1>15. \A s : /\ RowOf(undone, c, s) = IF s \in undos THEN RowOf(ops, c, s) ELSE NoOne
              /\ RowOf(redone, c, s) = IF s \in others THEN RowOf(ops, c, s) ELSE NoOne
  BY <1>3, RowInState
<1> HIDE DEF undone, redone
<1>13. ASSUME ops \in Seq(OpsIn({"UNDO", "REDO"})), NEW s
       PROVE  WaitRow(local[c], undone \o undo[c], redone \o redo[c], c, s)
                = Behind(RowOf(ops, c, s), WaitRow(local[c], undo[c], redo[c], c, s))
  <2> DEFINE l == local[c]
             u == undo[c]
             r == redo[c]
  <2>1. /\ l \in Seq(OpsIn({"LOCAL"})) /\ u \in Seq(OpsIn({"UNDO"}))
        /\ r \in Seq(OpsIn({"REDO"}))
    BY <1>1
  <2> HIDE DEF l, u, r
  <2>2. s \notin {"UNDO", "REDO"} => RowOf(ops, c, s) = NoOne
    BY <1>13, RowOfMarked
  <2>3. /\ RowOf(undone, c, s) = IF s = "UNDO" THEN RowOf(ops, c, s) ELSE NoOne
        /\ RowOf(redone, c, s) = IF s = "REDO" THEN RowOf(ops, c, s) ELSE NoOne
    BY <1>12, <1>15, <2>2
  <2>4. WaitRow(l, undone \o u, redone \o r, c, s)
          = Behind(RowOf(ops, c, s), WaitRow(l, u, r, c, s))
    BY <1>13, <1>14, <2>1, <2>3, UndoAndRedoReturned
  <2> QED  BY <2>4 DEF l, u, r
<1>8. /\ local'[c] \in Seq(OpsIn({"LOCAL"})) /\ undo'[c] \in Seq(OpsIn({"UNDO"}))
      /\ redo'[c] \in Seq(OpsIn({"REDO"}))
      /\ \A d \in Clients : d # c => local'[d] = local[d] /\ undo'[d] = undo[d] /\ redo'[d] = redo[d]
      /\ \A s : WaitRow(local'[c], undo'[c], redo'[c], c, s)
                  = Behind(RowOf(ops, c, s), WaitRow(local[c], undo[c], redo[c], c, s))
  <2>1. CASE /\ Head(stackQ[c]).kind = "local"
             /\ local' = [local EXCEPT ![c] = ops \o local[c]]
             /\ UNCHANGED <<undo, redo>>
    <3>1. /\ local'[c] = ops \o local[c] /\ undo'[c] = undo[c] /\ redo'[c] = redo[c]
          /\ \A d \in Clients : d # c => local'[d] = local[d] /\ undo'[d] = undo[d] /\ redo'[d] = redo[d]
      BY <1>1, <2>1
    <3>2. ops \o local[c] \in Seq(OpsIn({"LOCAL"}))
      BY <1>1, <1>5, <2>1, ConcatProperties
    <3>3. \A s : WaitRow(ops \o local[c], undo[c], redo[c], c, s)
                   = Behind(RowOf(ops, c, s), WaitRow(local[c], undo[c], redo[c], c, s))
      <4>1. ops \in Seq(OpsIn({"LOCAL"})) /\ undo[c] \in Seq(Ops) /\ redo[c] \in Seq(Ops)
        BY <1>1, <1>5, <2>1
      <4> QED  BY <1>1, <4>1, LocalReturned
    <3> QED  BY <1>1, <3>1, <3>2, <3>3
  <2>2. CASE /\ Head(stackQ[c]).kind = "undoRedo"
             /\ undo' = [undo EXCEPT ![c] = undone \o undo[c]]
             /\ redo' = [redo EXCEPT ![c] = redone \o redo[c]]
             /\ UNCHANGED local
    <3>1. /\ local'[c] = local[c] /\ undo'[c] = undone \o undo[c] /\ redo'[c] = redone \o redo[c]
          /\ \A d \in Clients : d # c => local'[d] = local[d] /\ undo'[d] = undo[d] /\ redo'[d] = redo[d]
      BY <1>1, <2>2
    <3>2. undone \o undo[c] \in Seq(OpsIn({"UNDO"})) /\ redone \o redo[c] \in Seq(OpsIn({"REDO"}))
      BY <1>1, <1>5, <1>6, <2>2, ConcatProperties
    <3>3. \A s : WaitRow(local[c], undone \o undo[c], redone \o redo[c], c, s)
                   = Behind(RowOf(ops, c, s), WaitRow(local[c], undo[c], redo[c], c, s))
      <4>1. ops \in Seq(OpsIn({"UNDO", "REDO"}))
        BY <1>5, <2>2
      <4> QED  BY <1>13, <4>1
    <3> QED  BY <1>1, <3>1, <3>2, <3>3
  <2> QED  BY <1>4, <2>1, <2>2
<1>9. OthersAside(c) /\ Lined(c)'
  BY <1>1, <1>3, <1>8 DEF OthersAside, Lined
<1>10. Taken(c)' = Taken(c)
  BY <1>3 DEF Taken
<1>11. RowsKept(c)
  <2> SUFFICES ASSUME NEW s
               PROVE  RowKept(WholeRow(log, Taken(c), stackQ[c], local[c], undo[c], redo[c], c, s),
                              QueueRow(stackQ[c], c, s),
                              WaitRow(local[c], undo[c], redo[c], c, s),
                              WholeRow(log', Taken(c)', stackQ'[c], local'[c], undo'[c], redo'[c], c, s),
                              WaitRow(local'[c], undo'[c], redo'[c], c, s))
    BY DEF RowsKept
  <2> DEFINE x == RowOf(OpsOf(log), c, s)
             t == RowOf(Taken(c), c, s)
             q == QueueRow(Tail(stackQ[c]), c, s)
             w == WaitRow(local[c], undo[c], redo[c], c, s)
             b == RowOf(ops, c, s)
  <2>1. x \in Rows /\ t \in Rows /\ q \in Rows /\ w \in Rows /\ b \in Rows
    BY <1>1, RowsBefore, RowsAreRows
  <2>2. /\ QueueRow(stackQ[c], c, s) = Behind(q, b)
        /\ WholeRow(log, Taken(c), stackQ[c], local[c], undo[c], redo[c], c, s)
             = Behind(x, Behind(t, Behind(Behind(q, b), w)))
        /\ WholeRow(log', Taken(c)', stackQ'[c], local'[c], undo'[c], redo'[c], c, s)
             = Behind(x, Behind(t, Behind(q, Behind(b, w))))
        /\ WaitRow(local'[c], undo'[c], redo'[c], c, s) = Behind(b, w)
    BY <1>3, <1>8, <1>10 DEF WholeRow
  <2> HIDE DEF x, t, q, w, b
  <2>3. RowKept(Behind(x, Behind(t, Behind(Behind(q, b), w))), Behind(q, b), w,
                Behind(x, Behind(t, Behind(q, Behind(b, w)))), Behind(b, w))
    BY <2>1, RowMovesBack
  <2> QED  BY <2>2, <2>3 DEF w
<1> QED
  BY <1>3, <1>9, <1>11, StepOfLine

\* Every step keeps the line of every device.
LEMMA NextKeepsLine ==
  ASSUME LineInv, [Next]_vars
  PROVE  LineStep /\ LineInv'
<1>1. DeliveryInv'
  BY NextDelivers DEF LineInv
<1>2. TypeOK'
  BY <1>1 DEF DeliveryInv, TypeInv
<1>3. ASSUME NEW c \in Clients, Timer(c)
      PROVE  LineStep
  BY <1>2, <1>3, GetLocalChangeSetKeepsLine, BroadcastLocalKeepsLine, RefuseLocalKeepsLine,
     PutIntoSendStackKeepsLine, SendUndoAndRedoKeepsLine DEF Timer
<1>4. ASSUME NEW c \in Clients, StackQueue(c)
      PROVE  LineStep
  BY <1>2, <1>4, AddNewOperationKeepsLine, AddBackKeepsLine DEF StackQueue
<1>5. ASSUME NEW c \in Clients, UpdateInputView(c)
      PROVE  LineStep
  BY <1>5, LineAside DEF UpdateInputView, stacks
<1>6. ASSUME UNCHANGED vars
      PROVE  LineStep
  BY <1>6, LineAside DEF vars, stacks, threads
<1>7. LineStep
  <2>1. CASE Next
    BY <1>2, <1>3, <1>4, <1>5, <2>1, UserKeepsLine, ReceivedEventKeepsLine DEF Next
  <2> QED  BY <1>6, <2>1
<1> QED
  BY <1>1, <1>7 DEF LineStep, LineInv

LEMMA LineInitially == Init => LineInv
<1> SUFFICES ASSUME Init, NEW c \in Clients  PROVE Lined(c)
  BY DeliveryInitially DEF LineInv
<1>1. /\ local[c] = << >> /\ batch[c] = << >> /\ undo[c] = << >> /\ redo[c] = << >>
      /\ stackQ[c] = << >>
  BY DEF Init
<1> QED
  BY <1>1, EmptySeq DEF Lined

\* No operation is overtaken on its way to the session, from the stack it is put on,
\* through the refusals and returns of its change set and the blocks of others on the
\* queue that takes it back, into the session's order (getLocalOperations,
\* addChangeSetToLocal, addChangeSetToUndoAndRedo). One step reverses a pair: the timer
\* takes what has gathered while an older operation is on its way back, which is what
\* the run Refused shows of the order in a change set.
THEOREM LineStays == Spec => LineKept
<1>1. Spec => []LineInv
  BY LineInitially, NextKeepsLine, PTL DEF Spec
<1>2. ASSUME LineInv, [Next]_vars
      PROVE  \A c \in Clients : alive'[c] => LineKeptFor(c)
  <2>1. LineStep /\ TypeOK /\ TypeOK'
    BY <1>2, NextKeepsLine DEF LineInv, DeliveryInv, TypeInv
  <2> QED  BY <2>1, LineByRows DEF LineStep
<1>3. LineInv /\ [Next]_vars =>
        [\A c \in Clients :
           alive'[c] =>
             LET before == Precedence(Line(c), c)
                 after  == Precedence(Line(c)', c)
             IN  /\ \A pair \in after : pair[1] \in Labels(Line(c), c)
                 /\ \A pair \in before :
                      IF pair[1] \in Returning(c) /\ pair[2] \in Gathered(c) \ Gathered(c)'
                        THEN <<pair[2], pair[1]>> \in after
                        ELSE pair \in after]_vars
  BY <1>2 DEF LineKeptFor
<1> QED
  BY <1>1, <1>3, PTL DEF Spec, LineKept

-----------------------------------------------------------------------------
(* A session in which users only insert.                                   *)

\* The character that a keystroke puts.
Glyph(x) == <<x[1], x[2], 1>>

\* A member of the session puts a character and cuts none.
Insertion(op) ==
  /\ op.participantID \in Clients
  /\ op.range \in EmptyRanges
  /\ op.originalString = << >>
  /\ op.replaceString = <<Glyph(Identity(op))>>

Insertions == {op \in Ops : Insertion(op)}

Keystrokes == {op \in Ops : Insertion(op) /\ op.state = "LOCAL"}

KeyBlocks == [kind : {"new", "local"}, at : Nat, ops : Seq(Keystrokes)]

\* Every operation is an insertion, wherever it is on its way.
OnlyInsertions ==
  /\ log \in Seq([op : Keystrokes, order : Nat])
  /\ local \in [Clients -> Seq(Keystrokes)]
  /\ batch \in [Clients -> Seq(Keystrokes)]
  /\ stackQ \in [Clients -> Seq(KeyBlocks)]
  /\ uiQ \in [Clients -> Seq(Insertions)]
  /\ \A c \in Clients : undo[c] = << >> /\ redo[c] = << >>

UsersInsert == (\A edit \in Edits : edit[1] = 0 /\ edit[2] # 0) /\ "undo" \notin Freedoms

LEMMA InsertionMoved ==
  ASSUME NEW op \in Ops, NEW range \in EmptyRanges, Insertion(op)
  PROVE  LET moved == [op EXCEPT !.range = range]
         IN  /\ moved \in Insertions /\ moved.range = range
             /\ moved.state = op.state /\ Identity(moved) = Identity(op)
<1> DEFINE moved == [op EXCEPT !.range = range]
<1>1. range \in Ranges
  BY DEF EmptyRanges
<1>2. moved \in Ops /\ moved.range = range
  BY <1>1, OperationsAreWellFormed DEF Ops
<1>3. /\ moved.participantID = op.participantID /\ moved.operationID = op.operationID
      /\ moved.replaceString = op.replaceString /\ moved.state = op.state
      /\ moved.originalString = op.originalString
  BY DEF Ops, Operations
<1> HIDE DEF moved
<1>4. Identity(moved) = Identity(op)
  BY <1>3 DEF Identity
<1> QED
  BY <1>2, <1>3, <1>4 DEF Insertions, Insertion, moved

LEMMA KeystrokeReferred ==
  ASSUME NEW op \in Keystrokes, NEW refer \in Nat \cup {NoRefer}
  PROVE  [op EXCEPT !.referID = refer] \in Keystrokes
<1> DEFINE referred == [op EXCEPT !.referID = refer]
<1>1. op \in Ops
  BY DEF Keystrokes
<1>2. referred \in Ops
  BY <1>1 DEF Ops, Operations
<1>3. /\ referred.participantID = op.participantID /\ referred.operationID = op.operationID
      /\ referred.replaceString = op.replaceString /\ referred.state = op.state
      /\ referred.originalString = op.originalString
      /\ referred.range = op.range
  BY <1>1 DEF Ops, Operations
<1> HIDE DEF referred
<1>4. Identity(referred) = Identity(op)
  BY <1>3 DEF Identity
<1> QED
  BY <1>2, <1>3, <1>4 DEF Keystrokes, Insertion, referred

LEMMA InsertionDelivered ==
  ASSUME NEW entry \in [op : Keystrokes, order : Nat]
  PROVE  /\ Delivered(entry) \in Insertions
         /\ Delivered(entry).state = "GLOBAL"
         /\ Identity(Delivered(entry)) = Identity(entry.op)
<1> DEFINE op == Delivered(entry)
<1>1. entry.op \in Ops /\ entry.op \in Keystrokes /\ entry \in [op : Ops, order : Nat]
  BY DEF Keystrokes
<1>2. op \in Ops
  BY <1>1, DeliveredType
<1>3. /\ op.participantID = entry.op.participantID /\ op.operationID = entry.op.operationID
      /\ op.replaceString = entry.op.replaceString /\ op.range = entry.op.range
      /\ op.originalString = entry.op.originalString
      /\ op.state = "GLOBAL"
  BY <1>1 DEF Keystrokes, Ops, Operations, Delivered
<1> HIDE DEF op
<1>4. Identity(op) = Identity(entry.op)
  BY <1>3 DEF Identity
<1> QED
  BY <1>1, <1>2, <1>3, <1>4 DEF Keystrokes, Insertions, Insertion, op

\* A keystroke, as textView:shouldChangeTextInRange: records it.
LEMMA KeystrokeTyped ==
  ASSUME TypeOK, UsersInsert, NEW c \in Clients, member[c], Type(c)
  PROVE  \E op \in Keystrokes :
           /\ Identity(op) = <<c, nextID[c]>>
           /\ op.operationID = nextID[c]
           /\ op.range.location \in 0..Len(text[c])
           /\ local' = [local EXCEPT ![c] = Append(@, op)]
           /\ text' = [text EXCEPT ![c] = Replace(@, op.range, op.replaceString)]
           /\ caret' = [caret EXCEPT ![c] = op.range.location + 1]
           /\ nextID' = [nextID EXCEPT ![c] = @ + 1]
           /\ UNCHANGED <<member, log, received, undo, redo, stackQ, uiQ, batch, alive>>
<1>1. PICK edit \in Edits, location \in 0..Len(text[c]) :
        ShouldChangeText(c, [location |-> location, length |-> edit[1]], Typed(c, edit[2]))
  BY DEF Type
<1> DEFINE range == [location |-> location, length |-> edit[1]]
           put == Typed(c, edit[2])
           op == NewOperation(c, range, Substring(text[c], range), put)
<1>2. edit[1] = 0 /\ edit[2] \in Nat /\ edit[2] # 0
  BY EditsAssumption DEF UsersInsert
<1>3. text[c] \in Seq(Glyphs) /\ nextID[c] \in Nat /\ Len(text[c]) \in Nat
  BY LenProperties DEF TypeOK
<1>4. put = <<Glyph(<<c, nextID[c]>>)>> /\ put \in Strings(Glyphs)
  <2>1. Len(put) = edit[2] /\ Len(put) <= 1
    BY <1>1, <1>2 DEF ShouldChangeText, Typed
  <2>2. edit[2] = 1
    BY <1>2, <2>1
  <2>3. <<c, nextID[c], 1>> \in Glyphs
    BY <1>3 DEF Glyphs
  <2>4. put = <<<<c, nextID[c], 1>>>>
    BY <2>2 DEF Typed
  <2> QED  BY <2>3, <2>4 DEF Glyph, Strings
<1>5. range \in Ranges /\ range \in EmptyRanges /\ range.location = location
  BY <1>2, <1>3 DEF Ranges, EmptyRanges
<1>6. Substring(text[c], range) \in Strings(Glyphs) /\ Substring(text[c], range) = << >>
  <2>1. Within(range, text[c]) /\ range.length <= 1 /\ range.length = 0
    BY <1>2, <1>3 DEF Within
  <2> HIDE DEF range
  <2>2. Substring(text[c], range) \in Strings(Glyphs)
    BY <1>3, <1>5, <2>1, SubstringIsString
  <2>3. location + 1 \in Nat /\ location + 0 = location /\ ~(location + 1 <= location)
    BY <1>3
  <2>4. Len(SubSeq(text[c], location + 1, location)) = 0
    BY <1>3, <2>3, SubSeqProperties
  <2>5. Substring(text[c], range) = SubSeq(text[c], location + 1, location)
    BY <1>5, <2>1, <2>3 DEF Substring
  <2> DEFINE cut == Substring(text[c], range)
  <2>6. cut \in Seq(Glyphs) /\ Len(cut) = 0
    BY <2>2, <2>4, <2>5 DEF Strings
  <2> HIDE DEF cut
  <2>7. cut = << >>
    BY <2>6, EmptySeq
  <2> QED  BY <2>2, <2>7 DEF cut
<1> HIDE DEF put, range
<1>7. /\ op \in Ops /\ Identity(op) = <<c, nextID[c]>> /\ op.operationID = nextID[c]
      /\ op.range = range /\ op.replaceString = put /\ op.state = "LOCAL"
      /\ op.participantID = c /\ op.originalString = << >>
  BY <1>3, <1>4, <1>5, <1>6 DEF NewOperation, Identity, Ops, Operations, ParticipantID, States
<1>8. /\ local' = [local EXCEPT ![c] = Append(@, op)]
      /\ text' = [text EXCEPT ![c] = Replace(@, range, put)]
      /\ caret' = [caret EXCEPT ![c] = range.location + Len(put)]
      /\ nextID' = [nextID EXCEPT ![c] = @ + 1]
      /\ UNCHANGED <<member, log, received, undo, redo, stackQ, uiQ, batch, alive>>
  BY <1>1 DEF ShouldChangeText, threads, range, put
<1> HIDE DEF op
<1>9. op \in Keystrokes
  BY <1>4, <1>5, <1>7 DEF Keystrokes, Insertion
<1>10. Len(put) = 1
  BY <1>4
<1> QED
  BY <1>5, <1>7, <1>8, <1>9, <1>10

\* Bringing an insertion forward leaves it one, and those that wait as well.
LEMMA InsertionPlaced ==
  ASSUME TypeOK, OnlyInsertions, NEW c \in Clients, NEW op \in Insertions,
         AddNewGlobalOperation(c, op)
  PROVE  /\ local' \in [Clients -> Seq(Keystrokes)]
         /\ \E shown \in Insertions :
              Identity(shown) = Identity(op) /\ uiQ' = [uiQ EXCEPT ![c] = Append(@, shown)]
<1> DEFINE placed == [op EXCEPT !.range = RangeOnGlobal(global[c], op)]
           range  == RangeOnScreen(placed.range, placed.participantID, send[c] \o local[c])
           shown  == [placed EXCEPT !.range = range]
<1>1. /\ global[c] \in Seq(Ops) /\ send[c] \in Seq(Ops) /\ local[c] \in Seq(Ops)
      /\ local[c] \in Seq(Keystrokes) /\ local \in [Clients -> Seq(Keystrokes)]
      /\ op \in Ops /\ Insertion(op)
  BY DEF TypeOK, OnlyInsertions, Insertions
<1>2. RangeOnGlobal(global[c], op) \in EmptyRanges
  BY <1>1, EmptyOnGlobal DEF Insertion, Ops
<1>3. placed \in Insertions /\ placed.range \in EmptyRanges /\ Identity(placed) = Identity(op)
  BY <1>1, <1>2, InsertionMoved
<1> HIDE DEF placed
<1>4. range \in EmptyRanges
  <2>1. send[c] \o local[c] \in Seq(Ops)
    BY <1>1, ConcatProperties
  <2>2. placed.range \in Ranges
    BY <1>3 DEF EmptyRanges
  <2> QED  BY <1>3, <2>1, <2>2, EmptyOnScreen DEF Ops
<1> HIDE DEF range
<1>5. shown \in Insertions /\ Identity(shown) = Identity(op)
  <2>1. placed \in Ops /\ Insertion(placed)
    BY <1>3 DEF Insertions
  <2> QED  BY <1>3, <1>4, <2>1, InsertionMoved
<1>6. /\ local' = [local EXCEPT ![c] = UpdateStackWithOperation(local[c], shown)]
      /\ uiQ' = [uiQ EXCEPT ![c] = Append(@, shown)]
  <2>1. [placed EXCEPT !.range = RangeOnScreen(@, op.participantID, send[c] \o local[c])] = shown
    <3>1. op.participantID = placed.participantID
      BY <1>1, <1>3 DEF Identity
    <3> QED  BY <3>1 DEF range
  <2> QED  BY <2>1 DEF AddNewGlobalOperation, placed
<1> HIDE DEF shown
<1>7. UpdateStackWithOperation(local[c], shown) \in Seq(Keystrokes)
  <2> DEFINE e(i) == [local[c][i] EXCEPT !.range =
                        UpdateRange(local[c][i].range, shown, local[c][i].participantID)]
  <2>1. ASSUME NEW i \in 1..Len(local[c])
        PROVE  e(i) \in Keystrokes
    <3>1. local[c][i] \in Keystrokes
      BY <1>1, ElementOfSeq
    <3>2. /\ local[c][i] \in Ops /\ Insertion(local[c][i]) /\ local[c][i].state = "LOCAL"
          /\ local[c][i].range \in EmptyRanges
      BY <3>1 DEF Keystrokes, Insertion
    <3>3. WellFormed(shown)
      BY <1>5, OperationsAreWellFormed DEF Insertions, Ops
    <3>4. UpdateRange(local[c][i].range, shown, local[c][i].participantID) \in EmptyRanges
      BY <3>2, <3>3, EmptyCarried
    <3>5. e(i) \in Insertions /\ e(i).state = "LOCAL"
      BY <3>2, <3>4, InsertionMoved
    <3> QED  BY <3>5 DEF Insertions, Keystrokes
  <2>2. UpdateStackWithOperation(local[c], shown) = [i \in 1..Len(local[c]) |-> e(i)]
    BY <1>1 DEF UpdateStackWithOperation
  <2>3. Len(local[c]) \in Nat
    BY <1>1, LenProperties
  <2> HIDE DEF e
  <2>4. [i \in 1..Len(local[c]) |-> e(i)] \in Seq(Keystrokes)
    BY <2>1, <2>3, IsASeq
  <2> QED  BY <2>2, <2>4
<1> QED
  BY <1>1, <1>5, <1>6, <1>7

\* The change set of a broadcast puts keystrokes into the log.
LEMMA KeystrokesLogged ==
  ASSUME TypeOK, OnlyInsertions, NEW ops \in Seq(Keystrokes)
  PROVE  log \o Event(ops) \in Seq([op : Keystrokes, order : Nat])
<1> DEFINE Entries == [op : Keystrokes, order : Nat]
           next == IF log = << >> THEN 1 ELSE log[Len(log)].order + 1
           e(i) == [op |-> ops[i], order |-> next]
<1>1. log \in Seq(Entries) /\ Len(log) \in Nat
  BY LenProperties DEF OnlyInsertions
<1>2. next \in Nat
  <2>1. CASE log # << >>
    <3>1. Len(log) \in 1..Len(log)
      BY <1>1, <2>1, EmptySeq
    <3>2. log[Len(log)] \in Entries
      BY <1>1, <3>1, ElementOfSeq
    <3> QED  BY <2>1, <3>2
  <2> QED  BY <2>1
<1> HIDE DEF next
<1>3. Event(ops) = [i \in 1..Len(ops) |-> e(i)] /\ Len(ops) \in Nat
  BY LenProperties DEF Event, next
<1>4. \A i \in 1..Len(ops) : e(i) \in Entries
  BY <1>2, ElementOfSeq
<1>5. [i \in 1..Len(ops) |-> e(i)] \in Seq(Entries)
  <2> HIDE DEF e, Entries
  <2> QED  BY <1>3, <1>4, IsASeq
<1> HIDE DEF Entries
<1>6. log \o Event(ops) \in Seq(Entries)
  BY <1>1, <1>3, <1>5, ConcatProperties
<1> QED
  BY <1>6 DEF Entries

\* addNewChangeSet's block reads what was handed over.
LEMMA EntryServed ==
  ASSUME TypeInv, NEW c \in Clients, stackQ[c] # << >>, Head(stackQ[c]).kind = "new"
  PROVE  /\ Head(stackQ[c]).at \in 1..received[c]
         /\ Head(stackQ[c]).at \in 1..Len(log)
<1>1. /\ stackQ[c] \in Seq(Blocks) /\ received[c] \in Nat /\ received[c] <= Len(log)
      /\ Len(log) \in Nat
  BY LenProperties DEF TypeInv, TypeOK, HandedOver
<1>2. Len(stackQ[c]) \in Nat /\ Len(stackQ[c]) # 0 /\ Head(stackQ[c]) = stackQ[c][1]
  BY <1>1, LenProperties, EmptySeq, HeadTailProperties
<1>3. 1 \in 1..Len(stackQ[c])
  BY <1>2
<1>4. Head(stackQ[c]).at \in 1..received[c]
  BY <1>2, <1>3 DEF TypeInv, HandedOver
<1> QED
  BY <1>1, <1>4

LEMMA UserKeepsInsertions ==
  ASSUME TypeInv, OnlyInsertions, UsersInsert, "early" \notin Freedoms,
         NEW c \in Clients, User(c)
  PROVE  OnlyInsertions'
<1>0. TypeOK
  BY DEF TypeInv
<1>1. CASE Type(c)
  <2>1. member[c]
    BY <1>1 DEF Type
  <2>2. PICK op \in Keystrokes :
          /\ local' = [local EXCEPT ![c] = Append(@, op)]
          /\ UNCHANGED <<log, undo, redo, stackQ, uiQ, batch>>
    BY <1>0, <1>1, <2>1, KeystrokeTyped
  <2>3. local[c] \in Seq(Keystrokes)
    BY DEF OnlyInsertions
  <2>4. Append(local[c], op) \in Seq(Keystrokes)
    BY <2>3, AppendProperties
  <2> QED  BY <2>2, <2>4 DEF OnlyInsertions
<1>2. CASE CreateSess(c) \/ JoinSess(c)
  BY <1>2 DEF CreateSess, JoinSess, OnlyInsertions, stacks, threads
<1> QED
  BY <1>1, <1>2 DEF User, UndoAct, RedoAct, UsersInsert

LEMMA TimerKeepsInsertions ==
  ASSUME TypeInv, OnlyInsertions, NEW c \in Clients, Timer(c)
  PROVE  OnlyInsertions'
<1>0. /\ TypeOK
      /\ << >> \in Seq(Keystrokes)
      /\ local[c] \in Seq(Keystrokes) /\ local \in [Clients -> Seq(Keystrokes)]
      /\ batch[c] \in Seq(Keystrokes) /\ batch \in [Clients -> Seq(Keystrokes)]
      /\ undo[c] = << >> /\ redo[c] = << >>
      /\ stackQ \in [Clients -> Seq(KeyBlocks)] /\ stackQ[c] \in Seq(KeyBlocks)
  BY EmptySeq DEF TypeInv, OnlyInsertions
<1>1. CASE GetLocalChangeSet(c)
  <2> DEFINE e(i) == [local[c][i] EXCEPT !.referID = Refer(c)]
             ops == [i \in 1..Len(local[c]) |-> e(i)]
  <2>1. /\ batch' = [batch EXCEPT ![c] = ops]
        /\ local' = [local EXCEPT ![c] = << >>]
        /\ UNCHANGED <<log, undo, redo, stackQ, uiQ>>
    <3>1. DOMAIN local[c] = 1..Len(local[c])
      BY <1>0, LenProperties
    <3> QED  BY <1>1, <3>1 DEF GetLocalChangeSet
  <2>2. Refer(c) \in Nat \cup {NoRefer}
    <3>1. global[c] \in Seq(Ops)
      BY <1>0 DEF TypeOK
    <3>2. CASE global[c] # << >>
      <4>1. Len(global[c]) \in 1..Len(global[c])
        BY <3>1, <3>2, EmptySeq, LenProperties
      <4>2. global[c][Len(global[c])] \in Ops
        BY <3>1, <4>1, ElementOfSeq
      <4> QED  BY <3>2, <4>2 DEF Refer, Ops, Operations
    <3> QED  BY <3>2 DEF Refer
  <2>3. \A i \in 1..Len(local[c]) : e(i) \in Keystrokes
    <3>1. \A i \in 1..Len(local[c]) : local[c][i] \in Keystrokes
      BY <1>0, ElementOfSeq
    <3> QED  BY <2>2, <3>1, KeystrokeReferred
  <2>4. Len(local[c]) \in Nat
    BY <1>0, LenProperties
  <2> HIDE DEF e
  <2>5. ops \in Seq(Keystrokes)
    BY <2>3, <2>4, IsASeq
  <2> HIDE DEF ops
  <2> QED  BY <1>0, <2>1, <2>5 DEF OnlyInsertions
<1>2. CASE BroadcastLocal(c)
  <2>1. /\ log' = log \o Event(batch[c])
        /\ UNCHANGED <<local, undo, redo, stackQ, uiQ, batch>>
    BY <1>2 DEF BroadcastLocal, stacks
  <2>2. log' \in Seq([op : Keystrokes, order : Nat])
    BY <1>0, <2>1, KeystrokesLogged
  <2> QED  BY <2>1, <2>2 DEF OnlyInsertions
<1>3. CASE RefuseLocal(c)
  <2> DEFINE block == [kind |-> "local", at |-> 0, ops |-> batch[c]]
  <2>1. /\ batch' = [batch EXCEPT ![c] = << >>]
        /\ UNCHANGED <<log, local, undo, redo, uiQ>>
        /\ stackQ' = [stackQ EXCEPT ![c] = Append(stackQ[c], block)] \/ stackQ' = stackQ
    BY <1>3 DEF RefuseLocal, DispatchBack, stacks
  <2>2. block \in KeyBlocks
    BY <1>0 DEF KeyBlocks
  <2> HIDE DEF block
  <2>3. Append(stackQ[c], block) \in Seq(KeyBlocks)
    BY <1>0, <2>2, AppendProperties
  <2>4. stackQ' \in [Clients -> Seq(KeyBlocks)]
    BY <1>0, <2>1, <2>3
  <2> QED  BY <1>0, <2>1, <2>4 DEF OnlyInsertions
<1>4. CASE PutIntoSendStack(c)
  <2>1. /\ batch' = [batch EXCEPT ![c] = << >>]
        /\ UNCHANGED <<log, local, undo, redo, stackQ, uiQ>>
    BY <1>4 DEF PutIntoSendStack
  <2> QED  BY <1>0, <2>1 DEF OnlyInsertions
<1>5. CASE SendUndoAndRedo(c)
  <2>1. undo[c] \o redo[c] = << >>
    BY <1>0, EmptySeq, ConcatEmptySeq
  <2>2. /\ undo' = [undo EXCEPT ![c] = << >>] /\ redo' = [redo EXCEPT ![c] = << >>]
        /\ UNCHANGED <<log, local, stackQ, uiQ, batch>>
    BY <1>5, <2>1 DEF SendUndoAndRedo
  <2>3. undo' = undo /\ redo' = redo
    BY <1>0, <2>2 DEF TypeOK
  <2> QED  BY <2>2, <2>3 DEF OnlyInsertions
<1> QED
  BY <1>1, <1>2, <1>3, <1>4, <1>5 DEF Timer

LEMMA ReceivedEventKeepsInsertions ==
  ASSUME TypeInv, OnlyInsertions, NEW c \in Clients, ReceivedEvent(c)
  PROVE  OnlyInsertions'
<1>1. PICK last \in (received[c] + 1)..Len(log) :
        stackQ' = [stackQ EXCEPT ![c] =
          stackQ[c] \o [i \in 1..(last - received[c]) |->
                          [kind |-> "new", at |-> received[c] + i, ops |-> << >>]]]
  BY DEF ReceivedEvent
<1>2. UNCHANGED <<log, local, undo, redo, uiQ, batch>>
  BY DEF ReceivedEvent, stacks
<1> DEFINE n == last - received[c]
           e(i) == [kind |-> "new", at |-> received[c] + i, ops |-> << >>]
           event == [i \in 1..n |-> e(i)]
<1>3. received[c] \in Nat /\ n \in Nat
  <2>1. received[c] \in Nat /\ log \in Seq([op : Ops, order : Nat])
    BY DEF TypeInv, TypeOK
  <2>2. Len(log) \in Nat
    BY <2>1, LenProperties
  <2> QED  BY <2>1, <2>2
<1>4. stackQ' = [stackQ EXCEPT ![c] = stackQ[c] \o event]
  BY <1>1
<1> HIDE DEF n
<1>5. \A i \in 1..n : e(i) \in KeyBlocks
  <2>1. << >> \in Seq(Keystrokes)
    BY EmptySeq
  <2>2. \A i \in 1..n : received[c] + i \in Nat
    BY <1>3
  <2> QED  BY <2>1, <2>2 DEF KeyBlocks
<1> HIDE DEF e
<1>6. event \in Seq(KeyBlocks)
  BY <1>3, <1>5, IsASeq
<1> HIDE DEF event
<1>7. stackQ \in [Clients -> Seq(KeyBlocks)] /\ stackQ[c] \in Seq(KeyBlocks)
  BY DEF OnlyInsertions
<1>8. stackQ[c] \o event \in Seq(KeyBlocks)
  BY <1>6, <1>7, ConcatProperties
<1>9. stackQ' \in [Clients -> Seq(KeyBlocks)]
  BY <1>4, <1>7, <1>8
<1> QED
  BY <1>2, <1>9 DEF OnlyInsertions

LEMMA StackQueueKeepsInsertions ==
  ASSUME TypeInv, OnlyInsertions, NEW c \in Clients, StackQueue(c)
  PROVE  OnlyInsertions'
<1> DEFINE block == Head(stackQ[c])
<1>1. /\ TypeOK /\ stackQ[c] # << >>
      /\ stackQ' = [stackQ EXCEPT ![c] = Tail(stackQ[c])]
      /\ UNCHANGED <<log, batch>>
  BY DEF TypeInv, StackQueue, AddNewOperation, AddBack
<1>2. /\ stackQ \in [Clients -> Seq(KeyBlocks)] /\ stackQ[c] \in Seq(KeyBlocks)
      /\ local \in [Clients -> Seq(Keystrokes)] /\ local[c] \in Seq(Keystrokes)
      /\ uiQ \in [Clients -> Seq(Insertions)] /\ uiQ[c] \in Seq(Insertions)
  BY DEF OnlyInsertions
<1>3. block \in KeyBlocks /\ Tail(stackQ[c]) \in Seq(KeyBlocks)
  BY <1>1, <1>2, HeadTailProperties
<1>4. stackQ' \in [Clients -> Seq(KeyBlocks)]
  BY <1>1, <1>2, <1>3
<1>5. CASE AddNewOperation(c)
  <2> DEFINE entry == log[block.at]
             op == Delivered(entry)
  <2>1. /\ block.kind = "new" /\ UNCHANGED <<undo, redo>>
        /\ UpdateOperationFromSendToGlobal(c, op) \/ AddNewGlobalOperation(c, op)
    BY <1>5 DEF AddNewOperation
  <2>2. entry \in [op : Keystrokes, order : Nat]
    <3>1. block.at \in 1..Len(log)
      BY <1>1, <2>1, EntryServed
    <3> QED  BY <3>1, ElementOfSeq DEF OnlyInsertions
  <2>3. op \in Insertions
    BY <2>2, InsertionDelivered
  <2> HIDE DEF op
  <2>4. CASE UpdateOperationFromSendToGlobal(c, op)
    <3>1. UNCHANGED <<local, uiQ>>
      BY <2>4 DEF UpdateOperationFromSendToGlobal
    <3> QED  BY <1>1, <1>4, <2>1, <3>1 DEF OnlyInsertions
  <2>5. CASE AddNewGlobalOperation(c, op)
    <3>1. PICK shown \in Insertions : uiQ' = [uiQ EXCEPT ![c] = Append(@, shown)]
      BY <1>1, <2>3, <2>5, InsertionPlaced
    <3>2. local' \in [Clients -> Seq(Keystrokes)]
      BY <1>1, <2>3, <2>5, InsertionPlaced
    <3>3. Append(uiQ[c], shown) \in Seq(Insertions)
      BY <1>2, AppendProperties
    <3>4. uiQ' \in [Clients -> Seq(Insertions)]
      BY <1>2, <3>1, <3>3
    <3> QED  BY <1>1, <1>4, <2>1, <3>2, <3>4 DEF OnlyInsertions
  <2> QED  BY <2>1, <2>4, <2>5
<1>6. CASE AddBack(c)
  <2>1. block.kind # "undoRedo" /\ block.ops \in Seq(Keystrokes)
    BY <1>3 DEF KeyBlocks
  <2>2. /\ local' = [local EXCEPT ![c] = block.ops \o local[c]]
        /\ UNCHANGED <<undo, redo, uiQ>>
    BY <1>6, <2>1 DEF AddBack
  <2>3. block.ops \o local[c] \in Seq(Keystrokes)
    BY <1>2, <2>1, ConcatProperties
  <2>4. local' \in [Clients -> Seq(Keystrokes)]
    BY <1>2, <2>2, <2>3
  <2> QED  BY <1>1, <1>4, <2>2, <2>4 DEF OnlyInsertions
<1> QED
  BY <1>5, <1>6 DEF StackQueue

LEMMA UpdateInputViewKeepsInsertions ==
  ASSUME TypeInv, OnlyInsertions, NEW c \in Clients, UpdateInputView(c)
  PROVE  OnlyInsertions'
<1>1. /\ uiQ[c] # << >> /\ uiQ' = [uiQ EXCEPT ![c] = Tail(uiQ[c])]
      /\ UNCHANGED <<log, local, undo, redo, stackQ, batch>>
  BY DEF UpdateInputView, stacks
<1>2. uiQ \in [Clients -> Seq(Insertions)] /\ uiQ[c] \in Seq(Insertions)
  BY DEF OnlyInsertions
<1>3. Tail(uiQ[c]) \in Seq(Insertions)
  BY <1>1, <1>2, HeadTailProperties
<1>4. uiQ' \in [Clients -> Seq(Insertions)]
  BY <1>1, <1>2, <1>3
<1> QED
  BY <1>1, <1>4 DEF OnlyInsertions

\* The places of the log that c has worked through, and the identities it knows of:
\* its own, and those.
Processed(c) == (1..received[c]) \ Places(stackQ[c])

Seen(c) == Given(c) \cup {Identity(log[k].op) : k \in Processed(c)}

\* The text has the character of every operation that c knows of, and does not wait
\* to be shown, and each once.
Shown(c) ==
  /\ IsInjective(text[c])
  /\ Once(uiQ[c]) /\ Ids(uiQ[c]) \subseteq Seen(c)
  /\ Range(text[c]) = {Glyph(x) : x \in Seen(c) \ Ids(uiQ[c])}

InsertInv ==
  /\ LedgerInv
  /\ OnlyInsertions
  /\ \A c \in Clients : alive[c] => Shown(c)

\* Where a character is put into a text, what is behind it moves on by one.
LEMMA CharactersAround ==
  ASSUME NEW t \in Seq(Glyphs), NEW g \in Glyphs, NEW range, range.length = 0,
         range.location \in 0..Len(t)
  PROVE  LET l   == range.location
             n   == Len(t)
             all == Replace(t, range, <<g>>)
         IN  /\ all \in Seq(Glyphs) /\ Len(all) = n + 1
             /\ \A i \in 1..l : all[i] = t[i]
             /\ all[l + 1] = g
             /\ \A i \in (l + 2)..(n + 1) : all[i] = t[i - 1]
<1> DEFINE l == range.location
           n == Len(t)
           front == SubSeq(t, 1, l)
           back == SubSeq(t, l + 1, n)
           middle == front \o <<g>>
           all == middle \o back
<1>1. /\ n \in Nat /\ l \in 0..n /\ DOMAIN t = 1..n
      /\ \A i \in 1..n : t[i] \in Glyphs
  BY LenProperties, ElementOfSeq
<1>2. Replace(t, range, <<g>>) = all
  <2>1. l + range.length + 1 = l + 1
    BY <1>1
  <2> QED  BY <2>1 DEF Replace
<1> HIDE DEF l, n
<1>3. front \in Seq(Glyphs) /\ Len(front) = l /\ \A i \in 1..l : front[i] = t[i]
  <2>1. /\ front \in Seq(Glyphs)
        /\ Len(front) = IF 1 <= l THEN l - 1 + 1 ELSE 0
        /\ \A i \in 1..(l - 1 + 1) : front[i] = t[1 + i - 1]
    BY <1>1, SubSeqProperties
  <2> HIDE DEF front
  <2> QED  BY <1>1, <2>1
<1>4. back \in Seq(Glyphs) /\ Len(back) = n - l /\ \A i \in 1..(n - l) : back[i] = t[l + i]
  <2>1. /\ back \in Seq(Glyphs)
        /\ Len(back) = IF l + 1 <= n THEN n - (l + 1) + 1 ELSE 0
        /\ \A i \in 1..(n - (l + 1) + 1) : back[i] = t[l + 1 + i - 1]
    BY <1>1, SubSeqProperties
  <2> HIDE DEF back
  <2>2. n - (l + 1) + 1 = n - l /\ (l + 1 <= n \/ n - l = 0)
    BY <1>1
  <2>3. Len(back) = n - l
    BY <1>1, <2>1, <2>2
  <2>4. ASSUME NEW i \in 1..(n - l)  PROVE back[i] = t[l + i]
    <3>1. l + 1 + i - 1 = l + i
      BY <1>1
    <3>2. back[i] = t[l + 1 + i - 1]
      BY <2>1, <2>2
    <3> QED  BY <3>1, <3>2
  <2> QED  BY <2>1, <2>3, <2>4
<1> HIDE DEF front, back
<1>5. <<g>> \in Seq(Glyphs) /\ Len(<<g>>) = 1 /\ <<g>>[1] = g
  OBVIOUS
<1>6. /\ middle \in Seq(Glyphs) /\ Len(middle) = l + 1
      /\ \A i \in 1..l : middle[i] = t[i]
      /\ middle[l + 1] = g
  <2>1. /\ middle \in Seq(Glyphs)
        /\ Len(middle) = Len(front) + Len(<<g>>)
        /\ \A i \in 1..(Len(front) + Len(<<g>>)) :
             middle[i] = IF i <= Len(front) THEN front[i] ELSE <<g>>[i - Len(front)]
    BY <1>3, <1>5, ConcatProperties
  <2> HIDE DEF middle
  <2>2. Len(middle) = l + 1
    BY <1>3, <1>5, <2>1
  <2>3. ASSUME NEW i \in 1..l
        PROVE  middle[i] = t[i]
    BY <1>1, <1>3, <1>5, <2>1
  <2>4. middle[l + 1] = g
    <3>1. l + 1 \in 1..(l + 1) /\ ~(l + 1 <= l) /\ (l + 1) - l = 1
      BY <1>1
    <3> QED  BY <1>3, <1>5, <2>1, <3>1
  <2> QED  BY <2>1, <2>2, <2>3, <2>4
<1> HIDE DEF middle
<1>7. /\ all \in Seq(Glyphs) /\ Len(all) = n + 1
      /\ \A i \in 1..l : all[i] = t[i]
      /\ all[l + 1] = g
      /\ \A i \in (l + 2)..(n + 1) : all[i] = t[i - 1]
  <2>1. /\ all \in Seq(Glyphs)
        /\ Len(all) = Len(middle) + Len(back)
        /\ \A i \in 1..(Len(middle) + Len(back)) :
             all[i] = IF i <= Len(middle) THEN middle[i] ELSE back[i - Len(middle)]
    BY <1>4, <1>6, ConcatProperties
  <2> HIDE DEF all
  <2>2. Len(all) = n + 1
    BY <1>1, <1>4, <1>6, <2>1
  <2>3. \A i \in 1..(n + 1) : all[i] = IF i <= l + 1 THEN middle[i] ELSE back[i - (l + 1)]
    BY <1>1, <1>4, <1>6, <2>1
  <2>4. ASSUME NEW i \in 1..l
        PROVE  all[i] = t[i]
    BY <1>1, <1>6, <2>3
  <2>5. all[l + 1] = g
    BY <1>1, <1>6, <2>3
  <2>6. ASSUME NEW i \in (l + 2)..(n + 1)
        PROVE  all[i] = t[i - 1]
    <3>1. i \in 1..(n + 1) /\ ~(i <= l + 1) /\ i - (l + 1) \in 1..(n - l)
          /\ l + (i - (l + 1)) = i - 1
      BY <1>1
    <3>2. all[i] = back[i - (l + 1)]
      BY <2>3, <3>1
    <3> QED  BY <1>4, <3>1, <3>2
  <2> QED  BY <2>1, <2>2, <2>4, <2>5, <2>6
<1> QED
  BY <1>2, <1>7 DEF l, n

\* Such a text has one character more, and each once.
LEMMA CharacterPut ==
  ASSUME NEW t \in Seq(Glyphs), NEW g \in Glyphs, NEW range, range.length = 0,
         range.location \in 0..Len(t), IsInjective(t), g \notin Range(t)
  PROVE  /\ IsInjective(Replace(t, range, <<g>>))
         /\ Range(Replace(t, range, <<g>>)) = Range(t) \cup {g}
<1> DEFINE l == range.location
           n == Len(t)
           all == Replace(t, range, <<g>>)
           Old(i) == IF i <= l THEN i ELSE i - 1
<1>1. /\ n \in Nat /\ l \in 0..n /\ DOMAIN t = 1..n
      /\ \A i \in 1..n : t[i] \in Glyphs
  BY LenProperties, ElementOfSeq
<1>2. /\ all \in Seq(Glyphs) /\ Len(all) = n + 1
      /\ \A i \in 1..l : all[i] = t[i]
      /\ all[l + 1] = g
      /\ \A i \in (l + 2)..(n + 1) : all[i] = t[i - 1]
  BY CharactersAround
<1> HIDE DEF l, n, all
<1>3. DOMAIN all = 1..(n + 1)
  BY <1>2, LenProperties
<1>4. ASSUME NEW i \in 1..(n + 1)
      PROVE  i = l + 1 \/ (Old(i) \in 1..n /\ all[i] = t[Old(i)])
  <2>1. CASE i <= l
    BY <1>1, <1>2, <2>1
  <2>2. CASE i > l + 1
    <3>1. i \in (l + 2)..(n + 1) /\ ~(i <= l) /\ i - 1 \in 1..n
      BY <1>1, <2>2
    <3> QED  BY <1>2, <3>1
  <2> QED  BY <1>1, <2>1, <2>2
<1>5. \A i \in 1..n : t[i] # g
  BY <1>1 DEF Range
<1>6. \A i, j \in 1..n : t[i] = t[j] => i = j
  BY <1>1 DEF IsInjective
<1>7. \A i, j \in 1..(n + 1) : (i # l + 1 /\ j # l + 1 /\ Old(i) = Old(j)) => i = j
  BY <1>1
<1> HIDE DEF Old
<1>8. ASSUME NEW i \in 1..(n + 1), NEW j \in 1..(n + 1), all[i] = all[j]
       PROVE  i = j
  <2>1. CASE i # l + 1 /\ j # l + 1
    BY <1>4, <1>6, <1>7, <1>8, <2>1
  <2>2. CASE i = l + 1 /\ j # l + 1
    BY <1>2, <1>4, <1>5, <1>8, <2>2
  <2>3. CASE i # l + 1 /\ j = l + 1
    BY <1>2, <1>4, <1>5, <1>8, <2>3
  <2> QED  BY <2>1, <2>2, <2>3
<1>9. Range(all) \subseteq Range(t) \cup {g}
  BY <1>1, <1>2, <1>3, <1>4 DEF Range
<1>10. ASSUME NEW i \in 1..n
       PROVE  t[i] \in Range(all)
  <2>1. CASE i <= l
    <3>1. i \in 1..l /\ i \in 1..(n + 1)
      BY <1>1, <2>1
    <3> QED  BY <1>2, <1>3, <3>1 DEF Range
  <2>2. CASE ~(i <= l)
    <3>1. i + 1 \in (l + 2)..(n + 1) /\ i + 1 \in 1..(n + 1) /\ (i + 1) - 1 = i
      BY <1>1, <2>2
    <3>2. all[i + 1] = t[i]
      BY <1>2, <3>1
    <3> QED  BY <1>3, <3>1, <3>2 DEF Range
  <2> QED  BY <2>1, <2>2
<1>11. g \in Range(all)
  <2>1. l + 1 \in 1..(n + 1)
    BY <1>1
  <2> QED  BY <1>2, <1>3, <2>1 DEF Range
<1>12. Range(all) = Range(t) \cup {g}
  BY <1>1, <1>9, <1>10, <1>11 DEF Range
<1>13. IsInjective(all)
  BY <1>3, <1>8 DEF IsInjective
<1> QED
  BY <1>12, <1>13 DEF all

\* What is known of the log stays known of it.
LEMMA SeenStays ==
  ASSUME TypeInv, NEW c \in Clients, LogKept, nextID'[c] = nextID[c],
         Processed(c)' = Processed(c)
  PROVE  Seen(c)' = Seen(c)
<1>1. Given(c)' = Given(c)
  BY DEF Given
<1>2. received[c] \in Nat /\ received[c] <= Len(log) /\ Len(log) \in Nat
  BY LenProperties DEF TypeInv, TypeOK, HandedOver
<1>3. \A k \in Processed(c) : log'[k] = log[k]
  BY <1>2 DEF Processed, LogKept
<1> QED
  BY <1>1, <1>3 DEF Seen

LEMMA ShownStays ==
  ASSUME TypeInv, NEW c \in Clients, Shown(c), LogKept, nextID'[c] = nextID[c],
         Processed(c)' = Processed(c), text'[c] = text[c], uiQ'[c] = uiQ[c]
  PROVE  Shown(c)'
<1>1. Seen(c)' = Seen(c)
  BY SeenStays
<1> QED
  BY <1>1 DEF Shown

\* What a device sees are pairs, told apart by the characters they stand for.
LEMMA SeenApart ==
  ASSUME NEW c \in Clients, NEW x \in Seen(c), NEW y \in Seen(c), Glyph(x) = Glyph(y)
  PROVE  x = y
<1>1. \A z \in Seen(c) : z = <<z[1], z[2]>>
  BY DEF Seen, Given, Identity
<1> QED
  BY <1>1 DEF Glyph

\* An operation ID not yet given out is unknown.
LEMMA NextUnseen ==
  ASSUME LedgerInv, NEW c \in Clients, alive[c]
  PROVE  <<c, nextID[c]>> \notin Seen(c)
<1>1. TypeInv /\ nextID[c] \in Nat /\ received[c] \in Nat /\ received[c] <= Len(log)
      /\ Len(log) \in Nat
  BY LenProperties DEF LedgerInv, DeliveryInv, TypeInv, TypeOK, HandedOver
<1>2. <<c, nextID[c]>> \notin Given(c)
  BY <1>1 DEF Given
<1>3. InLog(c) \subseteq Given(c)
  BY DEF LedgerInv, Ledger, Dealt
<1>4. \A k \in Processed(c) : Identity(log[k].op) \in LogIds
  BY <1>1 DEF Processed, LogIds
<1> QED
  BY <1>2, <1>3, <1>4 DEF Seen, InLog

\* The place that is served next becomes a processed one.
LEMMA ProcessedNext ==
  ASSUME LedgerInv, NEW c \in Clients, stackQ[c] # << >>, Head(stackQ[c]).kind = "new",
         UNCHANGED <<log, received, nextID>>, stackQ'[c] = Tail(stackQ[c])
  PROVE  LET at == Head(stackQ[c]).at
         IN  /\ at \in 1..Len(log) /\ at \notin Processed(c)
             /\ Seen(c)' = Seen(c) \cup {Identity(log[at].op)}
<1> DEFINE at == Head(stackQ[c]).at
           rest == Tail(stackQ[c])
<1>1. /\ TypeInv /\ stackQ[c] \in Seq(Blocks) /\ Sorted(stackQ[c])
  BY DEF LedgerInv, DeliveryInv, InOrder, InOrderOf, TypeInv, TypeOK
<1>2. at \in 1..received[c] /\ at \in 1..Len(log)
  BY <1>1, EntryServed
<1>3. Places(stackQ[c]) = Places(rest) \cup {at}
  BY <1>1, PlacesServed
<1>4. \A p \in Places(rest) : at < p
  BY <1>1, QueueServed
<1>5. at \notin Places(rest)
  BY <1>2, <1>4
<1> HIDE DEF at, rest
<1>6. Processed(c)' = Processed(c) \cup {at} /\ at \notin Processed(c)
  <2>1. Places(stackQ'[c]) = Places(rest) /\ received' = received
    BY DEF rest
  <2> QED  BY <1>2, <1>3, <1>5, <2>1 DEF Processed
<1>7. Given(c)' = Given(c)
  BY DEF Given
<1>8. Seen(c)' = Seen(c) \cup {Identity(log[at].op)}
  BY <1>6, <1>7 DEF Seen
<1> QED
  BY <1>2, <1>6, <1>8 DEF at

\* A confirmation is of an operation the device knows, anything else new to it.
LEMMA ServedIsNew ==
  ASSUME LedgerInv, NEW c \in Clients, alive[c], stackQ[c] # << >>,
         Head(stackQ[c]).kind = "new",
         NEW op, Identity(op) = Identity(log[Head(stackQ[c]).at].op), op.state = "GLOBAL"
  PROVE  IF Mine(c, op) THEN Identity(op) \in Seen(c) ELSE Identity(op) \notin Seen(c)
<1> DEFINE at == Head(stackQ[c]).at
<1>1. /\ TypeInv /\ stackQ[c] \in Seq(Blocks) /\ Sorted(stackQ[c]) /\ LogOnce
      /\ received[c] \in Nat /\ received[c] <= Len(log) /\ Len(log) \in Nat
      /\ Places(stackQ[c]) # {} => member[c]
  BY LenProperties DEF LedgerInv, DeliveryInv, InOrder, InOrderOf, TypeInv, TypeOK, HandedOver
<1>2. at \in 1..Len(log)
  BY <1>1, EntryServed
<1>3. at \in Places(stackQ[c])
  BY <1>1, PlacesServed
<1> HIDE DEF at
<1>4. ParticipantID(c) = c
  BY <1>1, <1>3 DEF ParticipantID
<1>5. Identity(op) \in LogIds /\ Identity(op)[1] = op.participantID
  <2>1. Identity(op) = Identity(log[at].op)
    BY DEF at
  <2> QED  BY <1>2, <2>1 DEF LogIds, Identity
<1>6. CASE Mine(c, op)
  <2>1. Identity(op) \in InLog(c)
    BY <1>4, <1>5, <1>6 DEF Mine, InLog
  <2> QED  BY <1>6, <2>1 DEF LedgerInv, Ledger, Dealt, Seen
<1>7. CASE ~Mine(c, op)
  <2>1. Identity(op)[1] # c
    BY <1>4, <1>5, <1>7 DEF Mine
  <2>2. Identity(op) \notin Given(c)
    BY <2>1 DEF Given
  <2>3. \A k \in Processed(c) : k \in 1..Len(log) /\ k # at
    BY <1>1, <1>3 DEF Processed
  <2>4. \A k \in Processed(c) : Identity(log[k].op) # Identity(op)
    <3>1. Identity(op) = Identity(log[at].op)
      BY DEF at
    <3> QED  BY <1>1, <1>2, <2>3, <3>1 DEF LogOnce
  <2> QED  BY <1>7, <2>2, <2>4 DEF Seen
<1> QED
  BY <1>6, <1>7

\* A step after which every device knows and shows what it did.
LEMMA ShownKept ==
  ASSUME InsertInv, LedgerInv', OnlyInsertions', LogKept,
         UNCHANGED <<text, uiQ, nextID>>,
         \A d \in Clients : Processed(d)' = Processed(d),
         \A d \in Clients : alive'[d] => alive[d]
  PROVE  InsertInv'
<1>1. ASSUME NEW d \in Clients, alive'[d]
      PROVE  Shown(d)'
  <2>1. TypeInv /\ Shown(d)
    BY <1>1 DEF InsertInv, LedgerInv, DeliveryInv
  <2>2. /\ nextID'[d] = nextID[d] /\ text'[d] = text[d] /\ uiQ'[d] = uiQ[d]
        /\ Processed(d)' = Processed(d)
    OBVIOUS
  <2> QED  BY <2>1, <2>2, ShownStays
<1> QED
  BY <1>1 DEF InsertInv

\* A step of c that leaves the other devices what they had.
LEMMA ShownKeptByOthers ==
  ASSUME InsertInv, LedgerInv', OnlyInsertions', LogKept, NEW c \in Clients,
         \A d \in Clients : d # c =>
           /\ text'[d] = text[d] /\ uiQ'[d] = uiQ[d] /\ nextID'[d] = nextID[d]
           /\ Processed(d)' = Processed(d) /\ (alive'[d] => alive[d]),
         alive'[c] => Shown(c)'
  PROVE  InsertInv'
<1>1. ASSUME NEW d \in Clients, d # c, alive'[d]
      PROVE  Shown(d)'
  <2>1. TypeInv /\ Shown(d)
    BY <1>1 DEF InsertInv, LedgerInv, DeliveryInv
  <2> QED  BY <1>1, <2>1, ShownStays
<1> QED
  BY <1>1 DEF InsertInv

LEMMA TypeShows ==
  ASSUME InsertInv, LedgerInv', OnlyInsertions', UsersInsert, "early" \notin Freedoms,
         NEW c \in Clients, Type(c)
  PROVE  InsertInv'
<1> DEFINE x == <<c, nextID[c]>>
<1>1. /\ TypeOK /\ TypeInv /\ member[c] /\ alive[c]
  BY DEF InsertInv, LedgerInv, DeliveryInv, TypeInv, Type, MayInput, AtTurn, MainFree
<1>2. PICK op \in Keystrokes :
        /\ Identity(op) = x
        /\ op.range.location \in 0..Len(text[c])
        /\ text' = [text EXCEPT ![c] = Replace(@, op.range, op.replaceString)]
        /\ nextID' = [nextID EXCEPT ![c] = @ + 1]
        /\ UNCHANGED <<log, received, stackQ, uiQ, alive>>
  BY <1>1, KeystrokeTyped
<1>3. /\ Shown(c) /\ nextID[c] \in Nat /\ text[c] \in Seq(Glyphs)
      /\ text \in [Clients -> Seq(Glyphs)] /\ nextID \in [Clients -> Nat]
  BY <1>1 DEF InsertInv, TypeOK
<1>4. x \notin Seen(c)
  BY <1>1, NextUnseen DEF InsertInv
<1>5. op.replaceString = <<Glyph(x)>> /\ op.range.length = 0 /\ Glyph(x) \in Glyphs
  <2>1. op.replaceString = <<Glyph(x)>> /\ op.range.length = 0
    BY <1>2 DEF Keystrokes, Insertion, EmptyRanges
  <2>2. Glyph(x) \in Glyphs
    BY <1>3 DEF Glyph, Glyphs
  <2> QED  BY <2>1, <2>2
<1>6. Seen(c)' = Seen(c) \cup {x}
  <2>1. Given(c)' = Given(c) \cup {x}
    BY <1>1, <1>2, GivenGrows
  <2>2. Processed(c)' = Processed(c) /\ log' = log
    BY <1>2 DEF Processed
  <2> HIDE DEF x
  <2> QED  BY <2>1, <2>2 DEF Seen
<1>7. \A y \in Seen(c) : Glyph(y) # Glyph(x)
  <2>1. \A y \in Seen(c) : y = <<y[1], y[2]>>
    BY DEF Seen, Given, Identity
  <2> QED  BY <1>4, <2>1 DEF Glyph
<1>8. Glyph(x) \notin Range(text[c])
  <2> HIDE DEF x
  <2> QED  BY <1>3, <1>7 DEF Shown
<1> HIDE DEF x
<1>9. text'[c] = Replace(text[c], op.range, <<Glyph(x)>>)
  BY <1>2, <1>3, <1>5
<1>10. IsInjective(text'[c]) /\ Range(text'[c]) = Range(text[c]) \cup {Glyph(x)}
  BY <1>2, <1>3, <1>5, <1>8, <1>9, CharacterPut DEF Shown
<1>11. uiQ'[c] = uiQ[c] /\ x \notin Ids(uiQ[c])
  BY <1>2, <1>3, <1>4 DEF Shown
<1>12. Shown(c)'
  <2>1. (Seen(c) \cup {x}) \ Ids(uiQ[c]) = (Seen(c) \ Ids(uiQ[c])) \cup {x}
    BY <1>11
  <2>2. Range(text'[c]) = {Glyph(y) : y \in (Seen(c) \cup {x}) \ Ids(uiQ[c])}
    BY <1>3, <1>10, <2>1 DEF Shown
  <2> QED  BY <1>3, <1>6, <1>10, <1>11, <2>2 DEF Shown
<1>13. \A d \in Clients : d # c =>
         /\ text'[d] = text[d] /\ uiQ'[d] = uiQ[d] /\ nextID'[d] = nextID[d]
         /\ Processed(d)' = Processed(d) /\ (alive'[d] => alive[d])
  BY <1>2, <1>3 DEF Processed
<1>14. LogKept
  BY <1>2 DEF LogKept
<1> QED
  BY <1>12, <1>13, <1>14, ShownKeptByOthers

\* The operation that is shown next is an insertion, and its character is new.
LEMMA ShownNext ==
  ASSUME InsertInv, NEW c \in Clients, alive[c], uiQ[c] # << >>
  PROVE  LET op   == Head(uiQ[c])
             x    == Identity(op)
             rest == Tail(uiQ[c])
         IN  /\ op \in Insertions /\ op.range.length = 0 /\ op.range.location \in Nat
             /\ op.replaceString = <<Glyph(x)>> /\ Glyph(x) \in Glyphs
             /\ Ids(uiQ[c]) = Ids(rest) \cup {x} /\ x \notin Ids(rest) /\ Once(rest)
             /\ x \in Seen(c) /\ Glyph(x) \notin Range(text[c])
<1> DEFINE op == Head(uiQ[c])
           x == Identity(op)
           rest == Tail(uiQ[c])
<1>1. uiQ[c] # << >>
  OBVIOUS
<1>2. /\ Shown(c) /\ text[c] \in Seq(Glyphs)
      /\ uiQ[c] \in Seq(Insertions) /\ uiQ[c] \in Seq(Ops)
  BY DEF InsertInv, OnlyInsertions, LedgerInv, DeliveryInv, TypeInv, TypeOK
<1>3. op \in Insertions
  BY <1>1, <1>2, HeadTailProperties
<1>4. /\ Ids(uiQ[c]) = Ids(rest) \cup {x} /\ x \notin Ids(rest) /\ Once(rest)
  <2> DEFINE queue == uiQ[c]
  <2>1. /\ Len(queue) \in Nat /\ Len(queue) # 0
        /\ Len(rest) = Len(queue) - 1
        /\ \A i \in 1..Len(rest) : rest[i] = queue[i + 1]
        /\ op = queue[1]
    BY <1>1, <1>2, LenProperties, HeadTailProperties, EmptySeq
  <2>2. Once(queue)
    BY <1>2 DEF Shown
  <2> HIDE DEF queue, rest, op
  <2>3. /\ 1 \in 1..Len(queue)
        /\ \A i \in 1..Len(rest) : i + 1 \in 1..Len(queue) /\ i + 1 # 1
        /\ \A i \in 1..Len(queue) : i = 1 \/ (i - 1 \in 1..Len(rest) /\ (i - 1) + 1 = i)
    BY <2>1
  <2>4. \A i \in 1..Len(rest) : Identity(rest[i]) \in Ids(queue)
    BY <2>1, <2>3 DEF Ids
  <2>5. x \in Ids(queue)
    BY <2>1, <2>3 DEF Ids
  <2>6. ASSUME NEW i \in 1..Len(queue)
        PROVE  Identity(queue[i]) \in Ids(rest) \cup {x}
    <3>1. CASE i # 1
      <4>1. i - 1 \in 1..Len(rest) /\ rest[i - 1] = queue[i]
        BY <2>1, <2>3, <3>1
      <4> QED  BY <4>1 DEF Ids
    <3>2. CASE i = 1
      BY <2>1, <3>2
    <3> QED  BY <3>1, <3>2
  <2>7. Ids(queue) = Ids(rest) \cup {x}
    <3>1. Ids(queue) \subseteq Ids(rest) \cup {x}
      BY <2>6 DEF Ids
    <3>2. Ids(rest) \subseteq Ids(queue)
      BY <2>4 DEF Ids
    <3> QED  BY <2>5, <3>1, <3>2
  <2>8. \A i \in 1..Len(rest) : Identity(rest[i]) # x
    BY <2>1, <2>2, <2>3 DEF Once
  <2>9. ASSUME NEW i \in 1..Len(rest), NEW j \in 1..Len(rest),
               Identity(rest[i]) = Identity(rest[j])
        PROVE  i = j
    <3>1. i + 1 = j + 1
      BY <2>1, <2>2, <2>3, <2>9 DEF Once
    <3> QED  BY <2>1, <3>1
  <2>10. x \notin Ids(rest)
    BY <2>8 DEF Ids
  <2>11. Once(rest)
    BY <2>9 DEF Once
  <2> QED  BY <2>7, <2>10, <2>11 DEF queue
<1>5. /\ op.replaceString = <<Glyph(x)>> /\ op.range.length = 0
      /\ op.range.location \in Nat /\ Glyph(x) \in Glyphs
  <2>1. /\ op.replaceString = <<Glyph(x)>> /\ op.range \in EmptyRanges
        /\ op.replaceString \in Seq(Glyphs)
    BY <1>3 DEF Insertions, Insertion, Ops, Operations, Strings
  <2> DEFINE g == Glyph(x)
             put == <<g>>
  <2>2. put \in Seq(Glyphs)
    BY <2>1
  <2> HIDE DEF g
  <2>3. Len(put) = 1 /\ put[1] = g
    OBVIOUS
  <2> HIDE DEF put
  <2>4. 1 \in 1..Len(put)
    BY <2>3
  <2>5. put[1] \in Glyphs
    BY <2>2, <2>4, ElementOfSeq
  <2>6. g \in Glyphs
    BY <2>3, <2>5
  <2> QED  BY <2>1, <2>6 DEF EmptyRanges, Ranges, g
<1>6. x \in Seen(c)
  BY <1>2, <1>4 DEF Shown
<1> HIDE DEF x, op, rest
<1>7. Glyph(x) \notin Range(text[c])
  <2>1. \A y \in Seen(c) \ Ids(uiQ[c]) : y # x
    BY <1>4
  <2>2. \A y \in Seen(c) \ Ids(uiQ[c]) : Glyph(y) # Glyph(x)
    BY <1>6, <2>1, SeenApart
  <2> QED  BY <1>2, <2>2 DEF Shown
<1> QED
  BY <1>3, <1>4, <1>5, <1>6, <1>7 DEF op, x, rest

LEMMA UpdateInputViewShows ==
  ASSUME InsertInv, LedgerInv', OnlyInsertions', NEW c \in Clients, UpdateInputView(c)
  PROVE  InsertInv'
<1> DEFINE op == Head(uiQ[c])
           x == Identity(op)
           rest == Tail(uiQ[c])
<1>1. /\ TypeOK /\ alive[c] /\ uiQ[c] # << >>
      /\ uiQ' = [uiQ EXCEPT ![c] = rest]
      /\ UNCHANGED <<log, received, nextID, stackQ>>
      /\ \/ /\ Within(op.range, text[c])
            /\ text' = [text EXCEPT ![c] = Replace(@, op.range, op.replaceString)]
            /\ UNCHANGED alive
         \/ alive' = [alive EXCEPT ![c] = FALSE] /\ UNCHANGED text
  BY DEF UpdateInputView, MainFree, InsertInv, LedgerInv, DeliveryInv, TypeInv
<1>2. /\ Shown(c) /\ text[c] \in Seq(Glyphs) /\ text \in [Clients -> Seq(Glyphs)]
      /\ alive \in [Clients -> BOOLEAN] /\ uiQ \in [Clients -> Seq(Insertions)]
      /\ Len(text[c]) \in Nat
  BY <1>1, LenProperties DEF InsertInv, OnlyInsertions, TypeOK
<1>3. /\ op.replaceString = <<Glyph(x)>> /\ op.range.length = 0
      /\ op.range.location \in Nat /\ Glyph(x) \in Glyphs
      /\ Ids(uiQ[c]) = Ids(rest) \cup {x} /\ x \notin Ids(rest) /\ Once(rest)
      /\ x \in Seen(c) /\ Glyph(x) \notin Range(text[c])
  BY <1>1, ShownNext
<1> HIDE DEF x, op, rest
<1>4. Seen(c)' = Seen(c) /\ LogKept
  BY <1>1 DEF Seen, Given, Processed, LogKept
<1>5. alive'[c] => Shown(c)'
  <2> SUFFICES ASSUME alive'[c]  PROVE Shown(c)'
    OBVIOUS
  <2>1. /\ Within(op.range, text[c])
        /\ text'[c] = Replace(text[c], op.range, <<Glyph(x)>>)
    BY <1>1, <1>2, <1>3
  <2>2. op.range.location \in 0..Len(text[c])
    BY <1>2, <1>3, <2>1 DEF Within
  <2>3. IsInjective(text'[c]) /\ Range(text'[c]) = Range(text[c]) \cup {Glyph(x)}
    BY <1>2, <1>3, <2>1, <2>2, CharacterPut DEF Shown
  <2>4. uiQ'[c] = rest
    BY <1>1, <1>2
  <2>5. Seen(c) \ Ids(rest) = (Seen(c) \ Ids(uiQ[c])) \cup {x}
    BY <1>3
  <2>6. Range(text'[c]) = {Glyph(y) : y \in Seen(c) \ Ids(rest)}
    BY <1>2, <2>3, <2>5 DEF Shown
  <2>7. Ids(rest) \subseteq Seen(c)
    BY <1>2, <1>3 DEF Shown
  <2> QED  BY <1>3, <1>4, <2>3, <2>4, <2>6, <2>7 DEF Shown
<1>6. \A d \in Clients : d # c =>
        /\ text'[d] = text[d] /\ uiQ'[d] = uiQ[d] /\ nextID'[d] = nextID[d]
        /\ Processed(d)' = Processed(d) /\ (alive'[d] => alive[d])
  BY <1>1, <1>2 DEF Processed
<1> QED
  BY <1>4, <1>5, <1>6, ShownKeptByOthers

LEMMA StackQueueShows ==
  ASSUME InsertInv, LedgerInv', OnlyInsertions', NEW c \in Clients, StackQueue(c)
  PROVE  InsertInv'
<1> DEFINE block == Head(stackQ[c])
<1>1. /\ TypeOK /\ TypeInv /\ alive[c] /\ stackQ[c] # << >>
      /\ stackQ' = [stackQ EXCEPT ![c] = Tail(stackQ[c])]
      /\ UNCHANGED <<member, log, received, text, nextID, alive>>
  BY DEF StackQueue, AddNewOperation, AddBack, InsertInv, LedgerInv, DeliveryInv, TypeInv
<1>2. /\ stackQ \in [Clients -> Seq(Blocks)] /\ stackQ[c] \in Seq(Blocks)
      /\ uiQ \in [Clients -> Seq(Ops)] /\ uiQ[c] \in Seq(Ops)
      /\ Shown(c) /\ OnlyInsertions /\ LedgerInv
  BY <1>1 DEF InsertInv, TypeOK
<1>3. /\ stackQ'[c] = Tail(stackQ[c])
      /\ \A d \in Clients : d # c => Processed(d)' = Processed(d)
      /\ LogKept
  BY <1>1, <1>2 DEF Processed, LogKept
<1>4. CASE AddNewOperation(c)
  <2> DEFINE entry == log[block.at]
             op == Delivered(entry)
             x == Identity(op)
  <2>1. /\ block.kind = "new"
        /\ \/ Mine(c, op) /\ UpdateOperationFromSendToGlobal(c, op)
           \/ ~Mine(c, op) /\ AddNewGlobalOperation(c, op)
    BY <1>4 DEF AddNewOperation
  <2>2. entry \in [op : Keystrokes, order : Nat]
    <3>1. block.at \in 1..Len(log)
      BY <1>1, <2>1, EntryServed
    <3> QED  BY <1>2, <3>1, ElementOfSeq DEF OnlyInsertions
  <2>3. op \in Insertions /\ op.state = "GLOBAL" /\ Identity(op) = Identity(entry.op)
    BY <2>2, InsertionDelivered
  <2>4. Seen(c)' = Seen(c) \cup {Identity(entry.op)}
    BY <1>1, <1>2, <1>3, <2>1, ProcessedNext
  <2>5. IF Mine(c, op) THEN x \in Seen(c) ELSE x \notin Seen(c)
    <3> HIDE DEF op
    <3> QED  BY <1>1, <1>2, <2>1, <2>3, ServedIsNew
  <2> HIDE DEF entry, op
  <2>6. CASE Mine(c, op) /\ UpdateOperationFromSendToGlobal(c, op)
    <3>1. uiQ' = uiQ
      BY <2>6 DEF UpdateOperationFromSendToGlobal
    <3>2. Seen(c)' = Seen(c)
      BY <2>3, <2>4, <2>5, <2>6
    <3>3. Shown(c)'
      BY <1>1, <1>2, <3>1, <3>2 DEF Shown
    <3> QED  BY <1>1, <1>3, <3>1, <3>3, ShownKeptByOthers
  <2>7. CASE ~Mine(c, op) /\ AddNewGlobalOperation(c, op)
    <3>1. PICK shown \in Insertions :
            Identity(shown) = x /\ uiQ' = [uiQ EXCEPT ![c] = Append(@, shown)]
      BY <1>1, <1>2, <2>3, <2>7, InsertionPlaced
    <3>2. /\ uiQ'[c] = Append(uiQ[c], shown)
          /\ \A d \in Clients : d # c => uiQ'[d] = uiQ[d]
      BY <1>2, <3>1
    <3>3. x \notin Seen(c) /\ Seen(c)' = Seen(c) \cup {x}
      BY <2>3, <2>4, <2>5, <2>7
    <3> HIDE DEF x
    <3>4. /\ Ids(uiQ'[c]) = Ids(uiQ[c]) \cup {x} /\ Once(uiQ'[c])
      <4>1. x \notin Ids(uiQ[c]) /\ Once(uiQ[c])
        BY <1>2, <3>3 DEF Shown
      <4> QED  BY <1>2, <3>1, <3>2, <4>1, OnceAppend, IdsOfAppend
    <3>5. (Seen(c) \cup {x}) \ (Ids(uiQ[c]) \cup {x}) = Seen(c) \ Ids(uiQ[c])
      BY <3>3
    <3>6. Ids(uiQ[c]) \subseteq Seen(c)
      BY <1>2 DEF Shown
    <3>7. Range(text'[c]) = {Glyph(y) : y \in Seen(c)' \ Ids(uiQ'[c])}
      <4>1. Seen(c)' \ Ids(uiQ'[c]) = Seen(c) \ Ids(uiQ[c])
        BY <3>3, <3>4, <3>5
      <4> QED  BY <1>1, <1>2, <4>1 DEF Shown
    <3>8. Shown(c)'
      BY <1>1, <1>2, <3>3, <3>4, <3>6, <3>7 DEF Shown
    <3> QED  BY <1>1, <1>3, <3>2, <3>8, ShownKeptByOthers
  <2> QED  BY <2>1, <2>6, <2>7
<1>5. CASE AddBack(c)
  <2>1. block.kind # "new" /\ uiQ' = uiQ
    BY <1>5 DEF AddBack
  <2>2. Places(stackQ'[c]) = Places(stackQ[c])
    BY <1>1, <1>2, <1>3, <2>1, PlacesServed
  <2>3. Processed(c)' = Processed(c)
    BY <1>1, <2>2 DEF Processed
  <2> QED  BY <1>1, <1>3, <2>1, <2>3, ShownKept
<1> QED
  BY <1>4, <1>5 DEF StackQueue

LEMMA ReceivedEventShows ==
  ASSUME InsertInv, LedgerInv', OnlyInsertions', NEW c \in Clients, ReceivedEvent(c)
  PROVE  InsertInv'
<1>1. /\ stackQ \in [Clients -> Seq(Blocks)] /\ stackQ[c] \in Seq(Blocks)
      /\ received \in [Clients -> Nat] /\ received[c] \in Nat /\ Len(log) \in Nat
  <2>1. TypeOK
    BY DEF InsertInv, LedgerInv, DeliveryInv, TypeInv
  <2> QED  BY <2>1, LenProperties DEF TypeOK
<1>2. PICK last \in (received[c] + 1)..Len(log) :
        /\ stackQ' = [stackQ EXCEPT ![c] =
             stackQ[c] \o [i \in 1..(last - received[c]) |->
                             [kind |-> "new", at |-> received[c] + i, ops |-> << >>]]]
        /\ received' = [received EXCEPT ![c] = last]
  BY DEF ReceivedEvent
<1>3. UNCHANGED <<log, text, uiQ, nextID, alive>>
  BY DEF ReceivedEvent
<1> DEFINE n == last - received[c]
           event == [i \in 1..n |-> [kind |-> "new", at |-> received[c] + i, ops |-> << >>]]
<1>4. n \in Nat /\ received[c] + n = last
  BY <1>1
<1>5. stackQ' = [stackQ EXCEPT ![c] = stackQ[c] \o event]
  BY <1>2
<1> HIDE DEF n
<1>6. Places(stackQ[c] \o event) = Places(stackQ[c]) \cup (received[c] + 1)..(received[c] + n)
  BY <1>1, <1>4, PlacesExtended
<1> HIDE DEF event
<1>7. /\ stackQ'[c] = stackQ[c] \o event /\ received'[c] = last
      /\ \A d \in Clients : d # c => stackQ'[d] = stackQ[d] /\ received'[d] = received[d]
  BY <1>1, <1>2, <1>5
<1>8. Processed(c)' = Processed(c)
  <2>1. (1..last) \ (Places(stackQ[c]) \cup (received[c] + 1)..last)
          = (1..received[c]) \ Places(stackQ[c])
    BY <1>1, <1>4
  <2> QED  BY <1>4, <1>6, <1>7, <2>1 DEF Processed
<1>9. \A d \in Clients : Processed(d)' = Processed(d)
  BY <1>7, <1>8 DEF Processed
<1>10. LogKept
  BY <1>3 DEF LogKept
<1> QED
  BY <1>3, <1>9, <1>10, ShownKept

LEMMA TimerShows ==
  ASSUME InsertInv, LedgerInv', OnlyInsertions', NEW c \in Clients, Timer(c)
  PROVE  InsertInv'
<1>1. /\ TypeOK /\ OnlyInsertions /\ Sorted(stackQ[c]) /\ batch[c] \in Seq(Ops)
      /\ undo[c] = << >> /\ redo[c] = << >>
  BY DEF InsertInv, LedgerInv, DeliveryInv, TypeInv, TypeOK, InOrder, InOrderOf, OnlyInsertions
<1>2. /\ alive[c]
      /\ UNCHANGED <<received, text, uiQ, nextID>>
  BY DEF Timer, GetLocalChangeSet, BroadcastLocal, RefuseLocal, PutIntoSendStack,
         SendUndoAndRedo, AtTurn, MainFree, stacks
<1>3. ASSUME LogKept, \A d \in Clients : Places(stackQ'[d]) = Places(stackQ[d]),
             \A d \in Clients : alive'[d] => alive[d]
      PROVE  InsertInv'
  BY <1>2, <1>3, ShownKept DEF Processed
<1>4. CASE GetLocalChangeSet(c) \/ PutIntoSendStack(c)
  <2>1. UNCHANGED <<log, stackQ, alive>>
    BY <1>4 DEF GetLocalChangeSet, PutIntoSendStack
  <2> QED  BY <1>3, <2>1 DEF LogKept
<1>5. CASE BroadcastLocal(c)
  <2>1. log' = log \o Event(batch[c]) /\ UNCHANGED <<stackQ, alive>>
    BY <1>5 DEF BroadcastLocal
  <2>2. LogKept
    BY <1>1, <2>1, EventKeepsLog
  <2> QED  BY <1>3, <2>1, <2>2
<1>6. CASE RefuseLocal(c)
  <2>1. DispatchBack(c, "local", batch[c]) /\ UNCHANGED log
    BY <1>6 DEF RefuseLocal
  <2>2. /\ \A d \in Clients : d # c => stackQ'[d] = stackQ[d]
        /\ Places(stackQ'[c]) = Places(stackQ[c])
    BY <1>1, <2>1, DispatchBackKeepsQueue
  <2>3. \A d \in Clients : alive'[d] => alive[d]
    BY <1>1, <2>1 DEF DispatchBack, TypeOK
  <2> QED  BY <1>3, <2>1, <2>2, <2>3 DEF LogKept
<1>7. CASE SendUndoAndRedo(c)
  <2>1. undo[c] \o redo[c] = << >>
    BY <1>1, EmptySeq, ConcatEmptySeq
  <2>2. UNCHANGED <<log, stackQ, alive>>
    BY <1>7, <2>1 DEF SendUndoAndRedo
  <2> QED  BY <1>3, <2>2 DEF LogKept
<1> QED
  BY <1>4, <1>5, <1>6, <1>7 DEF Timer

LEMMA NextShows ==
  ("early" \notin Freedoms) /\ UsersInsert /\ InsertInv /\ [Next]_vars => InsertInv'
<1> SUFFICES ASSUME "early" \notin Freedoms, UsersInsert, InsertInv, [Next]_vars
             PROVE  InsertInv'
  OBVIOUS
<1>1. TypeInv /\ OnlyInsertions /\ LedgerInv
  BY DEF InsertInv, LedgerInv, DeliveryInv
<1>2. LedgerInv'
  BY <1>1, NextKeepsLedger
<1>3. ASSUME NEW c \in Clients, User(c)
      PROVE  InsertInv'
  <2>1. OnlyInsertions'
    BY <1>1, <1>3, UserKeepsInsertions
  <2>2. CASE Type(c)
    BY <1>2, <2>1, <2>2, TypeShows
  <2>3. CASE CreateSess(c) \/ JoinSess(c)
    <3>1. UNCHANGED <<log, received, text, stackQ, uiQ, nextID, alive>>
      BY <2>3 DEF CreateSess, JoinSess, threads
    <3> QED  BY <1>2, <2>1, <3>1, ShownKept DEF Processed, LogKept
  <2> QED  BY <1>3, <2>2, <2>3 DEF User, UndoAct, RedoAct, UsersInsert
<1>4. ASSUME NEW c \in Clients, Timer(c)
      PROVE  InsertInv'
  BY <1>1, <1>2, <1>4, TimerKeepsInsertions, TimerShows
<1>5. ASSUME NEW c \in Clients, ReceivedEvent(c)
      PROVE  InsertInv'
  BY <1>1, <1>2, <1>5, ReceivedEventKeepsInsertions, ReceivedEventShows
<1>6. ASSUME NEW c \in Clients, StackQueue(c)
      PROVE  InsertInv'
  BY <1>1, <1>2, <1>6, StackQueueKeepsInsertions, StackQueueShows
<1>7. ASSUME NEW c \in Clients, UpdateInputView(c)
      PROVE  InsertInv'
  BY <1>1, <1>2, <1>7, UpdateInputViewKeepsInsertions, UpdateInputViewShows
<1>8. CASE UNCHANGED vars
  <2>1. UNCHANGED <<log, received, text, stackQ, uiQ, nextID, alive, local, batch, undo, redo>>
    BY <1>8 DEF vars, stacks, threads
  <2>2. OnlyInsertions'
    BY <1>1, <2>1 DEF OnlyInsertions
  <2> QED  BY <1>2, <2>1, <2>2, ShownKept DEF Processed, LogKept
<1> QED
  BY <1>3, <1>4, <1>5, <1>6, <1>7, <1>8 DEF Next

LEMMA InsertInitially == Init => InsertInv
<1> SUFFICES ASSUME Init  PROVE InsertInv
  OBVIOUS
<1>1. /\ << >> \in Seq([op : Keystrokes, order : Nat]) /\ << >> \in Seq(Keystrokes)
      /\ << >> \in Seq(KeyBlocks) /\ << >> \in Seq(Insertions)
  BY EmptySeq
<1>2. OnlyInsertions
  BY <1>1 DEF Init, OnlyInsertions
<1>3. ASSUME NEW c \in Clients
      PROVE  Shown(c)
  <2>1. text[c] = << >> /\ uiQ[c] = << >> /\ received[c] = 0 /\ nextID[c] = 0
    BY DEF Init
  <2>2. Seen(c) = {}
    BY <2>1 DEF Seen, Given, Processed
  <2>3. Once(uiQ[c]) /\ Ids(uiQ[c]) = {}
    BY <2>1, OnceEmpty, IdsOfEmpty
  <2>4. DOMAIN text[c] = {}
    BY <2>1
  <2>5. Range(text[c]) = {} /\ IsInjective(text[c])
    BY <2>4 DEF Range, IsInjective
  <2> QED  BY <2>2, <2>3, <2>5 DEF Shown
<1> QED
  BY <1>2, <1>3, LedgerInitially DEF InsertInv

LEMMA InsertFollows == InsertInv => InsertsSurvive
<1> SUFFICES ASSUME InsertInv, NEW c \in Clients, Idle(c)
             PROVE  /\ IsInjective(text[c])
                    /\ Range(text[c]) =
                         {<<c, n, 1>> : n \in 0..(nextID[c] - 1)}
                           \cup UNION {Range(log[k].op.replaceString) :
                                         k \in (1..received[c]) \ Waiting(c)}
  BY DEF InsertsSurvive
<1>1. /\ alive[c] /\ uiQ[c] = << >> /\ Shown(c)
      /\ stackQ[c] \in Seq(Blocks) /\ received[c] \in Nat /\ received[c] <= Len(log)
      /\ Len(log) \in Nat
  BY LenProperties
  DEF Idle, InsertInv, LedgerInv, DeliveryInv, TypeInv, TypeOK, HandedOver
<1>2. Ids(uiQ[c]) = {}
  BY <1>1, IdsOfEmpty
<1>3. Range(text[c]) = {Glyph(x) : x \in Seen(c)}
  BY <1>1, <1>2 DEF Shown
<1>4. Waiting(c) = Places(stackQ[c])
  <2>1. DOMAIN stackQ[c] = 1..Len(stackQ[c])
    BY <1>1, LenProperties
  <2> QED  BY <2>1 DEF Waiting, Places
<1>5. ASSUME NEW k \in Processed(c)
      PROVE  Range(log[k].op.replaceString) = {Glyph(Identity(log[k].op))}
  <2>1. k \in 1..Len(log)
    BY <1>1 DEF Processed
  <2>2. log[k] \in [op : Keystrokes, order : Nat]
    BY <2>1, ElementOfSeq DEF InsertInv, OnlyInsertions
  <2> DEFINE g == Glyph(Identity(log[k].op))
  <2>3. log[k].op.replaceString = <<g>>
    BY <2>2 DEF Keystrokes, Insertion
  <2> HIDE DEF g
  <2>4. DOMAIN <<g>> = {1} /\ <<g>>[1] = g
    OBVIOUS
  <2> QED  BY <2>3, <2>4 DEF Range, g
<1>6. {Glyph(x) : x \in Given(c)} = {<<c, n, 1>> : n \in 0..(nextID[c] - 1)}
  <2>1. ASSUME NEW x \in Given(c)  PROVE Glyph(x) \in {<<c, n, 1>> : n \in 0..(nextID[c] - 1)}
    BY DEF Given, Glyph
  <2>2. ASSUME NEW n \in 0..(nextID[c] - 1)
        PROVE  <<c, n>> \in Given(c) /\ Glyph(<<c, n>>) = <<c, n, 1>>
    BY DEF Given, Glyph
  <2> QED  BY <2>1, <2>2
<1>7. {Glyph(x) : x \in {Identity(log[k].op) : k \in Processed(c)}}
        = UNION {Range(log[k].op.replaceString) : k \in Processed(c)}
  <2> DEFINE runs(k) == Range(log[k].op.replaceString)
             glyph(k) == Glyph(Identity(log[k].op))
  <2>1. ASSUME NEW k \in Processed(c)  PROVE runs(k) = {glyph(k)}
    BY <1>5
  <2> HIDE DEF runs
  <2>2. UNION {runs(k) : k \in Processed(c)} = {glyph(k) : k \in Processed(c)}
    BY <2>1
  <2> QED  BY <2>2 DEF runs
<1>8. {Glyph(x) : x \in Seen(c)}
        = {Glyph(x) : x \in Given(c)}
            \cup {Glyph(x) : x \in {Identity(log[k].op) : k \in Processed(c)}}
  BY DEF Seen
<1>9. Processed(c) = (1..received[c]) \ Waiting(c)
  BY <1>4 DEF Processed
<1>10. IsInjective(text[c])
  BY <1>1 DEF Shown
<1> QED
  BY <1>3, <1>6, <1>7, <1>8, <1>9, <1>10

\* While users only put single characters, an idle device's text has the character of
\* each operation it made and of each it has worked through, and each once:
\* updateInputView and addNewChangeSet neither drop nor double one, wherever the
\* concurrent insertions move each other, and whatever is refused, overlaps or is torn.
THEOREM InsertionsSurvive ==
  ("early" \notin Freedoms) /\ UsersInsert => (Spec => []InsertsSurvive)
<1> SUFFICES ASSUME "early" \notin Freedoms, UsersInsert  PROVE Spec => []InsertsSurvive
  OBVIOUS
<1>1. InsertInv /\ [Next]_vars => InsertInv'
  BY NextShows
<1>2. Spec => []InsertInv
  BY <1>1, InsertInitially, PTL DEF Spec
<1> QED
  BY <1>2, InsertFollows, PTL

-----------------------------------------------------------------------------
(* The caret, while users only insert.                                     *)

CaretInText == \A c \in Clients : caret[c] <= Len(text[c])

\* updateIndex: a caret behind an insertion moves on by one, one in front of it or
\* at its place stays.
LEMMA CaretCarried ==
  ASSUME NEW op \in Insertions, NEW k \in Nat
  PROVE  UpdateIndex(k, op, NoParticipant) = IF op.range.location < k THEN k + 1 ELSE k
<1> DEFINE g == Glyph(Identity(op))
<1>1. /\ op.participantID # NoParticipant /\ op.range.length = 0
      /\ op.range.location \in Nat
      /\ op.originalString = << >> /\ op.replaceString = <<g>>
  BY ParticipantAssumption DEF Insertions, Insertion, EmptyRanges, Ranges
<1> HIDE DEF g
<1>2. Len(<<g>>) = 1 /\ Len(<< >>) = 0
  OBVIOUS
<1>3. Growth(op) = 1
  BY <1>1, <1>2 DEF Growth
<1> QED
  BY <1>1, <1>3 DEF UpdateIndex, Carried

\* What such a caret has in front of it, and in which order.
LEMMA PlaceKept ==
  ASSUME NEW t \in Seq(Glyphs), NEW g \in Glyphs, NEW range, range.length = 0,
         range.location \in 0..Len(t), IsInjective(t), g \notin Range(t),
         NEW place \in 0..Len(t)
  PROVE  SamePlace(t, place, Replace(t, range, <<g>>),
                   IF range.location < place THEN place + 1 ELSE place)
<1> DEFINE l == range.location
           n == Len(t)
           all == Replace(t, range, <<g>>)
           moved == IF range.location < place THEN place + 1 ELSE place
           New(i) == IF i <= l THEN i ELSE i + 1
<1>1. n \in Nat /\ l \in 0..n /\ DOMAIN t = 1..n
  BY LenProperties
<1>2. /\ all \in Seq(Glyphs) /\ Len(all) = n + 1
      /\ \A i \in 1..l : all[i] = t[i]
      /\ \A i \in (l + 2)..(n + 1) : all[i] = t[i - 1]
  BY CharactersAround
<1>3. IsInjective(all)
  BY CharacterPut
<1>4. moved = IF l < place THEN place + 1 ELSE place
  OBVIOUS
<1> HIDE DEF l, n, all, moved
<1>5. DOMAIN all = 1..(n + 1)
  BY <1>2, LenProperties
<1>6. place \in 0..n
  BY DEF n
<1>7. ASSUME NEW i \in 1..n
      PROVE  New(i) \in 1..(n + 1) /\ all[New(i)] = t[i]
  <2>1. CASE i <= l
    BY <1>1, <1>2, <2>1
  <2>2. CASE ~(i <= l)
    <3>1. i + 1 \in (l + 2)..(n + 1) /\ i + 1 \in 1..(n + 1) /\ (i + 1) - 1 = i
      BY <1>1, <2>2
    <3>2. all[i + 1] = t[i]
      BY <1>2, <3>1
    <3> QED  BY <2>2, <3>1, <3>2
  <2> QED  BY <2>1, <2>2
<1>8. ASSUME NEW i \in 1..n, NEW j \in 1..(n + 1), t[i] = all[j]
      PROVE  j = New(i)
  <2> HIDE DEF New
  <2> QED  BY <1>3, <1>5, <1>7, <1>8 DEF IsInjective
<1>9. moved <= Len(all)
  BY <1>1, <1>2, <1>4, <1>6
<1>10. ASSUME NEW i \in 1..n, NEW k \in 1..n, NEW j \in 1..(n + 1), NEW m \in 1..(n + 1),
              t[i] = all[j], t[k] = all[m]
       PROVE  (i <= place <=> j <= moved) /\ (i < k <=> j < m)
  <2>1. j = New(i) /\ m = New(k)
    BY <1>8, <1>10
  <2> QED  BY <1>1, <1>4, <1>6, <2>1
<1> QED
  BY <1>1, <1>5, <1>9, <1>10 DEF SamePlace, all, moved

\* A step that shows an operation, and what it does to the text and the caret.
LEMMA OperationShown ==
  ASSUME InsertInv, CaretInText, NEW c \in Clients, UpdateInputView(c),
         text'[c] # text[c]
  PROVE  SamePlace(text[c], caret[c], text'[c], caret'[c])
<1> DEFINE op == Head(uiQ[c])
           g == Glyph(Identity(op))
<1>1. /\ alive[c] /\ uiQ[c] # << >> /\ Within(op.range, text[c])
      /\ text' = [text EXCEPT ![c] = Replace(@, op.range, op.replaceString)]
      /\ caret' = [caret EXCEPT ![c] = UpdateIndex(@, op, NoParticipant)]
  BY DEF UpdateInputView, MainFree
<1>2. /\ text \in [Clients -> Seq(Glyphs)] /\ text[c] \in Seq(Glyphs)
      /\ caret \in [Clients -> Nat] /\ caret[c] \in Nat /\ Len(text[c]) \in Nat
      /\ caret[c] <= Len(text[c])
      /\ IsInjective(text[c])
  BY <1>1, LenProperties DEF InsertInv, LedgerInv, DeliveryInv, TypeInv, TypeOK, Shown,
                             CaretInText
<1>3. /\ op \in Insertions /\ op.range.length = 0 /\ op.range.location \in Nat
      /\ op.replaceString = <<g>> /\ g \in Glyphs /\ g \notin Range(text[c])
  BY <1>1, ShownNext
<1> HIDE DEF op, g
<1>4. op.range.location \in 0..Len(text[c]) /\ caret[c] \in 0..Len(text[c])
  BY <1>1, <1>2, <1>3 DEF Within
<1>5. caret'[c] = IF op.range.location < caret[c] THEN caret[c] + 1 ELSE caret[c]
  <2>1. caret'[c] = UpdateIndex(caret[c], op, NoParticipant)
    BY <1>1, <1>2
  <2> QED  BY <1>2, <1>3, <2>1, CaretCarried
<1>6. text'[c] = Replace(text[c], op.range, <<g>>)
  BY <1>1, <1>2, <1>3
<1> QED
  BY <1>2, <1>3, <1>4, <1>5, <1>6, PlaceKept

LEMMA NextKeepsCaretInText ==
  ("early" \notin Freedoms) /\ UsersInsert /\ InsertInv /\ CaretInText /\ [Next]_vars
    => CaretInText'
<1> SUFFICES ASSUME "early" \notin Freedoms, UsersInsert, InsertInv, CaretInText, [Next]_vars
             PROVE  CaretInText'
  OBVIOUS
<1>1. /\ TypeOK /\ text \in [Clients -> Seq(Glyphs)] /\ caret \in [Clients -> Nat]
  BY DEF InsertInv, LedgerInv, DeliveryInv, TypeInv, TypeOK
<1>2. ASSUME UNCHANGED <<text, caret>>  PROVE CaretInText'
  BY <1>2 DEF CaretInText
<1>3. ASSUME NEW c \in Clients, Type(c)
      PROVE  CaretInText'
  <2>1. member[c]
    BY <1>3 DEF Type
  <2>2. PICK op \in Keystrokes :
          /\ op.range.location \in 0..Len(text[c])
          /\ text' = [text EXCEPT ![c] = Replace(@, op.range, op.replaceString)]
          /\ caret' = [caret EXCEPT ![c] = op.range.location + 1]
    BY <1>1, <1>3, <2>1, KeystrokeTyped
  <2> DEFINE g == Glyph(Identity(op))
             put == <<g>>
  <2>3. /\ op.range.length = 0 /\ op.replaceString = put /\ put \in Seq(Glyphs)
    BY DEF Keystrokes, Insertion, EmptyRanges, Ops, Operations, Strings
  <2> HIDE DEF g
  <2>4. 1 \in 1..Len(put) /\ put[1] = g
    OBVIOUS
  <2>5. g \in Glyphs
    <3> HIDE DEF put
    <3> QED  BY <2>3, <2>4, ElementOfSeq
  <2>6. Len(Replace(text[c], op.range, put)) = Len(text[c]) + 1 /\ Len(text[c]) \in Nat
    BY <1>1, <2>2, <2>3, <2>5, CharactersAround, LenProperties
  <2> HIDE DEF put
  <2>7. caret'[c] <= Len(text'[c])
    BY <1>1, <2>2, <2>3, <2>6
  <2>8. \A d \in Clients : d # c => caret'[d] = caret[d] /\ text'[d] = text[d]
    BY <1>1, <2>2
  <2> QED  BY <2>7, <2>8 DEF CaretInText
<1>4. ASSUME NEW c \in Clients, UpdateInputView(c)
      PROVE  CaretInText'
  <2>1. \A d \in Clients : d # c => caret'[d] = caret[d] /\ text'[d] = text[d]
    BY <1>1, <1>4 DEF UpdateInputView
  <2>2. CASE text'[c] # text[c]
    <3>1. caret'[c] <= Len(text'[c])
      BY <1>4, <2>2, OperationShown DEF SamePlace
    <3> QED  BY <2>1, <3>1 DEF CaretInText
  <2>3. CASE text'[c] = text[c]
    <3>1. CASE UNCHANGED caret
      BY <2>1, <2>3, <3>1 DEF CaretInText
    <3>2. CASE caret' # caret
      <4> DEFINE op == Head(uiQ[c])
      <4>1. /\ alive[c] /\ uiQ[c] # << >> /\ Within(op.range, text[c])
            /\ text' = [text EXCEPT ![c] = Replace(@, op.range, op.replaceString)]
        BY <1>4, <3>2 DEF UpdateInputView, MainFree
      <4> DEFINE g == Glyph(Identity(op))
      <4>2. /\ op.range.length = 0 /\ op.range.location \in Nat
            /\ op.replaceString = <<g>> /\ g \in Glyphs
        BY <4>1, ShownNext
      <4> HIDE DEF op, g
      <4>3. Len(text[c]) \in Nat /\ op.range.location \in 0..Len(text[c])
        BY <1>1, <4>1, <4>2, LenProperties DEF Within
      <4>4. Len(Replace(text[c], op.range, <<g>>)) = Len(text[c]) + 1
        BY <1>1, <4>2, <4>3, CharactersAround
      <4>5. text'[c] = Replace(text[c], op.range, <<g>>)
        BY <1>1, <4>1, <4>2
      <4> QED  BY <2>3, <4>3, <4>4, <4>5
    <3> QED  BY <3>1, <3>2
  <2> QED  BY <2>2, <2>3
<1>5. ASSUME NEW c \in Clients,
             Timer(c) \/ ReceivedEvent(c) \/ StackQueue(c) \/ CreateSess(c) \/ JoinSess(c)
      PROVE  CaretInText'
  BY <1>2, <1>5 DEF Timer, GetLocalChangeSet, BroadcastLocal, RefuseLocal, PutIntoSendStack,
    SendUndoAndRedo, ReceivedEvent, StackQueue, AddNewOperation, AddBack, CreateSess, JoinSess
<1>6. CASE UNCHANGED vars
  BY <1>2, <1>6 DEF vars
<1> QED
  BY <1>3, <1>4, <1>5, <1>6 DEF Next, User, UndoAct, RedoAct, UsersInsert

\* Only updateInputView takes an operation off the main queue and changes the text.
LEMMA ShowsWhatChanges ==
  ASSUME TypeOK, [Next]_vars, NEW c \in Clients, uiQ'[c] # uiQ[c], text'[c] # text[c]
  PROVE  UpdateInputView(c)
<1>1. text \in [Clients -> Seq(Glyphs)] /\ uiQ \in [Clients -> Seq(Ops)]
  BY DEF TypeOK
<1>2. ASSUME NEW d \in Clients, User(d)
      PROVE  uiQ' = uiQ
  BY <1>2 DEF User, Type, ShouldChangeText, UndoAct, RedoAct, CreateSess, JoinSess, threads
<1>3. ASSUME NEW d \in Clients, Timer(d) \/ ReceivedEvent(d) \/ StackQueue(d)
      PROVE  text' = text
  BY <1>3 DEF Timer, GetLocalChangeSet, BroadcastLocal, RefuseLocal, PutIntoSendStack,
    SendUndoAndRedo, ReceivedEvent, StackQueue, AddNewOperation, AddBack
<1>4. ASSUME NEW d \in Clients, UpdateInputView(d)
      PROVE  d = c
  BY <1>1, <1>4 DEF UpdateInputView
<1>5. ~UNCHANGED vars
  BY DEF vars
<1>6. PICK d \in Clients :
        User(d) \/ Timer(d) \/ ReceivedEvent(d) \/ StackQueue(d) \/ UpdateInputView(d)
  BY <1>5 DEF Next
<1> QED
  BY <1>2, <1>3, <1>4, <1>6

\* While users only put single characters, updateInputView leaves the caret inside the
\* text and between the characters it was between, on every device, whatever was typed
\* since the operation was placed.
THEOREM CaretStays ==
  ("early" \notin Freedoms) /\ UsersInsert => (Spec => CaretKeepsItsPlace)
<1> SUFFICES ASSUME "early" \notin Freedoms, UsersInsert  PROVE Spec => CaretKeepsItsPlace
  OBVIOUS
<1> DEFINE Stayed ==
      \A c \in Clients :
        (uiQ'[c] # uiQ[c] /\ text'[c] # text[c]) =>
          SamePlace(text[c], caret[c], text'[c], caret'[c])
<1>1. Init => CaretInText
  <2> SUFFICES ASSUME Init, NEW c \in Clients  PROVE caret[c] <= Len(text[c])
    BY DEF CaretInText
  <2>1. caret[c] = 0 /\ text[c] = << >>
    BY DEF Init
  <2> QED  BY <2>1
<1>2. InsertInv /\ [Next]_vars => InsertInv'
  BY NextShows
<1>3. InsertInv /\ CaretInText /\ [Next]_vars => CaretInText'
  BY NextKeepsCaretInText
<1>4. InsertInv /\ CaretInText /\ [Next]_vars => Stayed
  <2> SUFFICES ASSUME InsertInv, CaretInText, [Next]_vars, NEW c \in Clients,
                      uiQ'[c] # uiQ[c], text'[c] # text[c]
               PROVE  SamePlace(text[c], caret[c], text'[c], caret'[c])
    OBVIOUS
  <2>1. TypeOK
    BY DEF InsertInv, LedgerInv, DeliveryInv, TypeInv
  <2>2. UpdateInputView(c)
    BY <2>1, ShowsWhatChanges
  <2> QED  BY <2>2, OperationShown
<1>5. CaretKeepsItsPlace <=> [][Stayed]_vars
  BY PTL DEF CaretKeepsItsPlace
<1> HIDE DEF Stayed
<1> QED
  BY <1>1, <1>2, <1>3, <1>4, <1>5, InsertInitially, PTL DEF Spec

-----------------------------------------------------------------------------
(* What is shown fits the text, while users only insert.                   *)

\* The operations of others in the global stack of c, which is the log up to there.
Foreign(c) == {k \in 1..Len(global[c]) : log[k].op.participantID # c}

\* An operation of c reaches no further than what c had made before it and what c
\* has of others.
Reaches(op, c) == op.range.location <= op.operationID + Cardinality(Foreign(c))

\* The operations in front of the k-th of the log that its author had taken into
\* account when it was sent.
Accounted(k) ==
  {j \in 1..(k - 1) : \/ log[j].op.participantID = log[k].op.participantID
                      \/ log[j].order <= log[k].op.referID}

LogFits ==
  /\ \A j, k \in 1..Len(log) : j < k => log[j].order <= log[k].order
  /\ \A k \in 1..Len(log) : log[k].op.range.location <= Cardinality(Accounted(k))

StacksFit(c) ==
  /\ \A i \in 1..Len(global[c]) : global[c][i].globalID = log[i].order
  /\ \A i \in 1..Len(local[c]) : Reaches(local[c][i], c)
  /\ timer[c] = "taken" =>
       /\ local[c] = << >>
       /\ \A i \in 1..Len(batch[c]) :
            /\ Reaches(batch[c][i], c)
            /\ \A k \in Foreign(c) : log[k].order <= batch[c][i].referID

\* What waits to be shown fits a text with what is shown before it; the text and
\* the queue together have an operation for each that c knows of.
QueueFits(c) ==
  \A i \in 1..Len(uiQ[c]) :
    uiQ[c][i].range.location + Len(uiQ[c]) - i + 1 <= nextID[c] + Cardinality(Foreign(c))

FitInv ==
  /\ InsertInv /\ SortedInv /\ SessionInv
  /\ LogFits
  /\ \A c \in Clients : StacksFit(c) /\ (alive[c] => QueueFits(c))

\* The values of an injective function are as many as its arguments.
LEMMA ImageSize ==
  ASSUME NEW S, IsFiniteSet(S), NEW f, \A x, y \in S : f[x] = f[y] => x = y
  PROVE  /\ IsFiniteSet({f[x] : x \in S})
         /\ Cardinality({f[x] : x \in S}) = Cardinality(S)
<1> DEFINE T == {f[x] : x \in S}
           g == [x \in S |-> f[x]]
<1>1. g \in Bijection(S, T)
  <2>1. g \in [S -> T] /\ \A x, y \in S : g[x] = g[y] => x = y
    OBVIOUS
  <2>2. \A t \in T : \E x \in S : g[x] = t
    OBVIOUS
  <2> HIDE DEF g, T
  <2> QED  BY <2>1, <2>2 DEF Bijection, Injection, Surjection, IsInjective
<1>2. ExistsBijection(S, T)
  BY <1>1 DEF ExistsBijection
<1> QED
  BY <1>2, FS_Bijection

\* Sets without a common element are together as many as their numbers add up to.
LEMMA DisjointSize ==
  ASSUME NEW S, NEW T, IsFiniteSet(S), IsFiniteSet(T), S \cap T = {}
  PROVE  /\ IsFiniteSet(S \cup T)
         /\ Cardinality(S \cup T) = Cardinality(S) + Cardinality(T)
         /\ Cardinality(S) \in Nat /\ Cardinality(T) \in Nat
<1>1. /\ IsFiniteSet(S \cup T)
      /\ Cardinality(S \cup T) = Cardinality(S) + Cardinality(T) - Cardinality(S \cap T)
  BY FS_Union
<1>2. Cardinality(S \cap T) = 0
  BY FS_EmptySet
<1>3. Cardinality(S) \in Nat /\ Cardinality(T) \in Nat
  BY FS_CardinalityType
<1> QED
  BY <1>1, <1>2, <1>3

\* A part of the log is as many operations as it has entries.
LEMMA PlacesCounted ==
  ASSUME TypeOK, LogOnce, NEW K, K \subseteq 1..Len(log)
  PROVE  /\ IsFiniteSet(K) /\ Cardinality(K) \in Nat
         /\ IsFiniteSet({Identity(log[k].op) : k \in K})
         /\ Cardinality({Identity(log[k].op) : k \in K}) = Cardinality(K)
<1> DEFINE f == [k \in K |-> Identity(log[k].op)]
<1>1. Len(log) \in Nat
  BY LenProperties DEF TypeOK
<1>2. IsFiniteSet(K) /\ Cardinality(K) \in Nat
  <2>1. IsFiniteSet(1..Len(log))
    BY <1>1, FS_Interval
  <2> QED  BY <2>1, FS_Subset, FS_CardinalityType
<1>3. \A x, y \in K : f[x] = f[y] => x = y
  BY DEF LogOnce
<1>4. {f[k] : k \in K} = {Identity(log[k].op) : k \in K}
  OBVIOUS
<1> HIDE DEF f
<1>5. IsFiniteSet({f[k] : k \in K}) /\ Cardinality({f[k] : k \in K}) = Cardinality(K)
  BY <1>2, <1>3, ImageSize
<1> QED
  BY <1>2, <1>4, <1>5

\* A sequence without repetition has as many identities as operations.
LEMMA StackCounted ==
  ASSUME NEW ops \in Seq(Ops), Once(ops)
  PROVE  IsFiniteSet(Ids(ops)) /\ Cardinality(Ids(ops)) = Len(ops)
<1> DEFINE n == Len(ops)
           D == 1..n
           f == [i \in D |-> Identity(ops[i])]
<1>1. n \in Nat
  BY LenProperties
<1>2. IsFiniteSet(D) /\ Cardinality(D) = n
  <2> HIDE DEF n
  <2> QED  BY <1>1, FS_Interval
<1>3. \A x, y \in D : f[x] = f[y] => x = y
  BY DEF Once
<1>4. {f[i] : i \in D} = Ids(ops)
  BY DEF Ids
<1> HIDE DEF f, n, D
<1>5. IsFiniteSet({f[i] : i \in D}) /\ Cardinality({f[i] : i \in D}) = Cardinality(D)
  BY <1>2, <1>3, ImageSize
<1> QED
  BY <1>2, <1>4, <1>5 DEF n

\* The operation IDs below n.
LEMMA GivenCounted ==
  ASSUME NEW c, NEW n \in Nat
  PROVE  /\ IsFiniteSet({c} \X (0..(n - 1)))
         /\ Cardinality({c} \X (0..(n - 1))) = n
<1> DEFINE f == [i \in 0..(n - 1) |-> <<c, i>>]
<1>1. IsFiniteSet(0..(n - 1)) /\ Cardinality(0..(n - 1)) = n
  BY FS_Interval
<1>2. \A x, y \in 0..(n - 1) : f[x] = f[y] => x = y
  OBVIOUS
<1>3. {f[i] : i \in 0..(n - 1)} = {c} \X (0..(n - 1))
  OBVIOUS
<1> HIDE DEF f
<1>4. /\ IsFiniteSet({f[i] : i \in 0..(n - 1)})
      /\ Cardinality({f[i] : i \in 0..(n - 1)}) = Cardinality(0..(n - 1))
  BY <1>1, <1>2, ImageSize
<1> QED
  BY <1>1, <1>3, <1>4

\* A device's global stack lies in the log, and is what it has worked through.
LEMMA GlobalInLog ==
  ASSUME SessionInv, NEW c \in Clients
  PROVE  /\ TypeOK /\ Len(global[c]) \in Nat /\ Len(log) \in Nat
         /\ Len(global[c]) <= Len(log)
         /\ Processed(c) = 1..Len(global[c])
         /\ IsFiniteSet(Foreign(c)) /\ Cardinality(Foreign(c)) \in Nat
<1> DEFINE l == Len(global[c])
           r == received[c]
<1>1. /\ TypeOK /\ l \in Nat /\ Len(log) \in Nat /\ r \in Nat /\ r <= Len(log) /\ l <= r
      /\ Places(stackQ[c]) = (l + 1)..r
  BY LenProperties DEF SessionInv, Session, Prefix, DeliveryInv, TypeInv, TypeOK, HandedOver
<1> HIDE DEF l, r
<1>2. (1..r) \ ((l + 1)..r) = 1..l
  BY <1>1
<1>3. Processed(c) = 1..l
  BY <1>1, <1>2 DEF Processed, r
<1>4. IsFiniteSet(Foreign(c)) /\ Cardinality(Foreign(c)) \in Nat
  <2>1. IsFiniteSet(1..l)
    BY <1>1, FS_Interval
  <2>2. Foreign(c) \in SUBSET (1..l)
    BY DEF Foreign, l
  <2> QED  BY <2>1, <2>2, FS_Subset, FS_CardinalityType
<1> QED
  BY <1>1, <1>3, <1>4 DEF l

\* What a device knows of: all it has made, and what it has of others.
LEMMA SeenCounted ==
  ASSUME FitInv, NEW c \in Clients, alive[c]
  PROVE  /\ IsFiniteSet(Seen(c))
         /\ Cardinality(Seen(c)) = nextID[c] + Cardinality(Foreign(c))
<1> DEFINE F == {Identity(log[k].op) : k \in Foreign(c)}
<1>1. /\ TypeOK /\ Len(global[c]) \in Nat /\ Len(log) \in Nat /\ Len(global[c]) <= Len(log)
      /\ Processed(c) = 1..Len(global[c])
  BY GlobalInLog DEF FitInv
<1>2. LogOnce /\ InLog(c) \subseteq Given(c) /\ nextID[c] \in Nat
  BY <1>1 DEF FitInv, InsertInv, LedgerInv, Ledger, Dealt, TypeOK
<1>3. Seen(c) = Given(c) \cup F
  <2>1. ASSUME NEW k \in 1..Len(global[c])
        PROVE  Identity(log[k].op) \in Given(c) \cup F
    <3>1. CASE log[k].op.participantID # c
      BY <3>1 DEF Foreign
    <3>2. CASE log[k].op.participantID = c
      <4>1. Identity(log[k].op)[1] = c
        BY <3>2 DEF Identity
      <4>2. k \in 1..Len(log)
        BY <1>1
      <4>3. Identity(log[k].op) \in InLog(c)
        BY <4>1, <4>2 DEF InLog, LogIds
      <4> QED  BY <1>2, <4>3
    <3> QED  BY <3>1, <3>2
  <2>2. F \subseteq {Identity(log[k].op) : k \in 1..Len(global[c])}
    BY DEF Foreign
  <2> HIDE DEF F
  <2> QED  BY <1>1, <2>1, <2>2 DEF Seen
<1>4. Given(c) \cap F = {}
  <2>1. \A p \in Given(c) : p[1] = c
    BY DEF Given
  <2>2. \A p \in F : p[1] # c
    BY DEF Foreign, Identity
  <2> HIDE DEF F
  <2> QED  BY <2>1, <2>2
<1>5. IsFiniteSet(Given(c)) /\ Cardinality(Given(c)) = nextID[c]
  BY <1>2, GivenCounted DEF Given
<1>6. IsFiniteSet(F) /\ Cardinality(F) = Cardinality(Foreign(c))
  <2>1. Foreign(c) \subseteq 1..Len(log)
    BY <1>1 DEF Foreign
  <2> QED  BY <1>1, <1>2, <2>1, PlacesCounted
<1> HIDE DEF F
<1> QED
  BY <1>3, <1>4, <1>5, <1>6, DisjointSize

\* The text shows what the device knows of and has not still to show.
LEMMA TextCounted ==
  ASSUME FitInv, NEW c \in Clients, alive[c]
  PROVE  /\ Len(text[c]) \in Nat /\ Len(uiQ[c]) \in Nat
         /\ Len(text[c]) + Len(uiQ[c]) = nextID[c] + Cardinality(Foreign(c))
<1> DEFINE n == Len(text[c])
           D == 1..n
           I == Ids(uiQ[c])
           R == Seen(c) \ I
           f == [i \in D |-> text[c][i]]
           g == [x \in R |-> Glyph(x)]
<1>1. /\ text[c] \in Seq(Glyphs) /\ uiQ[c] \in Seq(Ops) /\ Shown(c)
      /\ n \in Nat /\ Len(uiQ[c]) \in Nat /\ DOMAIN text[c] = 1..n
  BY LenProperties
  DEF FitInv, InsertInv, LedgerInv, DeliveryInv, TypeInv, TypeOK
<1>2. IsFiniteSet(D) /\ Cardinality(D) = n
  <2> HIDE DEF n
  <2> QED  BY <1>1, FS_Interval
<1>3. {f[i] : i \in D} = Range(text[c]) /\ \A x, y \in D : f[x] = f[y] => x = y
  BY <1>1 DEF Range, Shown, IsInjective
<1>4. {g[x] : x \in R} = {Glyph(x) : x \in R} /\ \A x, y \in R : g[x] = g[y] => x = y
  BY SeenApart
<1>5. /\ IsFiniteSet(Seen(c))
      /\ Cardinality(Seen(c)) = nextID[c] + Cardinality(Foreign(c))
  BY SeenCounted
<1>6. IsFiniteSet(I) /\ Cardinality(I) = Len(uiQ[c])
  BY <1>1, StackCounted DEF Shown
<1>7. I \subseteq Seen(c) /\ Range(text[c]) = {Glyph(x) : x \in R}
  BY <1>1 DEF Shown
<1> HIDE DEF f, g, n, I, D
<1>8. Cardinality({f[i] : i \in D}) = n
  BY <1>2, <1>3, ImageSize
<1>9. IsFiniteSet(R) /\ R \cap I = {} /\ R \cup I = Seen(c)
  <2>1. R \in SUBSET Seen(c)
    OBVIOUS
  <2> QED  BY <1>5, <1>7, <2>1, FS_Subset
<1> HIDE DEF R
<1>10. Cardinality({g[x] : x \in R}) = Cardinality(R)
  BY <1>4, <1>9, ImageSize
<1>11. Cardinality(R) = n
  BY <1>3, <1>4, <1>7, <1>8, <1>10
<1>12. Cardinality(Seen(c)) = Cardinality(R) + Cardinality(I)
  BY <1>6, <1>9, DisjointSize
<1> QED
  BY <1>1, <1>5, <1>6, <1>11, <1>12 DEF n

\* What is next to be shown fits.
LEMMA FitFollows == FitInv => ShownFits
<1> SUFFICES ASSUME FitInv, NEW c \in Clients, alive[c], uiQ[c] # << >>
             PROVE  Within(Head(uiQ[c]).range, text[c])
  BY DEF ShownFits
<1>1. uiQ[c] \in Seq(Ops) /\ nextID[c] \in Nat /\ Cardinality(Foreign(c)) \in Nat
  BY GlobalInLog DEF FitInv, InsertInv, LedgerInv, DeliveryInv, TypeInv, TypeOK
<1>2. Len(uiQ[c]) # 0 /\ Head(uiQ[c]) = uiQ[c][1]
  BY <1>1, EmptySeq, HeadTailProperties
<1>3. /\ Len(text[c]) \in Nat /\ Len(uiQ[c]) \in Nat
      /\ Len(text[c]) + Len(uiQ[c]) = nextID[c] + Cardinality(Foreign(c))
  BY TextCounted
<1>4. Head(uiQ[c]).range.length = 0 /\ Head(uiQ[c]).range.location \in Nat
  BY ShownNext DEF FitInv
<1>5. uiQ[c][1].range.location + Len(uiQ[c]) - 1 + 1 <= nextID[c] + Cardinality(Foreign(c))
  <2>1. 1 \in 1..Len(uiQ[c])
    BY <1>2, <1>3
  <2> QED  BY <2>1 DEF FitInv, QueueFits
<1> DEFINE location == Head(uiQ[c]).range.location
           n == Len(text[c])
           q == Len(uiQ[c])
           s == nextID[c] + Cardinality(Foreign(c))
<1>6. location + q - 1 + 1 <= s /\ location \in Nat /\ q \in Nat /\ n \in Nat /\ n + q = s
  BY <1>2, <1>3, <1>4, <1>5
<1> HIDE DEF location, n, q, s
<1>7. location + 0 <= n /\ location >= 0
  BY <1>6
<1> QED
  BY <1>4, <1>7 DEF Within, location, n

\* An idle device has placed, sent and typed no more than it knows of.
LEMMA RoomForAll ==
  ASSUME FitInv, NEW c \in Clients, alive[c], timer[c] = "idle"
  PROVE  Len(global[c]) + Len(send[c]) + Len(local[c])
           <= nextID[c] + Cardinality(Foreign(c))
<1> DEFINE l == Len(global[c])
           s == Len(send[c])
           D == 1..s
           Own == {k \in 1..l : log[k].op.participantID = c}
           E == Expected(c)
           K == Own \cup E
           IdsK == {Identity(log[k].op) : k \in K}
           L == Ids(local[c])
<1>1. /\ TypeOK /\ l \in Nat /\ Len(log) \in Nat /\ l <= Len(log)
      /\ IsFiniteSet(Foreign(c)) /\ Cardinality(Foreign(c)) \in Nat
  BY GlobalInLog DEF FitInv
<1>2. /\ LogOnce /\ Once(local[c]) /\ L \cap InLog(c) = {}
      /\ L \subseteq Given(c) /\ InLog(c) \subseteq Given(c)
      /\ nextID[c] \in Nat /\ local[c] \in Seq(Ops) /\ send[c] \in Seq(Ops)
      /\ Matched(c)
  BY <1>1 DEF FitInv, InsertInv, LedgerInv, Ledger, Dealt, TypeOK, SessionInv, Session
<1>3. s \in Nat /\ Len(local[c]) \in Nat
  BY <1>2, LenProperties
<1>4. K \subseteq 1..Len(log) /\ Own \subseteq 1..Len(log) /\ E \subseteq 1..Len(log)
  <2> HIDE DEF l
  <2>1. \A k \in 1..l : k \in 1..Len(log)
    BY <1>1
  <2>2. \A k \in (l + 1)..Len(log) : k \in 1..Len(log)
    BY <1>1
  <2> QED  BY <2>1, <2>2 DEF Expected, l
<1>5. Own \cap E = {} /\ Own \cap Foreign(c) = {} /\ Own \cup Foreign(c) = 1..l
  <2>1. \A k \in 1..l : k \notin (l + 1)..Len(log)
    BY <1>1
  <2> QED  BY <2>1 DEF Expected, Foreign
<1>6. /\ IsFiniteSet(Own) /\ IsFiniteSet(E) /\ IsFiniteSet(K) /\ IsFiniteSet(IdsK)
      /\ Cardinality(IdsK) = Cardinality(K)
  <2> HIDE DEF Own, E
  <2> QED  BY <1>1, <1>2, <1>4, PlacesCounted
<1>7. Cardinality(E) = s
  <2>1. PICK f : Matching(c, f)
    BY <1>2 DEF Matched
  <2>2. /\ f \in [D -> E]
        /\ \A i, j \in D : i < j => f[i] < f[j]
        /\ \A k \in E : \E i \in D : f[i] = k
    BY <2>1 DEF Matching, Awaiting
  <2>3. \A i \in D : f[i] \in Nat
    BY <1>4, <2>2, SMTT(30)
  <2>4. ASSUME NEW i \in D, NEW j \in D, f[i] = f[j]
        PROVE  i = j
    <3>1. ~(f[i] < f[j]) /\ ~(f[j] < f[i])
      BY <2>3, <2>4
    <3>2. ~(i < j) /\ ~(j < i)
      BY <2>2, <3>1
    <3> QED  BY <1>3, <3>2
  <2>5. {f[i] : i \in D} = E
    BY <2>2
  <2>6. IsFiniteSet(D) /\ Cardinality(D) = s
    <3> HIDE DEF s
    <3> QED  BY <1>3, FS_Interval
  <2> HIDE DEF D, E, s
  <2>7. Cardinality({f[i] : i \in D}) = Cardinality(D)
    BY <2>4, <2>6, ImageSize
  <2> QED  BY <2>5, <2>6, <2>7
<1>8. IdsK \subseteq InLog(c)
  <2>1. \A k \in K : k \in 1..Len(log) /\ Identity(log[k].op)[1] = c
    BY <1>4 DEF Expected, Keystroke, Identity
  <2> QED  BY <2>1 DEF InLog, LogIds
<1>9. IsFiniteSet(L) /\ Cardinality(L) = Len(local[c])
  BY <1>2, StackCounted
<1>10. IsFiniteSet(Given(c)) /\ Cardinality(Given(c)) = nextID[c]
  BY <1>2, GivenCounted DEF Given
<1>11. IsFiniteSet(1..l) /\ Cardinality(1..l) = l
  <2> HIDE DEF l
  <2> QED  BY <1>1, FS_Interval
<1> HIDE DEF l, s, D, Own, E, K, IdsK, L
<1>12. l = Cardinality(Own) + Cardinality(Foreign(c)) /\ Cardinality(Own) \in Nat
  BY <1>1, <1>5, <1>6, <1>11, DisjointSize
<1>13. Cardinality(K) = Cardinality(Own) + Cardinality(E)
  BY <1>5, <1>6, DisjointSize DEF K
<1>14. Cardinality(IdsK \cup L) = Cardinality(IdsK) + Cardinality(L)
  <2>1. IdsK \cap L = {}
    BY <1>2, <1>8
  <2> QED  BY <1>6, <1>9, <2>1, DisjointSize
<1>15. Cardinality(IdsK \cup L) <= Cardinality(Given(c))
  <2>1. IdsK \cup L \in SUBSET Given(c)
    BY <1>2, <1>8
  <2> QED  BY <1>10, <2>1, FS_Subset
<1> DEFINE own == Cardinality(Own)
           foreign == Cardinality(Foreign(c))
           n == nextID[c]
           o == Len(local[c])
<1>16. own + s + o <= n
  BY <1>6, <1>7, <1>9, <1>10, <1>13, <1>14, <1>15
<1>17. own \in Nat /\ foreign \in Nat /\ n \in Nat /\ o \in Nat /\ s \in Nat /\ l = own + foreign
  BY <1>1, <1>2, <1>3, <1>12
<1> HIDE DEF own, foreign, n, o
<1>18. l + s + o <= n + foreign
  BY <1>16, <1>17
<1> QED
  BY <1>18 DEF l, s, o, n, foreign

LEMMA UptoCounted == \A n \in Nat : IsFiniteSet(1..n) /\ Cardinality(1..n) = n
BY FS_Interval

\* What moves a foreign operation when it is placed is what its author had not taken
\* into account.
LEMMA MoversUnaccounted ==
  ASSUME FitInv, NEW c \in Clients,
         NEW l, l = Len(global[c]), l + 1 \in 1..Len(log),
         NEW op \in Ops, op.participantID = log[l + 1].op.participantID,
         op.referID = log[l + 1].op.referID, op.range = log[l + 1].op.range
  PROVE  op.range.location + Cardinality(Movers(global[c], op)) <= l
<1> DEFINE A == Accounted(l + 1)
           M == Movers(global[c], op)
<1>1. TypeOK /\ l \in Nat /\ Len(log) \in Nat /\ l <= Len(log) /\ global[c] \in Seq(Ops)
  BY GlobalInLog DEF FitInv, TypeOK
<1>2. DOMAIN global[c] = 1..l
  BY <1>1, LenProperties
<1>3. (l + 1) - 1 = l
  BY <1>1
<1>4. A \in SUBSET (1..l) /\ M \in SUBSET (1..l)
  BY <1>3 DEF Accounted, Movers
<1>5. \A i \in 1..l :
        /\ i \in 1..Len(log)
        /\ global[c][i].globalID = log[i].order /\ log[i].order \in Nat
        /\ global[c][i].participantID = log[i].op.participantID
  <2> SUFFICES ASSUME NEW i \in 1..l
               PROVE  /\ i \in 1..Len(log)
                      /\ global[c][i].globalID = log[i].order /\ log[i].order \in Nat
                      /\ global[c][i].participantID = log[i].op.participantID
    OBVIOUS
  <2>1. i \in 1..Len(log)
    BY <1>1
  <2>2. log[i] \in [op : Ops, order : Nat]
    BY <1>1, <2>1, ElementOfSeq DEF TypeOK
  <2>3. Identity(global[c][i]) = Identity(log[i].op)
    BY DEF FitInv, SessionInv, Session, Prefix
  <2>4. global[c][i].globalID = log[i].order
    BY DEF FitInv, StacksFit
  <2> QED  BY <2>1, <2>2, <2>3, <2>4 DEF Identity
<1>6. A \cap M = {}
  <2> SUFFICES ASSUME NEW i \in A, i \in M  PROVE FALSE
    OBVIOUS
  <2>1. /\ i \in 1..l /\ global[c][i].participantID # op.participantID
        /\ global[c][i].globalID # op.referID
        /\ \/ op.referID = NoRefer
           \/ \E j \in 1..(i - 1) : global[c][j].globalID = op.referID
    BY <1>4 DEF Movers, Unseen
  <2>2. log[i].order <= op.referID
    BY <1>5, <2>1 DEF Accounted
  <2>3. log[i].order \in Nat /\ log[i].order # op.referID
    BY <1>5, <2>1
  <2>4. CASE op.referID = NoRefer
    BY <2>2, <2>3, <2>4 DEF NoRefer
  <2>5. CASE \E j \in 1..(i - 1) : global[c][j].globalID = op.referID
    <3>1. PICK j \in 1..(i - 1) : global[c][j].globalID = op.referID
      BY <2>5
    <3>2. j \in 1..l /\ j < i
      BY <1>1, <2>1
    <3>3. j \in 1..Len(log) /\ i \in 1..Len(log)
      BY <1>5, <2>1, <3>2
    <3>4. log[j].order <= log[i].order
      BY <3>2, <3>3 DEF FitInv, LogFits
    <3>5. log[j].order = op.referID /\ log[j].order \in Nat
      BY <1>5, <3>1, <3>2
    <3> QED  BY <2>2, <2>3, <3>4, <3>5
  <2> QED  BY <2>1, <2>4, <2>5
<1>7. IsFiniteSet(1..l) /\ Cardinality(1..l) = l
  BY <1>1, UptoCounted
<1>8. IsFiniteSet(A) /\ IsFiniteSet(M)
  BY <1>4, <1>7, FS_Subset
<1>9. op.range.location <= Cardinality(A) /\ op.range.location \in Nat
  BY DEF FitInv, LogFits, Ops, Operations, Ranges
<1> HIDE DEF A, M
<1>10. /\ Cardinality(A \cup M) = Cardinality(A) + Cardinality(M)
       /\ Cardinality(A) \in Nat /\ Cardinality(M) \in Nat
  BY <1>6, <1>8, DisjointSize
<1>11. Cardinality(A \cup M) <= l
  <2>1. A \cup M \in SUBSET (1..l)
    BY <1>4
  <2> QED  BY <1>7, <2>1, FS_Subset
<1>12. op.range.location + Cardinality(M) <= l
  BY <1>1, <1>9, <1>10, <1>11, SMTT(30)
<1> QED
  BY <1>12 DEF M

LEMMA LogFitsStays ==
  ASSUME LogFits, UNCHANGED log
  PROVE  LogFits'
BY DEF LogFits, Accounted

LEMMA ForeignStays ==
  ASSUME FitInv, LogKept, NEW d \in Clients, Len(global'[d]) = Len(global[d])
  PROVE  Foreign(d)' = Foreign(d)
<1>1. Len(global[d]) \in Nat /\ Len(log) \in Nat /\ Len(global[d]) <= Len(log)
  BY GlobalInLog DEF FitInv
<1>2. \A k \in 1..Len(global[d]) : log'[k] = log[k]
  BY <1>1 DEF LogKept
<1>3. Foreign(d)' = {k \in 1..Len(global[d]) : log'[k].op.participantID # d}
  BY DEF Foreign
<1> QED
  BY <1>2, <1>3 DEF Foreign

\* A device that keeps its stacks and its queue fits as before.
LEMMA DeviceFits ==
  ASSUME FitInv, LogKept, NEW d \in Clients,
         global'[d] = global[d], local'[d] = local[d], batch'[d] = batch[d],
         timer'[d] = timer[d], uiQ'[d] = uiQ[d], nextID'[d] = nextID[d]
  PROVE  StacksFit(d)' /\ (QueueFits(d) => QueueFits(d)')
<1>1. Foreign(d)' = Foreign(d)
  BY ForeignStays
<1>2. Len(global[d]) \in Nat /\ Len(log) \in Nat /\ Len(global[d]) <= Len(log)
  BY GlobalInLog DEF FitInv
<1>3. \A k \in 1..Len(global[d]) : log'[k] = log[k]
  BY <1>2 DEF LogKept
<1>4. \A k \in Foreign(d) : log'[k] = log[k]
  BY <1>3 DEF Foreign
<1>5. StacksFit(d)
  BY DEF FitInv
<1>6. \A op : Reaches(op, d)' <=> Reaches(op, d)
  BY <1>1 DEF Reaches
<1>7. StacksFit(d)'
  BY <1>1, <1>3, <1>4, <1>5, <1>6 DEF StacksFit, Reaches
<1>8. QueueFits(d) => QueueFits(d)'
  BY <1>1 DEF QueueFits
<1> QED
  BY <1>7, <1>8

\* What a step of c leaves to show.
LEMMA FitKept ==
  ASSUME FitInv, InsertInv', SortedInv', SessionInv', LogKept, LogFits', NEW c \in Clients,
         \A d \in Clients : d # c =>
           /\ global'[d] = global[d] /\ local'[d] = local[d] /\ batch'[d] = batch[d]
           /\ timer'[d] = timer[d] /\ uiQ'[d] = uiQ[d] /\ nextID'[d] = nextID[d]
           /\ alive'[d] => alive[d],
         StacksFit(c)', alive'[c] => QueueFits(c)'
  PROVE  FitInv'
<1>1. ASSUME NEW d \in Clients, d # c
      PROVE  StacksFit(d)' /\ (alive'[d] => QueueFits(d)')
  <2>1. StacksFit(d)' /\ (QueueFits(d) => QueueFits(d)')
    BY <1>1, DeviceFits
  <2> QED  BY <1>1, <2>1 DEF FitInv
<1> QED
  BY <1>1 DEF FitInv

\* A keystroke is put somewhere in the text, which has what the device knows of.
LEMMA TypeFits ==
  ASSUME FitInv, InsertInv', SortedInv', SessionInv', UsersInsert, "early" \notin Freedoms,
         NEW c \in Clients, Type(c)
  PROVE  FitInv'
<1>1. /\ TypeOK /\ Len(global[c]) \in Nat
      /\ IsFiniteSet(Foreign(c)) /\ Cardinality(Foreign(c)) \in Nat
  BY GlobalInLog DEF FitInv
<1>2. member[c] /\ alive[c] /\ timer[c] = "idle"
  BY DEF Type, MayInput, AtTurn, MainFree
<1>3. PICK op \in Keystrokes :
        /\ op.operationID = nextID[c]
        /\ op.range.location \in 0..Len(text[c])
        /\ local' = [local EXCEPT ![c] = Append(@, op)]
        /\ nextID' = [nextID EXCEPT ![c] = @ + 1]
        /\ UNCHANGED <<log, uiQ, batch, alive>>
  BY <1>1, <1>2, KeystrokeTyped
<1>4. UNCHANGED <<global, timer>>
  BY DEF Type, ShouldChangeText, threads
<1>5. /\ Len(text[c]) \in Nat /\ Len(uiQ[c]) \in Nat
      /\ Len(text[c]) + Len(uiQ[c]) = nextID[c] + Cardinality(Foreign(c))
  BY <1>2, TextCounted
<1>6. LogKept /\ LogFits'
  BY <1>3, LogFitsStays DEF FitInv, LogKept
<1>7. Foreign(c)' = Foreign(c)
  BY <1>4, <1>6, ForeignStays
<1>8. local[c] \in Seq(Ops) /\ nextID[c] \in Nat /\ local'[c] = Append(local[c], op)
      /\ nextID'[c] = nextID[c] + 1
  BY <1>1, <1>3 DEF TypeOK
<1>9. op.range.location <= op.operationID + Cardinality(Foreign(c))
  <2> DEFINE n == Len(text[c])
             q == Len(uiQ[c])
             f == Cardinality(Foreign(c))
             location == op.range.location
  <2>1. location \in 0..n /\ n \in Nat /\ q \in Nat /\ n + q = nextID[c] + f /\ f \in Nat
    BY <1>1, <1>3, <1>5
  <2> HIDE DEF n, q, f, location
  <2>2. location <= nextID[c] + f
    BY <1>8, <2>1
  <2> QED  BY <1>3, <2>2 DEF location, f
<1>10. \A i \in 1..Len(local'[c]) : Reaches(local[c][i], c)'
  <2>1. /\ Len(local'[c]) = Len(local[c]) + 1 /\ Len(local[c]) \in Nat
        /\ \A i \in 1..Len(local[c]) : local'[c][i] = local[c][i]
        /\ local'[c][Len(local[c]) + 1] = op
    BY <1>8, Appended
  <2>2. \A i \in 1..Len(local[c]) : Reaches(local[c][i], c)
    BY DEF FitInv, StacksFit
  <2>3. \A i \in 1..Len(local'[c]) : i \in 1..Len(local[c]) \/ i = Len(local[c]) + 1
    BY <2>1
  <2>4. \A i \in 1..Len(local'[c]) :
          local'[c][i].range.location
            <= local'[c][i].operationID + Cardinality(Foreign(c))
    BY <1>9, <2>1, <2>2, <2>3 DEF Reaches
  <2> QED  BY <1>7, <2>4 DEF Reaches
<1>11. StacksFit(c)'
  <2>1. \A i \in 1..Len(global[c]) : global[c][i].globalID = log[i].order
    BY DEF FitInv, StacksFit
  <2>2. global' = global /\ log' = log /\ timer'[c] = "idle"
    BY <1>2, <1>3, <1>4
  <2> QED  BY <1>10, <2>1, <2>2 DEF StacksFit, Reaches
<1>12. QueueFits(c)'
  <2> DEFINE f == Cardinality(Foreign(c))
             q == Len(uiQ[c])
  <2>1. ASSUME NEW i \in 1..q
        PROVE  uiQ[c][i].range.location + q - i + 1 <= nextID[c] + 1 + f
    <3>1. uiQ[c][i] \in Ops
      BY <1>1, ElementOfSeq DEF TypeOK
    <3>2. uiQ[c][i].range.location \in Nat
      BY <3>1 DEF Ops, Operations, Ranges
    <3>3. uiQ[c][i].range.location + q - i + 1 <= nextID[c] + f
      BY <1>2 DEF FitInv, QueueFits
    <3> DEFINE location == uiQ[c][i].range.location
    <3> HIDE DEF location, f, q
    <3>4. location \in Nat /\ location + q - i + 1 <= nextID[c] + f /\ f \in Nat /\ q \in Nat
      BY <1>1, <1>5, <3>2, <3>3 DEF location, f, q
    <3>5. location + q - i + 1 <= nextID[c] + 1 + f
      BY <1>8, <3>4
    <3> QED  BY <3>5 DEF location
  <2>2. uiQ'[c] = uiQ[c] /\ nextID'[c] = nextID[c] + 1 /\ Foreign(c)' = Foreign(c)
    BY <1>3, <1>7, <1>8
  <2> QED  BY <2>1, <2>2 DEF QueueFits
<1>13. \A d \in Clients : d # c =>
         /\ global'[d] = global[d] /\ local'[d] = local[d] /\ batch'[d] = batch[d]
         /\ timer'[d] = timer[d] /\ uiQ'[d] = uiQ[d] /\ nextID'[d] = nextID[d]
         /\ alive'[d] => alive[d]
  BY <1>3, <1>4
<1> QED
  BY <1>6, <1>11, <1>12, <1>13, FitKept

\* The change set refers to the newest operation of the device, and so to all it has.
LEMMA GetLocalChangeSetFits ==
  ASSUME FitInv, InsertInv', SortedInv', SessionInv', NEW c \in Clients, GetLocalChangeSet(c)
  PROVE  FitInv'
<1>1. /\ TypeOK /\ Len(global[c]) \in Nat /\ Len(log) \in Nat /\ Len(global[c]) <= Len(log)
  BY GlobalInLog DEF FitInv
<1>2. /\ alive[c] /\ local[c] \in Seq(Ops) /\ global[c] \in Seq(Ops)
      /\ local' = [local EXCEPT ![c] = << >>]
      /\ batch' = [batch EXCEPT ![c] =
           [i \in 1..Len(local[c]) |-> [local[c][i] EXCEPT !.referID = Refer(c)]]]
      /\ UNCHANGED <<log, global, uiQ, nextID, alive>>
      /\ \A d \in Clients : d # c => timer'[d] = timer[d]
  BY <1>1, LenProperties DEF TypeOK, GetLocalChangeSet, AtTurn, MainFree
<1>3. LogKept /\ LogFits'
  BY <1>2, LogFitsStays DEF FitInv, LogKept
<1>4. Foreign(c)' = Foreign(c)
  BY <1>2, <1>3, ForeignStays
<1>5. /\ local'[c] = << >> /\ Len(local[c]) \in Nat
      /\ batch'[c] = [i \in 1..Len(local[c]) |-> [local[c][i] EXCEPT !.referID = Refer(c)]]
  BY <1>1, <1>2, LenProperties DEF TypeOK
<1>6. Len(batch'[c]) = Len(local[c])
  BY <1>5
<1>7. ASSUME NEW i \in 1..Len(local[c])
      PROVE  /\ batch'[c][i].range = local[c][i].range
             /\ batch'[c][i].operationID = local[c][i].operationID
             /\ batch'[c][i].referID = Refer(c)
  <2>1. local[c][i] \in Ops
    BY <1>2, ElementOfSeq
  <2> QED  BY <1>5, <2>1 DEF Ops, Operations
<1>8. \A i \in 1..Len(local[c]) :
        local[c][i].range.location <= local[c][i].operationID + Cardinality(Foreign(c))
  BY DEF FitInv, StacksFit, Reaches
<1>9. ASSUME NEW k \in Foreign(c)
      PROVE  log[k].order <= Refer(c)
  <2> DEFINE l == Len(global[c])
  <2>1. k \in 1..l
    BY DEF Foreign
  <2>2. global[c] # << >> /\ l \in 1..l
    BY <1>1, <2>1
  <2>3. Refer(c) = log[l].order
    BY <2>2 DEF Refer, FitInv, StacksFit
  <2>4. k \in 1..Len(log) /\ l \in 1..Len(log)
    BY <1>1, <2>1
  <2>5. CASE k < l
    BY <2>3, <2>4, <2>5 DEF FitInv, LogFits
  <2>6. CASE k = l
    <3>1. log[l] \in [op : Ops, order : Nat]
      BY <1>1, <2>4, ElementOfSeq DEF TypeOK
    <3>2. log[l].order \in Nat
      BY <3>1
    <3> QED  BY <2>3, <2>6, <3>2
  <2> QED  BY <1>1, <2>1, <2>5, <2>6
<1>10. \A i \in 1..Len(batch'[c]) :
         /\ batch'[c][i].range.location <= batch'[c][i].operationID + Cardinality(Foreign(c))
         /\ \A k \in Foreign(c) : log[k].order <= batch'[c][i].referID
  BY <1>6, <1>7, <1>8, <1>9
<1>11. StacksFit(c)'
  <2>1. \A i \in 1..Len(global[c]) : global[c][i].globalID = log[i].order
    BY DEF FitInv, StacksFit
  <2>2. Len(local'[c]) = 0
    BY <1>5
  <2>3. \A i \in 1..Len(local'[c]) : Reaches(local[c][i], c)'
    BY <2>2
  <2> QED  BY <1>2, <1>4, <1>5, <1>10, <2>1, <2>3 DEF StacksFit, Reaches
<1>12. QueueFits(c)'
  <2>1. uiQ'[c] = uiQ[c] /\ nextID'[c] = nextID[c]
    BY <1>2
  <2> QED  BY <1>2, <1>4, <2>1 DEF FitInv, QueueFits
<1>13. \A d \in Clients : d # c =>
         /\ global'[d] = global[d] /\ local'[d] = local[d] /\ batch'[d] = batch[d]
         /\ timer'[d] = timer[d] /\ uiQ'[d] = uiQ[d] /\ nextID'[d] = nextID[d]
         /\ alive'[d] => alive[d]
  BY <1>2
<1> QED
  BY <1>3, <1>11, <1>12, <1>13, FitKept

\* The order of a broadcast, behind all the orders so far.
LEMMA EventOrder ==
  ASSUME TypeOK, \A j, k \in 1..Len(log) : j < k => log[j].order <= log[k].order,
         NEW ops \in Seq(Ops), log' = log \o Event(ops)
  PROVE  /\ \A k \in 1..Len(log') : log'[k].order \in Nat
         /\ \A j, k \in 1..Len(log') : j < k => log'[j].order <= log'[k].order
<1> DEFINE event == Event(ops)
           m == Len(log)
           Entry == [op : Ops, order : Nat]
           next == IF log = << >> THEN 1 ELSE log[m].order + 1
<1>1. /\ log \in Logs /\ event \in Logs /\ log' \in Logs
      /\ m \in Nat /\ Len(ops) \in Nat /\ Len(event) = Len(ops)
  BY EventType
<1>2. \A i \in 1..Len(ops) : event[i].order = next
  BY <1>1 DEF Event
<1> HIDE DEF event, next
<1>3. log \in Seq(Entry) /\ event \in Seq(Entry) /\ log' \in Seq(Entry)
  BY <1>1 DEF Logs
<1>4. \A k \in 1..Len(log') : log'[k].order \in Nat
  <2> SUFFICES ASSUME NEW k \in 1..Len(log')  PROVE log'[k].order \in Nat
    OBVIOUS
  <2>1. log'[k] \in Entry
    BY <1>3, ElementOfSeq
  <2> QED  BY <2>1
<1> HIDE DEF Entry
<1>5. /\ Len(log') = m + Len(ops)
      /\ \A k \in 1..(m + Len(ops)) : log'[k] = IF k <= m THEN log[k] ELSE event[k - m]
  <2>1. /\ Len(log \o event) = Len(log) + Len(event)
        /\ \A k \in 1..(Len(log) + Len(event)) :
             (log \o event)[k] = IF k <= Len(log) THEN log[k] ELSE event[k - Len(log)]
    BY <1>3, ConcatProperties
  <2>2. log' = log \o event
    BY DEF event
  <2> QED  BY <1>1, <2>1, <2>2
<1>6. \A k \in 1..m : log[k].order <= next /\ log[k].order \in Nat
  <2> SUFFICES ASSUME NEW k \in 1..m  PROVE log[k].order <= next /\ log[k].order \in Nat
    OBVIOUS
  <2>1. log # << >> /\ m \in 1..m
    BY <1>1
  <2>2. next = log[m].order + 1
    BY <2>1 DEF next
  <2>3. log[m].order \in Nat /\ log[k].order \in Nat
    <3>1. log[m] \in Entry /\ log[k] \in Entry
      BY <1>3, <2>1, ElementOfSeq
    <3> QED  BY <3>1 DEF Entry
  <2>4. k = m \/ log[k].order <= log[m].order
    BY <1>1, <2>1
  <2> QED  BY <2>2, <2>3, <2>4
<1>7. \A k \in 1..Len(log') : k \in 1..m \/ (k > m /\ k - m \in 1..Len(ops))
  BY <1>1, <1>5
<1>8. \A k \in 1..Len(log') : IF k \in 1..m THEN log'[k] = log[k] ELSE log'[k].order = next
  BY <1>1, <1>2, <1>5, <1>7
<1>9. ASSUME NEW j \in 1..Len(log'), NEW k \in 1..Len(log'), j < k
      PROVE  log'[j].order <= log'[k].order
  <2>1. CASE k \in 1..m
    <3>1. j \in 1..m
      BY <1>1, <1>9, <2>1
    <3> QED  BY <1>8, <1>9, <2>1, <3>1
  <2>2. CASE k \notin 1..m /\ j \in 1..m
    BY <1>6, <1>8, <2>2
  <2>3. CASE k \notin 1..m /\ j \notin 1..m
    <3>1. log'[j].order = next /\ log'[k].order = next /\ log'[k].order \in Nat
      BY <1>4, <1>8, <2>3
    <3> QED  BY <3>1
  <2> QED  BY <2>1, <2>2, <2>3
<1> QED
  BY <1>4, <1>9

\* An operation that is broadcast reaches no further than what is in front of it in the
\* log of its author, and of what its author has placed.
LEMMA BroadcastReaches ==
  ASSUME FitInv, NEW c \in Clients, BroadcastLocal(c), NEW i \in 1..Len(batch[c]),
         NEW k, k = Len(log) + i
  PROVE  /\ k \in 1..Len(log') /\ log'[k].op = batch[c][i]
         /\ batch[c][i].range.location <= Cardinality(Accounted(k)')
<1> DEFINE m == Len(log)
           o == batch[c][i]
           n == o.operationID
           A == {j \in 1..(k - 1) : \/ log'[j].op.participantID = c
                                        \/ log'[j].order <= o.referID}
           S == {c} \X (0..(n - 1))
           h == [p \in S |-> CHOOSE j \in 1..(k - 1) : Identity(log'[j].op) = p]
           Own == {h[p] : p \in S}
           F == Foreign(c)
<1>1. /\ TypeOK /\ Len(global[c]) \in Nat /\ Len(log) \in Nat /\ Len(global[c]) <= Len(log)
      /\ IsFiniteSet(F) /\ Cardinality(F) \in Nat
  BY GlobalInLog DEF FitInv
<1>2. /\ alive[c] /\ timer[c] = "taken" /\ batch[c] \in Seq(Ops)
      /\ log' = log \o Event(batch[c])
  BY <1>1 DEF BroadcastLocal, TypeOK
<1>3. Marked(batch[c], c, LogStates)
  <2>1. Marked(batch[c], c, {"LOCAL"})
    BY DEF FitInv, SessionInv, Session, Signed
  <2> QED  BY <2>1 DEF Marked, LogStates
<1>4. /\ Len(log') = m + Len(batch[c]) /\ Len(batch[c]) \in Nat
      /\ \A j \in 1..m : log'[j] = log[j]
      /\ \A j \in 1..Len(batch[c]) : log'[m + j].op = batch[c][j]
  BY <1>1, <1>2, <1>3, EventGrows
<1>5. /\ o \in Ops /\ n \in Nat /\ o.range.location \in Nat /\ o.participantID = c
      /\ i \in Nat /\ i >= 1
  <2>1. o \in Ops
    BY <1>2, ElementOfSeq
  <2> QED  BY <1>3, <1>4, <2>1, SMTT(30) DEF Ops, Operations, Ranges, Marked
<1>6. /\ local[c] = << >> /\ o.range.location <= n + Cardinality(F)
      /\ \A j \in F : log[j].order <= o.referID
  BY <1>2 DEF FitInv, StacksFit, Reaches
<1>7. /\ undo[c] = << >> /\ redo[c] = << >> /\ Taken(c) = batch[c] /\ QueueIds(stackQ[c]) = {}
  <2>1. stackQ[c] \in Seq(KeyBlocks) /\ EventsEmpty(stackQ[c])
        /\ \A j \in 1..Len(stackQ[c]) : stackQ[c][j].kind # "local"
    BY DEF FitInv, InsertInv, LedgerInv, OnlyInsertions, SortedInv, NoReturn
  <2>2. ASSUME NEW j \in 1..Len(stackQ[c])  PROVE Ids(stackQ[c][j].ops) = {}
    <3>1. stackQ[c][j] \in KeyBlocks
      BY <2>1, ElementOfSeq
    <3>2. stackQ[c][j].ops = << >>
      BY <2>1, <3>1 DEF KeyBlocks, EventsEmpty
    <3> QED  BY <3>2, IdsOfEmpty
  <2>3. QueueIds(stackQ[c]) = {}
    BY <2>2 DEF QueueIds
  <2> QED  BY <1>2, <2>3 DEF FitInv, InsertInv, OnlyInsertions, Taken
<1>8. Given(c) = Ids(batch[c]) \cup InLog(c)
  <2>1. Ledger(c)
    BY <1>2 DEF FitInv, InsertInv, LedgerInv
  <2> QED  BY <1>6, <1>7, <2>1, IdsOfEmpty DEF Ledger, Dealt
<1>9. ASSUME NEW p \in S
      PROVE  \E j \in 1..(k - 1) : Identity(log'[j].op) = p
  <2>1. p \in Given(c) /\ p[2] < n /\ p[1] = c /\ p[2] \in Nat
    <3>1. Identity(o) \in Given(c)
      BY <1>8 DEF Ids
    <3>2. n \in 0..(nextID[c] - 1)
      BY <3>1 DEF Given, Identity
    <3>3. nextID[c] \in Nat
      BY <1>1 DEF TypeOK
    <3>4. 0..(n - 1) \subseteq 0..(nextID[c] - 1)
      BY <1>5, <3>2, <3>3
    <3> QED  BY <1>5, <3>4 DEF Given
  <2>2. CASE p \in InLog(c)
    <3>1. PICK j \in 1..m : Identity(log[j].op) = p
      BY <2>2 DEF InLog, LogIds
    <3>2. j \in 1..(k - 1) /\ log'[j] = log[j]
      BY <1>1, <1>4, <1>5
    <3> QED  BY <3>1, <3>2
  <2>3. CASE p \in Ids(batch[c])
    <3>1. PICK j \in 1..Len(batch[c]) : Identity(batch[c][j]) = p
      BY <2>3 DEF Ids
    <3>2. batch[c][j].operationID < n
      BY <2>1, <3>1 DEF Identity
    <3>3. j < i
      <4>1. Ascending(batch[c])
        BY DEF FitInv, SortedInv
      <4>2. batch[c][j].operationID \in Nat
        <5>1. batch[c][j] \in Ops
          BY <1>2, ElementOfSeq
        <5> QED  BY <5>1 DEF Ops, Operations
      <4>3. ~(i < j) /\ i # j
        BY <1>5, <3>2, <4>1, <4>2 DEF Ascending
      <4> QED  BY <1>4, <1>5, <4>3
    <3>4. m + j \in 1..(k - 1)
      BY <1>1, <1>4, <1>5, <3>3
    <3>5. Identity(log'[m + j].op) = p
      BY <1>4, <3>1
    <3> QED  BY <3>4, <3>5
  <2> QED  BY <1>8, <2>1, <2>2, <2>3
<1>10. \A p \in S : h[p] \in 1..(k - 1) /\ Identity(log'[h[p]].op) = p
  BY <1>9
<1>11. IsFiniteSet(S) /\ Cardinality(S) = n
  BY <1>5, GivenCounted
<1>12. \A p \in S : p[1] = c
  OBVIOUS
<1> HIDE DEF h, S
<1>13. \A p, q \in S : h[p] = h[q] => p = q
  BY <1>10
<1>14. IsFiniteSet(Own) /\ Cardinality(Own) = n
  <2>1. IsFiniteSet({h[p] : p \in S}) /\ Cardinality({h[p] : p \in S}) = Cardinality(S)
    BY <1>11, <1>13, ImageSize
  <2> QED  BY <1>11, <2>1
<1>15. Own \subseteq A /\ \A j \in Own : log'[j].op.participantID = c
  <2>1. \A p \in S : log'[h[p]].op.participantID = c
    BY <1>10, <1>12 DEF Identity
  <2> QED  BY <1>10, <2>1
<1>16. F \subseteq A /\ \A j \in F : log'[j].op.participantID # c
  <2> SUFFICES ASSUME NEW j \in F  PROVE j \in A /\ log'[j].op.participantID # c
    OBVIOUS
  <2>1. j \in 1..Len(global[c]) /\ log[j].op.participantID # c
    BY DEF Foreign
  <2>2. j \in 1..m /\ j \in 1..(k - 1)
    BY <1>1, <1>5, <2>1
  <2> QED  BY <1>4, <1>6, <2>1, <2>2
<1>17. A = Accounted(k)'
  <2>1. log'[k].op = o
    BY <1>4
  <2>2. Accounted(k)' = {j \in 1..(k - 1) :
           \/ log'[j].op.participantID = log'[k].op.participantID
           \/ log'[j].order <= log'[k].op.referID}
    BY DEF Accounted
  <2> QED  BY <1>5, <2>1, <2>2
<1>18. k \in 1..Len(log')
  BY <1>1, <1>4, <1>5
<1>19. IsFiniteSet(A)
  <2>1. k - 1 \in Nat
    BY <1>1, <1>5
  <2>2. IsFiniteSet(1..(k - 1))
    BY <2>1, UptoCounted
  <2>3. A \in SUBSET (1..(k - 1))
    OBVIOUS
  <2> HIDE DEF A
  <2> QED  BY <2>2, <2>3, FS_Subset
<1>20. Cardinality(Own \cup F) = n + Cardinality(F)
  <2>1. Own \cap F = {}
    BY <1>15, <1>16
  <2> QED  BY <1>1, <1>14, <2>1, DisjointSize
<1>21. Cardinality(Own \cup F) <= Cardinality(A)
  <2>1. Own \cup F \in SUBSET A
    BY <1>15, <1>16
  <2> QED  BY <1>19, <2>1, FS_Subset
<1>22. Cardinality(A) \in Nat
  BY <1>19, FS_CardinalityType
<1>23. o.range.location <= Cardinality(A)
  BY <1>1, <1>5, <1>6, <1>20, <1>21, <1>22
<1> QED
  BY <1>4, <1>17, <1>18, <1>23

LEMMA BroadcastFits ==
  ASSUME FitInv, InsertInv', SortedInv', SessionInv', NEW c \in Clients, BroadcastLocal(c)
  PROVE  FitInv'
<1> DEFINE m == Len(log)
<1>1. /\ TypeOK /\ m \in Nat
  BY GlobalInLog DEF FitInv
<1>2. /\ alive[c] /\ timer[c] = "taken" /\ batch[c] \in Seq(Ops)
      /\ log' = log \o Event(batch[c])
      /\ timer' = [timer EXCEPT ![c] = "sent"]
      /\ UNCHANGED <<global, local, batch, uiQ, nextID, alive>>
  BY <1>1 DEF BroadcastLocal, TypeOK, stacks
<1>3. /\ Len(log') = m + Len(batch[c]) /\ Len(batch[c]) \in Nat
      /\ \A k \in 1..m : log'[k] = log[k]
  <2>1. Marked(batch[c], c, LogStates)
    <3>1. Marked(batch[c], c, {"LOCAL"})
      BY DEF FitInv, SessionInv, Session, Signed
    <3> QED  BY <3>1 DEF Marked, LogStates
  <2> QED  BY <1>1, <1>2, <2>1, EventGrows
<1>4. LogKept
  BY <1>3 DEF LogKept
<1>5. \A j, k \in 1..Len(log') : j < k => log'[j].order <= log'[k].order
  BY <1>1, <1>2, EventOrder DEF FitInv, LogFits
<1>6. ASSUME NEW k \in 1..Len(log')
      PROVE  log'[k].op.range.location <= Cardinality(Accounted(k)')
  <2>1. CASE k \in 1..m
    <3>1. \A j \in 1..(k - 1) : j \in 1..m
      BY <1>1, <2>1
    <3>2. \A j \in 1..(k - 1) : log'[j] = log[j]
      BY <1>3, <3>1
    <3>3. log'[k] = log[k]
      BY <1>3, <2>1
    <3>4. Accounted(k)' = Accounted(k)
      BY <3>2, <3>3 DEF Accounted
    <3> QED  BY <2>1, <3>3, <3>4 DEF FitInv, LogFits
  <2>2. CASE k \notin 1..m
    <3>1. k - m \in 1..Len(batch[c]) /\ m + (k - m) = k
      BY <1>1, <1>3, <2>2
    <3>2. PICK i \in 1..Len(batch[c]) : m + i = k
      BY <3>1
    <3>3. /\ log'[k].op = batch[c][i]
          /\ batch[c][i].range.location <= Cardinality(Accounted(k)')
      BY <3>2, BroadcastReaches
    <3> QED  BY <3>3
  <2> QED  BY <2>1, <2>2
<1>7. LogFits'
  BY <1>5, <1>6 DEF LogFits
<1>8. Foreign(c)' = Foreign(c)
  BY <1>2, <1>4, ForeignStays
<1>9. timer'[c] = "sent"
  BY <1>1, <1>2 DEF TypeOK
<1>10. \A i \in 1..Len(global[c]) : log'[i] = log[i]
  <2>1. Len(global[c]) \in Nat /\ Len(global[c]) <= Len(log)
    BY GlobalInLog DEF FitInv
  <2> QED  BY <1>3, <2>1
<1>11. StacksFit(c)'
  <2>1. /\ \A i \in 1..Len(global[c]) : global[c][i].globalID = log[i].order
        /\ \A i \in 1..Len(local[c]) : Reaches(local[c][i], c)
    BY DEF FitInv, StacksFit
  <2> QED  BY <1>2, <1>8, <1>9, <1>10, <2>1 DEF StacksFit, Reaches
<1>12. QueueFits(c)'
  <2>1. uiQ'[c] = uiQ[c] /\ nextID'[c] = nextID[c]
    BY <1>2
  <2> QED  BY <1>2, <1>8, <2>1 DEF FitInv, QueueFits
<1>13. \A d \in Clients : d # c =>
         /\ global'[d] = global[d] /\ local'[d] = local[d] /\ batch'[d] = batch[d]
         /\ timer'[d] = timer[d] /\ uiQ'[d] = uiQ[d] /\ nextID'[d] = nextID[d]
         /\ alive'[d] => alive[d]
  BY <1>2
<1> QED
  BY <1>4, <1>7, <1>11, <1>12, <1>13, FitKept

\* What addNewChangeSet's block reads: the operation behind the global stack.
LEMMA EntryRead ==
  ASSUME SessionInv, InsertInv, "split" \notin Freedoms, NEW c \in Clients, AddNewOperation(c),
         NEW at, at = Head(stackQ[c]).at,
         NEW op, op = Delivered(log[at])
  PROVE  /\ timer[c] = "idle" /\ alive[c] /\ ParticipantID(c) = c
         /\ Len(global[c]) \in Nat /\ at = Len(global[c]) + 1 /\ at \in 1..Len(log)
         /\ op \in Ops /\ op.state = "GLOBAL" /\ op.globalID = log[at].order
         /\ op.participantID = log[at].op.participantID
         /\ op.referID = log[at].op.referID /\ op.range = log[at].op.range
<1>1. TypeOK
  BY GlobalInLog
<1>2. /\ timer[c] = "idle" /\ Len(global[c]) \in Nat /\ Len(log) \in Nat
      /\ received[c] \in Nat /\ Len(global[c]) + 1 <= received[c] /\ received[c] <= Len(log)
      /\ at = Len(global[c]) + 1
  BY <1>1, ServedNext
<1>3. at \in 1..Len(log) /\ received[c] # 0
  BY <1>2
<1>4. ParticipantID(c) = c
  BY <1>1, <1>3 DEF SessionInv, Session, Signed, ParticipantID
<1>5. log[at] \in [op : Keystrokes, order : Nat]
  BY <1>3, ElementOfSeq DEF InsertInv, OnlyInsertions
<1>6. op \in Insertions /\ op.state = "GLOBAL"
  BY <1>5, InsertionDelivered
<1>7. /\ op.globalID = log[at].order /\ op.participantID = log[at].op.participantID
      /\ op.referID = log[at].op.referID /\ op.range = log[at].op.range
  <2>1. log[at].op \in Ops
    BY <1>5 DEF Keystrokes
  <2> QED  BY <2>1 DEF Delivered, Ops, Operations
<1> QED
  BY <1>2, <1>3, <1>4, <1>6, <1>7 DEF Insertions, AddNewOperation

\* A confirmation leaves what waits where it is.
LEMMA ConfirmationFits ==
  ASSUME FitInv, InsertInv', SortedInv', SessionInv', "split" \notin Freedoms,
         NEW c \in Clients, AddNewOperation(c),
         Mine(c, Delivered(log[Head(stackQ[c]).at])),
         UpdateOperationFromSendToGlobal(c, Delivered(log[Head(stackQ[c]).at]))
  PROVE  FitInv'
<1> DEFINE at == Head(stackQ[c]).at
           op == Delivered(log[at])
           Awaits(waiting) == waiting.operationID = op.operationID /\ waiting.state = "SEND"
           I == {k \in 1..Len(send[c]) : Awaits(send[c][k])}
           i == IF I # {} THEN Min(I) ELSE 0
           confirmed == [send[c][i] EXCEPT !.globalID = op.globalID, !.state = op.state]
           l == Len(global[c])
<1>1. /\ timer[c] = "idle" /\ alive[c] /\ ParticipantID(c) = c
      /\ l \in Nat /\ at = l + 1 /\ at \in 1..Len(log)
      /\ op \in Ops /\ op.state = "GLOBAL" /\ op.globalID = log[at].order
      /\ op.participantID = log[at].op.participantID
  BY EntryRead DEF FitInv
<1>2. /\ TypeOK /\ Len(log) \in Nat /\ l <= Len(log)
      /\ global[c] \in Seq(Ops) /\ send[c] \in Seq(Ops)
  BY GlobalInLog DEF FitInv, TypeOK
<1>3. Serves(c) /\ UNCHANGED local
  BY ConfirmationIsFirst DEF FitInv
<1>4. /\ UNCHANGED <<log, timer, batch, nextID, alive, uiQ>>
      /\ IF i = 0
           THEN UNCHANGED <<global, send>>
           ELSE global' = [global EXCEPT ![c] = Append(global[c], confirmed)]
  BY DEF AddNewOperation, UpdateOperationFromSendToGlobal, SelectInSeq
<1>5. I \in SUBSET (1..Len(send[c])) /\ I \in SUBSET Nat
  OBVIOUS
<1> HIDE DEF I
<1>6. i = 0 \/ i \in 1..Len(send[c])
  BY <1>5, MinIsMember
<1> HIDE DEF i, op, at
<1>7. PICK moved : global'[c] = Append(global[c], moved)
  BY <1>3 DEF Serves
<1>8. /\ Len(global'[c]) = l + 1 /\ \A j \in 1..l : global'[c][j] = global[c][j]
      /\ global'[c][l + 1] = moved
  BY <1>2, <1>7, Appended
<1>9. i # 0
  <2>1. CASE i = 0
    <3>1. global'[c] = global[c]
      BY <1>4, <2>1
    <3> QED  BY <1>1, <1>8, <3>1
  <2> QED  BY <2>1
<1>10. moved.globalID = log[at].order
  <2>1. send[c][i] \in Ops
    BY <1>2, <1>6, <1>9, ElementOfSeq
  <2>2. confirmed.globalID = op.globalID
    BY <2>1 DEF Ops, Operations
  <2> HIDE DEF confirmed
  <2>3. global'[c] = Append(global[c], confirmed)
    BY <1>2, <1>4, <1>9 DEF TypeOK
  <2>4. global'[c][l + 1] = confirmed
    BY <1>2, <2>3, Appended
  <2> QED  BY <1>1, <1>8, <2>2, <2>4
<1>11. LogKept /\ LogFits'
  BY <1>4, LogFitsStays DEF FitInv, LogKept
<1>12. Foreign(c)' = Foreign(c)
  <2>1. log[l + 1].op.participantID = c
    BY <1>1 DEF Mine, op, at
  <2>2. \A k \in 1..(l + 1) : k \in 1..l \/ k = l + 1
    BY <1>1
  <2>3. Foreign(c)' = {k \in 1..(l + 1) : log[k].op.participantID # c}
    BY <1>4, <1>8 DEF Foreign
  <2>4. \A k \in 1..l : k \in 1..(l + 1)
    BY <1>1
  <2> QED  BY <2>1, <2>2, <2>3, <2>4 DEF Foreign
<1>13. StacksFit(c)'
  <2>1. \A j \in 1..Len(global[c]) : global[c][j].globalID = log[j].order
    BY DEF FitInv, StacksFit
  <2>2. \A j \in 1..(l + 1) : j \in 1..l \/ j = at
    BY <1>1
  <2>3. \A j \in 1..Len(global'[c]) : global'[c][j].globalID = log[j].order
    BY <1>1, <1>8, <1>10, <2>1, <2>2
  <2>4. \A j \in 1..Len(local[c]) : Reaches(local[c][j], c)
    BY DEF FitInv, StacksFit
  <2> HIDE DEF l
  <2> QED  BY <1>1, <1>3, <1>4, <1>12, <2>3, <2>4 DEF StacksFit, Reaches
<1>14. QueueFits(c)'
  BY <1>1, <1>4, <1>12 DEF FitInv, QueueFits
<1>15. \A d \in Clients : d # c =>
         /\ global'[d] = global[d] /\ local'[d] = local[d] /\ batch'[d] = batch[d]
         /\ timer'[d] = timer[d] /\ uiQ'[d] = uiQ[d] /\ nextID'[d] = nextID[d]
         /\ alive'[d] => alive[d]
  BY <1>3, <1>4 DEF Serves
<1> QED
  BY <1>11, <1>13, <1>14, <1>15, FitKept

\* A foreign operation is placed inside the text, and moves what waits by one at most.
LEMMA ForeignFits ==
  ASSUME FitInv, InsertInv', SortedInv', SessionInv', "split" \notin Freedoms,
         NEW c \in Clients, AddNewOperation(c),
         ~Mine(c, Delivered(log[Head(stackQ[c]).at])),
         AddNewGlobalOperation(c, Delivered(log[Head(stackQ[c]).at]))
  PROVE  FitInv'
<1> DEFINE at == Head(stackQ[c]).at
           op == Delivered(log[at])
           placed == [op EXCEPT !.range = RangeOnGlobal(global[c], op)]
           range == RangeOnScreen(placed.range, op.participantID, send[c] \o local[c])
           shown == [placed EXCEPT !.range = range]
           l == Len(global[c])
           F == Foreign(c)
<1>1. /\ timer[c] = "idle" /\ alive[c] /\ ParticipantID(c) = c
      /\ l \in Nat /\ at = l + 1 /\ at \in 1..Len(log)
      /\ op \in Ops /\ op.state = "GLOBAL" /\ op.globalID = log[at].order
      /\ op.participantID = log[at].op.participantID
      /\ op.referID = log[at].op.referID /\ op.range = log[at].op.range
  BY EntryRead DEF FitInv
<1>2. /\ TypeOK /\ Len(log) \in Nat /\ l <= Len(log)
      /\ global[c] \in Seq(Ops) /\ send[c] \in Seq(Ops) /\ local[c] \in Seq(Ops)
      /\ uiQ[c] \in Seq(Ops) /\ nextID[c] \in Nat
      /\ IsFiniteSet(F) /\ Cardinality(F) \in Nat
  BY GlobalInLog DEF FitInv, TypeOK
<1>3. /\ global' = [global EXCEPT ![c] = Append(global[c], placed)]
      /\ local'  = [local EXCEPT ![c] = UpdateStackWithOperation(local[c], shown)]
      /\ uiQ'    = [uiQ EXCEPT ![c] = Append(uiQ[c], shown)]
      /\ UNCHANGED <<log, timer, batch, nextID, alive>>
  BY DEF AddNewOperation, AddNewGlobalOperation
<1>4. op.participantID # c
  BY <1>1 DEF Mine
<1> HIDE DEF op, at
<1>5. RangeOnGlobal(global[c], op) \in Ranges
  BY <1>1, <1>2, RangeOnGlobalIsRange DEF Ops
<1>6. /\ placed \in Ops /\ placed.range = RangeOnGlobal(global[c], op)
      /\ placed.globalID = log[at].order
  <2>1. placed \in Ops
    BY <1>1, <1>5, OperationsAreWellFormed DEF Ops
  <2> QED  BY <1>1, <2>1 DEF Ops, Operations
<1>7. placed.range.location <= l /\ placed.range.location \in Nat
  <2> DEFINE M == Movers(global[c], op)
             reached == RangeOnGlobal(global[c], op).location
  <2>1. l = Len(global[c])
    OBVIOUS
  <2> HIDE DEF l
  <2>2. op.range.location + Cardinality(M) <= l
    BY <1>1, <2>1, MoversUnaccounted
  <2>3. reached <= op.range.location + Cardinality(M)
    BY <1>1, <1>2, GlobalGrows DEF Ops
  <2>4. reached \in Nat /\ op.range.location \in Nat
    BY <1>1, <1>5 DEF Ranges, Ops, Operations
  <2>5. IsFiniteSet(M) /\ Cardinality(M) \in Nat
    <3>1. M \in SUBSET (1..l)
      BY <2>1 DEF Movers
    <3>2. IsFiniteSet(1..l)
      BY <1>1, UptoCounted
    <3> HIDE DEF M
    <3> QED  BY <3>1, <3>2, FS_Subset, FS_CardinalityType
  <2> HIDE DEF M, reached
  <2>6. reached <= l
    BY <1>1, <2>2, <2>3, <2>4, <2>5
  <2> QED  BY <1>6, <2>4, <2>6 DEF reached
<1> HIDE DEF placed
<1>8. /\ range \in Ranges
      /\ range.location <= placed.range.location + Len(send[c] \o local[c])
      /\ Len(send[c] \o local[c]) = Len(send[c]) + Len(local[c])
      /\ Len(send[c]) \in Nat /\ Len(local[c]) \in Nat
  <2> DEFINE waiting == send[c] \o local[c]
  <2>1. waiting \in Seq(Ops) /\ Len(waiting) = Len(send[c]) + Len(local[c])
    BY <1>2, ConcatProperties
  <2>2. placed.range \in Ranges
    BY <1>6 DEF Ops, Operations
  <2> HIDE DEF waiting
  <2>3. /\ RangeOnScreen(placed.range, op.participantID, waiting) \in Ranges
        /\ RangeOnScreen(placed.range, op.participantID, waiting).location
             <= placed.range.location + Len(waiting)
    BY <2>1, <2>2, ScreenGrows, RangeOnScreenIsRange DEF Ops
  <2> QED  BY <1>2, <2>1, <2>3, LenProperties DEF waiting
<1> HIDE DEF range
<1>9. shown \in Ops /\ shown.range = range
  <2>1. shown \in Ops
    BY <1>6, <1>8, OperationsAreWellFormed DEF Ops
  <2> QED  BY <1>6, <2>1 DEF Ops, Operations
<1> HIDE DEF shown
<1>10. range.location <= nextID[c] + Cardinality(F)
  <2> DEFINE n == nextID[c]
             f == Cardinality(F)
             s == Len(send[c])
             o == Len(local[c])
             location == range.location
             reached == placed.range.location
  <2>1. l + s + o <= n + f
    BY <1>1, RoomForAll DEF l
  <2>2. /\ location <= reached + (s + o) /\ reached <= l /\ reached \in Nat /\ location \in Nat
        /\ s \in Nat /\ o \in Nat /\ n \in Nat /\ f \in Nat /\ l \in Nat
    BY <1>1, <1>2, <1>7, <1>8 DEF Ranges
  <2> HIDE DEF n, f, s, o, location, reached, l
  <2>3. location <= n + f
    BY <2>1, <2>2
  <2> QED  BY <2>3 DEF location, n, f
<1>11. LogKept /\ LogFits'
  BY <1>3, LogFitsStays DEF FitInv, LogKept
<1>12. /\ global'[c] = Append(global[c], placed) /\ uiQ'[c] = Append(uiQ[c], shown)
       /\ local'[c] = UpdateStackWithOperation(local[c], shown)
       /\ timer'[c] = "idle" /\ nextID'[c] = nextID[c]
  BY <1>1, <1>2, <1>3 DEF TypeOK
<1>13. /\ Len(global'[c]) = l + 1 /\ \A j \in 1..l : global'[c][j] = global[c][j]
       /\ global'[c][l + 1] = placed
  BY <1>2, <1>12, Appended
<1>14. /\ Foreign(c)' = F \cup {l + 1} /\ l + 1 \notin F
       /\ Cardinality(Foreign(c)') = Cardinality(F) + 1
  <2>1. log[l + 1].op.participantID # c
    BY <1>1, <1>4
  <2>2. 1..(l + 1) = 1..l \cup {l + 1} /\ l + 1 \notin 1..l
    BY <1>1
  <2>3. Foreign(c)' = {k \in 1..(l + 1) : log[k].op.participantID # c}
    BY <1>3, <1>13 DEF Foreign
  <2>4. Foreign(c)' = F \cup {l + 1} /\ l + 1 \notin F
    BY <2>1, <2>2, <2>3 DEF Foreign
  <2> HIDE DEF F
  <2>5. Cardinality(F \cup {l + 1}) = Cardinality(F) + 1
    BY <1>2, <2>4, FS_AddElement
  <2> QED  BY <2>4, <2>5
<1> HIDE DEF F
<1>15. ASSUME NEW i \in 1..Len(local'[c])
       PROVE  local'[c][i].range.location
                <= local'[c][i].operationID + (Cardinality(F) + 1)
  <2>1. Len(local'[c]) = Len(local[c])
    BY <1>2, <1>9, <1>12, UpdatedStackIsStack DEF Ops
  <2>2. i \in 1..Len(local[c]) /\ DOMAIN local[c] = 1..Len(local[c])
    BY <1>2, <2>1, LenProperties
  <2>3. local[c][i] \in Ops
    BY <1>2, <2>2, ElementOfSeq
  <2> DEFINE old == local[c][i]
             r == UpdateRange(old.range, shown, old.participantID)
  <2>4. local'[c][i] = [old EXCEPT !.range = r]
    BY <1>12, <2>2 DEF UpdateStackWithOperation
  <2>5. old.range \in Ranges /\ old.operationID \in Nat
    BY <2>3 DEF Ops, Operations
  <2>6. r \in Ranges /\ r.location <= old.range.location + 1
    BY <1>9, <2>5, RangeGrows, UpdatedRangeIsRange, OperationsAreWellFormed DEF Ops
  <2> HIDE DEF r
  <2>7. local'[c][i].range = r /\ local'[c][i].operationID = old.operationID
    BY <2>3, <2>4 DEF Ops, Operations
  <2>8. old.range.location <= old.operationID + Cardinality(F)
    BY <2>2 DEF FitInv, StacksFit, Reaches, F
  <2> DEFINE location == old.range.location
             n == old.operationID
             f == Cardinality(F)
  <2>9. location \in Nat /\ n \in Nat /\ f \in Nat /\ r.location \in Nat
    BY <1>2, <2>5, <2>6 DEF Ranges
  <2> HIDE DEF location, n, f
  <2>10. r.location <= location + 1 /\ location <= n + f
    BY <2>6, <2>8 DEF location, n, f
  <2>11. r.location <= n + (f + 1)
    BY <2>9, <2>10
  <2> QED  BY <2>7, <2>11 DEF n, f
<1>16. StacksFit(c)'
  <2>1. \A j \in 1..Len(global[c]) : global[c][j].globalID = log[j].order
    BY DEF FitInv, StacksFit
  <2>2. \A j \in 1..(l + 1) : j \in 1..l \/ j = at
    BY <1>1
  <2>3. \A j \in 1..Len(global'[c]) : global'[c][j].globalID = log[j].order
    BY <1>1, <1>6, <1>13, <2>1, <2>2
  <2> HIDE DEF l
  <2> QED  BY <1>3, <1>12, <1>14, <1>15, <2>3 DEF StacksFit, Reaches
<1>17. QueueFits(c)'
  <2> DEFINE q == Len(uiQ[c])
             n == nextID[c]
             f == Cardinality(F)
  <2>1. /\ Len(uiQ'[c]) = q + 1 /\ q \in Nat
        /\ \A i \in 1..q : uiQ'[c][i] = uiQ[c][i]
        /\ uiQ'[c][q + 1] = shown
    BY <1>2, <1>12, Appended
  <2>2. \A i \in 1..q : uiQ[c][i].range.location + q - i + 1 <= n + f
    BY <1>1 DEF FitInv, QueueFits, F
  <2>3. \A i \in 1..q : uiQ[c][i].range.location \in Nat
    <3> SUFFICES ASSUME NEW i \in 1..q  PROVE uiQ[c][i].range.location \in Nat
      OBVIOUS
    <3>1. uiQ[c][i] \in Ops
      BY <1>2, ElementOfSeq
    <3> QED  BY <3>1 DEF Ops, Operations, Ranges
  <2>4. n \in Nat /\ f \in Nat /\ range.location \in Nat /\ range.location <= n + f
    BY <1>2, <1>8, <1>10 DEF Ranges
  <2> HIDE DEF q, n, f
  <2>5. ASSUME NEW i \in 1..(q + 1)
        PROVE  uiQ'[c][i].range.location + (q + 1) - i + 1 <= n + (f + 1)
    <3>1. CASE i \in 1..q
      <4> DEFINE location == uiQ[c][i].range.location
      <4>1. location \in Nat /\ location + q - i + 1 <= n + f
        BY <2>2, <2>3, <3>1
      <4> HIDE DEF location
      <4>2. location + (q + 1) - i + 1 <= n + (f + 1)
        BY <2>1, <2>4, <3>1, <4>1
      <4> QED  BY <2>1, <3>1, <4>2 DEF location
    <3>2. CASE i = q + 1
      <4>1. uiQ'[c][i].range.location = range.location
        BY <1>9, <2>1, <3>2
      <4>2. range.location + (q + 1) - (q + 1) + 1 <= n + (f + 1)
        BY <2>1, <2>4
      <4> QED  BY <3>2, <4>1, <4>2
    <3> QED  BY <2>1, <3>1, <3>2
  <2>6. \A i \in 1..Len(uiQ'[c]) :
          uiQ'[c][i].range.location + Len(uiQ'[c]) - i + 1
            <= nextID'[c] + Cardinality(Foreign(c)')
    BY <1>12, <1>14, <2>1, <2>5 DEF n, f
  <2> QED  BY <2>6 DEF QueueFits
<1>18. \A d \in Clients : d # c =>
         /\ global'[d] = global[d] /\ local'[d] = local[d] /\ batch'[d] = batch[d]
         /\ timer'[d] = timer[d] /\ uiQ'[d] = uiQ[d] /\ nextID'[d] = nextID[d]
         /\ alive'[d] => alive[d]
  BY <1>3
<1> QED
  BY <1>11, <1>16, <1>17, <1>18, FitKept

\* The block that is served is that of an event: no change set of keystrokes comes back.
LEMMA StackQueueFits ==
  ASSUME FitInv, InsertInv', SortedInv', SessionInv', "split" \notin Freedoms,
         NEW c \in Clients, StackQueue(c)
  PROVE  FitInv'
<1>1. CASE AddNewOperation(c)
  <2>1. \/ /\ Mine(c, Delivered(log[Head(stackQ[c]).at]))
           /\ UpdateOperationFromSendToGlobal(c, Delivered(log[Head(stackQ[c]).at]))
        \/ /\ ~Mine(c, Delivered(log[Head(stackQ[c]).at]))
           /\ AddNewGlobalOperation(c, Delivered(log[Head(stackQ[c]).at]))
    BY <1>1 DEF AddNewOperation
  <2> QED  BY <1>1, <2>1, ConfirmationFits, ForeignFits
<1>2. CASE AddBack(c)
  <2>1. stackQ[c] \in Seq(KeyBlocks) /\ stackQ[c] # << >>
        /\ \A j \in 1..Len(stackQ[c]) : stackQ[c][j].kind # "local"
    BY <1>2 DEF FitInv, InsertInv, OnlyInsertions, SortedInv, NoReturn, AddBack
  <2>2. /\ Head(stackQ[c]) = stackQ[c][1] /\ 1 \in 1..Len(stackQ[c])
        /\ Head(stackQ[c]) \in KeyBlocks
    BY <2>1, HeadTailProperties, EmptySeq, LenProperties
  <2>3. Head(stackQ[c]).kind = "new"
    BY <2>1, <2>2 DEF KeyBlocks
  <2> QED  BY <1>2, <2>3 DEF AddBack
<1> QED
  BY <1>1, <1>2 DEF StackQueue

\* Showing an operation brings each that waits behind it one closer to its turn.
LEMMA UpdateInputViewFits ==
  ASSUME FitInv, InsertInv', SortedInv', SessionInv', NEW c \in Clients, UpdateInputView(c)
  PROVE  FitInv'
<1>1. /\ TypeOK /\ alive[c] /\ uiQ[c] # << >> /\ uiQ[c] \in Seq(Ops)
      /\ uiQ' = [uiQ EXCEPT ![c] = Tail(uiQ[c])]
      /\ UNCHANGED <<log, global, local, batch, timer, nextID>>
      /\ \A d \in Clients : d # c => (alive'[d] => alive[d])
  <2>1. TypeOK
    BY GlobalInLog DEF FitInv
  <2> QED  BY <2>1 DEF TypeOK, UpdateInputView, MainFree, stacks
<1>2. LogKept /\ LogFits'
  BY <1>1, LogFitsStays DEF FitInv, LogKept
<1>3. Foreign(c)' = Foreign(c)
  BY <1>1, <1>2, ForeignStays
<1>4. StacksFit(c)'
  <2>1. StacksFit(c)
    BY DEF FitInv
  <2> QED  BY <1>1, <1>3, <2>1 DEF StacksFit, Reaches
<1>5. QueueFits(c)'
  <2> DEFINE q == Len(uiQ[c])
             rest == Tail(uiQ[c])
             n == nextID[c] + Cardinality(Foreign(c))
  <2>1. /\ q \in Nat /\ q # 0 /\ Len(rest) = q - 1
        /\ \A i \in 1..Len(rest) : rest[i] = uiQ[c][i + 1]
    BY <1>1, LenProperties, HeadTailProperties, EmptySeq
  <2>2. \A i \in 1..q : uiQ[c][i].range.location + q - i + 1 <= n
    BY <1>1 DEF FitInv, QueueFits
  <2>3. \A i \in 1..q : uiQ[c][i].range.location \in Nat
    <3> SUFFICES ASSUME NEW i \in 1..q  PROVE uiQ[c][i].range.location \in Nat
      OBVIOUS
    <3>1. uiQ[c][i] \in Ops
      BY <1>1, ElementOfSeq
    <3> QED  BY <3>1 DEF Ops, Operations, Ranges
  <2> HIDE DEF q, rest, n
  <2>4. ASSUME NEW i \in 1..Len(rest)
        PROVE  rest[i].range.location + Len(rest) - i + 1 <= n
    <3> DEFINE location == uiQ[c][i + 1].range.location
    <3>1. i + 1 \in 1..q
      BY <2>1
    <3>2. location \in Nat /\ location + q - (i + 1) + 1 <= n
      BY <2>2, <2>3, <3>1
    <3>3. rest[i].range.location = location
      BY <2>1
    <3> HIDE DEF location
    <3>4. location + Len(rest) - i + 1 = location + q - (i + 1) + 1
      BY <2>1, <3>2
    <3> QED  BY <3>2, <3>3, <3>4
  <2>5. uiQ'[c] = rest /\ nextID'[c] = nextID[c]
    BY <1>1 DEF rest, TypeOK
  <2> QED  BY <1>3, <2>4, <2>5 DEF QueueFits, n
<1>6. \A d \in Clients : d # c =>
         /\ global'[d] = global[d] /\ local'[d] = local[d] /\ batch'[d] = batch[d]
         /\ timer'[d] = timer[d] /\ uiQ'[d] = uiQ[d] /\ nextID'[d] = nextID[d]
         /\ alive'[d] => alive[d]
  BY <1>1
<1> QED
  BY <1>2, <1>4, <1>5, <1>6, FitKept

\* A step that neither sends, places nor shows anything.
LEMMA FitAside ==
  ASSUME FitInv, InsertInv', SortedInv', SessionInv', NEW c \in Clients,
         UNCHANGED <<log, global, local, uiQ, nextID, alive>>,
         \A d \in Clients : d # c => batch'[d] = batch[d] /\ timer'[d] = timer[d],
         timer'[c] # "taken" \/ UNCHANGED <<batch, timer>>
  PROVE  FitInv'
<1>1. LogKept /\ LogFits'
  BY LogFitsStays DEF FitInv, LogKept
<1>2. Foreign(c)' = Foreign(c)
  BY <1>1, ForeignStays
<1>3. StacksFit(c)'
  <2>1. StacksFit(c)
    BY DEF FitInv
  <2>2. CASE timer'[c] # "taken"
    BY <1>2, <2>1, <2>2 DEF StacksFit, Reaches
  <2>3. CASE UNCHANGED <<batch, timer>>
    BY <1>1, <2>3, DeviceFits
  <2> QED  BY <2>2, <2>3
<1>4. alive'[c] => QueueFits(c)'
  BY <1>2 DEF FitInv, QueueFits
<1> QED
  BY <1>1, <1>3, <1>4, FitKept

LEMMA TimerFits ==
  ASSUME FitInv, InsertInv', SortedInv', SessionInv', "fail" \notin Freedoms,
         NEW c \in Clients, Timer(c)
  PROVE  FitInv'
<1>1. TypeOK
  BY GlobalInLog DEF FitInv
<1>2. CASE GetLocalChangeSet(c)
  BY <1>2, GetLocalChangeSetFits
<1>3. CASE BroadcastLocal(c)
  BY <1>3, BroadcastFits
<1>4. CASE RefuseLocal(c)
  <2>1. timer[c] = "taken" /\ ~member[c]
    BY <1>4 DEF RefuseLocal, Refusable
  <2> QED  BY <2>1 DEF FitInv, SortedInv, NoReturn
<1>5. CASE PutIntoSendStack(c)
  <2>1. /\ UNCHANGED <<log, global, local, uiQ, nextID, alive>>
        /\ \A d \in Clients : d # c => batch'[d] = batch[d] /\ timer'[d] = timer[d]
        /\ timer'[c] = "undoRedo"
    BY <1>1, <1>5 DEF PutIntoSendStack, TypeOK
  <2> QED  BY <2>1, FitAside
<1>6. CASE SendUndoAndRedo(c)
  <2>1. undo[c] = << >> /\ redo[c] = << >>
    BY DEF FitInv, InsertInv, OnlyInsertions
  <2>2. undo[c] \o redo[c] = << >>
    BY <2>1, EmptySeq, ConcatEmptySeq
  <2>3. /\ UNCHANGED <<log, global, local, uiQ, nextID, alive>>
        /\ \A d \in Clients : d # c => batch'[d] = batch[d] /\ timer'[d] = timer[d]
        /\ timer'[c] = "idle"
    BY <1>1, <1>6, <2>2 DEF SendUndoAndRedo, TypeOK
  <2> QED  BY <2>3, FitAside
<1> QED
  BY <1>2, <1>3, <1>4, <1>5, <1>6 DEF Timer

LEMMA NextFits ==
  ("early" \notin Freedoms /\ "fail" \notin Freedoms /\ "split" \notin Freedoms)
    /\ UsersInsert /\ FitInv /\ [Next]_vars => FitInv'
<1> SUFFICES ASSUME "early" \notin Freedoms, "fail" \notin Freedoms, "split" \notin Freedoms,
                    UsersInsert, FitInv, [Next]_vars
             PROVE  FitInv'
  OBVIOUS
<1>1. InsertInv' /\ SortedInv' /\ SessionInv'
  BY NextShows, NextSorted, NextInSession DEF FitInv
<1>2. ASSUME NEW c \in Clients, User(c)
      PROVE  FitInv'
  <2>1. CASE Type(c)
    BY <1>1, <2>1, TypeFits
  <2>2. CASE CreateSess(c) \/ JoinSess(c)
    <3>1. UNCHANGED <<log, global, local, uiQ, nextID, alive, batch, timer>>
      BY <2>2 DEF CreateSess, JoinSess, stacks, threads
    <3> QED  BY <1>1, <3>1, FitAside
  <2> QED  BY <1>2, <2>1, <2>2 DEF User, UndoAct, RedoAct, UsersInsert
<1>3. ASSUME NEW c \in Clients, ReceivedEvent(c)
      PROVE  FitInv'
  <2>1. UNCHANGED <<log, global, local, uiQ, nextID, alive, batch, timer>>
    BY <1>3 DEF ReceivedEvent, stacks
  <2> QED  BY <1>1, <2>1, FitAside
<1>4. CASE UNCHANGED vars
  <2>1. UNCHANGED <<log, global, local, uiQ, nextID, alive, batch, timer>>
    BY <1>4 DEF vars, stacks, threads
  <2>2. CASE Clients = {}
    <3>1. LogFits'
      BY <2>1, LogFitsStays DEF FitInv
    <3> QED  BY <1>1, <2>2, <3>1 DEF FitInv
  <2>3. CASE Clients # {}
    BY <1>1, <2>1, <2>3, FitAside
  <2> QED  BY <2>2, <2>3
<1> QED
  BY <1>1, <1>2, <1>3, <1>4, TimerFits, StackQueueFits, UpdateInputViewFits DEF Next

LEMMA FitInitially == Init => FitInv
<1> SUFFICES ASSUME Init  PROVE FitInv
  OBVIOUS
<1>1. InsertInv /\ SortedInv /\ SessionInv
  BY InsertInitially, SortedInitially, SessionInitially
<1>2. log = << >> /\ Len(log) = 0
  BY DEF Init
<1>3. LogFits
  BY <1>2 DEF LogFits
<1>4. ASSUME NEW c \in Clients
      PROVE  StacksFit(c) /\ QueueFits(c)
  <2>1. global[c] = << >> /\ local[c] = << >> /\ timer[c] = "idle" /\ uiQ[c] = << >>
    BY DEF Init
  <2>2. Len(global[c]) = 0 /\ Len(local[c]) = 0 /\ Len(uiQ[c]) = 0
    BY <2>1
  <2> QED  BY <2>1, <2>2 DEF StacksFit, QueueFits
<1> QED
  BY <1>1, <1>3, <1>4 DEF FitInv

\* While users only put single characters, no broadcast is refused and the timer's
\* handler runs in one piece, the operation that updateInputView shows next fits the
\* text, whatever was typed since it was placed: a device never crashes on it
\* (stringByReplacingCharactersInRange raises NSRangeException outside the text).
THEOREM InsertionsFit ==
  ("early" \notin Freedoms /\ "fail" \notin Freedoms /\ "split" \notin Freedoms)
    /\ UsersInsert => (Spec => []ShownFits)
<1> SUFFICES ASSUME "early" \notin Freedoms, "fail" \notin Freedoms, "split" \notin Freedoms,
                    UsersInsert
             PROVE  Spec => []ShownFits
  OBVIOUS
<1>1. FitInv /\ [Next]_vars => FitInv'
  BY NextFits
<1>2. Spec => []FitInv
  BY <1>1, FitInitially, PTL DEF Spec
<1> QED
  BY <1>2, FitFollows, PTL

=============================================================================
