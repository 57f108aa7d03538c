-------------------------- MODULE ConvergenceProofs --------------------------
(***************************************************************************)
(* Two users of SharedDoc see the same text: Converged, GlobalStacksAgree  *)
(* and TextIsReplay, for any edits that only insert and any number of      *)
(* inputs, when a user types while the own device is at rest, the other    *)
(* device being anywhere in its work, and any broadcast may be refused.    *)
(* GlobalStacksAgree holds, too, when users type and timers fire while     *)
(* blocks are waiting, which lets the texts part.                          *)
(*                                                                         *)
(* A global stack holds an operation at the place it had when it came in.  *)
(* That place can be told from the session alone: the operation refers to  *)
(* the last one its author had worked through, and is carried past each    *)
(* that follows, at the place where that one came in. Table(log, H, R) is  *)
(* this reckoning: H[k][j] is where operation k stands behind the first j, *)
(* and R[k] the text the first k make. With two users an operation is      *)
(* carried past operations of one other author only, none of which moves   *)
(* another, so each is passed where its own row of the table ends.         *)
(*                                                                         *)
(* Standing(c, H, R) says where device c stands: once all is shown, its    *)
(* text is R[n] for the n operations of its global stack, and besides it   *)
(* the one character that is not confirmed yet, where the table has it.    *)
(* A foreign operation that comes in meets that character in the other     *)
(* order than the session has them; PastEachOther, the heart of the proof, *)
(* says that the two versions of updateIndex, one for each side, make this *)
(* the same text, ties included.                                           *)
(***************************************************************************)
EXTENDS EditProofs

-----------------------------------------------------------------------------
(* Texts: a character put in.                                              *)

\* The text t with the character g put in behind the first i.
PutIn(t, i, g) == Replace(t, [location |-> i, length |-> 0], <<g>>)

\* The text with a character put in is a text: before the place as it was, then
\* the character, then the rest.
LEMMA PutInIsText ==
  ASSUME NEW t \in Seq(Glyphs), NEW g \in Glyphs, NEW i \in 0..Len(t)
  PROVE  LET all == PutIn(t, i, g)
         IN  /\ all \in Seq(Glyphs) /\ Len(all) = Len(t) + 1
             /\ \A k \in 1..i : all[k] = t[k]
             /\ all[i + 1] = g
             /\ \A k \in (i + 2)..(Len(t) + 1) : all[k] = t[k - 1]
<1> DEFINE range == [location |-> i, length |-> 0]
<1>1. range.length = 0 /\ range.location = i
  OBVIOUS
<1> HIDE DEF range
<1>2. PutIn(t, i, g) = Replace(t, range, <<g>>)
  BY DEF PutIn, range
<1> QED
  BY <1>1, <1>2, CharactersAround

\* An insertion, where it is shown.
LEMMA InsertionPuts ==
  ASSUME NEW op \in Insertions, NEW t \in Seq(Glyphs), op.range.location <= Len(t)
  PROVE  /\ op.range.location \in 0..Len(t) /\ Within(op.range, t)
         /\ Glyph(Identity(op)) \in Glyphs
         /\ Replace(t, op.range, op.replaceString)
              = PutIn(t, op.range.location, Glyph(Identity(op)))
<1>1. /\ op.range \in EmptyRanges /\ op.replaceString = <<Glyph(Identity(op))>>
      /\ op.participantID \in Clients /\ op.operationID \in Nat
  BY DEF Insertions, Insertion, Ops, Operations
<1>2. op.range = [location |-> op.range.location, length |-> 0] /\ op.range.location \in Nat
  BY <1>1 DEF EmptyRanges, Ranges
<1>3. Glyph(Identity(op)) \in Glyphs
  BY <1>1 DEF Glyph, Glyphs, Identity
<1>4. Len(t) \in Nat
  BY LenProperties
<1>5. Within(op.range, t)
  <2>1. op.range.length = 0
    BY <1>1 DEF EmptyRanges
  <2> QED  BY <1>2, <1>4, <2>1 DEF Within
<1> QED
  BY <1>1, <1>2, <1>3, <1>4, <1>5 DEF PutIn

\* Two characters, put in one after the other, in either order.
LEMMA EitherFirst ==
  ASSUME NEW t \in Seq(Glyphs), NEW g \in Glyphs, NEW h \in Glyphs,
         NEW i \in 0..Len(t), NEW k \in 0..Len(t), i <= k
  PROVE  PutIn(PutIn(t, i, g), k + 1, h) = PutIn(PutIn(t, k, h), i, g)
<1> DEFINE n == Len(t)
           a == PutIn(t, i, g)
           b == PutIn(a, k + 1, h)
           c == PutIn(t, k, h)
           e == PutIn(c, i, g)
<1>1. n \in Nat /\ i \in Nat /\ k \in Nat /\ i <= n /\ k <= n
  BY LenProperties
<1>2. /\ a \in Seq(Glyphs) /\ Len(a) = n + 1
      /\ \A j \in 1..i : a[j] = t[j]
      /\ a[i + 1] = g
      /\ \A j \in (i + 2)..(n + 1) : a[j] = t[j - 1]
  BY PutInIsText
<1>3. /\ c \in Seq(Glyphs) /\ Len(c) = n + 1
      /\ \A j \in 1..k : c[j] = t[j]
      /\ c[k + 1] = h
      /\ \A j \in (k + 2)..(n + 1) : c[j] = t[j - 1]
  BY PutInIsText
<1> HIDE DEF n, a, c
<1>4. /\ b \in Seq(Glyphs) /\ Len(b) = n + 2
      /\ \A j \in 1..(k + 1) : b[j] = a[j]
      /\ b[k + 2] = h
      /\ \A j \in (k + 3)..(n + 2) : b[j] = a[j - 1]
  <2>1. /\ k + 1 \in 0..Len(a) /\ Len(a) + 1 = n + 2
        /\ (k + 1) + 1 = k + 2 /\ (k + 1) + 2 = k + 3
    BY <1>1, <1>2
  <2>2. /\ b \in Seq(Glyphs) /\ Len(b) = Len(a) + 1
        /\ \A j \in 1..(k + 1) : b[j] = a[j]
        /\ b[(k + 1) + 1] = h
        /\ \A j \in ((k + 1) + 2)..(Len(a) + 1) : b[j] = a[j - 1]
    BY <1>2, <2>1, PutInIsText
  <2> HIDE DEF b
  <2> QED  BY <2>1, <2>2
<1>5. /\ e \in Seq(Glyphs) /\ Len(e) = n + 2
      /\ \A j \in 1..i : e[j] = c[j]
      /\ e[i + 1] = g
      /\ \A j \in (i + 2)..(n + 2) : e[j] = c[j - 1]
  <2>1. i \in 0..Len(c) /\ Len(c) + 1 = n + 2
    BY <1>1, <1>3
  <2>2. /\ e \in Seq(Glyphs) /\ Len(e) = Len(c) + 1
        /\ \A j \in 1..i : e[j] = c[j]
        /\ e[i + 1] = g
        /\ \A j \in (i + 2)..(Len(c) + 1) : e[j] = c[j - 1]
    BY <1>3, <2>1, PutInIsText
  <2> HIDE DEF e
  <2> QED  BY <2>1, <2>2
<1> HIDE DEF b, e
<1>6. ASSUME NEW j \in 1..(n + 2)
      PROVE  b[j] = e[j]
  <2>1. CASE j <= i
    <3>1. j \in 1..(k + 1) /\ j \in 1..i /\ j \in 1..k
      BY <1>1, <2>1
    <3> QED  BY <1>2, <1>3, <1>4, <1>5, <3>1
  <2>2. CASE j = i + 1
    <3>1. j \in 1..(k + 1)
      BY <1>1, <2>2
    <3> QED  BY <1>2, <1>4, <1>5, <2>2, <3>1
  <2>3. CASE i + 2 <= j /\ j <= k + 1
    <3>1. j \in 1..(k + 1) /\ j \in (i + 2)..(n + 1) /\ j \in (i + 2)..(n + 2) /\ j - 1 \in 1..k
      BY <1>1, <2>3
    <3> QED  BY <1>2, <1>3, <1>4, <1>5, <3>1
  <2>4. CASE j = k + 2
    <3>1. j \in (i + 2)..(n + 2) /\ j - 1 = k + 1
      BY <1>1, <2>4
    <3> QED  BY <1>3, <1>4, <1>5, <2>4, <3>1
  <2>5. CASE k + 3 <= j
    <3>1. /\ j \in (k + 3)..(n + 2) /\ j - 1 \in (i + 2)..(n + 1) /\ j \in (i + 2)..(n + 2)
          /\ j - 1 \in (k + 2)..(n + 1)
      BY <1>1, <2>5
    <3> QED  BY <1>2, <1>3, <1>4, <1>5, <3>1
  <2> QED  BY <1>1, <2>1, <2>2, <2>3, <2>4, <2>5
<1>7. b = e
  BY <1>4, <1>5, <1>6, SeqEqual
<1> QED
  BY <1>7 DEF a, b, c, e

-----------------------------------------------------------------------------
(* Places: a place of one character carried past another character.        *)

\* updateIndex:, of the place x past a character put at y by somebody else ...
Past(x, y) == IF y < x THEN x + 1 ELSE x

\* ... and the second version of it.
PastV2(x, y) == IF y <= x THEN x + 1 ELSE x

\* The character at y waits while one at x comes in: each is carried past the other,
\* and it does not matter which of them the text had first.
LEMMA PastEachOther ==
  ASSUME NEW t \in Seq(Glyphs), NEW g \in Glyphs, NEW h \in Glyphs,
         NEW y \in 0..Len(t), NEW x \in 0..Len(t)
  PROVE  LET shown == PastV2(x, y)
         IN  /\ shown \in 0..(Len(t) + 1) /\ Past(y, x) \in 0..(Len(t) + 1)
             /\ Past(y, shown) = Past(y, x)
             /\ PutIn(PutIn(t, y, g), shown, h) = PutIn(PutIn(t, x, h), Past(y, x), g)
<1>1. Len(t) \in Nat /\ x \in Nat /\ y \in Nat
  BY LenProperties
<1>2. CASE y <= x
  <2>1. PastV2(x, y) = x + 1 /\ Past(y, x + 1) = y /\ Past(y, x) = y
    BY <1>1, <1>2 DEF Past, PastV2
  <2> QED  BY <1>1, <1>2, <2>1, EitherFirst
<1>3. CASE ~(y <= x)
  <2>1. PastV2(x, y) = x /\ Past(y, x) = y + 1 /\ x <= y
    BY <1>1, <1>3 DEF Past, PastV2
  <2> QED  BY <1>1, <2>1, EitherFirst
<1> QED
  BY <1>2, <1>3

\* What updateIndex makes of an insertion's range.
LEMMA RangePast ==
  ASSUME NEW op \in Insertions, NEW range \in EmptyRanges, NEW author
  PROVE  LET x == range.location
             y == op.range.location
         IN  /\ x \in Nat /\ y \in Nat
             /\ UpdateRange(range, op, author).location
                  = IF op.participantID = author THEN x ELSE Past(x, y)
             /\ UpdateRangeV2(range, op, author).location
                  = IF op.participantID = author THEN x ELSE PastV2(x, y)
<1> DEFINE x == range.location
           y == op.range.location
<1>1. /\ x \in Nat /\ y \in Nat /\ op.range.length = 0
      /\ Len(op.replaceString) = 1 /\ Len(op.originalString) = 0
  BY EmptySeq DEF Insertions, Insertion, EmptyRanges, Ranges
<1>2. /\ UpdateRange(range, op, author).location = UpdateIndex(x, op, author)
      /\ UpdateRangeV2(range, op, author).location = UpdateIndexV2(x, op, author)
  BY DEF UpdateRange, UpdateRangeV2, Between
<1>3. Growth(op) = 1
  BY <1>1 DEF Growth
<1>4. UpdateIndex(x, op, author) = IF op.participantID = author THEN x ELSE Past(x, y)
  <2>1. UpdateIndex(x, op, author)
          = IF op.participantID = author \/ y > x THEN x ELSE IF y + 0 < x THEN x + 1 ELSE y
    BY <1>1, <1>3 DEF UpdateIndex, Carried
  <2> HIDE DEF x, y
  <2> QED  BY <1>1, <2>1 DEF Past
<1>5. UpdateIndexV2(x, op, author) = IF op.participantID = author THEN x ELSE PastV2(x, y)
  <2>1. UpdateIndexV2(x, op, author)
          = IF op.participantID = author \/ y > x THEN x
              ELSE IF y + 0 < x THEN x + 1 ELSE y + 1
    BY <1>1, <1>3 DEF UpdateIndexV2, Carried
  <2> HIDE DEF x, y
  <2> QED  BY <1>1, <2>1 DEF PastV2
<1> QED
  BY <1>1, <1>2, <1>4, <1>5

-----------------------------------------------------------------------------
(* Where the operations of the session stand.                              *)

\* The session has two members.
TwoUsers == \E a, b \in Clients : Clients = {a, b}

\* How much of the session the author of op had worked through when it was sent.
Refers(op) == IF op.referID = NoRefer THEN 0 ELSE op.referID

\* Of the log L: H[k][j] is where the k-th operation stands after the first j of the
\* others, and R[k] the text the first k operations make. The k-th operation was sent
\* after the first Refers of them, none of those in between is of the same author, and
\* it is carried past each of them at the place where that one came in.
Row(L, k, H, R) ==
  LET op    == L[k].op
      first == Refers(op)
  IN  /\ L[k].order = k
      /\ op.referID # 0 /\ first \in 0..(k - 1)
      /\ \A j \in (first + 1)..(k - 1) : L[j].op.participantID # op.participantID
      /\ H[k][first] = op.range.location
      /\ \A j \in first..(k - 1) : H[k][j] <= j
      /\ \A j \in (first + 1)..(k - 1) : H[k][j] = Past(H[k][j - 1], H[j][j - 1])
      /\ R[k] = PutIn(R[k - 1], H[k][k - 1], Glyph(Identity(op)))
      /\ Len(R[k]) = k

\* The whole table.
Table(L, H, R) ==
  /\ H \in [Nat -> [Nat -> Nat]]
  /\ R \in [Nat -> Seq(Glyphs)]
  /\ R[0] = << >>
  /\ \A k \in 1..Len(L) : Row(L, k, H, R)

\* A global stack has the operations where they came in.
InPlace(stack, H) ==
  \A i \in 1..Len(stack) :
    /\ stack[i] \in Insertions
    /\ stack[i].globalID = i
    /\ stack[i].range.location = H[i][i - 1]

\* An operation is not moved by those of its own author that lie above it.
LEMMA ThroughOwn ==
  ASSUME NEW P, NEW G, NEW stack \in Seq(Operations(P, G)), NEW i \in 1..Len(stack),
         \A k \in i..Len(stack) : stack[k].participantID = stack[i].participantID
  PROVE  UpdateOperationThroughGlobalStack(stack, i) = stack[i]
<1> DEFINE n == Len(stack) - i
           start == stack[i].range
           Moved(r, k) == UpdateRangeV2(r, stack[i + k], stack[i].participantID)
           Carries(f) == f = [k \in 0..n |-> IF k = 0 THEN stack[i].range ELSE Moved(f[k - 1], k)]
           still == [k \in 0..n |-> start]
           carried == CHOOSE f : Carries(f)
<1>1. /\ Len(stack) \in Nat /\ n \in Nat
      /\ stack[i] \in Operations(P, G) /\ start \in Ranges
  <2>1. Len(stack) \in Nat /\ stack[i] \in Operations(P, G)
    BY LenProperties, ElementOfSeq
  <2> QED  BY <2>1, OperationsAreWellFormed DEF WellFormed
<1>2. \A k \in 1..n : Moved(start, k) = start
  <2>1. ASSUME NEW k \in 1..n
        PROVE  UpdateRangeV2(start, stack[i + k], stack[i].participantID) = start
    <3>1. stack[i + k].participantID = stack[i].participantID
      <4>1. i + k \in i..Len(stack)
        BY <1>1
      <4> QED  BY <4>1
    <3>2. \A index : UpdateIndexV2(index, stack[i + k], stack[i].participantID) = index
      BY <3>1 DEF UpdateIndexV2, Carried
    <3>3. Between(start.location, End(start)) = start
      BY <1>1 DEF Between, End, Ranges
    <3> QED  BY <3>2, <3>3 DEF UpdateRangeV2
  <2> QED  BY <2>1
<1>3. UpdateOperationThroughGlobalStack(stack, i) = [stack[i] EXCEPT !.range = carried[n]]
  BY DEF UpdateOperationThroughGlobalStack
<1> HIDE DEF Moved, n
<1>4. Carries(still)
  <2>1. \A k \in 0..n : k # 0 => k \in 1..n /\ k - 1 \in 0..n
    BY <1>1
  <2> QED  BY <1>2, <2>1
<1>5. Carries(carried)
  <2> HIDE DEF Carries
  <2> QED  BY <1>4
<1> HIDE DEF carried
<1>6. carried[0] = start /\ \A k \in 1..n : carried[k] = Moved(carried[k - 1], k)
  BY <1>1, <1>5
<1> HIDE DEF start
<1>7. \A k \in 0..n : carried[k] \in {start}
  <2> DEFINE S == {start}
  <2>1. \A k \in 1..n : carried[k - 1] \in S => carried[k] \in S
    BY <1>2, <1>6
  <2>2. carried[0] \in S
    BY <1>6
  <2> HIDE DEF S
  <2>3. \A k \in 0..n : carried[k] \in S
    BY <1>1, <2>1, <2>2, LoopKeeps
  <2> QED  BY <2>3 DEF S
<1>8. carried[n] = start
  BY <1>1, <1>7
<1> QED
  BY <1>1, <1>3, <1>8 DEF start, Operations

\* The first loop of addNewGlobalOperation brings the operation to its place.
LEMMA PlacedOnGlobal ==
  ASSUME TwoUsers, SessionInv, InsertInv, NEW H, NEW R, Table(log, H, R),
         NEW c \in Clients, InPlace(global[c], H),
         NEW at, at = Len(global[c]) + 1, at \in 1..Len(log),
         NEW op \in Insertions, Identity(op) = Identity(log[at].op),
         op.referID = log[at].op.referID, op.range = log[at].op.range
  PROVE  /\ RangeOnGlobal(global[c], op) \in EmptyRanges
         /\ RangeOnGlobal(global[c], op).location = H[at][at - 1]
<1> DEFINE stack == global[c]
           n == Len(stack)
           first == Refers(op)
           place(k) == IF k <= first THEN H[at][first] ELSE H[at][k]
<1>1. /\ stack \in Seq(Ops) /\ n \in Nat /\ at = n + 1 /\ Len(log) \in Nat /\ n <= Len(log)
      /\ Prefix(c) /\ op \in Ops /\ op.range \in EmptyRanges
  BY GlobalInLog DEF SessionInv, Session, TypeOK, Insertions, Insertion
<1>2. /\ op.referID \in Nat \cup {NoRefer} /\ op.referID # 0 /\ first \in 0..n
      /\ \A j \in (first + 1)..n : log[j].op.participantID # op.participantID
      /\ H[at][first] = op.range.location
      /\ \A j \in (first + 1)..n : H[at][j] = Past(H[at][j - 1], H[j][j - 1])
      /\ \A j \in 0..n : H[at][j] \in Nat
  <2>1. Row(log, at, H, R) /\ H \in [Nat -> [Nat -> Nat]]
    BY DEF Table
  <2>5. at - 1 = n /\ at \in Nat
    <3> HIDE DEF n
    <3> QED  BY <1>1
  <2>2. Refers(log[at].op) = first /\ op.participantID = log[at].op.participantID
    BY DEF Refers, Identity
  <2>3. op.referID \in Nat \cup {NoRefer}
    BY <1>1 DEF Ops, Operations
  <2>4. /\ op.referID # 0 /\ first \in 0..(at - 1)
        /\ \A j \in (first + 1)..(at - 1) : log[j].op.participantID # op.participantID
        /\ H[at][first] = op.range.location
        /\ \A j \in (first + 1)..(at - 1) : H[at][j] = Past(H[at][j - 1], H[j][j - 1])
    BY <2>1, <2>2 DEF Row
  <2> HIDE DEF first, n
  <2>6. \A j \in 0..n : H[at][j] \in Nat
    <3>1. H[at] \in [Nat -> Nat]
      BY <2>1, <2>5
    <3>2. \A j \in 0..n : j \in Nat
      BY <1>1
    <3> QED  BY <3>1, <3>2
  <2> QED  BY <2>3, <2>4, <2>5, <2>6
<1>3. PICK f : /\ f[0] = op.range
               /\ \A k \in 1..n :
                    f[k] = IF k \in Unseen(stack, op)
                             THEN UpdateRange(f[k - 1],
                                              UpdateOperationThroughGlobalStack(stack, k),
                                              op.participantID)
                             ELSE f[k - 1]
               /\ RangeOnGlobal(stack, op) = f[n]
  BY <1>1, RangeOnGlobalRuns DEF Ops
<1>4. ASSUME NEW k \in 1..n
      PROVE  k \in Unseen(stack, op) <=> k > first
  <2>1. \A j \in 1..n : stack[j].globalID = j
    BY DEF InPlace
  <2>2. k \in Unseen(stack, op)
          <=> /\ k # op.referID
              /\ \/ op.referID = NoRefer
                 \/ \E j \in 1..(k - 1) : j = op.referID
    <3>1. \A j \in 1..(k - 1) : stack[j].globalID = j
      BY <1>1, <2>1
    <3>2. stack[k].globalID = k /\ k \in DOMAIN stack
      BY <1>1, <2>1
    <3>3. k \in Unseen(stack, op)
            <=> /\ stack[k].globalID # op.referID
                /\ \/ op.referID = NoRefer
                   \/ \E j \in 1..(k - 1) : stack[j].globalID = op.referID
      <4> HIDE DEF stack
      <4> QED  BY <3>2 DEF Unseen
    <3> QED  BY <3>1, <3>2, <3>3
  <2>3. n \in Nat /\ op.referID \in Nat \cup {NoRefer} /\ op.referID # 0
    BY <1>1, <1>2
  <2> HIDE DEF n, stack, place
  <2>4. CASE op.referID = NoRefer
    <3>1. first = 0 /\ k > 0 /\ k # NoRefer
      BY <2>3, <2>4 DEF Refers, NoRefer
    <3> QED  BY <2>2, <2>4, <3>1
  <2>5. CASE op.referID # NoRefer
    <3>1. first = op.referID /\ first \in Nat /\ first # 0
      BY <2>3, <2>5 DEF Refers
    <3>2. (\E j \in 1..(k - 1) : j = first) <=> first < k
      <4> HIDE DEF first
      <4> QED  BY <2>3, <3>1
    <3>3. k \in Unseen(stack, op) <=> k # first /\ first < k
      BY <2>2, <2>5, <3>1, <3>2
    <3> HIDE DEF first
    <3> QED  BY <2>3, <3>1, <3>3
  <2> QED  BY <2>4, <2>5
<1>5. ASSUME NEW k \in 1..n, k > first
      PROVE  UpdateOperationThroughGlobalStack(stack, k) = stack[k]
  <2>1. \A j \in 1..n : /\ stack[j].participantID = log[j].op.participantID
                        /\ stack[j].participantID \in Clients
    <3>1. \A j \in 1..n : Identity(stack[j]) = Identity(log[j].op) /\ stack[j] \in Insertions
      BY <1>1 DEF Prefix, InPlace
    <3> QED  BY <3>1 DEF Identity, Insertions, Insertion
  <2>2. op.participantID \in Clients
    BY DEF Insertions, Insertion
  <2>3. \A j \in k..n : j \in 1..n /\ j \in (first + 1)..n
    BY <1>1, <1>2, <1>5
  <2>4. \A j \in k..n : stack[j].participantID # op.participantID
    BY <1>2, <2>1, <2>3
  <2>5. k \in k..n
    BY <1>1
  <2>6. \A j \in k..n : stack[j].participantID = stack[k].participantID
    BY <2>1, <2>2, <2>3, <2>4, <2>5 DEF TwoUsers
  <2> QED  BY <1>1, <2>6, ThroughOwn DEF Ops
<1>6. ASSUME NEW k \in 1..n, f[k - 1] \in EmptyRanges, f[k - 1].location = place(k - 1)
      PROVE  f[k] \in EmptyRanges /\ f[k].location = place(k)
  <2>0. k \in Nat /\ first \in Nat
    BY <1>1, <1>2
  <2>1. CASE k <= first
    <3>0. ~(k > first) /\ k - 1 <= first
      <4> HIDE DEF first, n
      <4> QED  BY <2>0, <2>1
    <3>1. f[k] = f[k - 1] /\ k - 1 <= first
      BY <1>3, <1>4, <3>0
    <3> QED  BY <1>6, <2>1, <3>1
  <2>2. CASE ~(k <= first)
    <3>1. f[k] = UpdateRange(f[k - 1], stack[k], op.participantID) /\ k > first
      BY <1>3, <1>4, <1>5, <2>0, <2>2
    <3>2. /\ stack[k] \in Insertions /\ stack[k].range.location = H[k][k - 1]
          /\ stack[k].participantID # op.participantID
      <4>1. stack[k] \in Insertions /\ stack[k].range.location = H[k][k - 1]
        BY DEF InPlace
      <4>2. Identity(stack[k]) = Identity(log[k].op) /\ k \in (first + 1)..n
        BY <1>1, <1>2, <2>0, <2>2 DEF Prefix
      <4> QED  BY <1>2, <4>1, <4>2 DEF Identity
    <3>3. f[k] \in EmptyRanges
      <4>1. WellFormed(stack[k])
        BY <3>2, OperationsAreWellFormed DEF Insertions, Ops
      <4> QED  BY <1>6, <3>1, <4>1, EmptyCarried
    <3>4. f[k].location = Past(place(k - 1), H[k][k - 1])
      BY <1>6, <3>1, <3>2, RangePast
    <3>5. place(k - 1) = H[at][k - 1]
      BY <2>0, <2>2
    <3>6. H[at][k] = Past(H[at][k - 1], H[k][k - 1])
      <4>1. k \in (first + 1)..n
        BY <1>1, <1>2, <2>0, <2>2
      <4> QED  BY <1>2, <4>1
    <3> QED  BY <2>2, <3>3, <3>4, <3>5, <3>6
  <2> QED  BY <2>1, <2>2
<1>7. \A k \in 0..n : k \in {j \in 0..n : f[j] \in EmptyRanges /\ f[j].location = place(j)}
  <2> DEFINE T == {j \in 0..n : f[j] \in EmptyRanges /\ f[j].location = place(j)}
  <2>1. 0 \in T
    BY <1>1, <1>2, <1>3
  <2>2. \A k \in 1..n : k - 1 \in T => k \in T
    BY <1>1, <1>6
  <2> HIDE DEF T, n
  <2>3. \A k \in 0..n : k \in T
    BY <1>1, <2>1, <2>2, LoopReaches
  <2> QED  BY <2>3 DEF T
<1>8. f[n] \in EmptyRanges /\ f[n].location = place(n) /\ place(n) = H[at][n]
  BY <1>1, <1>2, <1>7
<1> QED
  BY <1>1, <1>3, <1>8

\* The row of a place carried past the characters that come in at h[first + 1], ...
IsRow(row, m, first, start, h) ==
  /\ row \in [Nat -> Nat]
  /\ row[first] = start
  /\ \A j \in first..m : row[j] <= j
  /\ \A j \in (first + 1)..m : row[j] = Past(row[j - 1], h[j])

\* ... exists.
LEMMA CarriedOver ==
  ASSUME NEW m \in Nat, NEW first \in 0..m, NEW start \in 0..first, NEW h \in [1..m -> Nat]
  PROVE  \E row : IsRow(row, m, first, start, h)
<1> DEFINE move(i, j) == IF j <= first THEN i ELSE Past(i, h[j])
           step == [j \in 1..m |-> [i \in Nat |-> move(i, j)]]
<1>1. first \in Nat /\ first <= m /\ start \in Nat /\ start <= first
  OBVIOUS
<1>2. PICK f : IsRun(f, m, Nat, start, step)
  <2>1. \A j \in 1..m : \A i \in Nat : move(i, j) \in Nat
    BY <1>1 DEF Past
  <2> HIDE DEF move
  <2>2. step \in [1..m -> [Nat -> Nat]]
    BY <2>1
  <2> HIDE DEF step
  <2> QED  BY <1>1, <2>2, LoopRuns
<1>3. f[0] = start /\ \A j \in 1..m : f[j - 1] \in Nat /\ f[j] \in Nat /\ f[j] = move(f[j - 1], j)
  <2>1. f \in [0..m -> Nat] /\ f[0] = start /\ \A j \in 1..m : f[j] = step[j][f[j - 1]]
    BY <1>2 DEF IsRun
  <2>2. \A j \in 1..m : j - 1 \in 0..m /\ j \in 0..m
    OBVIOUS
  <2>3. \A j \in 1..m : f[j - 1] \in Nat /\ f[j] \in Nat
    BY <2>1, <2>2
  <2>4. \A j \in 1..m : f[j] = move(f[j - 1], j)
    <3> HIDE DEF move
    <3> QED  BY <2>1, <2>3
  <2> QED  BY <2>1, <2>3, <2>4
<1> HIDE DEF step
<1>4. \A j \in 0..m : /\ f[j] \in Nat
                      /\ j <= first => f[j] = start
                      /\ j >= first => f[j] <= j
  <2> DEFINE T == {j \in 0..m : /\ f[j] \in Nat
                                /\ j <= first => f[j] = start
                                /\ j >= first => f[j] <= j}
  <2>1. 0 \in T
    BY <1>1, <1>3
  <2>2. ASSUME NEW j \in 1..m, j - 1 \in T
        PROVE  j \in T
    <3>1. CASE j <= first
      BY <1>1, <1>3, <2>2, <3>1
    <3>2. CASE ~(j <= first)
      <4>1. f[j - 1] <= j - 1 /\ f[j] = Past(f[j - 1], h[j]) /\ f[j - 1] \in Nat /\ f[j] \in Nat
        BY <1>1, <1>3, <2>2, <3>2
      <4>2. f[j] = f[j - 1] \/ f[j] = f[j - 1] + 1
        BY <4>1 DEF Past
      <4>3. f[j] <= j
        BY <4>1, <4>2
      <4> QED  BY <1>1, <3>2, <4>1, <4>3
    <3> QED  BY <3>1, <3>2
  <2> HIDE DEF T
  <2>3. \A j \in 0..m : j \in T
    BY <2>1, <2>2, LoopReaches
  <2> QED  BY <2>3 DEF T
<1> DEFINE row == [j \in Nat |-> IF j <= m THEN f[j] ELSE 0]
<1>5. row \in [Nat -> Nat] /\ \A j \in 0..m : row[j] = f[j]
  <2>1. \A j \in Nat : j <= m => j \in 0..m
    OBVIOUS
  <2> QED  BY <1>4, <2>1
<1> HIDE DEF row
<1>6. row[first] = start /\ \A j \in first..m : row[j] <= j
  <2>1. \A j \in first..m : j \in 0..m /\ j >= first
    BY <1>1
  <2>2. first \in 0..m /\ first <= first
    BY <1>1
  <2> QED  BY <1>4, <1>5, <2>1, <2>2
<1>7. \A j \in (first + 1)..m : row[j] = Past(row[j - 1], h[j])
  <2>1. \A j \in (first + 1)..m : j \in 1..m /\ j \in 0..m /\ j - 1 \in 0..m /\ ~(j <= first)
    BY <1>1
  <2> QED  BY <1>3, <1>5, <2>1
<1> QED
  BY <1>5, <1>6, <1>7 DEF IsRow

\* M is the log L and the operation op behind it ...
Follows(L, M, op) ==
  /\ Len(L) \in Nat
  /\ Len(M) = Len(L) + 1
  /\ \A k \in 1..Len(L) : M[k] = L[k]
  /\ M[Len(L) + 1].op = op
  /\ M[Len(L) + 1].order = Len(L) + 1

\* ... which its author sent knowing of all that it has itself in the log.
Informed(L, op) ==
  /\ op.referID # 0
  /\ Refers(op) \in 0..Len(L)
  /\ op.range.location <= Refers(op)
  /\ \A j \in (Refers(op) + 1)..Len(L) : L[j].op.participantID # op.participantID

\* The table of M is that of L and one more row.
Grown(L, M, H, R, op, I, S) ==
  /\ Table(M, I, S)
  /\ \A k \in 1..Len(L) : I[k] = H[k]
  /\ \A k \in 0..Len(L) : S[k] = R[k]
  /\ I[Len(L) + 1][Refers(op)] = op.range.location

\* The next operation of the session has its row in the table as well.
LEMMA TableGrows ==
  ASSUME NEW L, NEW M, NEW H, NEW R, Table(L, H, R),
         NEW op \in Insertions, Follows(L, M, op), Informed(L, op)
  PROVE  \E I, S : Grown(L, M, H, R, op, I, S)
<1> DEFINE m == Len(L)
           first == Refers(op)
           start == op.range.location
<1>1. /\ m \in Nat /\ first \in Nat /\ first <= m /\ start \in Nat /\ start <= first
      /\ H \in [Nat -> [Nat -> Nat]] /\ R \in [Nat -> Seq(Glyphs)]
  <2>1. /\ m \in Nat /\ first \in 0..m /\ start <= first
        /\ H \in [Nat -> [Nat -> Nat]] /\ R \in [Nat -> Seq(Glyphs)]
    BY DEF Table, Follows, Informed
  <2>2. start \in Nat
    BY DEF Insertions, Insertion, EmptyRanges, Ranges
  <2> HIDE DEF m, first, start
  <2> QED  BY <2>1, <2>2
<1>0. m \in Nat /\ first \in Nat /\ first <= m /\ start \in Nat /\ start <= first
  BY <1>1
<1>2. R[0] = << >> /\ \A k \in 1..m : Row(L, k, H, R)
  BY DEF Table
<1>3. /\ \A k \in 1..m : M[k] = L[k]
      /\ Len(M) = m + 1 /\ M[m + 1].op = op /\ M[m + 1].order = m + 1
      /\ op.referID # 0
      /\ \A j \in (first + 1)..m : L[j].op.participantID # op.participantID
  BY DEF Follows, Informed
<1> HIDE DEF m, first, start
<1>4. PICK row \in [Nat -> Nat] :
        /\ row[first] = start
        /\ \A j \in first..m : row[j] <= j
        /\ \A j \in (first + 1)..m : row[j] = Past(row[j - 1], H[j][j - 1])
  <2> DEFINE h == [j \in 1..m |-> H[j][j - 1]]
  <2>1. h \in [1..m -> Nat] /\ \A j \in 1..m : h[j] = H[j][j - 1]
    <3>1. \A j \in 1..m : j \in Nat /\ j - 1 \in Nat
      BY <1>1
    <3>2. \A j \in 1..m : H[j] \in [Nat -> Nat]
      BY <1>1, <3>1
    <3> QED  BY <3>1, <3>2
  <2>2. first \in 0..m /\ start \in 0..first /\ \A j \in (first + 1)..m : j \in 1..m
    BY <1>1
  <2> HIDE DEF h
  <2>4. h \in [1..m -> Nat] /\ m \in Nat /\ first \in 0..m /\ start \in 0..first
    BY <1>0, <2>1, <2>2
  <2>3. PICK r : IsRow(r, m, first, start, h)
    BY <2>4, CarriedOver
  <2> QED  BY <2>1, <2>2, <2>3 DEF IsRow
<1> DEFINE I == [H EXCEPT ![m + 1] = row]
           whole == PutIn(R[m], row[m], Glyph(Identity(op)))
           S == [R EXCEPT ![m + 1] = whole]
<1>5. R[m] \in Seq(Glyphs) /\ Len(R[m]) = m
  <2>1. CASE m = 0
    BY <1>1, <1>2, <2>1, EmptySeq
  <2>2. CASE m # 0
    <3>1. m \in 1..m
      BY <1>1, <2>2
    <3> QED  BY <1>1, <1>2, <3>1 DEF Row
  <2> QED  BY <2>1, <2>2
<1>6. whole \in Seq(Glyphs) /\ Len(whole) = m + 1
  <2>1. row[m] \in 0..Len(R[m])
    <3>1. m \in first..m
      BY <1>0
    <3>2. row[m] \in Nat
      BY <1>0, <1>4
    <3> QED  BY <1>0, <1>4, <1>5, <3>1, <3>2
  <2>2. Glyph(Identity(op)) \in Glyphs
    BY DEF Glyph, Glyphs, Identity, Insertions, Insertion, Ops, Operations
  <2> QED  BY <1>5, <2>1, <2>2, PutInIsText
<1> HIDE DEF whole
<1>7. /\ I \in [Nat -> [Nat -> Nat]] /\ I[m + 1] = row /\ \A k \in 1..m : I[k] = H[k]
      /\ S \in [Nat -> Seq(Glyphs)] /\ S[m + 1] = whole /\ \A k \in 0..m : S[k] = R[k]
  <2>1. m + 1 \in Nat /\ \A k \in 0..m : k \in Nat /\ k # m + 1
    BY <1>0
  <2>2. \A k \in 1..m : k \in 0..m
    BY <1>0
  <2>3. I \in [Nat -> [Nat -> Nat]] /\ I[m + 1] = row /\ \A k \in 1..m : I[k] = H[k]
    BY <1>1, <2>1, <2>2
  <2>4. S \in [Nat -> Seq(Glyphs)] /\ S[m + 1] = whole /\ \A k \in 0..m : S[k] = R[k]
    BY <1>1, <1>6, <2>1
  <2> QED  BY <2>3, <2>4
<1> HIDE DEF I, S
<1>8. ASSUME NEW k \in 1..m
      PROVE  Row(M, k, I, S)
  <2>1. Row(L, k, H, R) /\ M[k] = L[k]
    BY <1>2, <1>3
  <2>2. k \in Nat /\ k - 1 \in 0..m /\ k \in 0..m /\ \A j \in 1..(k - 1) : j \in 1..m
    BY <1>0
  <2>3. /\ I[k] = H[k] /\ S[k] = R[k] /\ S[k - 1] = R[k - 1]
        /\ \A j \in 1..(k - 1) : I[j] = H[j] /\ M[j] = L[j]
    BY <1>3, <1>7, <2>2
  <2>4. Refers(L[k].op) \in 0..(k - 1)
    BY <2>1 DEF Row
  <2>5. \A j \in (Refers(L[k].op) + 1)..(k - 1) : j \in 1..(k - 1)
    BY <2>2, <2>4
  <2> QED  BY <2>1, <2>2, <2>3, <2>5 DEF Row
<1>9. Row(M, m + 1, I, S)
  <2>1. (m + 1) - 1 = m
    BY <1>0
  <2>2. first \in 0..m /\ \A j \in (first + 1)..m : M[j].op.participantID # op.participantID
    <3>1. first \in 0..m /\ \A j \in (first + 1)..m : j \in 1..m
      BY <1>0
    <3> QED  BY <1>3, <3>1
  <2>3. \A j \in (first + 1)..m : row[j] = Past(row[j - 1], I[j][j - 1])
    <3>1. \A j \in (first + 1)..m : j \in 1..m
      BY <1>0
    <3> QED  BY <1>4, <1>7, <3>1
  <2>4. S[m + 1] = PutIn(S[m], row[m], Glyph(Identity(op))) /\ Len(S[m + 1]) = m + 1
    <3>1. S[m] = R[m]
      BY <1>1, <1>7
    <3> QED  BY <1>6, <1>7, <3>1 DEF whole
  <2> QED  BY <1>3, <1>4, <1>7, <2>1, <2>2, <2>3, <2>4 DEF Row, first, start
<1>10. Table(M, I, S)
  <2>1. \A k \in 1..Len(M) : k \in 1..m \/ k = m + 1
    <3>1. m \in Nat /\ Len(M) = m + 1
      BY <1>0, <1>3
    <3> HIDE DEF m
    <3> QED  BY <3>1
  <2>2. S[0] = << >>
    BY <1>1, <1>2, <1>7
  <2> QED  BY <1>7, <1>8, <1>9, <2>1, <2>2 DEF Table
<1>11. Grown(L, M, H, R, op, I, S)
  BY <1>4, <1>7, <1>10 DEF Grown, m, first, start
<1> QED
  BY <1>11

-----------------------------------------------------------------------------
(* The text when all that waits to be shown is shown.                      *)

\* Showing the queue turns the text t into final: V has the texts in between.
Becomes(t, queue, final) ==
  \E V \in [Nat -> Seq(Glyphs)] :
    /\ V[0] = t
    /\ V[Len(queue)] = final
    /\ \A i \in 1..Len(queue) :
         /\ queue[i].range.location <= Len(V[i - 1])
         /\ V[i] = PutIn(V[i - 1], queue[i].range.location, Glyph(Identity(queue[i])))

\* Nothing waits.
LEMMA BecomesNow ==
  ASSUME NEW t \in Seq(Glyphs)
  PROVE  Becomes(t, << >>, t) /\ \A final : Becomes(t, << >>, final) => final = t
<1>1. Len(<< >>) = 0
  BY EmptySeq
<1>2. Becomes(t, << >>, t)
  <2> DEFINE V == [i \in Nat |-> t]
  <2>1. V \in [Nat -> Seq(Glyphs)] /\ V[0] = t
    OBVIOUS
  <2> HIDE DEF V
  <2>2. V[Len(<< >>)] = t
    BY <1>1, <2>1
  <2>3. 1..Len(<< >>) = {}
    BY <1>1
  <2> QED  BY <2>1, <2>2, <2>3, Zenon DEF Becomes
<1> QED
  BY <1>1, <1>2 DEF Becomes

\* One more operation waits.
LEMMA BecomesMore ==
  ASSUME NEW t, NEW queue \in Seq(Insertions), NEW final, Becomes(t, queue, final),
         NEW op \in Insertions, op.range.location <= Len(final)
  PROVE  Becomes(t, Append(queue, op),
                 PutIn(final, op.range.location, Glyph(Identity(op))))
<1> DEFINE n == Len(queue)
           more == Append(queue, op)
           put == PutIn(final, op.range.location, Glyph(Identity(op)))
<1>1. /\ n \in Nat /\ Len(more) = n + 1 /\ more[n + 1] = op
      /\ \A i \in 1..n : more[i] = queue[i]
  BY AppendProperties, LenProperties
<1>2. PICK V \in [Nat -> Seq(Glyphs)] :
        /\ V[0] = t /\ V[n] = final
        /\ \A i \in 1..n :
             /\ queue[i].range.location <= Len(V[i - 1])
             /\ V[i] = PutIn(V[i - 1], queue[i].range.location, Glyph(Identity(queue[i])))
  BY DEF Becomes
<1> HIDE DEF n, more
<1>3. final \in Seq(Glyphs)
  BY <1>1, <1>2
<1>4. put \in Seq(Glyphs)
  BY <1>3, InsertionPuts, PutInIsText
<1> HIDE DEF put
<1> DEFINE W == [V EXCEPT ![n + 1] = put]
<1>5. W \in [Nat -> Seq(Glyphs)] /\ W[n + 1] = put /\ \A i \in 0..n : W[i] = V[i]
  <2>1. n + 1 \in Nat /\ \A i \in 0..n : i \in Nat /\ i # n + 1
    BY <1>1
  <2> QED  BY <1>2, <1>4, <2>1
<1> HIDE DEF W
<1>6. W[0] = t /\ W[n] = final
  BY <1>1, <1>2, <1>5
<1>7. ASSUME NEW i \in 1..(n + 1)
      PROVE  /\ more[i].range.location <= Len(W[i - 1])
             /\ W[i] = PutIn(W[i - 1], more[i].range.location, Glyph(Identity(more[i])))
  <2>1. CASE i = n + 1
    <3>1. i - 1 = n
      BY <1>1, <2>1
    <3> QED  BY <1>1, <1>5, <1>6, <2>1, <3>1 DEF put
  <2>2. CASE i # n + 1
    <3>1. i \in 1..n /\ i \in 0..n /\ i - 1 \in 0..n
      BY <1>1, <2>2
    <3> QED  BY <1>1, <1>2, <1>5, <3>1
  <2> QED  BY <2>1, <2>2
<1>8. Becomes(t, more, put)
  BY <1>1, <1>5, <1>6, <1>7 DEF Becomes
<1> QED
  BY <1>8 DEF more, put

\* The next operation is shown.
LEMMA BecomesLess ==
  ASSUME NEW t, NEW queue \in Seq(Insertions), queue # << >>, NEW final,
         Becomes(t, queue, final)
  PROVE  /\ Head(queue).range.location <= Len(t)
         /\ Becomes(PutIn(t, Head(queue).range.location, Glyph(Identity(Head(queue)))),
                    Tail(queue), final)
<1> DEFINE n == Len(queue)
           rest == Tail(queue)
           put == PutIn(t, Head(queue).range.location, Glyph(Identity(Head(queue))))
<1>1. /\ n \in Nat /\ n # 0 /\ Len(rest) = n - 1 /\ Head(queue) = queue[1]
      /\ \A i \in 1..(n - 1) : rest[i] = queue[i + 1]
  BY HeadTailProperties, LenProperties, EmptySeq
<1>2. PICK V \in [Nat -> Seq(Glyphs)] :
        /\ V[0] = t /\ V[n] = final
        /\ \A i \in 1..n :
             /\ queue[i].range.location <= Len(V[i - 1])
             /\ V[i] = PutIn(V[i - 1], queue[i].range.location, Glyph(Identity(queue[i])))
  BY DEF Becomes
<1> HIDE DEF n, rest
<1>3. Head(queue).range.location <= Len(t) /\ V[1] = put
  <2>1. 1 \in 1..n /\ 1 - 1 = 0
    BY <1>1
  <2> QED  BY <1>1, <1>2, <2>1
<1> DEFINE W == [i \in Nat |-> V[i + 1]]
<1>4. W \in [Nat -> Seq(Glyphs)] /\ W[0] = put /\ \A i \in Nat : W[i] = V[i + 1]
  BY <1>2, <1>3
<1> HIDE DEF W, put
<1>5. W[n - 1] = final
  <2>1. n - 1 \in Nat /\ (n - 1) + 1 = n
    BY <1>1
  <2> QED  BY <1>2, <1>4, <2>1
<1>6. ASSUME NEW i \in 1..(n - 1)
      PROVE  /\ rest[i].range.location <= Len(W[i - 1])
             /\ W[i] = PutIn(W[i - 1], rest[i].range.location, Glyph(Identity(rest[i])))
  <2>1. /\ i + 1 \in 1..n /\ i \in Nat /\ i - 1 \in Nat /\ (i - 1) + 1 = i /\ (i + 1) - 1 = i
    BY <1>1
  <2>2. rest[i] = queue[i + 1] /\ W[i] = V[i + 1] /\ W[i - 1] = V[i]
    BY <1>1, <1>4, <2>1
  <2> QED  BY <1>2, <2>1, <2>2
<1>7. Becomes(put, rest, final)
  BY <1>1, <1>4, <1>5, <1>6 DEF Becomes
<1> QED
  BY <1>3, <1>7 DEF rest, put

-----------------------------------------------------------------------------
(* One device.                                                             *)

\* Of the freedoms only the refusal of a broadcast: a user types at a device that has
\* nothing waiting, and the timer's handler is not torn.
InTurns == Freedoms \subseteq {"fail"}

\* ... or, instead, that a user types and the timer fires while blocks are waiting. In
\* both cases a user has one operation on its way at a time.
Calm == InTurns \/ Freedoms \subseteq {"overlap"}

\* What the text t and the queue of what waits to be shown come to. With "overlap" the
\* characters may end up in another order, and what is certain is their number.
Shows(t, queue, final) ==
  IF "overlap" \in Freedoms
    THEN Len(t) + Len(queue) = Len(final)
    ELSE Becomes(t, queue, final)

\* Nothing but events waits in a stack queue.
OnlyEvents(queue) == \A i \in 1..Len(queue) : queue[i].kind = "new"

\* The operations of c in the session that c has not worked through.
Ahead(c) == {k \in (Len(global[c]) + 1)..Len(log) : log[k].op.participantID = c}

\* c keeps no operation of its own,
Clear(c) ==
  /\ local[c] = << >> /\ send[c] = << >> /\ batch[c] = << >>
  /\ OnlyEvents(stackQ[c])

\* ... or one that is not in the session: in the local stack, about to be broadcast,
\* or refused and on its way back,
AtHome(c, w) ==
  /\ member[c] /\ send[c] = << >>
  /\ \/ /\ local[c] = <<w>> /\ batch[c] = << >>
        /\ OnlyEvents(stackQ[c])
     \/ /\ local[c] = << >> /\ batch[c] = <<w>>
        /\ timer[c] = "taken" /\ w.referID = Refer(c)
        /\ OnlyEvents(stackQ[c]) /\ ("fail" \in Freedoms => stackQ[c] = << >>)
     \/ /\ local[c] = << >> /\ batch[c] = << >> /\ "fail" \in Freedoms
        /\ stackQ[c] # << >> /\ Head(stackQ[c]).kind = "local"
        /\ Head(stackQ[c]).ops = <<w>> /\ OnlyEvents(Tail(stackQ[c]))

\* ... or one that is in the session and waits for its confirmation.
Underway(c, w) ==
  /\ local[c] = << >> /\ OnlyEvents(stackQ[c])
  /\ \/ batch[c] = <<w>> /\ timer[c] = "sent" /\ send[c] = << >>
     \/ batch[c] = << >> /\ send[c] = <<w>>

\* The own operation stands where the table says, and is the only one of c ahead.
Travels(c, w, H) ==
  \E p \in Ahead(c) :
    /\ Ahead(c) = {p}
    /\ Identity(w) = Identity(log[p].op)
    /\ Refers(log[p].op) <= Len(global[c])
    /\ w.range.location = H[p][Len(global[c])]

\* Once all is shown, the text of c is that of the operations in its global stack, with
\* the character it keeps besides.
Standing(c, H, R) ==
  LET n == Len(global[c])
  IN  \/ Clear(c) /\ Ahead(c) = {} /\ Shows(text[c], uiQ[c], R[n])
      \/ \E w \in Insertions :
           /\ w.range.location <= n
           /\ Shows(text[c], uiQ[c], PutIn(R[n], w.range.location, Glyph(Identity(w))))
           /\ \/ AtHome(c, w) /\ Ahead(c) = {}
              \/ Underway(c, w) /\ Travels(c, w, H)

\* Log and devices belong to the table.
Agree(H, R) ==
  /\ Table(log, H, R)
  /\ \A c \in Clients : InPlace(global[c], H) /\ (alive[c] => Standing(c, H, R))

\* There is such a table,
AgreeInv == \E H, R : Agree(H, R)

\* ... and with it an inductive invariant.
PairInv == SessionInv /\ InsertInv /\ AgreeInv

\* A change set of one operation.
LEMMA OneIsSome ==
  ASSUME NEW w
  PROVE  <<w>> # << >> /\ Len(<<w>>) = 1 /\ <<w>>[1] = w
OBVIOUS

\* What the invariants say of one device.
LEMMA DeviceRead ==
  ASSUME SessionInv, InsertInv, NEW c \in Clients
  PROVE  /\ TypeOK /\ OnlyInsertions /\ Prefix(c) /\ Signed(c) /\ Carrying(c)
         /\ Len(global[c]) \in Nat /\ Len(log) \in Nat /\ Len(global[c]) <= Len(log)
         /\ undo[c] = << >> /\ redo[c] = << >>
         /\ text[c] \in Seq(Glyphs) /\ uiQ[c] \in Seq(Insertions)
         /\ local[c] \in Seq(Keystrokes) /\ batch[c] \in Seq(Keystrokes)
         /\ stackQ[c] \in Seq(KeyBlocks) /\ global[c] \in Seq(Ops) /\ send[c] \in Seq(Ops)
<1>1. /\ TypeOK /\ Len(global[c]) \in Nat /\ Len(log) \in Nat
      /\ Len(global[c]) <= Len(log)
  BY GlobalInLog
<1>2. OnlyInsertions /\ Prefix(c) /\ Signed(c) /\ Carrying(c)
  BY DEF SessionInv, Session, InsertInv
<1> QED
  BY <1>1, <1>2 DEF TypeOK, OnlyInsertions

\* Between two handlers, a device has nothing in the timer's hands; in turns it has
\* nothing waiting either.
LEMMA TurnIsQuiet ==
  ASSUME SessionInv, InsertInv, NEW c \in Clients, AtTurn(c)
  PROVE  /\ alive[c] /\ timer[c] = "idle" /\ batch[c] = << >>
         /\ "overlap" \notin Freedoms => stackQ[c] = << >> /\ uiQ[c] = << >>
<1>1. alive[c] /\ timer[c] = "idle"
  BY DEF AtTurn, MainFree
<1>2. batch[c] = << >>
  BY <1>1, DeviceRead DEF Carrying
<1> QED
  BY <1>1, <1>2 DEF AtTurn

\* What is shown, in either case.
LEMMA ShowsNow ==
  ASSUME NEW t \in Seq(Glyphs)
  PROVE  Shows(t, << >>, t)
<1>1. Len(t) \in Nat /\ Len(<< >>) = 0
  BY LenProperties, EmptySeq
<1>2. Len(t) + Len(<< >>) = Len(t)
  BY <1>1
<1> QED
  BY <1>2, BecomesNow DEF Shows

LEMMA ShowsMore ==
  ASSUME NEW t \in Seq(Glyphs), NEW queue \in Seq(Insertions), NEW final \in Seq(Glyphs),
         Shows(t, queue, final),
         NEW op \in Insertions, op.range.location <= Len(final)
  PROVE  Shows(t, Append(queue, op), PutIn(final, op.range.location, Glyph(Identity(op))))
<1> DEFINE put == PutIn(final, op.range.location, Glyph(Identity(op)))
<1>1. op.range.location \in 0..Len(final) /\ Glyph(Identity(op)) \in Glyphs
  BY InsertionPuts
<1>2. Len(put) = Len(final) + 1
  BY <1>1, PutInIsText
<1>3. Len(Append(queue, op)) = Len(queue) + 1
  BY AppendProperties
<1>4. Len(t) \in Nat /\ Len(queue) \in Nat /\ Len(final) \in Nat
  BY LenProperties
<1> DEFINE more == Append(queue, op)
<1>5. Becomes(t, queue, final) => Becomes(t, more, put)
  BY BecomesMore
<1> HIDE DEF put, more
<1>6. Len(t) + Len(queue) = Len(final) => Len(t) + Len(more) = Len(put)
  BY <1>2, <1>3, <1>4 DEF more
<1>7. Shows(t, more, put)
  BY <1>5, <1>6 DEF Shows
<1> QED
  BY <1>7 DEF put, more

LEMMA ShowsLess ==
  ASSUME NEW t \in Seq(Glyphs), NEW queue \in Seq(Insertions), queue # << >>,
         Head(queue).range.location <= Len(t), NEW final, Shows(t, queue, final)
  PROVE  Shows(PutIn(t, Head(queue).range.location, Glyph(Identity(Head(queue)))),
               Tail(queue), final)
<1> DEFINE op == Head(queue)
           put == PutIn(t, op.range.location, Glyph(Identity(op)))
           rest == Tail(queue)
<1>1. op \in Insertions /\ Len(rest) = Len(queue) - 1
  BY HeadTailProperties
<1>2. op.range.location \in 0..Len(t) /\ Glyph(Identity(op)) \in Glyphs
  BY <1>1, InsertionPuts
<1>3. Len(put) = Len(t) + 1
  BY <1>2, PutInIsText
<1>4. Len(t) \in Nat /\ Len(queue) \in Nat
  BY LenProperties
<1>5. Becomes(t, queue, final) => Becomes(put, rest, final)
  BY BecomesLess
<1> HIDE DEF put, rest
<1>6. Len(put) + Len(rest) = Len(t) + Len(queue)
  BY <1>1, <1>3, <1>4
<1>7. Shows(put, rest, final)
  BY <1>5, <1>6 DEF Shows
<1> QED
  BY <1>7 DEF put, rest

\* Nothing of d changes.
Same(d) ==
  /\ local'[d] = local[d] /\ send'[d] = send[d] /\ batch'[d] = batch[d]
  /\ stackQ'[d] = stackQ[d] /\ timer'[d] = timer[d] /\ global'[d] = global[d]
  /\ text'[d] = text[d] /\ uiQ'[d] = uiQ[d] /\ (member[d] => member'[d])

\* A device that a step leaves alone stands where it stood, as long as the session
\* holds as many of its operations ahead of it.
LEMMA StandingKept ==
  ASSUME NEW c, NEW H, NEW R, NEW I, NEW S, Standing(c, H, R), Same(c), Ahead(c)' = Ahead(c),
         \A p \in Ahead(c) : log'[p] = log[p] /\ I[p] = H[p],
         S[Len(global[c])] = R[Len(global[c])]
  PROVE  Standing(c, I, S)'
<1> DEFINE n == Len(global[c])
<1>1. Len(global'[c]) = n /\ S[n] = R[n]
  BY DEF Same
<1>2. Clear(c) => Clear(c)'
  BY DEF Clear, OnlyEvents, Same
<1>3. ASSUME NEW w
      PROVE  /\ AtHome(c, w) => AtHome(c, w)'
             /\ Underway(c, w) => Underway(c, w)'
             /\ Travels(c, w, H) => Travels(c, w, I)'
  <2>1. AtHome(c, w) => AtHome(c, w)'
    BY DEF AtHome, OnlyEvents, Same, Refer
  <2>2. Underway(c, w) => Underway(c, w)'
    BY DEF Underway, OnlyEvents, Same
  <2>3. Travels(c, w, H) => Travels(c, w, I)'
    <3> SUFFICES ASSUME Travels(c, w, H)  PROVE Travels(c, w, I)'
      OBVIOUS
    <3>1. PICK p \in Ahead(c) :
            /\ Ahead(c) = {p} /\ Identity(w) = Identity(log[p].op)
            /\ Refers(log[p].op) <= n /\ w.range.location = H[p][n]
      BY DEF Travels
    <3>2. log'[p] = log[p] /\ I[p] = H[p]
      OBVIOUS
    <3> HIDE DEF n
    <3> QED  BY <1>1, <3>1, <3>2 DEF Travels, Identity
  <2> QED  BY <2>1, <2>2, <2>3
<1>4. \A final : Shows(text[c], uiQ[c], final) => Shows(text'[c], uiQ'[c], final)
  BY DEF Same
<1> QED
  BY <1>1, <1>2, <1>3, <1>4 DEF Standing

\* A step of c that sends nothing.
LEMMA AgreeKept ==
  ASSUME NEW H, NEW R, Agree(H, R), NEW c \in Clients, log' = log,
         \A d \in Clients : d # c => Same(d) /\ (alive'[d] => alive[d]),
         InPlace(global'[c], H), alive'[c] => Standing(c, H, R)'
  PROVE  AgreeInv'
<1>1. ASSUME NEW d \in Clients, d # c
      PROVE  InPlace(global'[d], H) /\ (alive'[d] => Standing(d, H, R)')
  <2>1. Same(d) /\ (alive'[d] => alive[d])
    BY <1>1
  <2>2. Ahead(d)' = Ahead(d)
    BY <2>1 DEF Ahead, Same
  <2>3. alive'[d] => Standing(d, H, R)'
    <3> SUFFICES ASSUME alive'[d]  PROVE Standing(d, H, R)'
      OBVIOUS
    <3>1. Standing(d, H, R)
      BY <2>1 DEF Agree
    <3> QED  BY <2>1, <2>2, <3>1, StandingKept
  <2> QED  BY <2>1, <2>3 DEF Agree, Same
<1>2. Agree(H, R)'
  BY <1>1 DEF Agree
<1> QED
  BY <1>2 DEF AgreeInv

\* ... in particular one that leaves c as well what it has.
LEMMA AgreeAside ==
  ASSUME NEW H, NEW R, Agree(H, R), log' = log,
         \A d \in Clients : Same(d) /\ (alive'[d] => alive[d])
  PROVE  AgreeInv'
<1>1. ASSUME NEW d \in Clients
      PROVE  InPlace(global'[d], H) /\ (alive'[d] => Standing(d, H, R)')
  <2>1. Same(d) /\ (alive'[d] => alive[d])
    OBVIOUS
  <2>2. Ahead(d)' = Ahead(d)
    BY <2>1 DEF Ahead, Same
  <2>3. alive'[d] => Standing(d, H, R)'
    <3> SUFFICES ASSUME alive'[d]  PROVE Standing(d, H, R)'
      OBVIOUS
    <3>1. Standing(d, H, R)
      BY <2>1 DEF Agree
    <3> QED  BY <2>1, <2>2, <3>1, StandingKept
  <2> QED  BY <2>1, <2>3 DEF Agree, Same
<1>2. Agree(H, R)'
  BY <1>1 DEF Agree
<1> QED
  BY <1>2 DEF AgreeInv

-----------------------------------------------------------------------------
(* The steps.                                                              *)

\* A sequence of two parts that is empty.
LEMMA BothEmpty ==
  ASSUME NEW S, NEW a \in Seq(S), NEW b \in Seq(S), a \o b = << >>
  PROVE  a = << >> /\ b = << >>
<1>1. Len(a \o b) = Len(a) + Len(b) /\ Len(a) \in Nat /\ Len(b) \in Nat
  BY ConcatProperties, LenProperties
<1>2. Len(a \o b) = 0
  BY EmptySeq
<1>3. Len(a) = 0 /\ Len(b) = 0
  BY <1>1, <1>2
<1> QED
  BY <1>3, EmptySeq

\* With an empty stack queue, a device has worked through what it was handed.
LEMMA WorkedThrough ==
  ASSUME SessionInv, NEW c \in Clients, stackQ[c] = << >>
  PROVE  Len(global[c]) = received[c] /\ received[c] \in Nat
<1>1. /\ TypeOK /\ Prefix(c) /\ Len(global[c]) \in Nat
  BY GlobalInLog DEF SessionInv, Session
<1>2. Places(stackQ[c]) = {}
  BY DEF Places
<1>3. (Len(global[c]) + 1)..received[c] = {} /\ Len(global[c]) <= received[c]
  BY <1>1, <1>2 DEF Prefix
<1>4. received[c] \in Nat
  BY <1>1 DEF TypeOK
<1> QED
  BY <1>1, <1>3, <1>4

\* The texts of the table.
LEMMA TableRead ==
  ASSUME NEW L, NEW H, NEW R, Table(L, H, R), Len(L) \in Nat, NEW n \in 0..Len(L)
  PROVE  R[n] \in Seq(Glyphs) /\ Len(R[n]) = n
<1>1. R \in [Nat -> Seq(Glyphs)] /\ n \in Nat
  BY DEF Table
<1>2. n # 0 => n \in 1..Len(L)
  OBVIOUS
<1>3. n # 0 => Len(R[n]) = n
  BY <1>2 DEF Table, Row
<1>4. n = 0 => Len(R[n]) = n
  BY EmptySeq DEF Table
<1> QED
  BY <1>1, <1>3, <1>4

\* A keystroke joins the local stack of a device that keeps nothing, and is shown.
LEMMA TypeAgrees ==
  ASSUME Calm, UsersInsert, SessionInv, InsertInv, NEW H, NEW R, Agree(H, R),
         NEW c \in Clients, Type(c)
  PROVE  AgreeInv'
<1> DEFINE n == Len(global[c])
<1>1. /\ TypeOK /\ n \in Nat /\ Len(log) \in Nat /\ n <= Len(log)
      /\ undo[c] = << >> /\ redo[c] = << >>
      /\ text[c] \in Seq(Glyphs) /\ local[c] \in Seq(Ops) /\ send[c] \in Seq(Ops)
  BY DeviceRead DEF TypeOK
<1>2. member[c] /\ AtTurn(c) /\ NothingPending(c)
  BY DEF Calm, InTurns, Type, MayInput
<1>3. /\ alive[c] /\ timer[c] = "idle" /\ batch[c] = << >>
      /\ "overlap" \notin Freedoms => stackQ[c] = << >> /\ uiQ[c] = << >>
  BY <1>2, TurnIsQuiet
<1>4. local[c] = << >> /\ send[c] = << >>
  <2>1. local[c] \o send[c] \in Seq(Ops)
    BY <1>1, ConcatProperties
  <2>2. (local[c] \o send[c]) \o << >> = local[c] \o send[c]
    BY <2>1, ConcatEmptySeq
  <2>3. local[c] \o send[c] = << >>
    BY <1>1, <1>2, <2>2 DEF NothingPending
  <2> QED  BY <1>1, <2>3, BothEmpty
<1>5. /\ Clear(c) /\ Ahead(c) = {} /\ Shows(text[c], uiQ[c], R[n])
      /\ R[n] \in Seq(Glyphs) /\ Len(R[n]) = n
  <2>1. Standing(c, H, R) /\ Table(log, H, R)
    BY <1>3 DEF Agree
  <2>2. "fail" \in Freedoms => "overlap" \notin Freedoms
    BY DEF Calm, InTurns
  <2>3. \A w : ~AtHome(c, w) /\ ~Underway(c, w)
    BY <1>3, <1>4, <2>2, OneIsSome DEF AtHome, Underway
  <2>4. R[n] \in Seq(Glyphs) /\ Len(R[n]) = n
    <3> HIDE DEF n
    <3>1. n \in 0..Len(log)
      BY <1>1
    <3> QED  BY <1>1, <2>1, <3>1, TableRead
  <2> QED  BY <2>1, <2>3, <2>4 DEF Standing
<1>6. /\ Len(text[c]) + Len(uiQ[c]) = n
      /\ Len(text[c]) \in Nat /\ Len(uiQ[c]) \in Nat
      /\ "overlap" \notin Freedoms => text[c] = R[n] /\ uiQ[c] = << >>
  <2>1. Len(text[c]) \in Nat /\ Len(uiQ[c]) \in Nat
    BY <1>1, LenProperties
  <2>2. CASE "overlap" \in Freedoms
    BY <1>5, <2>1, <2>2 DEF Shows
  <2>3. CASE "overlap" \notin Freedoms
    <3>1. uiQ[c] = << >> /\ text[c] = R[n]
      BY <1>1, <1>3, <1>5, <2>3, BecomesNow DEF Shows
    <3>2. Len(uiQ[c]) = 0 /\ Len(text[c]) = n
      BY <1>5, <3>1, EmptySeq
    <3> HIDE DEF n
    <3> QED  BY <1>1, <3>1, <3>2
  <2> QED  BY <2>1, <2>2, <2>3
<1>7. PICK op \in Keystrokes :
        /\ op.range.location \in 0..Len(text[c])
        /\ local' = [local EXCEPT ![c] = Append(@, op)]
        /\ text' = [text EXCEPT ![c] = Replace(@, op.range, op.replaceString)]
        /\ UNCHANGED <<member, log, stackQ, uiQ, batch, alive>>
  BY <1>1, <1>2, KeystrokeTyped
<1>8. UNCHANGED <<send, global, timer>>
  BY <1>7 DEF Type, ShouldChangeText, threads
<1>9. local'[c] = <<op>> /\ text'[c] = Replace(text[c], op.range, op.replaceString)
  BY <1>1, <1>4, <1>7 DEF TypeOK
<1> DEFINE put == PutIn(R[n], op.range.location, Glyph(Identity(op)))
           typed == PutIn(text[c], op.range.location, Glyph(Identity(op)))
<1>10. /\ op \in Insertions /\ op.range.location <= n
       /\ text'[c] = typed /\ Len(typed) = Len(text[c]) + 1
       /\ put \in Seq(Glyphs) /\ Len(put) = n + 1
  <2>1. op \in Insertions
    BY DEF Keystrokes, Insertions
  <2>2. op.range.location \in Nat /\ op.range.location <= Len(text[c])
    BY <1>6, <1>7
  <2>3. op.range.location <= n
    <3>1. n \in Nat
      BY <1>1
    <3>2. Len(text[c]) <= n
      <4> DEFINE k == Len(text[c])
                 q == Len(uiQ[c])
      <4>1. k \in Nat /\ q \in Nat /\ k + q = n
        BY <1>6
      <4> HIDE DEF n, k, q
      <4>2. k <= n
        BY <3>1, <4>1
      <4> QED  BY <4>2 DEF k
    <3>3. op.range.location <= Len(text[c]) /\ op.range.location \in Nat
      BY <2>2
    <3> HIDE DEF n
    <3> QED  BY <1>6, <3>1, <3>2, <3>3
  <2>4. op.range.location \in 0..Len(text[c]) /\ Glyph(Identity(op)) \in Glyphs
    BY <1>1, <2>1, <2>2, InsertionPuts
  <2>5. text'[c] = typed /\ Len(typed) = Len(text[c]) + 1
    BY <1>1, <1>9, <2>1, <2>2, <2>4, InsertionPuts, PutInIsText
  <2>6. op.range.location \in 0..Len(R[n])
    BY <1>5, <2>1, <2>3, InsertionPuts
  <2>7. put \in Seq(Glyphs) /\ Len(put) = n + 1
    BY <1>5, <2>4, <2>6, PutInIsText
  <2> QED  BY <2>1, <2>3, <2>5, <2>7
<1>11. Shows(text'[c], uiQ'[c], put)
  <2>1. CASE "overlap" \in Freedoms
    <3>1. uiQ'[c] = uiQ[c] /\ n \in Nat
      BY <1>1, <1>7
    <3>2. Len(text'[c]) = Len(text[c]) + 1 /\ Len(put) = n + 1
      BY <1>10
    <3>3. Len(text'[c]) + Len(uiQ'[c]) = Len(put)
      <4> DEFINE k == Len(text[c])
                 q == Len(uiQ[c])
      <4>1. k \in Nat /\ q \in Nat /\ k + q = n
        BY <1>6
      <4>2. Len(text'[c]) = k + 1 /\ Len(uiQ'[c]) = q /\ Len(put) = n + 1
        BY <3>1, <3>2
      <4> HIDE DEF put, n, k, q
      <4>3. (k + 1) + q = n + 1
        BY <3>1, <4>1
      <4> QED  BY <4>2, <4>3
    <3> QED  BY <2>1, <3>3 DEF Shows
  <2>2. CASE "overlap" \notin Freedoms
    <3>1. uiQ'[c] = << >> /\ text'[c] = put
      BY <1>6, <1>7, <1>10, <2>2
    <3> HIDE DEF put
    <3> QED  BY <1>10, <3>1, ShowsNow
  <2> QED  BY <2>1, <2>2
<1>12. AtHome(c, op)' /\ Ahead(c)' = {}
  <2>1. Ahead(c)' = Ahead(c)
    BY <1>7, <1>8 DEF Ahead
  <2>2. send'[c] = << >> /\ batch'[c] = << >> /\ stackQ'[c] = stackQ[c] /\ member'[c]
    BY <1>2, <1>3, <1>4, <1>7, <1>8
  <2>3. OnlyEvents(stackQ[c])'
    BY <1>5, <2>2 DEF OnlyEvents, Clear
  <2> QED  BY <1>5, <1>9, <2>1, <2>2, <2>3 DEF AtHome
<1>13. Standing(c, H, R)'
  BY <1>8, <1>10, <1>11, <1>12 DEF Standing
<1>14. \A d \in Clients : d # c => Same(d) /\ (alive'[d] => alive[d])
  BY <1>7, <1>8 DEF Same
<1>15. InPlace(global'[c], H)
  BY <1>8 DEF Agree
<1> QED
  BY <1>7, <1>13, <1>14, <1>15, AgreeKept

\* The timer takes the change set; the operation that is put back stays at home.
LEMMA GetLocalChangeSetAgrees ==
  ASSUME Calm, SessionInv, InsertInv, NEW H, NEW R, Agree(H, R),
         NEW c \in Clients, GetLocalChangeSet(c)
  PROVE  AgreeInv'
<1> DEFINE n == Len(global[c])
<1>1. /\ TypeOK /\ Prefix(c) /\ undo[c] = << >> /\ redo[c] = << >>
      /\ local[c] \in Seq(Keystrokes) /\ local[c] \in Seq(Ops) /\ global[c] \in Seq(Ops)
  BY DeviceRead DEF TypeOK
<1>2. AtTurn(c)
  BY DEF GetLocalChangeSet
<1>3. /\ alive[c] /\ timer[c] = "idle" /\ batch[c] = << >>
      /\ "overlap" \notin Freedoms => stackQ[c] = << >>
  BY <1>2, TurnIsQuiet
<1>4. local[c] # << >>
  BY <1>1 DEF GetLocalChangeSet
<1>5. /\ batch' = [batch EXCEPT ![c] =
                     [i \in DOMAIN local[c] |-> [local[c][i] EXCEPT !.referID = Refer(c)]]]
      /\ local' = [local EXCEPT ![c] = << >>]
      /\ timer' = [timer EXCEPT ![c] = "taken"]
      /\ UNCHANGED <<member, log, text, send, global, stackQ, uiQ, alive>>
  BY <1>4 DEF GetLocalChangeSet
<1>6. Refer(c) \in Nat \cup {NoRefer}
  <2>1. CASE global[c] # << >>
    <3>1. Len(global[c]) \in 1..Len(global[c])
      BY <1>1, <2>1, LenProperties, EmptySeq
    <3>2. global[c][Len(global[c])] \in Ops
      BY <1>1, <3>1, ElementOfSeq
    <3> QED  BY <2>1, <3>2 DEF Refer, Ops, Operations
  <2> QED  BY <2>1 DEF Refer
<1>7. PICK w \in Insertions :
        /\ w.range.location <= n
        /\ Shows(text[c], uiQ[c], PutIn(R[n], w.range.location, Glyph(Identity(w))))
        /\ local[c] = <<w>> /\ send[c] = << >> /\ Ahead(c) = {}
        /\ member[c] /\ OnlyEvents(stackQ[c])
  BY <1>3, <1>4, OneIsSome DEF Agree, Standing, Clear, AtHome, Underway
<1>8. w \in Keystrokes
  <2>1. 1 \in 1..Len(local[c]) /\ local[c][1] = w
    BY <1>7, OneIsSome
  <2> QED  BY <1>1, <2>1, ElementOfSeq
<1>9. PICK sent \in Insertions :
        /\ sent = [w EXCEPT !.referID = Refer(c)]
        /\ sent.range = w.range /\ Identity(sent) = Identity(w) /\ sent.referID = Refer(c)
  <2> DEFINE sent == [w EXCEPT !.referID = Refer(c)]
  <2>1. sent \in Keystrokes
    BY <1>6, <1>8, KeystrokeReferred
  <2>2. w \in Ops
    BY <1>8 DEF Keystrokes
  <2>3. /\ sent.range = w.range /\ sent.participantID = w.participantID
        /\ sent.operationID = w.operationID /\ sent.referID = Refer(c)
    BY <2>2 DEF Ops, Operations
  <2>4. sent = [w EXCEPT !.referID = Refer(c)]
    OBVIOUS
  <2> HIDE DEF sent
  <2> QED  BY <2>1, <2>3, <2>4 DEF Keystrokes, Insertions, Identity
<1>10. batch'[c] = <<sent>> /\ local'[c] = << >> /\ timer'[c] = "taken"
  <2>1. [i \in DOMAIN <<w>> |-> [<<w>>[i] EXCEPT !.referID = Refer(c)]] = <<sent>>
    BY <1>9
  <2>2. /\ batch'[c] = [i \in DOMAIN local[c] |-> [local[c][i] EXCEPT !.referID = Refer(c)]]
        /\ local'[c] = << >> /\ timer'[c] = "taken"
    BY <1>1, <1>5 DEF TypeOK
  <2> QED  BY <1>7, <2>1, <2>2
<1>11. AtHome(c, sent)' /\ Ahead(c)' = {}
  <2>1. Refer(c)' = Refer(c) /\ Ahead(c)' = Ahead(c)
    BY <1>5 DEF Refer, Ahead
  <2>2. sent.referID = Refer(c)'
    BY <1>9, <2>1
  <2>3. /\ send'[c] = << >> /\ member'[c] /\ stackQ'[c] = stackQ[c]
        /\ "fail" \in Freedoms => stackQ'[c] = << >>
    BY <1>3, <1>5, <1>7 DEF Calm, InTurns
  <2>4. OnlyEvents(stackQ[c])'
    BY <1>7, <2>3 DEF OnlyEvents
  <2> QED  BY <1>7, <1>10, <2>1, <2>2, <2>3, <2>4 DEF AtHome
<1>12. Standing(c, H, R)'
  <2>1. Shows(text'[c], uiQ'[c], PutIn(R[n], sent.range.location, Glyph(Identity(sent))))
    BY <1>5, <1>7, <1>9
  <2> QED  BY <1>5, <1>7, <1>9, <1>11, <2>1 DEF Standing
<1>13. \A d \in Clients : d # c => Same(d) /\ (alive'[d] => alive[d])
  BY <1>5 DEF Same
<1>14. InPlace(global'[c], H)
  BY <1>5 DEF Agree
<1> QED
  BY <1>5, <1>12, <1>13, <1>14, AgreeKept

\* A refused change set is queued to come back.
LEMMA RefuseLocalAgrees ==
  ASSUME SessionInv, InsertInv, NEW H, NEW R, Agree(H, R), NEW c \in Clients, RefuseLocal(c)
  PROVE  AgreeInv'
<1> DEFINE n == Len(global[c])
<1>1. /\ TypeOK /\ Carrying(c)
  BY DeviceRead
<1>2. /\ alive[c] /\ timer[c] = "taken"
      /\ DispatchBack(c, "local", batch[c]) /\ (~member[c] \/ "fail" \in Freedoms)
      /\ batch' = [batch EXCEPT ![c] = << >>]
      /\ timer' = [timer EXCEPT ![c] = "undoRedo"]
      /\ UNCHANGED <<member, log, text, local, send, global, uiQ>>
  BY DEF RefuseLocal, Refusable, stacks
<1>3. batch[c] # << >>
  BY <1>1, <1>2 DEF Carrying
<1>4. PICK w \in Insertions :
        /\ w.range.location <= n
        /\ Shows(text[c], uiQ[c], PutIn(R[n], w.range.location, Glyph(Identity(w))))
        /\ local[c] = << >> /\ send[c] = << >> /\ batch[c] = <<w>> /\ stackQ[c] = << >>
        /\ Ahead(c) = {} /\ member[c] /\ "fail" \in Freedoms
  BY <1>2, <1>3 DEF Agree, Standing, Clear, AtHome, Underway
<1>5. alive'[c] => Standing(c, H, R)'
  <2> SUFFICES ASSUME alive'[c]  PROVE Standing(c, H, R)'
    OBVIOUS
  <2>1. queueMade[c]
    BY <1>1, <1>2 DEF DispatchBack, TypeOK
  <2> DEFINE block == [kind |-> "local", at |-> 0, ops |-> <<w>>]
  <2>2. stackQ'[c] = <<block>> /\ block.kind = "local" /\ block.ops = <<w>>
    BY <1>1, <1>2, <1>4, <2>1 DEF DispatchBack, TypeOK
  <2> HIDE DEF block
  <2>3. <<block>> # << >> /\ Head(<<block>>) = block /\ Tail(<<block>>) = << >>
    OBVIOUS
  <2>4. OnlyEvents(Tail(stackQ'[c]))
    BY <2>2, <2>3, EmptySeq DEF OnlyEvents
  <2>5. batch'[c] = << >> /\ local'[c] = << >> /\ send'[c] = << >> /\ Ahead(c)' = {} /\ member'[c]
    BY <1>1, <1>2, <1>4 DEF TypeOK, Ahead
  <2>6. AtHome(c, w)'
    BY <1>4, <2>2, <2>3, <2>4, <2>5 DEF AtHome, OnlyEvents
  <2> QED  BY <1>2, <1>4, <2>5, <2>6 DEF Standing
<1>6. \A d \in Clients : d # c => Same(d) /\ (alive'[d] => alive[d])
  BY <1>1, <1>2 DEF Same, DispatchBack, TypeOK
<1> QED
  BY <1>2, <1>5, <1>6, AgreeKept DEF Agree

\* What was sent waits for its confirmation.
LEMMA PutIntoSendStackAgrees ==
  ASSUME SessionInv, InsertInv, NEW H, NEW R, Agree(H, R),
         NEW c \in Clients, PutIntoSendStack(c)
  PROVE  AgreeInv'
<1> DEFINE n == Len(global[c])
<1>1. /\ TypeOK /\ Carrying(c)
  BY DeviceRead
<1>2. /\ alive[c] /\ timer[c] = "sent"
      /\ send' = [send EXCEPT ![c] =
           send[c] \o [i \in DOMAIN batch[c] |-> [batch[c][i] EXCEPT !.state = "SEND"]]]
      /\ batch' = [batch EXCEPT ![c] = << >>]
      /\ timer' = [timer EXCEPT ![c] = "undoRedo"]
      /\ UNCHANGED <<member, log, text, local, global, stackQ, uiQ, alive>>
  BY DEF PutIntoSendStack
<1>3. batch[c] # << >>
  BY <1>1, <1>2 DEF Carrying
<1>4. PICK w \in Insertions :
        /\ w.range.location <= n
        /\ Shows(text[c], uiQ[c], PutIn(R[n], w.range.location, Glyph(Identity(w))))
        /\ local[c] = << >> /\ send[c] = << >> /\ batch[c] = <<w>> /\ OnlyEvents(stackQ[c])
        /\ Travels(c, w, H)
  BY <1>2, <1>3 DEF Agree, Standing, Clear, AtHome, Underway
<1>5. PICK sent \in Insertions :
        /\ sent = [w EXCEPT !.state = "SEND"]
        /\ sent.range = w.range /\ Identity(sent) = Identity(w)
  <2> DEFINE sent == [w EXCEPT !.state = "SEND"]
  <2>1. w \in Ops /\ Insertion(w)
    BY DEF Insertions
  <2>2. sent \in Ops
    BY <2>1 DEF Ops, Operations, States
  <2>3. /\ sent.range = w.range /\ sent.participantID = w.participantID
        /\ sent.operationID = w.operationID /\ sent.replaceString = w.replaceString
        /\ sent.originalString = w.originalString
    BY <2>1 DEF Ops, Operations
  <2>4. sent = [w EXCEPT !.state = "SEND"]
    OBVIOUS
  <2> HIDE DEF sent
  <2>5. Identity(sent) = Identity(w)
    BY <2>3 DEF Identity
  <2>6. sent \in Insertions
    BY <2>1, <2>2, <2>3, <2>5 DEF Insertions, Insertion
  <2> QED  BY <2>3, <2>4, <2>5, <2>6
<1>6. send'[c] = <<sent>> /\ batch'[c] = << >>
  <2>1. [i \in DOMAIN <<w>> |-> [<<w>>[i] EXCEPT !.state = "SEND"]] = <<sent>>
    BY <1>5
  <2>2. << >> \o <<sent>> = <<sent>>
    OBVIOUS
  <2>3. /\ send'[c] = send[c] \o
                        [i \in DOMAIN batch[c] |-> [batch[c][i] EXCEPT !.state = "SEND"]]
        /\ batch'[c] = << >>
    BY <1>1, <1>2 DEF TypeOK
  <2> QED  BY <1>4, <2>1, <2>2, <2>3
<1>7. Underway(c, sent)'
  BY <1>2, <1>4, <1>6 DEF Underway, OnlyEvents
<1>8. Travels(c, sent, H)'
  <2>1. PICK p \in Ahead(c) :
          /\ Ahead(c) = {p} /\ Identity(w) = Identity(log[p].op)
          /\ Refers(log[p].op) <= n /\ w.range.location = H[p][n]
    BY <1>4 DEF Travels
  <2>2. Ahead(c)' = Ahead(c) /\ log' = log /\ global' = global
    BY <1>2 DEF Ahead
  <2>3. Identity(sent) = Identity(log'[p].op) /\ sent.range.location = H[p][Len(global'[c])]
    BY <1>5, <2>1, <2>2
  <2> QED  BY <2>1, <2>2, <2>3 DEF Travels, Identity
<1>9. Standing(c, H, R)'
  <2>1. Shows(text'[c], uiQ'[c], PutIn(R[n], sent.range.location, Glyph(Identity(sent))))
    BY <1>2, <1>4, <1>5
  <2> QED  BY <1>2, <1>4, <1>5, <1>7, <1>8, <2>1 DEF Standing
<1>10. \A d \in Clients : d # c => Same(d) /\ (alive'[d] => alive[d])
  BY <1>2 DEF Same
<1> QED
  BY <1>2, <1>9, <1>10, AgreeKept DEF Agree

\* There is no undo and no redo to send.
LEMMA SendUndoAndRedoAgrees ==
  ASSUME SessionInv, InsertInv, NEW H, NEW R, Agree(H, R),
         NEW c \in Clients, SendUndoAndRedo(c)
  PROVE  AgreeInv'
<1>1. /\ TypeOK /\ undo[c] = << >> /\ redo[c] = << >>
  BY DeviceRead
<1>2. /\ timer[c] = "undoRedo" /\ alive[c]
      /\ timer' = [timer EXCEPT ![c] = "idle"]
      /\ UNCHANGED <<member, log, text, local, send, global, stackQ, uiQ, batch, alive>>
  BY <1>1 DEF SendUndoAndRedo
<1>3. Standing(c, H, R)
  BY <1>2 DEF Agree
<1>4. Standing(c, H, R)'
  <2>1. Clear(c) => Clear(c)'
    BY <1>2 DEF Clear, OnlyEvents
  <2>2. \A w : AtHome(c, w) => AtHome(c, w)'
    BY <1>2 DEF AtHome, OnlyEvents
  <2>3. \A w : Underway(c, w) => Underway(c, w)'
    BY <1>2 DEF Underway, OnlyEvents
  <2>4. \A w : Travels(c, w, H) => Travels(c, w, H)'
    BY <1>2 DEF Travels, Ahead, Identity
  <2>5. Ahead(c)' = Ahead(c)
    BY <1>2 DEF Ahead
  <2> QED  BY <1>2, <1>3, <2>1, <2>2, <2>3, <2>4, <2>5 DEF Standing
<1>5. \A d \in Clients : d # c => Same(d) /\ (alive'[d] => alive[d])
  BY <1>2 DEF Same
<1> QED
  BY <1>2, <1>4, <1>5, AgreeKept DEF Agree

\* Events join the stack queue behind what is there.
LEMMA EventsJoin ==
  ASSUME NEW queue \in Seq(KeyBlocks), NEW more \in Seq(KeyBlocks), OnlyEvents(more)
  PROVE  /\ OnlyEvents(queue) => OnlyEvents(queue \o more)
         /\ queue # << >> =>
              /\ queue \o more # << >> /\ Head(queue \o more) = Head(queue)
              /\ OnlyEvents(Tail(queue)) => OnlyEvents(Tail(queue \o more))
<1> DEFINE all == queue \o more
           n == Len(queue)
           m == Len(more)
<1>1. /\ all \in Seq(KeyBlocks) /\ Len(all) = n + m /\ n \in Nat /\ m \in Nat
      /\ \A i \in 1..(n + m) : all[i] = IF i <= n THEN queue[i] ELSE more[i - n]
  BY ConcatProperties, LenProperties
<1>2. \A i \in 1..m : more[i].kind = "new"
  BY DEF OnlyEvents
<1> HIDE DEF all
<1>3. \A i \in 1..(n + m) : i <= n => i \in 1..n
  BY <1>1
<1>4. \A i \in 1..(n + m) : ~(i <= n) => all[i].kind = "new"
  <2>1. \A i \in 1..(n + m) : ~(i <= n) => i - n \in 1..m
    BY <1>1
  <2> QED  BY <1>1, <1>2, <2>1
<1>5. OnlyEvents(queue) => OnlyEvents(all)
  BY <1>1, <1>3, <1>4 DEF OnlyEvents
<1>6. ASSUME queue # << >>
      PROVE  /\ all # << >> /\ Head(all) = Head(queue)
             /\ OnlyEvents(Tail(queue)) => OnlyEvents(Tail(all))
  <2>1. n # 0 /\ n + m # 0
    BY <1>1, <1>6, EmptySeq
  <2>2. all # << >>
    BY <1>1, <2>1, EmptySeq
  <2>3. /\ Head(queue) = queue[1] /\ Len(Tail(queue)) = n - 1
        /\ \A i \in 1..(n - 1) : Tail(queue)[i] = queue[i + 1]
    BY <1>6, HeadTailProperties
  <2>4. /\ Head(all) = all[1] /\ Len(Tail(all)) = n + m - 1
        /\ \A i \in 1..(n + m - 1) : Tail(all)[i] = all[i + 1]
    BY <1>1, <2>2, HeadTailProperties
  <2>5. 1 \in 1..(n + m) /\ 1 <= n
    BY <1>1, <2>1
  <2>6. Head(all) = Head(queue)
    BY <1>1, <2>3, <2>4, <2>5
  <2> HIDE DEF n, m
  <2>7. ASSUME OnlyEvents(Tail(queue)), NEW i \in 1..(n + m - 1)
        PROVE  Tail(all)[i].kind = "new"
    <3>1. i + 1 \in 1..(n + m)
      BY <1>1
    <3>2. CASE i + 1 <= n
      <4>1. i \in 1..(n - 1)
        BY <1>1, <3>2
      <4> QED  BY <1>1, <2>3, <2>4, <2>7, <3>1, <3>2, <4>1 DEF OnlyEvents
    <3>3. CASE ~(i + 1 <= n)
      BY <1>4, <2>4, <3>1, <3>3
    <3> QED  BY <3>2, <3>3
  <2>8. OnlyEvents(Tail(queue)) => OnlyEvents(Tail(all))
    BY <2>4, <2>7 DEF OnlyEvents
  <2> QED  BY <2>2, <2>6, <2>8
<1> QED
  BY <1>5, <1>6 DEF all

\* An event joins the stack queue.
LEMMA ReceivedEventAgrees ==
  ASSUME Calm, SessionInv, InsertInv, NEW H, NEW R, Agree(H, R),
         NEW c \in Clients, ReceivedEvent(c)
  PROVE  AgreeInv'
<1>1. PICK last \in (received[c] + 1)..Len(log) :
        stackQ' = [stackQ EXCEPT ![c] =
          stackQ[c] \o [i \in 1..(last - received[c]) |->
                          [kind |-> "new", at |-> received[c] + i, ops |-> << >>]]]
  BY DEF ReceivedEvent
<1>2. /\ alive[c] /\ timer[c] = "idle"
      /\ UNCHANGED <<member, log, text, local, send, global, uiQ, batch, timer, alive>>
  BY DEF ReceivedEvent, stacks, Calm, InTurns, Undisturbed
<1> DEFINE n == last - received[c]
           e(i) == [kind |-> "new", at |-> received[c] + i, ops |-> << >>]
           event == [i \in 1..n |-> e(i)]
<1>3. received[c] \in Nat /\ n \in Nat /\ stackQ[c] \in Seq(KeyBlocks) /\ TypeOK
  <2>1. TypeOK /\ Len(log) \in Nat /\ stackQ[c] \in Seq(KeyBlocks)
    BY DeviceRead
  <2>2. received[c] \in Nat
    BY <2>1 DEF TypeOK
  <2> QED  BY <2>1, <2>2
<1>4. stackQ'[c] = stackQ[c] \o event /\ \A d \in Clients : d # c => stackQ'[d] = stackQ[d]
  BY <1>1, <1>3 DEF TypeOK
<1> HIDE DEF n
<1>5. \A i \in 1..n : e(i) \in KeyBlocks /\ e(i).kind = "new"
  <2>1. << >> \in Seq(Keystrokes)
    BY EmptySeq
  <2>2. \A i \in 1..n : received[c] + i \in Nat
    BY <1>3
  <2> QED  BY <2>1, <2>2 DEF KeyBlocks
<1> HIDE DEF e
<1>6. event \in Seq(KeyBlocks) /\ OnlyEvents(event)
  <2>1. event \in Seq(KeyBlocks)
    BY <1>3, <1>5, IsASeq
  <2>2. Len(event) = n
    BY <1>3
  <2> QED  BY <1>5, <2>1, <2>2 DEF OnlyEvents
<1> HIDE DEF event
<1>7. /\ OnlyEvents(stackQ[c]) => OnlyEvents(stackQ'[c])
      /\ stackQ[c] # << >> =>
           /\ stackQ'[c] # << >> /\ Head(stackQ'[c]) = Head(stackQ[c])
           /\ OnlyEvents(Tail(stackQ[c])) => OnlyEvents(Tail(stackQ'[c]))
  BY <1>3, <1>4, <1>6, EventsJoin
<1>8. Standing(c, H, R)
  BY <1>2 DEF Agree
<1>9. Standing(c, H, R)'
  <2>1. Clear(c) => Clear(c)'
    BY <1>2, <1>7 DEF Clear, OnlyEvents
  <2>2. \A w : AtHome(c, w) => AtHome(c, w)'
    BY <1>2, <1>7 DEF AtHome, OnlyEvents
  <2>3. \A w : Underway(c, w) => Underway(c, w)'
    BY <1>2, <1>7 DEF Underway, OnlyEvents
  <2>4. \A w : Travels(c, w, H) => Travels(c, w, H)'
    BY <1>2 DEF Travels, Ahead, Identity
  <2>5. Ahead(c)' = Ahead(c)
    BY <1>2 DEF Ahead
  <2> QED  BY <1>2, <1>8, <2>1, <2>2, <2>3, <2>4, <2>5 DEF Standing
<1>10. \A d \in Clients : d # c => Same(d) /\ (alive'[d] => alive[d])
  BY <1>2, <1>4 DEF Same
<1> QED
  BY <1>2, <1>9, <1>10, AgreeKept DEF Agree

\* A refused change set is back in the local stack.
LEMMA AddBackAgrees ==
  ASSUME Calm, SessionInv, InsertInv, NEW H, NEW R, Agree(H, R),
         NEW c \in Clients, AddBack(c)
  PROVE  AgreeInv'
<1> DEFINE n == Len(global[c])
           head == Head(stackQ[c])
           rest == Tail(stackQ[c])
<1>1. /\ TypeOK /\ stackQ[c] \in Seq(KeyBlocks) /\ stackQ[c] # << >>
      /\ alive[c] /\ timer[c] = "idle"
  BY DeviceRead DEF AddBack, Calm, InTurns, Undisturbed
<1>2. head \in KeyBlocks /\ head = stackQ[c][1] /\ 1 \in 1..Len(stackQ[c])
  BY <1>1, HeadTailProperties, LenProperties, EmptySeq
<1>3. head.kind \in {"new", "local"}
  BY <1>2 DEF KeyBlocks
<1>4. /\ head.kind = "local"
      /\ local' = [local EXCEPT ![c] = head.ops \o local[c]]
      /\ stackQ' = [stackQ EXCEPT ![c] = rest]
      /\ UNCHANGED <<member, log, text, send, global, uiQ, timer, batch, alive>>
  BY <1>3 DEF AddBack
<1>5. ~OnlyEvents(stackQ[c])
  BY <1>2, <1>4 DEF OnlyEvents
<1>6. PICK w \in Insertions :
        /\ w.range.location <= n
        /\ Shows(text[c], uiQ[c], PutIn(R[n], w.range.location, Glyph(Identity(w))))
        /\ local[c] = << >> /\ send[c] = << >> /\ batch[c] = << >>
        /\ head.ops = <<w>> /\ OnlyEvents(rest) /\ Ahead(c) = {}
        /\ member[c]
  <2> HIDE DEF head, rest, n
  <2>1. Standing(c, H, R)
    BY <1>1 DEF Agree
  <2> QED  BY <1>1, <1>5, <2>1 DEF Standing, Clear, AtHome, Underway, head, rest, n
<1>7. local'[c] = <<w>> /\ stackQ'[c] = rest
  <2>1. <<w>> \o << >> = <<w>>
    OBVIOUS
  <2>2. local'[c] = head.ops \o local[c] /\ stackQ'[c] = rest
    BY <1>1, <1>4 DEF TypeOK
  <2> QED  BY <1>6, <2>1, <2>2
<1> HIDE DEF head, rest
<1>8. AtHome(c, w)' /\ Ahead(c)' = {}
  <2>1. OnlyEvents(stackQ[c])'
    BY <1>6, <1>7 DEF OnlyEvents
  <2>2. Ahead(c)' = Ahead(c)
    BY <1>4 DEF Ahead
  <2> QED  BY <1>4, <1>6, <1>7, <2>1, <2>2 DEF AtHome
<1>9. Standing(c, H, R)'
  BY <1>4, <1>6, <1>8 DEF Standing
<1>10. \A d \in Clients : d # c => Same(d) /\ (alive'[d] => alive[d])
  BY <1>4 DEF Same
<1> QED
  BY <1>4, <1>9, <1>10, AgreeKept DEF Agree

\* The next operation is shown.
LEMMA UpdateInputViewAgrees ==
  ASSUME SessionInv, InsertInv, NEW H, NEW R, Agree(H, R),
         NEW c \in Clients, UpdateInputView(c)
  PROVE  AgreeInv'
<1> DEFINE n == Len(global[c])
           op == Head(uiQ[c])
           rest == Tail(uiQ[c])
           put == PutIn(text[c], op.range.location, Glyph(Identity(op)))
<1>1. /\ TypeOK /\ text[c] \in Seq(Glyphs) /\ uiQ[c] \in Seq(Insertions)
  BY DeviceRead
<1>2. /\ alive[c] /\ uiQ[c] # << >>
      /\ uiQ' = [uiQ EXCEPT ![c] = rest]
      /\ UNCHANGED <<member, log, local, send, global, stackQ, timer, batch>>
      /\ \/ /\ Within(op.range, text[c])
            /\ text' = [text EXCEPT ![c] = Replace(@, op.range, op.replaceString)]
            /\ UNCHANGED alive
         \/ ~Within(op.range, text[c]) /\ alive' = [alive EXCEPT ![c] = FALSE] /\ UNCHANGED text
  BY DEF UpdateInputView, MainFree, stacks
<1>3. op \in Insertions
  BY <1>1, <1>2, HeadTailProperties
<1>4. Standing(c, H, R)
  BY <1>2 DEF Agree
<1>5. alive'[c] => /\ text'[c] = put /\ uiQ'[c] = rest
                   /\ op.range.location <= Len(text[c])
  <2> SUFFICES ASSUME alive'[c]
               PROVE  /\ text'[c] = put /\ uiQ'[c] = rest
                      /\ op.range.location <= Len(text[c])
    OBVIOUS
  <2>1. Within(op.range, text[c]) /\ text'[c] = Replace(text[c], op.range, op.replaceString)
    BY <1>1, <1>2 DEF TypeOK
  <2>2. op.range.location <= Len(text[c])
    <3>1. op.range \in EmptyRanges
      BY <1>3 DEF Insertions, Insertion
    <3>2. op.range.length = 0 /\ op.range.location \in Nat /\ Len(text[c]) \in Nat
      BY <1>1, <3>1, LenProperties DEF EmptyRanges, Ranges
    <3> HIDE DEF op
    <3> QED  BY <2>1, <3>2 DEF Within
  <2>3. text'[c] = put
    BY <1>1, <1>3, <2>1, <2>2, InsertionPuts
  <2>4. uiQ'[c] = rest
    BY <1>1, <1>2 DEF TypeOK
  <2> QED  BY <2>2, <2>3, <2>4
<1>6. ASSUME op.range.location <= Len(text[c]), NEW final, Shows(text[c], uiQ[c], final)
      PROVE  Shows(put, rest, final)
  BY <1>1, <1>2, <1>6, ShowsLess
<1> HIDE DEF put, rest
<1>7. alive'[c] => Standing(c, H, R)'
  <2> SUFFICES ASSUME alive'[c]  PROVE Standing(c, H, R)'
    OBVIOUS
  <2>1. \A final : Shows(text[c], uiQ[c], final) => Shows(text'[c], uiQ'[c], final)
    BY <1>5, <1>6
  <2>2. Clear(c) => Clear(c)'
    BY <1>2 DEF Clear, OnlyEvents
  <2>3. \A w : AtHome(c, w) => AtHome(c, w)'
    BY <1>2 DEF AtHome, OnlyEvents, Refer
  <2>4. \A w : Underway(c, w) => Underway(c, w)'
    BY <1>2 DEF Underway, OnlyEvents
  <2>5. \A w : Travels(c, w, H) => Travels(c, w, H)'
    BY <1>2 DEF Travels, Ahead, Identity
  <2>6. Ahead(c)' = Ahead(c)
    BY <1>2 DEF Ahead
  <2> QED  BY <1>2, <1>4, <2>1, <2>2, <2>3, <2>4, <2>5, <2>6 DEF Standing
<1>8. \A d \in Clients : d # c => Same(d) /\ (alive'[d] => alive[d])
  BY <1>1, <1>2 DEF Same, TypeOK
<1> QED
  BY <1>2, <1>7, <1>8, AgreeKept DEF Agree

\* The change set joins the session: its operation is the next row of the table.
LEMMA BroadcastFollows ==
  ASSUME TypeOK, NEW H, NEW R, Table(log, H, R), NEW w \in Ops, NEW c, w.participantID = c,
         w.state \in LogStates, log' = log \o Event(<<w>>)
  PROVE  Follows(log, log', w)
<1> DEFINE m == Len(log)
           event == Event(<<w>>)
           next == IF log = << >> THEN 1 ELSE log[m].order + 1
<1>1. <<w>> \in Seq(Ops) /\ Marked(<<w>>, c, LogStates) /\ Len(<<w>>) = 1 /\ <<w>>[1] = w
  BY OneIsSome DEF Marked
<1>2. /\ Len(log') = m + 1 /\ m \in Nat
      /\ \A k \in 1..m : log'[k] = log[k]
      /\ log'[m + 1].op = w
  <2>1. /\ Len(log') = m + Len(<<w>>) /\ m \in Nat
        /\ \A k \in 1..m : log'[k] = log[k]
        /\ \A i \in 1..Len(<<w>>) : log'[m + i].op = <<w>>[i]
    BY <1>1, EventGrows
  <2>2. 1 \in 1..Len(<<w>>)
    BY <1>1
  <2> QED  BY <1>1, <2>1, <2>2
<1>3. /\ log \in Logs /\ event \in Logs /\ Len(event) = 1
  BY <1>1, EventType
<1>4. event[1].order = next
  BY <1>1 DEF Event
<1>5. next = m + 1
  <2>1. CASE log = << >>
    BY <1>2, <2>1, EmptySeq
  <2>2. CASE log # << >>
    <3>1. m # 0
      BY <1>3, <2>2, EmptySeq DEF Logs
    <3>2. m \in 1..m
      BY <1>2, <3>1
    <3>3. log[m].order = m
      BY <3>2 DEF Table, Row
    <3> QED  BY <2>2, <3>3
  <2> QED  BY <2>1, <2>2
<1> HIDE DEF event, next
<1>6. log'[m + 1] = event[1]
  <2>1. m + 1 \in 1..(m + 1) /\ ~(m + 1 <= m) /\ (m + 1) - m = 1
    BY <1>2
  <2>2. /\ \A k \in 1..(Len(log) + Len(event)) :
             (log \o event)[k] = IF k <= Len(log) THEN log[k] ELSE event[k - Len(log)]
    BY <1>3, ConcatProperties DEF Logs
  <2>3. (log \o event)[m + 1] = event[1]
    BY <1>3, <2>1, <2>2
  <2> QED  BY <2>3 DEF event
<1> QED
  BY <1>2, <1>4, <1>5, <1>6 DEF Follows

\* A device sends knowing of all it has worked through, which is where it stands.
LEMMA ReferIsLast ==
  ASSUME NEW H, NEW c \in Clients, global[c] \in Seq(Ops), InPlace(global[c], H),
         NEW w, w.referID = Refer(c)
  PROVE  w.referID # 0 /\ Refers(w) = Len(global[c])
<1>1. Len(global[c]) \in Nat
  BY LenProperties
<1>2. CASE global[c] = << >>
  BY <1>2, EmptySeq DEF Refers, Refer, NoRefer
<1>3. CASE global[c] # << >>
  <2>1. Len(global[c]) \in 1..Len(global[c])
    BY <1>1, <1>3, EmptySeq
  <2>2. global[c][Len(global[c])].globalID = Len(global[c])
    BY <2>1 DEF InPlace
  <2>3. w.referID = Len(global[c]) /\ Len(global[c]) # 0
    BY <1>3, <2>1, <2>2 DEF Refer
  <2> QED  BY <1>1, <2>3 DEF Refers, NoRefer
<1> QED
  BY <1>2, <1>3

\* A broadcast change set is in the session; a refused one stays where it is.
LEMMA BroadcastLocalAgrees ==
  ASSUME SessionInv, InsertInv, NEW H, NEW R, Agree(H, R), NEW c \in Clients, BroadcastLocal(c)
  PROVE  AgreeInv'
<1> DEFINE n == Len(global[c])
           m == Len(log)
<1>1. /\ TypeOK /\ Carrying(c) /\ Signed(c) /\ n \in Nat /\ m \in Nat /\ n <= m
      /\ global[c] \in Seq(Ops)
  BY DeviceRead
<1>2. /\ alive[c] /\ timer[c] = "taken" /\ log' = log \o Event(batch[c])
      /\ timer' = [timer EXCEPT ![c] = "sent"]
      /\ UNCHANGED <<member, text, local, send, global, stackQ, uiQ, batch, alive>>
  BY DEF BroadcastLocal, stacks
<1>3. batch[c] # << >>
  BY <1>1, <1>2 DEF Carrying
<1>4. PICK w \in Insertions :
        /\ w.range.location <= n
        /\ Shows(text[c], uiQ[c], PutIn(R[n], w.range.location, Glyph(Identity(w))))
        /\ local[c] = << >> /\ send[c] = << >> /\ batch[c] = <<w>> /\ OnlyEvents(stackQ[c])
        /\ w.referID = Refer(c) /\ Ahead(c) = {}
  BY <1>2, <1>3 DEF Agree, Standing, Clear, AtHome, Underway
<1>5. w \in Ops /\ w.participantID = c /\ w.state \in LogStates
  <2>1. 1 \in 1..Len(batch[c]) /\ batch[c][1] = w
    BY <1>4, OneIsSome
  <2>2. w.participantID = c /\ w.state \in {"LOCAL"}
    BY <1>1, <2>1 DEF Signed, Marked
  <2> QED  BY <2>2 DEF Insertions, LogStates
<1>6. Table(log, H, R) /\ \A d \in Clients : InPlace(global[d], H)
  BY DEF Agree
<1>7. Follows(log, log', w)
  BY <1>1, <1>2, <1>4, <1>5, <1>6, BroadcastFollows
<1>8. w.referID # 0 /\ Refers(w) = n
  BY <1>1, <1>4, <1>6, ReferIsLast
<1>9. Informed(log, w)
  <2>1. \A j \in (n + 1)..m : log[j].op.participantID # c
    BY <1>4 DEF Ahead
  <2>2. n \in 0..m
    <3> HIDE DEF n, m
    <3> QED  BY <1>1
  <2> QED  BY <1>4, <1>5, <1>8, <2>1, <2>2 DEF Informed
<1>10. PICK I, S : /\ Table(log', I, S)
                   /\ \A k \in 1..m : I[k] = H[k]
                   /\ \A k \in 0..m : S[k] = R[k]
                   /\ I[m + 1][n] = w.range.location
  <2>1. PICK I, S : Grown(log, log', H, R, w, I, S)
    BY <1>6, <1>7, <1>9, TableGrows
  <2> QED  BY <1>8, <2>1 DEF Grown
<1>11. /\ Len(log') = m + 1 /\ log'[m + 1].op = w
       /\ \A k \in 1..m : log'[k] = log[k]
  BY <1>7 DEF Follows
<1>12. ASSUME NEW d \in Clients
       PROVE  InPlace(global'[d], I)
  <2>1. Len(global[d]) \in Nat /\ Len(global[d]) <= m
    BY DeviceRead
  <2>2. \A i \in 1..Len(global[d]) : I[i] = H[i]
    <3> HIDE DEF m
    <3>1. \A i \in 1..Len(global[d]) : i \in 1..m
      BY <1>1, <2>1
    <3> QED  BY <1>10, <3>1
  <2>3. global'[d] = global[d]
    BY <1>2
  <2> QED  BY <1>6, <2>2, <2>3 DEF InPlace
<1>13. ASSUME NEW d \in Clients, d # c, alive'[d]
       PROVE  Standing(d, I, S)'
  <2>1. Len(global[d]) \in Nat /\ Len(global[d]) <= m
    BY DeviceRead
  <2>2. Same(d) /\ alive[d]
    BY <1>2, <1>13 DEF Same
  <2>3. Standing(d, H, R)
    BY <2>2 DEF Agree
  <2> DEFINE l == Len(global[d])
  <2>4. Ahead(d)' = {k \in (l + 1)..(m + 1) : log'[k].op.participantID = d}
    BY <1>11, <2>2 DEF Ahead, Same
  <2>5. Ahead(d) = {k \in (l + 1)..m : log[k].op.participantID = d}
    BY DEF Ahead
  <2> HIDE DEF l, m
  <2>6. \A k \in (l + 1)..(m + 1) : k # m + 1 => k \in (l + 1)..m
    BY <1>1, <2>1 DEF l
  <2>7. \A k \in (l + 1)..m : k \in (l + 1)..(m + 1) /\ k \in 1..m
    BY <1>1, <2>1 DEF l
  <2>8. log'[m + 1].op.participantID # d
    BY <1>5, <1>11, <1>13
  <2>9. Ahead(d)' = Ahead(d)
    BY <1>11, <2>4, <2>5, <2>6, <2>7, <2>8
  <2>10. \A p \in Ahead(d) : log'[p] = log[p] /\ I[p] = H[p]
    BY <1>10, <1>11, <2>5, <2>7
  <2>11. S[l] = R[l]
    <3>1. l \in 0..m
      BY <1>1, <2>1 DEF l
    <3> QED  BY <1>10, <3>1
  <2> QED  BY <2>2, <2>3, <2>9, <2>10, <2>11, StandingKept DEF l
<1>14. Standing(c, I, S)'
  <2>1. global'[c] = global[c] /\ Len(global'[c]) = n
    BY <1>2
  <2>2. S[n] = R[n]
    <3> HIDE DEF n, m
    <3>1. n \in 0..m
      BY <1>1
    <3> QED  BY <1>10, <3>1
  <2>3. Underway(c, w)'
    <3>2. timer'[c] = "sent" /\ stackQ'[c] = stackQ[c]
      BY <1>1, <1>2, <1>4 DEF TypeOK
    <3>3. OnlyEvents(stackQ[c])'
      BY <1>4, <3>2 DEF OnlyEvents
    <3> QED  BY <1>2, <1>4, <3>2, <3>3 DEF Underway
  <2>4. Ahead(c)' = {m + 1}
    <3>1. Ahead(c)' = {k \in (n + 1)..(m + 1) : log'[k].op.participantID = c}
      BY <1>11, <2>1 DEF Ahead
    <3>2. \A k \in (n + 1)..m : log[k].op.participantID # c
      BY <1>4 DEF Ahead
    <3> HIDE DEF n, m
    <3>3. /\ m + 1 \in (n + 1)..(m + 1)
          /\ \A k \in (n + 1)..(m + 1) : k # m + 1 => k \in (n + 1)..m /\ k \in 1..m
      BY <1>1
    <3>4. \A k \in (n + 1)..(m + 1) : log'[k].op.participantID = c <=> k = m + 1
      BY <1>5, <1>11, <3>2, <3>3
    <3> QED  BY <3>1, <3>3, <3>4
  <2>5. Travels(c, w, I)'
    <3>1. /\ Identity(w) = Identity(log'[m + 1].op)
          /\ Refers(log'[m + 1].op) <= n
          /\ w.range.location = I[m + 1][n]
      BY <1>1, <1>8, <1>10, <1>11
    <3> QED  BY <2>1, <2>4, <3>1 DEF Travels, Identity
  <2>6. Shows(text'[c], uiQ'[c], PutIn(S[n], w.range.location, Glyph(Identity(w))))
    BY <1>2, <1>4, <2>2
  <2> HIDE DEF n, m
  <2> QED  BY <1>4, <2>1, <2>3, <2>5, <2>6 DEF Standing
<1>15. Agree(I, S)'
  BY <1>10, <1>12, <1>13, <1>14 DEF Agree
<1> QED
  BY <1>15 DEF AgreeInv

\* What waits, when it is nothing or one operation.
LEMMA NothingWaits ==
  ASSUME NEW range \in Ranges, NEW author, NEW op
  PROVE  /\ RangeOnScreen(range, author, << >>) = range
         /\ UpdateStackWithOperation(<< >>, op) = << >>
<1> DEFINE waiting == << >>
<1>0. waiting \in Seq(Ops)
  BY EmptySeq
<1>1. Len(waiting) = 0
  BY EmptySeq
<1> HIDE DEF waiting
<1>2. waiting \in Seq(Operations(Clients \cup {NoParticipant}, Glyphs))
  BY <1>0 DEF Ops
<1>3. PICK f : /\ f[0] = range
               /\ \A k \in 1..Len(waiting) : f[k] = UpdateRangeV2(f[k - 1], waiting[k], author)
               /\ \A k \in 0..Len(waiting) : f[k] \in Ranges
               /\ RangeOnScreen(range, author, waiting) = f[Len(waiting)]
  BY <1>2, RangeOnScreenRuns
<1>4. UpdateStackWithOperation(<< >>, op) = << >>
  BY DEF UpdateStackWithOperation
<1> QED
  BY <1>1, <1>3, <1>4 DEF waiting

\* One operation waits.
LEMMA OneWaits ==
  ASSUME NEW range \in EmptyRanges, NEW author, NEW w \in Insertions, w.participantID # author
  PROVE  /\ RangeOnScreen(range, author, <<w>>) \in EmptyRanges
         /\ RangeOnScreen(range, author, <<w>>).location
              = PastV2(range.location, w.range.location)
<1> DEFINE waiting == <<w>>
<1>1. waiting \in Seq(Ops) /\ Len(waiting) = 1 /\ waiting[1] = w /\ range \in Ranges
  BY OneIsSome DEF Insertions, EmptyRanges
<1> HIDE DEF waiting
<1>2. PICK f : /\ f[0] = range
               /\ \A k \in 1..Len(waiting) : f[k] = UpdateRangeV2(f[k - 1], waiting[k], author)
               /\ RangeOnScreen(range, author, waiting) = f[Len(waiting)]
  BY <1>1, RangeOnScreenRuns DEF Ops
<1>3. 1 \in 1..1 /\ 1 - 1 = 0
  OBVIOUS
<1>4. RangeOnScreen(range, author, waiting) = UpdateRangeV2(range, w, author)
  BY <1>1, <1>2, <1>3
<1>5. RangeOnScreen(range, author, waiting) \in EmptyRanges
  BY <1>1, EmptyOnScreen DEF Ops
<1> QED
  BY <1>4, <1>5, RangePast DEF waiting

\* One operation that waits makes room for a foreign one.
LEMMA OneMakesRoom ==
  ASSUME NEW w \in Insertions, NEW op \in Insertions, w.participantID # op.participantID
  PROVE  \E moved \in Insertions :
           /\ UpdateStackWithOperation(<<w>>, op) = <<moved>>
           /\ Identity(moved) = Identity(w)
           /\ moved.range.location = Past(w.range.location, op.range.location)
<1> DEFINE range == UpdateRange(w.range, op, w.participantID)
           moved == [w EXCEPT !.range = range]
<1>1. w \in Ops /\ Insertion(w) /\ w.range \in EmptyRanges
  BY DEF Insertions, Insertion
<1>2. range \in EmptyRanges /\ range.location = Past(w.range.location, op.range.location)
  <2>1. WellFormed(op)
    BY OperationsAreWellFormed DEF Insertions, Ops
  <2> QED  BY <1>1, <2>1, EmptyCarried, RangePast
<1>3. UpdateStackWithOperation(<<w>>, op) = <<moved>>
  BY DEF UpdateStackWithOperation
<1> HIDE DEF range
<1>4. moved \in Insertions /\ Identity(moved) = Identity(w) /\ moved.range = range
  BY <1>1, <1>2, InsertionMoved
<1> QED
  BY <1>2, <1>3, <1>4

\* Behind an event there are events, or what was there.
LEMMA EventsFollow ==
  ASSUME NEW queue \in Seq(KeyBlocks), queue # << >>, OnlyEvents(queue)
  PROVE  OnlyEvents(Tail(queue))
<1>1. /\ Len(queue) \in Nat /\ Len(queue) # 0 /\ Len(Tail(queue)) = Len(queue) - 1
      /\ \A i \in 1..(Len(queue) - 1) : Tail(queue)[i] = queue[i + 1]
  BY HeadTailProperties, LenProperties, EmptySeq
<1>2. \A i \in 1..(Len(queue) - 1) : i + 1 \in 1..Len(queue)
  BY <1>1
<1> QED
  BY <1>1, <1>2 DEF OnlyEvents

\* The global stack takes the next operation of the session.
LEMMA GlobalTakesNext ==
  ASSUME SessionInv, NEW H, NEW c \in Clients, InPlace(global[c], H),
         NEW at, at = Len(global[c]) + 1, at \in 1..Len(log),
         NEW op \in Insertions, op.globalID = at, op.range.location = H[at][at - 1],
         global'[c] = Append(global[c], op), log' = log
  PROVE  /\ InPlace(global'[c], H) /\ Len(global'[c]) = at
         /\ Ahead(c)' = Ahead(c) \ {at}
<1> DEFINE n == Len(global[c])
<1>1. /\ n \in Nat /\ Len(log) \in Nat /\ global[c] \in Seq(Ops) /\ op \in Ops
  BY GlobalInLog DEF TypeOK, Insertions
<1>2. /\ Len(global'[c]) = n + 1
      /\ \A i \in 1..n : global'[c][i] = global[c][i]
      /\ global'[c][n + 1] = op
  BY <1>1, Appended
<1>3. InPlace(global'[c], H)
  <2>1. \A i \in 1..(n + 1) : i \in 1..n \/ i = n + 1
    BY <1>1
  <2> QED  BY <1>2, <2>1 DEF InPlace
<1>4. Ahead(c)' = Ahead(c) \ {at}
  <2>1. Ahead(c)' = {k \in ((n + 1) + 1)..Len(log) : log[k].op.participantID = c}
    BY <1>2 DEF Ahead
  <2>2. Ahead(c) = {k \in (n + 1)..Len(log) : log[k].op.participantID = c}
    BY DEF Ahead
  <2> HIDE DEF n
  <2>3. \A k : k \in ((n + 1) + 1)..Len(log) <=> k \in (n + 1)..Len(log) /\ k # n + 1
    BY <1>1
  <2>4. at = n + 1
    BY DEF n
  <2> QED  BY <2>1, <2>2, <2>3, <2>4
<1> QED
  BY <1>2, <1>3, <1>4

\* A confirmation takes the own operation to the place the table has for it.
LEMMA ConfirmationAgrees ==
  ASSUME Calm, SessionInv, InsertInv, NEW H, NEW R, Agree(H, R),
         NEW c \in Clients, AddNewOperation(c),
         Mine(c, Delivered(log[Head(stackQ[c]).at])),
         UpdateOperationFromSendToGlobal(c, Delivered(log[Head(stackQ[c]).at]))
  PROVE  AgreeInv'
<1> DEFINE at == Head(stackQ[c]).at
           op == Delivered(log[at])
           Awaits(waiting) == waiting.operationID = op.operationID /\ waiting.state = "SEND"
           I == {k \in 1..Len(send[c]) : Awaits(send[c][k])}
           i == IF I # {} THEN Min(I) ELSE 0
           confirmed == [send[c][i] EXCEPT !.globalID = op.globalID, !.state = op.state]
           n == Len(global[c])
<1>0. "split" \notin Freedoms
  BY DEF Calm, InTurns
<1>1. /\ timer[c] = "idle" /\ alive[c] /\ ParticipantID(c) = c
      /\ n \in Nat /\ at = n + 1 /\ at \in 1..Len(log)
      /\ op \in Ops /\ op.state = "GLOBAL" /\ op.globalID = log[at].order
      /\ op.participantID = log[at].op.participantID
  BY <1>0, EntryRead
<1>2. /\ TypeOK /\ Len(log) \in Nat /\ global[c] \in Seq(Ops)
      /\ stackQ[c] \in Seq(KeyBlocks) /\ stackQ[c] # << >>
  BY DeviceRead DEF AddNewOperation
<1>3. Serves(c) /\ UNCHANGED local /\ send'[c] = RemoveAt(send[c], 1)
  BY <1>0, ConfirmationIsFirst
<1>4. /\ UNCHANGED <<member, log, text, timer, batch, alive, uiQ>>
      /\ stackQ' = [stackQ EXCEPT ![c] = Tail(stackQ[c])]
      /\ IF i = 0
           THEN UNCHANGED <<global, send>>
           ELSE /\ global' = [global EXCEPT ![c] = Append(global[c], confirmed)]
                /\ send' = [send EXCEPT ![c] = RemoveAt(send[c], i)]
  BY DEF AddNewOperation, UpdateOperationFromSendToGlobal, SelectInSeq
<1>5. I \in SUBSET (1..Len(send[c])) /\ I \in SUBSET Nat
  OBVIOUS
<1> HIDE DEF I
<1>6. i = 0 \/ i \in 1..Len(send[c])
  BY <1>5, MinIsMember
<1> HIDE DEF i, op
<1>7. i # 0
  <2>1. PICK moved : global'[c] = Append(global[c], moved)
    BY <1>3 DEF Serves
  <2>2. Len(global'[c]) = n + 1
    BY <1>2, <2>1, Appended
  <2>3. CASE i = 0
    <3>1. global'[c] = global[c]
      BY <1>4, <2>3
    <3> QED  BY <1>1, <2>2, <3>1
  <2> QED  BY <2>3
<1>8. at \in Ahead(c)
  <2>1. log[at].op.participantID = c
    BY <1>1 DEF Mine, op
  <2>2. at \in (n + 1)..Len(log)
    <3> HIDE DEF at, n
    <3> QED  BY <1>1, <1>2
  <2> QED  BY <2>1, <2>2 DEF Ahead
<1>9. PICK w \in Insertions :
        /\ Shows(text[c], uiQ[c], PutIn(R[n], w.range.location, Glyph(Identity(w))))
        /\ local[c] = << >> /\ batch[c] = << >> /\ send[c] = <<w>> /\ OnlyEvents(stackQ[c])
        /\ Travels(c, w, H)
  <2> HIDE DEF at, n
  <2>1. Standing(c, H, R)
    BY <1>1 DEF Agree
  <2> QED  BY <1>1, <1>8, <2>1 DEF Standing, Underway, n
<1>10. /\ Ahead(c) = {at} /\ Identity(w) = Identity(log[at].op)
       /\ w.range.location = H[at][n]
  BY <1>8, <1>9 DEF Travels
<1>11. Row(log, at, H, R)
  BY <1>1 DEF Agree, Table
<1>12. i = 1 /\ send[c][1] = w
  <2>1. Len(send[c]) = 1 /\ send[c][1] = w
    BY <1>9, OneIsSome
  <2> QED  BY <1>6, <1>7, <2>1
<1>13. PICK moved \in Insertions :
         /\ global'[c] = Append(global[c], moved)
         /\ moved.globalID = at /\ moved.range = w.range
  <2> DEFINE moved == [w EXCEPT !.globalID = op.globalID, !.state = op.state]
  <2>1. w \in Ops /\ Insertion(w)
    BY DEF Insertions
  <2>2. op.globalID = at /\ at \in Nat
    <3>1. log[at].order = at
      BY <1>11 DEF Row
    <3> HIDE DEF n, at
    <3> QED  BY <1>1, <3>1
  <2>3. moved \in Ops
    BY <1>1, <2>1, <2>2 DEF Ops, Operations, States
  <2>4. /\ moved.range = w.range /\ moved.participantID = w.participantID
        /\ moved.operationID = w.operationID /\ moved.replaceString = w.replaceString
        /\ moved.originalString = w.originalString /\ moved.globalID = at
    BY <2>1, <2>2 DEF Ops, Operations
  <2>5. global'[c] = Append(global[c], moved)
    <3>1. confirmed = moved
      BY <1>12
    <3> HIDE DEF confirmed, moved
    <3> QED  BY <1>2, <1>4, <1>7, <3>1 DEF TypeOK
  <2> HIDE DEF moved
  <2>6. Identity(moved) = Identity(w)
    BY <2>4 DEF Identity
  <2>7. moved \in Insertions
    BY <2>1, <2>3, <2>4, <2>6 DEF Insertions, Insertion
  <2> QED  BY <2>4, <2>5, <2>7
<1> HIDE DEF at
<1>14. /\ InPlace(global'[c], H) /\ Len(global'[c]) = at /\ Ahead(c)' = {}
  <2>1. at - 1 = n
    BY <1>1
  <2>2. moved.range.location = H[at][at - 1]
    BY <1>10, <1>13, <2>1
  <2>3. InPlace(global[c], H) /\ log' = log
    BY <1>4 DEF Agree
  <2>4. /\ InPlace(global'[c], H) /\ Len(global'[c]) = at
        /\ Ahead(c)' = Ahead(c) \ {at}
    <3>1. at = Len(global[c]) + 1 /\ at \in 1..Len(log)
      BY <1>1
    <3>2. moved.globalID = at /\ global'[c] = Append(global[c], moved)
      BY <1>13
    <3> QED  BY <2>2, <2>3, <3>1, <3>2, GlobalTakesNext, Zenon
  <2> QED  BY <1>10, <2>4
<1>15. Clear(c)'
  <2>1. send'[c] = << >>
    <3>1. RemoveAt(<<w>>, 1) = << >>
      BY DEF RemoveAt
    <3> QED  BY <1>3, <1>9, <3>1
  <2>2. stackQ'[c] = Tail(stackQ[c])
    BY <1>2, <1>4 DEF TypeOK
  <2>3. OnlyEvents(Tail(stackQ[c]))
    BY <1>2, <1>9, EventsFollow
  <2>4. OnlyEvents(stackQ[c])'
    BY <2>2, <2>3 DEF OnlyEvents
  <2> QED  BY <1>3, <1>4, <1>9, <2>1, <2>4 DEF Clear
<1>16. Shows(text'[c], uiQ'[c], R[at])
  <2>1. at - 1 = n
    BY <1>1
  <2>2. R[at] = PutIn(R[n], w.range.location, Glyph(Identity(w)))
    BY <1>10, <1>11, <2>1 DEF Row
  <2> QED  BY <1>4, <1>9, <2>2
<1>17. Standing(c, H, R)'
  BY <1>14, <1>15, <1>16 DEF Standing
<1>18. \A d \in Clients : d # c => Same(d) /\ (alive'[d] => alive[d])
  BY <1>2, <1>3, <1>4 DEF Same, Serves
<1> QED
  BY <1>4, <1>14, <1>17, <1>18, AgreeKept

\* The operation comes in at its place, and goes on to what is shown and what waits.
ComesIn(c, at, H, placed) ==
  /\ Identity(placed) = Identity(log[at].op)
  /\ placed.globalID = at /\ placed.range \in EmptyRanges
  /\ placed.range.location = H[at][at - 1]
  /\ global'[c] = Append(global[c], placed)
  /\ LET shown == [placed EXCEPT !.range =
                     RangeOnScreen(@, placed.participantID, send[c] \o local[c])]
     IN  /\ send'[c] = UpdateStackWithOperation(send[c], shown)
         /\ local'[c] = UpdateStackWithOperation(local[c], shown)
         /\ uiQ'[c] = Append(uiQ[c], shown)

\* A foreign operation, brought forward: where it comes in, and what becomes of what is
\* shown and of what waits.
LEMMA ForeignServed ==
  ASSUME TwoUsers, Calm, SessionInv, InsertInv, NEW H, NEW R, Agree(H, R),
         NEW c \in Clients, AddNewOperation(c),
         ~Mine(c, Delivered(log[Head(stackQ[c]).at])),
         AddNewGlobalOperation(c, Delivered(log[Head(stackQ[c]).at])),
         NEW at, at = Len(global[c]) + 1
  PROVE  /\ at \in 1..Len(log) /\ at - 1 = Len(global[c]) /\ at \in Nat /\ Len(log) \in Nat
         /\ at = Head(stackQ[c]).at
         /\ alive[c] /\ timer[c] = "idle"
         /\ log[at].op.participantID # c /\ Row(log, at, H, R)
         /\ UNCHANGED <<member, log, text, timer, batch, alive>>
         /\ stackQ'[c] = Tail(stackQ[c])
         /\ \A d \in Clients : d # c => Same(d) /\ (alive'[d] => alive[d])
         /\ \E placed \in Insertions : ComesIn(c, at, H, placed)
<1> DEFINE op == Delivered(log[at])
           place == RangeOnGlobal(global[c], op)
           placed == [op EXCEPT !.range = place]
<1>0. "split" \notin Freedoms
  BY DEF Calm, InTurns
<1>1. /\ timer[c] = "idle" /\ alive[c] /\ ParticipantID(c) = c
      /\ at \in 1..Len(log) /\ at = Head(stackQ[c]).at
      /\ op \in Ops /\ op.state = "GLOBAL" /\ op.globalID = log[at].order
      /\ op.participantID = log[at].op.participantID
      /\ op.referID = log[at].op.referID /\ op.range = log[at].op.range
  <2> DEFINE served == Head(stackQ[c]).at
             given == Delivered(log[served])
  <2>1. /\ timer[c] = "idle" /\ alive[c] /\ ParticipantID(c) = c
        /\ Len(global[c]) \in Nat /\ served = Len(global[c]) + 1 /\ served \in 1..Len(log)
        /\ given \in Ops /\ given.state = "GLOBAL" /\ given.globalID = log[served].order
        /\ given.participantID = log[served].op.participantID
        /\ given.referID = log[served].op.referID /\ given.range = log[served].op.range
    BY <1>0, EntryRead
  <2>2. served = at
    BY <2>1
  <2> QED  BY <2>1, <2>2
<1>2. /\ TypeOK /\ Len(log) \in Nat /\ Len(global[c]) \in Nat
  BY DeviceRead
<1>3. /\ at \in Nat /\ at - 1 = Len(global[c])
  BY <1>2
<1>4. Row(log, at, H, R) /\ Table(log, H, R) /\ InPlace(global[c], H)
  BY <1>1 DEF Agree, Table
<1>5. op.participantID # c /\ log[at].op.participantID # c
  BY <1>1 DEF Mine
<1>6. op \in Insertions /\ Identity(op) = Identity(log[at].op)
  <2>1. log[at] \in [op : Keystrokes, order : Nat]
    BY <1>1, ElementOfSeq DEF InsertInv, OnlyInsertions
  <2> QED  BY <2>1, InsertionDelivered
<1>7. /\ global' = [global EXCEPT ![c] = Append(global[c], placed)]
      /\ \E shown :
           /\ shown = [placed EXCEPT !.range =
                         RangeOnScreen(@, op.participantID, send[c] \o local[c])]
           /\ send'   = [send EXCEPT ![c] = UpdateStackWithOperation(send[c], shown)]
           /\ local'  = [local EXCEPT ![c] = UpdateStackWithOperation(local[c], shown)]
           /\ uiQ'    = [uiQ EXCEPT ![c] = Append(uiQ[c], shown)]
      /\ stackQ' = [stackQ EXCEPT ![c] = Tail(stackQ[c])]
      /\ UNCHANGED <<member, log, text, timer, batch, alive>>
  BY <1>1 DEF AddNewOperation, AddNewGlobalOperation
<1> HIDE DEF op
<1>8. place \in EmptyRanges /\ place.location = H[at][at - 1]
  BY <1>1, <1>4, <1>6, PlacedOnGlobal
<1> HIDE DEF place
<1>9. /\ placed \in Insertions /\ placed.range = place /\ Identity(placed) = Identity(op)
      /\ placed.globalID = at /\ placed.participantID = op.participantID
  <2>1. op \in Ops /\ Insertion(op)
    BY <1>6 DEF Insertions
  <2>2. placed \in Insertions /\ placed.range = place /\ Identity(placed) = Identity(op)
    BY <1>8, <2>1, InsertionMoved
  <2>3. placed.globalID = op.globalID /\ placed.participantID = op.participantID
    BY <2>1 DEF Ops, Operations
  <2>4. log[at].order = at
    BY <1>4 DEF Row
  <2> QED  BY <1>1, <2>2, <2>3, <2>4
<1> HIDE DEF placed
<1>10. PICK shown :
         /\ shown = [placed EXCEPT !.range =
                       RangeOnScreen(@, placed.participantID, send[c] \o local[c])]
         /\ send'   = [send EXCEPT ![c] = UpdateStackWithOperation(send[c], shown)]
         /\ local'  = [local EXCEPT ![c] = UpdateStackWithOperation(local[c], shown)]
         /\ uiQ'    = [uiQ EXCEPT ![c] = Append(uiQ[c], shown)]
  BY <1>7, <1>9
<1>11. /\ send'[c] = UpdateStackWithOperation(send[c], shown)
       /\ local'[c] = UpdateStackWithOperation(local[c], shown)
       /\ uiQ'[c] = Append(uiQ[c], shown) /\ global'[c] = Append(global[c], placed)
       /\ stackQ'[c] = Tail(stackQ[c])
  BY <1>2, <1>7, <1>10 DEF TypeOK
<1>12. \A d \in Clients : d # c => Same(d) /\ (alive'[d] => alive[d])
  BY <1>7, <1>10 DEF Same
<1>13. ComesIn(c, at, H, placed)
  BY <1>6, <1>8, <1>9, <1>10, <1>11 DEF ComesIn
<1> QED
  BY <1>1, <1>2, <1>3, <1>4, <1>5, <1>7, <1>9, <1>11, <1>12, <1>13

\* addNewGlobalOperation, for an operation of the other user: it comes in on the
\* global stack where the table has it, is shown there, and the operation that
\* waits, if any, makes room.
LEMMA ForeignAgrees ==
  ASSUME TwoUsers, Calm, SessionInv, InsertInv, NEW H, NEW R, Agree(H, R),
         NEW c \in Clients, AddNewOperation(c),
         ~Mine(c, Delivered(log[Head(stackQ[c]).at])),
         AddNewGlobalOperation(c, Delivered(log[Head(stackQ[c]).at]))
  PROVE  AgreeInv'
<1>1. PICK at : at = Len(global[c]) + 1
  OBVIOUS
<1> DEFINE n == Len(global[c])
           x == H[at][n]
           h == Glyph(Identity(log[at].op))
<1>2. /\ at \in 1..Len(log) /\ at - 1 = n /\ at \in Nat /\ Len(log) \in Nat
      /\ at = Head(stackQ[c]).at
      /\ alive[c] /\ timer[c] = "idle"
      /\ log[at].op.participantID # c /\ Row(log, at, H, R)
      /\ UNCHANGED <<member, log, text, timer, batch, alive>>
      /\ stackQ'[c] = Tail(stackQ[c])
      /\ \A d \in Clients : d # c => Same(d) /\ (alive'[d] => alive[d])
  BY <1>1, ForeignServed
<1>3. PICK placed \in Insertions :
        /\ Identity(placed) = Identity(log[at].op)
        /\ placed.globalID = at /\ placed.range \in EmptyRanges
        /\ placed.range.location = H[at][at - 1]
        /\ global'[c] = Append(global[c], placed)
        /\ LET shown == [placed EXCEPT !.range =
                           RangeOnScreen(@, placed.participantID, send[c] \o local[c])]
           IN  /\ send'[c] = UpdateStackWithOperation(send[c], shown)
               /\ local'[c] = UpdateStackWithOperation(local[c], shown)
               /\ uiQ'[c] = Append(uiQ[c], shown)
  <2>1. PICK placed \in Insertions : ComesIn(c, at, H, placed)
    BY <1>1, ForeignServed
  <2> QED  BY <2>1 DEF ComesIn
<1>4. /\ Table(log, H, R) /\ InPlace(global[c], H) /\ Standing(c, H, R)
  BY <1>2 DEF Agree
<1>5. /\ InPlace(global'[c], H) /\ Len(global'[c]) = at /\ Ahead(c)' = Ahead(c) \ {at}
  <2>1. at = Len(global[c]) + 1 /\ at \in 1..Len(log) /\ log' = log /\ InPlace(global[c], H)
    BY <1>1, <1>2, <1>4
  <2>2. /\ placed.globalID = at /\ placed.range.location = H[at][at - 1]
        /\ global'[c] = Append(global[c], placed)
    BY <1>3
  <2> QED  BY <2>1, <2>2, GlobalTakesNext, Zenon
<1>6. /\ R[n] \in Seq(Glyphs) /\ Len(R[n]) = n /\ n \in Nat
      /\ R[at] = PutIn(R[n], x, h) /\ x \in 0..n /\ h \in Glyphs
  <2>1. R[n] \in Seq(Glyphs) /\ Len(R[n]) = n
    <3>1. n \in 0..Len(log)
      BY <1>2
    <3> HIDE DEF n
    <3> QED  BY <1>2, <1>4, <3>1, TableRead
  <2>2. R[at] = PutIn(R[n], x, h)
    BY <1>2 DEF Row
  <2>3. x \in Nat /\ n \in Nat /\ x <= n
    <3>1. Refers(log[at].op) \in 0..n /\ \A j \in Refers(log[at].op)..n : H[at][j] <= j
      BY <1>2 DEF Row
    <3>2. n \in Nat
      BY <1>2, LenProperties, DeviceRead
    <3>3. H[at][n] \in Nat
      BY <1>2, <1>4, <3>2 DEF Table
    <3> HIDE DEF n
    <3>4. n \in Refers(log[at].op)..n
      BY <3>1, <3>2
    <3> QED  BY <3>1, <3>2, <3>3, <3>4
  <2>4. h \in Glyphs
    <3>1. Glyph(Identity(placed)) \in Glyphs
      BY DEF Glyph, Glyphs, Identity, Insertions, Insertion, Ops, Operations
    <3> QED  BY <1>3, <3>1
  <2> HIDE DEF n
  <2> QED  BY <2>1, <2>2, <2>3, <2>4
<1>7. /\ uiQ[c] \in Seq(Insertions) /\ stackQ[c] \in Seq(KeyBlocks) /\ stackQ[c] # << >>
      /\ Head(stackQ[c]).kind = "new"
      /\ local[c] \in Seq(Ops) /\ send[c] \in Seq(Ops) /\ Signed(c)
      /\ text[c] \in Seq(Glyphs)
  BY DeviceRead DEF AddNewOperation, TypeOK
<1>8. placed.participantID # c /\ placed \in Ops /\ Insertion(placed)
  BY <1>2, <1>3 DEF Identity, Insertions
<1>9. placed.range.location = x
  BY <1>2, <1>3
<1>10. CASE Clear(c) /\ Ahead(c) = {} /\ Shows(text[c], uiQ[c], R[n])
  <2> DEFINE range == RangeOnScreen(placed.range, placed.participantID, send[c] \o local[c])
             shown == [placed EXCEPT !.range = range]
  <2>1. local[c] = << >> /\ send[c] = << >> /\ << >> \o << >> = << >> /\ placed.range \in Ranges
    BY <1>3, <1>10 DEF Clear, EmptyRanges
  <2>2. range = placed.range
    BY <2>1, NothingWaits
  <2>3. /\ send'[c] = UpdateStackWithOperation(send[c], shown)
        /\ local'[c] = UpdateStackWithOperation(local[c], shown)
        /\ uiQ'[c] = Append(uiQ[c], shown)
    BY <1>3
  <2> HIDE DEF range
  <2>4. shown = placed
    BY <1>8, <2>2 DEF Ops, Operations
  <2> HIDE DEF shown
  <2>5. local'[c] = << >> /\ send'[c] = << >> /\ uiQ'[c] = Append(uiQ[c], placed)
    BY <2>1, <2>3, <2>4, NothingWaits
  <2>6. Shows(text'[c], uiQ'[c], R[at])
    <3>1. placed.range.location <= Len(R[n])
      <4> HIDE DEF x, n
      <4> QED  BY <1>6, <1>9
    <3>2. Shows(text[c], Append(uiQ[c], placed), PutIn(R[n], x, h))
      BY <1>3, <1>6, <1>7, <1>9, <1>10, <3>1, ShowsMore
    <3> QED  BY <1>2, <1>6, <2>5, <3>2
  <2>7. Clear(c)'
    <3>1. OnlyEvents(Tail(stackQ[c]))
      BY <1>7, <1>10, EventsFollow DEF Clear
    <3>2. OnlyEvents(stackQ[c])'
      BY <1>2, <3>1 DEF OnlyEvents
    <3> QED  BY <1>2, <1>10, <2>5, <3>2 DEF Clear
  <2>8. Standing(c, H, R)'
    BY <1>5, <1>10, <2>6, <2>7 DEF Standing
  <2> QED  BY <1>2, <1>5, <2>8, AgreeKept
<1>11. ASSUME NEW w \in Insertions, w.range.location <= n,
              Shows(text[c], uiQ[c], PutIn(R[n], w.range.location, Glyph(Identity(w)))),
              \/ AtHome(c, w) /\ Ahead(c) = {}
              \/ Underway(c, w) /\ Travels(c, w, H)
       PROVE  AgreeInv'
  <2> DEFINE y == w.range.location
             g == Glyph(Identity(w))
             range == RangeOnScreen(placed.range, placed.participantID, send[c] \o local[c])
             shown == [placed EXCEPT !.range = range]
  <2>1. Head(stackQ[c]) = stackQ[c][1] /\ 1 \in 1..Len(stackQ[c])
    BY <1>7, HeadTailProperties, LenProperties, EmptySeq
  <2>2. /\ batch[c] = << >>
        /\ OnlyEvents(stackQ[c])
        /\ \/ local[c] = <<w>> /\ send[c] = << >> /\ Ahead(c) = {}
           \/ local[c] = << >> /\ send[c] = <<w>> /\ Travels(c, w, H)
        /\ local[c] = <<w>> => member[c]
    <3>1. timer[c] = "idle" /\ Head(stackQ[c]).kind = "new"
      BY <1>2, <1>7
    <3>2. local[c] = << >> => local[c] # <<w>>
      BY OneIsSome
    <3>3. CASE AtHome(c, w) /\ Ahead(c) = {}
      <4>1. /\ local[c] = <<w>> /\ batch[c] = << >> /\ OnlyEvents(stackQ[c])
            /\ send[c] = << >> /\ member[c]
        BY <3>1, <3>3 DEF AtHome
      <4> QED  BY <3>3, <4>1
    <3>4. CASE Underway(c, w) /\ Travels(c, w, H)
      <4>1. /\ local[c] = << >> /\ batch[c] = << >> /\ OnlyEvents(stackQ[c])
            /\ send[c] = <<w>>
        BY <3>1, <3>4 DEF Underway
      <4> QED  BY <3>2, <3>4, <4>1
    <3> QED  BY <1>11, <3>3, <3>4
  <2>3. send[c] \o local[c] = <<w>>
    <3>1. << >> \o <<w>> = <<w>> /\ <<w>> \o << >> = <<w>>
      OBVIOUS
    <3> QED  BY <2>2, <3>1
  <2>4. w.participantID = c
    <3>1. CASE local[c] = <<w>>
      <4>1. Len(local[c]) = 1 /\ local[c][1] = w /\ 1 \in 1..1
        BY <3>1, OneIsSome
      <4> QED  BY <1>7, <4>1 DEF Signed, Marked
    <3>2. CASE send[c] = <<w>>
      <4>1. Len(send[c]) = 1 /\ send[c][1] = w /\ 1 \in 1..1
        BY <3>2, OneIsSome
      <4> QED  BY <1>7, <4>1 DEF Signed, Marked
    <3> QED  BY <2>2, <3>1, <3>2
  <2>5. range \in EmptyRanges /\ range.location = PastV2(x, y)
    BY <1>3, <1>8, <1>9, <2>3, <2>4, OneWaits
  <2>6. /\ send'[c] = UpdateStackWithOperation(send[c], shown)
        /\ local'[c] = UpdateStackWithOperation(local[c], shown)
        /\ uiQ'[c] = Append(uiQ[c], shown)
    BY <1>3
  <2> HIDE DEF range
  <2>7. shown \in Insertions /\ shown.range = range /\ Identity(shown) = Identity(placed)
    BY <1>8, <2>5, InsertionMoved
  <2>8. shown.participantID = placed.participantID
    BY <2>7 DEF Identity
  <2> HIDE DEF shown
  <2>9. PICK moved \in Insertions :
          /\ UpdateStackWithOperation(<<w>>, shown) = <<moved>>
          /\ Identity(moved) = Identity(w)
          /\ moved.range.location = Past(y, PastV2(x, y))
    BY <1>8, <2>4, <2>5, <2>7, <2>8, OneMakesRoom
  <2>10. y \in 0..n /\ g \in Glyphs
    <3>1. w.range.location \in Nat
      BY DEF Insertions, Insertion, EmptyRanges, Ranges
    <3>2. g \in Glyphs
      BY DEF Glyph, Glyphs, Identity, Insertions, Insertion, Ops, Operations
    <3> HIDE DEF n
    <3> QED  BY <1>6, <1>11, <3>1, <3>2
  <2>11. /\ PastV2(x, y) \in 0..(n + 1) /\ Past(y, x) \in 0..(n + 1)
         /\ Past(y, PastV2(x, y)) = Past(y, x)
         /\ PutIn(PutIn(R[n], y, g), PastV2(x, y), h) = PutIn(R[at], Past(y, x), g)
    <3> HIDE DEF n, x, y, g, h
    <3> DEFINE t == R[n]
    <3>1. t \in Seq(Glyphs) /\ y \in 0..Len(t) /\ x \in 0..Len(t) /\ Len(t) = n
      BY <1>6, <2>10
    <3> HIDE DEF t
    <3>2. /\ PastV2(x, y) \in 0..(Len(t) + 1) /\ Past(y, x) \in 0..(Len(t) + 1)
          /\ Past(y, PastV2(x, y)) = Past(y, x)
          /\ PutIn(PutIn(t, y, g), PastV2(x, y), h) = PutIn(PutIn(t, x, h), Past(y, x), g)
      BY <1>6, <2>10, <3>1, PastEachOther
    <3> QED  BY <1>6, <3>1, <3>2 DEF t
  <2>12. moved.range.location = Past(y, x) /\ Past(y, x) <= at
    <3>1. n + 1 = at
      BY <1>1
    <3> HIDE DEF n
    <3> QED  BY <1>6, <2>9, <2>11, <3>1
  <2>13. Shows(text'[c], uiQ'[c], PutIn(R[at], moved.range.location, Glyph(Identity(moved))))
    <3>1. /\ PutIn(R[n], y, g) \in Seq(Glyphs) /\ Len(PutIn(R[n], y, g)) = n + 1
      <4> HIDE DEF n, y, g
      <4> QED  BY <1>6, <2>10, PutInIsText
    <3>2. shown.range.location <= Len(PutIn(R[n], y, g))
      <4> HIDE DEF n, x, y, g
      <4> QED  BY <1>6, <2>5, <2>7, <2>11, <3>1
    <3>3. Shows(text[c], Append(uiQ[c], shown), PutIn(PutIn(R[n], y, g), PastV2(x, y), h))
      <4>1. shown.range.location = PastV2(x, y) /\ Glyph(Identity(shown)) = h
        BY <1>3, <2>5, <2>7
      <4>2. Shows(text[c], uiQ[c], PutIn(R[n], y, g))
        BY <1>11
      <4> HIDE DEF n, x, y, g, h
      <4>3. Shows(text[c], Append(uiQ[c], shown),
                    PutIn(PutIn(R[n], y, g), shown.range.location, Glyph(Identity(shown))))
        BY <1>7, <2>7, <3>1, <3>2, <4>2, ShowsMore
      <4> QED  BY <4>1, <4>3
    <3> QED  BY <1>2, <2>6, <2>9, <2>11, <2>12, <3>3
  <2>14. OnlyEvents(stackQ[c])'
    <3>1. OnlyEvents(Tail(stackQ[c]))
      BY <1>7, <2>2, EventsFollow
    <3> QED  BY <1>2, <3>1 DEF OnlyEvents
  <2>15. batch'[c] = << >>
    BY <1>2, <2>2
  <2>16. \/ AtHome(c, moved)' /\ Ahead(c)' = {}
         \/ Underway(c, moved)' /\ Travels(c, moved, H)'
    <3>1. CASE local[c] = <<w>> /\ send[c] = << >> /\ Ahead(c) = {}
      <4>1. local'[c] = <<moved>> /\ send'[c] = << >>
        <5>1. placed.range \in Ranges
          BY <1>3 DEF EmptyRanges
        <5> QED  BY <2>6, <2>9, <3>1, <5>1, NothingWaits
      <4>2. member'[c]
        BY <1>2, <2>2, <3>1
      <4> QED  BY <1>5, <2>14, <2>15, <3>1, <4>1, <4>2 DEF AtHome
    <3>2. CASE local[c] = << >> /\ send[c] = <<w>> /\ Travels(c, w, H)
      <4>1. local'[c] = << >> /\ send'[c] = <<moved>>
        <5>1. placed.range \in Ranges
          BY <1>3 DEF EmptyRanges
        <5> QED  BY <2>6, <2>9, <3>2, <5>1, NothingWaits
      <4>2. Underway(c, moved)'
        BY <2>14, <2>15, <4>1 DEF Underway
      <4>3. PICK p \in Ahead(c) :
              /\ Ahead(c) = {p} /\ Identity(w) = Identity(log[p].op)
              /\ Refers(log[p].op) <= n /\ y = H[p][n]
        BY <3>2 DEF Travels
      <4>4. p \in (n + 1)..Len(log) /\ log[p].op.participantID = c
        BY DEF Ahead
      <4>5. p # at
        BY <1>2, <4>4
      <4>6. Ahead(c)' = {p}
        BY <1>5, <4>3, <4>5
      <4>7. p \in 1..Len(log) /\ Refers(log[p].op) \in Nat
        <5>1. p \in 1..Len(log)
          <6> HIDE DEF n
          <6> QED  BY <1>6, <4>4
        <5>2. Refers(log[p].op) \in 0..(p - 1)
          BY <1>4, <5>1 DEF Table, Row
        <5> QED  BY <5>1, <5>2
      <4>8. at \in (Refers(log[p].op) + 1)..(p - 1) /\ Refers(log[p].op) <= at
        <5>1. n + 1 = at
          BY <1>1
        <5> HIDE DEF n
        <5> QED  BY <1>2, <1>6, <4>3, <4>4, <4>5, <4>7, <5>1
      <4>9. H[p][at] = Past(H[p][at - 1], H[at][at - 1])
        BY <1>4, <4>7, <4>8 DEF Table, Row
      <4>10. moved.range.location = H[p][at]
        BY <1>2, <2>12, <4>3, <4>9
      <4>11. Travels(c, moved, H)'
        BY <1>2, <1>5, <2>9, <4>3, <4>6, <4>8, <4>10 DEF Travels, Identity
      <4> QED  BY <4>2, <4>11
    <3> QED  BY <2>2, <3>1, <3>2
  <2>17. Standing(c, H, R)'
    BY <1>5, <2>12, <2>13, <2>16 DEF Standing
  <2> QED  BY <1>2, <1>5, <2>17, AgreeKept
<1> QED
  BY <1>4, <1>10, <1>11 DEF Standing

\* Every step keeps the table and where the devices stand by it.
LEMMA NextAgrees ==
  ASSUME TwoUsers, Calm, UsersInsert, SessionInv, InsertInv, AgreeInv, [Next]_vars
  PROVE  AgreeInv'
<1>1. PICK H, R : Agree(H, R)
  BY DEF AgreeInv
<1>2. ASSUME NEW c \in Clients, User(c)
      PROVE  AgreeInv'
  <2>1. CASE Type(c)
    BY <1>1, <2>1, TypeAgrees
  <2>2. CASE CreateSess(c) \/ JoinSess(c)
    <3>1. UNCHANGED <<log, text, local, send, global, stackQ, uiQ, timer, batch, alive>>
      BY <2>2 DEF CreateSess, JoinSess, stacks, threads
    <3>2. \A d \in Clients : member[d] => member'[d]
      BY <2>2, DeviceRead DEF CreateSess, JoinSess, TypeOK
    <3>3. \A d \in Clients : Same(d) /\ (alive'[d] => alive[d])
      BY <3>1, <3>2 DEF Same
    <3> QED  BY <1>1, <3>1, <3>3, AgreeAside
  <2> QED  BY <1>2, <2>1, <2>2 DEF User, UndoAct, RedoAct, UsersInsert
<1>3. ASSUME NEW c \in Clients, Timer(c)
      PROVE  AgreeInv'
  BY <1>1, <1>3, GetLocalChangeSetAgrees, BroadcastLocalAgrees, RefuseLocalAgrees,
     PutIntoSendStackAgrees, SendUndoAndRedoAgrees DEF Timer
<1>4. ASSUME NEW c \in Clients, ReceivedEvent(c)
      PROVE  AgreeInv'
  BY <1>1, <1>4, ReceivedEventAgrees
<1>5. ASSUME NEW c \in Clients, StackQueue(c)
      PROVE  AgreeInv'
  <2>1. CASE AddBack(c)
    BY <1>1, <2>1, AddBackAgrees
  <2>2. CASE AddNewOperation(c)
    <3>1. \/ /\ Mine(c, Delivered(log[Head(stackQ[c]).at]))
             /\ UpdateOperationFromSendToGlobal(c, Delivered(log[Head(stackQ[c]).at]))
          \/ /\ ~Mine(c, Delivered(log[Head(stackQ[c]).at]))
             /\ AddNewGlobalOperation(c, Delivered(log[Head(stackQ[c]).at]))
      BY <2>2 DEF AddNewOperation
    <3> QED  BY <1>1, <2>2, <3>1, ConfirmationAgrees, ForeignAgrees
  <2> QED  BY <1>5, <2>1, <2>2 DEF StackQueue
<1>6. ASSUME NEW c \in Clients, UpdateInputView(c)
      PROVE  AgreeInv'
  BY <1>1, <1>6, UpdateInputViewAgrees
<1>7. CASE UNCHANGED vars
  <2>1. UNCHANGED <<member, log, text, local, send, global, stackQ, uiQ, timer, batch, alive>>
    BY <1>7 DEF vars, stacks, threads
  <2>2. \A d \in Clients : Same(d) /\ (alive'[d] => alive[d])
    BY <2>1 DEF Same
  <2> QED  BY <1>1, <2>1, <2>2, AgreeAside
<1> QED
  BY <1>2, <1>3, <1>4, <1>5, <1>6, <1>7 DEF Next

\* The table of an empty session.
LEMMA AgreeInitially == Init => AgreeInv
<1> SUFFICES ASSUME Init  PROVE AgreeInv
  OBVIOUS
<1> DEFINE H == [k \in Nat |-> [j \in Nat |-> 0]]
           R == [k \in Nat |-> << >>]
<1>1. << >> \in Seq(Glyphs) /\ Len(<< >>) = 0
  BY EmptySeq
<1>2. H \in [Nat -> [Nat -> Nat]] /\ R \in [Nat -> Seq(Glyphs)] /\ R[0] = << >>
  BY <1>1
<1> HIDE DEF H, R
<1>3. Table(log, H, R)
  <2>1. 1..Len(log) = {}
    BY <1>1 DEF Init
  <2> QED  BY <1>2, <2>1 DEF Table
<1>4. ASSUME NEW c \in Clients
      PROVE  InPlace(global[c], H) /\ Standing(c, H, R)
  <2>1. /\ local[c] = << >> /\ send[c] = << >> /\ batch[c] = << >> /\ stackQ[c] = << >>
        /\ text[c] = << >> /\ uiQ[c] = << >> /\ global[c] = << >> /\ log = << >>
    BY DEF Init
  <2>2. InPlace(global[c], H)
    <3>1. 1..Len(global[c]) = {}
      BY <1>1, <2>1
    <3> QED  BY <3>1 DEF InPlace
  <2>3. OnlyEvents(stackQ[c])
    <3>1. 1..Len(stackQ[c]) = {}
      BY <1>1, <2>1
    <3> QED  BY <3>1 DEF OnlyEvents
  <2>4. Ahead(c) = {}
    <3>1. (Len(global[c]) + 1)..Len(log) = {}
      BY <1>1, <2>1
    <3> QED  BY <3>1 DEF Ahead
  <2>5. Shows(text[c], uiQ[c], R[Len(global[c])])
    <3>1. R[Len(global[c])] = << >>
      BY <1>1, <1>2, <2>1
    <3> QED  BY <1>1, <2>1, <3>1, ShowsNow
  <2> QED  BY <2>1, <2>2, <2>3, <2>4, <2>5 DEF Standing, Clear
<1>5. Agree(H, R)
  BY <1>3, <1>4 DEF Agree
<1> QED
  BY <1>5 DEF AgreeInv

\* The whole invariant, at first, ...
LEMMA PairInitially == Init => PairInv
BY SessionInitially, InsertInitially, AgreeInitially DEF PairInv

\* ... and after every step.
LEMMA NextPairs ==
  TwoUsers /\ Calm /\ UsersInsert /\ PairInv /\ [Next]_vars => PairInv'
<1> SUFFICES ASSUME TwoUsers, Calm, UsersInsert, PairInv, [Next]_vars  PROVE PairInv'
  OBVIOUS
<1>1. "early" \notin Freedoms /\ "split" \notin Freedoms
  BY DEF Calm, InTurns
<1>2. SessionInv' /\ InsertInv'
  BY <1>1, NextInSession, NextShows DEF PairInv
<1>3. AgreeInv'
  BY NextAgrees DEF PairInv
<1> QED
  BY <1>2, <1>3 DEF PairInv

-----------------------------------------------------------------------------
(* What follows.                                                           *)

\* What an idle device shows, unless a refused change set is on its way back.
LEMMA IdleShows ==
  ASSUME SessionInv, InsertInv, NEW H, NEW R, Agree(H, R), NEW c \in Clients, Idle(c),
         OnlyEvents(stackQ[c]), "overlap" \notin Freedoms
  PROVE  \/ local[c] = << >> /\ send[c] = << >> /\ text[c] = R[Len(global[c])]
         \/ \E w \in Insertions :
              /\ w.range.location <= Len(global[c])
              /\ \/ local[c] = <<w>> /\ send[c] = << >>
                 \/ local[c] = << >> /\ send[c] = <<w>>
              /\ text[c] = PutIn(R[Len(global[c])], w.range.location, Glyph(Identity(w)))
<1> DEFINE n == Len(global[c])
<1>1. /\ alive[c] /\ uiQ[c] = << >> /\ timer[c] = "idle"
      /\ text[c] \in Seq(Glyphs) /\ stackQ[c] \in Seq(KeyBlocks)
  BY DeviceRead DEF Idle
<1>2. \A final : Shows(text[c], uiQ[c], final) => text[c] = final
  BY <1>1, BecomesNow DEF Shows
<1>3. stackQ[c] # << >> => Head(stackQ[c]).kind = "new"
  <2>1. stackQ[c] # << >> => Head(stackQ[c]) = stackQ[c][1] /\ 1 \in 1..Len(stackQ[c])
    BY <1>1, HeadTailProperties, LenProperties, EmptySeq
  <2> QED  BY <2>1 DEF OnlyEvents
<1>4. Standing(c, H, R)
  BY <1>1 DEF Agree
<1> HIDE DEF n
<1>5. \/ Clear(c) /\ text[c] = R[n]
      \/ \E w \in Insertions :
           /\ w.range.location <= n
           /\ text[c] = PutIn(R[n], w.range.location, Glyph(Identity(w)))
           /\ AtHome(c, w) \/ Underway(c, w)
  BY <1>2, <1>4 DEF Standing, n
<1>6. \A w : AtHome(c, w) => local[c] = <<w>> /\ send[c] = << >>
  BY <1>1, <1>3 DEF AtHome
<1>7. \A w : Underway(c, w) => local[c] = << >> /\ send[c] = <<w>>
  BY <1>1 DEF Underway
<1> QED
  BY <1>5, <1>6, <1>7 DEF Clear, n

\* A device that has everything, and has nothing to add, shows the text of the session.
LEMMA SettledShows ==
  ASSUME SessionInv, InsertInv, NEW H, NEW R, Agree(H, R), NEW c \in Clients, Settled(c),
         "overlap" \notin Freedoms
  PROVE  text[c] = R[Len(log)]
<1>1. /\ Idle(c) /\ stackQ[c] = << >> /\ received[c] = Len(log)
      /\ local[c] \o undo[c] \o redo[c] \o send[c] = << >>
  BY DEF Settled
<1>2. OnlyEvents(stackQ[c])
  BY <1>1, EmptySeq DEF OnlyEvents
<1>3. Len(global[c]) = Len(log)
  BY <1>1, WorkedThrough
<1>4. local[c] = << >> /\ send[c] = << >>
  <2>1. /\ local[c] \in Seq(Keystrokes) /\ undo[c] = << >> /\ redo[c] = << >>
        /\ local[c] \in Seq(Ops) /\ send[c] \in Seq(Ops)
    BY DeviceRead DEF TypeOK
  <2>2. local[c] \o << >> = local[c]
    BY <2>1, ConcatEmptySeq
  <2>3. local[c] \o send[c] = << >>
    BY <1>1, <2>1, <2>2
  <2> QED  BY <2>1, <2>3, BothEmpty
<1>5. \A w : <<w>> # << >>
  BY OneIsSome
<1>6. text[c] = R[Len(global[c])]
  BY <1>1, <1>2, <1>4, <1>5, IdleShows
<1> QED
  BY <1>3, <1>6

\* The invariant gives what the properties ask: one text, ...
LEMMA ConvergedFollows == InTurns /\ PairInv => Converged
<1> SUFFICES ASSUME InTurns, PairInv, NEW c \in Clients, NEW d \in Clients, Settled(c), Settled(d)
             PROVE  text[c] = text[d]
  BY DEF Converged
<1>1. PICK H, R : Agree(H, R)
  BY DEF PairInv, AgreeInv
<1>2. "overlap" \notin Freedoms
  BY DEF InTurns
<1>3. text[c] = R[Len(log)] /\ text[d] = R[Len(log)]
  BY <1>1, <1>2, SettledShows DEF PairInv
<1> QED
  BY <1>3

\* ... one global stack, ...
LEMMA StacksFollow == PairInv => GlobalStacksAgree
<1> SUFFICES ASSUME PairInv, NEW c \in Clients, NEW d \in Clients,
                    NEW i \in DOMAIN global[c] \cap DOMAIN global[d]
             PROVE  global[c][i].range = global[d][i].range
  BY DEF GlobalStacksAgree
<1>1. PICK H, R : Agree(H, R)
  BY DEF PairInv, AgreeInv
<1>2. global[c] \in Seq(Ops) /\ global[d] \in Seq(Ops)
  BY DeviceRead DEF PairInv
<1>3. i \in 1..Len(global[c]) /\ i \in 1..Len(global[d])
  BY <1>2, LenProperties
<1>4. /\ global[c][i] \in Insertions /\ global[c][i].range.location = H[i][i - 1]
      /\ global[d][i] \in Insertions /\ global[d][i].range.location = H[i][i - 1]
  BY <1>1, <1>3 DEF Agree, InPlace
<1>5. global[c][i].range \in EmptyRanges /\ global[d][i].range \in EmptyRanges
  BY <1>4 DEF Insertions, Insertion
<1>6. \A r, s \in EmptyRanges : r.location = s.location => r = s
  BY DEF EmptyRanges, Ranges
<1> QED
  BY <1>4, <1>5, <1>6

\* Replaying is showing, from the empty text.
LEMMA ReplayShows ==
  ASSUME NEW ops \in Seq(Insertions), NEW final, Becomes(<< >>, ops, final)
  PROVE  Replay(ops) = final
<1> DEFINE n == Len(ops)
           Next1(t, k) == IF Within(ops[k].range, t)
                            THEN Replace(t, ops[k].range, ops[k].replaceString)
                            ELSE << >>
           Replays(f) == f = [k \in 0..n |-> IF k = 0 THEN << >> ELSE Next1(f[k - 1], k)]
           shown == CHOOSE f : Replays(f)
<1>1. PICK V \in [Nat -> Seq(Glyphs)] :
        /\ V[0] = << >> /\ V[n] = final
        /\ \A i \in 1..n :
             /\ ops[i].range.location <= Len(V[i - 1])
             /\ V[i] = PutIn(V[i - 1], ops[i].range.location, Glyph(Identity(ops[i])))
  BY DEF Becomes
<1>2. n \in Nat
  BY LenProperties
<1>3. Replay(ops) = shown[n]
  BY DEF Replay
<1>4. ASSUME NEW k \in 1..n
      PROVE  Next1(V[k - 1], k) = V[k]
  <2>1. ops[k] \in Insertions
    BY ElementOfSeq
  <2>2. V[k - 1] \in Seq(Glyphs)
    <3>1. k - 1 \in Nat
      BY <1>2
    <3> QED  BY <3>1
  <2>3. /\ Within(ops[k].range, V[k - 1])
        /\ Replace(V[k - 1], ops[k].range, ops[k].replaceString)
             = PutIn(V[k - 1], ops[k].range.location, Glyph(Identity(ops[k])))
    BY <1>1, <2>1, <2>2, InsertionPuts
  <2> QED  BY <1>1, <2>3
<1> HIDE DEF Next1, n
<1> DEFINE known == [k \in 0..n |-> V[k]]
<1>5. Replays(known)
  <2>1. \A k \in 0..n : k # 0 => k \in 1..n /\ k - 1 \in 0..n
    BY <1>2
  <2>2. \A k \in 0..n : known[k] = V[k]
    OBVIOUS
  <2>3. \A k \in 0..n : k # 0 => Next1(known[k - 1], k) = V[k]
    <3> HIDE DEF known
    <3> QED  BY <1>4, <2>1, <2>2
  <2> QED  BY <1>1, <2>3
<1>6. Replays(shown)
  <2> HIDE DEF Replays, known
  <2> QED  BY <1>5
<1> HIDE DEF shown
<1>7. shown[0] = << >> /\ \A k \in 1..n : shown[k] = Next1(shown[k - 1], k)
  <2>1. 0 \in 0..n /\ \A k \in 1..n : k \in 0..n /\ k # 0
    BY <1>2
  <2> QED  BY <1>6, <2>1
<1>8. \A k \in 0..n : shown[k] = V[k]
  <2> DEFINE T == {k \in 0..n : shown[k] = V[k]}
  <2>1. 0 \in T
    BY <1>1, <1>2, <1>7
  <2>2. ASSUME NEW k \in 1..n, k - 1 \in T
        PROVE  k \in T
    <3>1. k \in 0..n
      BY <1>2
    <3>2. shown[k - 1] = V[k - 1]
      BY <2>2
    <3>3. shown[k] = V[k]
      BY <1>4, <1>7, <3>2
    <3> QED  BY <3>1, <3>3
  <2> HIDE DEF T
  <2>3. \A k \in 0..n : k \in T
    BY <1>2, <2>1, <2>2, LoopReaches
  <2> QED  BY <2>3 DEF T
<1>9. n \in 0..n
  BY <1>2
<1> QED
  BY <1>1, <1>3, <1>8, <1>9

\* The global stack, replayed, makes the text of the operations in it.
LEMMA GlobalReplays ==
  ASSUME SessionInv, InsertInv, NEW H, NEW R, Agree(H, R), NEW c \in Clients
  PROVE  /\ global[c] \in Seq(Insertions)
         /\ Becomes(<< >>, global[c], R[Len(global[c])])
         /\ Len(R[Len(global[c])]) = Len(global[c])
<1> DEFINE n == Len(global[c])
<1>1. /\ Prefix(c) /\ n \in Nat /\ Len(log) \in Nat /\ n <= Len(log) /\ global[c] \in Seq(Ops)
  BY DeviceRead
<1>2. Table(log, H, R) /\ InPlace(global[c], H)
  BY DEF Agree
<1> HIDE DEF n
<1>3. global[c] \in Seq(Insertions)
  <2> DEFINE e(i) == global[c][i]
  <2>1. \A i \in 1..n : e(i) \in Insertions
    BY <1>2 DEF InPlace, n
  <2>2. global[c] = [i \in 1..n |-> e(i)]
    BY <1>1, LenProperties DEF n
  <2> HIDE DEF e
  <2>3. [i \in 1..n |-> e(i)] \in Seq(Insertions)
    BY <1>1, <2>1, IsASeq
  <2> QED  BY <2>2, <2>3
<1>4. ASSUME NEW i \in 1..n
      PROVE  /\ global[c][i].range.location <= Len(R[i - 1])
             /\ R[i] = PutIn(R[i - 1], global[c][i].range.location,
                             Glyph(Identity(global[c][i])))
  <2>1. i \in 1..Len(log) /\ i - 1 \in 0..Len(log) /\ i \in Nat /\ i - 1 \in Nat
    BY <1>1
  <2>2. Row(log, i, H, R)
    BY <1>2, <2>1 DEF Table
  <2>3. /\ global[c][i].range.location = H[i][i - 1]
        /\ Identity(global[c][i]) = Identity(log[i].op)
    BY <1>1, <1>2 DEF InPlace, Prefix, n
  <2>4. Len(R[i - 1]) = i - 1
    BY <1>1, <1>2, <2>1, TableRead
  <2>5. H[i][i - 1] <= i - 1
    <3>1. Refers(log[i].op) \in 0..(i - 1)
      BY <2>2 DEF Row
    <3>2. i - 1 \in Refers(log[i].op)..(i - 1)
      BY <2>1, <3>1
    <3> QED  BY <2>2, <3>2 DEF Row
  <2>6. R[i] = PutIn(R[i - 1], H[i][i - 1], Glyph(Identity(log[i].op)))
    BY <2>2 DEF Row
  <2> QED  BY <2>3, <2>4, <2>5, <2>6
<1>5. R \in [Nat -> Seq(Glyphs)] /\ R[0] = << >>
  BY <1>2 DEF Table
<1>6. Becomes(<< >>, global[c], R[n])
  BY <1>4, <1>5 DEF Becomes, n
<1>7. Len(R[n]) = n
  <2>1. n \in 0..Len(log)
    BY <1>1
  <2> QED  BY <1>1, <1>2, <2>1, TableRead
<1> QED
  BY <1>3, <1>6, <1>7 DEF n

\* ... and a text that its own operations make.
LEMMA ReplayFollows == InTurns /\ PairInv => TextIsReplay
<1> SUFFICES ASSUME InTurns, PairInv, NEW c \in Clients, Idle(c),
                    \A i \in DOMAIN stackQ[c] : stackQ[c][i].kind = "new"
             PROVE  text[c] = Replay(global[c] \o send[c] \o local[c])
  BY DEF TextIsReplay
<1> DEFINE n == Len(global[c])
<1>1. PICK H, R : Agree(H, R)
  BY DEF PairInv, AgreeInv
<1>2. stackQ[c] \in Seq(KeyBlocks)
  BY DeviceRead DEF PairInv
<1>3. OnlyEvents(stackQ[c])
  <2>1. DOMAIN stackQ[c] = 1..Len(stackQ[c])
    BY <1>2, LenProperties
  <2> QED  BY <2>1 DEF OnlyEvents
<1>4. /\ global[c] \in Seq(Insertions) /\ Becomes(<< >>, global[c], R[n])
      /\ Len(R[n]) = n
  BY <1>1, GlobalReplays DEF PairInv
<1>5. \A w \in Insertions : /\ <<w>> \in Seq(Insertions)
                            /\ global[c] \o <<w>> = Append(global[c], w)
                            /\ Append(global[c], w) \in Seq(Insertions)
  BY <1>4, AppendIsConcat, AppendProperties
<1>6. global[c] \o << >> = global[c]
  BY <1>4, ConcatEmptySeq
<1>7. CASE local[c] = << >> /\ send[c] = << >> /\ text[c] = R[n]
  <2>1. global[c] \o send[c] \o local[c] = global[c]
    BY <1>6, <1>7
  <2>2. Replay(global[c]) = R[n]
    BY <1>4, ReplayShows
  <2> QED  BY <1>7, <2>1, <2>2
<1>8. ASSUME NEW w \in Insertions, w.range.location <= n,
             \/ local[c] = <<w>> /\ send[c] = << >>
             \/ local[c] = << >> /\ send[c] = <<w>>,
             text[c] = PutIn(R[n], w.range.location, Glyph(Identity(w)))
      PROVE  text[c] = Replay(global[c] \o send[c] \o local[c])
  <2>1. global[c] \o send[c] \o local[c] = Append(global[c], w)
    <3>1. CASE local[c] = <<w>> /\ send[c] = << >>
      BY <1>5, <1>6, <3>1
    <3>2. CASE local[c] = << >> /\ send[c] = <<w>>
      <4>1. Append(global[c], w) \o << >> = Append(global[c], w)
        BY <1>5, ConcatEmptySeq
      <4> QED  BY <1>5, <3>2, <4>1
    <3> QED  BY <1>8, <3>1, <3>2
  <2>2. Becomes(<< >>, Append(global[c], w), text[c])
    BY <1>4, <1>8, BecomesMore
  <2>3. Replay(Append(global[c], w)) = text[c]
    BY <1>5, <2>2, ReplayShows
  <2> QED  BY <2>1, <2>3
<1>9. "overlap" \notin Freedoms
  BY DEF InTurns
<1> QED
  BY <1>1, <1>3, <1>7, <1>8, <1>9, IdleShows DEF PairInv

\* What is shown next has its place in the text, or the rest would not make the
\* text of the table.
LEMMA PairFits == InTurns /\ PairInv => ShownFits
<1> SUFFICES ASSUME InTurns, PairInv, NEW c \in Clients, alive[c], uiQ[c] # << >>
             PROVE  Within(Head(uiQ[c]).range, text[c])
  BY DEF ShownFits
<1>1. PICK H, R : Agree(H, R)
  BY DEF PairInv, AgreeInv
<1>2. text[c] \in Seq(Glyphs) /\ uiQ[c] \in Seq(Insertions)
  BY DeviceRead DEF PairInv
<1>3. PICK final : Becomes(text[c], uiQ[c], final)
  BY <1>1 DEF Agree, Standing, Shows, InTurns
<1>4. Head(uiQ[c]) \in Insertions
  BY <1>2, HeadTailProperties
<1>5. Head(uiQ[c]).range.location <= Len(text[c])
  BY <1>2, <1>3, BecomesLess
<1> QED
  BY <1>2, <1>4, <1>5, InsertionPuts

\* Two users insert, each one character at a time. In turns, any broadcast may be
\* refused; or users type and timers fire at any time. Where each operation of the
\* session comes in is written in one table, which the loops of addNewGlobalOperation
\* compute on both devices.
THEOREM PairInvariant == TwoUsers /\ Calm /\ UsersInsert => (Spec => []PairInv)
<1> SUFFICES ASSUME TwoUsers, Calm, UsersInsert  PROVE Spec => []PairInv
  OBVIOUS
<1>1. PairInv /\ [Next]_vars => PairInv'
  BY NextPairs
<1> QED
  BY <1>1, PairInitially, PTL DEF Spec

\* The global stacks of both devices then hold the same operations at the same ranges,
\* although each brought the foreign ones forward past operations the other never saw
\* waiting.
THEOREM TwoStacksAgree == TwoUsers /\ Calm /\ UsersInsert => (Spec => []GlobalStacksAgree)
BY PairInvariant, StacksFollow, PTL

\* In turns addNewGlobalOperation keeps its promise for the texts, too: two devices
\* that have worked through the same events, and have nothing of their own on the
\* way, show the same text.
THEOREM TwoUsersConverge == TwoUsers /\ InTurns /\ UsersInsert => (Spec => []Converged)
<1> SUFFICES ASSUME TwoUsers, InTurns, UsersInsert  PROVE Spec => []Converged
  OBVIOUS
<1>1. TwoUsers /\ Calm /\ UsersInsert
  BY DEF Calm
<1>2. PairInv => Converged
  BY ConvergedFollows
<1> QED
  BY <1>1, <1>2, PairInvariant, PTL

\* ... and what is on the screen of a device is what the operations of its stacks
\* make of an empty document, so that confirming an operation, which leaves the text
\* alone, is right to leave it alone.
THEOREM TwoTextsReplay == TwoUsers /\ InTurns /\ UsersInsert => (Spec => []TextIsReplay)
<1> SUFFICES ASSUME TwoUsers, InTurns, UsersInsert  PROVE Spec => []TextIsReplay
  OBVIOUS
<1>1. TwoUsers /\ Calm /\ UsersInsert
  BY DEF Calm
<1>2. PairInv => TextIsReplay
  BY ReplayFollows
<1> QED
  BY <1>1, <1>2, PairInvariant, PTL

\* ... and updateInputView never asks the text view for a range it does not have,
\* also when broadcasts are refused: no device ends with an exception.
THEOREM TwoUsersFit == TwoUsers /\ InTurns /\ UsersInsert => (Spec => []ShownFits)
<1> SUFFICES ASSUME TwoUsers, InTurns, UsersInsert  PROVE Spec => []ShownFits
  OBVIOUS
<1>1. TwoUsers /\ Calm /\ UsersInsert
  BY DEF Calm
<1>2. PairInv => ShownFits
  BY PairFits
<1> QED
  BY <1>1, <1>2, PairInvariant, PTL

-----------------------------------------------------------------------------
(* Undo and redo: a keystroke, its inverse, and the inverse of that.       *)

Texts == Seq(Glyphs)

\* op fits the text before, cuts from it what it says, and makes after of it.
Makes(op, before, after) ==
  /\ Within(op.range, before)
  /\ op.originalString = Substring(before, op.range)
  /\ after = Replace(before, op.range, op.replaceString)

\* The characters of a text u that is t with range replaced by put.
Replaced(t, range, put, u) ==
  /\ Len(u) = Len(t) - range.length + Len(put)
  /\ \A i \in 1..range.location : u[i] = t[i]
  /\ \A i \in 1..Len(put) : u[range.location + i] = put[i]
  /\ \A i \in 1..(Len(t) - range.location - range.length) :
       u[range.location + Len(put) + i] = t[range.location + range.length + i]

\* What Replace makes, character by character.
LEMMA ReplacedText ==
  ASSUME NEW G, NEW t \in Seq(G), NEW range \in Ranges, NEW put \in Seq(G), Within(range, t)
  PROVE  Replace(t, range, put) \in Seq(G) /\ Replaced(t, range, put, Replace(t, range, put))
<1> DEFINE u == Replace(t, range, put)
           l == range.location
           k == range.length
           m == Len(put)
           n == Len(t)
           A == SubSeq(t, 1, l)
           B == SubSeq(t, l + k + 1, n)
<1>1. /\ l \in Nat /\ k \in Nat /\ n \in Nat /\ m \in Nat /\ l + k <= n
  BY LenProperties DEF Ranges, Within
<1>2. u = (A \o put) \o B
  BY DEF Replace
<1>3. \A i \in 1..n : t[i] \in G
  BY ElementOfSeq
<1> HIDE DEF n, l, k, m
<1>4. /\ A \in Seq(G) /\ Len(A) = l /\ \A i \in 1..l : A[i] = t[i]
  <2>1. \A i \in 1..l : t[i] \in G
    BY <1>1, <1>3
  <2>2. 1 <= l => l - 1 + 1 = l
    BY <1>1
  <2>3. /\ A \in Seq(G) /\ Len(A) = IF 1 <= l THEN l - 1 + 1 ELSE 0
        /\ \A i \in 1..(l - 1 + 1) : A[i] = t[1 + i - 1]
    BY <1>1, <2>1, SubSeqProperties
  <2> QED  BY <1>1, <2>3
<1>5. /\ B \in Seq(G) /\ Len(B) = n - l - k
      /\ \A i \in 1..(n - l - k) : B[i] = t[l + k + i]
  <2>1. \A i \in (l + k + 1)..n : t[i] \in G
    BY <1>1, <1>3
  <2>2. /\ B \in Seq(G)
        /\ Len(B) = IF l + k + 1 <= n THEN n - (l + k + 1) + 1 ELSE 0
        /\ \A i \in 1..(n - (l + k + 1) + 1) : B[i] = t[l + k + 1 + i - 1]
    BY <1>1, <2>1, SubSeqProperties
  <2>3. (IF l + k + 1 <= n THEN n - (l + k + 1) + 1 ELSE 0) = n - l - k
    BY <1>1
  <2>4. n - (l + k + 1) + 1 = n - l - k
    BY <1>1
  <2>5. \A i \in 1..(n - l - k) : l + k + 1 + i - 1 = l + k + i
    BY <1>1
  <2> HIDE DEF B
  <2> QED  BY <2>2, <2>3, <2>4, <2>5
<1> HIDE DEF A, B
<1>6. /\ A \o put \in Seq(G) /\ Len(A \o put) = l + m
      /\ \A i \in 1..(l + m) : (A \o put)[i] = IF i <= l THEN A[i] ELSE put[i - l]
  BY <1>4, ConcatProperties DEF m
<1>7. /\ u \in Seq(G) /\ Len(u) = (l + m) + (n - l - k)
      /\ \A i \in 1..((l + m) + (n - l - k)) :
           u[i] = IF i <= l + m THEN (A \o put)[i] ELSE B[i - (l + m)]
  <2> DEFINE C == A \o put
  <2>1. C \in Seq(G) /\ Len(C) = l + m /\ u = C \o B
    BY <1>2, <1>6
  <2> HIDE DEF C, u
  <2>2. /\ u \in Seq(G) /\ Len(u) = Len(C) + Len(B)
        /\ \A i \in 1..(Len(C) + Len(B)) : u[i] = IF i <= Len(C) THEN C[i] ELSE B[i - Len(C)]
    BY <1>5, <2>1, ConcatProperties
  <2>3. Len(C) = l + m /\ Len(B) = n - l - k
    BY <1>5, <2>1
  <2>4. /\ u \in Seq(G) /\ Len(u) = (l + m) + (n - l - k)
        /\ \A i \in 1..((l + m) + (n - l - k)) :
             u[i] = IF i <= l + m THEN C[i] ELSE B[i - (l + m)]
    BY <2>2, <2>3
  <2> QED  BY <2>4 DEF C
<1> HIDE DEF u
<1>8. \A i \in 1..l : u[i] = t[i]
  BY <1>1, <1>4, <1>6, <1>7
<1>9. \A i \in 1..m : u[l + i] = put[i]
  <2> TAKE i \in 1..m
  <2>1. /\ l + i \in 1..(l + m) /\ l + i \in 1..((l + m) + (n - l - k))
        /\ ~(l + i <= l) /\ l + i <= l + m
        /\ (l + i) - l = i
    BY <1>1, i \in 1..m
  <2> DEFINE x == l + i
  <2>2. x \in 1..(l + m) /\ x \in 1..((l + m) + (n - l - k)) /\ ~(x <= l) /\ x <= l + m /\ x - l = i
    BY <2>1
  <2> HIDE DEF x
  <2>3. u[x] = (A \o put)[x] /\ (A \o put)[x] = put[x - l]
    BY <1>6, <1>7, <2>2
  <2> QED  BY <2>2, <2>3 DEF x
<1>10. \A i \in 1..(n - l - k) : u[l + m + i] = t[l + k + i]
  <2> TAKE i \in 1..(n - l - k)
  <2>1. /\ l + m + i \in 1..((l + m) + (n - l - k)) /\ ~(l + m + i <= l + m)
        /\ (l + m + i) - (l + m) = i
    BY <1>1
  <2> DEFINE x == l + m + i
  <2>2. x \in 1..((l + m) + (n - l - k)) /\ ~(x <= l + m) /\ x - (l + m) = i
    BY <2>1
  <2> HIDE DEF x
  <2>3. u[x] = B[x - (l + m)] /\ B[i] = t[l + k + i]
    BY <1>5, <1>7, <2>2
  <2> QED  BY <2>2, <2>3 DEF x
<1>11. Len(u) = n - k + m
  BY <1>1, <1>7
<1> QED
  BY <1>7, <1>8, <1>9, <1>10, <1>11 DEF Replaced, u, l, k, m, n

\* The inverse of an operation takes it back.
LEMMA InverseTakesBack ==
  ASSUME NEW t \in Texts, NEW u, NEW op \in Ops, Makes(op, t, u), NEW author, NEW id, NEW state
  PROVE  u \in Texts /\ Makes(InverseOf(op, author, id, state), u, t)
<1> DEFINE q == op.originalString
           p == op.replaceString
           l == op.range.location
           k == op.range.length
           m == Len(p)
           n == Len(t)
           back == InverseOf(op, author, id, state)
           r == [location |-> l, length |-> m]
<1>1. /\ op.range \in Ranges /\ p \in Texts /\ q \in Texts
      /\ l \in Nat /\ k \in Nat /\ m \in Nat /\ n \in Nat
      /\ Within(op.range, t) /\ l + k <= n
  BY LenProperties DEF Ops, Operations, Strings, Texts, Ranges, Makes, Within
<1>2. /\ u = Replace(t, op.range, p) /\ q = SubSeq(t, l + 1, l + k)
  BY DEF Makes, Substring
<1>3. /\ u \in Texts /\ Len(u) = n - k + m
      /\ \A i \in 1..l : u[i] = t[i]
      /\ \A i \in 1..m : u[l + i] = p[i]
      /\ \A i \in 1..(n - l - k) : u[l + m + i] = t[l + k + i]
  <2> DEFINE v == Replace(t, op.range, p)
  <2>1. /\ v \in Seq(Glyphs) /\ Len(v) = n - k + m
        /\ \A i \in 1..l : v[i] = t[i]
        /\ \A i \in 1..m : v[l + i] = p[i]
        /\ \A i \in 1..(n - l - k) : v[l + m + i] = t[l + k + i]
    <3>1. p \in Seq(Glyphs) /\ t \in Seq(Glyphs) /\ op.range \in Ranges /\ Within(op.range, t)
      BY <1>1 DEF Texts
    <3> HIDE DEF p
    <3>2. v \in Seq(Glyphs) /\ Replaced(t, op.range, p, v)
      BY <3>1, ReplacedText
    <3> HIDE DEF v
    <3> QED  BY <3>2 DEF Replaced
  <2>2. u = v
    BY <1>2
  <2> HIDE DEF v, n, k, m, l, p
  <2> QED  BY <2>1, <2>2 DEF Texts
<1>4. /\ back.range = r /\ back.originalString = p /\ back.replaceString = q
  BY DEF InverseOf
<1>5. r \in Ranges /\ r.location = l /\ r.length = m
  BY <1>1 DEF Ranges
<1>6. Len(q) = k /\ \A i \in 1..k : q[i] = t[l + i]
  <2>1. \A i \in (l + 1)..(l + k) : t[i] \in Glyphs
    <3>1. \A i \in (l + 1)..(l + k) : i \in 1..n
      <4> HIDE DEF l, k, n
      <4> QED  BY <1>1
    <3> QED  BY <3>1, ElementOfSeq DEF Texts
  <2> HIDE DEF l, k, q
  <2>2. /\ Len(q) = IF l + 1 <= l + k THEN l + k - (l + 1) + 1 ELSE 0
        /\ \A i \in 1..(l + k - (l + 1) + 1) : q[i] = t[l + 1 + i - 1]
    BY <1>1, <1>2, <2>1, SubSeqProperties
  <2>3. (IF l + 1 <= l + k THEN l + k - (l + 1) + 1 ELSE 0) = k /\ l + k - (l + 1) + 1 = k
    BY <1>1
  <2>4. \A i \in 1..k : l + 1 + i - 1 = l + i
    BY <1>1
  <2> QED  BY <2>2, <2>3, <2>4
<1> HIDE DEF q, p, l, k, m, n, r
<1>7. Within(r, u)
  BY <1>1, <1>3, <1>5 DEF Within
<1>8. p = Substring(u, r)
  <2>1. \A i \in (l + 1)..(l + m) : u[i] \in Glyphs
    <3>1. \A i \in (l + 1)..(l + m) : i \in 1..Len(u)
      BY <1>1, <1>3
    <3> QED  BY <1>3, <3>1, ElementOfSeq DEF Texts
  <2> DEFINE s == SubSeq(u, l + 1, l + m)
  <2>2. /\ s \in Seq(Glyphs)
        /\ Len(s) = IF l + 1 <= l + m THEN l + m - (l + 1) + 1 ELSE 0
        /\ \A i \in 1..(l + m - (l + 1) + 1) : s[i] = u[l + 1 + i - 1]
    BY <1>1, <2>1, SubSeqProperties
  <2>3. (IF l + 1 <= l + m THEN l + m - (l + 1) + 1 ELSE 0) = m /\ l + m - (l + 1) + 1 = m
    BY <1>1
  <2>4. \A i \in 1..m : l + 1 + i - 1 = l + i
    BY <1>1
  <2>5. s = Substring(u, r)
    BY <1>5 DEF Substring
  <2> HIDE DEF s
  <2>6. Len(s) = Len(p) /\ \A i \in 1..Len(p) : p[i] = s[i]
    BY <1>3, <2>2, <2>3, <2>4 DEF m
  <2>7. p = s
    BY <1>1, <2>2, <2>6, SeqEqual DEF Texts
  <2> QED  BY <2>5, <2>7
<1>9. t = Replace(u, r, q)
  <2> DEFINE v == Replace(u, r, q)
  <2>1. /\ v \in Texts /\ Len(v) = Len(u) - m + k
        /\ \A i \in 1..l : v[i] = u[i]
        /\ \A i \in 1..k : v[l + i] = q[i]
        /\ \A i \in 1..(Len(u) - l - m) : v[l + k + i] = u[l + m + i]
    <3>1. q \in Seq(Glyphs) /\ u \in Seq(Glyphs)
      BY <1>1, <1>3 DEF Texts
    <3>2. v \in Seq(Glyphs) /\ Replaced(u, r, q, v)
      BY <1>5, <1>7, <3>1, ReplacedText
    <3>3. r.location = l /\ r.length = m /\ Len(q) = k
      BY <1>5, <1>6
    <3> HIDE DEF v
    <3> QED  BY <3>2, <3>3 DEF Texts, Replaced
  <2> HIDE DEF v
  <2>2. Len(v) = n /\ Len(u) - l - m = n - l - k
    BY <1>1, <1>3, <2>1
  <2>3. ASSUME NEW i \in 1..n  PROVE t[i] = v[i]
    <3>1. CASE i <= l
      BY <1>1, <1>3, <2>1, <3>1
    <3>2. CASE i > l /\ i <= l + k
      <4>1. i - l \in 1..k /\ l + (i - l) = i
        BY <1>1, <3>2
      <4> QED  BY <1>6, <2>1, <4>1
    <3>3. CASE i > l + k
      <4>1. i - l - k \in 1..(n - l - k) /\ l + k + (i - l - k) = i
        BY <1>1, <3>3
      <4> QED  BY <1>3, <2>1, <2>2, <4>1
    <3> QED  BY <1>1, <3>1, <3>2, <3>3
  <2>4. Len(t) = Len(v)
    BY <2>2 DEF n
  <2>5. t = v
    BY <2>1, <2>3, <2>4, SeqEqual DEF Texts, n
  <2> QED  BY <2>5 DEF v
<1> QED
  BY <1>3, <1>4, <1>7, <1>8, <1>9 DEF Makes

-----------------------------------------------------------------------------
(* What undo and redo find.                                                *)

\* A stack that grows has one more operation to count, or not.
LEMMA CountGrows ==
  ASSUME NEW stack \in Seq(Ops), NEW op \in Ops, NEW S,
         NEW i \in 1..(Len(stack) + 1)
  PROVE  /\ CountFrom(stack, i, op.participantID, S) \in Nat
         /\ i = Len(stack) + 1 => CountFrom(stack, i, op.participantID, S) = 0
         /\ op.state \in S =>
              CountFrom(Append(stack, op), i, op.participantID, S)
                = CountFrom(stack, i, op.participantID, S) + 1
         /\ op.state \notin S =>
              CountFrom(Append(stack, op), i, op.participantID, S)
                = CountFrom(stack, i, op.participantID, S)
<1> DEFINE c == op.participantID
           n == Len(stack)
           Counts(o) == o.participantID = c /\ o.state \in S
           more == Append(stack, op)
           D == {j \in i..n : Counts(stack[j])}
           E == {j \in i..(n + 1) : Counts(more[j])}
<1>1. n \in Nat /\ i \in Nat /\ 1 <= i /\ i <= n + 1
  BY LenProperties
<1>2. Len(more) = n + 1 /\ (\A j \in 1..n : more[j] = stack[j]) /\ more[n + 1] = op
  BY AppendProperties
<1>3. /\ CountFrom(stack, i, c, S) = Cardinality(D)
      /\ CountFrom(more, i, c, S) = Cardinality(E)
  BY <1>2 DEF CountFrom
<1> HIDE DEF n, more
<1>4. IsFiniteSet(D) /\ Cardinality(D) \in Nat /\ n + 1 \notin D
  <2>1. IsFiniteSet(i..n)
    BY <1>1, FS_Interval
  <2>2. IsFiniteSet(D)
    BY <2>1, FS_Subset
  <2>3. n + 1 \notin D
    BY <1>1
  <2> QED  BY <2>2, <2>3, FS_CardinalityType
<1>5. i = n + 1 => Cardinality(D) = 0
  <2>1. i = n + 1 => D = {}
    BY <1>1
  <2> QED  BY <2>1, FS_EmptySet
<1>6. E = IF op.state \in S THEN D \cup {n + 1} ELSE D
  <2>1. \A j : j \in i..(n + 1) <=> j \in i..n \/ j = n + 1
    BY <1>1
  <2>2. \A j \in i..n : more[j] = stack[j]
    <3>1. \A j \in i..n : j \in 1..n
      BY <1>1
    <3> QED  BY <1>2, <3>1
  <2>3. Counts(more[n + 1]) <=> op.state \in S
    BY <1>2
  <2> HIDE DEF Counts
  <2>4. \A j : j \in E <=> j \in D \/ (j = n + 1 /\ op.state \in S)
    BY <2>1, <2>2, <2>3, <1>4
  <2> QED  BY <2>4
<1> HIDE DEF D, E
<1>7. Cardinality(E) = Cardinality(D) + (IF op.state \in S THEN 1 ELSE 0)
  <2>1. CASE op.state \in S
    <3>1. E = D \cup {n + 1}
      BY <1>6, <2>1
    <3>2. Cardinality(D \cup {n + 1}) = Cardinality(D) + 1
      BY <1>4, FS_AddElement
    <3> QED  BY <2>1, <3>1, <3>2
  <2>2. CASE op.state \notin S
    BY <1>4, <1>6, <2>2
  <2> QED  BY <2>1, <2>2
<1> QED
  BY <1>3, <1>4, <1>5, <1>7 DEF n, more

\* By how many, at or above position i of a stack of c, the operations in a state of S
\* outnumber those in a state of T.
Over(stack, c, S, T, i) == CountFrom(stack, i, c, S) - CountFrom(stack, i, c, T)

Apart(S, T) == S \cap T = {}

\* What it does to the difference of two counts.
LEMMA OverGrows ==
  ASSUME NEW stack \in Seq(Ops), NEW op \in Ops, NEW S, NEW T,
         Apart(S, T), NEW i \in 1..(Len(stack) + 1)
  PROVE  /\ Over(stack, op.participantID, S, T, i) \in Int
         /\ i = Len(stack) + 1 => Over(stack, op.participantID, S, T, i) = 0
         /\ op.state \in S =>
              Over(Append(stack, op), op.participantID, S, T, i)
                = Over(stack, op.participantID, S, T, i) + 1
         /\ op.state \in T =>
              Over(Append(stack, op), op.participantID, S, T, i)
                = Over(stack, op.participantID, S, T, i) - 1
<1> DEFINE c == op.participantID
           s == CountFrom(stack, i, c, S)
           t == CountFrom(stack, i, c, T)
           x == CountFrom(Append(stack, op), i, c, S)
           y == CountFrom(Append(stack, op), i, c, T)
<1>1. /\ s \in Nat /\ (i = Len(stack) + 1 => s = 0)
      /\ (op.state \in S => x = s + 1) /\ (op.state \notin S => x = s)
  BY CountGrows, Zenon
<1>2. /\ t \in Nat /\ (i = Len(stack) + 1 => t = 0)
      /\ (op.state \in T => y = t + 1) /\ (op.state \notin T => y = t)
  BY CountGrows, Zenon
<1>3. Over(stack, c, S, T, i) = s - t /\ Over(Append(stack, op), c, S, T, i) = x - y
  BY DEF Over
<1>4. (op.state \in S => op.state \notin T) /\ (op.state \in T => op.state \notin S)
  BY DEF Apart
<1> HIDE DEF s, t, x, y
<1> QED
  BY <1>1, <1>2, <1>3, <1>4

\* Half of an undo history: p has the places in the stack of the operations that can be
\* taken back, texts what was there before each of them, and t what there is now. A scan
\* for S against T meets them one by one.
Rungs(stack, c, S, T, p, texts, t) ==
  /\ p \in Seq(Nat) /\ texts \in Seq(Texts) /\ t \in Texts
  /\ Len(p) = Len(texts)
  /\ \A j \in 1..Len(p) :
       /\ p[j] \in 1..Len(stack)
       /\ Over(stack, c, S, T, p[j]) = Len(p) - j + 1
       /\ \A i \in 1..Len(stack) : i > p[j] => Over(stack, c, S, T, i) <= Len(p) - j
       /\ Makes(stack[p[j]], texts[j], Append(texts, t)[j + 1])

\* All but the last of a sequence.
LEMMA FrontOf ==
  ASSUME NEW S, NEW s \in Seq(S), Len(s) >= 1
  PROVE  /\ Front(s) \in Seq(S) /\ Len(Front(s)) = Len(s) - 1
         /\ \A i \in 1..(Len(s) - 1) : Front(s)[i] = s[i]
<1> DEFINE m == Len(s)
<1>1. m \in Nat /\ m - 1 \in Int
  BY LenProperties
<1>2. \A i \in 1..(m - 1) : s[i] \in S
  <2>1. \A i \in 1..(m - 1) : i \in 1..m
    BY <1>1
  <2> QED  BY <2>1, ElementOfSeq
<1>3. Front(s) = SubSeq(s, 1, m - 1)
  BY DEF Front
<1> HIDE DEF m
<1>4. /\ Front(s) \in Seq(S)
      /\ Len(Front(s)) = IF 1 <= m - 1 THEN (m - 1) - 1 + 1 ELSE 0
      /\ \A i \in 1..((m - 1) - 1 + 1) : Front(s)[i] = s[1 + i - 1]
  BY <1>1, <1>2, <1>3, SubSeqProperties
<1>5. (m - 1) - 1 + 1 = m - 1 /\ \A i \in 1..(m - 1) : 1 + i - 1 = i
  BY <1>1
<1>6. (IF 1 <= m - 1 THEN (m - 1) - 1 + 1 ELSE 0) = m - 1
  <2>1. m >= 1
    BY DEF m
  <2> QED  BY <1>1, <2>1
<1>7. Front(s) \in Seq(S) /\ Len(Front(s)) = m - 1 /\ \A i \in 1..(m - 1) : Front(s)[i] = s[i]
  BY <1>4, <1>5, <1>6
<1> QED
  BY <1>7 DEF m

\* A count is a number,
LEMMA CountIsNat ==
  ASSUME NEW stack \in Seq(Ops), NEW c, NEW S, NEW i \in 1..Len(stack)
  PROVE  CountFrom(stack, i, c, S) \in Nat
<1> DEFINE D == {j \in i..Len(stack) : stack[j].participantID = c /\ stack[j].state \in S}
<1>1. Len(stack) \in Nat /\ i \in Int
  BY LenProperties
<1>2. IsFiniteSet(i..Len(stack)) /\ D \in SUBSET (i..Len(stack))
  BY <1>1, FS_Interval
<1> HIDE DEF D
<1>3. IsFiniteSet(D)
  BY <1>2, FS_Subset
<1> QED
  BY <1>3, FS_CardinalityType DEF CountFrom, D

\* ... and the largest of some places is not less than any.
LEMMA MaxIsGreatest ==
  ASSUME NEW n \in Nat, NEW T \in SUBSET (0..n), T # {}
  PROVE  Max(T) \in T /\ \A k \in T : Max(T) >= k
<1> DEFINE D == {n - k : k \in T}
<1>1. D \in SUBSET Nat /\ D # {}
  <2>1. \A k \in T : n - k \in Nat
    OBVIOUS
  <2>2. PICK k \in T : TRUE
    OBVIOUS
  <2>3. n - k \in D
    OBVIOUS
  <2> QED  BY <2>1, <2>3
<1>2. PICK m \in D : \A k \in D : m <= k
  <2> HIDE DEF D
  <2> QED  BY <1>1, LeastElement
<1>3. \A k \in T : n - m >= k /\ k \in Nat
  BY <1>2
<1>4. n - m \in T
  BY <1>2
<1>5. PICK x \in T : \A k \in T : x >= k
  BY <1>3, <1>4
<1>6. Max(T) \in T /\ \A k \in T : Max(T) >= k
  BY <1>5 DEF Max
<1> QED
  BY <1>6

\* With nothing to take back.
LEMMA NoRungs ==
  ASSUME NEW stack, NEW c, NEW S, NEW T, NEW t \in Texts
  PROVE  Rungs(stack, c, S, T, << >>, << >>, t)
<1>1. << >> \in Seq(Nat) /\ << >> \in Seq(Texts) /\ Len(<< >>) = 0
  BY EmptySeq
<1>2. 1..0 = {}
  OBVIOUS
<1> QED
  BY <1>1, <1>2 DEF Rungs

\* An operation that makes u of t is one more to take back.
LEMMA RungAdded ==
  ASSUME NEW stack \in Seq(Ops), NEW op \in Ops, NEW c, op.participantID = c, NEW S, NEW T,
         Apart(S, T), op.state \in S, NEW p, NEW texts, NEW t, NEW u \in Texts,
         Rungs(stack, c, S, T, p, texts, t), Makes(op, t, u)
  PROVE  Rungs(Append(stack, op), c, S, T, Append(p, Len(stack) + 1), Append(texts, t), u)
<1> DEFINE n == Len(stack)
           m == Len(p)
           more == Append(stack, op)
           q == Append(p, n + 1)
           all == Append(texts, t)
           O(i) == Over(stack, c, S, T, i)
           N(i) == Over(more, c, S, T, i)
           last == Append(all, u)
<1>1. /\ p \in Seq(Nat) /\ texts \in Seq(Texts) /\ t \in Texts /\ m = Len(texts)
      /\ \A j \in 1..m :
           /\ p[j] \in 1..n
           /\ O(p[j]) = m - j + 1
           /\ \A i \in 1..n : i > p[j] => O(i) <= m - j
           /\ Makes(stack[p[j]], texts[j], all[j + 1])
  BY DEF Rungs
<1>2. n \in Nat /\ m \in Nat
  BY <1>1, LenProperties
<1>3. Len(more) = n + 1 /\ (\A i \in 1..n : more[i] = stack[i]) /\ more[n + 1] = op
  BY AppendProperties
<1>4. /\ q \in Seq(Nat) /\ Len(q) = m + 1 /\ (\A j \in 1..m : q[j] = p[j]) /\ q[m + 1] = n + 1
  BY <1>1, <1>2, AppendProperties
<1>5. /\ all \in Seq(Texts) /\ Len(all) = m + 1 /\ (\A j \in 1..m : all[j] = texts[j])
      /\ all[m + 1] = t
  BY <1>1, AppendProperties
<1>6. (\A j \in 1..(m + 1) : last[j] = all[j]) /\ last[m + 2] = u
  <2>1. (\A j \in 1..Len(all) : last[j] = all[j]) /\ last[Len(all) + 1] = u
    BY <1>5, AppendProperties
  <2>2. Len(all) = m + 1 /\ (m + 1) + 1 = m + 2
    BY <1>2, <1>5
  <2> HIDE DEF last, all, m
  <2> QED  BY <2>1, <2>2
<1>7. \A i \in 1..(n + 1) : O(i) \in Int /\ N(i) = O(i) + 1 /\ (i = n + 1 => O(i) = 0)
  <2> TAKE i \in 1..(n + 1)
  <2>1. /\ Over(stack, c, S, T, i) \in Int
        /\ i = Len(stack) + 1 => Over(stack, c, S, T, i) = 0
        /\ op.state \in S =>
             Over(Append(stack, op), c, S, T, i) = Over(stack, c, S, T, i) + 1
        /\ op.state \in T =>
             Over(Append(stack, op), c, S, T, i) = Over(stack, c, S, T, i) - 1
    <3>1. /\ Over(stack, op.participantID, S, T, i) \in Int
          /\ i = Len(stack) + 1 => Over(stack, op.participantID, S, T, i) = 0
          /\ op.state \in S =>
               Over(Append(stack, op), op.participantID, S, T, i)
                 = Over(stack, op.participantID, S, T, i) + 1
          /\ op.state \in T =>
               Over(Append(stack, op), op.participantID, S, T, i)
                 = Over(stack, op.participantID, S, T, i) - 1
      BY OverGrows, Zenon
    <3> QED  BY <3>1
  <2> QED  BY <2>1
<1> HIDE DEF n, m, more, q, all, O, N, last
<1>8. ASSUME NEW j \in 1..(m + 1)
      PROVE  /\ q[j] \in 1..(n + 1)
             /\ N(q[j]) = (m + 1) - j + 1
             /\ \A i \in 1..(n + 1) : i > q[j] => N(i) <= (m + 1) - j
             /\ Makes(more[q[j]], all[j], last[j + 1])
  <2>1. CASE j = m + 1
    <3>1. q[j] = n + 1 /\ n + 1 \in 1..(n + 1)
      BY <1>2, <1>4, <2>1
    <3>2. N(n + 1) = 1
      BY <1>7, <3>1
    <3>3. (m + 1) - j + 1 = 1
      BY <1>2, <2>1
    <3>4. \A i \in 1..(n + 1) : ~(i > n + 1)
      BY <1>2
    <3>5. more[q[j]] = op /\ all[j] = t /\ last[j + 1] = u
      <4>1. j + 1 = m + 2
        BY <1>2, <2>1
      <4> QED  BY <1>3, <1>5, <1>6, <2>1, <3>1, <4>1
    <3> QED  BY <3>1, <3>2, <3>3, <3>4, <3>5
  <2>2. CASE j # m + 1
    <3>1. j \in 1..m /\ j + 1 \in 1..(m + 1)
      BY <1>2, <2>2
    <3>2. /\ q[j] = p[j] /\ p[j] \in 1..n /\ O(p[j]) = m - j + 1
          /\ \A i \in 1..n : i > p[j] => O(i) <= m - j
          /\ Makes(stack[p[j]], texts[j], all[j + 1])
      BY <1>1, <1>4, <3>1
    <3> DEFINE x == p[j]
    <3> HIDE DEF x
    <3>3. x \in 1..n /\ x \in 1..(n + 1) /\ O(x) = m - j + 1
      BY <1>2, <3>2 DEF x
    <3>4. N(x) = (m + 1) - j + 1
      BY <1>2, <1>7, <3>3
    <3>5. \A i \in 1..(n + 1) : i > x => N(i) <= (m + 1) - j
      <4> TAKE i \in 1..(n + 1)
      <4> HAVE i > x
      <4>1. N(i) = O(i) + 1 /\ O(i) \in Int
        BY <1>7
      <4>2. O(i) <= m - j
        <5>1. CASE i = n + 1
          <6>1. O(i) = 0 /\ m - j >= 0
            BY <1>2, <1>7, <3>1, <5>1
          <6> QED  BY <6>1
        <5>2. CASE i # n + 1
          <6>1. i \in 1..n
            BY <1>2, <5>2
          <6> QED  BY <3>2, <6>1 DEF x
        <5> QED  BY <5>1, <5>2
      <4> QED  BY <1>2, <3>1, <4>1, <4>2
    <3>6. more[x] = stack[x] /\ all[j] = texts[j] /\ last[j + 1] = all[j + 1]
      BY <1>3, <1>5, <1>6, <3>1, <3>3
    <3> QED  BY <3>2, <3>3, <3>4, <3>5, <3>6 DEF x
  <2> QED  BY <2>1, <2>2
<1>9. Rungs(more, c, S, T, q, all, u)
  <2>1. \A j \in 1..Len(q) :
          /\ q[j] \in 1..Len(more)
          /\ Over(more, c, S, T, q[j]) = Len(q) - j + 1
          /\ \A i \in 1..Len(more) : i > q[j] => Over(more, c, S, T, i) <= Len(q) - j
          /\ Makes(more[q[j]], all[j], Append(all, u)[j + 1])
    BY <1>3, <1>4, <1>8 DEF N, last
  <2> QED  BY <1>4, <1>5, <2>1 DEF Rungs
<1> QED
  BY <1>9 DEF more, q, all, n

\* An operation that takes back the last one.
LEMMA RungTaken ==
  ASSUME NEW stack \in Seq(Ops), NEW op \in Ops, NEW c, op.participantID = c, NEW S, NEW T,
         Apart(S, T), op.state \in T, NEW p, NEW texts, NEW t,
         Rungs(stack, c, S, T, p, texts, t), texts # << >>
  PROVE  /\ Front(texts) \in Seq(Texts) /\ Last(texts) \in Texts
         /\ \E q : Rungs(Append(stack, op), c, S, T, q, Front(texts), Last(texts))
<1> DEFINE n == Len(stack)
           m == Len(p)
           more == Append(stack, op)
           q == Front(p)
           less == Front(texts)
           u == Last(texts)
           O(i) == Over(stack, c, S, T, i)
           N(i) == Over(more, c, S, T, i)
<1>1. /\ p \in Seq(Nat) /\ texts \in Seq(Texts) /\ t \in Texts /\ m = Len(texts)
      /\ \A j \in 1..m :
           /\ p[j] \in 1..n
           /\ O(p[j]) = m - j + 1
           /\ \A i \in 1..n : i > p[j] => O(i) <= m - j
           /\ Makes(stack[p[j]], texts[j], Append(texts, t)[j + 1])
  BY DEF Rungs
<1>2. n \in Nat /\ m \in Nat /\ m >= 1
  BY <1>1, LenProperties, EmptySeq
<1>3. Len(more) = n + 1 /\ \A i \in 1..n : more[i] = stack[i]
  BY AppendProperties
<1>4. q \in Seq(Nat) /\ Len(q) = m - 1 /\ \A j \in 1..(m - 1) : q[j] = p[j]
  BY <1>1, <1>2, FrontOf
<1>5. less \in Seq(Texts) /\ Len(less) = m - 1 /\ \A j \in 1..(m - 1) : less[j] = texts[j]
  BY <1>1, <1>2, FrontOf
<1>6. u \in Texts /\ u = texts[m]
  BY <1>1, <1>2, ElementOfSeq DEF Last
<1>7. \A j \in 1..(m - 1) : Append(less, u)[j + 1] = texts[j + 1]
  <2> TAKE j \in 1..(m - 1)
  <2>1. (\A k \in 1..(m - 1) : Append(less, u)[k] = less[k]) /\ Append(less, u)[m] = u
    <3>1. /\ \A k \in 1..Len(less) : Append(less, u)[k] = less[k]
          /\ Append(less, u)[Len(less) + 1] = u
      BY <1>5, <1>6, AppendProperties
    <3>2. Len(less) = m - 1 /\ Len(less) + 1 = m
      BY <1>2, <1>5
    <3> HIDE DEF less, u, m
    <3> QED  BY <3>1, <3>2
  <2> HIDE DEF less, u, m
  <2>2. j + 1 = m \/ j + 1 \in 1..(m - 1)
    BY <1>2
  <2> QED  BY <1>5, <1>6, <2>1, <2>2
<1>8. \A j \in 1..(m - 1) : Append(texts, t)[j + 1] = texts[j + 1]
  <2> TAKE j \in 1..(m - 1)
  <2>1. j + 1 \in 1..Len(texts)
    BY <1>1, <1>2
  <2> QED  BY <1>1, <2>1, AppendProperties
<1>9. \A i \in 1..(n + 1) : O(i) \in Int /\ N(i) = O(i) - 1 /\ (i = n + 1 => O(i) = 0)
  <2> TAKE i \in 1..(n + 1)
  <2>1. /\ Over(stack, c, S, T, i) \in Int
        /\ i = Len(stack) + 1 => Over(stack, c, S, T, i) = 0
        /\ op.state \in S =>
             Over(Append(stack, op), c, S, T, i) = Over(stack, c, S, T, i) + 1
        /\ op.state \in T =>
             Over(Append(stack, op), c, S, T, i) = Over(stack, c, S, T, i) - 1
    <3>1. /\ Over(stack, op.participantID, S, T, i) \in Int
          /\ i = Len(stack) + 1 => Over(stack, op.participantID, S, T, i) = 0
          /\ op.state \in S =>
               Over(Append(stack, op), op.participantID, S, T, i)
                 = Over(stack, op.participantID, S, T, i) + 1
          /\ op.state \in T =>
               Over(Append(stack, op), op.participantID, S, T, i)
                 = Over(stack, op.participantID, S, T, i) - 1
      BY OverGrows, Zenon
    <3> QED  BY <3>1
  <2> QED  BY <2>1
<1> HIDE DEF n, m, more, q, less, u, O, N
<1>10. ASSUME NEW j \in 1..(m - 1)
       PROVE  /\ q[j] \in 1..(n + 1)
              /\ N(q[j]) = (m - 1) - j + 1
              /\ \A i \in 1..(n + 1) : i > q[j] => N(i) <= (m - 1) - j
              /\ Makes(more[q[j]], less[j], Append(less, u)[j + 1])
  <2>1. j \in 1..m /\ j + 1 \in 1..m /\ m - 1 - j >= 0
    BY <1>2
  <2>2. /\ q[j] = p[j] /\ p[j] \in 1..n /\ O(p[j]) = m - j + 1
        /\ \A i \in 1..n : i > p[j] => O(i) <= m - j
        /\ Makes(stack[p[j]], texts[j], texts[j + 1])
    BY <1>1, <1>4, <1>8, <2>1
  <2> DEFINE x == p[j]
  <2> HIDE DEF x
  <2>3. x \in 1..n /\ x \in 1..(n + 1) /\ O(x) = m - j + 1
    BY <1>2, <2>2 DEF x
  <2>4. N(x) = (m - 1) - j + 1
    BY <1>2, <1>9, <2>3
  <2>5. \A i \in 1..(n + 1) : i > x => N(i) <= (m - 1) - j
    <3> TAKE i \in 1..(n + 1)
    <3> HAVE i > x
    <3>1. N(i) = O(i) - 1 /\ O(i) \in Int
      BY <1>9
    <3>2. O(i) <= m - j
      <4>1. CASE i = n + 1
        <5>1. O(i) = 0 /\ m - j >= 0
          BY <1>2, <1>9, <2>1, <4>1
        <5> QED  BY <5>1
      <4>2. CASE i # n + 1
        <5>1. i \in 1..n
          BY <1>2, <4>2
        <5> QED  BY <2>2, <5>1 DEF x
      <4> QED  BY <4>1, <4>2
    <3> QED  BY <1>2, <2>1, <3>1, <3>2
  <2>6. more[x] = stack[x] /\ less[j] = texts[j] /\ Append(less, u)[j + 1] = texts[j + 1]
    BY <1>3, <1>5, <1>7, <2>1, <2>3
  <2> QED  BY <2>2, <2>3, <2>4, <2>5, <2>6 DEF x
<1>11. Rungs(more, c, S, T, q, less, u)
  <2>1. \A j \in 1..Len(q) :
          /\ q[j] \in 1..Len(more)
          /\ Over(more, c, S, T, q[j]) = Len(q) - j + 1
          /\ \A i \in 1..Len(more) : i > q[j] => Over(more, c, S, T, i) <= Len(q) - j
          /\ Makes(more[q[j]], less[j], Append(less, u)[j + 1])
    BY <1>3, <1>4, <1>10 DEF N
  <2> QED  BY <1>4, <1>5, <1>6, <2>1 DEF Rungs
<1> QED
  BY <1>5, <1>6, <1>11 DEF more, less, u

\* The scan ends at the last of them.
LEMMA TopRung ==
  ASSUME NEW stack \in Seq(Ops), NEW c, NEW S, NEW T, NEW p, NEW texts, NEW t,
         Rungs(stack, c, S, T, p, texts, t), texts # << >>,
         NEW target,
         target = Max({0} \cup {i \in DOMAIN stack :
                                  CountFrom(stack, i, c, T) < CountFrom(stack, i, c, S)})
  PROVE  target \in 1..Len(stack) /\ Makes(stack[target], Last(texts), t)
<1> DEFINE n == Len(stack)
           m == Len(p)
           O(i) == Over(stack, c, S, T, i)
           I == {i \in 1..n : CountFrom(stack, i, c, T) < CountFrom(stack, i, c, S)}
           x == p[m]
<1>1. /\ p \in Seq(Nat) /\ texts \in Seq(Texts) /\ t \in Texts /\ m = Len(texts)
      /\ \A j \in 1..m :
           /\ p[j] \in 1..n
           /\ O(p[j]) = m - j + 1
           /\ \A i \in 1..n : i > p[j] => O(i) <= m - j
           /\ Makes(stack[p[j]], texts[j], Append(texts, t)[j + 1])
  BY DEF Rungs
<1>2. n \in Nat /\ m \in Nat /\ m >= 1 /\ m \in 1..m /\ DOMAIN stack = 1..n
  BY <1>1, LenProperties, EmptySeq
<1>3. target = Max({0} \cup I)
  BY <1>2
<1>4. \A i \in 1..n : i \in I <=> O(i) > 0
  <2> TAKE i \in 1..n
  <2>1. CountFrom(stack, i, c, T) \in Nat /\ CountFrom(stack, i, c, S) \in Nat
    BY CountIsNat
  <2>2. O(i) = CountFrom(stack, i, c, S) - CountFrom(stack, i, c, T)
    BY DEF Over
  <2> HIDE DEF O
  <2> QED  BY <2>1, <2>2
<1>5. x \in 1..n /\ O(x) = 1 /\ \A i \in 1..n : i > x => O(i) <= 0
  <2>1. /\ x \in 1..n /\ O(x) = m - m + 1
        /\ \A i \in 1..n : i > x => O(i) <= m - m
    BY <1>1, <1>2
  <2>2. m - m = 0 /\ m - m + 1 = 1
    BY <1>2
  <2> HIDE DEF n, m, O, x
  <2> QED  BY <2>1, <2>2
<1>6. Makes(stack[x], Last(texts), t)
  <2>1. Append(texts, t)[m + 1] = t
    BY <1>1, AppendProperties
  <2>2. Last(texts) = texts[m]
    BY <1>1 DEF Last
  <2> QED  BY <1>1, <1>2, <2>1, <2>2
<1> HIDE DEF n, m, O, x
<1>7. x \in I /\ \A i \in I : ~(i > x)
  <2> DEFINE v(i) == O(i)
  <2>1. v(x) = 1 /\ \A i \in 1..n : i > x => v(i) <= 0
    BY <1>5
  <2>2. \A i \in 1..n : CountFrom(stack, i, c, T) < CountFrom(stack, i, c, S) <=> v(i) > 0
    BY <1>4
  <2>3. \A i \in 1..n : v(i) \in Int
    <3> TAKE i \in 1..n
    <3>1. CountFrom(stack, i, c, T) \in Nat /\ CountFrom(stack, i, c, S) \in Nat
      BY CountIsNat DEF n
    <3> QED  BY <3>1 DEF O, Over
  <2> HIDE DEF v
  <2> QED  BY <1>5, <2>1, <2>2, <2>3
<1> HIDE DEF I
<1>8. {0} \cup I \in SUBSET (0..n) /\ \A i \in {0} \cup I : i <= x
  <2>1. I \subseteq 1..n
    BY DEF I
  <2> QED  BY <1>2, <1>5, <1>7, <2>1
<1>9. target \in {0} \cup I /\ \A i \in {0} \cup I : target >= i
  BY <1>2, <1>3, <1>8, MaxIsGreatest
<1>10. target = x
  <2>1. target <= x /\ target >= x
    BY <1>7, <1>8, <1>9
  <2>2. target \in Nat /\ x \in Nat
    BY <1>2, <1>5, <1>8, <1>9
  <2> QED  BY <2>1, <2>2
<1> QED
  BY <1>5, <1>6, <1>10 DEF n

-----------------------------------------------------------------------------
(* The undo history of one user.                                           *)

Histories == [text : Texts, past : Seq(Texts), future : Seq(Texts), known : BOOLEAN]

NoHistory == [text |-> << >>, past |-> << >>, future |-> << >>, known |-> TRUE]

\* What one operation adds to a history.
LEMMA UndoRecorded ==
  ASSUME NEW h \in Histories, NEW op, op.state = "UNDO", h.past # << >>
  PROVE  Recorded(h, op) = [text |-> Last(h.past), past |-> Front(h.past),
                            future |-> Append(h.future, h.text), known |-> h.known]
BY DEF Recorded, Histories

LEMMA RedoRecorded ==
  ASSUME NEW h \in Histories, NEW op, op.state = "REDO", h.future # << >>
  PROVE  Recorded(h, op) = [text |-> Last(h.future), past |-> Append(h.past, h.text),
                            future |-> Front(h.future), known |-> h.known]
BY DEF Recorded, Histories

LEMMA EditRecorded ==
  ASSUME NEW h \in Histories, NEW op, op.state = "GLOBAL", Within(op.range, h.text)
  PROVE  Recorded(h, op) = [text |-> Replace(h.text, op.range, op.replaceString),
                            past |-> Append(h.past, h.text),
                            future |-> << >>, known |-> h.known]
BY DEF Recorded, Histories

LEMMA NothingRecorded ==
  ASSUME NEW h \in Histories, NEW op,
         ~(op.state = "UNDO" /\ h.past # << >>),
         ~(op.state = "REDO" /\ h.future # << >>),
         ~(op.state = "GLOBAL" /\ Within(op.range, h.text))
  PROVE  Recorded(h, op) = [h EXCEPT !.known = FALSE]
BY DEF Recorded, Histories

\* A history grows to a history, and does not get known again.
LEMMA RecordedIsHistory ==
  ASSUME NEW h \in Histories, NEW op \in Ops
  PROVE  Recorded(h, op) \in Histories /\ (Recorded(h, op).known => h.known)
<1>1. /\ h.text \in Texts /\ h.past \in Seq(Texts) /\ h.future \in Seq(Texts)
      /\ h.known \in BOOLEAN
  BY DEF Histories
<1>2. \A s \in Seq(Texts) : /\ Append(s, h.text) \in Seq(Texts)
                            /\ s # << >> => Last(s) \in Texts /\ Front(s) \in Seq(Texts)
  <2> TAKE s \in Seq(Texts)
  <2>1. Append(s, h.text) \in Seq(Texts)
    BY <1>1, AppendProperties
  <2>2. ASSUME s # << >>  PROVE Last(s) \in Texts /\ Front(s) \in Seq(Texts)
    <3>1. Len(s) \in Nat /\ Len(s) >= 1
      BY <2>2, LenProperties, EmptySeq
    <3>2. s[Len(s)] \in Texts
      BY <3>1, ElementOfSeq
    <3> QED  BY <3>1, <3>2, FrontOf DEF Last
  <2> QED  BY <2>1, <2>2
<1>3. CASE op.state = "UNDO" /\ h.past # << >>
  <2>1. Recorded(h, op) = [text |-> Last(h.past), past |-> Front(h.past),
                           future |-> Append(h.future, h.text), known |-> h.known]
    BY <1>3, UndoRecorded
  <2>2. /\ Last(h.past) \in Texts /\ Front(h.past) \in Seq(Texts)
        /\ Append(h.future, h.text) \in Seq(Texts)
    BY <1>1, <1>2, <1>3
  <2> QED  BY <1>1, <2>1, <2>2 DEF Histories
<1>4. CASE op.state = "REDO" /\ h.future # << >>
  <2>1. Recorded(h, op) = [text |-> Last(h.future), past |-> Append(h.past, h.text),
                           future |-> Front(h.future), known |-> h.known]
    BY <1>4, RedoRecorded
  <2>2. /\ Last(h.future) \in Texts /\ Front(h.future) \in Seq(Texts)
        /\ Append(h.past, h.text) \in Seq(Texts)
    BY <1>1, <1>2, <1>4
  <2> QED  BY <1>1, <2>1, <2>2 DEF Histories
<1>5. CASE op.state = "GLOBAL" /\ Within(op.range, h.text)
  <2>1. op.range \in Ranges /\ op.replaceString \in Seq(Glyphs)
    BY DEF Ops, Operations, Strings
  <2>2. Replace(h.text, op.range, op.replaceString) \in Texts
    BY <1>1, <1>5, <2>1, ReplaceIsText DEF Texts
  <2>3. << >> \in Seq(Texts)
    BY EmptySeq
  <2>4. Recorded(h, op) = [text |-> Replace(h.text, op.range, op.replaceString),
                           past |-> Append(h.past, h.text), future |-> << >>, known |-> h.known]
    BY <1>5, EditRecorded
  <2>5. Append(h.past, h.text) \in Seq(Texts)
    BY <1>1, <1>2
  <2> QED  BY <1>1, <2>2, <2>3, <2>4, <2>5 DEF Histories
<1>6. CASE /\ ~(op.state = "UNDO" /\ h.past # << >>)
           /\ ~(op.state = "REDO" /\ h.future # << >>)
           /\ ~(op.state = "GLOBAL" /\ Within(op.range, h.text))
  BY <1>1, <1>6, NothingRecorded DEF Histories
<1> QED
  BY <1>3, <1>4, <1>5, <1>6

\* The history of a stack, operation by operation.
LEMMA HistoryRuns ==
  ASSUME NEW ops \in Seq(Ops)
  PROVE  \E f \in [0..Len(ops) -> Histories] :
           /\ f[0] = NoHistory
           /\ \A k \in 1..Len(ops) : f[k] = Recorded(f[k - 1], ops[k])
           /\ History(ops) = f[Len(ops)]
<1> DEFINE n == Len(ops)
           step == [k \in 1..n |-> [h \in Histories |-> Recorded(h, ops[k])]]
           Runs(f) == f = [k \in 0..n |-> IF k = 0 THEN NoHistory ELSE Recorded(f[k - 1], ops[k])]
           after == CHOOSE f : Runs(f)
<1>1. n \in Nat
  BY LenProperties
<1>2. History(ops) = after[n]
  BY DEF History, NoHistory
<1>3. NoHistory \in Histories
  <2>1. << >> \in Texts /\ << >> \in Seq(Texts)
    BY EmptySeq DEF Texts
  <2> QED  BY <2>1 DEF NoHistory, Histories
<1>4. step \in [1..n -> [Histories -> Histories]]
  <2>1. \A k \in 1..n : ops[k] \in Ops
    BY ElementOfSeq
  <2>2. \A k \in 1..n : \A h \in Histories : Recorded(h, ops[k]) \in Histories
    BY <2>1, RecordedIsHistory
  <2> QED  BY <2>2
<1> HIDE DEF n
<1>5. PICK f : IsRun(f, n, Histories, NoHistory, step)
  <2> HIDE DEF step
  <2> QED  BY <1>1, <1>3, <1>4, LoopRuns
<1>6. /\ f \in [0..n -> Histories] /\ f[0] = NoHistory
      /\ \A k \in 1..n : f[k] = Recorded(f[k - 1], ops[k])
  <2>1. /\ f \in [0..n -> Histories] /\ f[0] = NoHistory
        /\ \A k \in 1..n : f[k] = step[k][f[k - 1]]
    BY <1>5 DEF IsRun
  <2>2. \A k \in 1..n : f[k - 1] \in Histories
    <3>1. \A k \in 1..n : k - 1 \in 0..n
      BY <1>1
    <3> QED  BY <2>1, <3>1
  <2> QED  BY <2>1, <2>2
<1>7. Runs(f)
  <2>1. \A k \in 0..n : k # 0 => k \in 1..n
    BY <1>1
  <2>2. \A k \in 0..n : f[k] = IF k = 0 THEN NoHistory ELSE Recorded(f[k - 1], ops[k])
    BY <1>6, <2>1
  <2> QED  BY <1>6, <2>2
<1>8. Runs(after)
  <2> HIDE DEF Runs
  <2> QED  BY <1>7
<1> HIDE DEF after
<1>9. after[0] = NoHistory /\ \A k \in 1..n : after[k] = Recorded(after[k - 1], ops[k])
  <2>1. 0 \in 0..n /\ \A k \in 1..n : k \in 0..n /\ k # 0
    BY <1>1
  <2> QED  BY <1>8, <2>1
<1>10. \A k \in 0..n : after[k] = f[k]
  <2> DEFINE T == {k \in 0..n : after[k] = f[k]}
  <2>1. 0 \in T
    BY <1>1, <1>6, <1>9
  <2>2. ASSUME NEW k \in 1..n, k - 1 \in T  PROVE k \in T
    <3>1. k \in 0..n /\ after[k - 1] = f[k - 1]
      BY <1>1, <2>2
    <3>2. after[k] = f[k]
      BY <1>6, <1>9, <3>1
    <3> QED  BY <3>1, <3>2
  <2> HIDE DEF T
  <2>3. \A k \in 0..n : k \in T
    BY <1>1, <2>1, <2>2, LoopReaches
  <2> QED  BY <2>3 DEF T
<1>11. n \in 0..n
  BY <1>1
<1> QED
  BY <1>2, <1>6, <1>10, <1>11 DEF n

\* One more operation.
LEMMA HistoryGrows ==
  ASSUME NEW ops \in Seq(Ops), NEW op \in Ops
  PROVE  /\ History(ops) \in Histories
         /\ History(Append(ops, op)) = Recorded(History(ops), op)
<1> DEFINE n == Len(ops)
           more == Append(ops, op)
<1>1. n \in Nat
  BY LenProperties
<1>2. /\ more \in Seq(Ops) /\ Len(more) = n + 1
      /\ (\A i \in 1..n : more[i] = ops[i]) /\ more[n + 1] = op
  BY AppendProperties
<1>3. PICK f \in [0..n -> Histories] :
        /\ f[0] = NoHistory
        /\ \A k \in 1..n : f[k] = Recorded(f[k - 1], ops[k])
        /\ History(ops) = f[n]
  BY HistoryRuns
<1> HIDE DEF n, more
<1>4. PICK g \in [0..Len(more) -> Histories] :
        /\ g[0] = NoHistory
        /\ \A k \in 1..Len(more) : g[k] = Recorded(g[k - 1], more[k])
        /\ History(more) = g[Len(more)]
  BY <1>2, HistoryRuns
<1>5. \A k \in 0..n : g[k] = f[k]
  <2> DEFINE T == {k \in 0..n : g[k] = f[k]}
  <2>1. 0 \in T
    BY <1>1, <1>3, <1>4
  <2>2. ASSUME NEW k \in 1..n, k - 1 \in T  PROVE k \in T
    <3>1. k \in 0..n /\ k \in 1..(n + 1) /\ g[k - 1] = f[k - 1]
      BY <1>1, <2>2
    <3>2. g[k] = f[k]
      BY <1>2, <1>3, <1>4, <3>1
    <3> QED  BY <3>1, <3>2
  <2> HIDE DEF T
  <2>3. \A k \in 0..n : k \in T
    BY <1>1, <2>1, <2>2, LoopReaches
  <2> QED  BY <2>3 DEF T
<1>6. n \in 0..n /\ n + 1 \in 1..(n + 1) /\ (n + 1) - 1 = n
  BY <1>1
<1>7. History(more) = Recorded(g[n], op)
  BY <1>2, <1>4, <1>6
<1>8. History(ops) = g[n] /\ History(ops) \in Histories
  BY <1>3, <1>5, <1>6
<1> QED
  BY <1>7, <1>8 DEF more

\* Nothing is recorded of an empty stack.
LEMMA HistoryStarts == History(<< >>) = NoHistory
<1>1. << >> \in Seq(Ops) /\ Len(<< >>) = 0
  BY EmptySeq
<1>2. PICK f \in [0..Len(<< >>) -> Histories] :
        /\ f[0] = NoHistory
        /\ \A k \in 1..Len(<< >>) : f[k] = Recorded(f[k - 1], << >>[k])
        /\ History(<< >>) = f[Len(<< >>)]
  BY <1>1, HistoryRuns
<1> QED
  BY <1>1, <1>2

-----------------------------------------------------------------------------
(* The global stack takes an operation, and the history goes on.           *)

\* op makes next of the text of a history; an undo or a redo makes the text to come back
\* to, if there is one.
Leads(op, h, next) ==
  /\ op.state \in {"LOCAL", "SEND", "GLOBAL"} => Makes(op, h.text, next)
  /\ (op.state = "UNDO" /\ h.past # << >>) => (next = Last(h.past) /\ Makes(op, h.text, next))
  /\ (op.state = "REDO" /\ h.future # << >>) => (next = Last(h.future) /\ Makes(op, h.text, next))

\* The stack holds what takes back the past of its history, and the future.
CanUndo(stack, c) ==
  \E p : Rungs(stack, c, {"GLOBAL", "REDO"}, {"UNDO"}, p, History(stack).past, History(stack).text)

CanRedo(stack, c) ==
  \E p : Rungs(stack, c, {"UNDO"}, {"REDO"}, p, History(stack).future, History(stack).text)

Retraceable(stack, c) == History(stack).known => CanUndo(stack, c) /\ CanRedo(stack, c)

\* An operation that a global stack takes, after which the history shows next.
Continued(stack, op, next) ==
  LET more == Append(stack, op)
  IN  /\ Retraceable(more, op.participantID)
      /\ History(more).known =>
           /\ History(stack).known
           /\ Makes(op, History(stack).text, next)
           /\ History(more).text = next

\* What is made of a text is one.
LEMMA MadeIsText ==
  ASSUME NEW op \in Ops, NEW t \in Texts, NEW u, Makes(op, t, u)
  PROVE  u \in Texts
BY InverseTakesBack

\* A keystroke adds to the past, and there is no future;
LEMMA EditContinues ==
  ASSUME NEW stack \in Seq(Ops), NEW op \in Ops, op.state = "GLOBAL", NEW next,
         Retraceable(stack, op.participantID), History(stack).known,
         Makes(op, History(stack).text, next)
  PROVE  Continued(stack, op, next)
<1> DEFINE h == History(stack)
           c == op.participantID
           more == Append(stack, op)
           g == History(more)
<1>1. h \in Histories /\ g = Recorded(h, op) /\ h.text \in Texts
  BY HistoryGrows DEF Histories
<1>2. Within(op.range, h.text) /\ next = Replace(h.text, op.range, op.replaceString)
  BY DEF Makes
<1>3. g.text = next /\ g.past = Append(h.past, h.text) /\ g.future = << >>
  BY <1>1, <1>2, EditRecorded
<1>4. next \in Texts
  BY <1>1, MadeIsText
<1>5. PICK p : Rungs(stack, c, {"GLOBAL", "REDO"}, {"UNDO"}, p, h.past, h.text)
  BY DEF Retraceable, CanUndo
<1>6. Apart({"GLOBAL", "REDO"}, {"UNDO"}) /\ op.state \in {"GLOBAL", "REDO"}
  BY DEF Apart
<1> HIDE DEF h, g
<1>7. Rungs(more, c, {"GLOBAL", "REDO"}, {"UNDO"}, Append(p, Len(stack) + 1), g.past, g.text)
  <2>1. Makes(op, h.text, next)
    BY DEF h
  <2>2. Rungs(more, c, {"GLOBAL", "REDO"}, {"UNDO"}, Append(p, Len(stack) + 1),
              Append(h.past, h.text), next)
    BY <1>4, <1>5, <1>6, <2>1, RungAdded
  <2> QED  BY <1>3, <2>2
<1>8. Rungs(more, c, {"UNDO"}, {"REDO"}, << >>, g.future, g.text)
  BY <1>3, <1>4, NoRungs
<1>9. Retraceable(more, c)
  BY <1>7, <1>8 DEF Retraceable, CanUndo, CanRedo, g
<1> QED
  BY <1>3, <1>9 DEF Continued, h, g

\* ... an undo takes the newest text of the past, and leaves one to the future;
LEMMA UndoContinues ==
  ASSUME NEW stack \in Seq(Ops), NEW op \in Ops, op.state = "UNDO", NEW next,
         Retraceable(stack, op.participantID), History(stack).known,
         History(stack).past # << >>, next = Last(History(stack).past),
         Makes(op, History(stack).text, next)
  PROVE  Continued(stack, op, next)
<1> DEFINE h == History(stack)
           c == op.participantID
           more == Append(stack, op)
           g == History(more)
<1>1. h \in Histories /\ g = Recorded(h, op) /\ h.text \in Texts
  BY HistoryGrows DEF Histories
<1>2. h.past # << >> /\ next = Last(h.past) /\ Makes(op, h.text, next)
  OBVIOUS
<1>3. g.text = next /\ g.past = Front(h.past) /\ g.future = Append(h.future, h.text)
  BY <1>1, <1>2, UndoRecorded
<1>4. next \in Texts
  BY <1>1, MadeIsText
<1>5. PICK p : Rungs(stack, c, {"GLOBAL", "REDO"}, {"UNDO"}, p, h.past, h.text)
  BY DEF Retraceable, CanUndo
<1>6. PICK q : Rungs(stack, c, {"UNDO"}, {"REDO"}, q, h.future, h.text)
  BY DEF Retraceable, CanRedo
<1>7. /\ Apart({"GLOBAL", "REDO"}, {"UNDO"}) /\ Apart({"UNDO"}, {"REDO"})
      /\ op.state \in {"UNDO"}
  BY DEF Apart
<1> HIDE DEF h, g
<1>8. \E r : Rungs(more, c, {"GLOBAL", "REDO"}, {"UNDO"}, r, g.past, g.text)
  <2>1. \E r : Rungs(more, c, {"GLOBAL", "REDO"}, {"UNDO"}, r, Front(h.past), Last(h.past))
    BY <1>2, <1>5, <1>7, RungTaken
  <2> QED  BY <1>2, <1>3, <2>1
<1>9. Rungs(more, c, {"UNDO"}, {"REDO"}, Append(q, Len(stack) + 1), g.future, g.text)
  <2>1. Rungs(more, c, {"UNDO"}, {"REDO"}, Append(q, Len(stack) + 1),
              Append(h.future, h.text), next)
    BY <1>2, <1>4, <1>6, <1>7, RungAdded
  <2> QED  BY <1>3, <2>1
<1>10. Retraceable(more, c)
  BY <1>8, <1>9 DEF Retraceable, CanUndo, CanRedo, g
<1> QED
  BY <1>3, <1>10 DEF Continued, h, g

\* ... a redo the other way round.
LEMMA RedoContinues ==
  ASSUME NEW stack \in Seq(Ops), NEW op \in Ops, op.state = "REDO", NEW next,
         Retraceable(stack, op.participantID), History(stack).known,
         History(stack).future # << >>, next = Last(History(stack).future),
         Makes(op, History(stack).text, next)
  PROVE  Continued(stack, op, next)
<1> DEFINE h == History(stack)
           c == op.participantID
           more == Append(stack, op)
           g == History(more)
<1>1. h \in Histories /\ g = Recorded(h, op) /\ h.text \in Texts
  BY HistoryGrows DEF Histories
<1>2. h.future # << >> /\ next = Last(h.future) /\ Makes(op, h.text, next)
  OBVIOUS
<1>3. g.text = next /\ g.past = Append(h.past, h.text) /\ g.future = Front(h.future)
  BY <1>1, <1>2, RedoRecorded
<1>4. next \in Texts
  BY <1>1, MadeIsText
<1>5. PICK p : Rungs(stack, c, {"GLOBAL", "REDO"}, {"UNDO"}, p, h.past, h.text)
  BY DEF Retraceable, CanUndo
<1>6. PICK q : Rungs(stack, c, {"UNDO"}, {"REDO"}, q, h.future, h.text)
  BY DEF Retraceable, CanRedo
<1>7. /\ Apart({"GLOBAL", "REDO"}, {"UNDO"}) /\ Apart({"UNDO"}, {"REDO"})
      /\ op.state \in {"GLOBAL", "REDO"} /\ op.state \in {"REDO"}
  BY DEF Apart
<1> HIDE DEF h, g
<1>8. Rungs(more, c, {"GLOBAL", "REDO"}, {"UNDO"}, Append(p, Len(stack) + 1), g.past, g.text)
  <2>1. Rungs(more, c, {"GLOBAL", "REDO"}, {"UNDO"}, Append(p, Len(stack) + 1),
              Append(h.past, h.text), next)
    BY <1>2, <1>4, <1>5, <1>7, RungAdded
  <2> QED  BY <1>3, <2>1
<1>9. \E r : Rungs(more, c, {"UNDO"}, {"REDO"}, r, g.future, g.text)
  <2>1. \E r : Rungs(more, c, {"UNDO"}, {"REDO"}, r, Front(h.future), Last(h.future))
    BY <1>2, <1>6, <1>7, RungTaken
  <2> QED  BY <1>2, <1>3, <2>1
<1>10. Retraceable(more, c)
  BY <1>8, <1>9 DEF Retraceable, CanUndo, CanRedo, g
<1> QED
  BY <1>3, <1>10 DEF Continued, h, g

\* Whatever an operation is, it continues the history or leaves it open.
LEMMA HistoryContinues ==
  ASSUME NEW stack \in Seq(Ops), NEW op \in Ops, op.state \in {"GLOBAL", "UNDO", "REDO"}, NEW next,
         Retraceable(stack, op.participantID),
         History(stack).known => Leads(op, History(stack), next)
  PROVE  Continued(stack, op, next)
<1> DEFINE h == History(stack)
           more == Append(stack, op)
           g == History(more)
<1>1. h \in Histories /\ g = Recorded(h, op)
  BY HistoryGrows
<1>2. CASE ~g.known
  BY <1>2 DEF Continued, Retraceable
<1>3. CASE g.known
  <2>1. h.known
    BY <1>1, <1>3, RecordedIsHistory
  <2>2. CASE op.state = "GLOBAL"
    <3>1. Makes(op, h.text, next)
      BY <2>1, <2>2 DEF Leads
    <3> QED  BY <2>1, <2>2, <3>1, EditContinues
  <2>3. CASE op.state = "UNDO"
    <3>1. h.past # << >>
      <4>1. CASE h.past = << >>
        <5>1. g = [h EXCEPT !.known = FALSE]
          BY <1>1, <2>3, <4>1, NothingRecorded
        <5> QED  BY <1>1, <1>3, <5>1 DEF Histories
      <4> QED  BY <4>1
    <3>2. next = Last(h.past) /\ Makes(op, h.text, next)
      BY <2>1, <2>3, <3>1 DEF Leads
    <3> QED  BY <2>1, <2>3, <3>1, <3>2, UndoContinues
  <2>4. CASE op.state = "REDO"
    <3>1. h.future # << >>
      <4>1. CASE h.future = << >>
        <5>1. g = [h EXCEPT !.known = FALSE]
          BY <1>1, <2>4, <4>1, NothingRecorded
        <5> QED  BY <1>1, <1>3, <5>1 DEF Histories
      <4> QED  BY <4>1
    <3>2. next = Last(h.future) /\ Makes(op, h.text, next)
      BY <2>1, <2>4, <3>1 DEF Leads
    <3> QED  BY <2>1, <2>4, <3>1, <3>2, RedoContinues
  <2> QED  BY <2>2, <2>3, <2>4
<1> QED
  BY <1>2, <1>3

\* The inverse that undoAct makes leads back to the newest text of the past,
LEMMA UndoLeads ==
  ASSUME NEW stack \in Seq(Ops), NEW c, Retraceable(stack, c), History(stack).known,
         NEW target, target = UndoTarget(stack, c), target # 0, NEW author, NEW id
  PROVE  Leads(InverseOf(stack[target], author, id, "UNDO"), History(stack),
               Last(History(stack).past))
<1> DEFINE h == History(stack)
           w == InverseOf(stack[target], author, id, "UNDO")
<1>1. w.state = "UNDO"
  BY DEF InverseOf
<1>2. PICK p : Rungs(stack, c, {"GLOBAL", "REDO"}, {"UNDO"}, p, h.past, h.text)
  BY DEF Retraceable, CanUndo
<1>3. ASSUME h.past # << >>
      PROVE  Makes(w, h.text, Last(h.past))
  <2>1. target = Max({0} \cup {i \in DOMAIN stack :
                        CountFrom(stack, i, c, {"UNDO"})
                          < CountFrom(stack, i, c, {"GLOBAL", "REDO"})})
    BY DEF UndoTarget
  <2> HIDE DEF h, w
  <2>2. target \in 1..Len(stack) /\ Makes(stack[target], Last(h.past), h.text)
    BY <1>2, <1>3, <2>1, TopRung
  <2>3. h.past \in Seq(Texts) /\ stack[target] \in Ops
    BY <1>2, <2>2, ElementOfSeq DEF Rungs
  <2>4. Last(h.past) \in Texts
    <3>1. Len(h.past) \in 1..Len(h.past)
      BY <1>3, <2>3, LenProperties, EmptySeq
    <3>2. h.past[Len(h.past)] \in Texts
      BY <2>3, <3>1, ElementOfSeq
    <3> QED  BY <3>2 DEF Last
  <2> QED  BY <2>2, <2>3, <2>4, InverseTakesBack DEF w
<1> QED
  BY <1>1, <1>3 DEF Leads

\* ... and the one that redoAct makes to the newest of the future.
LEMMA RedoLeads ==
  ASSUME NEW stack \in Seq(Ops), NEW c, Retraceable(stack, c), History(stack).known,
         NEW target, target = RedoTarget(stack, c), target # 0, NEW author, NEW id
  PROVE  Leads(InverseOf(stack[target], author, id, "REDO"), History(stack),
               Last(History(stack).future))
<1> DEFINE h == History(stack)
           w == InverseOf(stack[target], author, id, "REDO")
<1>1. w.state = "REDO"
  BY DEF InverseOf
<1>2. PICK p : Rungs(stack, c, {"UNDO"}, {"REDO"}, p, h.future, h.text)
  BY DEF Retraceable, CanRedo
<1>3. ASSUME h.future # << >>
      PROVE  Makes(w, h.text, Last(h.future))
  <2>1. target = Max({0} \cup {i \in DOMAIN stack :
                        CountFrom(stack, i, c, {"REDO"}) < CountFrom(stack, i, c, {"UNDO"})})
    BY DEF RedoTarget
  <2> HIDE DEF h, w
  <2>2. target \in 1..Len(stack) /\ Makes(stack[target], Last(h.future), h.text)
    BY <1>2, <1>3, <2>1, TopRung
  <2>3. h.future \in Seq(Texts) /\ stack[target] \in Ops
    BY <1>2, <2>2, ElementOfSeq DEF Rungs
  <2>4. Last(h.future) \in Texts
    <3>1. Len(h.future) \in 1..Len(h.future)
      BY <1>3, <2>3, LenProperties, EmptySeq
    <3>2. h.future[Len(h.future)] \in Texts
      BY <2>3, <3>1, ElementOfSeq
    <3> QED  BY <3>2 DEF Last
  <2> QED  BY <2>2, <2>3, <2>4, InverseTakesBack DEF w
<1> QED
  BY <1>1, <1>3 DEF Leads

\* An operation goes where it was made past those of its own author.
LEMMA OwnStays ==
  ASSUME NEW stack \in Seq(Ops), NEW op \in Ops,
         \A k \in 1..Len(stack) : stack[k].participantID = op.participantID
  PROVE  RangeOnGlobal(stack, op) = op.range
<1> DEFINE n == Len(stack)
           author == op.participantID
           start == op.range
           Up(k) == UpdateOperationThroughGlobalStack(stack, k)
<1>0. n \in Nat /\ start \in Ranges
  BY LenProperties DEF Ops, Operations
<1>1. PICK f : /\ f[0] = start
               /\ \A k \in 1..n :
                    f[k] = IF k \in Unseen(stack, op)
                             THEN UpdateRange(f[k - 1], Up(k), author) ELSE f[k - 1]
               /\ RangeOnGlobal(stack, op) = f[n]
  BY RangeOnGlobalRuns DEF Ops
<1>2. \A k \in 1..n : Up(k).participantID = author
  <2> TAKE k \in 1..n
  <2>1. \A j \in k..n : stack[j].participantID = stack[k].participantID
    <3>1. \A j \in k..n : j \in 1..n
      BY <1>0
    <3> QED  BY <3>1
  <2>2. Up(k) = stack[k]
    BY <2>1, ThroughOwn DEF Ops
  <2> QED  BY <2>2
<1>3. \A k \in 1..n : UpdateRange(start, Up(k), author) = start
  <2> TAKE k \in 1..n
  <2>1. Up(k).participantID = author
    BY <1>2
  <2> HIDE DEF Up, author, start
  <2>2. \A index : UpdateIndex(index, Up(k), author) = index
    BY <2>1 DEF UpdateIndex, Carried
  <2>3. Between(start.location, End(start)) = start
    BY <1>0 DEF Between, End, Ranges
  <2> QED  BY <2>2, <2>3 DEF UpdateRange
<1> HIDE DEF start, Up, n, author
<1>4. \A k \in 1..n : f[k - 1] \in {start} => f[k] \in {start}
  BY <1>1, <1>3
<1>5. \A k \in 0..n : f[k] \in {start}
  <2> DEFINE S == {start}
  <2>1. f[0] \in S /\ \A k \in 1..n : f[k - 1] \in S => f[k] \in S
    BY <1>1, <1>4
  <2> HIDE DEF S
  <2>2. \A k \in 0..n : f[k] \in S
    BY <1>0, <2>1, LoopKeeps
  <2> QED  BY <2>2 DEF S
<1>6. f[n] = start
  BY <1>0, <1>5
<1> QED
  BY <1>1, <1>6 DEF start

\* A device with an empty history can go nowhere.
LEMMA NothingToRetrace ==
  ASSUME NEW c
  PROVE  /\ Retraceable(<< >>, c) /\ History(<< >>).text = << >>
<1>1. History(<< >>) = [text |-> << >>, past |-> << >>, future |-> << >>, known |-> TRUE]
  BY HistoryStarts DEF NoHistory
<1>2. << >> \in Texts
  BY EmptySeq DEF Texts
<1> QED
  BY <1>1, <1>2, NoRungs DEF Retraceable, CanUndo, CanRedo

-----------------------------------------------------------------------------
(* One device of one user.                                                 *)

\* There is one device,
Alone == \A c, d \in Clients : c = d

\* ... whose user presses keys and buttons while it is at rest.
AtLeisure == Freedoms \subseteq {"undo", "fail"}

\* What the user should see.
Story(c) == History(global[c])

\* No keystroke is on its way,
NoneMade(c) == local[c] = << >> /\ send[c] = << >> /\ batch[c] = << >>

\* ... no undo and no redo is waiting,
NoneTaken(c) == undo[c] = << >> /\ redo[c] = << >>

\* ... and in the stack queue there is an event at most.
OneEvent(c) ==
  \/ stackQ[c] = << >>
  \/ \E block : stackQ[c] = <<block>> /\ block.kind = "new"

\* All is in the global stack, and shown or about to be.
AtRest(c) ==
  /\ NoneMade(c) /\ NoneTaken(c) /\ stackQ[c] = << >> /\ Len(log) = Len(global[c])
  /\ \/ uiQ[c] = << >> /\ (Story(c).known => text[c] = Story(c).text)
     \/ \E w \in Ops : uiQ[c] = <<w>> /\ (Story(c).known => Makes(w, text[c], Story(c).text))

\* A keystroke is shown and not in the session yet,
KeyHome(c, w) ==
  /\ Len(log) = Len(global[c]) /\ send[c] = << >>
  /\ \/ local[c] = <<w>> /\ batch[c] = << >> /\ stackQ[c] = << >>
     \/ local[c] = << >> /\ batch[c] = <<w>> /\ timer[c] = "taken" /\ stackQ[c] = << >>
     \/ /\ local[c] = << >> /\ batch[c] = << >>
        /\ \E block : stackQ[c] = <<block>> /\ block.kind = "local" /\ block.ops = <<w>>

\* ... or it is, and waits for its confirmation.
KeySent(c, w) ==
  /\ Len(log) = Len(global[c]) + 1 /\ local[c] = << >>
  /\ \/ send[c] = << >> /\ batch[c] = <<w>> /\ timer[c] = "sent" /\ stackQ[c] = << >>
     \/ send[c] = <<w>> /\ batch[c] = << >> /\ OneEvent(c)

Typing(c) ==
  /\ uiQ[c] = << >> /\ NoneTaken(c)
  /\ \E w \in Ops :
       /\ w.state \in {"LOCAL", "SEND"}
       /\ Story(c).known => Makes(w, Story(c).text, text[c])
       /\ KeyHome(c, w) \/ KeySent(c, w)

\* op leads somewhere from the text t, which is the one the history h tells.
Returns(op, h, t) == h.known => t = h.text /\ \E next : Leads(op, h, next)

\* An undo or a redo is not shown yet: it is waiting for the session,
BackHome(c, w) ==
  /\ Len(log) = Len(global[c])
  /\ \/ undo[c] \o redo[c] = <<w>> /\ stackQ[c] = << >>
     \/ /\ NoneTaken(c)
        /\ \E block : stackQ[c] = <<block>> /\ block.kind = "undoRedo" /\ block.ops = <<w>>

\* ... or comes back from there.
BackSent(c, w) ==
  /\ Len(log) = Len(global[c]) + 1 /\ NoneTaken(c) /\ OneEvent(c)
  /\ log[Len(log)].op = w

Retracing(c) ==
  /\ uiQ[c] = << >> /\ NoneMade(c)
  /\ \E w \in Ops :
       /\ w.state \in {"UNDO", "REDO"}
       /\ Returns(w, Story(c), text[c])
       /\ BackHome(c, w) \/ BackSent(c, w)

Goes(c) == AtRest(c) \/ Typing(c) \/ Retracing(c)

\* The session is the user's own.
Own(c) == \A k \in 1..Len(log) : log[k].op.participantID = c

Lone(c) == Own(c) /\ (alive[c] => Retraceable(global[c], c) /\ Goes(c))

LoneInv == SessionInv /\ \A c \in Clients : Lone(c)

\* What the session's invariant says of the device.
LEMMA LoneRead ==
  ASSUME SessionInv, NEW c \in Clients
  PROVE  /\ TypeOK /\ TypeInv /\ Prefix(c) /\ Signed(c) /\ Carrying(c)
         /\ Len(global[c]) \in Nat /\ Len(log) \in Nat /\ Len(global[c]) <= Len(log)
         /\ received[c] \in Nat /\ Len(global[c]) <= received[c] /\ received[c] <= Len(log)
         /\ text[c] \in Texts /\ uiQ[c] \in Seq(Ops) /\ global[c] \in Seq(Ops)
         /\ local[c] \in Seq(Ops) /\ batch[c] \in Seq(Ops) /\ send[c] \in Seq(Ops)
         /\ undo[c] \in Seq(Ops) /\ redo[c] \in Seq(Ops) /\ stackQ[c] \in Seq(Blocks)
         /\ log \in Seq([op : Ops, order : Nat])
<1>1. /\ TypeOK /\ Len(global[c]) \in Nat /\ Len(log) \in Nat
      /\ Len(global[c]) <= Len(log)
  BY GlobalInLog
<1>2. TypeInv /\ Prefix(c) /\ Signed(c) /\ Carrying(c)
  BY DEF SessionInv, Session, DeliveryInv
<1>3. received[c] <= Len(log) /\ Len(global[c]) <= received[c]
  BY <1>2 DEF TypeInv, HandedOver, Prefix
<1> QED
  BY <1>1, <1>2, <1>3 DEF TypeOK, Texts

\* A step that puts nothing into the global stack.
LEMMA LoneKept ==
  ASSUME NEW c, Lone(c), Own(c)', global'[c] = global[c], alive'[c] => alive[c] /\ Goes(c)'
  PROVE  Lone(c)'
BY DEF Lone

\* The handler of the timer holds a change set between its calls only.
LEMMA HandlerHolds ==
  ASSUME SessionInv, NEW c \in Clients, batch[c] = << >>
  PROVE  timer[c] # "taken" /\ timer[c] # "sent"
BY LoneRead DEF Carrying

\* A user who may make an operation finds the device at rest.
LEMMA InputAtRest ==
  ASSUME AtLeisure, SessionInv, NEW c \in Clients, Lone(c), MayInput(c)
  PROVE  /\ alive[c] /\ timer[c] = "idle" /\ batch[c] = << >> /\ stackQ[c] = << >> /\ uiQ[c] = << >>
         /\ local[c] = << >> /\ send[c] = << >> /\ undo[c] = << >> /\ redo[c] = << >>
         /\ Len(log) = Len(global[c]) /\ Retraceable(global[c], c)
         /\ Story(c).known => text[c] = Story(c).text
<1> DEFINE n == Len(global[c])
<1>1. /\ AtTurn(c) /\ NothingPending(c) /\ alive[c] /\ timer[c] = "idle"
      /\ stackQ[c] = << >> /\ uiQ[c] = << >>
  BY DEF AtLeisure, MayInput, AtTurn, MainFree
<1>2. /\ n \in Nat /\ Len(log) \in Nat /\ Carrying(c)
      /\ local[c] \in Seq(Ops) /\ send[c] \in Seq(Ops)
      /\ undo[c] \in Seq(Ops) /\ redo[c] \in Seq(Ops)
  BY LoneRead
<1>3. local[c] = << >> /\ send[c] = << >> /\ undo[c] = << >> /\ redo[c] = << >>
  <2>1. local[c] \o send[c] \in Seq(Ops) /\ (local[c] \o send[c]) \o undo[c] \in Seq(Ops)
    BY <1>2, ConcatProperties
  <2>2. ((local[c] \o send[c]) \o undo[c]) \o redo[c] = << >>
    BY <1>1 DEF NothingPending
  <2>3. (local[c] \o send[c]) \o undo[c] = << >> /\ redo[c] = << >>
    BY <1>2, <2>1, <2>2, BothEmpty
  <2>4. local[c] \o send[c] = << >> /\ undo[c] = << >>
    BY <1>2, <2>1, <2>3, BothEmpty
  <2> QED  BY <1>2, <2>3, <2>4, BothEmpty
<1>4. batch[c] = << >>
  BY <1>1, <1>2 DEF Carrying
<1>5. received[c] = n
  BY <1>1, WorkedThrough
<1>6. ~Typing(c)
  BY <1>1, <1>3, <1>4, OneIsSome DEF Typing, KeyHome, KeySent
<1>7. ~Retracing(c)
  <2>1. \A w : ~BackHome(c, w)
    <3>1. << >> \o << >> = << >>
      OBVIOUS
    <3> QED  BY <1>1, <1>3, <3>1, OneIsSome DEF BackHome
  <2>2. ASSUME NEW w, BackSent(c, w)
        PROVE  FALSE
    <3>1. Len(log) = n + 1
      BY <2>2 DEF BackSent
    <3>2. log[n + 1].op.participantID = c
      <4> HIDE DEF n
      <4>1. n + 1 \in 1..Len(log)
        BY <1>2, <3>1
      <4> QED  BY <4>1 DEF Lone, Own
    <3>3. n + 1 \in (received[c] + 1)..Len(log)
      <4> HIDE DEF n
      <4> QED  BY <1>2, <1>5, <3>1
    <3> QED  BY <1>1, <3>2, <3>3 DEF NothingPending
  <2> QED  BY <2>1, <2>2 DEF Retracing
<1>8. AtRest(c) /\ Retraceable(global[c], c)
  BY <1>1, <1>6, <1>7 DEF Lone, Goes
<1> QED
  BY <1>1, <1>3, <1>4, <1>8, OneIsSome DEF AtRest

\* A keystroke.
LEMMA TypeLone ==
  ASSUME AtLeisure, SessionInv, NEW c \in Clients, Lone(c), Type(c)
  PROVE  Lone(c)'
<1>1. /\ MayInput(c) /\ TypeOK
      /\ text[c] \in Texts /\ local[c] \in Seq(Ops)
  BY LoneRead DEF Type
<1>2. /\ alive[c] /\ timer[c] = "idle" /\ batch[c] = << >> /\ stackQ[c] = << >> /\ uiQ[c] = << >>
      /\ local[c] = << >> /\ send[c] = << >> /\ undo[c] = << >> /\ redo[c] = << >>
      /\ Len(log) = Len(global[c])
      /\ Story(c).known => text[c] = Story(c).text
  BY <1>1, InputAtRest
<1>3. PICK op \in Ops :
        /\ op.state = "LOCAL" /\ Makes(op, text[c], text'[c]) /\ local'[c] = <<op>>
        /\ UNCHANGED <<member, log, send, global, undo, redo, stackQ, uiQ, batch, alive>>
  <2>1. PICK edit \in Edits, location \in 0..Len(text[c]) :
          LET range == [location |-> location, length |-> edit[1]]
          IN  /\ Within(range, text[c])
              /\ ShouldChangeText(c, range, Typed(c, edit[2]))
    BY DEF Type
  <2> DEFINE range == [location |-> location, length |-> edit[1]]
             put   == Typed(c, edit[2])
             op    == NewOperation(c, range, Substring(text[c], range), put)
  <2>2. /\ Within(range, text[c])
        /\ range.length <= 1 /\ Len(put) <= 1
        /\ local' = [local EXCEPT ![c] = Append(local[c], op)]
        /\ text' = [text EXCEPT ![c] = Replace(text[c], range, put)]
        /\ UNCHANGED <<member, log, send, global, undo, redo, stackQ, uiQ, batch, alive>>
    BY <2>1 DEF ShouldChangeText, threads
  <2>3. edit[1] \in Nat /\ edit[2] \in Nat /\ nextID[c] \in Nat /\ location \in Nat
    BY <1>1, EditsAssumption, LenProperties DEF TypeOK, Texts
  <2>4. range \in Ranges
    BY <2>3 DEF Ranges
  <2>5. put \in Strings(Glyphs)
    <3> DEFINE g(i) == <<c, nextID[c], i>>
    <3>1. \A i \in 1..edit[2] : g(i) \in Glyphs
      BY <2>3 DEF Glyphs
    <3>2. [i \in 1..edit[2] |-> g(i)] \in Seq(Glyphs)
      <4> HIDE DEF g
      <4> QED  BY <2>3, <3>1, IsASeq
    <3>3. put \in Seq(Glyphs)
      BY <3>2 DEF Typed
    <3> QED  BY <2>2, <3>3 DEF Strings
  <2> HIDE DEF range, put
  <2>6. op \in Ops
    <3>1. Substring(text[c], range) \in Strings(Glyphs)
      BY <1>1, <2>2, <2>4, SubstringIsString DEF Texts
    <3> QED  BY <1>1, <2>4, <2>5, <3>1, NewOperationType
  <2>7. /\ op.state = "LOCAL" /\ op.range = range
        /\ op.originalString = Substring(text[c], range) /\ op.replaceString = put
    BY DEF NewOperation
  <2> HIDE DEF op
  <2>8. text'[c] = Replace(text[c], range, put) /\ local'[c] = <<op>>
    BY <1>1, <1>2, <2>2 DEF TypeOK
  <2>9. Makes(op, text[c], text'[c])
    BY <2>2, <2>7, <2>8 DEF Makes
  <2> QED  BY <2>2, <2>6, <2>7, <2>8, <2>9
<1>4. Story(c)' = Story(c)
  BY <1>3 DEF Story
<1>5. Typing(c)'
  <2>1. KeyHome(c, op)'
    BY <1>2, <1>3 DEF KeyHome
  <2>2. uiQ'[c] = << >> /\ NoneTaken(c)'
    BY <1>2, <1>3 DEF NoneTaken
  <2>3. Story(c).known => Makes(op, Story(c).text, text'[c])
    BY <1>2, <1>3
  <2> QED  BY <1>3, <1>4, <2>1, <2>2, <2>3 DEF Typing
<1> QED
  BY <1>2, <1>3, <1>5, LoneKept DEF Lone, Own, Goes

\* An undo or a redo.
LEMMA RetraceLone ==
  ASSUME AtLeisure, SessionInv, NEW c \in Clients, Lone(c), UndoAct(c) \/ RedoAct(c)
  PROVE  Lone(c)'
<1>0. /\ MayInput(c) /\ TypeOK /\ nextID[c] \in Nat
      /\ global[c] \in Seq(Ops) /\ undo[c] \in Seq(Ops) /\ redo[c] \in Seq(Ops)
      /\ received[c] \in Nat /\ Len(global[c]) <= received[c] /\ Signed(c)
  BY LoneRead DEF UndoAct, RedoAct, TypeOK
<1>1. ParticipantID(c) = c
  <2>1. \/ UndoTarget(global[c], ParticipantID(c)) # 0
        \/ RedoTarget(global[c], ParticipantID(c)) # 0
    BY DEF UndoAct, RedoAct
  <2>2. 1..Len(global[c]) # {}
    BY <1>0, <2>1, TargetIsPlace
  <2>3. received[c] # 0
    BY <1>0, <2>2, LenProperties
  <2> QED  BY <1>0, <2>3 DEF Signed, ParticipantID
<1>2. /\ alive[c] /\ timer[c] = "idle" /\ batch[c] = << >> /\ stackQ[c] = << >> /\ uiQ[c] = << >>
      /\ local[c] = << >> /\ send[c] = << >> /\ undo[c] = << >> /\ redo[c] = << >>
      /\ Len(log) = Len(global[c]) /\ Retraceable(global[c], c)
      /\ Story(c).known => text[c] = Story(c).text
  BY <1>0, InputAtRest
<1>3. UNCHANGED <<member, log, text, local, send, global, stackQ, uiQ, batch, alive>>
  BY DEF UndoAct, RedoAct, threads
<1>4. PICK w \in Ops :
        /\ w.state \in {"UNDO", "REDO"} /\ undo'[c] \o redo'[c] = <<w>>
        /\ Returns(w, Story(c), text[c])
  <2>1. CASE UndoAct(c)
    <3> DEFINE target == UndoTarget(global[c], c)
               w == InverseOf(global[c][target], c, nextID[c], "UNDO")
    <3>1. /\ target # 0 /\ undo' = [undo EXCEPT ![c] = Append(undo[c], w)] /\ redo' = redo
      BY <1>1, <2>1 DEF UndoAct
    <3>2. w \in Ops
      <4>1. target \in 1..Len(global[c])
        BY <1>0, <3>1, TargetIsPlace
      <4>2. global[c][target] \in Ops
        BY <1>0, <4>1, ElementOfSeq
      <4> HIDE DEF target
      <4> QED  BY <1>0, <4>2, InverseIsOperation DEF Ops, States
    <3>3. Story(c).known => Leads(w, Story(c), Last(Story(c).past))
      BY <1>0, <1>2, <3>1, UndoLeads DEF Story
    <3>4. w.state = "UNDO"
      BY DEF InverseOf
    <3>7. Returns(w, Story(c), text[c])
      BY <1>2, <3>3 DEF Returns
    <3> HIDE DEF w, target
    <3>5. undo'[c] = <<w>> /\ redo'[c] = << >>
      BY <1>0, <1>2, <3>1 DEF TypeOK
    <3>6. <<w>> \o << >> = <<w>>
      OBVIOUS
    <3> QED  BY <3>2, <3>4, <3>5, <3>6, <3>7
  <2>2. CASE RedoAct(c)
    <3> DEFINE target == RedoTarget(global[c], c)
               w == InverseOf(global[c][target], c, nextID[c], "REDO")
    <3>1. /\ target # 0 /\ redo' = [redo EXCEPT ![c] = Append(redo[c], w)] /\ undo' = undo
      BY <1>1, <2>2 DEF RedoAct
    <3>2. w \in Ops
      <4>1. target \in 1..Len(global[c])
        BY <1>0, <3>1, TargetIsPlace
      <4>2. global[c][target] \in Ops
        BY <1>0, <4>1, ElementOfSeq
      <4> HIDE DEF target
      <4> QED  BY <1>0, <4>2, InverseIsOperation DEF Ops, States
    <3>3. Story(c).known => Leads(w, Story(c), Last(Story(c).future))
      BY <1>0, <1>2, <3>1, RedoLeads DEF Story
    <3>4. w.state = "REDO"
      BY DEF InverseOf
    <3>7. Returns(w, Story(c), text[c])
      BY <1>2, <3>3 DEF Returns
    <3> HIDE DEF w, target
    <3>5. redo'[c] = <<w>> /\ undo'[c] = << >>
      BY <1>0, <1>2, <3>1 DEF TypeOK
    <3>6. << >> \o <<w>> = <<w>>
      OBVIOUS
    <3> QED  BY <3>2, <3>4, <3>5, <3>6, <3>7
  <2> QED  BY <2>1, <2>2
<1>5. Story(c)' = Story(c)
  BY <1>3 DEF Story
<1>6. Retracing(c)'
  <2>1. BackHome(c, w)'
    BY <1>2, <1>3, <1>4 DEF BackHome
  <2>2. uiQ'[c] = << >> /\ NoneMade(c)'
    BY <1>2, <1>3 DEF NoneMade
  <2> QED  BY <1>3, <1>4, <1>5, <2>1, <2>2 DEF Retracing
<1> QED
  BY <1>2, <1>3, <1>6, LoneKept DEF Lone, Own, Goes

\* A step that touches nothing of all this.
LEMMA LoneAside ==
  ASSUME NEW c, Lone(c),
         UNCHANGED <<log, text, local, send, global, undo, redo, stackQ, uiQ, batch, timer, alive>>
  PROVE  Lone(c)'
<1>1. Goes(c) => Goes(c)'
  <2>1. AtRest(c) => AtRest(c)'
    BY DEF AtRest, NoneMade, NoneTaken, Story
  <2>2. Typing(c) => Typing(c)'
    BY DEF Typing, NoneTaken, KeyHome, KeySent, OneEvent, Story
  <2>3. Retracing(c) => Retracing(c)'
    BY DEF Retracing, NoneMade, NoneTaken, BackHome, BackSent, OneEvent, Story
  <2> QED  BY <2>1, <2>2, <2>3 DEF Goes
<1> QED
  BY <1>1 DEF Lone, Own

\* The timer takes what is to be sent.
LEMMA GetLocalChangeSetLone ==
  ASSUME AtLeisure, SessionInv, NEW c \in Clients, Lone(c), GetLocalChangeSet(c)
  PROVE  Lone(c)'
<1>1. /\ TypeOK /\ alive[c] /\ timer[c] = "idle" /\ stackQ[c] = << >> /\ uiQ[c] = << >>
      /\ local[c] \o undo[c] \o redo[c] # << >>
      /\ batch' = [batch EXCEPT ![c] =
                     [i \in DOMAIN local[c] |-> [local[c][i] EXCEPT !.referID = Refer(c)]]]
      /\ local' = [local EXCEPT ![c] = << >>]
      /\ timer' = [timer EXCEPT ![c] = IF local[c] = << >> THEN "undoRedo" ELSE "taken"]
      /\ UNCHANGED <<log, text, send, global, undo, redo, stackQ, uiQ, alive>>
  BY LoneRead DEF GetLocalChangeSet, AtTurn, MainFree, AtLeisure
<1>2. /\ batch'[c] = [i \in DOMAIN local[c] |-> [local[c][i] EXCEPT !.referID = Refer(c)]]
      /\ local'[c] = << >>
      /\ timer'[c] = IF local[c] = << >> THEN "undoRedo" ELSE "taken"
      /\ Story(c)' = Story(c)
  BY <1>1 DEF TypeOK, Story
<1>3. (<< >> \o << >>) \o << >> = << >>
  OBVIOUS
<1>4. ~AtRest(c)
  BY <1>1, <1>3 DEF AtRest, NoneMade, NoneTaken
<1>5. ASSUME Typing(c)
      PROVE  Typing(c)'
  <2>1. PICK w \in Ops :
          /\ w.state \in {"LOCAL", "SEND"}
          /\ Story(c).known => Makes(w, Story(c).text, text[c])
          /\ KeyHome(c, w) \/ KeySent(c, w)
    BY <1>5 DEF Typing
  <2>2. NoneTaken(c)
    BY <1>5 DEF Typing
  <2>3. local[c] = <<w>> /\ batch[c] = << >> /\ send[c] = << >> /\ Len(log) = Len(global[c])
    BY <1>1, <1>3, <2>1, <2>2, OneIsSome DEF KeyHome, KeySent, NoneTaken
  <2>4. PICK sent \in Ops :
          /\ batch'[c] = <<sent>> /\ sent.state = w.state /\ sent.range = w.range
          /\ sent.originalString = w.originalString /\ sent.replaceString = w.replaceString
    <3> DEFINE sent == [w EXCEPT !.referID = Refer(c)]
    <3>1. Refer(c) \in Nat \cup {NoRefer}
      <4>1. global[c] \in Seq(Ops)
        BY LoneRead
      <4>2. global[c] # << >> => Len(global[c]) \in 1..Len(global[c])
        BY <4>1, LenProperties, EmptySeq
      <4>3. global[c] # << >> => global[c][Len(global[c])] \in Ops
        BY <4>1, <4>2, ElementOfSeq
      <4> QED  BY <4>3 DEF Refer, Ops, Operations
    <3>2. /\ sent \in Ops /\ sent.state = w.state /\ sent.range = w.range
          /\ sent.originalString = w.originalString /\ sent.replaceString = w.replaceString
      BY <3>1 DEF Ops, Operations
    <3>3. DOMAIN <<w>> = {1} /\ <<w>>[1] = w
      OBVIOUS
    <3>4. [i \in {1} |-> sent] = <<sent>>
      <4> HIDE DEF sent
      <4> QED  OBVIOUS
    <3>5. batch'[c] = <<sent>>
      BY <1>2, <2>3, <3>3, <3>4
    <3> HIDE DEF sent
    <3> QED  BY <3>2, <3>5
  <2>6. KeyHome(c, sent)'
    <3>1. local'[c] = << >> /\ timer'[c] = "taken" /\ stackQ'[c] = << >> /\ send'[c] = << >>
      BY <1>1, <1>2, <2>3, OneIsSome
    <3>2. Len(log') = Len(global'[c])
      BY <1>1, <2>3
    <3> QED  BY <2>4, <3>1, <3>2 DEF KeyHome
  <2>7. Story(c).known => Makes(sent, Story(c).text, text[c])
    BY <2>1, <2>4 DEF Makes
  <2>8. sent.state \in {"LOCAL", "SEND"} /\ sent \in Ops /\ uiQ'[c] = << >> /\ text'[c] = text[c]
    BY <1>1, <2>1, <2>4
  <2>9. NoneTaken(c)'
    BY <1>1, <2>2 DEF NoneTaken
  <2> QED  BY <1>2, <2>6, <2>7, <2>8, <2>9 DEF Typing
<1>6. ASSUME Retracing(c)
      PROVE  Retracing(c)'
  <2>1. local[c] = << >> /\ send[c] = << >>
    BY <1>6 DEF Retracing, NoneMade
  <2>2. batch'[c] = << >>
    <3>1. DOMAIN << >> = {}
      OBVIOUS
    <3> QED  BY <1>2, <2>1, <3>1
  <2>3. NoneMade(c)'
    BY <1>1, <1>2, <2>1, <2>2 DEF NoneMade
  <2>4. \A w : BackHome(c, w) \/ BackSent(c, w) => BackHome(c, w)' \/ BackSent(c, w)'
    BY <1>1 DEF BackHome, BackSent, NoneTaken, OneEvent
  <2> QED  BY <1>1, <1>2, <1>6, <2>3, <2>4 DEF Retracing
<1>7. Goes(c)'
  BY <1>1, <1>4, <1>5, <1>6 DEF Lone, Goes
<1> QED
  BY <1>1, <1>7, LoneKept DEF Lone, Own

\* A device that is in the handler of the timer with a change set has it from a keystroke.
LEMMA HandlerTypes ==
  ASSUME SessionInv, NEW c \in Clients, Lone(c), alive[c], timer[c] \in {"taken", "sent"}
  PROVE  \E w \in Ops :
           /\ w.state \in {"LOCAL", "SEND"} /\ w.participantID = c /\ w.state = "LOCAL"
           /\ Story(c).known => Makes(w, Story(c).text, text[c])
           /\ uiQ[c] = << >> /\ NoneTaken(c) /\ stackQ[c] = << >>
           /\ local[c] = << >> /\ send[c] = << >> /\ batch[c] = <<w>>
           /\ timer[c] = "taken" => Len(log) = Len(global[c])
           /\ timer[c] = "sent" => Len(log) = Len(global[c]) + 1
<1>1. batch[c] # << >> /\ Signed(c)
  BY LoneRead DEF Carrying
<1>2. Typing(c)
  BY <1>1 DEF Lone, Goes, AtRest, Retracing, NoneMade
<1>3. PICK w \in Ops :
        /\ w.state \in {"LOCAL", "SEND"}
        /\ Story(c).known => Makes(w, Story(c).text, text[c])
        /\ KeyHome(c, w) \/ KeySent(c, w)
  BY <1>2 DEF Typing
<1>4. /\ batch[c] = <<w>> /\ local[c] = << >> /\ send[c] = << >> /\ stackQ[c] = << >>
      /\ timer[c] = "taken" => Len(log) = Len(global[c])
      /\ timer[c] = "sent" => Len(log) = Len(global[c]) + 1
  BY <1>1, <1>3 DEF KeyHome, KeySent
<1>5. w.participantID = c /\ w.state = "LOCAL"
  <2>1. 1 \in 1..Len(batch[c]) /\ batch[c][1] = w
    BY <1>4, OneIsSome
  <2>2. w.participantID = c /\ w.state \in {"LOCAL"}
    BY <1>1, <2>1 DEF Signed, Marked
  <2> QED  BY <2>2
<1> QED
  BY <1>2, <1>3, <1>4, <1>5 DEF Typing

\* An operation joins the session.
LEMMA OneLogged ==
  ASSUME TypeOK, NEW c, NEW w \in Ops, w.participantID = c, w.state \in LogStates,
         log' = log \o Event(<<w>>), Own(c)
  PROVE  Own(c)' /\ Len(log') = Len(log) + 1 /\ log'[Len(log')].op = w
<1> DEFINE m == Len(log)
<1>1. <<w>> \in Seq(Ops) /\ Marked(<<w>>, c, LogStates) /\ Len(<<w>>) = 1 /\ <<w>>[1] = w
  BY OneIsSome DEF Marked
<1>2. /\ Len(log') = m + Len(<<w>>) /\ m \in Nat
      /\ \A k \in 1..m : log'[k] = log[k]
      /\ \A i \in 1..Len(<<w>>) : log'[m + i].op = <<w>>[i]
  BY <1>1, EventGrows
<1>3. Len(log') = m + 1 /\ log'[m + 1].op = w
  <2>1. 1 \in 1..Len(<<w>>)
    BY <1>1
  <2> QED  BY <1>1, <1>2, <2>1
<1>4. Own(c)'
  <2> HIDE DEF m
  <2>1. \A k \in 1..(m + 1) : k \in 1..m \/ k = m + 1
    BY <1>2
  <2>2. \A k \in 1..m : log[k].op.participantID = c
    BY DEF Own, m
  <2> QED  BY <1>2, <1>3, <2>1, <2>2 DEF Own
<1> QED
  BY <1>3, <1>4

\* A keystroke is broadcast,
LEMMA BroadcastLone ==
  ASSUME SessionInv, NEW c \in Clients, Lone(c), BroadcastLocal(c)
  PROVE  Lone(c)'
<1>1. /\ TypeOK /\ alive[c] /\ timer[c] = "taken" /\ log' = log \o Event(batch[c])
      /\ timer' = [timer EXCEPT ![c] = "sent"]
      /\ UNCHANGED <<text, local, send, global, undo, redo, stackQ, uiQ, batch, alive>>
  BY LoneRead DEF BroadcastLocal, stacks
<1>2. PICK w \in Ops :
        /\ w.state \in {"LOCAL", "SEND"} /\ w.participantID = c /\ w.state = "LOCAL"
        /\ Story(c).known => Makes(w, Story(c).text, text[c])
        /\ uiQ[c] = << >> /\ NoneTaken(c) /\ stackQ[c] = << >>
        /\ local[c] = << >> /\ send[c] = << >> /\ batch[c] = <<w>>
        /\ Len(log) = Len(global[c])
  BY <1>1, HandlerTypes
<1>3. Own(c)' /\ Len(log') = Len(global[c]) + 1
  BY <1>1, <1>2, OneLogged DEF Lone, LogStates
<1>4. timer'[c] = "sent" /\ Story(c)' = Story(c)
  BY <1>1 DEF TypeOK, Story
<1>5. KeySent(c, w)'
  BY <1>1, <1>2, <1>3, <1>4 DEF KeySent
<1>6. Typing(c)'
  BY <1>1, <1>2, <1>4, <1>5 DEF Typing, NoneTaken
<1> QED
  BY <1>1, <1>3, <1>6, LoneKept DEF Goes

\* ... or refused.
LEMMA RefuseLone ==
  ASSUME SessionInv, NEW c \in Clients, Lone(c), RefuseLocal(c)
  PROVE  Lone(c)'
<1>1. /\ TypeOK /\ alive[c] /\ timer[c] = "taken" /\ DispatchBack(c, "local", batch[c])
      /\ batch' = [batch EXCEPT ![c] = << >>]
      /\ UNCHANGED <<log, text, local, send, global, undo, redo, uiQ>>
  BY LoneRead DEF RefuseLocal, stacks
<1>2. PICK w \in Ops :
        /\ w.state \in {"LOCAL", "SEND"} /\ w.participantID = c /\ w.state = "LOCAL"
        /\ Story(c).known => Makes(w, Story(c).text, text[c])
        /\ uiQ[c] = << >> /\ NoneTaken(c) /\ stackQ[c] = << >>
        /\ local[c] = << >> /\ send[c] = << >> /\ batch[c] = <<w>>
        /\ Len(log) = Len(global[c])
  BY <1>1, HandlerTypes
<1>3. ASSUME alive'[c]
      PROVE  Typing(c)'
  <2>1. queueMade[c]
    BY <1>1, <1>3 DEF DispatchBack, TypeOK
  <2> DEFINE block == [kind |-> "local", at |-> 0, ops |-> <<w>>]
  <2>2. stackQ'[c] = <<block>> /\ block.kind = "local" /\ block.ops = <<w>>
    BY <1>1, <1>2, <2>1 DEF DispatchBack, TypeOK
  <2> HIDE DEF block
  <2>3. batch'[c] = << >> /\ Story(c)' = Story(c)
    BY <1>1 DEF TypeOK, Story
  <2>4. KeyHome(c, w)'
    BY <1>1, <1>2, <2>2, <2>3 DEF KeyHome
  <2> QED  BY <1>1, <1>2, <2>3, <2>4 DEF Typing, NoneTaken
<1> QED
  BY <1>1, <1>3, LoneKept DEF Goes, Lone, Own

\* What was sent waits for its confirmation.
LEMMA PutIntoSendStackLone ==
  ASSUME SessionInv, NEW c \in Clients, Lone(c), PutIntoSendStack(c)
  PROVE  Lone(c)'
<1>1. /\ TypeOK /\ alive[c] /\ timer[c] = "sent"
      /\ send' = [send EXCEPT ![c] =
           send[c] \o [i \in DOMAIN batch[c] |-> [batch[c][i] EXCEPT !.state = "SEND"]]]
      /\ batch' = [batch EXCEPT ![c] = << >>]
      /\ UNCHANGED <<log, text, local, global, undo, redo, stackQ, uiQ, alive>>
  BY LoneRead DEF PutIntoSendStack
<1>2. PICK w \in Ops :
        /\ w.state \in {"LOCAL", "SEND"} /\ w.participantID = c /\ w.state = "LOCAL"
        /\ Story(c).known => Makes(w, Story(c).text, text[c])
        /\ uiQ[c] = << >> /\ NoneTaken(c) /\ stackQ[c] = << >>
        /\ local[c] = << >> /\ send[c] = << >> /\ batch[c] = <<w>>
        /\ Len(log) = Len(global[c]) + 1
  BY <1>1, HandlerTypes
<1> DEFINE sent == [w EXCEPT !.state = "SEND"]
<1>3. /\ sent \in Ops /\ sent.state = "SEND" /\ sent.range = w.range
      /\ sent.originalString = w.originalString /\ sent.replaceString = w.replaceString
  BY DEF Ops, Operations, States
<1>4. send'[c] = <<sent>> /\ batch'[c] = << >> /\ Story(c)' = Story(c)
  <2>1. DOMAIN <<w>> = {1} /\ <<w>>[1] = w
    OBVIOUS
  <2>2. [i \in {1} |-> sent] = <<sent>> /\ << >> \o <<sent>> = <<sent>>
    <3> HIDE DEF sent
    <3> QED  OBVIOUS
  <2>3. [i \in DOMAIN batch[c] |-> [batch[c][i] EXCEPT !.state = "SEND"]] = <<sent>>
    BY <1>2, <2>1, <2>2
  <2> QED  BY <1>1, <1>2, <2>2, <2>3 DEF TypeOK, Story
<1> HIDE DEF sent
<1>5. KeySent(c, sent)'
  BY <1>1, <1>2, <1>4 DEF KeySent, OneEvent
<1>6. Story(c).known => Makes(sent, Story(c).text, text[c])
  BY <1>2, <1>3 DEF Makes
<1>7. Typing(c)'
  BY <1>1, <1>2, <1>3, <1>4, <1>5, <1>6 DEF Typing, NoneTaken
<1> QED
  BY <1>1, <1>7, LoneKept DEF Goes, Lone, Own

\* One operation of two stacks.
LEMMA OneOfTwo ==
  ASSUME NEW a \in Seq(Ops), NEW b \in Seq(Ops), NEW w, a \o b = <<w>>
  PROVE  \/ 1 \in 1..Len(a) /\ a[1] = w
         \/ 1 \in 1..Len(b) /\ b[1] = w
<1> DEFINE m == Len(a)
           n == Len(b)
<1>1. /\ Len(a \o b) = m + n /\ m \in Nat /\ n \in Nat
      /\ \A i \in 1..(m + n) : (a \o b)[i] = IF i <= m THEN a[i] ELSE b[i - m]
  BY ConcatProperties, LenProperties
<1>2. m + n = 1 /\ (a \o b)[1] = w
  BY <1>1, OneIsSome
<1> HIDE DEF m, n
<1>3. CASE m = 1
  BY <1>1, <1>2, <1>3 DEF m
<1>4. CASE m = 0
  <2>1. n = 1 /\ ~(1 <= m) /\ 1 - m = 1 /\ 1 \in 1..(m + n)
    BY <1>1, <1>2, <1>4
  <2>2. b[1] = w
    BY <1>1, <1>2, <2>1
  <2> QED  BY <2>1, <2>2 DEF n
<1>5. m = 0 \/ m = 1
  BY <1>1, <1>2
<1> QED
  BY <1>3, <1>4, <1>5

\* The handler sends the undos and redos, and ends.
LEMMA SendUndoAndRedoLone ==
  ASSUME SessionInv, NEW c \in Clients, Lone(c), SendUndoAndRedo(c)
  PROVE  Lone(c)'
<1>1. /\ TypeOK /\ Signed(c) /\ Carrying(c) /\ alive[c] /\ timer[c] = "undoRedo"
      /\ undo[c] \in Seq(Ops) /\ redo[c] \in Seq(Ops)
      /\ undo' = [undo EXCEPT ![c] = << >>]
      /\ redo' = [redo EXCEPT ![c] = << >>]
      /\ UNCHANGED <<text, local, send, global, uiQ, batch>>
  BY LoneRead DEF SendUndoAndRedo
<1>2. undo'[c] = << >> /\ redo'[c] = << >> /\ batch[c] = << >> /\ Story(c)' = Story(c)
  BY <1>1 DEF TypeOK, Carrying, Story
<1>3. CASE undo[c] \o redo[c] = << >>
  <2>1. UNCHANGED <<log, stackQ, alive>>
    BY <1>3 DEF SendUndoAndRedo
  <2>2. undo[c] = << >> /\ redo[c] = << >>
    BY <1>1, <1>3, BothEmpty
  <2>3. AtRest(c) => AtRest(c)'
    BY <1>1, <1>2, <2>1, <2>2 DEF AtRest, NoneMade, NoneTaken
  <2>4. Typing(c) => Typing(c)'
    <3>1. \A w : KeyHome(c, w) \/ KeySent(c, w) => KeyHome(c, w)' \/ KeySent(c, w)'
      BY <1>1, <1>2, <2>1, OneIsSome DEF KeyHome, KeySent, OneEvent
    <3> QED  BY <1>1, <1>2, <2>1, <3>1 DEF Typing, NoneTaken
  <2>5. Retracing(c) => Retracing(c)'
    <3>1. \A w : BackHome(c, w) \/ BackSent(c, w) => BackHome(c, w)' \/ BackSent(c, w)'
      BY <1>1, <1>2, <1>3, <2>1, OneIsSome DEF BackHome, BackSent, NoneTaken, OneEvent
    <3> QED  BY <1>1, <1>2, <2>1, <3>1 DEF Retracing, NoneMade
  <2>6. Goes(c)'
    BY <1>1, <2>3, <2>4, <2>5 DEF Lone, Goes
  <2> QED  BY <1>1, <2>1, <2>6, LoneKept DEF Lone, Own
<1>4. CASE undo[c] \o redo[c] # << >>
  <2>1. << >> \o << >> = << >>
    OBVIOUS
  <2>2. ~AtRest(c) /\ ~Typing(c)
    BY <1>4, <2>1 DEF AtRest, Typing, NoneTaken
  <2>3. Retracing(c)
    BY <1>1, <2>2 DEF Lone, Goes
  <2>4. PICK w \in Ops :
          /\ w.state \in {"UNDO", "REDO"}
          /\ Returns(w, Story(c), text[c])
          /\ BackHome(c, w) \/ BackSent(c, w)
    BY <2>3 DEF Retracing
  <2>6. Len(log) = Len(global[c]) /\ undo[c] \o redo[c] = <<w>> /\ stackQ[c] = << >>
    BY <1>4, <2>1, <2>4 DEF BackHome, BackSent, NoneTaken
  <2>7. w.participantID = c
    <3>1. \/ 1 \in 1..Len(undo[c]) /\ undo[c][1] = w
          \/ 1 \in 1..Len(redo[c]) /\ redo[c][1] = w
      BY <1>1, <2>6, OneOfTwo
    <3> QED  BY <1>1, <3>1 DEF Signed, Marked
  <2>8. NoneTaken(c)' /\ NoneMade(c)'
    BY <1>1, <1>2, <2>3 DEF NoneTaken, NoneMade, Retracing
  <2>9. CASE log' = log \o Event(undo[c] \o redo[c]) /\ UNCHANGED <<stackQ, alive>>
    <3>1. Own(c)' /\ Len(log') = Len(global[c]) + 1 /\ log'[Len(log')].op = w
      BY <1>1, <2>4, <2>6, <2>7, <2>9, OneLogged DEF Lone, LogStates
    <3>2. BackSent(c, w)'
      BY <1>1, <2>6, <2>8, <2>9, <3>1 DEF BackSent, OneEvent
    <3>3. Retracing(c)'
      BY <1>1, <1>2, <2>3, <2>4, <2>8, <2>9, <3>2 DEF Retracing
    <3> QED  BY <1>1, <2>9, <3>1, <3>3, LoneKept DEF Goes
  <2>10. CASE DispatchBack(c, "undoRedo", undo[c] \o redo[c]) /\ UNCHANGED log
    <3>1. ASSUME alive'[c]
          PROVE  Retracing(c)'
      <4>1. queueMade[c]
        BY <1>1, <2>10, <3>1 DEF DispatchBack, TypeOK
      <4> DEFINE block == [kind |-> "undoRedo", at |-> 0, ops |-> <<w>>]
      <4>2. stackQ'[c] = <<block>> /\ block.kind = "undoRedo" /\ block.ops = <<w>>
        BY <1>1, <2>6, <2>10, <4>1 DEF DispatchBack, TypeOK
      <4> HIDE DEF block
      <4>3. BackHome(c, w)'
        BY <1>1, <2>6, <2>8, <2>10, <4>2 DEF BackHome
      <4> QED  BY <1>1, <1>2, <2>3, <2>4, <2>8, <4>3 DEF Retracing
    <3> QED  BY <1>1, <2>10, <3>1, LoneKept DEF Goes, Lone, Own
  <2> QED  BY <1>4, <2>9, <2>10 DEF SendUndoAndRedo
<1> QED
  BY <1>3, <1>4

\* An event in the stack queue is one that was handed over.
LEMMA EventHanded ==
  ASSUME SessionInv, NEW c \in Clients, OneEvent(c), stackQ[c] # << >>
  PROVE  Len(global[c]) + 1 <= received[c]
<1> DEFINE n == Len(global[c])
           r == received[c]
<1>1. /\ n \in Nat /\ r \in Nat
      /\ Places(stackQ[c]) = (n + 1)..r
  BY LoneRead DEF Prefix
<1>2. PICK block : stackQ[c] = <<block>> /\ block.kind = "new"
  BY DEF OneEvent
<1>3. 1 \in 1..Len(<<block>>) /\ <<block>>[1] = block
  OBVIOUS
<1>4. block.at \in Places(stackQ[c])
  BY <1>2, <1>3 DEF Places
<1> HIDE DEF n, r
<1>5. block.at \in (n + 1)..r
  BY <1>1, <1>4
<1>6. n + 1 <= r
  BY <1>1, <1>5
<1> QED
  BY <1>6 DEF n, r

\* The session hands over the operation on its way.
LEMMA ReceivedEventLone ==
  ASSUME AtLeisure, SessionInv, NEW c \in Clients, Lone(c), ReceivedEvent(c)
  PROVE  Lone(c)'
<1> DEFINE n == Len(global[c])
           m == Len(log)
           r == received[c]
<1>1. /\ TypeOK /\ alive[c] /\ Carrying(c) /\ timer[c] = "idle"
      /\ n \in Nat /\ m \in Nat /\ r \in Nat /\ n <= r
      /\ UNCHANGED <<log, text, local, send, global, undo, redo, uiQ, timer, batch, alive>>
  BY LoneRead DEF ReceivedEvent, stacks, AtLeisure, Undisturbed
<1>2. PICK last \in (r + 1)..m :
        stackQ' = [stackQ EXCEPT ![c] =
          stackQ[c] \o [i \in 1..(last - r) |->
                          [kind |-> "new", at |-> r + i, ops |-> << >>]]]
  BY DEF ReceivedEvent
<1>3. r + 1 <= m /\ n < m
  <2> HIDE DEF n, m, r
  <2> QED  BY <1>1, <1>2
<1>4. batch[c] = << >>
  BY <1>1 DEF Carrying
<1>5. ASSUME m = n + 1, OneEvent(c)
      PROVE  OneEvent(c)'
  <2>1. stackQ[c] = << >>
    <3>1. stackQ[c] # << >> => n + 1 <= r
      BY <1>5, EventHanded
    <3> HIDE DEF n, m, r
    <3>2. ~(n + 1 <= r)
      BY <1>1, <1>3, <1>5
    <3> QED  BY <3>1, <3>2
  <2>2. last - r = 1
    <3> HIDE DEF n, m, r
    <3> QED  BY <1>1, <1>2, <1>5
  <2> DEFINE block == [kind |-> "new", at |-> r + 1, ops |-> << >>]
  <2>3. [i \in 1..1 |-> [kind |-> "new", at |-> r + i, ops |-> << >>]] = <<block>>
    OBVIOUS
  <2>4. block.kind = "new"
    OBVIOUS
  <2>5. stackQ'[c] = << >> \o <<block>>
    BY <1>1, <1>2, <2>1, <2>2, <2>3 DEF TypeOK
  <2> HIDE DEF block
  <2>6. << >> \o <<block>> = <<block>>
    OBVIOUS
  <2>7. stackQ'[c] = <<block>>
    BY <2>5, <2>6
  <2> QED  BY <2>4, <2>7 DEF OneEvent
<1>6. ~AtRest(c) /\ Story(c)' = Story(c)
  <2>1. m # n
    <3> HIDE DEF n, m
    <3> QED  BY <1>1, <1>3
  <2> QED  BY <1>1, <2>1 DEF AtRest, Story
<1>7. ASSUME NEW w
      PROVE  /\ ~KeyHome(c, w) /\ ~BackHome(c, w)
             /\ KeySent(c, w) => KeySent(c, w)'
             /\ BackSent(c, w) => BackSent(c, w)'
  <2>1. m # n
    <3> HIDE DEF n, m
    <3> QED  BY <1>1, <1>3
  <2>2. KeySent(c, w) => m = n + 1 /\ send[c] = <<w>> /\ local[c] = << >> /\ OneEvent(c)
    BY <1>4, OneIsSome DEF KeySent
  <2>3. KeySent(c, w) => KeySent(c, w)'
    BY <1>1, <1>4, <1>5, <2>2 DEF KeySent
  <2>4. BackSent(c, w) => BackSent(c, w)'
    BY <1>1, <1>5 DEF BackSent, NoneTaken
  <2> QED  BY <2>1, <2>3, <2>4 DEF KeyHome, BackHome
<1>8. Typing(c) => Typing(c)'
  BY <1>1, <1>6, <1>7 DEF Typing, NoneTaken
<1>9. Retracing(c) => Retracing(c)'
  BY <1>1, <1>6, <1>7 DEF Retracing, NoneMade
<1>10. Goes(c)'
  BY <1>1, <1>6, <1>8, <1>9 DEF Lone, Goes
<1> QED
  BY <1>1, <1>10, LoneKept DEF Lone, Own

\* Of one undo or redo that is put back, one of the two stacks has it again.
LEMMA OneInState ==
  ASSUME NEW w \in Ops, NEW S
  PROVE  InState(<<w>>, S) = IF w.state \in S THEN <<w>> ELSE << >>
<1> DEFINE ops == <<w>>
<1>0. ops \in Seq(Ops)
  BY OneIsSome
<1>1. Len(ops) = 1 /\ ops[1] = w
  BY OneIsSome
<1> HIDE DEF ops
<1>2. PICK f : /\ f[0] = << >>
               /\ \A k \in 1..Len(ops) : f[k] = IF ops[k].state \in S
                                             THEN Append(f[k - 1], ops[k]) ELSE f[k - 1]
               /\ \A k \in 0..Len(ops) : f[k] \in Seq(OfState(Ops, S))
               /\ InState(ops, S) = f[Len(ops)]
  BY <1>0, InStateRuns
<1>3. 1 \in 1..1 /\ 1 - 1 = 0
  OBVIOUS
<1>4. f[1] = IF w.state \in S THEN Append(f[0], w) ELSE f[0]
  BY <1>1, <1>2, <1>3
<1>5. Append(<< >>, w) = <<w>>
  OBVIOUS
<1> QED
  BY <1>1, <1>2, <1>4, <1>5 DEF ops

\* What was refused is put back.
LEMMA AddBackLone ==
  ASSUME AtLeisure, SessionInv, NEW c \in Clients, Lone(c), AddBack(c)
  PROVE  Lone(c)'
<1>0. alive[c] /\ stackQ[c] # << >>
  BY DEF AddBack
<1>1. /\ TypeOK /\ alive[c] /\ stackQ[c] # << >>
      /\ stackQ' = [stackQ EXCEPT ![c] = Tail(stackQ[c])]
      /\ UNCHANGED <<log, text, send, global, uiQ, timer, batch, alive>>
  BY <1>0, LoneRead DEF AddBack
<1>2. Story(c)' = Story(c)
  BY <1>1 DEF Story
<1>3. ~OneEvent(c)
  <2>1. ASSUME NEW block, stackQ[c] = <<block>>, block.kind = "new"
        PROVE  FALSE
    <3>1. Head(<<block>>) = block
      OBVIOUS
    <3> QED  BY <2>1, <3>1 DEF AddBack
  <2> QED  BY <1>1, <2>1 DEF OneEvent
<1>4. ~AtRest(c)
  BY <1>1 DEF AtRest
<1>5. ASSUME Typing(c)
      PROVE  Typing(c)'
  <2>1. PICK w \in Ops :
          /\ w.state \in {"LOCAL", "SEND"}
          /\ Story(c).known => Makes(w, Story(c).text, text[c])
          /\ KeyHome(c, w) \/ KeySent(c, w)
    BY <1>5 DEF Typing
  <2>2. PICK block :
          /\ local[c] = << >> /\ batch[c] = << >> /\ send[c] = << >> /\ Len(log) = Len(global[c])
          /\ stackQ[c] = <<block>> /\ block.kind = "local" /\ block.ops = <<w>>
    BY <1>1, <1>3, <2>1 DEF KeyHome, KeySent
  <2>3. Head(<<block>>) = block /\ Tail(<<block>>) = << >> /\ <<w>> \o << >> = <<w>>
    OBVIOUS
  <2>4. /\ local' = [local EXCEPT ![c] = block.ops \o local[c]]
        /\ UNCHANGED <<undo, redo>>
    BY <2>2, <2>3 DEF AddBack
  <2>5. local'[c] = <<w>> /\ stackQ'[c] = << >>
    BY <1>1, <2>2, <2>3, <2>4 DEF TypeOK
  <2>6. KeyHome(c, w)'
    BY <1>1, <2>2, <2>5 DEF KeyHome
  <2>7. uiQ'[c] = << >> /\ NoneTaken(c)'
    BY <1>1, <1>5, <2>4 DEF Typing, NoneTaken
  <2> QED  BY <1>1, <1>2, <2>1, <2>6, <2>7 DEF Typing
<1>6. ASSUME Retracing(c)
      PROVE  Retracing(c)'
  <2>1. PICK w \in Ops :
          /\ w.state \in {"UNDO", "REDO"}
          /\ Returns(w, Story(c), text[c])
          /\ BackHome(c, w) \/ BackSent(c, w)
    BY <1>6 DEF Retracing
  <2>2. PICK block :
          /\ undo[c] = << >> /\ redo[c] = << >> /\ Len(log) = Len(global[c])
          /\ stackQ[c] = <<block>> /\ block.kind = "undoRedo" /\ block.ops = <<w>>
    BY <1>1, <1>3, <2>1 DEF BackHome, BackSent, NoneTaken
  <2>3. /\ Head(<<block>>) = block /\ Tail(<<block>>) = << >>
        /\ <<w>> \o << >> = <<w>> /\ << >> \o << >> = << >> /\ << >> \o <<w>> = <<w>>
    OBVIOUS
  <2>4. /\ undo' = [undo EXCEPT ![c] = InState(block.ops, {"UNDO"}) \o undo[c]]
        /\ redo' = [redo EXCEPT ![c] = InState(block.ops, States \ {"UNDO"}) \o redo[c]]
        /\ UNCHANGED local
    BY <2>2, <2>3 DEF AddBack
  <2>5. /\ undo'[c] = InState(<<w>>, {"UNDO"}) \o << >>
        /\ redo'[c] = InState(<<w>>, States \ {"UNDO"}) \o << >>
        /\ stackQ'[c] = << >>
    BY <1>1, <2>2, <2>3, <2>4 DEF TypeOK
  <2>6. undo'[c] \o redo'[c] = <<w>>
    <3>1. CASE w.state = "UNDO"
      <4>1. InState(<<w>>, {"UNDO"}) = <<w>> /\ InState(<<w>>, States \ {"UNDO"}) = << >>
        BY <3>1, OneInState
      <4> QED  BY <2>3, <2>5, <4>1
    <3>2. CASE w.state = "REDO"
      <4>1. w.state \in States \ {"UNDO"} /\ w.state \notin {"UNDO"}
        BY <3>2 DEF States
      <4>2. InState(<<w>>, {"UNDO"}) = << >> /\ InState(<<w>>, States \ {"UNDO"}) = <<w>>
        BY <4>1, OneInState
      <4> QED  BY <2>3, <2>5, <4>2
    <3> QED  BY <2>1, <3>1, <3>2
  <2>7. BackHome(c, w)'
    BY <1>1, <2>2, <2>5, <2>6 DEF BackHome
  <2>8. uiQ'[c] = << >> /\ NoneMade(c)'
    BY <1>1, <1>6, <2>4 DEF Retracing, NoneMade
  <2> QED  BY <1>1, <1>2, <2>1, <2>7, <2>8 DEF Retracing
<1>7. Goes(c)'
  BY <1>1, <1>4, <1>5, <1>6 DEF Lone, Goes
<1> QED
  BY <1>1, <1>7, LoneKept DEF Lone, Own

\* The undo or redo is shown.
LEMMA UpdateInputViewLone ==
  ASSUME SessionInv, NEW c \in Clients, Lone(c), UpdateInputView(c)
  PROVE  Lone(c)'
<1>1. /\ TypeOK /\ alive[c] /\ uiQ[c] # << >>
      /\ uiQ' = [uiQ EXCEPT ![c] = Tail(uiQ[c])]
      /\ UNCHANGED <<log, local, send, global, undo, redo, stackQ, batch>>
      /\ \/ /\ Within(Head(uiQ[c]).range, text[c])
            /\ text' = [text EXCEPT ![c] =
                 Replace(@, Head(uiQ[c]).range, Head(uiQ[c]).replaceString)]
         \/ alive' = [alive EXCEPT ![c] = FALSE]
  BY LoneRead DEF UpdateInputView, MainFree, stacks
<1>2. AtRest(c)
  BY <1>1 DEF Lone, Goes, Typing, Retracing
<1>3. PICK w \in Ops : uiQ[c] = <<w>> /\ (Story(c).known => Makes(w, text[c], Story(c).text))
  BY <1>1, <1>2 DEF AtRest
<1>4. Head(<<w>>) = w /\ Tail(<<w>>) = << >>
  OBVIOUS
<1>5. uiQ'[c] = << >> /\ Story(c)' = Story(c)
  BY <1>1, <1>3, <1>4 DEF TypeOK, Story
<1>6. ASSUME alive'[c]
      PROVE  AtRest(c)'
  <2>1. text'[c] = Replace(text[c], w.range, w.replaceString)
    BY <1>1, <1>3, <1>4, <1>6 DEF TypeOK
  <2>2. Story(c).known => text'[c] = Story(c).text
    BY <1>3, <2>1 DEF Makes
  <2> QED  BY <1>1, <1>2, <1>5, <2>2 DEF AtRest, NoneMade, NoneTaken
<1> QED
  BY <1>1, <1>6, LoneKept DEF Goes, Lone, Own

\* What addNewChangeSet passes on is the operation with another mark and number.
LEMMA DeliveredAlike ==
  ASSUME NEW entry \in [op : Ops, order : Nat]
  PROVE  LET op == Delivered(entry)
         IN  /\ op \in Ops
             /\ op.participantID = entry.op.participantID /\ op.range = entry.op.range
             /\ op.originalString = entry.op.originalString
             /\ op.replaceString = entry.op.replaceString
             /\ op.state = IF entry.op.state \in {"LOCAL", "SEND"} THEN "GLOBAL" ELSE entry.op.state
<1>1. Delivered(entry) \in Ops
  BY DeliveredType
<1>2. entry.op \in Ops
  OBVIOUS
<1> DEFINE given == entry.op
<1> HIDE DEF given
<1>3. Delivered(entry) = [given EXCEPT !.state = IF given.state \in {"LOCAL", "SEND"}
                                                 THEN "GLOBAL" ELSE given.state,
                                       !.globalID = entry.order]
  BY DEF Delivered, given
<1>4. given \in Ops
  BY <1>2 DEF given
<1>5. LET op == Delivered(entry)
      IN  /\ op.participantID = given.participantID /\ op.range = given.range
          /\ op.originalString = given.originalString
          /\ op.replaceString = given.replaceString
          /\ op.state = IF given.state \in {"LOCAL", "SEND"} THEN "GLOBAL" ELSE given.state
  BY <1>3, <1>4 DEF Ops, Operations
<1> QED
  BY <1>1, <1>5 DEF given

\* What the stack queue serves is the newest operation of the session, the one the
\* device waits for.
LEMMA LoneEntry ==
  ASSUME AtLeisure, SessionInv, NEW c \in Clients, Lone(c), AddNewOperation(c),
         NEW at, at = Head(stackQ[c]).at,
         NEW op, op = Delivered(log[at])
  PROVE  /\ alive[c] /\ ParticipantID(c) = c /\ stackQ[c] # << >>
         /\ at = Len(log) /\ Len(log) = Len(global[c]) + 1
         /\ op \in Ops /\ op.participantID = c
         /\ op.range = log[at].op.range
         /\ op.originalString = log[at].op.originalString
         /\ op.replaceString = log[at].op.replaceString
         /\ op.state = IF log[at].op.state \in {"LOCAL", "SEND"} THEN "GLOBAL" ELSE log[at].op.state
         /\ \/ \E w \in Ops :
                 /\ w.state \in {"LOCAL", "SEND"} /\ uiQ[c] = << >> /\ NoneTaken(c)
                 /\ Story(c).known => Makes(w, Story(c).text, text[c])
                 /\ local[c] = << >> /\ send[c] = <<w>> /\ batch[c] = << >> /\ OneEvent(c)
            \/ /\ uiQ[c] = << >> /\ NoneMade(c) /\ NoneTaken(c) /\ OneEvent(c)
               /\ log[at].op.state \in {"UNDO", "REDO"}
               /\ Returns(log[at].op, Story(c), text[c])
<1> DEFINE n == Len(global[c])
<1>1. /\ TypeOK /\ TypeInv /\ Signed(c) /\ log \in Seq([op : Ops, order : Nat])
  BY LoneRead
<1>2. "split" \notin Freedoms
  BY DEF AtLeisure
<1>3. /\ n \in Nat /\ Len(log) \in Nat /\ received[c] \in Nat
      /\ n + 1 <= received[c] /\ received[c] <= Len(log)
      /\ at = n + 1 /\ timer[c] = "idle"
  BY <1>2, ServedNext
<1>4. alive[c] /\ stackQ[c] # << >> /\ Head(stackQ[c]).kind = "new"
  BY DEF AddNewOperation
<1> HIDE DEF n
<1>5. at \in 1..Len(log) /\ received[c] # 0 /\ Len(log) # n
  BY <1>3
<1>6. ParticipantID(c) = c
  BY <1>1, <1>5 DEF Signed, ParticipantID
<1>7. log[at] \in [op : Ops, order : Nat]
  BY <1>1, <1>5, ElementOfSeq
<1>8. log[at].op \in Ops /\ log[at].op.participantID = c
  BY <1>5, <1>7 DEF Lone, Own
<1>9. /\ op \in Ops /\ op.participantID = c
      /\ op.range = log[at].op.range
      /\ op.originalString = log[at].op.originalString
      /\ op.replaceString = log[at].op.replaceString
      /\ op.state = IF log[at].op.state \in {"LOCAL", "SEND"} THEN "GLOBAL" ELSE log[at].op.state
  BY <1>7, <1>8, DeliveredAlike
<1>10. ~AtRest(c) /\ Goes(c)
  BY <1>4, <1>5 DEF n, AtRest, Lone
<1>11. CASE Typing(c)
  <2>1. PICK w \in Ops :
          /\ w.state \in {"LOCAL", "SEND"}
          /\ Story(c).known => Makes(w, Story(c).text, text[c])
          /\ KeyHome(c, w) \/ KeySent(c, w)
    BY <1>11 DEF Typing
  <2>2. KeySent(c, w)
    BY <1>5, <2>1 DEF KeyHome, n
  <2>3. local[c] = << >> /\ send[c] = <<w>> /\ batch[c] = << >> /\ OneEvent(c)
    BY <1>4, <2>2 DEF KeySent
  <2>4. uiQ[c] = << >> /\ NoneTaken(c) /\ Len(log) = n + 1
    BY <1>11, <2>2 DEF Typing, KeySent, n
  <2> QED  BY <1>3, <1>4, <1>6, <1>9, <2>1, <2>3, <2>4 DEF n
<1>12. CASE Retracing(c)
  <2>1. PICK w \in Ops :
          /\ w.state \in {"UNDO", "REDO"}
          /\ Returns(w, Story(c), text[c])
          /\ BackHome(c, w) \/ BackSent(c, w)
    BY <1>12 DEF Retracing
  <2>2. BackSent(c, w)
    BY <1>5, <2>1 DEF BackHome, n
  <2>3. Len(log) = n + 1 /\ NoneTaken(c) /\ OneEvent(c) /\ log[Len(log)].op = w
    BY <2>2 DEF BackSent, n
  <2>4. log[at].op = w
    BY <1>3, <2>3
  <2>5. uiQ[c] = << >> /\ NoneMade(c)
    BY <1>12 DEF Retracing
  <2> QED  BY <1>3, <1>4, <1>6, <1>9, <2>1, <2>3, <2>4, <2>5 DEF n
<1> QED
  BY <1>10, <1>11, <1>12 DEF Goes

\* All is in the global stack, and shown.
LEMMA ComesToRest ==
  ASSUME NEW c, Lone(c), NEW op \in Ops, NEW next,
         op.participantID = c, op.state \in {"GLOBAL", "UNDO", "REDO"}, global[c] \in Seq(Ops),
         global'[c] = Append(global[c], op), Len(log) = Len(global[c]) + 1, UNCHANGED log,
         alive[c], NoneMade(c)', NoneTaken(c)', stackQ'[c] = << >>,
         Story(c).known => Leads(op, Story(c), next),
         \/ uiQ'[c] = << >> /\ text'[c] = next
         \/ uiQ'[c] = <<op>> /\ (Story(c).known => text'[c] = Story(c).text)
  PROVE  Lone(c)'
<1>1. Continued(global[c], op, next)
  BY HistoryContinues DEF Lone, Story
<1>2. /\ Retraceable(global'[c], c)
      /\ Story(c)'.known =>
           /\ Story(c).known
           /\ Makes(op, Story(c).text, next)
           /\ Story(c)'.text = next
  BY <1>1 DEF Continued, Story
<1>3. Len(log') = Len(global'[c])
  BY Appended
<1>4. AtRest(c)'
  <2>1. CASE uiQ'[c] = << >> /\ text'[c] = next
    BY <1>2, <1>3, <2>1 DEF AtRest
  <2>2. CASE uiQ'[c] = <<op>> /\ (Story(c).known => text'[c] = Story(c).text)
    <3>1. Story(c)'.known => Makes(op, text'[c], Story(c)'.text)
      BY <1>2, <2>2
    <3> QED  BY <1>3, <2>2, <3>1 DEF AtRest
  <2> QED  BY <2>1, <2>2
<1> QED
  BY <1>2, <1>4 DEF Goes, Lone, Own

\* What waits is taken to the global stack.
ConfirmedAs(c, i, op) ==
  global' = [global EXCEPT ![c] =
    Append(global[c], [send[c][i] EXCEPT !.globalID = op.globalID, !.state = op.state])]

\* A confirmation does this or nothing.
LEMMA ConfirmationTakes ==
  ASSUME NEW c, NEW op, UpdateOperationFromSendToGlobal(c, op)
  PROVE  uiQ' = uiQ /\ (global' = global \/ \E i \in 1..Len(send[c]) : ConfirmedAs(c, i, op))
<1> DEFINE Awaits(waiting) == waiting.operationID = op.operationID /\ waiting.state = "SEND"
           I == {k \in 1..Len(send[c]) : Awaits(send[c][k])}
           i == IF I # {} THEN Min(I) ELSE 0
<1>1. /\ uiQ' = uiQ
      /\ IF i = 0 THEN global' = global
                  ELSE global' = [global EXCEPT ![c] =
                         Append(global[c],
                           [send[c][i] EXCEPT !.globalID = op.globalID, !.state = op.state])]
  BY DEF UpdateOperationFromSendToGlobal, SelectInSeq
<1>2. I \in SUBSET (1..Len(send[c])) /\ I \in SUBSET Nat
  OBVIOUS
<1> HIDE DEF I
<1>3. i = 0 \/ i \in 1..Len(send[c])
  BY <1>2, MinIsMember
<1> HIDE DEF i
<1>4. i # 0 => ConfirmedAs(c, i, op)
  BY <1>1 DEF ConfirmedAs
<1> QED
  BY <1>1, <1>3, <1>4

\* A keystroke is confirmed.
LEMMA ConfirmationLone ==
  ASSUME AtLeisure, SessionInv, NEW c \in Clients, Lone(c), AddNewOperation(c),
         Mine(c, Delivered(log[Head(stackQ[c]).at])),
         UpdateOperationFromSendToGlobal(c, Delivered(log[Head(stackQ[c]).at]))
  PROVE  Lone(c)'
<1> DEFINE at == Head(stackQ[c]).at
           op == Delivered(log[at])
<1>0. "split" \notin Freedoms
  BY DEF AtLeisure
<1>1. /\ alive[c] /\ ParticipantID(c) = c /\ stackQ[c] # << >>
      /\ Len(log) = Len(global[c]) + 1
      /\ op \in Ops /\ op.participantID = c
      /\ op.state = IF log[at].op.state \in {"LOCAL", "SEND"} THEN "GLOBAL" ELSE log[at].op.state
      /\ \/ \E w \in Ops :
              /\ w.state \in {"LOCAL", "SEND"} /\ uiQ[c] = << >> /\ NoneTaken(c)
              /\ Story(c).known => Makes(w, Story(c).text, text[c])
              /\ local[c] = << >> /\ send[c] = <<w>> /\ batch[c] = << >> /\ OneEvent(c)
         \/ log[at].op.state \in {"UNDO", "REDO"}
  BY LoneEntry
<1>2. op.state = "GLOBAL"
  BY DEF Mine
<1>3. uiQ' = uiQ /\ (global' = global \/ \E i \in 1..Len(send[c]) : ConfirmedAs(c, i, op))
  BY ConfirmationTakes
<1>4. Serves(c) /\ UNCHANGED local /\ send'[c] = RemoveAt(send[c], 1)
  BY <1>0, ConfirmationIsFirst
<1>5. /\ UNCHANGED <<log, text, undo, redo, batch, alive>>
      /\ stackQ' = [stackQ EXCEPT ![c] = Tail(stackQ[c])]
  BY DEF AddNewOperation
<1>6. /\ TypeOK /\ global[c] \in Seq(Ops) /\ Signed(c) /\ Len(global[c]) \in Nat
  BY LoneRead
<1> HIDE DEF op
<1>7. PICK w \in Ops :
        /\ w.state \in {"LOCAL", "SEND"} /\ uiQ[c] = << >> /\ NoneTaken(c)
        /\ Story(c).known => Makes(w, Story(c).text, text[c])
        /\ local[c] = << >> /\ send[c] = <<w>> /\ batch[c] = << >> /\ OneEvent(c)
  BY <1>1, <1>2
<1>8. PICK i \in 1..Len(send[c]) : ConfirmedAs(c, i, op)
  <2>1. PICK moved : global'[c] = Append(global[c], moved)
    BY <1>4 DEF Serves
  <2>2. Len(global'[c]) = Len(global[c]) + 1
    BY <1>6, <2>1, Appended
  <2>3. global' # global
    BY <1>6, <2>2
  <2> QED  BY <1>3, <2>3
<1>9. /\ i = 1 /\ send[c][1] = w /\ Marked(send[c], c, {"SEND"}) /\ i \in 1..Len(send[c])
  <2>1. Len(send[c]) = 1 /\ send[c][1] = w
    BY <1>7, OneIsSome
  <2> QED  BY <1>6, <1>8, <2>1 DEF Signed
<1> DEFINE moved == [w EXCEPT !.globalID = op.globalID, !.state = op.state]
<1>10. /\ moved \in Ops /\ moved.state = "GLOBAL" /\ moved.range = w.range
       /\ moved.originalString = w.originalString /\ moved.replaceString = w.replaceString
       /\ moved.participantID = w.participantID
  <2>1. op.globalID \in Nat
    BY <1>1 DEF Ops, Operations
  <2> QED  BY <1>2, <2>1 DEF Ops, Operations, States
<1>11. global'[c] = Append(global[c], moved)
  BY <1>6, <1>8, <1>9 DEF TypeOK, ConfirmedAs
<1> HIDE DEF moved
<1>12. moved.participantID = c
  BY <1>9, <1>10 DEF Marked
<1>13. NoneMade(c)' /\ NoneTaken(c)'
  <2>1. send'[c] = << >>
    <3>1. RemoveAt(<<w>>, 1) = << >>
      BY DEF RemoveAt
    <3> QED  BY <1>4, <1>7, <3>1
  <2> QED  BY <1>4, <1>5, <1>7, <2>1 DEF NoneMade, NoneTaken
<1>14. stackQ'[c] = << >>
  <2>1. PICK block : stackQ[c] = <<block>>
    BY <1>1, <1>7 DEF OneEvent
  <2>2. Tail(<<block>>) = << >>
    OBVIOUS
  <2> QED  BY <1>5, <1>6, <2>1, <2>2 DEF TypeOK
<1>15. Story(c).known => Leads(moved, Story(c), text[c])
  BY <1>7, <1>10 DEF Leads, Makes
<1>16. uiQ'[c] = << >> /\ text'[c] = text[c]
  BY <1>3, <1>5, <1>7
<1>17. /\ alive[c] /\ UNCHANGED log /\ Len(log) = Len(global[c]) + 1 /\ global[c] \in Seq(Ops)
       /\ moved \in Ops /\ moved.state \in {"GLOBAL", "UNDO", "REDO"}
  BY <1>1, <1>5, <1>6, <1>10
<1> QED
  BY <1>11, <1>12, <1>13, <1>14, <1>15, <1>16, <1>17, ComesToRest

\* An undo or a redo comes back, and is placed like an operation of others.
LEMMA ForeignLone ==
  ASSUME AtLeisure, SessionInv, NEW c \in Clients, Lone(c), AddNewOperation(c),
         ~Mine(c, Delivered(log[Head(stackQ[c]).at])),
         AddNewGlobalOperation(c, Delivered(log[Head(stackQ[c]).at]))
  PROVE  Lone(c)'
<1> DEFINE at == Head(stackQ[c]).at
           op == Delivered(log[at])
           w == log[at].op
           placed == [op EXCEPT !.range = RangeOnGlobal(global[c], op)]
<1>0. "split" \notin Freedoms
  BY DEF AtLeisure
<1>1. /\ alive[c] /\ ParticipantID(c) = c /\ stackQ[c] # << >>
      /\ at = Len(log) /\ Len(log) = Len(global[c]) + 1
      /\ op \in Ops /\ op.participantID = c
      /\ op.range = w.range /\ op.originalString = w.originalString
      /\ op.replaceString = w.replaceString
      /\ op.state = IF w.state \in {"LOCAL", "SEND"} THEN "GLOBAL" ELSE w.state
      /\ \/ \E v \in Ops : send[c] = <<v>> /\ batch[c] = << >>
         \/ /\ uiQ[c] = << >> /\ NoneMade(c) /\ NoneTaken(c) /\ OneEvent(c)
            /\ w.state \in {"UNDO", "REDO"}
            /\ Returns(w, Story(c), text[c])
  BY LoneEntry
<1>2. /\ TypeOK /\ Prefix(c) /\ global[c] \in Seq(Ops) /\ Len(global[c]) \in Nat
      /\ Len(log) \in Nat /\ Own(c)
  BY LoneRead DEF Lone
<1>3. op.state # "GLOBAL"
  BY <1>1 DEF Mine
<1>4. ASSUME NEW v \in Ops, send[c] = <<v>>, batch[c] = << >>
      PROVE  FALSE
  <2>1. /\ Matched(c)
        /\ Len(<<v>>) = 1 /\ 1 \in 1..1
    BY OneIsSome DEF SessionInv, Session
  <2>2. timer[c] # "sent"
    BY <1>4, HandlerHolds
  <2>3. Awaiting(c) = <<v>>
    BY <1>4, <2>2 DEF Awaiting
  <2>4. PICK f : f \in [1..Len(<<v>>) -> Expected(c)]
    BY <2>1, <2>3 DEF Matched, Matching
  <2>5. f[1] \in Expected(c)
    BY <2>1, <2>4
  <2>6. f[1] \in (Len(global[c]) + 1)..Len(log) /\ Keystroke(log[f[1]], c)
    BY <2>5 DEF Expected
  <2>7. f[1] = Len(log)
    BY <1>1, <1>2, <2>6
  <2>8. w.state = "LOCAL"
    BY <1>1, <2>6, <2>7 DEF Keystroke
  <2> QED  BY <1>1, <1>3, <2>8
<1>5. /\ uiQ[c] = << >> /\ NoneMade(c) /\ NoneTaken(c) /\ OneEvent(c)
      /\ w.state \in {"UNDO", "REDO"} /\ op.state = w.state
      /\ Returns(w, Story(c), text[c])
  BY <1>1, <1>4
<1>6. /\ UNCHANGED <<log, text, undo, redo, batch, alive>>
      /\ stackQ' = [stackQ EXCEPT ![c] = Tail(stackQ[c])]
  BY DEF AddNewOperation
<1>7. /\ global' = [global EXCEPT ![c] = Append(global[c], placed)]
      /\ \E shown :
           /\ shown = [placed EXCEPT !.range =
                         RangeOnScreen(@, op.participantID, send[c] \o local[c])]
           /\ send'   = [send EXCEPT ![c] = UpdateStackWithOperation(send[c], shown)]
           /\ local'  = [local EXCEPT ![c] = UpdateStackWithOperation(local[c], shown)]
           /\ uiQ'    = [uiQ EXCEPT ![c] = Append(uiQ[c], shown)]
  BY DEF AddNewGlobalOperation
<1>8. placed = op
  <2>1. \A k \in 1..Len(global[c]) : global[c][k].participantID = op.participantID
    <3> TAKE k \in 1..Len(global[c])
    <3>1. Identity(global[c][k]) = Identity(log[k].op)
      BY <1>2 DEF Prefix
    <3>2. k \in 1..Len(log)
      BY <1>1, <1>2
    <3>3. log[k].op.participantID = c
      BY <1>2, <3>2 DEF Own
    <3> QED  BY <1>1, <3>1, <3>3 DEF Identity
  <2> HIDE DEF op
  <2>2. RangeOnGlobal(global[c], op) = op.range
    BY <1>1, <1>2, <2>1, OwnStays
  <2> QED  BY <1>1, <2>2 DEF Ops, Operations
<1> HIDE DEF op, placed
<1>9. PICK shown :
        /\ shown = [op EXCEPT !.range =
                      RangeOnScreen(op.range, op.participantID, send[c] \o local[c])]
        /\ send'   = [send EXCEPT ![c] = UpdateStackWithOperation(send[c], shown)]
        /\ local'  = [local EXCEPT ![c] = UpdateStackWithOperation(local[c], shown)]
        /\ uiQ'    = [uiQ EXCEPT ![c] = Append(uiQ[c], shown)]
  BY <1>7, <1>8
<1>10. send[c] = << >> /\ local[c] = << >> /\ << >> \o << >> = << >>
  BY <1>5 DEF NoneMade
<1>11. shown = op
  <2>1. op.range \in Ranges
    BY <1>1 DEF Ops, Operations
  <2>2. RangeOnScreen(op.range, op.participantID, send[c] \o local[c]) = op.range
    BY <1>10, <2>1, NothingWaits
  <2> QED  BY <1>1, <1>9, <2>2 DEF Ops, Operations
<1>12. UpdateStackWithOperation(<< >>, op) = << >>
  BY DEF UpdateStackWithOperation
<1>13. /\ send'[c] = << >> /\ local'[c] = << >> /\ uiQ'[c] = <<op>>
       /\ global'[c] = Append(global[c], op)
  <2>1. Append(<< >>, op) = <<op>>
    OBVIOUS
  <2> QED  BY <1>2, <1>5, <1>7, <1>8, <1>9, <1>10, <1>11, <1>12, <2>1 DEF TypeOK
<1>14. stackQ'[c] = << >>
  <2>1. PICK block : stackQ[c] = <<block>>
    BY <1>1, <1>5 DEF OneEvent
  <2>2. Tail(<<block>>) = << >>
    OBVIOUS
  <2> QED  BY <1>2, <1>6, <2>1, <2>2 DEF TypeOK
<1>15. NoneMade(c)' /\ NoneTaken(c)'
  BY <1>5, <1>6, <1>13 DEF NoneMade, NoneTaken
<1> HIDE DEF w
<1>16. PICK next : Story(c).known => text[c] = Story(c).text /\ Leads(w, Story(c), next)
  BY <1>5 DEF Returns
<1>17. Story(c).known => Leads(op, Story(c), next)
  BY <1>1, <1>5, <1>16 DEF Leads, Makes
<1>18. Story(c).known => text'[c] = Story(c).text
  BY <1>6, <1>16
<1>19. /\ alive[c] /\ UNCHANGED log /\ Len(log) = Len(global[c]) + 1
       /\ op.state \in {"GLOBAL", "UNDO", "REDO"}
  BY <1>1, <1>5, <1>6
<1> QED
  BY <1>1, <1>2, <1>13, <1>14, <1>15, <1>17, <1>18, <1>19, ComesToRest

\* One operation of addNewChangeSet's block.
LEMMA AddNewOperationLone ==
  ASSUME AtLeisure, SessionInv, NEW c \in Clients, Lone(c), AddNewOperation(c)
  PROVE  Lone(c)'
BY ConfirmationLone, ForeignLone DEF AddNewOperation

\* The empty document is at rest,
LEMMA LoneInitially == Init => LoneInv
<1> SUFFICES ASSUME Init  PROVE LoneInv
  OBVIOUS
<1>1. SessionInv
  BY SessionInitially
<1>2. ASSUME NEW c \in Clients
      PROVE  Lone(c)
  <2>1. /\ log = << >> /\ global[c] = << >> /\ text[c] = << >> /\ uiQ[c] = << >>
        /\ local[c] = << >> /\ send[c] = << >> /\ batch[c] = << >> /\ stackQ[c] = << >>
        /\ undo[c] = << >> /\ redo[c] = << >>
    BY DEF Init
  <2>2. Own(c)
    BY <2>1 DEF Own
  <2>3. Retraceable(global[c], c) /\ Story(c).text = << >>
    BY <2>1, NothingToRetrace DEF Story
  <2>4. AtRest(c)
    BY <2>1, <2>3 DEF AtRest, NoneMade, NoneTaken
  <2> QED  BY <2>2, <2>3, <2>4 DEF Lone, Goes
<1> QED
  BY <1>1, <1>2 DEF LoneInv

\* ... every step keeps the invariant,
LEMMA NextLone ==
  ASSUME Alone, AtLeisure, LoneInv, [Next]_vars
  PROVE  LoneInv'
<1>1. SessionInv'
  <2>1. "early" \notin Freedoms /\ "split" \notin Freedoms
    BY DEF AtLeisure
  <2> QED  BY <2>1, NextInSession DEF LoneInv
<1>2. ASSUME NEW c \in Clients
      PROVE  Lone(c)'
  <2>1. SessionInv /\ Lone(c)
    BY DEF LoneInv
  <2>2. CASE User(c)
    <3>1. CASE CreateSess(c) \/ JoinSess(c)
      <4>1. UNCHANGED <<log, text, local, send, global, undo, redo, stackQ, uiQ, batch,
                        timer, alive>>
        BY <3>1 DEF CreateSess, JoinSess, stacks, threads
      <4> QED  BY <2>1, <4>1, LoneAside
    <3> QED  BY <2>1, <2>2, <3>1, TypeLone, RetraceLone DEF User
  <2>3. CASE Timer(c)
    BY <2>1, <2>3, GetLocalChangeSetLone, BroadcastLone, RefuseLone, PutIntoSendStackLone,
       SendUndoAndRedoLone DEF Timer
  <2>4. CASE ReceivedEvent(c)
    BY <2>1, <2>4, ReceivedEventLone
  <2>5. CASE StackQueue(c)
    BY <2>1, <2>5, AddNewOperationLone, AddBackLone DEF StackQueue
  <2>6. CASE UpdateInputView(c)
    BY <2>1, <2>6, UpdateInputViewLone
  <2>7. CASE UNCHANGED vars
    <3>1. UNCHANGED <<log, text, local, send, global, undo, redo, stackQ, uiQ, batch, timer, alive>>
      BY <2>7 DEF vars, stacks, threads
    <3> QED  BY <2>1, <3>1, LoneAside
  <2>8. UNCHANGED vars
          \/ User(c) \/ Timer(c) \/ ReceivedEvent(c) \/ StackQueue(c) \/ UpdateInputView(c)
    <3>1. CASE UNCHANGED vars
      BY <3>1
    <3>2. CASE Next
      <4>1. PICK d \in Clients :
              User(d) \/ Timer(d) \/ ReceivedEvent(d) \/ StackQueue(d) \/ UpdateInputView(d)
        BY <3>2 DEF Next
      <4>2. d = c
        BY DEF Alone
      <4> QED  BY <4>1, <4>2
    <3> QED  BY <3>1, <3>2
  <2> QED  BY <2>2, <2>3, <2>4, <2>5, <2>6, <2>7, <2>8
<1> QED
  BY <1>1, <1>2 DEF LoneInv

\* ... and a device that is settled is at rest.
LEMMA HistoryFollows ==
  ASSUME LoneInv
  PROVE  UndoRedoHistory
<1> SUFFICES ASSUME NEW c \in Clients, Settled(c)
             PROVE  Story(c).known => text[c] = Story(c).text
  BY DEF UndoRedoHistory, Story
<1>1. /\ Carrying(c) /\ local[c] \in Seq(Ops) /\ send[c] \in Seq(Ops)
      /\ undo[c] \in Seq(Ops) /\ redo[c] \in Seq(Ops)
      /\ SessionInv /\ Lone(c)
  BY LoneRead DEF LoneInv
<1>2. /\ alive[c] /\ uiQ[c] = << >> /\ timer[c] = "idle" /\ stackQ[c] = << >>
      /\ local[c] \o undo[c] \o redo[c] \o send[c] = << >> /\ received[c] = Len(log)
  BY DEF Settled, Idle
<1>3. local[c] = << >> /\ undo[c] = << >> /\ redo[c] = << >> /\ send[c] = << >>
  <2>1. /\ local[c] \o undo[c] \in Seq(Ops) /\ (local[c] \o undo[c]) \o redo[c] \in Seq(Ops)
    BY <1>1, ConcatProperties
  <2>2. (local[c] \o undo[c]) \o redo[c] = << >> /\ send[c] = << >>
    BY <1>1, <1>2, <2>1, BothEmpty
  <2>3. local[c] \o undo[c] = << >> /\ redo[c] = << >>
    BY <1>1, <2>1, <2>2, BothEmpty
  <2> QED  BY <1>1, <2>2, <2>3, BothEmpty
<1>4. batch[c] = << >>
  BY <1>1, <1>2 DEF Carrying
<1>5. Len(global[c]) = Len(log) /\ Len(log) \in Nat
  BY <1>1, <1>2, WorkedThrough
<1>6. \A w : << >> # <<w>>
  OBVIOUS
<1>7. \A w : ~KeyHome(c, w) /\ ~KeySent(c, w)
  BY <1>2, <1>3, <1>4, <1>5, <1>6 DEF KeyHome, KeySent
<1>8. \A w : ~BackHome(c, w) /\ ~BackSent(c, w)
  <2>1. undo[c] \o redo[c] = << >>
    BY <1>3
  <2> QED  BY <1>2, <1>5, <1>6, <2>1 DEF BackHome, BackSent
<1>9. AtRest(c)
  BY <1>1, <1>2, <1>7, <1>8 DEF Lone, Goes, Typing, Retracing
<1> QED
  BY <1>2, <1>6, <1>9 DEF AtRest

\* One user, alone in a session, who presses a key or a button when the device has
\* done with the one before; any broadcast may be refused. The device is then at rest,
\* or has one keystroke, one undo or one redo on its way, and the scans of undoAct and
\* redoAct find in the global stack what takes the text back and forth.
THEOREM LoneInvariant == Alone /\ AtLeisure => (Spec => []LoneInv)
<1> SUFFICES ASSUME Alone, AtLeisure  PROVE Spec => []LoneInv
  OBVIOUS
<1>1. LoneInv /\ [Next]_vars => LoneInv'
  BY NextLone
<1> QED
  BY <1>1, LoneInitially, PTL DEF Spec

\* The inverses that undoAct and redoAct broadcast amount to an undo history: an undo
\* brings back the text from before the newest edit still in force, a redo the text
\* from before its undo, along any alternation of the two and of keystrokes.
THEOREM LoneUserRetraces == Alone /\ AtLeisure => (Spec => []UndoRedoHistory)
<1> SUFFICES ASSUME Alone, AtLeisure  PROVE Spec => []UndoRedoHistory
  OBVIOUS
<1>1. LoneInv => UndoRedoHistory
  BY HistoryFollows
<1> QED
  BY <1>1, LoneInvariant, PTL
=============================================================================
