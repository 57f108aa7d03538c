------------------------- MODULE StackManagerProofs -------------------------
(***************************************************************************)
(* Facts about the index arithmetic of Operation, for every index and      *)
(* every operation that cuts at most one character, and what the loops of  *)
(* xxxDocStackManager return, for stacks of every length. The loops are    *)
(* recursive functions of StackManager; that such a function exists, and   *)
(* that a step's promise holds after every step, are shown by looking at   *)
(* the least step at which it would fail.                                  *)
(***************************************************************************)
EXTENDS StackManager, SequenceTheorems, FiniteSetTheorems, WellFoundedInduction, TLAPS

-----------------------------------------------------------------------------
(* Indexes and ranges.                                                     *)

\* What the arithmetic needs to know of an operation. The range need not have
\* the length of the original string: updates stretch and shrink it.
WellFormed(op) ==
  /\ op.range \in Ranges
  /\ Len(op.originalString) \in Nat /\ Len(op.originalString) <= 1
  /\ Len(op.replaceString) \in Nat

\* An updated index is a natural number, although updateIndex may subtract: an
\* index behind the range of op is at least 1, and op cuts at most 1.
LEMMA IndexIsNat ==
  ASSUME NEW op, WellFormed(op), NEW index \in Nat, NEW author
  PROVE  /\ UpdateIndex(index, op, author) \in Nat
         /\ UpdateIndexV2(index, op, author) \in Nat
<1> DEFINE location == op.range.location
           length   == op.range.length
           cut      == Len(op.originalString)
           put      == Len(op.replaceString)
<1>1. location \in Nat /\ length \in Nat /\ cut \in Nat /\ cut <= 1 /\ put \in Nat
  BY DEF WellFormed, Ranges
<1>2. ASSUME NEW landing \in Nat
      PROVE  Carried(index, op, author, landing) \in Nat
  <2>1. CASE op.participantID = author \/ location > index
    BY <2>1 DEF Carried
  <2>2. CASE ~(op.participantID = author \/ location > index) /\ location + length < index
    <3>1. Carried(index, op, author, landing) = index + (put - cut)
      BY <2>2 DEF Carried, Growth
    <3>2. index + (put - cut) \in Nat
      <4> HIDE DEF location, length, cut, put
      <4> QED  BY <1>1, <2>2
    <3> QED  BY <3>1, <3>2
  <2>3. CASE ~(op.participantID = author \/ location > index) /\ ~(location + length < index)
    BY <2>3 DEF Carried
  <2> QED  BY <2>1, <2>2, <2>3
<1>3. location + put \in Nat
  BY <1>1
<1> QED
  BY <1>1, <1>2, <1>3 DEF UpdateIndex, UpdateIndexV2

\* Neither version of updateIndex carries one index past another.
LEMMA IndexOrderKept ==
  ASSUME NEW op, WellFormed(op), NEW author,
         NEW i \in Nat, NEW j \in Nat, i <= j
  PROVE  /\ UpdateIndex(i, op, author) <= UpdateIndex(j, op, author)
         /\ UpdateIndexV2(i, op, author) <= UpdateIndexV2(j, op, author)
<1> DEFINE location == op.range.location
           length   == op.range.length
           cut      == Len(op.originalString)
           put      == Len(op.replaceString)
<1>1. location \in Nat /\ length \in Nat /\ cut \in Nat /\ cut <= 1 /\ put \in Nat
  BY DEF WellFormed, Ranges
<1>2. ASSUME NEW landing \in {location, location + put}
      PROVE  Carried(i, op, author, landing) <= Carried(j, op, author, landing)
  <2>1. CASE op.participantID = author
    BY <2>1 DEF Carried
  <2>2. CASE op.participantID # author
    <3> DEFINE Moved(k) == IF location > k
                             THEN k
                             ELSE IF location + length < k THEN k + (put - cut) ELSE landing
    <3>1. Carried(i, op, author, landing) = Moved(i) /\ Carried(j, op, author, landing) = Moved(j)
      BY <2>2 DEF Carried, Growth
    <3>2. Moved(i) <= Moved(j)
      <4> HIDE DEF location, length, cut, put
      <4> QED  BY <1>1
    <3> QED  BY <3>1, <3>2
  <2> QED  BY <2>1, <2>2
<1> QED
  BY <1>2 DEF UpdateIndex, UpdateIndexV2

\* The callers rebuild a range as start and end - start; with both facts above the
\* result is a range again, and the unsigned length cannot wrap.
LEMMA UpdatedRangeIsRange ==
  ASSUME NEW op, WellFormed(op), NEW range \in Ranges, NEW author
  PROVE  /\ UpdateRange(range, op, author) \in Ranges
         /\ UpdateRangeV2(range, op, author) \in Ranges
<1> DEFINE start == range.location
           end   == range.location + range.length
<1>1. start \in Nat /\ end \in Nat /\ start <= end
  BY DEF Ranges
<1>2. /\ UpdateIndex(start, op, author) \in Nat
      /\ UpdateIndex(end, op, author) \in Nat
      /\ UpdateIndexV2(start, op, author) \in Nat
      /\ UpdateIndexV2(end, op, author) \in Nat
  BY <1>1, IndexIsNat
<1>3. /\ UpdateIndex(start, op, author) <= UpdateIndex(end, op, author)
      /\ UpdateIndexV2(start, op, author) <= UpdateIndexV2(end, op, author)
  BY <1>1, IndexOrderKept
<1> QED
  BY <1>2, <1>3 DEF UpdateRange, UpdateRangeV2, Between, End, Ranges

\* The operations of the stacks are such operations, and a new range changes
\* nothing else of them.
LEMMA OperationsAreWellFormed ==
  ASSUME NEW P, NEW G, NEW op \in Operations(P, G)
  PROVE  /\ WellFormed(op)
         /\ \A r \in Ranges :
              LET moved == [op EXCEPT !.range = r]
              IN  moved \in Operations(P, G) /\ moved.range = r
<1>1. \A s \in Strings(G) : Len(s) \in Nat /\ Len(s) <= 1
  BY DEF Strings
<1>2. op.originalString \in Strings(G) /\ op.replaceString \in Strings(G)
  BY DEF Operations
<1> HIDE DEF Ranges
<1>3. op.range \in Ranges
  BY DEF Operations
<1>4. ASSUME NEW r \in Ranges
      PROVE  [op EXCEPT !.range = r] \in Operations(P, G) /\ [op EXCEPT !.range = r].range = r
  BY <1>4 DEF Operations
<1> QED
  BY <1>1, <1>2, <1>3, <1>4 DEF WellFormed

-----------------------------------------------------------------------------
(* Loops and stacks.                                                       *)

\* A set of natural numbers that is not empty has a least element.
LEMMA LeastElement ==
  ASSUME NEW T \in SUBSET Nat, T # {}
  PROVE  \E m \in T : \A k \in T : m <= k
<1> DEFINE R == OpToRel(<, Nat)
<1>1. R = {p \in Nat \X Nat : p[1] < p[2]}
  BY DEF OpToRel
<1>2. IsWellFoundedOn(R, Nat)
  BY NatLessThanWellFounded
<1> HIDE DEF R
<1>3. PICK m \in T : \A k \in T : ~(<<k, m>> \in R)
  BY <1>2, WFMin
<1>4. ASSUME NEW k \in T  PROVE m <= k
  <2>1. k \in Nat /\ m \in Nat /\ ~(<<k, m>> \in R)
    BY <1>3
  <2>2. ~(k < m)
    BY <1>1, <2>1
  <2> QED  BY <2>1, <2>2
<1> QED
  BY <1>4

\* What holds before the first step of a loop, and after a step when it holds
\* before it, holds after every step.
LEMMA LoopKeeps ==
  ASSUME NEW n \in Nat, NEW S, NEW f,
         f[0] \in S,
         \A k \in 1..n : f[k - 1] \in S => f[k] \in S
  PROVE  \A k \in 0..n : f[k] \in S
<1> DEFINE T == {k \in 0..n : f[k] \notin S}
<1> SUFFICES ASSUME T # {}  PROVE FALSE
  OBVIOUS
<1>1. PICK m \in T : \A k \in T : m <= k
  <2>1. T \in SUBSET Nat
    OBVIOUS
  <2> HIDE DEF T
  <2> QED  BY <2>1, LeastElement
<1>2. m \in 1..n
  OBVIOUS
<1>3. m - 1 \in 0..n /\ m - 1 \notin T
  BY <1>1, <1>2
<1> QED
  BY <1>2, <1>3

\* The same of a set of numbers of steps.
LEMMA LoopReaches ==
  ASSUME NEW n \in Nat, NEW T, 0 \in T, \A k \in 1..n : k - 1 \in T => k \in T
  PROVE  \A k \in 0..n : k \in T
<1> DEFINE f == [k \in 0..n |-> k]
<1>1. f[0] \in T /\ \A k \in 1..n : f[k - 1] \in T => f[k] \in T
  <2>1. \A k \in 1..n : k \in 0..n /\ k - 1 \in 0..n
    OBVIOUS
  <2> QED  BY <2>1
<1>2. \A k \in 0..n : f[k] = k
  OBVIOUS
<1> HIDE DEF f
<1>3. \A k \in 0..n : f[k] \in T
  BY <1>1, LoopKeeps
<1> QED
  BY <1>2, <1>3

\* A loop of n steps over S: f[k] is the state after the k-th step.
IsRun(f, n, S, start, step) ==
  /\ f \in [0..n -> S]
  /\ f[0] = start
  /\ \A k \in 1..n : f[k] = step[k][f[k - 1]]

\* A loop that starts in S and whose every step leads from S to S has a run.
LEMMA LoopRuns ==
  ASSUME NEW n \in Nat, NEW S, NEW start \in S, NEW step \in [1..n -> [S -> S]]
  PROVE  \E f : IsRun(f, n, S, start, step)
<1> DEFINE Run(f, m) == IsRun(f, m, S, start, step)
           T == {m \in 0..n : ~ \E f : Run(f, m)}
<1> SUFFICES ASSUME T # {}  PROVE FALSE
  <2>1. n \notin T => \E f : Run(f, n)
    OBVIOUS
  <2> QED  BY <2>1
<1>1. PICK m \in T : \A k \in T : m <= k
  <2>1. T \in SUBSET Nat
    OBVIOUS
  <2> HIDE DEF T
  <2> QED  BY <2>1, LeastElement
<1>2. m # 0
  <2>1. Run([k \in 0..0 |-> start], 0)
    BY DEF IsRun
  <2> QED  BY <2>1, <1>1
<1>3. m \in 1..n
  BY <1>2
<1>4. PICK f : Run(f, m - 1)
  <2>1. m - 1 \in 0..n /\ ~(m <= m - 1)
    BY <1>3
  <2>2. m - 1 \notin T
    <3> HIDE DEF T
    <3> QED  BY <1>1, <2>1
  <2> QED  BY <2>1, <2>2
<1> DEFINE g == [k \in 0..m |-> IF k = m THEN step[m][f[m - 1]] ELSE f[k]]
<1>5. f[m - 1] \in S /\ step[m][f[m - 1]] \in S
  BY <1>3, <1>4 DEF IsRun
<1>6. g \in [0..m -> S]
  BY <1>3, <1>4, <1>5 DEF IsRun
<1>7. g[0] = start
  BY <1>3, <1>4 DEF IsRun
<1>8. ASSUME NEW k \in 1..m  PROVE g[k] = step[k][g[k - 1]]
  <2>1. CASE k = m
    BY <2>1, <1>3
  <2>2. CASE k # m
    BY <2>2, <1>3, <1>4 DEF IsRun
  <2> QED  BY <2>1, <2>2
<1>9. Run(g, m)
  <2> HIDE DEF g
  <2> QED  BY <1>6, <1>7, <1>8 DEF IsRun
<1> QED
  BY <1>1, <1>9

-----------------------------------------------------------------------------
\* The second and third loop of addNewGlobalOperation, step by step: every step
\* has a range.
LEMMA RangeOnScreenRuns ==
  ASSUME NEW P, NEW G, NEW range \in Ranges, NEW author,
         NEW waiting \in Seq(Operations(P, G))
  PROVE  \E f : /\ f[0] = range
                /\ \A k \in 1..Len(waiting) : f[k] = UpdateRangeV2(f[k - 1], waiting[k], author)
                /\ \A k \in 0..Len(waiting) : f[k] \in Ranges
                /\ RangeOnScreen(range, author, waiting) = f[Len(waiting)]
<1> DEFINE n == Len(waiting)
           Moved(r, k) == UpdateRangeV2(r, waiting[k], author)
           Carries(f) == f = [k \in 0..n |-> IF k = 0 THEN range ELSE Moved(f[k - 1], k)]
           step == [k \in 1..n |-> [r \in Ranges |-> Moved(r, k)]]
           carried == CHOOSE f : Carries(f)
<1>1. \A r \in Ranges : \A k \in 1..n : Moved(r, k) \in Ranges
  BY UpdatedRangeIsRange, OperationsAreWellFormed
<1>2. RangeOnScreen(range, author, waiting) = carried[n] /\ n \in Nat /\ range \in Ranges
  BY DEF RangeOnScreen
<1> HIDE DEF Moved, n
<1>3. PICK f : IsRun(f, n, Ranges, range, step)
  <2>1. step \in [1..n -> [Ranges -> Ranges]]
    BY <1>1
  <2> HIDE DEF step
  <2> QED  BY <1>2, <2>1, LoopRuns
<1>4. Carries(f)
  <2>1. ASSUME NEW k \in 0..n, k # 0
        PROVE  f[k] = Moved(f[k - 1], k)
    <3>1. k \in 1..n /\ k - 1 \in 0..n
      BY <1>2, <2>1
    <3>2. f[k - 1] \in Ranges /\ f[k] = step[k][f[k - 1]]
      BY <1>3, <3>1 DEF IsRun
    <3> QED  BY <3>1, <3>2
  <2> QED  BY <1>3, <2>1 DEF IsRun
<1>5. Carries(carried)
  <2> HIDE DEF Carries
  <2> QED  BY <1>4
<1> HIDE DEF carried
<1>6. carried[0] = range /\ \A k \in 1..n : carried[k] = Moved(carried[k - 1], k)
  BY <1>2, <1>5
<1>7. \A k \in 1..n : carried[k - 1] \in Ranges => carried[k] \in Ranges
  BY <1>1, <1>6
<1>8. \A k \in 0..n : carried[k] \in Ranges
  BY <1>2, <1>6, <1>7, LoopKeeps
<1> QED
  BY <1>2, <1>6, <1>8 DEF Moved, n

LEMMA RangeOnScreenIsRange ==
  ASSUME NEW P, NEW G, NEW range \in Ranges, NEW author,
         NEW waiting \in Seq(Operations(P, G))
  PROVE  RangeOnScreen(range, author, waiting) \in Ranges
<1>1. Len(waiting) \in 0..Len(waiting)
  BY LenProperties
<1> QED
  BY <1>1, RangeOnScreenRuns

\* updateOperation:ThroughGlobalStackFromIndex: returns an operation that differs
\* from the one in the stack by its range alone.
LEMMA UpdatedOperationIsOperation ==
  ASSUME NEW P, NEW G, NEW stack \in Seq(Operations(P, G)), NEW i \in 1..Len(stack)
  PROVE  /\ UpdateOperationThroughGlobalStack(stack, i) \in Operations(P, G)
         /\ UpdateOperationThroughGlobalStack(stack, i).participantID = stack[i].participantID
<1> DEFINE n == Len(stack) - i
           Moved(r, k) == UpdateRangeV2(r, stack[i + k], stack[i].participantID)
           Carries(f) == f = [k \in 0..n |-> IF k = 0 THEN stack[i].range ELSE Moved(f[k - 1], k)]
           step == [k \in 1..n |-> [r \in Ranges |-> Moved(r, k)]]
           carried == CHOOSE f : Carries(f)
<1>0. /\ stack[i] \in Operations(P, G)
      /\ stack[i].range \in Ranges
      /\ \A k \in 1..n : stack[i + k] \in Operations(P, G)
  BY OperationsAreWellFormed DEF WellFormed
<1>1. \A r \in Ranges : \A k \in 1..n : Moved(r, k) \in Ranges
  BY <1>0, UpdatedRangeIsRange, OperationsAreWellFormed
<1>2. UpdateOperationThroughGlobalStack(stack, i) = [stack[i] EXCEPT !.range = carried[n]] /\ n \in Nat /\ stack[i].range \in Ranges
  BY <1>0 DEF UpdateOperationThroughGlobalStack
<1> HIDE DEF Moved, n
<1>3. PICK f : IsRun(f, n, Ranges, stack[i].range, step)
  <2>1. step \in [1..n -> [Ranges -> Ranges]]
    BY <1>1
  <2> HIDE DEF step
  <2> QED  BY <1>2, <2>1, LoopRuns
<1>4. Carries(f)
  <2>1. ASSUME NEW k \in 0..n, k # 0
        PROVE  f[k] = Moved(f[k - 1], k)
    <3>1. k \in 1..n /\ k - 1 \in 0..n
      BY <1>2, <2>1
    <3>2. f[k - 1] \in Ranges /\ f[k] = step[k][f[k - 1]]
      BY <1>3, <3>1 DEF IsRun
    <3> QED  BY <3>1, <3>2
  <2> QED  BY <1>3, <2>1 DEF IsRun
<1>5. Carries(carried)
  <2> HIDE DEF Carries
  <2> QED  BY <1>4
<1> HIDE DEF carried
<1>n. n \in Nat
  BY <1>2
<1>6. carried[0] = stack[i].range /\ \A k \in 1..n : carried[k] = Moved(carried[k - 1], k)
  BY <1>n, <1>5
<1>7. \A k \in 1..n : carried[k - 1] \in Ranges => carried[k] \in Ranges
  BY <1>1, <1>6
<1>8. \A k \in 0..n : carried[k] \in Ranges
  BY <1>0, <1>n, <1>6, <1>7, LoopKeeps
<1>9. carried[n] \in Ranges
  BY <1>n, <1>8
<1>10. [stack[i] EXCEPT !.range = carried[n]].participantID = stack[i].participantID
  BY <1>0 DEF Operations
<1> QED
  BY <1>0, <1>2, <1>9, <1>10, OperationsAreWellFormed

\* The first loop of addNewGlobalOperation, step by step: every step has a range.
LEMMA RangeOnGlobalRuns ==
  ASSUME NEW P, NEW G, NEW stack \in Seq(Operations(P, G)), NEW op \in Operations(P, G)
  PROVE  \E f : /\ f[0] = op.range
                /\ \A k \in 1..Len(stack) :
                     f[k] = IF k \in Unseen(stack, op)
                              THEN UpdateRange(f[k - 1],
                                               UpdateOperationThroughGlobalStack(stack, k),
                                               op.participantID)
                              ELSE f[k - 1]
                /\ \A k \in 0..Len(stack) : f[k] \in Ranges
                /\ RangeOnGlobal(stack, op) = f[Len(stack)]
<1> DEFINE n == Len(stack)
           Moved(r, k) == IF k \in Unseen(stack, op)
                            THEN UpdateRange(r, UpdateOperationThroughGlobalStack(stack, k),
                                             op.participantID)
                            ELSE r
           Carries(f) == f = [k \in 0..n |-> IF k = 0 THEN op.range ELSE Moved(f[k - 1], k)]
           step == [k \in 1..n |-> [r \in Ranges |-> Moved(r, k)]]
           carried == CHOOSE f : Carries(f)
<1>1. \A r \in Ranges : \A k \in 1..n : Moved(r, k) \in Ranges
  BY UpdatedOperationIsOperation, UpdatedRangeIsRange, OperationsAreWellFormed
<1>2. RangeOnGlobal(stack, op) = carried[n] /\ n \in Nat /\ op.range \in Ranges
  BY OperationsAreWellFormed DEF RangeOnGlobal, WellFormed
<1> HIDE DEF Moved, n
<1>3. PICK f : IsRun(f, n, Ranges, op.range, step)
  <2>1. step \in [1..n -> [Ranges -> Ranges]]
    BY <1>1
  <2> HIDE DEF step
  <2> QED  BY <1>2, <2>1, LoopRuns
<1>4. Carries(f)
  <2>1. ASSUME NEW k \in 0..n, k # 0
        PROVE  f[k] = Moved(f[k - 1], k)
    <3>1. k \in 1..n /\ k - 1 \in 0..n
      BY <1>2, <2>1
    <3>2. f[k - 1] \in Ranges /\ f[k] = step[k][f[k - 1]]
      BY <1>3, <3>1 DEF IsRun
    <3> QED  BY <3>1, <3>2
  <2> QED  BY <1>3, <2>1 DEF IsRun
<1>5. Carries(carried)
  <2> HIDE DEF Carries
  <2> QED  BY <1>4
<1> HIDE DEF carried
<1>6. carried[0] = op.range /\ \A k \in 1..n : carried[k] = Moved(carried[k - 1], k)
  BY <1>2, <1>5
<1>7. \A k \in 1..n : carried[k - 1] \in Ranges => carried[k] \in Ranges
  BY <1>1, <1>6
<1>8. \A k \in 0..n : carried[k] \in Ranges
  BY <1>2, <1>6, <1>7, LoopKeeps
<1> QED
  BY <1>2, <1>6, <1>8 DEF Moved, n

LEMMA RangeOnGlobalIsRange ==
  ASSUME NEW P, NEW G, NEW stack \in Seq(Operations(P, G)), NEW op \in Operations(P, G)
  PROVE  RangeOnGlobal(stack, op) \in Ranges
<1>1. Len(stack) \in 0..Len(stack)
  BY LenProperties
<1> QED
  BY <1>1, RangeOnGlobalRuns

\* A range that cuts nothing is carried past any operation as one that cuts nothing.
EmptyRanges == {r \in Ranges : r.length = 0}

LEMMA EmptyCarried ==
  ASSUME NEW op, WellFormed(op), NEW range \in EmptyRanges, NEW author
  PROVE  /\ UpdateRange(range, op, author) \in EmptyRanges
         /\ UpdateRangeV2(range, op, author) \in EmptyRanges
<1>1. range \in Ranges /\ range.location \in Nat /\ End(range) = range.location
  BY DEF EmptyRanges, Ranges, End
<1>2. /\ UpdateIndex(range.location, op, author) \in Nat
      /\ UpdateIndexV2(range.location, op, author) \in Nat
  BY <1>1, IndexIsNat
<1>3. /\ UpdateRange(range, op, author)
           = [location |-> UpdateIndex(range.location, op, author), length |-> 0]
      /\ UpdateRangeV2(range, op, author)
           = [location |-> UpdateIndexV2(range.location, op, author), length |-> 0]
  <2>1. \A i \in Nat : Between(i, i) = [location |-> i, length |-> 0]
    BY DEF Between
  <2> QED  BY <1>1, <1>2, <2>1 DEF UpdateRange, UpdateRangeV2
<1> QED
  BY <1>2, <1>3 DEF EmptyRanges, Ranges

\* Placing an operation that cuts nothing, in the global stack and on the screen,
\* does not make it cut anything.
LEMMA EmptyOnGlobal ==
  ASSUME NEW P, NEW G, NEW stack \in Seq(Operations(P, G)), NEW op \in Operations(P, G),
         op.range \in EmptyRanges
  PROVE  RangeOnGlobal(stack, op) \in EmptyRanges
<1> DEFINE n == Len(stack)
<1>1. PICK f : /\ f[0] = op.range
               /\ \A k \in 1..n :
                    f[k] = IF k \in Unseen(stack, op)
                             THEN UpdateRange(f[k - 1],
                                              UpdateOperationThroughGlobalStack(stack, k),
                                              op.participantID)
                             ELSE f[k - 1]
               /\ RangeOnGlobal(stack, op) = f[n]
  BY RangeOnGlobalRuns
<1>2. \A k \in 1..n : WellFormed(UpdateOperationThroughGlobalStack(stack, k))
  BY UpdatedOperationIsOperation, OperationsAreWellFormed
<1>3. n \in Nat
  BY LenProperties
<1> HIDE DEF n
<1>4. \A k \in 1..n : f[k - 1] \in EmptyRanges => f[k] \in EmptyRanges
  BY <1>1, <1>2, EmptyCarried
<1>5. \A k \in 0..n : f[k] \in EmptyRanges
  BY <1>1, <1>3, <1>4, LoopKeeps
<1> QED
  BY <1>1, <1>3, <1>5

LEMMA EmptyOnScreen ==
  ASSUME NEW P, NEW G, NEW range \in Ranges, NEW author,
         NEW waiting \in Seq(Operations(P, G)), range \in EmptyRanges
  PROVE  RangeOnScreen(range, author, waiting) \in EmptyRanges
<1> DEFINE n == Len(waiting)
<1>1. PICK f : /\ f[0] = range
               /\ \A k \in 1..n : f[k] = UpdateRangeV2(f[k - 1], waiting[k], author)
               /\ RangeOnScreen(range, author, waiting) = f[n]
  BY RangeOnScreenRuns
<1>2. \A k \in 1..n : WellFormed(waiting[k])
  BY ElementOfSeq, OperationsAreWellFormed
<1>3. n \in Nat
  BY LenProperties
<1> HIDE DEF n
<1>4. \A k \in 1..n : f[k - 1] \in EmptyRanges => f[k] \in EmptyRanges
  BY <1>1, <1>2, EmptyCarried
<1>5. \A k \in 0..n : f[k] \in EmptyRanges
  BY <1>1, <1>3, <1>4, LoopKeeps
<1> QED
  BY <1>1, <1>3, <1>5

\* An operation puts at most one character, so updateIndex moves an index on by at most
\* one, and not at all past an operation of its own author.
LEMMA IndexGrows ==
  ASSUME NEW P, NEW G, NEW op \in Operations(P, G), NEW index \in Nat, NEW author
  PROVE  /\ UpdateIndex(index, op, author) <= index + 1
         /\ UpdateIndexV2(index, op, author) <= index + 1
         /\ op.participantID = author =>
              /\ UpdateIndex(index, op, author) = index
              /\ UpdateIndexV2(index, op, author) = index
<1> DEFINE location == op.range.location
           length   == op.range.length
           cut      == Len(op.originalString)
           put      == Len(op.replaceString)
<1>1. /\ location \in Nat /\ length \in Nat /\ cut \in Nat /\ put \in Nat /\ put <= 1
  BY DEF Operations, Ranges, Strings
<1>2. ASSUME NEW landing \in Nat, location <= index => landing <= index + 1
      PROVE  Carried(index, op, author, landing) <= index + 1
  <2>1. CASE op.participantID = author \/ location > index
    BY <2>1 DEF Carried
  <2>2. CASE ~(op.participantID = author \/ location > index) /\ location + length < index
    <3>1. Carried(index, op, author, landing) = index + (put - cut)
      BY <2>2 DEF Carried, Growth
    <3> HIDE DEF location, length, cut, put
    <3> QED  BY <1>1, <3>1
  <2>3. CASE ~(op.participantID = author \/ location > index) /\ ~(location + length < index)
    <3>1. Carried(index, op, author, landing) = landing
      BY <2>3 DEF Carried
    <3> HIDE DEF location, length, cut, put
    <3> QED  BY <1>1, <1>2, <2>3, <3>1
  <2> QED  BY <2>1, <2>2, <2>3
<1>3. /\ location + put \in Nat
      /\ location <= index => location <= index + 1 /\ location + put <= index + 1
  <2> HIDE DEF location, put
  <2> QED  BY <1>1
<1>4. \A landing : op.participantID = author => Carried(index, op, author, landing) = index
  BY DEF Carried
<1> QED
  BY <1>1, <1>2, <1>3, <1>4 DEF UpdateIndex, UpdateIndexV2

LEMMA RangeGrows ==
  ASSUME NEW P, NEW G, NEW op \in Operations(P, G), NEW range \in Ranges, NEW author
  PROVE  /\ UpdateRange(range, op, author).location <= range.location + 1
         /\ UpdateRangeV2(range, op, author).location <= range.location + 1
         /\ op.participantID = author =>
              UpdateRange(range, op, author).location = range.location
<1>1. range.location \in Nat
  BY DEF Ranges
<1>2. /\ UpdateRange(range, op, author).location = UpdateIndex(range.location, op, author)
      /\ UpdateRangeV2(range, op, author).location = UpdateIndexV2(range.location, op, author)
  BY DEF UpdateRange, UpdateRangeV2, Between
<1> QED
  BY <1>1, <1>2, IndexGrows

\* The operations of the global stack that may move op.
Movers(stack, op) ==
  {i \in 1..Len(stack) : i \in Unseen(stack, op) /\ stack[i].participantID # op.participantID}

LEMMA GlobalGrows ==
  ASSUME NEW P, NEW G, NEW stack \in Seq(Operations(P, G)), NEW op \in Operations(P, G)
  PROVE  RangeOnGlobal(stack, op).location
           <= op.range.location + Cardinality(Movers(stack, op))
<1> DEFINE n == Len(stack)
           Upto(k) == {i \in 1..k : i \in Movers(stack, op)}
           start == op.range.location
<1>1. PICK f : /\ f[0] = op.range
               /\ \A k \in 1..n :
                    f[k] = IF k \in Unseen(stack, op)
                             THEN UpdateRange(f[k - 1],
                                              UpdateOperationThroughGlobalStack(stack, k),
                                              op.participantID)
                             ELSE f[k - 1]
               /\ \A k \in 0..n : f[k] \in Ranges
               /\ RangeOnGlobal(stack, op) = f[n]
  BY RangeOnGlobalRuns
<1>2. \A k \in 1..n :
        /\ UpdateOperationThroughGlobalStack(stack, k) \in Operations(P, G)
        /\ UpdateOperationThroughGlobalStack(stack, k).participantID = stack[k].participantID
  BY UpdatedOperationIsOperation
<1>3. n \in Nat /\ start \in Nat
  BY LenProperties DEF Operations, Ranges
<1>4. \A k \in 1..n : k \notin Movers(stack, op) =>
        k \notin Unseen(stack, op) \/ stack[k].participantID = op.participantID
  BY DEF Movers
<1> HIDE DEF n, start
<1>5. \A k \in 0..n : IsFiniteSet(Upto(k)) /\ Cardinality(Upto(k)) \in Nat
  <2> SUFFICES ASSUME NEW k \in 0..n
               PROVE  IsFiniteSet(Upto(k)) /\ Cardinality(Upto(k)) \in Nat
    OBVIOUS
  <2>1. IsFiniteSet(1..k)
    BY <1>3, FS_Interval
  <2>2. Upto(k) \in SUBSET (1..k)
    OBVIOUS
  <2> HIDE DEF Upto
  <2> QED  BY <2>1, <2>2, FS_Subset, FS_CardinalityType
<1>6. \A k \in 1..n :
        Upto(k) = IF k \in Movers(stack, op) THEN Upto(k - 1) \cup {k} ELSE Upto(k - 1)
  <2>1. \A k \in 1..n : 1..k = 1..(k - 1) \cup {k}
    BY <1>3
  <2> QED  BY <2>1
<1>7. \A k \in 1..n : k \notin Upto(k - 1)
  BY <1>3
<1>8. Upto(n) = Movers(stack, op)
  BY DEF Movers, n
<1>9. Upto(0) = {}
  OBVIOUS
<1> HIDE DEF Upto
<1> DEFINE T == {k \in 0..n : f[k].location <= start + Cardinality(Upto(k))}
<1>10. 0 \in T
  <2>1. f[0].location = start /\ Cardinality(Upto(0)) \in Nat
    BY <1>1, <1>3, <1>5 DEF start
  <2> QED  BY <1>3, <2>1
<1>11. ASSUME NEW k \in 1..n, k - 1 \in T
       PROVE  k \in T
  <2>1. /\ k \in 0..n /\ k - 1 \in 0..n
        /\ f[k - 1] \in Ranges /\ f[k - 1].location \in Nat
        /\ f[k - 1].location <= start + Cardinality(Upto(k - 1))
    BY <1>1, <1>3, <1>11 DEF Ranges
  <2>2. Cardinality(Upto(k - 1)) \in Nat /\ IsFiniteSet(Upto(k - 1))
    BY <1>5, <2>1
  <2>3. CASE k \in Movers(stack, op)
    <3>1. Cardinality(Upto(k)) = Cardinality(Upto(k - 1)) + 1
      BY <1>6, <1>7, <2>2, <2>3, FS_AddElement
    <3>2. f[k].location <= f[k - 1].location + 1
      <4>1. CASE k \in Unseen(stack, op)
        BY <1>1, <1>2, <2>1, <4>1, RangeGrows
      <4>2. CASE k \notin Unseen(stack, op)
        BY <1>1, <2>1, <4>2
      <4> QED  BY <4>1, <4>2
    <3>3. f[k].location \in Nat
      BY <1>1, <2>1 DEF Ranges
    <3>4. f[k].location <= start + Cardinality(Upto(k))
      BY <1>3, <2>1, <2>2, <3>1, <3>2, <3>3, SMTT(30)
    <3> QED  BY <2>1, <3>4
  <2>4. CASE k \notin Movers(stack, op)
    <3>1. Upto(k) = Upto(k - 1)
      BY <1>6, <2>4
    <3>2. f[k].location = f[k - 1].location
      <4>1. CASE k \in Unseen(stack, op)
        <5>1. stack[k].participantID = op.participantID
          BY <1>4, <2>4, <4>1
        <5> QED  BY <1>1, <1>2, <2>1, <4>1, <5>1, RangeGrows
      <4>2. CASE k \notin Unseen(stack, op)
        BY <1>1, <2>1, <4>2
      <4> QED  BY <4>1, <4>2
    <3> QED  BY <2>1, <3>1, <3>2
  <2> QED  BY <2>3, <2>4
<1> HIDE DEF T
<1>12. n \in T
  <2>1. \A k \in 0..n : k \in T
    BY <1>3, <1>10, <1>11, LoopReaches
  <2> QED  BY <1>3, <2>1
<1> QED
  BY <1>1, <1>8, <1>12 DEF T, start

LEMMA ScreenGrows ==
  ASSUME NEW P, NEW G, NEW range \in Ranges, NEW author,
         NEW waiting \in Seq(Operations(P, G))
  PROVE  RangeOnScreen(range, author, waiting).location <= range.location + Len(waiting)
<1> DEFINE n == Len(waiting)
<1>1. PICK f : /\ f[0] = range
               /\ \A k \in 1..n : f[k] = UpdateRangeV2(f[k - 1], waiting[k], author)
               /\ RangeOnScreen(range, author, waiting) = f[n]
  BY RangeOnScreenRuns
<1>2. \A k \in 1..n : waiting[k] \in Operations(P, G)
  BY ElementOfSeq
<1> DEFINE start == range.location
<1>3. n \in Nat /\ start \in Nat
  BY LenProperties DEF Ranges
<1> HIDE DEF n
<1>4. \A k \in 0..n : f[k] \in Ranges
  <2>1. \A k \in 1..n : f[k - 1] \in Ranges => f[k] \in Ranges
    BY <1>1, <1>2, UpdatedRangeIsRange, OperationsAreWellFormed
  <2> QED  BY <1>1, <1>3, <2>1, LoopKeeps
<1> DEFINE T == {k \in 0..n : f[k].location <= start + k}
<1>5. 0 \in T
  BY <1>1, <1>3
<1> HIDE DEF start
<1>6. ASSUME NEW k \in 1..n, k - 1 \in T
      PROVE  k \in T
  <2>1. /\ k \in 0..n /\ k - 1 \in 0..n
        /\ f[k - 1] \in Ranges /\ f[k - 1].location \in Nat /\ f[k].location \in Nat
        /\ f[k - 1].location <= start + (k - 1)
    BY <1>3, <1>4, <1>6 DEF Ranges
  <2>2. f[k].location <= f[k - 1].location + 1
    BY <1>1, <1>2, <2>1, RangeGrows
  <2> QED  BY <1>3, <2>1, <2>2
<1> HIDE DEF T
<1>7. n \in T
  <2>1. \A k \in 0..n : k \in T
    BY <1>3, <1>5, <1>6, LoopReaches
  <2> QED  BY <1>3, <2>1
<1> QED
  BY <1>1, <1>7 DEF T, n, start

\* The loop of addChangeSetToUndoAndRedo, step by step: it returns a stack of
\* operations that were in the change set and are in one of the states it picks.
OfState(O, S) == {o \in O : o.state \in S}

LEMMA InStateRuns ==
  ASSUME NEW O, NEW ops \in Seq(O), NEW S
  PROVE  \E f : /\ f[0] = << >>
                /\ \A k \in 1..Len(ops) :
                     f[k] = IF ops[k].state \in S THEN Append(f[k - 1], ops[k]) ELSE f[k - 1]
                /\ \A k \in 0..Len(ops) : f[k] \in Seq(OfState(O, S))
                /\ InState(ops, S) = f[Len(ops)]
<1> DEFINE Stacks == Seq(OfState(O, S))
           n == Len(ops)
           Moved(r, k) == IF ops[k].state \in S THEN Append(r, ops[k]) ELSE r
           Carries(f) == f = [k \in 0..n |-> IF k = 0 THEN << >> ELSE Moved(f[k - 1], k)]
           step == [k \in 1..n |-> [r \in Stacks |-> Moved(r, k)]]
           carried == CHOOSE f : Carries(f)
<1>1. \A r \in Stacks : \A k \in 1..n : Moved(r, k) \in Stacks
  BY DEF OfState
<1>2. InState(ops, S) = carried[n] /\ n \in Nat /\ << >> \in Stacks
  BY DEF InState
<1> HIDE DEF Moved, n, Stacks
<1>3. PICK f : IsRun(f, n, Stacks, << >>, step)
  <2>1. step \in [1..n -> [Stacks -> Stacks]]
    BY <1>1
  <2> HIDE DEF step
  <2> QED  BY <1>2, <2>1, LoopRuns
<1>4. Carries(f)
  <2>1. ASSUME NEW k \in 0..n, k # 0
        PROVE  f[k] = Moved(f[k - 1], k)
    <3>1. k \in 1..n /\ k - 1 \in 0..n
      BY <1>2, <2>1
    <3>2. f[k - 1] \in Stacks /\ f[k] = step[k][f[k - 1]]
      BY <1>3, <3>1 DEF IsRun
    <3> QED  BY <3>1, <3>2
  <2> QED  BY <1>3, <2>1 DEF IsRun
<1>5. Carries(carried)
  <2> HIDE DEF Carries
  <2> QED  BY <1>4
<1> HIDE DEF carried
<1>6. carried[0] = << >> /\ \A k \in 1..n : carried[k] = Moved(carried[k - 1], k)
  BY <1>2, <1>5
<1>7. \A k \in 1..n : carried[k - 1] \in Stacks => carried[k] \in Stacks
  BY <1>1, <1>6
<1>8. \A k \in 0..n : carried[k] \in Stacks
  BY <1>2, <1>6, <1>7, LoopKeeps
<1> QED
  BY <1>2, <1>6, <1>8 DEF Stacks, Moved, n

LEMMA InStatePicks ==
  ASSUME NEW O, NEW ops \in Seq(O), NEW S
  PROVE  InState(ops, S) \in Seq({o \in O : o.state \in S})
<1>1. Len(ops) \in Nat
  BY LenProperties
<1>2. InState(ops, S) \in Seq(OfState(O, S))
  BY <1>1, InStateRuns
<1> QED
  BY <1>2 DEF OfState

LEMMA InStateIsStack ==
  ASSUME NEW O, NEW ops \in Seq(O), NEW S
  PROVE  InState(ops, S) \in Seq(O)
<1> DEFINE K == {o \in O : o.state \in S}
           kept == InState(ops, S)
<1>1. kept \in Seq(K)
  BY InStatePicks
<1> HIDE DEF kept
<1>2. Len(kept) \in Nat /\ kept = [i \in 1..Len(kept) |-> kept[i]]
  BY <1>1, LenProperties
<1>3. \A i \in 1..Len(kept) : kept[i] \in O
  BY <1>1, ElementOfSeq
<1>4. [i \in 1..Len(kept) |-> kept[i]] \in Seq(O)
  BY <1>2, <1>3, IsASeq
<1>5. kept \in Seq(O)
  BY <1>2, <1>4
<1> QED
  BY <1>5 DEF kept

-----------------------------------------------------------------------------
\* updateLocalStackAndSendStackWithOperation moves operations and keeps their
\* number and everything else of them.
LEMMA UpdatedStackIsStack ==
  ASSUME NEW P, NEW G, NEW stack \in Seq(Operations(P, G)), NEW shown \in Operations(P, G)
  PROVE  /\ UpdateStackWithOperation(stack, shown) \in Seq(Operations(P, G))
         /\ Len(UpdateStackWithOperation(stack, shown)) = Len(stack)
<1> DEFINE moved(i) == [stack[i] EXCEPT !.range =
                          UpdateRange(stack[i].range, shown, stack[i].participantID)]
<1>1. ASSUME NEW i \in 1..Len(stack)
      PROVE  moved(i) \in Operations(P, G)
  <2>1. stack[i] \in Operations(P, G) /\ stack[i].range \in Ranges
    BY OperationsAreWellFormed DEF WellFormed
  <2>2. UpdateRange(stack[i].range, shown, stack[i].participantID) \in Ranges
    BY <2>1, UpdatedRangeIsRange, OperationsAreWellFormed
  <2> QED  BY <2>1, <2>2, OperationsAreWellFormed
<1>2. UpdateStackWithOperation(stack, shown) = [i \in 1..Len(stack) |-> moved(i)]
  BY DEF UpdateStackWithOperation
<1> HIDE DEF moved
<1> QED
  BY <1>1, <1>2

\* The inverse of an operation is an operation: what it cuts is what the operation
\* put.
LEMMA InverseIsOperation ==
  ASSUME NEW P, NEW G, NEW op \in Operations(P, G), NEW author \in P,
         NEW id \in Nat, NEW state \in States
  PROVE  InverseOf(op, author, id, state) \in Operations(P, G)
<1>1. op.replaceString \in Strings(G) /\ Len(op.replaceString) \in Nat
  BY DEF Operations, Strings
<1>2. op.range.location \in Nat
  BY DEF Operations, Ranges
<1> QED
  BY <1>1, <1>2 DEF InverseOf, Operations, Ranges
=============================================================================
