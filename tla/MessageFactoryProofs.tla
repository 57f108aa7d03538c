------------------------ MODULE MessageFactoryProofs ------------------------
(***************************************************************************)
(* Lazy initialisation, and what GetPrototype makes of it.                 *)
(*                                                                         *)
(* GoogleOnceInit, for any number of threads and any once objects whose    *)
(* initialisers do not call themselves: an initialiser runs at most once,  *)
(* and a call only returns to a thread that sees what it wrote. The        *)
(* argument is about frames, the calls of GoogleOnceInit that are under    *)
(* way. At most one of them works on an object, which is then marked       *)
(* EXECUTING_CLOSURE; what a frame has called is known to its thread; and  *)
(* DONE is only stored with everything the object needs published.         *)
(*                                                                         *)
(* GetPrototype, for any number of threads, types and once objects: one    *)
(* thread registers the file, the others see all of it or nothing, and who *)
(* gets a prototype sees the descriptors that another thread assigned. For *)
(* the latter, the two ways in which threads learn of one another are      *)
(* joined: the registering thread knows the descriptors when its call of   *)
(* GoogleOnceInit has returned, and who locks the mutex after it knows     *)
(* what it knew.                                                           *)
(***************************************************************************)
EXTENDS MessageFactory, SequenceTheorems, TLAPS

-----------------------------------------------------------------------------
(* GoogleOnceInit.                                                         *)

Pcs == {"fast", "load", "swap", "closure", "run", "store", "wait"}
Frames == [object : Objects, pc : Pcs, n : Nat]
Depth(t) == Len(stack[t])

\* Frame i of t executes the closure of its object.
Works(t, i) == stack[t][i].pc \in {"closure", "run", "store"}

\* Every frame below another one waits for the call its closure made last.
WellPlaced(t, i) ==
  /\ stack[t][i].n <= Len(Needs[stack[t][i].object])
  /\ stack[t][i].pc \in {"fast", "load", "swap", "closure"} => stack[t][i].n = 0
  /\ i < Depth(t) =>
       /\ stack[t][i].pc = "run"
       /\ stack[t][i].n >= 1
       /\ stack[t][i + 1].object = Needs[stack[t][i].object][stack[t][i].n]

FrameInv == \A t \in Threads : \A i \in 1..Depth(t) : WellPlaced(t, i)

\* What a frame knows of the object it is for.
Marked(t, i) ==
  /\ Works(t, i) => once[stack[t][i].object] = ONCE_STATE_EXECUTING_CLOSURE
  /\ stack[t][i].pc = "closure" => runs[stack[t][i].object] = 0
  /\ stack[t][i].pc = "wait" => once[stack[t][i].object] # ONCE_STATE_UNINITIALIZED

\* The state of an object and how often its closure ran.
RunsInv ==
  /\ \A o \in Objects :
       /\ runs[o] <= 1
       /\ once[o] = ONCE_STATE_UNINITIALIZED => runs[o] = 0
  /\ \A t \in Threads : \A i \in 1..Depth(t) : Marked(t, i)

\* Only one frame executes the closure of an object.
OneWorks ==
  \A t, u \in Threads : \A i \in 1..Depth(t), j \in 1..Depth(u) :
    (Works(t, i) /\ Works(u, j) /\ stack[t][i].object = stack[u][j].object) =>
      t = u /\ i = j

\* The set S holds o and what the initialiser of o calls.
Complete(o, S) == o \in S /\ \A k \in 1..Len(Needs[o]) : Needs[o][k] \in S

PublishedInv == \A o \in Objects : once[o] = ONCE_STATE_DONE => Complete(o, published[o])

\* A closure's thread knows what the closure has called, up to the call it is in.
Informed(t, i) ==
  /\ stack[t][i].pc = "run" =>
       \A k \in 1..stack[t][i].n :
         (i = Depth(t) \/ k < stack[t][i].n) => Needs[stack[t][i].object][k] \in knows[t]
  /\ stack[t][i].pc = "store" => Complete(stack[t][i].object, knows[t])

KnowsInv == \A t \in Threads : \A i \in 1..Depth(t) : Informed(t, i)

OnceInv == TypeOK /\ FrameInv /\ RunsInv /\ OneWorks /\ PublishedInv /\ KnowsInv

-----------------------------------------------------------------------------
(* What a step does to the stacks.                                         *)

LEMMA NeedsOfObject ==
  ASSUME NEW o \in Objects
  PROVE  /\ Len(Needs[o]) \in Nat
         /\ DOMAIN Needs[o] = 1..Len(Needs[o])
         /\ \A k \in 1..Len(Needs[o]) : Needs[o][k] \in Objects
BY NeedsAssumption DEF Objects

LEMMA TopFrame ==
  ASSUME TypeOK, NEW t \in Threads, NEW pc, At(t, pc)
  PROVE  /\ Depth(t) \in Nat \ {0}
         /\ Top(t) = stack[t][Depth(t)]
         /\ Top(t) \in Frames
         /\ Top(t).pc = pc
         /\ Top(t).object \in Objects
<1>1. stack[t] \in Seq(Frames) /\ stack[t] # << >>
  BY DEF TypeOK, At, Frames, Pcs
<1>2. Len(stack[t]) \in Nat \ {0} /\ stack[t][Len(stack[t])] \in Frames
  BY <1>1, EmptySeq, ElementOfSeq
<1> QED
  BY <1>1, <1>2 DEF At, Top, Depth, Frames

LEMMA AllFrames ==
  ASSUME TypeOK, NEW t \in Threads
  PROVE  /\ Depth(t) \in Nat
         /\ \A i \in 1..Depth(t) : stack[t][i] \in Frames
<1>1. stack[t] \in Seq(Frames)
  BY DEF TypeOK, Frames, Pcs
<1> QED
  BY <1>1, ElementOfSeq, LenProperties DEF Depth

\* Goto changes the pc of the innermost frame and nothing else.
LEMMA GotoFrames ==
  ASSUME TypeOK, NEW t \in Threads, stack[t] # << >>, NEW pc \in Pcs, stack' = Goto(t, pc)
  PROVE  /\ stack' \in [Threads -> Seq(Frames)]
         /\ \A u \in Threads : Depth(u)' = Depth(u)
         /\ \A u \in Threads \ {t} : stack'[u] = stack[u]
         /\ \A i \in 1..Depth(t) - 1 : stack'[t][i] = stack[t][i]
         /\ stack'[t][Depth(t)] = [Top(t) EXCEPT !.pc = pc]
<1> DEFINE s == stack[t]
           new == [s EXCEPT ![Len(s)] = [s[Len(s)] EXCEPT !.pc = pc]]
<1>1. stack \in [Threads -> Seq(Frames)] /\ s \in Seq(Frames)
  BY DEF TypeOK, Frames, Pcs
<1>2. Len(s) \in 1..Len(s) /\ s[Len(s)] \in Frames
  BY <1>1, EmptySeq, ElementOfSeq, LenProperties
<1>3. [s[Len(s)] EXCEPT !.pc = pc] \in Frames
  BY <1>2 DEF Frames
<1>4. stack' = [stack EXCEPT ![t] = new]
  BY DEF Goto
<1> HIDE DEF s
<1>5. new \in Seq(Frames) /\ Len(new) = Len(s)
  BY <1>1, <1>2, <1>3, ExceptSeq
<1>6. \A i \in 1..Len(s) - 1 : new[i] = s[i]
  BY <1>1, <1>2, LenProperties
<1>7. new[Len(s)] = [s[Len(s)] EXCEPT !.pc = pc]
  BY <1>1, <1>2, LenProperties
<1> HIDE DEF new
<1> USE DEF s
<1> QED
  BY <1>1, <1>4, <1>5, <1>6, <1>7 DEF Depth, Top

\* A sequence without its last element.
LEMMA FrontOfSeq ==
  ASSUME NEW S, NEW s \in Seq(S), s # << >>
  PROVE  /\ SubSeq(s, 1, Len(s) - 1) \in Seq(S)
         /\ Len(SubSeq(s, 1, Len(s) - 1)) = Len(s) - 1
         /\ \A i \in 1..Len(s) - 1 : SubSeq(s, 1, Len(s) - 1)[i] = s[i]
<1>1. Len(s) \in Nat \ {0}
  BY EmptySeq
<1>2. \A i \in 1..Len(s) - 1 : s[i] \in S
  BY <1>1, ElementOfSeq
<1> DEFINE front == SubSeq(s, 1, Len(s) - 1)
<1>3. /\ front \in Seq(S)
      /\ Len(front) = IF 1 <= Len(s) - 1 THEN (Len(s) - 1) - 1 + 1 ELSE 0
      /\ \A i \in 1..((Len(s) - 1) - 1 + 1) : front[i] = s[1 + i - 1]
  BY <1>1, <1>2, SubSeqProperties
<1> HIDE DEF front
<1>4. Len(front) = Len(s) - 1
  <2>1. Len(s) \in Nat /\ Len(s) >= 1
    BY <1>1
  <2> DEFINE n == Len(s)
  <2> HIDE DEF n
  <2>2. n \in Nat /\ n >= 1 => (IF 1 <= n - 1 THEN (n - 1) - 1 + 1 ELSE 0) = n - 1
    OBVIOUS
  <2> QED  BY <1>3, <2>1, <2>2 DEF n
<1>5. ASSUME NEW i \in 1..Len(s) - 1
      PROVE  front[i] = s[i]
  <2>1. i \in 1..((Len(s) - 1) - 1 + 1) /\ 1 + i - 1 = i
    BY <1>1
  <2> QED  BY <1>3, <2>1
<1> QED
  BY <1>3, <1>4, <1>5 DEF front

\* Return drops the innermost frame.
LEMMA ReturnFrames ==
  ASSUME TypeOK, NEW t \in Threads, stack[t] # << >>, Return(t)
  PROVE  /\ stack' \in [Threads -> Seq(Frames)]
         /\ Depth(t)' = Depth(t) - 1
         /\ \A u \in Threads \ {t} : stack'[u] = stack[u] /\ Depth(u)' = Depth(u)
         /\ \A i \in 1..Depth(t) - 1 : stack'[t][i] = stack[t][i]
<1> DEFINE s == stack[t]
           new == SubSeq(s, 1, Len(s) - 1)
<1>1. stack \in [Threads -> Seq(Frames)] /\ s \in Seq(Frames)
  BY DEF TypeOK, Frames, Pcs
<1>2. Len(s) \in Nat \ {0}
  BY <1>1, EmptySeq
<1>3. new \in Seq(Frames) /\ Len(new) = Len(s) - 1 /\ \A i \in 1..Len(s) - 1 : new[i] = s[i]
  BY <1>1, <1>2, FrontOfSeq
<1>4. stack' = [stack EXCEPT ![t] = new]
  BY DEF Return
<1> QED
  BY <1>1, <1>3, <1>4 DEF Depth

\* A call of the innermost frame adds a frame.
LEMMA PushFrames ==
  ASSUME TypeOK, NEW t \in Threads, At(t, "run"), CallNeeded(t)
  PROVE  /\ stack' \in [Threads -> Seq(Frames)]
         /\ Depth(t)' = Depth(t) + 1
         /\ \A u \in Threads \ {t} : stack'[u] = stack[u] /\ Depth(u)' = Depth(u)
         /\ \A i \in 1..Depth(t) - 1 : stack'[t][i] = stack[t][i]
         /\ stack'[t][Depth(t)] = [Top(t) EXCEPT !.n = Top(t).n + 1]
         /\ stack'[t][Depth(t) + 1] = Called(Needs[Top(t).object][Top(t).n + 1])
<1> DEFINE s == stack[t]
           n == Top(t).n + 1
           f == Called(Needs[Top(t).object][n])
           mid == [s EXCEPT ![Len(s)] = [s[Len(s)] EXCEPT !.n = n]]
<1>1. stack \in [Threads -> Seq(Frames)] /\ s \in Seq(Frames)
  BY DEF TypeOK, Frames, Pcs
<1>2. /\ Len(s) \in 1..Len(s) /\ s[Len(s)] \in Frames
      /\ Top(t) = s[Len(s)] /\ Top(t).object \in Objects /\ Top(t).n \in Nat
  BY <1>1, TopFrame DEF Depth, Frames
<1>3. n \in 1..Len(Needs[Top(t).object])
  BY <1>2, NeedsOfObject DEF CallNeeded
<1>4. f \in Frames
  BY <1>2, <1>3, NeedsOfObject DEF Frames, Pcs, Called
<1>5. [s[Len(s)] EXCEPT !.n = n] \in Frames
  BY <1>2, <1>3 DEF Frames
<1>6. stack' = [stack EXCEPT ![t] = Append(mid, f)]
  BY DEF CallNeeded
<1> HIDE DEF s, n, f
<1>7. mid \in Seq(Frames) /\ Len(mid) = Len(s)
  BY <1>1, <1>2, <1>5, ExceptSeq
<1>8. /\ \A i \in 1..Len(s) - 1 : mid[i] = s[i]
      /\ mid[Len(s)] = [s[Len(s)] EXCEPT !.n = n]
  BY <1>1, <1>2, LenProperties
<1> HIDE DEF mid
<1>9. /\ Append(mid, f) \in Seq(Frames)
      /\ Len(Append(mid, f)) = Len(s) + 1
      /\ \A i \in 1..Len(s) : Append(mid, f)[i] = mid[i]
      /\ Append(mid, f)[Len(s) + 1] = f
  BY <1>4, <1>7, AppendProperties
<1>10. stack'[t] = Append(mid, f) /\ \A u \in Threads \ {t} : stack'[u] = stack[u]
  BY <1>1, <1>6
<1>11. /\ Len(s) - 1 \in Nat
       /\ \A i \in 1..Len(s) - 1 : stack'[t][i] = s[i]
       /\ stack'[t][Len(s)] = [s[Len(s)] EXCEPT !.n = n]
  BY <1>2, <1>8, <1>9, <1>10
<1>12. stack' \in [Threads -> Seq(Frames)]
  BY <1>1, <1>6, <1>9
<1> QED
  BY <1>2, <1>9, <1>10, <1>11, <1>12 DEF Depth, s, n, f

\* A call from outside is the only frame.
LEMMA CallFrames ==
  ASSUME TypeOK, NEW t \in Threads, NEW o \in Objects, Call(t, o)
  PROVE  /\ stack' \in [Threads -> Seq(Frames)]
         /\ Depth(t) = 0 /\ Depth(t)' = 1
         /\ \A u \in Threads \ {t} : stack'[u] = stack[u] /\ Depth(u)' = Depth(u)
         /\ stack'[t][1] = Called(o)
<1>1. stack \in [Threads -> Seq(Frames)] /\ Called(o) \in Frames
  BY DEF TypeOK, Frames, Pcs, Called
<1>2. stack' = [stack EXCEPT ![t] = <<Called(o)>>] /\ stack[t] = << >>
  BY DEF Call
<1>3. <<Called(o)>> \in Seq(Frames)
  BY <1>1
<1> QED
  BY <1>1, <1>2, <1>3 DEF Depth
-----------------------------------------------------------------------------
(* A step moves the innermost frame of a thread, drops it, or adds one.    *)

\* The frame of t goes from one pc to another.
Moves(t, from, to) == At(t, from) /\ stack' = Goto(t, to)

Edges ==
  {<<"fast", "load">>, <<"load", "swap">>, <<"swap", "closure">>, <<"swap", "wait">>,
   <<"closure", "run">>, <<"run", "store">>}

Drops(t) == stack[t] # << >> /\ Return(t)

LEMMA StepShape ==
  ASSUME NEW t \in Threads, Step(t)
  PROVE  \/ \E e \in Edges : Moves(t, e[1], e[2])
         \/ Drops(t)
         \/ CallNeeded(t)
<1>1. CASE FastPath(t)
  <2>1. At(t, "fast") /\ (Return(t) \/ stack' = Goto(t, "load"))
    BY <1>1 DEF FastPath
  <2>2. <<"fast", "load">> \in Edges
    BY DEF Edges
  <2> QED  BY <2>1, <2>2 DEF Moves, Drops, At
<1>2. CASE AcquireLoad(t)
  <2>1. At(t, "load") /\ (Return(t) \/ stack' = Goto(t, "swap"))
    BY <1>2 DEF AcquireLoad
  <2>2. <<"load", "swap">> \in Edges
    BY DEF Edges
  <2> QED  BY <2>1, <2>2 DEF Moves, Drops, At
<1>3. CASE AcquireCompareAndSwap(t)
  <2>1. At(t, "swap") /\ (Return(t) \/ stack' = Goto(t, "closure") \/ stack' = Goto(t, "wait"))
    BY <1>3 DEF AcquireCompareAndSwap
  <2>2. <<"swap", "closure">> \in Edges /\ <<"swap", "wait">> \in Edges
    BY DEF Edges
  <2> QED  BY <2>1, <2>2 DEF Moves, Drops, At
<1>4. CASE RunClosure(t)
  <2>1. At(t, "closure") /\ stack' = Goto(t, "run") /\ <<"closure", "run">> \in Edges
    BY <1>4 DEF RunClosure, Edges
  <2> QED  BY <2>1 DEF Moves
<1>5. CASE EndClosure(t)
  <2>1. At(t, "run") /\ stack' = Goto(t, "store") /\ <<"run", "store">> \in Edges
    BY <1>5 DEF EndClosure, Edges
  <2> QED  BY <2>1 DEF Moves
<1>6. CASE ReleaseStore(t) \/ Wait(t)
  BY <1>6 DEF ReleaseStore, Wait, Drops, At
<1> QED
  BY <1>1, <1>2, <1>3, <1>4, <1>5, <1>6 DEF Step

\* The same for the fields of every frame.
LEMMA MovesFields ==
  ASSUME TypeOK, NEW t \in Threads, NEW from, NEW to \in Pcs, Moves(t, from, to)
  PROVE  /\ Depth(t) \in Nat \ {0} /\ stack[t][Depth(t)].pc = from
         /\ \A u \in Threads : Depth(u)' = Depth(u)
         /\ \A u \in Threads : \A i \in 1..Depth(u) :
              /\ stack'[u][i].object = stack[u][i].object
              /\ stack'[u][i].n = stack[u][i].n
              /\ stack'[u][i].pc = IF u = t /\ i = Depth(t) THEN to ELSE stack[u][i].pc
<1>1. Depth(t) \in Nat \ {0} /\ Top(t) = stack[t][Depth(t)] /\ Top(t) \in Frames
      /\ Top(t).pc = from
  BY TopFrame DEF Moves
<1>2. /\ \A u \in Threads : Depth(u)' = Depth(u)
      /\ \A u \in Threads \ {t} : stack'[u] = stack[u]
      /\ \A i \in 1..Depth(t) - 1 : stack'[t][i] = stack[t][i]
      /\ stack'[t][Depth(t)] = [Top(t) EXCEPT !.pc = to]
  BY GotoFrames DEF Moves, At
<1>3. ASSUME NEW i \in 1..Depth(t)
      PROVE  /\ stack'[t][i].object = stack[t][i].object
             /\ stack'[t][i].n = stack[t][i].n
             /\ stack'[t][i].pc = IF i = Depth(t) THEN to ELSE stack[t][i].pc
  <2>1. CASE i = Depth(t)
    BY <1>1, <1>2, <2>1 DEF Frames
  <2>2. CASE i # Depth(t)
    <3>1. i \in 1..Depth(t) - 1
      BY <1>1, <2>2
    <3> QED  BY <1>2, <2>2, <3>1
  <2> QED  BY <2>1, <2>2
<1> QED
  BY <1>1, <1>2, <1>3

LEMMA DropsFrames ==
  ASSUME TypeOK, NEW t \in Threads, Drops(t)
  PROVE  /\ Depth(t) \in Nat \ {0}
         /\ \A u \in Threads : Depth(u)' = IF u = t THEN Depth(t) - 1 ELSE Depth(u)
         /\ \A u \in Threads : \A i \in 1..Depth(u)' : i \in 1..Depth(u) /\ stack'[u][i] = stack[u][i]
<1>1. Depth(t) \in Nat \ {0}
  BY EmptySeq DEF TypeOK, Drops, Depth
<1>2. /\ Depth(t)' = Depth(t) - 1
      /\ \A u \in Threads \ {t} : stack'[u] = stack[u] /\ Depth(u)' = Depth(u)
      /\ \A i \in 1..Depth(t) - 1 : stack'[t][i] = stack[t][i]
  BY ReturnFrames DEF Drops
<1>3. \A i \in 1..Depth(t) - 1 : i \in 1..Depth(t)
  BY <1>1
<1> QED
  BY <1>1, <1>2, <1>3

LEMMA PushFields ==
  ASSUME TypeOK, NEW t \in Threads, CallNeeded(t)
  PROVE  /\ Depth(t) \in Nat \ {0}
         /\ stack[t][Depth(t)].pc = "run"
         /\ stack[t][Depth(t)].n < Len(Needs[stack[t][Depth(t)].object])
         /\ \A u \in Threads : Depth(u)' = IF u = t THEN Depth(t) + 1 ELSE Depth(u)
         /\ \A u \in Threads : \A i \in 1..Depth(u) :
              /\ stack'[u][i].object = stack[u][i].object
              /\ stack'[u][i].pc = stack[u][i].pc
              /\ stack'[u][i].n = IF u = t /\ i = Depth(t) THEN stack[u][i].n + 1 ELSE stack[u][i].n
         /\ stack'[t][Depth(t) + 1].pc = "fast" /\ stack'[t][Depth(t) + 1].n = 0
         /\ stack'[t][Depth(t) + 1].object =
              Needs[stack[t][Depth(t)].object][stack[t][Depth(t)].n + 1]
<1>1. /\ Depth(t) \in Nat \ {0} /\ Top(t) = stack[t][Depth(t)] /\ Top(t) \in Frames
      /\ Top(t).pc = "run"
  BY TopFrame DEF CallNeeded
<1>2. /\ Depth(t)' = Depth(t) + 1
      /\ \A u \in Threads \ {t} : stack'[u] = stack[u] /\ Depth(u)' = Depth(u)
      /\ \A i \in 1..Depth(t) - 1 : stack'[t][i] = stack[t][i]
      /\ stack'[t][Depth(t)] = [Top(t) EXCEPT !.n = Top(t).n + 1]
      /\ stack'[t][Depth(t) + 1] = Called(Needs[Top(t).object][Top(t).n + 1])
  BY PushFrames DEF CallNeeded
<1>3. ASSUME NEW i \in 1..Depth(t)
      PROVE  /\ stack'[t][i].object = stack[t][i].object
             /\ stack'[t][i].pc = stack[t][i].pc
             /\ stack'[t][i].n = IF i = Depth(t) THEN stack[t][i].n + 1 ELSE stack[t][i].n
  <2>1. CASE i = Depth(t)
    BY <1>1, <1>2, <2>1 DEF Frames
  <2>2. CASE i # Depth(t)
    <3>1. i \in 1..Depth(t) - 1
      BY <1>1, <2>2
    <3> QED  BY <1>2, <2>2, <3>1
  <2> QED  BY <2>1, <2>2
<1>4. Top(t).n < Len(Needs[Top(t).object])
  BY DEF CallNeeded
<1> QED
  BY <1>1, <1>2, <1>3, <1>4 DEF Called
-----------------------------------------------------------------------------
(* The parts of the invariant, one at a time.                              *)

LEMMA TypePreserved ==
  ASSUME TypeOK, NEW t \in Threads, Step(t) \/ \E o \in Objects : Call(t, o)
  PROVE  TypeOK'
<1> DEFINE Data == /\ once \in [Objects -> 0..2]
                   /\ published \in [Objects -> SUBSET Objects]
                   /\ runs \in [Objects -> Nat]
                   /\ knows \in [Threads -> SUBSET Objects]
<1>1. stack' \in [Threads -> Seq(Frames)]
  <2>1. ASSUME NEW e \in Edges, Moves(t, e[1], e[2])
        PROVE  stack' \in [Threads -> Seq(Frames)]
    <3>1. e[2] \in Pcs
      BY DEF Edges, Pcs
    <3> QED  BY <2>1, <3>1, GotoFrames DEF Moves, At
  <2>2. CASE Drops(t)
    BY <2>2, ReturnFrames DEF Drops
  <2>3. CASE CallNeeded(t)
    BY <2>3, PushFrames DEF CallNeeded
  <2>4. CASE \E o \in Objects : Call(t, o)
    BY <2>4, CallFrames
  <2> QED  BY <2>1, <2>2, <2>3, <2>4, StepShape
<1>2. Data'
  <2>0. Data
    BY DEF TypeOK
  <2>1. ASSUME NEW pc, At(t, pc)  PROVE  Top(t).object \in Objects
    BY <2>1, TopFrame
  <2>2. ASSUME NEW pc, At(t, pc), Acquire(t)  PROVE  knows' \in [Threads -> SUBSET Objects]
    BY <2>0, <2>1, <2>2 DEF Acquire
  <2>3. CASE FastPath(t) \/ AcquireLoad(t) \/ Wait(t)
    BY <2>0, <2>2, <2>3 DEF FastPath, AcquireLoad, Wait
  <2>4. CASE AcquireCompareAndSwap(t)
    <3>1. /\ knows' \in [Threads -> SUBSET Objects]
          /\ published' = published /\ runs' = runs
      BY <2>2, <2>4 DEF AcquireCompareAndSwap
    <3>2. once' \in [Objects -> 0..2]
      BY <2>0, <2>1, <2>4 DEF AcquireCompareAndSwap, ONCE_STATE_EXECUTING_CLOSURE
    <3> QED  BY <2>0, <3>1, <3>2
  <2>5. CASE RunClosure(t)
    BY <2>0, <2>1, <2>5 DEF RunClosure
  <2>6. CASE CallNeeded(t) \/ \E o \in Objects : Call(t, o)
    BY <2>0, <2>6 DEF CallNeeded, Call
  <2>7. CASE EndClosure(t)
    BY <2>0, <2>1, <2>7 DEF EndClosure
  <2>8. CASE ReleaseStore(t)
    BY <2>0, <2>1, <2>8 DEF ReleaseStore, ONCE_STATE_DONE
  <2> QED  BY <2>3, <2>4, <2>5, <2>6, <2>7, <2>8 DEF Step
<1> QED
  BY <1>1, <1>2 DEF TypeOK, Frames, Pcs

LEMMA FramesPreserved ==
  ASSUME TypeOK, FrameInv, NEW t \in Threads, Step(t) \/ \E o \in Objects : Call(t, o)
  PROVE  FrameInv'
<1>0. \A u \in Threads : /\ Depth(u) \in Nat
                         /\ \A i \in 1..Depth(u) : stack[u][i] \in Frames /\ WellPlaced(u, i)
  BY AllFrames DEF FrameInv
<1>1. ASSUME NEW e \in Edges, Moves(t, e[1], e[2]),
             NEW u \in Threads, NEW i \in 1..Depth(u)'
      PROVE  WellPlaced(u, i)'
  <2>1. /\ e[2] \in Pcs
        /\ e[2] \in {"fast", "load", "swap", "closure"} => e[1] \in {"fast", "load", "swap", "closure"}
    BY DEF Edges, Pcs
  <2>2. /\ Depth(u)' = Depth(u) /\ i \in 1..Depth(u)
        /\ stack'[u][i].object = stack[u][i].object
        /\ stack'[u][i].n = stack[u][i].n
        /\ stack'[u][i].pc = IF u = t /\ i = Depth(t) THEN e[2] ELSE stack[u][i].pc
        /\ stack[t][Depth(t)].pc = e[1]
    BY <1>1, <2>1, MovesFields
  <2>3. i < Depth(u) => i + 1 \in 1..Depth(u) /\ stack'[u][i + 1].object = stack[u][i + 1].object
    <3>1. i < Depth(u) => i + 1 \in 1..Depth(u)
      BY <1>0, <2>2
    <3> QED  BY <1>1, <2>1, <3>1, MovesFields
  <2>4. WellPlaced(u, i)
    BY <1>0, <2>2
  <2> QED  BY <2>1, <2>2, <2>3, <2>4 DEF WellPlaced
<1>2. ASSUME Drops(t), NEW u \in Threads, NEW i \in 1..Depth(u)'
      PROVE  WellPlaced(u, i)'
  <2>1. Depth(u) \in Nat /\ Depth(u)' \in Nat /\ Depth(u)' <= Depth(u)
    BY <1>0, <1>2, DropsFrames
  <2>2. i \in 1..Depth(u) /\ stack'[u][i] = stack[u][i]
    BY <1>2, DropsFrames
  <2>3. i < Depth(u)' => i < Depth(u) /\ stack'[u][i + 1] = stack[u][i + 1]
    <3>1. i < Depth(u)' => i < Depth(u) /\ i + 1 \in 1..Depth(u)'
      BY <2>1
    <3> QED  BY <1>2, <3>1, DropsFrames
  <2>4. WellPlaced(u, i)
    BY <1>0, <2>2
  <2> QED  BY <2>2, <2>3, <2>4 DEF WellPlaced
<1>3. ASSUME CallNeeded(t), NEW u \in Threads, NEW i \in 1..Depth(u)'
      PROVE  WellPlaced(u, i)'
  <2>1. CASE i = Depth(u) + 1
    <3>1. u = t /\ ~(i < Depth(u)') /\ stack'[u][i].n = 0
      BY <1>0, <1>3, <2>1, PushFields
    <3>2. stack[t][Depth(t)] \in Frames /\ Depth(t) \in 1..Depth(t)
      BY <1>0, <1>3, PushFields
    <3>3. stack[t][Depth(t)].n + 1 \in 1..Len(Needs[stack[t][Depth(t)].object])
      BY <1>3, <3>2, PushFields, NeedsOfObject DEF Frames
    <3>4. stack'[u][i].object \in Objects
      BY <1>3, <2>1, <3>1, <3>2, <3>3, PushFields, NeedsOfObject DEF Frames
    <3>5. Len(Needs[stack'[u][i].object]) \in Nat
      BY <3>4, NeedsOfObject
    <3> QED  BY <3>1, <3>5 DEF WellPlaced
  <2>2. CASE u = t /\ i = Depth(t)
    <3>1. stack[t][i] \in Frames /\ i \in 1..Depth(t)
      BY <1>0, <1>3, <2>2, PushFields
    <3>2. Len(Needs[stack[t][i].object]) \in Nat /\ stack[t][i].n \in Nat
      BY <3>1, NeedsOfObject DEF Frames
    <3>3. /\ stack'[t][i].object = stack[t][i].object
          /\ stack'[t][i].pc = "run"
          /\ stack'[t][i].n = stack[t][i].n + 1
          /\ stack[t][i].n < Len(Needs[stack[t][i].object])
          /\ stack'[t][i + 1].object = Needs[stack[t][i].object][stack[t][i].n + 1]
      BY <1>3, <2>2, <3>1, PushFields
    <3> QED  BY <2>2, <3>2, <3>3 DEF WellPlaced
  <2>3. CASE i # Depth(u) + 1 /\ ~(u = t /\ i = Depth(t))
    <3>1. i \in 1..Depth(u) /\ Depth(u) \in Nat
      BY <1>0, <1>3, <2>3, PushFields
    <3>2. i < Depth(u)' => i < Depth(u) /\ i + 1 \in 1..Depth(u)
      BY <1>3, <2>3, <3>1, PushFields
    <3>3. /\ stack'[u][i].object = stack[u][i].object
          /\ stack'[u][i].pc = stack[u][i].pc
          /\ stack'[u][i].n = stack[u][i].n
      BY <1>3, <2>3, <3>1, PushFields
    <3>4. i < Depth(u)' => stack'[u][i + 1].object = stack[u][i + 1].object
      BY <1>3, <3>2, PushFields
    <3>5. WellPlaced(u, i)
      BY <1>0, <3>1
    <3> QED  BY <3>2, <3>3, <3>4, <3>5 DEF WellPlaced
  <2> QED  BY <2>1, <2>2, <2>3
<1>4. ASSUME NEW o \in Objects, Call(t, o), NEW u \in Threads, NEW i \in 1..Depth(u)'
      PROVE  WellPlaced(u, i)'
  <2>1. CASE u = t
    <3>1. i = 1 /\ Depth(u)' = 1 /\ stack'[u][i] = Called(o)
      BY <1>4, <2>1, CallFrames
    <3>2. Len(Needs[o]) \in Nat
      BY NeedsOfObject
    <3> QED  BY <3>1, <3>2 DEF WellPlaced, Called
  <2>2. CASE u # t
    <3>1. stack'[u] = stack[u] /\ Depth(u)' = Depth(u)
      BY <1>4, <2>2, CallFrames
    <3>2. WellPlaced(u, i)
      BY <1>0, <3>1
    <3> QED  BY <3>1, <3>2 DEF WellPlaced
  <2> QED  BY <2>1, <2>2
<1>5. \A u \in Threads : \A i \in 1..Depth(u)' : WellPlaced(u, i)'
  BY <1>1, <1>2, <1>3, <1>4, StepShape
<1> QED
  BY <1>5 DEF FrameInv
\* No frame starts to work, and no object changes.
LEMMA QuietStep ==
  ASSUME RunsInv, OneWorks, once' = once, runs' = runs,
         \A u \in Threads : \A i \in 1..Depth(u)' :
           \/ /\ i \in 1..Depth(u)
              /\ stack'[u][i].object = stack[u][i].object
              /\ Works(u, i)' => Works(u, i)
              /\ stack'[u][i].pc = "closure" => stack[u][i].pc = "closure"
              /\ stack'[u][i].pc = "wait" =>
                   \/ stack[u][i].pc = "wait"
                   \/ once[stack[u][i].object] # ONCE_STATE_UNINITIALIZED
           \/ stack'[u][i].pc = "fast"
  PROVE  RunsInv' /\ OneWorks'
<1>1. ASSUME NEW u \in Threads, NEW i \in 1..Depth(u)'
      PROVE  Marked(u, i)'
  <2>1. CASE stack'[u][i].pc = "fast"
    BY <2>1 DEF Marked, Works
  <2>2. CASE stack'[u][i].pc # "fast"
    <3>1. Marked(u, i)
      BY <2>2 DEF RunsInv
    <3> QED  BY <2>2, <3>1 DEF Marked
  <2> QED  BY <2>1, <2>2
<1>2. RunsInv'
  BY <1>1 DEF RunsInv
<1>3. \A u \in Threads : \A i \in 1..Depth(u)' :
        Works(u, i)' => /\ i \in 1..Depth(u) /\ Works(u, i)
                        /\ stack'[u][i].object = stack[u][i].object
  BY DEF Works
<1>4. OneWorks'
  BY <1>3 DEF OneWorks
<1> QED
  BY <1>2, <1>4

LEMMA RunsPreserved ==
  ASSUME TypeOK, RunsInv, OneWorks, NEW t \in Threads,
         Step(t) \/ \E o \in Objects : Call(t, o)
  PROVE  RunsInv' /\ OneWorks'
<1> DEFINE o == stack[t][Depth(t)].object
<1>0. \A u \in Threads : Depth(u) \in Nat /\ \A i \in 1..Depth(u) : stack[u][i].object \in Objects
  BY AllFrames DEF Frames
<1>1. ASSUME NEW pc, At(t, pc)
      PROVE  /\ Top(t).object = o /\ o \in Objects /\ stack[t][Depth(t)].pc = pc
             /\ Depth(t) \in 1..Depth(t)
  BY <1>1, TopFrame
<1>2. ASSUME Drops(t), once' = once, runs' = runs
      PROVE  RunsInv' /\ OneWorks'
  <2>1. \A u \in Threads : \A i \in 1..Depth(u)' : i \in 1..Depth(u) /\ stack'[u][i] = stack[u][i]
    BY <1>2, DropsFrames
  <2> QED  BY <1>2, <2>1, QuietStep DEF Works
<1>3. ASSUME NEW from, NEW to \in Pcs, Moves(t, from, to), once' = once, runs' = runs,
             to \in {"closure", "run", "store"} => from \in {"closure", "run", "store"},
             to # "closure",
             to = "wait" => once[o] # ONCE_STATE_UNINITIALIZED
      PROVE  RunsInv' /\ OneWorks'
  <2>1. ASSUME NEW u \in Threads, NEW i \in 1..Depth(u)'
        PROVE  /\ i \in 1..Depth(u)
               /\ stack'[u][i].object = stack[u][i].object
               /\ Works(u, i)' => Works(u, i)
               /\ stack'[u][i].pc = "closure" => stack[u][i].pc = "closure"
               /\ stack'[u][i].pc = "wait" =>
                    \/ stack[u][i].pc = "wait"
                    \/ once[stack[u][i].object] # ONCE_STATE_UNINITIALIZED
    <3>1. i \in 1..Depth(u)
      BY <1>3, MovesFields
    <3>2. /\ stack'[u][i].object = stack[u][i].object
          /\ stack'[u][i].pc = IF u = t /\ i = Depth(t) THEN to ELSE stack[u][i].pc
          /\ stack[t][Depth(t)].pc = from
      BY <1>3, <3>1, MovesFields
    <3> QED  BY <1>3, <3>1, <3>2 DEF Works
  <2> QED  BY <1>3, <2>1, QuietStep
<1>4. CASE FastPath(t) \/ AcquireLoad(t)
  <2>1. /\ once' = once /\ runs' = runs
        /\ Drops(t) \/ Moves(t, "fast", "load") \/ Moves(t, "load", "swap")
    BY <1>4 DEF FastPath, AcquireLoad, Drops, Moves, At
  <2> QED  BY <1>2, <1>3, <2>1 DEF Pcs
<1>5. CASE AcquireCompareAndSwap(t)
  <2>1. At(t, "swap")
    BY <1>5 DEF AcquireCompareAndSwap
  <2>2. CASE once[o] = ONCE_STATE_UNINITIALIZED
    <3>1. /\ once' = [once EXCEPT ![o] = ONCE_STATE_EXECUTING_CLOSURE] /\ runs' = runs
          /\ Moves(t, "swap", "closure")
      BY <1>1, <1>5, <2>1, <2>2
      DEF AcquireCompareAndSwap, Moves, ONCE_STATE_UNINITIALIZED, ONCE_STATE_EXECUTING_CLOSURE,
          ONCE_STATE_DONE
    <3>2. o \in Objects /\ once \in [Objects -> 0..2] /\ runs[o] = 0
      BY <1>1, <2>1, <2>2 DEF TypeOK, RunsInv
    <3> HIDE DEF o
    <3>3. ASSUME NEW u \in Threads, NEW i \in 1..Depth(u)'
          PROVE  /\ i \in 1..Depth(u)
                 /\ stack'[u][i].object = stack[u][i].object
                 /\ stack'[u][i].object \in Objects
                 /\ stack'[u][i].pc = IF u = t /\ i = Depth(t) THEN "closure" ELSE stack[u][i].pc
                 /\ Marked(u, i)
      BY <1>0, <3>1, MovesFields DEF RunsInv, Pcs
    <3>4. ASSUME NEW u \in Threads, NEW i \in 1..Depth(u)', Works(u, i)', ~(u = t /\ i = Depth(t))
          PROVE  Works(u, i) /\ stack'[u][i].object # o
      <4>1. Works(u, i)
        BY <3>3, <3>4 DEF Works
      <4> QED
        BY <2>2, <3>3, <4>1 DEF Marked, ONCE_STATE_UNINITIALIZED, ONCE_STATE_EXECUTING_CLOSURE
    <3>5. stack'[t][Depth(t)].object = o /\ stack'[t][Depth(t)].pc = "closure" /\ Depth(t)' = Depth(t)
      BY <1>1, <2>1, <3>1, MovesFields DEF o, Pcs
    <3>6. ASSUME NEW u \in Threads, NEW i \in 1..Depth(u)'
          PROVE  Marked(u, i)'
      <4>1. CASE u = t /\ i = Depth(t)
        BY <3>1, <3>2, <3>5, <4>1 DEF Marked, Works
      <4>2. CASE ~(u = t /\ i = Depth(t))
        <5>1. once'[stack'[u][i].object] =
                IF stack'[u][i].object = o THEN ONCE_STATE_EXECUTING_CLOSURE
                ELSE once[stack[u][i].object]
          BY <3>1, <3>2, <3>3
        <5>2. stack'[u][i].pc = stack[u][i].pc /\ stack'[u][i].object = stack[u][i].object
          BY <3>3, <4>2
        <5> QED
          BY <3>1, <3>3, <3>4, <4>2, <5>1, <5>2
          DEF Marked, Works, ONCE_STATE_UNINITIALIZED, ONCE_STATE_EXECUTING_CLOSURE
      <4> QED  BY <4>1, <4>2
    <3>7. RunsInv'
      <4>1. \A x \in Objects : runs'[x] <= 1 /\ (once'[x] = ONCE_STATE_UNINITIALIZED => runs'[x] = 0)
        BY <3>1, <3>2 DEF RunsInv, ONCE_STATE_UNINITIALIZED, ONCE_STATE_EXECUTING_CLOSURE
      <4> QED  BY <3>6, <4>1 DEF RunsInv
    <3>8. OneWorks'
      BY <3>3, <3>4, <3>5 DEF OneWorks
    <3> QED  BY <3>7, <3>8
  <2>3. CASE once[o] # ONCE_STATE_UNINITIALIZED
    <3>1. once' = once /\ runs' = runs /\ (Drops(t) \/ Moves(t, "swap", "wait"))
      BY <1>1, <1>5, <2>1, <2>3 DEF AcquireCompareAndSwap, Drops, Moves, At
    <3> QED  BY <1>2, <1>3, <2>3, <3>1 DEF Pcs
  <2> QED  BY <2>2, <2>3
<1>6. CASE RunClosure(t)
  <2>1. At(t, "closure") /\ Moves(t, "closure", "run") /\ once' = once
    BY <1>6 DEF RunClosure, Moves
  <2>2. /\ o \in Objects /\ Depth(t) \in 1..Depth(t) /\ Works(t, Depth(t))
        /\ runs' = [runs EXCEPT ![o] = runs[o] + 1]
    BY <1>1, <1>6, <2>1 DEF RunClosure, Works
  <2>3. /\ runs \in [Objects -> Nat] /\ runs[o] = 0
        /\ once[o] = ONCE_STATE_EXECUTING_CLOSURE
    BY <1>1, <2>1, <2>2 DEF TypeOK, RunsInv, Marked
  <2> HIDE DEF o
  <2>4. ASSUME NEW u \in Threads, NEW i \in 1..Depth(u)'
        PROVE  /\ i \in 1..Depth(u)
               /\ stack'[u][i].object = stack[u][i].object
               /\ stack'[u][i].object \in Objects
               /\ stack'[u][i].pc = IF u = t /\ i = Depth(t) THEN "run" ELSE stack[u][i].pc
               /\ Marked(u, i)
               /\ Works(u, i)' => Works(u, i)
    BY <1>0, <2>1, <2>2, MovesFields DEF RunsInv, Pcs, Works
  <2>5. ASSUME NEW u \in Threads, NEW i \in 1..Depth(u)', ~(u = t /\ i = Depth(t)), Works(u, i)'
        PROVE  stack'[u][i].object # o
    BY <2>2, <2>4, <2>5 DEF OneWorks, o
  <2>6. ASSUME NEW u \in Threads, NEW i \in 1..Depth(u)'
        PROVE  Marked(u, i)'
    <3>1. stack'[u][i].pc = "closure" => runs'[stack'[u][i].object] = runs[stack[u][i].object]
                                         /\ stack[u][i].pc = "closure"
      BY <2>2, <2>3, <2>4, <2>5 DEF Works
    <3>2. stack'[u][i].pc = "wait" => stack[u][i].pc = "wait"
      BY <2>4
    <3> QED  BY <2>1, <2>4, <3>1, <3>2 DEF Marked
  <2>7. RunsInv'
    <3>1. \A x \in Objects : runs'[x] <= 1 /\ (once'[x] = ONCE_STATE_UNINITIALIZED => runs'[x] = 0)
      BY <2>1, <2>2, <2>3 DEF RunsInv, ONCE_STATE_UNINITIALIZED, ONCE_STATE_EXECUTING_CLOSURE
    <3> QED  BY <2>6, <3>1 DEF RunsInv
  <2>8. OneWorks'
    BY <2>4 DEF OneWorks
  <2> QED  BY <2>7, <2>8
<1>7. CASE CallNeeded(t)
  <2>1. once' = once /\ runs' = runs
    BY <1>7 DEF CallNeeded
  <2>2. ASSUME NEW u \in Threads, NEW i \in 1..Depth(u)'
        PROVE  \/ /\ i \in 1..Depth(u)
                  /\ stack'[u][i].object = stack[u][i].object
                  /\ stack'[u][i].pc = stack[u][i].pc
               \/ stack'[u][i].pc = "fast"
    <3>1. i \in 1..Depth(u) \/ (u = t /\ i = Depth(t) + 1)
      BY <1>0, <1>7, PushFields
    <3> QED  BY <1>7, <3>1, PushFields
  <2> QED  BY <2>1, <2>2, QuietStep DEF Works
<1>8. CASE EndClosure(t)
  <2>1. once' = once /\ runs' = runs /\ Moves(t, "run", "store")
    BY <1>8 DEF EndClosure, Moves
  <2> QED  BY <1>3, <2>1 DEF Pcs
<1>9. CASE ReleaseStore(t)
  <2>1. At(t, "store") /\ Drops(t) /\ runs' = runs
    BY <1>9 DEF ReleaseStore, Drops, At
  <2>2. /\ o \in Objects /\ Depth(t) \in 1..Depth(t) /\ Works(t, Depth(t))
        /\ once' = [once EXCEPT ![o] = ONCE_STATE_DONE]
    BY <1>1, <1>9, <2>1 DEF ReleaseStore, Works
  <2>3. once \in [Objects -> 0..2]
    BY DEF TypeOK
  <2> HIDE DEF o
  <2>4. ASSUME NEW u \in Threads, NEW i \in 1..Depth(u)'
        PROVE  /\ i \in 1..Depth(u) /\ stack'[u][i] = stack[u][i]
               /\ stack[u][i].object \in Objects
               /\ Marked(u, i)
               /\ ~(u = t /\ i = Depth(t))
    BY <1>0, <2>1, DropsFrames DEF RunsInv
  <2>5. ASSUME NEW u \in Threads, NEW i \in 1..Depth(u)', Works(u, i)'
        PROVE  Works(u, i) /\ stack[u][i].object # o
    <3>1. Works(u, i)
      BY <2>4, <2>5 DEF Works
    <3> QED  BY <2>2, <2>4, <3>1 DEF OneWorks, o
  <2>6. ASSUME NEW u \in Threads, NEW i \in 1..Depth(u)'
        PROVE  Marked(u, i)'
    <3>1. once'[stack[u][i].object] = IF stack[u][i].object = o THEN ONCE_STATE_DONE
                                      ELSE once[stack[u][i].object]
      BY <2>2, <2>3, <2>4
    <3> QED
      BY <2>1, <2>4, <2>5, <3>1
      DEF Marked, ONCE_STATE_UNINITIALIZED, ONCE_STATE_EXECUTING_CLOSURE, ONCE_STATE_DONE
  <2>7. RunsInv'
    <3>1. \A x \in Objects : runs'[x] <= 1 /\ (once'[x] = ONCE_STATE_UNINITIALIZED => runs'[x] = 0)
      BY <2>1, <2>2, <2>3 DEF RunsInv, ONCE_STATE_UNINITIALIZED, ONCE_STATE_DONE
    <3> QED  BY <2>6, <3>1 DEF RunsInv
  <2>8. OneWorks'
    BY <2>4, <2>5 DEF OneWorks
  <2> QED  BY <2>7, <2>8
<1>10. CASE Wait(t)
  BY <1>2, <1>10 DEF Wait, Drops, At
<1>11. ASSUME NEW x \in Objects, Call(t, x)
       PROVE  RunsInv' /\ OneWorks'
  <2>1. once' = once /\ runs' = runs
    BY <1>11 DEF Call
  <2>2. ASSUME NEW u \in Threads, NEW i \in 1..Depth(u)'
        PROVE  (i \in 1..Depth(u) /\ stack'[u][i] = stack[u][i]) \/ stack'[u][i].pc = "fast"
    <3>1. CASE u = t
      <4>1. i = 1 /\ stack'[u][i] = Called(x)
        BY <1>11, <3>1, CallFrames
      <4> QED  BY <4>1 DEF Called
    <3>2. CASE u # t
      BY <1>11, <3>2, CallFrames
    <3> QED  BY <3>1, <3>2
  <2> QED  BY <2>1, <2>2, QuietStep DEF Works
<1> QED
  BY <1>4, <1>5, <1>6, <1>7, <1>8, <1>9, <1>10, <1>11 DEF Step
\* What a thread knows it does not forget.
LEMMA KnowledgeGrows ==
  ASSUME TypeOK, NEW t \in Threads, Step(t) \/ \E o \in Objects : Call(t, o)
  PROVE  \A u \in Threads : knows[u] \subseteq knows'[u]
<1>1. knows \in [Threads -> SUBSET Objects]
  BY DEF TypeOK
<1>2. CASE Acquire(t)
  BY <1>1, <1>2 DEF Acquire
<1>3. CASE EndClosure(t)
  BY <1>1, <1>3 DEF EndClosure
<1>4. CASE UNCHANGED knows
  BY <1>4
<1> QED
  BY <1>2, <1>3, <1>4
  DEF Step, Call, FastPath, AcquireLoad, AcquireCompareAndSwap, RunClosure, CallNeeded,
      ReleaseStore, Wait

\* The point of the protocol: who drops a frame knows what its object needs.
LEMMA DropsComplete ==
  ASSUME TypeOK, RunsInv, PublishedInv, KnowsInv, NEW t \in Threads, Step(t), Drops(t)
  PROVE  Complete(stack[t][Depth(t)].object, knows'[t])
<1> DEFINE o == stack[t][Depth(t)].object
<1>0. knows \in [Threads -> SUBSET Objects] /\ once \in [Objects -> 0..2]
  BY DEF TypeOK
<1>1. ASSUME NEW pc, At(t, pc)
      PROVE  /\ Top(t).object = o /\ o \in Objects /\ stack[t][Depth(t)].pc = pc
             /\ Depth(t) \in 1..Depth(t)
  BY <1>1, TopFrame
<1>2. Depth(t)' # Depth(t) /\ Depth(t)' # Depth(t) + 1
  BY DropsFrames
<1>3. ASSUME NEW from, NEW to \in Pcs  PROVE  ~Moves(t, from, to)
  BY <1>2, MovesFields
<1>4. ASSUME NEW pc, At(t, pc), Acquire(t), once[o] = ONCE_STATE_DONE
      PROVE  Complete(o, knows'[t])
  <2>1. Complete(o, published[o]) /\ knows'[t] = knows[t] \cup published[o]
    BY <1>0, <1>1, <1>4 DEF PublishedInv, Acquire
  <2> QED  BY <2>1 DEF Complete
<1>5. CASE FastPath(t) \/ AcquireLoad(t)
  <2>1. ~Moves(t, "fast", "load") /\ ~Moves(t, "load", "swap")
    BY <1>3 DEF Pcs
  <2>2. PICK pc \in {"fast", "load"} : At(t, pc) /\ Acquire(t) /\ once[Top(t).object] = ONCE_STATE_DONE
    BY <1>5, <2>1 DEF FastPath, AcquireLoad, Moves
  <2> QED  BY <1>1, <1>4, <2>2
<1>6. CASE AcquireCompareAndSwap(t)
  <2>1. ~Moves(t, "swap", "closure") /\ ~Moves(t, "swap", "wait")
    BY <1>3 DEF Pcs
  <2>2. At(t, "swap") /\ Acquire(t) /\ once[Top(t).object] = ONCE_STATE_DONE
    BY <1>6, <2>1 DEF AcquireCompareAndSwap, Moves
  <2> QED  BY <1>1, <1>4, <2>2
<1>7. CASE Wait(t)
  <2>1. /\ At(t, "wait") /\ Acquire(t)
        /\ once[Top(t).object] # ONCE_STATE_EXECUTING_CLOSURE
    BY <1>7 DEF Wait
  <2>2. Marked(t, Depth(t)) /\ o \in Objects
    BY <1>1, <2>1 DEF RunsInv
  <2>3. once[o] = ONCE_STATE_DONE
    BY <1>0, <1>1, <2>1, <2>2
    DEF Marked, ONCE_STATE_UNINITIALIZED, ONCE_STATE_EXECUTING_CLOSURE, ONCE_STATE_DONE
  <2> QED  BY <1>4, <2>1, <2>3
<1>8. CASE ReleaseStore(t)
  <2>1. At(t, "store") /\ knows' = knows
    BY <1>8 DEF ReleaseStore
  <2>2. Informed(t, Depth(t))
    BY <1>1, <2>1 DEF KnowsInv
  <2> QED  BY <1>1, <2>1, <2>2 DEF Informed
<1>9. CASE RunClosure(t) \/ EndClosure(t)
  <2>1. ~Moves(t, "closure", "run") /\ ~Moves(t, "run", "store")
    BY <1>3 DEF Pcs
  <2> QED  BY <1>9, <2>1 DEF RunClosure, EndClosure, Moves
<1>10. CASE CallNeeded(t)
  BY <1>2, <1>10, PushFields
<1> QED
  BY <1>5, <1>6, <1>7, <1>8, <1>9, <1>10 DEF Step

LEMMA PublishedPreserved ==
  ASSUME TypeOK, RunsInv, PublishedInv, KnowsInv, NEW t \in Threads,
         Step(t) \/ \E o \in Objects : Call(t, o)
  PROVE  PublishedInv'
<1>0. once \in [Objects -> 0..2] /\ published \in [Objects -> SUBSET Objects]
  BY DEF TypeOK
<1>1. CASE ReleaseStore(t)
  <2> DEFINE o == Top(t).object
  <2>1. /\ At(t, "store") /\ Drops(t) /\ knows' = knows
        /\ once' = [once EXCEPT ![o] = ONCE_STATE_DONE]
        /\ published' = [published EXCEPT ![o] = knows[t]]
    BY <1>1 DEF ReleaseStore, Drops, At
  <2>2. o \in Objects /\ o = stack[t][Depth(t)].object
    BY <2>1, TopFrame
  <2>3. Complete(o, knows[t])
    BY <1>1, <2>1, <2>2, DropsComplete DEF Step
  <2> HIDE DEF o
  <2> QED  BY <1>0, <2>1, <2>2, <2>3 DEF PublishedInv
<1>2. CASE AcquireCompareAndSwap(t)
  <2>1. Top(t).object \in Objects
    BY <1>2, TopFrame DEF AcquireCompareAndSwap
  <2>2. /\ published' = published
        /\ \A o \in Objects : once'[o] = ONCE_STATE_DONE => once[o] = ONCE_STATE_DONE
    BY <1>0, <1>2, <2>1
    DEF AcquireCompareAndSwap, ONCE_STATE_EXECUTING_CLOSURE, ONCE_STATE_DONE
  <2> QED  BY <2>2 DEF PublishedInv
<1>3. CASE published' = published /\ once' = once
  BY <1>3 DEF PublishedInv
<1> QED
  BY <1>1, <1>2, <1>3 DEF Step, Call, FastPath, AcquireLoad, RunClosure, CallNeeded, EndClosure, Wait

LEMMA KnowsPreserved ==
  ASSUME TypeOK, FrameInv, RunsInv, PublishedInv, KnowsInv, NEW t \in Threads,
         Step(t) \/ \E o \in Objects : Call(t, o)
  PROVE  KnowsInv'
<1>0. \A u \in Threads :
        /\ Depth(u) \in Nat /\ knows[u] \subseteq knows'[u]
        /\ \A i \in 1..Depth(u) : stack[u][i] \in Frames /\ WellPlaced(u, i) /\ Informed(u, i)
  BY AllFrames, KnowledgeGrows DEF FrameInv, KnowsInv
\* A frame that is not touched, and not uncovered.
<1>1. ASSUME NEW u \in Threads, NEW i \in 1..Depth(u)', i \in 1..Depth(u),
             stack'[u][i].object = stack[u][i].object,
             stack'[u][i].pc = stack[u][i].pc,
             stack'[u][i].n = stack[u][i].n,
             i = Depth(u)' => i = Depth(u)
      PROVE  Informed(u, i)'
  BY <1>0, <1>1 DEF Informed, Complete
<1>2. ASSUME NEW e \in Edges, Moves(t, e[1], e[2]), Step(t),
             NEW u \in Threads, NEW i \in 1..Depth(u)'
      PROVE  Informed(u, i)'
  <2>1. e[2] \in Pcs
    BY DEF Edges, Pcs
  <2>2. /\ i \in 1..Depth(u) /\ Depth(u)' = Depth(u)
        /\ stack'[u][i].object = stack[u][i].object
        /\ stack'[u][i].n = stack[u][i].n
        /\ stack'[u][i].pc = IF u = t /\ i = Depth(t) THEN e[2] ELSE stack[u][i].pc
        /\ stack[t][Depth(t)].pc = e[1] /\ Depth(t) \in Nat \ {0} /\ Depth(t)' = Depth(t)
    BY <1>2, <2>1, MovesFields
  <2>3. CASE ~(u = t /\ i = Depth(t))
    BY <1>1, <2>2, <2>3
  <2>4. CASE u = t /\ i = Depth(t)
    <3>1. stack[t][i] \in Frames /\ WellPlaced(t, i) /\ Informed(t, i)
      BY <1>0, <2>2, <2>4
    <3>2. CASE e[2] \in {"load", "swap", "closure", "wait"}
      BY <2>2, <2>4, <3>2 DEF Informed
    <3>3. CASE e[2] = "run"
      <4>1. e[1] = "closure"
        BY <3>3 DEF Edges
      <4>2. stack'[t][i].n = 0
        BY <2>2, <2>4, <3>1, <4>1 DEF WellPlaced
      <4> QED  BY <2>2, <2>4, <3>3, <4>2 DEF Informed
    <3>4. CASE e[2] = "store"
      <4>1. e[1] = "run"
        BY <3>4 DEF Edges
      <4>2. Top(t) = stack[t][i] /\ Top(t).pc = "run"
        BY <1>2, <2>4, <4>1, TopFrame DEF Moves
      <4>3. EndClosure(t)
        <5>1. stack'[t][Depth(t)].pc = "store"
          BY <2>2, <2>4, <3>4
        <5>2. At(t, "run")
          BY <1>2, <4>1 DEF Moves
        <5>3. ~CallNeeded(t)
          BY <2>2, <2>4, PushFields
        <5> QED
          BY <1>2, <4>2, <5>2, <5>3
          DEF Step, At, FastPath, AcquireLoad, AcquireCompareAndSwap, RunClosure, ReleaseStore, Wait
      <4>4. /\ stack[t][i].n = Len(Needs[stack[t][i].object])
            /\ knows'[t] = knows[t] \cup {stack[t][i].object}
        BY <4>2, <4>3 DEF EndClosure, TypeOK
      <4>5. Complete(stack[t][i].object, knows'[t])
        BY <2>4, <3>1, <4>2, <4>4 DEF Informed, Complete
      <4> QED  BY <2>2, <2>4, <3>4, <4>5 DEF Informed
    <3> QED  BY <3>2, <3>3, <3>4 DEF Edges
  <2> QED  BY <2>3, <2>4
<1>3. ASSUME Drops(t), Step(t), NEW u \in Threads, NEW i \in 1..Depth(u)'
      PROVE  Informed(u, i)'
  <2>1. /\ i \in 1..Depth(u) /\ stack'[u][i] = stack[u][i]
        /\ Depth(u)' = IF u = t THEN Depth(t) - 1 ELSE Depth(u)
        /\ Depth(t) \in Nat \ {0} /\ Depth(u) \in Nat
    BY <1>0, <1>3, DropsFrames
  <2>2. CASE ~(u = t /\ i = Depth(t) - 1)
    <3>1. i = Depth(u)' => i = Depth(u)
      BY <2>1, <2>2
    <3> QED  BY <1>1, <2>1, <3>1
  <2>3. CASE u = t /\ i = Depth(t) - 1
    <3>1. i < Depth(t) /\ i + 1 = Depth(t)
      BY <2>1, <2>3
    <3>2. stack[t][i] \in Frames /\ WellPlaced(t, i) /\ Informed(t, i)
      BY <1>0, <2>1, <2>3
    <3>3. /\ stack[t][i].pc = "run" /\ stack[t][i].n \in Nat
          /\ stack[t][i + 1].object = Needs[stack[t][i].object][stack[t][i].n]
      BY <3>1, <3>2 DEF WellPlaced, Frames
    <3>4. Needs[stack[t][i].object][stack[t][i].n] \in knows'[t]
      BY <1>3, <3>1, <3>3, DropsComplete DEF Complete
    <3>5. \A k \in 1..stack[t][i].n : k < stack[t][i].n => Needs[stack[t][i].object][k] \in knows[t]
      BY <3>2, <3>3 DEF Informed
    <3>6. knows[t] \subseteq knows'[t]
      BY <1>0
    <3>7. \A k \in 1..stack[t][i].n : Needs[stack[t][i].object][k] \in knows'[t]
      BY <3>3, <3>4, <3>5, <3>6
    <3> QED  BY <2>1, <2>3, <3>3, <3>7 DEF Informed
  <2> QED  BY <2>2, <2>3
<1>4. ASSUME CallNeeded(t), NEW u \in Threads, NEW i \in 1..Depth(u)'
      PROVE  Informed(u, i)'
  <2>1. /\ Depth(u)' = IF u = t THEN Depth(t) + 1 ELSE Depth(u)
        /\ Depth(u) \in Nat /\ Depth(t) \in Nat \ {0}
    BY <1>0, <1>4, PushFields
  <2>2. CASE u = t /\ i = Depth(t) + 1
    <3>1. stack'[t][i].pc = "fast"
      BY <1>4, <2>2, PushFields
    <3> QED  BY <2>2, <3>1 DEF Informed
  <2>3. CASE u = t /\ i = Depth(t)
    <3>1. /\ i \in 1..Depth(t) /\ i # Depth(t)' /\ stack[t][i].pc = "run"
          /\ stack'[t][i].object = stack[t][i].object
          /\ stack'[t][i].pc = "run"
          /\ stack'[t][i].n = stack[t][i].n + 1
      BY <1>4, <2>1, <2>3, PushFields
    <3>2. Informed(t, i) /\ stack[t][i].n \in Nat /\ knows[t] \subseteq knows'[t]
      BY <1>0, <3>1 DEF Frames
    <3>3. \A k \in 1..stack[t][i].n : Needs[stack[t][i].object][k] \in knows'[t]
      BY <2>3, <3>1, <3>2 DEF Informed
    <3>4. \A k \in 1..stack'[t][i].n : k < stack'[t][i].n => k \in 1..stack[t][i].n
      BY <3>1, <3>2
    <3> QED  BY <2>3, <3>1, <3>3, <3>4 DEF Informed
  <2>4. CASE ~(u = t /\ i = Depth(t) + 1) /\ ~(u = t /\ i = Depth(t))
    <3>1. i \in 1..Depth(u) /\ (i = Depth(u)' => i = Depth(u))
      BY <2>1, <2>4
    <3> QED  BY <1>1, <1>4, <2>4, <3>1, PushFields
  <2> QED  BY <2>2, <2>3, <2>4
<1>5. ASSUME NEW o \in Objects, Call(t, o), NEW u \in Threads, NEW i \in 1..Depth(u)'
      PROVE  Informed(u, i)'
  <2>1. CASE u = t
    <3>1. i = 1 /\ stack'[u][i] = Called(o)
      BY <1>5, <2>1, CallFrames
    <3> QED  BY <3>1 DEF Informed, Called
  <2>2. CASE u # t
    <3>1. stack'[u] = stack[u] /\ Depth(u)' = Depth(u) /\ i \in 1..Depth(u)
      BY <1>5, <2>2, CallFrames
    <3> QED  BY <1>1, <3>1
  <2> QED  BY <2>1, <2>2
<1>6. \A u \in Threads : \A i \in 1..Depth(u)' : Informed(u, i)'
  BY <1>2, <1>3, <1>4, <1>5, StepShape
<1> QED
  BY <1>6 DEF KnowsInv
-----------------------------------------------------------------------------
(* The theorems.                                                           *)

LEMMA InitInvariant ==
  ASSUME NEW before \in SUBSET Objects, StaticallyDone(before), InitAfter(before)
  PROVE  OnceInv
<1>1. /\ once = [o \in Objects |-> IF o \in before THEN 2 ELSE 0]
      /\ published = [o \in Objects |-> IF o \in before THEN before ELSE {}]
      /\ runs = [o \in Objects |-> IF o \in before THEN 1 ELSE 0]
      /\ knows = [t \in Threads |-> before]
      /\ stack = [t \in Threads |-> << >>]
  BY DEF InitAfter, ONCE_STATE_DONE, ONCE_STATE_UNINITIALIZED
<1>2. \A t \in Threads : Depth(t) = 0
  BY <1>1 DEF Depth
<1>3. TypeOK
  <2>1. << >> \in Seq(Frames)
    OBVIOUS
  <2> QED  BY <1>1, <2>1 DEF TypeOK, Frames, Pcs
<1>4. FrameInv /\ OneWorks /\ KnowsInv
  BY <1>2 DEF FrameInv, OneWorks, KnowsInv
<1>5. RunsInv
  BY <1>1, <1>2 DEF RunsInv, ONCE_STATE_UNINITIALIZED
<1>6. PublishedInv
  <2> SUFFICES ASSUME NEW o \in Objects, once[o] = ONCE_STATE_DONE
               PROVE  Complete(o, published[o])
    BY DEF PublishedInv
  <2>1. o \in before /\ published[o] = before
    BY <1>1 DEF ONCE_STATE_DONE
  <2>2. \A k \in 1..Len(Needs[o]) : Needs[o][k] \in before
    BY <2>1, NeedsOfObject DEF StaticallyDone
  <2> QED  BY <2>1, <2>2 DEF Complete
<1> QED
  BY <1>3, <1>4, <1>5, <1>6 DEF OnceInv

LEMMA StepInvariant ==
  ASSUME OnceInv, NEW t \in Threads, Step(t) \/ \E o \in Objects : Call(t, o)
  PROVE  OnceInv'
BY TypePreserved, FramesPreserved, RunsPreserved, PublishedPreserved, KnowsPreserved DEF OnceInv

\* Threads may also learn from one another by other means than once objects.
LEMMA LearnInvariant ==
  ASSUME OnceInv, UNCHANGED <<once, published, runs, stack>>,
         knows' \in [Threads -> SUBSET Objects],
         \A t \in Threads : knows[t] \subseteq knows'[t]
  PROVE  OnceInv'
<1>1. \A t \in Threads : Depth(t)' = Depth(t)
  BY DEF Depth
<1>2. TypeOK' /\ PublishedInv'
  BY DEF OnceInv, TypeOK, PublishedInv
<1>3. \A t \in Threads : \A i \in 1..Depth(t) :
        /\ WellPlaced(t, i)' = WellPlaced(t, i) /\ Marked(t, i)' = Marked(t, i)
        /\ Informed(t, i) => Informed(t, i)'
        /\ Works(t, i)' = Works(t, i)
  BY <1>1 DEF WellPlaced, Marked, Informed, Works, Complete
<1>4. FrameInv' /\ RunsInv' /\ KnowsInv' /\ OneWorks'
  BY <1>1, <1>3 DEF OnceInv, FrameInv, RunsInv, KnowsInv, OneWorks
<1> QED
  BY <1>2, <1>4 DEF OnceInv

LEMMA NextInvariant == OnceInv /\ [Next]_vars => OnceInv'
<1> SUFFICES ASSUME OnceInv, [Next]_vars
             PROVE  OnceInv'
  OBVIOUS
<1>1. CASE Next
  BY <1>1, StepInvariant DEF Next
<1>2. CASE UNCHANGED vars
  BY <1>2, LearnInvariant DEF OnceInv, TypeOK, vars
<1> QED
  BY <1>1, <1>2

\* For any threads and once objects, in whatever order they call: the states of the
\* objects, the calls under way and what is known of them satisfy OnceInv.
THEOREM OnceInvariant == Spec => []OnceInv
<1>1. Init => OnceInv
  BY InitInvariant DEF Init
<1>2. OnceInv /\ [Next]_vars => OnceInv'
  BY NextInvariant
<1> QED
  BY <1>1, <1>2, PTL DEF Spec

\* GoogleOnceInit invokes an initialiser on the first call only (once.h:48), however
\* many threads make that call at the same time.
THEOREM AlwaysInvokedOnce == Spec => []InvokedOnce
<1>1. OnceInv => InvokedOnce
  BY DEF OnceInv, RunsInv, InvokedOnce
<1> QED
  BY <1>1, OnceInvariant, PTL

\* No call returns before the initialiser has finished (once.h:48): the thread sees
\* what it wrote and what the initialisers it called wrote.
THEOREM AlwaysReturnsInitialized == Spec => ReturnsInitialized
<1> DEFINE Returns ==
      \A t \in Threads :
        Len(stack'[t]) < Len(stack[t]) =>
          LET o == stack[t][Len(stack[t])].object
          IN  o \in knows'[t] /\ \A i \in DOMAIN Needs[o] : Needs[o][i] \in knows'[t]
<1>1. OnceInv /\ [Next]_vars => [Returns]_vars
  <2> SUFFICES ASSUME OnceInv, Next, NEW t \in Threads, Depth(t)' < Depth(t)
               PROVE  LET o == stack[t][Len(stack[t])].object
                      IN  o \in knows'[t] /\ \A i \in DOMAIN Needs[o] : Needs[o][i] \in knows'[t]
    BY DEF Depth
  <2>1. TypeOK /\ \A u \in Threads : Depth(u) \in Nat
    BY AllFrames DEF OnceInv
  <2>2. PICK u \in Threads : Step(u) \/ \E o \in Objects : Call(u, o)
    BY DEF Next
  <2>3. ~CallNeeded(u)
    BY <2>1, PushFields
  <2>4. \A e \in Edges : ~Moves(u, e[1], e[2])
    <3>1. \A e \in Edges : e[2] \in Pcs
      BY DEF Edges, Pcs
    <3> QED  BY <2>1, <3>1, MovesFields
  <2>5. \A o \in Objects : ~Call(u, o)
    BY <2>1, CallFrames
  <2>6. Step(u) /\ Drops(u)
    BY <2>2, <2>3, <2>4, <2>5, StepShape
  <2>7. u = t
    BY <2>1, <2>6, DropsFrames
  <2>8. Complete(stack[t][Depth(t)].object, knows'[t])
    BY <2>6, <2>7, DropsComplete DEF OnceInv
  <2>9. stack[t][Depth(t)].object \in Objects
    BY <2>1, <2>6, <2>7, DropsFrames, AllFrames DEF Frames
  <2> QED  BY <2>8, <2>9, NeedsOfObject DEF Complete, Depth
<1> QED
  BY <1>1, OnceInvariant, PTL DEF Spec, ReturnsInitialized

-----------------------------------------------------------------------------
(* GetPrototype.                                                           *)

Holding == {"assign", "next", "register", "unlock"}

CallTyped ==
  /\ call \in [Threads -> [pc : {"idle", "look", "pool", "ours", "lock"} \cup Holding,
                           type : Types \cup OtherTypes \cup {""},
                           n : Nat]]
  /\ type_map \subseteq Types
  /\ unlocked \subseteq Objects

\* The mutex is held by the thread that registers, and by no other.
Exclusive == \A t \in Threads : call[t].pc \in Holding <=> mutex = t

\* The first n types of the file.
FirstTypes(n) == {FileTypes[k] : k \in 1..n}

\* How far a call has come, and with it the registration.
Registered(t) ==
  /\ call[t].pc \in {"look", "pool", "ours", "lock", "assign"} => call[t].n = 0
  /\ call[t].pc \in {"look", "pool", "ours"} => call[t].type \in Types \cup OtherTypes
  /\ call[t].pc \in {"lock"} \cup Holding => call[t].type \in Types
  /\ call[t].pc = "assign" => type_map = {}
  /\ call[t].pc \in {"next", "register"} =>
       call[t].n <= Len(FileTypes) /\ type_map = FirstTypes(call[t].n)
  /\ call[t].pc = "register" => call[t].n < Len(FileTypes)
  /\ call[t].pc = "unlock" => type_map = Types

RegisterInv ==
  /\ ~fatal
  /\ mutex = NoThread => type_map \in {{}, Types}
  /\ \A t \in Threads : Registered(t)

\* t is in the GoogleOnceInit for the descriptors.
Assigns(t) == stack[t] # << >> /\ stack[t][1].object = Descriptors

\* Registered types come with their descriptors.
DescriptorsInv ==
  /\ (mutex = NoThread /\ type_map # {}) => Descriptors \in unlocked
  /\ \A t \in Threads :
       call[t].pc \in {"next", "register", "unlock"} =>
         Descriptors \in knows[t] \/ Assigns(t)

FactoryInv == OnceInv /\ CallTyped /\ Exclusive /\ RegisterInv /\ DescriptorsInv

-----------------------------------------------------------------------------
LEMMA FileTypesList ==
  /\ Len(FileTypes) \in Nat
  /\ DOMAIN FileTypes = 1..Len(FileTypes)
  /\ \A n \in 1..Len(FileTypes) : FileTypes[n] \in Types
  /\ FirstTypes(0) = {}
  /\ FirstTypes(Len(FileTypes)) = Types
BY TypesAssumption DEF Types, FirstTypes

\* What a step inside GoogleOnceInit does to the call it began with.
LEMMA BottomFrame ==
  ASSUME OnceInv, NEW t \in Threads, Step(t), NEW u \in Threads
  PROVE  /\ u # t => stack'[u] = stack[u]
         /\ stack'[u] # << >> => stack[u] # << >> /\ stack'[u][1].object = stack[u][1].object
         /\ (stack[u] # << >> /\ stack'[u] = << >>) => Complete(stack[u][1].object, knows'[u])
<1>0. /\ TypeOK /\ TypeOK'
      /\ stack \in [Threads -> Seq(Frames)] /\ stack' \in [Threads -> Seq(Frames)]
  BY TypePreserved DEF OnceInv, TypeOK, Frames, Pcs
<1>1. /\ Depth(u) \in Nat /\ (Depth(u) = 0 <=> stack[u] = << >>)
      /\ Depth(u)' \in Nat /\ (Depth(u)' = 0 <=> stack'[u] = << >>)
  BY <1>0, EmptySeq DEF Depth
<1>2. ASSUME NEW e \in Edges, Moves(t, e[1], e[2])
      PROVE  /\ u # t => stack'[u] = stack[u]
             /\ Depth(u)' = Depth(u)
             /\ Depth(u) >= 1 => stack'[u][1].object = stack[u][1].object
  <2>1. e[2] \in Pcs /\ stack[t] # << >>
    BY <1>2 DEF Edges, Pcs, Moves, At
  <2>2. u # t => stack'[u] = stack[u]
    BY <1>0, <1>2, <2>1, GotoFrames DEF Moves
  <2>3. Depth(u) >= 1 => 1 \in 1..Depth(u)
    BY <1>1
  <2> QED  BY <1>0, <1>2, <2>1, <2>2, <2>3, MovesFields
<1>3. CASE Drops(t)
  <2>1. /\ u # t => stack'[u] = stack[u]
        /\ Depth(u)' = IF u = t THEN Depth(t) - 1 ELSE Depth(u)
    BY <1>0, <1>3, ReturnFrames DEF Drops
  <2>2. Depth(u)' >= 1 => 1 \in 1..Depth(u)'
    BY <1>1
  <2>3. Depth(u)' >= 1 => stack'[u][1] = stack[u][1] /\ Depth(u) >= 1
    BY <1>0, <1>1, <1>3, <2>1, <2>2, DropsFrames
  <2>4. Complete(stack[t][Depth(t)].object, knows'[t])
    BY <1>3, DropsComplete DEF OnceInv
  <2>5. Depth(u) >= 1 /\ Depth(u)' = 0 => u = t /\ Depth(t) = 1
    BY <1>1, <2>1
  <2> QED  BY <1>1, <2>1, <2>3, <2>4, <2>5
<1>4. CASE CallNeeded(t)
  <2>1. u # t => stack'[u] = stack[u]
    BY <1>0, <1>4, PushFrames DEF CallNeeded
  <2>2. /\ Depth(t) >= 1
        /\ Depth(u)' = IF u = t THEN Depth(t) + 1 ELSE Depth(u)
        /\ Depth(u) >= 1 => stack'[u][1].object = stack[u][1].object
    <3>1. Depth(u) >= 1 => 1 \in 1..Depth(u)
      BY <1>1
    <3> QED  BY <1>0, <1>4, <3>1, PushFields
  <2> QED  BY <1>1, <2>1, <2>2
<1> QED
  BY <1>1, <1>2, <1>3, <1>4, StepShape

LEMMA FactoryInit == MFInit => FactoryInv
<1> SUFFICES ASSUME MFInit  PROVE FactoryInv
  OBVIOUS
<1>1. StaticallyDone(AtStartup) /\ AtStartup \in SUBSET Objects
  <2> SUFFICES ASSUME NEW o \in AtStartup, NEW i \in DOMAIN Needs[o]
               PROVE  Needs[o][i] \in AtStartup
    BY DEF StaticallyDone, AtStartup
  <2> QED  BY PartsAssumption, NeedsAssumption DEF AtStartup
<1>2. OnceInv
  BY <1>1, InitInvariant DEF MFInit
<1>3. /\ call = [t \in Threads |-> NoCall] /\ mutex = NoThread /\ type_map = {}
      /\ unlocked = {} /\ ~fatal
  BY DEF MFInit
<1>4. CallTyped /\ Exclusive /\ RegisterInv /\ DescriptorsInv
  BY <1>3, NoThreadAssumption
  DEF CallTyped, Exclusive, Holding, RegisterInv, Registered, DescriptorsInv, NoCall
<1> QED
  BY <1>2, <1>4 DEF FactoryInv
-----------------------------------------------------------------------------
(* The steps.                                                              *)

Acts(t) ==
  \/ Goes(t) \/ Look(t) \/ Lock(t) \/ Descriptor(t)
  \/ \E type \in Types \cup OtherTypes : GetPrototype(t, type)

\* The once objects see calls, their own steps, and threads that learn by the lock.
LEMMA OnceKept ==
  ASSUME FactoryInv, NEW t \in Threads, Acts(t)
  PROVE  OnceInv'
<1>0. OnceInv /\ TypeOK /\ unlocked \subseteq Objects
  BY DEF FactoryInv, OnceInv, CallTyped
<1>1. CASE InOnceInit(t)
  BY <1>0, <1>1, StepInvariant DEF InOnceInit
<1>2. ASSUME NEW o \in Objects, NEW pc, Initialize(t, o, pc)
      PROVE  OnceInv'
  BY <1>0, <1>2, StepInvariant DEF Initialize
<1>3. CASE Look(t) \/ Lock(t)
  <2>1. /\ UNCHANGED <<once, published, runs, stack>>
        /\ knows' = [knows EXCEPT ![t] = @ \cup unlocked]
    BY <1>3 DEF Look, Lock
  <2>2. knows \in [Threads -> SUBSET Objects]
    BY <1>0 DEF TypeOK
  <2> QED  BY <1>0, <2>1, <2>2, LearnInvariant
<1>4. CASE UNCHANGED vars
  BY <1>0, <1>4, LearnInvariant DEF TypeOK, vars
<1>5. {Pool, Descriptors, Factory} \subseteq Objects
  BY PartsAssumption
<1>6. CASE Descriptor(t)
  BY <1>0, <1>5, <1>6, StepInvariant DEF Descriptor
<1> QED
  BY <1>1, <1>2, <1>3, <1>4, <1>5, <1>6
  DEF Acts, Goes, AskPool, CheckPool, AssignDescriptors, AskFactory, RegisterType,
      EndRegistration, Unlock, GetPrototype

\* One call moves on; the others, and where they do not hold the lock the registration,
\* stay as they are.
LEMMA OneCall ==
  ASSUME CallTyped, Exclusive, RegisterInv, NEW t \in Threads,
         NEW c \in [pc : {"idle", "look", "pool", "ours", "lock"} \cup Holding,
                    type : Types \cup OtherTypes \cup {""}, n : Nat],
         call' = [call EXCEPT ![t] = c],
         type_map' \subseteq Types, unlocked' \subseteq Objects, ~fatal',
         type_map' = type_map \/ mutex = t,
         \/ mutex' = mutex /\ (c.pc \in Holding <=> call[t].pc \in Holding)
         \/ mutex = NoThread /\ mutex' = t /\ c.pc \in Holding
         \/ mutex = t /\ mutex' = NoThread /\ c.pc \notin Holding,
         mutex' = NoThread => type_map' \in {{}, Types},
         Registered(t)'
  PROVE  CallTyped' /\ Exclusive' /\ RegisterInv'
<1>1. CallTyped'
  BY DEF CallTyped
<1>2. \A u \in Threads : call'[u] = IF u = t THEN c ELSE call[u]
  BY DEF CallTyped
<1>3. Exclusive'
  BY <1>2, NoThreadAssumption DEF Exclusive
<1>4. ASSUME NEW u \in Threads
      PROVE  Registered(u)'
  <2>1. CASE u = t
    BY <2>1
  <2>2. CASE u # t
    <3>1. call'[u] = call[u] /\ Registered(u)
      BY <1>2, <2>2 DEF RegisterInv
    <3>2. type_map' = type_map \/ call[u].pc \notin Holding
      BY <2>2 DEF Exclusive
    <3> QED  BY <3>1, <3>2 DEF Registered, Holding
  <2> QED  BY <2>1, <2>2
<1> QED
  BY <1>1, <1>3, <1>4 DEF RegisterInv

LEMMA CallsKept ==
  ASSUME FactoryInv, NEW t \in Threads, Acts(t)
  PROVE  CallTyped' /\ Exclusive' /\ RegisterInv'
<1> DEFINE C == [pc : {"idle", "look", "pool", "ours", "lock"} \cup Holding,
                 type : Types \cup OtherTypes \cup {""}, n : Nat]
<1>0. /\ CallTyped /\ Exclusive /\ RegisterInv
      /\ call \in [Threads -> C] /\ call[t] \in C /\ Registered(t)
      /\ type_map \subseteq Types /\ unlocked \subseteq Objects /\ ~fatal
      /\ mutex = NoThread => type_map \in {{}, Types}
      /\ call[t].pc \in Holding <=> mutex = t
      /\ t # NoThread
  BY NoThreadAssumption DEF FactoryInv, CallTyped, Exclusive, RegisterInv
<1>k. knows \in [Threads -> SUBSET Objects]
  BY DEF FactoryInv, OnceInv, TypeOK
\* A call goes to pc and touches neither the lock nor the registration.
<1>1. ASSUME NEW pc \in {"idle", "look", "pool", "ours", "lock"} \cup Holding, Proceed(t, pc),
             UNCHANGED <<type_map, mutex, fatal>>, unlocked' \subseteq Objects,
             pc \in Holding <=> call[t].pc \in Holding,
             Registered(t)'
      PROVE  CallTyped' /\ Exclusive' /\ RegisterInv'
  <2> DEFINE c == [call[t] EXCEPT !.pc = pc]
  <2>1. c \in C /\ c.pc = pc /\ call' = [call EXCEPT ![t] = c]
    BY <1>0, <1>1 DEF Proceed
  <2> HIDE DEF c
  <2> QED  BY <1>0, <1>1, <2>1, OneCall
\* A call returns without having held the lock.
<1>2. ASSUME Answer(t), UNCHANGED <<type_map, mutex, fatal>>, unlocked' \subseteq Objects,
             call[t].pc \notin Holding
      PROVE  CallTyped' /\ Exclusive' /\ RegisterInv'
  <2>1. NoCall \in C /\ call' = [call EXCEPT ![t] = NoCall] /\ NoCall.pc = "idle"
    BY <1>2 DEF Answer, NoCall
  <2>2. Registered(t)' /\ NoCall.pc \notin Holding
    BY <1>0, <2>1 DEF Registered, Holding, NoCall
  <2> HIDE DEF NoCall
  <2> QED  BY <1>0, <1>2, <2>1, <2>2, OneCall
<1>3. ASSUME NEW pc, Proceed(t, pc)
      PROVE  call'[t].pc = pc /\ call'[t].type = call[t].type /\ call'[t].n = call[t].n
  BY <1>0, <1>3 DEF Proceed
<1>4. CASE InOnceInit(t) \/ Descriptor(t)
  <2>1. UNCHANGED <<call, type_map, mutex, unlocked, fatal>>
    BY <1>4 DEF InOnceInit, Descriptor, mfVars
  <2> QED  BY <1>0, <2>1 DEF CallTyped, Exclusive, RegisterInv, Registered
<1>5. ASSUME NEW type \in Types \cup OtherTypes, GetPrototype(t, type)
      PROVE  CallTyped' /\ Exclusive' /\ RegisterInv'
  <2> DEFINE c == [pc |-> "look", type |-> type, n |-> 0]
  <2>1. /\ c \in C /\ call' = [call EXCEPT ![t] = c] /\ c.pc \notin Holding
        /\ c.pc = "look" /\ c.type = type /\ c.n = 0
        /\ call[t].pc = "idle" /\ UNCHANGED <<type_map, mutex, unlocked, fatal>>
    BY <1>5 DEF GetPrototype, In, Holding
  <2> HIDE DEF c
  <2>2. Registered(t)' /\ call[t].pc \notin Holding
    BY <1>0, <2>1 DEF Registered, Holding
  <2> QED  BY <1>0, <2>1, <2>2, OneCall
<1>6. CASE Look(t)
  <2>1. /\ call[t].pc = "look" /\ UNCHANGED <<type_map, mutex, fatal>>
        /\ unlocked' = knows'[t] /\ knows' = [knows EXCEPT ![t] = @ \cup unlocked]
        /\ Answer(t) \/ Proceed(t, "pool")
    BY <1>6 DEF Look, In
  <2>2. unlocked' \subseteq Objects /\ call[t].pc \notin Holding
    BY <1>0, <1>k, <2>1 DEF Holding
  <2>3. ASSUME Proceed(t, "pool")
        PROVE  Registered(t)'
    <3>1. call'[t].pc = "pool" /\ call'[t].type = call[t].type /\ call'[t].n = call[t].n
      BY <1>3, <2>3
    <3> QED  BY <1>0, <2>1, <3>1 DEF Registered, Holding
  <2>4. "pool" \notin Holding
    BY DEF Holding
  <2> QED  BY <1>1, <1>2, <2>1, <2>2, <2>3, <2>4
<1>7. CASE AskPool(t)
  <2>1. call[t].pc = "pool" /\ Proceed(t, "ours") /\ UNCHANGED <<type_map, mutex, unlocked, fatal>>
    BY <1>7 DEF AskPool, Initialize, In
  <2>2. call'[t].pc = "ours" /\ call'[t].type = call[t].type /\ call'[t].n = call[t].n
    BY <1>3, <2>1
  <2>3. Registered(t)' /\ call[t].pc \notin Holding /\ "ours" \notin Holding
    BY <1>0, <2>1, <2>2 DEF Registered, Holding
  <2> QED  BY <1>0, <1>1, <2>1, <2>3
<1>8. CASE CheckPool(t)
  <2>1. /\ call[t].pc = "ours" /\ UNCHANGED <<type_map, mutex, unlocked, fatal>>
        /\ \/ Answer(t)
           \/ call[t].type \notin OtherTypes /\ Proceed(t, "lock")
    BY <1>8 DEF CheckPool, In
  <2>2. call[t].pc \notin Holding /\ "lock" \notin Holding
    BY <2>1 DEF Holding
  <2>3. ASSUME call[t].type \notin OtherTypes, Proceed(t, "lock")
        PROVE  Registered(t)'
    <3>1. call'[t].pc = "lock" /\ call'[t].type = call[t].type /\ call'[t].n = call[t].n
      BY <1>3, <2>3
    <3> QED  BY <1>0, <2>1, <2>3, <3>1 DEF Registered, Holding
  <2> QED  BY <1>0, <1>1, <1>2, <2>1, <2>2, <2>3
<1>9. CASE Lock(t)
  <2> DEFINE pc == IF call[t].type \in type_map THEN "unlock" ELSE "assign"
             c  == [call[t] EXCEPT !.pc = pc]
  <2>1. /\ call[t].pc = "lock" /\ mutex = NoThread /\ mutex' = t
        /\ Proceed(t, pc) /\ UNCHANGED <<type_map, unlocked, fatal>>
    BY <1>9 DEF Lock, In
  <2>2. pc \in Holding /\ pc \in {"unlock", "assign"}
    BY DEF Holding
  <2>3. /\ call[t].type \in Types /\ type_map \in {{}, Types}
        /\ pc = "unlock" => type_map = Types
        /\ pc = "assign" => type_map = {}
    BY <1>0, <2>1 DEF Registered
  <2> HIDE DEF pc
  <2>4. c \in C /\ c.pc = pc /\ call' = [call EXCEPT ![t] = c]
    BY <1>0, <2>1, <2>2 DEF Proceed
  <2>5. call'[t].pc = pc /\ call'[t].type = call[t].type /\ call'[t].n = call[t].n
    BY <1>3, <2>1
  <2>6. Registered(t)'
    BY <1>0, <2>1, <2>2, <2>3, <2>5 DEF Registered, Holding
  <2> HIDE DEF c
  <2> QED  BY <1>0, <2>1, <2>2, <2>3, <2>4, <2>6, OneCall
<1>10. CASE AssignDescriptors(t)
  <2>1. call[t].pc = "assign" /\ Proceed(t, "next") /\ UNCHANGED <<type_map, mutex, unlocked, fatal>>
    BY <1>10 DEF AssignDescriptors, Initialize, In
  <2>2. call[t].n = 0 /\ type_map = FirstTypes(0) /\ call[t].type \in Types
    BY <1>0, <2>1, FileTypesList DEF Registered, Holding
  <2>3. call'[t].pc = "next" /\ call'[t].type = call[t].type /\ call'[t].n = 0
    BY <1>3, <2>1, <2>2
  <2>4. type_map' = FirstTypes(0) /\ 0 <= Len(FileTypes)
    BY <2>1, <2>2, FileTypesList
  <2>5. FirstTypes(0)' = FirstTypes(0)
    BY DEF FirstTypes
  <2>6. Registered(t)' /\ call[t].pc \in Holding /\ "next" \in Holding
    BY <2>1, <2>2, <2>3, <2>4, <2>5 DEF Registered, Holding
  <2> QED  BY <1>0, <1>1, <2>1, <2>6
<1>11. CASE AskFactory(t)
  <2>1. /\ call[t].pc = "next" /\ call[t].n < Len(FileTypes)
        /\ Proceed(t, "register") /\ UNCHANGED <<type_map, mutex, unlocked, fatal>>
    BY <1>11 DEF AskFactory, Initialize, In
  <2>2. call'[t].pc = "register" /\ call'[t].type = call[t].type /\ call'[t].n = call[t].n
    BY <1>3, <2>1
  <2>3. /\ call[t].type \in Types /\ call[t].n <= Len(FileTypes)
        /\ type_map = FirstTypes(call[t].n)
    BY <1>0, <2>1 DEF Registered, Holding
  <2>4. Registered(t)' /\ call[t].pc \in Holding /\ "register" \in Holding
    BY <2>1, <2>2, <2>3 DEF Registered, Holding, FirstTypes
  <2> QED  BY <1>0, <1>1, <2>1, <2>4
<1>12. CASE RegisterType(t)
  <2> DEFINE n == call[t].n
             c == [[call[t] EXCEPT !.pc = "next"] EXCEPT !.n = n + 1]
  <2>1. /\ call[t].pc = "register" /\ UNCHANGED <<mutex, unlocked>>
        /\ type_map' = type_map \cup {FileTypes[n + 1]}
        /\ fatal' = (fatal \/ FileTypes[n + 1] \in type_map)
        /\ call' = [call EXCEPT ![t].pc = "next", ![t].n = n + 1]
    BY <1>0, <1>12 DEF RegisterType, In
  <2>2. /\ n \in Nat /\ n < Len(FileTypes) /\ type_map = FirstTypes(n)
        /\ call[t].type \in Types
    BY <1>0, <2>1 DEF Registered, Holding
  <2>3. FileTypes[n + 1] \in Types /\ FileTypes[n + 1] \notin type_map
    <3>1. n + 1 \in 1..Len(FileTypes) /\ \A k \in 1..n : k \in 1..Len(FileTypes) /\ k # n + 1
      BY <2>2, FileTypesList
    <3> QED  BY <2>2, <3>1, FileTypesList, TypesAssumption DEF FirstTypes
  <2>4. type_map' = FirstTypes(n + 1)
    <3>1. \A k : k \in 1..n + 1 <=> k \in 1..n \/ k = n + 1
      BY <2>2
    <3> QED  BY <2>1, <2>2, <3>1 DEF FirstTypes
  <2>5. /\ c \in C /\ c.pc = "next" /\ c.n = n + 1 /\ c.type = call[t].type
        /\ call' = [call EXCEPT ![t] = c]
    <3>1. n + 1 \in Nat /\ "next" \in Holding
      BY <2>2 DEF Holding
    <3>2. call[t] \in C
      BY <1>0
    <3> HIDE DEF n, Holding
    <3>3. /\ c \in C /\ c.pc = "next" /\ c.n = n + 1 /\ c.type = call[t].type
      BY <3>1, <3>2
    <3>4. call' = [call EXCEPT ![t] = c]
      BY <1>0, <2>1
    <3> QED  BY <3>3, <3>4
  <2>6. ~fatal' /\ type_map' \subseteq Types /\ mutex = t /\ mutex' = t
    BY <1>0, <2>1, <2>3 DEF Holding
  <2> HIDE DEF c, n
  <2>7. call'[t] = c
    BY <1>0, <2>5
  <2>8. n + 1 <= Len(FileTypes)
    BY <2>2, FileTypesList
  <2>9. Registered(t)'
    BY <2>2, <2>4, <2>5, <2>7, <2>8 DEF Registered, Holding, FirstTypes
  <2> QED  BY <1>0, <2>1, <2>5, <2>6, <2>9, OneCall DEF Holding
<1>13. CASE EndRegistration(t)
  <2>1. /\ call[t].pc = "next" /\ call[t].n = Len(FileTypes)
        /\ Proceed(t, "unlock") /\ UNCHANGED <<type_map, mutex, unlocked, fatal>>
    BY <1>13 DEF EndRegistration, In
  <2>2. type_map = Types
    BY <1>0, <2>1, FileTypesList DEF Registered
  <2>3. Registered(t)' /\ call[t].pc \in Holding /\ "unlock" \in Holding
    BY <1>0, <1>3, <2>1, <2>2, ZenonT(30) DEF Registered, Holding
  <2> QED  BY <1>0, <1>1, <2>1, <2>3
<1>14. CASE Unlock(t)
  <2>1. /\ call[t].pc = "unlock" /\ mutex' = NoThread /\ UNCHANGED <<type_map, fatal>>
        /\ unlocked' = knows[t] /\ call' = [call EXCEPT ![t] = NoCall]
    BY <1>14 DEF Unlock, In, Answer
  <2>2. /\ type_map = Types /\ mutex = t /\ unlocked' \subseteq Objects
        /\ NoCall \in C /\ NoCall.pc = "idle" /\ "idle" \notin Holding
    BY <1>0, <1>k, <2>1 DEF Registered, Holding, NoCall
  <2>3. Registered(t)'
    BY <1>0, <2>1 DEF Registered, Holding, NoCall
  <2> HIDE DEF NoCall
  <2> QED  BY <1>0, <2>1, <2>2, <2>3, OneCall
<1> QED
  BY <1>4, <1>5, <1>6, <1>7, <1>8, <1>9, <1>10, <1>11, <1>12, <1>13, <1>14 DEF Acts, Goes

\* Whatever a thread does, every thread goes on seeing what it saw.
LEMMA ActsLearn ==
  ASSUME FactoryInv, NEW t \in Threads, Acts(t), NEW u \in Threads
  PROVE  knows[u] \subseteq knows'[u]
<1>0. TypeOK
  BY DEF FactoryInv, OnceInv
<1>1. CASE InOnceInit(t)
  BY <1>0, <1>1, KnowledgeGrows DEF InOnceInit
<1>2. CASE knows' = knows
  BY <1>2
<1>3. CASE knows' = [knows EXCEPT ![t] = @ \cup unlocked]
  BY <1>0, <1>3 DEF TypeOK
<1> QED
  BY <1>1, <1>2, <1>3
  DEF Acts, Goes, Look, Lock, AskPool, CheckPool, AssignDescriptors, AskFactory,
      RegisterType, EndRegistration, Unlock, GetPrototype, Descriptor, Initialize, Call, vars

\* A call whose frames and place are what they were has its descriptors as before.
LEMMA SeenStill ==
  ASSUME FactoryInv, NEW t \in Threads, Acts(t), NEW u \in Threads,
         call'[u].pc \in {"next", "register", "unlock"} =>
           call[u].pc \in {"next", "register", "unlock"},
         \/ stack'[u] = stack[u]
         \/ stack[u] = << >>
         \/ Step(t)
  PROVE  call'[u].pc \in {"next", "register", "unlock"} =>
           Descriptors \in knows'[u] \/ Assigns(u)'
<1>1. call'[u].pc \in {"next", "register", "unlock"} => Descriptors \in knows[u] \/ Assigns(u)
  BY DEF FactoryInv, DescriptorsInv
<1>2. knows[u] \subseteq knows'[u]
  BY ActsLearn
<1>3. CASE stack'[u] = stack[u] \/ stack[u] = << >>
  BY <1>1, <1>2, <1>3 DEF Assigns
<1>4. CASE Step(t)
  <2>1. /\ stack'[u] # << >> => stack'[u][1].object = stack[u][1].object
        /\ (stack[u] # << >> /\ stack'[u] = << >>) => Complete(stack[u][1].object, knows'[u])
    BY <1>4, BottomFrame DEF FactoryInv
  <2>2. Assigns(u) => Descriptors \in knows'[u] \/ Assigns(u)'
    BY <2>1 DEF Assigns, Complete
  <2> QED  BY <1>1, <1>2, <2>2
<1> QED
  BY <1>3, <1>4

LEMMA DescriptorsKept ==
  ASSUME FactoryInv, NEW t \in Threads, Acts(t)
  PROVE  DescriptorsInv'
<1> DEFINE Here == {"next", "register", "unlock"}
           Seen(u) == call[u].pc \in Here => Descriptors \in knows[u] \/ Assigns(u)
           Given == (mutex = NoThread /\ type_map # {}) => Descriptors \in unlocked
<1>0. /\ TypeOK /\ Given /\ \A u \in Threads : Seen(u)
      /\ \A u \in Threads : call[u].pc \in Holding <=> mutex = u
      /\ \A u \in Threads : knows[u] \subseteq knows'[u]
      /\ \A pc : call' = [call EXCEPT ![t].pc = pc] =>
           call'[t].pc = pc /\ \A u \in Threads \ {t} : call'[u] = call[u]
      /\ call' = [call EXCEPT ![t] = NoCall] =>
           call'[t].pc = "idle" /\ \A u \in Threads \ {t} : call'[u] = call[u]
  <2>1. TypeOK /\ Given /\ \A u \in Threads : Seen(u)
    BY DEF FactoryInv, OnceInv, DescriptorsInv
  <2>2. \A u \in Threads : call[u].pc \in Holding <=> mutex = u
    BY DEF FactoryInv, Exclusive
  <2>3. \A u \in Threads : knows[u] \subseteq knows'[u]
    BY ActsLearn
  <2>4. \A pc : call' = [call EXCEPT ![t].pc = pc] =>
          call'[t].pc = pc /\ \A u \in Threads \ {t} : call'[u] = call[u]
    BY DEF FactoryInv, CallTyped
  <2>5. call' = [call EXCEPT ![t] = NoCall] =>
          call'[t].pc = "idle" /\ \A u \in Threads \ {t} : call'[u] = call[u]
    <3>1. NoCall.pc = "idle"
      BY DEF NoCall
    <3> QED  BY <3>1 DEF FactoryInv, CallTyped
  <2> HIDE DEF Seen, Given
  <2> QED  BY <2>1, <2>2, <2>3, <2>4, <2>5
<1> HIDE DEF Seen, Given
<1> SUFFICES Given' /\ \A u \in Threads : Seen(u)'
  BY DEF DescriptorsInv, Given, Seen
<1> USE DEF Here
\* Steps that leave the lock and the registration alone.
<1>1. UNCHANGED <<mutex, type_map, unlocked>> => Given'
  BY <1>0 DEF Given
<1>2. ASSUME NEW u \in Threads, call'[u].pc \in Here => call[u].pc \in Here,
             stack'[u] = stack[u] \/ stack[u] = << >> \/ Step(t)
      PROVE  Seen(u)'
  BY <1>2, SeenStill DEF Seen
<1>3. ASSUME NEW pc, Proceed(t, pc), pc \in Here => call[t].pc \in Here, stack' = stack
      PROVE  \A u \in Threads : Seen(u)'
  BY <1>0, <1>2, <1>3 DEF Proceed
<1>4. ASSUME Answer(t), stack' = stack
      PROVE  \A u \in Threads : Seen(u)'
  BY <1>0, <1>2, <1>4 DEF Answer
\* A call of GoogleOnceInit begins for t.
<1>5. ASSUME NEW o \in Objects, NEW pc, Initialize(t, o, pc),
             \/ pc \in Here => call[t].pc \in Here
             \/ o = Descriptors
      PROVE  Given' /\ \A u \in Threads : Seen(u)'
  <2>1. /\ UNCHANGED <<mutex, type_map, unlocked, knows>> /\ Proceed(t, pc)
        /\ stack[t] = << >> /\ stack' = [stack EXCEPT ![t] = <<Called(o)>>]
    BY <1>5 DEF Initialize, Call
  <2>2. \A u \in Threads \ {t} : stack'[u] = stack[u] /\ call'[u] = call[u]
    BY <1>0, <2>1 DEF TypeOK, Proceed
  <2>3. \A u \in Threads \ {t} : Seen(u)'
    BY <1>2, <2>2
  <2>4. CASE pc \in Here => call[t].pc \in Here
    <3>1. call'[t].pc = pc
      BY <1>0, <2>1 DEF Proceed
    <3>2. Seen(t)'
      BY <1>2, <2>1, <2>4, <3>1
    <3> QED  BY <1>1, <2>1, <2>3, <3>2
  <2>5. CASE o = Descriptors
    <3>1. stack'[t] = <<Called(o)>>
      BY <1>0, <2>1 DEF TypeOK
    <3>2. Assigns(t)'
      BY <2>5, <3>1 DEF Assigns, Called
    <3>3. Seen(t)'
      BY <3>2 DEF Seen
    <3> QED  BY <1>1, <2>1, <2>3, <3>3
  <2> QED  BY <1>5, <2>4, <2>5
<1>6. CASE InOnceInit(t)
  <2>1. Step(t) /\ UNCHANGED <<call, type_map, mutex, unlocked>>
    BY <1>6 DEF InOnceInit, mfVars
  <2>2. ASSUME NEW u \in Threads
        PROVE  Seen(u)'
    BY <1>2, <2>1
  <2> QED  BY <1>1, <2>1, <2>2
<1>7. ASSUME NEW type \in Types \cup OtherTypes, GetPrototype(t, type)
      PROVE  Given' /\ \A u \in Threads : Seen(u)'
  <2>1. /\ UNCHANGED <<mutex, type_map, unlocked, stack>>
        /\ call' = [call EXCEPT ![t] = [pc |-> "look", type |-> type, n |-> 0]]
    BY <1>7 DEF GetPrototype, vars
  <2>2. ASSUME NEW u \in Threads
        PROVE  call'[u].pc \in Here => call[u].pc \in Here
    BY <2>1 DEF FactoryInv, CallTyped
  <2> QED  BY <1>1, <1>2, <2>1, <2>2
<1>8. CASE Look(t)
  <2>1. /\ call[t].pc = "look" /\ mutex = NoThread /\ UNCHANGED <<stack, type_map, mutex>>
        /\ knows' = [knows EXCEPT ![t] = @ \cup unlocked] /\ unlocked' = knows'[t]
        /\ Answer(t) \/ Proceed(t, "pool")
    BY <1>8 DEF Look, In
  <2>2. unlocked \subseteq unlocked'
    BY <1>0, <2>1 DEF TypeOK
  <2>3. Given'
    BY <1>0, <2>1, <2>2 DEF Given
  <2>4. "pool" \notin Here
    OBVIOUS
  <2> QED  BY <1>3, <1>4, <2>1, <2>3, <2>4
<1>9. CASE Lock(t)
  <2> DEFINE pc == IF call[t].type \in type_map THEN "unlock" ELSE "assign"
  <2>1. /\ call[t].pc = "lock" /\ mutex = NoThread /\ mutex' = t
        /\ Proceed(t, pc) /\ UNCHANGED <<stack, type_map, unlocked>>
        /\ knows' = [knows EXCEPT ![t] = @ \cup unlocked]
    BY <1>9 DEF Lock, In
  <2>2. Given'
    BY <2>1, NoThreadAssumption DEF Given
  <2>3. pc = "unlock" => Descriptors \in knows'[t]
    BY <1>0, <2>1 DEF Given, TypeOK
  <2>4. pc = "unlock" \/ pc = "assign"
    OBVIOUS
  <2> HIDE DEF pc
  <2>5. call'[t].pc = pc
    BY <1>0, <2>1 DEF Proceed
  <2>6. Seen(t)'
    BY <2>3, <2>4, <2>5 DEF Seen
  <2>7. \A u \in Threads \ {t} : call'[u] = call[u]
    BY <1>0, <2>1 DEF Proceed
  <2>8. \A u \in Threads \ {t} : Seen(u)'
    BY <1>2, <2>1, <2>7
  <2> QED  BY <2>2, <2>6, <2>8
<1>10. CASE AskPool(t)
  <2>1. Initialize(t, Pool, "ours") /\ Pool \in Objects /\ "ours" \notin Here
    BY <1>10, PartsAssumption DEF AskPool
  <2> QED  BY <1>5, <2>1
<1>11. CASE CheckPool(t)
  <2>1. /\ UNCHANGED <<mutex, type_map, unlocked, stack>>
        /\ Answer(t) \/ Proceed(t, "lock")
    BY <1>11 DEF CheckPool, vars
  <2>2. "lock" \notin Here
    OBVIOUS
  <2> QED  BY <1>1, <1>3, <1>4, <2>1, <2>2
<1>12. CASE AssignDescriptors(t)
  <2>1. Initialize(t, Descriptors, "next") /\ Descriptors \in Objects
    BY <1>12, PartsAssumption DEF AssignDescriptors
  <2> QED  BY <1>5, <2>1
<1>13. CASE AskFactory(t)
  <2>1. Initialize(t, Factory, "register") /\ Factory \in Objects /\ call[t].pc \in Here
    BY <1>13, PartsAssumption DEF AskFactory, In
  <2> QED  BY <1>5, <2>1
<1>14. CASE RegisterType(t)
  <2>1. /\ call[t].pc = "register" /\ UNCHANGED <<mutex, unlocked, stack>>
        /\ call' = [call EXCEPT ![t].pc = "next", ![t].n = @ + 1]
    BY <1>14 DEF RegisterType, In, vars
  <2>2. mutex' = t
    BY <1>0, <2>1 DEF Holding
  <2>3. Given'
    BY <2>2, NoThreadAssumption DEF Given
  <2>4. ASSUME NEW u \in Threads
        PROVE  call'[u].pc \in Here => call[u].pc \in Here
    BY <2>1 DEF FactoryInv, CallTyped
  <2> QED  BY <1>2, <2>1, <2>3, <2>4
<1>15. CASE EndRegistration(t)
  <2>1. /\ call[t].pc \in Here /\ Proceed(t, "unlock")
        /\ UNCHANGED <<mutex, type_map, unlocked, stack>>
    BY <1>15 DEF EndRegistration, In, vars
  <2> QED  BY <1>1, <1>3, <2>1
<1>16. CASE Unlock(t)
  <2>1. /\ call[t].pc = "unlock" /\ stack[t] = << >> /\ stack' = stack
        /\ unlocked' = knows[t] /\ Answer(t)
    BY <1>16 DEF Unlock, In, vars
  <2>2. Descriptors \in knows[t]
    BY <1>0, <2>1 DEF Seen, Assigns
  <2>3. Given'
    BY <2>1, <2>2 DEF Given
  <2> QED  BY <1>4, <2>1, <2>3
<1>17. CASE Descriptor(t)
  <2>1. /\ stack[t] = << >> /\ stack' = [stack EXCEPT ![t] = <<Called(Descriptors)>>]
        /\ UNCHANGED <<call, mutex, type_map, unlocked>>
    BY <1>17 DEF Descriptor, Call, mfVars
  <2>2. \A u \in Threads : stack'[u] = stack[u] \/ stack[u] = << >>
    BY <1>0, <2>1 DEF TypeOK
  <2>3. ASSUME NEW u \in Threads
        PROVE  Seen(u)'
    BY <1>2, <2>1, <2>2
  <2> QED  BY <1>1, <2>1, <2>3
<1> QED
  BY <1>6, <1>7, <1>8, <1>9, <1>10, <1>11, <1>12, <1>13, <1>14, <1>15, <1>16, <1>17
  DEF Acts, Goes

LEMMA FactoryNext == FactoryInv /\ [MFNext]_<<vars, mfVars>> => FactoryInv'
<1> SUFFICES ASSUME FactoryInv, [MFNext]_<<vars, mfVars>>
             PROVE  FactoryInv'
  OBVIOUS
<1>1. CASE MFNext
  <2>1. PICK t \in Threads : Acts(t)
    BY <1>1 DEF MFNext, Acts
  <2>2. OnceInv'
    BY <2>1, OnceKept
  <2>3. CallTyped' /\ Exclusive' /\ RegisterInv'
    BY <2>1, CallsKept
  <2>4. DescriptorsInv'
    BY <2>1, DescriptorsKept
  <2> QED  BY <2>2, <2>3, <2>4 DEF FactoryInv
<1>2. CASE UNCHANGED <<vars, mfVars>>
  <2>1. OnceInv'
    BY <1>2, LearnInvariant DEF FactoryInv, OnceInv, TypeOK, vars
  <2>2. CallTyped' /\ Exclusive' /\ RegisterInv' /\ DescriptorsInv'
    BY <1>2 DEF FactoryInv, CallTyped, Exclusive, RegisterInv, Registered, DescriptorsInv,
                Assigns, vars, mfVars
  <2> QED  BY <2>1, <2>2 DEF FactoryInv
<1> QED
  BY <1>1, <1>2

THEOREM FactoryInvariant == MFSpec => []FactoryInv
BY FactoryInit, FactoryNext, PTL DEF MFSpec

\* "Type is already registered" (message.cc:295) is never logged, however many threads
\* miss a type at the same time.
THEOREM AlwaysRegisteredOnce == MFSpec => []RegisteredOnce
<1>1. FactoryInv => RegisteredOnce
  BY DEF FactoryInv, RegisterInv, RegisteredOnce
<1> QED
  BY <1>1, FactoryInvariant, PTL

\* Who does not hold the lock sees all types of the file or none, and the lock is held
\* by the thread that registers and by no other.
THEOREM AlwaysAllOrNone == MFSpec => []AllOrNone
<1>1. FactoryInv => AllOrNone
  BY DEF FactoryInv, RegisterInv, Exclusive, Holding, AllOrNone
<1> QED
  BY <1>1, FactoryInvariant, PTL

\* A GetPrototype for a type of the file returns with the type registered, to a thread
\* that sees the descriptors, whichever thread assigned them ("100% thread-safe",
\* message.h:725).
THEOREM AlwaysAnswersInitialized == MFSpec => AnswersInitialized
<1> DEFINE Answers ==
      \A t \in Threads :
        (call[t].pc # "idle" /\ call'[t].pc = "idle" /\ call[t].type \in Types) =>
          call[t].type \in type_map /\ Descriptors \in knows'[t]
<1>1. FactoryInv /\ [MFNext]_<<vars, mfVars>> => [Answers]_<<vars, mfVars>>
  <2> SUFFICES ASSUME FactoryInv, MFNext, NEW t \in Threads,
                      call[t].pc # "idle", call'[t].pc = "idle", call[t].type \in Types
               PROVE  call[t].type \in type_map /\ Descriptors \in knows'[t]
    OBVIOUS
  <2>1. PICK u \in Threads : Acts(u)
    BY DEF MFNext, Acts
  <2>2. /\ TypeOK /\ CallTyped /\ Registered(t) /\ DescriptorsInv
        /\ knows[t] \subseteq knows'[t]
    BY <2>1, ActsLearn DEF FactoryInv, OnceInv, RegisterInv
  <2>3. Answer(u) /\ u = t
    <3>1. \A c : call' = [call EXCEPT ![u] = c] =>
            call'[u] = c /\ \A v \in Threads \ {u} : call'[v] = call[v]
      BY <2>2 DEF CallTyped
    <3>2. \A pc : Proceed(u, pc) =>
            call'[u].pc = pc /\ \A v \in Threads \ {u} : call'[v] = call[v]
      BY <2>2 DEF CallTyped, Proceed
    <3>3. \A pc : Proceed(u, pc) => pc = "idle"
      BY <3>2
    <3>4. Answer(u) => u = t
      BY <3>1 DEF Answer
    <3>5. ~InOnceInit(u) /\ ~Descriptor(u)
      BY DEF InOnceInit, Descriptor, mfVars
    <3>6. ~RegisterType(u)
      BY <2>2 DEF RegisterType, CallTyped
    <3>7. \A type \in Types \cup OtherTypes : ~GetPrototype(u, type)
      BY <3>1 DEF GetPrototype
    <3>8. ~AskPool(u) /\ ~AssignDescriptors(u) /\ ~AskFactory(u) /\ ~EndRegistration(u)
      BY <3>3 DEF AskPool, AssignDescriptors, AskFactory, EndRegistration, Initialize
    <3>9. ~Lock(u)
      BY <3>3 DEF Lock
    <3>10. Look(u) => Answer(u)
      BY <3>3 DEF Look
    <3>11. CheckPool(u) => Answer(u)
      BY <3>3 DEF CheckPool
    <3> QED
      BY <2>1, <3>4, <3>5, <3>6, <3>7, <3>8, <3>9, <3>10, <3>11 DEF Acts, Goes, Unlock
  <2>4. CASE Look(t)
    <3>1. /\ mutex = NoThread /\ knows' = [knows EXCEPT ![t] = @ \cup unlocked]
          /\ call[t].type \in type_map
      <4>1. ~Proceed(t, "pool")
        BY <2>2 DEF CallTyped, Proceed
      <4> QED  BY <2>4, <4>1 DEF Look
    <3>2. Descriptors \in unlocked
      BY <2>2, <3>1 DEF DescriptorsInv
    <3> QED  BY <2>2, <3>1, <3>2 DEF TypeOK
  <2>5. CASE Unlock(t)
    <3>1. call[t].pc = "unlock" /\ stack[t] = << >>
      BY <2>5 DEF Unlock, In
    <3>2. type_map = Types /\ Descriptors \in knows[t]
      BY <2>2, <3>1 DEF Registered, DescriptorsInv, Assigns
    <3> QED  BY <2>2, <3>2
  <2>6. CASE CheckPool(t)
    <3>1. call[t].pc = "ours" /\ call[t].type \in OtherTypes
      <4>1. ~Proceed(t, "lock")
        BY <2>2 DEF CallTyped, Proceed
      <4> QED  BY <2>6, <4>1 DEF CheckPool, In
    <3> QED  BY <3>1, TypesAssumption
  <2>7. Look(t) \/ Unlock(t) \/ CheckPool(t)
    <3>1. \A pc : ~Proceed(t, pc) \/ pc = "idle"
      BY <2>2 DEF CallTyped, Proceed
    <3>2. ~InOnceInit(t) /\ ~Descriptor(t) /\ ~RegisterType(t)
      BY <2>2 DEF InOnceInit, Descriptor, mfVars, RegisterType, CallTyped
    <3>3. \A type \in Types \cup OtherTypes : ~GetPrototype(t, type)
      BY DEF GetPrototype, In
    <3>4. /\ ~AskPool(t) /\ ~AssignDescriptors(t) /\ ~AskFactory(t) /\ ~EndRegistration(t)
          /\ ~Lock(t)
      BY <3>1 DEF AskPool, AssignDescriptors, AskFactory, EndRegistration, Initialize, Lock
    <3> QED  BY <2>1, <2>3, <3>2, <3>3, <3>4 DEF Acts, Goes
  <2> QED  BY <2>4, <2>5, <2>6, <2>7
<1> QED
  BY <1>1, FactoryInvariant, PTL DEF MFSpec, AnswersInitialized
=============================================================================
