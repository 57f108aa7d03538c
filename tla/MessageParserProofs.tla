------------------------ MODULE MessageParserProofs ------------------------
(***************************************************************************)
(* What the parser does with any bytes, any widths and any recursion       *)
(* limit: limits nest, a successful parse consumes everything, the         *)
(* recursion is bounded and counted, and every step makes progress.        *)
(***************************************************************************)
EXTENDS MessageParser, TLAPS

\* A sequence is one over its own elements.
IsSequence(s) == s \in Seq({s[k] : k \in DOMAIN s})

\* The limits of the messages under way, from the inside out; a group has the limit
\* of what it is in.
ParserInv ==
  /\ data \in Seq(0..255)
  /\ pos \in Nat /\ limit \in Nat
  /\ IsSequence(frames)
  /\ \A k \in DOMAIN frames : frames[k].outer \in Nat
  /\ LimitsNest
  /\ frames[1].type = "ChangeSet"
  /\ \A k \in DOMAIN frames : frames[k].type = "group" => LimitAt(k) = frames[k].outer
  /\ OkConsumesAll
  /\ DepthBounded

\* Reading a varint goes forward and stays in front of the limit.
LEMMA VarintEnds ==
  ASSUME NEW p \in Nat, limit \in Nat, Readable(p)
  PROVE  EndOfVarint(p) \in p + 1..limit
BY DEF Readable, EndOfVarint

LEMMA OwnSequence ==
  ASSUME NEW S, NEW t \in Seq(S)
  PROVE  IsSequence(t)
BY DEF IsSequence

\* A sequence stays one when it grows or shrinks.
LEMMA Grown ==
  ASSUME NEW s, IsSequence(s), NEW e
  PROVE  /\ IsSequence(Append(s, e))
         /\ Len(Append(s, e)) = Len(s) + 1 /\ Len(s) \in Nat
         /\ DOMAIN Append(s, e) = 1..Len(s) + 1 /\ DOMAIN s = 1..Len(s)
         /\ \A k \in 1..Len(s) : Append(s, e)[k] = s[k]
         /\ Append(s, e)[Len(s) + 1] = e
<1> DEFINE S == {s[k] : k \in DOMAIN s} \cup {e}
           t == Append(s, e)
<1>1. s \in Seq(S) /\ e \in S
  BY DEF IsSequence
<1>2. /\ t \in Seq(S) /\ Len(t) = Len(s) + 1 /\ Len(s) \in Nat
      /\ DOMAIN t = 1..Len(s) + 1 /\ DOMAIN s = 1..Len(s)
      /\ \A k \in 1..Len(s) : t[k] = s[k]
      /\ t[Len(s) + 1] = e
  BY <1>1
<1> HIDE DEF t, S
<1>3. IsSequence(t)
  BY <1>2, OwnSequence
<1> QED
  BY <1>2, <1>3 DEF t

LEMMA Shrunk ==
  ASSUME NEW s, IsSequence(s), Len(s) >= 2
  PROVE  /\ IsSequence(Front(s))
         /\ Len(Front(s)) = Len(s) - 1 /\ Len(s) \in Nat
         /\ DOMAIN Front(s) = 1..Len(s) - 1 /\ DOMAIN s = 1..Len(s)
         /\ \A k \in 1..Len(s) - 1 : Front(s)[k] = s[k]
<1> DEFINE S == {s[k] : k \in DOMAIN s}
           t == Front(s)
<1>1. /\ t \in Seq(S) /\ Len(t) = Len(s) - 1 /\ Len(s) \in Nat
      /\ DOMAIN t = 1..Len(s) - 1 /\ DOMAIN s = 1..Len(s)
      /\ \A k \in 1..Len(s) - 1 : t[k] = s[k]
  BY DEF Front, IsSequence
<1> HIDE DEF t, S
<1>2. IsSequence(t)
  BY <1>1, OwnSequence
<1> QED
  BY <1>1, <1>2 DEF t

\* Giving up changes nothing but the status, and the status says that it did.
LEMMA FailPreserves ==
  ASSUME ParserInv, Fail
  PROVE  ParserInv'
BY DEF ParserInv, Fail, LimitsNest, LimitAt, OkConsumesAll, DepthBounded

\* Reading on, up to the limit.
LEMMA GoesPreserves ==
  ASSUME ParserInv, status = "reading", NEW p \in pos + 1..limit, Goes(p)
  PROVE  ParserInv'
BY DEF ParserInv, Goes, LimitsNest, LimitAt, OkConsumesAll, DepthBounded

\* Beginning a message or a group.
LEMMA PushPreserves ==
  ASSUME ParserInv, status = "reading",
         NEW type, NEW number, NEW n, n = Len(frames),
         pos' \in pos + 1..limit,
         limit' \in pos'..limit, type = "group" => limit' = limit,
         frames' = Append(frames, Frame(type, number, limit)),
         depth < RecursionLimit, depth' = depth + 1,
         UNCHANGED <<data, status>>
  PROVE  ParserInv'
<1>1. /\ IsSequence(frames')
      /\ Len(frames') = n + 1 /\ n \in Nat
      /\ DOMAIN frames' = 1..n + 1 /\ DOMAIN frames = 1..n
      /\ \A k \in 1..n : frames'[k] = frames[k]
      /\ frames'[n + 1] = Frame(type, number, limit)
  BY Grown DEF ParserInv
<1>2. n >= 1
  BY <1>1 DEF ParserInv, LimitsNest
<1>3. /\ pos' \in Nat /\ limit' \in Nat /\ data' \in Seq(0..255)
      /\ pos' <= limit' /\ limit' <= limit
      /\ data' = data
  BY DEF ParserInv
<1>4. \A k \in 1..n : LimitAt(k)' = LimitAt(k)
  BY <1>1, <1>2 DEF LimitAt, Frame
<1>5. LimitAt(n + 1)' = limit'
  BY <1>1 DEF LimitAt
<1>6. \A k \in DOMAIN frames' : frames'[k].outer \in Nat
  BY <1>1 DEF ParserInv, Frame
<1>7. LimitsNest'
  <2>1. \A k \in 1..n : LimitAt(k)' <= frames'[k].outer
    BY <1>1, <1>4 DEF ParserInv, LimitsNest
  <2>2. LimitAt(n + 1)' <= frames'[n + 1].outer
    BY <1>1, <1>3, <1>5 DEF Frame
  <2>3. \A k \in DOMAIN frames' : LimitAt(k)' <= frames'[k].outer
    BY <1>1, <2>1, <2>2
  <2>4. LimitAt(1)' = Len(data')
    BY <1>2, <1>3, <1>4 DEF ParserInv, LimitsNest
  <2>5. frames' # << >> /\ pos' <= limit'
    BY <1>1, <1>3
  <2> QED
    BY <2>3, <2>4, <2>5 DEF LimitsNest
<1>8. \A k \in DOMAIN frames' : frames'[k].type = "group" => LimitAt(k)' = frames'[k].outer
  BY <1>1, <1>4, <1>5 DEF ParserInv, Frame
<1>9. frames'[1].type = "ChangeSet"
  BY <1>1, <1>2 DEF ParserInv
<1>10. DepthBounded'
  <2>1. depth = n - 1
    BY DEF ParserInv, DepthBounded
  <2> QED
    BY <1>1, <2>1, RecursionAssumption DEF DepthBounded
<1>11. OkConsumesAll'
  BY DEF OkConsumesAll
<1> QED
  BY <1>1, <1>3, <1>6, <1>7, <1>8, <1>9, <1>10, <1>11 DEF ParserInv

\* Ending one: what was read so far is in front of the limit around it.
LEMMA PopPreserves ==
  ASSUME ParserInv, status = "reading",
         NEW n, n = Len(frames), n >= 2,
         pos' \in pos..limit,
         limit' = Top.outer,
         frames' = Front(frames), DecrementRecursionDepth,
         UNCHANGED <<data, status>>
  PROVE  ParserInv'
<1>1. /\ IsSequence(frames')
      /\ Len(frames') = n - 1 /\ n \in Nat
      /\ DOMAIN frames' = 1..n - 1 /\ DOMAIN frames = 1..n
      /\ \A k \in 1..n - 1 : frames'[k] = frames[k]
  <2>1. IsSequence(frames) /\ Len(frames) >= 2
    BY DEF ParserInv
  <2>2. /\ IsSequence(frames')
        /\ Len(frames') = Len(frames) - 1 /\ Len(frames) \in Nat
        /\ DOMAIN frames' = 1..Len(frames) - 1 /\ DOMAIN frames = 1..Len(frames)
        /\ \A k \in 1..Len(frames) - 1 : frames'[k] = frames[k]
    BY <2>1, Shrunk
  <2> QED
    BY <2>2
<1>2. /\ limit' = frames[n].outer /\ limit' \in Nat
      /\ limit <= limit' /\ pos' \in Nat /\ pos' <= limit'
  <2>1. n \in DOMAIN frames /\ LimitAt(n) = limit /\ limit' = frames[n].outer
    BY <1>1 DEF LimitAt, Top
  <2> QED
    BY <2>1 DEF ParserInv, LimitsNest
<1>3. \A k \in 1..n - 1 : LimitAt(k)' = LimitAt(k)
  BY <1>1, <1>2 DEF LimitAt
<1>4. LimitsNest'
  <2>1. \A k \in 1..n : LimitAt(k) <= frames[k].outer
    BY <1>1 DEF ParserInv, LimitsNest
  <2>2. \A k \in 1..n - 1 : LimitAt(k)' <= frames'[k].outer
    BY <1>1, <1>3, <2>1
  <2>3. LimitAt(1)' = Len(data')
    BY <1>1, <1>3 DEF ParserInv, LimitsNest
  <2>4. frames' # << >> /\ pos' <= limit'
    BY <1>1, <1>2
  <2> QED
    BY <1>1, <2>2, <2>3, <2>4 DEF LimitsNest
<1>5. \A k \in DOMAIN frames' : frames'[k].type = "group" => LimitAt(k)' = frames'[k].outer
  <2>1. \A k \in 1..n - 1 : frames[k].type = "group" => LimitAt(k) = frames[k].outer
    BY <1>1 DEF ParserInv
  <2> QED
    BY <1>1, <1>3, <2>1
<1>6. DepthBounded'
  <2>1. depth = n - 1 /\ n <= RecursionLimit + 1
    BY DEF ParserInv, DepthBounded
  <2>2. depth' = n - 2
    BY <1>1, <2>1 DEF DecrementRecursionDepth
  <2> QED
    BY <1>1, <2>1, <2>2, RecursionAssumption DEF DepthBounded
<1>8. /\ frames'[1].type = "ChangeSet" /\ data' \in Seq(0..255)
      /\ \A k \in DOMAIN frames' : frames'[k].outer \in Nat
  <2>1. /\ frames[1].type = "ChangeSet" /\ data \in Seq(0..255)
        /\ \A k \in 1..n : frames[k].outer \in Nat
    BY <1>1 DEF ParserInv
  <2>2. frames'[1] = frames[1]
    BY <1>1
  <2>3. \A k \in 1..n - 1 : frames'[k].outer \in Nat
    BY <1>1, <2>1
  <2> QED
    BY <1>1, <2>1, <2>2, <2>3
<1>7. OkConsumesAll'
  BY DEF OkConsumesAll
<1> QED
  BY <1>1, <1>2, <1>4, <1>5, <1>6, <1>7, <1>8 DEF ParserInv

\* The stream begins with the whole array as its limit.
LEMMA InitInv == Init => ParserInv
<1> SUFFICES ASSUME NEW input \in Inputs, ParseFrom(input)
             PROVE  ParserInv
  BY DEF Init
<1>1. data \in Seq(0..255) /\ pos = 0 /\ limit = Len(data) /\ limit \in Nat
  BY InputsAssumption DEF ParseFrom
<1>2. /\ frames = <<Frame("ChangeSet", 0, limit)>>
      /\ frames \in Seq({Frame("ChangeSet", 0, limit)})
      /\ Len(frames) = 1 /\ DOMAIN frames = {1}
      /\ frames[1].outer = limit /\ frames[1].type = "ChangeSet"
  BY <1>1 DEF ParseFrom, Frame
<1>3. IsSequence(frames)
  BY <1>2, OwnSequence
<1>4. LimitsNest
  BY <1>1, <1>2 DEF LimitsNest, LimitAt
<1>5. OkConsumesAll /\ DepthBounded
  BY <1>2, RecursionAssumption DEF OkConsumesAll, DepthBounded, ParseFrom
<1> QED
  BY <1>1, <1>2, <1>3, <1>4, <1>5 DEF ParserInv

\* The tag of a field or a group ends in front of the limit.
LEMMA PayloadEnds ==
  ASSUME ParserInv, HasTag
  PROVE  Payload \in pos + 1..limit /\ Payload \in Nat /\ status = "reading"
<1>1. pos \in Nat /\ limit \in Nat /\ Readable(pos) /\ status = "reading"
  BY DEF ParserInv, HasTag
<1>2. EndOfVarint(pos) \in pos + 1..limit
  BY <1>1, VarintEnds
<1> QED
  BY <1>1, <1>2 DEF Payload

\* So does the varint behind it.
LEMMA SecondEnds ==
  ASSUME ParserInv, HasTag, Readable(Payload)
  PROVE  EndOfVarint(Payload) \in pos + 1..limit
<1>1. Payload \in pos + 1..limit /\ Payload \in Nat /\ pos \in Nat /\ limit \in Nat
  BY PayloadEnds DEF ParserInv
<1>2. EndOfVarint(Payload) \in Payload + 1..limit
  BY <1>1, VarintEnds
<1> QED
  BY <1>1, <1>2

\* What a step is: it gives up, reads on, begins a message or a group, or ends one.
Reads == \E p \in pos + 1..limit : Goes(p)

Enters ==
  \E type, number :
    /\ pos' \in pos + 1..limit /\ limit' \in pos'..limit
    /\ type = "group" => limit' = limit
    /\ frames' = Append(frames, Frame(type, number, limit))
    /\ depth < RecursionLimit /\ depth' = depth + 1
    /\ UNCHANGED <<data, status>>

Leaves ==
  /\ Len(frames) >= 2
  /\ pos' \in pos..limit
  /\ limit' = Top.outer
  /\ frames' = Front(frames)
  /\ DecrementRecursionDepth
  /\ UNCHANGED <<data, status>>

Ends ==
  /\ status' = "ok" /\ pos = limit /\ Len(frames) = 1
  /\ UNCHANGED <<data, pos, limit, frames>>

LEMMA StepIs ==
  ASSUME ParserInv, Next
  PROVE  status = "reading" /\ (Fail \/ Reads \/ Enters \/ Leaves \/ Ends)
<1>0. /\ pos \in Nat /\ limit \in Nat /\ pos <= limit
      /\ Len(frames) \in Nat /\ Len(frames) >= 1 /\ DOMAIN frames = 1..Len(frames)
  <2>1. frames \in Seq({frames[k] : k \in DOMAIN frames}) /\ frames # << >>
    BY DEF ParserInv, LimitsNest, IsSequence
  <2>2. Len(frames) \in Nat /\ Len(frames) >= 1 /\ DOMAIN frames = 1..Len(frames)
    BY <2>1
  <2> QED
    BY <2>2 DEF ParserInv, LimitsNest
<1>1. CASE EndMessage
  BY <1>0, <1>1 DEF EndMessage, Leaves, Ends
<1>2. CASE EndGroup
  <2>1. HasTag /\ Payload \in pos + 1..limit /\ status = "reading"
    BY <1>2, PayloadEnds DEF EndGroup
  <2>2. Top.type = "group" /\ Top = frames[Len(frames)]
    BY <1>2 DEF EndGroup, EndsGroup, Top
  <2>3. Len(frames) >= 2
    BY <1>0, <2>2 DEF ParserInv
  <2>4. limit = Top.outer
    BY <1>0, <2>2 DEF ParserInv, LimitAt
  <2>5. Leaves
    BY <1>0, <1>2, <2>1, <2>3, <2>4 DEF EndGroup, Leaves
  <2> QED
    BY <2>1, <2>5
<1>3. CASE BadTag
  BY <1>3 DEF BadTag, HasTag
<1>4. CASE ReadInt64
  <2>1. HasTag /\ status = "reading"
    BY <1>4 DEF ReadInt64, HasTag
  <2>2. CASE Readable(Payload)
    BY <1>4, <2>1, <2>2, SecondEnds DEF ReadInt64, Reads
  <2>3. CASE ~Readable(Payload)
    BY <1>4, <2>1, <2>3 DEF ReadInt64
  <2> QED
    BY <2>2, <2>3
<1>5. CASE ReadState
  <2>1. HasTag /\ status = "reading"
    BY <1>5 DEF ReadState, HasTag
  <2>2. CASE Readable(Payload)
    BY <1>5, <2>1, <2>2, SecondEnds DEF ReadState, Reads
  <2>3. CASE ~Readable(Payload)
    BY <1>5, <2>1, <2>3 DEF ReadState
  <2> QED
    BY <2>2, <2>3
<1>6. CASE ReadString
  <2>1. HasTag /\ status = "reading"
    BY <1>6 DEF ReadString, HasTag
  <2>2. CASE Fail
    BY <2>1, <2>2
  <2>3. CASE ~Fail
    <3>1. /\ Readable(Payload)
          /\ IntAt(Payload) \in 0..limit - EndOfVarint(Payload)
          /\ Goes(EndOfVarint(Payload) + IntAt(Payload))
      BY <1>6, <2>3 DEF ReadString
    <3>2. EndOfVarint(Payload) \in pos + 1..limit
      BY <2>1, <3>1, SecondEnds
    <3>3. EndOfVarint(Payload) + IntAt(Payload) \in pos + 1..limit
      BY <1>0, <3>1, <3>2
    <3> QED
      BY <2>1, <3>1, <3>3 DEF Reads
  <2> QED
    BY <2>2, <2>3
<1>7. CASE EnterMessage
  <2>1. HasTag /\ status = "reading" /\ FieldType \in {"NSRange", "Operation"}
    BY <1>7 DEF EnterMessage, HasTag
  <2>2. CASE Readable(Payload) /\ depth < RecursionLimit
    <3>1. EndOfVarint(Payload) \in pos + 1..limit
      BY <2>1, <2>2, SecondEnds
    <3>2. PushLimit(EndOfVarint(Payload), IntAt(Payload)) \in EndOfVarint(Payload)..limit
      BY <1>0, <3>1 DEF PushLimit
    <3>3. /\ pos' = EndOfVarint(Payload)
          /\ limit' = PushLimit(EndOfVarint(Payload), IntAt(Payload))
          /\ frames' = Append(frames, Frame(FieldType, 0, limit))
          /\ depth' = depth + 1
          /\ UNCHANGED <<data, status>>
      BY <1>7, <2>2 DEF EnterMessage
    <3>4. FieldType # "group"
      BY <2>1
    <3>5. Enters
      BY <2>2, <3>1, <3>2, <3>3, <3>4 DEF Enters
    <3> QED
      BY <2>1, <3>5
  <2>3. CASE ~(Readable(Payload) /\ depth < RecursionLimit)
    BY <1>7, <2>1, <2>3 DEF EnterMessage
  <2> QED
    BY <2>2, <2>3
<1>8. CASE SkipVarint
  <2>1. HasTag /\ status = "reading"
    BY <1>8 DEF SkipVarint, Unknown, HasTag
  <2>2. CASE Readable(Payload)
    BY <1>8, <2>1, <2>2, SecondEnds DEF SkipVarint, Reads
  <2>3. CASE ~Readable(Payload)
    BY <1>8, <2>1, <2>3 DEF SkipVarint
  <2> QED
    BY <2>2, <2>3
<1>9. CASE SkipFixed
  <2>1. PICK bytes \in {4, 8} :
          /\ HasTag
          /\ IF Payload + bytes <= limit THEN Goes(Payload + bytes) ELSE Fail
    BY <1>9 DEF SkipFixed, Unknown
  <2>2. Payload \in pos + 1..limit /\ Payload \in Nat /\ status = "reading"
    BY <2>1, PayloadEnds
  <2>3. CASE Payload + bytes <= limit
    <3>1. Payload + bytes \in pos + 1..limit
      BY <1>0, <2>2, <2>3
    <3> QED
      BY <2>1, <2>2, <2>3, <3>1 DEF Reads
  <2>4. CASE ~(Payload + bytes <= limit)
    BY <2>1, <2>2, <2>4
  <2> QED
    BY <2>3, <2>4
<1>10. CASE SkipLengthDelimited
  <2>1. HasTag /\ status = "reading"
    BY <1>10 DEF SkipLengthDelimited, Unknown, HasTag
  <2>2. CASE Readable(Payload) /\ IntAt(Payload) \in 0..limit - EndOfVarint(Payload)
    <3>1. EndOfVarint(Payload) \in pos + 1..limit
      BY <2>1, <2>2, SecondEnds
    <3>2. EndOfVarint(Payload) + IntAt(Payload) \in pos + 1..limit
      BY <1>0, <2>2, <3>1
    <3>3. Goes(EndOfVarint(Payload) + IntAt(Payload))
      BY <1>10, <2>2 DEF SkipLengthDelimited
    <3> QED
      BY <2>1, <3>2, <3>3 DEF Reads
  <2>3. CASE ~(Readable(Payload) /\ IntAt(Payload) \in 0..limit - EndOfVarint(Payload))
    BY <1>10, <2>1, <2>3 DEF SkipLengthDelimited
  <2> QED
    BY <2>2, <2>3
<1>11. CASE EnterGroup
  <2>1. HasTag
    BY <1>11 DEF EnterGroup, Unknown
  <2>2. Payload \in pos + 1..limit /\ Payload \in Nat /\ status = "reading"
    BY <2>1, PayloadEnds
  <2>3. CASE depth < RecursionLimit
    <3>1. /\ pos' = Payload /\ limit' = limit
          /\ frames' = Append(frames, Frame("group", GetTagFieldNumber(Tag), limit))
          /\ depth' = depth + 1
          /\ UNCHANGED <<data, status>>
      BY <1>11, <2>3 DEF EnterGroup
    <3>2. pos' \in pos + 1..limit /\ limit' \in pos'..limit
      BY <1>0, <2>2, <3>1
    <3>3. Enters
      BY <2>3, <3>1, <3>2 DEF Enters
    <3> QED
      BY <2>2, <3>3
  <2>4. CASE ~(depth < RecursionLimit)
    BY <1>11, <2>2, <2>4 DEF EnterGroup
  <2> QED
    BY <2>3, <2>4
<1> QED
  BY <1>1, <1>2, <1>3, <1>4, <1>5, <1>6, <1>7, <1>8, <1>9, <1>10, <1>11 DEF Next

LEMMA StepPreserves ==
  ASSUME ParserInv, [Next]_vars
  PROVE  ParserInv'
<1>1. CASE Next
  <2>1. status = "reading" /\ (Fail \/ Reads \/ Enters \/ Leaves \/ Ends)
    BY <1>1, StepIs
  <2>2. CASE Fail
    BY <2>2, FailPreserves
  <2>3. CASE Reads
    BY <2>1, <2>3, GoesPreserves DEF Reads
  <2>4. CASE Enters
    <3>1. PICK type, number :
            /\ pos' \in pos + 1..limit /\ limit' \in pos'..limit
            /\ type = "group" => limit' = limit
            /\ frames' = Append(frames, Frame(type, number, limit))
            /\ depth < RecursionLimit /\ depth' = depth + 1
            /\ UNCHANGED <<data, status>>
      BY <2>4 DEF Enters
    <3> QED
      BY <2>1, <3>1, PushPreserves
  <2>5. CASE Leaves
    BY <2>1, <2>5, PopPreserves DEF Leaves
  <2>6. CASE Ends
    <3>1. /\ IsSequence(frames)' /\ frames' = frames /\ status' = "ok"
          /\ pos' = pos /\ limit' = limit /\ data' = data
      BY <2>6 DEF Ends, ParserInv
    <3>2. /\ LimitsNest' /\ DepthBounded'
          /\ \A k \in DOMAIN frames' : frames'[k].type = "group" => LimitAt(k)' = frames'[k].outer
      BY <3>1 DEF ParserInv, LimitsNest, LimitAt, DepthBounded
    <3>3. pos = Len(data)
      BY <2>6 DEF Ends, ParserInv, LimitsNest, LimitAt
    <3>4. OkConsumesAll'
      BY <3>1, <3>3 DEF OkConsumesAll
    <3> QED
      BY <3>1, <3>2, <3>4 DEF ParserInv
  <2> QED
    BY <2>1, <2>2, <2>3, <2>4, <2>5, <2>6
<1>2. CASE UNCHANGED vars
  BY <1>2 DEF vars, ParserInv, LimitsNest, LimitAt, OkConsumesAll, DepthBounded
<1> QED
  BY <1>1, <1>2

LEMMA AlwaysInv == Spec => []ParserInv
<1>1. ParserInv /\ [Next]_vars => ParserInv'
  BY StepPreserves
<1> QED
  BY InitInv, <1>1, PTL DEF Spec

\* A message never reads behind a message around it, whatever lengths the bytes
\* announce (PushLimit, coded_stream.cc:117-137).
THEOREM LimitsAlwaysNest == Spec => []LimitsNest
<1>1. ParserInv => LimitsNest
  BY DEF ParserInv
<1> QED
  BY AlwaysInv, <1>1, PTL

\* A parse that succeeds has consumed the array (ConsumedEntireMessage,
\* message_lite.cc:119-127).
THEOREM AlwaysConsumesAll == Spec => []OkConsumesAll
<1>1. ParserInv => OkConsumesAll
  BY DEF ParserInv
<1> QED
  BY AlwaysInv, <1>1, PTL

\* No bytes make the parser recurse deeper than its limit, and whatever was read before,
\* the counter is the number of calls under way (IncrementRecursionDepth and
\* DecrementRecursionDepth, coded_stream.h:1054-1061).
THEOREM AlwaysDepthBounded == Spec => []DepthBounded
<1>1. ParserInv => DepthBounded
  BY DEF ParserInv
<1> QED
  BY AlwaysInv, <1>1, PTL

\* Every step reads bytes, ends a message or ends the parse: no length, not even a
\* negative one, makes the loops of MergePartialFromCodedStream stand still.
THEOREM AlwaysProgress == Spec => MakesProgress
<1>1. ParserInv /\ [Next]_vars =>
        [\/ pos' > pos
         \/ pos' = pos /\ Len(frames') < Len(frames)
         \/ status' # "reading"]_vars
  <2> SUFFICES ASSUME ParserInv, Next
               PROVE  \/ pos' > pos
                      \/ pos' = pos /\ Len(frames') < Len(frames)
                      \/ status' # "reading"
    OBVIOUS
  <2>1. pos \in Nat /\ limit \in Nat /\ IsSequence(frames)
    BY DEF ParserInv
  <2>2. Fail \/ Reads \/ Enters \/ Leaves \/ Ends
    BY StepIs
  <2>3. CASE Fail
    BY <2>3 DEF Fail
  <2>4. CASE Reads
    BY <2>1, <2>4 DEF Reads, Goes
  <2>5. CASE Enters
    BY <2>1, <2>5 DEF Enters
  <2>6. CASE Leaves
    <3>1. Len(frames) \in Nat /\ Len(frames') = Len(frames) - 1
      BY <2>1, <2>6, Shrunk DEF Leaves
    <3> QED
      BY <2>1, <2>6, <3>1 DEF Leaves
  <2>7. CASE Ends
    BY <2>7 DEF Ends
  <2> QED
    BY <2>2, <2>3, <2>4, <2>5, <2>6, <2>7
<1> QED
  BY AlwaysInv, <1>1, PTL DEF Spec, MakesProgress
=============================================================================
