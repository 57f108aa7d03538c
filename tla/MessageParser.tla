--------------------------- MODULE MessageParser ---------------------------
(***************************************************************************)
(* ParseFromArray of a change set: the generated                           *)
(* MergePartialFromCodedStream of the three messages over one              *)
(* CodedInputStream on an array of bytes. A step reads one field, begins   *)
(* or ends an embedded message or a group, or gives up.                    *)
(*                                                                         *)
(* The stack of calls is frames, a frame for every message or group that   *)
(* is being read; outer is the limit PopLimit will restore. Messages are   *)
(* filled in place: an operation is appended before it is read, so the one *)
(* being read is the last one.                                             *)
(***************************************************************************)
EXTENDS Wire

CONSTANTS
  Inputs,          \* the arrays of bytes
  Messages,        \* change sets whose encodings the properties compare with
  RecursionLimit   \* 100: default_recursion_limit_

ASSUME RecursionAssumption == RecursionLimit \in Nat
ASSUME InputsAssumption == \A input \in Inputs : input \in Seq(0..255)

VARIABLES
  data,     \* the array
  pos,      \* bytes read
  limit,    \* current_limit_
  frames,   \* messages and groups under way: type, number of a group, outer
  depth,    \* recursion_depth_, while status is "reading"
  message,  \* the change set
  status    \* "reading", "ok", "failed"

vars == <<data, pos, limit, frames, depth, message, status>>

Frame(type, number, outer) == [type |-> type, number |-> number, outer |-> outer]

\* Clear() and a CodedInputStream on the array.
ParseFrom(input) ==
  /\ data = input
  /\ pos = 0
  /\ limit = Len(input)
  /\ frames = <<Frame("ChangeSet", 0, Len(input))>>
  /\ depth = 0
  /\ message = EmptyChangeSet
  /\ status = "reading"

Init == \E input \in Inputs : ParseFrom(input)

-----------------------------------------------------------------------------
(* Varints.                                                                *)

\* A varint begins behind byte p and ends with byte q.
VarintBetween(p, q) ==
  /\ q - p <= MaxVarintBytes
  /\ data[q] < 128
  /\ \A k \in p + 1..q - 1 : data[k] >= 128

Readable(p) == \E q \in p + 1..limit : VarintBetween(p, q)

EndOfVarint(p) == CHOOSE q \in p + 1..limit : VarintBetween(p, q)

ValueOfVarint(p) ==
  FoldRight(LAMBDA byte, value : (byte % 128) + 128 * value,
            SubSeq(data, p + 1, EndOfVarint(p)), 0)

\* ReadVarint32 and a cast.
IntAt(p) == Signed(ValueOfVarint(p), IntBits)

-----------------------------------------------------------------------------
(* Tags.                                                                   *)

Top == frames[Len(frames)]

Tag == ValueOfVarint(pos) % 2^IntBits

HasTag == status = "reading" /\ pos < limit /\ Readable(pos) /\ Tag # 0

\* What follows the tag.
Payload == EndOfVarint(pos)

\* The type of the field the tag announces, if the message has it and the tag has
\* the wire type of that type.
FieldType ==
  IF /\ Top.type # "group"
     /\ GetTagFieldNumber(Tag) \in DOMAIN FieldTypes[Top.type]
     /\ GetTagWireType(Tag) = WireTypeFor(FieldTypes[Top.type][GetTagFieldNumber(Tag)])
    THEN FieldTypes[Top.type][GetTagFieldNumber(Tag)]
    ELSE "unknown"

-----------------------------------------------------------------------------
(* The message being read.                                                 *)

Object ==
  CASE Top.type = "ChangeSet" -> message.fields
    [] Top.type = "Operation" -> Last(message.operations)
    [] Top.type = "NSRange" -> Last(message.operations)[1]

Stored(object) ==
  LET last == Len(message.operations)
  IN  CASE Top.type = "ChangeSet" -> [message EXCEPT !.fields = object]
        [] Top.type = "Operation" -> [message EXCEPT !.operations[last] = object]
        [] Top.type = "NSRange" -> [message EXCEPT !.operations[last][1] = object]

\* mutable_range(), mutable_original_string(), ...: the field is there from now on.
Mutable(number) ==
  IF number \in DOMAIN Object THEN Object ELSE Put(Object, number, << >>)

Fail == status' = "failed" /\ UNCHANGED <<data, pos, limit, frames, depth>>

Goes(p) == pos' = p /\ UNCHANGED <<data, limit, frames, depth, status>>

DecrementRecursionDepth == depth' = IF depth > 0 THEN depth - 1 ELSE depth

-----------------------------------------------------------------------------
(* The ends of messages and groups.                                        *)

\* Mutant of EndMessage: the recursion depth is not given back.
EndMessageKeepsDepth ==
  /\ status = "reading"
  /\ pos = limit /\ Top.type # "group"
  /\ IF Len(frames) = 1
       THEN status' = "ok" /\ UNCHANGED <<limit, frames>>
       ELSE limit' = Top.outer /\ frames' = Front(frames) /\ UNCHANGED status
  /\ UNCHANGED <<data, pos, depth, message>>

\* ReadTag or ExpectAtEnd finds the limit: the message ends legitimately, and
\* PopLimit restores the limit of the one around it.
EndMessage ==
  /\ status = "reading"
  /\ pos = limit /\ Top.type # "group"
  /\ IF Len(frames) = 1
       THEN status' = "ok" /\ UNCHANGED <<limit, frames, depth>>
       ELSE /\ limit' = Top.outer /\ frames' = Front(frames)
            /\ DecrementRecursionDepth
            /\ UNCHANGED status
  /\ UNCHANGED <<data, pos, message>>

\* The tag that ends the group.
EndsGroup ==
  Top.type = "group" /\ Tag = MakeTag(Top.number, END_GROUP)

EndGroup ==
  /\ HasTag /\ EndsGroup
  /\ pos' = Payload
  /\ frames' = Front(frames)
  /\ DecrementRecursionDepth
  /\ UNCHANGED <<data, limit, message, status>>

\* No tag, a group that meets the limit, the end of a group that did not begin,
\* or a wire type that does not exist.
BadTag ==
  /\ status = "reading"
  /\ \/ pos = limit /\ Top.type = "group"
     \/ pos < limit /\ (Readable(pos) => Tag = 0)
     \/ HasTag /\ GetTagWireType(Tag) = END_GROUP /\ ~EndsGroup
     \/ HasTag /\ GetTagWireType(Tag) > FIXED32
  /\ Fail
  /\ UNCHANGED message

-----------------------------------------------------------------------------
(* The fields of the schema.                                               *)

\* Mutant of ReadInt64: the sign is lost.
ReadUInt64 ==
  /\ HasTag /\ FieldType = "int64"
  /\ IF Readable(Payload)
       THEN /\ message' = Stored(Put(Object, GetTagFieldNumber(Tag),
                                     ValueOfVarint(Payload)))
            /\ Goes(EndOfVarint(Payload))
       ELSE Fail /\ UNCHANGED message

\* Mutant of ReadInt64: a varint that was cut off counts for what is there.
ReadCutInt64 ==
  /\ HasTag /\ FieldType = "int64"
  /\ LET n == GetTagFieldNumber(Tag)
         rest == FoldRight(LAMBDA byte, value : (byte % 128) + 128 * value,
                           SubSeq(data, Payload + 1, limit), 0)
     IN  IF Readable(Payload)
           THEN /\ message' = Stored(Put(Object, n, Signed(ValueOfVarint(Payload), WordBits)))
                /\ Goes(EndOfVarint(Payload))
           ELSE message' = Stored(Put(Object, n, rest)) /\ Fail

ReadInt64 ==
  /\ HasTag /\ FieldType = "int64"
  /\ IF Readable(Payload)
       THEN /\ message' = Stored(Put(Object, GetTagFieldNumber(Tag),
                                     Signed(ValueOfVarint(Payload), WordBits)))
            /\ Goes(EndOfVarint(Payload))
       ELSE Fail /\ UNCHANGED message

\* A state that is none of State's is an unknown field.
ReadState ==
  /\ HasTag /\ FieldType = "State"
  /\ IF Readable(Payload)
       THEN /\ message' = IF IntAt(Payload) \in States
                            THEN Stored(Put(Object, GetTagFieldNumber(Tag), IntAt(Payload)))
                            ELSE message
            /\ Goes(EndOfVarint(Payload))
       ELSE Fail /\ UNCHANGED message

\* A string that is too long takes what there is before the read fails.
ReadString ==
  /\ HasTag /\ FieldType = "string"
  /\ LET n == GetTagFieldNumber(Tag)
         start == EndOfVarint(Payload)
     IN  \/ /\ Readable(Payload) /\ IntAt(Payload) \in 0..limit - start
            /\ message' = Stored(Put(Object, n, SubSeq(data, start + 1, start + IntAt(Payload))))
            /\ Goes(start + IntAt(Payload))
         \/ /\ Readable(Payload) /\ IntAt(Payload) > limit - start
            /\ message' = Stored(Put(Object, n, SubSeq(data, start + 1, limit)))
            /\ Fail
         \/ /\ Readable(Payload) => IntAt(Payload) < 0
            /\ message' = Stored(Mutable(n))
            /\ Fail

\* Mutant of PushLimit: the limit around it is not enforced.
PushLimitUnclipped(p, length) == p + length

\* The new limit: a length that is negative or leads beyond the limit around the
\* message is cut there.
PushLimit(p, length) == IF length \in 0..limit - p THEN p + length ELSE limit

\* Mutant of EnterMessage: an embedded message starts empty.
EnterMessageCleared ==
  /\ HasTag /\ FieldType \in {"NSRange", "Operation"}
  /\ message' = IF FieldType = "Operation"
                  THEN [message EXCEPT !.operations = Append(@, NoFields)]
                  ELSE Stored(Put(Object, GetTagFieldNumber(Tag), NoFields))
  /\ IF Readable(Payload) /\ depth < RecursionLimit
       THEN /\ pos' = EndOfVarint(Payload)
            /\ limit' = PushLimit(EndOfVarint(Payload), IntAt(Payload))
            /\ frames' = Append(frames, Frame(FieldType, 0, limit))
            /\ depth' = depth + 1
            /\ UNCHANGED <<data, status>>
       ELSE Fail

\* ReadMessageNoVirtual into mutable_range() or add_operations().
EnterMessage ==
  /\ HasTag /\ FieldType \in {"NSRange", "Operation"}
  /\ message' = IF FieldType = "Operation"
                  THEN [message EXCEPT !.operations = Append(@, NoFields)]
                  ELSE Stored(Mutable(GetTagFieldNumber(Tag)))
  /\ IF Readable(Payload) /\ depth < RecursionLimit
       THEN /\ pos' = EndOfVarint(Payload)
            /\ limit' = PushLimit(EndOfVarint(Payload), IntAt(Payload))
            /\ frames' = Append(frames, Frame(FieldType, 0, limit))
            /\ depth' = depth + 1
            /\ UNCHANGED <<data, status>>
       ELSE Fail

-----------------------------------------------------------------------------
(* SkipField: everything else.                                             *)

Unknown(wireType) == HasTag /\ FieldType = "unknown" /\ GetTagWireType(Tag) = wireType

SkipVarint ==
  /\ Unknown(VARINT)
  /\ IF Readable(Payload) THEN Goes(EndOfVarint(Payload)) ELSE Fail
  /\ UNCHANGED message

SkipFixed ==
  /\ \E bytes \in {4, 8} :
       /\ Unknown(IF bytes = 4 THEN FIXED32 ELSE FIXED64)
       /\ IF Payload + bytes <= limit THEN Goes(Payload + bytes) ELSE Fail
  /\ UNCHANGED message

\* Mutant of SkipLengthDelimited: a negative length is not refused.
SkipBackwards ==
  /\ Unknown(LENGTH_DELIMITED)
  /\ IF Readable(Payload) /\ IntAt(Payload) <= limit - EndOfVarint(Payload)
       THEN Goes(EndOfVarint(Payload) + IntAt(Payload))
       ELSE Fail
  /\ UNCHANGED message

SkipLengthDelimited ==
  /\ Unknown(LENGTH_DELIMITED)
  /\ IF Readable(Payload) /\ IntAt(Payload) \in 0..limit - EndOfVarint(Payload)
       THEN Goes(EndOfVarint(Payload) + IntAt(Payload))
       ELSE Fail
  /\ UNCHANGED message

\* Mutant of EnterGroup: the recursion is not counted.
EnterGroupAnyDepth ==
  /\ Unknown(START_GROUP)
  /\ pos' = Payload
  /\ frames' = Append(frames, Frame("group", GetTagFieldNumber(Tag), limit))
  /\ depth' = depth + 1
  /\ UNCHANGED <<data, limit, message, status>>

EnterGroup ==
  /\ Unknown(START_GROUP)
  /\ IF depth < RecursionLimit
       THEN /\ pos' = Payload
            /\ frames' = Append(frames, Frame("group", GetTagFieldNumber(Tag), limit))
            /\ depth' = depth + 1
            /\ UNCHANGED <<data, limit, status>>
       ELSE Fail
  /\ UNCHANGED message

-----------------------------------------------------------------------------
Next ==
  \/ EndMessage \/ EndGroup \/ BadTag
  \/ ReadInt64 \/ ReadState \/ ReadString \/ EnterMessage
  \/ SkipVarint \/ SkipFixed \/ SkipLengthDelimited \/ EnterGroup

Spec == Init /\ [][Next]_vars

-----------------------------------------------------------------------------
(* Types.                                                                  *)

Integers64 == -(2^(WordBits - 1))..2^(WordBits - 1) - 1

\* A message's fields have the types of the schema.
WellTyped(type, object) ==
  \A n \in DOMAIN object :
    /\ n \in DOMAIN FieldTypes[type]
    /\ FieldTypes[type][n] = "int64" => object[n] \in Integers64
    /\ FieldTypes[type][n] = "State" => object[n] \in States
    /\ FieldTypes[type][n] = "string" => object[n] \in Seq(0..255)

TypeOK ==
  /\ data \in Seq(0..255)
  /\ pos \in 0..Len(data) /\ limit \in 0..Len(data)
  /\ status \in {"reading", "ok", "failed"} /\ depth \in Nat
  /\ \A k \in DOMAIN frames :
       /\ frames[k].type \in DOMAIN FieldTypes \cup {"group"}
       /\ frames[k].number \in Nat /\ frames[k].outer \in 0..Len(data)
  /\ WellTyped("ChangeSet", message.fields)
  /\ \A k \in DOMAIN message.operations :
       LET op == message.operations[k]
       IN  /\ WellTyped("Operation", op)
           /\ 1 \in DOMAIN op => WellTyped("NSRange", op[1])

-----------------------------------------------------------------------------
(* Safety: any bytes.                                                      *)

\* The limit of the message or group at depth k.
LimitAt(k) == IF k = Len(frames) THEN limit ELSE frames[k + 1].outer

\* "The shortest limit on the stack is always enforced, even if it is not the top
\* limit." (coded_stream.h:304): a message never reads behind a message around it.
LimitsNest ==
  /\ frames # << >> /\ pos <= limit
  /\ \A k \in DOMAIN frames : LimitAt(k) <= frames[k].outer
  /\ LimitAt(1) = Len(data)

\* "If successful, the entire input will be consumed." (message_lite.h:122)
OkConsumesAll == status = "ok" => pos = Len(data)

\* The recursion of the parser is bounded (IncrementRecursionDepth), whatever groups
\* the bytes nest, and what is counted is the calls under way: however many messages
\* and groups were read before, none of them keeps a part of the budget.
DepthBounded ==
  /\ Len(frames) <= RecursionLimit + 1
  /\ status = "reading" => depth = Len(frames) - 1

\* What makes it return: a step of a parse reads bytes, ends a message or ends the
\* parse.
MakesProgress ==
  [][data' = data =>
       \/ pos' > pos
       \/ pos' = pos /\ Len(frames') < Len(frames)
       \/ status' # "reading"]_vars

-----------------------------------------------------------------------------
(* Safety: bytes that are, or begin like, the encoding of a change set.     *)

Encodings == {<<cs, SerializeChangeSet(cs)>> : cs \in Messages}

\* A change set arrives as it was sent (SerializeAsString, ParseFromArray).
RoundTrip ==
  status # "reading" =>
    \A e \in Encodings : data = e[2] => status = "ok" /\ message = e[1]

\* One encoding after the other.
Joins == {<<e[1], f[1], e[2] \o f[2]>> : e, f \in Encodings}

\* An embedded message on its own.
Embedded(bytes) == <<MakeTag(3, LENGTH_DELIMITED)>> \o Varint[Len(bytes)] \o bytes

\* One operation after the other, inside an embedded message.
FirstOperations == {Head(cs.operations) : cs \in {m \in Messages : m.operations # << >>}}
OperationJoins ==
  {<<op, from, Embedded(SerializeOperation(op) \o SerializeOperation(from))>> :
     op, from \in FirstOperations}

\* "Singular fields read from the input overwrite what is already in the Message and
\* repeated fields are appended" (message_lite.h:148): one encoding after the other
\* is the encoding of what MergeFrom makes, for a change set and inside it.
ParseIsMerge ==
  status # "reading" =>
    /\ \A j \in Joins :
         data = j[3] => status = "ok" /\ message = MergeChangeSet(j[1], j[2])
    /\ \A j \in OperationJoins :
         data = j[3] => status = "ok" /\ message.operations = <<MergeOperation(j[1], j[2])>>

\* What was read of an operation: a string may be cut, a range may lack fields.
PartOf(op, whole) ==
  \A n \in DOMAIN op :
    /\ n \in DOMAIN whole
    /\ CASE FieldTypes.Operation[n] = "string" -> IsPrefix(op[n], whole[n])
         [] FieldTypes.Operation[n] = "NSRange" ->
              \A k \in DOMAIN op[n] : k \in DOMAIN whole[n] /\ op[n][k] = whole[n][k]
         [] OTHER -> op[n] = whole[n]

\* The application does not look at ParseFromArray's result: what an encoding that was
\* cut off leaves behind is a prefix of the operations, of which at most the last one
\* is incomplete, and it has no value that was not sent.
CutIsPrefix ==
  \A e \in Encodings :
    IsPrefix(data, e[2]) =>
      LET ops == message.operations
      IN  /\ Len(ops) <= Len(e[1].operations)
          /\ \A k \in DOMAIN ops :
               \/ ops[k] = e[1].operations[k]
               \/ k = Len(ops) /\ PartOf(ops[k], e[1].operations[k])
          /\ \A n \in DOMAIN message.fields :
               n \in DOMAIN e[1].fields /\ message.fields[n] = e[1].fields[n]

\* ParseFromArray "Returns false on a read error or if the input is in the wrong
\* format" (message_lite.h:115): an encoding that was cut off inside an operation is
\* not accepted.
CutIsRejected ==
  status = "ok" =>
    \A e \in Encodings : IsPrefix(data, e[2]) => SerializeChangeSet(message) = data
=============================================================================
