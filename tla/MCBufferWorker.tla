--------------------------- MODULE MCBufferWorker ---------------------------
(***************************************************************************)
(* Instances of BufferWorker: an int has 8 bits, an int64 has 22, so that  *)
(* the IDs below are the largest and the smallest ones. The other data are *)
(* bytes in any order, and encodings of a few change sets, whole, cut off  *)
(* and one after the other.                                                *)
(***************************************************************************)
EXTENDS BufferWorker

\* 960 stands for a character without a byte.
Strings == {<< >>, <<97>>, <<960>>}
Places == {[location |-> 0, length |-> 0], [location |-> 200, length |-> 1]}
DeviceOperations ==
  {[range |-> range, originalString |-> IF range.length = 0 THEN << >> ELSE <<98>>,
    replcaceString |-> string, state |-> state, operationID |-> id,
    participantID |-> participant, globalID |-> -1, referID |-> refer] :
     range \in Places, string \in Strings, state \in {0, 3, 4}, id \in {0, 127},
     participant \in {-2097152, 2097151}, refer \in {-1, 127}}
Few == {op \in DeviceOperations :
          op.state = 0 /\ op.operationID = 127 /\ op.participantID = 2097151}
Batches == {<< >>} \cup {<<op>> : op \in DeviceOperations} \cup {<<o, p>> : o, p \in Few}
SomeSets ==
  {[startGlobalID |-> start, cursorLocation |-> 127, operationArray |-> ops] :
     start \in {-128, 3}, ops \in Batches}

\* Tags of every kind, lengths, and a byte that continues a varint: 253 1 is -3 as
\* an int.
\*   8 varint field 1, 10 length-delimited field 1, 26 length-delimited field 3,
\*   11 and 12 begin and end of group 1, 34 length-delimited field 4,
\*   127 no wire type.
Alphabet == {0, 1, 2, 8, 10, 11, 12, 26, 34, 127, 253}
\* A fixed32 and a fixed64 of a field that is unknown, long enough or not.
FixedBytes ==
  {<<tag>> \o [k \in 1..n |-> 8] : tag \in {13, 9}, n \in 3..10}
\* A length of -4 in a group.
BackIntoGroup == <<11, 34, 252, 1>>
AnyBytes == UNION {[1..n -> Alphabet] : n \in 0..3} \cup FixedBytes \cup {BackIntoGroup}

\* Operations within a change set, and groups within them: every byte decides.
NestAlphabet == {2, 4, 10, 11, 12, 26}
NestedBytes == UNION {[1..n -> NestAlphabet] : n \in 0..5}

\* 128, 16384 and (as -2097152) 2^21 are the first numbers of two, three and four bytes.
Place == (1 :> 16384) @@ (2 :> 1)
Inserted ==
  (1 :> Place) @@ (2 :> << >>) @@ (3 :> <<97>>) @@ (4 :> 0)
    @@ (5 :> 127) @@ (6 :> 128) @@ (7 :> -1) @@ (8 :> -1)
Deleted == (1 :> (2 :> 127)) @@ (2 :> <<98, 99>>) @@ (4 :> 2) @@ (6 :> 16383)
Bare == (1 :> NoFields) @@ (6 :> -2097152)

ChangeSets ==
  {[fields |-> fields, operations |-> ops] :
     fields \in {NoFields, (1 :> -1) @@ (2 :> 128)},
     ops \in {<< >>, <<Inserted>>, <<Bare>>, <<NoFields>>, <<Inserted, Deleted>>,
              <<Deleted, Bare>>, <<NoFields, Inserted>>}}

Whole == {SerializeChangeSet(cs) : cs \in ChangeSets}
CutOff == UNION {{SubSeq(bytes, 1, k) : k \in 0..Len(bytes)} : bytes \in Whole}
Joined == {bytes \o more : bytes, more \in Whole}
OperationsJoined ==
  {Embedded(SerializeOperation(op) \o SerializeOperation(from)) :
     op, from \in {Inserted, Deleted, Bare, NoFields}}
Encoded == CutOff \cup Joined \cup OperationsJoined
AllBytes == AnyBytes \cup NestedBytes \cup Encoded
=============================================================================
