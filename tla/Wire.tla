-------------------------------- MODULE Wire --------------------------------
(***************************************************************************)
(* How a change set becomes bytes: the messages of changeSet.proto, the    *)
(* code protoc generated for them and the part of the vendored Protocol    *)
(* Buffers library it calls.                                               *)
(*                                                                         *)
(* A message holds the fields that were set: NSRange and Operation are     *)
(* functions from field numbers to values, and a change set is a record of *)
(* such a function (fields 1 and 2) and of the sequence operations (field  *)
(* 3). A string is a sequence of bytes. Fields the schema does not know    *)
(* are kept by the library and read by nobody: they are left out.          *)
(***************************************************************************)
EXTENDS Integers, Sequences, SequencesExt

CONSTANTS
  WordBits,   \* 64: the width of int64
  IntBits     \* 32: the width of int, of a tag and of a length

ASSUME WidthsAssumption ==
  WordBits \in Nat /\ IntBits \in Nat /\ 4 <= IntBits /\ IntBits <= WordBits

\* kMaxVarintBytes: seven bits go into a byte.
MaxVarintBytes == (WordBits + 6) \div 7

\* The value of the lowest bits, as an unsigned and as a signed number.
Unsigned(v) == v % 2^WordBits
Signed(v, bits) ==
  LET u == v % 2^bits IN IF u < 2^(bits - 1) THEN u ELSE u - 2^bits

-----------------------------------------------------------------------------
(* Fields.                                                                 *)

VARINT == 0
FIXED64 == 1
LENGTH_DELIMITED == 2
START_GROUP == 3
END_GROUP == 4
FIXED32 == 5

\* changeSet.proto: the types of the fields, by number.
FieldTypes == [
  NSRange   |-> <<"int64", "int64">>,
  Operation |-> <<"NSRange", "string", "string", "State",
                  "int64", "int64", "int64", "int64">>,
  ChangeSet |-> <<"int64", "int64", "Operation">>]

States == 0..4   \* Operation_State_IsValid

WireTypeFor(type) == IF type \in {"int64", "State"} THEN VARINT ELSE LENGTH_DELIMITED

MakeTag(number, wireType) == number * 8 + wireType
GetTagFieldNumber(tag) == tag \div 8
GetTagWireType(tag) == tag % 8

NoFields == << >>
EmptyChangeSet == [fields |-> NoFields, operations |-> << >>]

Put(message, number, value) == (number :> value) @@ message

-----------------------------------------------------------------------------
(* Sizes, computed before anything is written.                             *)

\* The comparisons of VarintSize64, with v < 2^bound: those with a bound beyond the
\* word are true of every v.
VarintBounds == {7, 14, 21, 28, 35, 42, 49, 56, 63}

\* Mutant of VarintSize: the bound itself is taken for the last one that fits.
VarintSizeTooShort(v) ==
  1 + Cardinality({bound \in VarintBounds : bound < WordBits /\ v > 2^bound})

VarintSize(v) ==
  1 + Cardinality({bound \in VarintBounds : bound < WordBits /\ ~(v < 2^bound)})

LengthDelimitedSize(length) == VarintSize(length) + length

\* A field costs one byte for its tag.
FieldsSize(SizeOf(_), message) ==
  FoldFunction(LAMBDA size, total : 1 + size + total, 0,
               [n \in DOMAIN message |-> SizeOf(n)])

RangeByteSize(range) ==
  FieldsSize(LAMBDA n : VarintSize(Unsigned(range[n])), range)

OperationByteSize(op) ==
  FieldsSize(LAMBDA n :
    CASE FieldTypes.Operation[n] = "NSRange" -> LengthDelimitedSize(RangeByteSize(op[n]))
      [] FieldTypes.Operation[n] = "string" -> LengthDelimitedSize(Len(op[n]))
      [] OTHER -> VarintSize(Unsigned(op[n])), op)

ChangeSetByteSize(cs) ==
  FieldsSize(LAMBDA n : VarintSize(Unsigned(cs.fields[n])), cs.fields)
    + FieldsSize(LAMBDA k : LengthDelimitedSize(OperationByteSize(cs.operations[k])),
                 cs.operations)

-----------------------------------------------------------------------------
(* Bytes. The length written before an embedded message is its cached size. *)

\* Mutant of Varint: the continuation bit is missing.
VarintWithoutContinuation ==
  LET Bytes[v \in Nat] == IF v < 128 THEN <<v>> ELSE <<v % 128>> \o Bytes[v \div 128]
  IN  Bytes

Varint ==
  LET Bytes[v \in Nat] == IF v < 128 THEN <<v>> ELSE <<128 + (v % 128)>> \o Bytes[v \div 128]
  IN  Bytes

WriteFields(type, Payload(_), message) ==
  FlattenSeq([n \in 1..Len(FieldTypes[type]) |->
    IF n \in DOMAIN message
      THEN <<MakeTag(n, WireTypeFor(FieldTypes[type][n]))>> \o Payload(n)
      ELSE << >>])

SerializeRange(range) ==
  WriteFields("NSRange", LAMBDA n : Varint[Unsigned(range[n])], range)

SerializeOperation(op) ==
  WriteFields("Operation", LAMBDA n :
    CASE FieldTypes.Operation[n] = "NSRange" ->
           Varint[RangeByteSize(op[n])] \o SerializeRange(op[n])
      [] FieldTypes.Operation[n] = "string" -> Varint[Len(op[n])] \o op[n]
      [] OTHER -> Varint[Unsigned(op[n])], op)

SerializeChangeSet(cs) ==
  WriteFields("ChangeSet", LAMBDA n : Varint[Unsigned(cs.fields[n])], cs.fields)
    \o FlattenSeq([k \in DOMAIN cs.operations |->
         <<MakeTag(3, LENGTH_DELIMITED)>>
           \o Varint[OperationByteSize(cs.operations[k])]
           \o SerializeOperation(cs.operations[k])])

-----------------------------------------------------------------------------
(* MergeFrom: what is set overwrites, an embedded message is merged,       *)
(* repeated fields are appended.                                           *)

MergeRange(range, from) == from @@ range

MergeOperation(op, from) ==
  IF 1 \in DOMAIN op \cap DOMAIN from
    THEN (1 :> MergeRange(op[1], from[1])) @@ from @@ op
    ELSE from @@ op

MergeChangeSet(cs, from) ==
  [fields |-> from.fields @@ cs.fields, operations |-> cs.operations \o from.operations]
=============================================================================
