---------------------------- MODULE BufferWorker ----------------------------
(***************************************************************************)
(* xxxDocBufferWorker: a change set of one device becomes the data of an   *)
(* event (getDataFromChangeSet), and the event becomes a change set of     *)
(* another device (getChangeSetFromNSData), whatever the parser says.      *)
(*                                                                         *)
(* A device's change set has ints of the platform, an NSRange of unsigned  *)
(* numbers and NSStrings: sequences of characters. The bytes between are   *)
(* those of Wire, the parser is MessageParser.                             *)
(***************************************************************************)
EXTENDS MessageParser

CONSTANTS
  DeviceSets   \* the change sets a device may send

VARIABLES
  sent,       \* the change set that was encoded: none yet, or one
  received,   \* the change set that was decoded: none yet, or one
  alive       \* the sender did not crash

bwVars == <<sent, received, alive>>

\* Characters the default C encoding has a byte for: the others have no byte.
Encodable(string) == \A k \in DOMAIN string : string[k] \in 0..255

\* A C string ends in front of its first byte 0.
CString(bytes) ==
  LET end == SelectInSeq(bytes, LAMBDA byte : byte = 0)
  IN  IF end = 0 THEN bytes ELSE SubSeq(bytes, 1, end - 1)

BWInit ==
  /\ ParseFrom(<< >>)
  /\ sent = {} /\ received = {}
  /\ alive = TRUE

\* operationBufferObject: every field is set.
OperationBuffer(op) ==
  (1 :> ((1 :> op.range.location) @@ (2 :> op.range.length)))
    @@ (2 :> CString(op.originalString)) @@ (3 :> CString(op.replcaceString))
    @@ (4 :> op.state)
    @@ (5 :> op.operationID) @@ (6 :> op.participantID)
    @@ (7 :> op.globalID) @@ (8 :> op.referID)

BufferObject(cs) ==
  [fields |-> (1 :> cs.startGlobalID) @@ (2 :> cs.cursorLocation),
   operations |-> [k \in DOMAIN cs.operationArray |-> OperationBuffer(cs.operationArray[k])]]

\* The receiver gets the bytes and begins to parse them.
Arrive(bytes) ==
  /\ data' = bytes
  /\ pos' = 0
  /\ limit' = Len(bytes)
  /\ frames' = <<Frame("ChangeSet", 0, Len(bytes))>>
  /\ depth' = 0
  /\ message' = EmptyChangeSet
  /\ status' = "reading"

\* cStringUsingEncoding returns NULL for a string it cannot convert, and a
\* std::string made from NULL crashes.
GetDataFromChangeSet ==
  /\ alive /\ sent = {} /\ data = << >>
  /\ \E cs \in DeviceSets :
       /\ sent' = {cs}
       /\ IF \A k \in DOMAIN cs.operationArray :
               /\ Encodable(cs.operationArray[k].originalString)
               /\ Encodable(cs.operationArray[k].replcaceString)
            THEN Arrive(SerializeChangeSet(BufferObject(cs))) /\ UNCHANGED alive
            ELSE alive' = FALSE /\ UNCHANGED vars
  /\ UNCHANGED received

\* What every device broadcasts when it joined: "test bc".
Hello == <<116, 101, 115, 116, 32, 98, 99>>

JoinSession ==
  /\ alive /\ sent = {} /\ data = << >>
  /\ Arrive(Hello)
  /\ UNCHANGED bwVars

\* Any other data: the framework hands over what was broadcast in the session, by
\* whatever program.
ReceivedData ==
  /\ alive /\ sent = {} /\ data = << >>
  /\ \E bytes \in Inputs \ {<< >>} : Arrive(bytes)
  /\ UNCHANGED bwVars

\* ParseFromArray.
Parse == data # << >> /\ Next /\ UNCHANGED bwVars

\* A getter returns the default of a field that is not there.
Get(object, number, default) == IF number \in DOMAIN object THEN object[number] ELSE default

\* int64 becomes int.
GetInt(object, number) == Signed(Get(object, number, 0), IntBits)

\* Mutant of DecodedOperation: the ends of the range are swapped.
DecodedOperationSwapped(op) ==
  [range |-> [location |-> Unsigned(Get(Get(op, 1, NoFields), 2, 0)),
              length |-> Unsigned(Get(Get(op, 1, NoFields), 1, 0))],
   originalString |-> CString(Get(op, 2, << >>)),
   replcaceString |-> CString(Get(op, 3, << >>)),
   state |-> Get(op, 4, 0), operationID |-> GetInt(op, 5),
   participantID |-> Get(op, 6, 0), globalID |-> GetInt(op, 7), referID |-> GetInt(op, 8)]

DecodedOperation(op) ==
  [range |-> [location |-> Unsigned(Get(Get(op, 1, NoFields), 1, 0)),
              length |-> Unsigned(Get(Get(op, 1, NoFields), 2, 0))],
   originalString |-> CString(Get(op, 2, << >>)),
   replcaceString |-> CString(Get(op, 3, << >>)),
   state |-> Get(op, 4, 0), operationID |-> GetInt(op, 5),
   participantID |-> Get(op, 6, 0), globalID |-> GetInt(op, 7), referID |-> GetInt(op, 8)]

\* Mutant of GetChangeSetFromNSData: only what was parsed well is decoded.
GetChangeSetIfParsed ==
  /\ status = "ok" /\ received = {}
  /\ received' =
       {[startGlobalID |-> GetInt(message.fields, 1),
         cursorLocation |-> GetInt(message.fields, 2),
         operationArray |-> [k \in DOMAIN message.operations |->
                               DecodedOperation(message.operations[k])]]}
  /\ UNCHANGED <<vars, sent, alive>>

\* The result of the parse is not looked at.
GetChangeSetFromNSData ==
  /\ status # "reading" /\ received = {}
  /\ received' =
       {[startGlobalID |-> GetInt(message.fields, 1),
         cursorLocation |-> GetInt(message.fields, 2),
         operationArray |-> [k \in DOMAIN message.operations |->
                               DecodedOperation(message.operations[k])]]}
  /\ UNCHANGED <<vars, sent, alive>>

BWNext ==
  \/ GetDataFromChangeSet \/ JoinSession \/ ReceivedData
  \/ Parse \/ GetChangeSetFromNSData

\* One thread sends, and the framework's thread of the receiver goes on.
BWSpec == BWInit /\ [][BWNext]_<<vars, bwVars>>
BWFairSpec == BWSpec /\ WF_<<vars, bwVars>>(Parse) /\ WF_<<vars, bwVars>>(GetChangeSetFromNSData)

-----------------------------------------------------------------------------
NothingReceived == [startGlobalID |-> 0, cursorLocation |-> 0, operationArray |-> << >>]

\* A change set that is decoded is the one that was encoded, operation by operation
\* and field by field, through the narrowing of int64 and the defaults; "test bc" is
\* a change set without operations.
ArrivesAsSent ==
  received # {} =>
    /\ sent # {} => received = sent
    /\ data = Hello => received = {NothingReceived}

\* Every event is decoded in the end, "test bc" included: the stack queue gets a change
\* set for each of them.
Decoded == data # << >> ~> received # {}
=============================================================================
