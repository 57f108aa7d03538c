------------------------------ MODULE Operation ------------------------------
(***************************************************************************)
(* An edit of the shared document (xxxDocOperation) and the arithmetic     *)
(* that carries an index, or a range, of one edit past another edit (the   *)
(* two updateIndex methods of xxxDocStackManager).                         *)
(*                                                                         *)
(* The text of an edit is a sequence of glyphs. A glyph is whatever a      *)
(* module that uses this one takes for a character: only Len, \o and       *)
(* SubSeq are applied to it.                                               *)
(***************************************************************************)
EXTENDS Integers, Sequences

\* op.state, in the order of the numbers 0..4 that xxxDocOperation.h gives
\* them.
States == {"LOCAL", "SEND", "GLOBAL", "UNDO", "REDO"}

\* A reference to "the ground": the operation was made before its author had
\* seen any global operation.
NoRefer == -1

\* The properties of xxxDocOperation, for participants P and characters G. A
\* location and a length are unsigned, and no edit cuts or puts more than one
\* character.
Ranges == [location : Nat, length : Nat]

Strings(G) == {s \in Seq(G) : Len(s) <= 1}

Operations(P, G) ==
  [participantID  : P,
   operationID    : Nat,
   globalID       : Nat,
   referID        : Nat \cup {NoRefer},
   state          : States,
   range          : Ranges,
   originalString : Strings(G),
   replaceString  : Strings(G)]

Replace(text, range, put) ==
  SubSeq(text, 1, range.location)
    \o put
    \o SubSeq(text, range.location + range.length + 1, Len(text))

\* stringByReplacingCharactersInRange and substringWithRange raise
\* NSRangeException outside these.
Within(range, text) ==
  /\ range.location >= 0
  /\ range.length >= 0
  /\ range.location + range.length <= Len(text)

Substring(text, range) ==
  SubSeq(text, range.location + 1, range.location + range.length)

Growth(op) == Len(op.replaceString) - Len(op.originalString)

\* Mutant of Carried: an index behind op does not move by what op adds or removes.
CarriedWithoutGrowth(index, op, author, landing) ==
  IF op.participantID = author \/ op.range.location + op.range.length < index
    THEN index
    ELSE landing

\* The three cases the two versions of updateIndex share: they differ only in
\* where an index that op covers lands.
Carried(index, op, author, landing) ==
  IF op.participantID = author \/ op.range.location > index
    THEN index
    ELSE IF op.range.location + op.range.length < index
           THEN index + Growth(op)
           ELSE landing

\* updateIndex:AfterOperation:authorID: (an index that op covers falls back to
\* the front of op).
UpdateIndex(index, op, author) ==
  Carried(index, op, author, op.range.location)

\* updateIndex:AfterOperationV2:authorID: (it moves behind what op wrote).
UpdateIndexV2(index, op, author) ==
  Carried(index, op, author, op.range.location + Len(op.replaceString))

Between(start, end) == [location |-> start, length |-> end - start]

End(range) == range.location + range.length

\* Every caller moves both ends of a range with the same version and rebuilds
\* the range from the two results.
\* (Mutant of UpdateRange: they take one version each.)
UpdateRangeMixed(range, op, author) ==
  Between(UpdateIndexV2(range.location, op, author),
          UpdateIndex(End(range), op, author))

UpdateRange(range, op, author) ==
  Between(UpdateIndex(range.location, op, author),
          UpdateIndex(End(range), op, author))

UpdateRangeV2(range, op, author) ==
  Between(UpdateIndexV2(range.location, op, author),
          UpdateIndexV2(End(range), op, author))
==============================================================================
