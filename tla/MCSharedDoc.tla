---------------------------- MODULE MCSharedDoc ----------------------------
(* Instances of SharedDoc for TLC. *)
EXTENDS SharedDoc

CONSTANTS a, b, d, none

OneDevice == {a}
TwoDevices == {a, b}
ThreeDevices == {a, b, d}

\* Edits: <<characters cut, characters put>>.
Insert == <<0, 1>>
Delete == <<1, 0>>
Overtype == <<1, 1>>
CutTwo == <<2, 0>>
PutTwo == <<0, 2>>

InsertsOnly == {Insert}
InsertsAndDeletes == {Insert, Delete}
Keystrokes == {Insert, Delete, Overtype}
AllEdits == {Insert, Delete, Overtype, CutTwo, PutTwo}

\* One edit of a device at a time, on an idle device.
Lockstep == {}
\* ... and broadcasts may be refused.
RefusedLockstep == {"fail"}
\* A user types, and the timer fires, while blocks are waiting.
Overlapping == {"overlap"}
\* Everything users may do while broadcasts are accepted.
Bursts == {"overlap", "burst"}
RefusedBursts == {"fail", "overlap", "burst"}
UndoAlone == {"undo"}
UndoBursts == {"undo", "burst"}
\* Everything the program allows, but the timer's handler is one step.
WholeTimer == {"fail", "overlap", "burst", "undo"}
\* Users do not wait for the session.
BeforeSession == {"early"}
TornTimer == {"split"}
Everything == {"early", "fail", "overlap", "burst", "undo", "split"}

AnyDevice == Permutations(Clients)
=============================================================================
