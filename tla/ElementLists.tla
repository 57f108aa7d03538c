---------------------------- MODULE ElementLists ----------------------------
(***************************************************************************)
(* What repeated fields promise their callers: each is a list of elements, *)
(* and an element is in one list or the caller's. A new element is empty,  *)
(* also if the memory for it was used before.                              *)
(***************************************************************************)
EXTENDS SequencesExt

CONSTANTS
  FieldNames,   \* the repeated fields
  Parts         \* what an element may have set

Contents == SUBSET Parts

VARIABLES
  list,   \* list[f]: the elements of f
  own     \* the elements of the caller

Init ==
  /\ list = [f \in FieldNames |-> << >>]
  /\ own = << >>

AddElement(f) == list' = [list EXCEPT ![f] = Append(@, {})] /\ UNCHANGED own

RemoveElement(f) ==
  list[f] # << >> /\ list' = [list EXCEPT ![f] = Front(@)] /\ UNCHANGED own

Empty(f) == list' = [list EXCEPT ![f] = << >>] /\ UNCHANGED own

Merge(f, g) == list' = [list EXCEPT ![f] = @ \o list[g]] /\ UNCHANGED own

Copy(f, g) == list' = [list EXCEPT ![f] = list[g]] /\ UNCHANGED own

Exchange(f, g) ==
  list' = [list EXCEPT ![f] = list[g], ![g] = list[f]] /\ UNCHANGED own

ExchangeElements(f, i, j) ==
  list' = [list EXCEPT ![f][i] = list[f][j], ![f][j] = list[f][i]] /\ UNCHANGED own

Without(s, start, num) == SubSeq(s, 1, start) \o SubSeq(s, start + num + 1, Len(s))

Take(f, start, num) ==
  /\ list' = [list EXCEPT ![f] = Without(@, start, num)]
  /\ own' = own \o SubSeq(list[f], start + 1, start + num)

Cut(f, start, num) ==
  list' = [list EXCEPT ![f] = Without(@, start, num)] /\ UNCHANGED own

\* The caller's last element becomes the last one of f.
Give(f) ==
  /\ own # << >>
  /\ list' = [list EXCEPT ![f] = Append(@, Last(own))]
  /\ own' = Front(own)

Obtain == own' = Append(own, {}) /\ UNCHANGED list

Discard == own # << >> /\ own' = Front(own) /\ UNCHANGED list

\* Something is set in an element, of a field or of the caller.
SetIn(s, t) == \E i \in DOMAIN s, p \in Parts : t = [s EXCEPT ![i] = @ \cup {p}]

Write ==
  \/ SetIn(own, own') /\ UNCHANGED list
  \/ \E f \in FieldNames : SetIn(list[f], list'[f]) /\ list' = [list EXCEPT ![f] = list'[f]]
                           /\ UNCHANGED own

Next ==
  \/ Obtain \/ Discard \/ Write
  \/ \E f \in FieldNames :
       \/ AddElement(f) \/ RemoveElement(f) \/ Empty(f) \/ Give(f)
       \/ \E g \in FieldNames : Merge(f, g) \/ Copy(f, g) \/ Exchange(f, g)
       \/ \E i, j \in DOMAIN list[f] : ExchangeElements(f, i, j)
       \/ \E start \in 0..Len(list[f]) : \E num \in 1..Len(list[f]) - start :
            Take(f, start, num) \/ Cut(f, start, num)

Spec == Init /\ [][Next]_<<list, own>>
=============================================================================
