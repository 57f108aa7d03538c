----------------------------- MODULE OrderedLog -----------------------------
(***************************************************************************)
(* What the session promises to the devices that edit a document together: *)
(* there is one order of all operations, and every device applies exactly  *)
(* the operations of that order, in that order, each once.                 *)
(***************************************************************************)
EXTENDS Naturals, Sequences

CONSTANT Clients

VARIABLES
  order,    \* the operations of the session, in order
  applied   \* applied[c]: those c has applied

vars == <<order, applied>>

Init ==
  /\ order = << >>
  /\ applied = [c \in Clients |-> << >>]

\* Some operations, a change set, join the order at its end.
Publish ==
  /\ Len(order') > Len(order)
  /\ SubSeq(order', 1, Len(order)) = order
  /\ UNCHANGED applied

Apply(c) ==
  /\ Len(applied[c]) < Len(order)
  /\ applied' = [applied EXCEPT ![c] = Append(@, order[Len(@) + 1])]
  /\ UNCHANGED order

Next == Publish \/ \E c \in Clients : Apply(c)

Spec == Init /\ [][Next]_vars
=============================================================================
