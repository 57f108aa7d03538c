--------------------------- MODULE MCStackThreads ---------------------------
(***************************************************************************)
(* Instances of StackThreads: which threads may be in the middle of        *)
(* something at the same time.                                             *)
(***************************************************************************)
EXTENDS StackThreads

KeysOverlap == {"keys", "refuse", "decode"}
TimerOverlaps == {"timer"}
Refusals == {"refuse"}
KeysAndReturns == {"keys", "refuse", "return"}
TimerAndReturns == {"timer", "refuse", "return"}
KeysAndDecoding == {"keys", "decode"}
\* Everything, as long as nothing comes in between when a refused change set returns.
NoReturns == {"keys", "timer", "decode", "refuse"}
\* Everything, as long as the session accepts what is broadcast.
NoRefusals == {"keys", "timer", "decode"}
=============================================================================
