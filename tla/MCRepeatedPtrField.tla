------------------------- MODULE MCRepeatedPtrField -------------------------
(* Two fields of elements in which something is set or nothing.            *)
EXTENDS RepeatedPtrField

TwoFields == {"a", "b"}
OnePart == {"set"}
=============================================================================
