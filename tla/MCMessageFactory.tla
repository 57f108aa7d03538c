-------------------------- MODULE MCMessageFactory --------------------------
(* The types of changeSet.proto and one of another pool; the once objects are *)
(* those of MCOnceInit.                                                    *)
EXTENDS MessageFactory, TLC

CONSTANTS t1, t2, t3, nobody
TwoThreads == {t1, t2}
ThreeThreads == {t1, t2, t3}
DescriptorNeeds == << <<2, 3>>, <<4>>, <<4>>, << >> >>
ChangeSetTypes == <<"NSRange", "Operation", "ChangeSet">>
ForeignTypes == {"Dynamic"}
AnyThread == Permutations(Threads)
=============================================================================
