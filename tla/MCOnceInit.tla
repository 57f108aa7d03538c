----------------------------- MODULE MCOnceInit -----------------------------
(***************************************************************************)
(* The once objects on the way to the descriptors of changeSet.proto:      *)
(*   1 protobuf_AssignDescriptors_once_   (changeSet.pb.cc)                *)
(*   2 generated_pool_init_               (descriptor.cc)                  *)
(*   3 generated_message_factory_once_init_   (message.cc)                 *)
(*   4 shutdown_functions_init            (common.cc)                      *)
(* Assigning the descriptors calls generated_pool() and then               *)
(* generated_factory(), and both initialisers call OnShutdown.             *)
(***************************************************************************)
EXTENDS OnceInit, TLC

CONSTANTS t1, t2, t3
TwoThreads == {t1, t2}
ThreeThreads == {t1, t2, t3}
DescriptorNeeds == << <<2, 3>>, <<4>>, <<4>>, << >> >>
AnyThread == Permutations(Threads)
=============================================================================
