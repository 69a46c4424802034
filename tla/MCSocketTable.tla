---------------------------- MODULE MCSocketTable ----------------------------
(* SocketTable on small instances: threads are interchangeable model       *)
(* values, and there are more of them than sockets, so that the table runs *)
(* full and an entry that is closed is wanted by another thread at once.   *)
EXTENDS SocketTable, FiniteSets, TLC

ASSUME ScarceAssumption == Cardinality(Threads) > SOCKET_COUNT

ThreadSymmetry == Permutations(Threads)
=============================================================================
