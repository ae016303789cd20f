---------------------------- MODULE MCWorkerGroups ----------------------------
(* Instances of WorkerGroups for TLC. *)
EXTENDS WorkerGroups

CONSTANTS a1, a2

OneAddr == {a1}
TwoAddrs == {a1, a2}
OneList == {<<a1>>}
TwoLists == {<<a1, a2>>}
=============================================================================
