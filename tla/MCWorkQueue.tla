---------------------------- MODULE MCWorkQueue ----------------------------
(***************************************************************************)
(* Model-checking instances of WorkQueue: the pool, where the second unit  *)
(* runs on another model of the provider the others use, and the serial    *)
(* lane, whose units have no throttle.                                     *)
(***************************************************************************)
EXTENDS WorkQueue, TLC

TwoLaneOf == [u \in Units |-> IF u = 2 THEN "l2" ELSE "l1"]
OneProviderOf == [l \in Lanes |-> "p"]

OneLaneOf == [u \in Units |-> "l1"]
NoProviderOf == [l \in Lanes |-> ""]

WorkerSymmetry == Permutations(Workers)
=============================================================================
