---------------------------- MODULE MCItemLock ----------------------------
(***************************************************************************)
(* A model-checking instance of ItemLock: two clones of one holder name    *)
(* and a third of another.  The two are interchangeable, as the items are. *)
(***************************************************************************)
EXTENDS ItemLock, TLC

CONSTANTS ann1, ann2, bob

ThreeClients == {ann1, ann2, bob}
TwoHolders == [c \in ThreeClients |-> IF c = bob THEN "bob" ELSE "ann"]

TwinSymmetry == Permutations({ann1, ann2}) \cup Permutations(Ids)
=============================================================================
