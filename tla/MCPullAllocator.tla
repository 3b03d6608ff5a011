--------------------------- MODULE MCPullAllocator ---------------------------
(* Instances of PullAllocator for TLC. *)
EXTENDS PullAllocator, TLC

CONSTANTS m1, m2, m3, i1, i2

\* Every subscriber's device is in the inventory.
AllKnown == (m1 :> i1) @@ (m2 :> i2)

\* A third subscriber, whose inventory item has no id in Sonar.
OneWithoutId == (m1 :> i1) @@ (m2 :> i2) @@ (m3 :> NoId)

IdSymmetry == Permutations(Ids)
=============================================================================
