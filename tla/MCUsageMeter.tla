---------------------------- MODULE MCUsageMeter ----------------------------
(* Instances of UsageMeter for TLC: one order has a second delivery.       *)
EXTENDS UsageMeter, TLC

CONSTANTS o1, o2, o3, o4, o5, again

MCOrderOf == [d \in Deliveries |-> IF d = again THEN o1 ELSE d]

Symmetry == Permutations(Orders \ {o1})
=============================================================================
