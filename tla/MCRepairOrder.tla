---------------------------- MODULE MCRepairOrder ----------------------------
(* Model-checking instance of RepairOrder. *)
EXTENDS RepairOrder, TLC

CONSTANTS r1, l1, l2

MCLineRO == [l \in Line |-> r1]

MCSymmetry == Permutations({l1, l2})
==============================================================================
