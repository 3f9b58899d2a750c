---------------------------- MODULE MCDirectory ----------------------------
(* Instance of SyncTransfers for TLC: two chunks that compete for one GPU  *)
(* slot, two CPU slots and one NVMe slot.  Slots are numbers, because the  *)
(* free lists are initially in their order.                                *)
EXTENDS SyncTransfers, TLC

CONSTANTS k1, k2

MCKey == {k1, k2}
MCSymmetry == Permutations(MCKey)
=============================================================================
