------------------------------ MODULE MCTiered ------------------------------
(* Instances of TieredCache for TLC.                                       *)
EXTENDS TieredCache

CONSTANTS b1, b2, b3, b4, g1, g2

FourBlocks == {b1, b2, b3, b4}
TwoSlots == {g1, g2}

TieredSymmetry == Permutations(Block) \cup Permutations(GpuSlot)
=============================================================================
