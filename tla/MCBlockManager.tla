--------------------------- MODULE MCBlockManager ---------------------------
(* Instances of BlockManager for TLC: prefixes of one and two blocks that  *)
(* share their first block, and hash functions with and without collisions.*)
EXTENDS BlockManager, TLC

CONSTANTS x, y, h1, h2, h3

MCPrefix == {<<x>>, <<x, y>>, <<y>>}

\* <<x, y>> and <<y>> collide; <<x>> has a bucket of its own.
CollidingHash(p) == IF p = <<x>> THEN 0 ELSE 1

ThreeBlocks == 1..3
ThreeHolders == {h1, h2, h3}

HolderSymmetry == Permutations(Holder)
=============================================================================
