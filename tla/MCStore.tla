------------------------------ MODULE MCStore -------------------------------
(* Instances of ChunkFileStore for TLC: a small and a large chunk, and a   *)
(* quota that holds the large one and one small one.                       *)
EXTENDS ChunkFileStore, TLC

CONSTANTS s1, s2, s3, small, large, t1, t2, owner

TwoSlots == {s1, s2}
ThreeSlots == {s1, s2, s3}
Chunks == {small, large}
ChunkSize == [x \in Chunks |-> IF x = small THEN 1 ELSE 2]

OneThread == {owner}
TwoWorkers == {t1, t2}

NoFault == {}
ReportedFaults == {"open", "write", "fsync", "rename", "unlink"}
AllFaults == ReportedFaults \cup {"fsyncdir"}

SlotSymmetry == Permutations(Slot)
=============================================================================
