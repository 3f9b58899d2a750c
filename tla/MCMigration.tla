---------------------------- MODULE MCMigration ----------------------------
(* Instances of MigrationManager for TLC.                                  *)
EXTENDS MigrationManager, TLC

CONSTANTS k1, k2, g1, c1, c2, n1, n2, w1, w2

OneKey == {k1}
TwoKeys == {k1, k2}
OneGpuSlot == {g1}
OneCpuSlot == {c1}
TwoCpuSlots == {c1, c2}
OneNvmeSlot == {n1}
OneWorker == {w1}
TwoWorkers == {w1, w2}

KeysWorkersAndSlots ==
    Permutations(Key) \cup Permutations(Worker)
        \cup Permutations(CpuSlot) \cup Permutations(NvmeSlot)
=============================================================================
