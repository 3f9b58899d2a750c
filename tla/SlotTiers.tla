----------------------------- MODULE SlotTiers -----------------------------
(***************************************************************************)
(* The tiers below the CacheDirectory: the CPU and the NVMe tier are       *)
(* SlotTiers, arrays of slots threaded into a free list, the GPU tier      *)
(* borrows the pages of the PhysicalBlockPool (modelled by BlockManager;   *)
(* here any of its free pages may come first).                             *)
(*                                                                         *)
(* A slot of the array has three fields: free, generation, next_free.  The *)
(* first two are the variables free and gen of CacheDirectory; the third   *)
(* and the head of each list are added here, so that the flags and the     *)
(* list are two records of the same fact that the code must keep in step.  *)
(*                                                                         *)
(* SlotTier::allocate unlinks the slot before it looks at its generation.  *)
(* A slot found exhausted is then lost: not on the list, not counted, and  *)
(* nobody's.                                                               *)
(***************************************************************************)
EXTENDS CacheDirectory, Integers, FiniteSets

CONSTANT NoSlot   \* the index none: end of a list, empty list

Linkable == CpuSlot \cup NvmeSlot

ASSUME SlotsAreNumbered == Slot \subseteq Nat /\ NoSlot \notin Slot

\* The constructor links slot i to slot i + 1; a tier without slots is refused.
ASSUME SlotsAreConsecutive ==
    \A t \in SlotTier : \E first, last \in SlotsOf(t) : SlotsOf(t) = first..last

VARIABLES
    freeHead,   \* free_head_ of the CPU and the NVMe tier
    nextFree,   \* next_free of each of their slots
    allocated   \* allocated_ of each tier

listVars == <<freeHead, nextFree, allocated>>
tierVars == <<dirVars, listVars>>

FirstSlot(t) == CHOOSE s \in SlotsOf(t) : \A r \in SlotsOf(t) : s <= r

TiersInit ==
    /\ DirInit
    /\ freeHead = [t \in SlotTier |-> FirstSlot(t)]
    /\ nextFree = [s \in Linkable |->
            IF \E t \in SlotTier : {s, s + 1} \subseteq SlotsOf(t) THEN s + 1 ELSE NoSlot]
    /\ allocated = [t \in Tier |-> 0]

\* The slots a tier may hand out next: the head of its list.
Next_(t) == IF t = "GPU" THEN Available(t) ELSE Available(t) \cap {freeHead[t]}

\* BUG VARIANT: the released slot becomes the head of the list without
\* being linked to the old one.
RelinkForgettingRest(take, give) ==
    /\ freeHead' = [t \in SlotTier |->
            CASE take \in SlotsOf(t) -> nextFree[take]
              [] give \in SlotsOf(t) -> give
              [] OTHER               -> freeHead[t]]
    /\ nextFree' = [s \in Linkable |-> IF s = take THEN NoSlot ELSE nextFree[s]]
    /\ allocated' = [t \in Tier |->
            allocated[t] + (IF take \in SlotsOf(t) THEN 1 ELSE 0)
                         - (IF give \in SlotsOf(t) THEN 1 ELSE 0)]

\* The lists and the counts after slot take has left the head of its list
\* and slot give has become the head of its own; NoSlot for neither.  No
\* operation takes and gives in the same tier.
Relink(take, give) ==
    /\ freeHead' = [t \in SlotTier |->
            CASE take \in SlotsOf(t) -> nextFree[take]
              [] give \in SlotsOf(t) -> give
              [] OTHER               -> freeHead[t]]
    /\ nextFree' = [s \in Linkable |->
            CASE s = take -> NoSlot
              [] s = give -> freeHead[CHOOSE t \in SlotTier : s \in SlotsOf(t)]
              [] OTHER    -> nextFree[s]]
    /\ allocated' = [t \in Tier |->
            allocated[t] + (IF take \in SlotsOf(t) THEN 1 ELSE 0)
                         - (IF give \in SlotsOf(t) THEN 1 ELSE 0)]

\* place and remove of the directory, down to the lists.
PlaceLinked(k, t, s, st) ==
    /\ s \in Next_(t)
    /\ Place(k, t, s, st)
    /\ Relink(s, NoSlot)

RemoveLinked(k, t) ==
    /\ Remove(k, t)
    /\ Relink(NoSlot, replica[k][t].slot)

\* allocate throws CapacityError ...
Empty(t) ==
    IF t = "GPU" THEN AllocateMayRefuse(t) ELSE freeHead[t] = NoSlot

\* ... or overflow_error, after the slot has left the list.
Exhausted(t) ==
    t \in SlotTier /\ freeHead[t] # NoSlot /\ gen[freeHead[t]] = MaxGeneration

LoseSlot(t) ==
    /\ Exhausted(t)
    /\ free' = free \ {freeHead[t]}
    /\ freeHead' = [freeHead EXCEPT ![t] = nextFree[@]]
    /\ nextFree' = [nextFree EXCEPT ![freeHead[t]] = NoSlot]
    /\ UNCHANGED <<gen, allocated>>

-----------------------------------------------------------------------------
(* Properties.                                                             *)

\* The slots met from the head of the list of tier t on are l[1], ..., l[n].
LinkedFrom(t, n, l) ==
    /\ freeHead[t] = IF n = 0 THEN NoSlot ELSE l[1]
    /\ \A i \in 1..n : nextFree[l[i]] = IF i = n THEN NoSlot ELSE l[i + 1]

\* The list, the flags and the counter agree: from the head one meets every
\* slot marked free exactly once and nothing else, and the tier counts as
\* allocated the replicas the directory holds in it (TierStats, "replicas
\* agrees with allocated_chunks"), whatever was rolled back or lost.
FreeListExact ==
    /\ \A t \in SlotTier :
        LET onList == free \cap SlotsOf(t)
            length == Cardinality(onList)
        IN  \E l \in [1..length -> onList] :
                LinkedFrom(t, length, l) /\ {l[i] : i \in 1..length} = onList
    /\ \A t \in Tier : allocated[t] = Cardinality({k \in Key : Has(k, t)})
=============================================================================
