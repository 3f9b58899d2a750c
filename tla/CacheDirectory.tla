--------------------------- MODULE CacheDirectory ---------------------------
(***************************************************************************)
(* The metadata core of v3: which chunk (a CacheKey) has a replica in      *)
(* which storage tier, at which location, in which state, and how often    *)
(* the chunk is referenced and pinned.  A location is a slot of the tier   *)
(* and the generation the slot had when it was handed out.                 *)
(*                                                                         *)
(* The tiers are modelled here by the set of their free slots and by the   *)
(* generation counter of every slot; which free slot is handed out first   *)
(* (the free list is a stack) is left open.  A call that throws changes    *)
(* nothing and is not a step, with one exception: place loses a slot whose *)
(* generations are used up.  last_access and version are written but never *)
(* read by the directory and are left out.                                 *)
(***************************************************************************)
EXTENDS Naturals

CONSTANTS
    Key,            \* the chunk identities in use
    GpuSlot,        \* slots of the GPU tier (ids of the shared block pool)
    CpuSlot,        \* slots of the pinned CPU tier
    NvmeSlot,       \* slots of the NVMe tier (file numbers)
    NoReplica,      \* the empty optional of a tier in a record
    MaxGeneration,  \* the largest generation of a slot (bound: it is small)
    MaxHolds        \* bound: references, and pins, a chunk collects

Slot == GpuSlot \cup CpuSlot \cup NvmeSlot

ASSUME TiersDisjoint ==
    /\ GpuSlot \cap CpuSlot = {}
    /\ GpuSlot \cap NvmeSlot = {}
    /\ CpuSlot \cap NvmeSlot = {}

ASSUME BoundsAreNat == MaxGeneration \in Nat /\ MaxHolds \in Nat

Tier == {"GPU", "CPU", "NVME"}

ChunkState == {"READY", "COPYING", "LOADING", "EVICTING", "ERROR"}

Location == [slot : Slot, generation : Nat]

Replica == [slot : Slot, generation : Nat, state : ChunkState]

ASSUME NoReplicaIsNone == NoReplica \notin Replica

VARIABLES
    registered,  \* the keys of records_
    replica,     \* replica[k][t]: the replica of k in tier t, or NoReplica
    refs,        \* ref_count of every key
    pins,        \* pin_count of every key
    gen,         \* generation of every slot
    free         \* the slots on the free lists of the tiers

dirVars == <<registered, replica, refs, pins, gen, free>>

-----------------------------------------------------------------------------

SlotsOf(t) == CASE t = "GPU"  -> GpuSlot
                [] t = "CPU"  -> CpuSlot
                [] t = "NVME" -> NvmeSlot

Has(k, t) == replica[k][t] # NoReplica

IsReady(k, t) == Has(k, t) /\ replica[k][t].state = "READY"

\* A location is good for the tier iff its slot is handed out and no later
\* allocation has taken the slot: what Tier::release checks.
Valid(loc) == loc.slot \notin free /\ gen[loc.slot] = loc.generation

DirInit ==
    /\ registered = {}
    /\ replica = [k \in Key |-> [t \in Tier |-> NoReplica]]
    /\ refs = [k \in Key |-> 0]
    /\ pins = [k \in Key |-> 0]
    /\ gen = [s \in Slot |-> 0]
    /\ free = Slot

-----------------------------------------------------------------------------
(* Tier::allocate and Tier::release, as the directory uses them.           *)

\* BUG VARIANT: the slot is handed out without a new generation.
TakeSlotKeepingGeneration(s) ==
    /\ free' = free \ {s}
    /\ gen' = gen

TakeSlot(s) ==
    /\ free' = free \ {s}
    /\ gen' = [gen EXCEPT ![s] = @ + 1]

FreshReplica(s, st) == [slot |-> s, generation |-> gen[s] + 1, state |-> st]

\* The slots allocate hands out ...
Available(t) == {s \in free \cap SlotsOf(t) : gen[s] < MaxGeneration}

\* ... and those for which it throws overflow_error.  SlotTier, which is the
\* CPU and the NVMe tier, has taken such a slot off its list by then; the
\* block pool of the GPU tier looks first.
Spent(t) == {s \in free \cap SlotsOf(t) : gen[s] = MaxGeneration}

SlotTier == {"CPU", "NVME"}

\* allocate may throw and leave the tier as it was.
AllocateMayRefuse(t) ==
    free \cap SlotsOf(t) = {} \/ (t \notin SlotTier /\ Spent(t) # {})

-----------------------------------------------------------------------------
(* The operations of the directory.                                        *)

Create(k) ==
    /\ k \notin registered
    /\ registered' = registered \cup {k}
    /\ UNCHANGED <<replica, refs, pins, gen, free>>

Place(k, t, s, st) ==
    /\ k \in registered
    /\ ~Has(k, t)
    /\ s \in Available(t)
    /\ TakeSlot(s)
    /\ replica' = [replica EXCEPT ![k][t] = FreshReplica(s, st)]
    /\ UNCHANGED <<registered, refs, pins>>

\* place throws out of allocate: the slot is not free any more, and nobody's.
PlaceLosesSlot(k, t, s) ==
    /\ k \in registered
    /\ ~Has(k, t)
    /\ t \in SlotTier
    /\ s \in Spent(t)
    /\ free' = free \ {s}
    /\ UNCHANGED <<registered, replica, refs, pins, gen>>

\* BUG VARIANT: a replica whose transfer is running may be removed.
AnyRemovable(k, t) == Has(k, t)

Removable(k, t) == Has(k, t) /\ replica[k][t].state \in {"READY", "ERROR"}

\* BUG VARIANT: the slot is released and the record keeps pointing at it.
RemoveKeepingRecord(k, t) ==
    /\ k \in registered
    /\ Removable(k, t)
    /\ Valid(replica[k][t])
    /\ free' = free \cup {replica[k][t].slot}
    /\ UNCHANGED <<registered, replica, refs, pins, gen>>

Remove(k, t) ==
    /\ k \in registered
    /\ Removable(k, t)
    /\ Valid(replica[k][t])
    /\ free' = free \cup {replica[k][t].slot}
    /\ replica' = [replica EXCEPT ![k][t] = NoReplica]
    /\ UNCHANGED <<registered, refs, pins, gen>>

SetState(k, t, st) ==
    /\ k \in registered
    /\ Has(k, t)
    /\ replica' = [replica EXCEPT ![k][t].state = st]
    /\ UNCHANGED <<registered, refs, pins, gen, free>>

AddRef(k) ==
    /\ k \in registered
    /\ refs[k] < MaxHolds
    /\ refs' = [refs EXCEPT ![k] = @ + 1]
    /\ UNCHANGED <<registered, replica, pins, gen, free>>

ReleaseRef(k) ==
    /\ k \in registered
    /\ refs[k] # 0
    /\ refs' = [refs EXCEPT ![k] = @ - 1]
    /\ UNCHANGED <<registered, replica, pins, gen, free>>

Pin(k) ==
    /\ k \in registered
    /\ pins[k] < MaxHolds
    /\ pins' = [pins EXCEPT ![k] = @ + 1]
    /\ UNCHANGED <<registered, replica, refs, gen, free>>

Unpin(k) ==
    /\ k \in registered
    /\ pins[k] # 0
    /\ pins' = [pins EXCEPT ![k] = @ - 1]
    /\ UNCHANGED <<registered, replica, refs, gen, free>>

Destroyable(k) ==
    /\ \A t \in Tier : ~Has(k, t)
    /\ refs[k] = 0
    /\ pins[k] = 0

Destroy(k) ==
    /\ k \in registered
    /\ Destroyable(k)
    /\ registered' = registered \ {k}
    /\ UNCHANGED <<replica, refs, pins, gen, free>>

DirNext ==
    \E k \in Key :
        \/ Create(k) \/ Destroy(k)
        \/ AddRef(k) \/ ReleaseRef(k)
        \/ Pin(k) \/ Unpin(k)
        \/ \E t \in Tier :
            \/ Remove(k, t)
            \/ \E st \in ChunkState : SetState(k, t, st)
            \/ \E s \in Slot : PlaceLosesSlot(k, t, s)
            \/ \E s \in Slot, st \in ChunkState : Place(k, t, s, st)

DirSpec == DirInit /\ [][DirNext]_dirVars

-----------------------------------------------------------------------------
(* Properties.                                                             *)

\* Every variable keeps its shape; no counter of cache_directory.cpp:126-140
\* wraps below zero.
DirTypeOK ==
    /\ registered \subseteq Key
    /\ replica \in [Key -> [Tier -> Replica \cup {NoReplica}]]
    /\ refs \in [Key -> Nat]
    /\ pins \in [Key -> Nat]
    /\ gen \in [Slot -> Nat]
    /\ free \subseteq Slot

\* Two replicas never share a slot, of one chunk or of two: place and remove
\* are the only way a slot changes hands (cache_directory.h:68-69).
SlotsExclusive ==
    \A k1, k2 \in Key, t1, t2 \in Tier :
        /\ Has(k1, t1) /\ Has(k2, t2)
        /\ replica[k1][t1].slot = replica[k2][t2].slot
        => k1 = k2 /\ t1 = t2

Holds(k, t, s) == Has(k, t) /\ replica[k][t].slot = s

\* A slot place has lost: off the free list, and no replica has it.
Lost(s) ==
    /\ s \in (CpuSlot \cup NvmeSlot) \ free
    /\ gen[s] = MaxGeneration
    /\ \A k \in Key, t \in Tier : ~Holds(k, t, s)

\* No slot leaks, except one whose generations are used up, and the location
\* every replica records is one its tier accepts (tier.cpp:32-36), so remove
\* never throws half way (cache_directory.cpp:112).
SlotsAccountedOrLost ==
    /\ \A s \in Slot \ free : Lost(s) \/ \E k \in registered, t \in Tier : Holds(k, t, s)
    /\ \A k \in Key, t \in Tier :
        Has(k, t) => /\ replica[k][t].slot \in SlotsOf(t)
                     /\ Valid(replica[k][t])

\* A key that is not registered has left nothing behind: destroy never
\* removes a record somebody still references or pins.
UnregisteredIsClean ==
    \A k \in Key \ registered :
        /\ refs[k] = 0 /\ pins[k] = 0
        /\ \A t \in Tier : ~Has(k, t)

\* A location somebody kept from an earlier allocation is refused from then
\* on (tier.h:13-14): one that becomes valid has a generation its slot never
\* had before.  The slot lost to exhaustion is the exception: it is no longer
\* free and keeps the generation of its last owner.
StaleStaysStale ==
    [][\A s \in Slot, g \in 0..MaxGeneration :
        /\ Valid([slot |-> s, generation |-> g])'
        /\ ~Valid([slot |-> s, generation |-> g])
        => g > gen[s] \/ Lost(s)']_dirVars
=============================================================================
