----------------------- MODULE CacheDirectory_proofs -----------------------
(* Proofs about CacheDirectory, for any set of chunks and any tier sizes.  *)
EXTENDS CacheDirectory, TLAPS

\* The inductive invariant.  SlotsExclusive needs SlotsAccountedOrLost,
\* because a slot taken from the free list must not be held already, and both
\* need the types.
DirInv ==
    /\ DirTypeOK
    /\ SlotsExclusive
    /\ SlotsAccountedOrLost
    /\ UnregisteredIsClean

\* A fresh replica is a replica.
LEMMA FreshReplicaType ==
    ASSUME DirTypeOK, NEW s \in Slot, NEW st \in ChunkState
    PROVE  FreshReplica(s, st) \in Replica
BY DEF DirTypeOK, FreshReplica, Replica

\* The directory starts in its invariant: no key, every slot free.
LEMMA DirInitInv == DirInit => DirInv
BY NoReplicaIsNone
   DEF DirInit, DirInv, DirTypeOK, SlotsExclusive, SlotsAccountedOrLost,
       UnregisteredIsClean, Has, Tier

\* Every operation of the directory keeps the shape of its state.
LEMMA DirTypeStep ==
    ASSUME DirTypeOK, DirNext PROVE DirTypeOK'
<1> USE NoReplicaIsNone DEF DirTypeOK
<1>1. PICK k \in Key :
        \/ Create(k) \/ Destroy(k)
        \/ AddRef(k) \/ ReleaseRef(k)
        \/ Pin(k) \/ Unpin(k)
        \/ \E t \in Tier :
            \/ Remove(k, t)
            \/ \E st \in ChunkState : SetState(k, t, st)
            \/ \E s \in Slot : PlaceLosesSlot(k, t, s)
            \/ \E s \in Slot, st \in ChunkState : Place(k, t, s, st)
  BY DEF DirNext
<1>2. CASE Create(k) \/ Destroy(k)
  BY <1>2 DEF Create, Destroy
<1>3. CASE AddRef(k) \/ ReleaseRef(k) \/ Pin(k) \/ Unpin(k)
  BY <1>3 DEF AddRef, ReleaseRef, Pin, Unpin
<1>4. ASSUME NEW t \in Tier, Remove(k, t) PROVE DirTypeOK'
  BY <1>4 DEF Remove, Removable, Has, Replica
<1>5. ASSUME NEW t \in Tier, NEW st \in ChunkState, SetState(k, t, st)
      PROVE  DirTypeOK'
  BY <1>5 DEF SetState, Has, Replica
<1>6. ASSUME NEW t \in Tier, NEW s \in Slot, NEW st \in ChunkState, Place(k, t, s, st)
      PROVE  DirTypeOK'
  BY <1>6, FreshReplicaType DEF Place, TakeSlot
<1>7. ASSUME NEW t \in Tier, NEW s \in Slot, PlaceLosesSlot(k, t, s)
      PROVE  DirTypeOK'
  BY <1>7 DEF PlaceLosesSlot
<1> QED BY <1>1, <1>2, <1>3, <1>4, <1>5, <1>6, <1>7

\* A step that moves no replica and no slot keeps the book of slots.
LEMMA NothingMoves ==
    ASSUME DirInv, UNCHANGED <<gen, free>>,
           \A k \in Key, t \in Tier :
             /\ Has(k, t)' <=> Has(k, t)
             /\ Has(k, t) => /\ replica'[k][t].slot = replica[k][t].slot
                             /\ replica'[k][t].generation = replica[k][t].generation,
           \A k \in registered \ registered', t \in Tier : ~Has(k, t)
    PROVE  (SlotsExclusive /\ SlotsAccountedOrLost)'
<1> USE DEF DirInv, SlotsExclusive, SlotsAccountedOrLost, Holds, Valid
<1>1. SlotsExclusive'
  OBVIOUS
<1>2. ASSUME NEW s \in Slot \ free', ~Lost(s)'
      PROVE  \E k1 \in registered', t1 \in Tier : Holds(k1, t1, s)'
  <2>1. ~Lost(s)
    BY <1>2 DEF Lost
  <2>2. PICK k1 \in registered, t1 \in Tier : Holds(k1, t1, s)
    BY <1>2, <2>1
  <2>3. k1 \in Key /\ k1 \in registered'
    BY <2>2 DEF DirTypeOK
  <2> QED BY <2>2, <2>3
<1>3. ASSUME NEW k1 \in Key, NEW t1 \in Tier, Has(k1, t1)'
      PROVE  /\ replica'[k1][t1].slot \in SlotsOf(t1)
             /\ Valid(replica[k1][t1])'
  BY <1>3
<1> QED BY <1>1, <1>2, <1>3

\* Removing, placing or losing keeps every slot with one owner or lost.
LEMMA DirSlotsStep ==
    ASSUME DirInv, DirNext
    PROVE  (SlotsExclusive /\ SlotsAccountedOrLost /\ UnregisteredIsClean)'
<1>1. PICK k \in Key :
        \/ Create(k) \/ Destroy(k)
        \/ AddRef(k) \/ ReleaseRef(k)
        \/ Pin(k) \/ Unpin(k)
        \/ \E t \in Tier :
            \/ Remove(k, t)
            \/ \E st \in ChunkState : SetState(k, t, st)
            \/ \E s \in Slot : PlaceLosesSlot(k, t, s)
            \/ \E s \in Slot, st \in ChunkState : Place(k, t, s, st)
  BY DEF DirNext
<1>2. CASE Create(k) \/ Destroy(k) \/ AddRef(k) \/ ReleaseRef(k) \/ Pin(k) \/ Unpin(k)
  <2>1. /\ UNCHANGED <<replica, gen, free>>
        /\ \A j \in registered \ registered', t \in Tier : ~Has(j, t)
    BY <1>2 DEF Create, Destroy, Destroyable, AddRef, ReleaseRef, Pin, Unpin
  <2>2. (SlotsExclusive /\ SlotsAccountedOrLost)'
    BY <2>1, NothingMoves DEF Has
  <2>3. UnregisteredIsClean'
    BY <1>2 DEF Create, Destroy, Destroyable, AddRef, ReleaseRef, Pin, Unpin,
       DirInv, DirTypeOK, UnregisteredIsClean, Has
  <2> QED BY <2>2, <2>3
<1>3. ASSUME NEW t \in Tier, Remove(k, t)
      PROVE  (SlotsExclusive /\ SlotsAccountedOrLost /\ UnregisteredIsClean)'
  <2> USE <1>3
      DEF DirInv, DirTypeOK, SlotsExclusive, UnregisteredIsClean, Has, Holds, Valid,
          Remove, Removable
  <2>1. SlotsExclusive'
    OBVIOUS
  <2>2. SlotsAccountedOrLost'
    <3>1. ASSUME NEW s \in Slot \ free', ~Lost(s)'
          PROVE  \E k1 \in registered', t1 \in Tier : Holds(k1, t1, s)'
      <4>1. ~Lost(s)
        BY <3>1 DEF Lost
      <4>2. PICK k1 \in registered, t1 \in Tier : Holds(k1, t1, s)
        BY <3>1, <4>1 DEF SlotsAccountedOrLost
      <4>3. k1 # k \/ t1 # t
        BY <3>1, <4>2
      <4> QED BY <4>2, <4>3
    <3>2. ASSUME NEW k1 \in Key, NEW t1 \in Tier, Has(k1, t1)'
          PROVE  /\ replica'[k1][t1].slot \in SlotsOf(t1)
                 /\ Valid(replica[k1][t1])'
      BY <3>2 DEF Replica, SlotsAccountedOrLost
    <3> QED BY <3>1, <3>2 DEF SlotsAccountedOrLost
  <2>3. UnregisteredIsClean'
    OBVIOUS
  <2> QED BY <2>1, <2>2, <2>3
<1>4. ASSUME NEW t \in Tier, NEW st \in ChunkState, SetState(k, t, st)
      PROVE  (SlotsExclusive /\ SlotsAccountedOrLost /\ UnregisteredIsClean)'
  <2>1. \A k1 \in Key, t1 \in Tier :
          /\ Has(k1, t1)' <=> Has(k1, t1)
          /\ Has(k1, t1) => /\ replica'[k1][t1].slot = replica[k1][t1].slot
                            /\ replica'[k1][t1].generation = replica[k1][t1].generation
    BY <1>4, NoReplicaIsNone DEF SetState, Replica, DirInv, DirTypeOK, Has
  <2>2. UNCHANGED <<registered, refs, pins, gen, free>>
    BY <1>4 DEF SetState
  <2>3. (SlotsExclusive /\ SlotsAccountedOrLost)'
    BY <2>1, <2>2, NothingMoves
  <2> QED BY <2>1, <2>2, <2>3 DEF DirInv, UnregisteredIsClean
<1>5. ASSUME NEW t \in Tier, NEW s \in Slot, PlaceLosesSlot(k, t, s)
      PROVE  (SlotsExclusive /\ SlotsAccountedOrLost /\ UnregisteredIsClean)'
  <2>1. /\ s \in free /\ s \in CpuSlot \cup NvmeSlot /\ gen[s] = MaxGeneration
        /\ free' = free \ {s}
        /\ UNCHANGED <<registered, replica, refs, pins, gen>>
    BY <1>5 DEF PlaceLosesSlot, Spent, SlotTier, SlotsOf
  <2>2. \A j \in Key, u \in Tier : ~Holds(j, u, s)
    BY <2>1 DEF DirInv, SlotsAccountedOrLost, Holds, Valid
  <2>3. Lost(s)'
    BY <2>1, <2>2 DEF Lost, Holds, Has
  <2>4. \A r \in Slot \ free : Lost(r) => Lost(r)'
    BY <2>1 DEF Lost, Holds, Has
  <2>5. SlotsAccountedOrLost'
    BY <2>1, <2>3, <2>4 DEF DirInv, SlotsAccountedOrLost, Holds, Has, Valid
  <2>6. SlotsExclusive' /\ UnregisteredIsClean'
    BY <2>1 DEF DirInv, SlotsExclusive, UnregisteredIsClean, Has
  <2> QED BY <2>5, <2>6
<1>6. ASSUME NEW t \in Tier, NEW s \in Slot, NEW st \in ChunkState, Place(k, t, s, st)
      PROVE  (SlotsExclusive /\ SlotsAccountedOrLost /\ UnregisteredIsClean)'
  <2> DEFINE r == FreshReplica(s, st)
  <2> USE NoReplicaIsNone
      DEF DirInv, DirTypeOK, SlotsExclusive, UnregisteredIsClean, Has, Holds, Valid
  <2>1. /\ r \in Replica /\ r.slot = s /\ r.generation = gen[s] + 1
        /\ r # NoReplica
    BY FreshReplicaType DEF FreshReplica
  <2>2. /\ replica' = [replica EXCEPT ![k][t] = r]
        /\ s \in free /\ s \in SlotsOf(t)
        /\ free' = free \ {s}
        /\ gen' = [gen EXCEPT ![s] = @ + 1]
        /\ registered' = registered /\ refs' = refs /\ pins' = pins
        /\ k \in registered
        /\ ~Has(k, t)
    BY <1>6 DEF Place, TakeSlot, Available
  <2> HIDE DEF r
  <2>3. \A k1 \in Key, t1 \in Tier : Has(k1, t1) => replica[k1][t1].slot # s
    BY <2>2 DEF SlotsAccountedOrLost
  <2>4. SlotsExclusive'
    BY <2>1, <2>2, <2>3
  <2>5. SlotsAccountedOrLost'
    <3>1. ASSUME NEW x \in Slot \ free', ~Lost(x)'
          PROVE  \E k1 \in registered', t1 \in Tier : Holds(k1, t1, x)'
      <4>1. CASE x = s
        BY <2>1, <2>2, <4>1
      <4>2. CASE x # s
        <5>1. ~Lost(x)
          BY <2>1, <2>2, <3>1, <4>2 DEF Lost
        <5>2. PICK k1 \in registered, t1 \in Tier : Holds(k1, t1, x)
          BY <2>2, <3>1, <4>2, <5>1 DEF SlotsAccountedOrLost
        <5> QED BY <2>1, <2>2, <5>2
      <4> QED BY <4>1, <4>2
    <3>2. ASSUME NEW k1 \in Key, NEW t1 \in Tier, Has(k1, t1)'
          PROVE  /\ replica'[k1][t1].slot \in SlotsOf(t1)
                 /\ Valid(replica[k1][t1])'
      BY <2>1, <2>2, <2>3, <3>2 DEF Replica, SlotsAccountedOrLost
    <3> QED BY <3>1, <3>2 DEF SlotsAccountedOrLost
  <2>6. UnregisteredIsClean'
    BY <2>1, <2>2
  <2> QED BY <2>4, <2>5, <2>6
<1> QED BY <1>1, <1>2, <1>3, <1>4, <1>5, <1>6

\* The four invariants of the directory hold in every reachable state, for
\* every set of chunks and every size of the tiers, whatever slots place has
\* lost on the way.
THEOREM DirectoryCorrect ==
    DirSpec => [](DirTypeOK /\ SlotsExclusive /\ SlotsAccountedOrLost /\ UnregisteredIsClean)
<1>1. DirInit => DirInv
  BY DirInitInv
<1>2. DirInv /\ [DirNext]_dirVars => DirInv'
  <2> SUFFICES ASSUME DirInv, [DirNext]_dirVars PROVE DirInv'
    OBVIOUS
  <2>1. CASE DirNext
    BY <2>1, DirTypeStep, DirSlotsStep DEF DirInv
  <2>2. CASE UNCHANGED dirVars
    <3>1. (SlotsExclusive /\ SlotsAccountedOrLost)'
      BY <2>2, NothingMoves DEF dirVars, Has
    <3> QED BY <2>2, <3>1 DEF dirVars, DirInv, DirTypeOK, UnregisteredIsClean, Has
  <2> QED BY <2>1, <2>2
<1>3. DirInv => DirTypeOK /\ SlotsExclusive /\ SlotsAccountedOrLost /\ UnregisteredIsClean
  BY DEF DirInv
<1> QED BY <1>1, <1>2, <1>3, PTL DEF DirSpec

\* A location that becomes valid has a generation its slot never had, so one
\* kept from before an earlier release is refused from then on, unless its
\* slot is lost to exhaustion in that very step.
THEOREM LocationsAreFresh == DirSpec => StaleStaysStale
<1>1. ASSUME DirInv, DirNext, NEW s \in Slot, NEW g \in 0..MaxGeneration,
             Valid([slot |-> s, generation |-> g])',
             ~Valid([slot |-> s, generation |-> g])
      PROVE  g > gen[s] \/ Lost(s)'
  <2>1. /\ s \notin free' /\ gen'[s] = g
        /\ s \in free \/ gen[s] # g
    BY <1>1 DEF Valid
  <2>2. gen \in [Slot -> Nat]
    BY <1>1 DEF DirInv, DirTypeOK
  <2>3. \/ gen' = gen /\ free \subseteq free'
        \/ \E u \in Slot : TakeSlot(u)
        \/ \E k \in Key, t \in Tier, u \in Slot : PlaceLosesSlot(k, t, u)
    BY <1>1 DEF DirNext, Create, Destroy, AddRef, ReleaseRef, Pin, Unpin, Remove,
       SetState, Place
  <2>4. ASSUME NEW u \in Slot, TakeSlot(u) PROVE g > gen[s]
    BY <2>1, <2>2, <2>4 DEF TakeSlot
  <2>5. ASSUME NEW k \in Key, NEW t \in Tier, NEW u \in Slot, PlaceLosesSlot(k, t, u)
        PROVE  Lost(s)'
    <3>1. /\ u \in free /\ u \in CpuSlot \cup NvmeSlot /\ gen[u] = MaxGeneration
          /\ free' = free \ {u} /\ gen' = gen /\ replica' = replica
      BY <2>5 DEF PlaceLosesSlot, Spent, SlotTier, SlotsOf
    <3>2. u = s
      BY <2>1, <3>1
    <3>3. \A j \in Key, v \in Tier : ~Holds(j, v, s)
      BY <1>1, <3>1, <3>2 DEF DirInv, SlotsAccountedOrLost, Holds, Valid
    <3> QED BY <3>1, <3>2, <3>3 DEF Lost, Holds, Has
  <2> QED BY <2>1, <2>3, <2>4, <2>5
<1>2. DirInv /\ [DirNext]_dirVars =>
        [\A s \in Slot, g \in 0..MaxGeneration :
            /\ Valid([slot |-> s, generation |-> g])'
            /\ ~Valid([slot |-> s, generation |-> g])
            => g > gen[s] \/ Lost(s)']_dirVars
  BY <1>1
<1>3. DirSpec => []DirInv
  BY DirectoryCorrect, PTL DEF DirInv
<1> QED BY <1>2, <1>3, PTL DEF DirSpec, StaleStaysStale
=============================================================================
