------------------------ MODULE SyncTransfers_proofs ------------------------
(* Proofs about SyncTransfers, for any set of chunks and any tier sizes.   *)
(*                                                                         *)
(* A step changes the replicas of one chunk k and hands out only free      *)
(* slots, gives back only slots of k, and leaves the generation and the    *)
(* bytes of every other slot in use alone (Shape and Frame below).  That   *)
(* is shown once per action; what it means for the chunks the action does  *)
(* not name, and for the slots, is shown once for all.                     *)
EXTENDS SyncTransfers, SequenceTheorems, FiniteSetTheorems, TLAPS

Types ==
    /\ DirTypeOK
    /\ freeHead \in [SlotTier -> Linkable \cup {NoSlot}]
    /\ nextFree \in [Linkable -> Linkable \cup {NoSlot}]
    /\ pending \in [Key -> Transfer \cup {NoTransfer}]
    /\ stream \in Seq(Key)
    /\ stranded \subseteq Key
    /\ data \in [Slot -> Key \cup {Junk}]
    /\ header \in [NvmeSlot -> Key \cup {NoFile}]

\* A replica is where the tiers say it is.
Placed(k) ==
    \A t \in Tier : Has(k, t) =>
        /\ k \in registered
        /\ replica[k][t].slot \in SlotsOf(t)
        /\ Valid(replica[k][t])

\* No slot has two owners.
Exclusive ==
    \A j, k \in Key, t \in Tier :
        Has(j, t) /\ Has(k, t) /\ replica[j][t].slot = replica[k][t].slot => j = k

Accounted ==
    \A s \in Slot \ free : Lost(s) \/ \E k \in registered, t \in Tier : Holds(k, t, s)

Moving(k, t) == Has(k, t) /\ replica[k][t].state \in {"COPYING", "LOADING"}

\* What begin set up is as begin left it, and nothing else is in transit.
Transit(k) ==
    /\ IsPending(k) =>
        LET src == SourceTier(pending[k].offload)
            dst == DestinationTier(pending[k].offload) IN
        /\ pins[k] > 0
        /\ k \notin stranded
        /\ Unmodified(k)
        /\ replica[k][src].state = "COPYING"
        /\ replica[k][dst].state = DestinationState(dst)
    /\ \A t \in Tier : Moving(k, t) =>
        k \in stranded \/ (IsPending(k) /\ t \in {"GPU", "CPU"})
    /\ k \in stranded => \E t \in {"GPU", "CPU"} : Moving(k, t)

\* The bytes are there before anybody may rely on them.
Bytes(k) ==
    /\ \A t \in Tier : IsReady(k, t) =>
        /\ data[replica[k][t].slot] = k
        /\ t = "NVME" => header[replica[k][t].slot] \in {k, NoFile}
    /\ IsPending(k) =>
        /\ data[pending[k].source.slot] = k
        /\ pending[k].done = "ok" => data[pending[k].destination.slot] = k

\* The stream has one copy of every transfer that waits for its copy, and of
\* no other.
StreamExact ==
    /\ \A i \in 1..Len(stream) :
        IsPending(stream[i]) /\ pending[stream[i]].done = "pending"
    /\ \A i, j \in 1..Len(stream) : stream[i] = stream[j] => i = j
    /\ \A k \in Key : IsPending(k) /\ pending[k].done = "pending" =>
        \E i \in 1..Len(stream) : stream[i] = k

ChunkInv(k) == Placed(k) /\ Transit(k) /\ Bytes(k)

SyncInv ==
    /\ Types
    /\ Exclusive
    /\ Accounted
    /\ StreamExact
    /\ \A k \in Key : ChunkInv(k)

-----------------------------------------------------------------------------
(* What an action does to the slots, and to the chunks it does not name.   *)

\* Only the replicas of k change; a slot k newly holds was free, a slot that
\* becomes free was held by k, and a slot leaves the free list for k, with a
\* new generation, or because it is lost.
Shape(k) ==
    /\ \A j \in Key \ {k} :
        /\ replica'[j] = replica[j]
        /\ j \in registered' <=> j \in registered
    /\ \A t \in Tier : Has(k, t) =>
        \/ Has(k, t)' /\ k \in registered' /\ replica'[k][t].slot = replica[k][t].slot
        \/ replica[k][t].slot \in free'
    /\ \A t \in Tier : Has(k, t)' =>
        \/ replica'[k][t].slot \in free
        \/ Has(k, t) /\ replica'[k][t].slot = replica[k][t].slot
    /\ \A s \in Slot \ free : gen'[s] = gen[s]
    /\ \A s \in free' \ free : \E t \in Tier : Holds(k, t, s)
    /\ \A s \in free \ free' :
        \/ gen'[s] = gen[s] + 1 /\ k \in registered' /\ \E t \in Tier : Holds(k, t, s)'
        \/ Lost(s)'

\* Nor does the step touch the transfers of other chunks, or bytes in use.
Frame(k) ==
    /\ \A j \in Key \ {k} :
        /\ pins'[j] = pins[j]
        /\ pending'[j] = pending[j]
        /\ j \in stranded' <=> j \in stranded
    /\ \A s \in Slot \ free : (\A t \in Tier : ~Holds(k, t, s)) =>
        /\ data'[s] = data[s]
        /\ s \in NvmeSlot => header'[s] \in {header[s], NoFile}

LEMMA TierFacts ==
    /\ \A t \in Tier : SlotsOf(t) \subseteq Slot
    /\ \A t, u \in Tier, s \in Slot : s \in SlotsOf(t) /\ s \in SlotsOf(u) => t = u
    /\ \A s \in Slot : s \in SlotsOf("NVME") <=> s \in NvmeSlot
BY TiersDisjoint DEF Tier, SlotsOf, Slot

\* The two replicas of a pending transfer, and their slots.
LEMMA PendingFacts ==
    ASSUME NEW k \in Key, Transit(k), IsPending(k),
           NEW src, NEW dst,
           src = SourceTier(pending[k].offload), dst = DestinationTier(pending[k].offload)
    PROVE  /\ src \in {"GPU", "CPU"} /\ dst \in {"GPU", "CPU"} /\ src # dst
           /\ src \in Tier /\ dst \in Tier
           /\ pins[k] > 0 /\ k \notin stranded
           /\ Has(k, src) /\ replica[k][src].state = "COPYING"
           /\ Has(k, dst) /\ replica[k][dst].state = DestinationState(dst)
           /\ pending[k].source = LocationOf(k, src)
           /\ pending[k].destination = LocationOf(k, dst)
           /\ pending[k].source.slot = replica[k][src].slot
           /\ pending[k].destination.slot = replica[k][dst].slot
<1>1. src \in {"GPU", "CPU"} /\ dst \in {"GPU", "CPU"} /\ src # dst
  BY DEF SourceTier, DestinationTier
<1>2. /\ pins[k] > 0 /\ k \notin stranded
      /\ Has(k, src) /\ replica[k][src].state = "COPYING"
      /\ Has(k, dst) /\ replica[k][dst].state = DestinationState(dst)
      /\ pending[k].source = LocationOf(k, src)
      /\ pending[k].destination = LocationOf(k, dst)
  BY DEF Transit, Unmodified
<1>3. /\ pending[k].source.slot = replica[k][src].slot
      /\ pending[k].destination.slot = replica[k][dst].slot
  BY <1>2 DEF LocationOf
<1> QED BY <1>1, <1>2, <1>3 DEF Tier

\* A held slot is not free and in the tier of the replica.
LEMMA HeldSlot ==
    ASSUME Types, NEW k \in Key, Placed(k), NEW t \in Tier, Has(k, t)
    PROVE  /\ replica[k][t] \in Replica
           /\ replica[k][t].slot \in Slot \ free
           /\ replica[k][t].slot \in SlotsOf(t)
           /\ gen[replica[k][t].slot] = replica[k][t].generation
BY TierFacts DEF Types, DirTypeOK, Placed, Has, Valid, Replica

LEMMA ShapeExclusive ==
    ASSUME SyncInv, NEW k \in Key, Shape(k)
    PROVE  Exclusive'
<1> SUFFICES ASSUME NEW i \in Key, NEW j \in Key, NEW t \in Tier,
                    Has(i, t)', Has(j, t)', i # j
             PROVE  replica'[i][t].slot # replica'[j][t].slot
  BY DEF Exclusive
<1>1. ASSUME NEW a \in Key, a # k, Has(a, t)', Has(k, t)'
      PROVE  replica'[a][t].slot # replica'[k][t].slot
  <2>1. Has(a, t) /\ replica'[a][t] = replica[a][t]
    BY <1>1 DEF Shape, Has
  <2>2. replica[a][t].slot \notin free
    BY <2>1, HeldSlot DEF SyncInv, ChunkInv
  <2> QED BY <1>1, <2>1, <2>2 DEF Shape, SyncInv, Exclusive
<1>2. CASE i # k /\ j # k
  BY <1>2 DEF Shape, Has, SyncInv, Exclusive
<1> QED BY <1>1, <1>2

LEMMA ShapeAccounted ==
    ASSUME SyncInv, NEW k \in Key, Shape(k)
    PROVE  Accounted'
<1> SUFFICES ASSUME NEW s \in Slot, s \notin free'
             PROVE  Lost(s)' \/ \E j \in registered', t \in Tier : Holds(j, t, s)'
  BY DEF Accounted, Slot
<1>1. CASE s \in free
  BY <1>1 DEF Shape
<1>2. CASE s \notin free /\ Lost(s)
  <2>1. ASSUME NEW j \in Key, NEW t \in Tier, Holds(j, t, s)' PROVE FALSE
    BY <1>2, <2>1 DEF Shape, Holds, Has, Lost
  <2> QED BY <1>2, <2>1 DEF Lost, Shape, Holds, Slot, Linkable
<1>3. ASSUME s \notin free, NEW j \in registered, NEW t \in Tier, Holds(j, t, s)
      PROVE  Holds(j, t, s)' /\ j \in registered'
  <2>1. j \in Key
    BY DEF SyncInv, Types, DirTypeOK
  <2>2. CASE j = k
    BY <1>3, <2>2 DEF Shape, Holds
  <2>3. CASE j # k
    BY <1>3, <2>1, <2>3 DEF Shape, Holds, Has
  <2> QED BY <2>2, <2>3
<1> QED BY <1>1, <1>2, <1>3 DEF SyncInv, Accounted

\* What Transit says of a chunk depends on its own record and transfer only.
LEMMA SameTransit ==
    ASSUME NEW j \in Key, Transit(j),
           replica'[j] = replica[j], pins'[j] = pins[j], pending'[j] = pending[j],
           j \in stranded' <=> j \in stranded
    PROVE  Transit(j)'
<1>1. \A t \in Tier : Moving(j, t)' <=> Moving(j, t)
  BY DEF Moving, Has
<1>2. IsPending(j)' <=> IsPending(j)
  BY DEF IsPending
<1>3. Unmodified(j)' <=> Unmodified(j)
  BY DEF Unmodified, Has, LocationOf
<1>4. IsPending(j)' =>
        LET src == SourceTier(pending'[j].offload)
            dst == DestinationTier(pending'[j].offload) IN
        /\ pins'[j] > 0 /\ j \notin stranded'
        /\ replica'[j][src].state = "COPYING"
        /\ replica'[j][dst].state = DestinationState(dst)
  BY <1>2, PendingFacts
<1>5. {"GPU", "CPU"} \subseteq Tier
  BY DEF Tier
<1> QED BY <1>1, <1>2, <1>3, <1>4, <1>5 DEF Transit

\* What Bytes says of it depends in addition on the slots it holds.
LEMMA SameBytes ==
    ASSUME NEW j \in Key, Transit(j), Bytes(j),
           replica'[j] = replica[j], pending'[j] = pending[j],
           \A t \in Tier : Has(j, t) =>
             LET s == replica[j][t].slot IN
             data'[s] = data[s] /\ (t = "NVME" => header'[s] \in {header[s], NoFile})
    PROVE  Bytes(j)'
<1>1. ASSUME NEW t \in Tier, IsReady(j, t)'
      PROVE  /\ data'[replica'[j][t].slot] = j
             /\ t = "NVME" => header'[replica'[j][t].slot] \in {j, NoFile}
  BY <1>1 DEF IsReady, Has, Bytes
<1>2. ASSUME IsPending(j)'
      PROVE  /\ data'[pending'[j].source.slot] = j
             /\ pending'[j].done = "ok" => data'[pending'[j].destination.slot] = j
  <2> DEFINE src == SourceTier(pending[j].offload)
             dst == DestinationTier(pending[j].offload)
  <2>1. IsPending(j)
    BY <1>2 DEF IsPending
  <2>2. /\ Has(j, src) /\ Has(j, dst) /\ src \in Tier /\ dst \in Tier
        /\ pending[j].source.slot = replica[j][src].slot
        /\ pending[j].destination.slot = replica[j][dst].slot
    BY <2>1, PendingFacts
  <2> HIDE DEF src, dst
  <2> QED BY <2>1, <2>2 DEF Bytes
<1> QED BY <1>1, <1>2 DEF Bytes

\* The other chunks keep what the invariant says of them.
LEMMA ShapeFrameOthers ==
    ASSUME SyncInv, NEW k \in Key, Shape(k), Frame(k), NEW j \in Key, j # k
    PROVE  ChunkInv(j)'
<1> USE DEF SyncInv, ChunkInv
<1>1. /\ replica'[j] = replica[j] /\ pins'[j] = pins[j] /\ pending'[j] = pending[j]
      /\ j \in stranded' <=> j \in stranded
      /\ j \in registered' <=> j \in registered
  BY DEF Shape, Frame
<1>2. \A t \in Tier : Has(j, t)' <=> Has(j, t)
  BY <1>1 DEF Has
<1>3. ASSUME NEW t \in Tier, Has(j, t)
      PROVE  LET s == replica[j][t].slot IN
             /\ s \notin free' /\ gen'[s] = gen[s] /\ data'[s] = data[s]
             /\ t = "NVME" => header'[s] \in {header[s], NoFile}
  <2> DEFINE s == replica[j][t].slot
  <2>1. s \in Slot \ free /\ s \in SlotsOf(t)
    BY <1>3, HeldSlot
  <2>2. ASSUME NEW u \in Tier, Holds(k, u, s) PROVE FALSE
    <3>1. s \in SlotsOf(u)
      BY <2>2, HeldSlot DEF Holds
    <3>2. u = t
      BY <2>1, <3>1, TierFacts
    <3> QED BY <1>3, <2>2, <3>2 DEF Exclusive, Holds
  <2>3. t = "NVME" => s \in NvmeSlot
    BY <2>1, TierFacts
  <2> HIDE DEF s
  <2>4. s \notin free' /\ gen'[s] = gen[s]
    BY <2>1, <2>2 DEF Shape
  <2>5. data'[s] = data[s] /\ (t = "NVME" => header'[s] \in {header[s], NoFile})
    BY <2>1, <2>2, <2>3 DEF Frame
  <2> QED BY <2>4, <2>5 DEF s
<1>4. Placed(j)'
  BY <1>1, <1>2, <1>3 DEF Placed, Valid
<1>5. Transit(j)'
  BY <1>1, SameTransit
<1>6. Bytes(j)'
  BY <1>1, <1>3, SameBytes
<1> QED BY <1>4, <1>5, <1>6

\* What is shown of every step.
Sound ==
    /\ SyncInv'
    /\ \A s \in Slot \ free : gen'[s] = gen[s]
    /\ \A s \in free \ free' : gen'[s] = gen[s] + 1 \/ Lost(s)'

\* A step is sound when it is sound for its own chunk.
LEMMA StepSound ==
    ASSUME SyncInv, NEW k \in Key, Types', Shape(k), Frame(k), ChunkInv(k)', StreamExact'
    PROVE  Sound
<1>1. SyncInv'
  BY ShapeExclusive, ShapeAccounted, ShapeFrameOthers DEF SyncInv
<1> QED BY <1>1 DEF Sound, Shape

Waits(k) == IsPending(k) /\ pending[k].done = "pending"

LEMMA StreamKept ==
    ASSUME SyncInv, UNCHANGED stream, \A k \in Key : Waits(k)' <=> Waits(k)
    PROVE  StreamExact'
<1>1. \A i \in 1..Len(stream) : stream[i] \in Key
  BY DEF SyncInv, Types
<1> QED BY <1>1 DEF SyncInv, StreamExact, Waits

-----------------------------------------------------------------------------
(* The three ways an action changes the slots of its chunk.                *)

Kept(k, t) ==
    /\ Has(k, t)' <=> Has(k, t)
    /\ Has(k, t) =>
        /\ replica'[k][t].slot = replica[k][t].slot
        /\ replica'[k][t].generation = replica[k][t].generation

OthersReplicas(k) == \A j \in Key \ {k} : replica'[j] = replica[j]

\* A slot marked exhausted that leaves its list is lost.
LEMMA LoseSlotLoses ==
    ASSUME SyncInv, NEW t \in Tier, LoseSlot(t), UNCHANGED replica
    PROVE  /\ gen' = gen /\ free' \subseteq free
           /\ \A s \in free \ free' : Lost(s)'
<1>1. /\ t \in SlotTier /\ freeHead[t] # NoSlot /\ gen[freeHead[t]] = MaxGeneration
      /\ free' = free \ {freeHead[t]} /\ gen' = gen
  BY DEF LoseSlot, Exhausted
<1>2. freeHead[t] \in Linkable
  BY <1>1 DEF SyncInv, Types
<1>3. ASSUME freeHead[t] \in free, NEW j \in Key, NEW u \in Tier, Holds(j, u, freeHead[t])
      PROVE  FALSE
  BY <1>3, HeldSlot DEF Holds, SyncInv, ChunkInv
<1> QED BY <1>1, <1>2, <1>3 DEF Lost, Linkable, Holds, Has

\* The chunk keeps the slots it has; at most a slot is lost.
LEMMA KeepingShape ==
    ASSUME SyncInv, NEW k \in Key, OthersReplicas(k),
           \A t \in Tier : Kept(k, t) /\ (Has(k, t) => k \in registered'),
           \A j \in Key \ {k} : j \in registered' <=> j \in registered,
           \A s \in Slot \ free : gen'[s] = gen[s],
           free' \subseteq free, \A s \in free \ free' : Lost(s)'
    PROVE  Shape(k) /\ Placed(k)'
<1>1. Shape(k)
  BY DEF Shape, Kept, OthersReplicas
<1>2. ASSUME NEW t \in Tier, Has(k, t)'
      PROVE  k \in registered' /\ replica'[k][t].slot \in SlotsOf(t) /\ Valid(replica[k][t])'
  <2>1. Has(k, t) /\ replica[k][t].slot \in Slot \ free /\ replica[k][t].slot \in SlotsOf(t)
        /\ gen[replica[k][t].slot] = replica[k][t].generation
    BY <1>2, HeldSlot DEF Kept, SyncInv, ChunkInv
  <2> QED BY <2>1 DEF Kept, Valid
<1> QED BY <1>1, <1>2 DEF Placed

\* The chunk gives up the slot it has in tier t.
LEMMA GivingShape ==
    ASSUME SyncInv, NEW k \in Key, OthersReplicas(k), UNCHANGED <<registered, gen>>,
           NEW t \in Tier, Has(k, t), ~Has(k, t)',
           \A u \in Tier \ {t} : Kept(k, u),
           free' = free \cup {replica[k][t].slot}
    PROVE  Shape(k) /\ Placed(k)'
<1>1. \A u \in Tier : Has(k, u) =>
        /\ k \in registered
        /\ replica[k][u].slot \in Slot \ free /\ replica[k][u].slot \in SlotsOf(u)
        /\ gen[replica[k][u].slot] = replica[k][u].generation
  BY HeldSlot DEF SyncInv, ChunkInv, Placed
<1>2. \A u, v \in Tier : Has(k, u) /\ Has(k, v) /\ replica[k][u].slot = replica[k][v].slot => u = v
  BY <1>1, TierFacts
<1>3. Shape(k)
  BY <1>1 DEF Shape, Kept, OthersReplicas, Holds
<1>4. ASSUME NEW u \in Tier, Has(k, u)'
      PROVE  k \in registered' /\ replica'[k][u].slot \in SlotsOf(u) /\ Valid(replica[k][u])'
  <2>1. u # t /\ Has(k, u)
    BY <1>4 DEF Kept
  <2> QED BY <1>1, <1>2, <1>4, <2>1 DEF Kept, Valid
<1> QED BY <1>3, <1>4 DEF Placed

\* While the chunk takes slot s in tier t, it gives up those it has in G.
GivesOnly(k, t, s, G) ==
    /\ G \subseteq Tier \ {t}
    /\ \A u \in G : Has(k, u) /\ ~Has(k, u)'
    /\ \A u \in Tier \ (G \cup {t}) : Kept(k, u)
    /\ free' = (free \ {s}) \cup {replica[k][u].slot : u \in G}

LEMMA TakingShape ==
    ASSUME SyncInv, NEW k \in registered, OthersReplicas(k), UNCHANGED registered,
           NEW t \in Tier, NEW s \in free, s \in SlotsOf(t), ~Has(k, t),
           Has(k, t)', replica'[k][t].slot = s, replica'[k][t].generation = gen[s] + 1,
           NEW G, GivesOnly(k, t, s, G), gen' = [gen EXCEPT ![s] = @ + 1]
    PROVE  Shape(k) /\ Placed(k)'
<1> USE DEF GivesOnly
<1> k \in Key /\ s \in Slot /\ gen \in [Slot -> Nat]
  BY DEF SyncInv, Types, DirTypeOK
<1>1. \A u \in Tier : Has(k, u) =>
        /\ replica[k][u].slot \in Slot \ free /\ replica[k][u].slot \in SlotsOf(u)
        /\ gen[replica[k][u].slot] = replica[k][u].generation
  BY HeldSlot DEF SyncInv, ChunkInv
<1>2. \A u, v \in Tier : Has(k, u) /\ Has(k, v) /\ replica[k][u].slot = replica[k][v].slot => u = v
  BY <1>1, TierFacts
<1>3. gen'[s] = gen[s] + 1 /\ \A r \in Slot : r # s => gen'[r] = gen[r]
  OBVIOUS
<1>4. s \notin free' /\ \A u \in G : replica[k][u].slot # s
  BY <1>1
<1>5. Shape(k)
  <2>1. \A j \in Key \ {k} : replica'[j] = replica[j] /\ (j \in registered' <=> j \in registered)
    BY DEF OthersReplicas
  <2>2. \A u \in Tier : Has(k, u) =>
          \/ Has(k, u)' /\ k \in registered' /\ replica'[k][u].slot = replica[k][u].slot
          \/ replica[k][u].slot \in free'
    BY DEF Kept
  <2>3. \A u \in Tier : Has(k, u)' =>
          \/ replica'[k][u].slot \in free
          \/ Has(k, u) /\ replica'[k][u].slot = replica[k][u].slot
    BY DEF Kept
  <2>4. \A r \in Slot \ free : gen'[r] = gen[r]
    BY <1>3
  <2>5. \A r \in free' \ free : \E u \in Tier : Holds(k, u, r)
    BY DEF Holds
  <2>6. \A r \in free \ free' :
          gen'[r] = gen[r] + 1 /\ k \in registered' /\ \E u \in Tier : Holds(k, u, r)'
    BY <1>3 DEF Holds
  <2> QED BY <2>1, <2>2, <2>3, <2>4, <2>5, <2>6 DEF Shape
<1>6. ASSUME NEW u \in Tier, Has(k, u)'
      PROVE  k \in registered' /\ replica'[k][u].slot \in SlotsOf(u) /\ Valid(replica[k][u])'
  <2>1. CASE u = t
    BY <1>3, <1>4, <2>1 DEF Valid
  <2>2. CASE u # t
    <3>1. u \notin G /\ Has(k, u) /\ Kept(k, u)
      BY <1>6, <2>2 DEF Kept
    <3>2. replica[k][u].slot # s /\ replica[k][u].slot \notin free'
      BY <1>1, <1>2, <3>1
    <3> QED BY <1>1, <1>3, <3>1, <3>2 DEF Kept, Valid
  <2> QED BY <2>1, <2>2
<1> QED BY <1>5, <1>6 DEF Placed

LEMMA TakingOneShape ==
    ASSUME SyncInv, NEW k \in registered, OthersReplicas(k), UNCHANGED registered,
           NEW t \in Tier, NEW s \in free, s \in SlotsOf(t), ~Has(k, t),
           Has(k, t)', replica'[k][t].slot = s, replica'[k][t].generation = gen[s] + 1,
           \A u \in Tier \ {t} : Kept(k, u),
           gen' = [gen EXCEPT ![s] = @ + 1], free' = free \ {s}
    PROVE  Shape(k) /\ Placed(k)'
<1>1. GivesOnly(k, t, s, {})
  BY DEF GivesOnly
<1> QED BY <1>1, TakingShape

-----------------------------------------------------------------------------
(* The free lists keep their shape.                                        *)

LEMMA RelinkTypes ==
    ASSUME Types, NEW take \in Slot \cup {NoSlot}, NEW give \in Slot \cup {NoSlot},
           Relink(take, give)
    PROVE  /\ freeHead' \in [SlotTier -> Linkable \cup {NoSlot}]
           /\ nextFree' \in [Linkable -> Linkable \cup {NoSlot}]
<1>1. \A t \in SlotTier : SlotsOf(t) \subseteq Linkable
  BY DEF SlotTier, SlotsOf, Linkable
<1>2. \A s \in Linkable : \E t \in SlotTier : s \in SlotsOf(t)
  BY DEF SlotTier, SlotsOf, Linkable
<1>3. \A s \in Linkable : (CHOOSE t \in SlotTier : s \in SlotsOf(t)) \in SlotTier
  BY <1>2
<1>4. freeHead' \in [SlotTier -> Linkable \cup {NoSlot}]
  BY <1>1 DEF Relink, Types
<1>5. nextFree' \in [Linkable -> Linkable \cup {NoSlot}]
  BY <1>3 DEF Relink, Types
<1> QED BY <1>4, <1>5

LEMMA LoseSlotTypes ==
    ASSUME Types, NEW t \in Tier, LoseSlot(t)
    PROVE  /\ gen' \in [Slot -> Nat] /\ free' \subseteq Slot
           /\ freeHead' \in [SlotTier -> Linkable \cup {NoSlot}]
           /\ nextFree' \in [Linkable -> Linkable \cup {NoSlot}]
BY DEF LoseSlot, Exhausted, Types, DirTypeOK

-----------------------------------------------------------------------------
(* One lemma per action.  First those that change no replica.              *)

LEMMA OnlyLoses ==
    ASSUME SyncInv, NEW k \in Key, NEW t \in Tier, LoseSlot(t),
           UNCHANGED <<registered, replica, refs, pins, xferVars, storeVars>>
    PROVE  Sound
<1> USE DEF xferVars, storeVars
<1>1. Types'
  BY LoseSlotTypes DEF SyncInv, Types, DirTypeOK
<1>2. Shape(k) /\ Placed(k)'
  <2>1. \A u \in Tier : Kept(k, u) /\ (Has(k, u) => k \in registered')
    BY DEF Kept, Has, SyncInv, ChunkInv, Placed
  <2> QED BY <2>1, LoseSlotLoses, KeepingShape DEF OthersReplicas
<1>3. Frame(k)
  BY DEF Frame
<1>4. Transit(k)' /\ Bytes(k)'
  BY SameTransit, SameBytes DEF SyncInv, ChunkInv
<1>5. StreamExact'
  BY StreamKept DEF Waits, IsPending
<1> QED BY <1>1, <1>2, <1>3, <1>4, <1>5, StepSound DEF ChunkInv

\* A slot handed out and taken back, or never written.
LEMMA InVain ==
    ASSUME SyncInv, NEW k \in Key, NEW s \in free,
           gen' = [gen EXCEPT ![s] = @ + 1],
           data' \in {data, [data EXCEPT ![s] = Junk]},
           UNCHANGED <<registered, replica, refs, pins, free, listVars, xferVars, header>>
    PROVE  Sound
<1> USE DEF xferVars, listVars
<1>1. /\ s \in Slot /\ gen \in [Slot -> Nat] /\ data \in [Slot -> Key \cup {Junk}]
  BY DEF SyncInv, Types, DirTypeOK
<1>2. \A r \in Slot \ free : gen'[r] = gen[r] /\ data'[r] = data[r]
  BY <1>1
<1>3. Types'
  <2>1. gen' \in [Slot -> Nat] /\ data' \in [Slot -> Key \cup {Junk}]
    BY <1>1
  <2> QED BY <2>1 DEF SyncInv, Types, DirTypeOK
<1>4. Shape(k) /\ Placed(k)'
  <2>1. \A u \in Tier : Kept(k, u) /\ (Has(k, u) => k \in registered')
    BY DEF Kept, Has, SyncInv, ChunkInv, Placed
  <2> QED BY <1>2, <2>1, KeepingShape DEF OthersReplicas
<1>5. Frame(k)
  BY <1>2 DEF Frame
<1>6. Transit(k)' /\ Bytes(k)'
  BY <1>2, HeldSlot, SameTransit, SameBytes DEF SyncInv, ChunkInv
<1>7. StreamExact'
  BY StreamKept DEF Waits, IsPending
<1> QED BY <1>3, <1>4, <1>5, <1>6, <1>7, StepSound DEF ChunkInv

LEMMA CountsStep ==
    ASSUME SyncInv, NEW k \in Key, CallerCounts(k)
    PROVE  Sound
<1> USE DEF CallerCounts, CallerFrame, xferVars, storeVars, listVars
<1> refs \in [Key -> Nat] /\ pins \in [Key -> Nat] /\ registered \subseteq Key
  BY DEF SyncInv, Types, DirTypeOK
<1>0. \/ Create(k) \/ Destroy(k) \/ AddRef(k) \/ ReleaseRef(k) \/ Pin(k)
      \/ Unpin(k) /\ CallerPins(k) > 0
  OBVIOUS
<1>1. /\ UNCHANGED <<replica, gen, free, freeHead, nextFree, pending, stream, stranded, data, header>>
      /\ \A j \in Key \ {k} : pins'[j] = pins[j] /\ (j \in registered' <=> j \in registered)
      /\ registered' \subseteq Key /\ refs' \in [Key -> Nat] /\ pins' \in [Key -> Nat]
      /\ pins'[k] >= pins[k] \/ (Unpin(k) /\ CallerPins(k) > 0)
  <2>1. CASE Create(k) \/ Destroy(k)
    BY <2>1 DEF Create, Destroy
  <2>2. CASE AddRef(k) \/ ReleaseRef(k)
    BY <2>2 DEF AddRef, ReleaseRef
  <2>3. CASE Pin(k)
    BY <2>3 DEF Pin
  <2>4. CASE Unpin(k) /\ CallerPins(k) > 0
    BY <2>4 DEF Unpin
  <2> QED BY <1>0, <2>1, <2>2, <2>3, <2>4
<1>2. Types'
  BY <1>1 DEF SyncInv, Types, DirTypeOK
<1>3. \A t \in Tier : Has(k, t) => k \in registered'
  BY DEF Create, Destroy, Destroyable, AddRef, ReleaseRef, Pin, Unpin, SyncInv, ChunkInv, Placed
<1>4. Shape(k) /\ Placed(k)'
  <2>1. \A u \in Tier : Kept(k, u)
    BY <1>1 DEF Kept, Has
  <2> QED BY <1>1, <1>3, <2>1, KeepingShape DEF OthersReplicas
<1>5. Frame(k)
  BY <1>1 DEF Frame
<1>6. IsPending(k) => pins'[k] > 0
  <2> SUFFICES ASSUME IsPending(k) PROVE pins'[k] > 0
    OBVIOUS
  <2>1. pins[k] > 0 /\ pins[k] \in Nat
    BY PendingFacts DEF SyncInv, ChunkInv, Types, DirTypeOK
  <2>2. CASE Unpin(k) /\ CallerPins(k) > 0
    BY <2>1, <2>2 DEF Unpin, CallerPins
  <2>3. CASE pins'[k] >= pins[k]
    BY <1>1, <2>1, <2>3
  <2> QED BY <1>1, <2>2, <2>3
<1>7. Transit(k)'
  <2>1. Unmodified(k)' <=> Unmodified(k)
    BY <1>1 DEF Unmodified, Has, LocationOf
  <2>2. \A t \in Tier : Moving(k, t)' <=> Moving(k, t)
    BY <1>1 DEF Moving, Has
  <2>3. IsPending(k)' =>
          LET src == SourceTier(pending'[k].offload)
              dst == DestinationTier(pending'[k].offload) IN
          /\ pins'[k] > 0 /\ k \notin stranded'
          /\ replica'[k][src].state = "COPYING"
          /\ replica'[k][dst].state = DestinationState(dst)
    BY <1>1, <1>6, PendingFacts DEF IsPending, SyncInv, ChunkInv
  <2>4. IsPending(k)' <=> IsPending(k)
    BY <1>1 DEF IsPending
  <2>5. {"GPU", "CPU"} \subseteq Tier
    BY DEF Tier
  <2> QED BY <1>1, <2>1, <2>2, <2>3, <2>4, <2>5 DEF Transit, SyncInv, ChunkInv
<1>8. Bytes(k)'
  BY <1>1, SameBytes DEF SyncInv, ChunkInv
<1>9. StreamExact'
  BY <1>1, StreamKept DEF Waits, IsPending
<1> QED BY <1>2, <1>4, <1>5, <1>7, <1>8, <1>9, StepSound DEF ChunkInv

LEMMA FileLostStep ==
    ASSUME SyncInv, NEW k \in Key, NEW n \in NvmeSlot, FileLost(n)
    PROVE  Sound
<1> USE DEF FileLost, CallerFrame, xferVars, tierVars, dirVars, listVars
<1>1. header \in [NvmeSlot -> Key \cup {NoFile}]
  BY DEF SyncInv, Types
<1>2. \A r \in NvmeSlot : header'[r] \in {header[r], NoFile}
  BY <1>1
<1>3. Types'
  BY <1>1 DEF SyncInv, Types, DirTypeOK
<1>4. Shape(k) /\ Placed(k)'
  <2>1. \A u \in Tier : Kept(k, u) /\ (Has(k, u) => k \in registered')
    BY DEF Kept, Has, SyncInv, ChunkInv, Placed
  <2> QED BY <2>1, KeepingShape DEF OthersReplicas
<1>5. Frame(k)
  BY <1>2 DEF Frame
<1>6. Transit(k)' /\ Bytes(k)'
  <2>1. \A t \in Tier : Has(k, t) /\ t = "NVME" => replica[k][t].slot \in NvmeSlot
    BY HeldSlot, TierFacts DEF SyncInv, ChunkInv
  <2> QED BY <1>2, <2>1, SameTransit, SameBytes DEF SyncInv, ChunkInv
<1>7. StreamExact'
  BY StreamKept DEF Waits, IsPending
<1> QED BY <1>3, <1>4, <1>5, <1>6, <1>7, StepSound DEF ChunkInv

-----------------------------------------------------------------------------
(* The initial state.                                                      *)

\* Among the slots of a tier there is a first one.
LEMMA FirstSlotExists ==
    ASSUME NEW t \in SlotTier
    PROVE  /\ FirstSlot(t) \in SlotsOf(t)
           /\ \E last \in SlotsOf(t) : SlotsOf(t) = FirstSlot(t)..last
<1>1. SlotsOf(t) \subseteq Nat
  BY SlotsAreNumbered DEF SlotTier, SlotsOf, Slot
<1>2. PICK first \in SlotsOf(t), last \in SlotsOf(t) : SlotsOf(t) = first..last
  BY SlotsAreConsecutive
<1>3. \A r \in SlotsOf(t) : first <= r
  BY <1>1, <1>2
<1>4. \A s \in SlotsOf(t) : (\A r \in SlotsOf(t) : s <= r) => s = first
  BY <1>1, <1>3
<1>5. FirstSlot(t) = first
  BY <1>3, <1>4 DEF FirstSlot
<1> QED BY <1>2, <1>5

LEMMA InitSound == Init => SyncInv
<1> SUFFICES ASSUME Init PROVE SyncInv
  OBVIOUS
<1> USE DEF Init, TiersInit, DirInit
<1>1. Types
  <2>1. DirTypeOK
    BY DEF DirTypeOK
  <2>2. freeHead \in [SlotTier -> Linkable \cup {NoSlot}]
    BY FirstSlotExists DEF SlotTier, SlotsOf, Linkable
  <2>3. nextFree \in [Linkable -> Linkable \cup {NoSlot}]
    BY DEF SlotTier, SlotsOf, Linkable
  <2> QED BY <2>1, <2>2, <2>3 DEF Types
<1>2. \A k \in Key : /\ \A t \in Tier : ~Has(k, t)
                    /\ ~IsPending(k) /\ k \notin stranded
  BY DEF Has, IsPending
<1>3. \A k \in Key : ChunkInv(k)
  BY <1>2 DEF ChunkInv, Placed, Transit, Moving, Bytes, IsReady
<1>4. Exclusive /\ Accounted /\ StreamExact
  BY <1>2 DEF Exclusive, Accounted, StreamExact
<1> QED BY <1>1, <1>3, <1>4 DEF SyncInv

-----------------------------------------------------------------------------
(* GpuCpuTransfer.                                                         *)

LEMMA NextSlot ==
    ASSUME Types, NEW t \in Tier, NEW s \in Next_(t)
    PROVE  s \in free /\ s \in SlotsOf(t) /\ s \in Slot
BY TierFacts DEF Next_, Available

\* A chunk whose transfer may begin is at rest.
LEMMA MayBeginFacts ==
    ASSUME SyncInv, NEW k \in Key, NEW offload \in BOOLEAN, MayBegin(k, offload),
           NEW src, NEW dst, src = SourceTier(offload), dst = DestinationTier(offload)
    PROVE  /\ src \in {"GPU", "CPU"} /\ dst \in {"GPU", "CPU"} /\ src # dst
           /\ src \in Tier /\ dst \in Tier
           /\ k \in registered /\ ~IsPending(k) /\ k \notin stranded
           /\ IsReady(k, src) /\ Has(k, src) /\ ~Has(k, dst)
<1>1. src \in {"GPU", "CPU"} /\ dst \in {"GPU", "CPU"} /\ src # dst
  BY DEF SourceTier, DestinationTier
<1>2. k \in registered /\ ~IsPending(k) /\ IsReady(k, src) /\ ~Has(k, dst)
  BY DEF MayBegin, Copyable
<1>3. k \notin stranded
  <2>1. ~Moving(k, src) /\ ~Moving(k, dst)
    BY <1>2 DEF Moving, IsReady
  <2> QED BY <1>1, <2>1 DEF SyncInv, ChunkInv, Transit
<1> QED BY <1>1, <1>2, <1>3 DEF IsReady, Tier

\* The replicas after InTransit.
LEMMA InTransitFacts ==
    ASSUME Types, NEW k \in Key, NEW src \in Tier, NEW dst \in {"GPU", "CPU"}, src # dst,
           NEW s \in Slot, Has(k, src), InTransit(k, src, dst, s)
    PROVE  /\ replica' \in [Key -> [Tier -> Replica \cup {NoReplica}]]
           /\ OthersReplicas(k)
           /\ \A t \in Tier \ {src, dst} : replica'[k][t] = replica[k][t]
           /\ Has(k, src)' /\ replica'[k][src].state = "COPYING"
           /\ replica'[k][src].slot = replica[k][src].slot
           /\ replica'[k][src].generation = replica[k][src].generation
           /\ Has(k, dst)' /\ replica'[k][dst] = FreshReplica(s, DestinationState(dst))
           /\ replica'[k][dst].slot = s /\ replica'[k][dst].generation = gen[s] + 1
           /\ replica'[k][dst].state = DestinationState(dst)
<1> DEFINE old == replica[k]
           new == [old EXCEPT ![src].state = "COPYING",
                              ![dst] = FreshReplica(s, DestinationState(dst))]
<1>1. /\ replica \in [Key -> [Tier -> Replica \cup {NoReplica}]] /\ gen \in [Slot -> Nat]
      /\ old \in [Tier -> Replica \cup {NoReplica}] /\ old[src] \in Replica /\ dst \in Tier
  BY DEF Types, DirTypeOK, Has, Tier
<1>2. DestinationState(dst) \in ChunkState /\ "COPYING" \in ChunkState
  BY DEF DestinationState, ChunkState
<1>3. /\ FreshReplica(s, DestinationState(dst)) \in Replica
      /\ FreshReplica(s, DestinationState(dst)).slot = s
      /\ FreshReplica(s, DestinationState(dst)).generation = gen[s] + 1
      /\ FreshReplica(s, DestinationState(dst)).state = DestinationState(dst)
  BY <1>1, <1>2 DEF FreshReplica, Replica
<1>4. replica' = [replica EXCEPT ![k] = new]
  BY DEF InTransit
<1>5. /\ [old[src] EXCEPT !.state = "COPYING"] \in Replica
      /\ [old[src] EXCEPT !.state = "COPYING"].state = "COPYING"
      /\ [old[src] EXCEPT !.state = "COPYING"].slot = old[src].slot
      /\ [old[src] EXCEPT !.state = "COPYING"].generation = old[src].generation
  BY <1>1, <1>2 DEF Replica
<1>6. /\ new[src] = [old[src] EXCEPT !.state = "COPYING"]
      /\ new[dst] = FreshReplica(s, DestinationState(dst))
      /\ \A t \in Tier \ {src, dst} : new[t] = old[t]
      /\ new \in [Tier -> Replica \cup {NoReplica}]
  BY <1>1, <1>3, <1>5
<1> HIDE DEF new
<1>7. /\ replica' \in [Key -> [Tier -> Replica \cup {NoReplica}]]
      /\ replica'[k] = new /\ OthersReplicas(k)
  BY <1>1, <1>4, <1>6 DEF OthersReplicas
<1> QED BY <1>1, <1>3, <1>5, <1>6, <1>7, NoReplicaIsNone DEF Has

LEMMA BeginStep ==
    ASSUME SyncInv, NEW k \in Key, NEW offload \in BOOLEAN, NEW s \in Slot, Begin(k, offload, s)
    PROVE  Sound
<1> DEFINE src == SourceTier(offload)
           dst == DestinationTier(offload)
           entry == [offload |-> offload, done |-> "pending",
                     source |-> LocationOf(k, src),
                     destination |-> [slot |-> s, generation |-> gen[s] + 1]]
<1>1. /\ MayBegin(k, offload) /\ s \in Next_(dst)
      /\ TakeSlot(s) /\ Relink(s, NoSlot) /\ InTransit(k, src, dst, s)
      /\ pins' = [pins EXCEPT ![k] = @ + 1]
      /\ pending' = [pending EXCEPT ![k] = entry]
      /\ stream' = Append(stream, k)
      /\ data' = [data EXCEPT ![s] = Junk]
      /\ UNCHANGED <<registered, refs, open, stranded, header>>
  BY DEF Begin
<1>2. /\ src \in {"GPU", "CPU"} /\ dst \in {"GPU", "CPU"} /\ src # dst
      /\ src \in Tier /\ dst \in Tier
      /\ k \in registered /\ ~IsPending(k) /\ k \notin stranded
      /\ IsReady(k, src) /\ Has(k, src) /\ ~Has(k, dst)
  BY <1>1, MayBeginFacts
<1>3. s \in free /\ s \in SlotsOf(dst)
  BY <1>1, <1>2, NextSlot DEF SyncInv
<1>4. /\ replica' \in [Key -> [Tier -> Replica \cup {NoReplica}]]
      /\ OthersReplicas(k)
      /\ \A t \in Tier \ {src, dst} : replica'[k][t] = replica[k][t]
      /\ Has(k, src)' /\ replica'[k][src].state = "COPYING"
      /\ replica'[k][src].slot = replica[k][src].slot
      /\ replica'[k][src].generation = replica[k][src].generation
      /\ Has(k, dst)' /\ replica'[k][dst].slot = s
      /\ replica'[k][dst].generation = gen[s] + 1
      /\ replica'[k][dst].state = DestinationState(dst)
  BY <1>1, <1>2, InTransitFacts DEF SyncInv
<1>5. /\ replica[k][src].slot \in Slot \ free /\ replica[k][src].slot # s
      /\ replica[k][src] \in Replica
  BY <1>2, <1>3, HeldSlot DEF SyncInv, ChunkInv
<1>6. /\ entry \in Transfer /\ entry # NoTransfer
      /\ entry.offload = offload /\ entry.done = "pending"
      /\ entry.source = LocationOf(k, src) /\ entry.source.slot = replica[k][src].slot
      /\ entry.destination = [slot |-> s, generation |-> gen[s] + 1]
      /\ entry.destination.slot = s
  <2>1. gen \in [Slot -> Nat]
    BY DEF SyncInv, Types, DirTypeOK
  <2>2. LocationOf(k, src) \in Location /\ LocationOf(k, src).slot = replica[k][src].slot
    BY <1>5 DEF LocationOf, Location, Replica
  <2>3. [slot |-> s, generation |-> gen[s] + 1] \in Location
    BY <2>1 DEF Location
  <2> QED BY <2>2, <2>3, TransferConstants DEF Transfer
<1> HIDE DEF entry, src, dst
<1>7. /\ pending \in [Key -> Transfer \cup {NoTransfer}] /\ stream \in Seq(Key)
      /\ data \in [Slot -> Key \cup {Junk}] /\ gen \in [Slot -> Nat]
      /\ pins \in [Key -> Nat] /\ stranded \subseteq Key /\ registered \subseteq Key
  BY DEF SyncInv, Types, DirTypeOK
<1>8. /\ gen' = [gen EXCEPT ![s] = @ + 1] /\ free' = free \ {s}
  BY <1>1 DEF TakeSlot
<1>9. /\ pending'[k] = entry /\ pins'[k] = pins[k] + 1
      /\ \A j \in Key \ {k} : pending'[j] = pending[j] /\ pins'[j] = pins[j]
      /\ \A r \in Slot \ {s} : data'[r] = data[r]
  BY <1>1, <1>7
<1>10. Types'
  <2>1. DirTypeOK'
    BY <1>1, <1>4, <1>7, <1>8 DEF SyncInv, Types, DirTypeOK
  <2>2. /\ pending' \in [Key -> Transfer \cup {NoTransfer}]
        /\ data' \in [Slot -> Key \cup {Junk}]
    BY <1>1, <1>6, <1>7
  <2>3. stream' \in Seq(Key)
    BY <1>1, <1>7, AppendProperties
  <2>4. /\ freeHead' \in [SlotTier -> Linkable \cup {NoSlot}]
        /\ nextFree' \in [Linkable -> Linkable \cup {NoSlot}]
    BY <1>1, RelinkTypes DEF SyncInv
  <2> QED BY <1>1, <2>1, <2>2, <2>3, <2>4 DEF SyncInv, Types
<1>11. Shape(k) /\ Placed(k)'
  <2>1. \A u \in Tier \ {dst} : Kept(k, u)
    BY <1>2, <1>4 DEF Kept, Has
  <2> QED BY <1>1, <1>2, <1>3, <1>4, <1>8, <2>1, TakingOneShape
<1>12. Frame(k)
  BY <1>1, <1>3, <1>9 DEF Frame
<1>13. Transit(k)'
  <2>1. IsPending(k)'
    BY <1>6, <1>9 DEF IsPending
  <2>2. SourceTier(pending'[k].offload) = src /\ DestinationTier(pending'[k].offload) = dst
    BY <1>6, <1>9 DEF src, dst
  <2>3. Unmodified(k)'
    BY <1>2, <1>4, <1>6, <1>9, <2>2 DEF Unmodified, LocationOf
  <2>4. \A t \in Tier : Moving(k, t)' => t \in {"GPU", "CPU"}
    <3>1. ASSUME NEW t \in Tier \ {src, dst}, Moving(k, t)' PROVE FALSE
      BY <1>2, <1>4, <3>1 DEF Moving, Has, SyncInv, ChunkInv, Transit
    <3> QED BY <1>2, <3>1
  <2> QED BY <1>1, <1>2, <1>4, <1>7, <1>9, <2>1, <2>2, <2>3, <2>4 DEF Transit
<1>14. Bytes(k)'
  <2>1. ASSUME NEW t \in Tier, IsReady(k, t)'
        PROVE  /\ data'[replica'[k][t].slot] = k
               /\ t = "NVME" => header'[replica'[k][t].slot] \in {k, NoFile}
    <3>1. t # src /\ t # dst
      BY <1>2, <1>4, <2>1 DEF IsReady, DestinationState
    <3>2. replica'[k][t] = replica[k][t] /\ IsReady(k, t)
      BY <1>4, <2>1, <3>1 DEF IsReady, Has
    <3>3. replica[k][t].slot \in Slot \ free
      BY <3>2, HeldSlot DEF IsReady, SyncInv, ChunkInv
    <3> QED BY <1>1, <1>3, <1>9, <3>2, <3>3 DEF SyncInv, ChunkInv, Bytes
  <2>2. data'[pending'[k].source.slot] = k
    BY <1>2, <1>5, <1>6, <1>9 DEF SyncInv, ChunkInv, Bytes
  <2> QED BY <1>6, <1>9, <2>1, <2>2 DEF Bytes
<1>15. StreamExact'
  <2>1. /\ Len(stream') = Len(stream) + 1 /\ Len(stream) \in Nat
        /\ \A i \in 1..Len(stream) : stream'[i] = stream[i] /\ stream[i] \in Key /\ stream[i] # k
        /\ stream'[Len(stream) + 1] = k
    BY <1>1, <1>2, <1>7, AppendProperties DEF SyncInv, StreamExact
  <2>2. \A i \in 1..Len(stream') :
          (IsPending(stream[i]) /\ pending[stream[i]].done = "pending")'
    <3> TAKE i \in 1..Len(stream')
    <3>1. CASE i = Len(stream) + 1
      BY <1>6, <1>9, <2>1, <3>1 DEF IsPending
    <3>2. CASE i # Len(stream) + 1
      BY <1>9, <2>1, <3>2 DEF IsPending, SyncInv, StreamExact
    <3> QED BY <3>1, <3>2
  <2>3. \A i, j \in 1..Len(stream') : stream'[i] = stream'[j] => i = j
    BY <2>1 DEF SyncInv, StreamExact
  <2>4. \A j \in Key : (IsPending(j) /\ pending[j].done = "pending")' =>
          \E i \in 1..Len(stream') : stream'[i] = j
    <3> TAKE j \in Key
    <3>1. CASE j = k
      BY <2>1, <3>1
    <3>2. CASE j # k
      BY <1>9, <2>1, <3>2 DEF IsPending, SyncInv, StreamExact
    <3> QED BY <3>1, <3>2
  <2> QED BY <2>2, <2>3, <2>4 DEF StreamExact
<1> QED BY <1>10, <1>11, <1>12, <1>13, <1>14, <1>15, StepSound DEF ChunkInv

LEMMA BeginRolledBackStep ==
    ASSUME SyncInv, NEW k \in Key, NEW offload \in BOOLEAN, NEW s \in Slot,
           BeginRolledBack(k, offload, s)
    PROVE  Sound
<1>1. PlacedInVain(DestinationTier(offload), s) /\ UNCHANGED xferVars
  BY DEF BeginRolledBack
<1>2. DestinationTier(offload) \in Tier
  BY DEF DestinationTier, Tier
<1>3. s \in free
  BY <1>1, <1>2, NextSlot DEF PlacedInVain, SyncInv
<1> QED BY <1>1, <1>3, InVain DEF PlacedInVain

LEMMA BeginLosesSlotStep ==
    ASSUME SyncInv, NEW k \in Key, NEW offload \in BOOLEAN, BeginLosesSlot(k, offload)
    PROVE  Sound
<1>1. DestinationTier(offload) \in Tier
  BY DEF DestinationTier, Tier
<1> QED BY <1>1, OnlyLoses DEF BeginLosesSlot

\* The replicas after a change of state.
LEMMA StateFacts ==
    ASSUME Types, NEW k \in Key, NEW t \in Tier, Has(k, t), NEW st \in ChunkState,
           replica' = [replica EXCEPT ![k][t].state = st]
    PROVE  /\ replica' \in [Key -> [Tier -> Replica \cup {NoReplica}]]
           /\ OthersReplicas(k)
           /\ \A u \in Tier \ {t} : replica'[k][u] = replica[k][u]
           /\ Has(k, t)' /\ replica'[k][t].state = st
           /\ \A u \in Tier : Kept(k, u)
<1> DEFINE old == replica[k]
           r == [old[t] EXCEPT !.state = st]
           new == [old EXCEPT ![t] = r]
<1>1. /\ replica \in [Key -> [Tier -> Replica \cup {NoReplica}]]
      /\ old \in [Tier -> Replica \cup {NoReplica}] /\ old[t] \in Replica
  BY DEF Types, DirTypeOK, Has
<1>2. /\ r \in Replica /\ r # NoReplica /\ r.state = st
      /\ r.slot = old[t].slot /\ r.generation = old[t].generation
  BY <1>1, NoReplicaIsNone DEF Replica
<1>3. replica' = [replica EXCEPT ![k] = new]
  OBVIOUS
<1> HIDE DEF r
<1>4. /\ new[t] = r /\ \A u \in Tier \ {t} : new[u] = old[u]
      /\ new \in [Tier -> Replica \cup {NoReplica}]
  BY <1>1, <1>2
<1> HIDE DEF new
<1>5. /\ replica' \in [Key -> [Tier -> Replica \cup {NoReplica}]]
      /\ replica'[k] = new /\ OthersReplicas(k)
  BY <1>1, <1>3, <1>4 DEF OthersReplicas
<1>6. \A u \in Tier : Kept(k, u)
  BY <1>2, <1>4, <1>5 DEF Kept, Has
<1> QED BY <1>2, <1>4, <1>5, <1>6 DEF Has

\* The roll-back fails before the destination was placed.
LEMMA BeginStrandsEarly ==
    ASSUME SyncInv, NEW k \in Key, NEW offload \in BOOLEAN, MayBegin(k, offload),
           stranded' = stranded \cup {k},
           replica' = [replica EXCEPT ![k][SourceTier(offload)].state = "COPYING"],
           \/ LoseSlot(DestinationTier(offload))
           \/ UNCHANGED <<gen, free, listVars>>,
           UNCHANGED <<data, registered, refs, pins, pending, stream, open, header>>
    PROVE  Sound
<1> DEFINE src == SourceTier(offload)
           dst == DestinationTier(offload)
<1>1. /\ src \in {"GPU", "CPU"} /\ src \in Tier /\ dst \in Tier
      /\ k \in registered /\ ~IsPending(k) /\ Has(k, src)
  BY MayBeginFacts
<1>2. /\ replica' \in [Key -> [Tier -> Replica \cup {NoReplica}]]
      /\ OthersReplicas(k)
      /\ \A u \in Tier \ {src} : replica'[k][u] = replica[k][u]
      /\ Has(k, src)' /\ replica'[k][src].state = "COPYING"
      /\ \A u \in Tier : Kept(k, u)
  BY <1>1, StateFacts DEF SyncInv, ChunkState
<1> HIDE DEF src
<1>3. /\ gen' \in [Slot -> Nat] /\ free' \subseteq Slot
      /\ freeHead' \in [SlotTier -> Linkable \cup {NoSlot}]
      /\ nextFree' \in [Linkable -> Linkable \cup {NoSlot}]
  BY <1>1, LoseSlotTypes DEF listVars, SyncInv, Types, DirTypeOK
<1>4. gen' = gen /\ free' \subseteq free /\ \A s \in free \ free' : Lost(s)'
  <2>1. CASE UNCHANGED <<gen, free, listVars>>
    BY <2>1
  <2>2. CASE LoseSlot(dst)
    <3>1. PICK h : /\ h = freeHead[dst] /\ h # NoSlot /\ gen[h] = MaxGeneration
                   /\ dst \in SlotTier /\ free' = free \ {h} /\ gen' = gen
      BY <2>2 DEF LoseSlot, Exhausted
    <3>2. h \in Linkable
      BY <3>1 DEF SyncInv, Types
    <3>3. ASSUME h \in free, NEW j \in Key, NEW u \in Tier, Holds(j, u, h)'
          PROVE  FALSE
      <4>1. Holds(j, u, h)
        BY <1>2, <3>3 DEF Holds, Has, OthersReplicas, Kept
      <4> QED BY <3>3, <4>1, HeldSlot DEF Holds, SyncInv, ChunkInv
    <3> QED BY <3>1, <3>2, <3>3 DEF Lost, Linkable
  <2> QED BY <2>1, <2>2
<1>5. Types'
  BY <1>1, <1>2, <1>3 DEF SyncInv, Types, DirTypeOK
<1>6. Shape(k) /\ Placed(k)'
  BY <1>1, <1>2, <1>4, KeepingShape
<1>7. Frame(k)
  BY DEF Frame
<1>8. Transit(k)'
  <2>1. Moving(k, src)' /\ k \in stranded' /\ ~IsPending(k)'
    BY <1>1, <1>2 DEF Moving, IsPending
  <2> QED BY <1>1, <2>1 DEF Transit
<1>9. Bytes(k)'
  BY <1>1, <1>2 DEF Bytes, IsReady, Has, IsPending, SyncInv, ChunkInv
<1>10. StreamExact'
  BY StreamKept DEF Waits, IsPending
<1> QED BY <1>5, <1>6, <1>7, <1>8, <1>9, <1>10, StepSound DEF ChunkInv

\* The roll-back fails after it.
LEMMA BeginStrandsLate ==
    ASSUME SyncInv, NEW k \in Key, NEW offload \in BOOLEAN, MayBegin(k, offload),
           stranded' = stranded \cup {k},
           NEW s \in Next_(DestinationTier(offload)),
           TakeSlot(s), Relink(s, NoSlot),
           InTransit(k, SourceTier(offload), DestinationTier(offload), s),
           data' = [data EXCEPT ![s] = Junk],
           UNCHANGED <<registered, refs, pins, pending, stream, open, header>>
    PROVE  Sound
<1> DEFINE src == SourceTier(offload)
           dst == DestinationTier(offload)
<1>1. /\ src \in {"GPU", "CPU"} /\ dst \in {"GPU", "CPU"} /\ src # dst
      /\ src \in Tier /\ dst \in Tier
      /\ k \in registered /\ ~IsPending(k) /\ Has(k, src) /\ ~Has(k, dst)
  BY MayBeginFacts
<1>2. s \in free /\ s \in SlotsOf(dst) /\ s \in Slot
  BY <1>1, NextSlot DEF SyncInv
<1>3. /\ replica' \in [Key -> [Tier -> Replica \cup {NoReplica}]]
      /\ OthersReplicas(k)
      /\ \A t \in Tier \ {src, dst} : replica'[k][t] = replica[k][t]
      /\ Has(k, src)' /\ replica'[k][src].state = "COPYING"
      /\ replica'[k][src].slot = replica[k][src].slot
      /\ replica'[k][src].generation = replica[k][src].generation
      /\ Has(k, dst)' /\ replica'[k][dst].slot = s
      /\ replica'[k][dst].generation = gen[s] + 1
      /\ replica'[k][dst].state = DestinationState(dst)
  BY <1>1, <1>2, InTransitFacts DEF SyncInv
<1> HIDE DEF src, dst
<1>4. /\ gen' = [gen EXCEPT ![s] = @ + 1] /\ free' = free \ {s}
      /\ gen \in [Slot -> Nat] /\ data \in [Slot -> Key \cup {Junk}]
  BY DEF TakeSlot, SyncInv, Types, DirTypeOK
<1>5. \A r \in Slot \ {s} : data'[r] = data[r]
  BY <1>4
<1>6. Types'
  <2>1. DirTypeOK'
    <3>1. gen' \in [Slot -> Nat] /\ free' \subseteq Slot
      BY <1>2, <1>4 DEF SyncInv, Types, DirTypeOK
    <3>2. registered' \subseteq Key /\ refs' \in [Key -> Nat] /\ pins' \in [Key -> Nat]
      BY DEF SyncInv, Types, DirTypeOK
    <3> QED BY <1>3, <3>1, <3>2 DEF DirTypeOK
  <2>2. data' \in [Slot -> Key \cup {Junk}] /\ stranded' \subseteq Key
    BY <1>4 DEF SyncInv, Types
  <2>3. /\ freeHead' \in [SlotTier -> Linkable \cup {NoSlot}]
        /\ nextFree' \in [Linkable -> Linkable \cup {NoSlot}]
    BY <1>2, RelinkTypes DEF SyncInv
  <2> QED BY <2>1, <2>2, <2>3 DEF SyncInv, Types
<1>7. Shape(k) /\ Placed(k)'
  <2>1. \A u \in Tier \ {dst} : Kept(k, u)
    BY <1>1, <1>3 DEF Kept, Has
  <2> QED BY <1>1, <1>2, <1>3, <1>4, <2>1, TakingOneShape
<1>8. Frame(k)
  BY <1>2, <1>5 DEF Frame
<1>9. Transit(k)'
  <2>1. Moving(k, src)' /\ k \in stranded' /\ ~IsPending(k)'
    BY <1>1, <1>3 DEF Moving, IsPending
  <2> QED BY <1>1, <2>1 DEF Transit
<1>10. Bytes(k)'
  <2>1. ASSUME NEW t \in Tier, IsReady(k, t)'
        PROVE  /\ data'[replica'[k][t].slot] = k
               /\ t = "NVME" => header'[replica'[k][t].slot] \in {k, NoFile}
    <3>1. t # src /\ t # dst
      BY <1>1, <1>3, <2>1 DEF IsReady, DestinationState
    <3>2. replica'[k][t] = replica[k][t] /\ IsReady(k, t)
      BY <1>3, <2>1, <3>1 DEF IsReady, Has
    <3>3. replica[k][t].slot \in Slot \ free
      BY <3>2, HeldSlot DEF IsReady, SyncInv, ChunkInv
    <3> QED BY <1>2, <1>5, <3>2, <3>3 DEF SyncInv, ChunkInv, Bytes
  <2> QED BY <1>1, <2>1 DEF Bytes, IsPending
<1>11. StreamExact'
  BY StreamKept DEF Waits, IsPending
<1> QED BY <1>6, <1>7, <1>8, <1>9, <1>10, <1>11, StepSound DEF ChunkInv

LEMMA BeginStrandsStep ==
    ASSUME SyncInv, NEW k \in Key, NEW offload \in BOOLEAN, BeginStrands(k, offload)
    PROVE  Sound
<1> DEFINE src == SourceTier(offload)
           dst == DestinationTier(offload)
<1>1. /\ MayBegin(k, offload) /\ stranded' = stranded \cup {k}
      /\ UNCHANGED <<registered, refs, pins, pending, stream, open, header>>
  BY DEF BeginStrands
<1>2. CASE /\ replica' = [replica EXCEPT ![k][src].state = "COPYING"]
           /\ LoseSlot(dst) \/ UNCHANGED <<gen, free, listVars>>
           /\ UNCHANGED data
  BY <1>1, <1>2, BeginStrandsEarly
<1>3. CASE \E s \in Next_(dst) :
            /\ TakeSlot(s) /\ Relink(s, NoSlot)
            /\ InTransit(k, src, dst, s)
            /\ data' = [data EXCEPT ![s] = Junk]
  BY <1>1, <1>3, BeginStrandsLate
<1> QED BY <1>2, <1>3 DEF BeginStrands

\* The replicas after Settle, and what else it does.
LEMMA SettleFacts ==
    ASSUME SyncInv, NEW k \in Key, NEW src \in Tier, NEW dst \in Tier, src # dst,
           Has(k, src), Has(k, dst), NEW release \in BOOLEAN, Settle(k, src, dst, release)
    PROVE  /\ replica' \in [Key -> [Tier -> Replica \cup {NoReplica}]]
           /\ OthersReplicas(k)
           /\ \A t \in Tier \ {src, dst} : replica'[k][t] = replica[k][t]
           /\ Kept(k, dst) /\ Has(k, dst)' /\ replica'[k][dst].state = "READY"
           /\ ~release => /\ Kept(k, src) /\ replica'[k][src].state = "READY"
                          /\ UNCHANGED <<free, freeHead, nextFree, data>>
           /\ release => /\ ~Has(k, src)'
                         /\ free' = free \cup {replica[k][src].slot}
                         /\ Relink(NoSlot, replica[k][src].slot)
                         /\ data' = [data EXCEPT ![replica[k][src].slot] = Junk]
<1> DEFINE old == replica[k]
           rs == [old[src] EXCEPT !.state = "READY"]
           rd == [old[dst] EXCEPT !.state = "READY"]
           new == [old EXCEPT ![src] = IF release THEN NoReplica ELSE rs, ![dst] = rd]
<1>1. /\ replica \in [Key -> [Tier -> Replica \cup {NoReplica}]]
      /\ old \in [Tier -> Replica \cup {NoReplica}] /\ old[src] \in Replica /\ old[dst] \in Replica
  BY DEF SyncInv, Types, DirTypeOK, Has
<1>2. /\ rs \in Replica /\ rs.state = "READY"
      /\ rs.slot = old[src].slot /\ rs.generation = old[src].generation
      /\ rd \in Replica /\ rd.state = "READY"
      /\ rd.slot = old[dst].slot /\ rd.generation = old[dst].generation
  BY <1>1 DEF Replica, ChunkState
<1>3. replica' = [replica EXCEPT ![k] = new]
  <2>1. CASE release
    BY <2>1 DEF Settle
  <2>2. CASE ~release
    BY <1>1, <2>2 DEF Settle
  <2> QED BY <2>1, <2>2
<1> HIDE DEF rs, rd
<1>4. /\ new[src] = (IF release THEN NoReplica ELSE rs) /\ new[dst] = rd
      /\ \A t \in Tier \ {src, dst} : new[t] = old[t]
      /\ new \in [Tier -> Replica \cup {NoReplica}]
  BY <1>1, <1>2
<1> HIDE DEF new
<1>5. /\ replica' \in [Key -> [Tier -> Replica \cup {NoReplica}]]
      /\ replica'[k] = new /\ OthersReplicas(k)
  BY <1>1, <1>3, <1>4 DEF OthersReplicas
<1>6. Kept(k, dst) /\ Has(k, dst)' /\ replica'[k][dst].state = "READY"
  BY <1>2, <1>4, <1>5, NoReplicaIsNone DEF Kept, Has
<1>7. ~release => /\ Kept(k, src) /\ replica'[k][src].state = "READY"
                  /\ UNCHANGED <<free, freeHead, nextFree, data>>
  BY <1>2, <1>4, <1>5, NoReplicaIsNone DEF Kept, Has, Settle, listVars
<1>8. release => /\ ~Has(k, src)'
                 /\ free' = free \cup {replica[k][src].slot}
                 /\ Relink(NoSlot, replica[k][src].slot)
                 /\ data' = [data EXCEPT ![replica[k][src].slot] = Junk]
  BY <1>4, <1>5 DEF Has, Settle
<1> QED BY <1>4, <1>5, <1>6, <1>7, <1>8

LEMMA DestroyTransfersStep ==
    ASSUME SyncInv, DestroyTransfers
    PROVE  Sound
<1> USE DEF DestroyTransfers, tierVars, dirVars, listVars, storeVars
<1>1. Types'
  BY DEF SyncInv, Types, DirTypeOK, IsPending
<1>2. Exclusive' /\ Accounted'
  BY DEF SyncInv, Exclusive, Accounted, Has, Holds, Lost
<1>3. \A k \in Key : ~IsPending(k)' /\ (k \in stranded' <=> k \in stranded \/ IsPending(k))
  BY DEF IsPending
<1>4. StreamExact'
  BY <1>3 DEF StreamExact
<1>5. ASSUME NEW k \in Key PROVE ChunkInv(k)'
  <2>1. Placed(k)'
    BY DEF SyncInv, ChunkInv, Placed, Has, Valid
  <2>2. \A t \in Tier : Moving(k, t)' <=> Moving(k, t)
    BY DEF Moving, Has
  <2>3. IsPending(k) => \E t \in {"GPU", "CPU"} : Moving(k, t)
    BY PendingFacts DEF Moving, SyncInv, ChunkInv
  <2>4. {"GPU", "CPU"} \subseteq Tier
    BY DEF Tier
  <2>5. Transit(k)'
    BY <1>3, <2>2, <2>3, <2>4 DEF Transit, SyncInv, ChunkInv
  <2>6. Bytes(k)'
    BY <1>3 DEF SyncInv, ChunkInv, Bytes, IsReady, Has
  <2> QED BY <2>1, <2>5, <2>6 DEF ChunkInv
<1> QED BY <1>1, <1>2, <1>4, <1>5 DEF SyncInv, Sound

LEMMA FinishStep ==
    ASSUME SyncInv, NEW k \in Key, NEW offload \in BOOLEAN, NEW release \in BOOLEAN,
           Finish(k, offload, release)
    PROVE  Sound
<1> DEFINE src == SourceTier(offload)
           dst == DestinationTier(offload)
           s == replica[k][src].slot
<1>1. /\ IsPending(k) /\ pending[k].offload = offload /\ pending[k].done = "ok"
      /\ Settle(k, src, dst, release)
      /\ pins' = [pins EXCEPT ![k] = @ - 1]
      /\ pending' = [pending EXCEPT ![k] = NoTransfer]
      /\ UNCHANGED <<registered, refs, gen, stream, open, stranded, header>>
  BY DEF Finish, CopyDone
<1>2. /\ src \in {"GPU", "CPU"} /\ dst \in {"GPU", "CPU"} /\ src # dst
      /\ src \in Tier /\ dst \in Tier
      /\ pins[k] > 0 /\ k \notin stranded
      /\ Has(k, src) /\ Has(k, dst)
      /\ pending[k].source.slot = replica[k][src].slot
      /\ pending[k].destination.slot = replica[k][dst].slot
  BY <1>1, PendingFacts DEF SyncInv, ChunkInv
<1> HIDE DEF src, dst
<1>3. /\ replica' \in [Key -> [Tier -> Replica \cup {NoReplica}]]
      /\ OthersReplicas(k)
      /\ \A t \in Tier \ {src, dst} : replica'[k][t] = replica[k][t]
      /\ Kept(k, dst) /\ Has(k, dst)' /\ replica'[k][dst].state = "READY"
      /\ ~release => /\ Kept(k, src) /\ replica'[k][src].state = "READY"
                     /\ UNCHANGED <<free, freeHead, nextFree, data>>
      /\ release => /\ ~Has(k, src)'
                    /\ free' = free \cup {s}
                    /\ Relink(NoSlot, s)
                    /\ data' = [data EXCEPT ![s] = Junk]
  BY <1>1, <1>2, SettleFacts
<1>4. /\ s \in Slot \ free /\ s \in SlotsOf(src)
      /\ \A t \in Tier \ {src} : Has(k, t) =>
            replica[k][t].slot \in Slot \ free /\ replica[k][t].slot # s
  BY <1>2, HeldSlot, TierFacts DEF SyncInv, ChunkInv
<1>5. /\ pending \in [Key -> Transfer \cup {NoTransfer}] /\ pins \in [Key -> Nat]
      /\ data \in [Slot -> Key \cup {Junk}]
  BY DEF SyncInv, Types, DirTypeOK
<1>6. \A t \in Tier \ {src, dst} : Kept(k, t)
  BY <1>3 DEF Kept, Has
<1>7. /\ ~IsPending(k)' /\ ~Waits(k)' /\ ~Waits(k)
      /\ \A j \in Key \ {k} : pending'[j] = pending[j] /\ pins'[j] = pins[j]
      /\ \A r \in Slot \ {s} : data'[r] = data[r]
  BY <1>1, <1>3, <1>5 DEF IsPending, Waits
<1>8. Types'
  <2>1. pins' \in [Key -> Nat] /\ pending' \in [Key -> Transfer \cup {NoTransfer}]
    BY <1>1, <1>2, <1>5
  <2>2. free' \subseteq Slot /\ data' \in [Slot -> Key \cup {Junk}]
    BY <1>3, <1>4, <1>5 DEF SyncInv, Types, DirTypeOK
  <2>3. /\ freeHead' \in [SlotTier -> Linkable \cup {NoSlot}]
        /\ nextFree' \in [Linkable -> Linkable \cup {NoSlot}]
    <3>1. CASE release
      BY <1>3, <1>4, <3>1, RelinkTypes DEF SyncInv
    <3>2. CASE ~release
      BY <1>3, <3>2 DEF SyncInv, Types
    <3> QED BY <3>1, <3>2
  <2>4. DirTypeOK'
    BY <1>1, <1>3, <2>1, <2>2 DEF SyncInv, Types, DirTypeOK
  <2> QED BY <1>1, <2>1, <2>2, <2>3, <2>4 DEF SyncInv, Types
<1>9. Shape(k) /\ Placed(k)'
  <2>1. CASE release
    BY <1>1, <1>2, <1>3, <1>6, <2>1, GivingShape
  <2>2. CASE ~release
    <3>1. \A t \in Tier : Kept(k, t) /\ (Has(k, t) => k \in registered')
      BY <1>1, <1>3, <1>6, <2>2 DEF SyncInv, ChunkInv, Placed
    <3> QED BY <1>1, <1>3, <2>2, <3>1, KeepingShape
  <2> QED BY <2>1, <2>2
<1>10. Frame(k)
  <2>1. \A r \in Slot \ free : (\A t \in Tier : ~Holds(k, t, r)) => r # s
    BY <1>2 DEF Holds
  <2> QED BY <1>1, <1>7, <2>1 DEF Frame
<1>11. Transit(k)'
  <2>1. \A t \in Tier : ~Moving(k, t)'
    <3>1. ASSUME NEW t \in Tier \ {src, dst} PROVE ~Moving(k, t)'
      <4>1. ~Moving(k, t)
        BY <1>2, <3>1 DEF SyncInv, ChunkInv, Transit
      <4> QED BY <1>3, <4>1 DEF Moving, Has
    <3>2. ~Moving(k, dst)'
      BY <1>3 DEF Moving
    <3>3. ~Moving(k, src)'
      BY <1>3 DEF Moving
    <3> QED BY <3>1, <3>2, <3>3
  <2> QED BY <1>1, <1>2, <1>7, <2>1 DEF Transit
<1>12. Bytes(k)'
  <2>1. ASSUME NEW t \in Tier, IsReady(k, t)'
        PROVE  /\ data'[replica'[k][t].slot] = k
               /\ t = "NVME" => header'[replica'[k][t].slot] \in {k, NoFile}
    <3>1. CASE t = src
      BY <1>1, <1>2, <1>3, <2>1, <3>1 DEF IsReady, Kept, SyncInv, ChunkInv, Bytes
    <3>2. CASE t = dst
      BY <1>1, <1>2, <1>3, <1>4, <1>7, <3>2 DEF Kept, SyncInv, ChunkInv, Bytes
    <3>3. CASE t \notin {src, dst}
      <4>1. replica'[k][t] = replica[k][t] /\ IsReady(k, t)
        BY <1>3, <2>1, <3>3 DEF IsReady, Has
      <4> QED BY <1>1, <1>4, <1>7, <3>3, <4>1 DEF IsReady, SyncInv, ChunkInv, Bytes
    <3> QED BY <3>1, <3>2, <3>3
  <2> QED BY <1>7, <2>1 DEF Bytes
<1>13. StreamExact'
  <2>1. \A j \in Key : Waits(j)' <=> Waits(j)
    BY <1>7 DEF Waits, IsPending
  <2> QED BY <1>1, <2>1, StreamKept
<1> QED BY <1>8, <1>9, <1>10, <1>11, <1>12, <1>13, StepSound DEF ChunkInv

LEMMA DeviceCopiesStep ==
    ASSUME SyncInv, DeviceCopies, NEW k \in Key, k = Head(stream)
    PROVE  Sound
<1>1. /\ stream \in Seq(Key) /\ stream # <<>>
      /\ Len(stream) \in Nat /\ 1 \in 1..Len(stream) /\ k = stream[1]
      /\ Tail(stream) \in Seq(Key) /\ Len(Tail(stream)) = Len(stream) - 1
      /\ \A i \in 1..Len(stream) - 1 : Tail(stream)[i] = stream[i + 1]
  BY HeadTailProperties, LenProperties, EmptySeq DEF DeviceCopies, SyncInv, Types
<1>2. IsPending(k) /\ pending[k].done = "pending"
  BY <1>1 DEF SyncInv, StreamExact
<1>3. PICK src, dst, a, b :
        /\ src = SourceTier(pending[k].offload) /\ dst = DestinationTier(pending[k].offload)
        /\ a = replica[k][src].slot /\ b = replica[k][dst].slot
  OBVIOUS
<1>4. /\ src \in {"GPU", "CPU"} /\ dst \in {"GPU", "CPU"} /\ src # dst
      /\ src \in Tier /\ dst \in Tier /\ Has(k, src) /\ Has(k, dst)
      /\ replica[k][dst].state \in {"COPYING", "LOADING"}
      /\ pending[k].source.slot = a /\ pending[k].destination.slot = b
  BY <1>2, <1>3, PendingFacts DEF SyncInv, ChunkInv, DestinationState
<1>5. /\ a \in Slot \ free /\ b \in Slot \ free /\ data[a] = k
      /\ \A t \in Tier \ {dst} : Has(k, t) => replica[k][t].slot \in Slot \ {b}
  <2>1. Types /\ Placed(k) /\ data[pending[k].source.slot] = k
    BY <1>2 DEF SyncInv, ChunkInv, Bytes
  <2>2. \A t \in Tier : Has(k, t) =>
          replica[k][t].slot \in Slot \ free /\ replica[k][t].slot \in SlotsOf(t)
    BY <2>1, HeldSlot
  <2>3. b \in Slot /\ b \in SlotsOf(dst)
    BY <1>3, <1>4, <2>2
  <2>4. \A t \in Tier \ {dst} : Has(k, t) => replica[k][t].slot \in Slot \ {b}
    BY <1>4, <2>2, <2>3, TierFacts
  <2> QED BY <1>3, <1>4, <2>1, <2>2, <2>4
<1>6. PICK how \in {"ok", "error"} :
        /\ pending' = [pending EXCEPT ![k].done = how]
        /\ data' = IF how = "ok" THEN [data EXCEPT ![b] = k] ELSE data
  <2>1. /\ \/ /\ pending' = [pending EXCEPT ![k].done = "ok"]
              /\ data' = [data EXCEPT ![pending[k].destination.slot] =
                                data[pending[k].source.slot]]
           \/ /\ pending' = [pending EXCEPT ![k].done = "error"]
              /\ data' = data
    BY DEF DeviceCopies
  <2>2. CASE data' = data /\ pending' = [pending EXCEPT ![k].done = "error"]
    BY <2>2
  <2>3. CASE /\ pending' = [pending EXCEPT ![k].done = "ok"]
             /\ data' = [data EXCEPT ![pending[k].destination.slot] =
                                data[pending[k].source.slot]]
    <3>1. data' = [data EXCEPT ![b] = k]
      BY <1>4, <1>5, <2>3
    <3> QED BY <2>3, <3>1
  <2> QED BY <2>1, <2>2, <2>3
<1>7. /\ stream' = Tail(stream)
      /\ UNCHANGED <<registered, replica, refs, pins, gen, free, freeHead, nextFree,
                     open, stranded, header>>
  BY DEF DeviceCopies, tierVars, dirVars, listVars
<1>8. /\ pending \in [Key -> Transfer \cup {NoTransfer}] /\ data \in [Slot -> Key \cup {Junk}]
      /\ pending[k] \in Transfer
  BY <1>2 DEF SyncInv, Types, IsPending
<1>9. /\ pending'[k] \in Transfer /\ IsPending(k)'
      /\ pending'[k].offload = pending[k].offload
      /\ pending'[k].source = pending[k].source
      /\ pending'[k].destination = pending[k].destination
      /\ pending'[k].done = how
      /\ \A j \in Key \ {k} : pending'[j] = pending[j]
  <2>1. pending' = [pending EXCEPT ![k] = [pending[k] EXCEPT !.done = how]]
    BY <1>6
  <2>2. /\ [pending[k] EXCEPT !.done = how] \in Transfer
        /\ [pending[k] EXCEPT !.done = how].offload = pending[k].offload
        /\ [pending[k] EXCEPT !.done = how].source = pending[k].source
        /\ [pending[k] EXCEPT !.done = how].destination = pending[k].destination
        /\ [pending[k] EXCEPT !.done = how].done = how
    BY <1>6, <1>8 DEF Transfer
  <2>3. /\ pending'[k] = [pending[k] EXCEPT !.done = how]
        /\ \A j \in Key \ {k} : pending'[j] = pending[j]
    BY <1>8, <2>1
  <2>4. IsPending(k)'
    BY <2>2, <2>3, TransferConstants DEF IsPending
  <2> QED BY <2>2, <2>3, <2>4
<1>10. /\ \A r \in Slot \ {b} : data'[r] = data[r]
       /\ how = "ok" => data'[b] = k
  BY <1>5, <1>6, <1>8
<1>11. Types'
  <2>1. pending' \in [Key -> Transfer \cup {NoTransfer}]
    BY <1>6, <1>8, <1>9
  <2>2. data' \in [Slot -> Key \cup {Junk}]
    BY <1>6, <1>8
  <2> QED BY <1>1, <1>7, <2>1, <2>2 DEF SyncInv, Types, DirTypeOK
<1>12. Shape(k) /\ Placed(k)'
  <2>1. \A t \in Tier : Kept(k, t) /\ (Has(k, t) => k \in registered')
    BY <1>7 DEF Kept, Has, SyncInv, ChunkInv, Placed
  <2> QED BY <1>7, <2>1, KeepingShape DEF OthersReplicas
<1>13. Frame(k)
  <2>1. \A r \in Slot \ free : (\A t \in Tier : ~Holds(k, t, r)) => r # b
    BY <1>3, <1>4 DEF Holds
  <2> QED BY <1>7, <1>9, <1>10, <2>1 DEF Frame
<1>14. Transit(k)'
  <2>1. Unmodified(k)' <=> Unmodified(k)
    BY <1>7, <1>9 DEF Unmodified, Has, LocationOf
  <2>2. \A t \in Tier : Moving(k, t)' <=> Moving(k, t)
    BY <1>7 DEF Moving, Has
  <2>3. {"GPU", "CPU"} \subseteq Tier
    BY DEF Tier
  <2>4. /\ pins'[k] > 0 /\ k \notin stranded' /\ Unmodified(k)'
        /\ replica'[k][SourceTier(pending'[k].offload)].state = "COPYING"
        /\ replica'[k][DestinationTier(pending'[k].offload)].state
             = DestinationState(DestinationTier(pending'[k].offload))
    BY <1>2, <1>7, <1>9, <2>1, PendingFacts DEF SyncInv, ChunkInv, Transit
  <2> QED BY <1>2, <1>7, <1>9, <2>2, <2>3, <2>4 DEF Transit, SyncInv, ChunkInv
<1>15. Bytes(k)'
  <2>1. ASSUME NEW t \in Tier, IsReady(k, t)'
        PROVE  /\ data'[replica'[k][t].slot] = k
               /\ t = "NVME" => header'[replica'[k][t].slot] \in {k, NoFile}
    <3>1. t # dst /\ IsReady(k, t)
      BY <1>4, <1>7, <2>1 DEF IsReady, Has
    <3>2. replica[k][t].slot \in Slot \ {b}
      BY <1>5, <3>1 DEF IsReady
    <3> QED BY <1>7, <1>10, <3>1, <3>2 DEF SyncInv, ChunkInv, Bytes
  <2>2. a # b
    BY <1>3, <1>4, <1>5
  <2>3. /\ data'[pending'[k].source.slot] = k
        /\ pending'[k].done = "ok" => data'[pending'[k].destination.slot] = k
    BY <1>4, <1>5, <1>9, <1>10, <2>2
  <2> QED BY <2>1, <2>3 DEF Bytes
<1>16. StreamExact'
  <2>1. /\ Len(stream') = Len(stream) - 1
        /\ \A i \in 1..Len(stream') :
              i + 1 \in 1..Len(stream) /\ stream'[i] = stream[i + 1]
              /\ stream[i + 1] \in Key \ {k}
    <3>1. \A i \in 1..Len(stream) : stream[i] \in Key
      BY <1>1
    <3>2. \A i \in 1..Len(stream) - 1 : i + 1 \in 1..Len(stream) /\ i + 1 # 1
      BY <1>1
    <3>3. \A i \in 1..Len(stream) - 1 : stream[i + 1] # k
      BY <1>1, <3>2 DEF SyncInv, StreamExact
    <3> QED BY <1>1, <1>7, <3>1, <3>2, <3>3
  <2>2. \A i \in 1..Len(stream') :
          (IsPending(stream[i]) /\ pending[stream[i]].done = "pending")'
    BY <1>9, <2>1 DEF SyncInv, StreamExact, IsPending
  <2>3. \A i, j \in 1..Len(stream') : stream'[i] = stream'[j] => i = j
    <3> SUFFICES ASSUME NEW i \in 1..Len(stream'), NEW j \in 1..Len(stream'),
                        stream'[i] = stream'[j]
                 PROVE  i = j
      OBVIOUS
    <3>1. i + 1 = j + 1
      BY <2>1 DEF SyncInv, StreamExact
    <3> QED BY <1>1, <2>1, <3>1
  <2>4. \A j \in Key : (IsPending(j) /\ pending[j].done = "pending")' =>
          \E i \in 1..Len(stream') : stream'[i] = j
    <3> SUFFICES ASSUME NEW j \in Key, IsPending(j)', pending'[j].done = "pending"
                 PROVE  \E i \in 1..Len(stream') : stream'[i] = j
      OBVIOUS
    <3>1. j # k
      BY <1>9
    <3>2. PICK i \in 1..Len(stream) : stream[i] = j
      BY <1>9, <3>1 DEF IsPending, SyncInv, StreamExact
    <3>3. i - 1 \in 1..Len(stream') /\ (i - 1) + 1 = i
      BY <1>1, <2>1, <3>1, <3>2
    <3> QED BY <2>1, <3>2, <3>3
  <2> QED BY <2>2, <2>3, <2>4 DEF StreamExact
<1> QED BY <1>11, <1>12, <1>13, <1>14, <1>15, <1>16, StepSound DEF ChunkInv

-----------------------------------------------------------------------------
(* NvmeTransfer.                                                           *)

\* A copy of NvmeTransfer: slot s of tier dst gets the bytes of slot a, which
\* the chunk keeps or gives up.
MovesReplica(k, src, dst, s, release) ==
    replica' = [replica EXCEPT ![k] =
        [@ EXCEPT ![dst] = FreshReplica(s, "READY"),
                  ![src] = IF release THEN NoReplica ELSE replica[k][src]]]

MovesSlots(s, a, release) ==
    /\ gen' = [gen EXCEPT ![s] = @ + 1]
    /\ free' = (free \ {s}) \cup (IF release THEN {a} ELSE {})
    /\ Relink(s, IF release THEN a ELSE NoSlot)
    /\ data' = [data EXCEPT ![s] = data[a], ![a] = IF release THEN Junk ELSE @]

LEMMA MoveFacts ==
    ASSUME SyncInv, NEW k \in Key, NEW src \in Tier, NEW dst \in Tier, src # dst,
           NEW s \in Slot, NEW release \in BOOLEAN, Has(k, src),
           MovesReplica(k, src, dst, s, release)
    PROVE  /\ replica' \in [Key -> [Tier -> Replica \cup {NoReplica}]]
           /\ OthersReplicas(k)
           /\ \A t \in Tier \ {src, dst} : replica'[k][t] = replica[k][t]
           /\ Has(k, dst)' /\ replica'[k][dst].slot = s
           /\ replica'[k][dst].generation = gen[s] + 1
           /\ replica'[k][dst].state = "READY"
           /\ ~release => replica'[k][src] = replica[k][src]
           /\ release => ~Has(k, src)'
<1> DEFINE old == replica[k]
           new == [old EXCEPT ![dst] = FreshReplica(s, "READY"),
                              ![src] = IF release THEN NoReplica ELSE old[src]]
<1>1. /\ replica \in [Key -> [Tier -> Replica \cup {NoReplica}]] /\ gen \in [Slot -> Nat]
      /\ old \in [Tier -> Replica \cup {NoReplica}] /\ old[src] \in Replica
  BY DEF SyncInv, Types, DirTypeOK, Has
<1>2. /\ FreshReplica(s, "READY") \in Replica
      /\ FreshReplica(s, "READY").slot = s
      /\ FreshReplica(s, "READY").generation = gen[s] + 1
      /\ FreshReplica(s, "READY").state = "READY"
  BY <1>1 DEF FreshReplica, Replica, ChunkState
<1>3. replica' = [replica EXCEPT ![k] = new]
  BY DEF MovesReplica
<1>4. /\ new[src] = (IF release THEN NoReplica ELSE old[src])
      /\ new[dst] = FreshReplica(s, "READY")
      /\ \A t \in Tier \ {src, dst} : new[t] = old[t]
      /\ new \in [Tier -> Replica \cup {NoReplica}]
  BY <1>1, <1>2
<1> HIDE DEF new
<1>5. /\ replica' \in [Key -> [Tier -> Replica \cup {NoReplica}]]
      /\ replica'[k] = new /\ OthersReplicas(k)
  BY <1>1, <1>3, <1>4 DEF OthersReplicas
<1> QED BY <1>2, <1>4, <1>5, NoReplicaIsNone DEF Has

\* Offload and onload at once.
LEMMA MoveStep ==
    ASSUME SyncInv, NEW k \in Key,
           NEW src \in {"CPU", "NVME"}, NEW dst \in {"CPU", "NVME"}, src # dst,
           Copyable(k, src, dst), NEW s \in Next_(dst), NEW release \in BOOLEAN,
           NEW a, a = replica[k][src].slot,
           MovesReplica(k, src, dst, s, release), MovesSlots(s, a, release),
           header' \in [NvmeSlot -> Key \cup {NoFile}],
           \A r \in NvmeSlot \ {s, a} : header'[r] = header[r],
           dst = "NVME" => header'[s] = k,
           src = "NVME" /\ ~release => header'[a] = header[a],
           UNCHANGED <<registered, refs, pins, xferVars>>
    PROVE  Sound
<1>1. /\ src \in Tier /\ dst \in Tier /\ k \in registered
      /\ IsReady(k, src) /\ Has(k, src) /\ ~Has(k, dst)
  BY DEF Copyable, IsReady, Tier
<1>2. /\ s \in free /\ s \in SlotsOf(dst) /\ s \in Slot
      /\ UNCHANGED <<pending, stream, stranded>>
  BY <1>1, NextSlot DEF SyncInv, xferVars
<1>3. /\ a \in Slot \ free /\ a \in SlotsOf(src) /\ a # s
      /\ \A t \in Tier \ {src} : Has(k, t) => replica[k][t].slot \in Slot \ ({a} \cup free)
  BY <1>1, <1>2, HeldSlot, TierFacts DEF SyncInv, ChunkInv
<1>4. /\ replica' \in [Key -> [Tier -> Replica \cup {NoReplica}]]
      /\ OthersReplicas(k)
      /\ \A t \in Tier \ {src, dst} : replica'[k][t] = replica[k][t]
      /\ Has(k, dst)' /\ replica'[k][dst].slot = s
      /\ replica'[k][dst].generation = gen[s] + 1
      /\ replica'[k][dst].state = "READY"
      /\ ~release => replica'[k][src] = replica[k][src]
      /\ release => ~Has(k, src)'
  BY <1>1, <1>2, MoveFacts
<1>5. /\ gen \in [Slot -> Nat] /\ data \in [Slot -> Key \cup {Junk}] /\ data[a] = k
      /\ src = "NVME" => header[a] \in {k, NoFile}
  BY <1>1 DEF SyncInv, Types, DirTypeOK, ChunkInv, Bytes
<1>6. /\ data'[s] = k
      /\ ~release => data'[a] = k
      /\ \A r \in Slot \ {s, a} : data'[r] = data[r]
      /\ data' \in [Slot -> Key \cup {Junk}]
      /\ gen' = [gen EXCEPT ![s] = @ + 1] /\ gen' \in [Slot -> Nat]
      /\ free' = (free \ {s}) \cup (IF release THEN {a} ELSE {})
      /\ Relink(s, IF release THEN a ELSE NoSlot)
  BY <1>2, <1>3, <1>5 DEF MovesSlots
<1>7. ~IsPending(k) /\ (k \in stranded => Moving(k, "GPU"))
  <2>1. ~Moving(k, "CPU")
    BY <1>1 DEF Moving, IsReady
  <2>2. ~IsPending(k)
    <3>1. ASSUME IsPending(k) PROVE Moving(k, "CPU")
      <4>1. "CPU" = SourceTier(pending[k].offload) \/ "CPU" = DestinationTier(pending[k].offload)
        BY DEF SourceTier, DestinationTier
      <4> QED BY <3>1, <4>1, PendingFacts DEF Moving, DestinationState, SyncInv, ChunkInv
    <3> QED BY <2>1, <3>1
  <2> QED BY <2>1, <2>2 DEF SyncInv, ChunkInv, Transit
<1>8. Types'
  <2>1. gen' \in [Slot -> Nat] /\ free' \subseteq Slot /\ data' \in [Slot -> Key \cup {Junk}]
    BY <1>3, <1>6 DEF SyncInv, Types, DirTypeOK
  <2>2. registered' \subseteq Key /\ refs' \in [Key -> Nat] /\ pins' \in [Key -> Nat]
    BY DEF SyncInv, Types, DirTypeOK
  <2>3. /\ freeHead' \in [SlotTier -> Linkable \cup {NoSlot}]
        /\ nextFree' \in [Linkable -> Linkable \cup {NoSlot}]
    <3>1. (IF release THEN a ELSE NoSlot) \in Slot \cup {NoSlot}
      BY <1>3
    <3> QED BY <1>2, <1>6, <3>1, RelinkTypes DEF SyncInv
  <2>4. DirTypeOK'
    BY <1>4, <2>1, <2>2 DEF DirTypeOK
  <2> QED BY <1>2, <2>1, <2>3, <2>4 DEF SyncInv, Types
<1>9. Shape(k) /\ Placed(k)'
  <2>1. PICK G : G = IF release THEN {src} ELSE {}
    OBVIOUS
  <2>2. GivesOnly(k, dst, s, G)
    <3>1. \A u \in Tier \ {src, dst} : Kept(k, u)
      BY <1>4 DEF Kept, Has
    <3>2. CASE release
      <4>1. G = {src} /\ {replica[k][u].slot : u \in G} = {a}
        BY <2>1, <3>2
      <4> QED BY <1>1, <1>4, <1>6, <3>1, <3>2, <4>1 DEF GivesOnly
    <3>3. CASE ~release
      <4>1. Kept(k, src)
        BY <1>4, <3>3 DEF Kept, Has
      <4>2. G = {} /\ {replica[k][u].slot : u \in G} = {}
        BY <2>1, <3>3
      <4> QED BY <1>1, <1>6, <3>1, <3>3, <4>1, <4>2 DEF GivesOnly
    <3> QED BY <3>2, <3>3
  <2> QED BY <1>1, <1>2, <1>4, <1>6, <2>2, TakingShape
<1>10. Frame(k)
  <2>1. \A r \in Slot \ free : (\A t \in Tier : ~Holds(k, t, r)) => r # s /\ r # a
    BY <1>1, <1>2 DEF Holds
  <2> QED BY <1>2, <1>6, <2>1 DEF Frame
<1>11. Transit(k)'
  <2>1. ~IsPending(k)'
    BY <1>2, <1>7 DEF IsPending
  <2>2. Moving(k, "GPU")' <=> Moving(k, "GPU")
    BY <1>4 DEF Moving, Has, Tier
  <2>3. ~Moving(k, "CPU")' /\ ~Moving(k, "NVME")'
    <3>1. ~Moving(k, dst)'
      BY <1>4 DEF Moving
    <3>2. ~Moving(k, src)'
      BY <1>1, <1>4 DEF Moving, IsReady, Has
    <3> QED BY <3>1, <3>2
  <2>4. \A t \in Tier : Moving(k, t)' => k \in stranded'
    BY <1>2, <1>7, <2>2, <2>3 DEF Tier, SyncInv, ChunkInv, Transit
  <2> QED BY <1>2, <1>7, <2>1, <2>2, <2>4 DEF Transit
<1>12. Bytes(k)'
  <2>1. ASSUME NEW t \in Tier, IsReady(k, t)'
        PROVE  /\ data'[replica'[k][t].slot] = k
               /\ t = "NVME" => header'[replica'[k][t].slot] \in {k, NoFile}
    <3>1. CASE t = dst
      BY <1>4, <1>6, <3>1
    <3>2. CASE t = src
      <4>1. ~release /\ replica'[k][src] = replica[k][src]
        BY <1>4, <2>1, <3>2 DEF IsReady
      <4> QED BY <1>5, <1>6, <3>2, <4>1
    <3>3. CASE t \notin {src, dst}
      <4>1. replica'[k][t] = replica[k][t] /\ IsReady(k, t)
        BY <1>4, <2>1, <3>3 DEF IsReady, Has
      <4>2. t # "NVME" /\ replica[k][t].slot \in Slot \ {s, a}
        BY <1>2, <1>3, <3>3, <4>1 DEF IsReady
      <4> QED BY <1>6, <4>1, <4>2 DEF SyncInv, ChunkInv, Bytes
    <3> QED BY <3>1, <3>2, <3>3
  <2> QED BY <1>2, <1>7, <2>1 DEF Bytes, IsPending
<1>13. StreamExact'
  BY <1>2, StreamKept DEF Waits, IsPending
<1> QED BY <1>8, <1>9, <1>10, <1>11, <1>12, <1>13, StepSound DEF ChunkInv

LEMMA NvmeOffloadStep ==
    ASSUME SyncInv, NEW k \in Key, NEW s \in Slot, NEW release \in BOOLEAN,
           NvmeOffload(k, s, release)
    PROVE  Sound
<1>1. PICK a : a = replica[k]["CPU"].slot
  OBVIOUS
<1>2. /\ Copyable(k, "CPU", "NVME") /\ s \in Next_("NVME")
      /\ MovesReplica(k, "CPU", "NVME", s, release)
      /\ MovesSlots(s, a, release)
      /\ header' = [header EXCEPT ![s] = k]
      /\ UNCHANGED <<registered, refs, pins, xferVars>>
  BY <1>1 DEF NvmeOffload, MovesReplica, MovesSlots
<1>3. s \in NvmeSlot /\ header \in [NvmeSlot -> Key \cup {NoFile}]
  BY <1>2, NextSlot, TierFacts DEF SyncInv, Types, Tier
<1>4. /\ header' \in [NvmeSlot -> Key \cup {NoFile}]
      /\ \A r \in NvmeSlot \ {s, a} : header'[r] = header[r]
      /\ header'[s] = k
  BY <1>2, <1>3
<1>5. "CPU" \in {"CPU", "NVME"} /\ "NVME" \in {"CPU", "NVME"} /\ "CPU" # "NVME"
  OBVIOUS
<1> QED BY <1>1, <1>2, <1>4, <1>5, MoveStep

LEMMA NvmeOnloadStep ==
    ASSUME SyncInv, NEW k \in Key, NEW s \in Slot, NEW release \in BOOLEAN,
           NvmeOnload(k, s, release)
    PROVE  Sound
<1>1. PICK a : a = replica[k]["NVME"].slot
  OBVIOUS
<1>2. /\ Copyable(k, "NVME", "CPU") /\ s \in Next_("CPU")
      /\ MovesReplica(k, "NVME", "CPU", s, release)
      /\ MovesSlots(s, a, release)
      /\ header' = IF release THEN [header EXCEPT ![a] = NoFile] ELSE header
      /\ UNCHANGED <<registered, refs, pins, xferVars>>
  BY <1>1 DEF NvmeOnload, MovesReplica, MovesSlots
<1>3. header \in [NvmeSlot -> Key \cup {NoFile}]
  BY DEF SyncInv, Types
<1>4. /\ header' \in [NvmeSlot -> Key \cup {NoFile}]
      /\ \A r \in NvmeSlot \ {s, a} : header'[r] = header[r]
      /\ ~release => header'[a] = header[a]
  BY <1>2, <1>3
<1>5. "CPU" \in {"CPU", "NVME"} /\ "NVME" \in {"CPU", "NVME"} /\ "CPU" # "NVME"
  OBVIOUS
<1> QED BY <1>1, <1>2, <1>4, <1>5, MoveStep

LEMMA NvmeFailsStep ==
    ASSUME SyncInv, NEW k \in Key, NEW s \in Slot,
           NEW src \in {"CPU", "NVME"}, NEW dst \in {"CPU", "NVME"}, NvmeFails(k, src, dst, s)
    PROVE  Sound
<1>1. dst \in Tier /\ s \in Next_(dst)
  BY DEF NvmeFails, PlacedInVain, Tier
<1>2. s \in free
  BY <1>1, NextSlot DEF SyncInv
<1>3. /\ gen' = [gen EXCEPT ![s] = @ + 1]
      /\ data' \in {data, [data EXCEPT ![s] = Junk]}
      /\ UNCHANGED <<registered, replica, refs, pins, free, listVars, xferVars, header>>
  BY DEF NvmeFails, PlacedInVain, storeVars
<1> QED BY <1>2, <1>3, InVain

LEMMA NvmeLosesSlotStep ==
    ASSUME SyncInv, NEW k \in Key, NEW src, NEW dst \in {"CPU", "NVME"},
           NvmeLosesSlot(k, src, dst)
    PROVE  Sound
BY OnlyLoses DEF NvmeLosesSlot, Tier

-----------------------------------------------------------------------------
(* The caller.                                                             *)

LEMMA CallerLosesSlotStep ==
    ASSUME SyncInv, NEW k \in Key, NEW t \in Tier, CallerLosesSlot(k, t)
    PROVE  Sound
BY OnlyLoses DEF CallerLosesSlot, CallerFrame

\* A replica that is READY or given up is in no transfer.
LEMMA AtRest ==
    ASSUME SyncInv, NEW k \in Key, NEW t \in Tier, Has(k, t),
           replica[k][t].state \in {"READY", "ERROR"}
    PROVE  /\ ~Moving(k, t)
           /\ IsPending(k) => t # SourceTier(pending[k].offload)
                              /\ t # DestinationTier(pending[k].offload)
<1>1. ~Moving(k, t)
  BY DEF Moving
<1>2. ASSUME IsPending(k)
      PROVE  t # SourceTier(pending[k].offload) /\ t # DestinationTier(pending[k].offload)
  BY <1>2, PendingFacts DEF SyncInv, ChunkInv, DestinationState
<1> QED BY <1>1, <1>2

\* The transfers of the chunk do not notice what happens to its replica in
\* another tier.
LEMMA OtherTierTransit ==
    ASSUME SyncInv, NEW k \in Key, NEW t \in Tier,
           ~Moving(k, t), ~Moving(k, t)',
           IsPending(k) => t # SourceTier(pending[k].offload)
                           /\ t # DestinationTier(pending[k].offload),
           \A u \in Tier \ {t} : replica'[k][u] = replica[k][u],
           UNCHANGED <<pins, pending, stranded>>
    PROVE  Transit(k)'
<1>1. \A u \in Tier : Moving(k, u)' <=> Moving(k, u)
  BY DEF Moving, Has
<1>2. IsPending(k)' <=> IsPending(k)
  BY DEF IsPending
<1>3. ASSUME IsPending(k)
      PROVE  LET src == SourceTier(pending'[k].offload)
                 dst == DestinationTier(pending'[k].offload) IN
             /\ pins'[k] > 0 /\ k \notin stranded' /\ Unmodified(k)'
             /\ replica'[k][src].state = "COPYING"
             /\ replica'[k][dst].state = DestinationState(dst)
  <2>1. PICK src \in Tier \ {t}, dst \in Tier \ {t} :
          src = SourceTier(pending[k].offload) /\ dst = DestinationTier(pending[k].offload)
    BY <1>3 DEF SourceTier, DestinationTier, Tier
  <2>2. replica'[k][src] = replica[k][src] /\ replica'[k][dst] = replica[k][dst]
    OBVIOUS
  <2>3. /\ pins[k] > 0 /\ k \notin stranded /\ Has(k, src) /\ Has(k, dst)
        /\ replica[k][src].state = "COPYING"
        /\ replica[k][dst].state = DestinationState(dst)
        /\ pending[k].source = LocationOf(k, src)
        /\ pending[k].destination = LocationOf(k, dst)
    BY <1>3, <2>1, PendingFacts DEF SyncInv, ChunkInv
  <2>4. Unmodified(k)'
    BY <2>1, <2>2, <2>3 DEF Unmodified, Has, LocationOf
  <2> QED BY <2>1, <2>2, <2>3, <2>4
<1>4. {"GPU", "CPU"} \subseteq Tier
  BY DEF Tier
<1> QED BY <1>1, <1>2, <1>3, <1>4 DEF Transit, SyncInv, ChunkInv

LEMMA CallerCondemnsStep ==
    ASSUME SyncInv, NEW k \in Key, NEW t \in Tier, CallerCondemns(k, t)
    PROVE  Sound
<1>1. /\ IsReady(k, t) /\ Has(k, t) /\ k \in registered
      /\ replica' = [replica EXCEPT ![k][t].state = "ERROR"]
      /\ UNCHANGED <<registered, refs, pins, gen, free, freeHead, nextFree>>
      /\ UNCHANGED <<pending, stream, open, stranded, data, header>>
  BY DEF CallerCondemns, SetState, IsReady, CallerFrame, xferVars, listVars, storeVars
<1>2. /\ replica' \in [Key -> [Tier -> Replica \cup {NoReplica}]]
      /\ OthersReplicas(k)
      /\ \A u \in Tier \ {t} : replica'[k][u] = replica[k][u]
      /\ Has(k, t)' /\ replica'[k][t].state = "ERROR"
      /\ \A u \in Tier : Kept(k, u)
  BY <1>1, StateFacts DEF SyncInv, ChunkState
<1>3. Types'
  BY <1>1, <1>2 DEF SyncInv, Types, DirTypeOK
<1>4. Shape(k) /\ Placed(k)'
  BY <1>1, <1>2, KeepingShape
<1>5. Frame(k)
  BY <1>1 DEF Frame
<1>6. Transit(k)'
  <2>1. ~Moving(k, t)'
    BY <1>2 DEF Moving
  <2> QED BY <1>1, <1>2, <2>1, AtRest, OtherTierTransit DEF IsReady
<1>7. Bytes(k)'
  <2>1. \A u \in Tier : IsReady(k, u)' => IsReady(k, u) /\ replica'[k][u] = replica[k][u]
    BY <1>2 DEF IsReady, Has
  <2> QED BY <1>1, <2>1 DEF Bytes, IsPending, SyncInv, ChunkInv
<1>8. StreamExact'
  BY <1>1, StreamKept DEF Waits, IsPending
<1> QED BY <1>3, <1>4, <1>5, <1>6, <1>7, <1>8, StepSound DEF ChunkInv

LEMMA CallerRemovesStep ==
    ASSUME SyncInv, NEW k \in Key, NEW t \in Tier, CallerRemoves(k, t)
    PROVE  Sound
<1>1. PICK s : s = replica[k][t].slot
  OBVIOUS
<1>2. /\ Has(k, t) /\ replica[k][t].state \in {"READY", "ERROR"}
      /\ free' = free \cup {s}
      /\ replica' = [replica EXCEPT ![k][t] = NoReplica]
      /\ Relink(NoSlot, s)
      /\ header' = header \/ (t = "NVME" /\ header' = [header EXCEPT ![s] = NoFile])
      /\ data' = [data EXCEPT ![s] = Junk]
      /\ UNCHANGED <<registered, refs, pins, gen>>
      /\ UNCHANGED <<pending, stream, open, stranded>>
  BY <1>1 DEF CallerRemoves, RemoveLinked, Remove, Removable, CallerFrame, xferVars
<1>3. /\ s \in Slot \ free /\ s \in SlotsOf(t)
      /\ \A u \in Tier \ {t} : Has(k, u) => replica[k][u].slot \in Slot \ {s}
  BY <1>1, <1>2, HeldSlot, TierFacts DEF SyncInv, ChunkInv
<1>4. /\ replica \in [Key -> [Tier -> Replica \cup {NoReplica}]]
      /\ data \in [Slot -> Key \cup {Junk}] /\ header \in [NvmeSlot -> Key \cup {NoFile}]
  BY DEF SyncInv, Types, DirTypeOK
<1>5. /\ replica' \in [Key -> [Tier -> Replica \cup {NoReplica}]]
      /\ OthersReplicas(k)
      /\ \A u \in Tier \ {t} : replica'[k][u] = replica[k][u]
      /\ ~Has(k, t)'
  BY <1>2, <1>4 DEF OthersReplicas, Has
<1>6. /\ data' \in [Slot -> Key \cup {Junk}] /\ header' \in [NvmeSlot -> Key \cup {NoFile}]
      /\ \A r \in Slot \ {s} : data'[r] = data[r]
      /\ \A r \in NvmeSlot \ {s} : header'[r] = header[r]
      /\ t # "NVME" => header' = header
  BY <1>2, <1>4
<1>7. Types'
  <2>1. /\ freeHead' \in [SlotTier -> Linkable \cup {NoSlot}]
        /\ nextFree' \in [Linkable -> Linkable \cup {NoSlot}]
    BY <1>2, <1>3, RelinkTypes DEF SyncInv
  <2>2. free' \subseteq Slot
    BY <1>2, <1>3 DEF SyncInv, Types, DirTypeOK
  <2> QED BY <1>2, <1>5, <1>6, <2>1, <2>2 DEF SyncInv, Types, DirTypeOK
<1>8. \A u \in Tier \ {t} : Kept(k, u)
  BY <1>5 DEF Kept, Has
<1>9. Shape(k) /\ Placed(k)'
  BY <1>1, <1>2, <1>5, <1>8, GivingShape
<1>10. Frame(k)
  <2>1. \A r \in Slot \ free : (\A u \in Tier : ~Holds(k, u, r)) => r # s
    BY <1>1, <1>2 DEF Holds
  <2> QED BY <1>2, <1>6, <2>1 DEF Frame
<1>11. /\ ~Moving(k, t)
       /\ IsPending(k) => t # SourceTier(pending[k].offload)
                          /\ t # DestinationTier(pending[k].offload)
  BY <1>2, AtRest
<1>12. Transit(k)'
  <2>1. ~Moving(k, t)'
    BY <1>5 DEF Moving
  <2> QED BY <1>2, <1>5, <1>11, <2>1, OtherTierTransit
<1>13. Bytes(k)'
  <2>1. ASSUME NEW u \in Tier, IsReady(k, u)'
        PROVE  /\ data'[replica'[k][u].slot] = k
               /\ u = "NVME" => header'[replica'[k][u].slot] \in {k, NoFile}
    <3>1. u # t /\ replica'[k][u] = replica[k][u] /\ IsReady(k, u)
      BY <1>5, <2>1 DEF IsReady, Has
    <3>2. replica[k][u].slot \in Slot \ {s}
      BY <1>3, <3>1 DEF IsReady
    <3> QED BY <1>6, <3>1, <3>2 DEF SyncInv, ChunkInv, Bytes
  <2>2. ASSUME IsPending(k)
        PROVE  /\ data'[pending'[k].source.slot] = k
               /\ pending'[k].done = "ok" => data'[pending'[k].destination.slot] = k
    <3>1. PICK src \in Tier \ {t}, dst \in Tier \ {t} :
            src = SourceTier(pending[k].offload) /\ dst = DestinationTier(pending[k].offload)
      BY <1>11, <2>2 DEF SourceTier, DestinationTier, Tier
    <3>2. /\ Has(k, src) /\ Has(k, dst)
          /\ pending[k].source.slot = replica[k][src].slot
          /\ pending[k].destination.slot = replica[k][dst].slot
      BY <2>2, <3>1, PendingFacts DEF SyncInv, ChunkInv
    <3>3. pending[k].source.slot \in Slot \ {s} /\ pending[k].destination.slot \in Slot \ {s}
      BY <1>3, <3>1, <3>2
    <3> QED BY <1>2, <1>6, <2>2, <3>3 DEF SyncInv, ChunkInv, Bytes
  <2> QED BY <1>2, <2>1, <2>2 DEF Bytes, IsPending
<1>14. StreamExact'
  BY <1>2, StreamKept DEF Waits, IsPending
<1> QED BY <1>7, <1>9, <1>10, <1>12, <1>13, <1>14, StepSound DEF ChunkInv

LEMMA CallerFillsStep ==
    ASSUME SyncInv, NEW k \in Key, NEW t \in Tier, NEW s \in Slot, CallerFills(k, t, s)
    PROVE  Sound
<1>1. /\ t \in {"GPU", "CPU"} /\ \A u \in Tier : ~Has(k, u)
      /\ s \in Next_(t) /\ k \in registered /\ TakeSlot(s) /\ Relink(s, NoSlot)
      /\ replica' = [replica EXCEPT ![k][t] = FreshReplica(s, "READY")]
      /\ data' = [data EXCEPT ![s] = k]
      /\ UNCHANGED <<registered, refs, pins, header>>
      /\ UNCHANGED <<pending, stream, open, stranded>>
  BY DEF CallerFills, PlaceLinked, Place, CallerFrame, xferVars
<1>2. s \in free /\ s \in SlotsOf(t)
  BY <1>1, NextSlot DEF SyncInv
<1>3. /\ gen' = [gen EXCEPT ![s] = @ + 1] /\ free' = free \ {s}
      /\ gen \in [Slot -> Nat] /\ data \in [Slot -> Key \cup {Junk}]
      /\ replica \in [Key -> [Tier -> Replica \cup {NoReplica}]]
  BY <1>1 DEF TakeSlot, SyncInv, Types, DirTypeOK
<1>4. /\ FreshReplica(s, "READY") \in Replica
      /\ FreshReplica(s, "READY").slot = s
      /\ FreshReplica(s, "READY").generation = gen[s] + 1
      /\ FreshReplica(s, "READY").state = "READY"
  BY <1>3 DEF FreshReplica, Replica, ChunkState
<1>5. /\ replica' \in [Key -> [Tier -> Replica \cup {NoReplica}]]
      /\ OthersReplicas(k)
      /\ \A u \in Tier \ {t} : replica'[k][u] = replica[k][u]
      /\ replica'[k][t] = FreshReplica(s, "READY")
  BY <1>1, <1>3, <1>4 DEF OthersReplicas
<1>6. /\ Has(k, t)' /\ replica'[k][t].slot = s /\ replica'[k][t].generation = gen[s] + 1
      /\ replica'[k][t].state = "READY"
      /\ \A u \in Tier \ {t} : ~Has(k, u)'
  BY <1>1, <1>4, <1>5, NoReplicaIsNone DEF Has
<1>7. /\ data'[s] = k /\ \A r \in Slot \ {s} : data'[r] = data[r]
      /\ data' \in [Slot -> Key \cup {Junk}] /\ gen' \in [Slot -> Nat]
  BY <1>1, <1>3
<1>8. Types'
  <2>1. /\ freeHead' \in [SlotTier -> Linkable \cup {NoSlot}]
        /\ nextFree' \in [Linkable -> Linkable \cup {NoSlot}]
    BY <1>1, RelinkTypes DEF SyncInv
  <2>2. free' \subseteq Slot
    BY <1>3 DEF SyncInv, Types, DirTypeOK
  <2> QED BY <1>1, <1>5, <1>7, <2>1, <2>2 DEF SyncInv, Types, DirTypeOK
<1>9. Shape(k) /\ Placed(k)'
  <2>1. \A u \in Tier \ {t} : Kept(k, u)
    BY <1>1, <1>6 DEF Kept
  <2> QED BY <1>1, <1>2, <1>3, <1>5, <1>6, <2>1, TakingOneShape
<1>10. Frame(k)
  BY <1>1, <1>2, <1>7 DEF Frame
<1>11. ~IsPending(k) /\ k \notin stranded
  <2>1. ~IsPending(k)
    BY <1>1, PendingFacts DEF SyncInv, ChunkInv
  <2>2. k \notin stranded
    BY <1>1 DEF Moving, Tier, SyncInv, ChunkInv, Transit
  <2> QED BY <2>1, <2>2
<1>12. Transit(k)'
  <2>1. \A u \in Tier : ~Moving(k, u)'
    BY <1>6 DEF Moving
  <2> QED BY <1>1, <1>11, <2>1 DEF Transit, IsPending
<1>13. Bytes(k)'
  BY <1>1, <1>6, <1>7, <1>11 DEF Bytes, IsReady, IsPending
<1>14. StreamExact'
  BY <1>1, StreamKept DEF Waits, IsPending
<1> QED BY <1>8, <1>9, <1>10, <1>12, <1>13, <1>14, StepSound DEF ChunkInv

-----------------------------------------------------------------------------
(* All steps.                                                              *)

LEMMA StutterStep ==
    ASSUME SyncInv, UNCHANGED vars
    PROVE  Sound
<1> USE DEF vars, tierVars, dirVars, listVars, xferVars, storeVars
<1>1. Types' /\ Exclusive' /\ Accounted' /\ StreamExact'
  BY DEF SyncInv, Types, DirTypeOK, Exclusive, Accounted, StreamExact, Has, Holds, Lost, IsPending
<1>2. ASSUME NEW k \in Key PROVE ChunkInv(k)'
  <2>1. Placed(k)'
    BY DEF SyncInv, ChunkInv, Placed, Has, Valid
  <2> QED BY <2>1, SameTransit, SameBytes DEF SyncInv, ChunkInv
<1> QED BY <1>1, <1>2 DEF SyncInv, Sound

LEMMA NextSound ==
    ASSUME SyncInv, [Next]_vars
    PROVE  Sound
<1>1. CASE GpuNext
  <2>1. PICK k \in Key, offload \in BOOLEAN :
          \/ BeginLosesSlot(k, offload) \/ BeginStrands(k, offload)
          \/ \E release \in BOOLEAN : Finish(k, offload, release)
          \/ \E s \in Slot : Begin(k, offload, s) \/ BeginRolledBack(k, offload, s)
    BY <1>1 DEF GpuNext
  <2> QED BY <2>1, BeginLosesSlotStep, BeginStrandsStep, FinishStep, BeginStep, BeginRolledBackStep
<1>2. CASE NvmeNext
  <2>1. PICK k \in Key :
          \/ NvmeLosesSlot(k, "CPU", "NVME") \/ NvmeLosesSlot(k, "NVME", "CPU")
          \/ \E s \in Slot :
              \/ NvmeFails(k, "CPU", "NVME", s) \/ NvmeFails(k, "NVME", "CPU", s)
              \/ NvmeOnloadEraseThrows(k, s)
              \/ \E release \in BOOLEAN : NvmeOffload(k, s, release) \/ NvmeOnload(k, s, release)
    BY <1>2 DEF NvmeNext
  <2>2. CASE NvmeLosesSlot(k, "CPU", "NVME") \/ NvmeLosesSlot(k, "NVME", "CPU")
    BY <2>2, NvmeLosesSlotStep
  <2>3. ASSUME NEW s \in Slot, NvmeFails(k, "CPU", "NVME", s) \/ NvmeFails(k, "NVME", "CPU", s)
        PROVE  Sound
    BY <2>3, NvmeFailsStep
  <2>4. ASSUME NEW s \in Slot, NvmeOnloadEraseThrows(k, s)
        PROVE  Sound
    BY <2>4, NvmeOnloadStep DEF NvmeOnloadEraseThrows
  <2>5. ASSUME NEW s \in Slot, NEW release \in BOOLEAN,
               NvmeOffload(k, s, release) \/ NvmeOnload(k, s, release)
        PROVE  Sound
    BY <2>5, NvmeOffloadStep, NvmeOnloadStep
  <2> QED BY <2>1, <2>2, <2>3, <2>4, <2>5
<1>3. CASE CallerNext
  <2>1. PICK k \in Key :
          \/ CallerCounts(k)
          \/ \E t \in Tier :
              \/ CallerRemoves(k, t) \/ CallerCondemns(k, t) \/ CallerLosesSlot(k, t)
              \/ \E s \in Slot : CallerFills(k, t, s)
    BY <1>3 DEF CallerNext
  <2> QED BY <2>1, CountsStep, CallerRemovesStep, CallerCondemnsStep, CallerLosesSlotStep,
             CallerFillsStep
<1>4. CASE DeviceCopies
  <2>1. Head(stream) \in Key
    BY <1>4, HeadTailProperties DEF DeviceCopies, SyncInv, Types
  <2> QED BY <1>4, <2>1, DeviceCopiesStep
<1>5. CASE DestroyTransfers
  BY <1>5, DestroyTransfersStep
<1>6. ASSUME NEW n \in NvmeSlot, FileLost(n)
      PROVE  Sound
  <2>1. CASE Key = {}
    <3>1. header \in [NvmeSlot -> {NoFile}]
      BY <2>1 DEF SyncInv, Types
    <3> QED BY <1>6, <3>1 DEF FileLost
  <2>2. CASE Key # {}
    BY <1>6, <2>2, FileLostStep
  <2> QED BY <2>1, <2>2
<1>7. CASE UNCHANGED vars
  BY <1>7, StutterStep
<1> QED BY <1>1, <1>2, <1>3, <1>4, <1>5, <1>6, <1>7 DEF Next

-----------------------------------------------------------------------------
(* What follows for the specification.                                     *)

LEMMA InvAlways == Spec => []SyncInv
<1>1. SyncInv /\ [Next]_vars => SyncInv'
  BY NextSound DEF Sound
<1> QED BY InitSound, <1>1, PTL DEF Spec

LEMMA InvOwnSlots == SyncInv => TransfersOwnTheirSlots
<1> SUFFICES ASSUME SyncInv, NEW k \in Key, IsPending(k)
             PROVE  LET src == SourceTier(pending[k].offload)
                        dst == DestinationTier(pending[k].offload) IN
                    /\ Unmodified(k)
                    /\ ~Removable(k, src) /\ ~Removable(k, dst)
                    /\ ~Destroyable(k)
                    /\ InStream(k) <=> pending[k].done = "pending"
  BY DEF TransfersOwnTheirSlots
<1>1. Unmodified(k)
  BY DEF SyncInv, ChunkInv, Transit
<1>2. PICK src, dst :
        src = SourceTier(pending[k].offload) /\ dst = DestinationTier(pending[k].offload)
  OBVIOUS
<1>3. /\ src \in Tier /\ Has(k, src) /\ replica[k][src].state = "COPYING"
      /\ replica[k][dst].state \in {"COPYING", "LOADING"}
  BY <1>2, PendingFacts DEF DestinationState, SyncInv, ChunkInv
<1>4. ~Removable(k, src) /\ ~Removable(k, dst) /\ ~Destroyable(k)
  BY <1>3 DEF Removable, Destroyable
<1>5. DOMAIN stream = 1..Len(stream)
  BY DEF SyncInv, Types
<1>6. InStream(k) <=> pending[k].done = "pending"
  BY <1>5 DEF InStream, SyncInv, StreamExact
<1> QED BY <1>1, <1>2, <1>4, <1>6

LEMMA InvNothingHalf == SyncInv => NothingHalfRegistered
<1> SUFFICES ASSUME SyncInv, NEW k \in Key
             PROVE  /\ IsPending(k) => k \in registered /\ pins[k] > 0
                    /\ (\E t \in Tier : Moving(k, t)) <=> IsPending(k) \/ k \in stranded
                    /\ ~(IsPending(k) /\ k \in stranded)
  BY DEF NothingHalfRegistered, Moving
<1>1. ASSUME IsPending(k)
      PROVE  /\ k \in registered /\ pins[k] > 0 /\ k \notin stranded
             /\ \E t \in Tier : Moving(k, t)
  BY <1>1, PendingFacts DEF SyncInv, ChunkInv, Placed, Moving
<1>2. k \in stranded => \E t \in Tier : Moving(k, t)
  BY DEF SyncInv, ChunkInv, Transit, Tier
<1>3. \A t \in Tier : Moving(k, t) => k \in stranded \/ IsPending(k)
  BY DEF SyncInv, ChunkInv, Transit
<1> QED BY <1>1, <1>2, <1>3

\* A copy in the stream reads and writes slots its chunk owns, whatever the
\* other calls have done since begin (gpu_cpu_transfer.h:14-15).
THEOREM CopiesHitTheirOwnSlots == Spec => []TransfersOwnTheirSlots
BY InvAlways, InvOwnSlots, PTL

\* begin leaves a whole transfer, nothing, or a chunk counted as stranded.
THEOREM BeginIsAllOrNothing == Spec => []NothingHalfRegistered
BY InvAlways, InvNothingHalf, PTL

\* No tier announces a chunk before its bytes are there.
THEOREM ReadyIsTrue == Spec => []ReadyHoldsItsBytes
<1>1. SyncInv => ReadyHoldsItsBytes
  BY DEF SyncInv, ChunkInv, Bytes, ReadyHoldsItsBytes
<1> QED BY InvAlways, <1>1, PTL

\* Only exhausted slots leak, and remove finds every location it releases.
THEOREM NoSlotLeaks == Spec => []SlotsAccountedOrLost
<1>1. SyncInv => SlotsAccountedOrLost
  BY DEF SyncInv, ChunkInv, Placed, Accounted, SlotsAccountedOrLost
<1> QED BY InvAlways, <1>1, PTL

\* An old location stays refused, as long as its slot is not exhausted.
THEOREM OldLocationsRefused == Spec => StaleStaysStale
<1>1. ASSUME SyncInv, [Next]_vars, NEW s \in Slot, NEW g \in 0..MaxGeneration,
             Valid([slot |-> s, generation |-> g])',
             ~Valid([slot |-> s, generation |-> g])
      PROVE  g > gen[s] \/ Lost(s)'
  <2>1. /\ \A r \in Slot \ free : gen'[r] = gen[r]
        /\ \A r \in free \ free' : gen'[r] = gen[r] + 1 \/ Lost(r)'
    BY <1>1, NextSound DEF Sound
  <2>2. s \notin free' /\ gen'[s] = g /\ (s \notin free => gen[s] # g)
    BY <1>1 DEF Valid
  <2>3. s \in free /\ (gen'[s] = gen[s] + 1 \/ Lost(s)')
    BY <2>1, <2>2
  <2>4. gen[s] \in Nat
    BY <1>1 DEF SyncInv, Types, DirTypeOK
  <2> QED BY <2>2, <2>3, <2>4
<1>2. SyncInv /\ [Next]_vars =>
        [\A s \in Slot, g \in 0..MaxGeneration :
            /\ Valid([slot |-> s, generation |-> g])'
            /\ ~Valid([slot |-> s, generation |-> g])
            => g > gen[s] \/ Lost(s)']_dirVars
  BY <1>1
<1> QED BY InvAlways, <1>2, PTL DEF Spec, StaleStaysStale

-----------------------------------------------------------------------------
(* The free lists of the tiers.  First the lists by themselves: h is the   *)
(* head, nx and mx the links before and after a change.                    *)

\* From head h on, the links nx lead through l[1], ..., l[n], which are all
\* of S without repetition, and end there.
ListOf(h, nx, S, n, l) ==
    /\ l \in [1..n -> S]
    /\ h = IF n = 0 THEN NoSlot ELSE l[1]
    /\ \A i \in 1..n : nx[l[i]] = IF i = n THEN NoSlot ELSE l[i + 1]
    /\ \A i, j \in 1..n : l[i] = l[j] => i = j
    /\ \A s \in S : \E i \in 1..n : l[i] = s

Listed(h, nx, S) == \E n \in Nat : \E l : ListOf(h, nx, S, n, l)

LEMMA ListKept ==
    ASSUME NEW h, NEW nx, NEW S, Listed(h, nx, S),
           NEW mx, \A s \in S : mx[s] = nx[s]
    PROVE  Listed(h, mx, S)
<1>0. PICK n \in Nat : \E l : ListOf(h, nx, S, n, l)
  BY DEF Listed
<1>1. PICK l : ListOf(h, nx, S, n, l)
  BY <1>0
<1>2. ListOf(h, mx, S, n, l)
  BY <1>1 DEF ListOf
<1> QED BY <1>2 DEF Listed

LEMMA ListPopped ==
    ASSUME NEW h, h # NoSlot, NEW nx, NEW S, Listed(h, nx, S),
           NEW mx, \A s \in S \ {h} : mx[s] = nx[s]
    PROVE  h \in S /\ Listed(nx[h], mx, S \ {h})
<1>0. PICK n \in Nat : \E l : ListOf(h, nx, S, n, l)
  BY DEF Listed
<1>1. PICK l : ListOf(h, nx, S, n, l)
  BY <1>0
<1>2. n > 0 /\ h = l[1] /\ h \in S
  BY <1>1 DEF ListOf
<1>3. PICK m \in Nat : n = m + 1
  <2>1. n - 1 \in Nat /\ n = (n - 1) + 1
    BY <1>2
  <2> QED BY <2>1
<1> DEFINE k == [i \in 1..m |-> l[i + 1]]
<1>4. \A i \in 1..m : i + 1 \in 1..n /\ i + 1 # 1 /\ k[i] = l[i + 1]
  BY <1>3
<1> HIDE DEF k
<1>5. k \in [1..m -> S \ {h}]
  <2>1. \A i \in 1..m : l[i + 1] \in S /\ l[i + 1] # l[1]
    BY <1>1, <1>2, <1>4 DEF ListOf
  <2> QED BY <1>2, <1>4, <2>1 DEF k
<1>6. nx[h] = IF m = 0 THEN NoSlot ELSE k[1]
  <2>1. nx[l[1]] = IF 1 = n THEN NoSlot ELSE l[2]
    BY <1>1, <1>2 DEF ListOf
  <2>2. m # 0 => k[1] = l[2]
    BY <1>4
  <2> QED BY <1>2, <1>3, <2>1, <2>2
<1>7. ASSUME NEW i \in 1..m
      PROVE  mx[k[i]] = IF i = m THEN NoSlot ELSE k[i + 1]
  <2>1. mx[k[i]] = nx[l[i + 1]]
    BY <1>4, <1>5
  <2>2. nx[l[i + 1]] = IF i + 1 = n THEN NoSlot ELSE l[i + 2]
    <3>1. i + 1 \in 1..n /\ (i + 1) + 1 = i + 2
      BY <1>4
    <3> QED BY <1>1, <3>1 DEF ListOf
  <2>3. i # m => k[i + 1] = l[i + 2]
    <3>1. i # m => i + 1 \in 1..m /\ (i + 1) + 1 = i + 2
      OBVIOUS
    <3> QED BY <1>4, <3>1
  <2>4. i + 1 = n <=> i = m
    BY <1>3
  <2> QED BY <2>1, <2>2, <2>3, <2>4
<1>8. ASSUME NEW i \in 1..m, NEW j \in 1..m, k[i] = k[j]
      PROVE  i = j
  <2>1. i + 1 = j + 1
    BY <1>1, <1>4, <1>8 DEF ListOf
  <2> QED BY <2>1
<1>9. ASSUME NEW s \in S \ {h}
      PROVE  \E i \in 1..m : k[i] = s
  <2>1. PICK i \in 1..n : l[i] = s
    BY <1>1 DEF ListOf
  <2>2. i - 1 \in 1..m /\ (i - 1) + 1 = i
    BY <1>2, <1>3, <2>1
  <2>3. k[i - 1] = s
    BY <1>4, <2>1, <2>2
  <2> QED BY <2>2, <2>3
<1>10. ListOf(nx[h], mx, S \ {h}, m, k)
  BY <1>5, <1>6, <1>7, <1>8, <1>9 DEF ListOf
<1> QED BY <1>2, <1>10 DEF Listed

LEMMA ListPushed ==
    ASSUME NEW h, NEW nx, NEW S, Listed(h, nx, S),
           NEW g, g \notin S,
           NEW mx, mx[g] = h, \A s \in S : mx[s] = nx[s]
    PROVE  Listed(g, mx, S \cup {g})
<1>0. PICK n \in Nat : \E l : ListOf(h, nx, S, n, l)
  BY DEF Listed
<1>1. PICK l : ListOf(h, nx, S, n, l)
  BY <1>0
<1> DEFINE m == n + 1
           k == [i \in 1..m |-> IF i = 1 THEN g ELSE l[i - 1]]
<1>2. m \in Nat /\ m # 0 /\ 1 \in 1..m
  OBVIOUS
<1>3. \A i \in 1..m : i # 1 => i - 1 \in 1..n /\ k[i] = l[i - 1]
  OBVIOUS
<1>4. k[1] = g
  BY <1>2
<1>5. k \in [1..m -> S \cup {g}]
  <2>1. \A i \in 1..m : i # 1 => l[i - 1] \in S
    BY <1>1, <1>3 DEF ListOf
  <2> QED BY <2>1
<1>6. n # 0 => k[2] = l[1]
  <2>1. n # 0 => 2 \in 1..m /\ 2 # 1 /\ 2 - 1 = 1
    OBVIOUS
  <2> QED BY <1>3, <2>1
<1> HIDE DEF k
<1>7. ASSUME NEW i \in 1..m
      PROVE  mx[k[i]] = IF i = m THEN NoSlot ELSE k[i + 1]
  <2>1. CASE i = 1
    <3>1. h = IF n = 0 THEN NoSlot ELSE l[1]
      BY <1>1 DEF ListOf
    <3>2. (1 = m <=> n = 0) /\ 1 + 1 = 2
      OBVIOUS
    <3> QED BY <1>4, <1>6, <2>1, <3>1, <3>2
  <2>2. CASE i # 1
    <3>1. i - 1 \in 1..n /\ k[i] = l[i - 1] /\ l[i - 1] \in S /\ (i - 1) + 1 = i
      BY <1>1, <1>3, <2>2 DEF ListOf
    <3>2. nx[l[i - 1]] = IF i - 1 = n THEN NoSlot ELSE l[i]
      BY <1>1, <3>1 DEF ListOf
    <3>3. i # m => k[i + 1] = l[i]
      <4>1. i # m => i + 1 \in 1..m /\ i + 1 # 1 /\ (i + 1) - 1 = i
        OBVIOUS
      <4> QED BY <1>3, <4>1
    <3>4. i - 1 = n <=> i = m
      OBVIOUS
    <3> QED BY <3>1, <3>2, <3>3, <3>4
  <2> QED BY <2>1, <2>2
<1>8. ASSUME NEW i \in 1..m, NEW j \in 1..m, k[i] = k[j]
      PROVE  i = j
  <2>1. ASSUME NEW a \in 1..m, a # 1 PROVE k[a] # g
    BY <1>1, <1>3, <2>1 DEF ListOf
  <2>2. CASE i = 1 \/ j = 1
    BY <1>4, <1>8, <2>1, <2>2
  <2>3. CASE i # 1 /\ j # 1
    <3>1. i - 1 = j - 1
      BY <1>1, <1>3, <1>8, <2>3 DEF ListOf
    <3> QED BY <3>1
  <2> QED BY <2>2, <2>3
<1>9. ASSUME NEW s \in S \cup {g}
      PROVE  \E i \in 1..m : k[i] = s
  <2>1. CASE s = g
    BY <1>2, <1>4, <2>1
  <2>2. CASE s \in S
    <3>1. PICK i \in 1..n : l[i] = s
      BY <1>1, <2>2 DEF ListOf
    <3>2. i + 1 \in 1..m /\ i + 1 # 1 /\ (i + 1) - 1 = i
      OBVIOUS
    <3>3. k[i + 1] = s
      BY <1>3, <3>1, <3>2
    <3> QED BY <3>2, <3>3
  <2> QED BY <2>1, <2>2
<1>10. g = IF m = 0 THEN NoSlot ELSE k[1]
  BY <1>2, <1>4
<1>11. ListOf(g, mx, S \cup {g}, m, k)
  BY <1>5, <1>7, <1>8, <1>9, <1>10 DEF ListOf
<1> QED BY <1>2, <1>11 DEF Listed

\* Of the list that the constructor links.
LEMMA ListLinked ==
    ASSUME NEW a \in Nat, NEW b \in Nat, a <= b, NoSlot \notin a..b,
           NEW nx, \A s \in a..b : nx[s] = IF s + 1 \in a..b THEN s + 1 ELSE NoSlot
    PROVE  Listed(a, nx, a..b)
<1> DEFINE n == b - a + 1
           l == [i \in 1..n |-> a + i - 1]
<1>1. n \in Nat /\ n # 0
  OBVIOUS
<1>2. \A i \in 1..n : l[i] = a + i - 1 /\ l[i] \in a..b
  OBVIOUS
<1>3. l \in [1..n -> a..b] /\ l[1] = a
  BY <1>1, <1>2
<1> HIDE DEF l
<1>4. ASSUME NEW i \in 1..n
      PROVE  nx[l[i]] = IF i = n THEN NoSlot ELSE l[i + 1]
  <2>1. l[i] = a + i - 1 /\ l[i] \in a..b
    BY <1>2
  <2>2. i # n => l[i + 1] = a + i
    <3>1. i # n => i + 1 \in 1..n /\ a + (i + 1) - 1 = a + i
      OBVIOUS
    <3> QED BY <1>2, <3>1
  <2>3. l[i] + 1 \in a..b <=> i # n
    BY <2>1
  <2>4. l[i] + 1 = a + i
    BY <2>1
  <2> QED BY <2>1, <2>2, <2>3, <2>4
<1>5. \A i, j \in 1..n : l[i] = l[j] => i = j
  BY <1>2
<1>6. ASSUME NEW s \in a..b
      PROVE  \E i \in 1..n : l[i] = s
  <2>1. s - a + 1 \in 1..n /\ a + (s - a + 1) - 1 = s
    OBVIOUS
  <2>2. l[s - a + 1] = s
    BY <1>2, <2>1
  <2> QED BY <2>1, <2>2
<1> HIDE DEF n
<1>7. ListOf(a, nx, a..b, n, l)
  BY <1>1, <1>3, <1>4, <1>5, <1>6 DEF ListOf
<1> QED BY <1>1, <1>7 DEF Listed

\* It is as long as there are slots.
LEMMA ListCounted ==
    ASSUME NEW h, NEW nx, NEW S, Listed(h, nx, S)
    PROVE  \E l \in [1..Cardinality(S) -> S] : ListOf(h, nx, S, Cardinality(S), l)
<1>0. PICK n \in Nat : \E l : ListOf(h, nx, S, n, l)
  BY DEF Listed
<1>1. PICK l : ListOf(h, nx, S, n, l)
  BY <1>0
<1>2. l \in Bijection(1..n, S)
  <2>1. l \in [1..n -> S] /\ \A i, j \in 1..n : l[i] = l[j] => i = j
    BY <1>1 DEF ListOf
  <2>2. \A s \in S : \E i \in 1..n : l[i] = s
    BY <1>1 DEF ListOf
  <2> QED BY <2>1, <2>2 DEF Bijection, Injection, Surjection, IsInjective
<1>3. IsFiniteSet(1..n) /\ Cardinality(1..n) = n
  BY FS_Interval
<1>4. Cardinality(S) = n
  BY <1>2, <1>3, FS_Bijection DEF ExistsBijection
<1> QED BY <1>1, <1>4 DEF ListOf

-----------------------------------------------------------------------------
(* Then what a step does to them: it leaves them alone, loses a slot, or   *)
(* links one chunk to a slot and parts it from another.                    *)

FreeIn(t) == free \cap SlotsOf(t)
Holders(t) == {k \in Key : Has(k, t)}

ListsSound == \A t \in SlotTier : Listed(freeHead[t], nextFree, FreeIn(t))

CountsSound ==
    \A t \in Tier : IsFiniteSet(Holders(t)) /\ allocated[t] = Cardinality(Holders(t))

ListInv == ListsSound /\ CountsSound

LEMMA ListInvExact == ListInv => FreeListExact
<1> SUFFICES ASSUME ListInv PROVE FreeListExact
  OBVIOUS
<1>1. ASSUME NEW t \in SlotTier
      PROVE  LET onList == free \cap SlotsOf(t)
                 length == Cardinality(onList)
             IN  \E l \in [1..length -> onList] :
                     LinkedFrom(t, length, l) /\ {l[i] : i \in 1..length} = onList
  <2>1. PICK S, n : S = free \cap SlotsOf(t) /\ n = Cardinality(S)
    OBVIOUS
  <2>2. Listed(freeHead[t], nextFree, S)
    BY <2>1 DEF ListInv, ListsSound, FreeIn
  <2>3. PICK l \in [1..n -> S] : ListOf(freeHead[t], nextFree, S, n, l)
    BY <2>1, <2>2, ListCounted
  <2>4. LinkedFrom(t, n, l)
    BY <2>3 DEF ListOf, LinkedFrom
  <2>5. {l[i] : i \in 1..n} = S
    BY <2>3 DEF ListOf
  <2> QED BY <2>1, <2>4, <2>5
<1> QED BY <1>1 DEF ListInv, CountsSound, Holders, FreeListExact

LEMMA InitLists == Init => ListInv
<1> SUFFICES ASSUME Init PROVE ListInv
  OBVIOUS
<1> USE DEF Init, TiersInit, DirInit
<1>1. ASSUME NEW t \in SlotTier
      PROVE  Listed(freeHead[t], nextFree, FreeIn(t))
  <2>1. PICK a, b : /\ a = FirstSlot(t) /\ a \in SlotsOf(t) /\ b \in SlotsOf(t)
                    /\ SlotsOf(t) = a..b
    BY FirstSlotExists
  <2>2. SlotsOf(t) \subseteq Nat /\ NoSlot \notin SlotsOf(t) /\ SlotsOf(t) \subseteq Linkable
        /\ SlotsOf(t) \subseteq Slot
    BY SlotsAreNumbered DEF SlotTier, SlotsOf, Slot, Linkable
  <2>3. a \in Nat /\ b \in Nat /\ a <= b
    BY <2>1, <2>2
  <2>4. ASSUME NEW s \in a..b
        PROVE  nextFree[s] = IF s + 1 \in a..b THEN s + 1 ELSE NoSlot
    <3>1. \A u \in SlotTier : s \in SlotsOf(u) <=> u = t
      BY <2>1, <2>2, TierFacts DEF SlotTier, Tier
    <3> QED BY <2>1, <2>2, <3>1
  <2>5. Listed(a, nextFree, a..b)
    BY <2>1, <2>2, <2>3, <2>4, ListLinked
  <2>6. FreeIn(t) = a..b /\ freeHead[t] = a
    BY <2>1, <2>2 DEF FreeIn
  <2> QED BY <2>5, <2>6
<1>2. ASSUME NEW t \in Tier
      PROVE  IsFiniteSet(Holders(t)) /\ allocated[t] = Cardinality(Holders(t))
  <2>1. Holders(t) = {}
    BY DEF Holders, Has
  <2> QED BY <2>1, FS_EmptySet
<1> QED BY <1>1, <1>2 DEF ListInv, ListsSound, CountsSound

\* No replica comes or goes.
SameHolders == \A j \in Key, t \in Tier : Has(j, t)' <=> Has(j, t)

LEMMA QuietLists ==
    ASSUME ListInv, SameHolders, UNCHANGED <<free, listVars>>
    PROVE  ListInv'
<1>1. \A t \in Tier : Holders(t)' = Holders(t)
  BY DEF SameHolders, Holders
<1>2. ListsSound'
  BY DEF ListInv, ListsSound, FreeIn, listVars
<1>3. CountsSound'
  BY <1>1 DEF ListInv, CountsSound, listVars
<1> QED BY <1>2, <1>3 DEF ListInv

LEMMA LoseLists ==
    ASSUME Types, ListInv, SameHolders, NEW t \in Tier, LoseSlot(t)
    PROVE  ListInv'
<1>1. PICK h : h = freeHead[t]
  OBVIOUS
<1>2. /\ t \in SlotTier /\ h # NoSlot /\ free' = free \ {h} /\ UNCHANGED allocated
      /\ freeHead' = [freeHead EXCEPT ![t] = nextFree[h]]
      /\ nextFree' = [nextFree EXCEPT ![h] = NoSlot]
      /\ freeHead \in [SlotTier -> Linkable \cup {NoSlot}]
      /\ nextFree \in [Linkable -> Linkable \cup {NoSlot}]
  BY <1>1 DEF LoseSlot, Exhausted, Types
<1>3. h \in FreeIn(t)
  <2>1. Listed(h, nextFree, FreeIn(t))
    BY <1>1, <1>2 DEF ListInv, ListsSound
  <2> QED BY <1>2, <2>1, ListPopped
<1>4. \A u \in SlotTier : u \in Tier /\ SlotsOf(u) \subseteq Linkable /\ SlotsOf(u) \subseteq Slot
  BY DEF SlotTier, Tier, SlotsOf, Linkable, Slot
<1>5. ASSUME NEW u \in SlotTier
      PROVE  Listed(freeHead'[u], nextFree', FreeIn(u)')
  <2>1. Listed(freeHead[u], nextFree, FreeIn(u))
    BY DEF ListInv, ListsSound
  <2>2. \A s \in FreeIn(u) \ {h} : nextFree'[s] = nextFree[s]
    BY <1>2, <1>4 DEF FreeIn
  <2>3. FreeIn(u)' = FreeIn(u) \ {h}
    BY <1>2 DEF FreeIn
  <2>4. CASE u = t
    <3>1. freeHead[u] = h /\ freeHead'[u] = nextFree[h]
      BY <1>1, <1>2, <2>4
    <3>2. Listed(h, nextFree, FreeIn(u)) /\ h # NoSlot
      BY <1>2, <2>1, <3>1
    <3>3. Listed(nextFree[h], nextFree', FreeIn(u) \ {h})
      BY <2>2, <3>2, ListPopped
    <3> QED BY <2>3, <3>1, <3>3
  <2>5. CASE u # t
    <3>1. h \notin FreeIn(u) /\ freeHead'[u] = freeHead[u]
      BY <1>2, <1>3, <1>4, <2>5, TierFacts DEF FreeIn
    <3> QED BY <2>1, <2>2, <2>3, <3>1, ListKept
  <2> QED BY <2>4, <2>5
<1>6. CountsSound'
  <2>1. \A u \in Tier : Holders(u)' = Holders(u)
    BY DEF SameHolders, Holders
  <2> QED BY <1>2, <2>1 DEF ListInv, CountsSound
<1> QED BY <1>5, <1>6 DEF ListInv, ListsSound

\* Chunk k gets slot take, or gives slot give, in the tiers that have them.
Links(k, take, give) ==
    /\ take # NoSlot => \E t \in Tier : take \in Next_(t)
    /\ give # NoSlot => give \in Slot \ free
    /\ \A t \in Tier : take \in SlotsOf(t) => give \notin SlotsOf(t) /\ ~Has(k, t) /\ Has(k, t)'
    /\ \A t \in Tier : give \in SlotsOf(t) => Has(k, t) /\ ~Has(k, t)'
    /\ \A t \in Tier :
        take \notin SlotsOf(t) /\ give \notin SlotsOf(t) => (Has(k, t)' <=> Has(k, t))
    /\ OthersReplicas(k)
    /\ free' = (free \ {take}) \cup ({give} \ {NoSlot})
    /\ Relink(take, give)

LEMMA LinksLists ==
    ASSUME Types, ListInv, NEW k \in Key,
           NEW take \in Slot \cup {NoSlot}, NEW give \in Slot \cup {NoSlot},
           Links(k, take, give)
    PROVE  ListInv'
<1>1. \A t \in SlotTier : t \in Tier /\ t # "GPU" /\ SlotsOf(t) \subseteq Linkable
                          /\ SlotsOf(t) \subseteq Slot /\ NoSlot \notin SlotsOf(t)
  BY SlotsAreNumbered DEF SlotTier, Tier, SlotsOf, Linkable, Slot
<1>2. /\ freeHead' = [t \in SlotTier |->
              CASE take \in SlotsOf(t) -> nextFree[take]
                [] give \in SlotsOf(t) -> give
                [] OTHER               -> freeHead[t]]
      /\ nextFree' = [s \in Linkable |->
              CASE s = take -> NoSlot
                [] s = give -> freeHead[CHOOSE t \in SlotTier : s \in SlotsOf(t)]
                [] OTHER    -> nextFree[s]]
      /\ allocated' = [t \in Tier |->
              allocated[t] + (IF take \in SlotsOf(t) THEN 1 ELSE 0)
                           - (IF give \in SlotsOf(t) THEN 1 ELSE 0)]
      /\ free' = (free \ {take}) \cup ({give} \ {NoSlot})
  BY DEF Links, Relink
<1>3. ASSUME NEW t \in SlotTier
      PROVE  Listed(freeHead'[t], nextFree', FreeIn(t)')
  <2>1. Listed(freeHead[t], nextFree, FreeIn(t))
    BY DEF ListInv, ListsSound
  <2>2. give \notin free
    BY SlotsAreNumbered DEF Links, Types, DirTypeOK
  <2>3. \A s \in FreeIn(t) \ {take} : nextFree'[s] = nextFree[s]
    BY <1>1, <1>2, <2>2 DEF FreeIn
  <2>4. CASE take \in SlotsOf(t)
    <3>1. give \notin SlotsOf(t)
      BY <1>1, <2>4 DEF Links
    <3>2. take = freeHead[t] /\ take # NoSlot
      <4>1. take # NoSlot /\ take \in Slot
        BY <1>1, <2>4
      <4>2. PICK u \in Tier : take \in Next_(u)
        BY <4>1 DEF Links
      <4>3. take \in SlotsOf(u)
        BY <4>2, NextSlot
      <4>4. u = t
        BY <1>1, <2>4, <4>1, <4>3, TierFacts
      <4> QED BY <1>1, <4>1, <4>2, <4>4 DEF Next_
    <3>3. freeHead'[t] = nextFree[take] /\ FreeIn(t)' = FreeIn(t) \ {take}
      BY <1>2, <2>4, <3>1 DEF FreeIn
    <3> QED BY <2>1, <2>3, <3>2, <3>3, ListPopped
  <2>5. CASE take \notin SlotsOf(t) /\ give \in SlotsOf(t)
    <3>1. freeHead'[t] = give
      BY <1>2, <2>5
    <3>2. nextFree'[give] = freeHead[t]
      <4>1. \A u \in SlotTier : give \in SlotsOf(u) <=> u = t
        BY <1>1, <2>5, TierFacts
      <4>2. (CHOOSE u \in SlotTier : give \in SlotsOf(u)) = t
        BY <4>1
      <4>3. give \in Linkable /\ give # take
        BY <1>1, <2>5
      <4> QED BY <1>2, <4>2, <4>3
    <3>3. give \notin FreeIn(t) /\ FreeIn(t)' = FreeIn(t) \cup {give}
      BY <1>1, <1>2, <2>2, <2>5 DEF FreeIn
    <3>4. \A s \in FreeIn(t) : nextFree'[s] = nextFree[s]
      BY <2>3, <2>5 DEF FreeIn
    <3> QED BY <2>1, <3>1, <3>2, <3>3, <3>4, ListPushed
  <2>6. CASE take \notin SlotsOf(t) /\ give \notin SlotsOf(t)
    <3>1. freeHead'[t] = freeHead[t] /\ FreeIn(t)' = FreeIn(t)
      BY <1>2, <2>6 DEF FreeIn
    <3>2. \A s \in FreeIn(t) : nextFree'[s] = nextFree[s]
      BY <2>3, <2>6 DEF FreeIn
    <3> QED BY <2>1, <3>1, <3>2, ListKept
  <2> QED BY <2>4, <2>5, <2>6
<1>4. ASSUME NEW t \in Tier
      PROVE  IsFiniteSet(Holders(t))' /\ allocated'[t] = Cardinality(Holders(t)')
  <2>1. PICK H, n : H = Holders(t) /\ n = allocated[t]
    OBVIOUS
  <2>2. IsFiniteSet(H) /\ n = Cardinality(H) /\ n \in Nat
    BY <2>1, FS_CardinalityType DEF ListInv, CountsSound
  <2>3. \A j \in Key \ {k} : Has(j, t)' <=> Has(j, t)
    BY DEF Links, OthersReplicas, Has
  <2> DEFINE got == IF take \in SlotsOf(t) THEN 1 ELSE 0
             gave == IF give \in SlotsOf(t) THEN 1 ELSE 0
  <2>4. allocated'[t] = n + got - gave
    BY <1>2, <2>1
  <2>5. CASE take \in SlotsOf(t)
    <3>1. give \notin SlotsOf(t) /\ ~Has(k, t) /\ Has(k, t)'
      BY <2>5 DEF Links
    <3>2. k \notin H /\ Holders(t)' = H \cup {k}
      BY <2>1, <2>3, <3>1 DEF Holders
    <3>3. allocated'[t] = n + 1
      BY <2>2, <2>4, <2>5, <3>1
    <3>4. IsFiniteSet(H \cup {k}) /\ Cardinality(H \cup {k}) = n + 1
      BY <2>2, <3>2, FS_AddElement
    <3> QED BY <3>2, <3>3, <3>4
  <2>6. CASE take \notin SlotsOf(t) /\ give \in SlotsOf(t)
    <3>1. Has(k, t) /\ ~Has(k, t)'
      BY <2>6 DEF Links
    <3>2. k \in H /\ Holders(t)' = H \ {k}
      BY <2>1, <2>3, <3>1 DEF Holders
    <3>3. allocated'[t] = n - 1
      BY <2>2, <2>4, <2>6
    <3>4. IsFiniteSet(H \ {k}) /\ Cardinality(H \ {k}) = n - 1
      BY <2>2, <3>2, FS_RemoveElement
    <3> QED BY <3>2, <3>3, <3>4
  <2>7. CASE take \notin SlotsOf(t) /\ give \notin SlotsOf(t)
    <3>1. Has(k, t)' <=> Has(k, t)
      BY <2>7 DEF Links
    <3>2. Holders(t)' = H
      BY <2>1, <2>3, <3>1 DEF Holders
    <3>3. allocated'[t] = n
      BY <2>2, <2>4, <2>7
    <3> QED BY <2>2, <3>2, <3>3
  <2> QED BY <2>5, <2>6, <2>7
<1> QED BY <1>3, <1>4 DEF ListInv, ListsSound, CountsSound

\* A slot for a copy about to be made, or that will never be made.
LEMMA InTransitLists ==
    ASSUME SyncInv, ListInv, NEW k \in Key, NEW offload \in BOOLEAN, MayBegin(k, offload),
           NEW s \in Next_(DestinationTier(offload)), TakeSlot(s), Relink(s, NoSlot),
           InTransit(k, SourceTier(offload), DestinationTier(offload), s)
    PROVE  ListInv'
<1>1. PICK src, dst : src = SourceTier(offload) /\ dst = DestinationTier(offload)
  OBVIOUS
<1>2. /\ src \in Tier /\ dst \in {"GPU", "CPU"} /\ dst \in Tier /\ src # dst
      /\ Has(k, src) /\ ~Has(k, dst)
  BY <1>1, MayBeginFacts
<1>3. s \in Next_(dst) /\ s \in SlotsOf(dst) /\ s \in Slot
  BY <1>1, <1>2, NextSlot DEF SyncInv
<1>4. /\ OthersReplicas(k) /\ Has(k, src)' /\ Has(k, dst)'
      /\ \A t \in Tier \ {src, dst} : replica'[k][t] = replica[k][t]
  BY <1>1, <1>2, <1>3, InTransitFacts DEF SyncInv
<1>5. \A t \in Tier : s \in SlotsOf(t) <=> t = dst
  BY <1>2, <1>3, TierFacts
<1>6. \A t \in Tier : NoSlot \notin SlotsOf(t)
  BY TierFacts, SlotsAreNumbered
<1>7. free' = (free \ {s}) \cup ({NoSlot} \ {NoSlot})
  BY DEF TakeSlot
<1>8. Links(k, s, NoSlot)
  BY <1>2, <1>3, <1>4, <1>5, <1>6, <1>7 DEF Links, Has
<1> QED BY <1>3, <1>8, LinksLists DEF SyncInv

\* The slot of the source is given back, or nothing.
LEMMA FinishLists ==
    ASSUME SyncInv, ListInv, NEW k \in Key, NEW offload \in BOOLEAN, NEW release \in BOOLEAN,
           Finish(k, offload, release)
    PROVE  ListInv'
<1>1. PICK src, dst, s :
        src = SourceTier(offload) /\ dst = DestinationTier(offload) /\ s = replica[k][src].slot
  OBVIOUS
<1>2. IsPending(k) /\ pending[k].offload = offload /\ Settle(k, src, dst, release)
  BY <1>1 DEF Finish
<1>3. src \in Tier /\ dst \in Tier /\ src # dst /\ Has(k, src) /\ Has(k, dst)
  BY <1>1, <1>2, PendingFacts DEF SyncInv, ChunkInv
<1>4. /\ OthersReplicas(k) /\ Has(k, dst)'
      /\ \A t \in Tier \ {src, dst} : replica'[k][t] = replica[k][t]
      /\ ~release => Has(k, src)'
      /\ release => ~Has(k, src)' /\ free' = free \cup {s} /\ Relink(NoSlot, s)
  BY <1>1, <1>2, <1>3, SettleFacts DEF Kept
<1>5. CASE ~release
  <2>1. UNCHANGED <<free, listVars>>
    BY <1>2, <1>5 DEF Settle
  <2>2. SameHolders
    BY <1>3, <1>4, <1>5 DEF SameHolders, OthersReplicas, Has
  <2> QED BY <2>1, <2>2, QuietLists
<1>6. CASE release
  <2>1. s \in Slot \ free /\ s \in SlotsOf(src)
    BY <1>1, <1>3, HeldSlot DEF SyncInv, ChunkInv
  <2>2. \A t \in Tier : s \in SlotsOf(t) <=> t = src
    BY <1>3, <2>1, TierFacts
  <2>3. (\A t \in Tier : NoSlot \notin SlotsOf(t)) /\ s # NoSlot /\ NoSlot \notin free
    BY <2>1, TierFacts, SlotsAreNumbered DEF SyncInv, Types, DirTypeOK
  <2>4. free' = (free \ {NoSlot}) \cup ({s} \ {NoSlot})
    BY <1>4, <1>6, <2>3
  <2>5. Links(k, NoSlot, s)
    BY <1>3, <1>4, <1>6, <2>1, <2>2, <2>3, <2>4 DEF Links, Has
  <2> QED BY <2>1, <2>5, LinksLists DEF SyncInv
<1> QED BY <1>5, <1>6

\* One slot is taken and, in the other tier, one may be given back.
LEMMA MoveLists ==
    ASSUME SyncInv, ListInv, NEW k \in Key,
           NEW src \in {"CPU", "NVME"}, NEW dst \in {"CPU", "NVME"}, src # dst,
           Copyable(k, src, dst), NEW s \in Next_(dst), NEW release \in BOOLEAN,
           NEW a, a = replica[k][src].slot,
           MovesReplica(k, src, dst, s, release), MovesSlots(s, a, release)
    PROVE  ListInv'
<1>1. src \in Tier /\ dst \in Tier /\ Has(k, src) /\ ~Has(k, dst)
  BY DEF Copyable, IsReady, Tier
<1>2. s \in SlotsOf(dst) /\ s \in Slot
  BY <1>1, NextSlot DEF SyncInv
<1>3. a \in Slot \ free /\ a \in SlotsOf(src)
  BY <1>1, HeldSlot DEF SyncInv, ChunkInv
<1>4. /\ OthersReplicas(k) /\ Has(k, dst)'
      /\ \A t \in Tier \ {src, dst} : replica'[k][t] = replica[k][t]
      /\ ~release => replica'[k][src] = replica[k][src]
      /\ release => ~Has(k, src)'
  BY <1>1, <1>2, MoveFacts
<1>5. /\ \A t \in Tier : s \in SlotsOf(t) <=> t = dst
      /\ \A t \in Tier : a \in SlotsOf(t) <=> t = src
  BY <1>1, <1>2, <1>3, TierFacts
<1>6. (\A t \in Tier : NoSlot \notin SlotsOf(t)) /\ a # NoSlot
  BY <1>3, TierFacts, SlotsAreNumbered
<1>7. PICK give : give = IF release THEN a ELSE NoSlot
  OBVIOUS
<1>8. give \in Slot \cup {NoSlot} /\ (give # NoSlot => give = a /\ release)
  BY <1>3, <1>7
<1>9. free' = (free \ {s}) \cup ({give} \ {NoSlot}) /\ Relink(s, give)
  BY <1>6, <1>7 DEF MovesSlots
<1>10. \A t \in Tier : give \in SlotsOf(t) <=> t = src /\ release
  BY <1>5, <1>6, <1>7
<1>11. \A t \in Tier : s \notin SlotsOf(t) /\ give \notin SlotsOf(t) => (Has(k, t)' <=> Has(k, t))
  BY <1>4, <1>5, <1>10 DEF Has
<1>12. Links(k, s, give)
  BY <1>1, <1>3, <1>4, <1>5, <1>8, <1>9, <1>10, <1>11 DEF Links
<1> QED BY <1>2, <1>8, <1>12, LinksLists DEF SyncInv

LEMMA RemoveLists ==
    ASSUME SyncInv, ListInv, NEW k \in Key, NEW t \in Tier, CallerRemoves(k, t)
    PROVE  ListInv'
<1>1. PICK s : s = replica[k][t].slot
  OBVIOUS
<1>2. /\ Has(k, t) /\ free' = free \cup {s} /\ Relink(NoSlot, s)
      /\ replica' = [replica EXCEPT ![k][t] = NoReplica]
  BY <1>1 DEF CallerRemoves, RemoveLinked, Remove, Removable
<1>3. /\ OthersReplicas(k) /\ ~Has(k, t)'
      /\ \A u \in Tier \ {t} : replica'[k][u] = replica[k][u]
  <2>1. replica \in [Key -> [Tier -> Replica \cup {NoReplica}]]
    BY DEF SyncInv, Types, DirTypeOK
  <2> QED BY <1>2, <2>1 DEF OthersReplicas, Has
<1>4. s \in Slot \ free /\ s \in SlotsOf(t)
  BY <1>1, <1>2, HeldSlot DEF SyncInv, ChunkInv
<1>5. \A u \in Tier : s \in SlotsOf(u) <=> u = t
  BY <1>4, TierFacts
<1>6. (\A u \in Tier : NoSlot \notin SlotsOf(u)) /\ s # NoSlot /\ NoSlot \notin free
  BY <1>4, TierFacts, SlotsAreNumbered DEF SyncInv, Types, DirTypeOK
<1>7. free' = (free \ {NoSlot}) \cup ({s} \ {NoSlot})
  BY <1>2, <1>6
<1>8. Links(k, NoSlot, s)
  BY <1>2, <1>3, <1>4, <1>5, <1>6, <1>7 DEF Links, Has
<1> QED BY <1>4, <1>8, LinksLists DEF SyncInv

LEMMA FillLists ==
    ASSUME SyncInv, ListInv, NEW k \in Key, NEW t \in Tier, NEW s \in Slot, CallerFills(k, t, s)
    PROVE  ListInv'
<1>1. /\ ~Has(k, t) /\ s \in Next_(t) /\ TakeSlot(s) /\ Relink(s, NoSlot)
      /\ replica' = [replica EXCEPT ![k][t] = FreshReplica(s, "READY")]
  BY DEF CallerFills, PlaceLinked, Place
<1>2. s \in SlotsOf(t)
  BY <1>1, NextSlot DEF SyncInv
<1>3. FreshReplica(s, "READY") # NoReplica
  <2>1. gen \in [Slot -> Nat]
    BY DEF SyncInv, Types, DirTypeOK
  <2>2. FreshReplica(s, "READY") \in Replica
    BY <2>1 DEF FreshReplica, Replica, ChunkState
  <2> QED BY <2>2, NoReplicaIsNone
<1>4. /\ OthersReplicas(k) /\ Has(k, t)'
      /\ \A u \in Tier \ {t} : replica'[k][u] = replica[k][u]
  <2>1. replica \in [Key -> [Tier -> Replica \cup {NoReplica}]]
    BY DEF SyncInv, Types, DirTypeOK
  <2> QED BY <1>1, <1>3, <2>1 DEF OthersReplicas, Has
<1>5. \A u \in Tier : s \in SlotsOf(u) <=> u = t
  BY <1>2, TierFacts
<1>6. \A u \in Tier : NoSlot \notin SlotsOf(u)
  BY TierFacts, SlotsAreNumbered
<1>7. free' = (free \ {s}) \cup ({NoSlot} \ {NoSlot})
  BY <1>1 DEF TakeSlot
<1>8. Links(k, s, NoSlot)
  BY <1>1, <1>4, <1>5, <1>6, <1>7 DEF Links, Has
<1> QED BY <1>8, LinksLists DEF SyncInv

\* A state is changed, and at most a slot is lost.
LEMMA StateLists ==
    ASSUME SyncInv, ListInv, NEW k \in Key, NEW t \in Tier, Has(k, t), NEW st \in ChunkState,
           replica' = [replica EXCEPT ![k][t].state = st],
           UNCHANGED <<free, listVars>> \/ \E u \in Tier : LoseSlot(u)
    PROVE  ListInv'
<1>1. SameHolders
  BY StateFacts DEF SyncInv, Kept, SameHolders, OthersReplicas, Has
<1> QED BY <1>1, QuietLists, LoseLists DEF SyncInv

\* No replica is changed, and at most a slot is lost.
LEMMA SameReplicasLists ==
    ASSUME SyncInv, ListInv, UNCHANGED replica,
           UNCHANGED <<free, listVars>> \/ \E u \in Tier : LoseSlot(u)
    PROVE  ListInv'
<1>1. SameHolders
  BY DEF SameHolders, Has
<1> QED BY <1>1, QuietLists, LoseLists DEF SyncInv

LEMMA GpuLists ==
    ASSUME SyncInv, ListInv, NEW k \in Key, NEW offload \in BOOLEAN,
           \/ BeginLosesSlot(k, offload) \/ BeginStrands(k, offload)
           \/ \E release \in BOOLEAN : Finish(k, offload, release)
           \/ \E s \in Slot : Begin(k, offload, s) \/ BeginRolledBack(k, offload, s)
    PROVE  ListInv'
<1>1. DestinationTier(offload) \in Tier
  BY DEF DestinationTier, Tier
<1>2. CASE BeginLosesSlot(k, offload)
  BY <1>1, <1>2, SameReplicasLists DEF BeginLosesSlot
<1>3. CASE BeginStrands(k, offload)
  <2>1. MayBegin(k, offload)
    BY <1>3 DEF BeginStrands
  <2>2. CASE /\ replica' = [replica EXCEPT ![k][SourceTier(offload)].state = "COPYING"]
             /\ UNCHANGED <<free, listVars>> \/ LoseSlot(DestinationTier(offload))
    <3>1. SourceTier(offload) \in Tier /\ Has(k, SourceTier(offload)) /\ "COPYING" \in ChunkState
      BY <2>1, MayBeginFacts DEF ChunkState
    <3> QED BY <1>1, <2>2, <3>1, StateLists
  <2>3. CASE \E s \in Next_(DestinationTier(offload)) :
              /\ TakeSlot(s) /\ Relink(s, NoSlot)
              /\ InTransit(k, SourceTier(offload), DestinationTier(offload), s)
    BY <2>1, <2>3, InTransitLists
  <2> QED BY <1>3, <2>2, <2>3 DEF BeginStrands
<1>4. ASSUME NEW release \in BOOLEAN, Finish(k, offload, release)
      PROVE  ListInv'
  BY <1>4, FinishLists
<1>5. ASSUME NEW s \in Slot, Begin(k, offload, s)
      PROVE  ListInv'
  BY <1>5, InTransitLists DEF Begin
<1>6. ASSUME NEW s \in Slot, BeginRolledBack(k, offload, s)
      PROVE  ListInv'
  BY <1>6, SameReplicasLists DEF BeginRolledBack, PlacedInVain
<1> QED BY <1>2, <1>3, <1>4, <1>5, <1>6

LEMMA NvmeLists ==
    ASSUME SyncInv, ListInv, NEW k \in Key,
           \/ NvmeLosesSlot(k, "CPU", "NVME") \/ NvmeLosesSlot(k, "NVME", "CPU")
           \/ \E s \in Slot :
               \/ NvmeFails(k, "CPU", "NVME", s) \/ NvmeFails(k, "NVME", "CPU", s)
               \/ NvmeOnloadEraseThrows(k, s)
               \/ \E release \in BOOLEAN : NvmeOffload(k, s, release) \/ NvmeOnload(k, s, release)
    PROVE  ListInv'
<1>1. "CPU" \in Tier /\ "NVME" \in Tier /\ "CPU" # "NVME"
  BY DEF Tier
<1>2. CASE NvmeLosesSlot(k, "CPU", "NVME") \/ NvmeLosesSlot(k, "NVME", "CPU")
  BY <1>1, <1>2, SameReplicasLists DEF NvmeLosesSlot
<1>3. ASSUME NEW s \in Slot, NvmeFails(k, "CPU", "NVME", s) \/ NvmeFails(k, "NVME", "CPU", s)
      PROVE  ListInv'
  <2>1. UNCHANGED <<replica, free, listVars>>
    BY <1>3 DEF NvmeFails, PlacedInVain
  <2> QED BY <2>1, SameReplicasLists
<1>4. ASSUME NEW s \in Slot, NEW release \in BOOLEAN, NvmeOffload(k, s, release)
      PROVE  ListInv'
  <2>1. PICK a : a = replica[k]["CPU"].slot
    OBVIOUS
  <2>2. /\ Copyable(k, "CPU", "NVME") /\ s \in Next_("NVME")
        /\ MovesReplica(k, "CPU", "NVME", s, release) /\ MovesSlots(s, a, release)
    BY <1>4, <2>1 DEF NvmeOffload, MovesReplica, MovesSlots
  <2> QED BY <1>1, <2>1, <2>2, MoveLists
<1>5. ASSUME NEW s \in Slot, NEW release \in BOOLEAN, NvmeOnload(k, s, release)
      PROVE  ListInv'
  <2>1. PICK a : a = replica[k]["NVME"].slot
    OBVIOUS
  <2>2. /\ Copyable(k, "NVME", "CPU") /\ s \in Next_("CPU")
        /\ MovesReplica(k, "NVME", "CPU", s, release) /\ MovesSlots(s, a, release)
    BY <1>5, <2>1 DEF NvmeOnload, MovesReplica, MovesSlots
  <2> QED BY <1>1, <2>1, <2>2, MoveLists
<1> QED BY <1>2, <1>3, <1>4, <1>5 DEF NvmeOnloadEraseThrows

LEMMA CallerLists ==
    ASSUME SyncInv, ListInv, NEW k \in Key,
           \/ CallerCounts(k)
           \/ \E t \in Tier :
               \/ CallerRemoves(k, t) \/ CallerCondemns(k, t) \/ CallerLosesSlot(k, t)
               \/ \E s \in Slot : CallerFills(k, t, s)
    PROVE  ListInv'
<1>1. CASE CallerCounts(k)
  <2>1. UNCHANGED <<replica, free, listVars>>
    BY <1>1 DEF CallerCounts, Create, Destroy, AddRef, ReleaseRef, Pin, Unpin
  <2> QED BY <2>1, SameReplicasLists
<1>2. ASSUME NEW t \in Tier, CallerRemoves(k, t) PROVE ListInv'
  BY <1>2, RemoveLists
<1>3. ASSUME NEW t \in Tier, CallerCondemns(k, t) PROVE ListInv'
  <2>1. /\ Has(k, t) /\ "ERROR" \in ChunkState
        /\ replica' = [replica EXCEPT ![k][t].state = "ERROR"]
        /\ UNCHANGED <<free, listVars>>
    BY <1>3 DEF CallerCondemns, SetState, ChunkState
  <2> QED BY <2>1, StateLists
<1>4. ASSUME NEW t \in Tier, CallerLosesSlot(k, t) PROVE ListInv'
  BY <1>4, SameReplicasLists DEF CallerLosesSlot
<1>5. ASSUME NEW t \in Tier, NEW s \in Slot, CallerFills(k, t, s) PROVE ListInv'
  BY <1>5, FillLists
<1> QED BY <1>1, <1>2, <1>3, <1>4, <1>5

LEMMA NextLists ==
    ASSUME SyncInv, ListInv, [Next]_vars
    PROVE  ListInv'
<1>1. CASE GpuNext
  BY <1>1, GpuLists DEF GpuNext
<1>2. CASE NvmeNext
  BY <1>2, NvmeLists DEF NvmeNext
<1>3. CASE CallerNext
  BY <1>3, CallerLists DEF CallerNext
<1>4. CASE DeviceCopies \/ DestroyTransfers \/ (\E n \in NvmeSlot : FileLost(n)) \/ UNCHANGED vars
  <2>1. UNCHANGED tierVars
    BY <1>4 DEF DeviceCopies, DestroyTransfers, FileLost, vars
  <2> QED BY <2>1, SameReplicasLists DEF tierVars, dirVars
<1> QED BY <1>1, <1>2, <1>3, <1>4 DEF Next

\* The free lists and the counters of the tiers are what the flags and the
\* directory say, whatever is rolled back, stranded or lost.
THEOREM FreeListsAreExact == Spec => []FreeListExact
<1>1. Init => SyncInv /\ ListInv
  BY InitSound, InitLists
<1>2. SyncInv /\ ListInv /\ [Next]_vars => (SyncInv /\ ListInv)'
  BY NextSound, NextLists DEF Sound
<1>3. ListInv => FreeListExact
  BY ListInvExact
<1> QED BY <1>1, <1>2, <1>3, PTL DEF Spec

-----------------------------------------------------------------------------
(* SyncTransfers implements ChunkResidency, for every chunk.               *)
(*                                                                         *)
(* A step changes what ChunkResidency sees of one chunk at most (Lone);    *)
(* only the destructor gives up several chunks at once.                    *)

\* Only chunk k looks different after the step.
Lone(k) ==
    \A j \in Key \ {k} :
        /\ replica'[j] = replica[j]
        /\ j \in stranded' <=> j \in stranded
        /\ IsPending(j)' <=> IsPending(j)
        /\ IsPending(j) => pending'[j].offload = pending[j].offload

LEMMA SameView ==
    ASSUME NEW j \in Key,
           replica'[j] = replica[j], j \in stranded' <=> j \in stranded,
           IsPending(j)' <=> IsPending(j),
           IsPending(j) => pending'[j].offload = pending[j].offload
    PROVE  UNCHANGED Residency(j)!resVars
<1>1. \A t \in Tier : Readable(j, t)' <=> Readable(j, t)
  BY DEF Readable, IsReady, Has
<1> QED BY <1>1 DEF Residency!resVars

\* What is to be shown of every step.
Implemented == \A k \in Key : [Residency(k)!ResNext]_(Residency(k)!resVars)

LEMMA LoneStep ==
    ASSUME NEW k \in Key, Lone(k), Residency(k)!ResNext \/ UNCHANGED Residency(k)!resVars
    PROVE  Implemented
<1> SUFFICES ASSUME NEW j \in Key
             PROVE  Residency(j)!ResNext \/ UNCHANGED Residency(j)!resVars
  BY DEF Implemented
<1>1. CASE j = k
  BY <1>1
<1>2. CASE j # k
  BY <1>2, SameView DEF Lone
<1> QED BY <1>1, <1>2

\* A step that nobody sees.
LEMMA UnseenStep ==
    ASSUME UNCHANGED <<replica, stranded>>,
           \A j \in Key : /\ IsPending(j)' <=> IsPending(j)
                          /\ IsPending(j) => pending'[j].offload = pending[j].offload
    PROVE  Implemented
<1>1. \A j \in Key : UNCHANGED Residency(j)!resVars
  BY SameView
<1> QED BY <1>1 DEF Implemented

-----------------------------------------------------------------------------
(* GpuCpuTransfer.                                                         *)

\* The two tiers of a transfer.
LEMMA Route ==
    ASSUME NEW offload \in BOOLEAN, NEW src, NEW dst,
           src = SourceTier(offload), dst = DestinationTier(offload)
    PROVE  /\ src \in {"GPU", "CPU"} /\ dst \in {"GPU", "CPU"}
           /\ src \in Tier /\ dst \in Tier
           /\ src # dst /\ "CPU" \in {src, dst}
BY DEF SourceTier, DestinationTier, Tier

LEMMA BeginBegins ==
    ASSUME SyncInv, NEW k \in Key, NEW offload \in BOOLEAN, NEW s \in Slot, Begin(k, offload, s)
    PROVE  Implemented
<1>1. PICK src, dst : src = SourceTier(offload) /\ dst = DestinationTier(offload)
  OBVIOUS
<1>2. /\ src \in Tier /\ dst \in Tier /\ dst \in {"GPU", "CPU"}
      /\ src # dst /\ "CPU" \in {src, dst}
  BY <1>1, Route
<1>3. /\ ~IsPending(k) /\ IsReady(k, src) /\ Has(k, src) /\ ~Has(k, dst)
      /\ s \in Slot
  BY <1>1, MayBeginFacts DEF Begin
<1>4. PICK entry : /\ pending' = [pending EXCEPT ![k] = entry]
                   /\ entry.offload = offload /\ entry # NoTransfer
  <2>1. PICK entry :
          /\ entry = [offload |-> offload, done |-> "pending",
                      source |-> LocationOf(k, src),
                      destination |-> [slot |-> s, generation |-> gen[s] + 1]]
          /\ pending' = [pending EXCEPT ![k] = entry]
    BY <1>1 DEF Begin
  <2>2. LocationOf(k, src) \in Location
    BY <1>2, <1>3, HeldSlot DEF LocationOf, Location, Replica, SyncInv, ChunkInv
  <2>3. [slot |-> s, generation |-> gen[s] + 1] \in Location
    BY DEF Location, SyncInv, Types, DirTypeOK
  <2>4. entry \in Transfer
    BY <2>1, <2>2, <2>3 DEF Transfer
  <2>5. entry.offload = offload
    BY <2>1
  <2>6. entry # NoTransfer
    BY <2>4, TransferConstants
  <2> QED BY <2>1, <2>5, <2>6
<1>5. /\ IsPending(k)' /\ pending'[k].offload = offload
      /\ \A j \in Key \ {k} : pending'[j] = pending[j]
  BY <1>4 DEF IsPending, SyncInv, Types
<1>6. /\ OthersReplicas(k) /\ UNCHANGED stranded
      /\ \A t \in Tier \ {src, dst} : replica'[k][t] = replica[k][t]
      /\ Has(k, src)' /\ replica'[k][src].state = "COPYING"
      /\ Has(k, dst)' /\ replica'[k][dst].state = DestinationState(dst)
  <2>1. Types /\ InTransit(k, src, dst, s) /\ UNCHANGED stranded
    BY <1>1 DEF Begin, SyncInv
  <2> QED BY <1>2, <1>3, <2>1, InTransitFacts
<1>7. Lone(k)
  BY <1>5, <1>6 DEF Lone, OthersReplicas, IsPending
<1>8. \A t \in Tier : Readable(k, t)' <=> Readable(k, t)
  <2>1. \A t \in Tier \ {src, dst} : Readable(k, t)' <=> Readable(k, t)
    BY <1>1, <1>3, <1>5, <1>6 DEF Readable, IsReady, Has
  <2>2. Readable(k, src)' /\ Readable(k, src)
    BY <1>1, <1>3, <1>5 DEF Readable
  <2>3. ~Readable(k, dst)' /\ ~Readable(k, dst)
    BY <1>1, <1>2, <1>3, <1>5, <1>6 DEF Readable, IsReady, DestinationState
  <2> QED BY <2>1, <2>2, <2>3
<1>9. Residency(k)!Begin(src, dst)
  <2>1. Readable(k, src) /\ ~Readable(k, dst)
    BY <1>2, <1>3 DEF Readable, IsReady
  <2> QED BY <1>1, <1>2, <1>3, <1>5, <1>6, <1>8, <2>1
          DEF Residency!Begin, Residency!MayCopy, Residency!Neighbours
<1>10. Residency(k)!ResNext
  BY <1>2, <1>9 DEF Residency!ResNext, Residency!Tier, Tier
<1> QED BY <1>7, <1>10, LoneStep

LEMMA StrandStrands ==
    ASSUME SyncInv, NEW k \in Key, NEW offload \in BOOLEAN, BeginStrands(k, offload)
    PROVE  Implemented
<1>1. PICK src, dst : src = SourceTier(offload) /\ dst = DestinationTier(offload)
  OBVIOUS
<1>2. /\ src \in Tier /\ dst \in Tier /\ dst \in {"GPU", "CPU"} /\ src # dst
  BY <1>1, Route
<1>3. /\ ~IsPending(k) /\ IsReady(k, src) /\ Has(k, src) /\ ~Has(k, dst)
  BY <1>1, MayBeginFacts DEF BeginStrands
<1>4. UNCHANGED pending /\ stranded' = stranded \cup {k}
  BY DEF BeginStrands
<1>5. /\ OthersReplicas(k)
      /\ \A t \in Tier \ {src, dst} : replica'[k][t] = replica[k][t]
      /\ replica'[k][src].state = "COPYING"
      /\ ~IsReady(k, dst)'
  <2>1. CASE replica' = [replica EXCEPT ![k][src].state = "COPYING"]
    <3>1. /\ OthersReplicas(k)
          /\ \A t \in Tier \ {src} : replica'[k][t] = replica[k][t]
          /\ replica'[k][src].state = "COPYING"
      BY <1>2, <1>3, <2>1, StateFacts DEF SyncInv, ChunkState
    <3> QED BY <1>2, <1>3, <3>1 DEF IsReady, Has
  <2>2. ASSUME NEW s \in Next_(dst), InTransit(k, src, dst, s)
        PROVE  /\ OthersReplicas(k)
               /\ \A t \in Tier \ {src, dst} : replica'[k][t] = replica[k][t]
               /\ replica'[k][src].state = "COPYING"
               /\ replica'[k][dst].state = DestinationState(dst)
    <3>1. Types
      BY DEF SyncInv
    <3>2. s \in Slot
      BY <1>2, <3>1, NextSlot
    <3> QED BY <1>2, <1>3, <2>2, <3>1, <3>2, InTransitFacts
  <2> QED BY <1>1, <2>1, <2>2 DEF BeginStrands, IsReady, DestinationState
<1>6. Lone(k)
  BY <1>4, <1>5 DEF Lone, OthersReplicas, IsPending
<1>7. \A t \in Tier : Readable(k, t)' <=> Readable(k, t) /\ t # src
  <2>1. \A t \in Tier \ {src, dst} : Readable(k, t)' <=> Readable(k, t)
    BY <1>3, <1>4, <1>5 DEF Readable, IsReady, Has, IsPending
  <2>2. ~Readable(k, src)' /\ ~Readable(k, dst)' /\ ~Readable(k, dst)
    BY <1>3, <1>4, <1>5 DEF Readable, IsReady, IsPending
  <2> QED BY <2>1, <2>2
<1>8. Residency(k)!Strand(src)
  <2>1. Readable(k, src) /\ ~IsPending(k)' /\ k \in stranded'
    BY <1>3, <1>4 DEF Readable, IsPending
  <2> QED BY <1>2, <1>3, <1>7, <2>1 DEF Residency!Strand
<1>9. Residency(k)!ResNext
  BY <1>2, <1>8 DEF Residency!ResNext, Residency!Tier, Tier
<1> QED BY <1>6, <1>9, LoneStep

LEMMA FinishEnds ==
    ASSUME SyncInv, NEW k \in Key, NEW offload \in BOOLEAN, NEW release \in BOOLEAN,
           Finish(k, offload, release)
    PROVE  Implemented
<1>1. PICK src, dst : src = SourceTier(offload) /\ dst = DestinationTier(offload)
  OBVIOUS
<1>2. /\ IsPending(k) /\ pending[k].offload = offload
      /\ Settle(k, src, dst, release)
      /\ pending' = [pending EXCEPT ![k] = NoTransfer]
      /\ UNCHANGED stranded
  BY <1>1 DEF Finish
<1>3. /\ src \in Tier /\ dst \in Tier /\ src # dst /\ Has(k, src) /\ Has(k, dst)
  BY <1>1, <1>2, PendingFacts DEF SyncInv, ChunkInv
<1>4. /\ OthersReplicas(k)
      /\ \A t \in Tier \ {src, dst} : replica'[k][t] = replica[k][t]
      /\ Has(k, dst)' /\ replica'[k][dst].state = "READY"
      /\ ~release => Has(k, src)' /\ replica'[k][src].state = "READY"
      /\ release => ~Has(k, src)'
  BY <1>2, <1>3, SettleFacts DEF Kept
<1>5. ~IsPending(k)' /\ \A j \in Key \ {k} : pending'[j] = pending[j]
  BY <1>2 DEF IsPending, SyncInv, Types
<1>6. Lone(k)
  BY <1>2, <1>4, <1>5 DEF Lone, OthersReplicas, IsPending
<1>7. /\ \A t \in Tier \ {src, dst} : Readable(k, t)' <=> Readable(k, t)
      /\ Readable(k, dst)'
      /\ Readable(k, src)' <=> ~release
      /\ Readable(k, src)
  BY <1>1, <1>2, <1>3, <1>4, <1>5 DEF Readable, IsReady, Has
<1>8. Residency(k)!End(release)
  <2>1. {t \in Tier : Readable(k, t)'}
          = ({t \in Tier : Readable(k, t)} \cup {dst}) \ (IF release THEN {src} ELSE {})
    BY <1>3, <1>7
  <2>2. [from |-> src, to |-> dst] # Still
    BY <1>3, TransferConstants
  <2> QED BY <1>1, <1>2, <1>5, <2>1, <2>2 DEF Residency!End, Residency!Arrived
<1>9. Residency(k)!ResNext
  BY <1>8 DEF Residency!ResNext
<1> QED BY <1>6, <1>9, LoneStep

\* The transfers the destructor does not finish are stranded, and no other
\* chunk notices.
LEMMA DestroyStrands ==
    ASSUME SyncInv, DestroyTransfers
    PROVE  Implemented
<1> SUFFICES ASSUME NEW j \in Key
             PROVE  Residency(j)!ResNext \/ UNCHANGED Residency(j)!resVars
  BY DEF Implemented
<1>1. /\ replica'[j] = replica[j] /\ ~IsPending(j)'
      /\ j \in stranded' <=> j \in stranded \/ IsPending(j)
  BY DEF DestroyTransfers, tierVars, dirVars, IsPending
<1>2. \A t \in Tier : IsReady(j, t)' <=> IsReady(j, t)
  BY <1>1 DEF IsReady, Has
<1>3. CASE ~IsPending(j)
  BY <1>1, <1>3, SameView
<1>4. CASE IsPending(j)
  <2>1. PICK src \in Tier : src = SourceTier(pending[j].offload)
    BY DEF SourceTier, Tier
  <2>2. ~IsReady(j, src)
    BY <1>4, <2>1, PendingFacts DEF IsReady, SyncInv, ChunkInv
  <2>3. \A t \in Tier : Readable(j, t)' <=> Readable(j, t) /\ t # src
    BY <1>1, <1>2, <1>4, <2>1, <2>2 DEF Readable
  <2>4. Readable(j, src)
    BY <1>4, <2>1 DEF Readable
  <2>5. Residency(j)!Strand(src)
    BY <1>1, <1>4, <2>1, <2>3, <2>4 DEF Residency!Strand
  <2> QED BY <2>1, <2>5 DEF Residency!ResNext, Residency!Tier, Tier
<1> QED BY <1>3, <1>4

\* The residency of a chunk tells nothing of how far its copy has come.
LEMMA DeviceUnseen ==
    ASSUME SyncInv, DeviceCopies
    PROVE  Implemented
<1>1. PICK k : k = Head(stream)
  OBVIOUS
<1>2. stream \in Seq(Key) /\ stream # <<>> /\ 1 \in 1..Len(stream) /\ k = stream[1] /\ k \in Key
  BY <1>1, HeadTailProperties, LenProperties, EmptySeq DEF DeviceCopies, SyncInv, Types
<1>3. IsPending(k) /\ pending \in [Key -> Transfer \cup {NoTransfer}] /\ pending[k] \in Transfer
  BY <1>2 DEF SyncInv, Types, StreamExact, IsPending
<1>4. PICK how \in {"ok", "error"} : pending' = [pending EXCEPT ![k].done = how]
  BY <1>1 DEF DeviceCopies
<1>5. PICK entry : entry = [pending[k] EXCEPT !.done = how]
  OBVIOUS
<1>6. pending'[k] = entry /\ \A j \in Key \ {k} : pending'[j] = pending[j]
  BY <1>2, <1>3, <1>4, <1>5
<1>7. entry \in Transfer /\ entry.offload = pending[k].offload
  BY <1>3, <1>5 DEF Transfer
<1>8. entry # NoTransfer
  BY <1>7, TransferConstants
<1>9. \A j \in Key : /\ IsPending(j)' <=> IsPending(j)
                     /\ IsPending(j) => pending'[j].offload = pending[j].offload
  BY <1>3, <1>6, <1>7, <1>8 DEF IsPending
<1> QED BY <1>9, UnseenStep DEF DeviceCopies, tierVars, dirVars

-----------------------------------------------------------------------------
(* NvmeTransfer.                                                           *)

\* A chunk whose CPU replica is READY or missing is in no transfer.
LEMMA NoTransferAtCpu ==
    ASSUME SyncInv, NEW k \in Key, ~Moving(k, "CPU")
    PROVE  ~IsPending(k)
<1> SUFFICES ASSUME IsPending(k) PROVE Moving(k, "CPU")
  OBVIOUS
<1>1. "CPU" = SourceTier(pending[k].offload) \/ "CPU" = DestinationTier(pending[k].offload)
  BY DEF SourceTier, DestinationTier
<1> QED BY <1>1, PendingFacts DEF Moving, DestinationState, SyncInv, ChunkInv

LEMMA MoveCopies ==
    ASSUME SyncInv, NEW k \in Key,
           NEW src \in {"CPU", "NVME"}, NEW dst \in {"CPU", "NVME"}, src # dst,
           Copyable(k, src, dst), NEW s \in Slot, NEW release \in BOOLEAN,
           MovesReplica(k, src, dst, s, release),
           UNCHANGED <<pending, stranded>>
    PROVE  Implemented
<1>1. /\ src \in Tier /\ dst \in Tier /\ "CPU" \in {src, dst}
      /\ IsReady(k, src) /\ Has(k, src) /\ ~Has(k, dst)
  BY DEF Copyable, IsReady, Tier
<1>2. /\ OthersReplicas(k)
      /\ \A t \in Tier \ {src, dst} : replica'[k][t] = replica[k][t]
      /\ Has(k, dst)' /\ replica'[k][dst].state = "READY"
      /\ ~release => replica'[k][src] = replica[k][src]
      /\ release => ~Has(k, src)'
  BY <1>1, MoveFacts
<1>3. ~IsPending(k) /\ ~IsPending(k)'
  <2>1. ~Moving(k, "CPU")
    BY <1>1 DEF Moving, IsReady
  <2> QED BY <2>1, NoTransferAtCpu DEF IsPending
<1>4. Lone(k)
  BY <1>2 DEF Lone, OthersReplicas, IsPending
<1>5. \A t \in Tier : Readable(k, t) <=> IsReady(k, t)
  BY <1>3 DEF Readable
<1>6. \A t \in Tier : Readable(k, t)' <=> IsReady(k, t)'
  BY <1>3 DEF Readable
<1>7. /\ \A t \in Tier \ {src, dst} : Readable(k, t)' <=> Readable(k, t)
      /\ Readable(k, src) /\ ~Readable(k, dst)
      /\ Readable(k, dst)' /\ (Readable(k, src)' <=> ~release)
  BY <1>1, <1>2, <1>5, <1>6 DEF IsReady, Has
<1>8. Residency(k)!Copy(src, dst, release)
  <2>1. {t \in Tier : Readable(k, t)'}
          = ({t \in Tier : Readable(k, t)} \cup {dst}) \ (IF release THEN {src} ELSE {})
    BY <1>1, <1>7
  <2> QED BY <1>1, <1>3, <1>7, <2>1
          DEF Residency!Copy, Residency!MayCopy, Residency!Neighbours, Residency!Arrived
<1>9. Residency(k)!ResNext
  BY <1>1, <1>8 DEF Residency!ResNext, Residency!Tier, Tier
<1> QED BY <1>4, <1>9, LoneStep

LEMMA NvmeCopies ==
    ASSUME SyncInv, NEW k \in Key, NEW s \in Slot, NEW release \in BOOLEAN,
           NvmeOffload(k, s, release) \/ NvmeOnload(k, s, release)
    PROVE  Implemented
<1>1. CASE NvmeOffload(k, s, release)
  <2>1. /\ Copyable(k, "CPU", "NVME")
        /\ MovesReplica(k, "CPU", "NVME", s, release)
        /\ UNCHANGED <<pending, stranded>>
    BY <1>1 DEF NvmeOffload, MovesReplica, xferVars
  <2> QED BY <2>1, MoveCopies
<1>2. CASE NvmeOnload(k, s, release)
  <2>1. /\ Copyable(k, "NVME", "CPU")
        /\ MovesReplica(k, "NVME", "CPU", s, release)
        /\ UNCHANGED <<pending, stranded>>
    BY <1>2 DEF NvmeOnload, MovesReplica, xferVars
  <2> QED BY <2>1, MoveCopies
<1> QED BY <1>1, <1>2

-----------------------------------------------------------------------------
(* The caller.                                                             *)

LEMMA FillFills ==
    ASSUME SyncInv, NEW k \in Key, NEW t \in Tier, NEW s \in Slot, CallerFills(k, t, s)
    PROVE  Implemented
<1>1. /\ \A u \in Tier : ~Has(k, u)
      /\ replica' = [replica EXCEPT ![k][t] = FreshReplica(s, "READY")]
      /\ UNCHANGED <<pending, stranded>>
  BY DEF CallerFills, PlaceLinked, Place, CallerFrame, xferVars
<1>2. /\ replica \in [Key -> [Tier -> Replica \cup {NoReplica}]] /\ gen \in [Slot -> Nat]
  BY DEF SyncInv, Types, DirTypeOK
<1>3. /\ FreshReplica(s, "READY") \in Replica
      /\ FreshReplica(s, "READY").state = "READY"
  BY <1>2 DEF FreshReplica, Replica, ChunkState
<1>4. /\ OthersReplicas(k)
      /\ \A u \in Tier \ {t} : replica'[k][u] = replica[k][u]
      /\ replica'[k][t] = FreshReplica(s, "READY")
  BY <1>1, <1>2 DEF OthersReplicas
<1>5. ~IsPending(k) /\ ~IsPending(k)'
  <2>1. ~Moving(k, "CPU")
    BY <1>1 DEF Moving, Tier
  <2> QED BY <1>1, <2>1, NoTransferAtCpu DEF IsPending
<1>6. Lone(k)
  BY <1>1, <1>4 DEF Lone, OthersReplicas, IsPending
<1>7. /\ \A u \in Tier : ~Readable(k, u)
      /\ Readable(k, t)' /\ \A u \in Tier \ {t} : ~Readable(k, u)'
  BY <1>1, <1>3, <1>4, <1>5, NoReplicaIsNone DEF Readable, IsReady, Has
<1>8. Residency(k)!Fill(t)
  BY <1>1, <1>5, <1>7 DEF Residency!Fill
<1>9. Residency(k)!ResNext
  BY <1>8 DEF Residency!ResNext, Residency!Tier, Tier
<1> QED BY <1>6, <1>9, LoneStep

\* A replica at rest is condemned or removed.
LEMMA RestingDropped ==
    ASSUME SyncInv, NEW k \in Key, NEW t \in Tier, Has(k, t),
           replica[k][t].state \in {"READY", "ERROR"},
           OthersReplicas(k), \A u \in Tier \ {t} : replica'[k][u] = replica[k][u],
           ~IsReady(k, t)',
           UNCHANGED <<pending, stranded>>
    PROVE  Implemented
<1>1. IsPending(k) => t # SourceTier(pending[k].offload)
  BY AtRest
<1>2. IsPending(k)' <=> IsPending(k)
  BY DEF IsPending
<1>3. Lone(k)
  BY DEF Lone, OthersReplicas, IsPending
<1>4. /\ \A u \in Tier \ {t} : Readable(k, u)' <=> Readable(k, u)
      /\ ~Readable(k, t)'
  BY <1>1, <1>2 DEF Readable, IsReady, Has
<1>5. CASE Readable(k, t)
  <2>1. Residency(k)!Drop(t)
    BY <1>1, <1>2, <1>4, <1>5 DEF Residency!Drop
  <2>2. Residency(k)!ResNext
    BY <2>1 DEF Residency!ResNext, Residency!Tier, Tier
  <2> QED BY <1>3, <2>2, LoneStep
<1>6. CASE ~Readable(k, t)
  <2>1. \A u \in Tier : Readable(k, u)' <=> Readable(k, u)
    BY <1>4, <1>6
  <2>2. UNCHANGED Residency(k)!resVars
    BY <1>2, <2>1 DEF Residency!resVars
  <2> QED BY <1>3, <2>2, LoneStep
<1> QED BY <1>5, <1>6

LEMMA CondemnDrops ==
    ASSUME SyncInv, NEW k \in Key, NEW t \in Tier, CallerCondemns(k, t)
    PROVE  Implemented
<1>1. /\ IsReady(k, t) /\ Has(k, t)
      /\ replica' = [replica EXCEPT ![k][t].state = "ERROR"]
      /\ UNCHANGED <<pending, stranded>>
  BY DEF CallerCondemns, SetState, IsReady, CallerFrame, xferVars
<1>2. /\ OthersReplicas(k)
      /\ \A u \in Tier \ {t} : replica'[k][u] = replica[k][u]
      /\ replica'[k][t].state = "ERROR"
  BY <1>1, StateFacts DEF SyncInv, ChunkState
<1> QED BY <1>1, <1>2, RestingDropped DEF IsReady

LEMMA RemoveDrops ==
    ASSUME SyncInv, NEW k \in Key, NEW t \in Tier, CallerRemoves(k, t)
    PROVE  Implemented
<1>1. /\ Has(k, t) /\ replica[k][t].state \in {"READY", "ERROR"}
      /\ replica' = [replica EXCEPT ![k][t] = NoReplica]
      /\ UNCHANGED <<pending, stranded>>
  BY DEF CallerRemoves, RemoveLinked, Remove, Removable, CallerFrame, xferVars
<1>2. replica \in [Key -> [Tier -> Replica \cup {NoReplica}]]
  BY DEF SyncInv, Types, DirTypeOK
<1>3. /\ OthersReplicas(k)
      /\ \A u \in Tier \ {t} : replica'[k][u] = replica[k][u]
      /\ ~IsReady(k, t)'
  BY <1>1, <1>2 DEF OthersReplicas, IsReady, Has
<1> QED BY <1>1, <1>3, RestingDropped

\* References, pins, generations and lost slots, which residency leaves out.
LEMMA CountsUnseen ==
    ASSUME NEW k \in Key, CallerCounts(k)
    PROVE  Implemented
<1>1. UNCHANGED <<replica, pending, stranded>>
  BY DEF CallerCounts, CallerFrame, xferVars, Create, Destroy, AddRef, ReleaseRef, Pin, Unpin
<1> QED BY <1>1, UnseenStep DEF IsPending

LEMMA TransfersUntouched ==
    ASSUME UNCHANGED <<replica, xferVars>>
    PROVE  Implemented
BY UnseenStep DEF IsPending, xferVars

-----------------------------------------------------------------------------
(* All steps.                                                              *)

LEMMA NextImplemented ==
    ASSUME SyncInv, [Next]_vars
    PROVE  Implemented
<1>1. CASE GpuNext
  <2>1. PICK k \in Key, offload \in BOOLEAN :
          \/ BeginLosesSlot(k, offload) \/ BeginStrands(k, offload)
          \/ \E release \in BOOLEAN : Finish(k, offload, release)
          \/ \E s \in Slot : Begin(k, offload, s) \/ BeginRolledBack(k, offload, s)
    BY <1>1 DEF GpuNext
  <2>2. CASE BeginLosesSlot(k, offload)
    BY <2>2, TransfersUntouched DEF BeginLosesSlot
  <2>3. ASSUME NEW s \in Slot, BeginRolledBack(k, offload, s)
        PROVE  Implemented
    BY <2>3, TransfersUntouched DEF BeginRolledBack, PlacedInVain
  <2> QED BY <2>1, <2>2, <2>3, StrandStrands, FinishEnds, BeginBegins
<1>2. CASE NvmeNext
  <2>1. PICK k \in Key :
          \/ NvmeLosesSlot(k, "CPU", "NVME") \/ NvmeLosesSlot(k, "NVME", "CPU")
          \/ \E s \in Slot :
              \/ NvmeFails(k, "CPU", "NVME", s) \/ NvmeFails(k, "NVME", "CPU", s)
              \/ NvmeOnloadEraseThrows(k, s)
              \/ \E release \in BOOLEAN : NvmeOffload(k, s, release) \/ NvmeOnload(k, s, release)
    BY <1>2 DEF NvmeNext
  <2>2. CASE NvmeLosesSlot(k, "CPU", "NVME") \/ NvmeLosesSlot(k, "NVME", "CPU")
    BY <2>2, TransfersUntouched DEF NvmeLosesSlot
  <2>3. ASSUME NEW s \in Slot, NvmeFails(k, "CPU", "NVME", s) \/ NvmeFails(k, "NVME", "CPU", s)
        PROVE  Implemented
    <3>1. UNCHANGED <<replica, xferVars>>
      BY <2>3 DEF NvmeFails, PlacedInVain
    <3> QED BY <3>1, TransfersUntouched
  <2>4. ASSUME NEW s \in Slot, NvmeOnloadEraseThrows(k, s)
        PROVE  Implemented
    BY <2>4, NvmeCopies DEF NvmeOnloadEraseThrows
  <2>5. ASSUME NEW s \in Slot, NEW release \in BOOLEAN,
               NvmeOffload(k, s, release) \/ NvmeOnload(k, s, release)
        PROVE  Implemented
    BY <2>5, NvmeCopies
  <2> QED BY <2>1, <2>2, <2>3, <2>4, <2>5
<1>3. CASE CallerNext
  <2>1. PICK k \in Key :
          \/ CallerCounts(k)
          \/ \E t \in Tier :
              \/ CallerRemoves(k, t) \/ CallerCondemns(k, t) \/ CallerLosesSlot(k, t)
              \/ \E s \in Slot : CallerFills(k, t, s)
    BY <1>3 DEF CallerNext
  <2>2. ASSUME NEW t \in Tier, CallerLosesSlot(k, t)
        PROVE  Implemented
    BY <2>2, TransfersUntouched DEF CallerLosesSlot, CallerFrame
  <2> QED BY <2>1, <2>2, CountsUnseen, RemoveDrops, CondemnDrops, FillFills
<1>4. CASE DeviceCopies
  BY <1>4, DeviceUnseen
<1>5. CASE DestroyTransfers
  BY <1>5, DestroyStrands
<1>6. ASSUME NEW n \in NvmeSlot, FileLost(n)
      PROVE  Implemented
  BY <1>6, TransfersUntouched DEF FileLost, CallerFrame, tierVars, dirVars
<1>7. CASE UNCHANGED vars
  BY <1>7, TransfersUntouched DEF vars, tierVars, dirVars
<1> QED BY <1>1, <1>2, <1>3, <1>4, <1>5, <1>6, <1>7 DEF Next

LEMMA InitImplemented == Init => \A k \in Key : Residency(k)!ResInit
<1> SUFFICES ASSUME Init, NEW k \in Key
             PROVE  Residency(k)!ResInit
  OBVIOUS
<1>1. ~IsPending(k) /\ k \notin stranded
  BY DEF Init, IsPending
<1>2. \A t \in Tier : ~Has(k, t)
  BY DEF Init, TiersInit, DirInit, Has
<1>3. {t \in Tier : Readable(k, t)} = {}
  BY <1>1, <1>2 DEF Readable, IsReady
<1> QED BY <1>1, <1>3 DEF Residency!ResInit

\* Whatever tiers, chunks and faults there are: between the calls of both
\* transfer classes a copy of a chunk is given up only when the next one has
\* arrived, or in one of the ways ChunkResidency names (finish of
\* gpu_cpu_transfer.cpp, offload and onload of nvme_transfer.cpp).
THEOREM TransfersImplementResidency == Spec => ResidencyImplemented
<1>1. SyncInv /\ [Next]_vars =>
        [\A k \in Key : [Residency(k)!ResNext]_(Residency(k)!resVars)]_vars
  BY NextImplemented DEF Implemented
<1> QED BY InvAlways, InitImplemented, <1>1, PTL DEF Spec, ResidencyImplemented
=============================================================================
