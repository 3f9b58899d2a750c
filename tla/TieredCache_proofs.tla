-------------------------- MODULE TieredCache_proofs --------------------------
(* Proofs about TieredCache, for any pool, any blocks and any bounds: what *)
(* a lease may rely on, that no content is lost, that slots, candidates    *)
(* and prefetches are counted right, and that a queued load gets its slot. *)
(*                                                                         *)
(* Four layers: lists and finite sets; what a start_load, a start_offload, *)
(* a finish and a failed copy do to the entries, whoever calls them; the   *)
(* stack of a call and what its steps still count on; and then every step  *)
(* and every call on all of it.                                            *)
EXTENDS TieredCache, SequenceTheorems, FiniteSetTheorems, TLAPS

-----------------------------------------------------------------------------
(* The inductive invariant.                                                *)

Copying(b) == move[b] \in {"ToCpu", "ToGpu"}
OnItsWay(b) == loc[b] = "GPU" \/ move[b] \in {"ToGpu", "QueuedLoad"}

EntryTypes ==
    /\ refs \in [Block -> Nat] /\ pins \in [Block -> Nat]
    /\ loc \in [Block -> Location] /\ move \in [Block -> Move]
    /\ slot \in [Block -> GpuSlot \cup {NoSlot}]
    /\ prefetched \in [Block -> BOOLEAN]
    /\ slotRefs \in [GpuSlot -> Nat]
    /\ DOMAIN gpuData = GpuSlot /\ DOMAIN hostData = Block

\* Location, move and slot of a block.
PlaceOk(b) ==
    /\ loc[b] = "TRANSFERRING" <=> move[b] # "None"
    /\ slot[b] = NoSlot <=> (loc[b] = "CPU" \/ move[b] = "QueuedLoad")

\* Nothing but a live block has a place on the GPU, a lease or a prefetch.
UseOk(b) ==
    /\ loc[b] # "CPU" => refs[b] > 0
    /\ pins[b] > 0 => loc[b] = "GPU"
    /\ refs[b] >= pins[b]
    /\ prefetched[b] => OnItsWay(b)

KeptOk(b) ==
    Live(b) => IF loc[b] = "GPU" \/ move[b] = "ToCpu"
               THEN gpuData[slot[b]] = b ELSE hostData[b] = b

\* The lists a block is on.
ListsOk(b) ==
    /\ b \in ToSet(lru) <=> (loc[b] = "GPU" /\ pins[b] = 0)
    /\ b \in ToSet(pending) <=> Copying(b)
    /\ (b \in ToSet(queued) \/ b \in ToSet(work)) <=> move[b] = "QueuedLoad"

\* A slot has one block, and one more reference while it is copied.
SlotOk(b) ==
    slot[b] # NoSlot =>
        /\ slotRefs[slot[b]] = IF Copying(b) THEN 2 ELSE 1
        /\ \A c \in Block : slot[c] = slot[b] => c = b

BlocksInv ==
    \A b \in Block : PlaceOk(b) /\ UseOk(b) /\ KeptOk(b) /\ ListsOk(b) /\ SlotOk(b)

CopyOf(b) == [slot |-> slot[b], buffer |-> b, write |-> move[b] = "ToGpu"]

PoolInv ==
    /\ \A s \in GpuSlot : (\A b \in Block : slot[b] # s) => slotRefs[s] = 0
    /\ \A f : f \in flight <=> \E b \in Block : Copying(b) /\ f = CopyOf(b)

ListInv ==
    /\ lru \in Seq(Block) /\ pending \in Seq(Block)
    /\ queued \in Seq(Block) /\ work \in Seq(Block)
    /\ IsInjective(lru) /\ IsInjective(pending)
    /\ IsInjective(queued) /\ IsInjective(work)
    /\ work # <<>> => queued = <<>>

Core == EntryTypes /\ BlocksInv /\ PoolInv /\ ListInv

CountInv == uncounted = Cardinality({b \in Block : prefetched[b]})

\* The steps.
PlainOps == {"wait", "dispatch", "poll", "makeRoom", "evict"}
BlockOps == {"load", "startLoad", "settle", "pin", "created", "offload", "release"}
LastOps == {"prefetch", "pin", "created", "offload", "release"}
LoadOps == {"load", "startLoad"}

Steps ==
    [op : PlainOps] \cup [op : BlockOps \ {"pin"}, block : Block]
    \cup [op : {"pin"}, block : Block, prefetched : BOOLEAN]
    \cup [op : {"prefetch"}, window : Seq(Block) \ {<<>>}, protected : SUBSET Block]

WillLoad(s) == \E i \in DOMAIN s : s[i].op \in LoadOps
WillStart(s) == \E i \in DOMAIN s : s[i].op = "startLoad"
AllOn(b, s) == \A i \in DOMAIN s : s[i].op \in BlockOps => s[i].block = b
AfterLoad(s) == \A i \in DOMAIN s : s[i].op \in {"wait", "created", "settle", "pin"}

\* x may come right before the steps s.
Before(x, s) ==
    /\ s # <<>> => s[1].op \notin {"dispatch", "poll"}
    /\ s # <<>> /\ s[1].op = "pin" => x.op \in {"wait", "settle"}
    /\ x.op \in LastOps => s = <<>>
    /\ x.op \in LoadOps => AfterLoad(s)
    /\ x.op \in BlockOps => AllOn(x.block, s)
    /\ x.op \in {"makeRoom", "evict"} => WillStart(s)

\* The same, of the i-th step of a call in progress.
InPlace(s, i) ==
    /\ i + 1 \in DOMAIN s => s[i + 1].op \notin {"dispatch", "poll"}
    /\ i + 1 \in DOMAIN s /\ s[i + 1].op = "pin" => s[i].op \in {"wait", "settle"}
    /\ s[i].op \in LastOps => i + 1 \notin DOMAIN s
    /\ s[i].op \in LoadOps =>
         \A j \in DOMAIN s : j > i => s[j].op \in {"wait", "created", "settle", "pin"}
    /\ s[i].op \in BlockOps =>
         \A j \in DOMAIN s : j > i /\ s[j].op \in BlockOps => s[j].block = s[i].block
    /\ s[i].op \in {"makeRoom", "evict"} => \E j \in DOMAIN s : j > i /\ s[j].op = "startLoad"

Stack(s) == \A i \in DOMAIN s : InPlace(s, i)

\* What a step that is still to come counts on.
Claim(x) ==
    /\ x.op \in BlockOps => Live(x.block)
    /\ x.op = "prefetch" => \A k \in DOMAIN x.window : Live(x.window[k])
    /\ x.op = "offload" => pins[x.block] = 0
    /\ x.op = "startLoad" => loc[x.block] = "CPU"
    /\ x.op = "pin" => x.prefetched = prefetched[x.block]
    /\ x.op \in {"release", "created"} => refs[x.block] > pins[x.block]

Claims(s) == \A i \in DOMAIN s : Claim(s[i])

\* The block of a pin is on its way to the GPU, or its load is to come.
PinsReady(s) ==
    \A i \in DOMAIN s : s[i].op = "pin" => (WillLoad(s) \/ OnItsWay(s[i].block))

\* A pin that comes next has its block on the GPU.
PinNow(s) == s # <<>> /\ s[1].op = "pin" => loc[s[1].block] = "GPU"

StepsOk(s) == s \in Seq(Steps) /\ Stack(s) /\ Claims(s) /\ PinsReady(s) /\ PinNow(s)

TodoInv == StepsOk(todo) /\ (work # <<>> => Doing("dispatch"))

IInv == Core /\ RoomForQueued /\ CountInv /\ TodoInv

-----------------------------------------------------------------------------
(* Lists without repetitions.                                              *)

\* What a list contains, by position.
LEMMA InList ==
    ASSUME NEW S, NEW seq \in Seq(S), NEW x
    PROVE  /\ x \in ToSet(seq) <=> \E i \in 1..Len(seq) : seq[i] = x
           /\ x \in ToSet(seq) => x \in S
<1>1. DOMAIN seq = 1..Len(seq) /\ \A i \in 1..Len(seq) : seq[i] \in S
  BY LenProperties
<1> QED BY <1>1 DEF ToSet

LEMMA EmptyList ==
    ASSUME NEW S
    PROVE  /\ <<>> \in Seq(S) /\ IsInjective(<<>>) /\ ToSet(<<>>) = {}
           /\ \A seq \in Seq(S) : ToSet(seq) = {} => seq = <<>>
<1>1. <<>> \in Seq(S) /\ IsInjective(<<>>)
  BY DEF IsInjective
<1>2. Len(<<>>) = 0
  OBVIOUS
<1>3. ASSUME NEW x PROVE x \notin ToSet(<<>>)
  <2>1. x \in ToSet(<<>>) => \E i \in 1..Len(<<>>) : <<>>[i] = x
    BY <1>1, InList
  <2> QED BY <1>2, <2>1
<1>4. ASSUME NEW seq \in Seq(S), ToSet(seq) = {} PROVE seq = <<>>
  <2>1. ASSUME seq # <<>> PROVE FALSE
    <3>1. Len(seq) \in Nat /\ Len(seq) # 0
      BY <2>1, EmptySeq, LenProperties
    <3>2. 1 \in 1..Len(seq)
      BY <3>1
    <3>3. seq[1] \in ToSet(seq)
      BY <3>2, InList
    <3> QED BY <1>4, <3>3
  <2> QED BY <2>1
<1> QED BY <1>1, <1>3, <1>4

LEMMA SingleList ==
    ASSUME NEW S, NEW x \in S
    PROVE  <<x>> \in Seq(S) /\ IsInjective(<<x>>) /\ ToSet(<<x>>) = {x} /\ Len(<<x>>) = 1
<1> DEFINE one == <<x>>
<1>1. one \in Seq(S) /\ Len(one) = 1 /\ one[1] = x /\ DOMAIN one = 1..1
  OBVIOUS
<1> HIDE DEF one
<1>2. ASSUME NEW y PROVE y \in ToSet(one) <=> y = x
  <2>1. y \in ToSet(one) <=> \E i \in 1..1 : one[i] = y
    BY <1>1, InList
  <2> QED BY <1>1, <2>1
<1>3. IsInjective(one)
  BY <1>1 DEF IsInjective
<1> QED BY <1>1, <1>2, <1>3 DEF one

\* Picking the elements of a set out of a list: the position among the
\* picked ones is a bijection.
LEMMA KeptList ==
    ASSUME NEW S, NEW seq \in Seq(S), IsInjective(seq), NEW set
    PROVE  /\ Kept(seq, set) \in Seq(S) /\ IsInjective(Kept(seq, set))
           /\ \A x : x \in ToSet(Kept(seq, set)) <=> (x \in ToSet(seq) /\ x \in set)
<1> DEFINE at == {i \in DOMAIN seq : seq[i] \in set}
           n == Cardinality(at)
           below(i) == {j \in at : j <= i}
           rank == [i \in at |-> Cardinality(below(i))]
           kept == [k \in 1..n |-> seq[CHOOSE i \in at : Cardinality(below(i)) = k]]
<1>1. kept = Kept(seq, set)
  BY DEF Kept
<1>2. /\ DOMAIN seq = 1..Len(seq) /\ Len(seq) \in Nat
      /\ \A i \in DOMAIN seq : seq[i] \in S
  BY LenProperties
<1>3. IsFiniteSet(at) /\ n \in Nat /\ at \subseteq Nat
  <2>1. IsFiniteSet(1..Len(seq)) /\ at \in SUBSET (1..Len(seq))
    BY <1>2, FS_Interval
  <2>2. IsFiniteSet(at)
    BY <2>1, FS_Subset
  <2> QED BY <2>1, <2>2, FS_CardinalityType
<1>4. ASSUME NEW i \in at
      PROVE  IsFiniteSet(below(i)) /\ rank[i] = Cardinality(below(i)) /\ rank[i] \in 1..n
  <2>1. below(i) \in SUBSET at /\ i \in below(i)
    BY <1>3
  <2>2. IsFiniteSet(below(i)) /\ Cardinality(below(i)) <= n
    BY <1>3, <2>1, FS_Subset
  <2>3. Cardinality(below(i)) \in Nat
    BY <2>2, FS_CardinalityType
  <2>4. Cardinality(below(i)) # 0
    BY <2>1, <2>2, FS_EmptySet
  <2> QED BY <1>3, <2>2, <2>3, <2>4
<1>5. ASSUME NEW i \in at, NEW j \in at, i < j PROVE rank[i] # rank[j]
  <2>1. below(i) \in SUBSET below(j) /\ j \in below(j) /\ j \notin below(i)
    BY <1>3, <1>5
  <2>2. Cardinality(below(j)) = Cardinality(below(i)) => below(j) = below(i)
    <3>1. IsFiniteSet(below(j))
      BY <1>4
    <3> QED BY <2>1, <3>1, FS_Subset
  <2>3. rank[i] = Cardinality(below(i)) /\ rank[j] = Cardinality(below(j))
    BY <1>4
  <2>4. below(j) # below(i)
    BY <2>1
  <2> HIDE DEF below, rank
  <2> QED BY <2>2, <2>3, <2>4
<1>6. ASSUME NEW i \in at, NEW j \in at, rank[i] = rank[j] PROVE i = j
  <2>1. i \in Nat /\ j \in Nat
    BY <1>3
  <2>2. ~(i < j) /\ ~(j < i)
    <3> HIDE DEF rank, at
    <3> QED BY <1>5, <1>6
  <2> QED BY <2>1, <2>2
<1>7. rank \in [at -> 1..n] /\ DOMAIN rank = at
  BY <1>4
<1> HIDE DEF rank
<1>8. rank \in Injection(at, 1..n)
  BY <1>6, <1>7 DEF Injection, IsInjective
<1>9. rank \in Surjection(at, 1..n)
  <2>1. IsFiniteSet(1..n) /\ Cardinality(1..n) = n
    BY <1>3, FS_Interval
  <2> HIDE DEF n
  <2>2. Cardinality(at) = Cardinality(1..n)
    BY <2>1 DEF n
  <2> QED BY <1>8, <2>1, <2>2, FS_Injection
<1>10. \A k \in 1..n : \E i \in at : rank[i] = k
  BY <1>9 DEF Surjection
<1> DEFINE pick(k) == CHOOSE i \in at : Cardinality(below(i)) = k
<1>11. ASSUME NEW k \in 1..n PROVE pick(k) \in at /\ rank[pick(k)] = k /\ kept[k] = seq[pick(k)]
  <2>1. PICK i \in at : rank[i] = k
    BY <1>10
  <2>2. Cardinality(below(i)) = k
    BY <1>4, <2>1
  <2>3. pick(k) \in at /\ Cardinality(below(pick(k))) = k
    BY <2>2
  <2> QED BY <1>4, <2>3
<1>12. ASSUME NEW i \in at PROVE rank[i] \in 1..n /\ kept[rank[i]] = seq[i]
  <2>1. rank[i] \in 1..n
    BY <1>4
  <2>2. pick(rank[i]) \in at /\ rank[pick(rank[i])] = rank[i]
    BY <1>11, <2>1
  <2>3. pick(rank[i]) = i
    BY <1>6, <2>2
  <2> QED BY <1>11, <2>1, <2>3
<1>13. kept \in Seq(S) /\ DOMAIN kept = 1..n /\ Len(kept) = n
  <2>1. \A k \in 1..n : kept[k] \in S
    BY <1>2, <1>11
  <2> HIDE DEF n, pick
  <2>2. kept \in [1..n -> S]
    BY <2>1
  <2>3. n \in Nat
    BY <1>3 DEF n
  <2> HIDE DEF kept
  <2>4. kept \in Seq(S) /\ DOMAIN kept = 1..n
    BY <2>2, <2>3, SeqDef
  <2> QED BY <2>3, <2>4, LenProperties
<1> HIDE DEF kept, n, pick
<1>14. IsInjective(kept)
  <2> SUFFICES ASSUME NEW k \in 1..n, NEW l \in 1..n, kept[k] = kept[l] PROVE k = l
    BY <1>13 DEF IsInjective
  <2>1. pick(k) = pick(l)
    BY <1>11 DEF IsInjective
  <2> QED BY <1>11, <2>1
<1>15. ASSUME NEW x PROVE x \in ToSet(kept) <=> (x \in ToSet(seq) /\ x \in set)
  <2>1. x \in ToSet(kept) <=> \E k \in 1..n : kept[k] = x
    BY <1>13, InList
  <2>2. x \in ToSet(seq) <=> \E i \in DOMAIN seq : seq[i] = x
    BY <1>2, InList
  <2>3. ASSUME NEW k \in 1..n, kept[k] = x PROVE \E i \in DOMAIN seq : seq[i] = x /\ seq[i] \in set
    BY <1>11, <2>3
  <2>4. ASSUME NEW i \in DOMAIN seq, seq[i] = x, x \in set PROVE \E k \in 1..n : kept[k] = x
    BY <1>12, <2>4
  <2> QED BY <2>1, <2>2, <2>3, <2>4
<1> QED BY <1>1, <1>13, <1>14, <1>15

\* Two lists, one after the other.
LEMMA InConcat ==
    ASSUME NEW S, NEW a \in Seq(S), NEW b \in Seq(S)
    PROVE  /\ a \o b \in Seq(S)
           /\ \A x : x \in ToSet(a \o b) <=> (x \in ToSet(a) \/ x \in ToSet(b))
<1> DEFINE n == Len(a)
           m == Len(b)
           c == a \o b
<1>1. n \in Nat /\ m \in Nat
  BY LenProperties
<1>2. /\ c \in Seq(S) /\ Len(c) = n + m
      /\ \A i \in 1..(n + m) : c[i] = IF i <= n THEN a[i] ELSE b[i - n]
  BY ConcatProperties
<1> HIDE DEF n, m, c
<1>3. \A i \in 1..(n + m) : i \in 1..n \/ (~(i <= n) /\ i - n \in 1..m)
  BY <1>1
<1>4. ASSUME NEW x PROVE x \in ToSet(c) <=> (x \in ToSet(a) \/ x \in ToSet(b))
  <2>1. /\ x \in ToSet(c) <=> \E i \in 1..(n + m) : c[i] = x
        /\ x \in ToSet(a) <=> \E i \in 1..n : a[i] = x
        /\ x \in ToSet(b) <=> \E i \in 1..m : b[i] = x
    <3>1. \A i : i \in 1..Len(c) <=> i \in 1..(n + m)
      BY <1>2
    <3>2. x \in ToSet(c) <=> \E i \in 1..Len(c) : c[i] = x
      BY <1>2, InList
    <3>3. x \in ToSet(a) <=> \E i \in 1..n : a[i] = x
      BY InList DEF n
    <3>4. x \in ToSet(b) <=> \E i \in 1..m : b[i] = x
      BY InList DEF m
    <3> QED BY <3>1, <3>2, <3>3, <3>4
  <2>2. ASSUME NEW i \in 1..n, a[i] = x PROVE \E k \in 1..(n + m) : c[k] = x
    BY <1>1, <1>2, <2>2
  <2>3. ASSUME NEW i \in 1..m, b[i] = x PROVE \E k \in 1..(n + m) : c[k] = x
    <3>1. n + i \in 1..(n + m) /\ ~(n + i <= n) /\ (n + i) - n = i
      BY <1>1
    <3>2. c[n + i] = x
      BY <1>2, <2>3, <3>1
    <3> QED BY <3>1, <3>2
  <2>4. ASSUME NEW i \in 1..(n + m), c[i] = x
        PROVE  (\E k \in 1..n : a[k] = x) \/ (\E k \in 1..m : b[k] = x)
    BY <1>1, <1>2, <1>3, <2>4
  <2> QED BY <2>1, <2>2, <2>3, <2>4
<1> QED BY <1>2, <1>4 DEF c

\* Two lists that share nothing, one after the other.
LEMMA JoinedList ==
    ASSUME NEW S, NEW a \in Seq(S), NEW b \in Seq(S), IsInjective(a), IsInjective(b),
           \A x : ~(x \in ToSet(a) /\ x \in ToSet(b))
    PROVE  /\ a \o b \in Seq(S) /\ IsInjective(a \o b)
           /\ \A x : x \in ToSet(a \o b) <=> (x \in ToSet(a) \/ x \in ToSet(b))
           /\ Len(a \o b) = Len(a) + Len(b)
<1> DEFINE n == Len(a)
           m == Len(b)
           c == a \o b
<1>1. /\ n \in Nat /\ m \in Nat /\ DOMAIN a = 1..n /\ DOMAIN b = 1..m
  BY LenProperties
<1>2. /\ c \in Seq(S) /\ Len(c) = n + m
      /\ \A i \in 1..(n + m) : c[i] = IF i <= n THEN a[i] ELSE b[i - n]
  BY ConcatProperties
<1>3. DOMAIN c = 1..(n + m)
  BY <1>2, LenProperties
<1> HIDE DEF n, m, c
<1>4. \A i \in 1..n, j \in 1..m : a[i] # b[j]
  BY InList DEF n, m
<1>5. \A i \in 1..(n + m) : i \in 1..n \/ (~(i <= n) /\ i - n \in 1..m)
  BY <1>1
<1>6. ASSUME NEW i \in 1..(n + m), NEW j \in 1..(n + m), c[i] = c[j] PROVE i = j
  <2>1. CASE i \in 1..n /\ j \in 1..n
    BY <2>1, <1>1, <1>2, <1>6 DEF IsInjective
  <2>2. CASE i \notin 1..n /\ j \notin 1..n
    <3>1. i - n = j - n
      BY <2>2, <1>1, <1>2, <1>5, <1>6 DEF IsInjective
    <3> QED BY <3>1, <1>1
  <2>3. CASE i \in 1..n /\ j \notin 1..n
    BY <2>3, <1>1, <1>2, <1>4, <1>5, <1>6
  <2>4. CASE i \notin 1..n /\ j \in 1..n
    BY <2>4, <1>1, <1>2, <1>4, <1>5, <1>6
  <2> QED BY <2>1, <2>2, <2>3, <2>4
<1>7. IsInjective(c)
  BY <1>3, <1>6 DEF IsInjective
<1>8. \A x : x \in ToSet(c) <=> (x \in ToSet(a) \/ x \in ToSet(b))
  BY InConcat DEF c
<1> QED BY <1>2, <1>7, <1>8 DEF c, n, m

\* One more block at the end.
LEMMA LongerList ==
    ASSUME NEW S, NEW seq \in Seq(S), IsInjective(seq), NEW x \in S, x \notin ToSet(seq)
    PROVE  /\ Append(seq, x) \in Seq(S) /\ IsInjective(Append(seq, x))
           /\ \A y : y \in ToSet(Append(seq, x)) <=> (y \in ToSet(seq) \/ y = x)
           /\ Len(Append(seq, x)) = Len(seq) + 1
<1>1. <<x>> \in Seq(S) /\ IsInjective(<<x>>) /\ ToSet(<<x>>) = {x} /\ Len(<<x>>) = 1
  BY SingleList
<1>2. Append(seq, x) = seq \o <<x>>
  OBVIOUS
<1> DEFINE one == <<x>>
<1> HIDE DEF one
<1>3. one \in Seq(S) /\ IsInjective(one) /\ ToSet(one) = {x} /\ Len(one) = 1
  BY <1>1 DEF one
<1>4. \A y : ~(y \in ToSet(seq) /\ y \in ToSet(one))
  BY <1>3
<1>5. /\ seq \o one \in Seq(S) /\ IsInjective(seq \o one)
      /\ \A y : y \in ToSet(seq \o one) <=> (y \in ToSet(seq) \/ y \in ToSet(one))
      /\ Len(seq \o one) = Len(seq) + Len(one)
  BY <1>3, <1>4, JoinedList
<1> QED BY <1>2, <1>3, <1>5 DEF one

\* The first block of a list leaves it.
LEMMA ShorterList ==
    ASSUME NEW S, NEW seq \in Seq(S), IsInjective(seq), seq # <<>>
    PROVE  /\ Head(seq) \in S /\ Head(seq) \in ToSet(seq)
           /\ Tail(seq) \in Seq(S) /\ IsInjective(Tail(seq))
           /\ \A x : x \in ToSet(Tail(seq)) <=> (x \in ToSet(seq) /\ x # Head(seq))
           /\ Len(Tail(seq)) = Len(seq) - 1 /\ Len(seq) >= 1
<1> DEFINE n == Len(seq)
           rest == Tail(seq)
<1>1. n \in Nat \ {0} /\ DOMAIN seq = 1..n /\ Head(seq) = seq[1]
  BY EmptySeq, LenProperties
<1>2. /\ rest \in Seq(S) /\ Len(rest) = n - 1 /\ DOMAIN rest = 1..(n - 1)
      /\ \A i \in 1..(n - 1) : rest[i] = seq[i + 1]
  BY HeadTailProperties, LenProperties
<1>3. 1 \in 1..n /\ seq[1] \in S
  BY <1>1, LenProperties
<1> HIDE DEF n, rest
<1>4. \A i \in 1..(n - 1) : i + 1 \in 1..n /\ i + 1 # 1
  BY <1>1
<1>5. \A i \in 1..n : i # 1 => (i - 1 \in 1..(n - 1) /\ (i - 1) + 1 = i)
  BY <1>1
<1>6. IsInjective(rest)
  <2> SUFFICES ASSUME NEW i \in 1..(n - 1), NEW j \in 1..(n - 1), rest[i] = rest[j] PROVE i = j
    BY <1>2 DEF IsInjective
  <2>1. i + 1 = j + 1
    BY <1>1, <1>2, <1>4 DEF IsInjective
  <2> QED BY <2>1, <1>1
<1>7. ASSUME NEW x PROVE x \in ToSet(rest) <=> (x \in ToSet(seq) /\ x # Head(seq))
  <2>1. /\ x \in ToSet(rest) <=> \E i \in 1..(n - 1) : rest[i] = x
        /\ x \in ToSet(seq) <=> \E i \in 1..n : seq[i] = x
    BY <1>2, InList DEF n
  <2>2. ASSUME NEW i \in 1..(n - 1), rest[i] = x
        PROVE  x # Head(seq) /\ \E k \in 1..n : seq[k] = x
    BY <1>1, <1>2, <1>3, <1>4, <2>2 DEF IsInjective
  <2>3. ASSUME NEW i \in 1..n, seq[i] = x, x # Head(seq)
        PROVE  \E k \in 1..(n - 1) : rest[k] = x
    <3>1. i # 1
      BY <1>1, <2>3
    <3>2. rest[i - 1] = x
      BY <1>2, <1>5, <2>3, <3>1
    <3> QED BY <1>5, <3>1, <3>2
  <2> QED BY <2>1, <2>2, <2>3
<1>8. Head(seq) \in ToSet(seq)
  BY <1>1, <1>3, InList DEF n
<1> QED BY <1>1, <1>2, <1>3, <1>6, <1>7, <1>8 DEF n, rest

\* IndexLru::erase and IndexLru::touch.
LEMMA WithoutList ==
    ASSUME NEW seq \in Seq(Block), IsInjective(seq), NEW b
    PROVE  /\ Without(seq, b) \in Seq(Block) /\ IsInjective(Without(seq, b))
           /\ \A x : x \in ToSet(Without(seq, b)) <=> (x \in ToSet(seq) /\ x # b)
<1>1. \A x : x \in ToSet(seq) => x \in Block
  BY InList
<1> QED BY <1>1, KeptList DEF Without

LEMMA TouchedList ==
    ASSUME NEW seq \in Seq(Block), IsInjective(seq),
           NEW bs \in Seq(Block), IsInjective(bs)
    PROVE  /\ Touched(seq, bs) \in Seq(Block) /\ IsInjective(Touched(seq, bs))
           /\ \A x : x \in ToSet(Touched(seq, bs)) <=> (x \in ToSet(seq) \/ x \in ToSet(bs))
<1> DEFINE others == Kept(seq, Block \ ToSet(bs))
<1>1. \A x : x \in ToSet(seq) => x \in Block
  BY InList
<1>2. /\ others \in Seq(Block) /\ IsInjective(others)
      /\ \A x : x \in ToSet(others) <=> (x \in ToSet(seq) /\ x \in Block \ ToSet(bs))
  BY KeptList
<1>3. Touched(seq, bs) = others \o bs
  BY DEF Touched
<1> HIDE DEF others
<1>4. /\ others \o bs \in Seq(Block) /\ IsInjective(others \o bs)
      /\ \A x : x \in ToSet(others \o bs) <=> (x \in ToSet(others) \/ x \in ToSet(bs))
  BY <1>2, JoinedList
<1> QED BY <1>1, <1>2, <1>3, <1>4

-----------------------------------------------------------------------------
(* Finite sets.                                                            *)

\* A set of blocks is counted; one more, and some less.
LEMMA CountBlocks ==
    ASSUME NEW A, NEW B, IsFiniteSet(A)
    PROVE  /\ Cardinality(A) \in Nat /\ Cardinality(A \cap B) \in Nat
           /\ Cardinality(A \ B) = Cardinality(A) - Cardinality(A \cap B)
           /\ \A x : x \notin A => Cardinality(A \cup {x}) = Cardinality(A) + 1
           /\ \A x : x \in A => Cardinality(A \ {x}) = Cardinality(A) - 1
<1>1. IsFiniteSet(A \cap B) /\ IsFiniteSet(A \ B)
  BY FS_Subset, A \cap B \in SUBSET A, A \ B \in SUBSET A
<1>2. /\ Cardinality(A) \in Nat /\ Cardinality(A \cap B) \in Nat
      /\ Cardinality(A \ B) \in Nat
  BY <1>1, FS_CardinalityType
<1>3. /\ (A \cap B) \cup (A \ B) = A
      /\ (A \cap B) \cap (A \ B) = {}
  OBVIOUS
<1>4. Cardinality(A) = Cardinality(A \cap B) + Cardinality(A \ B) - Cardinality({})
  BY <1>1, <1>3, FS_Union
<1>5. Cardinality({}) = 0
  BY FS_EmptySet
<1>6. Cardinality(A \ B) = Cardinality(A) - Cardinality(A \cap B)
  BY <1>2, <1>4, <1>5
<1>7. ASSUME NEW x, x \notin A PROVE Cardinality(A \cup {x}) = Cardinality(A) + 1
  BY <1>7, FS_AddElement
<1>8. ASSUME NEW x, x \in A PROVE Cardinality(A \ {x}) = Cardinality(A) - 1
  BY <1>8, FS_RemoveElement
<1> QED BY <1>2, <1>6, <1>7, <1>8

LEMMA BlocksCounted ==
    ASSUME NEW A, \A x \in A : x \in Block
    PROVE  IsFiniteSet(A) /\ Cardinality(A) \in Nat
<1>1. A \in SUBSET Block
  OBVIOUS
<1>2. IsFiniteSet(A)
  BY <1>1, BlocksAreFinite, FS_Subset
<1> QED BY <1>2, FS_CardinalityType

-----------------------------------------------------------------------------
(* What the invariant says of a block.                                     *)

LEMMA BlockFacts ==
    ASSUME Core, NEW b \in Block
    PROVE  /\ PlaceOk(b) /\ UseOk(b) /\ KeptOk(b) /\ ListsOk(b) /\ SlotOk(b)
           /\ refs[b] \in Nat /\ pins[b] \in Nat /\ loc[b] \in Location /\ move[b] \in Move
           /\ slot[b] \in GpuSlot \cup {NoSlot} /\ prefetched[b] \in BOOLEAN
           /\ slot[b] # NoSlot => slot[b] \in GpuSlot
BY NoSlotIsNone DEF Core, EntryTypes, BlocksInv

\* A queued load is on one list, and work is the only list of its kind.
LEMMA WorkHead ==
    ASSUME Core, work # <<>>
    PROVE  /\ Head(work) \in Block /\ move[Head(work)] = "QueuedLoad"
           /\ loc[Head(work)] = "TRANSFERRING" /\ Live(Head(work))
<1>1. Head(work) \in Block /\ Head(work) \in ToSet(work)
  BY ShorterList DEF Core, ListInv
<1>2. PlaceOk(Head(work)) /\ ListsOk(Head(work)) /\ UseOk(Head(work))
  BY <1>1, BlockFacts
<1> QED BY <1>1, <1>2 DEF PlaceOk, ListsOk, UseOk, Live

\* A free slot has no block, and no copy.
LEMMA FreeSlotFacts ==
    ASSUME Core, NEW s \in FreeSlots
    PROVE  s \in GpuSlot /\ slotRefs[s] = 0 /\ s # NoSlot /\ \A c \in Block : slot[c] # s
<1>1. s \in GpuSlot /\ slotRefs[s] = 0 /\ s # NoSlot
  BY NoSlotIsNone DEF FreeSlots
<1>2. ASSUME NEW c \in Block, slot[c] = s PROVE FALSE
  BY <1>1, <1>2, BlockFacts DEF SlotOk
<1> QED BY <1>1, <1>2

-----------------------------------------------------------------------------
(* start_load.                                                             *)

Accepted(b) ==
    /\ prefetched' \in [Block -> BOOLEAN]
    /\ \A c \in Block : prefetched'[c] => (prefetched[c] \/ c = b)

LoadFrom(b) ==
    /\ queued' = queued
    /\ \/ loc[b] = "CPU" /\ work' = work
       \/ work # <<>> /\ b = Head(work) /\ work' = Tail(work)

\* A submitted load: the block takes a free slot, and no other block changes.
LEMMA StartLoadSound ==
    ASSUME Core, NEW b \in Block, Live(b), StartLoad(b), LoadFrom(b), Accepted(b)
    PROVE  /\ Core' /\ refs' = refs /\ pins' = pins /\ move'[b] = "ToGpu"
           /\ loc[b] # "GPU" /\ move[b] \in {"None", "QueuedLoad"}
           /\ \A c \in Block : c # b => (loc'[c] = loc[c] /\ move'[c] = move[c] /\ slot'[c] = slot[c])
           /\ \E s \in FreeSlots : FreeSlots' = FreeSlots \ {s}
<1>1. PICK s \in FreeSlots : AllocateAndWrite(s, b) /\ slot' = [slot EXCEPT ![b] = s]
  BY DEF StartLoad
<1>2. s \in GpuSlot /\ slotRefs[s] = 0 /\ s # NoSlot /\ \A c \in Block : slot[c] # s
  BY FreeSlotFacts
<1>3. EntryTypes /\ BlocksInv /\ PoolInv /\ ListInv
  BY DEF Core
<1>4. /\ refs' = refs /\ pins' = pins /\ lru' = lru
      /\ loc' = [loc EXCEPT ![b] = "TRANSFERRING"]
      /\ move' = [move EXCEPT ![b] = "ToGpu"]
      /\ pending' = Append(pending, b)
      /\ slotRefs' = [slotRefs EXCEPT ![s] = 2]
      /\ flight' = flight \cup {[slot |-> s, buffer |-> b, write |-> TRUE]}
      /\ gpuData' = [gpuData EXCEPT ![s] = Junk]
      /\ hostData' = hostData
  BY <1>1 DEF StartLoad, AllocateAndWrite
<1>5. EntryTypes'
  BY <1>1, <1>2, <1>3, <1>4 DEF EntryTypes, Accepted, Location, Move
<1>6. /\ \A c \in Block : slot'[c] = IF c = b THEN s ELSE slot[c]
      /\ \A c \in Block : loc'[c] = IF c = b THEN "TRANSFERRING" ELSE loc[c]
      /\ \A c \in Block : move'[c] = IF c = b THEN "ToGpu" ELSE move[c]
      /\ \A t \in GpuSlot : slotRefs'[t] = IF t = s THEN 2 ELSE slotRefs[t]
      /\ \A t \in GpuSlot : gpuData'[t] = IF t = s THEN Junk ELSE gpuData[t]
  BY <1>1, <1>2, <1>3, <1>4 DEF EntryTypes
<1>7. /\ loc[b] # "GPU" /\ move[b] \in {"None", "QueuedLoad"} /\ slot[b] = NoSlot
      /\ b \notin ToSet(pending) /\ b \notin ToSet(lru) /\ ~Copying(b)
      /\ hostData[b] = b /\ pins[b] = 0
      /\ loc[b] = "CPU" => (b \notin ToSet(queued) /\ b \notin ToSet(work))
  <2>1. PlaceOk(b) /\ UseOk(b) /\ KeptOk(b) /\ ListsOk(b) /\ pins[b] \in Nat
        /\ loc[b] \in Location /\ move[b] \in Move
    BY BlockFacts
  <2>2. loc[b] = "CPU" \/ (loc[b] = "TRANSFERRING" /\ move[b] = "QueuedLoad")
    BY WorkHead DEF LoadFrom
  <2> QED BY <2>1, <2>2 DEF PlaceOk, UseOk, KeptOk, ListsOk, Copying, Live, Location, Move
<1>8. /\ pending' \in Seq(Block) /\ IsInjective(pending')
      /\ \A c : c \in ToSet(pending') <=> (c \in ToSet(pending) \/ c = b)
  BY <1>3, <1>4, <1>7, LongerList DEF ListInv
<1>9. /\ work' \in Seq(Block) /\ IsInjective(work') /\ queued' = queued
      /\ work' # <<>> => queued = <<>>
      /\ \A c : c \in ToSet(work') <=> (c \in ToSet(work) /\ c # b)
      /\ b \notin ToSet(queued)
  <2>1. CASE loc[b] = "CPU" /\ work' = work
    BY <2>1, <1>3, <1>7 DEF ListInv, LoadFrom
  <2>2. CASE work # <<>> /\ b = Head(work) /\ work' = Tail(work)
    <3>1. queued = <<>> /\ ToSet(queued) = {}
      BY <2>2, <1>3, EmptyList DEF ListInv
    <3> QED BY <3>1, <2>2, <1>3, ShorterList DEF ListInv, LoadFrom
  <2> QED BY <2>1, <2>2 DEF LoadFrom
<1>10. ListInv'
  BY <1>3, <1>4, <1>8, <1>9 DEF ListInv
<1>11. ASSUME NEW c \in Block
       PROVE  PlaceOk(c)' /\ UseOk(c)' /\ KeptOk(c)' /\ ListsOk(c)' /\ SlotOk(c)'
  <2>1. /\ PlaceOk(c) /\ UseOk(c) /\ KeptOk(c) /\ ListsOk(c) /\ SlotOk(c)
        /\ slot[c] # NoSlot => slot[c] \in GpuSlot
    BY BlockFacts
  <2>2. CASE c = b
    <3>1. PlaceOk(c)' /\ UseOk(c)'
      BY <2>2, <2>1, <1>2, <1>4, <1>6, <1>7 DEF PlaceOk, UseOk, OnItsWay, Live
    <3>2. KeptOk(c)'
      BY <2>2, <1>4, <1>6, <1>7 DEF KeptOk
    <3>3. ListsOk(c)'
      BY <2>2, <1>4, <1>6, <1>7, <1>8, <1>9 DEF ListsOk, Copying
    <3>4. SlotOk(c)'
      BY <2>2, <1>2, <1>6 DEF SlotOk, Copying
    <3> QED BY <3>1, <3>2, <3>3, <3>4
  <2>3. CASE c # b
    <3>1. loc'[c] = loc[c] /\ move'[c] = move[c] /\ slot'[c] = slot[c] /\ slot[c] # s
      BY <2>3, <1>2, <1>6
    <3>2. PlaceOk(c)' /\ UseOk(c)'
      BY <3>1, <2>1, <2>3, <1>4 DEF PlaceOk, UseOk, OnItsWay, Accepted
    <3>3. KeptOk(c)'
      <4>1. loc[c] = "GPU" \/ move[c] = "ToCpu" => slot[c] # NoSlot
        BY <2>1 DEF PlaceOk
      <4> QED BY <4>1, <3>1, <2>1, <1>4, <1>6 DEF KeptOk, Live
    <3>4. ListsOk(c)'
      BY <3>1, <2>1, <2>3, <1>4, <1>8, <1>9 DEF ListsOk, Copying
    <3>5. SlotOk(c)'
      BY <3>1, <2>1, <1>6 DEF SlotOk, Copying
    <3> QED BY <3>2, <3>3, <3>4, <3>5
  <2> QED BY <2>2, <2>3
<1>12. PoolInv'
  <2>1. ASSUME NEW t \in GpuSlot, \A c \in Block : slot'[c] # t PROVE slotRefs'[t] = 0
    <3>1. t # s /\ \A c \in Block : slot[c] # t
      BY <2>1, <1>6, <1>7, NoSlotIsNone
    <3> QED BY <3>1, <1>3, <1>6 DEF PoolInv
  <2>2. CopyOf(b)' = [slot |-> s, buffer |-> b, write |-> TRUE] /\ Copying(b)'
    BY <1>6 DEF CopyOf, Copying
  <2>3. \A c \in Block : c # b => CopyOf(c)' = CopyOf(c) /\ (Copying(c)' <=> Copying(c))
    BY <1>6 DEF CopyOf, Copying
  <2>4. ASSUME NEW f PROVE f \in flight' <=> \E c \in Block : Copying(c)' /\ f = CopyOf(c)'
    <3>1. f \in flight' <=> (f \in flight \/ f = CopyOf(b)')
      BY <1>4, <2>2
    <3>2. f \in flight <=> \E c \in Block : Copying(c) /\ f = CopyOf(c)
      BY <1>3 DEF PoolInv
    <3>3. ~Copying(b)
      BY <1>7
    <3> QED BY <3>1, <3>2, <3>3, <2>2, <2>3
  <2> QED BY <2>1, <2>4 DEF PoolInv
<1>13. FreeSlots' = FreeSlots \ {s}
  BY <1>6 DEF FreeSlots
<1>14. BlocksInv'
  BY <1>11 DEF BlocksInv
<1>15. Core'
  BY <1>5, <1>10, <1>12, <1>14 DEF Core
<1> QED BY <1>4, <1>6, <1>7, <1>13, <1>15

-----------------------------------------------------------------------------
(* start_offload.                                                          *)

\* A submitted offload: the block is read where it lies, and the load that is
\* to get its slot, if there is one, is queued.
LEMMA StartOffloadSound ==
    ASSUME Core, NEW v \in Block, loc[v] = "GPU", pins[v] = 0,
           NEW waiting \in Seq(Block), IsInjective(waiting),
           \A b \in ToSet(waiting) : loc[b] = "CPU" /\ Live(b),
           waiting # <<>> => work = <<>>,
           StartOffload(v, waiting), work' = work
    PROVE  /\ Core' /\ refs' = refs /\ pins' = pins /\ move'[v] = "ToCpu"
           /\ \A c \in Block : (c # v /\ c \notin ToSet(waiting)) =>
                (loc'[c] = loc[c] /\ move'[c] = move[c] /\ slot'[c] = slot[c])
           /\ \A c \in Block : prefetched'[c] <=> ((prefetched[c] /\ c # v) \/ c \in ToSet(waiting))
           /\ \A c \in ToSet(waiting) : ~prefetched[c] /\ move'[c] = "QueuedLoad"
           /\ FreeSlots' = FreeSlots
<1> DEFINE late == ToSet(waiting)
<1>1. EntryTypes /\ BlocksInv /\ PoolInv /\ ListInv
  BY DEF Core
<1>2. \A c \in late : c \in Block /\ loc[c] = "CPU" /\ refs[c] > 0
  BY InList DEF Live
<1> HIDE DEF late
<1>3. /\ refs' = refs /\ pins' = pins /\ slot' = slot
      /\ slotRefs' = [slotRefs EXCEPT ![slot[v]] = @ + 1]
      /\ flight' = flight \cup {[slot |-> slot[v], buffer |-> v, write |-> FALSE]}
      /\ hostData' = [hostData EXCEPT ![v] = Junk]
      /\ gpuData' = gpuData
      /\ lru' = Without(lru, v)
      /\ pending' = Append(pending, v)
      /\ queued' = queued \o waiting
  BY DEF StartOffload, Read
<1>4. /\ PlaceOk(v) /\ UseOk(v) /\ KeptOk(v) /\ ListsOk(v) /\ SlotOk(v)
      /\ slot[v] # NoSlot => slot[v] \in GpuSlot
  BY BlockFacts
<1>5. /\ move[v] = "None" /\ slot[v] \in GpuSlot /\ ~Copying(v) /\ v \notin late
      /\ slotRefs[slot[v]] = 1 /\ \A c \in Block : slot[c] = slot[v] => c = v
      /\ gpuData[slot[v]] = v /\ refs[v] > 0 /\ v \notin ToSet(pending)
  BY <1>2, <1>4 DEF PlaceOk, UseOk, KeptOk, ListsOk, SlotOk, Copying, Live
<1>6. \A c \in late : /\ move[c] = "None" /\ slot[c] = NoSlot /\ ~Copying(c) /\ hostData[c] = c
                      /\ c \notin ToSet(queued) /\ c \notin ToSet(work) /\ ~prefetched[c]
                      /\ pins[c] = 0 /\ c # v
  <2> SUFFICES ASSUME NEW c \in late
               PROVE  /\ move[c] = "None" /\ slot[c] = NoSlot /\ ~Copying(c) /\ hostData[c] = c
                      /\ c \notin ToSet(queued) /\ c \notin ToSet(work) /\ ~prefetched[c]
                      /\ pins[c] = 0 /\ c # v
    OBVIOUS
  <2>1. PlaceOk(c) /\ UseOk(c) /\ KeptOk(c) /\ ListsOk(c) /\ pins[c] \in Nat /\ move[c] \in Move
    BY <1>2, BlockFacts
  <2> QED BY <2>1, <1>2, <1>5 DEF PlaceOk, UseOk, KeptOk, ListsOk, Copying, OnItsWay, Live, Move
<1>7. /\ loc' = [b \in Block |-> IF b \in {v} \cup late THEN "TRANSFERRING" ELSE loc[b]]
      /\ move' = [b \in Block |-> CASE b = v -> "ToCpu"
                                    [] b \in late -> "QueuedLoad"
                                    [] OTHER -> move[b]]
      /\ prefetched' = [b \in Block |-> Discarded({v})[b] \/ b \in late]
  BY DEF StartOffload, late
<1>8. /\ \A c \in Block : loc'[c] = IF c = v \/ c \in late THEN "TRANSFERRING" ELSE loc[c]
      /\ move'[v] = "ToCpu" /\ \A c \in late : move'[c] = "QueuedLoad"
      /\ \A c \in Block : c # v /\ c \notin late => move'[c] = move[c]
      /\ \A c \in Block : prefetched'[c] <=> ((prefetched[c] /\ c # v) \/ c \in late)
      /\ \A t \in GpuSlot : slotRefs'[t] = IF t = slot[v] THEN 2 ELSE slotRefs[t]
      /\ \A c \in Block : hostData'[c] = IF c = v THEN Junk ELSE hostData[c]
  <2>1. \A c \in Block : Discarded({v})[c] <=> (prefetched[c] /\ c # v)
    BY DEF Discarded
  <2>2. /\ \A c \in Block : loc'[c] = IF c = v \/ c \in late THEN "TRANSFERRING" ELSE loc[c]
        /\ \A c \in Block : prefetched'[c] <=> ((prefetched[c] /\ c # v) \/ c \in late)
    BY <1>7, <2>1
  <2>3. /\ move'[v] = "ToCpu" /\ \A c \in late : move'[c] = "QueuedLoad"
        /\ \A c \in Block : c # v /\ c \notin late => move'[c] = move[c]
    BY <1>2, <1>6, <1>7
  <2> QED BY <2>2, <2>3, <1>1, <1>3, <1>5 DEF EntryTypes
<1>9. EntryTypes'
  <2>1. loc' \in [Block -> Location] /\ prefetched' \in [Block -> BOOLEAN]
    BY <1>1, <1>7 DEF EntryTypes, Location, Discarded
  <2>2. move' \in [Block -> Move]
    BY <1>1, <1>7 DEF EntryTypes, Move
  <2>3. /\ slotRefs' \in [GpuSlot -> Nat] /\ DOMAIN hostData' = Block /\ DOMAIN gpuData' = GpuSlot
    <3>1. slotRefs \in [GpuSlot -> Nat] /\ DOMAIN hostData = Block /\ DOMAIN gpuData = GpuSlot
      BY <1>1 DEF EntryTypes
    <3>2. slotRefs' \in [GpuSlot -> Nat]
      BY <3>1, <1>3, <1>5
    <3> QED BY <3>1, <3>2, <1>3
  <2> QED BY <2>1, <2>2, <2>3, <1>1, <1>3 DEF EntryTypes
<1>10. /\ lru' \in Seq(Block) /\ IsInjective(lru')
       /\ \A c : c \in ToSet(lru') <=> (c \in ToSet(lru) /\ c # v)
  BY <1>1, <1>3, WithoutList DEF ListInv
<1>11. /\ pending' \in Seq(Block) /\ IsInjective(pending')
       /\ \A c : c \in ToSet(pending') <=> (c \in ToSet(pending) \/ c = v)
  BY <1>1, <1>3, <1>5, LongerList DEF ListInv
<1>12. /\ queued' \in Seq(Block) /\ IsInjective(queued')
       /\ \A c : c \in ToSet(queued') <=> (c \in ToSet(queued) \/ c \in late)
       /\ work # <<>> => queued' = <<>>
  <2>1. \A c : ~(c \in ToSet(queued) /\ c \in ToSet(waiting))
    BY <1>6 DEF late
  <2>2. /\ queued \o waiting \in Seq(Block) /\ IsInjective(queued \o waiting)
        /\ \A c : c \in ToSet(queued \o waiting) <=> (c \in ToSet(queued) \/ c \in ToSet(waiting))
    BY <1>1, <2>1, JoinedList DEF ListInv
  <2>3. waiting = <<>> => queued \o waiting = queued
    BY <1>1, ConcatEmptySeq DEF ListInv
  <2> QED BY <1>1, <1>3, <2>2, <2>3 DEF ListInv, late
<1>13. ListInv'
  BY <1>1, <1>10, <1>11, <1>12 DEF ListInv
<1>14. ASSUME NEW c \in Block
       PROVE  PlaceOk(c)' /\ UseOk(c)' /\ KeptOk(c)' /\ ListsOk(c)' /\ SlotOk(c)'
  <2>1. /\ PlaceOk(c) /\ UseOk(c) /\ KeptOk(c) /\ ListsOk(c) /\ SlotOk(c)
        /\ slot[c] # NoSlot => slot[c] \in GpuSlot
    BY BlockFacts
  <2>2. CASE c = v
    <3>1. PlaceOk(c)' /\ UseOk(c)' /\ KeptOk(c)' /\ SlotOk(c)'
      BY <2>2, <2>1, <1>3, <1>5, <1>8, NoSlotIsNone DEF PlaceOk, UseOk, KeptOk, SlotOk, Copying, OnItsWay, Live
    <3>2. ListsOk(c)'
      BY <2>2, <2>1, <1>5, <1>8, <1>10, <1>11, <1>12 DEF ListsOk, Copying
    <3> QED BY <3>1, <3>2
  <2>3. CASE c \in late
    <3>1. PlaceOk(c)' /\ UseOk(c)' /\ KeptOk(c)' /\ SlotOk(c)'
      BY <2>3, <2>1, <1>2, <1>3, <1>6, <1>8 DEF PlaceOk, UseOk, KeptOk, SlotOk, Copying, OnItsWay, Live
    <3>2. ListsOk(c)'
      BY <2>3, <2>1, <1>2, <1>6, <1>8, <1>10, <1>11, <1>12 DEF ListsOk, Copying
    <3> QED BY <3>1, <3>2
  <2>4. CASE c # v /\ c \notin late
    <3>1. loc'[c] = loc[c] /\ move'[c] = move[c] /\ slot[c] # slot[v] /\ hostData'[c] = hostData[c]
          /\ (prefetched'[c] <=> prefetched[c])
      BY <2>4, <1>5, <1>8
    <3>2. PlaceOk(c)' /\ UseOk(c)' /\ KeptOk(c)' /\ SlotOk(c)'
      BY <3>1, <2>1, <1>3, <1>8 DEF PlaceOk, UseOk, KeptOk, SlotOk, Copying, OnItsWay, Live
    <3>3. ListsOk(c)'
      BY <2>4, <3>1, <2>1, <1>3, <1>10, <1>11, <1>12 DEF ListsOk, Copying
    <3> QED BY <3>2, <3>3
  <2> QED BY <2>2, <2>3, <2>4
<1>15. PoolInv'
  <2>1. ASSUME NEW t \in GpuSlot, \A c \in Block : slot'[c] # t PROVE slotRefs'[t] = 0
    BY <2>1, <1>1, <1>3, <1>8 DEF PoolInv
  <2>2. CopyOf(v)' = [slot |-> slot[v], buffer |-> v, write |-> FALSE] /\ Copying(v)'
    BY <1>3, <1>8 DEF CopyOf, Copying
  <2>3. ASSUME NEW c \in Block, c # v
        PROVE  (Copying(c)' <=> Copying(c)) /\ (Copying(c) => CopyOf(c)' = CopyOf(c))
    BY <2>3, <1>3, <1>6, <1>8 DEF CopyOf, Copying
  <2>4. ASSUME NEW f PROVE f \in flight' <=> \E c \in Block : Copying(c)' /\ f = CopyOf(c)'
    <3>1. f \in flight' <=> (f \in flight \/ f = CopyOf(v)')
      BY <1>3, <2>2
    <3>2. f \in flight <=> \E c \in Block : Copying(c) /\ f = CopyOf(c)
      BY <1>1 DEF PoolInv
    <3> QED BY <3>1, <3>2, <1>5, <2>2, <2>3
  <2> QED BY <2>1, <2>4 DEF PoolInv
<1>16. FreeSlots' = FreeSlots
  BY <1>5, <1>8 DEF FreeSlots
<1>17. Core'
  BY <1>9, <1>13, <1>14, <1>15 DEF Core, BlocksInv
<1> QED BY <1>3, <1>6, <1>8, <1>16, <1>17 DEF late

-----------------------------------------------------------------------------
(* The copies under way, and letting go of them.                           *)

\* A slot is in flight exactly when its block is being copied, and then the
\* copy is the one of that block.
LEMMA FlightFacts ==
    ASSUME Core
    PROVE  /\ \A f \in flight : \E c \in Block :
                /\ Copying(c) /\ f = CopyOf(c) /\ slot[c] \in GpuSlot
                /\ f.slot = slot[c] /\ f.buffer = c /\ (f.write <=> move[c] = "ToGpu")
           /\ \A c \in Block : Copying(c) =>
                /\ CopyOf(c) \in flight /\ slot[c] \in GpuSlot
                /\ CopyOf(c).slot = slot[c] /\ CopyOf(c).buffer = c
                /\ (CopyOf(c).write <=> move[c] = "ToGpu")
<1>1. ASSUME NEW c \in Block
      PROVE  /\ CopyOf(c).slot = slot[c] /\ CopyOf(c).buffer = c
             /\ (CopyOf(c).write <=> move[c] = "ToGpu")
             /\ Copying(c) => slot[c] \in GpuSlot
  <2>1. PlaceOk(c) /\ (slot[c] # NoSlot => slot[c] \in GpuSlot)
    BY BlockFacts
  <2> QED BY <2>1 DEF CopyOf, PlaceOk, Copying
<1>2. \A f : f \in flight <=> \E c \in Block : Copying(c) /\ f = CopyOf(c)
  BY DEF Core, PoolInv
<1> QED BY <1>1, <1>2

LEMMA SlotInFlight ==
    ASSUME Core
    PROVE  /\ \A c \in Block : slot[c] # NoSlot => (slot[c] \in InFlight <=> Copying(c))
           /\ \A c \in Block, f \in flight :
                (slot[c] # NoSlot /\ f.slot = slot[c]) \/ f.buffer = c => f = CopyOf(c)
           /\ \A t \in InFlight : \E c \in Block : slot[c] = t
<1>1. \A c, d \in Block : slot[c] # NoSlot /\ slot[d] = slot[c] => d = c
  BY BlockFacts DEF SlotOk
<1>2. \A t : t \in InFlight <=> \E f \in flight : f.slot = t
  BY DEF InFlight
<1>3. ASSUME NEW c \in Block, NEW f \in flight, slot[c] # NoSlot /\ f.slot = slot[c]
      PROVE  f = CopyOf(c) /\ Copying(c)
  BY <1>1, <1>3, FlightFacts
<1>4. ASSUME NEW c \in Block, NEW f \in flight, f.buffer = c PROVE f = CopyOf(c)
  BY <1>4, FlightFacts
<1>5. ASSUME NEW c \in Block, slot[c] # NoSlot PROVE slot[c] \in InFlight <=> Copying(c)
  <2>1. Copying(c) => CopyOf(c) \in flight /\ CopyOf(c).slot = slot[c]
    BY FlightFacts
  <2> QED BY <1>2, <1>3, <1>5, <2>1
<1>6. ASSUME NEW t \in InFlight PROVE \E c \in Block : slot[c] = t
  BY <1>2, FlightFacts
<1> QED BY <1>3, <1>4, <1>5, <1>6

\* After the runtime has let go, and the manager for the blocks of a set, a
\* slot is held once by a block that keeps it, and by nobody else.
LEMMA ReturnedFacts ==
    ASSUME Core, NEW G \in SUBSET Block
    PROVE  /\ \A c \in Block : slot[c] # NoSlot =>
                Returned(slot[c], SlotsOf(G)) = IF c \in G THEN 0 ELSE 1
           /\ \A t \in GpuSlot : (\A c \in Block : slot[c] # t) => Returned(t, SlotsOf(G)) = 0
<1>1. \A c, d \in Block : slot[c] # NoSlot /\ slot[d] = slot[c] => d = c
  BY BlockFacts DEF SlotOk
<1>2. \A t : t \in SlotsOf(G) <=> t # NoSlot /\ \E c \in G : slot[c] = t
  BY DEF SlotsOf
<1>3. ASSUME NEW c \in Block, slot[c] # NoSlot
      PROVE  Returned(slot[c], SlotsOf(G)) = IF c \in G THEN 0 ELSE 1
  <2>1. slotRefs[slot[c]] = IF Copying(c) THEN 2 ELSE 1
    BY <1>3, BlockFacts DEF SlotOk
  <2>2. slot[c] \in InFlight <=> Copying(c)
    BY <1>3, SlotInFlight
  <2>3. slot[c] \in SlotsOf(G) <=> c \in G
    BY <1>1, <1>2, <1>3
  <2> QED BY <2>1, <2>2, <2>3 DEF Returned
<1>4. ASSUME NEW t \in GpuSlot, \A c \in Block : slot[c] # t
      PROVE  Returned(t, SlotsOf(G)) = 0
  <2>1. slotRefs[t] = 0
    BY <1>4 DEF Core, PoolInv
  <2>2. t \notin InFlight
    BY <1>4, SlotInFlight
  <2>3. t \notin SlotsOf(G)
    BY <1>2, <1>4
  <2>4. Returned(t, SlotsOf(G)) = slotRefs[t] - 0 - 0
    BY <2>2, <2>3 DEF Returned
  <2> QED BY <2>1, <2>4
<1> QED BY <1>3, <1>4

\* The pool after that, when nothing is being copied any more.
LEMMA ReleasedSound ==
    ASSUME Core, NEW G \in SUBSET Block, ReleaseSlots(SlotsOf(G)),
           \A c \in Block : slot'[c] = IF c \in G THEN NoSlot ELSE slot[c],
           \A c \in Block : ~Copying(c)'
    PROVE  /\ PoolInv' /\ \A c \in Block : SlotOk(c)'
           /\ slotRefs' \in [GpuSlot -> Nat]
           /\ \A c \in G : slot[c] # NoSlot => slot[c] \in FreeSlots'
           /\ FreeSlots \subseteq FreeSlots'
<1>1. slotRefs' = [s \in GpuSlot |-> Returned(s, SlotsOf(G))] /\ flight' = {}
  BY DEF ReleaseSlots
<1>2. \A c, d \in Block : slot[c] # NoSlot /\ slot[d] = slot[c] => d = c
  BY BlockFacts DEF SlotOk
<1>3. \A c \in Block : slot[c] # NoSlot => slot[c] \in GpuSlot
  BY BlockFacts
<1>4. \A c \in Block : slot[c] # NoSlot => slotRefs'[slot[c]] = IF c \in G THEN 0 ELSE 1
  BY <1>1, <1>3, ReturnedFacts
<1>5. ASSUME NEW t \in GpuSlot, \A c \in Block : slot[c] # t PROVE slotRefs'[t] = 0
  BY <1>1, <1>5, ReturnedFacts
<1>6. ASSUME NEW t \in GpuSlot PROVE slotRefs'[t] \in Nat
  <2>1. CASE \A c \in Block : slot[c] # t
    BY <2>1, <1>5
  <2>2. CASE \E c \in Block : slot[c] = t
    BY <2>2, <1>4, NoSlotIsNone
  <2> QED BY <2>1, <2>2
<1>7. slotRefs' \in [GpuSlot -> Nat]
  BY <1>1, <1>6
<1>8. ASSUME NEW c \in Block PROVE SlotOk(c)'
  <2> SUFFICES ASSUME slot'[c] # NoSlot
               PROVE  slotRefs'[slot'[c]] = 1 /\ \A d \in Block : slot'[d] = slot'[c] => d = c
    BY DEF SlotOk
  <2>1. c \notin G /\ slot'[c] = slot[c] /\ slot[c] # NoSlot
    OBVIOUS
  <2> QED BY <2>1, <1>2, <1>4
<1>9. PoolInv'
  <2>1. ASSUME NEW t \in GpuSlot, \A c \in Block : slot'[c] # t PROVE slotRefs'[t] = 0
    <3>1. CASE \A c \in Block : slot[c] # t
      BY <3>1, <1>5
    <3>2. CASE \E c \in Block : slot[c] = t
      BY <3>2, <2>1, <1>4, NoSlotIsNone
    <3> QED BY <3>1, <3>2
  <2> QED BY <2>1, <1>1 DEF PoolInv
<1>10. \A c \in G : slot[c] # NoSlot => slot[c] \in FreeSlots'
  BY <1>3, <1>4 DEF FreeSlots
<1>11. FreeSlots \subseteq FreeSlots'
  BY <1>5, FreeSlotFacts DEF FreeSlots
<1> QED BY <1>7, <1>8, <1>9, <1>10, <1>11

-----------------------------------------------------------------------------
(* finish.                                                                 *)

LEMMA Movers ==
    ASSUME Core
    PROVE  /\ Loading \in SUBSET Block /\ Offloading \in SUBSET Block
           /\ \A c \in Block : (c \in Loading <=> move[c] = "ToGpu") /\ (c \in Offloading <=> move[c] = "ToCpu")
           /\ ToSet(queued) \in SUBSET Block /\ ToSet(work) \in SUBSET Block
           /\ \A c \in Block : (c \in ToSet(queued) \/ c \in ToSet(work)) <=> move[c] = "QueuedLoad"
<1>1. /\ \A c \in ToSet(pending) : c \in Block
      /\ \A c \in ToSet(queued) : c \in Block
      /\ \A c \in ToSet(work) : c \in Block
  BY InList DEF Core, ListInv
<1>2. \A c \in Block : ListsOk(c)
  BY BlockFacts
<1> QED BY <1>1, <1>2 DEF Loading, Offloading, ListsOk, Copying

LEMMA OrderedMovers ==
    ASSUME Core, NEW set, \A c \in set : c \in ToSet(pending)
    PROVE  /\ InOrder(set) \in Seq(Block) /\ IsInjective(InOrder(set))
           /\ \A c : c \in ToSet(InOrder(set)) <=> c \in set
BY KeptList DEF Core, ListInv, InOrder

\* A synchronization that succeeds makes every copy.
LEMMA CopiesMade ==
    ASSUME Core, SyncOk(SlotsOf(Offloading))
    PROVE  /\ \A c \in Block : move[c] = "ToGpu" => gpuData'[slot[c]] = hostData[c]
           /\ \A c \in Block : slot[c] # NoSlot /\ ~Copying(c) => gpuData'[slot[c]] = gpuData[slot[c]]
           /\ \A c \in Block : move[c] = "ToCpu" => hostData'[c] = gpuData[slot[c]]
           /\ \A c \in Block : ~Copying(c) => hostData'[c] = hostData[c]
           /\ DOMAIN gpuData' = GpuSlot /\ DOMAIN hostData' = Block
<1>1. /\ gpuData' = [s \in GpuSlot |->
            IF \E f \in flight : f.write /\ f.slot = s
            THEN hostData[(CHOOSE f \in flight : f.slot = s).buffer]
            ELSE gpuData[s]]
      /\ hostData' = [b \in Block |->
            IF \E f \in flight : ~f.write /\ f.buffer = b
            THEN gpuData[(CHOOSE f \in flight : f.buffer = b).slot]
            ELSE hostData[b]]
  BY OneBufferPerBlock DEF SyncOk
<1>2. ASSUME NEW c \in Block, Copying(c)
      PROVE  /\ CopyOf(c) \in flight /\ CopyOf(c).slot = slot[c] /\ CopyOf(c).buffer = c
             /\ (CopyOf(c).write <=> move[c] = "ToGpu") /\ slot[c] \in GpuSlot /\ slot[c] # NoSlot
             /\ (CHOOSE f \in flight : f.slot = slot[c]) = CopyOf(c)
             /\ (CHOOSE f \in flight : f.buffer = c) = CopyOf(c)
  <2>1. /\ CopyOf(c) \in flight /\ CopyOf(c).slot = slot[c] /\ CopyOf(c).buffer = c
        /\ (CopyOf(c).write <=> move[c] = "ToGpu") /\ slot[c] \in GpuSlot /\ slot[c] # NoSlot
    BY <1>2, FlightFacts, NoSlotIsNone
  <2>2. \A f \in flight : f.slot = slot[c] \/ f.buffer = c => f = CopyOf(c)
    BY <2>1, SlotInFlight
  <2> QED BY <2>1, <2>2
<1>3. ASSUME NEW c \in Block, slot[c] # NoSlot, ~Copying(c)
      PROVE  slot[c] \in GpuSlot /\ ~ \E f \in flight : f.write /\ f.slot = slot[c]
  <2>1. slot[c] \notin InFlight /\ slot[c] \in GpuSlot
    BY <1>3, BlockFacts, SlotInFlight
  <2> QED BY <2>1 DEF InFlight
<1>4. ASSUME NEW c \in Block, ~Copying(c)
      PROVE  ~ \E f \in flight : ~f.write /\ f.buffer = c
  BY <1>4, FlightFacts
<1>5. ASSUME NEW c \in Block, move[c] = "ToGpu" PROVE gpuData'[slot[c]] = hostData[c]
  <2>1. Copying(c)
    BY <1>5 DEF Copying
  <2>2. \E f \in flight : f.write /\ f.slot = slot[c]
    BY <1>2, <1>5, <2>1
  <2>3. gpuData'[slot[c]] = hostData[(CHOOSE f \in flight : f.slot = slot[c]).buffer]
    BY <1>1, <1>2, <2>1, <2>2
  <2> QED BY <1>2, <2>1, <2>3
<1>6. ASSUME NEW c \in Block, move[c] = "ToCpu" PROVE hostData'[c] = gpuData[slot[c]]
  <2>1. Copying(c)
    BY <1>6 DEF Copying
  <2>2. \E f \in flight : ~f.write /\ f.buffer = c
    BY <1>2, <1>6, <2>1
  <2>3. hostData'[c] = gpuData[(CHOOSE f \in flight : f.buffer = c).slot]
    BY <1>1, <2>2
  <2> QED BY <1>2, <2>1, <2>3
<1> QED BY <1>1, <1>3, <1>4, <1>5, <1>6

LEMMA FinishOkSound ==
    ASSUME Core, FinishOk, work = <<>>, work' = queued, queued' = <<>>
    PROVE  /\ Core' /\ refs' = refs /\ pins' = pins /\ prefetched' = prefetched
           /\ \A c \in Block : ~Copying(c) => (loc'[c] = loc[c] /\ move'[c] = move[c])
           /\ \A c \in Block : move[c] = "ToGpu" => loc'[c] = "GPU"
           /\ \A c \in Block : move[c] = "ToCpu" => loc'[c] = "CPU"
           /\ \A c \in Block : ~Copying(c)'
           /\ \A c \in Offloading : slot[c] \in FreeSlots'
<1>1. EntryTypes /\ BlocksInv /\ PoolInv /\ ListInv
  BY DEF Core
<1>2. /\ refs' = refs /\ pins' = pins /\ prefetched' = prefetched /\ pending' = <<>>
      /\ SyncOk(SlotsOf(Offloading)) /\ ReleaseSlots(SlotsOf(Offloading))
      /\ lru' = Touched(lru, InOrder(Loading))
  BY DEF FinishOk, SyncOk, prefetchVars
<1>3. /\ loc' = [b \in Block |-> CASE b \in Loading -> "GPU"
                                 [] b \in Offloading -> "CPU"
                                 [] OTHER -> loc[b]]
      /\ move' = [b \in Block |-> IF b \in ToSet(pending) THEN "None" ELSE move[b]]
      /\ slot' = [b \in Block |-> IF b \in Offloading THEN NoSlot ELSE slot[b]]
  BY DEF FinishOk
<1>4. /\ Loading \in SUBSET Block /\ Offloading \in SUBSET Block
      /\ \A c \in Block : (c \in Loading <=> move[c] = "ToGpu") /\ (c \in Offloading <=> move[c] = "ToCpu")
      /\ \A c \in Block : c \in ToSet(pending) <=> Copying(c)
  BY Movers, BlockFacts DEF ListsOk
<1>5. ASSUME NEW c \in Block
      PROVE  /\ move[c] = "ToGpu" => loc'[c] = "GPU" /\ move'[c] = "None" /\ slot'[c] = slot[c]
             /\ move[c] = "ToCpu" => loc'[c] = "CPU" /\ move'[c] = "None" /\ slot'[c] = NoSlot
             /\ ~Copying(c) => loc'[c] = loc[c] /\ move'[c] = move[c] /\ slot'[c] = slot[c]
             /\ slot'[c] = IF c \in Offloading THEN NoSlot ELSE slot[c]
             /\ ~Copying(c)'
  <2>1. CASE move[c] = "ToGpu"
    BY <2>1, <1>3, <1>4 DEF Copying
  <2>2. CASE move[c] = "ToCpu"
    BY <2>2, <1>3, <1>4 DEF Copying
  <2>3. CASE ~Copying(c)
    BY <2>3, <1>3, <1>4 DEF Copying
  <2> QED BY <2>1, <2>2, <2>3 DEF Copying
<1>6. /\ PoolInv' /\ \A c \in Block : SlotOk(c)'
      /\ slotRefs' \in [GpuSlot -> Nat]
      /\ \A c \in Offloading : slot[c] # NoSlot => slot[c] \in FreeSlots'
  BY <1>2, <1>4, <1>5, ReleasedSound
<1>7. /\ \A c \in Block : move[c] = "ToGpu" => gpuData'[slot[c]] = hostData[c]
      /\ \A c \in Block : slot[c] # NoSlot /\ ~Copying(c) => gpuData'[slot[c]] = gpuData[slot[c]]
      /\ \A c \in Block : move[c] = "ToCpu" => hostData'[c] = gpuData[slot[c]]
      /\ \A c \in Block : ~Copying(c) => hostData'[c] = hostData[c]
      /\ DOMAIN gpuData' = GpuSlot /\ DOMAIN hostData' = Block
  BY <1>2, CopiesMade
<1>8. EntryTypes'
  <2>1. loc' \in [Block -> Location]
    <3>1. \A c \in Block : loc'[c] \in Location
      BY <1>1, <1>5 DEF EntryTypes, Location, Copying
    <3> QED BY <3>1, <1>3
  <2>2. move' \in [Block -> Move] /\ slot' \in [Block -> GpuSlot \cup {NoSlot}]
    BY <1>1, <1>3 DEF EntryTypes, Move
  <2> QED BY <2>1, <2>2, <1>1, <1>2, <1>6, <1>7 DEF EntryTypes
<1>9. /\ lru' \in Seq(Block) /\ IsInjective(lru')
      /\ \A c : c \in ToSet(lru') <=> (c \in ToSet(lru) \/ c \in Loading)
  <2>1. /\ InOrder(Loading) \in Seq(Block) /\ IsInjective(InOrder(Loading))
        /\ \A c : c \in ToSet(InOrder(Loading)) <=> c \in Loading
    BY OrderedMovers DEF Loading
  <2> QED BY <1>1, <1>2, <2>1, TouchedList DEF ListInv
<1>10. pending' = <<>> /\ <<>> \in Seq(Block) /\ IsInjective(<<>>) /\ ToSet(<<>>) = {}
  BY <1>2, EmptyList
<1>11. ListInv'
  BY <1>1, <1>9, <1>10 DEF ListInv
<1>12. ASSUME NEW c \in Block
       PROVE  PlaceOk(c)' /\ UseOk(c)' /\ KeptOk(c)' /\ ListsOk(c)' /\ SlotOk(c)'
  <2>1. /\ PlaceOk(c) /\ UseOk(c) /\ KeptOk(c) /\ ListsOk(c)
        /\ move[c] \in Move /\ pins[c] \in Nat
    BY BlockFacts
  <2>2. PlaceOk(c)'
    BY <1>5, <2>1 DEF PlaceOk, Copying, Move
  <2>3. UseOk(c)'
    BY <1>2, <1>5, <2>1 DEF UseOk, PlaceOk, Copying, OnItsWay
  <2>4. KeptOk(c)'
    BY <1>2, <1>5, <1>7, <2>1 DEF KeptOk, PlaceOk, Copying, Live
  <2>5. ListsOk(c)'
    <3>1. move'[c] = "QueuedLoad" <=> move[c] = "QueuedLoad"
      BY <1>5 DEF Copying
    <3>2. (loc'[c] = "GPU" /\ pins[c] = 0) <=> ((loc[c] = "GPU" /\ pins[c] = 0) \/ move[c] = "ToGpu")
      BY <1>5, <2>1 DEF PlaceOk, UseOk, Copying
    <3> QED BY <3>1, <3>2, <1>2, <1>4, <1>5, <1>9, <1>10, <2>1 DEF ListsOk
  <2> QED BY <2>2, <2>3, <2>4, <2>5, <1>6
<1>13. Core'
  BY <1>6, <1>8, <1>11, <1>12 DEF Core, BlocksInv
<1>14. \A c \in Offloading : slot[c] # NoSlot
  BY <1>4, BlockFacts DEF PlaceOk
<1> QED BY <1>2, <1>5, <1>6, <1>13, <1>14

-----------------------------------------------------------------------------
(* A failed copy.                                                          *)

\* What has failed may be given up: every copy and every queued load is, the
\* blocks that were to leave stay, and nobody else is touched.
MayFail(cpu, gpu) ==
    /\ cpu \in SUBSET Block /\ gpu \in Seq(Block) /\ IsInjective(gpu)
    /\ \A c \in Block :
        /\ move[c] \in {"ToGpu", "QueuedLoad"} => c \in cpu
        /\ c \in cpu => loc[c] = "CPU" \/ move[c] \in {"ToGpu", "QueuedLoad"}
        /\ move[c] = "ToCpu" => c \in ToSet(gpu)
        /\ c \in ToSet(gpu) => move[c] = "ToCpu" \/ (loc[c] = "GPU" /\ pins[c] = 0)

LEMMA FailedSound ==
    ASSUME Core, NEW cpu, NEW gpu, MayFail(cpu, gpu), Failed(cpu, gpu), work' = <<>>
    PROVE  /\ Core' /\ refs' = refs /\ pins' = pins
           /\ pending' = <<>> /\ queued' = <<>>
           /\ \A c \in Block : ~Copying(c)'
           /\ \A c \in Block : slot'[c] = slot[c] \/ loc[c] # "GPU"
<1> DEFINE kept == ToSet(gpu)
<1>1. EntryTypes /\ BlocksInv /\ PoolInv /\ ListInv
  BY DEF Core
<1>2. /\ refs' = refs /\ pins' = pins /\ pending' = <<>> /\ queued' = <<>> /\ lru' = Touched(lru, gpu)
      /\ ReleaseSlots(SlotsOf(cpu)) /\ gpuData' = gpuData /\ hostData' = hostData
  BY DEF Failed, SyncFails
<1>3. /\ loc' = [b \in Block |-> CASE b \in cpu -> "CPU"
                                 [] b \in kept -> "GPU"
                                 [] OTHER -> loc[b]]
      /\ slot' = [b \in Block |-> IF b \in cpu THEN NoSlot ELSE slot[b]]
      /\ move' = [b \in Block |-> IF b \in cpu \cup kept THEN "None" ELSE move[b]]
      /\ prefetched' = [b \in Block |-> prefetched[b] /\ b \notin cpu \cup kept]
  BY DEF Failed, Discarded
<1>4. /\ cpu \in SUBSET Block /\ gpu \in Seq(Block) /\ IsInjective(gpu)
      /\ \A c \in Block :
            /\ move[c] \in {"ToGpu", "QueuedLoad"} => c \in cpu
            /\ c \in cpu => loc[c] = "CPU" \/ move[c] \in {"ToGpu", "QueuedLoad"}
            /\ move[c] = "ToCpu" => c \in kept
            /\ c \in kept => move[c] = "ToCpu" \/ (loc[c] = "GPU" /\ pins[c] = 0)
  BY DEF MayFail
<1> HIDE DEF kept
<1>5. ASSUME NEW c \in Block
      PROVE  /\ c \in cpu => /\ loc'[c] = "CPU" /\ move'[c] = "None" /\ slot'[c] = NoSlot
                             /\ loc[c] # "GPU" /\ move[c] # "ToCpu" /\ pins[c] = 0
             /\ c \in kept => /\ loc'[c] = "GPU" /\ move'[c] = "None" /\ slot'[c] = slot[c]
                              /\ slot[c] # NoSlot /\ pins[c] = 0 /\ c \notin cpu
                              /\ (loc[c] = "GPU" \/ move[c] = "ToCpu") /\ loc[c] # "CPU"
             /\ c \notin cpu /\ c \notin kept =>
                    /\ loc'[c] = loc[c] /\ move'[c] = move[c] /\ slot'[c] = slot[c]
                    /\ move[c] = "None"
             /\ move'[c] = "None" /\ ~Copying(c)'
             /\ slot'[c] = IF c \in cpu THEN NoSlot ELSE slot[c]
             /\ prefetched'[c] <=> (prefetched[c] /\ c \notin cpu /\ c \notin kept)
  <2>1. PlaceOk(c) /\ UseOk(c) /\ move[c] \in Move /\ pins[c] \in Nat /\ loc[c] \in Location
    BY BlockFacts
  <2>2. /\ c \in cpu => loc[c] # "GPU" /\ move[c] # "ToCpu" /\ pins[c] = 0 /\ c \notin kept
        /\ c \in kept => /\ slot[c] # NoSlot /\ pins[c] = 0 /\ c \notin cpu
                         /\ (loc[c] = "GPU" \/ move[c] = "ToCpu") /\ loc[c] # "CPU"
        /\ c \notin cpu /\ c \notin kept => move[c] = "None"
    <3>1. c \in cpu => loc[c] # "GPU" /\ move[c] # "ToCpu" /\ pins[c] = 0 /\ c \notin kept
      BY <1>4, <2>1 DEF PlaceOk, UseOk
    <3>2. c \in kept => /\ slot[c] # NoSlot /\ pins[c] = 0 /\ c \notin cpu
                       /\ (loc[c] = "GPU" \/ move[c] = "ToCpu") /\ loc[c] # "CPU"
      BY <1>4, <2>1 DEF PlaceOk, UseOk
    <3>3. c \notin cpu /\ c \notin kept => move[c] = "None"
      BY <1>4, <2>1 DEF Move
    <3> QED BY <3>1, <3>2, <3>3
  <2>3. /\ c \in cpu => loc'[c] = "CPU"
        /\ c \in kept /\ c \notin cpu => loc'[c] = "GPU"
        /\ c \notin cpu /\ c \notin kept => loc'[c] = loc[c]
    <3>1. loc'[c] = CASE c \in cpu -> "CPU"
                      [] c \in kept -> "GPU"
                      [] OTHER -> loc[c]
      BY <1>3
    <3> QED BY <2>2, <3>1
  <2>4. /\ slot'[c] = IF c \in cpu THEN NoSlot ELSE slot[c]
        /\ move'[c] = IF c \in cpu \/ c \in kept THEN "None" ELSE move[c]
        /\ prefetched'[c] <=> (prefetched[c] /\ c \notin cpu /\ c \notin kept)
    BY <1>3
  <2>5. move'[c] = "None" /\ ~Copying(c)'
    BY <2>2, <2>4 DEF Copying
  <2> QED BY <2>2, <2>3, <2>4, <2>5
<1>6. /\ PoolInv' /\ \A c \in Block : SlotOk(c)'
      /\ slotRefs' \in [GpuSlot -> Nat]
  BY <1>2, <1>4, <1>5, ReleasedSound
<1>7. EntryTypes'
  <2>1. loc' \in [Block -> Location]
    <3>1. \A c \in Block : loc'[c] \in Location
      BY <1>1, <1>5 DEF EntryTypes, Location
    <3> QED BY <3>1, <1>3
  <2>2. move' \in [Block -> Move] /\ slot' \in [Block -> GpuSlot \cup {NoSlot}]
        /\ prefetched' \in [Block -> BOOLEAN]
    BY <1>1, <1>3 DEF EntryTypes, Move
  <2> QED BY <2>1, <2>2, <1>1, <1>2, <1>6 DEF EntryTypes
<1>8. /\ lru' \in Seq(Block) /\ IsInjective(lru')
      /\ \A c : c \in ToSet(lru') <=> (c \in ToSet(lru) \/ c \in kept)
  BY <1>1, <1>2, <1>4, TouchedList DEF ListInv, kept
<1>9. <<>> \in Seq(Block) /\ IsInjective(<<>>) /\ ToSet(<<>>) = {}
  BY EmptyList
<1>10. ListInv'
  BY <1>2, <1>8, <1>9 DEF ListInv
<1>11. ASSUME NEW c \in Block
       PROVE  PlaceOk(c)' /\ UseOk(c)' /\ KeptOk(c)' /\ ListsOk(c)' /\ SlotOk(c)'
  <2>1. /\ PlaceOk(c) /\ UseOk(c) /\ KeptOk(c) /\ ListsOk(c)
        /\ move[c] \in Move /\ pins[c] \in Nat
    BY BlockFacts
  <2>2. PlaceOk(c)'
    BY <1>5, <2>1 DEF PlaceOk
  <2>3. UseOk(c)'
    BY <1>2, <1>5, <2>1 DEF UseOk, PlaceOk, OnItsWay
  <2>4. KeptOk(c)'
    BY <1>2, <1>5, <2>1 DEF KeptOk, Live
  <2>5. ListsOk(c)'
    BY <1>2, <1>5, <1>8, <1>9, <2>1 DEF ListsOk, Copying
  <2> QED BY <2>2, <2>3, <2>4, <2>5, <1>6
<1>12. Core'
  BY <1>6, <1>7, <1>10, <1>11 DEF Core, BlocksInv
<1> QED BY <1>2, <1>5, <1>12

\* The count of prefetches, after a failure and in general.
LEMMA CountAfterFailure ==
    ASSUME Core, CountInv, NEW cpu, NEW gpu, MayFail(cpu, gpu), Failed(cpu, gpu)
    PROVE  CountInv'
<1> DEFINE lost == cpu \cup ToSet(gpu)
           A == {b \in Block : prefetched[b]}
<1>1. lost \subseteq Block
  BY InList DEF MayFail
<1>2. /\ uncounted' = uncounted - Unused(lost)
      /\ prefetched' = [b \in Block |-> prefetched[b] /\ b \notin lost]
  BY DEF Failed, Discarded
<1> HIDE DEF lost
<1>3. {b \in Block : prefetched'[b]} = A \ lost
  BY <1>2
<1>4. {b \in lost : prefetched[b]} = A \cap lost
  BY <1>1
<1>5. uncounted = Cardinality(A)
  BY DEF CountInv
<1>6. IsFiniteSet(A)
  BY BlocksCounted
<1> HIDE DEF A
<1>7. Cardinality(A \ lost) = Cardinality(A) - Cardinality(A \cap lost)
  BY <1>6, CountBlocks
<1> QED BY <1>2, <1>3, <1>4, <1>5, <1>7 DEF CountInv, Unused

\* finish(false), and with a new copy that failed, may give up what they do.
LEMMA FinishMayFail ==
    ASSUME Core, work = <<>> PROVE MayFail(Abandoned, InOrder(Offloading))
<1>1. /\ InOrder(Offloading) \in Seq(Block) /\ IsInjective(InOrder(Offloading))
      /\ \A c : c \in ToSet(InOrder(Offloading)) <=> c \in Offloading
  BY OrderedMovers DEF Offloading
<1>2. \A c : c \notin ToSet(work)
  BY EmptyList
<1> QED BY <1>1, <1>2, Movers DEF MayFail, Abandoned

LEMMA LoadMayFail ==
    ASSUME Core, work = <<>>, NEW b \in Block, loc[b] = "CPU"
    PROVE  MayFail(Abandoned \cup {b}, InOrder(Offloading))
<1>1. MayFail(Abandoned, InOrder(Offloading))
  BY FinishMayFail
<1> QED BY <1>1 DEF MayFail

LEMMA DispatchMayFail ==
    ASSUME Core PROVE MayFail(Abandoned \cup ToSet(work), InOrder(Offloading))
<1>1. /\ InOrder(Offloading) \in Seq(Block) /\ IsInjective(InOrder(Offloading))
      /\ \A c : c \in ToSet(InOrder(Offloading)) <=> c \in Offloading
  BY OrderedMovers DEF Offloading
<1> QED BY <1>1, Movers DEF MayFail, Abandoned

LEMMA OffloadMayFail ==
    ASSUME Core, work = <<>>, NEW v \in Block, loc[v] = "GPU", pins[v] = 0
    PROVE  MayFail(Abandoned, Append(InOrder(Offloading), v))
<1>1. MayFail(Abandoned, InOrder(Offloading))
  BY FinishMayFail
<1>2. \A c : c \in ToSet(InOrder(Offloading)) <=> c \in Offloading
  BY OrderedMovers DEF Offloading
<1>3. v \notin Offloading
  BY BlockFacts, Movers DEF PlaceOk
<1> DEFINE gpu == InOrder(Offloading)
<1>4. gpu \in Seq(Block) /\ IsInjective(gpu) /\ v \notin ToSet(gpu)
  BY <1>1, <1>2, <1>3 DEF MayFail
<1>5. \A c \in Block : c \in ToSet(gpu) => move[c] = "ToCpu" \/ (loc[c] = "GPU" /\ pins[c] = 0)
  BY <1>1 DEF MayFail
<1>6. \A c \in Block : move[c] = "ToCpu" => c \in ToSet(gpu)
  BY <1>1 DEF MayFail
<1> HIDE DEF gpu
<1>7. /\ Append(gpu, v) \in Seq(Block) /\ IsInjective(Append(gpu, v))
      /\ \A c : c \in ToSet(Append(gpu, v)) <=> (c \in ToSet(gpu) \/ c = v)
  BY <1>4, LongerList
<1>8. MayFail(Abandoned, Append(gpu, v))
  BY <1>1, <1>5, <1>6, <1>7 DEF MayFail
<1> QED BY <1>8 DEF gpu

-----------------------------------------------------------------------------
(* The steps of a call.                                                    *)

LEMMA StepFacts ==
    ASSUME NEW x \in Steps
    PROVE  /\ x.op \in PlainOps \cup BlockOps \cup {"prefetch"}
           /\ x.op \in BlockOps => x.block \in Block
           /\ x.op = "prefetch" => /\ x.window \in Seq(Block) /\ x.window # <<>>
                                   /\ x.protected \in SUBSET Block
BY DEF Steps, PlainOps, BlockOps

LEMMA PlainStep ==
    ASSUME NEW op \in PlainOps PROVE Step(op) \in Steps /\ Step(op).op = op
BY DEF Steps, Step

LEMMA BlockStep ==
    ASSUME NEW op \in BlockOps \ {"pin"}, NEW b \in Block
    PROVE  StepOn(op, b) \in Steps /\ StepOn(op, b).op = op /\ StepOn(op, b).block = b
BY DEF Steps, StepOn

\* A step before others.
LEMMA Pushed ==
    ASSUME NEW S, NEW x \in S, NEW s \in Seq(S)
    PROVE  /\ <<x>> \o s \in Seq(S) /\ <<x>> \o s # <<>> /\ (<<x>> \o s)[1] = x
           /\ Head(<<x>> \o s) = x /\ Tail(<<x>> \o s) = s
           /\ 1 \in DOMAIN (<<x>> \o s)
           /\ \A i \in DOMAIN s : i + 1 \in DOMAIN (<<x>> \o s) /\ (<<x>> \o s)[i + 1] = s[i]
           /\ \A i \in DOMAIN (<<x>> \o s) :
                i = 1 \/ (i - 1 \in DOMAIN s /\ (<<x>> \o s)[i] = s[i - 1])
           /\ \A i \in DOMAIN (<<x>> \o s) : i \in Nat /\ i >= 1
           /\ \A i \in DOMAIN s : i \in Nat /\ i >= 1
           /\ 1 \in DOMAIN s <=> s # <<>>
<1> DEFINE t == <<x>> \o s
           n == Len(s)
<1>1. n \in Nat /\ DOMAIN s = 1..n /\ (s = <<>> <=> n = 0)
  BY LenProperties, EmptySeq
<1>2. /\ t \in Seq(S) /\ Len(t) = n + 1 /\ DOMAIN t = 1..(n + 1)
      /\ \A i \in 1..(n + 1) : t[i] = IF i = 1 THEN x ELSE s[i - 1]
  BY <1>1
<1>3. t # <<>> /\ Head(t) = x /\ Tail(t) = s
  BY <1>1, <1>2
<1> HIDE DEF t, n
<1>4. \A i \in 1..(n + 1) : i = 1 \/ (i - 1 \in 1..n)
  BY <1>1
<1>5. \A i \in 1..n : i + 1 \in 1..(n + 1) /\ (i + 1) - 1 = i /\ i + 1 # 1
  BY <1>1
<1>6. 1 \in 1..(n + 1) /\ (1 \in 1..n <=> n # 0)
  BY <1>1
<1> QED BY <1>1, <1>2, <1>3, <1>4, <1>5, <1>6 DEF t, n

\* A sequence that is not empty is its first element before the others.
LEMMA HeadAndTail ==
    ASSUME NEW S, NEW t \in Seq(S), t # <<>>
    PROVE  Head(t) \in S /\ Tail(t) \in Seq(S) /\ t = <<Head(t)>> \o Tail(t) /\ Head(t) = t[1]
<1>1. Head(t) \in S /\ Tail(t) \in Seq(S) /\ Head(t) = t[1]
  BY HeadTailProperties, EmptySeq
<1> DEFINE u == <<Head(t)>> \o Tail(t)
           n == Len(t)
<1>2. n \in Nat \ {0} /\ DOMAIN t = 1..n /\ Len(Tail(t)) = n - 1
      /\ \A i \in 1..(n - 1) : Tail(t)[i] = t[i + 1]
  BY EmptySeq, LenProperties, HeadTailProperties
<1>3. u \in Seq(S) /\ Len(u) = n /\ \A i \in 1..n : u[i] = t[i]
  <2> DEFINE one == <<Head(t)>>
             rest == Tail(t)
  <2>1. one \in Seq(S) /\ Len(one) = 1 /\ one[1] = t[1]
    BY <1>1
  <2>2. rest \in Seq(S) /\ Len(rest) = n - 1 /\ \A i \in 1..(n - 1) : rest[i] = t[i + 1]
    BY <1>1, <1>2
  <2> HIDE DEF one, rest, n
  <2>3. /\ one \o rest \in Seq(S) /\ Len(one \o rest) = 1 + (n - 1)
        /\ \A i \in 1..(1 + (n - 1)) : (one \o rest)[i] = IF i <= 1 THEN one[i] ELSE rest[i - 1]
    <3>1. one \in Seq(S) /\ rest \in Seq(S)
      BY <2>1, <2>2
    <3>2. /\ one \o rest \in Seq(S) /\ Len(one \o rest) = Len(one) + Len(rest)
          /\ \A i \in 1..(Len(one) + Len(rest)) :
               (one \o rest)[i] = IF i <= Len(one) THEN one[i] ELSE rest[i - Len(one)]
      BY <3>1, ConcatProperties
    <3>3. Len(one) = 1 /\ Len(rest) = n - 1
      BY <2>1, <2>2
    <3> QED BY <3>2, <3>3
  <2>4. 1 + (n - 1) = n /\ \A i \in 1..n : i = 1 \/ (~(i <= 1) /\ i - 1 \in 1..(n - 1) /\ (i - 1) + 1 = i)
    BY <1>2
  <2>5. ASSUME NEW i \in 1..n PROVE (one \o rest)[i] = t[i]
    <3>1. CASE i = 1
      BY <3>1, <2>1, <2>3, <2>4
    <3>2. CASE i # 1
      BY <3>2, <2>2, <2>3, <2>4
    <3> QED BY <3>1, <3>2
  <2> QED BY <2>3, <2>4, <2>5 DEF one, rest
<1> HIDE DEF u, n
<1>4. u = t
  BY <1>3, SeqEqual DEF n
<1> QED BY <1>1, <1>4 DEF u

\* What is left when the first step has been taken, and what that step was.
LEMMA TopStep ==
    ASSUME StepsOk(todo), todo # <<>>
    PROVE  \E x \in Steps, s \in Seq(Steps) :
             /\ x = Head(todo) /\ s = Tail(todo) /\ todo = <<x>> \o s
             /\ Stack(s) /\ Before(x, s) /\ Claim(x) /\ Claims(s)
             /\ x.op \notin LoadOps => PinsReady(s)
             /\ x.op = "pin" => loc[x.block] = "GPU"
<1>1. todo \in Seq(Steps) /\ Stack(todo) /\ Claims(todo) /\ PinsReady(todo) /\ PinNow(todo)
  BY DEF StepsOk
<1>2. PICK x, s : x = Head(todo) /\ s = Tail(todo)
  OBVIOUS
<1>3. x \in Steps /\ s \in Seq(Steps) /\ todo = <<x>> \o s /\ todo[1] = x
  BY <1>1, <1>2, HeadAndTail
<1>4. /\ 1 \in DOMAIN todo
      /\ \A i \in DOMAIN s : i + 1 \in DOMAIN todo /\ todo[i + 1] = s[i]
      /\ \A i \in DOMAIN todo : i = 1 \/ (i - 1 \in DOMAIN s /\ todo[i] = s[i - 1])
      /\ \A i \in DOMAIN todo : i \in Nat /\ i >= 1
      /\ \A i \in DOMAIN s : i \in Nat /\ i >= 1
      /\ 1 \in DOMAIN s <=> s # <<>>
  BY <1>3, Pushed
<1>5. Claim(x) /\ Claims(s)
  BY <1>1, <1>3, <1>4 DEF Claims
<1>6. ASSUME x.op \notin LoadOps PROVE PinsReady(s)
  <2>1. WillLoad(todo) => WillLoad(s)
    BY <1>3, <1>4, <1>6 DEF WillLoad
  <2> QED BY <2>1, <1>1, <1>4 DEF PinsReady
<1>7. x.op = "pin" => loc[x.block] = "GPU"
  BY <1>1, <1>3 DEF PinNow
<1>8. Stack(s)
  <2> SUFFICES ASSUME NEW i \in DOMAIN s PROVE InPlace(s, i)
    BY DEF Stack
  <2>1. InPlace(todo, i + 1) /\ todo[i + 1] = s[i] /\ i \in Nat
    BY <1>1, <1>4 DEF Stack
  <2>2. (i + 1) + 1 \in DOMAIN todo <=> i + 1 \in DOMAIN s
    BY <1>4, <2>1
  <2>3. i + 1 \in DOMAIN s => todo[(i + 1) + 1] = s[i + 1]
    BY <1>4
  <2>4. \A j \in DOMAIN s : j > i => (j + 1 \in DOMAIN todo /\ j + 1 > i + 1 /\ todo[j + 1] = s[j])
    BY <1>4, <2>1
  <2>5. \A j \in DOMAIN todo : j > i + 1 => (j - 1 \in DOMAIN s /\ j - 1 > i /\ todo[j] = s[j - 1])
    BY <1>4, <2>1
  <2> HIDE <1>1, <1>4
  <2> QED BY <2>1, <2>2, <2>3, <2>4, <2>5 DEF InPlace
<1>9. Before(x, s)
  <2>1. InPlace(todo, 1)
    BY <1>1, <1>4 DEF Stack
  <2>2. /\ 1 + 1 \in DOMAIN todo <=> s # <<>>
        /\ s # <<>> => todo[1 + 1] = s[1]
    BY <1>4
  <2>3. \A j \in DOMAIN s : j + 1 \in DOMAIN todo /\ j + 1 > 1 /\ todo[j + 1] = s[j]
    BY <1>4
  <2>4. \A j \in DOMAIN todo : j > 1 => (j - 1 \in DOMAIN s /\ todo[j] = s[j - 1])
    BY <1>4
  <2>5. /\ s # <<>> => s[1].op \notin {"dispatch", "poll"}
        /\ s # <<>> /\ s[1].op = "pin" => x.op \in {"wait", "settle"}
        /\ x.op \in LastOps => s = <<>>
    BY <2>1, <2>2, <1>3 DEF InPlace
  <2>6. /\ x.op \in LoadOps => AfterLoad(s)
        /\ x.op \in BlockOps => AllOn(x.block, s)
    <3>1. ASSUME x.op \in LoadOps PROVE AfterLoad(s)
      <4>1. \A j \in DOMAIN todo : j > 1 => todo[j].op \in {"wait", "created", "settle", "pin"}
        BY <2>1, <3>1, <1>3 DEF InPlace
      <4> QED BY <4>1, <2>3 DEF AfterLoad
    <3>2. ASSUME x.op \in BlockOps PROVE AllOn(x.block, s)
      <4>1. \A j \in DOMAIN todo : j > 1 /\ todo[j].op \in BlockOps => todo[j].block = x.block
        BY <2>1, <3>2, <1>3 DEF InPlace
      <4> QED BY <4>1, <2>3 DEF AllOn
    <3> QED BY <3>1, <3>2
  <2>7. x.op \in {"makeRoom", "evict"} => WillStart(s)
    BY <2>1, <2>4, <1>3 DEF InPlace, WillStart
  <2> QED BY <2>5, <2>6, <2>7 DEF Before
<1> QED BY <1>2, <1>3, <1>5, <1>6, <1>7, <1>8, <1>9

\* A step that may come before others, in a state in which both count on
\* what they may count on.
LEMMA PushStep ==
    ASSUME NEW x \in Steps, NEW s \in Seq(Steps), Stack(s), Before(x, s),
           Claim(x)', Claims(s)', x.op \in LoadOps \/ PinsReady(s)', x.op # "pin"
    PROVE  StepsOk(<<x>> \o s)'
<1> DEFINE t == <<x>> \o s
<1>1. /\ t \in Seq(Steps) /\ t # <<>> /\ t[1] = x
      /\ 1 \in DOMAIN t
      /\ \A i \in DOMAIN s : i + 1 \in DOMAIN t /\ t[i + 1] = s[i]
      /\ \A i \in DOMAIN t : i = 1 \/ (i - 1 \in DOMAIN s /\ t[i] = s[i - 1])
      /\ \A i \in DOMAIN t : i \in Nat /\ i >= 1
      /\ \A i \in DOMAIN s : i \in Nat /\ i >= 1
      /\ 1 \in DOMAIN s <=> s # <<>>
  BY Pushed
<1> HIDE DEF t
<1>2. Claims(t)'
  BY <1>1 DEF Claims
<1>3. PinsReady(t)'
  <2>1. /\ WillLoad(s) => WillLoad(t)
        /\ x.op \in LoadOps => WillLoad(t)
    BY <1>1 DEF WillLoad
  <2>2. ASSUME NEW i \in DOMAIN t, t[i].op = "pin"
        PROVE  WillLoad(t) \/ OnItsWay(t[i].block)'
    BY <2>1, <2>2, <1>1 DEF PinsReady
  <2>3. WillLoad(t)' <=> WillLoad(t)
    BY DEF WillLoad
  <2> QED BY <2>2, <2>3 DEF PinsReady
<1>4. PinNow(t)'
  BY <1>1 DEF PinNow
<1>5. ASSUME NEW i \in DOMAIN t PROVE InPlace(t, i)
  <2>1. CASE i = 1
    <3>1. /\ 1 + 1 \in DOMAIN t <=> s # <<>>
          /\ s # <<>> => t[1 + 1] = s[1]
      BY <1>1
    <3>2. \A j \in DOMAIN s : j + 1 \in DOMAIN t /\ j + 1 > 1 /\ t[j + 1] = s[j]
      BY <1>1
    <3>3. \A j \in DOMAIN t : j > 1 => (j - 1 \in DOMAIN s /\ t[j] = s[j - 1])
      BY <1>1
    <3>4. t[1] = x
      BY <1>1
    <3>5. /\ 1 + 1 \in DOMAIN t => t[1 + 1].op \notin {"dispatch", "poll"}
          /\ 1 + 1 \in DOMAIN t /\ t[1 + 1].op = "pin" => t[1].op \in {"wait", "settle"}
          /\ t[1].op \in LastOps => 1 + 1 \notin DOMAIN t
      BY <3>1, <3>4 DEF Before
    <3>6. t[1].op \in LoadOps =>
            \A j \in DOMAIN t : j > 1 => t[j].op \in {"wait", "created", "settle", "pin"}
      BY <3>3, <3>4 DEF Before, AfterLoad
    <3>7. t[1].op \in BlockOps =>
            \A j \in DOMAIN t : j > 1 /\ t[j].op \in BlockOps => t[j].block = t[1].block
      BY <3>3, <3>4 DEF Before, AllOn
    <3>8. t[1].op \in {"makeRoom", "evict"} => \E j \in DOMAIN t : j > 1 /\ t[j].op = "startLoad"
      BY <3>2, <3>4 DEF Before, WillStart
    <3>9. InPlace(t, 1)
      BY <3>5, <3>6, <3>7, <3>8 DEF InPlace
    <3> QED BY <2>1, <3>9
  <2>2. CASE i # 1
    <3> DEFINE k == i - 1
    <3>1. k \in DOMAIN s /\ k \in Nat /\ i = k + 1 /\ t[k + 1] = s[k]
      BY <2>2, <1>1
    <3> HIDE DEF k
    <3>2. InPlace(s, k)
      BY <3>1 DEF Stack
    <3>3. (k + 1) + 1 \in DOMAIN t <=> k + 1 \in DOMAIN s
      <4>1. (k + 1) + 1 \in DOMAIN t => ((k + 1) + 1) - 1 \in DOMAIN s
        BY <1>1, <3>1
      <4>2. k + 1 \in DOMAIN s => (k + 1) + 1 \in DOMAIN t
        BY <1>1
      <4> QED BY <3>1, <4>1, <4>2
    <3>4. k + 1 \in DOMAIN s => t[(k + 1) + 1] = s[k + 1]
      BY <1>1
    <3>5. \A j \in DOMAIN s : j > k => (j + 1 \in DOMAIN t /\ j + 1 > k + 1 /\ t[j + 1] = s[j])
      BY <1>1, <3>1
    <3>6. \A j \in DOMAIN t : j > k + 1 => (j - 1 \in DOMAIN s /\ j - 1 > k /\ t[j] = s[j - 1])
      BY <1>1, <3>1
    <3>7. InPlace(t, k + 1)
      BY <3>1, <3>2, <3>3, <3>4, <3>5, <3>6 DEF InPlace
    <3> QED BY <3>1, <3>7
  <2> QED BY <2>1, <2>2
<1>6. Stack(t)'
  <2>1. Stack(t)
    BY <1>5 DEF Stack
  <2>2. Stack(t)' <=> Stack(t)
    BY DEF Stack, InPlace
  <2> QED BY <2>1, <2>2
<1>7. StepsOk(t)'
  BY <1>1, <1>2, <1>3, <1>4, <1>6 DEF StepsOk
<1> QED BY <1>7 DEF t

\* What steps count on stays true when references and leases stay, no block
\* leaves the CPU and none turns back on its way.
Calm ==
    /\ refs' = refs /\ pins' = pins /\ prefetched' = prefetched
    /\ \A b \in Block : (loc[b] = "CPU" => loc'[b] = "CPU") /\ (OnItsWay(b) => OnItsWay(b)')

LEMMA CalmClaims ==
    ASSUME Calm, NEW s \in Seq(Steps)
    PROVE  /\ Claims(s) => Claims(s)'
           /\ PinsReady(s) => PinsReady(s)'
           /\ \A x \in Steps : Claim(x) => Claim(x)'
<1>1. ASSUME NEW x \in Steps, Claim(x) PROVE Claim(x)'
  <2>1. x.op \in BlockOps => x.block \in Block
    BY StepFacts
  <2>2. x.op = "startLoad" => x.op \in BlockOps
    BY DEF BlockOps
  <2> QED BY <1>1, <2>1, <2>2 DEF Claim, Calm, Live
<1>2. \A i \in DOMAIN s : s[i] \in Steps
  BY LenProperties
<1>3. ASSUME PinsReady(s), NEW i \in DOMAIN s, s[i].op = "pin"
      PROVE  WillLoad(s) \/ OnItsWay(s[i].block)'
  <2>1. s[i].block \in Block
    BY <1>2, <1>3, StepFacts DEF BlockOps
  <2> QED BY <1>3, <2>1 DEF PinsReady, Calm
<1>4. WillLoad(s)' <=> WillLoad(s)
  BY DEF WillLoad
<1> QED BY <1>1, <1>2, <1>3, <1>4 DEF Claims, PinsReady

LEMMA UnchangedIsCalm ==
    ASSUME refs' = refs, pins' = pins, prefetched' = prefetched, loc' = loc, move' = move
    PROVE  Calm
BY DEF Calm, OnItsWay

LEMMA NoSteps == StepsOk(<<>>)'
<1>1. <<>> \in Seq(Steps) /\ DOMAIN <<>> = {}
  OBVIOUS
<1> QED BY <1>1 DEF StepsOk, Stack, Claims, PinsReady, PinNow

LEMMA TodoIs ==
    ASSUME NEW t, StepsOk(t)', todo' = t,
           work' = <<>> \/ (t # <<>> /\ Head(t).op = "dispatch")
    PROVE  TodoInv'
<1>1. StepsOk(todo)'
  <2>1. t \in Seq(Steps) /\ Stack(t)' /\ Claims(t)' /\ PinsReady(t)' /\ PinNow(t)'
    BY DEF StepsOk
  <2>2. todo' \in Seq(Steps) /\ Stack(todo)' /\ Claims(todo)'
    BY <2>1 DEF Stack, InPlace, Claims
  <2>3. PinsReady(todo)' /\ PinNow(todo)'
    BY <2>1 DEF PinsReady, PinNow, WillLoad
  <2> QED BY <2>2, <2>3 DEF StepsOk
<1>2. (work # <<>> => Doing("dispatch"))'
  BY DEF Doing
<1> QED BY <1>1, <1>2 DEF TodoInv

\* A pin comes next only after a wait or a settle.
LEMMA NoPinNext ==
    ASSUME NEW x, NEW s, Before(x, s), x.op \notin {"wait", "settle"}
    PROVE  PinNow(s) /\ PinNow(s)'
BY DEF Before, PinNow

LEMMA NoWork ==
    ASSUME TodoInv, NEW op, Doing(op), op # "dispatch"
    PROVE  work = <<>>
BY DEF TodoInv, Doing

\* The rest of the call is left when the step is done.
LEMMA StepDone ==
    ASSUME NEW s \in Seq(Steps), Stack(s), Claims(s)', PinsReady(s)', PinNow(s)',
           todo' = s, work' = <<>>
    PROVE  TodoInv'
<1>1. Stack(s)'
  BY DEF Stack, InPlace
<1>2. StepsOk(s)'
  BY <1>1 DEF StepsOk
<1> QED BY <1>2, TodoIs

\* Another step is to be done before the rest.
LEMMA StepAdded ==
    ASSUME NEW x \in Steps, NEW s \in Seq(Steps), Stack(s), Before(x, s),
           Claim(x)', Claims(s)', x.op \in LoadOps \/ PinsReady(s)', x.op # "pin",
           todo' = <<x>> \o s, work' = <<>> \/ x.op = "dispatch"
    PROVE  TodoInv'
<1>1. StepsOk(<<x>> \o s)'
  BY PushStep
<1>2. <<x>> \o s # <<>> /\ Head(<<x>> \o s) = x
  BY Pushed
<1> QED BY <1>1, <1>2, TodoIs

LEMMA Pair ==
    ASSUME NEW S, NEW x \in S, NEW y \in S
    PROVE  <<x, y>> = <<x>> \o <<y>>
<1> DEFINE a == <<x>>
           b == <<y>>
           c == <<x, y>>
<1>1. /\ a \in Seq(S) /\ Len(a) = 1 /\ a[1] = x
      /\ b \in Seq(S) /\ Len(b) = 1 /\ b[1] = y
  OBVIOUS
<1>2. c \in Seq(S) /\ Len(c) = 2 /\ c[1] = x /\ c[2] = y
  OBVIOUS
<1> HIDE DEF a, b, c
<1>3. a \o b \in Seq(S) /\ Len(a \o b) = 2 /\ (a \o b)[1] = x /\ (a \o b)[2] = y
  <2>1. /\ a \o b \in Seq(S) /\ Len(a \o b) = Len(a) + Len(b)
        /\ \A i \in 1..(Len(a) + Len(b)) :
             (a \o b)[i] = IF i <= Len(a) THEN a[i] ELSE b[i - Len(a)]
    BY <1>1, ConcatProperties
  <2> QED BY <1>1, <2>1
<1>4. \A i \in 1..Len(c) : c[i] = (a \o b)[i]
  BY <1>2, <1>3
<1>5. c = a \o b
  BY <1>2, <1>3, <1>4, SeqEqual
<1> QED BY <1>5 DEF a, b, c

LEMMA PairBefore ==
    ASSUME NEW S, NEW x \in S, NEW y \in S, NEW s \in Seq(S)
    PROVE  <<x, y>> \o s = <<x>> \o (<<y>> \o s)
<1> DEFINE a == <<x>>
           b == <<y>>
           c == <<x, y>>
<1>1. a \in Seq(S) /\ b \in Seq(S)
  OBVIOUS
<1>2. c = a \o b
  BY Pair
<1> HIDE DEF a, b, c
<1>3. c \o s = a \o (b \o s)
  BY <1>1, <1>2, ConcatAssociative
<1> QED BY <1>3 DEF a, b, c

\* Two steps: the second is put before the rest, and the first before it.
LEMMA TwoStepsAdded ==
    ASSUME NEW x \in Steps, NEW y \in Steps, NEW s \in Seq(Steps),
           Stack(s), Before(y, s), Claims(s)', y.op \in LoadOps \/ PinsReady(s)',
           Claim(x)', Claim(y)', y.op \notin {"pin", "dispatch", "poll"} \cup LastOps,
           x.op \in PlainOps, x.op \in {"makeRoom", "evict"} => y.op = "startLoad",
           todo' = <<x, y>> \o s, work' = <<>> \/ x.op = "dispatch"
    PROVE  TodoInv'
<1> DEFINE t == <<y>> \o s
<1>1. StepsOk(t)'
  BY PushStep
<1>2. t \in Seq(Steps) /\ t # <<>> /\ t[1] = y /\ 1 \in DOMAIN t
  BY Pushed
<1>3. <<x, y>> \o s = <<x>> \o t
  BY PairBefore
<1> HIDE DEF t
<1>4. Stack(t) /\ Claims(t)' /\ PinsReady(t)'
  <2>1. Stack(t)' /\ Claims(t)' /\ PinsReady(t)'
    BY <1>1 DEF StepsOk
  <2>2. Stack(t)' <=> Stack(t)
    BY DEF Stack, InPlace
  <2> QED BY <2>1, <2>2
<1>5. Before(x, t)
  <2>1. x.op \notin LastOps /\ x.op \notin LoadOps /\ x.op \notin BlockOps
    BY DEF PlainOps, LastOps, LoadOps, BlockOps
  <2>2. y.op = "startLoad" => WillStart(t)
    BY <1>2 DEF WillStart
  <2> QED BY <1>2, <2>1, <2>2 DEF Before
<1>6. x.op # "pin"
  BY DEF PlainOps
<1> QED BY <1>2, <1>3, <1>4, <1>5, <1>6, StepAdded

\* A step that throws leaves nothing, or the release of the new block.
LEMMA Thrown ==
    ASSUME StepsOk(todo), todo # <<>>, Throw, refs' = refs, pins' = pins, work' = <<>>
    PROVE  TodoInv'
<1>1. PICK l : l = Last(todo)
  OBVIOUS
<1>2. l \in Steps /\ Claim(l)
  <2>1. todo \in Seq(Steps) /\ Claims(todo)
    BY DEF StepsOk
  <2>2. Len(todo) \in DOMAIN todo /\ todo[Len(todo)] \in Steps
    <3>1. Len(todo) \in Nat /\ Len(todo) # 0 /\ DOMAIN todo = 1..Len(todo)
      BY <2>1, EmptySeq, LenProperties
    <3>2. Len(todo) \in 1..Len(todo)
      BY <3>1
    <3> QED BY <2>1, <3>1, <3>2, LenProperties
  <2> QED BY <1>1, <2>1, <2>2 DEF Last, Claims
<1>3. todo' = IF l.op = "created" THEN <<StepOn("release", l.block)>> ELSE <<>>
  BY <1>1 DEF Throw
<1>4. CASE l.op # "created"
  BY <1>3, <1>4, NoSteps, TodoIs
<1>5. CASE l.op = "created"
  <2>1. PICK x : x = StepOn("release", l.block)
    OBVIOUS
  <2>2. l.block \in Block
    BY <1>2, <1>5, StepFacts DEF BlockOps
  <2>3. x \in Steps /\ x.op = "release" /\ x.block = l.block
    BY <2>1, <2>2, BlockStep DEF BlockOps
  <2>4. Claim(x)'
    BY <1>2, <1>5, <2>3 DEF Claim, Live, BlockOps
  <2>5. <<>> \in Seq(Steps) /\ DOMAIN <<>> = {} /\ <<x>> \o <<>> = <<x>>
    OBVIOUS
  <2>6. Stack(<<>>) /\ Claims(<<>>)' /\ PinsReady(<<>>)' /\ Before(x, <<>>)
    BY <2>3, <2>5 DEF Stack, Claims, PinsReady, Before, LoadOps, AllOn
  <2>7. todo' = <<x>>
    BY <1>3, <1>5, <2>1
  <2> QED BY <2>3, <2>4, <2>5, <2>6, <2>7, StepAdded
<1> QED BY <1>4, <1>5

-----------------------------------------------------------------------------
(* Room.                                                                   *)

LEMMA Counted ==
    ASSUME Core
    PROVE  /\ IsFiniteSet(Offloading) /\ Cardinality(Offloading) \in Nat
           /\ IsFiniteSet(FreeSlots) /\ Cardinality(FreeSlots) \in Nat
           /\ Len(queued) \in Nat /\ Len(work) \in Nat
<1>1. IsFiniteSet(Offloading) /\ Cardinality(Offloading) \in Nat
  BY Movers, BlocksCounted
<1>2. FreeSlots \in SUBSET GpuSlot
  BY DEF FreeSlots
<1>3. IsFiniteSet(FreeSlots) /\ Cardinality(FreeSlots) \in Nat
  BY <1>2, SlotsAreFinite, FS_Subset, FS_CardinalityType
<1> QED BY <1>1, <1>3, LenProperties DEF Core, ListInv

LEMMA RoomWhenEmpty ==
    ASSUME Core', queued' = <<>>, work' = <<>>
    PROVE  RoomForQueued'
<1>1. \A c \in ToSet(pending') : c \in Block
  BY InList DEF Core, ListInv
<1>2. Cardinality(Offloading') \in Nat
  BY <1>1, BlocksCounted DEF Offloading
<1>3. FreeSlots' \in SUBSET GpuSlot
  BY DEF FreeSlots
<1>4. Cardinality(FreeSlots') \in Nat
  BY <1>3, SlotsAreFinite, FS_Subset, FS_CardinalityType
<1>5. Len(<<>>) = 0
  OBVIOUS
<1> QED BY <1>2, <1>4, <1>5 DEF RoomForQueued

\* A failure, whatever step it is in.
LEMMA FailedStep ==
    ASSUME IInv, todo # <<>>, NEW cpu, NEW gpu, MayFail(cpu, gpu), Failed(cpu, gpu),
           work' = <<>>, Throw
    PROVE  IInv' /\ pins' = pins /\ \A c \in Block : slot'[c] = slot[c] \/ loc[c] # "GPU"
<1>1. Core /\ CountInv /\ StepsOk(todo)
  BY DEF IInv, TodoInv
<1>2. /\ Core' /\ refs' = refs /\ pins' = pins /\ queued' = <<>>
      /\ \A c \in Block : slot'[c] = slot[c] \/ loc[c] # "GPU"
  BY <1>1, FailedSound
<1>3. CountInv'
  BY <1>1, CountAfterFailure
<1>4. RoomForQueued'
  BY <1>2, RoomWhenEmpty
<1>5. TodoInv'
  BY <1>1, <1>2, Thrown
<1> QED BY <1>2, <1>3, <1>4, <1>5 DEF IInv

-----------------------------------------------------------------------------
(* Steps and calls that copy nothing.                                      *)

\* A lease keeps its slot.
Stays == \A b \in Block : pins[b] > 0 /\ pins'[b] > 0 => slot'[b] = slot[b]

\* The users of a block, its content and the candidates may change when its
\* place does not.
LEMMA UseSound ==
    ASSUME Core,
           loc' = loc, move' = move, slot' = slot, slotRefs' = slotRefs, flight' = flight,
           pending' = pending, queued' = queued, work' = work,
           refs' \in [Block -> Nat], pins' \in [Block -> Nat], prefetched' \in [Block -> BOOLEAN],
           DOMAIN gpuData' = GpuSlot, DOMAIN hostData' = Block,
           lru' \in Seq(Block), IsInjective(lru'),
           \A c \in Block : UseOk(c)' /\ KeptOk(c)',
           \A c \in Block : c \in ToSet(lru') <=> (loc[c] = "GPU" /\ pins'[c] = 0)
    PROVE  Core' /\ Stays
<1>1. EntryTypes /\ BlocksInv /\ PoolInv /\ ListInv
  BY DEF Core
<1>2. EntryTypes'
  BY <1>1 DEF EntryTypes
<1>3. ListInv'
  BY <1>1 DEF ListInv
<1>4. PoolInv'
  BY <1>1 DEF PoolInv, Copying, CopyOf
<1>5. ASSUME NEW c \in Block
      PROVE  PlaceOk(c)' /\ UseOk(c)' /\ KeptOk(c)' /\ ListsOk(c)' /\ SlotOk(c)'
  <2>1. PlaceOk(c) /\ ListsOk(c) /\ SlotOk(c)
    BY BlockFacts
  <2> QED BY <2>1 DEF PlaceOk, ListsOk, SlotOk, Copying
<1>6. Core'
  BY <1>2, <1>3, <1>4, <1>5 DEF Core, BlocksInv
<1> QED BY <1>6 DEF Stays

LEMMA SameRoom ==
    ASSUME RoomForQueued, queued' = queued, work' = work, pending' = pending, move' = move,
           slotRefs' = slotRefs
    PROVE  RoomForQueued'
BY DEF RoomForQueued, Offloading, FreeSlots

LEMMA SameCount ==
    ASSUME CountInv, prefetched' = prefetched, uncounted' = uncounted
    PROVE  CountInv'
BY DEF CountInv

\* Nothing but the order of the candidates changes.
LEMMA QuietSound ==
    ASSUME Core, UNCHANGED <<poolVars, entryVars, pending, queued, work>>,
           lru' = lru \/ \E b \in Block : loc[b] = "GPU" /\ pins[b] = 0 /\ lru' = Touched(lru, <<b>>)
    PROVE  /\ Core' /\ Stays /\ Calm
           /\ RoomForQueued => RoomForQueued'
           /\ CountInv => CountInv'
<1>1. /\ refs' = refs /\ pins' = pins /\ loc' = loc /\ move' = move /\ slot' = slot
      /\ prefetched' = prefetched /\ uncounted' = uncounted /\ slotRefs' = slotRefs
      /\ flight' = flight /\ gpuData' = gpuData /\ hostData' = hostData
      /\ pending' = pending /\ queued' = queued /\ work' = work
  BY DEF poolVars, entryVars, prefetchVars
<1>2. EntryTypes /\ ListInv
  BY DEF Core
<1>3. \A c \in Block : c \in ToSet(lru) <=> (loc[c] = "GPU" /\ pins[c] = 0)
  BY BlockFacts DEF ListsOk
<1>4. /\ lru' \in Seq(Block) /\ IsInjective(lru')
      /\ \A c \in Block : c \in ToSet(lru') <=> (loc[c] = "GPU" /\ pins[c] = 0)
  <2>1. CASE lru' = lru
    BY <2>1, <1>2, <1>3 DEF ListInv
  <2>2. ASSUME NEW b \in Block, loc[b] = "GPU" /\ pins[b] = 0 /\ lru' = Touched(lru, <<b>>)
        PROVE  /\ lru' \in Seq(Block) /\ IsInjective(lru')
               /\ \A c \in Block : c \in ToSet(lru') <=> (loc[c] = "GPU" /\ pins[c] = 0)
    <3> DEFINE one == <<b>>
    <3>1. one \in Seq(Block) /\ IsInjective(one) /\ ToSet(one) = {b}
      BY SingleList
    <3> HIDE DEF one
    <3>2. /\ Touched(lru, one) \in Seq(Block) /\ IsInjective(Touched(lru, one))
          /\ \A x : x \in ToSet(Touched(lru, one)) <=> (x \in ToSet(lru) \/ x \in ToSet(one))
      BY <1>2, <3>1, TouchedList DEF ListInv
    <3>3. lru' = Touched(lru, one)
      BY <2>2 DEF one
    <3> QED BY <2>2, <3>1, <3>2, <3>3, <1>3
  <2> QED BY <2>1, <2>2
<1>5. ASSUME NEW c \in Block PROVE UseOk(c)' /\ KeptOk(c)'
  <2>1. UseOk(c) /\ KeptOk(c)
    BY BlockFacts
  <2> QED BY <1>1, <2>1 DEF UseOk, KeptOk, OnItsWay, Live
<1>6. Core' /\ Stays
  <2>1. /\ refs' \in [Block -> Nat] /\ pins' \in [Block -> Nat] /\ prefetched' \in [Block -> BOOLEAN]
        /\ DOMAIN gpuData' = GpuSlot /\ DOMAIN hostData' = Block
    BY <1>1, <1>2 DEF EntryTypes
  <2> QED BY <1>1, <1>4, <1>5, <2>1, UseSound
<1>7. Calm
  BY <1>1, UnchangedIsCalm
<1> QED BY <1>1, <1>6, <1>7, SameRoom, SameCount

\* A step that changes nothing else and is done, once a pin that comes next
\* has its block on the GPU.
LEMMA QuietDone ==
    ASSUME IInv, todo # <<>>, UNCHANGED <<poolVars, entryVars, pending, queued, work>>,
           lru' = lru \/ \E b \in Block : loc[b] = "GPU" /\ pins[b] = 0 /\ lru' = Touched(lru, <<b>>),
           Done, work = <<>>,
           PinsReady(Tail(todo)), PinNow(Tail(todo))
    PROVE  IInv' /\ Stays
<1>1. /\ Core' /\ Stays /\ Calm /\ RoomForQueued' /\ CountInv'
  BY QuietSound DEF IInv
<1>2. PICK x \in Steps, s \in Seq(Steps) :
        x = Head(todo) /\ s = Tail(todo) /\ Stack(s) /\ Claims(s)
  BY TopStep DEF IInv, TodoInv
<1>3. PinsReady(s) /\ PinNow(s)
  <2>1. PinsReady(s)
    BY <1>2 DEF PinsReady, WillLoad
  <2>2. PinNow(s)
    BY <1>2 DEF PinNow
  <2> QED BY <2>1, <2>2
<1>4. Claims(s)' /\ PinsReady(s)'
  BY <1>1, <1>2, <1>3, CalmClaims
<1>5. PinNow(s)'
  <2>1. loc' = loc
    BY DEF entryVars
  <2> QED BY <1>3, <2>1 DEF PinNow
<1>6. work' = <<>> /\ todo' = s
  BY <1>2 DEF Done
<1>7. TodoInv'
  BY <1>2, <1>4, <1>5, <1>6, StepDone
<1> QED BY <1>1, <1>7 DEF IInv

\* A step that puts a wait, and perhaps one more step, before what is left.
LEMMA QuietWait ==
    ASSUME IInv, todo # <<>>, UNCHANGED <<poolVars, entryVars, listVars>>, work = <<>>,
           First(<<Step("wait")>>), Head(todo).op \notin {"dispatch", "poll"}
    PROVE  IInv' /\ Stays
<1>1. /\ Core' /\ Stays /\ Calm /\ RoomForQueued' /\ CountInv'
  BY QuietSound DEF IInv, listVars
<1>2. PICK x : x = Step("wait")
  OBVIOUS
<1>3. x \in Steps /\ x.op = "wait"
  BY <1>2, PlainStep DEF PlainOps
<1>4. PICK s : s = todo
  OBVIOUS
<1>5. s \in Seq(Steps) /\ Stack(s) /\ Claims(s) /\ PinsReady(s) /\ s # <<>> /\ Head(s) = s[1]
  <2>1. todo \in Seq(Steps) /\ Stack(todo) /\ Claims(todo) /\ PinsReady(todo)
    BY DEF IInv, TodoInv, StepsOk
  <2>2. s \in Seq(Steps) /\ Stack(s) /\ Claims(s)
    BY <1>4, <2>1 DEF Stack, InPlace, Claims
  <2>3. PinsReady(s)
    BY <1>4, <2>1 DEF PinsReady, WillLoad
  <2> QED BY <1>4, <2>2, <2>3
<1>6. Claims(s)' /\ PinsReady(s)'
  BY <1>1, <1>5, CalmClaims
<1>7. Claim(x)' /\ Before(x, s)
  BY <1>3, <1>4, <1>5 DEF Claim, Before, BlockOps, LastOps, LoadOps
<1>8. todo' = <<x>> \o s /\ work' = <<>>
  BY <1>2, <1>4 DEF First, listVars
<1>9. TodoInv'
  BY <1>3, <1>5, <1>6, <1>7, <1>8, StepAdded
<1> QED BY <1>1, <1>9 DEF IInv

\* A step that gives way to another one, or to two.
LEMMA QuietThen ==
    ASSUME IInv, todo # <<>>, UNCHANGED <<poolVars, entryVars, pending, queued, work>>,
           lru' = lru \/ \E b \in Block : loc[b] = "GPU" /\ pins[b] = 0 /\ lru' = Touched(lru, <<b>>),
           work = <<>>
    PROVE  /\ Core' /\ Stays /\ RoomForQueued' /\ CountInv' /\ work' = <<>>
           /\ \E x \in Steps, s \in Seq(Steps) :
                /\ x = Head(todo) /\ s = Tail(todo)
                /\ Stack(s) /\ Before(x, s) /\ Claim(x) /\ Claim(x)' /\ Claims(s)'
                /\ x.op \notin LoadOps => PinsReady(s)'
<1>1. /\ Core' /\ Stays /\ Calm /\ RoomForQueued' /\ CountInv'
  BY QuietSound DEF IInv
<1>2. PICK x \in Steps, s \in Seq(Steps) :
        /\ x = Head(todo) /\ s = Tail(todo) /\ Stack(s) /\ Before(x, s) /\ Claim(x) /\ Claims(s)
        /\ x.op \notin LoadOps => PinsReady(s)
  BY TopStep DEF IInv, TodoInv
<1>4. Claim(x)' /\ Claims(s)' /\ (x.op \notin LoadOps => PinsReady(s)')
  BY <1>1, <1>2, CalmClaims
<1> QED BY <1>1, <1>2, <1>4

\* What is left after a load, once its block is on its way.
LEMMA AfterLoadReady ==
    ASSUME NEW x \in Steps, NEW s \in Seq(Steps), Before(x, s), x.op \in LoadOps
    PROVE  /\ OnItsWay(x.block) => PinsReady(s)
           /\ OnItsWay(x.block)' => PinsReady(s)'
<1>1. AllOn(x.block, s)
  BY DEF Before, LoadOps, BlockOps
<1> QED BY <1>1 DEF AllOn, PinsReady, BlockOps

\* A pin that comes next is the last step, so its block is on its way.
LEMMA PinNext ==
    ASSUME NEW s \in Seq(Steps), Stack(s), PinsReady(s), s # <<>>, s[1].op = "pin"
    PROVE  s[1].block \in Block /\ OnItsWay(s[1].block)
<1>1. 1 \in DOMAIN s /\ DOMAIN s = 1..Len(s) /\ Len(s) \in Nat /\ s[1] \in Steps
  BY EmptySeq, LenProperties
<1>2. 2 \notin DOMAIN s
  BY <1>1 DEF Stack, InPlace, LastOps
<1>3. \A i \in DOMAIN s : i = 1
  BY <1>1, <1>2
<1>4. ~WillLoad(s)
  BY <1>3 DEF WillLoad, LoadOps
<1> QED BY <1>1, <1>4, StepFacts DEF PinsReady, BlockOps

LEMMA WaitDoneKeeps ==
    ASSUME IInv, WaitDone PROVE IInv' /\ Stays
<1>1. todo # <<>> /\ Head(todo).op = "wait" /\ work = <<>>
  BY NoWork DEF WaitDone, Doing, IInv
<1>2. PICK x \in Steps, s \in Seq(Steps) :
        /\ x = Head(todo) /\ s = Tail(todo) /\ Stack(s)
        /\ x.op \notin LoadOps => PinsReady(s)
  BY <1>1, TopStep DEF IInv, TodoInv
<1>3. PinsReady(s)
  BY <1>1, <1>2 DEF LoadOps
<1>4. PinNow(s)
  <2> SUFFICES ASSUME s # <<>>, s[1].op = "pin" PROVE loc[s[1].block] = "GPU"
    BY DEF PinNow
  <2>1. s[1].block \in Block /\ OnItsWay(s[1].block)
    BY <1>2, <1>3, PinNext
  <2>2. pending = <<>> /\ queued = <<>> /\ work = <<>>
    BY <1>1 DEF WaitDone
  <2>3. \A c : c \notin ToSet(pending) /\ c \notin ToSet(queued) /\ c \notin ToSet(work)
    BY <2>2, EmptyList
  <2>4. ListsOk(s[1].block)
    BY <2>1, BlockFacts DEF IInv
  <2> QED BY <2>1, <2>3, <2>4 DEF ListsOk, Copying, OnItsWay
<1>5. PinsReady(Tail(todo)) /\ PinNow(Tail(todo))
  <2>1. PinsReady(Tail(todo))
    BY <1>2, <1>3 DEF PinsReady, WillLoad
  <2>2. PinNow(Tail(todo))
    BY <1>2, <1>4 DEF PinNow
  <2> QED BY <2>1, <2>2
<1> QED BY <1>1, <1>5, QuietDone DEF WaitDone, listVars

\* A step that is done and leaves no pin to come next.
LEMMA QuietlyDone ==
    ASSUME IInv, todo # <<>>, UNCHANGED <<poolVars, entryVars, pending, queued, work>>,
           lru' = lru \/ \E b \in Block : loc[b] = "GPU" /\ pins[b] = 0 /\ lru' = Touched(lru, <<b>>),
           Done, work = <<>>, Head(todo).op \notin {"wait", "settle"},
           Head(todo).op \in LoadOps => OnItsWay(Head(todo).block)
    PROVE  IInv' /\ Stays
<1>1. PICK x \in Steps, s \in Seq(Steps) :
        /\ x = Head(todo) /\ s = Tail(todo) /\ Before(x, s)
        /\ x.op \notin LoadOps => PinsReady(s)
  BY TopStep DEF IInv, TodoInv
<1>2. PinsReady(s) /\ PinNow(s)
  <2>1. x.op \in LoadOps => OnItsWay(x.block)
    BY <1>1 DEF OnItsWay
  <2>2. x.op \notin {"wait", "settle"}
    BY <1>1
  <2> QED BY <1>1, <2>1, <2>2, AfterLoadReady, NoPinNext
<1>3. PinsReady(Tail(todo)) /\ PinNow(Tail(todo))
  <2>1. PinsReady(Tail(todo))
    BY <1>1, <1>2 DEF PinsReady, WillLoad
  <2>2. PinNow(Tail(todo))
    BY <1>1, <1>2 DEF PinNow
  <2> QED BY <2>1, <2>2
<1> QED BY <1>3, QuietDone

\* A step that changes nothing else and throws.
LEMMA QuietThrow ==
    ASSUME IInv, todo # <<>>, UNCHANGED <<poolVars, entryVars, listVars>>, work = <<>>, Throw
    PROVE  IInv' /\ Stays
<1>1. /\ Core' /\ Stays /\ RoomForQueued' /\ CountInv'
  BY QuietSound DEF IInv, listVars
<1>2. TodoInv'
  BY Thrown DEF IInv, TodoInv, entryVars, listVars
<1> QED BY <1>1, <1>2 DEF IInv

LEMMA PollIdleKeeps ==
    ASSUME IInv, PollIdle PROVE IInv' /\ Stays
<1>1. todo # <<>> /\ Head(todo).op = "poll" /\ work = <<>>
  BY NoWork DEF PollIdle, Doing, IInv
<1>2. CASE Done
  BY <1>1, <1>2, QuietlyDone DEF PollIdle, listVars, LoadOps
<1>3. CASE Throw
  BY <1>1, <1>3, QuietThrow DEF PollIdle
<1> QED BY <1>2, <1>3 DEF PollIdle

LEMMA DispatchDoneKeeps ==
    ASSUME IInv, DispatchDone PROVE IInv' /\ Stays
<1>1. todo # <<>> /\ Head(todo).op = "dispatch" /\ work = <<>>
  BY DEF DispatchDone, Doing
<1> QED BY <1>1, QuietlyDone DEF DispatchDone, listVars, LoadOps

LEMMA CreatedKeeps ==
    ASSUME IInv, Created PROVE IInv' /\ Stays
<1>1. todo # <<>> /\ Head(todo).op = "created" /\ work = <<>>
  BY NoWork DEF Created, Doing, IInv
<1> QED BY <1>1, QuietlyDone DEF Created, listVars, LoadOps

LEMMA ReleaseWaitsKeeps ==
    ASSUME IInv, ReleaseWaits PROVE IInv' /\ Stays
<1>1. todo # <<>> /\ Head(todo).op = "release" /\ work = <<>>
  BY NoWork DEF ReleaseWaits, Doing, IInv
<1> QED BY <1>1, QuietWait DEF ReleaseWaits

LEMMA MakeRoomKeeps ==
    ASSUME IInv, MakeRoom PROVE IInv' /\ Stays
<1>1. /\ todo # <<>> /\ Head(todo).op = "makeRoom" /\ work = <<>>
      /\ UNCHANGED <<poolVars, entryVars, pending, queued, work>> /\ lru' = lru
  BY NoWork DEF MakeRoom, Doing, IInv, listVars
<1>2. CASE Done
  BY <1>1, <1>2, QuietlyDone DEF LoadOps
<1>3. CASE Then(<<Step("wait"), Step("evict")>>)
  <2>1. /\ Core' /\ Stays /\ RoomForQueued' /\ CountInv' /\ work' = <<>>
        /\ \E x \in Steps, s \in Seq(Steps) :
             /\ x = Head(todo) /\ s = Tail(todo)
             /\ Stack(s) /\ Before(x, s) /\ Claims(s)'
             /\ x.op \notin LoadOps => PinsReady(s)'
    BY <1>1, QuietThen
  <2>2. PICK x \in Steps, s \in Seq(Steps) :
             /\ x = Head(todo) /\ s = Tail(todo)
             /\ Stack(s) /\ Before(x, s) /\ Claims(s)'
             /\ x.op \notin LoadOps => PinsReady(s)'
    BY <2>1
  <2>3. PICK w, e : w = Step("wait") /\ e = Step("evict")
    OBVIOUS
  <2>4. w \in Steps /\ w.op = "wait" /\ e \in Steps /\ e.op = "evict"
    BY <2>3, PlainStep DEF PlainOps
  <2>5. x.op = "makeRoom"
    BY <1>1, <2>2
  <2>6. PinsReady(s)' /\ Before(e, s)
    <3>1. PinsReady(s)'
      BY <2>2, <2>5 DEF LoadOps
    <3>2. Before(e, s)
      BY <2>2, <2>4, <2>5 DEF Before, LastOps, LoadOps, BlockOps
    <3> QED BY <3>1, <3>2
  <2>7. Claim(w)' /\ Claim(e)'
    BY <2>4 DEF Claim, BlockOps
  <2>8. todo' = <<w, e>> \o s
    BY <1>3, <2>2, <2>3 DEF Then
  <2>9. /\ e.op \notin {"pin", "dispatch", "poll"} \cup LastOps /\ w.op \in PlainOps
        /\ w.op \notin {"makeRoom", "evict"}
    BY <2>4 DEF LastOps, PlainOps
  <2>10. TodoInv'
    BY <2>1, <2>2, <2>4, <2>6, <2>7, <2>8, <2>9, TwoStepsAdded
  <2> QED BY <2>1, <2>10 DEF IInv
<1> QED BY <1>2, <1>3 DEF MakeRoom

LEMMA LoadQuietKeeps ==
    ASSUME IInv, LoadStep PROVE IInv' /\ Stays
<1>1. todo # <<>> /\ Head(todo).op = "load" /\ work = <<>>
  BY NoWork DEF LoadStep, Doing, IInv
<1>2. PICK y \in Steps, r \in Seq(Steps) : y = Head(todo) /\ r = Tail(todo)
  BY <1>1, TopStep DEF IInv, TodoInv
<1>3. PICK b : b = y.block
  OBVIOUS
<1>4. b \in Block /\ y.op = "load" /\ It = b /\ Head(todo).block = b
  BY <1>1, <1>2, <1>3, StepFacts DEF BlockOps, It
<1>5. PlaceOk(b) /\ loc[b] \in Location /\ move[b] \in Move /\ pins[b] \in Nat
  BY <1>4, BlockFacts DEF IInv
<1>6. UNCHANGED <<poolVars, entryVars, pending, queued, work>>
  BY DEF LoadStep
<1>7. /\ move[b] = "ToCpu" => First(<<Step("wait")>>) /\ lru' = lru
      /\ loc[b] = "GPU" => Done /\ lru' = IF pins[b] = 0 THEN Touched(lru, <<b>>) ELSE lru
      /\ loc[b] = "TRANSFERRING" /\ move[b] # "ToCpu" => Done /\ lru' = lru
      /\ loc[b] = "CPU" => Then(<<Step("makeRoom"), StepOn("startLoad", b)>>) /\ lru' = lru
  <2>1. /\ move[b] = "ToCpu" => loc[b] = "TRANSFERRING"
    BY <1>5 DEF PlaceOk
  <2>2. (CASE move[It] = "ToCpu" -> First(<<Step("wait")>>) /\ lru' = lru
           [] loc[It] = "GPU" ->
                Done /\ lru' = IF pins[It] = 0 THEN Touched(lru, <<It>>) ELSE lru
           [] loc[It] = "TRANSFERRING" /\ move[It] # "ToCpu" -> Done /\ lru' = lru
           [] loc[It] = "CPU" ->
                Then(<<Step("makeRoom"), StepOn("startLoad", It)>>) /\ lru' = lru)
    BY DEF LoadStep
  <2> QED BY <1>4, <2>1, <2>2
<1>8. CASE move[b] = "ToCpu"
  BY <1>1, <1>6, <1>7, <1>8, QuietWait DEF listVars
<1>9. CASE loc[b] = "GPU"
  <2>1. lru' = lru \/ \E c \in Block : loc[c] = "GPU" /\ pins[c] = 0 /\ lru' = Touched(lru, <<c>>)
    BY <1>4, <1>7, <1>9
  <2>2. Done /\ OnItsWay(b)
    BY <1>7, <1>9 DEF OnItsWay
  <2>3. OnItsWay(Head(todo).block)
    BY <1>4, <2>2 DEF OnItsWay
  <2> QED BY <1>1, <1>6, <2>1, <2>2, <2>3, QuietlyDone
<1>10. CASE loc[b] = "TRANSFERRING" /\ move[b] # "ToCpu"
  <2>1. lru' = lru /\ Done
    BY <1>7, <1>10
  <2>2. OnItsWay(b)
    BY <1>5, <1>10 DEF OnItsWay, PlaceOk, Move
  <2>3. OnItsWay(Head(todo).block)
    BY <1>4, <2>2 DEF OnItsWay
  <2> QED BY <1>1, <1>6, <2>1, <2>3, QuietlyDone
<1>11. CASE loc[b] = "CPU"
  <2>1. lru' = lru /\ Then(<<Step("makeRoom"), StepOn("startLoad", b)>>)
    BY <1>7, <1>11
  <2>2. /\ Core' /\ Stays /\ RoomForQueued' /\ CountInv' /\ work' = <<>>
        /\ \E x \in Steps, s \in Seq(Steps) :
             /\ x = Head(todo) /\ s = Tail(todo)
             /\ Stack(s) /\ Before(x, s) /\ Claim(x)' /\ Claims(s)'
    BY <1>1, <1>6, <2>1, QuietThen
  <2>3. PICK x \in Steps, s \in Seq(Steps) :
             /\ x = Head(todo) /\ s = Tail(todo)
             /\ Stack(s) /\ Before(x, s) /\ Claim(x)' /\ Claims(s)'
    BY <2>2
  <2>4. PICK m, l : m = Step("makeRoom") /\ l = StepOn("startLoad", b)
    OBVIOUS
  <2>5. /\ m \in Steps /\ m.op = "makeRoom"
        /\ l \in Steps /\ l.op = "startLoad" /\ l.block = b
    BY <1>4, <2>4, PlainStep, BlockStep DEF PlainOps, BlockOps
  <2>6. x.op = "load" /\ x.block = b
    BY <1>1, <1>4, <2>3
  <2>7. Before(l, s)
    BY <2>3, <2>5, <2>6 DEF Before, LastOps, LoadOps, BlockOps
  <2>8. Claim(m)' /\ Claim(l)'
    <3>1. Claim(m)'
      BY <2>5 DEF Claim, BlockOps
    <3>2. loc' = loc /\ refs' = refs
      BY <1>6 DEF entryVars
    <3>3. Claim(l)'
      BY <1>11, <2>3, <2>5, <2>6, <3>2 DEF Claim, BlockOps, Live
    <3> QED BY <3>1, <3>3
  <2>9. todo' = <<m, l>> \o s
    BY <2>1, <2>3, <2>4 DEF Then
  <2>10. /\ l.op \notin {"pin", "dispatch", "poll"} \cup LastOps /\ m.op \in PlainOps
         /\ l.op \in LoadOps
    BY <2>5 DEF LastOps, PlainOps, LoadOps
  <2>11. TodoInv'
    BY <2>2, <2>3, <2>5, <2>7, <2>8, <2>9, <2>10, TwoStepsAdded
  <2> QED BY <2>2, <2>11 DEF IInv
<1> QED BY <1>5, <1>8, <1>9, <1>10, <1>11 DEF Location

\* Offloading a block that is not on the GPU, or not yet.
LEMMA OffloadQuietKeeps ==
    ASSUME IInv, Doing("offload"),
           UNCHANGED <<poolVars, entryVars, listVars>>, Done \/ First(<<Step("wait")>>)
    PROVE  IInv' /\ Stays
<1>1. todo # <<>> /\ Head(todo).op = "offload" /\ work = <<>>
  BY NoWork DEF Doing, IInv
<1>2. CASE Done
  BY <1>1, <1>2, QuietlyDone DEF listVars, LoadOps
<1>3. CASE First(<<Step("wait")>>)
  BY <1>1, <1>3, QuietWait
<1> QED BY <1>2, <1>3

LEMMA SettleKeeps ==
    ASSUME IInv, Settle PROVE IInv' /\ Stays
<1>1. /\ todo # <<>> /\ Head(todo).op = "settle" /\ work = <<>>
      /\ UNCHANGED <<poolVars, entryVars, pending, queued, work>> /\ lru' = lru
  BY NoWork DEF Settle, Doing, IInv, listVars
<1>2. PICK x \in Steps, s \in Seq(Steps) :
        /\ x = Head(todo) /\ s = Tail(todo) /\ Stack(s) /\ Before(x, s)
        /\ x.op \notin LoadOps => PinsReady(s)
  BY <1>1, TopStep DEF IInv, TodoInv
<1>3. x.op = "settle" /\ It = x.block /\ PinsReady(s)
  BY <1>1, <1>2 DEF It, LoadOps
<1>4. CASE Then(<<Step("wait")>>)
  <2>1. /\ Core' /\ Stays /\ RoomForQueued' /\ CountInv' /\ work' = <<>>
        /\ \E y \in Steps, r \in Seq(Steps) :
             /\ y = Head(todo) /\ r = Tail(todo)
             /\ Claims(r)' /\ (y.op \notin LoadOps => PinsReady(r)')
    BY <1>1, QuietThen
  <2>2. PICK y \in Steps, r \in Seq(Steps) :
             /\ y = Head(todo) /\ r = Tail(todo)
             /\ Claims(r)' /\ (y.op \notin LoadOps => PinsReady(r)')
    BY <2>1
  <2>3. r = s /\ y = x
    BY <1>2, <2>2
  <2>4. Claims(s)' /\ PinsReady(s)'
    BY <2>2, <2>3, <1>3 DEF LoadOps
  <2>5. PICK w : w = Step("wait")
    OBVIOUS
  <2>6. w \in Steps /\ w.op = "wait"
    BY <2>5, PlainStep DEF PlainOps
  <2>7. Before(w, s) /\ Claim(w)'
    BY <1>2, <1>3, <2>6 DEF Before, LastOps, LoadOps, BlockOps, Claim
  <2>8. todo' = <<w>> \o s
    BY <1>2, <1>4, <2>5 DEF Then
  <2>9. TodoInv'
    BY <1>2, <2>1, <2>4, <2>6, <2>7, <2>8, StepAdded
  <2> QED BY <2>1, <2>9 DEF IInv
<1>5. CASE Done /\ loc[It] # "TRANSFERRING"
  <2>1. PinNow(s)
    <3> SUFFICES ASSUME s # <<>>, s[1].op = "pin" PROVE loc[s[1].block] = "GPU"
      BY DEF PinNow
    <3>1. s[1].block \in Block /\ OnItsWay(s[1].block)
      BY <1>2, <1>3, PinNext
    <3>2. s[1].block = x.block
      <4>1. 1 \in DOMAIN s
        BY EmptySeq, LenProperties
      <4> QED BY <4>1, <1>2, <1>3 DEF Before, AllOn, BlockOps
    <3>3. PlaceOk(s[1].block)
      BY <3>1, BlockFacts DEF IInv
    <3> QED BY <1>3, <1>5, <3>1, <3>2, <3>3 DEF PlaceOk, OnItsWay
  <2>2. PinsReady(Tail(todo)) /\ PinNow(Tail(todo))
    <3>1. PinsReady(Tail(todo))
      BY <1>2, <1>3 DEF PinsReady, WillLoad
    <3>2. PinNow(Tail(todo))
      BY <1>2, <2>1 DEF PinNow
    <3> QED BY <3>1, <3>2
  <2> QED BY <1>1, <1>5, <2>2, QuietDone
<1> QED BY <1>4, <1>5 DEF Settle

\* The next block of a window, whatever became of the last one.
LEMMA WindowTaken ==
    ASSUME StepsOk(todo), Doing("prefetch"), NextInWindow, refs' = refs, work' = <<>>
    PROVE  TodoInv'
<1>1. todo # <<>> /\ Head(todo).op = "prefetch"
  BY DEF Doing
<1>2. PICK x \in Steps, s \in Seq(Steps) :
        x = Head(todo) /\ s = Tail(todo) /\ Before(x, s) /\ Claim(x)
  BY <1>1, TopStep
<1>3. x.op = "prefetch" /\ s = <<>>
  BY <1>1, <1>2 DEF Before, LastOps
<1>4. x \in [op : {"prefetch"}, window : Seq(Block) \ {<<>>}, protected : SUBSET Block]
  BY <1>3 DEF Steps, PlainOps, BlockOps
<1>5. PICK w : w = x.window
  OBVIOUS
<1>6. w \in Seq(Block) /\ w # <<>> /\ \A k \in DOMAIN w : Live(w[k])
  BY <1>2, <1>3, <1>4, <1>5 DEF Claim
<1>7. todo' = IF Len(w) = 1 THEN s ELSE <<[x EXCEPT !.window = Tail(w)]>> \o s
  BY <1>2, <1>5 DEF NextInWindow, Window
<1>8. CASE Len(w) = 1
  BY <1>3, <1>7, <1>8, NoSteps, TodoIs
<1>9. CASE Len(w) # 1
  <2>1. PICK y : y = [x EXCEPT !.window = Tail(w)]
    OBVIOUS
  <2>2. /\ Tail(w) \in Seq(Block) /\ Tail(w) # <<>>
        /\ \A k \in DOMAIN Tail(w) : k + 1 \in DOMAIN w /\ Tail(w)[k] = w[k + 1]
    <3>1. Len(w) \in Nat /\ Len(w) > 1 /\ DOMAIN w = 1..Len(w)
      <4>1. Len(w) \in Nat /\ DOMAIN w = 1..Len(w)
        BY <1>6, LenProperties
      <4>2. Len(w) # 0
        BY <1>6, EmptySeq
      <4> QED BY <4>1, <4>2, <1>9
    <3>2. /\ Tail(w) \in Seq(Block) /\ Len(Tail(w)) = Len(w) - 1
          /\ \A k \in 1..(Len(w) - 1) : Tail(w)[k] = w[k + 1]
      BY <1>6, <3>1, HeadTailProperties
    <3>3. DOMAIN Tail(w) = 1..(Len(w) - 1)
      BY <3>2, LenProperties
    <3>4. Tail(w) # <<>>
      <4>1. Len(Tail(w)) # 0
        BY <3>1, <3>2
      <4>2. Len(<<>>) = 0
        OBVIOUS
      <4> QED BY <4>1, <4>2
    <3>5. \A k \in 1..(Len(w) - 1) : k + 1 \in 1..Len(w)
      BY <3>1
    <3> QED BY <3>1, <3>2, <3>3, <3>4, <3>5
  <2>3. y \in Steps /\ y.op = "prefetch" /\ y.window = Tail(w)
    BY <1>4, <1>5, <2>1, <2>2 DEF Steps
  <2>4. Claim(y)'
    BY <1>6, <2>2, <2>3 DEF Claim, BlockOps, Live
  <2>5. Stack(s) /\ Claims(s)' /\ PinsReady(s)' /\ Before(y, s)
    <3>1. DOMAIN s = {}
      BY <1>3
    <3> QED BY <1>3, <2>3, <3>1 DEF Stack, Claims, PinsReady, Before, LoadOps, AllOn, BlockOps
  <2>6. todo' = <<y>> \o s
    BY <1>7, <1>9, <2>1
  <2> QED BY <2>3, <2>4, <2>5, <2>6, StepAdded
<1> QED BY <1>8, <1>9

LEMMA PrefetchSkipKeeps ==
    ASSUME IInv, PrefetchSkip PROVE IInv' /\ Stays
<1>1. /\ Doing("prefetch") /\ NextInWindow /\ UNCHANGED <<poolVars, entryVars, listVars>>
      /\ work = <<>>
  BY NoWork DEF PrefetchSkip, IInv
<1>2. /\ Core' /\ Stays /\ RoomForQueued' /\ CountInv' /\ work' = <<>> /\ refs' = refs
  BY <1>1, QuietSound DEF IInv, listVars, entryVars
<1>3. TodoInv'
  BY <1>1, <1>2, WindowTaken DEF IInv, TodoInv
<1> QED BY <1>2, <1>3 DEF IInv

-----------------------------------------------------------------------------
(* Steps that copy.                                                        *)

\* A failed copy, for a lease.
LEMMA FailedKeeps ==
    ASSUME IInv, todo # <<>>, NEW cpu, NEW gpu, MayFail(cpu, gpu), Failed(cpu, gpu),
           work' = <<>>, Throw
    PROVE  IInv' /\ Stays
<1>1. IInv' /\ pins' = pins /\ \A c \in Block : slot'[c] = slot[c] \/ loc[c] # "GPU"
  BY FailedStep
<1>2. \A c \in Block : pins[c] > 0 => loc[c] = "GPU"
  BY BlockFacts DEF IInv, UseOk
<1> QED BY <1>1, <1>2 DEF Stays

\* The slots of the blocks that have left are free for the queued loads.
LEMMA RoomAfterFinish ==
    ASSUME Core, Core', RoomForQueued, work' = queued, queued' = <<>>,
           \A c \in Offloading : slot[c] \in FreeSlots'
    PROVE  RoomForQueued'
<1>1. /\ IsFiniteSet(Offloading) /\ Cardinality(Offloading) \in Nat /\ Len(queued) \in Nat
  BY Counted
<1>2. \A c \in ToSet(pending') : c \in Block
  BY InList DEF Core, ListInv
<1>3. Cardinality(Offloading') \in Nat
  BY <1>2, BlocksCounted DEF Offloading
<1>4. FreeSlots' \in SUBSET GpuSlot
  BY DEF FreeSlots
<1>5. IsFiniteSet(FreeSlots') /\ Cardinality(FreeSlots') \in Nat
  BY <1>4, SlotsAreFinite, FS_Subset, FS_CardinalityType
<1> DEFINE f == [c \in Offloading |-> slot[c]]
           F == FreeSlots'
<1>6. f \in Injection(Offloading, F)
  <2>1. f \in [Offloading -> F]
    OBVIOUS
  <2>2. ASSUME NEW c \in Offloading, NEW d \in Offloading, f[c] = f[d] PROVE c = d
    <3>1. c \in Block /\ d \in Block /\ slot[c] = slot[d] /\ move[c] = "ToCpu"
      BY <2>2, Movers
    <3>2. SlotOk(c) /\ PlaceOk(c)
      BY <3>1, BlockFacts
    <3> QED BY <3>1, <3>2 DEF SlotOk, PlaceOk
  <2> QED BY <2>1, <2>2 DEF Injection, IsInjective
<1> HIDE DEF f
<1>7. Cardinality(Offloading) <= Cardinality(F)
  BY <1>5, <1>6, FS_Injection
<1>8. Len(queued) <= Cardinality(Offloading)
  BY DEF RoomForQueued
<1>9. Len(queued') <= Cardinality(Offloading')
  <2>1. Len(<<>>) = 0
    OBVIOUS
  <2> QED BY <2>1, <1>3
<1>10. Len(work') <= Cardinality(FreeSlots')
  BY <1>1, <1>5, <1>7, <1>8
<1> QED BY <1>9, <1>10 DEF RoomForQueued

\* A round that succeeds, for the entries.
LEMMA FinishedRound ==
    ASSUME IInv, FinishOk, work = <<>>, work' = queued, queued' = <<>>
    PROVE  Core' /\ RoomForQueued' /\ CountInv' /\ Calm /\ Stays
<1>1. Core /\ RoomForQueued /\ CountInv
  BY DEF IInv
<1>2. /\ Core' /\ refs' = refs /\ pins' = pins /\ prefetched' = prefetched
      /\ \A c \in Block : ~Copying(c) => (loc'[c] = loc[c] /\ move'[c] = move[c])
      /\ \A c \in Block : move[c] = "ToGpu" => loc'[c] = "GPU"
      /\ \A c \in Offloading : slot[c] \in FreeSlots'
  BY <1>1, FinishOkSound
<1>3. RoomForQueued'
  BY <1>1, <1>2, RoomAfterFinish
<1>4. CountInv'
  BY <1>1 DEF CountInv, FinishOk, prefetchVars
<1>5. Calm
  <2>1. ASSUME NEW c \in Block
        PROVE  (loc[c] = "CPU" => loc'[c] = "CPU") /\ (OnItsWay(c) => OnItsWay(c)')
    <3>1. PlaceOk(c)
      BY <1>1, BlockFacts
    <3> QED BY <2>1, <3>1, <1>2 DEF PlaceOk, OnItsWay, Copying
  <2> QED BY <1>2, <2>1 DEF Calm
<1>6. Stays
  <2> SUFFICES ASSUME NEW c \in Block, pins[c] > 0 PROVE slot'[c] = slot[c]
    BY DEF Stays
  <2>1. UseOk(c) /\ PlaceOk(c)
    BY <1>1, BlockFacts
  <2>2. c \notin Offloading
    BY <1>1, <2>1, Movers DEF UseOk, PlaceOk
  <2> QED BY <2>2 DEF FinishOk
<1> QED BY <1>2, <1>3, <1>4, <1>5, <1>6

LEMMA WaitRoundKeeps ==
    ASSUME IInv, Doing("wait"), SyncDone(<<Step("wait")>>) PROVE IInv' /\ Stays
<1>1. todo # <<>> /\ Head(todo).op = "wait" /\ work = <<>>
  BY NoWork DEF Doing, IInv
<1>2. /\ FinishOk /\ work' = queued /\ queued' = <<>>
      /\ Then(<<Step("dispatch")>> \o <<Step("wait")>>)
  BY DEF SyncDone
<1>3. Core' /\ RoomForQueued' /\ CountInv' /\ Calm /\ Stays
  BY <1>1, <1>2, FinishedRound
<1>4. PICK x \in Steps, s \in Seq(Steps) :
        /\ x = Head(todo) /\ s = Tail(todo) /\ Stack(s) /\ Before(x, s) /\ Claims(s)
        /\ x.op \notin LoadOps => PinsReady(s)
  BY <1>1, TopStep DEF IInv, TodoInv
<1>5. x.op = "wait"
  BY <1>1, <1>4
<1>6. Claims(s)' /\ PinsReady(s)'
  BY <1>3, <1>4, <1>5, CalmClaims DEF LoadOps
<1>7. PICK d, w : d = Step("dispatch") /\ w = Step("wait")
  OBVIOUS
<1>8. d \in Steps /\ d.op = "dispatch" /\ w \in Steps /\ w.op = "wait"
  BY <1>7, PlainStep DEF PlainOps
<1>9. Before(w, s)
  BY <1>4, <1>5, <1>8 DEF Before, LastOps, LoadOps, BlockOps
<1>10. Claim(d)' /\ Claim(w)'
  BY <1>8 DEF Claim, BlockOps
<1>11. todo' = <<d, w>> \o s
  <2>1. <<d, w>> = <<d>> \o <<w>>
    BY <1>8, Pair
  <2> QED BY <1>2, <1>4, <1>7, <2>1 DEF Then
<1>12. /\ w.op \notin {"pin", "dispatch", "poll"} \cup LastOps /\ d.op \in PlainOps
       /\ d.op \notin {"makeRoom", "evict"}
  BY <1>8 DEF LastOps, PlainOps
<1>13. TodoInv'
  BY <1>4, <1>6, <1>8, <1>9, <1>10, <1>11, <1>12, TwoStepsAdded
<1> QED BY <1>3, <1>13 DEF IInv

LEMMA PollRoundKeeps ==
    ASSUME IInv, Doing("poll"), SyncDone(<<>>) PROVE IInv' /\ Stays
<1>1. todo # <<>> /\ Head(todo).op = "poll" /\ work = <<>>
  BY NoWork DEF Doing, IInv
<1>2. /\ FinishOk /\ work' = queued /\ queued' = <<>>
      /\ Then(<<Step("dispatch")>> \o <<>>)
  BY DEF SyncDone
<1>3. Core' /\ RoomForQueued' /\ CountInv' /\ Calm /\ Stays
  BY <1>1, <1>2, FinishedRound
<1>4. PICK x \in Steps, s \in Seq(Steps) :
        /\ x = Head(todo) /\ s = Tail(todo) /\ Stack(s) /\ Before(x, s) /\ Claims(s)
        /\ x.op \notin LoadOps => PinsReady(s)
  BY <1>1, TopStep DEF IInv, TodoInv
<1>5. x.op = "poll"
  BY <1>1, <1>4
<1>6. Claims(s)' /\ PinsReady(s)'
  BY <1>3, <1>4, <1>5, CalmClaims DEF LoadOps
<1>7. PICK d : d = Step("dispatch")
  OBVIOUS
<1>8. d \in Steps /\ d.op = "dispatch"
  BY <1>7, PlainStep DEF PlainOps
<1>9. Before(d, s) /\ Claim(d)'
  BY <1>4, <1>5, <1>8 DEF Before, LastOps, LoadOps, BlockOps, Claim
<1>10. todo' = <<d>> \o s
  <2>1. <<d>> \o <<>> = <<d>>
    OBVIOUS
  <2> QED BY <1>2, <1>4, <1>7, <2>1 DEF Then
<1>11. TodoInv'
  BY <1>4, <1>6, <1>8, <1>9, <1>10, StepAdded
<1> QED BY <1>3, <1>11 DEF IInv

LEMMA SyncThrowsKeeps ==
    ASSUME IInv, todo # <<>>, work = <<>>, SyncThrows PROVE IInv' /\ Stays
<1>1. MayFail(Abandoned, InOrder(Offloading))
  BY FinishMayFail DEF IInv
<1> QED BY <1>1, FailedKeeps DEF SyncThrows, FinishFails

\* A submitted load leaves room for the queued ones.
LEMMA RoomAfterLoad ==
    ASSUME Core, Core', RoomForQueued, NEW b \in Block, StartLoad(b),
           move'[b] = "ToGpu", move[b] \in {"None", "QueuedLoad"}, queued' = queued,
           \A c \in Block : c # b => move'[c] = move[c],
           \E s \in FreeSlots : FreeSlots' = FreeSlots \ {s},
           \/ work = <<>> /\ work' = <<>>
           \/ work # <<>> /\ work' = Tail(work)
    PROVE  RoomForQueued'
<1>1. /\ IsFiniteSet(FreeSlots) /\ Cardinality(FreeSlots) \in Nat /\ Len(work) \in Nat
  BY Counted
<1>2. PICK s \in FreeSlots : FreeSlots' = FreeSlots \ {s}
  OBVIOUS
<1>3. Cardinality(FreeSlots') = Cardinality(FreeSlots) - 1 /\ Cardinality(FreeSlots') \in Nat
  <2>1. Cardinality(FreeSlots \ {s}) = Cardinality(FreeSlots) - 1
    BY <1>1, <1>2, CountBlocks
  <2>2. Cardinality(FreeSlots \ {s}) \in Nat
    <3>1. IsFiniteSet(FreeSlots \ {s})
      BY <1>1, FS_Subset, FreeSlots \ {s} \in SUBSET FreeSlots
    <3> QED BY <3>1, FS_CardinalityType
  <2> QED BY <2>1, <2>2, <1>2
<1>4. Offloading' = Offloading
  <2>1. pending' = Append(pending, b)
    BY DEF StartLoad
  <2>2. \A c \in ToSet(pending) : c \in Block
    BY InList DEF Core, ListInv
  <2>3. b \notin ToSet(pending)
    BY BlockFacts DEF ListsOk, Copying
  <2>4. \A c : c \in ToSet(pending') <=> (c \in ToSet(pending) \/ c = b)
    BY <2>1, <2>3, LongerList DEF Core, ListInv
  <2> QED BY <2>2, <2>3, <2>4 DEF Offloading
<1>5. Len(work') <= Cardinality(FreeSlots')
  <2>1. CASE work = <<>> /\ work' = <<>>
    <3>1. Len(<<>>) = 0
      OBVIOUS
    <3> QED BY <2>1, <3>1, <1>3
  <2>2. CASE work # <<>> /\ work' = Tail(work)
    <3>1. Len(Tail(work)) = Len(work) - 1
      BY <2>2, ShorterList DEF Core, ListInv
    <3>2. Len(work) <= Cardinality(FreeSlots)
      BY DEF RoomForQueued
    <3> QED BY <2>2, <3>1, <3>2, <1>1, <1>3
  <2> QED BY <2>1, <2>2
<1> QED BY <1>4, <1>5 DEF RoomForQueued

LEMMA LoadSubmitted ==
    ASSUME IInv, NEW b \in Block, Live(b), StartLoad(b), LoadFrom(b), Accepted(b),
           \/ work = <<>> /\ work' = <<>>
           \/ work # <<>> /\ work' = Tail(work)
    PROVE  /\ Core' /\ RoomForQueued' /\ Stays /\ refs' = refs /\ pins' = pins
           /\ move'[b] = "ToGpu"
           /\ \A c \in Block : c # b => (loc'[c] = loc[c] /\ move'[c] = move[c])
<1>1. Core /\ RoomForQueued
  BY DEF IInv
<1>2. /\ Core' /\ refs' = refs /\ pins' = pins /\ move'[b] = "ToGpu"
      /\ loc[b] # "GPU" /\ move[b] \in {"None", "QueuedLoad"}
      /\ \A c \in Block : c # b => (loc'[c] = loc[c] /\ move'[c] = move[c] /\ slot'[c] = slot[c])
      /\ \E s \in FreeSlots : FreeSlots' = FreeSlots \ {s}
  BY <1>1, StartLoadSound
<1>3. queued' = queued
  BY DEF LoadFrom
<1>4. RoomForQueued'
  BY <1>1, <1>2, <1>3, RoomAfterLoad
<1>5. \A c \in Block : pins[c] > 0 => c # b
  BY <1>1, <1>2, BlockFacts DEF UseOk
<1>6. Stays
  BY <1>2, <1>5 DEF Stays
<1> QED BY <1>2, <1>4, <1>6

LEMMA DispatchNextKeeps ==
    ASSUME IInv, DispatchNext PROVE IInv' /\ Stays
<1>1. todo # <<>> /\ Head(todo).op = "dispatch" /\ work # <<>> /\ Core /\ CountInv
  BY DEF DispatchNext, Doing, IInv
<1>2. ASSUME Failed(Abandoned \cup ToSet(work), InOrder(Offloading)), work' = <<>>, Throw
      PROVE  IInv' /\ Stays
  BY <1>1, <1>2, DispatchMayFail, FailedKeeps
<1>3. ASSUME StartLoad(Head(work)), work' = Tail(work), UNCHANGED <<todo, queued, prefetchVars>>
      PROVE  IInv' /\ Stays
  <2>1. PICK b : b = Head(work)
    OBVIOUS
  <2>2. b \in Block /\ move[b] = "QueuedLoad" /\ loc[b] = "TRANSFERRING" /\ Live(b)
    BY <1>1, <2>1, WorkHead
  <2>3. prefetched' = prefetched /\ uncounted' = uncounted /\ todo' = todo
    BY <1>3 DEF prefetchVars
  <2>4. LoadFrom(b) /\ Accepted(b) /\ StartLoad(b)
    <3>1. LoadFrom(b) /\ StartLoad(b)
      BY <1>1, <1>3, <2>1 DEF LoadFrom
    <3>2. Accepted(b)
      BY <1>1, <2>3 DEF Accepted, Core, EntryTypes
    <3> QED BY <3>1, <3>2
  <2>5. /\ Core' /\ RoomForQueued' /\ Stays /\ refs' = refs /\ pins' = pins
        /\ move'[b] = "ToGpu"
        /\ \A c \in Block : c # b => (loc'[c] = loc[c] /\ move'[c] = move[c])
    BY <1>1, <1>3, <2>2, <2>4, LoadSubmitted
  <2>6. CountInv'
    BY <1>1, <2>3, SameCount
  <2>7. Calm
    BY <2>2, <2>3, <2>5 DEF Calm, OnItsWay
  <2>8. PICK s : s = todo
    OBVIOUS
  <2>9. /\ s \in Seq(Steps) /\ Stack(s) /\ Claims(s) /\ PinsReady(s)
        /\ s # <<>> /\ Head(s).op = "dispatch" /\ s[1].op = "dispatch"
    <3>1. todo \in Seq(Steps) /\ Stack(todo) /\ Claims(todo) /\ PinsReady(todo)
      BY DEF IInv, TodoInv, StepsOk
    <3>2. s \in Seq(Steps) /\ Stack(s) /\ Claims(s)
      BY <2>8, <3>1 DEF Stack, InPlace, Claims
    <3>3. PinsReady(s)
      BY <2>8, <3>1 DEF PinsReady, WillLoad
    <3> QED BY <3>2, <3>3, <2>8, <1>1, HeadAndTail
  <2>10. Claims(s)' /\ PinsReady(s)'
    BY <2>7, <2>9, CalmClaims
  <2>11. Stack(s)' /\ PinNow(s)'
    BY <2>9 DEF Stack, InPlace, PinNow
  <2>12. StepsOk(s)'
    BY <2>9, <2>10, <2>11 DEF StepsOk
  <2>13. todo' = s
    BY <2>3, <2>8
  <2>14. TodoInv'
    BY <2>9, <2>12, <2>13, TodoIs
  <2> QED BY <2>5, <2>6, <2>14 DEF IInv
<1> QED BY <1>2, <1>3 DEF DispatchNext

\* What is left after a load counts on nothing that the load changes.
LEMMA AfterLoadClaims ==
    ASSUME NEW s \in Seq(Steps), AfterLoad(s), Claims(s),
           refs' = refs, pins' = pins, prefetched' = prefetched
    PROVE  Claims(s)'
<1>1. ASSUME NEW i \in DOMAIN s PROVE Claim(s[i])'
  <2>1. Claim(s[i]) /\ s[i].op \in {"wait", "created", "settle", "pin"}
    BY DEF Claims, AfterLoad
  <2> QED BY <2>1 DEF Claim, BlockOps, Live
<1> QED BY <1>1 DEF Claims

LEMMA StartLoadKeeps ==
    ASSUME IInv, StartLoadStep PROVE IInv' /\ Stays
<1>1. todo # <<>> /\ Head(todo).op = "startLoad" /\ work = <<>> /\ work' = work /\ Core /\ CountInv
  BY NoWork DEF StartLoadStep, Doing, IInv
<1>2. PICK x \in Steps, s \in Seq(Steps) :
        /\ x = Head(todo) /\ s = Tail(todo) /\ Stack(s) /\ Before(x, s)
        /\ Claim(x) /\ Claims(s)
  BY <1>1, TopStep DEF IInv, TodoInv
<1>3. PICK b : b = x.block
  OBVIOUS
<1>4. x.op = "startLoad" /\ b \in Block /\ It = b /\ loc[b] = "CPU" /\ Live(b)
  BY <1>1, <1>2, <1>3, StepFacts DEF It, Claim, BlockOps
<1>5. ASSUME StartLoadFails(b), Throw PROVE IInv' /\ Stays
  BY <1>1, <1>4, <1>5, LoadMayFail, FailedKeeps DEF StartLoadFails
<1>6. ASSUME StartLoad(b), Done, UNCHANGED <<queued, prefetchVars>> PROVE IInv' /\ Stays
  <2>1. prefetched' = prefetched /\ uncounted' = uncounted /\ queued' = queued
    BY <1>6 DEF prefetchVars
  <2>2. LoadFrom(b) /\ Accepted(b)
    <3>1. LoadFrom(b)
      BY <1>1, <1>4, <2>1 DEF LoadFrom
    <3>2. Accepted(b)
      BY <1>1, <2>1 DEF Accepted, Core, EntryTypes
    <3> QED BY <3>1, <3>2
  <2>3. /\ Core' /\ RoomForQueued' /\ Stays /\ refs' = refs /\ pins' = pins
        /\ move'[b] = "ToGpu"
    BY <1>1, <1>4, <1>6, <2>2, LoadSubmitted
  <2>4. CountInv'
    BY <1>1, <2>1, SameCount
  <2>5. Claims(s)' /\ PinsReady(s)' /\ PinNow(s)'
    <3>1. AfterLoad(s)
      BY <1>2, <1>4 DEF Before, LoadOps
    <3>2. Claims(s)'
      BY <1>2, <2>1, <2>3, <3>1, AfterLoadClaims
    <3>3. OnItsWay(x.block)'
      BY <1>3, <2>3 DEF OnItsWay
    <3>4. PinsReady(s)'
      BY <1>2, <1>4, <3>3, AfterLoadReady DEF LoadOps
    <3>5. PinNow(s)'
      BY <1>2, <1>4, NoPinNext
    <3> QED BY <3>2, <3>4, <3>5
  <2>6. todo' = s /\ work' = <<>>
    BY <1>1, <1>2, <1>6 DEF Done
  <2>7. TodoInv'
    BY <1>2, <2>5, <2>6, StepDone
  <2> QED BY <2>3, <2>4, <2>7 DEF IInv
<1>7. \/ StartLoad(b) /\ Done /\ UNCHANGED <<queued, prefetchVars>>
      \/ StartLoadFails(b) /\ Throw
  BY <1>4 DEF StartLoadStep
<1> QED BY <1>5, <1>6, <1>7

\* The next block of the window.
LEMMA NextWanted ==
    ASSUME IInv, Doing("prefetch")
    PROVE  Head(Window) \in Block /\ Live(Head(Window)) /\ Protected \in SUBSET Block
<1>1. todo # <<>> /\ Head(todo).op = "prefetch"
  BY DEF Doing
<1>2. PICK x \in Steps, s \in Seq(Steps) : x = Head(todo) /\ Claim(x)
  BY <1>1, TopStep DEF IInv, TodoInv
<1>3. PICK w : w = x.window
  OBVIOUS
<1>4. /\ w \in Seq(Block) /\ w # <<>> /\ x.protected \in SUBSET Block
      /\ \A k \in DOMAIN w : Live(w[k])
  BY <1>1, <1>2, <1>3, StepFacts DEF Claim
<1>5. Head(w) = w[1] /\ Head(w) \in Block
  BY <1>4, HeadAndTail
<1>6. 1 \in DOMAIN w
  BY <1>4, EmptySeq, LenProperties
<1> QED BY <1>2, <1>3, <1>4, <1>5, <1>6 DEF Window, Protected

LEMMA PrefetchLoadKeeps ==
    ASSUME IInv, PrefetchLoad PROVE IInv' /\ Stays
<1>1. Doing("prefetch") /\ todo # <<>> /\ work = <<>> /\ work' = work /\ Core /\ CountInv
  BY NoWork DEF PrefetchLoad, Doing, IInv
<1>2. PICK b : b = Head(Window)
  OBVIOUS
<1>3. b \in Block /\ Live(b)
  BY <1>1, <1>2, NextWanted
<1>4. /\ loc[b] = "CPU"
      /\ \/ /\ StartLoad(b)
            /\ prefetched' = [prefetched EXCEPT ![b] = TRUE]
            /\ uncounted' = uncounted + 1
            /\ NextInWindow
            /\ UNCHANGED queued
         \/ StartLoadFails(b) /\ Throw
  BY <1>2 DEF PrefetchLoad
<1>5. ASSUME StartLoadFails(b), Throw PROVE IInv' /\ Stays
  BY <1>1, <1>3, <1>4, <1>5, LoadMayFail, FailedKeeps DEF StartLoadFails
<1>6. ASSUME StartLoad(b), prefetched' = [prefetched EXCEPT ![b] = TRUE],
             uncounted' = uncounted + 1, NextInWindow, queued' = queued
      PROVE  IInv' /\ Stays
  <2>1. LoadFrom(b)
    BY <1>1, <1>4, <1>6 DEF LoadFrom
  <2>2. prefetched \in [Block -> BOOLEAN]
    BY <1>1 DEF Core, EntryTypes
  <2>3. Accepted(b)
    BY <1>3, <1>6, <2>2 DEF Accepted
  <2>4. Core' /\ RoomForQueued' /\ Stays /\ refs' = refs
    BY <1>1, <1>3, <1>6, <2>1, <2>3, LoadSubmitted
  <2>5. CountInv'
    <3> DEFINE A == {c \in Block : prefetched[c]}
    <3>1. b \notin A
      BY <1>1, <1>3, <1>4, BlockFacts DEF UseOk, PlaceOk, OnItsWay
    <3>2. {c \in Block : prefetched'[c]} = A \cup {b}
      BY <1>3, <1>6, <2>2
    <3>3. uncounted = Cardinality(A)
      BY <1>1 DEF CountInv
    <3>4. IsFiniteSet(A)
      BY BlocksCounted
    <3> HIDE DEF A
    <3>5. Cardinality(A \cup {b}) = Cardinality(A) + 1
      BY <3>1, <3>4, CountBlocks
    <3> QED BY <1>6, <3>2, <3>3, <3>5 DEF CountInv
  <2>6. work' = <<>>
    BY <1>1
  <2>7. TodoInv'
    BY <1>1, <1>6, <2>4, <2>6, WindowTaken DEF IInv, TodoInv
  <2> QED BY <2>4, <2>5, <2>7 DEF IInv
<1> QED BY <1>4, <1>5, <1>6

\* A submitted offload, and the load that waits for the slot.
LEMMA OffloadSubmitted ==
    ASSUME IInv, work = <<>>, work' = work, NEW v \in Block, loc[v] = "GPU", pins[v] = 0,
           NEW waiting,
           waiting = <<>> \/ \E b \in Block : waiting = <<b>> /\ loc[b] = "CPU" /\ Live(b),
           StartOffload(v, waiting)
    PROVE  /\ Core' /\ RoomForQueued' /\ CountInv' /\ Stays
           /\ refs' = refs /\ pins' = pins
           /\ \A c \in Block : (c # v /\ c \notin ToSet(waiting)) =>
                (loc'[c] = loc[c] /\ (prefetched'[c] <=> prefetched[c]))
<1>1. Core /\ RoomForQueued /\ CountInv
  BY DEF IInv
<1>2. /\ waiting \in Seq(Block) /\ IsInjective(waiting)
      /\ \A b \in ToSet(waiting) : b \in Block /\ loc[b] = "CPU" /\ Live(b)
      /\ \/ Len(waiting) = 0 /\ ToSet(waiting) = {}
         \/ Len(waiting) = 1 /\ \E b \in Block : ToSet(waiting) = {b}
  <2>1. CASE waiting = <<>>
    <3>1. Len(<<>>) = 0
      OBVIOUS
    <3> QED BY <2>1, <3>1, EmptyList
  <2>2. ASSUME NEW b \in Block, waiting = <<b>>, loc[b] = "CPU", Live(b)
        PROVE  /\ waiting \in Seq(Block) /\ IsInjective(waiting)
               /\ \A c \in ToSet(waiting) : c \in Block /\ loc[c] = "CPU" /\ Live(c)
               /\ Len(waiting) = 1 /\ ToSet(waiting) = {b}
    <3>1. <<b>> \in Seq(Block) /\ IsInjective(<<b>>) /\ ToSet(<<b>>) = {b} /\ Len(<<b>>) = 1
      BY SingleList
    <3>2. waiting \in Seq(Block) /\ IsInjective(waiting) /\ ToSet(waiting) = {b} /\ Len(waiting) = 1
      BY <2>2, <3>1
    <3> QED BY <2>2, <3>2
  <2> QED BY <2>1, <2>2
<1>3. /\ Core' /\ refs' = refs /\ pins' = pins /\ move'[v] = "ToCpu"
      /\ \A c \in Block : (c # v /\ c \notin ToSet(waiting)) =>
           (loc'[c] = loc[c] /\ move'[c] = move[c] /\ slot'[c] = slot[c])
      /\ \A c \in Block : prefetched'[c] <=> ((prefetched[c] /\ c # v) \/ c \in ToSet(waiting))
      /\ \A c \in ToSet(waiting) : ~prefetched[c] /\ move'[c] = "QueuedLoad"
      /\ FreeSlots' = FreeSlots
  <2>1. \A b \in ToSet(waiting) : loc[b] = "CPU" /\ Live(b)
    BY <1>2
  <2>2. waiting \in Seq(Block) /\ IsInjective(waiting)
    BY <1>2
  <2> QED BY <1>1, <2>1, <2>2, StartOffloadSound
<1>4. /\ slot' = slot /\ pending' = Append(pending, v) /\ queued' = queued \o waiting
      /\ uncounted' = uncounted - Unused({v}) + Len(waiting)
  BY DEF StartOffload
<1>5. Stays
  BY <1>4 DEF Stays
<1> DEFINE A == {c \in Block : prefetched[c]}
           late == ToSet(waiting)
           n == Len(waiting)
<1>6. CountInv'
  <2>1. uncounted = Cardinality(A) /\ IsFiniteSet(A)
    BY <1>1, BlocksCounted DEF CountInv
  <2>2. Unused({v}) = Cardinality(A \cap {v})
    <3>1. {b \in {v} : prefetched[b]} = A \cap {v}
      OBVIOUS
    <3> QED BY <3>1 DEF Unused
  <2>3. {c \in Block : prefetched'[c]} = (A \ {v}) \cup late
    BY <1>2, <1>3
  <2>4. \A c \in late : c \notin A
    BY <1>3
  <2>5. (late = {} /\ n = 0) \/ \E b \in Block : late = {b} /\ n = 1
    BY <1>2
  <2>6. uncounted' = uncounted - Unused({v}) + n
    BY <1>4
  <2> HIDE DEF A, late, n
  <2>7. /\ Cardinality(A) \in Nat /\ Cardinality(A \cap {v}) \in Nat
        /\ Cardinality(A \ {v}) = Cardinality(A) - Cardinality(A \cap {v})
    BY <2>1, CountBlocks
  <2>8. Cardinality((A \ {v}) \cup late) = Cardinality(A \ {v}) + n
    <3>1. IsFiniteSet(A \ {v})
      BY <2>1, FS_Subset, A \ {v} \in SUBSET A
    <3>2. Cardinality(A \ {v}) \in Nat
      BY <3>1, FS_CardinalityType
    <3>3. CASE late = {} /\ n = 0
      <4>1. (A \ {v}) \cup late = A \ {v}
        BY <3>3
      <4> QED BY <3>2, <3>3, <4>1
    <3>4. ASSUME NEW b \in Block, late = {b} /\ n = 1
          PROVE  Cardinality((A \ {v}) \cup late) = Cardinality(A \ {v}) + n
      <4>1. b \notin A \ {v}
        BY <2>4, <3>4
      <4>2. Cardinality((A \ {v}) \cup {b}) = Cardinality(A \ {v}) + 1
        BY <3>1, <4>1, CountBlocks
      <4> QED BY <3>4, <4>2
    <3> QED BY <2>5, <3>3, <3>4
  <2>9. uncounted' = Cardinality((A \ {v}) \cup late)
    BY <2>1, <2>2, <2>6, <2>7, <2>8
  <2> QED BY <2>3, <2>9 DEF CountInv
<1>7. RoomForQueued'
  <2>1. /\ IsFiniteSet(Offloading) /\ Cardinality(Offloading) \in Nat
        /\ Len(queued) \in Nat /\ Len(work) \in Nat
    BY <1>1, Counted
  <2>2. v \notin ToSet(pending) /\ v \notin Offloading
    <3>1. v \notin ToSet(pending)
      BY <1>1, BlockFacts DEF ListsOk, PlaceOk, Copying
    <3> QED BY <3>1 DEF Offloading
  <2>3. Offloading' = Offloading \cup {v}
    <3>1. \A c : c \in ToSet(pending') <=> (c \in ToSet(pending) \/ c = v)
      BY <1>1, <1>4, <2>2, LongerList DEF Core, ListInv
    <3>2. \A c \in ToSet(pending) : c \in Block
      BY <1>1, InList DEF Core, ListInv
    <3>3. \A c \in Block : c \in late => move[c] # "ToCpu" /\ move'[c] # "ToCpu"
      BY <1>1, <1>2, <1>3, BlockFacts DEF PlaceOk
    <3> QED BY <3>1, <3>2, <3>3, <1>3 DEF Offloading
  <2>4. Cardinality(Offloading') = Cardinality(Offloading) + 1
    BY <2>1, <2>2, <2>3, CountBlocks
  <2>5. Len(queued') = Len(queued) + n
    <3>1. queued \in Seq(Block)
      BY <1>1 DEF Core, ListInv
    <3> QED BY <3>1, <1>2, <1>4, ConcatProperties
  <2>6. n = 0 \/ n = 1
    BY <1>2
  <2>7. Len(queued) <= Cardinality(Offloading) /\ Len(work) <= Cardinality(FreeSlots)
    BY <1>1 DEF RoomForQueued
  <2> HIDE DEF n
  <2>8. Len(queued') <= Cardinality(Offloading')
    BY <2>1, <2>4, <2>5, <2>6, <2>7
  <2>9. Len(work') <= Cardinality(FreeSlots')
    BY <1>3, <2>7
  <2> QED BY <2>8, <2>9 DEF RoomForQueued
<1>8. \A c \in Block : (c # v /\ c \notin ToSet(waiting)) =>
        (loc'[c] = loc[c] /\ (prefetched'[c] <=> prefetched[c]))
  BY <1>3
<1> QED BY <1>3, <1>5, <1>6, <1>7, <1>8

\* The candidates are on the GPU and without a lease.
LEMMA CandidateFacts ==
    ASSUME Core, NEW set
    PROVE  /\ lru # <<>> => /\ Head(lru) \in Block
                            /\ loc[Head(lru)] = "GPU" /\ pins[Head(lru)] = 0
           /\ Kept(lru, set) # <<>> =>
                /\ Head(Kept(lru, set)) \in Block
                /\ loc[Head(Kept(lru, set))] = "GPU" /\ pins[Head(Kept(lru, set))] = 0
<1>1. lru \in Seq(Block) /\ IsInjective(lru)
  BY DEF Core, ListInv
<1>2. \A c \in Block : c \in ToSet(lru) => loc[c] = "GPU" /\ pins[c] = 0
  BY BlockFacts DEF ListsOk
<1> DEFINE kept == Kept(lru, set)
<1>3. /\ kept \in Seq(Block) /\ IsInjective(kept)
      /\ \A x : x \in ToSet(kept) <=> (x \in ToSet(lru) /\ x \in set)
  BY <1>1, KeptList
<1> HIDE DEF kept
<1>4. lru # <<>> => Head(lru) \in Block /\ Head(lru) \in ToSet(lru)
  BY <1>1, ShorterList
<1>5. kept # <<>> => Head(kept) \in Block /\ Head(kept) \in ToSet(kept)
  BY <1>3, ShorterList
<1> QED BY <1>2, <1>3, <1>4, <1>5 DEF kept

\* A pin that comes after a start_load is on the same block.
LEMMA PinAfterStart ==
    ASSUME NEW s \in Seq(Steps), Stack(s), Claims(s), WillStart(s),
           NEW i \in DOMAIN s, s[i].op = "pin"
    PROVE  s[i].block \in Block /\ loc[s[i].block] = "CPU"
<1>1. PICK j \in DOMAIN s : s[j].op = "startLoad"
  BY DEF WillStart
<1>2. DOMAIN s = 1..Len(s) /\ Len(s) \in Nat /\ s[i] \in Steps
  BY LenProperties
<1>3. i + 1 \notin DOMAIN s
  BY DEF Stack, InPlace, LastOps
<1>4. i > j
  <2>1. i \in Nat /\ j \in Nat /\ i = Len(s) /\ j <= Len(s)
    BY <1>2, <1>3
  <2>2. i # j
    BY <1>1
  <2> QED BY <2>1, <2>2
<1>5. s[i].block = s[j].block
  BY <1>1, <1>4 DEF Stack, InPlace, BlockOps
<1>6. loc[s[j].block] = "CPU"
  BY <1>1 DEF Claims, Claim
<1> QED BY <1>2, <1>5, <1>6, StepFacts DEF BlockOps

LEMMA EvictKeeps ==
    ASSUME IInv, Evict PROVE IInv' /\ Stays
<1>1. Doing("evict") /\ todo # <<>> /\ Head(todo).op = "evict" /\ work = <<>> /\ work' = work /\ Core
  BY NoWork DEF Evict, Doing, IInv
<1>2. CASE Done /\ UNCHANGED <<poolVars, entryVars, lru, pending, queued>>
  BY <1>1, <1>2, QuietlyDone DEF LoadOps
<1>3. CASE Throw /\ UNCHANGED <<poolVars, entryVars, lru, pending, queued>>
  BY <1>1, <1>3, QuietThrow DEF listVars
<1>4. PICK v : v = Head(lru)
  OBVIOUS
<1>5. ASSUME lru # <<>>, StartOffloadFails(v), Throw PROVE IInv' /\ Stays
  <2>1. v \in Block /\ loc[v] = "GPU" /\ pins[v] = 0
    BY <1>1, <1>4, <1>5, CandidateFacts
  <2> QED BY <1>1, <1>5, <2>1, OffloadMayFail, FailedKeeps DEF StartOffloadFails
<1>6. ASSUME lru # <<>>, StartOffload(v, <<>>), Then(<<Step("wait")>>) PROVE IInv' /\ Stays
  <2>1. v \in Block /\ loc[v] = "GPU" /\ pins[v] = 0
    BY <1>1, <1>4, <1>6, CandidateFacts
  <2>2. /\ Core' /\ RoomForQueued' /\ CountInv' /\ Stays
        /\ refs' = refs /\ pins' = pins
        /\ \A c \in Block : c # v => (loc'[c] = loc[c] /\ (prefetched'[c] <=> prefetched[c]))
    <3>1. ToSet(<<>>) = {}
      BY EmptyList
    <3> QED BY <1>1, <1>6, <2>1, <3>1, OffloadSubmitted
  <2>3. PICK x \in Steps, s \in Seq(Steps) :
          x = Head(todo) /\ s = Tail(todo) /\ Stack(s) /\ Before(x, s) /\ Claims(s)
    BY <1>1, TopStep DEF IInv, TodoInv
  <2>4. x.op = "evict" /\ WillStart(s)
    BY <1>1, <2>3 DEF Before
  <2>5. ASSUME NEW i \in DOMAIN s PROVE Claim(s[i])'
    <3>1. Claim(s[i]) /\ s[i] \in Steps
      BY <2>3, LenProperties DEF Claims
    <3>2. (s[i].op = "startLoad" \/ s[i].op = "pin") =>
            (s[i].block \in Block /\ loc[s[i].block] = "CPU")
      BY <2>3, <2>4, <3>1, PinAfterStart, StepFacts DEF Claim, BlockOps
    <3>3. (s[i].op = "startLoad" \/ s[i].op = "pin") =>
            /\ loc'[s[i].block] = "CPU"
            /\ prefetched'[s[i].block] <=> prefetched[s[i].block]
      BY <2>1, <2>2, <3>2
    <3>4. s[i].op = "pin" => s[i].prefetched = prefetched'[s[i].block]
      <4>1. prefetched \in [Block -> BOOLEAN] /\ prefetched' \in [Block -> BOOLEAN]
        BY <1>1, <2>2 DEF Core, EntryTypes
      <4>2. s[i].op = "pin" => prefetched'[s[i].block] = prefetched[s[i].block]
        BY <4>1, <3>2, <3>3
      <4> QED BY <3>1, <4>2 DEF Claim
    <3> QED BY <2>2, <3>1, <3>3, <3>4 DEF Claim, Live
  <2>6. Claims(s)'
    BY <2>5 DEF Claims
  <2>7. PinsReady(s)'
    BY <2>4 DEF PinsReady, WillLoad, WillStart, LoadOps
  <2>8. PICK w : w = Step("wait")
    OBVIOUS
  <2>9. w \in Steps /\ w.op = "wait"
    BY <2>8, PlainStep DEF PlainOps
  <2>10. Before(w, s) /\ Claim(w)'
    BY <2>3, <2>4, <2>9 DEF Before, LastOps, LoadOps, BlockOps, Claim
  <2>11. todo' = <<w>> \o s /\ work' = <<>>
    BY <1>1, <1>6, <2>3, <2>8 DEF Then
  <2>12. TodoInv'
    BY <2>3, <2>6, <2>7, <2>9, <2>10, <2>11, StepAdded
  <2> QED BY <2>2, <2>12 DEF IInv
<1> QED BY <1>2, <1>3, <1>4, <1>5, <1>6 DEF Evict

LEMMA OffloadKeeps ==
    ASSUME IInv, OffloadStep PROVE IInv' /\ Stays
<1>1. /\ Doing("offload") /\ todo # <<>> /\ Head(todo).op = "offload" /\ work = <<>>
      /\ work' = work /\ Core
  BY NoWork DEF OffloadStep, Doing, IInv
<1>2. CASE (Done \/ First(<<Step("wait")>>)) /\ UNCHANGED <<poolVars, entryVars, lru, pending, queued>>
  BY <1>1, <1>2, OffloadQuietKeeps DEF listVars
<1>3. PICK x \in Steps, s \in Seq(Steps) :
        x = Head(todo) /\ s = Tail(todo) /\ Before(x, s) /\ Claim(x)
  BY <1>1, TopStep DEF IInv, TodoInv
<1>4. PICK v : v = x.block
  OBVIOUS
<1>5. x.op = "offload" /\ s = <<>> /\ v \in Block /\ pins[v] = 0 /\ It = v
  <2>1. x.op = "offload"
    BY <1>1, <1>3
  <2> QED BY <2>1, <1>3, <1>4, StepFacts DEF Before, LastOps, BlockOps, Claim, It
<1>6. ASSUME loc[v] = "GPU", StartOffloadFails(v), Throw PROVE IInv' /\ Stays
  BY <1>1, <1>5, <1>6, OffloadMayFail, FailedKeeps DEF StartOffloadFails
<1>7. ASSUME loc[v] = "GPU", StartOffload(v, <<>>), Done PROVE IInv' /\ Stays
  <2>1. Core' /\ RoomForQueued' /\ CountInv' /\ Stays
    BY <1>1, <1>5, <1>7, OffloadSubmitted
  <2>2. todo' = <<>> /\ work' = <<>>
    BY <1>1, <1>3, <1>5, <1>7 DEF Done
  <2>3. TodoInv'
    BY <2>2, NoSteps, TodoIs
  <2> QED BY <2>1, <2>3 DEF IInv
<1>8. \/ (Done \/ First(<<Step("wait")>>)) /\ UNCHANGED <<poolVars, entryVars, lru, pending, queued>>
      \/ loc[v] = "GPU" /\ StartOffload(v, <<>>) /\ Done
      \/ loc[v] = "GPU" /\ StartOffloadFails(v) /\ Throw
  BY <1>5 DEF OffloadStep
<1> QED BY <1>2, <1>6, <1>7, <1>8

LEMMA PrefetchQueueKeeps ==
    ASSUME IInv, PrefetchQueue PROVE IInv' /\ Stays
<1>1. Doing("prefetch") /\ todo # <<>> /\ work = <<>> /\ work' = work /\ Core
  BY NoWork DEF PrefetchQueue, Doing, IInv
<1>2. PICK b, v : b = Head(Window) /\ v = Head(Victims)
  OBVIOUS
<1>3. b \in Block /\ Live(b)
  BY <1>1, <1>2, NextWanted
<1>4. /\ loc[b] = "CPU" /\ Victims # <<>>
      /\ \/ StartOffload(v, <<b>>) /\ NextInWindow
         \/ StartOffloadFails(v) /\ Throw
  BY <1>2 DEF PrefetchQueue
<1>5. v \in Block /\ loc[v] = "GPU" /\ pins[v] = 0
  BY <1>1, <1>2, <1>4, CandidateFacts DEF Victims
<1>6. ASSUME StartOffloadFails(v), Throw PROVE IInv' /\ Stays
  BY <1>1, <1>5, <1>6, OffloadMayFail, FailedKeeps DEF StartOffloadFails
<1>7. ASSUME StartOffload(v, <<b>>), NextInWindow PROVE IInv' /\ Stays
  <2>1. PICK waiting : waiting = <<b>>
    OBVIOUS
  <2>2. Core' /\ RoomForQueued' /\ CountInv' /\ Stays /\ refs' = refs
    <3>1. waiting = <<>> \/ \E d \in Block : waiting = <<d>> /\ loc[d] = "CPU" /\ Live(d)
      BY <1>3, <1>4, <2>1
    <3>2. StartOffload(v, waiting)
      BY <1>7, <2>1
    <3> QED BY <1>1, <1>5, <3>1, <3>2, OffloadSubmitted
  <2>3. work' = <<>>
    BY <1>1
  <2>4. TodoInv'
    BY <1>1, <1>7, <2>2, <2>3, WindowTaken DEF IInv, TodoInv
  <2> QED BY <2>2, <2>4 DEF IInv
<1> QED BY <1>4, <1>6, <1>7

-----------------------------------------------------------------------------
(* Users come and go, and write.                                           *)

\* A step that ends its call.
LEMMA LastStep ==
    ASSUME IInv, NEW op \in LastOps, Doing(op)
    PROVE  /\ work = <<>> /\ todo # <<>> /\ Core
           /\ \E x \in Steps : /\ x = Head(todo) /\ x.op = op /\ Claim(x) /\ Tail(todo) = <<>>
                               /\ op = "pin" => loc[x.block] = "GPU"
<1>1. todo # <<>> /\ Head(todo).op = op /\ work = <<>> /\ Core
  BY NoWork DEF Doing, IInv, LastOps
<1>2. PICK x \in Steps, s \in Seq(Steps) :
        /\ x = Head(todo) /\ s = Tail(todo) /\ Before(x, s) /\ Claim(x)
        /\ x.op = "pin" => loc[x.block] = "GPU"
  BY <1>1, TopStep DEF IInv, TodoInv
<1>3. s = <<>>
  BY <1>1, <1>2 DEF Before
<1> QED BY <1>1, <1>2, <1>3

LEMMA NothingLeft ==
    ASSUME todo' = <<>>, work' = <<>> PROVE TodoInv'
BY NoSteps, TodoIs

LEMMA PinKeeps ==
    ASSUME IInv, Pin PROVE IInv' /\ Stays
<1>1. /\ work = <<>> /\ todo # <<>> /\ Core
      /\ \E x \in Steps : /\ x = Head(todo) /\ x.op = "pin" /\ Claim(x) /\ Tail(todo) = <<>>
                          /\ loc[x.block] = "GPU"
  BY LastStep DEF Pin, LastOps
<1>2. PICK x \in Steps : /\ x = Head(todo) /\ x.op = "pin" /\ Claim(x) /\ Tail(todo) = <<>>
                         /\ loc[x.block] = "GPU"
  BY <1>1
<1>3. PICK b : b = x.block
  OBVIOUS
<1>4. b \in Block /\ It = b /\ loc[b] = "GPU" /\ Live(b) /\ x.prefetched = prefetched[b]
  BY <1>2, <1>3, StepFacts DEF BlockOps, It, Claim
<1>5. /\ refs' = [refs EXCEPT ![b] = @ + 1] /\ pins' = [pins EXCEPT ![b] = @ + 1]
      /\ prefetched' = [prefetched EXCEPT ![b] = FALSE]
      /\ uncounted' = uncounted - (IF prefetched[b] THEN 1 ELSE 0)
      /\ lru' = Without(lru, b) /\ todo' = <<>>
      /\ slotRefs' = slotRefs /\ flight' = flight /\ gpuData' = gpuData /\ hostData' = hostData
      /\ loc' = loc /\ move' = move /\ slot' = slot
      /\ pending' = pending /\ queued' = queued /\ work' = work
  BY <1>2, <1>4 DEF Pin, Done, LeasedLru, poolVars
<1>6. EntryTypes /\ ListInv
  BY <1>1 DEF Core
<1>7. /\ lru' \in Seq(Block) /\ IsInjective(lru')
      /\ \A c : c \in ToSet(lru') <=> (c \in ToSet(lru) /\ c # b)
  BY <1>5, <1>6, WithoutList DEF ListInv
<1>8. /\ refs' \in [Block -> Nat] /\ pins' \in [Block -> Nat] /\ prefetched' \in [Block -> BOOLEAN]
      /\ DOMAIN gpuData' = GpuSlot /\ DOMAIN hostData' = Block
  <2>1. refs' \in [Block -> Nat]
    BY <1>4, <1>5, <1>6 DEF EntryTypes
  <2>2. pins' \in [Block -> Nat]
    BY <1>4, <1>5, <1>6 DEF EntryTypes
  <2>3. prefetched' \in [Block -> BOOLEAN]
    BY <1>5, <1>6 DEF EntryTypes
  <2>4. DOMAIN gpuData' = GpuSlot /\ DOMAIN hostData' = Block
    BY <1>5, <1>6 DEF EntryTypes
  <2> QED BY <2>1, <2>2, <2>3, <2>4
<1>9. ASSUME NEW c \in Block
      PROVE  /\ refs'[c] = IF c = b THEN refs[c] + 1 ELSE refs[c]
             /\ pins'[c] = IF c = b THEN pins[c] + 1 ELSE pins[c]
             /\ prefetched'[c] <=> (prefetched[c] /\ c # b)
  BY <1>5, <1>6 DEF EntryTypes
<1>10. ASSUME NEW c \in Block
       PROVE  UseOk(c)' /\ KeptOk(c)' /\ (c \in ToSet(lru') <=> (loc[c] = "GPU" /\ pins'[c] = 0))
  <2>1. UseOk(c) /\ KeptOk(c) /\ ListsOk(c) /\ refs[c] \in Nat /\ pins[c] \in Nat
    BY <1>1, BlockFacts
  <2> QED BY <2>1, <1>4, <1>5, <1>7, <1>9 DEF UseOk, KeptOk, ListsOk, OnItsWay, Live
<1>11. Core' /\ Stays
  BY <1>1, <1>5, <1>7, <1>8, <1>10, UseSound
<1>12. CountInv'
  <2> DEFINE A == {c \in Block : prefetched[c]}
  <2>1. uncounted = Cardinality(A) /\ IsFiniteSet(A)
    BY BlocksCounted DEF IInv, CountInv
  <2>2. {c \in Block : prefetched'[c]} = A \ {b}
    BY <1>9
  <2>3. b \in A <=> prefetched[b]
    BY <1>4
  <2>4. uncounted' = uncounted - (IF prefetched[b] THEN 1 ELSE 0)
    BY <1>5
  <2> HIDE DEF A
  <2>5. Cardinality(A \ {b}) = Cardinality(A) - (IF b \in A THEN 1 ELSE 0)
    <3>1. CASE b \in A
      BY <2>1, <3>1, CountBlocks
    <3>2. CASE b \notin A
      <4>1. A \ {b} = A /\ Cardinality(A) \in Nat
        BY <2>1, <3>2, FS_CardinalityType
      <4> QED BY <3>2, <4>1
    <3> QED BY <3>1, <3>2
  <2> QED BY <2>1, <2>2, <2>3, <2>4, <2>5 DEF CountInv
<1>13. RoomForQueued'
  BY <1>5, SameRoom DEF IInv
<1>14. TodoInv'
  BY <1>1, <1>5, NothingLeft
<1> QED BY <1>11, <1>12, <1>13, <1>14 DEF IInv

\* One reference more or less, of a block that stays live.
LEMMA ReferenceSound ==
    ASSUME IInv, NEW b \in Block, NEW n \in Nat, n >= pins[b], n > 0, Live(b),
           refs' = [refs EXCEPT ![b] = n],
           UNCHANGED <<poolVars, pins, loc, move, slot, prefetchVars, listVars>>
    PROVE  Core' /\ RoomForQueued' /\ CountInv' /\ Stays
<1>1. Core /\ EntryTypes /\ ListInv
  BY DEF IInv, Core
<1>2. /\ slotRefs' = slotRefs /\ flight' = flight /\ gpuData' = gpuData /\ hostData' = hostData
      /\ pins' = pins /\ loc' = loc /\ move' = move /\ slot' = slot
      /\ prefetched' = prefetched /\ uncounted' = uncounted
      /\ lru' = lru /\ pending' = pending /\ queued' = queued /\ work' = work
  BY DEF poolVars, prefetchVars, listVars
<1>3. /\ refs' \in [Block -> Nat] /\ pins' \in [Block -> Nat] /\ prefetched' \in [Block -> BOOLEAN]
      /\ DOMAIN gpuData' = GpuSlot /\ DOMAIN hostData' = Block
      /\ lru' \in Seq(Block) /\ IsInjective(lru')
  BY <1>1, <1>2 DEF EntryTypes, ListInv
<1>4. ASSUME NEW c \in Block
      PROVE  UseOk(c)' /\ KeptOk(c)' /\ (c \in ToSet(lru') <=> (loc[c] = "GPU" /\ pins'[c] = 0))
  <2>1. UseOk(c) /\ KeptOk(c) /\ ListsOk(c) /\ refs[c] \in Nat /\ pins[c] \in Nat
    BY <1>1, BlockFacts
  <2>2. refs'[c] = IF c = b THEN n ELSE refs[c]
    BY <1>1 DEF EntryTypes
  <2> QED BY <2>1, <2>2, <1>2 DEF UseOk, KeptOk, ListsOk, OnItsWay, Live
<1>5. Core' /\ Stays
  BY <1>1, <1>2, <1>3, <1>4, UseSound
<1> QED BY <1>2, <1>5, SameRoom, SameCount DEF IInv

LEMMA DropReferenceKeeps ==
    ASSUME IInv, DropReference PROVE IInv' /\ Stays
<1>1. /\ work = <<>> /\ todo # <<>> /\ Core
      /\ \E x \in Steps : /\ x = Head(todo) /\ x.op = "release" /\ Claim(x) /\ Tail(todo) = <<>>
  BY LastStep DEF DropReference, LastOps
<1>2. PICK x \in Steps : /\ x = Head(todo) /\ x.op = "release" /\ Claim(x) /\ Tail(todo) = <<>>
  BY <1>1
<1>3. PICK b : b = x.block
  OBVIOUS
<1>4. b \in Block /\ It = b /\ Live(b) /\ refs[b] > pins[b]
  BY <1>2, <1>3, StepFacts DEF BlockOps, It, Claim
<1>5. /\ refs[b] > 1 /\ refs' = [refs EXCEPT ![b] = refs[b] - 1] /\ todo' = <<>>
      /\ UNCHANGED <<poolVars, pins, loc, move, slot, prefetchVars, listVars>>
  BY <1>2, <1>4 DEF DropReference, Done
<1>6. refs[b] \in Nat /\ pins[b] \in Nat
  BY <1>1, <1>4, BlockFacts
<1>7. PICK n : n = refs[b] - 1
  OBVIOUS
<1>8. n \in Nat /\ n >= pins[b] /\ n > 0
  BY <1>4, <1>5, <1>6, <1>7
<1>9. Core' /\ RoomForQueued' /\ CountInv' /\ Stays
  BY <1>4, <1>5, <1>7, <1>8, ReferenceSound
<1>10. TodoInv'
  <2>1. work' = <<>>
    BY <1>1, <1>5 DEF listVars
  <2> QED BY <1>5, <2>1, NothingLeft
<1> QED BY <1>9, <1>10 DEF IInv

\* The entry of a block that nobody uses, on the CPU or the GPU.
LEMMA DropSound ==
    ASSUME Core, NEW b \in Block, refs[b] = 1, pins[b] = 0, loc[b] # "TRANSFERRING",
           refs' = [refs EXCEPT ![b] = 0], pins' = [pins EXCEPT ![b] = 0],
           loc' = [loc EXCEPT ![b] = "CPU"], move' = [move EXCEPT ![b] = "None"],
           slot' = [slot EXCEPT ![b] = NoSlot], prefetched' = Discarded({b}),
           lru' = Without(lru, b),
           slotRefs' = IF slot[b] = NoSlot THEN slotRefs ELSE [slotRefs EXCEPT ![slot[b]] = @ - 1],
           UNCHANGED <<initialized, flight, gpuData, hostData, pending, queued, work>>
    PROVE  Core' /\ Stays /\ Offloading' = Offloading /\ FreeSlots \subseteq FreeSlots'
<1>1. EntryTypes /\ PoolInv /\ ListInv
  BY DEF Core
<1>2. /\ PlaceOk(b) /\ SlotOk(b) /\ ListsOk(b)
      /\ slot[b] # NoSlot => slot[b] \in GpuSlot
  BY BlockFacts
<1>2a. pending' = pending /\ queued' = queued /\ work' = work /\ gpuData' = gpuData /\ hostData' = hostData
  OBVIOUS
<1>3. /\ move[b] = "None" /\ ~Copying(b)
      /\ slot[b] # NoSlot => (slotRefs[slot[b]] = 1 /\ \A c \in Block : slot[c] = slot[b] => c = b)
  BY <1>2 DEF PlaceOk, SlotOk, Copying
<1>4. ASSUME NEW c \in Block
      PROVE  /\ refs'[c] = IF c = b THEN 0 ELSE refs[c]
             /\ pins'[c] = pins[c]
             /\ loc'[c] = IF c = b THEN "CPU" ELSE loc[c]
             /\ move'[c] = move[c]
             /\ slot'[c] = IF c = b THEN NoSlot ELSE slot[c]
             /\ prefetched'[c] <=> (prefetched[c] /\ c # b)
  BY <1>1, <1>3 DEF EntryTypes, Discarded
<1>5. ASSUME NEW t \in GpuSlot PROVE slotRefs'[t] = IF t = slot[b] THEN 0 ELSE slotRefs[t]
  BY <1>1, <1>2, <1>3, <1>5, NoSlotIsNone DEF EntryTypes
<1>6. EntryTypes'
  <2>1. /\ refs' \in [Block -> Nat] /\ pins' \in [Block -> Nat]
        /\ loc' \in [Block -> Location] /\ move' \in [Block -> Move]
        /\ slot' \in [Block -> GpuSlot \cup {NoSlot}]
    BY <1>1 DEF EntryTypes, Location, Move
  <2>2. prefetched' \in [Block -> BOOLEAN]
    BY <1>1 DEF EntryTypes, Discarded
  <2>3. slotRefs' \in [GpuSlot -> Nat]
    BY <1>1, <1>2, <1>3 DEF EntryTypes
  <2> QED BY <2>1, <2>2, <2>3, <1>1 DEF EntryTypes
<1>7. /\ lru' \in Seq(Block) /\ IsInjective(lru')
      /\ \A c : c \in ToSet(lru') <=> (c \in ToSet(lru) /\ c # b)
  BY <1>1, WithoutList DEF ListInv
<1>8. ListInv'
  BY <1>1, <1>7 DEF ListInv
<1>9. ASSUME NEW c \in Block
      PROVE  PlaceOk(c)' /\ UseOk(c)' /\ KeptOk(c)' /\ ListsOk(c)' /\ SlotOk(c)'
  <2>1. PlaceOk(c) /\ UseOk(c) /\ KeptOk(c) /\ ListsOk(c) /\ SlotOk(c)
        /\ (slot[c] # NoSlot => slot[c] \in GpuSlot)
    BY BlockFacts
  <2>2. CASE c = b
    <3>1. PlaceOk(c)' /\ KeptOk(c)' /\ SlotOk(c)'
      BY <2>2, <1>3, <1>4 DEF PlaceOk, KeptOk, SlotOk, Live
    <3>2. UseOk(c)'
      <4>1. refs'[c] = 0 /\ pins'[c] = 0 /\ loc'[c] = "CPU" /\ ~prefetched'[c]
        BY <2>2, <1>4
      <4> QED BY <4>1 DEF UseOk
    <3>3. ListsOk(c)'
      <4>1. c \notin ToSet(pending) /\ c \notin ToSet(queued) /\ c \notin ToSet(work)
        BY <2>2, <2>1, <1>3 DEF ListsOk
      <4>2. c \notin ToSet(lru')
        BY <2>2, <1>7
      <4> QED BY <4>1, <4>2, <2>2, <1>3, <1>4, <1>2a DEF ListsOk, Copying
    <3> QED BY <3>1, <3>2, <3>3
  <2>3. CASE c # b
    <3>1. /\ refs'[c] = refs[c] /\ pins'[c] = pins[c] /\ loc'[c] = loc[c] /\ move'[c] = move[c]
          /\ slot'[c] = slot[c] /\ (prefetched'[c] <=> prefetched[c])
          /\ c \in ToSet(lru') <=> c \in ToSet(lru)
      BY <2>3, <1>4, <1>7
    <3>2. PlaceOk(c)' /\ UseOk(c)'
      BY <3>1, <2>1 DEF PlaceOk, UseOk, OnItsWay
    <3>3. KeptOk(c)'
      BY <3>1, <2>1, <1>2a DEF KeptOk, Live
    <3>4. ListsOk(c)'
      BY <3>1, <2>1, <1>2a DEF ListsOk, Copying
    <3>5. SlotOk(c)'
      <4>1. slot[c] # NoSlot => slot[c] # slot[b]
        BY <2>3, <1>3
      <4> QED BY <2>3, <2>1, <4>1, <1>4, <1>5 DEF SlotOk, Copying
    <3> QED BY <3>2, <3>3, <3>4, <3>5
  <2> QED BY <2>2, <2>3
<1>10. PoolInv'
  <2>1. ASSUME NEW t \in GpuSlot, \A c \in Block : slot'[c] # t PROVE slotRefs'[t] = 0
    <3>1. t # slot[b] => \A c \in Block : slot[c] # t
      BY <2>1, <1>4
    <3> QED BY <3>1, <1>1, <1>5 DEF PoolInv
  <2>2. ASSUME NEW c \in Block
        PROVE  (Copying(c)' <=> Copying(c)) /\ (Copying(c) => CopyOf(c)' = CopyOf(c))
    BY <1>3, <1>4 DEF Copying, CopyOf
  <2>3. \A f : f \in flight <=> \E c \in Block : Copying(c) /\ f = CopyOf(c)
    BY <1>1 DEF PoolInv
  <2>4. \A f : f \in flight' <=> \E c \in Block : Copying(c)' /\ f = CopyOf(c)'
    BY <2>2, <2>3
  <2> QED BY <2>1, <2>4 DEF PoolInv
<1>11. Core'
  BY <1>6, <1>8, <1>9, <1>10 DEF Core, BlocksInv
<1>12. Stays
  BY <1>4 DEF Stays
<1>13. Offloading' = Offloading
  <2>1. \A c \in ToSet(pending) : c \in Block
    BY <1>1, InList DEF ListInv
  <2> QED BY <2>1, <1>4 DEF Offloading
<1>14. FreeSlots \subseteq FreeSlots'
  BY <1>5 DEF FreeSlots
<1> QED BY <1>11, <1>12, <1>13, <1>14

LEMMA DropBlockKeeps ==
    ASSUME IInv, DropBlock PROVE IInv' /\ Stays
<1>1. /\ work = <<>> /\ todo # <<>> /\ Core
      /\ \E x \in Steps : /\ x = Head(todo) /\ x.op = "release" /\ Claim(x) /\ Tail(todo) = <<>>
  BY LastStep DEF DropBlock, LastOps
<1>2. PICK x \in Steps : /\ x = Head(todo) /\ x.op = "release" /\ Claim(x) /\ Tail(todo) = <<>>
  BY <1>1
<1>3. PICK b : b = x.block
  OBVIOUS
<1>4. b \in Block /\ It = b /\ refs[b] > pins[b]
  BY <1>2, <1>3, StepFacts DEF BlockOps, It, Claim
<1>5. /\ refs[b] = 1 /\ ~MustWait(b)
      /\ refs' = [refs EXCEPT ![b] = 0] /\ pins' = [pins EXCEPT ![b] = 0]
      /\ loc' = [loc EXCEPT ![b] = "CPU"] /\ move' = [move EXCEPT ![b] = "None"]
      /\ slot' = [slot EXCEPT ![b] = NoSlot] /\ prefetched' = Discarded({b})
      /\ uncounted' = uncounted - Unused({b}) /\ lru' = Without(lru, b)
      /\ slotRefs' = IF slot[b] = NoSlot THEN slotRefs ELSE [slotRefs EXCEPT ![slot[b]] = @ - 1]
      /\ UNCHANGED <<initialized, flight, gpuData, hostData, pending, queued, work>>
      /\ todo' = <<>>
  BY <1>2, <1>4 DEF DropBlock, Done
<1>6. pins[b] = 0 /\ loc[b] # "TRANSFERRING"
  <2>1. pins[b] \in Nat
    BY <1>1, <1>4, BlockFacts
  <2> QED BY <2>1, <1>4, <1>5 DEF MustWait
<1>7. Core' /\ Stays /\ Offloading' = Offloading /\ FreeSlots \subseteq FreeSlots'
  BY <1>1, <1>4, <1>5, <1>6, DropSound
<1>8. RoomForQueued'
  <2>1. FreeSlots' \in SUBSET GpuSlot
    BY DEF FreeSlots
  <2>2. IsFiniteSet(FreeSlots')
    BY <2>1, SlotsAreFinite, FS_Subset
  <2>3. Cardinality(FreeSlots) <= Cardinality(FreeSlots') /\ Cardinality(FreeSlots') \in Nat
    BY <2>2, <1>7, FS_Subset, FS_CardinalityType
  <2>4. Cardinality(FreeSlots) \in Nat /\ Len(work) \in Nat
    BY <1>1, Counted
  <2>5. Len(queued) <= Cardinality(Offloading) /\ Len(work) <= Cardinality(FreeSlots)
    BY DEF IInv, RoomForQueued
  <2>6. Len(work) <= Cardinality(FreeSlots')
    BY <2>3, <2>4, <2>5
  <2> QED BY <1>5, <1>7, <2>5, <2>6 DEF RoomForQueued
<1>9. CountInv'
  <2> DEFINE A == {c \in Block : prefetched[c]}
  <2>1. uncounted = Cardinality(A) /\ IsFiniteSet(A)
    BY BlocksCounted DEF IInv, CountInv
  <2>2. {c \in Block : prefetched'[c]} = A \ {b}
    BY <1>5 DEF Discarded
  <2>3. {c \in {b} : prefetched[c]} = A \cap {b}
    BY <1>4
  <2>4. uncounted' = uncounted - Cardinality(A \cap {b})
    BY <1>5, <2>3 DEF Unused
  <2> HIDE DEF A
  <2>5. Cardinality(A \ {b}) = Cardinality(A) - Cardinality(A \cap {b})
    BY <2>1, CountBlocks
  <2> QED BY <2>1, <2>2, <2>4, <2>5 DEF CountInv
<1>10. TodoInv'
  BY <1>1, <1>5, NothingLeft
<1> QED BY <1>7, <1>8, <1>9, <1>10 DEF IInv

-----------------------------------------------------------------------------
(* The calls.                                                              *)

\* Between two calls nothing is dispatched.
LEMMA Idle ==
    ASSUME IInv, todo = <<>> PROVE work = <<>> /\ Core
BY DEF IInv, TodoInv, Doing

\* A call of one step.
LEMMA OneStep ==
    ASSUME NEW x \in Steps, x.op \notin {"pin", "makeRoom", "evict"}, Claim(x)',
           todo' = <<x>>, work' = <<>>
    PROVE  TodoInv'
<1>1. <<>> \in Seq(Steps) /\ DOMAIN <<>> = {} /\ <<x>> \o <<>> = <<x>>
  OBVIOUS
<1>2. Stack(<<>>) /\ Claims(<<>>)' /\ PinsReady(<<>>)' /\ Before(x, <<>>)
  BY <1>1 DEF Stack, Claims, PinsReady, Before, AfterLoad, AllOn
<1> QED BY <1>1, <1>2, StepAdded

\* A call that starts with a load, and waits or settles before its last step.
LEMMA ThreeSteps ==
    ASSUME NEW b \in Block, NEW l \in Steps, NEW m \in Steps, NEW z \in Steps,
           l.op = "load", l.block = b,
           m.op = "wait" \/ (m.op = "settle" /\ m.block = b),
           z.op \in {"created", "pin"}, z.block = b,
           Claim(l)', Claim(m)', Claim(z)',
           todo' = <<l, m, z>>, work' = <<>>
    PROVE  TodoInv'
<1> DEFINE t == <<l, m, z>>
<1>1. t \in Seq(Steps) /\ DOMAIN t = {1, 2, 3} /\ t[1] = l /\ t[2] = m /\ t[3] = z
  <2>1. t \in Seq(Steps) /\ Len(t) = 3 /\ t[1] = l /\ t[2] = m /\ t[3] = z
    OBVIOUS
  <2>2. DOMAIN t = 1..3
    BY <2>1, LenProperties
  <2> QED BY <2>1, <2>2
<1>2. todo' = t
  OBVIOUS
<1> HIDE DEF t
<1>3. Claims(t)'
  BY <1>1 DEF Claims
<1>4. PinsReady(t)'
  BY <1>1 DEF PinsReady, WillLoad, LoadOps
<1>5. PinNow(t)'
  BY <1>1 DEF PinNow
<1>6. InPlace(t, 1)
  BY <1>1 DEF InPlace, LastOps, LoadOps, BlockOps
<1>7. InPlace(t, 2)
  BY <1>1 DEF InPlace, LastOps, LoadOps, BlockOps
<1>8. InPlace(t, 3)
  BY <1>1 DEF InPlace, LastOps, LoadOps, BlockOps
<1>9. Stack(t)'
  <2>1. Stack(t)
    BY <1>1, <1>6, <1>7, <1>8 DEF Stack
  <2> QED BY <2>1 DEF Stack, InPlace
<1>10. StepsOk(t)'
  BY <1>1, <1>3, <1>4, <1>5, <1>9 DEF StepsOk
<1> QED BY <1>2, <1>10, TodoIs

\* A call that only sets out its steps.
LEMMA CallKeeps ==
    ASSUME IInv, NEW steps, Call(steps)
    PROVE  /\ Core' /\ RoomForQueued' /\ CountInv' /\ Stays
           /\ work' = <<>> /\ todo' = steps
           /\ refs' = refs /\ pins' = pins /\ loc' = loc /\ prefetched' = prefetched
<1>1. /\ todo = <<>> /\ todo' = steps
      /\ UNCHANGED <<poolVars, entryVars, pending, queued, work>> /\ lru' = lru
  BY DEF Call, listVars
<1>2. Core' /\ RoomForQueued' /\ CountInv' /\ Stays
  BY <1>1, QuietSound DEF IInv
<1>3. refs' = refs /\ pins' = pins /\ loc' = loc /\ prefetched' = prefetched
  BY <1>1 DEF entryVars, prefetchVars
<1>4. work' = <<>>
  BY <1>1, Idle
<1> QED BY <1>1, <1>2, <1>3, <1>4

LEMMA WaitPollKeeps ==
    ASSUME IInv, Wait \/ Poll PROVE IInv' /\ Stays
<1>1. PICK op \in {"wait", "poll"} : Call(<<Step(op)>>)
  BY DEF Wait, Poll
<1>2. PICK x : x = Step(op)
  OBVIOUS
<1>3. x \in Steps /\ x.op = op
  BY <1>2, PlainStep DEF PlainOps
<1>4. Call(<<x>>)
  BY <1>1, <1>2
<1>5. Core' /\ RoomForQueued' /\ CountInv' /\ Stays /\ work' = <<>> /\ todo' = <<x>>
  BY <1>4, CallKeeps
<1>6. Claim(x)'
  BY <1>3 DEF Claim, BlockOps
<1>7. TodoInv'
  BY <1>3, <1>5, <1>6, OneStep
<1> QED BY <1>5, <1>7 DEF IInv

LEMMA BlockCallKeeps ==
    ASSUME IInv, NEW b \in Block, Release(b) \/ Offload(b) \/ Load(b) PROVE IInv' /\ Stays
<1>1. PICK op \in {"release", "offload", "load"} :
        /\ Call(<<StepOn(op, b)>>)
        /\ op = "release" => refs[b] > pins[b]
        /\ op \in {"offload", "load"} => Live(b)
        /\ op = "offload" => pins[b] = 0
  BY DEF Release, Offload, Load
<1>2. PICK x : x = StepOn(op, b)
  OBVIOUS
<1>3. x \in Steps /\ x.op = op /\ x.block = b
  BY <1>2, BlockStep DEF BlockOps
<1>4. Call(<<x>>)
  BY <1>1, <1>2
<1>5. /\ Core' /\ RoomForQueued' /\ CountInv' /\ Stays /\ work' = <<>> /\ todo' = <<x>>
      /\ refs' = refs /\ pins' = pins /\ loc' = loc /\ prefetched' = prefetched
  BY <1>4, CallKeeps
<1>6. Claim(x)'
  <2>1. refs[b] \in Nat /\ pins[b] \in Nat
    BY BlockFacts DEF IInv
  <2>2. Live(b)
    BY <1>1, <2>1 DEF Live
  <2> QED BY <1>1, <1>3, <1>5, <2>2 DEF Claim, BlockOps, Live
<1>7. TodoInv'
  BY <1>3, <1>5, <1>6, OneStep
<1> QED BY <1>5, <1>7 DEF IInv

LEMMA AcquireKeeps ==
    ASSUME IInv, NEW b \in Block, AcquireGpu(b) PROVE IInv' /\ Stays
<1>1. PICK l, m, z : /\ l = StepOn("load", b) /\ m = StepOn("settle", b)
                     /\ z = [op |-> "pin", block |-> b, prefetched |-> prefetched[b]]
  OBVIOUS
<1>2. /\ l \in Steps /\ l.op = "load" /\ l.block = b
      /\ m \in Steps /\ m.op = "settle" /\ m.block = b
  BY <1>1, BlockStep DEF BlockOps
<1>3. z \in Steps /\ z.op = "pin" /\ z.block = b /\ z.prefetched = prefetched[b]
  <2>1. prefetched[b] \in BOOLEAN
    BY BlockFacts DEF IInv
  <2> QED BY <1>1, <2>1 DEF Steps
<1>4. Call(<<l, m, z>>) /\ Live(b)
  BY <1>1 DEF AcquireGpu
<1>5. /\ Core' /\ RoomForQueued' /\ CountInv' /\ Stays /\ work' = <<>> /\ todo' = <<l, m, z>>
      /\ refs' = refs /\ pins' = pins /\ loc' = loc /\ prefetched' = prefetched
  BY <1>4, CallKeeps
<1>6. Claim(l)' /\ Claim(m)' /\ Claim(z)'
  BY <1>2, <1>3, <1>4, <1>5 DEF Claim, BlockOps, Live
<1>7. TodoInv'
  BY <1>2, <1>3, <1>5, <1>6, ThreeSteps
<1> QED BY <1>5, <1>7 DEF IInv

LEMMA PrefetchCallKeeps ==
    ASSUME IInv, NEW current \in Block, NEW window \in Windows, PrefetchNext(current, window)
    PROVE  IInv' /\ Stays
<1>1. window \in Seq(Block) /\ window # <<>>
  <2>1. PICK n \in 1..MaxWindow : window \in [1..n -> Block]
    BY DEF Windows
  <2>2. n \in Nat /\ n >= 1
    BY <2>1, BoundsAreNat
  <2>3. window \in Seq(Block)
    BY <2>1, <2>2
  <2>4. 1 \in DOMAIN window
    BY <2>1, <2>2
  <2>5. DOMAIN <<>> = {}
    OBVIOUS
  <2> QED BY <2>3, <2>4, <2>5
<1>2. PICK x, y : /\ x = Step("poll")
                  /\ y = [op |-> "prefetch", window |-> window,
                          protected |-> {current} \cup ToSet(window)]
  OBVIOUS
<1>3. x \in Steps /\ x.op = "poll"
  BY <1>2, PlainStep DEF PlainOps
<1>4. y \in Steps /\ y.op = "prefetch" /\ y.window = window
  <2>1. {current} \cup ToSet(window) \in SUBSET Block
    BY <1>1, InList
  <2> QED BY <1>1, <1>2, <2>1 DEF Steps
<1>5. Call(<<x, y>>) /\ \A i \in DOMAIN window : Live(window[i])
  BY <1>2 DEF PrefetchNext
<1>6. /\ Core' /\ RoomForQueued' /\ CountInv' /\ Stays /\ work' = <<>> /\ todo' = <<x, y>>
      /\ refs' = refs
  BY <1>5, CallKeeps
<1>7. Claim(x)' /\ Claim(y)'
  BY <1>3, <1>4, <1>5, <1>6 DEF Claim, BlockOps, Live
<1>8. <<>> \in Seq(Steps) /\ DOMAIN <<>> = {} /\ <<y>> \o <<>> = <<y>>
  OBVIOUS
<1>9. Stack(<<>>) /\ Claims(<<>>)' /\ PinsReady(<<>>)' /\ Before(y, <<>>)
  BY <1>4, <1>8 DEF Stack, Claims, PinsReady, Before, AfterLoad, AllOn
<1>10. StepsOk(<<y>> \o <<>>)'
  BY <1>4, <1>7, <1>8, <1>9, PushStep
<1>11. PICK s : s = <<y>>
  OBVIOUS
<1>12. StepsOk(s)' /\ s \in Seq(Steps) /\ s # <<>> /\ s[1] = y /\ DOMAIN s = {1}
  <2>1. StepsOk(s)'
    <3>1. s = <<y>> \o <<>>
      BY <1>8, <1>11
    <3>2. /\ (<<y>> \o <<>>) \in Seq(Steps) /\ Stack(<<y>> \o <<>>)' /\ Claims(<<y>> \o <<>>)'
          /\ PinsReady(<<y>> \o <<>>)' /\ PinNow(<<y>> \o <<>>)'
      BY <1>10 DEF StepsOk
    <3>3. s \in Seq(Steps) /\ Stack(s)' /\ Claims(s)' /\ PinsReady(s)' /\ PinNow(s)'
      BY <3>1, <3>2
    <3> QED BY <3>3 DEF StepsOk
  <2>2. s \in Seq(Steps) /\ s[1] = y /\ Len(s) = 1 /\ s # <<>>
    BY <1>4, <1>11
  <2>3. DOMAIN s = {1}
    BY <2>2, LenProperties
  <2> QED BY <2>1, <2>2, <2>3
<1>13. Stack(s) /\ Claims(s)' /\ PinsReady(s)'
  <2>1. Stack(s)' /\ Claims(s)' /\ PinsReady(s)'
    BY <1>12 DEF StepsOk
  <2>2. Stack(s)' <=> Stack(s)
    BY DEF Stack, InPlace
  <2> QED BY <2>1, <2>2
<1>14. Before(x, s)
  BY <1>3, <1>4, <1>12 DEF Before, LastOps, LoadOps, BlockOps
<1>15. todo' = <<x>> \o s
  <2>1. <<x, y>> = <<x>> \o <<y>>
    BY <1>3, <1>4, Pair
  <2> QED BY <1>6, <1>11, <2>1
<1>16. TodoInv'
  BY <1>3, <1>6, <1>7, <1>12, <1>13, <1>14, <1>15, StepAdded
<1> QED BY <1>6, <1>16 DEF IInv

LEMMA RetainKeeps ==
    ASSUME IInv, NEW b \in Block, Retain(b) PROVE IInv' /\ Stays
<1>1. /\ todo = <<>> /\ Live(b) /\ refs' = [refs EXCEPT ![b] = refs[b] + 1] /\ todo' = todo
      /\ UNCHANGED <<poolVars, pins, loc, move, slot, prefetchVars, listVars>>
  BY DEF Retain
<1>2. work = <<>> /\ Core
  BY <1>1, Idle
<1>3. refs[b] \in Nat /\ pins[b] \in Nat /\ refs[b] >= pins[b]
  BY <1>2, BlockFacts DEF UseOk
<1>4. PICK n : n = refs[b] + 1
  OBVIOUS
<1>5. n \in Nat /\ n >= pins[b] /\ n > 0
  BY <1>3, <1>4
<1>6. Core' /\ RoomForQueued' /\ CountInv' /\ Stays
  BY <1>1, <1>4, <1>5, ReferenceSound
<1>7. work' = <<>> /\ todo' = <<>>
  BY <1>1, <1>2 DEF listVars
<1> QED BY <1>6, <1>7, NothingLeft DEF IInv

LEMMA UnpinKeeps ==
    ASSUME IInv, NEW b \in Block, Unpin(b) PROVE IInv' /\ Stays
<1>1. /\ todo = <<>> /\ pins[b] > 0 /\ pins' = [pins EXCEPT ![b] = pins[b] - 1]
      /\ lru' = (IF pins[b] = 1 THEN Touched(lru, <<b>>) ELSE lru)
      /\ todo' = <<StepOn("release", b)>>
      /\ slotRefs' = slotRefs /\ flight' = flight /\ gpuData' = gpuData /\ hostData' = hostData
      /\ refs' = refs /\ loc' = loc /\ move' = move /\ slot' = slot
      /\ prefetched' = prefetched /\ uncounted' = uncounted
      /\ pending' = pending /\ queued' = queued /\ work' = work
  BY DEF Unpin, UnleasedLru, poolVars, prefetchVars
<1>2. work = <<>> /\ Core /\ EntryTypes /\ ListInv
  BY <1>1, Idle DEF Core
<1>3. UseOk(b) /\ refs[b] \in Nat /\ pins[b] \in Nat
  BY <1>2, BlockFacts
<1>4. loc[b] = "GPU" /\ Live(b) /\ refs[b] > pins[b] - 1 /\ pins[b] - 1 \in Nat
  BY <1>1, <1>3 DEF UseOk, Live
<1>5. \A c \in Block : pins'[c] = IF c = b THEN pins[b] - 1 ELSE pins[c]
  BY <1>1, <1>2 DEF EntryTypes
<1>6. /\ lru' \in Seq(Block) /\ IsInjective(lru')
      /\ \A c \in Block : c \in ToSet(lru') <=> (loc[c] = "GPU" /\ pins'[c] = 0)
  <2>1. \A c \in Block : c \in ToSet(lru) <=> (loc[c] = "GPU" /\ pins[c] = 0)
    BY <1>2, BlockFacts DEF ListsOk
  <2>2. CASE pins[b] = 1
    <3> DEFINE one == <<b>>
    <3>1. one \in Seq(Block) /\ IsInjective(one) /\ ToSet(one) = {b}
      BY SingleList
    <3>2. lru' = Touched(lru, one)
      BY <1>1, <2>2
    <3> HIDE DEF one
    <3>3. /\ Touched(lru, one) \in Seq(Block) /\ IsInjective(Touched(lru, one))
          /\ \A x : x \in ToSet(Touched(lru, one)) <=> (x \in ToSet(lru) \/ x \in ToSet(one))
      BY <1>2, <3>1, TouchedList DEF ListInv
    <3>4. \A c \in Block : c \in ToSet(lru') <=> (c \in ToSet(lru) \/ c = b)
      BY <3>1, <3>2, <3>3
    <3>5. ASSUME NEW c \in Block PROVE c \in ToSet(lru') <=> (loc[c] = "GPU" /\ pins'[c] = 0)
      <4>1. CASE c = b
        BY <4>1, <3>4, <2>2, <1>4, <1>5
      <4>2. CASE c # b
        BY <4>2, <3>4, <2>1, <1>5
      <4> QED BY <4>1, <4>2
    <3> QED BY <3>2, <3>3, <3>5
  <2>3. CASE pins[b] # 1
    <3>1. lru' = lru /\ pins[b] - 1 # 0 /\ pins[b] # 0
      BY <1>1, <1>3, <2>3
    <3>2. ASSUME NEW c \in Block PROVE c \in ToSet(lru') <=> (loc[c] = "GPU" /\ pins'[c] = 0)
      <4>1. CASE c = b
        BY <4>1, <3>1, <2>1, <1>5
      <4>2. CASE c # b
        BY <4>2, <3>1, <2>1, <1>5
      <4> QED BY <4>1, <4>2
    <3> QED BY <3>1, <3>2, <1>2 DEF ListInv
  <2> QED BY <2>2, <2>3
<1>7. ASSUME NEW c \in Block PROVE UseOk(c)' /\ KeptOk(c)'
  <2>1. UseOk(c) /\ KeptOk(c) /\ refs[c] \in Nat /\ pins[c] \in Nat
    BY <1>2, BlockFacts
  <2> QED BY <2>1, <1>1, <1>4, <1>5 DEF UseOk, KeptOk, OnItsWay, Live
<1>8. /\ refs' \in [Block -> Nat] /\ pins' \in [Block -> Nat] /\ prefetched' \in [Block -> BOOLEAN]
      /\ DOMAIN gpuData' = GpuSlot /\ DOMAIN hostData' = Block
  <2>1. pins' \in [Block -> Nat]
    BY <1>1, <1>2, <1>4 DEF EntryTypes
  <2> QED BY <2>1, <1>1, <1>2 DEF EntryTypes
<1>9. Core' /\ Stays
  BY <1>1, <1>2, <1>6, <1>7, <1>8, UseSound
<1>10. RoomForQueued' /\ CountInv'
  BY <1>1, SameRoom, SameCount DEF IInv
<1>11. TodoInv'
  <2>1. PICK x : x = StepOn("release", b)
    OBVIOUS
  <2>2. x \in Steps /\ x.op = "release" /\ x.block = b
    BY <2>1, BlockStep DEF BlockOps
  <2>3. Claim(x)'
    BY <1>1, <1>4, <1>5, <2>2 DEF Claim, BlockOps, Live
  <2> QED BY <1>1, <1>2, <2>1, <2>2, <2>3, OneStep
<1> QED BY <1>9, <1>10, <1>11 DEF IInv

\* A write to a slot or a buffer of one block leaves the content of the others.
LEMMA KernelKeeps ==
    ASSUME IInv, NEW b \in Block, KernelWrites(b) PROVE IInv' /\ Stays
<1>1. /\ todo = <<>> /\ todo' = todo /\ pins[b] > 0
      /\ gpuData' = [OutOfDate(gpuData, b) EXCEPT ![slot[b]] = b]
      /\ hostData' = OutOfDate(hostData, b)
      /\ slotRefs' = slotRefs /\ flight' = flight
      /\ refs' = refs /\ pins' = pins /\ loc' = loc /\ move' = move /\ slot' = slot
      /\ prefetched' = prefetched /\ uncounted' = uncounted /\ lru' = lru
      /\ pending' = pending /\ queued' = queued /\ work' = work
  BY DEF KernelWrites, WriteSlot, entryVars, prefetchVars, listVars
<1>2. work = <<>> /\ Core /\ EntryTypes /\ ListInv
  BY <1>1, Idle DEF Core
<1>3. loc[b] = "GPU" /\ slot[b] \in GpuSlot /\ \A c \in Block : slot[c] = slot[b] => c = b
  <2>1. UseOk(b) /\ PlaceOk(b) /\ SlotOk(b) /\ (slot[b] # NoSlot => slot[b] \in GpuSlot)
    BY <1>2, BlockFacts
  <2> QED BY <2>1, <1>1 DEF UseOk, PlaceOk, SlotOk
<1>4. /\ DOMAIN gpuData' = GpuSlot /\ DOMAIN hostData' = Block
      /\ gpuData'[slot[b]] = b
      /\ \A t \in GpuSlot : t # slot[b] /\ gpuData[t] # b => gpuData'[t] = gpuData[t]
      /\ \A c \in Block : hostData[c] # b => hostData'[c] = hostData[c]
  BY <1>1, <1>2, <1>3 DEF OutOfDate, EntryTypes
<1>5. ASSUME NEW c \in Block PROVE UseOk(c)' /\ KeptOk(c)'
  <2>1. /\ UseOk(c) /\ KeptOk(c) /\ PlaceOk(c)
        /\ (slot[c] # NoSlot => slot[c] \in GpuSlot)
    BY <1>2, BlockFacts
  <2>2. UseOk(c)'
    BY <2>1, <1>1 DEF UseOk, OnItsWay
  <2>3. CASE c = b
    BY <2>2, <2>3, <1>1, <1>3, <1>4 DEF KeptOk
  <2>4. CASE c # b
    <3>1. loc[c] = "GPU" \/ move[c] = "ToCpu" => slot[c] \in GpuSlot /\ slot[c] # slot[b]
      BY <2>1, <2>4, <1>3 DEF PlaceOk
    <3>2. KeptOk(c)'
      BY <3>1, <2>1, <2>4, <1>1, <1>4 DEF KeptOk, Live
    <3> QED BY <2>2, <3>2
  <2> QED BY <2>3, <2>4
<1>6. Core' /\ Stays
  <2>1. /\ refs' \in [Block -> Nat] /\ pins' \in [Block -> Nat] /\ prefetched' \in [Block -> BOOLEAN]
        /\ lru' \in Seq(Block) /\ IsInjective(lru')
    BY <1>1, <1>2 DEF EntryTypes, ListInv
  <2>2. \A c \in Block : c \in ToSet(lru') <=> (loc[c] = "GPU" /\ pins'[c] = 0)
    BY <1>1, <1>2, BlockFacts DEF ListsOk
  <2> QED BY <1>1, <1>2, <1>4, <1>5, <2>1, <2>2, UseSound
<1>7. RoomForQueued' /\ CountInv'
  BY <1>1, SameRoom, SameCount DEF IInv
<1>8. TodoInv'
  BY <1>1, <1>2, NothingLeft
<1> QED BY <1>6, <1>7, <1>8 DEF IInv

LEMMA CreateKeeps ==
    ASSUME IInv, NEW b \in Block, Create(b) PROVE IInv' /\ Stays
<1>1. /\ todo = <<>> /\ refs[b] = 0 /\ refs' = [refs EXCEPT ![b] = 1]
      /\ hostData' = [OutOfDate(hostData, b) EXCEPT ![b] = b]
      /\ gpuData' = OutOfDate(gpuData, b)
      /\ todo' = <<StepOn("load", b), Step("wait"), StepOn("created", b)>>
      /\ slotRefs' = slotRefs /\ flight' = flight
      /\ pins' = pins /\ loc' = loc /\ move' = move /\ slot' = slot
      /\ prefetched' = prefetched /\ uncounted' = uncounted /\ lru' = lru
      /\ pending' = pending /\ queued' = queued /\ work' = work
  BY DEF Create, WriteBuffer, prefetchVars, listVars
<1>2. work = <<>> /\ Core /\ EntryTypes /\ ListInv
  BY <1>1, Idle DEF Core
<1>3. /\ UseOk(b) /\ PlaceOk(b) /\ refs[b] \in Nat /\ pins[b] \in Nat
  BY <1>2, BlockFacts
<1>4. loc[b] = "CPU" /\ move[b] = "None" /\ pins[b] = 0
  BY <1>1, <1>3 DEF UseOk, PlaceOk
<1>5. /\ DOMAIN gpuData' = GpuSlot /\ DOMAIN hostData' = Block
      /\ hostData'[b] = b
      /\ \A t \in GpuSlot : gpuData[t] # b => gpuData'[t] = gpuData[t]
      /\ \A c \in Block : c # b /\ hostData[c] # b => hostData'[c] = hostData[c]
      /\ \A c \in Block : refs'[c] = IF c = b THEN 1 ELSE refs[c]
  BY <1>1, <1>2 DEF OutOfDate, EntryTypes
<1>6. ASSUME NEW c \in Block PROVE UseOk(c)' /\ KeptOk(c)'
  <2>1. /\ UseOk(c) /\ KeptOk(c) /\ PlaceOk(c) /\ refs[c] \in Nat /\ pins[c] \in Nat
        /\ (slot[c] # NoSlot => slot[c] \in GpuSlot)
    BY <1>2, BlockFacts
  <2>2. UseOk(c)'
    BY <2>1, <1>1, <1>4, <1>5 DEF UseOk, OnItsWay
  <2>3. CASE c = b
    BY <2>2, <2>3, <1>1, <1>4, <1>5 DEF KeptOk
  <2>4. CASE c # b
    <3>1. loc[c] = "GPU" \/ move[c] = "ToCpu" => slot[c] \in GpuSlot
      BY <2>1 DEF PlaceOk
    <3>2. KeptOk(c)'
      BY <3>1, <2>1, <2>4, <1>1, <1>5 DEF KeptOk, Live
    <3> QED BY <2>2, <3>2
  <2> QED BY <2>3, <2>4
<1>7. Core' /\ Stays
  <2>1. /\ refs' \in [Block -> Nat] /\ pins' \in [Block -> Nat] /\ prefetched' \in [Block -> BOOLEAN]
        /\ lru' \in Seq(Block) /\ IsInjective(lru')
    BY <1>1, <1>2 DEF EntryTypes, ListInv
  <2>2. \A c \in Block : c \in ToSet(lru') <=> (loc[c] = "GPU" /\ pins'[c] = 0)
    BY <1>1, <1>2, BlockFacts DEF ListsOk
  <2> QED BY <1>1, <1>2, <1>5, <1>6, <2>1, <2>2, UseSound
<1>8. RoomForQueued' /\ CountInv'
  BY <1>1, SameRoom, SameCount DEF IInv
<1>9. TodoInv'
  <2>1. PICK l, m, z : l = StepOn("load", b) /\ m = Step("wait") /\ z = StepOn("created", b)
    OBVIOUS
  <2>2. /\ l \in Steps /\ l.op = "load" /\ l.block = b
        /\ m \in Steps /\ m.op = "wait"
        /\ z \in Steps /\ z.op = "created" /\ z.block = b
    BY <2>1, BlockStep, PlainStep DEF BlockOps, PlainOps
  <2>3. Claim(l)' /\ Claim(m)' /\ Claim(z)'
    BY <1>1, <1>4, <1>5, <2>2 DEF Claim, BlockOps, Live
  <2>4. todo' = <<l, m, z>> /\ work' = <<>>
    BY <1>1, <1>2, <2>1
  <2> QED BY <2>2, <2>3, <2>4, ThreeSteps
<1> QED BY <1>7, <1>8, <1>9 DEF IInv

-----------------------------------------------------------------------------
(* The theorems.                                                           *)

LEMMA InitIInv ==
    ASSUME Init PROVE IInv
<1>1. /\ slotRefs = [s \in GpuSlot |-> 0] /\ flight = {}
      /\ gpuData = [s \in GpuSlot |-> Junk] /\ hostData = [b \in Block |-> Junk]
      /\ refs = [b \in Block |-> 0] /\ pins = [b \in Block |-> 0]
      /\ loc = [b \in Block |-> "CPU"] /\ move = [b \in Block |-> "None"]
      /\ slot = [b \in Block |-> NoSlot] /\ prefetched = [b \in Block |-> FALSE] /\ uncounted = 0
      /\ lru = <<>> /\ pending = <<>> /\ queued = <<>> /\ work = <<>> /\ todo = <<>>
  BY OneBufferPerBlock DEF Init, PoolInit, InitialEntries
<1>2. EntryTypes
  BY <1>1 DEF EntryTypes, Location, Move
<1>3. <<>> \in Seq(Block) /\ IsInjective(<<>>) /\ ToSet(<<>>) = {}
  BY EmptyList
<1>4. ListInv
  BY <1>1, <1>3 DEF ListInv
<1>5. ASSUME NEW b \in Block
      PROVE  PlaceOk(b) /\ UseOk(b) /\ KeptOk(b) /\ ListsOk(b) /\ SlotOk(b)
  <2>1. /\ refs[b] = 0 /\ pins[b] = 0 /\ loc[b] = "CPU" /\ move[b] = "None"
        /\ slot[b] = NoSlot /\ ~prefetched[b]
    BY <1>1
  <2> QED BY <2>1, <1>1, <1>3 DEF PlaceOk, UseOk, KeptOk, ListsOk, SlotOk, Copying, Live
<1>6. PoolInv
  <2>1. \A b \in Block : ~Copying(b)
    BY <1>1 DEF Copying
  <2> QED BY <2>1, <1>1 DEF PoolInv
<1>7. Core
  BY <1>2, <1>4, <1>5, <1>6 DEF Core, BlocksInv
<1>8. RoomForQueued
  <2>1. Len(<<>>) = 0
    OBVIOUS
  <2> QED BY <2>1, <1>1, <1>7, Counted DEF RoomForQueued
<1>9. CountInv
  <2>1. {b \in Block : prefetched[b]} = {}
    BY <1>1
  <2> QED BY <2>1, <1>1, FS_EmptySet DEF CountInv
<1>10. TodoInv
  <2>1. <<>> \in Seq(Steps) /\ DOMAIN <<>> = {}
    OBVIOUS
  <2> QED BY <2>1, <1>1 DEF TodoInv, StepsOk, Stack, Claims, PinsReady, PinNow
<1> QED BY <1>7, <1>8, <1>9, <1>10 DEF IInv

LEMMA NextKeeps ==
    ASSUME IInv, [Next]_vars PROVE IInv' /\ Stays
<1>1. CASE WaitDone
  BY <1>1, WaitDoneKeeps
<1>2. CASE WaitRound
  <2>1. Doing("wait")
    BY <1>2 DEF WaitRound
  <2>2. todo # <<>> /\ work = <<>>
    BY <2>1, NoWork DEF Doing, IInv
  <2> QED BY <1>2, <2>1, <2>2, WaitRoundKeeps, SyncThrowsKeeps DEF WaitRound
<1>3. CASE PollRound
  <2>1. Doing("poll")
    BY <1>3 DEF PollRound
  <2>2. todo # <<>> /\ work = <<>>
    BY <2>1, NoWork DEF Doing, IInv
  <2> QED BY <1>3, <2>1, <2>2, PollRoundKeeps, SyncThrowsKeeps DEF PollRound
<1>4. CASE PollIdle
  BY <1>4, PollIdleKeeps
<1>5. CASE DispatchDone
  BY <1>5, DispatchDoneKeeps
<1>6. CASE DispatchNext
  BY <1>6, DispatchNextKeeps
<1>7. CASE MakeRoom
  BY <1>7, MakeRoomKeeps
<1>8. CASE Evict
  BY <1>8, EvictKeeps
<1>9. CASE LoadStep
  BY <1>9, LoadQuietKeeps
<1>10. CASE StartLoadStep
  BY <1>10, StartLoadKeeps
<1>11. CASE OffloadStep
  BY <1>11, OffloadKeeps
<1>12. CASE Settle
  BY <1>12, SettleKeeps
<1>13. CASE Pin
  BY <1>13, PinKeeps
<1>14. CASE Created
  BY <1>14, CreatedKeeps
<1>15. CASE ReleaseWaits
  BY <1>15, ReleaseWaitsKeeps
<1>16. CASE DropReference
  BY <1>16, DropReferenceKeeps
<1>17. CASE DropBlock
  BY <1>17, DropBlockKeeps
<1>18. CASE PrefetchSkip
  BY <1>18, PrefetchSkipKeeps
<1>19. CASE PrefetchLoad
  BY <1>19, PrefetchLoadKeeps
<1>20. CASE PrefetchQueue
  BY <1>20, PrefetchQueueKeeps
<1>21. CASE Wait \/ Poll
  BY <1>21, WaitPollKeeps
<1>22. ASSUME NEW b \in Block,
              \/ Create(b) \/ Retain(b) \/ Release(b)
              \/ AcquireGpu(b) \/ Unpin(b) \/ KernelWrites(b)
              \/ Offload(b) \/ Load(b)
              \/ \E window \in Windows : PrefetchNext(b, window)
       PROVE  IInv' /\ Stays
  BY <1>22, CreateKeeps, RetainKeeps, BlockCallKeeps, AcquireKeeps, UnpinKeeps, KernelKeeps,
     PrefetchCallKeeps
<1>23. CASE UNCHANGED vars
  <2>1. /\ slotRefs' = slotRefs /\ flight' = flight /\ gpuData' = gpuData /\ hostData' = hostData
        /\ refs' = refs /\ pins' = pins /\ loc' = loc /\ move' = move /\ slot' = slot
        /\ prefetched' = prefetched /\ uncounted' = uncounted /\ lru' = lru
        /\ pending' = pending /\ queued' = queued /\ work' = work /\ todo' = todo
    BY <1>23 DEF vars, poolVars, entryVars, prefetchVars, listVars
  <2>2. UNCHANGED <<poolVars, entryVars, pending, queued, work>> /\ lru' = lru
    BY <1>23 DEF vars, listVars
  <2>3. Core' /\ RoomForQueued' /\ CountInv' /\ Stays /\ Calm
    BY <2>2, QuietSound DEF IInv
  <2>4. PICK s : s = todo
    OBVIOUS
  <2>5. s \in Seq(Steps) /\ Stack(s) /\ Claims(s) /\ PinsReady(s) /\ PinNow(s)
    <3>1. todo \in Seq(Steps) /\ Stack(todo) /\ Claims(todo) /\ PinsReady(todo) /\ PinNow(todo)
      BY DEF IInv, TodoInv, StepsOk
    <3>2. s \in Seq(Steps) /\ Stack(s) /\ Claims(s)
      BY <2>4, <3>1 DEF Stack, InPlace, Claims
    <3>3. PinsReady(s) /\ PinNow(s)
      BY <2>4, <3>1 DEF PinsReady, WillLoad, PinNow
    <3> QED BY <3>2, <3>3
  <2>6. Claims(s)' /\ PinsReady(s)'
    BY <2>3, <2>5, CalmClaims
  <2>7. Stack(s)' /\ PinNow(s)'
    BY <2>1, <2>5 DEF Stack, InPlace, PinNow
  <2>8. StepsOk(s)'
    BY <2>5, <2>6, <2>7 DEF StepsOk
  <2>9. todo' = s /\ (work' = <<>> \/ (s # <<>> /\ Head(s).op = "dispatch"))
    BY <2>1, <2>4 DEF IInv, TodoInv, Doing
  <2>10. TodoInv'
    BY <2>8, <2>9, TodoIs
  <2> QED BY <2>3, <2>10 DEF IInv
<1>24. CASE CallNext
  BY <1>21, <1>22, <1>24 DEF CallNext
<1>25. CASE StepNext
  BY <1>1, <1>2, <1>3, <1>4, <1>5, <1>6, <1>7, <1>8, <1>9, <1>10, <1>11, <1>12, <1>13, <1>14,
     <1>15, <1>16, <1>17, <1>18, <1>19, <1>20, <1>25 DEF StepNext
<1> QED BY <1>23, <1>24, <1>25 DEF Next

\* The invariant of the manager, between any two steps of any call.
THEOREM EntriesAgree == Spec => []IInv
<1>1. Init => IInv
  BY InitIInv
<1>2. IInv /\ [Next]_vars => IInv'
  BY NextKeeps
<1> QED BY <1>1, <1>2, PTL DEF Spec

LEMMA LeasedFromInv == ASSUME IInv PROVE LeasedIsResident
<1> SUFFICES ASSUME NEW b \in Block, pins[b] > 0
             PROVE  /\ refs[b] >= pins[b] /\ loc[b] = "GPU" /\ move[b] = "None"
                    /\ slot[b] \in GpuSlot /\ gpuData[slot[b]] = b
  BY DEF LeasedIsResident
<1>1. /\ PlaceOk(b) /\ UseOk(b) /\ KeptOk(b) /\ refs[b] \in Nat /\ pins[b] \in Nat
      /\ slot[b] # NoSlot => slot[b] \in GpuSlot
  BY BlockFacts DEF IInv
<1> QED BY <1>1 DEF PlaceOk, UseOk, KeptOk, Live

\* While a lease lives, its block is on the GPU and the slot whose address was
\* given out contains it, whatever is evicted, prefetched, released or fails
\* meanwhile (acquire_gpu and make_room).
THEOREM LeasesResident == Spec => []LeasedIsResident
<1>1. IInv => LeasedIsResident
  BY LeasedFromInv
<1> QED BY <1>1, EntriesAgree, PTL

\* The address of a lease does not change while the block is leased: no step
\* of any call gives a leased block another slot.
THEOREM LeasesStay == Spec => LeasedAddressStable
<1>1. IInv /\ [Next]_vars => [\A b \in Block : pins[b] > 0 /\ pins'[b] > 0 => slot'[b] = slot[b]]_vars
  BY NextKeeps DEF Stays
<1> QED BY <1>1, EntriesAgree, PTL DEF Spec, LeasedAddressStable

\* resident_lru_ lists exactly the blocks on the GPU without a lease, each
\* once: make_room and prefetch_next find every victim there is, and no other.
THEOREM CandidatesAreExact == Spec => []CandidatesExact
<1>1. ASSUME IInv PROVE CandidatesExact
  <2>1. lru \in Seq(Block) /\ IsInjective(lru)
    BY <1>1 DEF IInv, Core, ListInv
  <2>2. \A c \in ToSet(lru) : c \in Block
    BY <2>1, InList
  <2>3. \A c \in Block : c \in ToSet(lru) <=> (Live(c) /\ loc[c] = "GPU" /\ pins[c] = 0)
    BY <1>1, BlockFacts DEF IInv, ListsOk, UseOk, Live
  <2> QED BY <2>1, <2>2, <2>3 DEF CandidatesExact
<1>2. IInv => CandidatesExact
  BY <1>1
<1> QED BY <1>2, EntriesAgree, PTL

\* A slot of the pool is counted once for its block and once for the copy
\* under way, through every failure: none leaks and none is shared.
THEOREM SlotsAreExact == Spec => []SlotsExact
<1>1. ASSUME IInv, NEW s \in GpuSlot
      PROVE  slotRefs[s] = Cardinality({b \in Block : slot[b] = s})
                             + Cardinality({f \in flight : f.slot = s})
  <2>1. Core
    BY <1>1 DEF IInv
  <2>2. Cardinality({}) = 0 /\ \A x : Cardinality({x}) = 1
    BY FS_EmptySet, FS_Singleton
  <2>3. CASE \A b \in Block : slot[b] # s
    <3>1. {b \in Block : slot[b] = s} = {}
      BY <2>3
    <3>2. {f \in flight : f.slot = s} = {}
      BY <2>1, <2>3, SlotInFlight DEF InFlight
    <3>3. slotRefs[s] = 0
      BY <2>1, <2>3 DEF Core, PoolInv
    <3> QED BY <2>2, <3>1, <3>2, <3>3
  <2>4. ASSUME NEW b \in Block, slot[b] = s
        PROVE  slotRefs[s] = Cardinality({c \in Block : slot[c] = s})
                               + Cardinality({f \in flight : f.slot = s})
    <3>1. slot[b] # NoSlot
      BY <2>4, NoSlotIsNone
    <3>2. /\ slotRefs[s] = IF Copying(b) THEN 2 ELSE 1
          /\ \A c \in Block : slot[c] = s => c = b
      BY <2>1, <2>4, <3>1, BlockFacts DEF SlotOk
    <3>3. {c \in Block : slot[c] = s} = {b}
      BY <2>4, <3>2
    <3>4. \A f \in flight : f.slot = s => f = CopyOf(b)
      BY <2>1, <2>4, <3>1, SlotInFlight
    <3>5. CASE Copying(b)
      <4>1. CopyOf(b) \in flight /\ CopyOf(b).slot = s
        BY <2>1, <2>4, <3>5, FlightFacts
      <4>2. {f \in flight : f.slot = s} = {CopyOf(b)}
        BY <3>4, <4>1
      <4>3. Cardinality({c \in Block : slot[c] = s}) = 1 /\ Cardinality({f \in flight : f.slot = s}) = 1
        BY <2>2, <3>3, <4>2
      <4> QED BY <3>2, <3>5, <4>3
    <3>6. CASE ~Copying(b)
      <4>1. s \notin InFlight
        BY <2>1, <2>4, <3>1, <3>6, SlotInFlight
      <4>2. {f \in flight : f.slot = s} = {}
        BY <4>1 DEF InFlight
      <4>3. Cardinality({c \in Block : slot[c] = s}) = 1 /\ Cardinality({f \in flight : f.slot = s}) = 0
        BY <2>2, <3>3, <4>2
      <4> QED BY <3>2, <3>6, <4>3
    <3> QED BY <3>5, <3>6
  <2> QED BY <2>3, <2>4
<1>2. IInv => SlotsExact
  BY <1>1 DEF SlotsExact
<1> QED BY <1>2, EntriesAgree, PTL

\* The latest content of a live block is where its location says, and during a
\* copy where the copy reads: a failure at any moment loses nothing.
THEOREM ContentIsKept == Spec => []ContentKept
<1>1. ASSUME IInv PROVE ContentKept
  <2> SUFFICES ASSUME NEW b \in Block, Live(b)
               PROVE  IF loc[b] = "GPU" \/ move[b] = "ToCpu"
                      THEN slot[b] \in GpuSlot /\ gpuData[slot[b]] = b
                      ELSE hostData[b] = b
    BY DEF ContentKept
  <2>1. /\ PlaceOk(b) /\ KeptOk(b)
        /\ slot[b] # NoSlot => slot[b] \in GpuSlot
    BY <1>1, BlockFacts DEF IInv
  <2> QED BY <2>1 DEF PlaceOk, KeptOk
<1>2. IInv => ContentKept
  BY <1>1
<1> QED BY <1>2, EntriesAgree, PTL

\* Every queued load has an offload under way whose slot it can take, and when
\* the offloads are done a free slot: dispatch never runs out of slots
\* (tiered_block_manager.cpp:202).
THEOREM QueuedHaveRoom == Spec => []RoomForQueued
<1>1. IInv => RoomForQueued
  BY DEF IInv
<1> QED BY <1>1, EntriesAgree, PTL

LEMMA ThreeLists ==
    ASSUME NEW S, NEW a \in Seq(S), NEW b \in Seq(S), NEW c \in Seq(S)
    PROVE  \A x : /\ x \in ToSet(b \o c) <=> (x \in ToSet(b) \/ x \in ToSet(c))
                  /\ x \in ToSet(a \o b \o c) <=> (x \in ToSet(a) \/ x \in ToSet(b) \/ x \in ToSet(c))
<1>1. /\ a \o b \in Seq(S)
      /\ \A x : x \in ToSet(a \o b) <=> (x \in ToSet(a) \/ x \in ToSet(b))
  BY InConcat
<1>2. \A x : x \in ToSet((a \o b) \o c) <=> (x \in ToSet(a \o b) \/ x \in ToSet(c))
  BY <1>1, InConcat
<1>3. \A x : x \in ToSet(b \o c) <=> (x \in ToSet(b) \/ x \in ToSet(c))
  BY InConcat
<1> QED BY <1>1, <1>2, <1>3

\* A block is TRANSFERRING exactly when a copy of it is under way or queued, so
\* wait never waits for a copy that nobody makes.
THEOREM TransfersAreTracked == Spec => []TransfersTracked
<1>1. ASSUME IInv, NEW b \in Block
      PROVE  /\ (loc[b] = "TRANSFERRING") <=> b \in ToSet(pending \o queued \o work)
             /\ (move[b] = "QueuedLoad") <=> b \in ToSet(queued \o work)
             /\ b \in ToSet(pending) <=>
                  \E f \in flight : f = [slot |-> slot[b], buffer |-> b, write |-> move[b] = "ToGpu"]
  <2>1. Core /\ ListInv
    BY <1>1 DEF IInv, Core
  <2>2. PlaceOk(b) /\ ListsOk(b) /\ move[b] \in Move
    BY <2>1, BlockFacts
  <2>3. /\ b \in ToSet(queued \o work) <=> (b \in ToSet(queued) \/ b \in ToSet(work))
        /\ b \in ToSet(pending \o queued \o work) <=>
             (b \in ToSet(pending) \/ b \in ToSet(queued) \/ b \in ToSet(work))
    BY <2>1, ThreeLists DEF ListInv
  <2>4. Copying(b) <=> CopyOf(b) \in flight
    <3>1. Copying(b) => CopyOf(b) \in flight
      BY <2>1, FlightFacts
    <3>2. CopyOf(b) \in flight => Copying(b)
      <4>1. ASSUME CopyOf(b) \in flight PROVE Copying(b)
        <5>1. PICK c \in Block : Copying(c) /\ CopyOf(b).buffer = c
          BY <2>1, <4>1, FlightFacts
        <5>2. CopyOf(b).buffer = b
          BY DEF CopyOf
        <5> QED BY <5>1, <5>2
      <4> QED BY <4>1
    <3> QED BY <3>1, <3>2
  <2>5. (\E f \in flight : f = [slot |-> slot[b], buffer |-> b, write |-> move[b] = "ToGpu"])
          <=> CopyOf(b) \in flight
    BY DEF CopyOf
  <2>6. (loc[b] = "TRANSFERRING") <=> (Copying(b) \/ move[b] = "QueuedLoad")
    BY <2>2 DEF PlaceOk, Copying, Move
  <2>7. /\ (loc[b] = "TRANSFERRING") <=> b \in ToSet(pending \o queued \o work)
        /\ (move[b] = "QueuedLoad") <=> b \in ToSet(queued \o work)
    BY <2>2, <2>3, <2>6 DEF ListsOk
  <2>8. b \in ToSet(pending) <=>
          \E f \in flight : f = [slot |-> slot[b], buffer |-> b, write |-> move[b] = "ToGpu"]
    BY <2>2, <2>4, <2>5 DEF ListsOk
  <2> QED BY <2>7, <2>8
<1>2. IInv => TransfersTracked
  BY <1>1 DEF TransfersTracked
<1> QED BY <1>2, EntriesAgree, PTL

\* Every prefetch that was accepted is counted once, as a hit, late or unused,
\* or is outstanding: prefetch_count is the sum of the four counters, in the
\* middle of every call and after every failure (docs/metrics_benchmarks.md:47).
THEOREM PrefetchesCountedOnce == Spec => []PrefetchCountedOnce
<1>1. ASSUME IInv PROVE PrefetchCountedOnce
  <2>1. \A b \in Block : prefetched[b] => Live(b)
    BY <1>1, BlockFacts DEF IInv, UseOk, PlaceOk, OnItsWay, Live
  <2>2. {b \in Block : Live(b) /\ prefetched[b]} = {b \in Block : prefetched[b]}
    BY <2>1
  <2> QED BY <1>1, <2>2 DEF IInv, CountInv, PrefetchCountedOnce
<1>2. IInv => PrefetchCountedOnce
  BY <1>1
<1> QED BY <1>2, EntriesAgree, PTL
=============================================================================
