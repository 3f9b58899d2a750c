---------------------------- MODULE BlockManager ----------------------------
(***************************************************************************)
(* The fixed pool of KV blocks of v0, which v1, v2 and the GPU tier of v3  *)
(* allocate from: reference counts, the free list, the LRU list of cached  *)
(* blocks nobody references, and the index of published prefixes.          *)
(*                                                                         *)
(* The manager is single threaded, but acquire, share and release(table)   *)
(* work block by block and may fail in the middle, so each is a sequence   *)
(* of steps of one call in progress.  Tokens are abstracted to the content *)
(* of whole blocks: a prefix is the sequence of the block contents it      *)
(* covers, and a request is a prefix and perhaps a block that is not full. *)
(*                                                                         *)
(* The free list is a stack (head first) and the LRU list a queue (oldest  *)
(* first).  A bucket of the index is a set: the order in it is never seen. *)
(***************************************************************************)
EXTENDS Naturals, Sequences, FiniteSets

CONSTANTS
    Block,          \* ids of the physical blocks, in the order of the first free list
    Holder,         \* the callers' tables and handles
    Prefix,         \* the full prefixes that occur: non-empty sequences of contents
    HashOf(_),      \* the injected hash function
    MaxGeneration,  \* numeric_limits::max of a generation
    MaxRefs,        \* numeric_limits::max of a reference count
    NoPrefix,       \* prefix of a block that is not cached, or claims nothing
    NoCall          \* no call is in progress

ASSUME PoolIsNumbered ==
    IsFiniteSet(Block) /\ Block # {} /\ Block = 1..Cardinality(Block)

ASSUME LimitsPositive ==
    MaxGeneration \in Nat /\ MaxGeneration > 0 /\ MaxRefs \in Nat /\ MaxRefs > 0

\* acquire publishes the prefixes of a request's full prefix too.
ASSUME PrefixesAreFull ==
    \A p \in Prefix :
        /\ Len(p) \in Nat \ {0} /\ NoPrefix # p
        /\ \A n \in 1..Len(p) : SubSeq(p, 1, n) \in Prefix

HashValue == {HashOf(p) : p \in Prefix}

\* full: the prefix of the last whole block, or empty; tail: a block more
\* that is only partly filled.
Request ==
    {r \in [full : Prefix \cup {<<>>}, tail : BOOLEAN] : r.full # <<>> \/ r.tail}

BlocksOf(r) == Len(r.full) + (IF r.tail THEN 1 ELSE 0)

\* A BlockHandle, and the prefix its holder believes the block to contain.
Handle == [id : Block, generation : Nat, claim : Prefix \cup {NoPrefix}]

VARIABLES
    gen, refs,  \* generation and reference count of every block
    prefix,     \* the published prefix of every block, or NoPrefix (cached = FALSE)
    freeList,   \* blocks that are free
    idle,       \* cached blocks with no reference, least recently used first
    index,      \* for every hash value the blocks in its bucket
    hold,       \* the handles every holder has, in the order of its table
    call        \* the call in progress

vars == <<gen, refs, prefix, freeList, idle, index, hold, call>>

InSeq(seq, b) == \E i \in DOMAIN seq : seq[i] = b
PlaceOf(seq, b) == CHOOSE i \in DOMAIN seq : seq[i] = b

\* A list after the node of b is unlinked; b is on a list once at most.
Without(seq, b) ==
    IF InSeq(seq, b)
    THEN SubSeq(seq, 1, PlaceOf(seq, b) - 1) \o SubSeq(seq, PlaceOf(seq, b) + 1, Len(seq))
    ELSE seq

Init ==
    /\ gen = [b \in Block |-> 0]
    /\ refs = [b \in Block |-> 0]
    /\ prefix = [b \in Block |-> NoPrefix]
    /\ freeList = [i \in 1..Cardinality(Block) |-> i]
    /\ idle = <<>>
    /\ index = [h \in HashValue |-> {}]
    /\ hold = [h \in Holder |-> <<>>]
    /\ call = NoCall

-----------------------------------------------------------------------------
(* The operations on one block.  Each leaves hold and call to the caller.  *)

\* The block allocate takes: the head of the free list, else the oldest idle.
Candidates ==
    IF freeList # <<>> THEN {Head(freeList)}
    ELSE IF idle # <<>> THEN {Head(idle)} ELSE {}

Allocatable(b) == b \in Candidates /\ gen[b] < MaxGeneration

Fresh(b, claim) == [id |-> b, generation |-> gen[b] + 1, claim |-> claim]

\* BUG VARIANT: an evicted block stays in the index.
UnindexedKept(b) == index

Unindexed(b) ==
    IF prefix[b] = NoPrefix THEN index
    ELSE [index EXCEPT ![HashOf(prefix[b])] = @ \ {b}]

\* BUG VARIANT: a recycled block keeps the generation it had.
AllocateKeepingGeneration(b, p) ==
    /\ Allocatable(b)
    /\ freeList' = Without(freeList, b)
    /\ idle' = Without(idle, b)
    /\ refs' = [refs EXCEPT ![b] = 1]
    /\ gen' = IF prefix[b] = NoPrefix /\ gen[b] > 0 THEN gen ELSE [gen EXCEPT ![b] = @ + 1]
    /\ prefix' = [prefix EXCEPT ![b] = p]
    /\ index' = IF p = NoPrefix THEN Unindexed(b)
                ELSE [Unindexed(b) EXCEPT ![HashOf(p)] = @ \cup {b}]

\* allocate, and publish(p) on the new block when p is a prefix.
Allocate(b, p) ==
    /\ Allocatable(b)
    /\ freeList' = Without(freeList, b)
    /\ idle' = Without(idle, b)
    /\ refs' = [refs EXCEPT ![b] = 1]
    /\ gen' = [gen EXCEPT ![b] = @ + 1]
    /\ prefix' = [prefix EXCEPT ![b] = p]
    /\ index' = IF p = NoPrefix THEN Unindexed(b)
                ELSE [Unindexed(b) EXCEPT ![HashOf(p)] = @ \cup {b}]

\* BUG VARIANT: the limit of the counter is not checked.
RetainableAlways(b) == TRUE

Retainable(b) == refs[b] # MaxRefs

Retain(b) ==
    /\ refs' = [refs EXCEPT ![b] = (@ + 1) % (MaxRefs + 1)]
    /\ idle' = IF refs[b] = 0 THEN Without(idle, b) ELSE idle
    /\ UNCHANGED <<gen, prefix, freeList, index>>

\* BUG VARIANT: a cached block is put on no list when its last reference goes.
ReleaseForgettingIdle(b) ==
    /\ refs' = [refs EXCEPT ![b] = @ - 1]
    /\ freeList' = IF refs[b] = 1 /\ prefix[b] = NoPrefix
                   THEN <<b>> \o freeList ELSE freeList
    /\ UNCHANGED <<gen, prefix, index, idle>>

Release(b) ==
    /\ refs' = [refs EXCEPT ![b] = @ - 1]
    /\ freeList' = IF refs[b] = 1 /\ prefix[b] = NoPrefix
                   THEN <<b>> \o freeList ELSE freeList
    /\ idle' = IF refs[b] = 1 /\ prefix[b] # NoPrefix
               THEN Append(idle, b) ELSE idle
    /\ UNCHANGED <<gen, prefix, index>>

\* BUG VARIANT: equal hashes are taken for equal prefixes.
CachedByHash(p) == index[HashOf(p)]

\* What lookup finds: a block of the bucket with exactly this prefix.
Cached(p) == {b \in index[HashOf(p)] : prefix[b] = p}

Found(b, p) == [id |-> b, generation |-> gen[b], claim |-> p]

-----------------------------------------------------------------------------
(* Calls on single handles.                                                *)

Idle(h) == call = NoCall /\ hold[h] = <<>>

AllocateOne(h) ==
    /\ Idle(h)
    /\ \E b \in Block :
        /\ Allocate(b, NoPrefix)
        /\ hold' = [hold EXCEPT ![h] = <<Fresh(b, NoPrefix)>>]
    /\ UNCHANGED call

LookupOne(h, p) ==
    /\ Idle(h)
    /\ \E b \in Cached(p) :
        /\ Retainable(b)
        /\ Retain(b)
        /\ hold' = [hold EXCEPT ![h] = <<Found(b, p)>>]
    /\ UNCHANGED call

\* checked() on a handle <<b, g>>.
Valid(b, g) == gen[b] = g /\ ~InSeq(freeList, b)

\* A handle to a cached block outlives its last release: whoever remembers
\* it may retain the block again until the block is evicted.
RetainOne(h, b) ==
    /\ Idle(h)
    /\ Valid(b, gen[b])
    /\ Retainable(b)
    /\ Retain(b)
    /\ hold' = [hold EXCEPT ![h] = <<Found(b, prefix[b])>>]
    /\ UNCHANGED call

\* BUG VARIANT: a block that others hold too may be published.
PublishableShared(b, p) == refs[b] # 0 /\ prefix[b] = NoPrefix /\ Cached(p) = {}

Publishable(b, p) == refs[b] = 1 /\ prefix[b] = NoPrefix /\ Cached(p) = {}

PublishOne(h, i, p) ==
    LET b == hold[h][i].id IN
    /\ call = NoCall
    /\ Publishable(b, p)
    /\ prefix' = [prefix EXCEPT ![b] = p]
    /\ index' = [index EXCEPT ![HashOf(p)] = @ \cup {b}]
    /\ hold' = [hold EXCEPT ![h][i].claim = p]
    /\ UNCHANGED <<gen, refs, freeList, idle, call>>

-----------------------------------------------------------------------------
(* acquire, share and release of a table.  The table under construction is *)
(* the one of the holder that made the call.                               *)

\* The call fails: what it has collected is released block by block.
GiveUp(h) ==
    /\ call' = [op |-> "release", who |-> h]
    /\ UNCHANGED <<gen, refs, prefix, freeList, idle, index, hold>>

AcquireBegin(h, r) ==
    /\ Idle(h)
    /\ call' = [op |-> "acquire", who |-> h, request |-> r]
    /\ UNCHANGED <<gen, refs, prefix, freeList, idle, index, hold>>

Acquiring(h) == call # NoCall /\ call.op = "acquire" /\ call.who = h

\* The prefix of the next block of the request; NoPrefix when it is not full.
NextPrefix(h) ==
    LET n == Len(hold[h]) + 1 IN
    IF n <= Len(call.request.full) THEN SubSeq(call.request.full, 1, n) ELSE NoPrefix

Hits(p) == IF p = NoPrefix THEN {} ELSE Cached(p)

AcquireNext(h) ==
    /\ Acquiring(h)
    /\ Len(hold[h]) < BlocksOf(call.request)
    /\ LET p == NextPrefix(h) IN
        \/ \E b \in Hits(p) :
            IF Retainable(b)
            THEN /\ Retain(b)
                 /\ hold' = [hold EXCEPT ![h] = Append(@, Found(b, p))]
                 /\ UNCHANGED call
            ELSE GiveUp(h)
        \/ /\ Hits(p) = {}
           /\ \E b \in Block :
                /\ Allocate(b, p)
                /\ hold' = [hold EXCEPT ![h] = Append(@, Fresh(b, p))]
                /\ UNCHANGED call
        \/ /\ Hits(p) = {}
           /\ ~\E b \in Block : Allocatable(b)
           /\ GiveUp(h)

AcquireEnd(h) ==
    /\ Acquiring(h)
    /\ Len(hold[h]) = BlocksOf(call.request)
    /\ call' = NoCall
    /\ UNCHANGED <<gen, refs, prefix, freeList, idle, index, hold>>

ShareBegin(from, h) ==
    /\ Idle(h)
    /\ hold[from] # <<>>
    /\ call' = [op |-> "share", who |-> h, from |-> from]
    /\ UNCHANGED <<gen, refs, prefix, freeList, idle, index, hold>>

Sharing(h) == call # NoCall /\ call.op = "share" /\ call.who = h

ShareNext(h) ==
    /\ Sharing(h)
    /\ Len(hold[h]) < Len(hold[call.from])
    /\ LET next == hold[call.from][Len(hold[h]) + 1] IN
        IF Retainable(next.id)
        THEN /\ Retain(next.id)
             /\ hold' = [hold EXCEPT ![h] = Append(@, next)]
             /\ UNCHANGED call
        ELSE GiveUp(h)

ShareEnd(h) ==
    /\ Sharing(h)
    /\ Len(hold[h]) = Len(hold[call.from])
    /\ call' = NoCall
    /\ UNCHANGED <<gen, refs, prefix, freeList, idle, index, hold>>

ReleaseBegin(h) ==
    /\ call = NoCall
    /\ hold[h] # <<>>
    /\ call' = [op |-> "release", who |-> h]
    /\ UNCHANGED <<gen, refs, prefix, freeList, idle, index, hold>>

Releasing(h) == call # NoCall /\ call.op = "release" /\ call.who = h

ReleaseNext(h) ==
    /\ Releasing(h)
    /\ hold[h] # <<>>
    /\ Release(Head(hold[h]).id)
    /\ hold' = [hold EXCEPT ![h] = Tail(@)]
    /\ UNCHANGED call

ReleaseEnd(h) ==
    /\ Releasing(h)
    /\ hold[h] = <<>>
    /\ call' = NoCall
    /\ UNCHANGED <<gen, refs, prefix, freeList, idle, index, hold>>

Next ==
    \E h \in Holder :
        \/ AllocateOne(h)
        \/ \E p \in Prefix : LookupOne(h, p)
        \/ \E b \in Block : RetainOne(h, b)
        \/ \E i \in DOMAIN hold[h], p \in Prefix : PublishOne(h, i, p)
        \/ \E r \in Request : AcquireBegin(h, r)
        \/ AcquireNext(h) \/ AcquireEnd(h)
        \/ \E from \in Holder : ShareBegin(from, h)
        \/ ShareNext(h) \/ ShareEnd(h)
        \/ ReleaseBegin(h) \/ ReleaseNext(h) \/ ReleaseEnd(h)

Spec == Init /\ [][Next]_vars

-----------------------------------------------------------------------------
(* Properties.                                                             *)

Places(h, b) == {i \in DOMAIN hold[h] : hold[h][i].id = b}
References(b) == UNION {{h} \X Places(h, b) : h \in Holder}

\* The reference count of a block is the number of places that hold it, in
\* the middle of a call too: acquire and share give back exactly what they
\* took when they fail half way (block_manager.cpp:157-161, 183-186).
RefsCountHolders ==
    \A b \in Block : refs[b] = Cardinality(References(b))

\* A handle that checked() has once refused is refused for ever, so a caller
\* that kept one too long never reaches the block's next owner.
RevokedStaysRevoked ==
    [][\A b \in Block, g \in 1..MaxGeneration :
        g <= gen[b] /\ ~Valid(b, g) => ~Valid(b, g)']_vars

Occurrences(seq, b) == Cardinality({i \in DOMAIN seq : seq[i] = b})

\* Every block is in exactly one place: once on the free list when it is
\* unpublished and unreferenced, once on the LRU list when it is published
\* and unreferenced, on neither when it is referenced.
BlocksPartitioned ==
    \A b \in Block :
        /\ Occurrences(freeList, b) = IF refs[b] = 0 /\ prefix[b] = NoPrefix THEN 1 ELSE 0
        /\ Occurrences(idle, b) = IF refs[b] = 0 /\ prefix[b] # NoPrefix THEN 1 ELSE 0

\* The index lists exactly the published blocks, each under the hash of its
\* prefix, and no prefix is published by two blocks.
IndexExact ==
    /\ \A v \in HashValue :
        index[v] = {b \in Block : prefix[b] # NoPrefix /\ HashOf(prefix[b]) = v}
    /\ \A a, b \in Block : prefix[a] = prefix[b] /\ prefix[a] # NoPrefix => a = b

\* A handle passes checked() for as long as it is held: no allocation evicts a
\* block in use.  A block found by its prefix, or published under it, keeps
\* that prefix for every one of its holders until the holder lets go of it,
\* also when prefixes collide in the hash (block_manager.cpp:20-26, 123-127).
HeldBlocksKeepContent ==
    \A h \in Holder : \A i \in DOMAIN hold[h] :
        LET e == hold[h][i] IN
        /\ Valid(e.id, e.generation)
        /\ e.claim # NoPrefix => prefix[e.id] = e.claim

Pool == INSTANCE PagePool WITH Page <- Block

\* The lists, the index and the calls on whole tables are one way to be the
\* pool the requests of v2 rely on: whatever the manager does is allocate,
\* retain, release or publish of a page as PagePool allows it
\* (physical_block_pool.cpp:12-28).
PoolImplemented == Pool!PoolSpec
=============================================================================
