----------------------------- MODULE TieredCache -----------------------------
(***************************************************************************)
(* The two-tier block cache of v1: logical blocks that live on the GPU or  *)
(* in pinned host memory, leases that keep a block on the GPU, eviction in *)
(* LRU order, and prefetches that wait for the slot of a block being       *)
(* evicted.                                                                *)
(*                                                                         *)
(* The manager has one host thread, but a call submits copies, waits for   *)
(* the stream and submits more, and each of these may fail in the middle   *)
(* of the work of earlier calls.  A call is therefore a stack of steps:    *)
(* todo holds what is left to do, the next step first.  A step that throws *)
(* empties the stack, except that create catches and releases its block.   *)
(*                                                                         *)
(* A handle is its block while the block is live; generations belong to    *)
(* BlockManager.  Of the metrics only the count of prefetches is kept, as  *)
(* the difference between those submitted and those whose end is counted.  *)
(***************************************************************************)
EXTENDS GpuTransfers, Sequences, SequencesExt

CONSTANTS
    Block,      \* the logical blocks; each has a buffer of its own
    MaxRefs,    \* bound: references of a block
    MaxWindow,  \* bound: next_n of prefetch_next
    NoSlot

ASSUME OneBufferPerBlock == Buffer = Block

ASSUME BlocksAreFinite == IsFiniteSet(Block)

ASSUME BoundsAreNat == MaxRefs \in Nat /\ MaxWindow \in Nat

ASSUME NoSlotIsNone == NoSlot \notin GpuSlot

\* A slot or a buffer contains a block when it has its latest content; a copy
\* that is out of date is Junk like any other.
ASSUME ContentIsLatest == Content = Block

VARIABLES
    refs, pins,   \* references of a block, and how many of them are leases
    loc, move,    \* Entry::location and Entry::move
    slot,         \* Entry::gpu
    prefetched,   \* Entry::prefetched
    uncounted,    \* prefetch_submitted_ less prefetch_hits_, _late_ and _unused_
    lru,          \* resident_lru_, oldest first
    pending,      \* blocks with a copy in the runtime
    queued,       \* blocks whose load waits for a slot
    work,         \* dispatch_work_
    todo          \* what the call in progress has left to do

prefetchVars == <<prefetched, uncounted>>
entryVars == <<refs, pins, loc, move, slot, prefetchVars>>
listVars == <<lru, pending, queued, work>>
vars == <<poolVars, entryVars, listVars, todo>>

Location == {"GPU", "CPU", "TRANSFERRING"}
Move == {"None", "ToCpu", "ToGpu", "QueuedLoad"}

InitialEntries ==
    /\ refs = [b \in Block |-> 0]
    /\ pins = [b \in Block |-> 0]
    /\ loc = [b \in Block |-> "CPU"]
    /\ move = [b \in Block |-> "None"]
    /\ slot = [b \in Block |-> NoSlot]
    /\ prefetched = [b \in Block |-> FALSE]
    /\ uncounted = 0

Init ==
    /\ PoolInit
    /\ InitialEntries
    /\ lru = <<>> /\ pending = <<>> /\ queued = <<>> /\ work = <<>>
    /\ todo = <<>>

Live(b) == refs[b] > 0

\* The elements of seq that are in set, in their order: the one that comes
\* k-th is the one that is preceded by k - 1 others.
Kept(seq, set) ==
    LET at == {i \in DOMAIN seq : seq[i] \in set}
        Rank(i) == Cardinality({j \in at : j <= i})
    IN [k \in 1..Cardinality(at) |-> seq[CHOOSE i \in at : Rank(i) = k]]

Without(seq, b) == Kept(seq, Block \ {b})
Touched(seq, bs) == Kept(seq, Block \ ToSet(bs)) \o bs

-----------------------------------------------------------------------------
(* The stack of steps.                                                     *)

Step(op) == [op |-> op]
StepOn(op, b) == [op |-> op, block |-> b]

Doing(op) == todo # <<>> /\ Head(todo).op = op
It == Head(todo).block

Done == todo' = Tail(todo)
First(steps) == todo' = steps \o todo
Then(steps) == todo' = steps \o Tail(todo)

Throw ==
    todo' = IF Last(todo).op = "created" THEN <<StepOn("release", Last(todo).block)>>
            ELSE <<>>

-----------------------------------------------------------------------------
(* Copies: start_load, start_offload and finish.                           *)

StartLoad(b) ==
    /\ \E s \in FreeSlots :
        /\ AllocateAndWrite(s, b)
        /\ slot' = [slot EXCEPT ![b] = s]
    /\ loc' = [loc EXCEPT ![b] = "TRANSFERRING"]
    /\ move' = [move EXCEPT ![b] = "ToGpu"]
    /\ pending' = Append(pending, b)
    /\ UNCHANGED <<refs, pins, lru>>

\* BUG VARIANT: a discarded prefetch stays marked, and is counted again.
DiscardedMarked(set) == prefetched

\* discard_prefetch for the blocks of a set.
Discarded(set) == [b \in Block |-> prefetched[b] /\ b \notin set]

Unused(set) == Cardinality({b \in set : prefetched[b]})

\* start_offload; waiting is <<>>, or <<the load that is queued for the slot>>.
StartOffload(v, waiting) ==
    /\ Read(slot[v], v)
    /\ lru' = Without(lru, v)
    /\ loc' = [b \in Block |-> IF b \in {v} \cup ToSet(waiting) THEN "TRANSFERRING" ELSE loc[b]]
    /\ move' = [b \in Block |-> CASE b = v -> "ToCpu"
                                  [] b \in ToSet(waiting) -> "QueuedLoad"
                                  [] OTHER -> move[b]]
    /\ prefetched' = [b \in Block |-> Discarded({v})[b] \/ b \in ToSet(waiting)]
    /\ uncounted' = uncounted - Unused({v}) + Len(waiting)
    /\ pending' = Append(pending, v)
    /\ queued' = queued \o waiting
    /\ UNCHANGED <<refs, pins, slot>>

Loading == {b \in ToSet(pending) : move[b] = "ToGpu"}
Offloading == {b \in ToSet(pending) : move[b] = "ToCpu"}
InOrder(set) == Kept(pending, set)

\* BUG VARIANT: the slot of a failed load is not given back.
SlotsOfNone(set) == {}

SlotsOf(set) == {slot[b] : b \in set} \ {NoSlot}

\* finish(true), for everything pending.
FinishOk ==
    /\ SyncOk(SlotsOf(Offloading))
    /\ loc' = [b \in Block |-> CASE b \in Loading -> "GPU"
                                 [] b \in Offloading -> "CPU"
                                 [] OTHER -> loc[b]]
    /\ move' = [b \in Block |-> IF b \in ToSet(pending) THEN "None" ELSE move[b]]
    /\ slot' = [b \in Block |-> IF b \in Offloading THEN NoSlot ELSE slot[b]]
    /\ lru' = Touched(lru, InOrder(Loading))
    /\ pending' = <<>>
    /\ UNCHANGED <<refs, pins, prefetchVars>>

\* The blocks of cpu go back to the CPU, those of the sequence gpu stay on
\* the GPU, and nothing is pending or queued any more.
Failed(cpu, gpu) ==
    /\ SyncFails(SlotsOf(cpu))
    /\ loc' = [b \in Block |-> CASE b \in cpu -> "CPU"
                                 [] b \in ToSet(gpu) -> "GPU"
                                 [] OTHER -> loc[b]]
    /\ slot' = [b \in Block |-> IF b \in cpu THEN NoSlot ELSE slot[b]]
    /\ move' = [b \in Block |-> IF b \in cpu \cup ToSet(gpu) THEN "None" ELSE move[b]]
    /\ prefetched' = Discarded(cpu \cup ToSet(gpu))
    /\ uncounted' = uncounted - Unused(cpu \cup ToSet(gpu))
    /\ lru' = Touched(lru, gpu)
    /\ pending' = <<>> /\ queued' = <<>>
    /\ UNCHANGED <<refs, pins>>

\* BUG VARIANT: the blocks queued for what has failed are forgotten.
AbandonedPendingOnly == Loading

\* BUG VARIANT: a failed offload is taken for done.
AbandonedAll == ToSet(pending \o queued)

Abandoned == Loading \cup ToSet(queued)

\* finish(false), when synchronize fails.
FinishFails == Failed(Abandoned, InOrder(Offloading))

\* A submission fails: the stream is synchronized, and whatever comes of
\* that, finish(false) gives up the new copy and everything pending.  What the
\* new copy has done to its target does not matter: a slot that is free again,
\* or the buffer of a block that stays on the GPU, is not read before it is
\* written.
StartLoadFails(b) == Failed(Abandoned \cup {b}, InOrder(Offloading))

StartOffloadFails(b) == Failed(Abandoned, Append(InOrder(Offloading), b))

-----------------------------------------------------------------------------
(* The steps.                                                              *)

\* wait: nothing is left.
WaitDone ==
    /\ Doing("wait")
    /\ pending = <<>> /\ queued = <<>>
    /\ Done
    /\ UNCHANGED <<poolVars, entryVars, listVars>>

\* One round of wait, or a poll that finds the stream ready: synchronize,
\* finish, and the queued loads become work.
SyncDone(next) ==
    /\ pending # <<>> \/ queued # <<>>
    /\ FinishOk
    /\ work' = queued /\ queued' = <<>>
    /\ Then(<<Step("dispatch")>> \o next)

SyncThrows ==
    /\ pending # <<>> \/ queued # <<>>
    /\ FinishFails
    /\ Throw
    /\ UNCHANGED work

WaitRound == Doing("wait") /\ (SyncDone(<<Step("wait")>>) \/ SyncThrows)

PollRound == Doing("poll") /\ (SyncDone(<<>>) \/ SyncThrows)

\* Nothing to do, or the stream is not ready; the query itself may fail.
PollIdle ==
    /\ Doing("poll")
    /\ Done \/ ((pending # <<>> \/ queued # <<>>) /\ Throw)
    /\ UNCHANGED <<poolVars, entryVars, listVars>>

DispatchDone ==
    /\ Doing("dispatch") /\ work = <<>>
    /\ Done
    /\ UNCHANGED <<poolVars, entryVars, listVars>>

\* A queued load is submitted.  That a slot is free for it is not checked by
\* anything but the allocation itself (RoomForQueued).
DispatchNext ==
    /\ Doing("dispatch") /\ work # <<>>
    /\ \/ /\ StartLoad(Head(work))
          /\ work' = Tail(work)
          /\ UNCHANGED <<todo, queued, prefetchVars>>
       \/ /\ Failed(Abandoned \cup ToSet(work), InOrder(Offloading))
          /\ work' = <<>>
          /\ Throw

\* make_room
MakeRoom ==
    /\ Doing("makeRoom")
    /\ IF FreeSlots # {} THEN Done ELSE Then(<<Step("wait"), Step("evict")>>)
    /\ UNCHANGED <<poolVars, entryVars, listVars>>

Evict ==
    /\ Doing("evict")
    /\ \/ /\ FreeSlots # {}
          /\ Done
          /\ UNCHANGED <<poolVars, entryVars, lru, pending, queued>>
       \/ /\ FreeSlots = {} /\ lru = <<>>
          /\ Throw
          /\ UNCHANGED <<poolVars, entryVars, lru, pending, queued>>
       \/ /\ FreeSlots = {} /\ lru # <<>>
          /\ \/ StartOffload(Head(lru), <<>>) /\ Then(<<Step("wait")>>)
             \/ StartOffloadFails(Head(lru)) /\ Throw
    /\ UNCHANGED work

LoadStep ==
    /\ Doing("load")
    /\ CASE move[It] = "ToCpu" ->
              First(<<Step("wait")>>) /\ UNCHANGED lru
         [] loc[It] = "GPU" ->
              Done /\ lru' = IF pins[It] = 0 THEN Touched(lru, <<It>>) ELSE lru
         [] loc[It] = "TRANSFERRING" /\ move[It] # "ToCpu" ->
              Done /\ UNCHANGED lru
         [] loc[It] = "CPU" ->
              Then(<<Step("makeRoom"), StepOn("startLoad", It)>>) /\ UNCHANGED lru
    /\ UNCHANGED <<poolVars, entryVars, pending, queued, work>>

StartLoadStep ==
    /\ Doing("startLoad")
    /\ \/ StartLoad(It) /\ Done /\ UNCHANGED <<queued, prefetchVars>>
       \/ StartLoadFails(It) /\ Throw
    /\ UNCHANGED work

OffloadStep ==
    /\ Doing("offload")
    /\ \/ /\ loc[It] = "CPU" \/ move[It] = "ToCpu"
          /\ Done
          /\ UNCHANGED <<poolVars, entryVars, lru, pending, queued>>
       \/ /\ loc[It] = "TRANSFERRING" /\ move[It] # "ToCpu"
          /\ First(<<Step("wait")>>)
          /\ UNCHANGED <<poolVars, entryVars, lru, pending, queued>>
       \/ /\ loc[It] = "GPU"
          /\ \/ StartOffload(It, <<>>) /\ Done
             \/ StartOffloadFails(It) /\ Throw
    /\ UNCHANGED work

\* acquire_gpu, after its load.
Settle ==
    /\ Doing("settle")
    /\ IF loc[It] = "TRANSFERRING" THEN Then(<<Step("wait")>>) ELSE Done
    /\ UNCHANGED <<poolVars, entryVars, listVars>>

\* BUG VARIANT: a leased block stays a candidate for eviction.
PinnedLru(b) == lru

LeasedLru(b) == Without(lru, b)

Pin ==
    /\ Doing("pin")
    /\ refs' = [refs EXCEPT ![It] = @ + 1]
    /\ pins' = [pins EXCEPT ![It] = @ + 1]
    /\ prefetched' = [prefetched EXCEPT ![It] = FALSE]
    /\ uncounted' = uncounted - (IF Head(todo).prefetched THEN 1 ELSE 0)
    /\ lru' = LeasedLru(It)
    /\ Done
    /\ UNCHANGED <<poolVars, loc, move, slot, pending, queued, work>>

\* Handing over the handle of a new block.
Created ==
    /\ Doing("created")
    /\ Done
    /\ UNCHANGED <<poolVars, entryVars, listVars>>

\* BUG VARIANT: the last release does not wait for the copy of its block.
MustWaitNever(b) == FALSE

MustWait(b) == refs[b] = 1 /\ loc[b] = "TRANSFERRING"

ReleaseWaits ==
    /\ Doing("release") /\ MustWait(It)
    /\ First(<<Step("wait")>>)
    /\ UNCHANGED <<poolVars, entryVars, listVars>>

DropReference ==
    /\ Doing("release") /\ refs[It] > 1
    /\ refs' = [refs EXCEPT ![It] = @ - 1]
    /\ Done
    /\ UNCHANGED <<poolVars, pins, loc, move, slot, prefetchVars, listVars>>

\* The last reference: the entry is as before its creation.
DropBlock ==
    /\ Doing("release") /\ refs[It] = 1 /\ ~MustWait(It)
    /\ refs' = [refs EXCEPT ![It] = 0]
    /\ pins' = [pins EXCEPT ![It] = 0]
    /\ loc' = [loc EXCEPT ![It] = "CPU"]
    /\ move' = [move EXCEPT ![It] = "None"]
    /\ slot' = [slot EXCEPT ![It] = NoSlot]
    /\ prefetched' = Discarded({It})
    /\ uncounted' = uncounted - Unused({It})
    /\ lru' = Without(lru, It)
    /\ slotRefs' = IF slot[It] = NoSlot THEN slotRefs
                   ELSE [slotRefs EXCEPT ![slot[It]] = @ - 1]
    /\ Done
    /\ UNCHANGED <<initialized, flight, gpuData, hostData, pending, queued, work>>

-----------------------------------------------------------------------------
(* prefetch_next, after its poll: the window is taken block by block.      *)

Protected == Head(todo).protected
Window == Head(todo).window
Victims == Kept(lru, Block \ Protected)

NextInWindow ==
    todo' = IF Len(Window) = 1 THEN Tail(todo)
            ELSE <<[Head(todo) EXCEPT !.window = Tail(@)]>> \o Tail(todo)

\* The block is there already, or is on its way; or nothing can make room.
PrefetchSkip ==
    LET b == Head(Window) IN
    /\ Doing("prefetch")
    /\ loc[b] # "CPU" \/ (FreeSlots = {} /\ Victims = <<>>)
    /\ NextInWindow
    /\ UNCHANGED <<poolVars, entryVars, listVars>>

PrefetchLoad ==
    LET b == Head(Window) IN
    /\ Doing("prefetch")
    /\ loc[b] = "CPU" /\ FreeSlots # {}
    /\ \/ /\ StartLoad(b)
          /\ prefetched' = [prefetched EXCEPT ![b] = TRUE]
          /\ uncounted' = uncounted + 1
          /\ NextInWindow
          /\ UNCHANGED queued
       \/ StartLoadFails(b) /\ Throw
    /\ UNCHANGED work

\* A victim outside the window leaves, and the load waits for its slot.
PrefetchQueue ==
    LET b == Head(Window) v == Head(Victims) IN
    /\ Doing("prefetch")
    /\ loc[b] = "CPU" /\ FreeSlots = {} /\ Victims # <<>>
    /\ \/ StartOffload(v, <<b>>) /\ NextInWindow
       \/ StartOffloadFails(v) /\ Throw
    /\ UNCHANGED work

-----------------------------------------------------------------------------
(* The calls.  A lease is a reference of its own.                          *)

Call(steps) ==
    /\ todo = <<>>
    /\ todo' = steps
    /\ UNCHANGED <<poolVars, entryVars, listVars>>

\* The content of b is written at its target (one of the two), so that every
\* other copy of it is out of date.
OutOfDate(data, b) == [x \in DOMAIN data |-> IF data[x] = b THEN Junk ELSE data[x]]

WriteBuffer(b) ==
    /\ hostData' = [OutOfDate(hostData, b) EXCEPT ![b] = b]
    /\ gpuData' = OutOfDate(gpuData, b)

WriteSlot(b) ==
    /\ gpuData' = [OutOfDate(gpuData, b) EXCEPT ![slot[b]] = b]
    /\ hostData' = OutOfDate(hostData, b)

\* The caller fills the buffer of the new block.
Create(b) ==
    /\ todo = <<>> /\ refs[b] = 0
    /\ refs' = [refs EXCEPT ![b] = 1]
    /\ WriteBuffer(b)
    /\ todo' = <<StepOn("load", b), Step("wait"), StepOn("created", b)>>
    /\ UNCHANGED <<slotRefs, initialized, flight, pins, loc, move, slot, prefetchVars, listVars>>

Retain(b) ==
    /\ todo = <<>> /\ Live(b) /\ refs[b] < MaxRefs
    /\ refs' = [refs EXCEPT ![b] = @ + 1]
    /\ UNCHANGED <<poolVars, pins, loc, move, slot, prefetchVars, listVars, todo>>

\* A caller gives up its own references, not those of the leases.
Release(b) == refs[b] > pins[b] /\ Call(<<StepOn("release", b)>>)

\* Whether the block was prefetched is read before the load, and counted as a
\* hit or late after it.
AcquireGpu(b) ==
    /\ Live(b) /\ refs[b] < MaxRefs
    /\ Call(<<StepOn("load", b), StepOn("settle", b),
              [op |-> "pin", block |-> b, prefetched |-> prefetched[b]]>>)

\* BUG VARIANT: the block does not become a candidate for eviction again.
ForgottenLru(b) == lru

UnleasedLru(b) == IF pins[b] = 1 THEN Touched(lru, <<b>>) ELSE lru

\* The end of a lease.
Unpin(b) ==
    /\ todo = <<>> /\ pins[b] > 0
    /\ pins' = [pins EXCEPT ![b] = @ - 1]
    /\ lru' = UnleasedLru(b)
    /\ todo' = <<StepOn("release", b)>>
    /\ UNCHANGED <<poolVars, refs, loc, move, slot, prefetchVars, pending, queued, work>>

\* A kernel writes through the address of a lease.
KernelWrites(b) ==
    /\ todo = <<>> /\ pins[b] > 0
    /\ WriteSlot(b)
    /\ UNCHANGED <<slotRefs, initialized, flight, entryVars, listVars, todo>>

Offload(b) == Live(b) /\ pins[b] = 0 /\ Call(<<StepOn("offload", b)>>)
Load(b) == Live(b) /\ Call(<<StepOn("load", b)>>)
Wait == (pending # <<>> \/ queued # <<>>) /\ Call(<<Step("wait")>>)
Poll == (pending # <<>> \/ queued # <<>>) /\ Call(<<Step("poll")>>)

\* current is the block in use, window the ones that follow it in the order.
PrefetchNext(current, window) ==
    /\ Live(current) /\ \A i \in DOMAIN window : Live(window[i])
    /\ Call(<<Step("poll"),
              [op |-> "prefetch", window |-> window,
               protected |-> {current} \cup ToSet(window)]>>)

Windows == UNION {[1..n -> Block] : n \in 1..MaxWindow}

CallNext ==
    \/ Wait \/ Poll
    \/ \E b \in Block :
        \/ Create(b) \/ Retain(b) \/ Release(b)
        \/ AcquireGpu(b) \/ Unpin(b) \/ KernelWrites(b)
        \/ Offload(b) \/ Load(b)
        \/ \E window \in Windows : PrefetchNext(b, window)

StepNext ==
    \/ WaitDone \/ WaitRound \/ PollRound \/ PollIdle
    \/ DispatchDone \/ DispatchNext
    \/ MakeRoom \/ Evict \/ LoadStep \/ StartLoadStep \/ OffloadStep
    \/ Settle \/ Pin \/ Created
    \/ ReleaseWaits \/ DropReference \/ DropBlock
    \/ PrefetchSkip \/ PrefetchLoad \/ PrefetchQueue

Next == CallNext \/ StepNext

Spec == Init /\ [][Next]_vars

-----------------------------------------------------------------------------
(* Properties.                                                             *)

\* While a lease lives, its block is on the GPU and the slot it was given
\* contains the block: the address of a lease is good for a kernel whatever
\* is evicted, prefetched, released or fails meanwhile.
LeasedIsResident ==
    \A b \in Block : pins[b] > 0 =>
        /\ refs[b] >= pins[b]
        /\ loc[b] = "GPU" /\ move[b] = "None"
        /\ slot[b] \in GpuSlot /\ gpuData[slot[b]] = b

\* The address of a lease does not change while the block is leased.
LeasedAddressStable ==
    [][\A b \in Block : pins[b] > 0 /\ pins'[b] > 0 => slot'[b] = slot[b]]_vars

\* The candidates for eviction are exactly the blocks on the GPU without a
\* lease, each listed once.
CandidatesExact ==
    /\ IsInjective(lru)
    /\ ToSet(lru) = {b \in Block : Live(b) /\ loc[b] = "GPU" /\ pins[b] = 0}

\* A slot is counted once for the block that has it and once for the copy
\* under way: none leaks, none is shared, and none is free while a copy uses
\* it.
SlotsExact ==
    \A s \in GpuSlot :
        slotRefs[s] = Cardinality({b \in Block : slot[b] = s})
                        + Cardinality({f \in flight : f.slot = s})

\* The latest content of a live block is never lost: it is where the
\* location of the block says, and during a copy where the copy reads, so a
\* failure at any moment leaves it.
ContentKept ==
    \A b \in Block : Live(b) =>
        IF loc[b] = "GPU" \/ move[b] = "ToCpu"
        THEN slot[b] \in GpuSlot /\ gpuData[slot[b]] = b
        ELSE hostData[b] = b

\* Every queued load can count on the slot of an offload of its own, and
\* when the offloads are done on a free slot (the comment
\* at tiered_block_manager.cpp:202): dispatch never runs out of slots.
RoomForQueued ==
    /\ Len(queued) <= Cardinality(Offloading)
    /\ Len(work) <= Cardinality(FreeSlots)

\* Location, move and lists agree: a block is TRANSFERRING exactly when it is
\* pending with a copy in the runtime or queued for one, so nobody waits for
\* a copy that is not under way.
TransfersTracked ==
    \A b \in Block :
        /\ (loc[b] = "TRANSFERRING") <=> b \in ToSet(pending \o queued \o work)
        /\ (move[b] = "QueuedLoad") <=> b \in ToSet(queued \o work)
        /\ b \in ToSet(pending) <=>
             \E f \in flight : f = [slot |-> slot[b], buffer |-> b, write |-> move[b] = "ToGpu"]

\* Every prefetch that was accepted is counted once, as a hit, late or unused,
\* or is still outstanding: prefetch_count = prefetch_hits + prefetch_late +
\* prefetch_unused + prefetch_outstanding, in the middle of every call and
\* after every failure (docs/metrics_benchmarks.md:47;
\* tiered_block_manager.cpp:92-95, 100-102, 155).
PrefetchCountedOnce == uncounted = Cardinality({b \in Block : Live(b) /\ prefetched[b]})
=============================================================================
