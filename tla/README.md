# TLA+ models of KVFlux

KVFlux manages the key/value cache blocks of a language-model server. This
directory holds TLA+ modules for the parts of it that keep state, the TLC
configurations that check them on small instances, and TLAPS proofs for every
value of the constants. Paths below are relative to the repository's root,
which the map of `PROJECT.json` calls `src/`: `src/block_manager.cpp` of the
repository is `src/src/block_manager.cpp` there.

    tlc -config MCDirectory.cfg MCDirectory        one run
    tlapm MigrationManager_proofs.tla              one proof module

## 1. The system

The code grew in four layers; each later one allocates from an earlier one.

| part | state | operations | used by |
|---|---|---|---|
| v0 `BlockManager`, `IndexLru` | per block: generation, reference count, published prefix; free list, LRU list, prefix index | allocate, retain, release, publish, lookup; acquire, share, release of a table | every pool below |
| v1 `GpuMemoryPool` | a BlockManager, device memory, initialized / in-flight flags | allocate, release, transfer bookkeeping | runtime, tiers |
| v1 `AsyncTransferRuntime` | batches in flight on one stream, references to their blocks | submit, poll, wait | tiered manager |
| v1 `TieredBlockManager` | logical blocks: CPU / GPU / transferring, leases, prefetch queue, LRU of resident blocks | create, prefetch, demand (lease), poll, wait, release | the v1 server loop |
| v2 `PhysicalBlockPool` | a BlockManager | forwards | v2 tables, v3 GPU tier |
| v2 `BlockTable`, `SequenceState`, copy-on-write, `PrefixCache`, `SequenceLifecycle` | per request: page list, token count | append, fork, copy-on-write, attach and publish a prefix, prefill / decode / abort | the v2 engine |
| v2 slot mapping, batch tables, layouts | none | index arithmetic with overflow checks | kernels |
| v2 `PagedKVStorage`, kernels, reference attention | device memory | read, write, attention | - |
| v3 tiers (`SlotTier`, `GpuTier`) | per tier: a free list through the slots, a generation per slot, a count | allocate, release | directory |
| v3 `CacheDirectory` | per chunk: a replica per tier (location, state), reference and pin counts | create, place, remove, set_state, add_ref, release_ref, pin, unpin, destroy | both migration engines |
| v3 `GpuCpuTransfer`, `NvmeTransfer` | pending copies, a stream and an event per copy | begin / finish, destructor; offload, onload with file I/O | the simple engine |
| v3 `MigrationManager` | tasks, I/O queue, I/O threads, transfer stream | submit, poll, wait, cancel, destructor | the asynchronous engine |
| v3 `ChunkFileStore` | a file per NVMe slot, `stored_bytes_` | write, read, erase, restart | NVMe transfers |
| host and GPU chunk stores, pinned pools, CUDA wrappers, metrics | memory | address arithmetic, CUDA calls | - |

How they interact: by calls in one process. Threads exist only in
`MigrationManager` (an owner thread and `io_threads` workers, default 4, joined
by a mutex, two condition variables and an atomic per task) and on the device
(copies of one stream complete in order; events report them). Files are the only
state that outlives the process.

What is hard in it, and what correctness means, part by part:

- **MigrationManager**: the owner, the workers and the device share slots without
  a lock and are kept apart by a protocol: replica states and pins that make the
  directory refuse to recycle a slot. Cancellation races with the workers, with
  completion and with the destructor; CUDA and file errors strike in the middle of
  each handler. Correct: nothing writes to a slot its chunk no longer holds; a READY
  replica has its bytes; an ended task leaves its chunk clean; final is final; every
  accepted task ends; the destructor outlasts every worker and copy.
- **CacheDirectory** and tiers: slots are recycled while callers remember
  locations; a slot whose generation is exhausted drops out of the free list.
  Correct: no slot has two owners, none leaks but the exhausted, no stale location is
  accepted again, the list, the flags and the counts agree, and no record goes away
  while something depends on it.
- **GpuCpuTransfer / NvmeTransfer**: between begin and finish of one chunk come
  calls for others, in any order; every CUDA call, allocation and file operation may
  fail, and so may the roll-back. Correct: the copy in the stream finds both of its slots
  in the hands of its chunk; a replica is READY only when its bytes are there; a chunk is
  given up in one tier only when it has arrived in another; begin leaves all or nothing.
- **ChunkFileStore**: crashes between any two system calls, failing calls, and I/O
  threads in a class written for one. Correct: a slot holds the chunk of a write that
  returned or is under way, whole, also after a crash; the byte counter agrees with
  the files; the files respect the quota.
- **BlockManager**: calls on whole tables fail half way; cached blocks move between
  LRU list and use; hashes collide. Correct: reference counts equal the holders;
  every block is in exactly one place; the index is exact; a held block keeps
  the content its holder believes in; a refused handle stays refused.
- **TieredBlockManager / AsyncTransferRuntime**: eviction, prefetch and
  leases compete for GPU slots while copies run; one failed copy fails all queued
  ones. Correct: a leased block is resident and not evicted; locations, slots and the
  LRU list agree after a failure; the latest content of a block is where its
  location says; queued prefetches always find their slot.
- **Sequences**: pages shared by forks and by the prefix cache; a shared tail
  must be copied before it is written, unless the other holders have gone; every
  call takes pages one by one and must roll back. Correct: a token that was written
  stays where its request finds it; references equal tables; a cached page
  holds what its prefix says; attention, alone or in a batch, visits its tokens and no
  others.
- **Layouts**: three computations of one index, in `size_t`, some checked and some
  not. Correct: no two elements share a byte, none lies outside, and host and kernels agree.

`PROJECT.json` lists the hazards, each with the line where it bites and the properties
about it.

## 2. The modules

Operators marked `BUG VARIANT` belong to no specification: each is a definition as a
plausible mistake would have it, kept to show that the property it is paired with
(`mutants` in `PROJECT.json`) would notice.

### CacheDirectory

`registered` is the key set of `records_`; `replica[k][t]` the optional replica of a
record; `refs`, `pins` the two counters; `gen`, `free` the generations and free slots
of the three tiers. One action per method; a call that throws changes nothing and is
not an action, but for one: `place` in a tier of the class `SlotTier` that finds the generation of
the slot exhausted has already taken it off the free list (`PlaceLosesSlot`). Left out: `last_access` and `version`, which the directory writes and never
reads. The GPU tier allocates from a `PhysicalBlockPool`; here it is a set of slots of its
own, so other users of that pool are not in this model.
`MaxGeneration` is the largest generation, 2^64 - 1 in the code and 1 or 2 in the runs, so that
exhaustion happens. Bound: `MaxHolds` references and pins per key.
Both engines extend this module; its own `DirSpec` is what `CacheDirectory_proofs` is
about, and TLC checks the directory as part of theirs.

### SlotTiers (extends CacheDirectory)

`SlotTier` of the CPU and the NVMe tier: `freeHead`, `nextFree` and `allocated` are
`free_head_`, `next_free` and `allocated_`; the flag and the generation of a slot are the
`free` and `gen` of the directory. `Relink` is what `allocate` and `release` do to the list,
`LoseSlot` the directory's lost slot down to the list. `PlaceLinked` and `RemoveLinked` are `place` and `remove` of
the directory down to the list. Which page the GPU tier gets is left open.

### SyncTransfers (extends SlotTiers) and ChunkResidency

| code | model |
|---|---|
| `begin_offload`, `begin_onload` | `Begin`; `BeginRolledBack`, `BeginLosesSlot`, `BeginStrands` (the roll-back throws) |
| `finish_offload`, `finish_onload` | `Finish` = `Unmodified` and `Settle` |
| `~GpuCpuTransfer` | `DestroyTransfers` (the stream's destructor waits for it first) |
| stream and events | `DeviceCopies` |
| `NvmeTransfer::offload`, `onload` | `NvmeOffload`, `NvmeOnload`, `NvmeOnloadEraseThrows`; `NvmeFails`, `NvmeLosesSlot` |
| the caller's own calls, and the medium | `CallerFills`, `CallerRemoves`, `CallerCondemns`, `CallerCounts`, `CallerLosesSlot`; `FileLost` |

`pending` is `pending_` with the progress of each copy, `stream` the order in which
the device makes them. `data` and `header` are as in MigrationManager below. `stranded`
is a history variable: the chunks whose transfer was left half-registered. A call that throws
and undoes everything is a step only if it leaves a trace, such as a generation spent. The
bytes of a released slot become `Junk`: nobody may rely on them.
`"lost"` in `Fault` lets a published file disappear. Bound: the caller itself holds
(references or pins) one chunk at a time.

`ChunkResidency` is the promise, for one chunk: the tiers it can be read from, the copy
under way between two neighbours, and whether a copy was given up half-way. `Begin`, `End`
and `Copy` move it; `Drop` is the caller's choice, `Strand` the two failures of section 4.
`Residency(k)` in `SyncTransfers` is the refinement mapping and `ResidencyImplemented` says that
every step is one of these, or none, for every chunk at once.

### MigrationManager (extends CacheDirectory)

| code | model |
|---|---|
| `submit` | `Submit`, `SubmitNoCapacity`, `SubmitLosesSlot`, `SubmitRolledBack`, `SubmitRollbackThrows` |
| `poll` -> `finalize`, `finalize_cancelled`, failure path | `Poll` -> `Conclude` = `Finalize` (`Complete` / `FinalizeCancelled`) or `Fail` |
| `wait` | `WaitCall`, `WaitHold` (predicate false, lock held), `WaitSleep`, `SpuriousWakeup`, `WaitConclude`, `WaitThrows` (the event reports an error, or `poll` throws: `ConcludeThrows`) |
| `cancel` | `CancelCall`, `CancelRequest`, `CancelDequeue`, `CancelDequeueThrows`, `CancelRetry` |
| `io_worker_loop`, `do_io` | `Take`, `SkipCancelled` or `StartIo` and `Io`, `Notify`, `WorkerExit` |
| stream and event | `DmaDone` |
| destructor | `BeginDestroy`, then `cancel` of every live task, `DestroyWaits`, `wait` of each, `DestroyStops`, `DestroyEnds`; `unvisited` is what either loop has before it |
| the caller's own use of the directory | `CallerCreates`, `CallerFills`, `CallerLosesSlot`, `CallerRemoves`, `CallerDestroys` |

Steps are cut where another thread can run: at the mutex, at the atomic reads of the
worker, and between the predicate of a condition wait and the sleep. An owner call
that holds no lock and that no worker can observe is one step. `data[s]` is the chunk whose bytes slot `s` has;
`header[s]` the identity in a published file. The constant `Fault` chooses which
failures the environment may produce: a failed copy (`dma`), a stream that cannot be
drained (`sync`), file I/O (`io`), a file that cannot be removed (`unlink`), and whether the caller's
own `place` may come upon an exhausted slot (`spent`; that of `submit` always may).
`OwnerCall` chooses the calls the owner makes besides submit and poll.
`ChunkFileStore` is seen here as its contract, an atomic replacement of the file or an error;
its own module shows how that is kept.
The caller is the one of the header's safety note: it touches only what no task has
claimed and does not pin or set states itself.

### ChunkFileStore

`write` is seven steps (stat and quota check, create, fill, fsync, rename, directory
fsync, then the load and the store of `stored_bytes_`), `erase` three (unlink, load,
store). `Crash` restarts the process: each name holds one of the files
`disk` allows, data that was never synced may be torn, and the constructor recounts.
`disk[s]` gains a possibility with each rename or unlink and collapses at a directory
fsync. `promised[s]` is a history variable: what the calls that returned, and the call
under way, allow the slot to hold. Two threads never work on one slot (that is
`OneTaskPerChunk` with `SlotsExclusive`), so `Unused(s)` guards the start of a call.
A file is one value, whole or not; checksum and header fields are that value.
`read` and `exists` change nothing. `Modulus` stands for 2^64.

### BlockManager

Per block `gen`, `refs`, `prefix`; `freeList` is a stack and `idle` the LRU list,
oldest first; `index` maps a hash to its bucket. `hold[h]` is the table of a
holder, with what it believes each block to contain. `acquire`, `share` and
`release` of tables go block by block (`AcquireNext`, `ShareNext`, `ReleaseNext`), and
a failure in the middle (no block, count or generation exhausted) gives back what was
taken (`GiveUp`). Tokens are abstracted to the contents of whole blocks, and the hash
function is a parameter. `MaxGeneration` and `MaxRefs` are the limits of the C++ types,
made small so that the overflow checks are reached.

### GpuTransfers and TieredCache (the two-tier cache of v1)

`GpuTransfers` has the state of `GpuMemoryPool` and `AsyncTransferRuntime`
(`slotRefs`, `initialized`, `flight`, and the contents of slots and buffers) and their
operations as operators; it has no next-state relation of its own. `TieredCache` is
`TieredBlockManager`: `loc`, `move`, `slot`, `pins`, `prefetched` are the fields of
`Entry`, `lru`, `pending`, `queued`, `work` its lists.

| code | model |
|---|---|
| `create`, `retain`, `release`, `acquire_gpu`, end of a `GpuLease`, `offload`, `load`, `wait`, `poll`, `prefetch_next` | `Create`, `Retain`, `Release`, `AcquireGpu`, `Unpin`, `Offload`, `Load`, `Wait`, `Poll`, `PrefetchNext` |
| `wait`, `poll`, `dispatch_queued` | `WaitRound` / `WaitDone`, `PollRound` / `PollIdle`, `DispatchNext` / `DispatchDone` |
| `load`, `make_room`, `start_load`, `start_offload` | `LoadStep`, `MakeRoom`, `Evict`, `StartLoadStep`, `StartLoad`, `StartOffload` |
| `finish(true)`, `finish(false)` | `FinishOk`, `Failed` |
| body of `release`, of `acquire_gpu`, of the loop of `prefetch_next` | `ReleaseWaits`, `DropReference`, `DropBlock`; `Settle`, `Pin`; `PrefetchSkip`, `PrefetchLoad`, `PrefetchQueue` |
| `prefetch_submitted_` less `_hits_`, `_late_` and `_unused_` | `uncounted` |

The manager belongs to one host thread, so what interleaves is not two calls but the
work that earlier calls left under way. `todo` is the control stack of the call in
progress, cut at each submission and synchronization, and each of those may fail:
`Throw` unwinds the stack, and `create` alone catches and releases. Content is
abstracted to "the latest of block b" or `Junk`: a copy in flight has Junk at its target, and
a write through a lease (`KernelWrites`) makes every other copy Junk. Batches have one block,
as all of this manager's have. Left out: the counters of the metrics other than those of
prefetches, the destructor (a `wait`), generations of handles.

### PagePool and SequenceSharing (the requests of v2)

`PagePool` is what `PhysicalBlockPool` promises to its users: pages with a reference
count and perhaps a published prefix, and no lists, hashes or generations. `BlockManager`
implements it (`PoolImplemented`: the map takes blocks to pages and forgets the rest),
and `SequenceSharing` is built on it. `kind`, `table`, `text` are the objects, their
block tables and their tokens (`num_tokens_` is the length of `text`); `kv` is what each slot
of each page holds; `written` counts the tokens whose K and V are in memory, which the
code leaves to its caller.

| code | model |
|---|---|
| `append_tokens`, loop and roll-back | `AppendTokens`, `Grow` (takes a page or `Fails`), `Grown` |
| `append_token_with_copy`, `append_token_cow`, `copy_block`, `replace_last_owned` | `AppendWithCopy`, `Copy` |
| `fork_shared` | `BeginFork`, `Share` per page, `Forked` |
| `attach_cached_prefix`, `append_cached_full_block` | `BeginAttach`, `Lookup`, `AttachPage`, `FreeLookup` per block, `Attached` |
| `publish_computed_block` | `PublishBlock` |
| `prefill`, `decode` of a lifecycle | `Prefill` / `AppendWithCopy`, then `Compute`; any failure ends the request (`Fails`) |
| `write_paged_kv` by the caller of a sequence | `Write` |
| constructors; `finish` and destructors | `Open`; `Close` |

One thread makes all calls, so `call` is the one in progress, and the interesting
sequences are those of calls on different requests between an append and the write that
is due. The caller keeps two rules: a block is published
(`include/kvflux/v2/prefix_cache.h:19`), and a request forked (`docs/v2_copy_on_write.md:30`), only when
its K and V are written. What a page holds when it is taken from the pool is
`Junk`. `prefill` and `decode` end with an attention (`Attend`), whose queries are the new tokens.
Left out: moves of the objects and objects of different pools.

### PagedReads

What the kernels read, as operators: `Visit` is the loop of `attention_element` over a page
table, `Attended`, `AttendedBatch` and `Gathered` the slots `paged_attention`,
`paged_attention_batch` and `read_paged_kv` visit, `BatchTable` the padded table
`build_batch_block_table` makes, and `Reference` what `reference_attention` sees of
contiguous K and V. A kernel that leaves its table or follows padding gets `Junk`. It
is checked on every state of `SequenceSharing`: tables are those that sharing, copying,
eviction and roll-back have produced.

### KvLayouts

`KVBlockLayout` (v0), `PagedKVLayout` and `build_slot_mapping` (v2) and the kernels'
`cache_index`, with `checked_multiply` and the places where sizes are not checked and wrap
(`Wrap`). They keep no state, so the property is about constants; in the run it is
evaluated for every `Geometry` and `Budget` of the instance.

## 3. The runs

| run | instance | what it shows |
|---|---|---|
| `directory` | `SyncTransfers`: 2 keys, 1 GPU, 2 CPU, 1 NVMe slot, 2 generations, every fault | two chunks compete for the only slots of two tiers, their copies overlap in the stream, slots are recycled, exhausted and lost; lists, records and bytes agree, copies stay within their slots, `ChunkResidency` is implemented |
| `migration_safety` | 2 keys, 1 GPU, 2 CPU, 1 NVMe slot, 2 workers, 2 tasks; `dma`, `io`, `unlink` faults; wait, cancel | every invariant of the protocol with two tasks in flight, on either kind of link; READY replicas have their bytes, although copies and files fail |
| `migration_shutdown` | 2 keys, 1 GPU, 2 CPU, 1 NVMe slot, 1 worker, 2 tasks; `dma`, `sync`, `unlink` faults; wait, destructor | no queued task and no copy outlives the manager, whatever is in flight when it is destroyed and whatever fails; a task it leaves RUNNING is one of those named in `LeftRunning` |
| `migration_polling` | 2 keys, 2 tasks, 2 workers, `PollingSpec` | every accepted task ends under an owner that polls |
| `block_manager` | 3 blocks, 3 holders, prefixes `<<a>>`, `<<a,b>>`, `<<b>>` of which two collide | the properties of section 1 for the pool, and that it implements `PagePool` |
| `tiered_cache` | 4 blocks, 2 GPU slots, 2 references, windows of 1 and 2, every copy may fail | leases hold their block and address; lists, slots, locations and contents agree after any failure; queued prefetches find their slot; every prefetch is counted once; no call gets stuck |
| `store_crash` | 3 slots, 1 thread, all faults, crashes | atomic, durable replacement; exact counter, also after a restart; no write exceeds the quota |
| `sequences` | 3 requests, 3 pages of 2 tokens, 2 different tokens, requests of up to 4, every call may fail; layouts of up to 2 layers, blocks, heads and dimensions and 3 tokens with a `size_t` of 6 bits | written tokens stay intact under sharing, copying, eviction and roll-back; attention and reads visit exactly their tokens; no page leaks; no call gets stuck; layouts are exact |
| `migration_lost_wakeup`, `migration_wait_throws`, `migration_stranded`, `store_quota_race` | the smallest instance that shows it | section 4 |

Why these bounds are enough. In `directory` two copies are in the stream at once only if the CPU
tier has two slots; the one GPU and the one NVMe slot are then contested, handed from one
chunk to the other, exhausted by the second allocation and lost by the third, with the free
list of the CPU tier still holding another slot behind a lost one. Interference needs two chunks, two workers
and fewer slots than chunks want (`migration_safety`); reuse of a slot, and of the file an earlier
task left there, needs a second generation; a task that races or follows another on one
chunk is the second of two. `migration_shutdown` makes do with one worker: the destructor
joins each worker in the same way, and the device is a second party to wait for; the cancellations
in it are the destructor's. A table of two blocks is the shortest that can fail half way, and three
blocks with three holders leave room for one in use, one idle and one free. Two GPU slots and
four blocks are the least that lets two prefetches be queued at once behind two
offloads, and a demand or a release come between them; two references are one of the
owner and one of a lease, or two leases. Quota 3 with
chunks of sizes 1 and 2 is full, exactly full and one short in turn. Requests of two
pages are the least that lets a fork share a full page and a tail, and an attached
prefix fail at its second block; three pages for three such requests make every
allocation a contest and every cached page a victim. A `size_t` of 6 bits makes about half of the
layouts too large, at each of the products. The theorems of
section 5 need no bound on keys, slots, workers, sizes or widths.

In `tiered_cache` and `sequences` deadlock is checked although the models have no
fairness: since some call is always possible when none is in progress, it says that no step
of a call waits for something that never comes.

Symmetry is declared only in runs whose properties are invariants or step
properties, never with liveness. `CHECK_DEADLOCK FALSE` stands where the
model really stops: when `MaxTasks` tasks have been submitted or generations are used
up (the migration runs), and when every generation is exhausted (`block_manager`,
`directory`).

**Fairness.** `MachineFairness`: a worker thread that can go on does (`WF` of each
worker), the device finishes what was enqueued, an owner inside `cancel` or `wait`
goes on with it. Nothing obliges the owner to make a call, and a condition variable
owes nobody a spurious wakeup. `PollingSpec` adds an owner that polls each of its tasks
again and again, the loop of `docs/v3_async_migration.md`; the fairness of `Poll` is
strong because a poll is possible only between the owner's other calls.

## 4. Where the code and its comments disagree

Each is a run that TLC ends with a counterexample.

1. `migration_lost_wakeup`: the worker stores its result and notifies without
   `io_mu_` (`src/v3/migration_manager.cpp:314, 323`). An owner that has evaluated
   the predicate and is not yet asleep misses the notification and `wait` never returns.
2. `migration_wait_throws`: after a failed copy `wait` throws from
   `cudaEventSynchronize` (line 228) and the task stays RUNNING, its replicas COPYING and
   its chunk pinned, though the header promises a final state. A later `poll` repairs it.
   `wait` can also throw out of `poll` (line 233), when the file of a cancelled task cannot be
   erased (line 170). The destructor swallows both (line 35) and leaves such a task RUNNING;
   `LeftRunning` says which tasks these are.
3. `migration_stranded`: `cancel` takes the task out of the queue and then
   `store_.erase` may throw (line 170): QUEUED, in no queue, out of reach of `poll`. A second
   `cancel` of it, the destructor's included, retries for ever (`CancelRetry`).
4. `store_quota_race`: the quota check and the update of the counter are far apart
   and four I/O threads run them at once; together they exceed the quota. The update is a
   plain load and store, so with two threads `QuotaExact` is false as well: a lost
   update makes the counter disagree with the files until the next restart.

`migration_polling` leaves out the `unlink` fault because of 3: `EveryTaskEnds` is then false.
`migration_safety` leaves out `sync`, because `rollback_submit` that throws while it drains the
stream leaves the source COPYING with no task to repair it, and `SettledChunksReady` is then false.
`migration_shutdown` checks its invariant with both, and the theorems hold with every fault, except
`ChunksAreLeftReady`, which excludes `sync`.

Three more that have no run of their own, because the properties of `directory` name them:

5. The roll-back of `begin_offload` and `begin_onload` drains the stream first
   (`src/v3/gpu_cpu_transfer.cpp:55`); when that throws, the replicas stay in transit,
   unpinned and in no table, although `docs/v3_gpu_cpu_offloading.md:41-42` says that no
   half-registered state is left. `BeginStrands`, `stranded`.
6. The destructor of `GpuCpuTransfer` forgets what is pending (line 25): replicas in transit
   and a pinned chunk, for ever. `DestroyTransfers`, `stranded`.
7. `SlotTier::allocate` takes the slot off the list before it finds the generation
   exhausted (`src/v3/tier.cpp:22-25`). The slot is lost, `available` still counts it,
   and a location of its last owner, already released, passes for valid again, against
   `include/kvflux/v3/tier.h:13-14`. It takes 2^64 allocations of one slot. `PlaceLosesSlot`, `Lost`.

Two limits of the store that no comment denies: `erase` does not sync the directory, so a
crash may bring the file back and with it exceed the quota (`QuotaRespected` is
therefore about what a write adds); and a failed directory fsync is ignored, so after
such a write a crash may bring back the chunk before it (`after` in `SyncDir`).

## 5. The proofs

Eight modules hold theorems; every leaf is checked by SMT, Zenon or, for the temporal steps,
LS4.

`CacheDirectory_proofs`: `DirectoryCorrect` proves the conjunction `DirInv` inductive
as it stands, for all sets of keys and slots; `LocationsAreFresh` is the step property `StaleStaysStale`, from the
same invariant. Both are about `CacheDirectory` alone, under its own next-state relation, in which any call may
come in any order and `place` may lose an exhausted slot. That slot is the exception in both: it
belongs to nobody, and the last location in it becomes valid once more.

`SyncTransfers_proofs` rests on the inductive invariant

    SyncInv == Types /\ Exclusive /\ Accounted /\ StreamExact
               /\ \A k \in Key : Placed(k) /\ Transit(k) /\ Bytes(k)

`Placed` (a replica is in a slot of its tier, at the generation the tier has) and `Exclusive` (no
slot has two owners) are what makes the rest stable: `Bytes` (a READY replica, and the source of
a pending copy, have their bytes; the destination has them once the copy is done) would
break if a slot with another owner were written. `Transit` says that a pending transfer is as `begin` left it,
pinned and in states `remove` refuses, and that nothing else is in transit unless stranded.
`StreamExact` connects the stream with the table: one copy for each transfer that waits for
one. The argument is modular. Each action names one chunk `k`. `Shape(k)` says of
a step that it changes the replicas of `k` alone, hands out only slots that were free,
takes back only slots of `k`, and renews generations of free slots only; `Frame(k)` that it touches no
pin, transfer or byte in use of another chunk. One lemma, `StepSound`, draws the consequences for the
other chunks and for the slots (`Exclusive`, `Accounted`), so each action has to show
only `Shape`, `Frame` and the facts of its own chunk. From it:
`CopiesHitTheirOwnSlots`, `BeginIsAllOrNothing`, `ReadyIsTrue`, `NoSlotLeaks` and
`OldLocationsRefused`, five of the properties of the run `directory`, for any chunks, tiers,
generations and faults.

`FreeListsAreExact` adds `ListInv`: from the head of each list the links lead through the slots marked free,
once each, to the end (`Listed`), and `allocated` is the number of replicas in the tier. `Listed`
names the list as a sequence of slots, so nothing has to be walked; `ListPopped`, `ListPushed` and
`ListKept` say what a slot less, a slot more, and links changed elsewhere make of it. An action of a chunk
links it to one slot and parts it from another, in different tiers (`Links`), loses an exhausted slot
(`LoseLists`), or leaves the lists alone (`QuietLists`). It is inductive only beside `SyncInv`, from which the slot given
back was not on the list already and the source of a transfer is where `begin` found it.

The last part of the module proves the refinement, `TransfersImplementResidency`: under `SyncInv`
every step is, for the chunk it names, a step of `ChunkResidency` (`BeginBegins`,
`FinishEnds`, `MoveCopies`, `StrandStrands`, ...) and looks like none to the others
(`LoneStep`); the destructor alone strands several chunks at once.

`KvLayouts_proofs`: `LayoutsCorrect`, for every geometry, budget and width of
`size_t`. An offset is the number of the element times its size; the number is a row-major
index, below the product of the dimensions (`RowInRange`) and unique
(`RowUnique`); and the product is the one the constructor checked
(`MultiplyExact`), so nothing wraps that is not checked. `KernelIndexExact` adds that host and kernels agree.

`MigrationManager_proofs` rests on one inductive invariant,

    MigrationInv == TypeOK /\ TasksKnown /\ TransfersProtected /\ OneTaskPerChunk
                    /\ PinnedIsCopying /\ OperationsKnown

The property wanted is `TransfersProtected` (a live task's two replicas are where the
task found them, in states the directory will not remove). It is not inductive: the end
of a task unpins its chunk and changes its replicas, which would harm another task on the
same chunk, so `OneTaskPerChunk` is needed; that one follows from `submit` asking for a
READY source and no destination, which needs the states of `TransfersProtected` for every
live task, and `PinnedIsCopying` for the pins a half-failed submission leaves
behind. That tasks end only when nobody works on them any more is `OperationsKnown`: exactly one worker
holds a RUNNING file task without a result, and the queue holds only QUEUED ones.
`TasksKnown` says that ids not yet given out have no task.
From it: `TypeCorrect`, `TransfersAreProtected`, `NoTwoTasksOnOneChunk`,
`OperationsTouchOwnSlots` (workers and device touch only slots their own chunk
still holds), `FinalStatesAreFinal`, and `CancellationIsHonoured`.

Its second part proves `ReadyBytesAreTrue` from a stronger invariant,

    BytesInv == MigrationInv /\ SlotsInUse /\ SlotsExclusive /\ ReadyHoldsItsBytes
                /\ SourcesGenuine /\ ResultsGenuine

A READY replica can be spoiled in two ways. Somebody writes to its slot: but a worker or the
device writes only to the destination of a live task, which is not READY, and
`SlotsExclusive` says that no other replica is there (`WriteStep`); `submit` and the caller write only to
slots they took from the free ones, which by `SlotsInUse` nobody has. Or it becomes READY without
having the bytes: `finalize` makes READY the source, good by `SourcesGenuine`, and the
destination, good by `ResultsGenuine` once the operation is done and not cancelled (`EndBytes`). The
exception matters: a worker that skips a cancelled task reports success and has written nothing.

Its third part proves what is left behind. `ChunksAreLeftReady` adds `OthersReady` (a live
task changes only the two replicas it copies between) and assumes `"sync" \notin Fault`: without the
assumption it is false, because `rollback_submit` can throw half way (section 4). `NothingIsLeftRunning` is by
`OnlyStuckRemain`: from the second loop of the destructor on, a live task is one that the loop has
yet to wait for, or is waiting for, or one that cannot be finished (`LeftRunning`): its copy failed, or it was
cancelled and its file is still there. That such a file stays there is why `BytesInv` is part of the
invariant: the end of another task erases only the file of its own slot, and by `SlotsExclusive` that is a
different one (`DestinationsDiffer`).

`ChunkFileStore_proofs`: `CrashesKeepPromises`. Its invariant `StoreInv` adds to `CrashKeepsPromise` what
is known of a call at each of its points (`CallFacts`): until the file changes hands the slot holds what
`before` allows, which is what a call that throws restores (`ThrowStep`); after that what
`after` allows, which is what a call that returns promises (`CounterStep`); and at the rename the
temporary file is whole, because the fsync came first. `CallsApart` (no two calls on one slot, which
is how `MigrationManager` uses the store) keeps a call's facts while others run
(`StepOnSlot`), though each fsync of the directory publishes the renames of all. A crash picks one of the
files the medium may have, and each was synced before it was renamed (`CrashStep`).

`QuotaIsExact` and `QuotaIsRespected` are about the counter. Their invariant, `QuotaInv`, says what the
counter owes to the files at each point of the one call there may be: nothing at rest (`QuotaExact`); in a
write up to the rename, that the bytes replaced are those of the file still there and that the sum fits; from the
rename on, that the files have moved on and the counter has not (`CountFacts`). What a change of one file does to
the bytes of all is `UsageChanges`, a lemma about cardinalities, since `Usage` counts the bytes themselves. Both theorems
assume that all calls come from one thread, as `chunk_file_store.h:60` asks: with several the
run `store_quota_race` shows the quota exceeded. Assumed as well: slots are finitely many, and no set of files of the given
sizes reaches 2^64 bytes, so that the sum in the quota check does not wrap.

`BlockManager_proofs` proves all four invariants of the run of the block pool, its
action property and the refinement of `PagePool`, from

    ManagerInv == PoolSound /\ HoldTypes /\ call \in Calls \cup {NoCall}
                  /\ (\A b \in Block : Counted(b)) /\ HeldSound

in three layers. The lists on their own (`WithoutList`, `LinkedList`): a list without repetitions stays
one when a block is unlinked, pushed or appended, and gains or loses that block only. The places on
their own (`Counted`): a block has as many references as there are entries of tables, and steps of calls,
that name it. Then each operation of the pool on both: `PoolSound` says that every unreferenced
block is on exactly the list its prefix puts it on, that the index lists the published blocks under
their hashes and no others, and that no prefix has two blocks; `HeldSound` that
what a holder believes of a block is so. `HeldSound` needs `Counted`: a block is recycled only at
count zero, and then no table has it (`HeldIsReferenced`). From it:
`RefsCountHoldersHolds`, `BlocksPartitionedHolds`, `IndexExactHolds`, `HeldBlocksKeepContentHolds`,
`RevokedStaysRevokedHolds`, and `PoolImplementedHolds`. Assumed: blocks are numbered from 1,
the limits are positive, and the prefixes that may be published are closed under taking shorter ones, as those of
one block after the other are; holders, tables and the hash function are arbitrary, so
collisions are covered.

`SequenceSharing_proofs` proves every property of the run of the requests, in two layers.

    StructureInv == SharingTypes /\ (\A p \in Page : Counted(p))
                    /\ (\A r \in Request : TableSound(r)) /\ CallFacts
    ContentInv   == kv \in Memory /\ CachedTrue /\ (\A r \in Request : WrittenSound(r))
                    /\ NewIsEmpty /\ CallContent

`StructureInv` is about who refers to which page. `Counted` is the reference count; that it holds after
failed calls needs `CallFacts`, what is known at each step of a call: how far an append
can be rolled back, that the page of a copy is in no table, that a forked table is the beginning
of the one it is forked from, that an attached table holds the first blocks of what is wanted. That no
table has a page twice (`TableSound`) is not for free: a page that `lookup` finds is new to the table because
it is published under a longer prefix than any page there (`HitIsNew`), and a page from the
pool because its count is zero. `ContentInv` is about what pages hold. `TokensIntact` alone is not inductive:
a write or the reuse of a page could spoil a token of another request. So `WrittenSound` adds that the
pages of tokens still to be written have no other reference, and that only pages whose tokens are all written
are published; `WithTokensIs` draws from the two that a write changes private pages only.
`CutContent` is the one lemma about every roll-back, `Undisturbed` and `OtherRequest` those about the
requests a step does not name. The appends need a page with room to be private: because the tail
is not shared, or because it was just taken or copied (`TailAlone`, `CopyContent`).
From it: `RefsCountTablesHolds`, `TablesCoverTokensHolds`, `TokensIntactHolds`,
`CachedTrueHolds`, `ReservedIsPrivateHolds`, and, through `VisitReads` and `BatchRows`,
`AttentionSeesItsTokensHolds`: the kernels of `PagedReads` read the contiguous text, in a table
of their own or in a row of a batch of two, for every block size. The division by the block size is dealt with
once, in the lemmas about `PagesFor`, `BlockNo` and `OffsetOf`. Assumed: prefixes are non-empty texts of
whole blocks, and `Junk`, `InvalidBlock` and `NoCall` are not a token, a page and a call.

`TieredCache_proofs` proves every property of the run of the two-tier cache of v1, from

    IInv == Core /\ RoomForQueued /\ CountInv /\ TodoInv
    Core == EntryTypes /\ BlocksInv /\ PoolInv /\ ListInv

`Core` is about the entries: for each block, that its location, move and slot agree (`PlaceOk`), that only a
live block has a place on the GPU, a lease or a prefetch (`UseOk`), that its latest content is
there (`KeptOk`), which lists it is on (`ListsOk`) and that nobody shares its slot (`SlotOk`); and for the
pool, that the copies under way are those of the blocks with a move. It is not inductive: the step
of a call acts on what an earlier step of the same call left, with a `wait` and the failures of older
copies in between. An eviction or a load is started for a block that was on the right side some steps ago;
`acquire_gpu` pins a block that `wait` was to bring. `TodoInv` therefore says of the stack `todo`
which step may follow which (`Stack`), what each step still counts on (`Claims`: its block is live, a
load to be started is on the CPU, a block to be offloaded has no lease, a reference to be dropped is
not that of a lease), and that the block of a pin is on its way to the GPU (`PinsReady`) and
has arrived when the pin comes next (`PinNow`). The argument is layered like the code: lemmas about the lists and
about the four changes of an entry (a load or an offload starts, copies are done, copies have failed),
each for whoever makes it; a lemma for the claims on a step that disturbs none (`CalmClaims`); then one lemma
for each step and each call. `RoomForQueued` is arithmetic on cardinalities: a finish turns each offload
into a free slot, and a prefetch that queues a load starts an offload with it. From it:
`LeasesResident`, `LeasesStay`, `CandidatesAreExact`, `SlotsAreExact`, `ContentIsKept`, `QueuedHaveRoom`,
`TransfersAreTracked` and `PrefetchesCountedOnce`. Assumed: blocks and slots are finitely many (both are
vectors allocated by the constructor), every block has a host buffer of its own, and the bounds are naturals.
To be reasoned about, the order of an LRU list after an erasure is a function of ranks (`Kept`), not a fold.

Assumptions of all these: the tiers' slot sets are disjoint, the bounds are naturals, priorities are
naturals, faults and calls are among those named, and sentinels differ from what they
stand beside; for the free lists, that the slots of a tier are consecutive numbers and no tier is empty (the constructor
refuses that); for the layouts, that dimensions are positive and elements of 2 or 4
bytes (the constructors refuse others) and budgets fit in `size_t`. Keys, slots, workers, tasks, sizes and
faults are arbitrary. One lemma per group of
actions proves each half of the invariant (`SubmitType`, `OwnerType`, `MachineType`, ... and the same
for operations and protection), and `MigrationInvariant` puts them together.

Every invariant and every action property of the passing runs is proved. Out of the prover's reach, and so for
TLC alone: liveness (`EveryTaskEnds`; `WaitReturns`, which it refutes) and anything about ENABLED; what a recursive
definition computes for every input, since induction over data cannot be instantiated.

## 6. Not modelled

- Floating point, and with it what attention computes from the tokens it visits; the sharing of
  heads; checks of device pointers.
- The byte format and the checksum of a chunk file: a file is whole or torn.
- Metrics other than the counts of prefetches, CUDA resource wrappers, examples, benchmarks, tests.
- `last_access` and `version` of a record; formatting of errors.
- A process that ends because an exception leaves a `noexcept` destructor
  (`src/v3/migration_manager.cpp:31`): the model ends the behaviour there.
- v2 requests that use the pool of the v3 GPU tier at the same time: each is checked on its
  own against holders of any kind.
- In v1, batches of several blocks and the synchronous `read` and `write` of `GpuMemoryPool`, which
  the tiered manager does not use.
- The parts below that are still planned.

## 7. Plan

In order of importance; done so far: the modules of section 2.

1. `IndexLru`, the linked list in arrays, refining the sequence of `BlockManager` and
   `TieredCache`.
2. `TieredCache`: that every call ends and every queued prefetch is dispatched or dropped under
   an owner that polls.
3. The GPU pool shared by the v3 GPU tier and v2 requests.
4. `MigrationManager` implementing `ChunkResidency`, as `SyncTransfers` does.
5. Proofs: the refinements of items 1 and 4.
