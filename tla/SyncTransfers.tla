--------------------------- MODULE SyncTransfers ---------------------------
(***************************************************************************)
(* The synchronous data path of v3: GpuCpuTransfer copies chunks between   *)
(* the GPU and the CPU tier on a stream of its own, NvmeTransfer between   *)
(* the CPU and the NVMe tier through the ChunkFileStore.  Both change the  *)
(* CacheDirectory, and the directory the tiers.                            *)
(*                                                                         *)
(* One thread makes all calls.  begin_offload and begin_onload return      *)
(* while the copy is still in the stream, so calls for other chunks come   *)
(* between begin and finish; what runs concurrently is the device, which   *)
(* makes the copies of the stream in order.  The calls of NvmeTransfer are *)
(* synchronous, one step each.                                             *)
(*                                                                         *)
(* A call that throws and undoes everything is no step, unless it leaves   *)
(* a trace: a generation spent, a slot lost, bytes overwritten.  The       *)
(* content of a slot is the chunk whose bytes it holds; a slot that is     *)
(* released keeps its bytes, but they stand for nothing and become Junk.   *)
(***************************************************************************)
EXTENDS SlotTiers, Sequences

CONSTANTS
    Fault,       \* which of FaultKind the environment may produce
    NoTransfer,  \* no entry in pending_
    Junk,        \* bytes of no chunk
    NoFile,      \* no published file for a slot
    Still        \* see ChunkResidency

\* "cuda": a call fails after place, or a copy fails; "sync": draining the
\* stream reports an error; "io": the store reports an error; "unlink": a
\* file cannot be removed; "lost": a published file disappears.
FaultKind == {"cuda", "sync", "io", "unlink", "lost"}

Transfer == [offload : BOOLEAN, source : Location, destination : Location,
             done : {"pending", "ok", "error"}]

ASSUME TransferConstants ==
    /\ Fault \subseteq FaultKind
    /\ NoTransfer \notin Transfer
    /\ Junk \notin Key /\ NoFile \notin Key
    /\ Still \notin [from : Tier, to : Tier]

VARIABLES
    pending,   \* pending_, and what the device has done with each copy
    stream,    \* the chunks whose copies the device has still to make
    open,      \* the GpuCpuTransfer has not been destroyed
    stranded,  \* chunks a transfer left half-registered and will not return to
    data,      \* data[s]: the chunk whose bytes are in slot s
    header     \* header[s]: the chunk named in the published file s, or NoFile

xferVars == <<pending, stream, open, stranded>>
storeVars == <<data, header>>
vars == <<tierVars, xferVars, storeVars>>

Init ==
    /\ TiersInit
    /\ pending = [k \in Key |-> NoTransfer]
    /\ stream = <<>>
    /\ open = TRUE
    /\ stranded = {}
    /\ data = [s \in Slot |-> Junk]
    /\ header = [s \in NvmeSlot |-> NoFile]

-----------------------------------------------------------------------------

IsPending(k) == pending[k] # NoTransfer

SourceTier(offload) == IF offload THEN "GPU" ELSE "CPU"
DestinationTier(offload) == IF offload THEN "CPU" ELSE "GPU"
DestinationState(t) == IF t = "GPU" THEN "LOADING" ELSE "COPYING"

LocationOf(k, t) ==
    [slot |-> replica[k][t].slot, generation |-> replica[k][t].generation]

\* Chunk k can be copied from tier src to tier dst: what begin_offload,
\* begin_onload, offload and onload ask for.
Copyable(k, src, dst) == k \in registered /\ IsReady(k, src) /\ ~Has(k, dst)

\* BUG VARIANT: the source stays READY while it is read.
InTransitSourceReady(k, src, dst, s) ==
    replica' = [replica EXCEPT ![k][dst] = FreshReplica(s, DestinationState(dst))]

\* Both replicas of a copy under way, which remove refuses to touch.
InTransit(k, src, dst, s) ==
    replica' = [replica EXCEPT ![k] =
        [@ EXCEPT ![src].state = "COPYING",
                  ![dst] = FreshReplica(s, DestinationState(dst))]]

\* The destination was placed and, after an error, removed again: its slot
\* has left the list and come back to its head with a new generation, and
\* what it contains is anybody's guess.
PlacedInVain(dst, s) ==
    /\ s \in Next_(dst)
    /\ gen' = [gen EXCEPT ![s] = @ + 1]
    /\ data' = [data EXCEPT ![s] = Junk]
    /\ UNCHANGED <<registered, replica, refs, pins, free, listVars, header>>

-----------------------------------------------------------------------------
(* GpuCpuTransfer                                                          *)

MayBegin(k, offload) ==
    /\ open /\ ~IsPending(k)
    /\ Copyable(k, SourceTier(offload), DestinationTier(offload))

\* BUG VARIANT: the chunk is not pinned.
BeginUnpinned(k, offload, s) ==
    /\ MayBegin(k, offload)
    /\ s \in Next_(DestinationTier(offload))
    /\ TakeSlot(s) /\ Relink(s, NoSlot)
    /\ InTransit(k, SourceTier(offload), DestinationTier(offload), s)
    /\ pending' = [pending EXCEPT ![k] =
            [offload |-> offload, done |-> "pending",
             source |-> LocationOf(k, SourceTier(offload)),
             destination |-> [slot |-> s, generation |-> gen[s] + 1]]]
    /\ stream' = Append(stream, k)
    /\ data' = [data EXCEPT ![s] = Junk]
    /\ UNCHANGED <<registered, refs, pins, open, stranded, header>>

Begin(k, offload, s) ==
    /\ MayBegin(k, offload)
    /\ s \in Next_(DestinationTier(offload))
    /\ TakeSlot(s) /\ Relink(s, NoSlot)
    /\ InTransit(k, SourceTier(offload), DestinationTier(offload), s)
    /\ pins' = [pins EXCEPT ![k] = @ + 1]
    /\ pending' = [pending EXCEPT ![k] =
            [offload |-> offload, done |-> "pending",
             source |-> LocationOf(k, SourceTier(offload)),
             destination |-> [slot |-> s, generation |-> gen[s] + 1]]]
    /\ stream' = Append(stream, k)
    /\ data' = [data EXCEPT ![s] = Junk]
    /\ UNCHANGED <<registered, refs, open, stranded, header>>

\* A CUDA call fails after place.  The roll-back drains the stream, takes the
\* destination away and makes the source READY again.
BeginRolledBack(k, offload, s) ==
    /\ "cuda" \in Fault
    /\ MayBegin(k, offload)
    /\ stream = <<>>
    /\ PlacedInVain(DestinationTier(offload), s)
    /\ UNCHANGED xferVars

\* place finds the generation of the slot exhausted; the roll-back succeeds.
BeginLosesSlot(k, offload) ==
    /\ MayBegin(k, offload)
    /\ stream = <<>>
    /\ LoseSlot(DestinationTier(offload))
    /\ UNCHANGED <<registered, replica, refs, pins, xferVars, storeVars>>

\* The roll-back throws where it drains the stream: the source stays COPYING,
\* and so does the destination if there is one; no pin, no entry in pending_.
BeginStrands(k, offload) ==
    LET src == SourceTier(offload)  dst == DestinationTier(offload) IN
    /\ "sync" \in Fault
    /\ MayBegin(k, offload)
    /\ stranded' = stranded \cup {k}
    /\ \/ /\ Empty(dst) \/ Exhausted(dst)
          /\ replica' = [replica EXCEPT ![k][src].state = "COPYING"]
          /\ IF Exhausted(dst) THEN LoseSlot(dst)
             ELSE UNCHANGED <<gen, free, listVars>>
          /\ UNCHANGED data
       \/ /\ "cuda" \in Fault
          /\ \E s \in Next_(dst) :
                /\ TakeSlot(s) /\ Relink(s, NoSlot)
                /\ InTransit(k, src, dst, s)
                /\ data' = [data EXCEPT ![s] = Junk]
    /\ UNCHANGED <<registered, refs, pins, pending, stream, open, header>>

\* BUG VARIANT: finish does not wait for the event of the chunk.
CopyIssued(k) == pending[k].done # "error"

CopyDone(k) == pending[k].done = "ok"

\* The replicas are where begin left them.
Unmodified(k) ==
    LET p == pending[k] IN
    /\ Has(k, SourceTier(p.offload)) /\ Has(k, DestinationTier(p.offload))
    /\ p.source = LocationOf(k, SourceTier(p.offload))
    /\ p.destination = LocationOf(k, DestinationTier(p.offload))

\* BUG VARIANT: the source is released and the destination left as it is.
SettleForgettingDestination(k, src, dst, release) ==
    IF release
    THEN /\ replica' = [replica EXCEPT ![k][src] = NoReplica]
         /\ free' = free \cup {replica[k][src].slot}
         /\ Relink(NoSlot, replica[k][src].slot)
         /\ data' = [data EXCEPT ![replica[k][src].slot] = Junk]
    ELSE /\ replica' = [replica EXCEPT ![k] =
                [@ EXCEPT ![src].state = "READY", ![dst].state = "READY"]]
         /\ UNCHANGED <<free, listVars, data>>

\* Both replicas READY; then the source is removed if the caller wants so.
Settle(k, src, dst, release) ==
    IF release
    THEN /\ replica' = [replica EXCEPT ![k] =
                [@ EXCEPT ![src] = NoReplica, ![dst].state = "READY"]]
         /\ free' = free \cup {replica[k][src].slot}
         /\ Relink(NoSlot, replica[k][src].slot)
         /\ data' = [data EXCEPT ![replica[k][src].slot] = Junk]
    ELSE /\ replica' = [replica EXCEPT ![k] =
                [@ EXCEPT ![src].state = "READY", ![dst].state = "READY"]]
         /\ UNCHANGED <<free, listVars, data>>

\* finish_offload and finish_onload.  While the event is not done the call
\* waits; when the copy has failed it throws and changes nothing, each time.
Finish(k, offload, release) ==
    /\ open /\ IsPending(k)
    /\ pending[k].offload = offload
    /\ CopyDone(k)
    /\ Unmodified(k)
    /\ Settle(k, SourceTier(offload), DestinationTier(offload), release)
    /\ pins' = [pins EXCEPT ![k] = @ - 1]
    /\ pending' = [pending EXCEPT ![k] = NoTransfer]
    /\ UNCHANGED <<registered, refs, gen, stream, open, stranded, header>>

\* The destructor destroys the events of what is still pending and, with the
\* stream, waits for the copies.  Nobody will finish those transfers.
DestroyTransfers ==
    /\ open /\ stream = <<>>
    /\ open' = FALSE
    /\ stranded' = stranded \cup {k \in Key : IsPending(k)}
    /\ pending' = [k \in Key |-> NoTransfer]
    /\ UNCHANGED <<tierVars, stream, storeVars>>

\* The device makes the next copy of the stream.
DeviceCopies ==
    /\ stream # <<>>
    /\ stream' = Tail(stream)
    /\ LET k == Head(stream) IN
        \/ /\ pending' = [pending EXCEPT ![k].done = "ok"]
           /\ data' = [data EXCEPT ![pending[k].destination.slot] =
                                data[pending[k].source.slot]]
        \/ /\ "cuda" \in Fault
           /\ pending' = [pending EXCEPT ![k].done = "error"]
           /\ UNCHANGED data
    /\ UNCHANGED <<tierVars, open, stranded, header>>

-----------------------------------------------------------------------------
(* NvmeTransfer                                                            *)

\* offload: the file is written and published, then the replicas settle.
NvmeOffload(k, s, release) ==
    LET r == replica[k]["CPU"] IN
    /\ Copyable(k, "CPU", "NVME")
    /\ s \in Next_("NVME")
    /\ replica' = [replica EXCEPT ![k] =
            [@ EXCEPT !["NVME"] = FreshReplica(s, "READY"),
                      !["CPU"] = IF release THEN NoReplica ELSE r]]
    /\ gen' = [gen EXCEPT ![s] = @ + 1]
    /\ free' = (free \ {s}) \cup (IF release THEN {r.slot} ELSE {})
    /\ Relink(s, IF release THEN r.slot ELSE NoSlot)
    /\ data' = [data EXCEPT ![s] = data[r.slot],
                            ![r.slot] = IF release THEN Junk ELSE @]
    /\ header' = [header EXCEPT ![s] = k]
    /\ UNCHANGED <<registered, refs, pins, xferVars>>

\* The published file of the replica is there and names the chunk.
FileServes(k) == header[replica[k]["NVME"].slot] = k

\* onload; a release erases the file first, and when that throws the
\* replica stays.
NvmeOnload(k, s, release) ==
    LET r == replica[k]["NVME"]  n == r.slot IN
    /\ Copyable(k, "NVME", "CPU")
    /\ s \in Next_("CPU")
    /\ FileServes(k)
    /\ replica' = [replica EXCEPT ![k] =
            [@ EXCEPT !["CPU"] = FreshReplica(s, "READY"),
                      !["NVME"] = IF release THEN NoReplica ELSE r]]
    /\ gen' = [gen EXCEPT ![s] = @ + 1]
    /\ free' = (free \ {s}) \cup (IF release THEN {n} ELSE {})
    /\ Relink(s, IF release THEN n ELSE NoSlot)
    /\ data' = [data EXCEPT ![s] = data[n], ![n] = IF release THEN Junk ELSE @]
    /\ header' = IF release THEN [header EXCEPT ![n] = NoFile] ELSE header
    /\ UNCHANGED <<registered, refs, pins, xferVars>>

NvmeOnloadEraseThrows(k, s) == "unlink" \in Fault /\ NvmeOnload(k, s, FALSE)

\* The store throws in write or read, or finds no file: the destination is
\* removed and the source READY again.
NvmeFails(k, src, dst, s) ==
    /\ Copyable(k, src, dst)
    /\ "io" \in Fault \/ (src = "NVME" /\ ~FileServes(k))
    /\ IF dst = "CPU"
       THEN PlacedInVain(dst, s)
       ELSE /\ s \in Next_(dst)
            /\ gen' = [gen EXCEPT ![s] = @ + 1]
            /\ UNCHANGED <<registered, replica, refs, pins, free, listVars, storeVars>>
    /\ UNCHANGED xferVars

NvmeLosesSlot(k, src, dst) ==
    /\ Copyable(k, src, dst)
    /\ LoseSlot(dst)
    /\ UNCHANGED <<registered, replica, refs, pins, xferVars, storeVars>>

-----------------------------------------------------------------------------
(* What the caller does with the directory and the store in between.  It   *)
(* unpins only what it pinned and leaves the replicas of a running or      *)
(* stranded transfer alone.                                                *)

CallerFrame == UNCHANGED xferVars

CallerFills(k, t, s) ==
    /\ t \in {"GPU", "CPU"}
    /\ \A u \in Tier : ~Has(k, u)
    /\ PlaceLinked(k, t, s, "READY")
    /\ data' = [data EXCEPT ![s] = k]
    /\ CallerFrame /\ UNCHANGED header

\* place on its own may find an exhausted slot as well.
CallerLosesSlot(k, t) ==
    /\ k \in registered /\ ~Has(k, t)
    /\ LoseSlot(t)
    /\ CallerFrame /\ UNCHANGED <<registered, replica, refs, pins, storeVars>>

\* Erasing the file of an NVMe replica is a call of its own, which the caller
\* may or may not make.
CallerRemoves(k, t) ==
    /\ RemoveLinked(k, t)
    /\ \/ UNCHANGED header
       \/ /\ t = "NVME"
          /\ header' = [header EXCEPT ![replica[k][t].slot] = NoFile]
    /\ data' = [data EXCEPT ![replica[k][t].slot] = Junk]
    /\ CallerFrame

\* The caller gives a replica up without removing it yet.
CallerCondemns(k, t) ==
    /\ IsReady(k, t)
    /\ SetState(k, t, "ERROR")
    /\ CallerFrame /\ UNCHANGED <<listVars, storeVars>>

CallerPins(k) == IF IsPending(k) THEN pins[k] - 1 ELSE pins[k]

\* Bound: the caller holds one chunk at a time.
CallerHoldsNone == \A k \in Key : refs[k] = 0 /\ CallerPins(k) = 0

CallerCounts(k) ==
    /\ \/ Create(k) \/ Destroy(k)
       \/ CallerHoldsNone /\ (AddRef(k) \/ Pin(k))
       \/ ReleaseRef(k)
       \/ CallerPins(k) > 0 /\ Unpin(k)
    /\ CallerFrame /\ UNCHANGED <<listVars, storeVars>>

FileLost(n) ==
    /\ "lost" \in Fault
    /\ header[n] # NoFile
    /\ header' = [header EXCEPT ![n] = NoFile]
    /\ CallerFrame /\ UNCHANGED <<tierVars, data>>

-----------------------------------------------------------------------------

GpuNext ==
    \E k \in Key, offload \in BOOLEAN :
        \/ BeginLosesSlot(k, offload) \/ BeginStrands(k, offload)
        \/ \E release \in BOOLEAN : Finish(k, offload, release)
        \/ \E s \in Slot : Begin(k, offload, s) \/ BeginRolledBack(k, offload, s)

NvmeNext ==
    \E k \in Key :
        \/ NvmeLosesSlot(k, "CPU", "NVME") \/ NvmeLosesSlot(k, "NVME", "CPU")
        \/ \E s \in Slot :
            \/ NvmeFails(k, "CPU", "NVME", s) \/ NvmeFails(k, "NVME", "CPU", s)
            \/ NvmeOnloadEraseThrows(k, s)
            \/ \E release \in BOOLEAN : NvmeOffload(k, s, release) \/ NvmeOnload(k, s, release)

CallerNext ==
    \E k \in Key :
        \/ CallerCounts(k)
        \/ \E t \in Tier :
            \/ CallerRemoves(k, t) \/ CallerCondemns(k, t) \/ CallerLosesSlot(k, t)
            \/ \E s \in Slot : CallerFills(k, t, s)

Next ==
    \/ GpuNext \/ NvmeNext \/ CallerNext
    \/ DeviceCopies \/ DestroyTransfers
    \/ \E n \in NvmeSlot : FileLost(n)

Spec == Init /\ [][Next]_vars

-----------------------------------------------------------------------------
(* Properties.                                                             *)

InStream(k) == \E i \in DOMAIN stream : stream[i] = k

\* The slots between which the device will copy, now or later, still belong
\* to the chunk of the copy, and remove refuses to give them away
\* (gpu_cpu_transfer.h:14-15): whatever finishes, fails, is lost or removed
\* meanwhile, no copy lands in a slot that has changed hands.
TransfersOwnTheirSlots ==
    \A k \in Key : IsPending(k) =>
        LET src == SourceTier(pending[k].offload)
            dst == DestinationTier(pending[k].offload) IN
        /\ Unmodified(k)
        /\ ~Removable(k, src) /\ ~Removable(k, dst)
        /\ ~Destroyable(k)
        /\ InStream(k) <=> pending[k].done = "pending"

\* begin either registers a transfer whole or leaves no trace of it: a
\* replica in transit has its entry in pending_ and its pin, and nothing else
\* does (v3_gpu_cpu_offloading.md:41-42, "no half-registered state").  What is
\* really left behind is named: a stranded chunk.
NothingHalfRegistered ==
    \A k \in Key :
        /\ IsPending(k) => k \in registered /\ pins[k] > 0
        /\ (\E t \in Tier : Has(k, t) /\ replica[k][t].state \in {"COPYING", "LOADING"})
           <=> IsPending(k) \/ k \in stranded
        /\ ~(IsPending(k) /\ k \in stranded)

\* A READY replica holds the bytes of its chunk, in every tier, and the file
\* of an NVMe replica names it or has been lost: no transfer announces READY
\* before its copy is made, or for the copy of another chunk.
ReadyHoldsItsBytes ==
    \A k \in Key, t \in Tier : IsReady(k, t) =>
        /\ data[replica[k][t].slot] = k
        /\ t = "NVME" => header[replica[k][t].slot] \in {k, NoFile}

\* The chunk can be read from tier t, or a transfer is reading it there.
Readable(k, t) ==
    \/ IsReady(k, t)
    \/ IsPending(k) /\ t = SourceTier(pending[k].offload)

Residency(k) == INSTANCE ChunkResidency WITH
    copies <- {t \in Tier : Readable(k, t)},
    moving <-
        IF IsPending(k)
        THEN [from |-> SourceTier(pending[k].offload),
              to   |-> DestinationTier(pending[k].offload)]
        ELSE Still,
    given <- k \in stranded

\* The transfers keep the promise of ChunkResidency for every chunk, that is
\* \A k \in Key : Residency(k)!ResSpec: a copy is given up only when the next
\* has arrived (finish, and offload and onload of NvmeTransfer).
ResidencyImplemented ==
    /\ \A k \in Key : Residency(k)!ResInit
    /\ [][\A k \in Key : [Residency(k)!ResNext]_(Residency(k)!resVars)]_vars
=============================================================================
