-------------------------- MODULE MigrationManager --------------------------
(***************************************************************************)
(* The asynchronous migration engine of v3 over the CacheDirectory.        *)
(*                                                                         *)
(* One owner thread submits, polls, waits for and cancels tasks and makes  *)
(* every change to the directory.  A task between GPU and CPU is a copy on *)
(* the transfer stream followed by an event; a task between CPU and NVMe   *)
(* goes through a queue to a pool of I/O workers, which read and write     *)
(* chunk files and host slots and never touch the directory.               *)
(*                                                                         *)
(* A step of the owner is a call, except that wait and cancel are cut      *)
(* where they take or release io_mu_, because a worker may run there.  A   *)
(* step of a worker is one of: take a task (under io_mu_), look at         *)
(* cancel_requested, do the I/O and publish io_result, notify.             *)
(*                                                                         *)
(* The content of a slot is abstracted to the chunk whose bytes it holds.  *)
(***************************************************************************)
EXTENDS CacheDirectory, Integers

CONSTANTS
    Worker,     \* the I/O threads
    Priority,   \* priorities the caller gives its tasks
    MaxTasks,   \* bound: calls of submit that get as far as taking an id
    Fault,      \* which of FaultKind the environment may produce
    OwnerCall,  \* which of CallKind the owner makes, besides submit and poll
    NoTask,     \* an id that names no task
    Junk,       \* bytes of no chunk: fresh, half copied or failed memory
    NoFile      \* no published file for a slot

\* "dma": a copy fails; "sync": draining the stream reports an error;
\* "io": a read or a write of a file fails; "unlink": a published file cannot
\* be removed; "spent": the caller's own place finds an exhausted slot.
FaultKind == {"dma", "sync", "io", "unlink", "spent"}

CallKind == {"wait", "cancel", "destroy"}

TaskId == 1..MaxTasks

ASSUME ManagerConstants ==
    /\ MaxTasks \in Nat
    /\ Priority \subseteq Nat
    /\ Fault \subseteq FaultKind
    /\ OwnerCall \subseteq CallKind

Task == [key : Key, source : Tier, destination : Tier,
         srcLoc : Location, dstLoc : Location, priority : Priority]

ASSUME SentinelsAreFresh ==
    /\ NoTask \notin TaskId /\ NoTask \notin Task
    /\ Junk \notin Key /\ NoFile \notin Key

VARIABLES
    nextId,     \* next_id_
    task,       \* task[i]: the fixed fields of a task, or NoTask
    state,      \* state[i]: Task::state, "NONE" before the task exists
    cancelReq,  \* Task::cancel_requested
    ioResult,   \* Task::io_result
    event,      \* Task::done as the device sees it
    queue,      \* io_queue_: ids not yet taken by a worker
    wpc, wid,   \* where each worker is, and the task it holds
    opc, oid,   \* where the owner is inside wait or cancel, and for which task
    closing,    \* progress of the destructor
    unvisited,  \* the tasks its loop over tasks_ has not come to yet
    data,       \* data[s]: the chunk whose bytes are in slot s (file payload for NVMe)
    header      \* header[s]: the chunk named in the published file s, or NoFile

taskVars == <<nextId, task, state, cancelReq, ioResult, event, queue>>
workerVars == <<wpc, wid>>
ownerVars == <<opc, oid, closing, unvisited>>
storeVars == <<data, header>>
vars == <<dirVars, taskVars, workerVars, ownerVars, storeVars>>

-----------------------------------------------------------------------------

LiveState == {"QUEUED", "RUNNING"}
FinalState == {"COMPLETED", "FAILED", "CANCELLED"}

Live(i) == state[i] \in LiveState
Final(i) == state[i] \in FinalState

UsesCuda(src, dst) == "GPU" \in {src, dst}
IsCuda(i) == UsesCuda(task[i].source, task[i].destination)

\* Only the CPU tier is linked to both of the others.
Linked(src, dst) == src # dst /\ "CPU" \in {src, dst}

Init ==
    /\ DirInit
    /\ nextId = 1
    /\ task = [i \in TaskId |-> NoTask]
    /\ state = [i \in TaskId |-> "NONE"]
    /\ cancelReq = [i \in TaskId |-> FALSE]
    /\ ioResult = [i \in TaskId |-> 0]
    /\ event = [i \in TaskId |-> "none"]
    /\ queue = {}
    /\ wpc = [w \in Worker |-> "idle"]
    /\ wid = [w \in Worker |-> NoTask]
    /\ opc = "idle"
    /\ oid = NoTask
    /\ closing = "open"
    /\ unvisited = {}
    /\ data = [s \in Slot |-> Junk]
    /\ header = [s \in NvmeSlot |-> NoFile]

OwnerReady == opc = "idle" /\ closing = "open"

\* io_mu_ is held across a step only by an owner that has evaluated the
\* predicate of a wait and has not yet gone to sleep.
LockFree == opc # "hold"

-----------------------------------------------------------------------------
(* submit                                                                  *)

\* BUG VARIANT: a replica that is being filled or read by another task will do.
AnySource(k, src, dst) == Linked(src, dst) /\ Has(k, src)

ReadySource(k, src, dst) == Linked(src, dst) /\ IsReady(k, src)

Submittable(k, src, dst) ==
    /\ OwnerReady
    /\ nextId \in TaskId
    /\ k \in registered
    /\ ReadySource(k, src, dst)
    /\ \A t \in Tier \ {src} : ~ReadySource(k, t, dst)
    /\ ~Has(k, dst)

DestinationState(dst) == IF dst = "GPU" THEN "LOADING" ELSE "COPYING"

LocationOf(k, t) ==
    [slot |-> replica[k][t].slot, generation |-> replica[k][t].generation]

Reserve(k, src, dst, s) ==
    /\ TakeSlot(s)
    /\ replica' = [replica EXCEPT ![k] =
            [@ EXCEPT ![src].state = "COPYING",
                      ![dst] = FreshReplica(s, DestinationState(dst))]]
    /\ pins' = [pins EXCEPT ![k] = @ + 1]
    /\ UNCHANGED <<registered, refs>>

Submit(k, src, dst, s, p) ==
    /\ Submittable(k, src, dst)
    /\ s \in Available(dst)
    /\ Reserve(k, src, dst, s)
    /\ task' = [task EXCEPT ![nextId] =
            [key |-> k, source |-> src, destination |-> dst, priority |-> p,
             srcLoc |-> LocationOf(k, src),
             dstLoc |-> [slot |-> s, generation |-> gen[s] + 1]]]
    /\ nextId' = nextId + 1
    /\ IF UsesCuda(src, dst)
       THEN /\ state' = [state EXCEPT ![nextId] = "RUNNING"]
            /\ event' = [event EXCEPT ![nextId] = "pending"]
            /\ data' = [data EXCEPT ![s] = Junk]
            /\ UNCHANGED queue
       ELSE /\ state' = [state EXCEPT ![nextId] = "QUEUED"]
            /\ queue' = queue \cup {nextId}
            /\ UNCHANGED <<event, data>>
    /\ UNCHANGED <<cancelReq, ioResult, workerVars, ownerVars, header>>

StreamDrained == \A i \in TaskId : event[i] # "pending"

\* place throws and loses no slot: rollback_submit drains the stream, finds
\* nothing placed and makes the source READY again.  Only the id is spent.
SubmitNoCapacity(k, src, dst) ==
    /\ Submittable(k, src, dst)
    /\ AllocateMayRefuse(dst)
    /\ StreamDrained
    /\ nextId' = nextId + 1
    /\ UNCHANGED <<dirVars, task, state, cancelReq, ioResult, event, queue,
                   workerVars, ownerVars, storeVars>>

\* The same when place throws overflow_error: the slot stays lost.
SubmitLosesSlot(k, src, dst, s) ==
    /\ Submittable(k, src, dst)
    /\ PlaceLosesSlot(k, dst, s)
    /\ StreamDrained
    /\ nextId' = nextId + 1
    /\ UNCHANGED <<task, state, cancelReq, ioResult, event, queue,
                   workerVars, ownerVars, storeVars>>

\* A CUDA call fails after place and pin: rollback_submit drains the stream,
\* then takes the destination away again.  The copy may or may not have been
\* issued; the slot keeps its new generation.
SubmitRolledBack(k, src, dst, s) ==
    /\ "dma" \in Fault
    /\ Submittable(k, src, dst)
    /\ UsesCuda(src, dst)
    /\ s \in Available(dst)
    /\ StreamDrained
    /\ nextId' = nextId + 1
    /\ gen' = [gen EXCEPT ![s] = @ + 1]
    /\ data' = [data EXCEPT ![s] = Junk]
    /\ UNCHANGED <<registered, replica, refs, pins, free,
                   task, state, cancelReq, ioResult, event, queue,
                   workerVars, ownerVars, header>>

\* rollback_submit itself throws where it drains the stream: whatever submit
\* had done by then stays, and no task exists that could undo it.
SubmitRollbackThrows(k, src, dst) ==
    /\ "sync" \in Fault
    /\ Submittable(k, src, dst)
    /\ nextId' = nextId + 1
    /\ \/ /\ \/ AllocateMayRefuse(dst) /\ UNCHANGED free
             \/ dst \in SlotTier /\ \E s \in Spent(dst) : free' = free \ {s}
          /\ replica' = [replica EXCEPT ![k][src].state = "COPYING"]
          /\ UNCHANGED <<registered, refs, pins, gen, data>>
       \/ /\ "dma" \in Fault /\ UsesCuda(src, dst)
          /\ \E s \in Available(dst) :
                /\ Reserve(k, src, dst, s)
                /\ data' = [data EXCEPT ![s] = Junk]
    /\ UNCHANGED <<task, state, cancelReq, ioResult, event, queue,
                   workerVars, ownerVars, header>>

-----------------------------------------------------------------------------
(* Finishing a task: finalize, finalize_cancelled and the failure path of  *)
(* poll.  Each leaves nextId, the fixed fields and the workers alone.      *)

Key_(i) == task[i].key
Src(i) == task[i].source
Dst(i) == task[i].destination
DstSlot(i) == task[i].dstLoc.slot

Complete(i) ==
    /\ replica' = [replica EXCEPT ![Key_(i)] =
            [@ EXCEPT ![Dst(i)].state = "READY", ![Src(i)].state = "READY"]]
    /\ pins' = [pins EXCEPT ![Key_(i)] = @ - 1]
    /\ state' = [state EXCEPT ![i] = "COMPLETED"]
    /\ UNCHANGED <<free, header>>

\* BUG VARIANT: the source replica is not made READY again.
DiscardForgettingSource(i, final) ==
    /\ free' = free \cup {replica[Key_(i)][Dst(i)].slot}
    /\ replica' = [replica EXCEPT ![Key_(i)][Dst(i)] = NoReplica]
    /\ pins' = [pins EXCEPT ![Key_(i)] = @ - 1]
    /\ state' = [state EXCEPT ![i] = final]

\* set_state(ERROR), remove, set_state(READY), unpin.
Discard(i, final) ==
    /\ free' = free \cup {replica[Key_(i)][Dst(i)].slot}
    /\ replica' = [replica EXCEPT ![Key_(i)] =
            [@ EXCEPT ![Dst(i)] = NoReplica, ![Src(i)].state = "READY"]]
    /\ pins' = [pins EXCEPT ![Key_(i)] = @ - 1]
    /\ state' = [state EXCEPT ![i] = final]

PublishedFile(i) == Dst(i) = "NVME" /\ header[DstSlot(i)] # NoFile

EraseThrows(i) == "unlink" \in Fault /\ PublishedFile(i)

\* A published file of the destination is erased first; when that throws,
\* nothing of the rest is done.
FinalizeCancelled(i) ==
    /\ Discard(i, "CANCELLED")
    /\ header' = IF PublishedFile(i)
                 THEN [header EXCEPT ![DstSlot(i)] = NoFile]
                 ELSE header

\* BUG VARIANT: a cancellation recorded while the operation ran is ignored.
FinalizeIgnoringCancel(i) == Complete(i)

Finalize(i) == IF cancelReq[i] THEN FinalizeCancelled(i) ELSE Complete(i)

Fail(i) == Discard(i, "FAILED") /\ UNCHANGED header

\* BUG VARIANT: a copy is taken for finished as soon as it is enqueued.
OperationOkEarly(i) ==
    IF IsCuda(i) THEN event[i] \in {"pending", "ok"} ELSE ioResult[i] = 1

OperationOk(i) == IF IsCuda(i) THEN event[i] = "ok" ELSE ioResult[i] = 1

OperationFailed(i) == IF IsCuda(i) THEN event[i] = "error" ELSE ioResult[i] = -1

Conclude(i) ==
    /\ state[i] = "RUNNING"
    /\ \/ OperationOk(i) /\ Finalize(i)
       \/ OperationFailed(i) /\ Fail(i)
    /\ UNCHANGED <<registered, refs, gen, nextId, task, cancelReq, ioResult,
                   event, queue, workerVars, closing, unvisited, data>>

\* A cancelled task whose operation is done cannot be finished: the erase
\* throws, out of poll, and the task stays RUNNING.
ConcludeThrows(i) ==
    state[i] = "RUNNING" /\ cancelReq[i] /\ OperationOk(i) /\ EraseThrows(i)

\* A poll of a task that is not RUNNING, or whose operation is not done, or
\* that throws, changes nothing and is not a step.
Poll(i) ==
    /\ OwnerReady
    /\ Conclude(i)
    /\ UNCHANGED <<opc, oid>>

-----------------------------------------------------------------------------
(* wait                                                                    *)

\* The owner enters wait or cancel on its own account, or from the
\* destructor, which cancels every live task and then waits for every task,
\* each of them once and in any order: tasks_ is a hash table.
MayWait(i) ==
    /\ opc = "idle"
    /\ Live(i)
    /\ \/ closing = "open" /\ "wait" \in OwnerCall
       \/ closing = "wait" /\ i \in unvisited

WaitCall(i) ==
    /\ MayWait(i)
    /\ opc' = "waitLoop" /\ oid' = i
    /\ unvisited' = unvisited \ {i}
    /\ UNCHANGED <<dirVars, taskVars, workerVars, closing, storeVars>>

\* The predicate of either condition wait, evaluated under io_mu_, is false.
WaitHold(i) ==
    /\ opc = "waitLoop" /\ oid = i
    /\ Live(i) /\ ~IsCuda(i)
    /\ ioResult[i] = 0
    /\ opc' = "hold"
    /\ UNCHANGED <<dirVars, taskVars, workerVars, oid, closing, unvisited, storeVars>>

\* The condition variable releases io_mu_ and puts the owner to sleep.
WaitSleep ==
    /\ opc = "hold"
    /\ opc' = "asleep"
    /\ UNCHANGED <<dirVars, taskVars, workerVars, oid, closing, unvisited, storeVars>>

\* The operation is done: wait ends through poll.
WaitConclude(i) ==
    /\ opc = "waitLoop" /\ oid = i
    /\ Conclude(i)
    /\ ~(IsCuda(i) /\ OperationFailed(i))
    /\ opc' = "idle" /\ oid' = NoTask

\* cudaEventSynchronize reports an error and wait throws without a call of
\* poll; or poll throws.
WaitThrows(i) ==
    /\ opc = "waitLoop" /\ oid = i
    /\ \/ state[i] = "RUNNING" /\ IsCuda(i) /\ OperationFailed(i)
       \/ ConcludeThrows(i)
    /\ opc' = "idle" /\ oid' = NoTask
    /\ UNCHANGED <<dirVars, taskVars, workerVars, closing, unvisited, storeVars>>

\* The condition variable may wake its waiter without a notification.
SpuriousWakeup ==
    /\ opc = "asleep"
    /\ opc' = "waitLoop"
    /\ UNCHANGED <<dirVars, taskVars, workerVars, oid, closing, unvisited, storeVars>>

-----------------------------------------------------------------------------
(* cancel                                                                  *)

MayCancel(i) ==
    /\ opc = "idle"
    /\ Live(i)
    /\ \/ closing = "open" /\ "cancel" \in OwnerCall
       \/ closing = "cancel" /\ i \in unvisited

CancelCall(i) ==
    /\ MayCancel(i)
    /\ opc' = "cancelLoop" /\ oid' = i
    /\ unvisited' = unvisited \ {i}
    /\ UNCHANGED <<dirVars, taskVars, workerVars, closing, storeVars>>

\* The request is recorded.  For a RUNNING task that is all.
CancelRequest(i) ==
    /\ opc = "cancelLoop" /\ oid = i
    /\ Live(i)
    /\ cancelReq' = [cancelReq EXCEPT ![i] = TRUE]
    /\ IF state[i] = "RUNNING"
       THEN opc' = "idle" /\ oid' = NoTask
       ELSE opc' = "cancelQueue" /\ UNCHANGED oid
    /\ UNCHANGED <<dirVars, nextId, task, state, ioResult, event, queue,
                   workerVars, closing, unvisited, storeVars>>

\* BUG VARIANT: the cancelled task is left in the queue.
CancelKeepingQueued(i) ==
    /\ opc = "cancelQueue" /\ oid = i
    /\ i \in queue
    /\ FinalizeCancelled(i)
    /\ opc' = "idle" /\ oid' = NoTask
    /\ UNCHANGED <<registered, refs, gen, nextId, task, cancelReq, ioResult,
                   event, queue, workerVars, closing, unvisited, data>>

\* Still in the queue: taken out of it and finished as cancelled.
CancelDequeue(i) ==
    /\ opc = "cancelQueue" /\ oid = i
    /\ i \in queue
    /\ queue' = queue \ {i}
    /\ FinalizeCancelled(i)
    /\ opc' = "idle" /\ oid' = NoTask
    /\ UNCHANGED <<registered, refs, gen, nextId, task, cancelReq, ioResult,
                   event, workerVars, closing, unvisited, data>>

\* The same, but the erase of a published file throws: the task is out of
\* the queue and nothing else has happened.  Thrown inside the destructor,
\* which is noexcept, it ends the process and with it the behaviour.
CancelDequeueThrows(i) ==
    /\ opc = "cancelQueue" /\ oid = i
    /\ closing = "open"
    /\ i \in queue
    /\ EraseThrows(i)
    /\ queue' = queue \ {i}
    /\ opc' = "idle" /\ oid' = NoTask
    /\ UNCHANGED <<dirVars, nextId, task, state, cancelReq, ioResult, event,
                   workerVars, closing, unvisited, storeVars>>

\* A worker was faster: look at the state again.  (For a task that an earlier
\* cancel has left QUEUED and in no queue this goes on for ever.)
CancelRetry(i) ==
    /\ opc = "cancelQueue" /\ oid = i
    /\ i \notin queue
    /\ opc' = "cancelLoop"
    /\ UNCHANGED <<dirVars, taskVars, workerVars, oid, closing, unvisited, storeVars>>

-----------------------------------------------------------------------------
(* The I/O workers and the device.                                         *)

Better(i, j) ==
    \/ task[i].priority > task[j].priority
    \/ task[i].priority = task[j].priority /\ i < j

Best(i) == \A j \in queue \ {i} : Better(i, j)

Take(w, i) ==
    /\ wpc[w] = "idle" /\ LockFree
    /\ i \in queue /\ Best(i)
    /\ queue' = queue \ {i}
    /\ state' = [state EXCEPT ![i] = "RUNNING"]
    /\ wpc' = [wpc EXCEPT ![w] = "taken"]
    /\ wid' = [wid EXCEPT ![w] = i]
    /\ UNCHANGED <<dirVars, nextId, task, cancelReq, ioResult, event,
                   ownerVars, storeVars>>

\* BUG VARIANT: a cancelled task is dropped without reporting a result.
SkipSilently(w) ==
    /\ wpc[w] = "taken" /\ cancelReq[wid[w]]
    /\ wpc' = [wpc EXCEPT ![w] = "notify"]
    /\ UNCHANGED <<dirVars, taskVars, wid, ownerVars, storeVars>>

SkipCancelled(w) ==
    /\ wpc[w] = "taken" /\ cancelReq[wid[w]]
    /\ ioResult' = [ioResult EXCEPT ![wid[w]] = 1]
    /\ wpc' = [wpc EXCEPT ![w] = "notify"]
    /\ UNCHANGED <<dirVars, nextId, task, state, cancelReq, event, queue, wid,
                   ownerVars, storeVars>>

\* A read fills the host slot from here on; a write goes to a temporary file.
StartIo(w) ==
    /\ wpc[w] = "taken" /\ ~cancelReq[wid[w]]
    /\ wpc' = [wpc EXCEPT ![w] = "io"]
    /\ data' = IF Dst(wid[w]) = "CPU"
               THEN [data EXCEPT ![DstSlot(wid[w])] = Junk]
               ELSE data
    /\ UNCHANGED <<dirVars, taskVars, wid, ownerVars, header>>

\* The file a read opens is there and names the chunk of the task.
FileServes(i) == header[task[i].srcLoc.slot] = Key_(i)

FinishIo(w, result) ==
    /\ ioResult' = [ioResult EXCEPT ![wid[w]] = result]
    /\ wpc' = [wpc EXCEPT ![w] = "notify"]
    /\ UNCHANGED <<dirVars, nextId, task, state, cancelReq, event, queue, wid,
                   ownerVars>>

\* ChunkFileStore::write publishes header and payload in one rename.
WriteFile(w) ==
    LET i == wid[w] IN
    /\ wpc[w] = "io" /\ Dst(i) = "NVME"
    /\ data' = [data EXCEPT ![DstSlot(i)] = data[task[i].srcLoc.slot]]
    /\ header' = [header EXCEPT ![DstSlot(i)] = Key_(i)]
    /\ FinishIo(w, 1)

ReadFile(w) ==
    LET i == wid[w] IN
    /\ wpc[w] = "io" /\ Dst(i) = "CPU"
    /\ FileServes(i)
    /\ data' = [data EXCEPT ![DstSlot(i)] = data[task[i].srcLoc.slot]]
    /\ FinishIo(w, 1)
    /\ UNCHANGED header

\* do_io throws: a quota, a system call, a missing or a foreign file.
IoThrows(w) ==
    LET i == wid[w] IN
    /\ wpc[w] = "io"
    /\ "io" \in Fault \/ (Dst(i) = "CPU" /\ ~FileServes(i))
    /\ FinishIo(w, -1)
    /\ UNCHANGED storeVars

Io(w) == WriteFile(w) \/ ReadFile(w) \/ IoThrows(w)

\* notify_all without io_mu_: only an owner that is already asleep wakes.
Notify(w) ==
    /\ wpc[w] = "notify"
    /\ wpc' = [wpc EXCEPT ![w] = "idle"]
    /\ wid' = [wid EXCEPT ![w] = NoTask]
    /\ opc' = IF opc = "asleep" THEN "waitLoop" ELSE opc
    /\ UNCHANGED <<dirVars, taskVars, oid, closing, unvisited, storeVars>>

\* The copies of one stream complete in the order of submission.
DmaDone(i) ==
    /\ event[i] = "pending"
    /\ \A j \in TaskId : j < i => event[j] # "pending"
    /\ \/ /\ event' = [event EXCEPT ![i] = "ok"]
          /\ data' = [data EXCEPT ![DstSlot(i)] = data[task[i].srcLoc.slot]]
       \/ /\ "dma" \in Fault
          /\ event' = [event EXCEPT ![i] = "error"]
          /\ UNCHANGED data
    /\ UNCHANGED <<dirVars, nextId, task, state, cancelReq, ioResult, queue,
                   workerVars, ownerVars, header>>

-----------------------------------------------------------------------------
(* The destructor.                                                         *)

BeginDestroy ==
    /\ OwnerReady
    /\ "destroy" \in OwnerCall
    /\ closing' = "cancel" /\ unvisited' = TaskId
    /\ UNCHANGED <<dirVars, taskVars, workerVars, opc, oid, storeVars>>

\* The loop over tasks_ is over.  cancel is not called for a task that has
\* ended, and wait returns from it at once.
VisitedAll == \A i \in unvisited : ~Live(i)

DestroyWaits ==
    /\ closing = "cancel" /\ opc = "idle"
    /\ VisitedAll
    /\ closing' = "wait" /\ unvisited' = TaskId
    /\ UNCHANGED <<dirVars, taskVars, workerVars, opc, oid, storeVars>>

\* BUG VARIANT: the destructor stops the workers without waiting for tasks.
WaitedForAllSkipped == TRUE

\* Every wait has returned, or has thrown: whatever it throws is swallowed.
WaitedForAll == VisitedAll

DestroyStops ==
    /\ closing = "wait" /\ opc = "idle"
    /\ WaitedForAll
    /\ closing' = "stop"
    /\ UNCHANGED <<dirVars, taskVars, workerVars, opc, oid, unvisited, storeVars>>

WorkerExit(w) ==
    /\ closing = "stop"
    /\ wpc[w] = "idle" /\ queue = {}
    /\ wpc' = [wpc EXCEPT ![w] = "exited"]
    /\ UNCHANGED <<dirVars, taskVars, wid, ownerVars, storeVars>>

DestroyEnds ==
    /\ closing = "stop"
    /\ \A w \in Worker : wpc[w] = "exited"
    /\ closing' = "destroyed"
    /\ UNCHANGED <<dirVars, taskVars, workerVars, opc, oid, unvisited, storeVars>>

-----------------------------------------------------------------------------
(* What the caller does with the directory between its calls.              *)

CallerFrame == UNCHANGED <<taskVars, workerVars, ownerVars>>

CallerCreates(k) ==
    OwnerReady /\ Create(k) /\ CallerFrame /\ UNCHANGED storeVars

\* A new chunk is computed on the GPU or arrives in host memory.
CallerFills(k, t, s) ==
    /\ OwnerReady
    /\ t \in {"GPU", "CPU"}
    /\ \A u \in Tier : ~Has(k, u)
    /\ Place(k, t, s, "READY")
    /\ data' = [data EXCEPT ![s] = k]
    /\ CallerFrame /\ UNCHANGED header

\* Its place may lose a slot as well.
CallerLosesSlot(k, s) ==
    /\ "spent" \in Fault
    /\ OwnerReady
    /\ \A u \in Tier : ~Has(k, u)
    /\ PlaceLosesSlot(k, "CPU", s)
    /\ CallerFrame /\ UNCHANGED storeVars

\* A copy the caller no longer wants.  The file of an NVMe replica is a
\* separate call to the store, which the caller may or may not make.
CallerRemoves(k, t) ==
    /\ OwnerReady
    /\ Remove(k, t)
    /\ \/ UNCHANGED header
       \/ /\ t = "NVME"
          /\ header' = [header EXCEPT ![replica[k][t].slot] = NoFile]
    /\ CallerFrame /\ UNCHANGED data

CallerDestroys(k) ==
    OwnerReady /\ Destroy(k) /\ CallerFrame /\ UNCHANGED storeVars

-----------------------------------------------------------------------------

CallerNext ==
    \E k \in Key :
        \/ CallerCreates(k) \/ CallerDestroys(k)
        \/ \E t \in Tier : CallerRemoves(k, t)
        \/ \E s \in Slot : CallerLosesSlot(k, s)
        \/ \E t \in Tier, s \in Slot : CallerFills(k, t, s)

SubmitNext ==
    \E k \in Key, src, dst \in Tier :
        \/ SubmitNoCapacity(k, src, dst)
        \/ SubmitRollbackThrows(k, src, dst)
        \/ \E s \in Slot : SubmitLosesSlot(k, src, dst, s) \/ SubmitRolledBack(k, src, dst, s)
        \/ \E s \in Slot, p \in Priority : Submit(k, src, dst, s, p)

WaitNext ==
    \/ WaitSleep \/ SpuriousWakeup
    \/ \E i \in TaskId : WaitCall(i) \/ WaitHold(i) \/ WaitConclude(i) \/ WaitThrows(i)

CancelNext ==
    \E i \in TaskId :
        \/ CancelCall(i) \/ CancelRequest(i) \/ CancelDequeue(i)
        \/ CancelDequeueThrows(i) \/ CancelRetry(i)

DestroyNext == BeginDestroy \/ DestroyWaits \/ DestroyStops \/ DestroyEnds

WorkerNext(w) ==
    \/ \E i \in TaskId : Take(w, i)
    \/ SkipCancelled(w) \/ StartIo(w) \/ Io(w) \/ Notify(w) \/ WorkerExit(w)

Next ==
    \/ CallerNext \/ SubmitNext
    \/ \E i \in TaskId : Poll(i) \/ DmaDone(i)
    \/ WaitNext \/ CancelNext \/ DestroyNext
    \/ \E w \in Worker : WorkerNext(w)

Spec == Init /\ [][Next]_vars

-----------------------------------------------------------------------------
(* Fairness: the threads that run keep running, the device finishes what   *)
(* was enqueued, an owner inside a call goes on with it.  A condition      *)
(* variable owes nobody a spurious wakeup, and nothing obliges the owner   *)
(* to call anything.                                                       *)

MachineFairness ==
    /\ \A w \in Worker : WF_vars(WorkerNext(w))
    /\ \A i \in TaskId : WF_vars(DmaDone(i))
    /\ WF_vars(\E i \in TaskId : CancelRequest(i) \/ CancelRetry(i)
                                  \/ CancelDequeue(i) \/ CancelDequeueThrows(i))
    /\ WF_vars(WaitSleep)
    /\ WF_vars(\E i \in TaskId : WaitHold(i) \/ WaitConclude(i) \/ WaitThrows(i))

WaitingSpec == Spec /\ MachineFairness

\* An owner that, between its other calls, polls each of its tasks again and
\* again: the loop the class is written for.  Fairness is strong because a
\* poll is possible only between the other calls.
PollingSpec == WaitingSpec /\ \A i \in TaskId : SF_vars(Poll(i))

-----------------------------------------------------------------------------
(* Properties.                                                             *)

\* Every variable keeps its shape; in particular no unpin runs below zero.
TypeOK ==
    /\ DirTypeOK
    /\ nextId \in 1..(MaxTasks + 1)
    /\ task \in [TaskId -> Task \cup {NoTask}]
    /\ state \in [TaskId -> LiveState \cup FinalState \cup {"NONE"}]
    /\ cancelReq \in [TaskId -> BOOLEAN]
    /\ ioResult \in [TaskId -> {-1, 0, 1}]
    /\ event \in [TaskId -> {"none", "pending", "ok", "error"}]
    /\ queue \subseteq TaskId
    /\ wpc \in [Worker -> {"idle", "taken", "io", "notify", "exited"}]
    /\ wid \in [Worker -> TaskId \cup {NoTask}]
    /\ opc \in {"idle", "waitLoop", "hold", "asleep", "cancelLoop", "cancelQueue"}
    /\ oid \in TaskId \cup {NoTask}
    /\ closing \in {"open", "cancel", "wait", "stop", "destroyed"}
    /\ unvisited \subseteq TaskId
    /\ data \in [Slot -> Key \cup {Junk}]
    /\ header \in [NvmeSlot -> Key \cup {NoFile}]

At(k, t, loc, st) ==
    /\ Has(k, t)
    /\ replica[k][t] = [slot |-> loc.slot, generation |-> loc.generation, state |-> st]

\* While a task lives its chunk is registered and pinned and both replicas
\* are at the locations the task resolved when it was submitted, in a state
\* the directory refuses to remove (migration_manager.h, safety note).
Protected(i) ==
    /\ Key_(i) \in registered
    /\ pins[Key_(i)] = 1
    /\ Linked(Src(i), Dst(i))
    /\ At(Key_(i), Src(i), task[i].srcLoc, "COPYING")
    /\ At(Key_(i), Dst(i), task[i].dstLoc, DestinationState(Dst(i)))

TransfersProtected == \A i \in TaskId : Live(i) => Protected(i)

\* At most one live task per chunk: two would fight over the state of the
\* CPU replica they share.  Nothing in submit says so; it follows from the
\* READY source and the absent destination it asks for.
OneTaskPerChunk ==
    \A i, j \in TaskId : Live(i) /\ Live(j) /\ Key_(i) = Key_(j) => i = j

\* A worker that has taken a task, and a copy the device has not finished,
\* only ever touch slots their own chunk still holds, whatever was polled,
\* cancelled, destroyed or resubmitted meanwhile.
InProgress(i) ==
    \/ event[i] = "pending"
    \/ \E w \in Worker : wpc[w] \in {"taken", "io"} /\ wid[w] = i

OperationsOwnTheirSlots ==
    \A i \in TaskId : InProgress(i) =>
        /\ Holds(Key_(i), Src(i), task[i].srcLoc.slot)
        /\ Holds(Key_(i), Dst(i), task[i].dstLoc.slot)
        /\ ~Removable(Key_(i), Src(i)) /\ ~Removable(Key_(i), Dst(i))

\* A chunk no live task works on is left clean, however its tasks ended:
\* not pinned, every replica READY.
SettledChunksReady ==
    \A k \in Key :
        (\A i \in TaskId : Live(i) => Key_(i) # k)
        => pins[k] = 0 /\ \A t \in Tier : Has(k, t) => IsReady(k, t)

\* A READY replica holds the bytes of its chunk, and in the NVMe tier the
\* published file names it: READY is never announced early, nor for a
\* discarded, failed or foreign copy.
ReadyHoldsItsBytes ==
    \A k \in Key, t \in Tier : IsReady(k, t) =>
        /\ data[replica[k][t].slot] = k
        /\ t = "NVME" => header[replica[k][t].slot] = k

\* A task whose cancellation was accepted never publishes its destination.
CancelHonoured == \A i \in TaskId : cancelReq[i] => state[i] # "COMPLETED"

\* The tasks nothing more can be done about: wait throws each time.
LeftRunning(i) ==
    /\ state[i] = "RUNNING"
    /\ \/ event[i] = "error"
       \/ cancelReq[i] /\ ioResult[i] = 1 /\ PublishedFile(i)

\* When the destructor has returned, no task is queued and the device copies
\* into no buffer.  It swallows what wait throws, so it can leave a task
\* RUNNING, but only one whose copy failed or, cancelled after its file was
\* published, one whose file is still there because it could not be removed.
NothingOutlivesManager ==
    closing = "destroyed" =>
        /\ queue = {}
        /\ \A i \in TaskId : event[i] # "pending"
        /\ \A i \in TaskId : Live(i) => LeftRunning(i)

\* A final state is final: poll, wait, cancel and a late worker never move a
\* task out of it.
FinalStaysFinal ==
    [][\A i \in TaskId : Final(i) => state'[i] = state[i]]_vars

\* With an owner that polls, every task that was accepted ends, whatever
\* fails and however cancel races the workers.
EveryTaskEnds == \A i \in TaskId : Live(i) ~> Final(i)

Waiting == opc \in {"waitLoop", "hold", "asleep"}

\* wait blocks until the task is final (migration_manager.h:73): a call of
\* wait returns.
WaitReturns == Waiting ~> ~Waiting

\* cancel of a QUEUED task makes it CANCELLED at once (migration_manager.h:75).
CancelQueuedIsImmediate ==
    [][opc = "cancelQueue" /\ opc' = "idle" => state'[oid] = "CANCELLED"]_vars

\* wait blocks until the task is final (migration_manager.h:73): when wait
\* is over, the task is final.
WaitEndsTerminal ==
    [][Waiting /\ opc' = "idle" => state'[oid] \in FinalState]_vars
=============================================================================
