---------------------- MODULE MigrationManager_proofs ----------------------
(* Proofs about MigrationManager, for any number of chunks, slots, workers *)
(* and tasks and every combination of faults.                              *)
EXTENDS MigrationManager, TLAPS

\* A task that exists has its fixed fields, and its id has been given out.
TasksKnown ==
    \A i \in TaskId :
        /\ state[i] # "NONE" => task[i] \in Task
        /\ i >= nextId => state[i] = "NONE"

Holding(w) == wpc[w] \in {"taken", "io"}

\* Who may be working on a task: the device on a RUNNING copy, the queue on
\* a QUEUED one, exactly one worker on a RUNNING one without a result.
OperationsKnown ==
    /\ \A i \in TaskId :
        /\ event[i] = "pending" => state[i] = "RUNNING" /\ IsCuda(i)
        /\ i \in queue => state[i] = "QUEUED"
        /\ state[i] = "QUEUED" => ~IsCuda(i)
        /\ state[i] \in {"NONE", "QUEUED"} => ioResult[i] = 0
    /\ \A w \in Worker : Holding(w) =>
        /\ wid[w] \in TaskId
        /\ state[wid[w]] = "RUNNING"
        /\ ~IsCuda(wid[w])
        /\ ioResult[wid[w]] = 0
    /\ \A v, w \in Worker : Holding(v) /\ Holding(w) /\ wid[v] = wid[w] => v = w

\* A pin always stands for a migration whose CPU end is still being copied,
\* even when its submission failed half way: a chunk that can be submitted
\* is not pinned.
PinnedIsCopying ==
    \A k \in Key : pins[k] # 0 =>
        Has(k, "CPU") /\ replica[k]["CPU"].state = "COPYING"

\* The inductive invariant.  TransfersProtected needs OneTaskPerChunk (the
\* end of one task must not release the chunk of another), that needs the
\* states in TransfersProtected (a chunk in migration has no READY source),
\* and both need to know which tasks the workers and the device still hold.
MigrationInv ==
    /\ TypeOK
    /\ TasksKnown
    /\ TransfersProtected
    /\ OneTaskPerChunk
    /\ PinnedIsCopying
    /\ OperationsKnown

-----------------------------------------------------------------------------
(* Facts about the pieces.                                                 *)

\* Changing the state of a replica leaves a replica, in the same slot.
LEMMA ReplicaWithState ==
    ASSUME NEW r \in Replica, NEW st \in ChunkState
    PROVE  /\ [r EXCEPT !.state = st] \in Replica
           /\ [r EXCEPT !.state = st].slot = r.slot
           /\ [r EXCEPT !.state = st].generation = r.generation
           /\ [r EXCEPT !.state = st].state = st
BY DEF Replica

\* What a fresh replica is.
LEMMA FreshReplicaIs ==
    ASSUME DirTypeOK, NEW s \in Slot, NEW st \in ChunkState
    PROVE  /\ FreshReplica(s, st) \in Replica
           /\ FreshReplica(s, st) = [slot |-> s, generation |-> gen[s] + 1, state |-> st]
BY DEF DirTypeOK, FreshReplica, Replica

\* What the invariant says of a live task.
LEMMA LiveTask ==
    ASSUME MigrationInv, NEW i \in TaskId, Live(i)
    PROVE  /\ task[i] \in Task
           /\ Key_(i) \in Key /\ Src(i) \in Tier /\ Dst(i) \in Tier
           /\ task[i].srcLoc \in Location /\ task[i].dstLoc \in Location
           /\ DstSlot(i) \in Slot
           /\ Linked(Src(i), Dst(i))
           /\ Key_(i) \in registered /\ pins[Key_(i)] = 1
           /\ replica[Key_(i)][Src(i)] \in Replica
           /\ replica[Key_(i)][Dst(i)] \in Replica
           /\ replica[Key_(i)][Src(i)].state = "COPYING"
           /\ replica[Key_(i)][Dst(i)].state = DestinationState(Dst(i))
           /\ replica[Key_(i)][Src(i)].slot = task[i].srcLoc.slot
           /\ replica[Key_(i)][Dst(i)].slot = DstSlot(i)
<1>1. task[i] \in Task
  BY DEF MigrationInv, TasksKnown, Live, LiveState
<1>2. /\ Key_(i) \in Key /\ Src(i) \in Tier /\ Dst(i) \in Tier
      /\ task[i].srcLoc \in Location /\ task[i].dstLoc \in Location
  BY <1>1 DEF Task, Key_, Src, Dst
<1>3. DstSlot(i) \in Slot
  BY <1>2 DEF Location, DstSlot
<1>4. Protected(i)
  BY DEF MigrationInv, TransfersProtected
<1>5. /\ Linked(Src(i), Dst(i))
      /\ Key_(i) \in registered /\ pins[Key_(i)] = 1
      /\ At(Key_(i), Src(i), task[i].srcLoc, "COPYING")
      /\ At(Key_(i), Dst(i), task[i].dstLoc, DestinationState(Dst(i)))
  BY <1>4 DEF Protected
<1>6. /\ replica[Key_(i)][Src(i)] \in Replica
      /\ replica[Key_(i)][Dst(i)] \in Replica
  BY <1>2, <1>5 DEF At, Has, MigrationInv, TypeOK, DirTypeOK
<1> QED BY <1>1, <1>2, <1>3, <1>5, <1>6 DEF At, DstSlot

\* A chunk with a READY source for a linked destination it is not in has no
\* live task: such a task would hold its CPU replica in another state.
LEMMA SubmittableIsIdle ==
    ASSUME MigrationInv, NEW k \in Key, NEW src \in Tier, NEW dst \in Tier,
           Submittable(k, src, dst)
    PROVE  \A i \in TaskId : Live(i) => Key_(i) # k
<1> SUFFICES ASSUME NEW i \in TaskId, Live(i), Key_(i) = k PROVE FALSE
  OBVIOUS
<1>1. /\ Linked(Src(i), Dst(i))
      /\ Has(k, Src(i)) /\ replica[k][Src(i)].state = "COPYING"
      /\ Has(k, Dst(i)) /\ replica[k][Dst(i)].state \in {"COPYING", "LOADING"}
  BY LiveTask, NoReplicaIsNone DEF Has, DestinationState
<1>2. Linked(src, dst) /\ Has(k, src) /\ replica[k][src].state = "READY" /\ ~Has(k, dst)
  BY DEF Submittable, ReadySource, IsReady
<1>3. Has(k, "CPU") /\ replica[k]["CPU"].state # "READY"
  BY <1>1 DEF Linked
<1> QED BY <1>2, <1>3 DEF Linked

\* What the reservation made by submit leaves in the directory.
LEMMA ReserveStep ==
    ASSUME DirTypeOK, NEW k \in Key, NEW src \in Tier, NEW dst \in Tier, NEW s \in Slot,
           Linked(src, dst), Has(k, src),
           Reserve(k, src, dst, s)
    PROVE  /\ DirTypeOK'
           /\ registered' = registered
           /\ \A j \in Key : j # k => replica'[j] = replica[j] /\ pins'[j] = pins[j]
           /\ pins'[k] = pins[k] + 1
           /\ replica'[k][src] = [slot |-> replica[k][src].slot,
                                  generation |-> replica[k][src].generation,
                                  state |-> "COPYING"]
           /\ replica'[k][dst] = FreshReplica(s, DestinationState(dst))
<1> DEFINE f == FreshReplica(s, DestinationState(dst))
           r == replica[k][src]
<1>1. f \in Replica
  BY FreshReplicaIs DEF DestinationState, ChunkState
<1>2. r \in Replica
  BY DEF DirTypeOK, Has
<1>3. src # dst
  BY DEF Linked
<1>4. /\ [r EXCEPT !.state = "COPYING"] \in Replica
      /\ [r EXCEPT !.state = "COPYING"] =
            [slot |-> r.slot, generation |-> r.generation, state |-> "COPYING"]
  BY <1>2 DEF Replica, ChunkState
<1>5. replica' = [replica EXCEPT ![k] =
            [replica[k] EXCEPT ![src] = [r EXCEPT !.state = "COPYING"], ![dst] = f]]
  BY DEF Reserve
<1> HIDE DEF f, r
<1>6. /\ replica' \in [Key -> [Tier -> Replica \cup {NoReplica}]]
      /\ \A j \in Key : j # k => replica'[j] = replica[j]
      /\ replica'[k][src] = [r EXCEPT !.state = "COPYING"]
      /\ replica'[k][dst] = f
  BY <1>1, <1>3, <1>4, <1>5 DEF DirTypeOK
<1> QED BY <1>4, <1>6 DEF Reserve, TakeSlot, DirTypeOK, f, r

\* What finalize leaves in the directory.
LEMMA CompleteStep ==
    ASSUME MigrationInv, NEW i \in TaskId, Live(i), Complete(i),
           UNCHANGED <<registered, refs, gen>>
    PROVE  /\ DirTypeOK'
           /\ \A j \in Key : j # Key_(i) => replica'[j] = replica[j] /\ pins'[j] = pins[j]
<1> DEFINE k == Key_(i)
<1>1. /\ k \in Key /\ Src(i) \in Tier /\ Dst(i) \in Tier /\ Src(i) # Dst(i)
      /\ replica[k][Src(i)] \in Replica /\ replica[k][Dst(i)] \in Replica
      /\ pins[k] = 1
  BY LiveTask DEF Linked
<1> DEFINE a == [replica[k][Dst(i)] EXCEPT !.state = "READY"]
           b == [replica[k][Src(i)] EXCEPT !.state = "READY"]
<1>2. a \in Replica /\ b \in Replica
  BY <1>1, ReplicaWithState DEF ChunkState
<1>3. replica' = [replica EXCEPT ![k] =
            [replica[k] EXCEPT ![Dst(i)] = a, ![Src(i)] = b]]
  BY <1>1 DEF Complete, MigrationInv, TypeOK, DirTypeOK
<1>4. pins' = [pins EXCEPT ![k] = pins[k] - 1] /\ free' = free
  BY DEF Complete
<1>5. DirTypeOK
  BY DEF MigrationInv, TypeOK
<1> HIDE DEF a, b, k
<1>6. /\ replica' \in [Key -> [Tier -> Replica \cup {NoReplica}]]
      /\ \A j \in Key : j # k => replica'[j] = replica[j]
  BY <1>1, <1>2, <1>3, <1>5 DEF DirTypeOK
<1>7. pins' \in [Key -> Nat] /\ \A j \in Key : j # k => pins'[j] = pins[j]
  BY <1>1, <1>4, <1>5 DEF DirTypeOK
<1> QED BY <1>4, <1>5, <1>6, <1>7 DEF DirTypeOK, k

\* What a failed or cancelled task leaves in the directory.
LEMMA DiscardStep ==
    ASSUME MigrationInv, NEW i \in TaskId, Live(i), NEW final, Discard(i, final),
           UNCHANGED <<registered, refs, gen>>
    PROVE  /\ DirTypeOK'
           /\ \A j \in Key : j # Key_(i) => replica'[j] = replica[j] /\ pins'[j] = pins[j]
<1> DEFINE k == Key_(i)
<1>1. /\ k \in Key /\ Src(i) \in Tier /\ Dst(i) \in Tier /\ Src(i) # Dst(i)
      /\ replica[k][Src(i)] \in Replica /\ replica[k][Dst(i)] \in Replica
      /\ pins[k] = 1
  BY LiveTask DEF Linked
<1> DEFINE b == [replica[k][Src(i)] EXCEPT !.state = "READY"]
<1>2. b \in Replica
  BY <1>1, ReplicaWithState DEF ChunkState
<1>3. replica' = [replica EXCEPT ![k] =
            [replica[k] EXCEPT ![Dst(i)] = NoReplica, ![Src(i)] = b]]
  BY <1>1 DEF Discard, MigrationInv, TypeOK, DirTypeOK
<1>4. /\ pins' = [pins EXCEPT ![k] = pins[k] - 1]
      /\ free' = free \cup {replica[k][Dst(i)].slot}
  BY DEF Discard
<1>5. DirTypeOK
  BY DEF MigrationInv, TypeOK
<1> HIDE DEF b, k
<1>6. /\ replica' \in [Key -> [Tier -> Replica \cup {NoReplica}]]
      /\ \A j \in Key : j # k => replica'[j] = replica[j]
  BY <1>1, <1>2, <1>3, <1>5 DEF DirTypeOK
<1>7. pins' \in [Key -> Nat] /\ \A j \in Key : j # k => pins'[j] = pins[j]
  BY <1>1, <1>4, <1>5 DEF DirTypeOK
<1>8. free' \subseteq Slot
  BY <1>1, <1>4, <1>5 DEF DirTypeOK, Replica
<1> QED BY <1>5, <1>6, <1>7, <1>8 DEF DirTypeOK, k

-----------------------------------------------------------------------------
(* Type correctness.                                                       *)

\* The variables of the manager, without those of the directory.
LEMMA ConcludeType ==
    ASSUME MigrationInv, NEW i \in TaskId, Conclude(i),
           opc' \in {"idle"}, oid' \in {oid, NoTask}
    PROVE  TypeOK'
<1>1. Live(i)
  BY DEF Conclude, Live, LiveState
<1>2. TypeOK
  BY DEF MigrationInv
<1>3. /\ UNCHANGED <<registered, refs, gen, nextId, task, cancelReq, ioResult,
                     event, queue, wpc, wid, closing, unvisited, data>>
      /\ Complete(i) \/ (\E final \in FinalState : Discard(i, final))
      /\ header' = header \/ header' = [header EXCEPT ![DstSlot(i)] = NoFile]
  BY DEF Conclude, Finalize, FinalizeCancelled, Fail, Complete, FinalState, workerVars
<1>4. DirTypeOK'
  BY <1>1, <1>3, CompleteStep, DiscardStep
<1>5. state' \in [TaskId -> LiveState \cup FinalState \cup {"NONE"}]
  BY <1>2, <1>3 DEF TypeOK, Complete, Discard, FinalState
<1>6. header' \in [NvmeSlot -> Key \cup {NoFile}]
  BY <1>2, <1>3 DEF TypeOK
<1> QED BY <1>2, <1>3, <1>4, <1>5, <1>6 DEF TypeOK

\* What submit leaves in the fixed fields of its task is a task.
LEMMA SubmittedTask ==
    ASSUME MigrationInv, NEW k \in Key, NEW src \in Tier, NEW dst \in Tier,
           NEW s \in Slot, NEW p \in Priority, Submit(k, src, dst, s, p)
    PROVE  [key |-> k, source |-> src, destination |-> dst, priority |-> p,
            srcLoc |-> LocationOf(k, src),
            dstLoc |-> [slot |-> s, generation |-> gen[s] + 1]] \in Task
<1>1. replica[k][src] \in Replica
  BY DEF Submit, Submittable, ReadySource, IsReady, Has, MigrationInv, TypeOK, DirTypeOK
<1>2. LocationOf(k, src) \in Location
  BY <1>1 DEF LocationOf, Location, Replica
<1>3. gen[s] \in Nat
  BY DEF MigrationInv, TypeOK, DirTypeOK
<1>4. [slot |-> s, generation |-> gen[s] + 1] \in Location
  BY <1>3 DEF Location
<1> QED BY <1>2, <1>4 DEF Task

\* submit keeps the shape of the state.
LEMMA SubmitType ==
    ASSUME MigrationInv, SubmitNext
    PROVE  TypeOK'
<1> USE DEF MigrationInv
<1>1. PICK k \in Key, src \in Tier, dst \in Tier :
        \/ SubmitNoCapacity(k, src, dst)
        \/ SubmitRollbackThrows(k, src, dst)
        \/ \E s \in Slot : \/ SubmitLosesSlot(k, src, dst, s)
                           \/ SubmitRolledBack(k, src, dst, s)
        \/ \E s \in Slot, p \in Priority : Submit(k, src, dst, s, p)
  BY DEF SubmitNext
<1>2. Submittable(k, src, dst)
  BY <1>1 DEF SubmitNoCapacity, SubmitRollbackThrows, SubmitLosesSlot, SubmitRolledBack, Submit
<1>3. /\ nextId \in TaskId /\ nextId + 1 \in 1..(MaxTasks + 1)
      /\ Linked(src, dst) /\ Has(k, src) /\ replica[k][src] \in Replica
  BY <1>2, ManagerConstants
     DEF Submittable, ReadySource, IsReady, Has, TypeOK, DirTypeOK, TaskId
<1>4. CASE SubmitNoCapacity(k, src, dst)
  BY <1>3, <1>4 DEF SubmitNoCapacity, TypeOK, DirTypeOK, dirVars, workerVars,
                   ownerVars, storeVars
<1>5. ASSUME NEW s \in Slot, SubmitRolledBack(k, src, dst, s) PROVE TypeOK'
  BY <1>3, <1>5 DEF SubmitRolledBack, TypeOK, DirTypeOK, workerVars, ownerVars
<1>8. ASSUME NEW s \in Slot, SubmitLosesSlot(k, src, dst, s) PROVE TypeOK'
  BY <1>3, <1>8 DEF SubmitLosesSlot, PlaceLosesSlot, TypeOK, DirTypeOK, workerVars,
                   ownerVars, storeVars
<1>6. CASE SubmitRollbackThrows(k, src, dst)
  <2>1. DirTypeOK' /\ data' \in [Slot -> Key \cup {Junk}]
    <3>1. CASE \E s \in Available(dst) :
                  /\ Reserve(k, src, dst, s)
                  /\ data' = [data EXCEPT ![s] = Junk]
      BY <3>1, <1>3, ReserveStep DEF TypeOK, DirTypeOK, Available
    <3>2. CASE /\ replica' = [replica EXCEPT ![k][src].state = "COPYING"]
               /\ free' \subseteq free
               /\ UNCHANGED <<registered, refs, pins, gen, data>>
      BY <3>2, <1>3, ReplicaWithState DEF TypeOK, DirTypeOK, ChunkState
    <3> QED BY <3>1, <3>2, <1>6 DEF SubmitRollbackThrows
  <2>2. /\ nextId' = nextId + 1
        /\ UNCHANGED <<task, state, cancelReq, ioResult, event, queue,
                       wpc, wid, opc, oid, closing, unvisited,
                       header>>
    BY <1>6 DEF SubmitRollbackThrows, workerVars, ownerVars
  <2> QED BY <1>3, <2>1, <2>2 DEF TypeOK
<1>7. ASSUME NEW s \in Slot, NEW p \in Priority, Submit(k, src, dst, s, p)
      PROVE  TypeOK'
  <2>1. DirTypeOK'
    BY <1>3, <1>7, ReserveStep DEF Submit, TypeOK
  <2>2. task' \in [TaskId -> Task \cup {NoTask}]
    BY <1>3, <1>7, SubmittedTask DEF Submit, TypeOK
  <2>3. /\ state' \in [TaskId -> LiveState \cup FinalState \cup {"NONE"}]
        /\ event' \in [TaskId -> {"none", "pending", "ok", "error"}]
        /\ queue' \subseteq TaskId
        /\ data' \in [Slot -> Key \cup {Junk}]
    <3>1. \E st \in {"QUEUED", "RUNNING"} : state' = [state EXCEPT ![nextId] = st]
      BY <1>7 DEF Submit
    <3>2. event' = event \/ event' = [event EXCEPT ![nextId] = "pending"]
      BY <1>7 DEF Submit
    <3>3. queue' = queue \cup {nextId} \/ queue' = queue
      BY <1>7 DEF Submit
    <3>4. data' = data \/ data' = [data EXCEPT ![s] = Junk]
      BY <1>7 DEF Submit
    <3>5. state' \in [TaskId -> LiveState \cup FinalState \cup {"NONE"}]
      BY <1>3, <3>1 DEF TypeOK, LiveState
    <3>6. event' \in [TaskId -> {"none", "pending", "ok", "error"}]
      BY <1>3, <3>2 DEF TypeOK
    <3>7. queue' \subseteq TaskId /\ data' \in [Slot -> Key \cup {Junk}]
      BY <1>3, <3>3, <3>4 DEF TypeOK
    <3> QED BY <3>5, <3>6, <3>7
  <2>4. /\ nextId' = nextId + 1
        /\ UNCHANGED <<cancelReq, ioResult, wpc, wid, opc, oid, closing, unvisited,
                       header>>
    BY <1>7 DEF Submit, workerVars, ownerVars
  <2>5. nextId' \in 1..(MaxTasks + 1)
    BY <1>3, <2>4
  <2> QED BY <2>1, <2>2, <2>3, <2>4, <2>5 DEF TypeOK
<1> QED BY <1>1, <1>4, <1>5, <1>6, <1>7, <1>8

\* So does whatever the caller does to the directory and the store.
LEMMA CallerType ==
    ASSUME MigrationInv, CallerNext
    PROVE  TypeOK'
<1> USE DEF MigrationInv, CallerFrame, taskVars, workerVars, ownerVars, storeVars
<1>1. TypeOK
  OBVIOUS
<1>2. ASSUME NEW k \in Key, CallerCreates(k) \/ CallerDestroys(k) PROVE TypeOK'
  BY <1>1, <1>2 DEF CallerCreates, CallerDestroys, Create, Destroy, TypeOK, DirTypeOK
<1>3. ASSUME NEW k \in Key, NEW t \in Tier, CallerRemoves(k, t) PROVE TypeOK'
  <2>1. DirTypeOK'
    <3>1. replica[k][t] \in Replica
      BY <1>1, <1>3 DEF CallerRemoves, Remove, Removable, Has, TypeOK, DirTypeOK
    <3> QED BY <1>1, <1>3, <3>1
            DEF CallerRemoves, Remove, TypeOK, DirTypeOK, Replica
  <2> QED BY <1>1, <1>3, <2>1 DEF CallerRemoves, TypeOK
<1>4. ASSUME NEW k \in Key, NEW t \in Tier, NEW s \in Slot, CallerFills(k, t, s)
      PROVE TypeOK'
  <2>1. DirTypeOK'
    BY <1>1, <1>4, FreshReplicaIs
       DEF CallerFills, Place, TakeSlot, TypeOK, DirTypeOK, ChunkState
  <2> QED BY <1>1, <1>4, <2>1 DEF CallerFills, TypeOK
<1>5. ASSUME NEW k \in Key, NEW s \in Slot, CallerLosesSlot(k, s) PROVE TypeOK'
  BY <1>1, <1>5 DEF CallerLosesSlot, PlaceLosesSlot, TypeOK, DirTypeOK
<1> QED BY <1>2, <1>3, <1>4, <1>5 DEF CallerNext

\* So do the steps of wait, cancel and the destructor.
LEMMA OwnerType ==
    ASSUME MigrationInv, WaitNext \/ CancelNext \/ DestroyNext
    PROVE  TypeOK'
<1> USE DEF MigrationInv
<1>1. TypeOK
  OBVIOUS
<1>2. ASSUME NEW i \in TaskId, WaitConclude(i) PROVE TypeOK'
  BY <1>2, ConcludeType DEF WaitConclude
<1>3. ASSUME NEW i \in TaskId,
             \/ WaitCall(i) \/ WaitHold(i) \/ WaitThrows(i)
             \/ CancelCall(i) \/ CancelRetry(i)
      PROVE  TypeOK'
  BY <1>1, <1>3 DEF WaitCall, WaitHold, WaitThrows, CancelCall, CancelRetry,
       dirVars, taskVars, workerVars, storeVars, TypeOK, DirTypeOK
<1>4. ASSUME NEW i \in TaskId, CancelRequest(i) \/ CancelDequeueThrows(i)
      PROVE  TypeOK'
  BY <1>1, <1>4 DEF CancelRequest, CancelDequeueThrows, dirVars, workerVars, storeVars,
       TypeOK, DirTypeOK
<1>5. ASSUME NEW i \in TaskId, CancelDequeue(i) PROVE TypeOK'
  <2>1. /\ Discard(i, "CANCELLED")
        /\ header' = header \/ header' = [header EXCEPT ![DstSlot(i)] = NoFile]
        /\ queue' = queue \ {i}
        /\ opc' = "idle" /\ oid' = NoTask
        /\ UNCHANGED <<registered, refs, gen, nextId, task, cancelReq, ioResult,
                       event, wpc, wid, closing, unvisited, data>>
    BY <1>5 DEF CancelDequeue, FinalizeCancelled, workerVars
  <2>2. Live(i)
    BY <1>5 DEF CancelDequeue, OperationsKnown, Live, LiveState
  <2>3. DirTypeOK'
    BY <2>1, <2>2, DiscardStep
  <2>4. state' \in [TaskId -> LiveState \cup FinalState \cup {"NONE"}]
    BY <1>1, <2>1 DEF TypeOK, Discard, FinalState
  <2> QED BY <1>1, <2>1, <2>3, <2>4 DEF TypeOK
<1>6. CASE WaitSleep \/ SpuriousWakeup \/ DestroyNext
  BY <1>1, <1>6 DEF WaitSleep, SpuriousWakeup, DestroyNext, BeginDestroy, DestroyWaits,
       DestroyStops, DestroyEnds, dirVars, taskVars, workerVars, storeVars, TypeOK, DirTypeOK
<1> QED BY <1>2, <1>3, <1>4, <1>5, <1>6 DEF WaitNext, CancelNext

\* So do the workers, the device and the end of a poll.
LEMMA MachineType ==
    ASSUME MigrationInv,
           (\E i \in TaskId : DmaDone(i)) \/ (\E w \in Worker : WorkerNext(w))
    PROVE  TypeOK'
<1> USE DEF MigrationInv, dirVars, taskVars, workerVars, ownerVars, storeVars
<1>1. TypeOK
  OBVIOUS
<1>2. ASSUME NEW i \in TaskId, DmaDone(i) PROVE TypeOK'
  <2>1. Live(i)
    BY <1>2 DEF DmaDone, OperationsKnown, Live, LiveState
  <2>2. task[i].srcLoc.slot \in Slot
    BY <2>1, LiveTask DEF Location
  <2>3. data' \in [Slot -> Key \cup {Junk}]
    BY <1>1, <1>2, <2>2 DEF DmaDone, TypeOK
  <2>4. event' \in [TaskId -> {"none", "pending", "ok", "error"}]
    BY <1>1, <1>2 DEF DmaDone, TypeOK
  <2>5. UNCHANGED <<registered, replica, refs, pins, gen, free, nextId, task, state,
                    cancelReq, ioResult, queue, wpc, wid, opc, oid, closing, unvisited,
                       header>>
    BY <1>2 DEF DmaDone
  <2>6. DirTypeOK'
    BY <1>1, <2>5 DEF TypeOK, DirTypeOK
  <2> QED BY <1>1, <2>3, <2>4, <2>5, <2>6 DEF TypeOK
<1>3. ASSUME NEW w \in Worker, NEW i \in TaskId, Take(w, i) PROVE TypeOK'
  BY <1>1, <1>3 DEF Take, TypeOK, DirTypeOK, LiveState
<1>4. ASSUME NEW w \in Worker,
             SkipCancelled(w) \/ StartIo(w) \/ Notify(w) \/ WorkerExit(w)
      PROVE  TypeOK'
  <2>1. DirTypeOK'
    <3>1. UNCHANGED <<registered, replica, refs, pins, gen, free>>
      BY <1>4 DEF SkipCancelled, StartIo, Notify, WorkerExit
    <3> QED BY <1>1, <3>1 DEF TypeOK, DirTypeOK
  <2>2. CASE SkipCancelled(w)
    BY <1>1, <2>1, <2>2 DEF SkipCancelled, TypeOK
  <2>3. CASE StartIo(w)
    BY <1>1, <2>1, <2>3 DEF StartIo, TypeOK
  <2>4. CASE Notify(w)
    BY <1>1, <2>1, <2>4 DEF Notify, TypeOK
  <2>5. CASE WorkerExit(w)
    BY <1>1, <2>1, <2>5 DEF WorkerExit, TypeOK
  <2> QED BY <1>4, <2>2, <2>3, <2>4, <2>5
<1>5. ASSUME NEW w \in Worker, Io(w) PROVE TypeOK'
  <2> DEFINE i == wid[w]
  <2>1. i \in TaskId /\ Live(i)
    BY <1>5 DEF Io, WriteFile, ReadFile, IoThrows, OperationsKnown, Holding, Live, LiveState
  <2>2. task[i].srcLoc.slot \in Slot /\ Key_(i) \in Key
    BY <2>1, LiveTask DEF Location
  <2>3. /\ UNCHANGED <<registered, replica, refs, pins, gen, free, nextId, task, state,
                       cancelReq, event, queue, wid, opc, oid, closing,
                   unvisited>>
        /\ wpc' = [wpc EXCEPT ![w] = "notify"]
        /\ \E result \in {-1, 1} : ioResult' = [ioResult EXCEPT ![i] = result]
        /\ \/ data' = data
           \/ data' = [data EXCEPT ![DstSlot(i)] = data[task[i].srcLoc.slot]]
        /\ header' = header \/ header' = [header EXCEPT ![DstSlot(i)] = Key_(i)]
    <3>1. CASE WriteFile(w)
      BY <3>1 DEF WriteFile, FinishIo
    <3>2. CASE ReadFile(w)
      BY <3>2 DEF ReadFile, FinishIo
    <3>3. CASE IoThrows(w)
      BY <3>3 DEF IoThrows, FinishIo
    <3> QED BY <1>5, <3>1, <3>2, <3>3 DEF Io
  <2> HIDE DEF i
  <2>4. DirTypeOK'
    BY <1>1, <2>3 DEF TypeOK, DirTypeOK
  <2>5. wpc' \in [Worker -> {"idle", "taken", "io", "notify", "exited"}]
    BY <1>1, <2>3 DEF TypeOK
  <2>6. ioResult' \in [TaskId -> {-1, 0, 1}]
    BY <1>1, <2>3 DEF TypeOK
  <2>7. data' \in [Slot -> Key \cup {Junk}]
    BY <1>1, <2>2, <2>3 DEF TypeOK
  <2>8. header' \in [NvmeSlot -> Key \cup {NoFile}]
    BY <1>1, <2>2, <2>3 DEF TypeOK
  <2>9. UNCHANGED <<nextId, task, state, cancelReq, event, queue, wid, opc, oid, closing,
                   unvisited>>
    BY <2>3
  <2> QED BY <1>1, <2>4, <2>5, <2>6, <2>7, <2>8, <2>9 DEF TypeOK
<1> QED BY <1>2, <1>3, <1>4, <1>5 DEF WorkerNext

\* No step of the system breaks the shape of the state.
LEMMA TypeStep ==
    ASSUME MigrationInv, Next
    PROVE  TypeOK'
<1>1. ASSUME NEW i \in TaskId, Poll(i) PROVE TypeOK'
  BY <1>1, ConcludeType DEF Poll, OwnerReady
<1> QED BY <1>1, CallerType, SubmitType, OwnerType, MachineType DEF Next

-----------------------------------------------------------------------------
(* Who works on which task.                                                *)

\* An operation that ended is worked on by nobody, so its task may end.
LEMMA EndedOperationIsIdle ==
    ASSUME MigrationInv, NEW i \in TaskId, Conclude(i)
    PROVE  /\ event[i] # "pending"
           /\ i \notin queue
           /\ \A w \in Worker : Holding(w) => wid[w] # i
<1>1. OperationOk(i) \/ OperationFailed(i)
  BY DEF Conclude
<1>2. /\ event[i] = "pending" => IsCuda(i)
      /\ i \in queue => state[i] = "QUEUED"
      /\ \A w \in Worker : Holding(w) /\ wid[w] = i => ~IsCuda(i) /\ ioResult[i] = 0
  BY DEF MigrationInv, OperationsKnown
<1> QED BY <1>1, <1>2 DEF OperationOk, OperationFailed, Conclude

\* Ending a task keeps the book of operations.
LEMMA EndTaskOperations ==
    ASSUME MigrationInv, NEW i \in TaskId, NEW final \in FinalState,
           state' = [state EXCEPT ![i] = final],
           UNCHANGED <<nextId, task, event, ioResult, wpc, wid>>,
           queue' = queue \/ queue' = queue \ {i},
           state[i] \in LiveState,
           event[i] # "pending",
           i \notin queue',
           \A w \in Worker : Holding(w) => wid[w] # i
    PROVE  (TasksKnown /\ OperationsKnown)'
<1>1. state \in [TaskId -> LiveState \cup FinalState \cup {"NONE"}]
  BY DEF MigrationInv, TypeOK
<1>2. \A j \in TaskId : IsCuda(j)' = IsCuda(j)
  BY DEF IsCuda
<1>3. \A w \in Worker : Holding(w)' = Holding(w)
  BY DEF Holding
<1>4. TasksKnown'
  BY <1>1 DEF MigrationInv, TasksKnown, LiveState
<1>5. OperationsKnown'
  BY <1>1, <1>2, <1>3 DEF MigrationInv, OperationsKnown, FinalState
<1> QED BY <1>4, <1>5

\* finalize and its failures keep the book of operations.
LEMMA ConcludeOperations ==
    ASSUME MigrationInv, NEW i \in TaskId, Conclude(i)
    PROVE  (TasksKnown /\ OperationsKnown)'
<1>1. PICK final \in FinalState : state' = [state EXCEPT ![i] = final]
  BY DEF Conclude, Finalize, FinalizeCancelled, Fail, Complete, Discard, FinalState
<1>2. /\ UNCHANGED <<nextId, task, event, ioResult, queue, wpc, wid>>
      /\ state[i] \in LiveState
  BY DEF Conclude, workerVars, LiveState
<1> QED BY <1>1, <1>2, EndedOperationIsIdle, EndTaskOperations

\* submit starts an operation only for the task it has just made.
LEMMA SubmitOperations ==
    ASSUME MigrationInv, SubmitNext
    PROVE  (TasksKnown /\ OperationsKnown)'
<1>1. PICK k \in Key, src \in Tier, dst \in Tier :
        \/ SubmitNoCapacity(k, src, dst)
        \/ SubmitRollbackThrows(k, src, dst)
        \/ \E s \in Slot : \/ SubmitLosesSlot(k, src, dst, s)
                           \/ SubmitRolledBack(k, src, dst, s)
        \/ \E s \in Slot, p \in Priority : Submit(k, src, dst, s, p)
  BY DEF SubmitNext
<1>2. nextId \in TaskId
  BY <1>1 DEF SubmitNoCapacity, SubmitRollbackThrows, SubmitLosesSlot, SubmitRolledBack,
     Submit, Submittable
<1>3. TypeOK /\ TasksKnown /\ OperationsKnown /\ TaskId \subseteq Nat
  BY ManagerConstants DEF MigrationInv, TaskId
<1>4. state[nextId] = "NONE"
  BY <1>2, <1>3 DEF TasksKnown
<1>5. CASE \/ SubmitNoCapacity(k, src, dst)
           \/ SubmitRollbackThrows(k, src, dst)
           \/ \E s \in Slot : \/ SubmitLosesSlot(k, src, dst, s)
                              \/ SubmitRolledBack(k, src, dst, s)
  <2>1. /\ nextId' = nextId + 1
        /\ UNCHANGED <<task, state, event, ioResult, queue, wpc, wid>>
    BY <1>5 DEF SubmitNoCapacity, SubmitRollbackThrows, SubmitLosesSlot, SubmitRolledBack,
       workerVars
  <2>2. TasksKnown'
    BY <1>2, <1>3, <2>1 DEF TasksKnown
  <2>3. OperationsKnown'
    BY <1>3, <2>1 DEF OperationsKnown, IsCuda, Holding
  <2> QED BY <2>2, <2>3
<1>6. ASSUME NEW s \in Slot, NEW p \in Priority, Submit(k, src, dst, s, p)
      PROVE  (TasksKnown /\ OperationsKnown)'
  <2> DEFINE t == [key |-> k, source |-> src, destination |-> dst, priority |-> p,
                   srcLoc |-> LocationOf(k, src),
                   dstLoc |-> [slot |-> s, generation |-> gen[s] + 1]]
  <2>1. t \in Task /\ t.source = src /\ t.destination = dst
    BY <1>6, SubmittedTask
  <2>2. /\ task' = [task EXCEPT ![nextId] = t]
        /\ nextId' = nextId + 1
        /\ UNCHANGED <<ioResult, wpc, wid>>
        /\ \/ /\ UsesCuda(src, dst)
              /\ state' = [state EXCEPT ![nextId] = "RUNNING"]
              /\ event' = [event EXCEPT ![nextId] = "pending"]
              /\ queue' = queue
           \/ /\ ~UsesCuda(src, dst)
              /\ state' = [state EXCEPT ![nextId] = "QUEUED"]
              /\ queue' = queue \cup {nextId}
              /\ event' = event
    BY <1>6 DEF Submit, workerVars
  <2> HIDE DEF t
  <2>3. /\ task \in [TaskId -> Task \cup {NoTask}]
        /\ state \in [TaskId -> LiveState \cup FinalState \cup {"NONE"}]
        /\ event \in [TaskId -> {"none", "pending", "ok", "error"}]
    BY <1>3 DEF TypeOK
  <2>4. /\ task'[nextId] = t
        /\ \A j \in TaskId \ {nextId} :
              task'[j] = task[j] /\ state'[j] = state[j] /\ event'[j] = event[j]
        /\ state'[nextId] \in LiveState
    BY <1>2, <2>2, <2>3 DEF LiveState
  <2>5. \A j \in TaskId :
            IsCuda(j)' = IF j = nextId THEN UsesCuda(src, dst) ELSE IsCuda(j)
    BY <2>1, <2>4 DEF IsCuda
  <2>6. TasksKnown'
    BY <1>2, <1>3, <2>1, <2>2, <2>4, ManagerConstants DEF TasksKnown, TypeOK, TaskId
  <2>7. \A w \in Worker : Holding(w) => wid[w] # nextId
    BY <1>3, <1>4 DEF OperationsKnown
  <2>8. \A w \in Worker : Holding(w)' = Holding(w)
    BY <2>2 DEF Holding
  <2>9. ioResult[nextId] = 0 /\ event[nextId] # "pending" /\ nextId \notin queue
    BY <1>2, <1>3, <1>4 DEF OperationsKnown
  <2>10. OperationsKnown'
    <3>1. ASSUME NEW j \in TaskId
          PROVE  /\ event'[j] = "pending" => state'[j] = "RUNNING" /\ IsCuda(j)'
                 /\ j \in queue' => state'[j] = "QUEUED"
                 /\ state'[j] = "QUEUED" => ~IsCuda(j)'
                 /\ state'[j] \in {"NONE", "QUEUED"} => ioResult'[j] = 0
      <4>1. CASE j = nextId
        BY <1>2, <2>2, <2>3, <2>5, <2>9, <4>1
      <4>2. CASE j # nextId
        BY <1>3, <2>2, <2>4, <2>5, <4>2 DEF OperationsKnown
      <4> QED BY <4>1, <4>2
    <3>2. ASSUME NEW w \in Worker, Holding(w)'
          PROVE  /\ wid'[w] \in TaskId
                 /\ state'[wid'[w]] = "RUNNING"
                 /\ ~IsCuda(wid[w])'
                 /\ ioResult'[wid'[w]] = 0
      BY <1>3, <2>2, <2>4, <2>5, <2>7, <2>8, <3>2 DEF OperationsKnown
    <3>3. \A v, w \in Worker : Holding(v)' /\ Holding(w)' /\ wid'[v] = wid'[w] => v = w
      BY <1>3, <2>2, <2>8 DEF OperationsKnown
    <3> QED BY <3>1, <3>2, <3>3 DEF OperationsKnown
  <2> QED BY <2>6, <2>10
<1> QED BY <1>1, <1>5, <1>6

\* wait, cancel and the destructor keep the book of operations.
LEMMA OwnerOperations ==
    ASSUME MigrationInv, CallerNext \/ WaitNext \/ CancelNext \/ DestroyNext
    PROVE  (TasksKnown /\ OperationsKnown)'
<1>1. ASSUME UNCHANGED <<nextId, task, state, event, ioResult, queue, wpc, wid>>
      PROVE  (TasksKnown /\ OperationsKnown)'
  BY <1>1 DEF MigrationInv, TasksKnown, OperationsKnown, IsCuda, Holding
<1>2. CASE CallerNext
  BY <1>1, <1>2 DEF CallerNext, CallerCreates, CallerDestroys, CallerRemoves, CallerFills,
     CallerLosesSlot, PlaceLosesSlot, CallerFrame, taskVars, workerVars
<1>3. ASSUME NEW i \in TaskId, WaitConclude(i) PROVE (TasksKnown /\ OperationsKnown)'
  BY <1>3, ConcludeOperations DEF WaitConclude
<1>4. ASSUME NEW i \in TaskId, WaitCall(i) \/ WaitHold(i) \/ WaitThrows(i)
      PROVE  (TasksKnown /\ OperationsKnown)'
  BY <1>1, <1>4 DEF WaitCall, WaitHold, WaitThrows, taskVars, workerVars
<1>5. ASSUME NEW i \in TaskId, CancelCall(i) \/ CancelRetry(i) \/ CancelRequest(i)
      PROVE  (TasksKnown /\ OperationsKnown)'
  BY <1>1, <1>5 DEF CancelCall, CancelRetry, CancelRequest, taskVars, workerVars
<1>6. ASSUME NEW i \in TaskId, CancelDequeueThrows(i)
      PROVE  (TasksKnown /\ OperationsKnown)'
  BY <1>6 DEF CancelDequeueThrows, workerVars, MigrationInv, TasksKnown, OperationsKnown,
     IsCuda, Holding
<1>7. ASSUME NEW i \in TaskId, CancelDequeue(i)
      PROVE  (TasksKnown /\ OperationsKnown)'
  <2>1. /\ state[i] = "QUEUED" /\ event[i] # "pending"
        /\ \A w \in Worker : Holding(w) => wid[w] # i
    BY <1>7 DEF CancelDequeue, MigrationInv, OperationsKnown
  <2>2. /\ state' = [state EXCEPT ![i] = "CANCELLED"]
        /\ queue' = queue \ {i}
        /\ UNCHANGED <<nextId, task, event, ioResult, wpc, wid>>
    BY <1>7 DEF CancelDequeue, FinalizeCancelled, Discard, workerVars
  <2> QED BY <2>1, <2>2, EndTaskOperations DEF FinalState, LiveState
<1>8. CASE WaitSleep \/ SpuriousWakeup \/ DestroyNext
  BY <1>1, <1>8 DEF WaitSleep, SpuriousWakeup, DestroyNext, BeginDestroy, DestroyWaits,
     DestroyStops, DestroyEnds, taskVars, workerVars
<1> QED BY <1>2, <1>3, <1>4, <1>5, <1>6, <1>7, <1>8 DEF WaitNext, CancelNext

\* A worker that takes a task from the queue is the only one working on it.
LEMMA MachineOperations ==
    ASSUME MigrationInv,
           (\E i \in TaskId : DmaDone(i)) \/ (\E w \in Worker : WorkerNext(w))
    PROVE  (TasksKnown /\ OperationsKnown)'
<1> USE DEF taskVars, workerVars
<1>1. /\ TasksKnown /\ OperationsKnown
      /\ state \in [TaskId -> LiveState \cup FinalState \cup {"NONE"}]
      /\ event \in [TaskId -> {"none", "pending", "ok", "error"}]
      /\ ioResult \in [TaskId -> {-1, 0, 1}]
      /\ wpc \in [Worker -> {"idle", "taken", "io", "notify", "exited"}]
      /\ wid \in [Worker -> TaskId \cup {NoTask}]
      /\ queue \subseteq TaskId
  BY DEF MigrationInv, TypeOK
<1>2. ASSUME UNCHANGED <<nextId, task, state>> PROVE TasksKnown'
  BY <1>1, <1>2 DEF TasksKnown
<1>3. ASSUME NEW i \in TaskId, DmaDone(i) PROVE (TasksKnown /\ OperationsKnown)'
  BY <1>1, <1>2, <1>3 DEF DmaDone, OperationsKnown, IsCuda, Holding
<1>4. ASSUME NEW w \in Worker, NEW i \in TaskId, Take(w, i)
      PROVE  (TasksKnown /\ OperationsKnown)'
  <2>1. /\ state[i] = "QUEUED" /\ ~IsCuda(i) /\ ioResult[i] = 0
        /\ \A v \in Worker : Holding(v) => wid[v] # i
    BY <1>1, <1>4 DEF Take, OperationsKnown
  <2>2. /\ wpc[w] = "idle"
        /\ queue' = queue \ {i}
        /\ state' = [state EXCEPT ![i] = "RUNNING"]
        /\ wpc' = [wpc EXCEPT ![w] = "taken"]
        /\ wid' = [wid EXCEPT ![w] = i]
        /\ UNCHANGED <<nextId, task, event, ioResult>>
    BY <1>4 DEF Take
  <2>3. \A j \in TaskId : IsCuda(j)' = IsCuda(j)
    BY <2>2 DEF IsCuda
  <2>4. TasksKnown'
    BY <1>1, <2>1, <2>2 DEF TasksKnown
  <2>5. OperationsKnown'
    BY <1>1, <2>1, <2>2, <2>3 DEF OperationsKnown, Holding
  <2> QED BY <2>4, <2>5
<1>5. ASSUME NEW w \in Worker, StartIo(w) PROVE (TasksKnown /\ OperationsKnown)'
  BY <1>1, <1>2, <1>5 DEF StartIo, OperationsKnown, IsCuda, Holding
<1>6. ASSUME NEW w \in Worker, SkipCancelled(w) \/ Io(w)
      PROVE  (TasksKnown /\ OperationsKnown)'
  <2>1. PICK result \in {-1, 1} : ioResult' = [ioResult EXCEPT ![wid[w]] = result]
    BY <1>6 DEF SkipCancelled, Io, WriteFile, ReadFile, IoThrows, FinishIo
  <2>2. /\ Holding(w)
        /\ wpc' = [wpc EXCEPT ![w] = "notify"]
        /\ UNCHANGED <<nextId, task, state, event, queue, wid>>
    BY <1>6 DEF SkipCancelled, Io, WriteFile, ReadFile, IoThrows, FinishIo, Holding
  <2>3. \A j \in TaskId : IsCuda(j)' = IsCuda(j)
    BY <2>2 DEF IsCuda
  <2>4. \A v \in Worker : Holding(v)' => v # w /\ Holding(v) /\ wid[v] # wid[w]
    BY <1>1, <2>2 DEF Holding, OperationsKnown
  <2>5. wid[w] \in TaskId /\ state[wid[w]] = "RUNNING"
    BY <1>1, <2>2 DEF OperationsKnown
  <2>6. OperationsKnown'
    BY <1>1, <2>1, <2>2, <2>3, <2>4, <2>5 DEF OperationsKnown
  <2> QED BY <1>2, <2>2, <2>6
<1>7. ASSUME NEW w \in Worker, Notify(w) \/ WorkerExit(w)
      PROVE  (TasksKnown /\ OperationsKnown)'
  <2>1. /\ UNCHANGED <<nextId, task, state, event, queue, ioResult>>
        /\ \A v \in Worker : Holding(v)' => Holding(v) /\ wid'[v] = wid[v]
    BY <1>1, <1>7 DEF Notify, WorkerExit, Holding
  <2>2. \A j \in TaskId : IsCuda(j)' = IsCuda(j)
    BY <2>1 DEF IsCuda
  <2> QED BY <1>1, <1>2, <2>1, <2>2 DEF OperationsKnown
<1> QED BY <1>3, <1>4, <1>5, <1>6, <1>7 DEF WorkerNext

\* No step of the system loses track of who works on which task.
LEMMA OperationsStep ==
    ASSUME MigrationInv, Next
    PROVE  (TasksKnown /\ OperationsKnown)'
<1>1. ASSUME NEW i \in TaskId, Poll(i) PROVE (TasksKnown /\ OperationsKnown)'
  BY <1>1, ConcludeOperations DEF Poll
<1> QED BY <1>1, SubmitOperations, OwnerOperations, MachineOperations DEF Next

-----------------------------------------------------------------------------
(* The protection of the chunks that are being migrated.                   *)

\* A step that leaves the chunks of the live tasks alone and starts no task.
LEMMA UntouchedStayProtected ==
    ASSUME MigrationInv,
           \A j \in TaskId : Live(j)' =>
              /\ Live(j) /\ task'[j] = task[j]
              /\ Key_(j) \in registered'
              /\ pins'[Key_(j)] = pins[Key_(j)]
              /\ replica'[Key_(j)][Src(j)] = replica[Key_(j)][Src(j)]
              /\ replica'[Key_(j)][Dst(j)] = replica[Key_(j)][Dst(j)]
    PROVE  (TransfersProtected /\ OneTaskPerChunk)'
<1>1. \A j \in TaskId : Live(j)' =>
        Key_(j)' = Key_(j) /\ Src(j)' = Src(j) /\ Dst(j)' = Dst(j)
  BY DEF Key_, Src, Dst
<1>2. OneTaskPerChunk'
  BY <1>1 DEF MigrationInv, OneTaskPerChunk
<1>3. ASSUME NEW j \in TaskId, Live(j)' PROVE Protected(j)'
  <2>1. Protected(j)
    BY <1>3 DEF MigrationInv, TransfersProtected
  <2> QED BY <1>1, <1>3, <2>1 DEF Protected, At, Has
<1> QED BY <1>2, <1>3 DEF TransfersProtected

\* Ending a task touches no chunk but its own, and its own has no other task.
LEMMA EndedTaskStepProtects ==
    ASSUME MigrationInv, NEW i \in TaskId, Live(i),
           Complete(i) \/ (\E final \in FinalState : Discard(i, final)),
           UNCHANGED <<registered, refs, gen, task>>
    PROVE  (TransfersProtected /\ OneTaskPerChunk)'
<1>1. \A j \in Key : j # Key_(i) => replica'[j] = replica[j] /\ pins'[j] = pins[j]
  BY CompleteStep, DiscardStep
<1>2. PICK final \in FinalState : state' = [state EXCEPT ![i] = final]
  BY DEF Complete, Discard, FinalState
<1>3. \A j \in TaskId : Live(j)' => Live(j) /\ j # i
  BY <1>2 DEF MigrationInv, TypeOK, Live, LiveState, FinalState
<1>4. ASSUME NEW j \in TaskId, Live(j)'
      PROVE  Key_(j) # Key_(i) /\ Key_(j) \in Key /\ Key_(j) \in registered
  BY <1>3, <1>4, LiveTask DEF MigrationInv, OneTaskPerChunk
<1> QED BY <1>1, <1>3, <1>4, UntouchedStayProtected

\* submit takes a chunk that no live task has, and protects it.
LEMMA SubmitProtects ==
    ASSUME MigrationInv, SubmitNext
    PROVE  (TransfersProtected /\ OneTaskPerChunk)'
<1>1. PICK k \in Key, src \in Tier, dst \in Tier :
        \/ SubmitNoCapacity(k, src, dst)
        \/ SubmitRollbackThrows(k, src, dst)
        \/ \E s \in Slot : \/ SubmitLosesSlot(k, src, dst, s)
                           \/ SubmitRolledBack(k, src, dst, s)
        \/ \E s \in Slot, p \in Priority : Submit(k, src, dst, s, p)
  BY DEF SubmitNext
<1>2. Submittable(k, src, dst)
  BY <1>1 DEF SubmitNoCapacity, SubmitRollbackThrows, SubmitLosesSlot, SubmitRolledBack, Submit
<1>3. /\ \A j \in TaskId : Live(j) => Key_(j) # k /\ Key_(j) \in Key /\ Key_(j) \in registered
      /\ nextId \in TaskId /\ ~Live(nextId)
      /\ k \in registered /\ Linked(src, dst) /\ Has(k, src)
      /\ DirTypeOK
  <2>1. \A j \in TaskId : Live(j) => Key_(j) # k /\ Key_(j) \in Key /\ Key_(j) \in registered
    BY <1>2, SubmittableIsIdle, LiveTask
  <2>2. nextId \in TaskId /\ k \in registered /\ Linked(src, dst) /\ Has(k, src)
    BY <1>2 DEF Submittable, ReadySource, IsReady
  <2>3. ~Live(nextId)
    BY <2>2, ManagerConstants DEF MigrationInv, TasksKnown, Live, LiveState, TaskId
  <2> QED BY <2>1, <2>2, <2>3 DEF MigrationInv, TypeOK
<1>4. CASE \/ SubmitNoCapacity(k, src, dst)
           \/ \E s \in Slot : \/ SubmitLosesSlot(k, src, dst, s)
                              \/ SubmitRolledBack(k, src, dst, s)
  <2>1. UNCHANGED <<registered, replica, pins, task, state>>
    BY <1>4 DEF SubmitNoCapacity, SubmitLosesSlot, PlaceLosesSlot, SubmitRolledBack, dirVars
  <2> QED BY <1>3, <2>1, UntouchedStayProtected DEF Live
<1>5. CASE SubmitRollbackThrows(k, src, dst)
  <2>1. UNCHANGED <<registered, task, state>>
    BY <1>5 DEF SubmitRollbackThrows, Reserve
  <2>2. \A j \in Key : j # k => replica'[j] = replica[j] /\ pins'[j] = pins[j]
    BY <1>3, <1>5, ReserveStep DEF SubmitRollbackThrows, DirTypeOK, Available
  <2> QED BY <1>3, <2>1, <2>2, UntouchedStayProtected DEF Live
<1>6. ASSUME NEW s \in Slot, NEW p \in Priority, Submit(k, src, dst, s, p)
      PROVE  (TransfersProtected /\ OneTaskPerChunk)'
  <2> DEFINE n == nextId
             t == [key |-> k, source |-> src, destination |-> dst, priority |-> p,
                   srcLoc |-> LocationOf(k, src),
                   dstLoc |-> [slot |-> s, generation |-> gen[s] + 1]]
  <2>1. /\ registered' = registered
        /\ \A j \in Key : j # k => replica'[j] = replica[j] /\ pins'[j] = pins[j]
        /\ pins'[k] = pins[k] + 1
        /\ replica'[k][src] = [slot |-> replica[k][src].slot,
                               generation |-> replica[k][src].generation,
                               state |-> "COPYING"]
        /\ replica'[k][dst] = FreshReplica(s, DestinationState(dst))
    BY <1>3, <1>6, ReserveStep DEF Submit
  <2>2. /\ task' = [task EXCEPT ![n] = t]
        /\ \A j \in TaskId : j # n => state'[j] = state[j]
    BY <1>6 DEF Submit, MigrationInv, TypeOK
  <2>3. /\ t.key = k /\ t.source = src /\ t.destination = dst
        /\ t.srcLoc.slot = replica[k][src].slot
        /\ t.srcLoc.generation = replica[k][src].generation
        /\ t.dstLoc.slot = s /\ t.dstLoc.generation = gen[s] + 1
    BY DEF LocationOf
  <2> HIDE DEF t
  <2>4. /\ task'[n] = t
        /\ \A j \in TaskId : j # n => task'[j] = task[j]
    BY <1>3, <2>2 DEF MigrationInv, TypeOK
  <2>5. pins[k] = 0
    BY <1>2, NoReplicaIsNone
       DEF MigrationInv, PinnedIsCopying, Submittable, ReadySource, IsReady, Linked
  <2>6. OneTaskPerChunk'
    <3>1. \A j \in TaskId : j # n /\ Live(j)' => Live(j) /\ Key_(j)' = Key_(j) /\ Key_(j) # k
      BY <1>3, <2>2, <2>4 DEF Live, Key_
    <3>2. \A j \in TaskId : j = n => Key_(j)' = k
      BY <2>3, <2>4 DEF Key_
    <3> QED BY <3>1, <3>2 DEF OneTaskPerChunk, MigrationInv
  <2>7. TransfersProtected'
    <3>1. ASSUME NEW j \in TaskId, Live(j)', j # n PROVE Protected(j)'
      <4>1. /\ Live(j) /\ Key_(j) # k /\ Key_(j) \in Key
            /\ task'[j] = task[j]
        BY <1>3, <2>2, <2>4, <3>1 DEF Live
      <4>2. /\ Key_(j)' = Key_(j) /\ Src(j)' = Src(j) /\ Dst(j)' = Dst(j)
            /\ replica'[Key_(j)] = replica[Key_(j)] /\ pins'[Key_(j)] = pins[Key_(j)]
        BY <2>1, <4>1 DEF Key_, Src, Dst
      <4>3. Protected(j)
        BY <4>1 DEF MigrationInv, TransfersProtected
      <4> QED BY <2>1, <4>1, <4>2, <4>3 DEF Protected, At, Has
    <3>2. ASSUME NEW j \in TaskId, j = n PROVE Protected(j)'
      <4>1. /\ Key_(j)' = k /\ Src(j)' = src /\ Dst(j)' = dst
            /\ task'[j] = t
        BY <2>3, <2>4, <3>2 DEF Key_, Src, Dst
      <4>2. DestinationState(dst) \in ChunkState
        BY DEF DestinationState, ChunkState
      <4>3. /\ replica'[k][dst] \in Replica
            /\ replica'[k][dst] = [slot |-> s, generation |-> gen[s] + 1,
                                   state |-> DestinationState(dst)]
        BY <1>3, <2>1, <4>2, FreshReplicaIs
      <4>4. replica'[k][src] \in Replica
        BY <1>3, <2>1 DEF DirTypeOK, Has, Replica, ChunkState
      <4>5. pins'[k] = 1
        BY <2>1, <2>5
      <4> QED BY <1>3, <2>1, <2>3, <4>1, <4>3, <4>4, <4>5, NoReplicaIsNone
              DEF Protected, At, Has, DestinationState
    <3> QED BY <3>1, <3>2 DEF TransfersProtected
  <2> QED BY <2>6, <2>7
<1> QED BY <1>1, <1>4, <1>5, <1>6

\* The caller cannot take a chunk or a replica away from a live task.
LEMMA CallerProtects ==
    ASSUME MigrationInv, CallerNext
    PROVE  (TransfersProtected /\ OneTaskPerChunk)'
<1>1. task' = task /\ \A j \in TaskId : Live(j)' = Live(j)
  BY DEF CallerNext, CallerCreates, CallerDestroys, CallerRemoves, CallerFills,
     CallerLosesSlot, PlaceLosesSlot, CallerFrame, taskVars, Live
<1>2. \A j \in TaskId : Live(j) =>
        /\ Key_(j) \in Key /\ Key_(j) \in registered
        /\ Src(j) \in Tier /\ Dst(j) \in Tier
        /\ Has(Key_(j), Src(j)) /\ ~Removable(Key_(j), Src(j))
        /\ Has(Key_(j), Dst(j)) /\ ~Removable(Key_(j), Dst(j))
  BY LiveTask, NoReplicaIsNone DEF Has, Removable, DestinationState
<1>3. replica \in [Key -> [Tier -> Replica \cup {NoReplica}]]
  BY DEF MigrationInv, TypeOK, DirTypeOK
<1>4. ASSUME NEW k \in Key, CallerCreates(k) \/ CallerDestroys(k)
      PROVE  (TransfersProtected /\ OneTaskPerChunk)'
  <2>1. /\ replica' = replica /\ pins' = pins
        /\ registered' = registered \cup {k} \/ registered' = registered \ {k}
    BY <1>4 DEF CallerCreates, CallerDestroys, Create, Destroy
  <2>2. \A j \in TaskId : Live(j) => Key_(j) \in registered'
    BY <1>2, <1>4 DEF CallerCreates, CallerDestroys, Create, Destroy, Destroyable
  <2> QED BY <1>1, <2>1, <2>2, UntouchedStayProtected
<1>5. ASSUME NEW k \in Key, NEW t \in Tier, CallerRemoves(k, t)
      PROVE  (TransfersProtected /\ OneTaskPerChunk)'
  <2>1. /\ replica' = [replica EXCEPT ![k][t] = NoReplica]
        /\ pins' = pins /\ registered' = registered
        /\ Removable(k, t)
    BY <1>5 DEF CallerRemoves, Remove
  <2> QED BY <1>1, <1>2, <1>3, <2>1, UntouchedStayProtected
<1>6. ASSUME NEW k \in Key, NEW t \in Tier, NEW s \in Slot, CallerFills(k, t, s)
      PROVE  (TransfersProtected /\ OneTaskPerChunk)'
  <2>1. /\ replica' = [replica EXCEPT ![k][t] = FreshReplica(s, "READY")]
        /\ pins' = pins /\ registered' = registered
        /\ \A u \in Tier : ~Has(k, u)
    BY <1>6 DEF CallerFills, Place
  <2> QED BY <1>1, <1>2, <1>3, <2>1, UntouchedStayProtected
<1>7. ASSUME NEW k \in Key, NEW s \in Slot, CallerLosesSlot(k, s)
      PROVE  (TransfersProtected /\ OneTaskPerChunk)'
  <2>1. UNCHANGED <<registered, replica, pins>>
    BY <1>7 DEF CallerLosesSlot, PlaceLosesSlot
  <2> QED BY <1>1, <1>2, <2>1, UntouchedStayProtected
<1> QED BY <1>4, <1>5, <1>6, <1>7 DEF CallerNext

\* No step of the system takes a chunk away from a task that is alive.
LEMMA ProtectedStep ==
    ASSUME MigrationInv, Next
    PROVE  (TransfersProtected /\ OneTaskPerChunk)'
<1>1. ASSUME UNCHANGED <<registered, replica, pins, task>>,
             \A j \in TaskId : Live(j)' => Live(j)
      PROVE  (TransfersProtected /\ OneTaskPerChunk)'
  BY <1>1, LiveTask, UntouchedStayProtected
<1>2. ASSUME NEW i \in TaskId, Conclude(i)
      PROVE  (TransfersProtected /\ OneTaskPerChunk)'
  <2>1. /\ Live(i) /\ UNCHANGED <<registered, refs, gen, task>>
        /\ Complete(i) \/ (\E final \in FinalState : Discard(i, final))
    BY <1>2 DEF Conclude, Finalize, FinalizeCancelled, Fail, FinalState, Live, LiveState
  <2> QED BY <2>1, EndedTaskStepProtects
<1>3. ASSUME NEW i \in TaskId, CancelDequeue(i)
      PROVE  (TransfersProtected /\ OneTaskPerChunk)'
  <2>1. /\ Live(i) /\ UNCHANGED <<registered, refs, gen, task>>
        /\ Discard(i, "CANCELLED")
    BY <1>3 DEF CancelDequeue, FinalizeCancelled, Live, LiveState, MigrationInv,
       OperationsKnown
  <2> QED BY <2>1, EndedTaskStepProtects DEF FinalState
<1>4. CASE \E i \in TaskId : Poll(i) \/ WaitConclude(i) \/ CancelDequeue(i)
  BY <1>2, <1>3, <1>4 DEF Poll, WaitConclude
<1>5. CASE \/ WaitSleep \/ SpuriousWakeup \/ DestroyNext
           \/ \E i \in TaskId :
                \/ DmaDone(i) \/ WaitCall(i) \/ WaitHold(i) \/ WaitThrows(i)
                \/ CancelCall(i) \/ CancelRequest(i) \/ CancelRetry(i)
                \/ CancelDequeueThrows(i)
  <2>1. UNCHANGED <<registered, replica, pins, task, state>>
    BY <1>5 DEF WaitSleep, SpuriousWakeup, DestroyNext, BeginDestroy, DestroyWaits,
       DestroyStops, DestroyEnds, DmaDone, WaitCall, WaitHold, WaitThrows, CancelCall,
       CancelRequest, CancelRetry, CancelDequeueThrows, dirVars, taskVars
  <2> QED BY <1>1, <2>1 DEF Live
<1>6. ASSUME NEW w \in Worker, WorkerNext(w)
      PROVE  (TransfersProtected /\ OneTaskPerChunk)'
  <2>1. UNCHANGED <<registered, replica, pins, task>>
    BY <1>6 DEF WorkerNext, Take, SkipCancelled, StartIo, Io, WriteFile, ReadFile,
       IoThrows, FinishIo, Notify, WorkerExit, dirVars, taskVars
  <2>2. \A j \in TaskId : Live(j)' => Live(j)
    BY <1>6 DEF WorkerNext, Take, SkipCancelled, StartIo, Io, WriteFile, ReadFile,
       IoThrows, FinishIo, Notify, WorkerExit, taskVars, Live, LiveState,
       MigrationInv, TypeOK, OperationsKnown
  <2> QED BY <1>1, <2>1, <2>2
<1> QED BY <1>4, <1>5, <1>6, SubmitProtects, CallerProtects
        DEF Next, WaitNext, CancelNext

-----------------------------------------------------------------------------
(* Pins.                                                                   *)

\* A step that adds no pin and leaves the replicas of pinned chunks alone.
LEMMA PinsKept ==
    ASSUME MigrationInv,
           \A k \in Key : pins'[k] # 0 =>
              pins[k] # 0 /\ replica'[k]["CPU"] = replica[k]["CPU"]
    PROVE  PinnedIsCopying'
BY DEF MigrationInv, PinnedIsCopying, Has

\* The end of a task takes its pin, the only one, from its chunk.
LEMMA EndedTaskUnpins ==
    ASSUME MigrationInv, NEW i \in TaskId, Live(i),
           Complete(i) \/ (\E final \in FinalState : Discard(i, final)),
           UNCHANGED <<registered, refs, gen>>
    PROVE  PinnedIsCopying'
<1>1. \A j \in Key : j # Key_(i) => replica'[j] = replica[j] /\ pins'[j] = pins[j]
  BY CompleteStep, DiscardStep
<1>2. pins' = [pins EXCEPT ![Key_(i)] = pins[Key_(i)] - 1]
  BY DEF Complete, Discard
<1>3. pins'[Key_(i)] = 0
  BY <1>2, LiveTask DEF MigrationInv, TypeOK, DirTypeOK
<1> QED BY <1>1, <1>3, PinsKept

\* submit pins a chunk that nobody had pinned.
LEMMA SubmitPins ==
    ASSUME MigrationInv, SubmitNext
    PROVE  PinnedIsCopying'
<1>1. PICK k \in Key, src \in Tier, dst \in Tier :
        \/ SubmitNoCapacity(k, src, dst)
        \/ SubmitRollbackThrows(k, src, dst)
        \/ \E s \in Slot : \/ SubmitLosesSlot(k, src, dst, s)
                           \/ SubmitRolledBack(k, src, dst, s)
        \/ \E s \in Slot, p \in Priority : Submit(k, src, dst, s, p)
  BY DEF SubmitNext
<1>2. /\ Linked(src, dst) /\ Has(k, src) /\ DirTypeOK
      /\ pins[k] = 0
  BY <1>1, NoReplicaIsNone
     DEF SubmitNoCapacity, SubmitRollbackThrows, SubmitLosesSlot, SubmitRolledBack, Submit,
         Submittable, ReadySource, IsReady, Linked, MigrationInv, TypeOK, PinnedIsCopying
<1>3. ASSUME NEW s \in Slot, Reserve(k, src, dst, s) PROVE PinnedIsCopying'
  <2>1. /\ \A j \in Key : j # k => replica'[j] = replica[j] /\ pins'[j] = pins[j]
        /\ replica'[k][src] = [slot |-> replica[k][src].slot,
                               generation |-> replica[k][src].generation,
                               state |-> "COPYING"]
        /\ replica'[k][dst] = FreshReplica(s, DestinationState(dst))
        /\ DirTypeOK'
    BY <1>2, <1>3, ReserveStep
  <2>2. DestinationState(dst) \in ChunkState
    BY DEF DestinationState, ChunkState
  <2>3. /\ replica'[k][dst] \in Replica
        /\ replica'[k][dst] = [slot |-> s, generation |-> gen[s] + 1,
                               state |-> DestinationState(dst)]
    BY <1>2, <2>1, <2>2, FreshReplicaIs
  <2>4. replica'[k][src] \in Replica
    BY <1>2, <2>1 DEF DirTypeOK, Has, Replica, ChunkState
  <2>5. Has(k, "CPU")' /\ replica'[k]["CPU"].state = "COPYING"
    <3>1. CASE src = "CPU"
      BY <2>1, <2>4, <3>1, NoReplicaIsNone DEF Has
    <3>2. CASE dst = "CPU"
      BY <2>3, <3>2, NoReplicaIsNone DEF Has, DestinationState
    <3> QED BY <1>2, <3>1, <3>2 DEF Linked
  <2> QED BY <2>1, <2>5 DEF PinnedIsCopying, MigrationInv, Has
<1>4. CASE \/ SubmitNoCapacity(k, src, dst)
           \/ \E s \in Slot : \/ SubmitLosesSlot(k, src, dst, s)
                              \/ SubmitRolledBack(k, src, dst, s)
  <2>1. UNCHANGED <<replica, pins>>
    BY <1>4 DEF SubmitNoCapacity, SubmitLosesSlot, PlaceLosesSlot, SubmitRolledBack, dirVars
  <2> QED BY <2>1, PinsKept
<1>5. CASE SubmitRollbackThrows(k, src, dst)
  <2>1. CASE \E s \in Available(dst) : Reserve(k, src, dst, s)
    BY <1>2, <1>3, <2>1 DEF Available, DirTypeOK
  <2>2. CASE /\ replica' = [replica EXCEPT ![k][src].state = "COPYING"]
             /\ pins' = pins
    BY <1>2, <2>2, PinsKept DEF DirTypeOK
  <2> QED BY <1>5, <2>1, <2>2 DEF SubmitRollbackThrows
<1>6. ASSUME NEW s \in Slot, NEW p \in Priority, Submit(k, src, dst, s, p)
      PROVE  PinnedIsCopying'
  BY <1>3, <1>6 DEF Submit
<1> QED BY <1>1, <1>4, <1>5, <1>6

\* A pinned chunk is still being copied after every step.
LEMMA PinsStep ==
    ASSUME MigrationInv, Next
    PROVE  PinnedIsCopying'
<1>1. ASSUME NEW i \in TaskId, Conclude(i) \/ CancelDequeue(i) PROVE PinnedIsCopying'
  <2>1. /\ Live(i) /\ UNCHANGED <<registered, refs, gen>>
        /\ Complete(i) \/ (\E final \in FinalState : Discard(i, final))
    BY <1>1 DEF Conclude, CancelDequeue, Finalize, FinalizeCancelled, Fail, FinalState, Live,
       LiveState, MigrationInv, OperationsKnown
  <2> QED BY <2>1, EndedTaskUnpins
<1>2. CASE CallerNext
  <2>1. DirTypeOK
    BY DEF MigrationInv, TypeOK
  <2>2. ASSUME NEW k \in Key, CallerCreates(k) \/ CallerDestroys(k) PROVE PinnedIsCopying'
    BY <2>2, PinsKept DEF CallerCreates, CallerDestroys, Create, Destroy
  <2>3. ASSUME NEW k \in Key, NEW t \in Tier, CallerRemoves(k, t) PROVE PinnedIsCopying'
    <3>1. /\ replica' = [replica EXCEPT ![k][t] = NoReplica]
          /\ pins' = pins /\ Removable(k, t)
      BY <2>3 DEF CallerRemoves, Remove
    <3>2. pins[k] # 0 => t # "CPU"
      BY <3>1 DEF MigrationInv, PinnedIsCopying, Removable
    <3> QED BY <2>1, <3>1, <3>2, PinsKept DEF DirTypeOK
  <2>4. ASSUME NEW k \in Key, NEW t \in Tier, NEW s \in Slot, CallerFills(k, t, s)
        PROVE  PinnedIsCopying'
    <3>1. /\ replica' = [replica EXCEPT ![k][t] = FreshReplica(s, "READY")]
          /\ pins' = pins /\ ~Has(k, "CPU")
      BY <2>4 DEF CallerFills, Place, Tier
    <3>2. pins[k] = 0
      BY <3>1 DEF MigrationInv, PinnedIsCopying
    <3> QED BY <2>1, <3>1, <3>2, PinsKept DEF DirTypeOK
  <2>5. ASSUME NEW k \in Key, NEW s \in Slot, CallerLosesSlot(k, s) PROVE PinnedIsCopying'
    BY <2>5, PinsKept DEF CallerLosesSlot, PlaceLosesSlot
  <2> QED BY <1>2, <2>2, <2>3, <2>4, <2>5 DEF CallerNext
<1>3. CASE \/ WaitSleep \/ SpuriousWakeup \/ DestroyNext
           \/ \E i \in TaskId :
                \/ DmaDone(i) \/ WaitCall(i) \/ WaitHold(i) \/ WaitThrows(i)
                \/ CancelCall(i) \/ CancelRequest(i) \/ CancelRetry(i)
                \/ CancelDequeueThrows(i)
           \/ \E w \in Worker : WorkerNext(w)
  <2>1. UNCHANGED <<replica, pins>>
    BY <1>3 DEF WaitSleep, SpuriousWakeup, DestroyNext, BeginDestroy, DestroyWaits,
       DestroyStops, DestroyEnds, DmaDone, WaitCall, WaitHold, WaitThrows, CancelCall,
       CancelRequest, CancelRetry, CancelDequeueThrows, WorkerNext, Take, SkipCancelled,
       StartIo, Io, WriteFile, ReadFile, IoThrows, FinishIo, Notify, WorkerExit, dirVars
  <2> QED BY <2>1, PinsKept
<1> QED BY <1>1, <1>2, <1>3, SubmitPins
        DEF Next, WaitNext, CancelNext, Poll, WaitConclude

-----------------------------------------------------------------------------
(* The theorems.                                                           *)

\* The inductive invariant holds when the manager is constructed.
LEMMA MigrationInit == Init => MigrationInv
<1> SUFFICES ASSUME Init PROVE MigrationInv
  OBVIOUS
<1>1. TypeOK
  BY ManagerConstants, NoReplicaIsNone
     DEF Init, TypeOK, DirInit, DirTypeOK, TaskId, Task, LiveState, FinalState
<1>2. TasksKnown /\ OperationsKnown
  BY DEF Init, TasksKnown, OperationsKnown, Holding
<1>3. TransfersProtected /\ OneTaskPerChunk
  BY DEF Init, TransfersProtected, OneTaskPerChunk, Live, LiveState
<1>4. PinnedIsCopying
  BY DEF Init, DirInit, PinnedIsCopying
<1> QED BY <1>1, <1>2, <1>3, <1>4 DEF MigrationInv

\* Every step keeps the inductive invariant.
LEMMA MigrationStep == MigrationInv /\ [Next]_vars => MigrationInv'
<1> SUFFICES ASSUME MigrationInv, [Next]_vars PROVE MigrationInv'
  OBVIOUS
<1>1. CASE Next
  BY <1>1, TypeStep, OperationsStep, ProtectedStep, PinsStep DEF MigrationInv
<1>2. CASE UNCHANGED vars
  <2>1. TypeOK'
    BY <1>2 DEF vars, dirVars, taskVars, workerVars, ownerVars, storeVars,
       MigrationInv, TypeOK, DirTypeOK
  <2>2. (TasksKnown /\ OperationsKnown)'
    BY <1>2 DEF vars, taskVars, workerVars, MigrationInv, TasksKnown, OperationsKnown,
       Holding, IsCuda
  <2>3. (TransfersProtected /\ OneTaskPerChunk)'
    BY <1>2, LiveTask, UntouchedStayProtected DEF vars, dirVars, taskVars, Live
  <2>4. PinnedIsCopying'
    BY <1>2, PinsKept DEF vars, dirVars
  <2> QED BY <2>1, <2>2, <2>3, <2>4 DEF MigrationInv
<1> QED BY <1>1, <1>2

\* The inductive invariant holds always.
LEMMA MigrationInvariant == Spec => []MigrationInv
BY MigrationInit, MigrationStep, PTL DEF Spec

\* Every variable keeps its shape; in particular finalize never unpins a
\* chunk that is not pinned.
THEOREM TypeCorrect == Spec => []TypeOK
<1>1. MigrationInv => TypeOK
  BY DEF MigrationInv
<1> QED BY <1>1, MigrationInvariant, PTL

\* While a task lives, its chunk is pinned and both replicas are where the
\* task found them, in a state the directory refuses to remove.
THEOREM TransfersAreProtected == Spec => []TransfersProtected
<1>1. MigrationInv => TransfersProtected
  BY DEF MigrationInv
<1> QED BY <1>1, MigrationInvariant, PTL

\* Two live tasks never work on the same chunk.
THEOREM NoTwoTasksOnOneChunk == Spec => []OneTaskPerChunk
<1>1. MigrationInv => OneTaskPerChunk
  BY DEF MigrationInv
<1> QED BY <1>1, MigrationInvariant, PTL

\* What a worker or the device reads and writes is, until it is done, held by
\* the chunk of its own task and cannot be removed.
THEOREM OperationsTouchOwnSlots == Spec => []OperationsOwnTheirSlots
<1>1. ASSUME MigrationInv PROVE OperationsOwnTheirSlots
  <2>1. ASSUME NEW i \in TaskId, InProgress(i)
        PROVE  /\ Holds(Key_(i), Src(i), task[i].srcLoc.slot)
               /\ Holds(Key_(i), Dst(i), task[i].dstLoc.slot)
               /\ ~Removable(Key_(i), Src(i)) /\ ~Removable(Key_(i), Dst(i))
    <3>1. Live(i)
      BY <1>1, <2>1 DEF InProgress, MigrationInv, OperationsKnown, Holding, Live, LiveState
    <3> QED BY <1>1, <3>1, LiveTask, NoReplicaIsNone
            DEF Holds, Has, Removable, DestinationState, DstSlot
  <2> QED BY <2>1 DEF OperationsOwnTheirSlots
<1> QED BY <1>1, MigrationInvariant, PTL

-----------------------------------------------------------------------------
(* Cancellation and final states.                                          *)

\* How the states of tasks and the recorded cancellations change in a step.
Settles(i, st) ==
    /\ ~Final(i)
    /\ st = "COMPLETED" => ~cancelReq[i]
    /\ state' = [state EXCEPT ![i] = st]
    /\ cancelReq' = cancelReq

\* What a step may do to the state of a task.
LEMMA StateChanges ==
    ASSUME MigrationInv, Next
    PROVE  \/ state' = state /\ cancelReq' = cancelReq
           \/ \E i \in TaskId : /\ Live(i) /\ state' = state
                                /\ cancelReq' = [cancelReq EXCEPT ![i] = TRUE]
           \/ \E i \in TaskId, st \in LiveState \cup FinalState : Settles(i, st)
<1> USE DEF LiveState, FinalState, Final, Live
<1>1. ASSUME NEW i \in TaskId, Conclude(i)
      PROVE  \E st \in FinalState : Settles(i, st)
  BY <1>1 DEF Conclude, Finalize, FinalizeCancelled, Fail, Complete, Discard, Settles
<1>2. ASSUME NEW i \in TaskId, CancelDequeue(i) PROVE Settles(i, "CANCELLED")
  BY <1>2 DEF CancelDequeue, FinalizeCancelled, Discard, Settles, MigrationInv,
     OperationsKnown
<1>3. ASSUME NEW i \in TaskId, CancelRequest(i)
      PROVE  Live(i) /\ state' = state /\ cancelReq' = [cancelReq EXCEPT ![i] = TRUE]
  BY <1>3 DEF CancelRequest
<1>4. ASSUME NEW w \in Worker, WorkerNext(w)
      PROVE  \/ state' = state /\ cancelReq' = cancelReq
             \/ \E i \in TaskId : Settles(i, "RUNNING")
  <2>1. ASSUME NEW i \in TaskId, Take(w, i) PROVE Settles(i, "RUNNING")
    BY <2>1 DEF Take, Settles, MigrationInv, OperationsKnown
  <2> QED BY <1>4, <2>1 DEF WorkerNext, SkipCancelled, StartIo, Io, WriteFile, ReadFile,
          IoThrows, FinishIo, Notify, WorkerExit, taskVars
<1>5. ASSUME NEW k \in Key, NEW src \in Tier, NEW dst \in Tier, NEW s \in Slot,
             NEW p \in Priority, Submit(k, src, dst, s, p)
      PROVE  \E i \in TaskId, st \in LiveState : Settles(i, st)
  <2>1. nextId \in TaskId /\ state[nextId] = "NONE"
    BY <1>5, ManagerConstants DEF Submit, Submittable, MigrationInv, TasksKnown, TaskId
  <2> QED BY <1>5, <2>1 DEF Submit, Settles
<1>6. CASE \/ CallerNext \/ WaitSleep \/ SpuriousWakeup \/ DestroyNext
           \/ \E i \in TaskId :
                \/ DmaDone(i) \/ WaitCall(i) \/ WaitHold(i) \/ WaitThrows(i)
                \/ CancelCall(i) \/ CancelRetry(i) \/ CancelDequeueThrows(i)
           \/ \E k \in Key, src, dst \in Tier :
                \/ SubmitNoCapacity(k, src, dst) \/ SubmitRollbackThrows(k, src, dst)
                \/ \E s \in Slot : \/ SubmitLosesSlot(k, src, dst, s)
                                   \/ SubmitRolledBack(k, src, dst, s)
  BY <1>6 DEF CallerNext, CallerCreates, CallerDestroys, CallerRemoves, CallerFills,
     CallerLosesSlot, PlaceLosesSlot, CallerFrame, WaitSleep, SpuriousWakeup, DestroyNext,
     BeginDestroy, DestroyWaits,
     DestroyStops, DestroyEnds, DmaDone, WaitCall, WaitHold, WaitThrows, CancelCall,
     CancelRetry, CancelDequeueThrows, SubmitNoCapacity, SubmitRollbackThrows,
     SubmitLosesSlot, SubmitRolledBack, taskVars
<1>7. CASE \E i \in TaskId : \/ Poll(i) \/ WaitConclude(i) \/ CancelDequeue(i)
                             \/ CancelRequest(i)
  BY <1>1, <1>2, <1>3, <1>7 DEF Poll, WaitConclude
<1> QED BY <1>4, <1>5, <1>6, <1>7 DEF Next, WaitNext, CancelNext, SubmitNext

\* A task that reached a final state is never moved out of it.
THEOREM FinalStatesAreFinal == Spec => FinalStaysFinal
<1>1. MigrationInv /\ [Next]_vars =>
        [\A i \in TaskId : Final(i) => state'[i] = state[i]]_vars
  BY StateChanges DEF Settles, MigrationInv, TypeOK
<1> QED BY <1>1, MigrationInvariant, PTL DEF Spec, FinalStaysFinal

\* A task whose cancellation was accepted never publishes its destination,
\* whether it was queued, taken by a worker or running on the device.
THEOREM CancellationIsHonoured == Spec => []CancelHonoured
<1>1. Init => CancelHonoured
  BY DEF Init, CancelHonoured
<1>2. MigrationInv /\ CancelHonoured /\ [Next]_vars => CancelHonoured'
  <2> SUFFICES ASSUME MigrationInv, CancelHonoured, [Next]_vars PROVE CancelHonoured'
    OBVIOUS
  <2>1. CASE Next
    BY <2>1, StateChanges
       DEF Settles, CancelHonoured, MigrationInv, TypeOK, Live, LiveState
  <2>2. CASE UNCHANGED vars
    BY <2>2 DEF vars, taskVars, CancelHonoured
  <2> QED BY <2>1, <2>2
<1> QED BY <1>1, <1>2, MigrationInvariant, PTL DEF Spec

-----------------------------------------------------------------------------
(* What is READY is right: in MigrationManager, for any number of chunks,  *)
(* slots, workers and tasks and every combination of faults, a READY       *)
(* replica holds the bytes of its chunk.                                   *)

SlotOf(k, t) == replica[k][t].slot

\* The replica of k in tier t holds the bytes of k; its file names k.
Genuine(k, t) ==
    /\ data[SlotOf(k, t)] = k
    /\ t = "NVME" => header[SlotOf(k, t)] = k

SlotsInUse ==
    \A k \in Key, t \in Tier : Has(k, t) =>
        SlotOf(k, t) \in SlotsOf(t) /\ SlotOf(k, t) \notin free

\* Task i is copying the replica of k in tier t.
Reads(i, k, t) == Live(i) /\ k = Key_(i) /\ t = Src(i)

\* The operation of task i is done, and finalize would make the replica of k
\* in tier t READY.  An operation skipped for a cancellation also reports
\* success, without having written anything.
Publishes(i, k, t) ==
    /\ Live(i) /\ k = Key_(i) /\ t = Dst(i)
    /\ OperationOk(i) /\ ~cancelReq[i]

SourcesGenuine ==
    \A i \in TaskId, k \in Key, t \in Tier : Reads(i, k, t) => Genuine(k, t)

ResultsGenuine ==
    \A i \in TaskId, k \in Key, t \in Tier : Publishes(i, k, t) => Genuine(k, t)

\* A READY replica is safe from the writers because each of them writes the
\* destination of its own live task (MigrationInv), that slot has one owner
\* (SlotsExclusive, which needs SlotsInUse when a slot is handed out), and
\* the owner is not READY.  What a task makes READY is good because its
\* source was good when it started and nobody wrote to it since.
BytesInv ==
    /\ MigrationInv
    /\ SlotsInUse
    /\ SlotsExclusive
    /\ ReadyHoldsItsBytes
    /\ SourcesGenuine
    /\ ResultsGenuine

-----------------------------------------------------------------------------
(* Frames.                                                                 *)

\* The replica of k in tier t stays in its slot and nobody writes there.
Kept(k, t) ==
    /\ SlotOf(k, t)' = SlotOf(k, t)
    /\ data'[SlotOf(k, t)] = data[SlotOf(k, t)]
    /\ t = "NVME" => header'[SlotOf(k, t)] = header[SlotOf(k, t)]

LEMMA GenuineKept ==
    ASSUME NEW k, NEW t, Genuine(k, t), Kept(k, t)
    PROVE  Genuine(k, t)'
BY DEF Genuine, Kept

\* The slots of the replicas are slots of their tiers.
LEMMA ReplicaSlots ==
    ASSUME BytesInv, NEW k \in Key, NEW t \in Tier, Has(k, t)
    PROVE  /\ SlotOf(k, t) \in Slot
           /\ SlotOf(k, t) \in SlotsOf(t)
           /\ SlotOf(k, t) \notin free
           /\ t = "NVME" => SlotOf(k, t) \in NvmeSlot
BY DEF BytesInv, SlotsInUse, SlotsOf, Slot, Tier

\* Replicas that stay where they are keep the book of slots, and so they do
\* when a free slot is lost.
LEMMA SlotsKept ==
    ASSUME BytesInv, free' \subseteq free,
           \A k \in Key, t \in Tier :
                Has(k, t)' => Has(k, t) /\ SlotOf(k, t)' = SlotOf(k, t)
    PROVE  SlotsInUse' /\ SlotsExclusive'
<1>1. SlotsInUse'
  BY DEF BytesInv, SlotsInUse
<1>2. SlotsExclusive'
  BY DEF BytesInv, SlotsExclusive, SlotOf
<1> QED BY <1>1, <1>2

\* So does a replica that is placed in a free slot.
LEMMA SlotTaken ==
    ASSUME BytesInv, NEW k \in Key, NEW t \in Tier,
           NEW s, s \in Available(t), free' = free \ {s},
           SlotOf(k, t)' = s,
           \A j \in Key, u \in Tier : (j # k \/ u # t) /\ Has(j, u)' =>
                Has(j, u) /\ SlotOf(j, u)' = SlotOf(j, u)
    PROVE  SlotsInUse' /\ SlotsExclusive'
<1>1. s \in free /\ s \in SlotsOf(t)
  BY DEF Available
<1>2. \A j \in Key, u \in Tier : (j # k \/ u # t) /\ Has(j, u)' => SlotOf(j, u)' # s
  BY <1>1 DEF BytesInv, SlotsInUse
<1>3. SlotsInUse'
  BY <1>1, <1>2 DEF BytesInv, SlotsInUse
<1>4. SlotsExclusive'
  BY <1>2 DEF BytesInv, SlotsExclusive, SlotOf
<1> QED BY <1>3, <1>4

\* And one that is removed and gives its slot back.
LEMMA SlotGivenBack ==
    ASSUME BytesInv, NEW k \in Key, NEW t \in Tier, Has(k, t),
           free' = free \cup {SlotOf(k, t)},
           ~Has(k, t)',
           \A j \in Key, u \in Tier : Has(j, u)' =>
                Has(j, u) /\ SlotOf(j, u)' = SlotOf(j, u)
    PROVE  SlotsInUse' /\ SlotsExclusive'
<1>1. \A j \in Key, u \in Tier : Has(j, u)' => SlotOf(j, u) # SlotOf(k, t)
  BY DEF BytesInv, SlotsExclusive, SlotOf
<1>2. SlotsInUse'
  BY <1>1 DEF BytesInv, SlotsInUse
<1>3. SlotsExclusive'
  BY DEF BytesInv, SlotsExclusive, SlotOf
<1> QED BY <1>2, <1>3

\* The ends of a live task are replicas; neither is READY.
LEMMA EndsOfTask ==
    ASSUME BytesInv, NEW i \in TaskId, Live(i)
    PROVE  /\ Key_(i) \in Key /\ Src(i) \in Tier /\ Dst(i) \in Tier /\ Src(i) # Dst(i)
           /\ Has(Key_(i), Src(i)) /\ ~IsReady(Key_(i), Src(i))
           /\ Has(Key_(i), Dst(i)) /\ ~IsReady(Key_(i), Dst(i))
           /\ SlotOf(Key_(i), Src(i)) = task[i].srcLoc.slot
           /\ SlotOf(Key_(i), Dst(i)) = DstSlot(i)
BY LiveTask, NoReplicaIsNone
   DEF BytesInv, Has, IsReady, DestinationState, Linked, SlotOf

\* A step that leaves the replicas and the fixed fields of the tasks alone,
\* writes to no replica that is READY or a source, and turns no operation
\* into a success whose result is not good.
LEMMA QuietStep ==
    ASSUME BytesInv, UNCHANGED <<replica, task>>, free' \subseteq free,
           \A j \in TaskId : Live(j)' => Live(j),
           \A k \in Key, t \in Tier : IsReady(k, t) => Kept(k, t),
           \A j \in TaskId, k \in Key, t \in Tier : Reads(j, k, t) => Kept(k, t),
           \A j \in TaskId, k \in Key, t \in Tier :
                Publishes(j, k, t)' => Genuine(k, t)'
    PROVE  (/\ SlotsInUse /\ SlotsExclusive /\ ReadyHoldsItsBytes
            /\ SourcesGenuine /\ ResultsGenuine)'
<1>1. SlotsInUse' /\ SlotsExclusive'
  BY SlotsKept DEF Has, SlotOf
<1>2. ReadyHoldsItsBytes'
  BY DEF BytesInv, ReadyHoldsItsBytes, IsReady, Has, Kept, SlotOf
<1>3. \A j \in TaskId, k \in Key, t \in Tier : Reads(j, k, t)' => Reads(j, k, t)
  BY DEF Reads, Key_, Src
<1>4. SourcesGenuine'
  BY <1>3, GenuineKept DEF BytesInv, SourcesGenuine
<1>5. ResultsGenuine'
  BY DEF ResultsGenuine
<1> QED BY <1>1, <1>2, <1>4, <1>5

\* A step that leaves the replicas, the tasks and the stores alone, and lets
\* no operation succeed that was not cancelled.
LEMMA IdleStep ==
    ASSUME BytesInv, UNCHANGED <<replica, task, data, header>>, free' \subseteq free,
           \A j \in TaskId : Live(j)' => Live(j),
           \A j \in TaskId : Live(j) /\ OperationOk(j)' /\ ~cancelReq'[j] =>
                OperationOk(j) /\ ~cancelReq[j]
    PROVE  (/\ SlotsInUse /\ SlotsExclusive /\ ReadyHoldsItsBytes
            /\ SourcesGenuine /\ ResultsGenuine)'
<1>1. \A k, t : Kept(k, t)
  BY DEF Kept, SlotOf
<1>2. \A j \in TaskId, k \in Key, t \in Tier : Publishes(j, k, t)' => Publishes(j, k, t)
  BY DEF Publishes, Key_, Dst
<1>3. \A j \in TaskId, k \in Key, t \in Tier : Publishes(j, k, t)' => Genuine(k, t)'
  BY <1>1, <1>2, GenuineKept DEF BytesInv, ResultsGenuine
<1> QED BY <1>1, <1>3, QuietStep

\* A step in which live task i writes to its destination, which does not yet
\* count as a success or is good afterwards.
LEMMA WriteStep ==
    ASSUME BytesInv, UNCHANGED <<replica, free, task, state, cancelReq>>,
           NEW i \in TaskId, Live(i),
           \A x \in Slot : x # DstSlot(i) => data'[x] = data[x],
           \A x \in NvmeSlot : x # DstSlot(i) => header'[x] = header[x],
           \A j \in TaskId : j # i => (OperationOk(j)' <=> OperationOk(j)),
           \A k \in Key, t \in Tier : Publishes(i, k, t)' => Genuine(k, t)'
    PROVE  (/\ SlotsInUse /\ SlotsExclusive /\ ReadyHoldsItsBytes
            /\ SourcesGenuine /\ ResultsGenuine)'
<1>1. ASSUME NEW k \in Key, NEW t \in Tier, Has(k, t), SlotOf(k, t) # DstSlot(i)
      PROVE  Kept(k, t)
  BY <1>1, ReplicaSlots DEF Kept, SlotOf
<1>2. PICK m \in Key, d \in Tier :
        /\ m = Key_(i) /\ d = Dst(i) /\ Has(m, d) /\ ~IsReady(m, d)
        /\ SlotOf(m, d) = DstSlot(i)
  BY EndsOfTask
<1>3. ASSUME NEW k \in Key, NEW t \in Tier, Has(k, t), k # m \/ t # d
      PROVE  Kept(k, t)
  <2>1. SlotOf(k, t) # DstSlot(i)
    BY <1>2, <1>3 DEF BytesInv, SlotsExclusive, SlotOf
  <2> QED BY <1>1, <1>3, <2>1
<1>4. \A k \in Key, t \in Tier : IsReady(k, t) => Kept(k, t)
  BY <1>2, <1>3 DEF IsReady
<1>5. ASSUME NEW j \in TaskId, NEW k \in Key, NEW t \in Tier, Reads(j, k, t)
      PROVE  Kept(k, t)
  <2>1. Live(j) /\ k = Key_(j) /\ t = Src(j)
    BY <1>5 DEF Reads
  <2>2. k = m => j = i
    BY <1>2, <2>1 DEF BytesInv, MigrationInv, OneTaskPerChunk
  <2>3. Has(k, t) /\ Src(j) # Dst(j)
    BY <2>1, EndsOfTask
  <2> QED BY <1>2, <1>3, <2>1, <2>2, <2>3
<1>6. ASSUME NEW j \in TaskId, NEW k \in Key, NEW t \in Tier, Publishes(j, k, t)'
      PROVE  Genuine(k, t)'
  <2>1. CASE j = i
    BY <1>6, <2>1
  <2>2. CASE j # i
    <3>1. Publishes(j, k, t)
      BY <1>6, <2>2 DEF Publishes, Live, Key_, Dst
    <3>2. Live(j) /\ k = Key_(j) /\ t = Dst(j)
      BY <3>1 DEF Publishes
    <3>3. k # m
      BY <1>2, <2>2, <3>2 DEF BytesInv, MigrationInv, OneTaskPerChunk
    <3>4. Has(k, t)
      BY <3>2, EndsOfTask
    <3> QED BY <1>3, <3>1, <3>3, <3>4, GenuineKept DEF BytesInv, ResultsGenuine
  <2> QED BY <2>1, <2>2
<1>7. \A j \in TaskId : Live(j)' => Live(j)
  BY DEF Live
<1> QED BY <1>4, <1>5, <1>6, <1>7, QuietStep

-----------------------------------------------------------------------------
(* The steps.                                                              *)

BytesKept ==
    /\ SlotsInUse /\ SlotsExclusive /\ ReadyHoldsItsBytes
    /\ SourcesGenuine /\ ResultsGenuine

\* The steps of wait, cancel and the destructor that end no task.
LEMMA OwnerBytes ==
    ASSUME BytesInv,
           \/ WaitSleep \/ SpuriousWakeup \/ DestroyNext
           \/ \E i \in TaskId :
                \/ WaitCall(i) \/ WaitHold(i) \/ WaitThrows(i) \/ CancelCall(i)
                \/ CancelRequest(i) \/ CancelRetry(i) \/ CancelDequeueThrows(i)
    PROVE  BytesKept'
<1>1. UNCHANGED <<replica, free, task, state, ioResult, event, data, header>>
  BY DEF WaitSleep, SpuriousWakeup, DestroyNext, BeginDestroy, DestroyWaits,
     DestroyStops, DestroyEnds, WaitCall, WaitHold, WaitThrows, CancelCall,
     CancelRequest, CancelRetry, CancelDequeueThrows, dirVars, taskVars, storeVars
<1>2. \A j \in TaskId : ~cancelReq'[j] => ~cancelReq[j]
  <2>1. cancelReq' = cancelReq \/ \E i \in TaskId : cancelReq' = [cancelReq EXCEPT ![i] = TRUE]
    BY DEF WaitSleep, SpuriousWakeup, DestroyNext, BeginDestroy, DestroyWaits,
       DestroyStops, DestroyEnds, WaitCall, WaitHold, WaitThrows, CancelCall,
       CancelRequest, CancelRetry, CancelDequeueThrows, taskVars
  <2> QED BY <2>1 DEF BytesInv, MigrationInv, TypeOK
<1>3. \A j \in TaskId : (Live(j)' <=> Live(j)) /\ (OperationOk(j)' <=> OperationOk(j))
  BY <1>1 DEF Live, OperationOk, IsCuda
<1> QED BY <1>1, <1>2, <1>3, IdleStep DEF BytesKept

\* A worker that holds a task works for a live one that is not done.
LEMMA HeldTask ==
    ASSUME BytesInv, NEW w \in Worker, Holding(w)
    PROVE  /\ wid[w] \in TaskId /\ Live(wid[w])
           /\ ~IsCuda(wid[w]) /\ ioResult[wid[w]] = 0 /\ ~OperationOk(wid[w])
           /\ DstSlot(wid[w]) \in Slot
BY LiveTask DEF BytesInv, MigrationInv, OperationsKnown, Live, LiveState, OperationOk

\* The steps of a worker.
LEMMA WorkerBytes ==
    ASSUME BytesInv, NEW w \in Worker, WorkerNext(w)
    PROVE  BytesKept'
<1> USE DEF BytesKept
<1>0. TypeOK
  BY DEF BytesInv, MigrationInv
<1>1. ASSUME NEW j \in TaskId, Take(w, j) PROVE BytesKept'
  <2>1. /\ UNCHANGED <<replica, free, task, cancelReq, ioResult, event, data, header>>
        /\ state' = [state EXCEPT ![j] = "RUNNING"] /\ j \in queue
    BY <1>1 DEF Take, dirVars, storeVars
  <2>2. state[j] = "QUEUED"
    BY <2>1 DEF BytesInv, MigrationInv, OperationsKnown
  <2>3. \A h \in TaskId : Live(h)' => Live(h)
    BY <1>0, <2>1, <2>2 DEF Live, LiveState, TypeOK
  <2>4. \A h \in TaskId : OperationOk(h)' <=> OperationOk(h)
    BY <2>1 DEF OperationOk, IsCuda
  <2> QED BY <2>1, <2>3, <2>4, IdleStep
<1>2. CASE Notify(w) \/ WorkerExit(w)
  <2>1. UNCHANGED <<replica, free, task, state, cancelReq, ioResult, event, data, header>>
    BY <1>2 DEF Notify, WorkerExit, dirVars, taskVars, storeVars
  <2>2. \A h \in TaskId : (Live(h)' <=> Live(h)) /\ (OperationOk(h)' <=> OperationOk(h))
    BY <2>1 DEF OperationOk, IsCuda, Live
  <2> QED BY <2>1, <2>2, IdleStep
<1>3. CASE SkipCancelled(w) \/ IoThrows(w)
  <2>0. PICK i \in TaskId : i = wid[w] /\ Holding(w)
    BY <1>3, HeldTask DEF SkipCancelled, IoThrows, Holding
  <2>1. /\ UNCHANGED <<replica, free, task, state, cancelReq, event, data, header>>
        /\ \/ cancelReq[i] /\ ioResult' = [ioResult EXCEPT ![i] = 1]
           \/ ioResult' = [ioResult EXCEPT ![i] = -1]
    BY <1>3, <2>0 DEF SkipCancelled, IoThrows, FinishIo, dirVars, storeVars
  <2>2. ~IsCuda(i)
    BY <2>0, HeldTask
  <2>3. \A h \in TaskId : OperationOk(h)' /\ ~cancelReq'[h] => OperationOk(h) /\ ~cancelReq[h]
    BY <1>0, <2>1, <2>2 DEF OperationOk, IsCuda, TypeOK
  <2>4. \A h \in TaskId : Live(h)' <=> Live(h)
    BY <2>1 DEF Live
  <2> QED BY <2>1, <2>3, <2>4, IdleStep
<1>4. CASE StartIo(w)
  <2>0. PICK i \in TaskId : i = wid[w] /\ Holding(w)
    BY <1>4, HeldTask DEF StartIo, Holding
  <2>1. /\ UNCHANGED <<replica, free, task, state, cancelReq, ioResult, event, header>>
        /\ data' = data \/ data' = [data EXCEPT ![DstSlot(i)] = Junk]
    BY <1>4, <2>0 DEF StartIo, dirVars, taskVars
  <2>2. \A h \in TaskId : OperationOk(h)' <=> OperationOk(h)
    BY <2>1 DEF OperationOk, IsCuda
  <2>3. \A k \in Key, t \in Tier : ~Publishes(i, k, t)'
    BY <2>0, <2>1, <2>2, HeldTask DEF Publishes
  <2>4. \A x \in Slot : x # DstSlot(i) => data'[x] = data[x]
    BY <1>0, <2>1 DEF TypeOK
  <2> QED BY <2>0, <2>1, <2>2, <2>3, <2>4, HeldTask, WriteStep
<1>5. CASE WriteFile(w) \/ ReadFile(w)
  <2>0. PICK i \in TaskId : i = wid[w] /\ Holding(w)
    BY <1>5, HeldTask DEF WriteFile, ReadFile, Holding
  <2>1. /\ UNCHANGED <<replica, free, task, state, cancelReq, event>>
        /\ ioResult' = [ioResult EXCEPT ![i] = 1]
        /\ data' = [data EXCEPT ![DstSlot(i)] = data[task[i].srcLoc.slot]]
        /\ \/ Dst(i) = "NVME" /\ header' = [header EXCEPT ![DstSlot(i)] = Key_(i)]
           \/ Dst(i) = "CPU" /\ header' = header
    BY <1>5, <2>0 DEF WriteFile, ReadFile, FinishIo, dirVars
  <2>2. Live(i) /\ DstSlot(i) \in Slot
    BY <2>0, HeldTask
  <2>3. \A h \in TaskId : h # i => (OperationOk(h)' <=> OperationOk(h))
    BY <1>0, <2>1 DEF OperationOk, IsCuda, TypeOK
  <2>4. /\ \A x \in Slot : x # DstSlot(i) => data'[x] = data[x]
        /\ \A x \in NvmeSlot : x # DstSlot(i) => header'[x] = header[x]
    BY <1>0, <2>1 DEF TypeOK
  <2>5. ASSUME NEW k \in Key, NEW t \in Tier, Publishes(i, k, t)'
        PROVE  Genuine(k, t)'
    <3>1. k = Key_(i) /\ t = Dst(i)
      BY <2>1, <2>5 DEF Publishes, Key_, Dst
    <3>2. PICK u \in Tier : Reads(i, k, u)
      BY <2>2, <3>1, EndsOfTask DEF Reads
    <3>3. data[task[i].srcLoc.slot] = k
      BY <2>2, <3>2, EndsOfTask DEF Reads, BytesInv, SourcesGenuine, Genuine
    <3>4. SlotOf(k, t)' = DstSlot(i) /\ (t = "NVME" => DstSlot(i) \in NvmeSlot)
      BY <2>1, <2>2, <3>1, EndsOfTask, ReplicaSlots DEF SlotOf
    <3> QED BY <1>0, <2>1, <2>2, <3>1, <3>3, <3>4 DEF Genuine, TypeOK
  <2> QED BY <2>1, <2>2, <2>3, <2>4, <2>5, WriteStep
<1> QED BY <1>1, <1>2, <1>3, <1>4, <1>5 DEF WorkerNext, Io

\* The device.
LEMMA DeviceBytes ==
    ASSUME BytesInv, NEW i \in TaskId, DmaDone(i)
    PROVE  BytesKept'
<1> USE DEF BytesKept
<1>0. TypeOK
  BY DEF BytesInv, MigrationInv
<1>1. /\ UNCHANGED <<replica, free, task, state, cancelReq, ioResult, header>>
      /\ event[i] = "pending"
      /\ \/ /\ event' = [event EXCEPT ![i] = "ok"]
            /\ data' = [data EXCEPT ![DstSlot(i)] = data[task[i].srcLoc.slot]]
         \/ event' = [event EXCEPT ![i] = "error"] /\ data' = data
  BY DEF DmaDone, dirVars
<1>2. Live(i) /\ IsCuda(i) /\ DstSlot(i) \in Slot
  BY <1>1, LiveTask DEF BytesInv, MigrationInv, OperationsKnown, Live, LiveState
<1>3. \A h \in TaskId : h # i => (OperationOk(h)' <=> OperationOk(h))
  BY <1>0, <1>1 DEF OperationOk, IsCuda, TypeOK
<1>4. \A x \in Slot : x # DstSlot(i) => data'[x] = data[x]
  BY <1>0, <1>1 DEF TypeOK
<1>5. ASSUME NEW k \in Key, NEW t \in Tier, Publishes(i, k, t)'
      PROVE  Genuine(k, t)'
  <2>1. k = Key_(i) /\ t = Dst(i) /\ OperationOk(i)'
    BY <1>1, <1>5 DEF Publishes, Key_, Dst
  <2>2. event'[i] = "ok"
    BY <1>1, <1>2, <2>1 DEF OperationOk, IsCuda
  <2>3. data' = [data EXCEPT ![DstSlot(i)] = data[task[i].srcLoc.slot]]
    BY <1>0, <1>1, <2>2 DEF TypeOK
  <2>4. PICK u \in Tier : Reads(i, k, u)
    BY <1>2, <2>1, EndsOfTask DEF Reads
  <2>5. data[task[i].srcLoc.slot] = k
    BY <1>2, <2>4, EndsOfTask DEF Reads, BytesInv, SourcesGenuine, Genuine
  <2>6. SlotOf(k, t)' = DstSlot(i)
    BY <1>1, <1>2, <2>1, EndsOfTask DEF SlotOf
  <2>7. t # "NVME"
    BY <1>2, <2>1, LiveTask DEF IsCuda, UsesCuda, Linked, Src, Dst, BytesInv
  <2> QED BY <1>0, <1>2, <2>3, <2>5, <2>6, <2>7 DEF Genuine, TypeOK
<1> QED BY <1>1, <1>2, <1>3, <1>4, <1>5, WriteStep

\* The end of a task makes READY what it read and, at most, what it publishes.
LEMMA EndBytes ==
    ASSUME BytesInv, NEW i \in TaskId, Live(i),
           NEW final \in FinalState, state' = [state EXCEPT ![i] = final],
           UNCHANGED <<task, cancelReq, event, ioResult>>,
           \A k \in Key : k # Key_(i) => replica'[k] = replica[k],
           \A k \in Key, t \in Tier : Has(k, t)' => Has(k, t) /\ Kept(k, t),
           \A k \in Key, t \in Tier :
                IsReady(k, t)' => IsReady(k, t) \/ Reads(i, k, t) \/ Publishes(i, k, t)
    PROVE  (ReadyHoldsItsBytes /\ SourcesGenuine /\ ResultsGenuine)'
<1>1. ASSUME NEW k \in Key, NEW t \in Tier, IsReady(k, t)' PROVE Genuine(k, t)'
  <2>1. Kept(k, t)
    BY <1>1 DEF IsReady
  <2>2. Genuine(k, t)
    BY <1>1 DEF BytesInv, ReadyHoldsItsBytes, SourcesGenuine, ResultsGenuine,
       Genuine, SlotOf
  <2> QED BY <2>1, <2>2, GenuineKept
<1>2. ReadyHoldsItsBytes'
  BY <1>1 DEF ReadyHoldsItsBytes, Genuine, SlotOf
<1>3. ASSUME NEW j \in TaskId, Live(j)'
      PROVE  j # i /\ Live(j) /\ Key_(j) # Key_(i)
  <2>1. j # i /\ Live(j)
    BY <1>3 DEF Live, LiveState, FinalState, BytesInv, MigrationInv, TypeOK
  <2> QED BY <2>1 DEF BytesInv, MigrationInv, OneTaskPerChunk
<1>4. ASSUME NEW k \in Key, NEW t \in Tier, k # Key_(i), Has(k, t), Genuine(k, t)
      PROVE  Genuine(k, t)'
  BY <1>4, GenuineKept DEF Has
<1>5. SourcesGenuine'
  <2> SUFFICES ASSUME NEW j \in TaskId, NEW k \in Key, NEW t \in Tier, Reads(j, k, t)'
               PROVE  Genuine(k, t)'
    BY DEF SourcesGenuine
  <2>1. Live(j)' /\ k = Key_(j) /\ t = Src(j)
    BY DEF Reads, Key_, Src
  <2>2. Reads(j, k, t) /\ k # Key_(i) /\ Has(k, t)
    BY <1>3, <2>1, EndsOfTask DEF Reads
  <2> QED BY <1>4, <2>2 DEF BytesInv, SourcesGenuine
<1>6. ResultsGenuine'
  <2> SUFFICES ASSUME NEW j \in TaskId, NEW k \in Key, NEW t \in Tier,
                      Publishes(j, k, t)'
               PROVE  Genuine(k, t)'
    BY DEF ResultsGenuine
  <2>1. Live(j)' /\ k = Key_(j) /\ t = Dst(j) /\ OperationOk(j) /\ ~cancelReq[j]
    BY DEF Publishes, Key_, Dst, OperationOk, IsCuda
  <2>2. Publishes(j, k, t) /\ k # Key_(i) /\ Has(k, t)
    BY <1>3, <2>1, EndsOfTask DEF Publishes
  <2> QED BY <1>4, <2>2 DEF BytesInv, ResultsGenuine
<1> QED BY <1>2, <1>5, <1>6

\* finalize.
LEMMA CompleteBytes ==
    ASSUME BytesInv, NEW i \in TaskId, Live(i), OperationOk(i), ~cancelReq[i],
           Complete(i), UNCHANGED <<task, cancelReq, event, ioResult, data>>
    PROVE  BytesKept'
<1>1. PICK m \in Key, a \in Tier, d \in Tier : m = Key_(i) /\ a = Src(i) /\ d = Dst(i)
  BY EndsOfTask
<1>2. /\ a # d /\ Has(m, a) /\ Has(m, d)
      /\ replica[m][a] \in Replica /\ replica[m][d] \in Replica
  BY <1>1, EndsOfTask, LiveTask DEF BytesInv
<1> DEFINE x == [replica[m][d] EXCEPT !.state = "READY"]
           y == [replica[m][a] EXCEPT !.state = "READY"]
<1>3. /\ x \in Replica /\ x.slot = SlotOf(m, d)
      /\ y \in Replica /\ y.slot = SlotOf(m, a)
  BY <1>2, ReplicaWithState DEF ChunkState, SlotOf
<1>4. replica \in [Key -> [Tier -> Replica \cup {NoReplica}]]
  BY DEF BytesInv, MigrationInv, TypeOK, DirTypeOK
<1>5. replica' = [replica EXCEPT ![m] = [replica[m] EXCEPT ![d] = x, ![a] = y]]
  BY <1>1, <1>2, <1>4 DEF Complete
<1>6. UNCHANGED <<free, header>> /\ state' = [state EXCEPT ![i] = "COMPLETED"]
  BY DEF Complete
<1> HIDE DEF x, y
<1>7. /\ \A k \in Key : k # m => replica'[k] = replica[k]
      /\ \A t \in Tier : t \notin {a, d} => replica'[m][t] = replica[m][t]
      /\ replica'[m][a] = y /\ replica'[m][d] = x
  BY <1>2, <1>4, <1>5
<1>8. \A k \in Key, t \in Tier :
        Has(k, t)' => Has(k, t) /\ SlotOf(k, t)' = SlotOf(k, t)
  BY <1>2, <1>3, <1>7 DEF Has, SlotOf
<1>9. \A k \in Key, t \in Tier :
        IsReady(k, t)' => IsReady(k, t) \/ Reads(i, k, t) \/ Publishes(i, k, t)
  BY <1>1, <1>7 DEF IsReady, Has, Reads, Publishes
<1>10. \A k \in Key, t \in Tier : Has(k, t)' => Kept(k, t)
  BY <1>6, <1>8 DEF Kept
<1> QED BY <1>1, <1>6, <1>7, <1>8, <1>9, <1>10, SlotsKept, EndBytes DEF BytesKept, FinalState

\* finalize_cancelled and the failure path of poll.
LEMMA DiscardBytes ==
    ASSUME BytesInv, NEW i \in TaskId, Live(i), NEW final \in FinalState,
           Discard(i, final), UNCHANGED <<task, cancelReq, event, ioResult, data>>,
           header' = header \/ header' = [header EXCEPT ![DstSlot(i)] = NoFile]
    PROVE  BytesKept'
<1>1. PICK m \in Key, a \in Tier, d \in Tier : m = Key_(i) /\ a = Src(i) /\ d = Dst(i)
  BY EndsOfTask
<1>2. /\ a # d /\ Has(m, a) /\ Has(m, d) /\ SlotOf(m, d) = DstSlot(i)
      /\ replica[m][a] \in Replica
  BY <1>1, EndsOfTask, LiveTask DEF BytesInv
<1> DEFINE y == [replica[m][a] EXCEPT !.state = "READY"]
<1>3. y \in Replica /\ y.slot = SlotOf(m, a)
  BY <1>2, ReplicaWithState DEF ChunkState, SlotOf
<1>4. replica \in [Key -> [Tier -> Replica \cup {NoReplica}]]
  BY DEF BytesInv, MigrationInv, TypeOK, DirTypeOK
<1>5. replica' = [replica EXCEPT ![m] = [replica[m] EXCEPT ![d] = NoReplica, ![a] = y]]
  BY <1>1, <1>2, <1>4 DEF Discard
<1>6. /\ free' = free \cup {SlotOf(m, d)}
      /\ state' = [state EXCEPT ![i] = final]
  BY <1>1 DEF Discard, SlotOf
<1> HIDE DEF y
<1>7. /\ \A k \in Key : k # m => replica'[k] = replica[k]
      /\ \A t \in Tier : t \notin {a, d} => replica'[m][t] = replica[m][t]
      /\ replica'[m][a] = y /\ ~Has(m, d)'
  BY <1>2, <1>4, <1>5 DEF Has
<1>8. \A k \in Key, t \in Tier :
        Has(k, t)' => Has(k, t) /\ SlotOf(k, t)' = SlotOf(k, t)
  BY <1>2, <1>3, <1>7 DEF Has, SlotOf
<1>9. \A k \in Key, t \in Tier : IsReady(k, t)' => IsReady(k, t) \/ Reads(i, k, t)
  BY <1>1, <1>7 DEF IsReady, Has, Reads
<1>10. ASSUME NEW k \in Key, NEW t \in Tier, Has(k, t)' PROVE Kept(k, t)
  <2>1. SlotOf(k, t) # DstSlot(i)
    BY <1>2, <1>7, <1>8, <1>10 DEF BytesInv, SlotsExclusive, SlotOf
  <2>2. Has(k, t) /\ SlotOf(k, t)' = SlotOf(k, t)
    BY <1>8, <1>10
  <2>3. t = "NVME" => header'[SlotOf(k, t)] = header[SlotOf(k, t)]
    BY <2>1, <2>2, ReplicaSlots DEF BytesInv, MigrationInv, TypeOK
  <2> QED BY <2>2, <2>3 DEF Kept
<1>11. SlotsInUse' /\ SlotsExclusive'
  BY <1>2, <1>6, <1>7, <1>8, SlotGivenBack
<1> QED BY <1>1, <1>6, <1>7, <1>8, <1>9, <1>10, <1>11, EndBytes DEF BytesKept

\* Every step that ends a task.
LEMMA EndTaskBytes ==
    ASSUME BytesInv, NEW i \in TaskId, Conclude(i) \/ CancelDequeue(i)
    PROVE  BytesKept'
<1>1. Live(i)
  BY DEF Conclude, CancelDequeue, BytesInv, MigrationInv, OperationsKnown, Live, LiveState
<1>2. UNCHANGED <<task, cancelReq, event, ioResult, data>>
  BY DEF Conclude, CancelDequeue
<1>3. \/ OperationOk(i) /\ ~cancelReq[i] /\ Complete(i)
      \/ /\ \E final \in FinalState : Discard(i, final)
         /\ header' = header \/ header' = [header EXCEPT ![DstSlot(i)] = NoFile]
  BY DEF Conclude, CancelDequeue, Finalize, FinalizeCancelled, Fail, FinalState
<1> QED BY <1>1, <1>2, <1>3, CompleteBytes, DiscardBytes

\* A step of the caller or of submit: what is READY afterwards was READY or
\* is new and good, and no task reads anything but what was.
LEMMA DirectoryStep ==
    ASSUME BytesInv, SlotsInUse', SlotsExclusive',
           \A k \in Key, t \in Tier :
                IsReady(k, t)' => (IsReady(k, t) /\ Kept(k, t)) \/ Genuine(k, t)',
           \A j \in TaskId, k \in Key, t \in Tier :
                Reads(j, k, t)' => (Reads(j, k, t) \/ IsReady(k, t)) /\ Kept(k, t),
           \A j \in TaskId, k \in Key, t \in Tier :
                Publishes(j, k, t)' => Publishes(j, k, t) /\ Kept(k, t)
    PROVE  BytesKept'
<1>1. \A k \in Key, t \in Tier : IsReady(k, t) => Genuine(k, t)
  BY DEF BytesInv, ReadyHoldsItsBytes, Genuine, SlotOf
<1>2. \A k \in Key, t \in Tier : IsReady(k, t)' => Genuine(k, t)'
  BY <1>1, GenuineKept
<1>3. ReadyHoldsItsBytes'
  BY <1>2 DEF ReadyHoldsItsBytes, Genuine, SlotOf
<1>4. SourcesGenuine' /\ ResultsGenuine'
  BY <1>1, GenuineKept DEF BytesInv, SourcesGenuine, ResultsGenuine
<1> QED BY <1>3, <1>4 DEF BytesKept

\* Writing to a free slot touches no replica.
LEMMA FreeSlotWritten ==
    ASSUME BytesInv, NEW s, s \in free, NEW b,
           data' = data \/ data' = [data EXCEPT ![s] = b], header' = header,
           NEW k \in Key, NEW t \in Tier, Has(k, t), SlotOf(k, t)' = SlotOf(k, t)
    PROVE  Kept(k, t)
BY ReplicaSlots DEF Kept, BytesInv, MigrationInv, TypeOK

\* The caller.
LEMMA CallerBytes ==
    ASSUME BytesInv, CallerNext
    PROVE  BytesKept'
<1>0. replica \in [Key -> [Tier -> Replica \cup {NoReplica}]]
  BY DEF BytesInv, MigrationInv, TypeOK, DirTypeOK
<1>1. UNCHANGED <<task, state, cancelReq, ioResult, event>>
  BY DEF CallerNext, CallerCreates, CallerDestroys, CallerRemoves, CallerFills,
     CallerLosesSlot, PlaceLosesSlot, CallerFrame, taskVars
<1>2. \A j \in TaskId, k \in Key, t \in Tier :
        /\ Reads(j, k, t)' <=> Reads(j, k, t)
        /\ Publishes(j, k, t)' <=> Publishes(j, k, t)
  BY <1>1 DEF Reads, Publishes, Live, Key_, Src, Dst, OperationOk, IsCuda
<1>3. \A j \in TaskId, k \in Key, t \in Tier :
        Reads(j, k, t) \/ Publishes(j, k, t) => Has(k, t) /\ ~IsReady(k, t)
  BY EndsOfTask DEF Reads, Publishes
<1>4. ASSUME NEW k \in Key,
             \/ CallerCreates(k) \/ CallerDestroys(k)
             \/ \E s \in Slot : CallerLosesSlot(k, s)
      PROVE  BytesKept'
  <2>1. UNCHANGED <<replica, data, header>> /\ free' \subseteq free
    BY <1>4 DEF CallerCreates, CallerDestroys, Create, Destroy, CallerLosesSlot,
       PlaceLosesSlot, storeVars
  <2>2. \A j \in TaskId : (Live(j)' <=> Live(j)) /\ (OperationOk(j)' <=> OperationOk(j))
    BY <1>1 DEF Live, OperationOk, IsCuda
  <2> QED BY <1>1, <2>1, <2>2, IdleStep DEF BytesKept
<1>5. ASSUME NEW m \in Key, NEW d \in Tier, NEW s \in Slot, CallerFills(m, d, s)
      PROVE  BytesKept'
  <2>1. /\ s \in Available(d) /\ s \in free /\ free' = free \ {s}
        /\ replica' = [replica EXCEPT ![m][d] = FreshReplica(s, "READY")]
        /\ data' = [data EXCEPT ![s] = m] /\ header' = header
        /\ d # "NVME" /\ \A u \in Tier : ~Has(m, u)
    BY <1>5 DEF CallerFills, Place, TakeSlot, Available
  <2>2. \A k \in Key, t \in Tier : k # m \/ t # d => replica'[k][t] = replica[k][t]
    BY <1>0, <2>1
  <2>3. SlotOf(m, d)' = s
    BY <1>0, <2>1 DEF SlotOf, FreshReplica
  <2>4. Genuine(m, d)'
    BY <2>1, <2>3 DEF Genuine, BytesInv, MigrationInv, TypeOK
  <2>5. ASSUME NEW k \in Key, NEW t \in Tier, k # m \/ t # d, Has(k, t)
        PROVE  Kept(k, t)
    BY <2>1, <2>2, <2>5, FreeSlotWritten DEF SlotOf
  <2>6. SlotsInUse' /\ SlotsExclusive'
    BY <2>1, <2>2, <2>3, SlotTaken DEF Has, SlotOf
  <2>7. \A k \in Key, t \in Tier :
            IsReady(k, t)' => (IsReady(k, t) /\ Kept(k, t)) \/ Genuine(k, t)'
    BY <2>2, <2>4, <2>5 DEF IsReady, Has
  <2>8. \A j \in TaskId, k \in Key, t \in Tier :
            Reads(j, k, t) \/ Publishes(j, k, t) => Kept(k, t)
    BY <1>3, <2>1, <2>5
  <2> QED BY <1>2, <2>6, <2>7, <2>8, DirectoryStep
<1>6. ASSUME NEW m \in Key, NEW d \in Tier, CallerRemoves(m, d) PROVE BytesKept'
  <2>1. /\ Removable(m, d) /\ free' = free \cup {SlotOf(m, d)}
        /\ replica' = [replica EXCEPT ![m][d] = NoReplica]
        /\ header' = header \/ header' = [header EXCEPT ![SlotOf(m, d)] = NoFile]
        /\ data' = data
    BY <1>6 DEF CallerRemoves, Remove, SlotOf
  <2>2. /\ ~Has(m, d)'
        /\ \A k \in Key, t \in Tier : k # m \/ t # d => replica'[k][t] = replica[k][t]
    BY <1>0, <2>1 DEF Has
  <2>3. ASSUME NEW k \in Key, NEW t \in Tier, k # m \/ t # d, Has(k, t)
        PROVE  Kept(k, t)
    <3>1. SlotOf(k, t) # SlotOf(m, d)
      BY <2>1, <2>3 DEF BytesInv, SlotsExclusive, SlotOf, Removable
    <3>2. t = "NVME" => header'[SlotOf(k, t)] = header[SlotOf(k, t)]
      BY <2>1, <2>3, <3>1, ReplicaSlots DEF BytesInv, MigrationInv, TypeOK
    <3> QED BY <2>1, <2>2, <2>3, <3>2 DEF Kept, SlotOf
  <2>4. SlotsInUse' /\ SlotsExclusive'
    BY <2>1, <2>2, SlotGivenBack DEF Has, SlotOf, Removable
  <2>5. \A k \in Key, t \in Tier : IsReady(k, t)' => IsReady(k, t) /\ Kept(k, t)
    BY <2>2, <2>3 DEF IsReady, Has
  <2>6. ASSUME NEW j \in TaskId, NEW k \in Key, NEW t \in Tier,
               Reads(j, k, t) \/ Publishes(j, k, t)
        PROVE  Kept(k, t)
    <3>1. Live(j) /\ k = Key_(j) /\ t \in {Src(j), Dst(j)}
      BY <2>6 DEF Reads, Publishes
    <3>2. replica[k][t].state \in {"COPYING", "LOADING"} /\ Has(k, t)
      BY <3>1, LiveTask, EndsOfTask DEF BytesInv, DestinationState
    <3> QED BY <2>1, <2>3, <3>2 DEF Removable
  <2> QED BY <1>2, <2>4, <2>5, <2>6, DirectoryStep
<1> QED BY <1>4, <1>5, <1>6 DEF CallerNext

\* A reservation takes nothing from the replicas of other chunks, and leaves
\* no READY replica it did not find.
LEMMA ReserveBytes ==
    ASSUME BytesInv, NEW m \in Key, NEW src \in Tier, NEW dst \in Tier, NEW s \in Slot,
           s \in Available(dst), Submittable(m, src, dst), Reserve(m, src, dst, s),
           data' = data \/ data' = [data EXCEPT ![s] = Junk], header' = header
    PROVE  /\ SlotsInUse' /\ SlotsExclusive'
           /\ \A k \in Key, t \in Tier : IsReady(k, t)' => IsReady(k, t)
           /\ \A k \in Key, t \in Tier : Has(k, t) => Kept(k, t)
<1>1. /\ replica \in [Key -> [Tier -> Replica \cup {NoReplica}]]
      /\ src # dst /\ IsReady(m, src) /\ Has(m, src) /\ ~Has(m, dst)
      /\ free' = free \ {s} /\ s \in free
  BY DEF BytesInv, MigrationInv, TypeOK, DirTypeOK, Submittable, ReadySource, IsReady,
     Linked, Reserve, TakeSlot, Available
<1> DEFINE f == FreshReplica(s, DestinationState(dst))
           y == [replica[m][src] EXCEPT !.state = "COPYING"]
<1>2. /\ y \in Replica /\ y.slot = SlotOf(m, src) /\ y.state = "COPYING"
      /\ f.slot = s /\ f.state # "READY"
  <2>1. replica[m][src] \in Replica
    BY <1>1 DEF Has
  <2> QED BY <2>1, ReplicaWithState DEF ChunkState, SlotOf, FreshReplica, DestinationState
<1>3. replica' = [replica EXCEPT ![m] = [replica[m] EXCEPT ![src] = y, ![dst] = f]]
  BY <1>1 DEF Reserve
<1> HIDE DEF f, y
<1>4. /\ \A k \in Key : k # m => replica'[k] = replica[k]
      /\ \A t \in Tier : t \notin {src, dst} => replica'[m][t] = replica[m][t]
      /\ replica'[m][src] = y /\ replica'[m][dst] = f
  BY <1>1, <1>3
<1>5. \A k \in Key, t \in Tier : k # m \/ t # dst =>
        SlotOf(k, t)' = SlotOf(k, t) /\ (Has(k, t)' => Has(k, t))
  BY <1>1, <1>2, <1>4 DEF Has, SlotOf
<1>6. SlotOf(m, dst)' = s
  BY <1>2, <1>4 DEF SlotOf
<1>7. SlotsInUse' /\ SlotsExclusive'
  BY <1>1, <1>5, <1>6, SlotTaken
<1>8. \A k \in Key, t \in Tier : IsReady(k, t)' => IsReady(k, t)
  BY <1>2, <1>4 DEF IsReady, Has
<1>9. \A k \in Key, t \in Tier : Has(k, t) => Kept(k, t)
  BY <1>1, <1>5, FreeSlotWritten
<1> QED BY <1>7, <1>8, <1>9

\* submit: its task starts from a READY source and has published nothing.
LEMMA SubmitBytes ==
    ASSUME BytesInv, SubmitNext
    PROVE  BytesKept'
<1>0. TypeOK
  BY DEF BytesInv, MigrationInv
<1>1. PICK m \in Key, src \in Tier, dst \in Tier :
        \/ SubmitNoCapacity(m, src, dst)
        \/ SubmitRollbackThrows(m, src, dst)
        \/ \E s \in Slot : \/ SubmitLosesSlot(m, src, dst, s)
                           \/ SubmitRolledBack(m, src, dst, s)
        \/ \E s \in Slot, p \in Priority : Submit(m, src, dst, s, p)
  BY DEF SubmitNext
<1>2. /\ Submittable(m, src, dst) /\ IsReady(m, src)
      /\ nextId \in TaskId /\ state[nextId] = "NONE"
      /\ ioResult[nextId] = 0
  BY <1>1, ManagerConstants
     DEF SubmitNoCapacity, SubmitRollbackThrows, SubmitLosesSlot, SubmitRolledBack, Submit,
     Submittable, ReadySource, BytesInv, MigrationInv, TasksKnown, OperationsKnown, TaskId
<1>3. \A j \in TaskId, k \in Key, t \in Tier :
        Reads(j, k, t) \/ Publishes(j, k, t) => Has(k, t) /\ ~IsReady(k, t)
  BY EndsOfTask DEF Reads, Publishes
<1>4. CASE SubmitNoCapacity(m, src, dst) \/ \E s \in Slot : SubmitLosesSlot(m, src, dst, s)
  <2>1. /\ UNCHANGED <<replica, task, state, cancelReq, ioResult, event, data, header>>
        /\ free' \subseteq free
    BY <1>4 DEF SubmitNoCapacity, SubmitLosesSlot, PlaceLosesSlot, dirVars, storeVars
  <2>2. \A j \in TaskId : (Live(j)' <=> Live(j)) /\ (OperationOk(j)' <=> OperationOk(j))
    BY <2>1 DEF Live, OperationOk, IsCuda
  <2> QED BY <2>1, <2>2, IdleStep DEF BytesKept
<1>5. ASSUME NEW s \in Slot, SubmitRolledBack(m, src, dst, s) PROVE BytesKept'
  <2>1. /\ UNCHANGED <<replica, free, task, state, cancelReq, ioResult, event, header>>
        /\ s \in free /\ data' = [data EXCEPT ![s] = Junk]
    BY <1>5 DEF SubmitRolledBack, Available
  <2>2. \A j \in TaskId, k \in Key, t \in Tier :
            /\ Reads(j, k, t)' <=> Reads(j, k, t)
            /\ Publishes(j, k, t)' <=> Publishes(j, k, t)
            /\ IsReady(k, t)' <=> IsReady(k, t)
    BY <2>1 DEF Reads, Publishes, Live, Key_, Src, Dst, OperationOk, IsCuda, IsReady, Has
  <2>3. \A k \in Key, t \in Tier : Has(k, t) => Kept(k, t)
    BY <2>1, FreeSlotWritten DEF SlotOf
  <2>4. SlotsInUse' /\ SlotsExclusive'
    BY <2>1, SlotsKept DEF Has, SlotOf
  <2>5. \A k \in Key, t \in Tier : IsReady(k, t)' => IsReady(k, t) /\ Kept(k, t)
    BY <2>1, <2>3 DEF IsReady, Has
  <2> QED BY <1>3, <2>2, <2>3, <2>4, <2>5, DirectoryStep
<1>6. CASE SubmitRollbackThrows(m, src, dst)
  <2>1. UNCHANGED <<task, state, cancelReq, ioResult, event, header>>
    BY <1>6 DEF SubmitRollbackThrows
  <2>2. \A j \in TaskId, k \in Key, t \in Tier :
            /\ Reads(j, k, t)' <=> Reads(j, k, t)
            /\ Publishes(j, k, t)' <=> Publishes(j, k, t)
    BY <2>1 DEF Reads, Publishes, Live, Key_, Src, Dst, OperationOk, IsCuda
  <2>3. /\ SlotsInUse' /\ SlotsExclusive'
        /\ \A k \in Key, t \in Tier : IsReady(k, t)' => IsReady(k, t)
        /\ \A k \in Key, t \in Tier : Has(k, t) => Kept(k, t)
    <3>1. CASE \E s \in Available(dst) :
                  /\ Reserve(m, src, dst, s)
                  /\ data' = [data EXCEPT ![s] = Junk]
      <4>1. Available(dst) \subseteq Slot
        BY <1>0 DEF Available, TypeOK, DirTypeOK
      <4> QED BY <1>2, <2>1, <3>1, <4>1, ReserveBytes
    <3>2. CASE /\ replica' = [replica EXCEPT ![m][src].state = "COPYING"]
               /\ free' \subseteq free /\ data' = data
      <4>1. replica[m][src] \in Replica
        BY <1>0, <1>2 DEF IsReady, Has, TypeOK, DirTypeOK
      <4> DEFINE y == [replica[m][src] EXCEPT !.state = "COPYING"]
      <4>2. y \in Replica /\ y.slot = SlotOf(m, src) /\ y.state = "COPYING"
        BY <4>1, ReplicaWithState DEF ChunkState, SlotOf
      <4>3. replica' = [replica EXCEPT ![m][src] = y]
        BY <3>2
      <4> HIDE DEF y
      <4>4. /\ replica'[m][src] = y
            /\ \A k \in Key, t \in Tier : k # m \/ t # src => replica'[k][t] = replica[k][t]
        BY <1>0, <4>3 DEF TypeOK, DirTypeOK
      <4>5. \A k \in Key, t \in Tier :
                SlotOf(k, t)' = SlotOf(k, t) /\ (Has(k, t)' => Has(k, t))
        BY <1>2, <4>2, <4>4 DEF Has, SlotOf, IsReady
      <4>6. \A k \in Key, t \in Tier : IsReady(k, t)' => IsReady(k, t)
        BY <4>2, <4>4 DEF IsReady, Has
      <4> QED BY <2>1, <3>2, <4>5, <4>6, SlotsKept DEF Kept
    <3> QED BY <1>6, <3>1, <3>2 DEF SubmitRollbackThrows
  <2>4. \A k \in Key, t \in Tier : IsReady(k, t)' => IsReady(k, t) /\ Kept(k, t)
    BY <2>3 DEF IsReady
  <2> QED BY <1>3, <2>2, <2>3, <2>4, DirectoryStep
<1>7. ASSUME NEW s \in Slot, NEW p \in Priority, Submit(m, src, dst, s, p)
      PROVE  BytesKept'
  <2> DEFINE n == nextId
             new == [key |-> m, source |-> src, destination |-> dst, priority |-> p,
                     srcLoc |-> LocationOf(m, src),
                     dstLoc |-> [slot |-> s, generation |-> gen[s] + 1]]
  <2>1. /\ s \in Available(dst) /\ Reserve(m, src, dst, s)
        /\ data' = data \/ data' = [data EXCEPT ![s] = Junk]
        /\ UNCHANGED <<cancelReq, ioResult, header>>
        /\ task' = [task EXCEPT ![n] = new]
        /\ \/ UsesCuda(src, dst) /\ event' = [event EXCEPT ![n] = "pending"]
           \/ ~UsesCuda(src, dst) /\ event' = event
        /\ \E st \in LiveState : state' = [state EXCEPT ![n] = st]
    BY <1>7 DEF Submit, LiveState
  <2>2. /\ SlotsInUse' /\ SlotsExclusive'
        /\ \A k \in Key, t \in Tier : IsReady(k, t)' => IsReady(k, t)
        /\ \A k \in Key, t \in Tier : Has(k, t) => Kept(k, t)
    BY <1>2, <2>1, ReserveBytes
  <2>3. new.key = m /\ new.source = src /\ new.destination = dst
    OBVIOUS
  <2> HIDE DEF new
  <2>4. PICK i \in TaskId : i = n
    BY <1>2
  <2>5. Key_(i)' = m /\ Src(i)' = src /\ ~OperationOk(i)'
    BY <1>0, <1>2, <2>1, <2>3, <2>4 DEF Key_, Src, OperationOk, IsCuda, TypeOK
  <2>6. ASSUME NEW j \in TaskId, j # i, NEW k \in Key, NEW t \in Tier
        PROVE  /\ Reads(j, k, t)' <=> Reads(j, k, t)
               /\ Publishes(j, k, t)' <=> Publishes(j, k, t)
    <3>1. task'[j] = task[j] /\ state'[j] = state[j] /\ event'[j] = event[j]
      BY <1>0, <2>1, <2>4, <2>6 DEF TypeOK
    <3> QED BY <2>1, <3>1
            DEF Reads, Publishes, Live, Key_, Src, Dst, OperationOk, IsCuda
  <2>7. \A j \in TaskId, k \in Key, t \in Tier :
            Reads(j, k, t)' => (Reads(j, k, t) \/ IsReady(k, t)) /\ Has(k, t)
    BY <1>2, <1>3, <2>5, <2>6 DEF Reads, IsReady
  <2>8. \A j \in TaskId, k \in Key, t \in Tier :
            Publishes(j, k, t)' => Publishes(j, k, t) /\ Has(k, t)
    BY <1>3, <2>5, <2>6 DEF Publishes
  <2>9. \A k \in Key, t \in Tier : IsReady(k, t)' => IsReady(k, t) /\ Kept(k, t)
    BY <2>2 DEF IsReady
  <2> QED BY <2>2, <2>7, <2>8, <2>9, DirectoryStep
<1> QED BY <1>1, <1>4, <1>5, <1>6, <1>7

-----------------------------------------------------------------------------
(* The theorem.                                                            *)

\* Nothing is held when the manager is constructed.
LEMMA BytesInit == Init => BytesInv
<1> SUFFICES ASSUME Init PROVE BytesInv
  OBVIOUS
<1>1. \A k \in Key, t \in Tier : ~Has(k, t)
  BY DEF Init, DirInit, Has
<1>2. \A i \in TaskId : ~Live(i)
  BY DEF Init, Live, LiveState
<1> QED BY <1>1, <1>2, MigrationInit
        DEF BytesInv, SlotsInUse, SlotsExclusive, ReadyHoldsItsBytes, IsReady,
        SourcesGenuine, ResultsGenuine, Reads, Publishes

\* Every step keeps the slots apart and the READY bytes true.
LEMMA BytesStep == BytesInv /\ [Next]_vars => BytesInv'
<1> SUFFICES ASSUME BytesInv, [Next]_vars PROVE BytesInv'
  OBVIOUS
<1>1. MigrationInv'
  BY MigrationStep DEF BytesInv
<1>2. CASE Next
  <2>1. BytesKept'
    BY <1>2, OwnerBytes, WorkerBytes, DeviceBytes, EndTaskBytes, CallerBytes, SubmitBytes
       DEF Next, WaitNext, CancelNext, Poll, WaitConclude
  <2> QED BY <1>1, <2>1 DEF BytesKept, BytesInv
<1>3. CASE UNCHANGED vars
  <2>1. UNCHANGED <<replica, free, task, state, cancelReq, ioResult, event, data, header>>
    BY <1>3 DEF vars, dirVars, taskVars, storeVars
  <2>2. \A j \in TaskId : (Live(j)' <=> Live(j)) /\ (OperationOk(j)' <=> OperationOk(j))
    BY <2>1 DEF Live, OperationOk, IsCuda
  <2> QED BY <1>1, <2>1, <2>2, IdleStep DEF BytesInv
<1> QED BY <1>2, <1>3

\* A READY replica holds the bytes of its chunk and, in the NVMe tier, a file
\* that names it, whatever copies failed, were cancelled or rolled back.
THEOREM ReadyBytesAreTrue == Spec => []ReadyHoldsItsBytes
<1>1. BytesInv => ReadyHoldsItsBytes
  BY DEF BytesInv
<1> QED BY <1>1, BytesInit, BytesStep, PTL DEF Spec

-----------------------------------------------------------------------------
(* What the manager of MigrationManager leaves behind: the directory when  *)
(* the tasks of a chunk have ended, and everything when it is destroyed.   *)

\* A live task changes nothing about its chunk but the two replicas it
\* copies between.
OthersReady ==
    \A i \in TaskId : Live(i) =>
        \A t \in Tier : t # Src(i) /\ t # Dst(i) /\ Has(Key_(i), t) => IsReady(Key_(i), t)

\* SettledChunksReady needs OthersReady for the moment the task ends, and
\* MigrationInv for the pin it then returns being the only one.
SettledInv ==
    /\ MigrationInv
    /\ SettledChunksReady
    /\ OthersReady

Idle(k) == \A i \in TaskId : Live(i) => Key_(i) # k

Clean(k) == pins[k] = 0 /\ \A t \in Tier : Has(k, t) => IsReady(k, t)

\* A step that leaves tasks and directory alone keeps chunks settled.
LEMMA SettledKept ==
    ASSUME SettledInv, UNCHANGED <<replica, pins, task>>,
           \A i \in TaskId : Live(i)' <=> Live(i)
    PROVE  SettledChunksReady' /\ OthersReady'
BY DEF SettledInv, SettledChunksReady, OthersReady, Has, IsReady, Key_, Src, Dst

\* The steps that do so.
LEMMA SettledElsewhere ==
    ASSUME SettledInv,
           \/ WaitSleep \/ SpuriousWakeup \/ DestroyNext
           \/ \E i \in TaskId :
                \/ DmaDone(i) \/ WaitCall(i) \/ WaitHold(i) \/ WaitThrows(i)
                \/ CancelCall(i) \/ CancelRequest(i) \/ CancelRetry(i)
                \/ CancelDequeueThrows(i)
           \/ \E w \in Worker : WorkerNext(w)
    PROVE  SettledChunksReady' /\ OthersReady'
<1>1. UNCHANGED <<replica, pins, task>>
  BY DEF WaitSleep, SpuriousWakeup, DestroyNext, BeginDestroy, DestroyWaits,
     DestroyStops, DestroyEnds, DmaDone, WaitCall, WaitHold, WaitThrows, CancelCall,
     CancelRequest, CancelRetry, CancelDequeueThrows, WorkerNext, Take, SkipCancelled,
     StartIo, Io, WriteFile, ReadFile, IoThrows, FinishIo, Notify, WorkerExit,
     dirVars, taskVars
<1>2. \/ state' = state
      \/ \E w \in Worker, i \in TaskId : Take(w, i)
  BY DEF WaitSleep, SpuriousWakeup, DestroyNext, BeginDestroy, DestroyWaits,
     DestroyStops, DestroyEnds, DmaDone, WaitCall, WaitHold, WaitThrows, CancelCall,
     CancelRequest, CancelRetry, CancelDequeueThrows, WorkerNext, SkipCancelled,
     StartIo, Io, WriteFile, ReadFile, IoThrows, FinishIo, Notify, WorkerExit, taskVars
<1>3. \A i \in TaskId : Live(i)' <=> Live(i)
  <2>1. ASSUME NEW w \in Worker, NEW i \in TaskId, Take(w, i)
        PROVE  state' = [state EXCEPT ![i] = "RUNNING"] /\ state[i] = "QUEUED"
    BY <2>1 DEF Take, SettledInv, MigrationInv, OperationsKnown
  <2> QED BY <1>2, <2>1 DEF Live, LiveState, SettledInv, MigrationInv, TypeOK
<1> QED BY <1>1, <1>3, SettledKept

\* The end of a task leaves its chunk clean and touches no other.
LEMMA SettledAtEnd ==
    ASSUME SettledInv, NEW i \in TaskId, Conclude(i) \/ CancelDequeue(i)
    PROVE  SettledChunksReady' /\ OthersReady'
<1>1. /\ Live(i) /\ UNCHANGED <<task, registered, refs, gen>>
      /\ Complete(i) \/ \E final \in FinalState : Discard(i, final)
  BY DEF Conclude, CancelDequeue, Finalize, FinalizeCancelled, Fail, FinalState,
     SettledInv, MigrationInv, OperationsKnown, Live, LiveState
<1>2. PICK k \in Key, a \in Tier, d \in Tier : k = Key_(i) /\ a = Src(i) /\ d = Dst(i)
  BY <1>1, LiveTask DEF SettledInv
<1>3. /\ a # d /\ pins[k] = 1
      /\ replica[k][a] \in Replica /\ replica[k][d] \in Replica
      /\ replica \in [Key -> [Tier -> Replica \cup {NoReplica}]] /\ pins \in [Key -> Nat]
  BY <1>1, <1>2, LiveTask DEF SettledInv, Linked, MigrationInv, TypeOK, DirTypeOK
<1>4. \A j \in Key : j # k => replica'[j] = replica[j] /\ pins'[j] = pins[j]
  BY <1>1, <1>2, CompleteStep, DiscardStep DEF SettledInv
<1>5. PICK final \in FinalState : state' = [state EXCEPT ![i] = final]
  BY <1>1 DEF Complete, Discard, FinalState
<1>6. \A j \in TaskId : Live(j)' <=> Live(j) /\ j # i
  BY <1>5 DEF Live, LiveState, FinalState, SettledInv, MigrationInv, TypeOK
<1>7. pins'[k] = 0
  BY <1>1, <1>2, <1>3 DEF Complete, Discard
<1>8. \A t \in Tier : t # a /\ t # d => replica'[k][t] = replica[k][t]
  BY <1>1, <1>2, <1>3 DEF Complete, Discard
<1>9. ASSUME NEW t \in {a, d}, Has(k, t)' PROVE replica'[k][t].state = "READY"
  <2> DEFINE x == [replica[k][d] EXCEPT !.state = "READY"]
             y == [replica[k][a] EXCEPT !.state = "READY"]
  <2>1. x.state = "READY" /\ y.state = "READY"
    BY <1>3, ReplicaWithState DEF ChunkState
  <2>2. \E z \in {x, NoReplica} :
            replica' = [replica EXCEPT ![k] = [replica[k] EXCEPT ![d] = z, ![a] = y]]
    BY <1>1, <1>2, <1>3 DEF Complete, Discard
  <2> HIDE DEF x, y
  <2> QED BY <1>3, <1>9, <2>1, <2>2 DEF Has
<1>10. Clean(k)'
  <2>1. \A t \in Tier : t # a /\ t # d /\ Has(k, t) => IsReady(k, t)
    BY <1>1, <1>2 DEF SettledInv, OthersReady
  <2> QED BY <1>7, <1>8, <1>9, <2>1 DEF Clean, Has, IsReady
<1>11. \A j \in Key : j # k /\ Idle(j)' => Idle(j)
  BY <1>1, <1>2, <1>6 DEF Idle, Key_
<1>12. SettledChunksReady'
  BY <1>4, <1>10, <1>11 DEF SettledInv, SettledChunksReady, Clean, Idle, Has, IsReady
<1>13. OthersReady'
  <2>1. \A j \in TaskId : Live(j)' => Live(j) /\ Key_(j) # k /\ Key_(j) \in Key
    BY <1>1, <1>2, <1>6, LiveTask DEF SettledInv, MigrationInv, OneTaskPerChunk
  <2> QED BY <1>1, <1>4, <2>1
          DEF SettledInv, OthersReady, Has, IsReady, Key_, Src, Dst
<1> QED BY <1>12, <1>13

\* submit works on a clean chunk; every way it can fail restores it, except
\* a stream that cannot be drained.
LEMMA SettledAtSubmit ==
    ASSUME SettledInv, SubmitNext, "sync" \notin Fault
    PROVE  SettledChunksReady' /\ OthersReady'
<1>0. TypeOK
  BY DEF SettledInv, MigrationInv
<1>1. PICK k \in Key, src \in Tier, dst \in Tier :
        \/ SubmitNoCapacity(k, src, dst)
        \/ \E s \in Slot : \/ SubmitLosesSlot(k, src, dst, s)
                           \/ SubmitRolledBack(k, src, dst, s)
        \/ \E s \in Slot, p \in Priority : Submit(k, src, dst, s, p)
  BY DEF SubmitNext, SubmitRollbackThrows
<1>2. CASE \/ SubmitNoCapacity(k, src, dst)
           \/ \E s \in Slot : \/ SubmitLosesSlot(k, src, dst, s)
                              \/ SubmitRolledBack(k, src, dst, s)
  <2>1. UNCHANGED <<replica, pins, task, state>>
    BY <1>2 DEF SubmitNoCapacity, SubmitLosesSlot, PlaceLosesSlot, SubmitRolledBack, dirVars
  <2> QED BY <2>1, SettledKept DEF Live
<1>3. ASSUME NEW s \in Slot, NEW p \in Priority, Submit(k, src, dst, s, p)
      PROVE  SettledChunksReady' /\ OthersReady'
  <2> DEFINE new == [key |-> k, source |-> src, destination |-> dst, priority |-> p,
                     srcLoc |-> LocationOf(k, src),
                     dstLoc |-> [slot |-> s, generation |-> gen[s] + 1]]
  <2>1. /\ Submittable(k, src, dst) /\ Linked(src, dst) /\ Has(k, src)
        /\ Reserve(k, src, dst, s)
        /\ task' = [task EXCEPT ![nextId] = new]
        /\ \E st \in LiveState : state' = [state EXCEPT ![nextId] = st]
    BY <1>3 DEF Submit, Submittable, ReadySource, IsReady, LiveState
  <2>2. PICK n \in TaskId : n = nextId /\ state[n] = "NONE"
    BY <2>1, ManagerConstants DEF Submittable, SettledInv, MigrationInv, TasksKnown, TaskId
  <2>3. Idle(k) /\ Clean(k)
    BY <2>1, SubmittableIsIdle DEF SettledInv, SettledChunksReady, Idle, Clean
  <2>4. /\ \A j \in Key : j # k => replica'[j] = replica[j] /\ pins'[j] = pins[j]
        /\ \A t \in Tier : t # src /\ t # dst => replica'[k][t] = replica[k][t]
    <3>1. \A t \in Tier : t # src /\ t # dst => replica'[k][t] = replica[k][t]
      BY <1>0, <2>1 DEF Reserve, TypeOK, DirTypeOK
    <3> QED BY <1>0, <2>1, <3>1, ReserveStep DEF TypeOK
  <2>5. new.key = k /\ new.source = src /\ new.destination = dst
    OBVIOUS
  <2> HIDE DEF new
  <2>6. /\ Live(n)' /\ Key_(n)' = k /\ Src(n)' = src /\ Dst(n)' = dst
        /\ \A j \in TaskId : j # n => task'[j] = task[j] /\ (Live(j)' <=> Live(j))
    BY <1>0, <2>1, <2>2, <2>5 DEF Live, Key_, Src, Dst, TypeOK
  <2>7. SettledChunksReady'
    <3>1. \A j \in Key : Idle(j)' => j # k /\ Idle(j)
      BY <2>2, <2>6 DEF Idle, Key_, Live, LiveState
    <3> QED BY <2>4, <3>1 DEF SettledInv, SettledChunksReady, Idle, Has, IsReady
  <2>8. ASSUME NEW j \in TaskId, Live(j)',
               NEW t \in Tier, t # Src(j)', t # Dst(j)', Has(Key_(j), t)'
        PROVE  IsReady(Key_(j), t)'
    <3>1. CASE j = n
      BY <2>3, <2>4, <2>6, <2>8, <3>1 DEF Clean, Has, IsReady
    <3>2. CASE j # n
      <4>1. Live(j) /\ task'[j] = task[j]
        BY <2>6, <2>8, <3>2
      <4>2. Key_(j) \in Key /\ Key_(j) # k
        BY <2>3, <4>1, LiveTask DEF SettledInv, Idle
      <4> QED BY <2>4, <2>8, <4>1, <4>2
              DEF SettledInv, OthersReady, Key_, Src, Dst, Has, IsReady
    <3> QED BY <3>1, <3>2
  <2> QED BY <2>7, <2>8 DEF OthersReady
<1> QED BY <1>1, <1>2, <1>3

\* What the caller does between its calls concerns chunks at rest.
LEMMA SettledByCaller ==
    ASSUME SettledInv, CallerNext
    PROVE  SettledChunksReady' /\ OthersReady'
<1>0. replica \in [Key -> [Tier -> Replica \cup {NoReplica}]]
  BY DEF SettledInv, MigrationInv, TypeOK, DirTypeOK
<1>1. UNCHANGED <<task, state, pins>>
  BY DEF CallerNext, CallerCreates, CallerDestroys, CallerRemoves, CallerFills,
     CallerLosesSlot, PlaceLosesSlot, CallerFrame, taskVars, Create, Destroy, Place, Remove
<1>2. \A k \in Key, t \in Tier :
        Has(k, t)' => IsReady(k, t)' \/ replica'[k][t] = replica[k][t]
  <2>1. ASSUME NEW k \in Key, CallerCreates(k) \/ CallerDestroys(k)
        PROVE  replica' = replica
    BY <2>1 DEF CallerCreates, CallerDestroys, Create, Destroy
  <2>5. ASSUME NEW k \in Key, NEW s \in Slot, CallerLosesSlot(k, s) PROVE replica' = replica
    BY <2>5 DEF CallerLosesSlot, PlaceLosesSlot
  <2>2. ASSUME NEW k \in Key, NEW t \in Tier, CallerRemoves(k, t)
        PROVE  replica' = [replica EXCEPT ![k][t] = NoReplica]
    BY <2>2 DEF CallerRemoves, Remove
  <2>3. ASSUME NEW k \in Key, NEW t \in Tier, NEW s \in Slot, CallerFills(k, t, s)
        PROVE  replica' = [replica EXCEPT ![k][t] = FreshReplica(s, "READY")]
    BY <2>3 DEF CallerFills, Place
  <2>4. \A s : FreshReplica(s, "READY").state = "READY"
    BY DEF FreshReplica
  <2> QED BY <1>0, <2>1, <2>2, <2>3, <2>4, <2>5 DEF CallerNext, Has, IsReady
<1>3. SettledChunksReady'
  BY <1>1, <1>2 DEF SettledInv, SettledChunksReady, Live, Key_, Has, IsReady
<1>4. OthersReady'
  <2> SUFFICES ASSUME NEW j \in TaskId, Live(j)', NEW t \in Tier,
                      t # Src(j)', t # Dst(j)', Has(Key_(j), t)'
               PROVE  IsReady(Key_(j), t)'
    BY DEF OthersReady
  <2>1. Live(j) /\ t # Src(j) /\ t # Dst(j) /\ Key_(j)' = Key_(j)
    BY <1>1 DEF Live, Src, Dst, Key_
  <2>2. PICK k \in Key : k = Key_(j)
    BY <2>1, LiveTask DEF SettledInv
  <2>3. Has(k, t)'
    BY <2>1, <2>2 DEF Has
  <2>4. Has(k, t) => IsReady(k, t)
    BY <2>1, <2>2 DEF SettledInv, OthersReady
  <2>5. IsReady(k, t)'
    BY <1>2, <2>3, <2>4 DEF Has, IsReady
  <2> QED BY <2>1, <2>2, <2>5 DEF IsReady, Has
<1> QED BY <1>3, <1>4

\* When a stream can always be drained, a chunk whose tasks have all ended is
\* not pinned and every replica it has is READY, however they ended.  (The
\* assumption is needed: rollback_submit can throw half way.)
THEOREM ChunksAreLeftReady ==
    ASSUME "sync" \notin Fault
    PROVE  Spec => []SettledChunksReady
<1>1. Init => SettledInv
  <2>1. Init => SettledChunksReady /\ OthersReady
    BY DEF Init, DirInit, SettledChunksReady, OthersReady, Has, Live, LiveState
  <2> QED BY <2>1, MigrationInit DEF SettledInv
<1>2. SettledInv /\ [Next]_vars => SettledInv'
  <2> SUFFICES ASSUME SettledInv, [Next]_vars PROVE SettledInv'
    OBVIOUS
  <2>1. MigrationInv'
    BY MigrationStep DEF SettledInv
  <2>2. CASE Next
    BY <2>1, <2>2, SettledElsewhere, SettledAtEnd, SettledAtSubmit, SettledByCaller
       DEF Next, WaitNext, CancelNext, Poll, WaitConclude, SettledInv
  <2>3. CASE UNCHANGED vars
    BY <2>1, <2>3, SettledKept DEF vars, dirVars, taskVars, Live, SettledInv
  <2> QED BY <2>2, <2>3
<1>3. SettledInv => SettledChunksReady
  BY DEF SettledInv
<1> QED BY <1>1, <1>2, <1>3, PTL DEF Spec

-----------------------------------------------------------------------------
(* The destructor.                                                         *)

\* The second loop of the destructor has not yet come back from task i.
Awaited(i) == closing = "wait" /\ (i \in unvisited \/ (Waiting /\ oid = i))

\* Of the tasks its wait has come back from, those that have not ended are
\* the ones that nobody can finish.
OnlyStuckRemain ==
    closing \in {"wait", "stop", "destroyed"} =>
        \A i \in TaskId : Live(i) => Awaited(i) \/ LeftRunning(i)

\* A task left RUNNING for the sake of its file stays that way only because
\* no other task erases that file: the slots of the tasks differ (BytesInv).
ShutdownInv == BytesInv /\ OnlyStuckRemain

\* The file of a live task that writes one is in a slot of the NVMe tier.
LEMMA FileOfTask ==
    ASSUME BytesInv, NEW i \in TaskId, Live(i), Dst(i) = "NVME"
    PROVE  DstSlot(i) \in NvmeSlot /\ ~IsCuda(i)
<1>1. DstSlot(i) \in NvmeSlot
  BY EndsOfTask, ReplicaSlots
<1>2. ~IsCuda(i)
  BY LiveTask DEF BytesInv, Linked, IsCuda, UsesCuda, Src, Dst
<1> QED BY <1>1, <1>2

\* Two live tasks write to different slots.
LEMMA DestinationsDiffer ==
    ASSUME BytesInv, NEW i \in TaskId, NEW j \in TaskId, Live(i), Live(j), i # j
    PROVE  DstSlot(i) # DstSlot(j)
<1>1. Key_(i) # Key_(j)
  BY DEF BytesInv, MigrationInv, OneTaskPerChunk
<1>2. PICK k \in Key, t \in Tier : k = Key_(i) /\ t = Dst(i)
  BY EndsOfTask
<1>3. PICK m \in Key, u \in Tier : m = Key_(j) /\ u = Dst(j)
  BY EndsOfTask
<1>4. /\ Has(k, t) /\ SlotOf(k, t) = DstSlot(i)
      /\ Has(m, u) /\ SlotOf(m, u) = DstSlot(j)
  BY <1>2, <1>3, EndsOfTask
<1> QED BY <1>1, <1>2, <1>3, <1>4 DEF BytesInv, SlotsExclusive, SlotOf

\* A step that does not end task i, take its result back or erase its file
\* leaves it stuck.
LEMMA StuckStays ==
    ASSUME NEW i \in TaskId, LeftRunning(i),
           task'[i] = task[i], state'[i] = state[i],
           event[i] = "error" => event'[i] = "error",
           cancelReq[i] => cancelReq'[i],
           ioResult[i] = 1 => ioResult'[i] = 1,
           PublishedFile(i) => header'[DstSlot(i)] # NoFile
    PROVE  LeftRunning(i)'
<1>1. Dst(i)' = Dst(i) /\ DstSlot(i)' = DstSlot(i)
  BY DEF Dst, DstSlot
<1> QED BY <1>1 DEF LeftRunning, PublishedFile

\* A step during which the destructor stays in its loop over the tasks.
LEMMA RemainKept ==
    ASSUME ShutdownInv, closing' = closing,
           \A i \in TaskId : Live(i)' => Live(i),
           \A i \in TaskId : Live(i)' /\ LeftRunning(i) => LeftRunning(i)',
           \A i \in TaskId : Live(i)' /\ Awaited(i) => Awaited(i)' \/ LeftRunning(i)'
    PROVE  OnlyStuckRemain'
BY DEF ShutdownInv, OnlyStuckRemain

\* The end of one task leaves the files of the others.
LEMMA ShutdownAtEnd ==
    ASSUME ShutdownInv, NEW i \in TaskId, WaitConclude(i) \/ CancelDequeue(i)
    PROVE  OnlyStuckRemain'
<1>1. TypeOK
  BY DEF ShutdownInv, BytesInv, MigrationInv
<1>2. Live(i)
  BY DEF WaitConclude, Conclude, CancelDequeue, ShutdownInv, BytesInv, MigrationInv,
     OperationsKnown, Live, LiveState
<1>3. /\ UNCHANGED <<closing, unvisited, task, cancelReq, ioResult, event>>
      /\ header' = header \/ header' = [header EXCEPT ![DstSlot(i)] = NoFile]
      /\ \E final \in FinalState : state' = [state EXCEPT ![i] = final]
  BY DEF WaitConclude, Conclude, CancelDequeue, Finalize, FinalizeCancelled, Fail,
     Complete, Discard, FinalState
<1>4. \A j \in TaskId : Live(j)' => j # i /\ Live(j) /\ state'[j] = state[j]
  BY <1>1, <1>3 DEF Live, LiveState, FinalState, TypeOK
<1>5. ASSUME NEW j \in TaskId, Live(j)', LeftRunning(j) PROVE LeftRunning(j)'
  <2>1. ASSUME PublishedFile(j) PROVE header'[DstSlot(j)] # NoFile
    <3>1. DstSlot(j) \in NvmeSlot /\ DstSlot(j) # DstSlot(i)
      BY <1>2, <1>4, <1>5, <2>1, FileOfTask, DestinationsDiffer DEF ShutdownInv, PublishedFile
    <3>2. header'[DstSlot(j)] = header[DstSlot(j)]
      BY <1>1, <1>3, <3>1 DEF TypeOK
    <3> QED BY <2>1, <3>2 DEF PublishedFile
  <2>2. task'[j] = task[j] /\ state'[j] = state[j]
    BY <1>3, <1>4, <1>5
  <2> QED BY <1>3, <1>5, <2>1, <2>2, StuckStays
<1>6. ASSUME NEW j \in TaskId, Live(j)', Awaited(j) PROVE Awaited(j)'
  <2>1. ~(Waiting /\ oid = j)
    BY <1>4, <1>6 DEF WaitConclude, CancelDequeue, Waiting
  <2> QED BY <1>3, <1>6, <2>1 DEF Awaited
<1> QED BY <1>3, <1>4, <1>5, <1>6, RemainKept

\* wait comes back from a task without ending it only when it is stuck.
LEMMA ThrownAtStuck ==
    ASSUME ShutdownInv, NEW i \in TaskId, WaitThrows(i)
    PROVE  LeftRunning(i)
<1>1. CASE state[i] = "RUNNING" /\ IsCuda(i) /\ OperationFailed(i)
  BY <1>1 DEF OperationFailed, LeftRunning
<1>2. CASE ConcludeThrows(i)
  <2>1. /\ state[i] = "RUNNING" /\ cancelReq[i]
        /\ OperationOk(i) /\ PublishedFile(i) /\ Dst(i) = "NVME"
    BY <1>2 DEF ConcludeThrows, EraseThrows, PublishedFile
  <2>2. ~IsCuda(i)
    BY <2>1, FileOfTask DEF ShutdownInv, Live, LiveState
  <2> QED BY <2>1, <2>2 DEF LeftRunning, OperationOk
<1> QED BY <1>1, <1>2 DEF WaitThrows

\* The other steps of the owner inside wait, cancel and the destructor's
\* loops.
LEMMA ShutdownByOwner ==
    ASSUME ShutdownInv,
           \/ WaitSleep \/ SpuriousWakeup
           \/ \E i \in TaskId :
                \/ WaitCall(i) \/ WaitHold(i) \/ WaitThrows(i) \/ CancelCall(i)
                \/ CancelRequest(i) \/ CancelRetry(i) \/ CancelDequeueThrows(i)
    PROVE  OnlyStuckRemain'
<1>1. TypeOK
  BY DEF ShutdownInv, BytesInv, MigrationInv
<1>2. UNCHANGED <<closing, task, state, ioResult, event, header>>
  BY DEF WaitSleep, SpuriousWakeup, WaitCall, WaitHold, WaitThrows, CancelCall,
     CancelRequest, CancelRetry, CancelDequeueThrows, taskVars, storeVars
<1>3. cancelReq' = cancelReq \/ \E i \in TaskId : cancelReq' = [cancelReq EXCEPT ![i] = TRUE]
  BY DEF WaitSleep, SpuriousWakeup, WaitCall, WaitHold, WaitThrows, CancelCall,
     CancelRequest, CancelRetry, CancelDequeueThrows, taskVars
<1>4. \A j \in TaskId : cancelReq[j] => cancelReq'[j]
  BY <1>1, <1>3 DEF TypeOK
<1>5. \A j \in TaskId : Live(j)' <=> Live(j)
  BY <1>2 DEF Live
<1>6. \A j \in TaskId : LeftRunning(j) => LeftRunning(j)'
  BY <1>2, <1>4, StuckStays DEF PublishedFile
<1>7. ASSUME NEW j \in TaskId, Awaited(j) PROVE Awaited(j)' \/ LeftRunning(j)'
  <2>1. CASE \E i \in TaskId : WaitThrows(i)
    <3>1. PICK i \in TaskId : WaitThrows(i)
      BY <2>1
    <3>2. CASE i = j
      BY <1>6, <3>1, <3>2, ThrownAtStuck
    <3>3. CASE i # j
      BY <1>2, <1>7, <3>1, <3>3 DEF WaitThrows, Awaited
    <3> QED BY <3>2, <3>3
  <2>2. CASE \/ WaitSleep \/ SpuriousWakeup
             \/ \E i \in TaskId :
                  \/ WaitCall(i) \/ WaitHold(i) \/ CancelCall(i)
                  \/ CancelRequest(i) \/ CancelRetry(i) \/ CancelDequeueThrows(i)
    BY <1>2, <1>7, <2>2
       DEF WaitSleep, SpuriousWakeup, WaitCall, WaitHold, CancelCall, CancelRequest,
           CancelRetry, CancelDequeueThrows, MayWait, MayCancel, Awaited, Waiting
  <2> QED BY <2>1, <2>2
<1> QED BY <1>2, <1>5, <1>6, <1>7, RemainKept

\* A worker never touches a task that is stuck: it has reported its result.
LEMMA ShutdownByWorker ==
    ASSUME ShutdownInv, NEW w \in Worker, WorkerNext(w)
    PROVE  OnlyStuckRemain'
<1>1. TypeOK
  BY DEF ShutdownInv, BytesInv, MigrationInv
<1>2. UNCHANGED <<closing, unvisited, oid, task, cancelReq, event>>
  BY DEF WorkerNext, Take, SkipCancelled, StartIo, Io, WriteFile, ReadFile, IoThrows,
     FinishIo, Notify, WorkerExit, taskVars, ownerVars
<1>3. opc' = opc \/ (opc = "asleep" /\ opc' = "waitLoop")
  BY DEF WorkerNext, Take, SkipCancelled, StartIo, Io, WriteFile, ReadFile, IoThrows,
     FinishIo, Notify, WorkerExit, ownerVars
<1>4. \A j \in TaskId : Awaited(j) => Awaited(j)'
  BY <1>2, <1>3 DEF Awaited, Waiting
<1>5. ASSUME UNCHANGED <<state, ioResult, header>> PROVE OnlyStuckRemain'
  <2>1. \A j \in TaskId : Live(j)' <=> Live(j)
    BY <1>5 DEF Live
  <2>2. \A j \in TaskId : LeftRunning(j) => LeftRunning(j)'
    BY <1>2, <1>5, StuckStays DEF PublishedFile
  <2> QED BY <1>2, <1>4, <2>1, <2>2, RemainKept
<1>6. ASSUME NEW i \in TaskId, Take(w, i) PROVE OnlyStuckRemain'
  <2>1. /\ state[i] = "QUEUED" /\ state' = [state EXCEPT ![i] = "RUNNING"]
        /\ UNCHANGED <<ioResult, header>>
    BY <1>6 DEF Take, ShutdownInv, BytesInv, MigrationInv, OperationsKnown, storeVars
  <2>2. \A j \in TaskId : Live(j)' <=> Live(j)
    BY <1>1, <2>1 DEF Live, LiveState, TypeOK
  <2>3. \A j \in TaskId : LeftRunning(j) => state'[j] = state[j]
    BY <1>1, <2>1 DEF LeftRunning, TypeOK
  <2>4. \A j \in TaskId : LeftRunning(j) => LeftRunning(j)'
    BY <1>2, <2>1, <2>3, StuckStays DEF PublishedFile
  <2> QED BY <1>2, <1>4, <2>2, <2>4, RemainKept
<1>7. CASE SkipCancelled(w) \/ Io(w)
  <2>1. PICK i \in TaskId : i = wid[w] /\ Holding(w)
    BY <1>7, HeldTask DEF SkipCancelled, Io, WriteFile, ReadFile, IoThrows, Holding,
       ShutdownInv
  <2>2. Live(i) /\ ioResult[i] = 0 /\ Key_(i) \in Key
    BY <2>1, HeldTask, EndsOfTask DEF ShutdownInv
  <2>3. /\ state' = state
        /\ \E result \in {-1, 1} : ioResult' = [ioResult EXCEPT ![i] = result]
        /\ header' = header \/ header' = [header EXCEPT ![DstSlot(i)] = Key_(i)]
    BY <1>7, <2>1 DEF SkipCancelled, Io, WriteFile, ReadFile, IoThrows, FinishIo, storeVars
  <2>4. \A j \in TaskId : Live(j)' <=> Live(j)
    BY <2>3 DEF Live
  <2>5. ASSUME NEW j \in TaskId, LeftRunning(j) PROVE LeftRunning(j)'
    <3>1. ioResult[j] = 1 => ioResult'[j] = 1
      BY <1>1, <2>2, <2>3 DEF TypeOK
    <3>2. ASSUME PublishedFile(j) PROVE header'[DstSlot(j)] # NoFile
      <4>1. DstSlot(j) \in NvmeSlot
        BY <2>5, <3>2, FileOfTask DEF ShutdownInv, PublishedFile, LeftRunning, Live, LiveState
      <4> QED BY <1>1, <2>2, <2>3, <3>2, <4>1, SentinelsAreFresh DEF PublishedFile, TypeOK
    <3> QED BY <1>2, <2>3, <2>5, <3>1, <3>2, StuckStays
  <2> QED BY <1>2, <1>4, <2>4, <2>5, RemainKept
<1>8. CASE StartIo(w) \/ Notify(w) \/ WorkerExit(w)
  BY <1>5, <1>8 DEF StartIo, Notify, WorkerExit, taskVars, storeVars
<1> QED BY <1>6, <1>7, <1>8 DEF WorkerNext

\* Every step keeps what the destructor relies on.
LEMMA ShutdownStep ==
    ASSUME ShutdownInv, Next
    PROVE  OnlyStuckRemain'
<1>1. CASE CallerNext \/ SubmitNext \/ BeginDestroy \/ \E i \in TaskId : Poll(i)
  <2>1. closing' \in {"open", "cancel"}
    BY <1>1 DEF CallerNext, CallerCreates, CallerDestroys, CallerRemoves, CallerFills,
       CallerLosesSlot, CallerFrame, SubmitNext, Submittable, SubmitNoCapacity,
       SubmitRollbackThrows, SubmitLosesSlot, SubmitRolledBack, Submit, BeginDestroy,
       Poll, Conclude, OwnerReady, ownerVars
  <2> QED BY <2>1 DEF OnlyStuckRemain
<1>2. CASE DestroyWaits
  BY <1>2 DEF DestroyWaits, OnlyStuckRemain, Awaited
<1>3. CASE DestroyStops \/ DestroyEnds
  <2>1. UNCHANGED <<task, state, cancelReq, ioResult, event, header>>
    BY <1>3 DEF DestroyStops, DestroyEnds, taskVars, storeVars
  <2>2. \A j \in TaskId : Live(j) => LeftRunning(j)
    BY <1>3 DEF DestroyStops, DestroyEnds, WaitedForAll, VisitedAll, ShutdownInv,
       OnlyStuckRemain, Awaited, Waiting
  <2>3. \A j \in TaskId : Live(j)' => LeftRunning(j)'
    BY <2>1, <2>2, StuckStays DEF Live, PublishedFile
  <2> QED BY <2>3 DEF OnlyStuckRemain
<1>4. ASSUME NEW i \in TaskId, DmaDone(i) PROVE OnlyStuckRemain'
  <2>1. /\ event[i] = "pending"
        /\ UNCHANGED <<task, state, cancelReq, ioResult, header, opc, oid, closing, unvisited>>
        /\ \E e \in {"ok", "error"} : event' = [event EXCEPT ![i] = e]
    BY <1>4 DEF DmaDone, ownerVars
  <2>2. \A j \in TaskId : event[j] = "error" => event'[j] = "error"
    BY <2>1 DEF ShutdownInv, BytesInv, MigrationInv, TypeOK
  <2>3. \A j \in TaskId : LeftRunning(j) => LeftRunning(j)'
    BY <2>1, <2>2, StuckStays DEF PublishedFile
  <2> QED BY <2>1, <2>3, RemainKept DEF Live, Awaited, Waiting
<1> QED BY <1>1, <1>2, <1>3, <1>4, ShutdownAtEnd, ShutdownByOwner, ShutdownByWorker
        DEF Next, WaitNext, CancelNext, DestroyNext

\* When the destructor has returned no task is queued and the device copies
\* into no buffer.  What it swallowed shows in the tasks that are still
\* RUNNING: their copy failed, or they were cancelled after their file was
\* published and the file is still there.
THEOREM NothingIsLeftRunning == Spec => []NothingOutlivesManager
<1>1. Init => ShutdownInv
  <2>1. Init => OnlyStuckRemain
    BY DEF Init, OnlyStuckRemain
  <2> QED BY <2>1, BytesInit DEF ShutdownInv
<1>2. ShutdownInv /\ [Next]_vars => ShutdownInv'
  <2> SUFFICES ASSUME ShutdownInv, [Next]_vars PROVE ShutdownInv'
    OBVIOUS
  <2>1. BytesInv'
    BY BytesStep DEF ShutdownInv
  <2>2. CASE Next
    BY <2>1, <2>2, ShutdownStep DEF ShutdownInv
  <2>3. CASE UNCHANGED vars
    <3>1. UNCHANGED <<task, state, cancelReq, ioResult, event, header, opc, oid, closing,
                      unvisited>>
      BY <2>3 DEF vars, taskVars, ownerVars, storeVars
    <3>2. \A j \in TaskId : LeftRunning(j) => LeftRunning(j)'
      BY <3>1, StuckStays DEF PublishedFile
    <3>3. OnlyStuckRemain'
      BY <3>1, <3>2, RemainKept DEF Live, Awaited, Waiting
    <3> QED BY <2>1, <3>3 DEF ShutdownInv
  <2> QED BY <2>2, <2>3
<1>3. ASSUME ShutdownInv PROVE NothingOutlivesManager
  <2> SUFFICES ASSUME closing = "destroyed"
               PROVE  /\ queue = {}
                      /\ \A i \in TaskId : event[i] # "pending"
                      /\ \A i \in TaskId : Live(i) => LeftRunning(i)
    BY DEF NothingOutlivesManager
  <2>1. \A i \in TaskId : Live(i) => LeftRunning(i)
    BY <1>3 DEF ShutdownInv, OnlyStuckRemain, Awaited
  <2>2. ASSUME NEW i \in TaskId, event[i] = "pending" PROVE FALSE
    <3>1. Live(i) /\ IsCuda(i)
      BY <1>3, <2>2 DEF ShutdownInv, BytesInv, MigrationInv, OperationsKnown, Live, LiveState
    <3>2. Dst(i) = "NVME"
      BY <2>1, <2>2, <3>1 DEF LeftRunning, PublishedFile
    <3> QED BY <1>3, <3>1, <3>2, FileOfTask DEF ShutdownInv
  <2>3. ASSUME NEW i \in queue PROVE FALSE
    <3>1. i \in TaskId /\ state[i] = "QUEUED"
      BY <1>3, <2>3 DEF ShutdownInv, BytesInv, MigrationInv, OperationsKnown, TypeOK
    <3> QED BY <2>1, <3>1 DEF Live, LiveState, LeftRunning
  <2> QED BY <2>1, <2>2, <2>3
<1> QED BY <1>1, <1>2, <1>3, PTL DEF Spec
=============================================================================
