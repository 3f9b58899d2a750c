---------------------------- MODULE GpuTransfers ----------------------------
(***************************************************************************)
(* The GPU memory pool and the asynchronous transfer runtime of v1, as the *)
(* tiered manager drives them: batches of one block between a slot of the  *)
(* pool and the pinned buffer of a block.                                  *)
(*                                                                         *)
(* The runtime retains the slot of every batch it has submitted, whoever   *)
(* else holds it, and lets go of all of them when the stream has been      *)
(* synchronized or has failed.  A slot is free when nobody holds it.       *)
(*                                                                         *)
(* What a copy under way has done to its target is not known: the target   *)
(* holds Junk from the submission until a synchronization succeeds.        *)
(***************************************************************************)
EXTENDS Naturals, FiniteSets

CONSTANTS
    GpuSlot,    \* physical blocks of the pool
    Buffer,     \* pinned host buffers
    Content,    \* what a block may contain
    Junk        \* bytes of no block

ASSUME JunkIsNoContent == Junk \notin Content

ASSUME SlotsAreFinite == IsFiniteSet(GpuSlot)

VARIABLES
    slotRefs,     \* reference count of every slot
    initialized,  \* initialized_
    flight,       \* the batches pending in the runtime
    gpuData,      \* the content of every slot
    hostData      \* the content of every buffer

poolVars == <<slotRefs, initialized, flight, gpuData, hostData>>

Batch == [slot : GpuSlot, buffer : Buffer, write : BOOLEAN]

PoolInit ==
    /\ slotRefs = [s \in GpuSlot |-> 0]
    /\ initialized = [s \in GpuSlot |-> FALSE]
    /\ flight = {}
    /\ gpuData = [s \in GpuSlot |-> Junk]
    /\ hostData = [b \in Buffer |-> Junk]

FreeSlots == {s \in GpuSlot : slotRefs[s] = 0}

InFlight == {f.slot : f \in flight}
Busy == {f.buffer : f \in flight}

\* allocate, and write_block from the buffer: the pool's reference and the
\* runtime's.
AllocateAndWrite(s, b) ==
    /\ s \in FreeSlots /\ b \notin Busy
    /\ slotRefs' = [slotRefs EXCEPT ![s] = 2]
    /\ initialized' = [initialized EXCEPT ![s] = FALSE]
    /\ flight' = flight \cup {[slot |-> s, buffer |-> b, write |-> TRUE]}
    /\ gpuData' = [gpuData EXCEPT ![s] = Junk]
    /\ UNCHANGED hostData

\* read_block into the buffer.
Read(s, b) ==
    /\ slotRefs[s] > 0 /\ initialized[s]
    /\ s \notin InFlight /\ b \notin Busy
    /\ slotRefs' = [slotRefs EXCEPT ![s] = @ + 1]
    /\ flight' = flight \cup {[slot |-> s, buffer |-> b, write |-> FALSE]}
    /\ hostData' = [hostData EXCEPT ![b] = Junk]
    /\ UNCHANGED <<initialized, gpuData>>

\* The count of a slot after the runtime, and then the manager for the slots
\* of given, have let go of it.
Returned(s, given) ==
    slotRefs[s] - (IF s \in InFlight THEN 1 ELSE 0) - (IF s \in given THEN 1 ELSE 0)

ReleaseSlots(given) ==
    /\ slotRefs' = [s \in GpuSlot |-> Returned(s, given)]
    /\ flight' = {}

\* synchronize succeeds: every copy has been made.
SyncOk(given) ==
    /\ ReleaseSlots(given)
    /\ initialized' = [s \in GpuSlot |->
            initialized[s] \/ \E f \in flight : f.write /\ f.slot = s]
    /\ gpuData' = [s \in GpuSlot |->
            IF \E f \in flight : f.write /\ f.slot = s
            THEN hostData[(CHOOSE f \in flight : f.slot = s).buffer]
            ELSE gpuData[s]]
    /\ hostData' = [b \in Buffer |->
            IF \E f \in flight : ~f.write /\ f.buffer = b
            THEN gpuData[(CHOOSE f \in flight : f.buffer = b).slot]
            ELSE hostData[b]]

\* synchronize, or the submission of a copy, fails: the runtime lets go of
\* every batch all the same and vouches for none.
SyncFails(given) ==
    /\ ReleaseSlots(given)
    /\ UNCHANGED <<initialized, gpuData, hostData>>
=============================================================================
