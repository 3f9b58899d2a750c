--------------------------- MODULE ChunkFileStore ---------------------------
(***************************************************************************)
(* The file store under the NVMe tier: one file per slot, published by     *)
(* writing a temporary file, fsync and rename, and a byte counter that     *)
(* limits the total.  The process may crash at any point and restart.      *)
(*                                                                         *)
(* The store has no lock.  MigrationManager writes from its I/O threads    *)
(* (do_io) and erases from its owner thread (finalize_cancelled), never    *)
(* two of them on one slot, so a call is a sequence of steps and calls on  *)
(* different slots interleave.  stored_bytes_ is a plain integer: an       *)
(* update of it is a load and a store.                                     *)
(*                                                                         *)
(* A chunk file is its content: header fields, checksums and payload are   *)
(* one value of Content, whole or not.  read and exists change nothing.    *)
(***************************************************************************)
EXTENDS Integers, FiniteSets

CONSTANTS
    Slot,       \* file numbers
    Content,    \* what may be written: an identity with its payload
    Size,       \* bytes of the file of every content
    Quota,      \* quota_bytes
    Modulus,    \* 2^64
    Writer,     \* threads that call write
    Eraser,     \* threads that call erase
    Fault,      \* the system calls that may fail
    MayCrash,   \* whether the process may crash
    NoFile,     \* there is no such file
    NoCall      \* the thread is not in a call

ASSUME SlotsAreFinite == IsFiniteSet(Slot)

ASSUME ModulusPositive == Modulus \in Nat \ {0}

ASSUME SizesPositive == Size \in [Content -> 1..(Modulus - 1)]

ASSUME QuotaFits == Quota \in 0..(Modulus - 1)

Client == Writer \cup Eraser

\* partial: some bytes are missing; written: all bytes are there but may not
\* be on the medium; synced: after fsync.
File == [content : Content, data : {"partial", "written", "synced"}]

ASSUME NoFileIsNone == NoFile \notin File

\* A call in progress: what it works on, and what it has found out.
Call ==
    [pc : {"create", "fill", "fsync", "rename", "fsyncdir", "unlink", "load", "store"},
     slot : Slot, size : Nat, replaced : Nat, content : Content \cup {NoFile}, seen : Nat,
     before : SUBSET (Content \cup {NoFile}), after : SUBSET (Content \cup {NoFile})]

ASSUME NoCallIsNone == NoCall \notin Call

VARIABLES
    file,     \* the published file of every slot
    tmp,      \* the temporary file of every slot
    disk,     \* what a crash may leave under the published name of every slot
    stored,   \* stored_bytes_
    call,     \* the call every thread is in
    promised  \* history: what the calls that returned allow a slot to hold

files == <<file, tmp, disk>>
vars == <<files, stored, call, promised>>

Bytes(f) == IF f = NoFile THEN 0 ELSE Size[f.content]

\* The bytes on the medium, each as its slot and its place in the file.
BytesIn(fs) == UNION {{s} \X (1..Bytes(fs[s])) : s \in Slot}
Usage(fs) == Cardinality(BytesIn(fs))

ContentOf(f) == IF f = NoFile THEN NoFile ELSE f.content

Init ==
    /\ file = [s \in Slot |-> NoFile]
    /\ tmp = [s \in Slot |-> NoFile]
    /\ disk = [s \in Slot |-> {NoFile}]
    /\ stored = 0
    /\ call = [c \in Client |-> NoCall]
    /\ promised = [s \in Slot |-> {NoFile}]

At(c, pc) == call[c] # NoCall /\ call[c].pc = pc
Goto(c, pc) == call' = [call EXCEPT ![c].pc = pc]
Unused(s) == \A c \in Client : call[c] # NoCall => call[c].slot # s
May(fault) == fault \in Fault

\* The call throws; "before" is what the slot was allowed to hold when it began.
Throw(c) ==
    /\ call' = [call EXCEPT ![c] = NoCall]
    /\ promised' = [promised EXCEPT ![call[c].slot] = call[c].before]

-----------------------------------------------------------------------------
(* write                                                                   *)

\* BUG VARIANT: the bytes already stored are not counted.
FitsAlone(s, x) == Size[x] <= Quota

Fits(s, x) ==
    /\ Size[x] <= Quota
    /\ (stored - Bytes(file[s]) + Size[x]) % Modulus <= Quota

\* The name of the temporary file of a slot.
TmpOf(s) == s

\* stat and the quota check.  A call that does not fit throws at once.
WriteBegin(c, s, x) ==
    /\ call[c] = NoCall /\ c \in Writer
    /\ Unused(s)
    /\ Fits(s, x)
    /\ call' = [call EXCEPT ![c] =
        [pc |-> "create", slot |-> s, size |-> Size[x], replaced |-> Bytes(file[s]),
         content |-> x, seen |-> 0, before |-> promised[s], after |-> {x}]]
    /\ promised' = [promised EXCEPT ![s] = @ \cup {x}]
    /\ UNCHANGED <<files, stored>>

\* The temporary file of the call has the content it writes, this far done.
TmpHolds(c, data) ==
    tmp' = [tmp EXCEPT ![TmpOf(call[c].slot)] = [content |-> call[c].content, data |-> data]]

\* open with O_TRUNC.
CreateTmp(c) ==
    /\ At(c, "create")
    /\ \/ /\ TmpHolds(c, "partial")
          /\ Goto(c, "fill")
          /\ UNCHANGED promised
       \/ May("open") /\ Throw(c) /\ UNCHANGED tmp
    /\ UNCHANGED <<file, disk, stored>>

\* A failure of write or fsync removes the temporary file.
DropTmp(c) ==
    /\ tmp' = [tmp EXCEPT ![TmpOf(call[c].slot)] = NoFile]
    /\ Throw(c)

\* write_all of header and payload.
FillTmp(c) ==
    /\ At(c, "fill")
    /\ \/ /\ TmpHolds(c, "written")
          /\ Goto(c, "fsync")
          /\ UNCHANGED promised
       \/ May("write") /\ DropTmp(c)
    /\ UNCHANGED <<file, disk, stored>>

SyncTmp(c) ==
    /\ At(c, "fsync")
    /\ \/ /\ TmpHolds(c, "synced")
          /\ Goto(c, "rename")
          /\ UNCHANGED promised
       \/ May("fsync") /\ DropTmp(c)
    /\ UNCHANGED <<file, disk, stored>>

\* close and rename; when either fails the temporary file stays behind.
RenameTmp(c) ==
    LET s == call[c].slot IN
    /\ At(c, "rename")
    /\ \/ /\ file' = [file EXCEPT ![s] = tmp[TmpOf(s)]]
          /\ disk' = [disk EXCEPT ![s] = @ \cup {tmp[TmpOf(s)]}]
          /\ tmp' = [tmp EXCEPT ![TmpOf(s)] = NoFile]
          /\ Goto(c, "fsyncdir")
          /\ UNCHANGED promised
       \/ May("rename") /\ Throw(c) /\ UNCHANGED files
    /\ UNCHANGED stored

\* BUG VARIANT: the directory is not forced to the medium.
SyncDirSkipped(c) ==
    /\ At(c, "fsyncdir")
    /\ Goto(c, "load")
    /\ UNCHANGED <<files, stored, promised>>

\* fsync of the directory.  A failure is ignored: the call will return, but a
\* crash may still bring the old file back.
SyncDir(c) ==
    /\ At(c, "fsyncdir")
    /\ \/ /\ disk' = [s \in Slot |-> {file[s]}]
          /\ Goto(c, "load")
       \/ /\ May("fsyncdir")
          /\ call' = [call EXCEPT ![c].pc = "load", ![c].after = promised[call[c].slot]]
          /\ UNCHANGED disk
    /\ UNCHANGED <<file, tmp, stored, promised>>

-----------------------------------------------------------------------------
(* erase                                                                   *)

\* stat; the bytes of the file become what the call replaces by nothing.
EraseBegin(c, s) ==
    /\ call[c] = NoCall /\ c \in Eraser
    /\ Unused(s)
    /\ file[s] # NoFile
    /\ call' = [call EXCEPT ![c] =
        [pc |-> "unlink", slot |-> s, size |-> 0, replaced |-> Bytes(file[s]),
         content |-> NoFile, seen |-> 0,
         before |-> promised[s], after |-> promised[s] \cup {NoFile}]]
    /\ promised' = [promised EXCEPT ![s] = @ \cup {NoFile}]
    /\ UNCHANGED <<files, stored>>

\* The directory is not forced to the medium: a crash may undo the unlink.
Unlink(c) ==
    LET s == call[c].slot IN
    /\ At(c, "unlink")
    /\ \/ /\ file' = [file EXCEPT ![s] = NoFile]
          /\ disk' = [disk EXCEPT ![s] = @ \cup {NoFile}]
          /\ Goto(c, "load")
          /\ UNCHANGED promised
       \/ May("unlink") /\ Throw(c) /\ UNCHANGED <<file, disk>>
    /\ UNCHANGED <<tmp, stored>>

-----------------------------------------------------------------------------
(* The update of stored_bytes_ that ends both calls.                       *)

LoadStored(c) ==
    /\ At(c, "load")
    /\ call' = [call EXCEPT ![c].pc = "store", ![c].seen = stored]
    /\ UNCHANGED <<files, stored, promised>>

\* BUG VARIANT: a rewritten chunk is counted twice.
AccountedTwice(k) == (k.seen + k.size) % Modulus

Accounted(k) == (k.seen - k.replaced + k.size) % Modulus

\* The call returns; "after" is what the slot may hold from here on: what was
\* written, and also what it held before when the directory was not synced.
StoreStored(c) ==
    LET k == call[c] IN
    /\ At(c, "store")
    /\ stored' = Accounted(k)
    /\ call' = [call EXCEPT ![c] = NoCall]
    /\ promised' = [promised EXCEPT ![k.slot] = k.after]
    /\ UNCHANGED files

-----------------------------------------------------------------------------
(* A crash, and the constructor of the next process.                       *)

AfterCrash(f) ==
    IF f # NoFile /\ f.data = "written"
    THEN {f, [f EXCEPT !.data = "partial"]} ELSE {f}

\* Names that end in .bin are counted, so temporary files are not.
Recounted(fs) == Usage(fs) % Modulus

Crash ==
    /\ MayCrash
    /\ \E left \in [Slot -> UNION {UNION {AfterCrash(f) : f \in disk[s]} : s \in Slot}] :
        /\ \A s \in Slot : left[s] \in UNION {AfterCrash(f) : f \in disk[s]}
        /\ file' = left
        /\ disk' = [s \in Slot |-> {left[s]}]
        /\ stored' = Recounted(left)
    /\ call' = [c \in Client |-> NoCall]
    /\ UNCHANGED <<tmp, promised>>

Next ==
    \/ \E c \in Client :
        \/ \E s \in Slot, x \in Content : WriteBegin(c, s, x)
        \/ CreateTmp(c) \/ FillTmp(c) \/ SyncTmp(c) \/ RenameTmp(c) \/ SyncDir(c)
        \/ \E s \in Slot : EraseBegin(c, s)
        \/ Unlink(c)
        \/ LoadStored(c) \/ StoreStored(c)
    \/ Crash

Spec == Init /\ [][Next]_vars

-----------------------------------------------------------------------------
(* Properties.                                                             *)

\* A slot holds what a write that returned has put there, or what a write
\* under way is putting there, and so does every file a crash may leave: a
\* write that returned survives the crash, and one that did not leaves the old
\* chunk or the new one, whole (chunk_file_store.cpp:174-191).
CrashKeepsPromise ==
    \A s \in Slot : \A f \in disk[s] \cup {file[s]} :
        /\ ContentOf(f) \in promised[s]
        /\ f # NoFile => f.data = "synced"

AtRest == \A c \in Client : call[c] = NoCall

\* Between calls the counter is the size of the published files, after
\* failed calls and restarts too: erase gives back what write has taken
\* (chunk_file_store.cpp:192, 301, and the recount at 132-142).
QuotaExact == AtRest => stored = Usage(file)

\* No write takes the published files beyond the quota.  Only a crash that
\* undoes an erase may, when every call is gone; the recount then makes the
\* store refuse writes until enough is erased (chunk_file_store.cpp:169-173).
QuotaRespected ==
    [][~AtRest' /\ Usage(file') > Usage(file) => Usage(file') <= Quota]_vars
=============================================================================
