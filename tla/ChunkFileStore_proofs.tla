------------------------ MODULE ChunkFileStore_proofs ------------------------
(* Proofs about ChunkFileStore: whatever is written and erased by however  *)
(* many threads, whichever system calls fail and whenever the process      *)
(* crashes, a file is whole and is one the slot was promised; and, as long *)
(* as one thread makes the calls, the counter of stored bytes is exact and *)
(* the quota is kept.                                                      *)
EXTENDS ChunkFileStore, FiniteSetTheorems, TLAPS

Known == Content \cup {NoFile}

StoreTypes ==
    /\ file \in [Slot -> File \cup {NoFile}]
    /\ tmp \in [Slot -> File \cup {NoFile}]
    /\ disk \in [Slot -> SUBSET (File \cup {NoFile})]
    /\ promised \in [Slot -> SUBSET Known]
    /\ call = [c \in Client |-> call[c]]

\* Everything slot s may be found to hold, now or after a crash, is in S.
HoldsOnly(s, S) == \A f \in disk[s] \cup {file[s]} : ContentOf(f) \in S

Writing == {"create", "fill", "fsync", "rename"}

\* A call keeps the shape of its record.
IsCall(k) ==
    k = [pc |-> k.pc, slot |-> k.slot, size |-> k.size, replaced |-> k.replaced,
         content |-> k.content, seen |-> k.seen, before |-> k.before, after |-> k.after]

\* What is known of a call in progress at every point of it: until the file
\* changes hands the slot holds what "before" allows, which is what a failure
\* restores; after that what "after" allows, which is what returning promises.
CallFacts(c) ==
    LET k == call[c] IN
    /\ IsCall(k)
    /\ k.slot \in Slot
    /\ k.before \subseteq Known /\ k.after \subseteq Known
    /\ k.pc \in Writing \cup {"unlink"} => HoldsOnly(k.slot, k.before)
    /\ k.pc \in Writing \cup {"fsyncdir"} =>
        /\ k.content \in Content /\ k.content \in promised[k.slot]
        /\ k.after = {k.content}
    /\ k.pc = "rename" => tmp[k.slot] = [content |-> k.content, data |-> "synced"]
    /\ k.pc = "fsyncdir" => ContentOf(file[k.slot]) = k.content
    /\ k.pc = "unlink" =>
        /\ NoFile \in promised[k.slot]
        /\ k.after = k.before \cup {NoFile}
    /\ k.pc \in {"load", "store"} => HoldsOnly(k.slot, k.after)

CallsKnown == \A c \in Client : call[c] # NoCall => CallFacts(c)

\* No two calls work on one slot: what one promises no other disturbs.
CallsApart ==
    \A c, d \in Client :
        /\ call[c] # NoCall /\ call[d] # NoCall
        /\ call[c].slot = call[d].slot
        => c = d

StoreInv ==
    /\ StoreTypes
    /\ CrashKeepsPromise
    /\ CallsKnown
    /\ CallsApart

-----------------------------------------------------------------------------
(* Frames.                                                                 *)

\* Nothing happens to slot s, except that a crash may leave less of it.
Undisturbed(s) ==
    /\ file'[s] = file[s] /\ tmp'[s] = tmp[s] /\ promised'[s] = promised[s]
    /\ disk'[s] \subseteq disk[s] \cup {file[s]}

Kept(s) ==
    \A f \in disk[s] \cup {file[s]} :
        ContentOf(f) \in promised[s] /\ (f # NoFile => f.data = "synced")

\* The facts of a call survive what happens elsewhere.
LEMMA FactsSurvive ==
    ASSUME NEW c \in Client, CallFacts(c), call'[c] = call[c], Undisturbed(call[c].slot)
    PROVE  CallFacts(c)'
BY DEF CallFacts, Undisturbed, HoldsOnly, IsCall

\* A step of call c on slot s: only what concerns them has to be shown.
LEMMA StepOnSlot ==
    ASSUME StoreInv, StoreTypes', NEW c \in Client, NEW s \in Slot,
           \A d \in Client : d # c => call'[d] = call[d],
           \A d \in Client : d # c /\ call[d] # NoCall => call[d].slot # s,
           \A r \in Slot : r # s => Undisturbed(r),
           call'[c] # NoCall => call'[c].slot = s /\ CallFacts(c)',
           Kept(s)'
    PROVE  StoreInv'
<1>1. CrashKeepsPromise'
  BY DEF StoreInv, CrashKeepsPromise, Kept, Undisturbed
<1>2. ASSUME NEW d \in Client, call'[d] # NoCall, d # c PROVE CallFacts(d)'
  <2>1. call'[d] = call[d] /\ CallFacts(d) /\ call[d].slot # s
    BY <1>2 DEF StoreInv, CallsKnown
  <2>2. call[d].slot \in Slot
    BY <2>1 DEF CallFacts
  <2> QED BY <2>1, <2>2, FactsSurvive
<1>3. CallsKnown'
  BY <1>2 DEF CallsKnown
<1>4. CallsApart'
  BY DEF StoreInv, CallsApart
<1> QED BY <1>1, <1>3, <1>4 DEF StoreInv

\* Moving a call on changes its place alone.
LEMMA Moved ==
    ASSUME NEW k, IsCall(k), NEW p
    PROVE  LET m == [k EXCEPT !.pc = p] IN
           /\ IsCall(m)
           /\ m.pc = p /\ m.slot = k.slot /\ m.content = k.content
           /\ m.before = k.before /\ m.after = k.after
BY DEF IsCall

\* Changing what a call promises changes nothing else of it.
LEMMA Widened ==
    ASSUME NEW k, IsCall(k), NEW a
    PROVE  LET m == [k EXCEPT !.after = a] IN
           /\ IsCall(m)
           /\ m.pc = k.pc /\ m.slot = k.slot /\ m.content = k.content
           /\ m.before = k.before /\ m.after = a
BY DEF IsCall

\* What the invariant says of a call in progress.
LEMMA Called ==
    ASSUME StoreInv, NEW c \in Client, call[c] # NoCall
    PROVE  /\ CallFacts(c) /\ IsCall(call[c]) /\ call[c].slot \in Slot
           /\ Kept(call[c].slot)
           /\ \A d \in Client : d # c /\ call[d] # NoCall => call[d].slot # call[c].slot
BY DEF StoreInv, CallsKnown, CallsApart, CallFacts, CrashKeepsPromise, Kept

\* A call that throws: the slot still holds what it held before.
LEMMA ThrowStep ==
    ASSUME StoreInv, NEW c \in Client, call[c] # NoCall,
           call[c].pc \in Writing \cup {"unlink"}, Throw(c),
           UNCHANGED <<file, disk>>,
           tmp' = tmp \/ tmp' = [tmp EXCEPT ![call[c].slot] = NoFile]
    PROVE  StoreInv'
<1> DEFINE k == call[c]
<1>1. PICK s \in Slot : s = k.slot
  BY Called
<1>2. HoldsOnly(s, k.before) /\ k.before \subseteq Known
  BY <1>1, Called DEF CallFacts
<1>3. StoreTypes'
  <2>1. promised' \in [Slot -> SUBSET Known]
    BY <1>1, <1>2 DEF Throw, StoreInv, StoreTypes
  <2>2. tmp' \in [Slot -> File \cup {NoFile}]
    BY <1>1 DEF StoreInv, StoreTypes
  <2>3. call' = [d \in Client |-> call'[d]]
    BY DEF Throw, StoreInv, StoreTypes
  <2> QED BY <2>1, <2>2, <2>3 DEF StoreInv, StoreTypes
<1>4. \A d \in Client : d # c => call'[d] = call[d]
  BY DEF Throw, StoreInv, StoreTypes
<1>5. call'[c] = NoCall
  BY DEF Throw, StoreInv, StoreTypes
<1>6. \A r \in Slot : r # s => Undisturbed(r)
  BY <1>1 DEF Undisturbed, Throw, StoreInv, StoreTypes
<1>7. Kept(s)'
  <2>1. promised'[s] = k.before
    BY <1>1 DEF Throw, StoreInv, StoreTypes
  <2> QED BY <1>1, <1>2, <2>1, Called DEF Kept, HoldsOnly
<1> QED BY <1>1, <1>3, <1>4, <1>5, <1>6, <1>7, Called, StepOnSlot

\* A step of a call that moves on and writes to its temporary file at most.
LEMMA TmpStep ==
    ASSUME StoreInv, NEW c \in Client, call[c] # NoCall, call[c].pc \in Writing,
           NEW p \in Writing, Goto(c, p),
           NEW data \in {"partial", "written", "synced"}, TmpHolds(c, data),
           p = "rename" => data = "synced",
           UNCHANGED <<file, disk, promised>>
    PROVE  StoreInv'
<1>0. PICK k : k = call[c]
  OBVIOUS
<1>1. PICK s \in Slot : s = k.slot
  BY <1>0, Called
<1>2. /\ HoldsOnly(s, k.before) /\ k.before \subseteq Known /\ k.after \subseteq Known
      /\ k.content \in Content /\ k.content \in promised[s] /\ k.after = {k.content}
  BY <1>0, <1>1, Called DEF CallFacts
<1>3. call' = [call EXCEPT ![c] = [k EXCEPT !.pc = p]]
  BY <1>0 DEF Goto
<1>4. /\ IsCall(k) /\ call'[c] = [k EXCEPT !.pc = p]
      /\ \A d \in Client : d # c => call'[d] = call[d]
      /\ call' = [d \in Client |-> call'[d]]
  BY <1>0, <1>3, Called DEF StoreInv, StoreTypes
<1> DEFINE m == [k EXCEPT !.pc = p]
<1>5. /\ IsCall(m) /\ m.pc = p /\ m.slot = s /\ m.content = k.content
      /\ m.before = k.before /\ m.after = k.after
  BY <1>1, <1>4, Moved
<1>6. tmp' = [tmp EXCEPT ![s] = [content |-> k.content, data |-> data]]
  BY <1>0, <1>1 DEF TmpHolds, TmpOf
<1>7. StoreTypes'
  BY <1>2, <1>4, <1>6 DEF StoreInv, StoreTypes, File
<1>8. \A r \in Slot : r # s => Undisturbed(r)
  BY <1>6 DEF Undisturbed, StoreInv, StoreTypes
<1>9. tmp'[s] = [content |-> k.content, data |-> data]
  BY <1>6 DEF StoreInv, StoreTypes
<1>10. call'[c].slot = s /\ Kept(s)'
  BY <1>0, <1>1, <1>4, <1>5, Called DEF Kept
<1>11. CallFacts(c)'
  <2>1. call'[c] = m
    BY <1>4
  <2> HIDE DEF m
  <2>2. HoldsOnly(s, k.before)'
    BY <1>2 DEF HoldsOnly
  <2> QED BY <1>2, <1>5, <1>9, <2>1, <2>2 DEF CallFacts, Writing, HoldsOnly
<1>12. \A d \in Client : d # c => call'[d] = call[d]
  BY <1>4
<1>13. \A d \in Client : d # c /\ call[d] # NoCall => call[d].slot # s
  BY <1>0, <1>1, Called
<1> QED BY <1>7, <1>8, <1>10, <1>11, <1>12, <1>13, StepOnSlot

\* open, write and fsync of the temporary file.
LEMMA TmpSteps ==
    ASSUME StoreInv, NEW c \in Client, CreateTmp(c) \/ FillTmp(c) \/ SyncTmp(c)
    PROVE  StoreInv'
<1>1. call[c] # NoCall /\ call[c].pc \in Writing /\ UNCHANGED <<file, disk>>
  BY DEF CreateTmp, FillTmp, SyncTmp, At, Writing
<1>2. CASE Throw(c) /\ (tmp' = tmp \/ tmp' = [tmp EXCEPT ![call[c].slot] = NoFile])
  BY <1>1, <1>2, ThrowStep
<1>3. CASE /\ promised' = promised
           /\ \/ TmpHolds(c, "partial") /\ Goto(c, "fill")
              \/ TmpHolds(c, "written") /\ Goto(c, "fsync")
              \/ TmpHolds(c, "synced") /\ Goto(c, "rename")
  BY <1>1, <1>3, TmpStep DEF Writing
<1> QED BY <1>2, <1>3 DEF CreateTmp, FillTmp, SyncTmp, DropTmp, TmpOf

FilesTyped ==
    /\ file \in [Slot -> File \cup {NoFile}]
    /\ tmp \in [Slot -> File \cup {NoFile}]
    /\ disk \in [Slot -> SUBSET (File \cup {NoFile})]
    /\ promised \in [Slot -> SUBSET Known]

\* A call in progress that becomes m.
LEMMA CallStep ==
    ASSUME StoreInv, NEW c \in Client, call[c] # NoCall,
           NEW s \in Slot, s = call[c].slot,
           NEW m, call' = [call EXCEPT ![c] = m],
           m # NoCall => m.slot = s /\ CallFacts(c)',
           FilesTyped', \A r \in Slot : r # s => Undisturbed(r), Kept(s)'
    PROVE  StoreInv'
<1>1. /\ call'[c] = m /\ \A d \in Client : d # c => call'[d] = call[d]
      /\ call' = [d \in Client |-> call'[d]]
  BY DEF StoreInv, StoreTypes
<1>2. \A d \in Client : d # c /\ call[d] # NoCall => call[d].slot # s
  BY Called
<1>3. StoreTypes'
  BY <1>1 DEF FilesTyped, StoreTypes
<1> QED BY <1>1, <1>2, <1>3, StepOnSlot

\* The files are published: the slot holds the new chunk and, on the medium,
\* perhaps still the old one.
LEMMA RenameStep ==
    ASSUME StoreInv, NEW c \in Client, RenameTmp(c)
    PROVE  StoreInv'
<1>1. PICK k : k = call[c]
  OBVIOUS
<1>2. k # NoCall /\ k.pc = "rename"
  BY <1>1 DEF RenameTmp, At
<1>3. PICK s \in Slot : s = k.slot
  BY <1>1, <1>2, Called
<1>4. CASE Throw(c) /\ UNCHANGED files
  BY <1>1, <1>2, <1>4, ThrowStep DEF Writing, files
<1>5. CASE /\ file' = [file EXCEPT ![s] = tmp[s]]
           /\ disk' = [disk EXCEPT ![s] = @ \cup {tmp[s]}]
           /\ tmp' = [tmp EXCEPT ![s] = NoFile]
           /\ Goto(c, "fsyncdir")
           /\ UNCHANGED promised
  <2> DEFINE m == [k EXCEPT !.pc = "fsyncdir"]
             f == [content |-> k.content, data |-> "synced"]
  <2>1. /\ IsCall(k) /\ k.before \subseteq Known /\ k.after \subseteq Known
        /\ k.content \in Content /\ k.content \in promised[s] /\ k.after = {k.content}
        /\ tmp[s] = f
    BY <1>1, <1>2, <1>3, Called DEF CallFacts, Writing
  <2>2. /\ IsCall(m) /\ m.pc = "fsyncdir" /\ m.slot = s /\ m.content = k.content
        /\ m.before = k.before /\ m.after = k.after
    BY <1>3, <2>1, Moved
  <2>3. f \in File /\ f # NoFile /\ f.content = k.content /\ f.data = "synced"
    BY <2>1, NoFileIsNone DEF File
  <2>4. call' = [call EXCEPT ![c] = m]
    BY <1>1, <1>5 DEF Goto
  <2> HIDE DEF m, f
  <2>5. call'[c] = m
    BY <2>4 DEF StoreInv, StoreTypes
  <2>6. FilesTyped'
    BY <1>5, <2>1, <2>3 DEF FilesTyped, StoreInv, StoreTypes
  <2>7. file'[s] = f /\ disk'[s] = disk[s] \cup {f} /\ promised'[s] = promised[s]
    BY <1>5, <2>1 DEF StoreInv, StoreTypes
  <2>8. \A r \in Slot : r # s => Undisturbed(r)
    BY <1>5 DEF Undisturbed, StoreInv, StoreTypes
  <2>9. ContentOf(f) = k.content
    BY <2>3 DEF ContentOf
  <2>10. Kept(s)'
    <3>1. Kept(s)
      BY <1>1, <1>2, <1>3, Called
    <3> QED BY <2>1, <2>3, <2>7, <2>9, <3>1 DEF Kept, ContentOf
  <2>11. CallFacts(c)'
    <3>1. ContentOf(file[s])' = k.content
      BY <2>7, <2>9 DEF ContentOf
    <3> QED BY <2>1, <2>2, <2>5, <2>7, <3>1 DEF CallFacts, Writing, ContentOf
  <2> QED BY <1>1, <1>2, <1>3, <2>2, <2>4, <2>6, <2>8, <2>10, <2>11, CallStep
<1> QED BY <1>1, <1>3, <1>4, <1>5 DEF RenameTmp, TmpOf

\* The directory reaches the medium, or the promise stays as wide as it was.
LEMMA SyncDirStep ==
    ASSUME StoreInv, NEW c \in Client, SyncDir(c)
    PROVE  StoreInv'
<1>1. PICK k : k = call[c]
  OBVIOUS
<1>2. k # NoCall /\ k.pc = "fsyncdir" /\ UNCHANGED <<file, tmp, promised>>
  BY <1>1 DEF SyncDir, At
<1>3. PICK s \in Slot : s = k.slot
  BY <1>1, <1>2, Called
<1>4. /\ IsCall(k) /\ k.before \subseteq Known /\ k.after \subseteq Known
      /\ k.after = {k.content} /\ ContentOf(file[s]) = k.content /\ Kept(s)
  BY <1>1, <1>2, <1>3, Called DEF CallFacts
<1>5. \/ disk' = [r \in Slot |-> {file[r]}] /\ call' = [call EXCEPT ![c] = [k EXCEPT !.pc = "load"]]
      \/ /\ disk' = disk
         /\ call' = [call EXCEPT ![c] = [k EXCEPT !.pc = "load", !.after = promised[s]]]
  BY <1>1, <1>3 DEF SyncDir, Goto
<1>6. PICK m : /\ call' = [call EXCEPT ![c] = m]
               /\ IsCall(m) /\ m.pc = "load" /\ m.slot = s /\ m.before = k.before
               /\ \/ disk' = [r \in Slot |-> {file[r]}] /\ m.after = k.after
                  \/ disk' = disk /\ m.after = promised[s]
  <2>1. /\ IsCall([k EXCEPT !.pc = "load"])
        /\ [k EXCEPT !.pc = "load"].pc = "load" /\ [k EXCEPT !.pc = "load"].slot = s
        /\ [k EXCEPT !.pc = "load"].before = k.before
        /\ [k EXCEPT !.pc = "load"].after = k.after
    BY <1>3, <1>4, Moved
  <2> DEFINE n == [k EXCEPT !.pc = "load", !.after = promised[s]]
  <2>2. /\ IsCall(n) /\ n.pc = "load" /\ n.slot = s
        /\ n.before = k.before /\ n.after = promised[s]
    <3> DEFINE q == [k EXCEPT !.pc = "load"]
    <3>1. IsCall(q) /\ q.pc = "load" /\ q.slot = s /\ q.before = k.before
      BY <2>1
    <3>2. n = [q EXCEPT !.after = promised[s]]
      OBVIOUS
    <3> HIDE DEF n, q
    <3> QED BY <3>1, <3>2, Widened
  <2> QED BY <1>5, <2>1, <2>2
<1>7. call'[c] = m
  BY <1>6 DEF StoreInv, StoreTypes
<1>8. FilesTyped'
  BY <1>2, <1>6 DEF FilesTyped, StoreInv, StoreTypes
<1>9. \A r \in Slot : Undisturbed(r)
  BY <1>2, <1>6 DEF Undisturbed
<1>10. Kept(s)'
  BY <1>4, <1>9 DEF Kept, Undisturbed
<1>11. m.after \subseteq Known
  BY <1>4, <1>6 DEF StoreInv, StoreTypes
<1>12. HoldsOnly(s, m.after)'
  BY <1>2, <1>4, <1>6 DEF HoldsOnly, Kept
<1>13. CallFacts(c)'
  BY <1>4, <1>6, <1>7, <1>11, <1>12 DEF CallFacts, Writing, HoldsOnly
<1> QED BY <1>1, <1>2, <1>3, <1>6, <1>8, <1>9, <1>10, <1>13, CallStep

\* The file is gone; a crash may bring it back, which "after" allows for.
LEMMA UnlinkStep ==
    ASSUME StoreInv, NEW c \in Client, Unlink(c)
    PROVE  StoreInv'
<1>1. PICK k : k = call[c]
  OBVIOUS
<1>2. k # NoCall /\ k.pc = "unlink"
  BY <1>1 DEF Unlink, At
<1>3. PICK s \in Slot : s = k.slot
  BY <1>1, <1>2, Called
<1>4. CASE Throw(c) /\ UNCHANGED <<file, disk, tmp>>
  BY <1>1, <1>2, <1>4, ThrowStep
<1>5. CASE /\ file' = [file EXCEPT ![s] = NoFile]
           /\ disk' = [disk EXCEPT ![s] = @ \cup {NoFile}]
           /\ Goto(c, "load")
           /\ UNCHANGED <<promised, tmp>>
  <2> DEFINE m == [k EXCEPT !.pc = "load"]
  <2>1. /\ IsCall(k) /\ k.before \subseteq Known /\ k.after \subseteq Known
        /\ HoldsOnly(s, k.before) /\ NoFile \in promised[s]
        /\ k.after = k.before \cup {NoFile} /\ Kept(s)
    BY <1>1, <1>2, <1>3, Called DEF CallFacts
  <2>2. /\ IsCall(m) /\ m.pc = "load" /\ m.slot = s
        /\ m.before = k.before /\ m.after = k.after
    BY <1>3, <2>1, Moved
  <2>3. call' = [call EXCEPT ![c] = m]
    BY <1>1, <1>5 DEF Goto
  <2> HIDE DEF m
  <2>4. call'[c] = m
    BY <2>3 DEF StoreInv, StoreTypes
  <2>5. FilesTyped'
    BY <1>5 DEF FilesTyped, StoreInv, StoreTypes
  <2>6. /\ file'[s] = NoFile /\ disk'[s] = disk[s] \cup {NoFile}
        /\ promised'[s] = promised[s]
    BY <1>5 DEF StoreInv, StoreTypes
  <2>7. \A r \in Slot : r # s => Undisturbed(r)
    BY <1>5 DEF Undisturbed, StoreInv, StoreTypes
  <2>8. Kept(s)'
    BY <2>1, <2>6 DEF Kept, ContentOf
  <2>9. HoldsOnly(s, m.after)'
    BY <2>1, <2>2, <2>6 DEF HoldsOnly, ContentOf
  <2>10. CallFacts(c)'
    BY <2>1, <2>2, <2>4, <2>9 DEF CallFacts, Writing, HoldsOnly
  <2> QED BY <1>1, <1>2, <1>3, <2>2, <2>3, <2>5, <2>7, <2>8, <2>10, CallStep
<1> QED BY <1>1, <1>3, <1>4, <1>5 DEF Unlink

\* The update of the counter: the files are as they were, and the promise is
\* narrowed to what the call has made true.
LEMMA CounterStep ==
    ASSUME StoreInv, NEW c \in Client, LoadStored(c) \/ StoreStored(c)
    PROVE  StoreInv'
<1>1. PICK k : k = call[c]
  OBVIOUS
<1>2. k # NoCall /\ k.pc \in {"load", "store"} /\ UNCHANGED <<file, tmp, disk>>
  BY <1>1 DEF LoadStored, StoreStored, At, files
<1>3. PICK s \in Slot : s = k.slot
  BY <1>1, <1>2, Called
<1>4. /\ IsCall(k) /\ k.before \subseteq Known /\ k.after \subseteq Known
      /\ HoldsOnly(s, k.after) /\ Kept(s)
  BY <1>1, <1>2, <1>3, Called DEF CallFacts
<1>5. CASE LoadStored(c)
  <2>1. PICK v : v = stored
    OBVIOUS
  <2> DEFINE q == [k EXCEPT !.pc = "store"]
             m == [q EXCEPT !.seen = v]
  <2>2. IsCall(q) /\ q.pc = "store" /\ q.slot = s /\ q.before = k.before /\ q.after = k.after
    BY <1>3, <1>4, Moved
  <2>3. call' = [call EXCEPT ![c] = m] /\ promised' = promised
    BY <1>1, <1>5, <2>1 DEF LoadStored
  <2> HIDE DEF q
  <2>4. IsCall(m) /\ m.pc = "store" /\ m.slot = s /\ m.before = k.before /\ m.after = k.after
    BY <2>2 DEF IsCall
  <2> HIDE DEF m
  <2>5. call'[c] = m
    BY <2>3 DEF StoreInv, StoreTypes
  <2>6. FilesTyped'
    BY <1>2, <2>3 DEF FilesTyped, StoreInv, StoreTypes
  <2>7. Kept(s)' /\ HoldsOnly(s, m.after)' /\ \A r \in Slot : Undisturbed(r)
    BY <1>2, <1>4, <2>3, <2>4 DEF Kept, HoldsOnly, Undisturbed
  <2>8. CallFacts(c)'
    BY <1>4, <2>4, <2>5, <2>7 DEF CallFacts, Writing, HoldsOnly
  <2> QED BY <1>1, <1>2, <1>3, <2>3, <2>4, <2>6, <2>7, <2>8, CallStep
<1>6. CASE StoreStored(c)
  <2>1. /\ call' = [call EXCEPT ![c] = NoCall]
        /\ promised' = [promised EXCEPT ![s] = k.after]
    BY <1>1, <1>3, <1>6 DEF StoreStored
  <2>2. FilesTyped'
    BY <1>2, <1>4, <2>1 DEF FilesTyped, StoreInv, StoreTypes
  <2>3. \A r \in Slot : r # s => Undisturbed(r)
    BY <1>2, <2>1 DEF Undisturbed, StoreInv, StoreTypes
  <2>4. Kept(s)'
    <3>1. promised'[s] = k.after
      BY <2>1 DEF StoreInv, StoreTypes
    <3> QED BY <1>2, <1>4, <3>1 DEF Kept, HoldsOnly
  <2> QED BY <1>1, <1>2, <1>3, <2>1, <2>2, <2>3, <2>4, CallStep
<1> QED BY <1>5, <1>6

\* A call that begins takes a slot nobody works on, and widens its promise.
LEMMA BeginStep ==
    ASSUME StoreInv, NEW c \in Client, NEW s \in Slot,
           (\E x \in Content : WriteBegin(c, s, x)) \/ EraseBegin(c, s)
    PROVE  StoreInv'
<1>1. /\ \A d \in Client : d # c /\ call[d] # NoCall => call[d].slot # s
      /\ UNCHANGED <<file, tmp, disk>>
  BY DEF WriteBegin, EraseBegin, Unused, files
<1>2. PICK old \in SUBSET Known : old = promised[s]
  BY DEF StoreInv, StoreTypes
<1>3. Kept(s) /\ HoldsOnly(s, old)
  BY <1>2 DEF StoreInv, CrashKeepsPromise, Kept, HoldsOnly
<1> DEFINE Begins(y, m) ==
             /\ call' = [call EXCEPT ![c] = m]
             /\ promised' = [promised EXCEPT ![s] = old \cup {y}]
             /\ IsCall(m) /\ m.slot = s /\ m.before = old /\ m.content = y
             /\ \/ m.pc = "create" /\ y \in Content /\ m.after = {y}
                \/ m.pc = "unlink" /\ y = NoFile /\ m.after = old \cup {NoFile}
<1>4. PICK y \in Known : \E m : Begins(y, m)
  <2>1. ASSUME NEW x \in Content, WriteBegin(c, s, x)
        PROVE  \E m : Begins(x, m)
    <3> DEFINE m == [pc |-> "create", slot |-> s, size |-> Size[x],
                     replaced |-> Bytes(file[s]), content |-> x, seen |-> 0,
                     before |-> old, after |-> {x}]
    <3>1. /\ IsCall(m) /\ m.slot = s /\ m.before = old /\ m.content = x
          /\ m.pc = "create" /\ m.after = {x}
      BY DEF IsCall
    <3>2. call' = [call EXCEPT ![c] = m] /\ promised' = [promised EXCEPT ![s] = old \cup {x}]
      BY <1>2, <2>1 DEF WriteBegin
    <3> HIDE DEF m
    <3>3. Begins(x, m)
      BY <3>1, <3>2
    <3> QED BY <3>3
  <2>2. ASSUME EraseBegin(c, s)
        PROVE  \E m : Begins(NoFile, m)
    <3> DEFINE m == [pc |-> "unlink", slot |-> s, size |-> 0,
                     replaced |-> Bytes(file[s]), content |-> NoFile, seen |-> 0,
                     before |-> old, after |-> old \cup {NoFile}]
    <3>1. /\ IsCall(m) /\ m.slot = s /\ m.before = old /\ m.content = NoFile
          /\ m.pc = "unlink" /\ m.after = old \cup {NoFile}
      BY DEF IsCall
    <3>2. call' = [call EXCEPT ![c] = m]
          /\ promised' = [promised EXCEPT ![s] = old \cup {NoFile}]
      BY <1>2, <2>2 DEF EraseBegin
    <3> HIDE DEF m
    <3>3. Begins(NoFile, m)
      BY <3>1, <3>2
    <3> QED BY <3>3
  <2>3. NoFile \in Known /\ \A x \in Content : x \in Known
    BY DEF Known
  <2> HIDE DEF Begins
  <2> QED BY <2>1, <2>2, <2>3
<1>5. PICK m : Begins(y, m)
  BY <1>4
<1>6. /\ call'[c] = m /\ \A d \in Client : d # c => call'[d] = call[d]
      /\ call' = [d \in Client |-> call'[d]]
      /\ promised'[s] = old \cup {y}
  BY <1>5 DEF StoreInv, StoreTypes
<1>7. StoreTypes'
  BY <1>1, <1>5, <1>6 DEF StoreInv, StoreTypes
<1>8. \A r \in Slot : r # s => Undisturbed(r)
  BY <1>1, <1>5 DEF Undisturbed, StoreInv, StoreTypes
<1>9. Kept(s)' /\ HoldsOnly(s, old)'
  BY <1>1, <1>2, <1>3, <1>6 DEF Kept, HoldsOnly
<1>10. CallFacts(c)'
  <2>1. m.after \subseteq Known
    BY <1>5 DEF Known
  <2> QED BY <1>5, <1>6, <1>9, <2>1 DEF CallFacts, Writing, HoldsOnly
<1>11. call'[c] # NoCall => call'[c].slot = s /\ CallFacts(c)'
  BY <1>5, <1>6, <1>10
<1>12. \A d \in Client : d # c => call'[d] = call[d]
  BY <1>6
<1> QED BY <1>1, <1>7, <1>8, <1>9, <1>11, <1>12, StepOnSlot

\* A crash leaves of every slot one file it could have had, whole because no
\* other file was ever renamed, and no call.
LEMMA CrashStep ==
    ASSUME StoreInv, Crash
    PROVE  StoreInv'
<1>1. PICK left \in [Slot -> UNION {UNION {AfterCrash(f) : f \in disk[s]} : s \in Slot}] :
        /\ \A s \in Slot : left[s] \in UNION {AfterCrash(f) : f \in disk[s]}
        /\ file' = left
        /\ disk' = [s \in Slot |-> {left[s]}]
  BY DEF Crash
<1>2. /\ call' = [c \in Client |-> NoCall] /\ UNCHANGED <<tmp, promised>>
  BY DEF Crash
<1>3. ASSUME NEW s \in Slot PROVE left[s] \in disk[s]
  <2>1. PICK f \in disk[s] : left[s] \in AfterCrash(f)
    BY <1>1
  <2>2. f # NoFile => f.data = "synced"
    BY DEF StoreInv, CrashKeepsPromise
  <2>3. AfterCrash(f) = {f}
    BY <2>2 DEF AfterCrash
  <2> QED BY <2>1, <2>3
<1>4. CrashKeepsPromise'
  BY <1>1, <1>2, <1>3 DEF StoreInv, CrashKeepsPromise, ContentOf
<1>5. StoreTypes'
  <2>1. \A s \in Slot : left[s] \in File \cup {NoFile}
    BY <1>3 DEF StoreInv, StoreTypes
  <2>2. file' \in [Slot -> File \cup {NoFile}]
    BY <1>1, <2>1
  <2>3. disk' \in [Slot -> SUBSET (File \cup {NoFile})]
    BY <1>1, <2>1
  <2>4. call' = [c \in Client |-> call'[c]]
    BY <1>2
  <2> QED BY <1>2, <2>2, <2>3, <2>4 DEF StoreInv, StoreTypes
<1>6. CallsKnown' /\ CallsApart'
  BY <1>2 DEF CallsKnown, CallsApart
<1> QED BY <1>4, <1>5, <1>6 DEF StoreInv

-----------------------------------------------------------------------------
(* Crashes.                                                                *)

LEMMA InitStore ==
    ASSUME Init PROVE StoreInv
<1>1. StoreTypes
  BY DEF Init, StoreTypes, Known
<1>2. CrashKeepsPromise
  BY DEF Init, CrashKeepsPromise, ContentOf
<1>3. CallsKnown /\ CallsApart
  BY DEF Init, CallsKnown, CallsApart
<1> QED BY <1>1, <1>2, <1>3 DEF StoreInv

LEMMA NextStore ==
    ASSUME StoreInv, [Next]_vars PROVE StoreInv'
<1>1. CASE Next
  BY <1>1, BeginStep, TmpSteps, RenameStep, SyncDirStep, UnlinkStep, CounterStep,
     CrashStep DEF Next
<1>2. CASE UNCHANGED vars
  <2>1. UNCHANGED <<file, tmp, disk, call, promised>>
    BY <1>2 DEF vars, files
  <2>2. StoreTypes' /\ CrashKeepsPromise' /\ CallsApart'
    BY <2>1 DEF StoreInv, StoreTypes, CrashKeepsPromise, CallsApart, ContentOf
  <2>3. CallsKnown'
    BY <2>1 DEF StoreInv, CallsKnown, CallFacts, HoldsOnly, IsCall, ContentOf
  <2> QED BY <2>2, <2>3 DEF StoreInv
<1> QED BY <1>1, <1>2

\* A slot holds, now and after any crash, nothing or a whole file that a call
\* which returned has put there or a call under way is putting there, for any
\* number of slots and threads and whichever system calls fail.
THEOREM CrashesKeepPromises == Spec => []CrashKeepsPromise
<1>1. Init => StoreInv
  BY InitStore
<1>2. StoreInv /\ [Next]_vars => StoreInv'
  BY NextStore
<1>3. StoreInv => CrashKeepsPromise
  BY DEF StoreInv
<1> QED BY <1>1, <1>2, <1>3, PTL DEF Spec

-----------------------------------------------------------------------------
(* The bytes of the files.                                                 *)

Files == [Slot -> File \cup {NoFile}]

LEMMA BytesNat ==
    ASSUME NEW f \in File \cup {NoFile}
    PROVE  Bytes(f) \in 0..(Modulus - 1)
BY ModulusPositive, SizesPositive, NoFileIsNone DEF Bytes, File

LEMMA OneFile ==
    ASSUME NEW s, NEW n \in Nat
    PROVE  IsFiniteSet({s} \X (1..n)) /\ Cardinality({s} \X (1..n)) = n
<1>1. IsFiniteSet({s}) /\ Cardinality({s}) = 1
  BY FS_Singleton
<1>2. IsFiniteSet(1..n) /\ Cardinality(1..n) = n
  BY FS_Interval
<1>3. /\ IsFiniteSet({s} \X (1..n))
      /\ Cardinality({s} \X (1..n)) = Cardinality({s}) * Cardinality(1..n)
  BY <1>1, <1>2, FS_Product
<1> QED BY <1>1, <1>2, <1>3

LEMMA UsageNat ==
    ASSUME NEW fs \in Files
    PROVE  IsFiniteSet(BytesIn(fs)) /\ Usage(fs) \in Nat
<1>1. IsFiniteSet(Slot \X (1..Modulus))
  <2>1. IsFiniteSet(1..Modulus)
    BY ModulusPositive, FS_Interval
  <2> QED BY <2>1, SlotsAreFinite, FS_Product
<1>2. BytesIn(fs) \subseteq Slot \X (1..Modulus)
  <2>1. \A s \in Slot : Bytes(fs[s]) \in 0..(Modulus - 1)
    BY BytesNat DEF Files
  <2>2. \A s \in Slot : {s} \X (1..Bytes(fs[s])) \subseteq Slot \X (1..Modulus)
    BY <2>1, ModulusPositive
  <2> QED BY <2>2 DEF BytesIn
<1>3. IsFiniteSet(BytesIn(fs))
  BY <1>1, <1>2, FS_Subset
<1> QED BY <1>3, FS_CardinalityType DEF Usage

LEMMA DisjointUnion ==
    ASSUME NEW S, NEW T, IsFiniteSet(S), IsFiniteSet(T), S \cap T = {}
    PROVE  Cardinality(S \cup T) = Cardinality(S) + Cardinality(T)
<1>1. Cardinality(S \cap T) = 0
  BY FS_EmptySet
<1>2. Cardinality(S) \in Nat /\ Cardinality(T) \in Nat
  BY FS_CardinalityType
<1>3. Cardinality(S \cup T) = Cardinality(S) + Cardinality(T) - Cardinality(S \cap T)
  BY FS_Union
<1> QED BY <1>1, <1>2, <1>3

BytesBut(fs, s) == UNION {{r} \X (1..Bytes(fs[r])) : r \in Slot \ {s}}

LEMMA BytesSplit ==
    ASSUME NEW fs, NEW s \in Slot
    PROVE  BytesIn(fs) = BytesBut(fs, s) \cup ({s} \X (1..Bytes(fs[s])))
BY DEF BytesIn, BytesBut

\* One file less and another more.
LEMMA UsageChanges ==
    ASSUME NEW fs \in Files, NEW s \in Slot, NEW f \in File \cup {NoFile}
    PROVE  LET gs == [fs EXCEPT ![s] = f] IN
           /\ gs \in Files
           /\ Usage(gs) = Usage(fs) - Bytes(fs[s]) + Bytes(f)
<1> DEFINE gs == [fs EXCEPT ![s] = f]
           rest == BytesBut(fs, s)
           old == {s} \X (1..Bytes(fs[s]))
           new == {s} \X (1..Bytes(f))
<1>1. gs \in Files /\ gs[s] = f /\ \A r \in Slot \ {s} : gs[r] = fs[r]
  BY DEF Files
<1>2. Bytes(fs[s]) \in Nat /\ Bytes(f) \in Nat
  BY BytesNat, ModulusPositive DEF Files
<1>3. /\ IsFiniteSet(old) /\ Cardinality(old) = Bytes(fs[s])
      /\ IsFiniteSet(new) /\ Cardinality(new) = Bytes(f)
  BY <1>2, OneFile
<1>4. BytesIn(fs) = rest \cup old
  BY BytesSplit
<1>5. BytesIn(gs) = rest \cup new
  <2> HIDE DEF gs
  <2>1. BytesBut(gs, s) = rest
    BY <1>1 DEF BytesBut
  <2>2. BytesIn(gs) = BytesBut(gs, s) \cup ({s} \X (1..Bytes(gs[s])))
    BY BytesSplit
  <2> QED BY <1>1, <2>1, <2>2
<1>6. rest \cap old = {} /\ rest \cap new = {}
  BY DEF BytesBut
<1>7. IsFiniteSet(rest)
  <2>1. rest \subseteq BytesIn(fs)
    BY <1>4
  <2> HIDE DEF rest
  <2> QED BY <2>1, UsageNat, FS_Subset
<1> HIDE DEF gs, rest, old, new
<1>8. Cardinality(BytesIn(fs)) = Cardinality(rest) + Cardinality(old)
  BY <1>3, <1>4, <1>6, <1>7, DisjointUnion
<1>9. Cardinality(BytesIn(gs)) = Cardinality(rest) + Cardinality(new)
  BY <1>3, <1>5, <1>6, <1>7, DisjointUnion
<1>10. Cardinality(rest) \in Nat
  BY <1>7, FS_CardinalityType
<1>11. Usage(gs) = Usage(fs) - Bytes(fs[s]) + Bytes(f)
  BY <1>2, <1>3, <1>8, <1>9, <1>10 DEF Usage
<1> QED BY <1>1, <1>11 DEF gs

\* No medium holds so many bytes that their number does not fit.
FilesFit == \A fs \in Files : Usage(fs) < Modulus

LEMMA FitsWord ==
    ASSUME FilesFit, NEW fs \in Files
    PROVE  Usage(fs) \in Nat /\ Usage(fs) % Modulus = Usage(fs)
<1>1. PICK u \in Nat : u = Usage(fs) /\ u < Modulus
  BY UsageNat DEF FilesFit
<1>2. PICK m \in Nat : m = Modulus /\ m > 0
  BY ModulusPositive
<1>3. u % m = u
  BY <1>1, <1>2
<1> QED BY <1>1, <1>2, <1>3

-----------------------------------------------------------------------------
(* The quota, as long as one thread makes the calls.                       *)

OneCaller == \A c, d \in Client : c = d

Counting == {"fsyncdir", "load", "store"}

\* What a call has found out of the files, and will do to the counter.
CountFacts(c) ==
    LET k == call[c] IN
    /\ k \in Call
    /\ k.pc \in Writing \cup {"unlink"} =>
        stored = Usage(file) /\ k.replaced = Bytes(file[k.slot])
    /\ k.pc \in Counting => stored - k.replaced + k.size = Usage(file)
    /\ k.pc = "store" => k.seen = stored
    /\ k.pc \in Writing =>
        k.size = Size[k.content] /\ stored - k.replaced + k.size <= Quota
    /\ k.pc = "unlink" => k.size = 0

QuotaInv ==
    /\ StoreInv
    /\ stored \in Nat
    /\ \A c \in Client : call[c] # NoCall => CountFacts(c)
    /\ AtRest => stored = Usage(file)

LEMMA QuotaStep ==
    ASSUME OneCaller, StoreInv', NEW c \in Client, stored' \in Nat,
           call'[c] # NoCall => CountFacts(c)',
           call'[c] = NoCall => stored' = Usage(file)'
    PROVE  QuotaInv'
BY DEF OneCaller, QuotaInv, AtRest

\* Moving a call on changes nothing of what it counts.
LEMMA MovedCount ==
    ASSUME NEW k \in Call, NEW p \in {"fill", "fsync", "rename", "fsyncdir", "load", "store"}
    PROVE  LET m == [k EXCEPT !.pc = p] IN
           /\ m \in Call /\ m.pc = p /\ m.slot = k.slot /\ m.content = k.content
           /\ m.size = k.size /\ m.replaced = k.replaced /\ m.seen = k.seen
BY DEF Call

LEMMA InCall ==
    ASSUME QuotaInv, NEW c \in Client, call[c] # NoCall
    PROVE  /\ IsCall(call[c]) /\ call[c].slot \in Slot /\ CallFacts(c) /\ CountFacts(c)
           /\ file \in Files /\ Usage(file) \in Nat /\ stored \in Nat
           /\ \A m : call' = [call EXCEPT ![c] = m] => call'[c] = m
<1>1. file \in Files
  BY DEF QuotaInv, StoreInv, StoreTypes, Files
<1> QED BY <1>1, Called, UsageNat DEF QuotaInv, StoreInv, StoreTypes

\* A call that throws leaves the files and the counter as it found them.
LEMMA ThrowCounts ==
    ASSUME OneCaller, QuotaInv, StoreInv', NEW c \in Client, call[c] # NoCall,
           call[c].pc \in Writing \cup {"unlink"}, Throw(c), UNCHANGED <<file, stored>>
    PROVE  QuotaInv'
<1>1. call'[c] = NoCall
  BY InCall DEF Throw
<1>2. stored = Usage(file) /\ stored \in Nat
  BY InCall DEF CountFacts
<1> QED BY <1>1, <1>2, QuotaStep DEF Usage, BytesIn, Bytes

\* A call that moves on, and nobody notices.
LEMMA MoveCounts ==
    ASSUME OneCaller, QuotaInv, StoreInv', NEW c \in Client, call[c] # NoCall,
           NEW m \in Call, call' = [call EXCEPT ![c] = m],
           m.size = call[c].size, m.replaced = call[c].replaced, m.slot = call[c].slot,
           m.content = call[c].content,
           \/ call[c].pc \in Writing /\ m.pc \in Writing
           \/ call[c].pc = "fsyncdir" /\ m.pc = "load"
           \/ call[c].pc = "load" /\ m.pc = "store" /\ m.seen = stored,
           UNCHANGED <<file, stored>>
    PROVE  QuotaInv'
<1>1. call'[c] = m /\ m # NoCall /\ stored \in Nat /\ CountFacts(c)'
  <2>1. call'[c] = m /\ CountFacts(c) /\ stored \in Nat
    BY InCall
  <2>2. Usage(file)' = Usage(file) /\ \A s : Bytes(file[s])' = Bytes(file[s])
    BY DEF Usage, BytesIn, Bytes
  <2> QED BY <2>1, <2>2, NoCallIsNone DEF CountFacts, Writing, Counting
<1> QED BY <1>1, QuotaStep

LEMMA BeginCounts ==
    ASSUME OneCaller, FilesFit, QuotaInv, StoreInv', NEW c \in Client, NEW s \in Slot,
           (\E x \in Content : WriteBegin(c, s, x)) \/ EraseBegin(c, s)
    PROVE  QuotaInv'
<1>1. /\ file \in Files /\ stored \in Nat /\ file' = file /\ stored' = stored
      /\ call[c] = NoCall /\ promised[s] \in SUBSET (Content \cup {NoFile})
  BY DEF QuotaInv, StoreInv, StoreTypes, Files, Known, WriteBegin, EraseBegin, files
<1>2. stored = Usage(file) /\ Usage(file) \in Nat
  BY <1>1, UsageNat DEF QuotaInv, AtRest, OneCaller
<1>3. PICK b \in Nat : b = Bytes(file[s])
  BY <1>1, BytesNat, ModulusPositive DEF Files
<1>4. ASSUME NEW m \in Call, call' = [call EXCEPT ![c] = m],
             m.slot = s, m.replaced = b,
             \/ m.pc = "unlink" /\ m.size = 0
             \/ /\ m.pc = "create" /\ m.size = Size[m.content]
                /\ stored - b + m.size <= Quota
      PROVE  QuotaInv'
  <2>1. call'[c] = m /\ m # NoCall
    BY <1>4, NoCallIsNone DEF QuotaInv, StoreInv, StoreTypes
  <2>2. Usage(file)' = Usage(file) /\ Bytes(file[s])' = b
    BY <1>1, <1>3 DEF Usage, BytesIn, Bytes
  <2>3. CountFacts(c)'
    BY <1>1, <1>2, <1>4, <2>1, <2>2 DEF CountFacts, Writing, Counting
  <2> QED BY <1>1, <2>1, <2>3, QuotaStep
<1>5. ASSUME NEW x \in Content, WriteBegin(c, s, x) PROVE QuotaInv'
  <2> DEFINE m == [pc |-> "create", slot |-> s, size |-> Size[x], replaced |-> b,
                   content |-> x, seen |-> 0, before |-> promised[s], after |-> {x}]
  <2>1. Size[x] \in Nat
    BY SizesPositive, ModulusPositive
  <2>2. m \in Call
    BY <1>1, <2>1 DEF Call
  <2>3. call' = [call EXCEPT ![c] = m]
    BY <1>3, <1>5 DEF WriteBegin
  <2>4. stored - b + Size[x] <= Quota
    <3> DEFINE f == [content |-> x, data |-> "synced"]
               gs == [file EXCEPT ![s] = f]
    <3>1. f \in File /\ Bytes(f) = Size[x]
      BY NoFileIsNone DEF File, Bytes
    <3>2. gs \in Files /\ Usage(gs) = Usage(file) - b + Size[x]
      BY <1>1, <1>3, <3>1, UsageChanges
    <3>3. Usage(gs) % Modulus = Usage(gs)
      BY <3>2, FitsWord
    <3>4. (stored - b + Size[x]) % Modulus <= Quota
      BY <1>3, <1>5 DEF WriteBegin, Fits
    <3> HIDE DEF gs
    <3> QED BY <1>2, <3>2, <3>3, <3>4
  <2>5. m.slot = s /\ m.replaced = b /\ m.pc = "create" /\ m.size = Size[m.content] /\ m.size = Size[x]
    OBVIOUS
  <2> HIDE DEF m
  <2> QED BY <1>4, <2>2, <2>3, <2>4, <2>5
<1>6. ASSUME EraseBegin(c, s) PROVE QuotaInv'
  <2> DEFINE m == [pc |-> "unlink", slot |-> s, size |-> 0, replaced |-> b,
                   content |-> NoFile, seen |-> 0, before |-> promised[s],
                   after |-> promised[s] \cup {NoFile}]
  <2>1. m \in Call
    BY <1>1 DEF Call
  <2>2. call' = [call EXCEPT ![c] = m]
    BY <1>3, <1>6 DEF EraseBegin
  <2>3. m.slot = s /\ m.replaced = b /\ m.pc = "unlink" /\ m.size = 0
    OBVIOUS
  <2> HIDE DEF m
  <2> QED BY <1>4, <2>1, <2>2, <2>3
<1> QED BY <1>5, <1>6

\* open, write, fsync, and the fsync of the directory.
LEMMA QuietCounts ==
    ASSUME OneCaller, QuotaInv, StoreInv', NEW c \in Client,
           CreateTmp(c) \/ FillTmp(c) \/ SyncTmp(c) \/ SyncDir(c)
    PROVE  QuotaInv'
<1>1. PICK k : k = call[c]
  OBVIOUS
<1>2. /\ k # NoCall /\ k.pc \in {"create", "fill", "fsync", "fsyncdir"}
      /\ UNCHANGED <<file, stored>>
  BY <1>1 DEF CreateTmp, FillTmp, SyncTmp, SyncDir, At
<1>3. k \in Call
  BY <1>1, <1>2, InCall DEF CountFacts
<1>4. CASE k.pc # "fsyncdir" /\ Throw(c)
  BY <1>1, <1>2, <1>4, ThrowCounts DEF Writing
<1>5. ASSUME NEW p \in {"fill", "fsync", "rename", "load"}, Goto(c, p),
             p = "load" <=> k.pc = "fsyncdir"
      PROVE  QuotaInv'
  <2> DEFINE m == [k EXCEPT !.pc = p]
  <2>1. /\ m \in Call /\ m.pc = p /\ m.slot = k.slot /\ m.content = k.content
        /\ m.size = k.size /\ m.replaced = k.replaced
    <3>1. p \in {"fill", "fsync", "rename", "fsyncdir", "load", "store"}
      BY <1>5
    <3> QED BY <1>3, <3>1, MovedCount
  <2>2. call' = [call EXCEPT ![c] = m]
    BY <1>1, <1>5 DEF Goto
  <2> HIDE DEF m
  <2> QED BY <1>1, <1>2, <1>5, <2>1, <2>2, MoveCounts DEF Writing
<1>6. CASE /\ k.pc = "fsyncdir"
           /\ call' = [call EXCEPT ![c].pc = "load", ![c].after = promised[call[c].slot]]
  <2>1. PICK a \in SUBSET (Content \cup {NoFile}) : a = promised[k.slot]
    BY <1>1, <1>2, InCall DEF QuotaInv, StoreInv, StoreTypes, Known
  <2> DEFINE m == [k EXCEPT !.pc = "load", !.after = a]
  <2>2. /\ m \in Call /\ m.pc = "load" /\ m.slot = k.slot /\ m.content = k.content
        /\ m.size = k.size /\ m.replaced = k.replaced
    BY <1>3 DEF Call
  <2>3. call' = [call EXCEPT ![c] = m]
    BY <1>1, <1>6, <2>1
  <2> HIDE DEF m
  <2> QED BY <1>1, <1>2, <1>6, <2>2, <2>3, MoveCounts
<1> QED BY <1>1, <1>2, <1>4, <1>5, <1>6 DEF CreateTmp, FillTmp, SyncTmp, SyncDir, DropTmp, At

\* The rename, and the unlink: the files change by what the call will add to
\* the counter, and a write has made sure that they still fit the quota.
LEMMA RenameCounts ==
    ASSUME OneCaller, QuotaInv, StoreInv', NEW c \in Client, RenameTmp(c)
    PROVE  /\ QuotaInv'
           /\ file' = file \/ Usage(file') <= Quota
<1>1. PICK k : k = call[c]
  OBVIOUS
<1>2. k # NoCall /\ k.pc = "rename" /\ stored' = stored
  BY <1>1 DEF RenameTmp, At
<1>3. PICK s \in Slot : s = k.slot
  BY <1>1, <1>2, InCall
<1>4. /\ k \in Call /\ file \in Files /\ Usage(file) \in Nat /\ stored \in Nat
      /\ stored = Usage(file) /\ k.replaced = Bytes(file[s])
      /\ k.size = Size[k.content] /\ stored - k.replaced + k.size <= Quota
  BY <1>1, <1>2, <1>3, InCall DEF CountFacts, Writing
<1>5. CASE Throw(c) /\ file' = file
  BY <1>1, <1>2, <1>5, ThrowCounts DEF Writing
<1>6. CASE file' = [file EXCEPT ![s] = tmp[s]] /\ Goto(c, "fsyncdir")
  <2> DEFINE m == [k EXCEPT !.pc = "fsyncdir"]
             f == [content |-> k.content, data |-> "synced"]
  <2>1. tmp[s] = f /\ k.content \in Content
    BY <1>1, <1>2, <1>3, Called DEF CallFacts, Writing, QuotaInv
  <2>2. f \in File /\ Bytes(f) = k.size
    BY <1>4, <2>1, NoFileIsNone DEF File, Bytes
  <2>3. PICK gs \in Files : /\ gs = [file EXCEPT ![s] = f]
                           /\ Usage(gs) = stored - k.replaced + k.size
    BY <1>4, <2>2, UsageChanges
  <2>4. file' = gs
    BY <1>6, <2>1, <2>3
  <2>5. Usage(file)' = stored - k.replaced + k.size /\ Usage(file') = stored - k.replaced + k.size
    BY <2>3, <2>4 DEF Usage, BytesIn, Bytes
  <2>6. /\ m \in Call /\ m.pc = "fsyncdir" /\ m.slot = k.slot /\ m.content = k.content
        /\ m.size = k.size /\ m.replaced = k.replaced
    BY <1>4, MovedCount
  <2>7. call' = [call EXCEPT ![c] = m]
    BY <1>1, <1>6 DEF Goto
  <2> HIDE DEF m, f
  <2>8. call'[c] = m /\ m # NoCall
    BY <1>1, <1>2, <2>6, <2>7, InCall, NoCallIsNone
  <2>9. CountFacts(c)'
    BY <1>2, <2>5, <2>6, <2>8 DEF CountFacts, Writing, Counting
  <2>10. QuotaInv'
    BY <1>2, <1>4, <2>8, <2>9, QuotaStep
  <2> QED BY <1>4, <2>5, <2>10
<1> QED BY <1>1, <1>3, <1>5, <1>6 DEF RenameTmp, TmpOf, files

LEMMA UnlinkCounts ==
    ASSUME OneCaller, QuotaInv, StoreInv', NEW c \in Client, Unlink(c)
    PROVE  QuotaInv' /\ Usage(file') <= Usage(file)
<1>1. PICK k : k = call[c]
  OBVIOUS
<1>2. k # NoCall /\ k.pc = "unlink" /\ stored' = stored
  BY <1>1 DEF Unlink, At
<1>3. PICK s \in Slot : s = k.slot
  BY <1>1, <1>2, InCall
<1>4. /\ k \in Call /\ file \in Files /\ Usage(file) \in Nat /\ stored \in Nat
      /\ stored = Usage(file) /\ k.replaced = Bytes(file[s]) /\ k.size = 0
      /\ k.replaced \in Nat
  BY <1>1, <1>2, <1>3, InCall DEF CountFacts, Call
<1>5. CASE Throw(c) /\ file' = file
  <2>1. Usage(file') = Usage(file)
    BY <1>5
  <2> QED BY <1>1, <1>2, <1>4, <1>5, <2>1, ThrowCounts
<1>6. CASE file' = [file EXCEPT ![s] = NoFile] /\ Goto(c, "load")
  <2> DEFINE m == [k EXCEPT !.pc = "load"]
  <2>1. Bytes(NoFile) = 0
    BY DEF Bytes
  <2>2. PICK gs \in Files : gs = [file EXCEPT ![s] = NoFile] /\ Usage(gs) = stored - k.replaced
    <3> DEFINE gs == [file EXCEPT ![s] = NoFile]
    <3>1. gs \in Files /\ Usage(gs) = Usage(file) - Bytes(file[s]) + Bytes(NoFile)
      BY <1>4, UsageChanges
    <3> HIDE DEF gs
    <3>2. Usage(gs) = stored - k.replaced
      BY <1>4, <2>1, <3>1
    <3> QED BY <3>1, <3>2 DEF gs
  <2>3. Usage(file)' = stored - k.replaced /\ Usage(file') = stored - k.replaced
    BY <1>6, <2>2 DEF Usage, BytesIn, Bytes
  <2>4. /\ m \in Call /\ m.pc = "load" /\ m.slot = k.slot /\ m.content = k.content
        /\ m.size = k.size /\ m.replaced = k.replaced
    BY <1>4, MovedCount
  <2>5. call' = [call EXCEPT ![c] = m]
    BY <1>1, <1>6 DEF Goto
  <2> HIDE DEF m
  <2>6. call'[c] = m /\ m # NoCall
    BY <1>1, <1>2, <2>4, <2>5, InCall, NoCallIsNone
  <2>7. CountFacts(c)'
    BY <1>2, <1>4, <2>3, <2>4, <2>6 DEF CountFacts, Writing, Counting
  <2>8. QuotaInv'
    BY <1>2, <1>4, <2>6, <2>7, QuotaStep
  <2> QED BY <1>4, <2>3, <2>8
<1> QED BY <1>1, <1>3, <1>5, <1>6 DEF Unlink

\* The load and the store of the counter.
LEMMA CounterCounts ==
    ASSUME OneCaller, FilesFit, QuotaInv, StoreInv', NEW c \in Client,
           LoadStored(c) \/ StoreStored(c)
    PROVE  QuotaInv'
<1>1. PICK k : k = call[c]
  OBVIOUS
<1>2. k # NoCall /\ k.pc \in {"load", "store"} /\ file' = file
  BY <1>1 DEF LoadStored, StoreStored, At, files
<1>3. /\ k \in Call /\ file \in Files /\ stored \in Nat /\ Usage(file) \in Nat
      /\ stored - k.replaced + k.size = Usage(file)
      /\ k.pc = "store" => k.seen = stored
  BY <1>1, <1>2, InCall DEF CountFacts, Counting
<1>4. CASE LoadStored(c)
  <2>1. PICK v \in Nat : v = stored
    BY <1>3
  <2> DEFINE m == [k EXCEPT !.pc = "store", !.seen = v]
  <2>2. /\ m \in Call /\ m.pc = "store" /\ m.slot = k.slot /\ m.content = k.content
        /\ m.size = k.size /\ m.replaced = k.replaced /\ m.seen = v
    BY <1>3 DEF Call
  <2>3. call' = [call EXCEPT ![c] = m] /\ stored' = stored /\ k.pc = "load"
    BY <1>1, <1>4, <2>1 DEF LoadStored, At
  <2> HIDE DEF m
  <2> QED BY <1>1, <1>2, <2>1, <2>2, <2>3, MoveCounts
<1>5. CASE StoreStored(c)
  <2>1. call'[c] = NoCall
    BY <1>1, <1>2, <1>5, InCall DEF StoreStored
  <2>2. stored' = (k.seen - k.replaced + k.size) % Modulus /\ k.pc = "store"
    BY <1>1, <1>5 DEF StoreStored, Accounted, At
  <2>3. stored' = Usage(file)
    BY <1>3, <2>2, FitsWord
  <2>4. Usage(file)' = Usage(file)
    BY <1>2 DEF Usage, BytesIn, Bytes
  <2> QED BY <1>3, <2>1, <2>3, <2>4, QuotaStep
<1> QED BY <1>4, <1>5

LEMMA CrashCounts ==
    ASSUME OneCaller, FilesFit, QuotaInv, StoreInv', Crash
    PROVE  QuotaInv' /\ AtRest'
<1>1. PICK left : file' = left /\ stored' = Usage(left) % Modulus
  BY DEF Crash, Recounted
<1>2. left \in Files
  BY <1>1 DEF StoreInv, StoreTypes, Files
<1>3. stored' = Usage(left) /\ stored' \in Nat
  BY <1>1, <1>2, FitsWord
<1>4. Usage(file)' = Usage(left)
  BY <1>1 DEF Usage, BytesIn, Bytes
<1>5. \A c \in Client : call'[c] = NoCall
  BY DEF Crash
<1> QED BY <1>3, <1>4, <1>5 DEF QuotaInv, AtRest

LEMMA QuotaNext ==
    ASSUME OneCaller, FilesFit, QuotaInv, [Next]_vars
    PROVE  /\ QuotaInv'
           /\ ~AtRest' /\ Usage(file') > Usage(file) => Usage(file') <= Quota
<1>1. StoreInv'
  BY NextStore DEF QuotaInv
<1>2. Usage(file) \in Nat
  BY UsageNat DEF QuotaInv, StoreInv, StoreTypes, Files
<1>3. ASSUME file' = file PROVE ~(Usage(file') > Usage(file))
  BY <1>2, <1>3
<1>4. ASSUME NEW c \in Client, NEW s \in Slot,
             (\E x \in Content : WriteBegin(c, s, x)) \/ EraseBegin(c, s)
      PROVE  QuotaInv' /\ file' = file
  BY <1>1, <1>4, BeginCounts DEF WriteBegin, EraseBegin, files
<1>5. ASSUME NEW c \in Client, CreateTmp(c) \/ FillTmp(c) \/ SyncTmp(c) \/ SyncDir(c)
      PROVE  QuotaInv' /\ file' = file
  BY <1>1, <1>5, QuietCounts DEF CreateTmp, FillTmp, SyncTmp, SyncDir
<1>6. ASSUME NEW c \in Client, LoadStored(c) \/ StoreStored(c)
      PROVE  QuotaInv' /\ file' = file
  BY <1>1, <1>6, CounterCounts DEF LoadStored, StoreStored, files
<1>7. ASSUME NEW c \in Client, RenameTmp(c)
      PROVE  QuotaInv' /\ (file' = file \/ Usage(file') <= Quota)
  BY <1>1, <1>7, RenameCounts
<1>8. ASSUME NEW c \in Client, Unlink(c)
      PROVE  QuotaInv' /\ ~(Usage(file') > Usage(file))
  <2>1. QuotaInv' /\ Usage(file') <= Usage(file)
    BY <1>1, <1>8, UnlinkCounts
  <2>2. Usage(file') \in Nat
    BY <1>1, UsageNat DEF StoreInv, StoreTypes, Files
  <2> QED BY <1>2, <2>1, <2>2
<1>9. CASE Crash
  BY <1>1, <1>9, CrashCounts
<1>10. CASE UNCHANGED vars
  <2>1. file' = file /\ stored' = stored /\ call' = call
    BY <1>10 DEF vars, files
  <2>2. Usage(file)' = Usage(file) /\ \A s : Bytes(file[s])' = Bytes(file[s])
    BY <2>1 DEF Usage, BytesIn, Bytes
  <2>3. QuotaInv'
    BY <1>1, <2>1, <2>2 DEF QuotaInv, AtRest, CountFacts
  <2> QED BY <1>3, <2>1, <2>3
<1> QED BY <1>3, <1>4, <1>5, <1>6, <1>7, <1>8, <1>9, <1>10 DEF Next

LEMMA QuotaInit ==
    ASSUME Init PROVE QuotaInv
<1>1. StoreInv
  BY InitStore
<1>2. BytesIn(file) = {}
  BY DEF Init, BytesIn, Bytes
<1>3. Usage(file) = 0
  BY <1>2, FS_EmptySet DEF Usage
<1> QED BY <1>1, <1>3 DEF Init, QuotaInv

\* As long as one thread makes the calls, the counter is the number of bytes
\* in the published files whenever no call is under way, after every failed
\* call, crash and restart (chunk_file_store.cpp:192, 301, and 132-142).
THEOREM QuotaIsExact ==
    ASSUME OneCaller, FilesFit PROVE Spec => []QuotaExact
<1>1. Init => QuotaInv
  BY QuotaInit
<1>2. QuotaInv /\ [Next]_vars => QuotaInv'
  BY QuotaNext
<1>3. QuotaInv => QuotaExact
  BY DEF QuotaInv, QuotaExact
<1> QED BY <1>1, <1>2, <1>3, PTL DEF Spec

\* As long as one thread makes the calls, no write takes the published files
\* beyond the quota (chunk_file_store.cpp:169-173).
THEOREM QuotaIsRespected ==
    ASSUME OneCaller, FilesFit PROVE Spec => QuotaRespected
<1>1. Init => QuotaInv
  BY QuotaInit
<1>2. QuotaInv /\ [Next]_vars => QuotaInv'
  BY QuotaNext
<1>3. QuotaInv /\ [Next]_vars
        => [~AtRest' /\ Usage(file') > Usage(file) => Usage(file') <= Quota]_vars
  BY QuotaNext
<1> QED BY <1>1, <1>2, <1>3, PTL DEF Spec, QuotaRespected
=============================================================================
