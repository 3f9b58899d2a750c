--------------------------- MODULE ChunkResidency ---------------------------
(***************************************************************************)
(* What the synchronous transfers promise about where one chunk can be     *)
(* read: it is copied between neighbouring tiers, one copy at a time, and  *)
(* the copy it came from is given up only together with, never before, the *)
(* arrival of the new one.  The remaining ways to lose a copy are named:   *)
(* the caller drops it, or a transfer is stranded by an error it could not *)
(* roll back or by the end of the object that ran it.                      *)
(***************************************************************************)
CONSTANT Still   \* no copy of the chunk is under way

Tier == {"GPU", "CPU", "NVME"}

Neighbours(src, dst) == src # dst /\ "CPU" \in {src, dst}

VARIABLES
    copies,   \* the tiers the chunk can be read from
    moving,   \* source and destination of the copy under way, or Still
    given     \* a copy has been given up half-way

resVars == <<copies, moving, given>>

ResInit == copies = {} /\ moving = Still /\ ~given

Fill(t) ==
    /\ copies = {} /\ moving = Still
    /\ copies' = {t}
    /\ UNCHANGED <<moving, given>>

MayCopy(src, dst) ==
    moving = Still /\ Neighbours(src, dst) /\ src \in copies /\ dst \notin copies

Begin(src, dst) ==
    /\ MayCopy(src, dst)
    /\ moving' = [from |-> src, to |-> dst]
    /\ UNCHANGED <<copies, given>>

\* What is left when a copy has arrived.
Arrived(src, dst, release) == (copies \cup {dst}) \ (IF release THEN {src} ELSE {})

End(release) ==
    /\ moving # Still
    /\ copies' = Arrived(moving.from, moving.to, release)
    /\ moving' = Still
    /\ UNCHANGED given

\* Begin and End in one call.
Copy(src, dst, release) ==
    /\ MayCopy(src, dst)
    /\ copies' = Arrived(src, dst, release)
    /\ UNCHANGED <<moving, given>>

\* The caller removes or condemns a copy nobody is reading.
Drop(t) ==
    /\ t \in copies
    /\ moving # Still => moving.from # t
    /\ copies' = copies \ {t}
    /\ UNCHANGED <<moving, given>>

\* A copy that is under way, or could not be undone, is given up for good,
\* and its source is not readable any more.
Strand(src) ==
    /\ src \in copies
    /\ moving # Still => moving.from = src
    /\ copies' = copies \ {src}
    /\ moving' = Still
    /\ given'

ResNext ==
    \/ \E t \in Tier : Fill(t) \/ Drop(t) \/ Strand(t)
    \/ \E src, dst \in Tier :
        \/ Begin(src, dst)
        \/ \E release \in BOOLEAN : Copy(src, dst, release)
    \/ \E release \in BOOLEAN : End(release)

ResSpec == ResInit /\ [][ResNext]_resVars
=============================================================================
