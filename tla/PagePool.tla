------------------------------ MODULE PagePool ------------------------------
(***************************************************************************)
(* What PhysicalBlockPool promises to the page tables of v2: a page is     *)
(* handed out when nobody refers to it, pages that hold a published prefix *)
(* are given up only when no other page is left, and a prefix has one page *)
(* at most.  Free list, LRU list, hash index and generations are those of  *)
(* BlockManager, which implements this specification.                      *)
(***************************************************************************)
EXTENDS Naturals

CONSTANTS
    Page,      \* ids of the physical pages
    Prefix,    \* the token prefixes that may be published
    NoPrefix   \* prefix of a page that is not published

ASSUME NoPrefixIsNone == NoPrefix \notin Prefix

VARIABLES
    refs,      \* the reference count of every page
    prefix     \* the prefix every page is published under, or NoPrefix

poolVars == <<refs, prefix>>

PoolInit ==
    /\ refs = [p \in Page |-> 0]
    /\ prefix = [p \in Page |-> NoPrefix]

Published(q) == {p \in Page : q # NoPrefix /\ prefix[p] = q}

Unreferenced == {p \in Page : refs[p] = 0}
FreePages == {p \in Unreferenced : prefix[p] = NoPrefix}

\* The pages allocate may return: a free one, else one that is only cached.
Allocatable == IF FreePages # {} THEN FreePages ELSE Unreferenced

\* BUG VARIANT: the page stays published under its old prefix.
AllocateStillPublished(p, q) ==
    /\ p \in Allocatable
    /\ refs' = [refs EXCEPT ![p] = 1]
    /\ UNCHANGED prefix

\* allocate; q is NoPrefix, or the prefix the page is published under at once.
Allocate(p, q) ==
    /\ p \in Allocatable
    /\ Published(q) = {}
    /\ refs' = [refs EXCEPT ![p] = 1]
    /\ prefix' = [prefix EXCEPT ![p] = q]

\* retain of a page that is referenced or published, and lookup.
Retain(p) ==
    /\ p \notin FreePages
    /\ refs' = [refs EXCEPT ![p] = @ + 1]
    /\ UNCHANGED prefix

\* free of one reference to every one of these pages.
Release(pages) ==
    /\ \A p \in pages : refs[p] > 0
    /\ refs' = [p \in Page |-> IF p \in pages THEN refs[p] - 1 ELSE refs[p]]
    /\ UNCHANGED prefix

Publishable(p, q) == refs[p] = 1 /\ prefix[p] = NoPrefix /\ Published(q) = {}

Publish(p, q) ==
    /\ Publishable(p, q)
    /\ prefix' = [prefix EXCEPT ![p] = q]
    /\ UNCHANGED refs

PoolNext ==
    \E p \in Page :
        \/ \E q \in Prefix \cup {NoPrefix} : Allocate(p, q)
        \/ Retain(p)
        \/ Release({p})
        \/ \E q \in Prefix : Publish(p, q)

PoolSpec == PoolInit /\ [][PoolNext]_poolVars
=============================================================================
