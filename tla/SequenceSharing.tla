-------------------------- MODULE SequenceSharing --------------------------
(***************************************************************************)
(* The requests of v2 over one pool of pages: SequenceState with its       *)
(* BlockTable, forks that share pages, copy-on-write, the PrefixCache, and *)
(* SequenceLifecycle, which runs one request and ends it at the first      *)
(* failure.                                                                *)
(*                                                                         *)
(* All of it belongs to one thread, but a call takes its pages one by one  *)
(* and may fail at each, so a call in progress is a record, one step per   *)
(* page.  What a token's K and V are is abstracted to the token: text[r]   *)
(* is what the request stands for, kv what the device memory holds.        *)
(*                                                                         *)
(* The caller publishes a block only when its K and V are written          *)
(* (prefix_cache.h:19), and forks a request only then                      *)
(* (docs/v2_copy_on_write.md:30).                                          *)
(***************************************************************************)
EXTENDS PagePool, PagedReads, FiniteSets, SequencesExt

CONSTANTS
    Request,    \* the callers' SequenceState and SequenceLifecycle objects
    Token,      \* the tokens that occur
    MaxTokens,  \* bound: the longest request
    Fault,      \* what may fail: "memory", "hash", "copy", "gpu"
    NoCall      \* no call is in progress

Text == UNION {[1..n -> Token] : n \in 0..MaxTokens}

ASSUME MaxTokensIsNat == MaxTokens \in Nat

ASSUME PrefixesAreFullBlocks ==
    Prefix = {t \in Text : t # <<>> /\ Len(t) % BlockSize = 0}

ASSUME JunkIsNoToken == Junk \notin Token

ASSUME InvalidBlockIsNoPage == InvalidBlock \notin Page

\* What is known of a call between two of its steps.
Calls ==
    [op : {"append"}, who : Request, count : 1..MaxTokens, pages : Nat]
        \cup [op : {"copy"}, who : Request, page : Page]
        \cup [op : {"compute"}, who : Request]
        \cup [op : {"attend"}, who : Request, queries : Nat]
        \cup [op : {"fork"}, who : Request, from : Request]
        \cup [op : {"attach"}, who : Request, want : Text]
        \cup [op : {"hit", "attached"}, who : Request, want : Text, page : Page]

ASSUME NoCallIsNone == NoCall \notin Calls

VARIABLES
    kind,       \* of every object: none, a sequence, a new or a running lifecycle
    table,      \* the pages of every request, in logical order
    text,       \* the tokens of every request; their number is num_tokens
    written,    \* how many of them have their K and V in memory
    kv,         \* what every slot of every page holds
    call        \* the call in progress

requests == <<kind, table, text, written>>
vars == <<poolVars, requests, kv, call>>

Blank == [o \in 0..BlockSize - 1 |-> Junk]

Init ==
    /\ PoolInit
    /\ kind = [r \in Request |-> "none"]
    /\ table = [r \in Request |-> <<>>]
    /\ text = [r \in Request |-> <<>>]
    /\ written = [r \in Request |-> 0]
    /\ kv = [p \in Page |-> Blank]
    /\ call = NoCall

IsLifecycle(r) == kind[r] \in {"new", "running"}
Doing(op) == call # NoCall /\ call.op = op
May(fault) == fault \in Fault

-----------------------------------------------------------------------------
(* Where tokens lie, and what pages hold.                                  *)

\* BUG VARIANT: the last page is forgotten when it is not full.
PagesForDown(n) == n \div BlockSize

PagesFor(n) == n \div BlockSize + (IF n % BlockSize # 0 THEN 1 ELSE 0)

\* token_location of the i-th token of a request, counted from 1.
PageOf(r, i) == table[r][(i - 1) \div BlockSize + 1]
OffsetOf(i) == (i - 1) % BlockSize

\* The memory after the unwritten tokens of r are written to their slots.
WithTokens(r) ==
    [p \in Page |-> [o \in 0..BlockSize - 1 |->
        LET here == {i \in written[r] + 1..Len(text[r]) :
                        PageOf(r, i) = p /\ OffsetOf(i) = o}
        IN IF here = {} THEN kv[p][o] ELSE text[r][CHOOSE i \in here : TRUE]]]

\* BUG VARIANT: a shared tail is taken for a private one.
TailSharedNever(r) == FALSE

TailShared(r) == Len(text[r]) % BlockSize # 0 /\ refs[Last(table[r])] > 1

\* A page is taken from the pool; nobody knows what is in it.
TakePage(p) ==
    /\ Allocate(p, NoPrefix)
    /\ kv' = [kv EXCEPT ![p] = Blank]

CannotAllocate == Allocatable = {} \/ May("memory")

\* References go back to the pool.  What a free page holds is of no concern.
GiveBack(pages, memory) ==
    /\ Release(pages)
    /\ kv' = [p \in Page |->
        IF p \in pages /\ refs[p] = 1 /\ prefix[p] = NoPrefix THEN Blank ELSE memory[p]]

\* BUG VARIANT: the page a failed call holds besides the table is not freed.
FailsKeepingPage(r, held, keep, memory) ==
    LET n == IF IsLifecycle(r) THEN 0 ELSE keep IN
    /\ GiveBack(ToSet(SubSeq(table[r], n + 1, Len(table[r]))), memory)
    /\ table' = [table EXCEPT ![r] = SubSeq(@, 1, n)]
    /\ text' = IF n = 0 THEN [text EXCEPT ![r] = <<>>] ELSE text
    /\ written' = IF n = 0 THEN [written EXCEPT ![r] = 0] ELSE written
    /\ kind' = IF IsLifecycle(r) THEN [kind EXCEPT ![r] = "none"] ELSE kind
    /\ call' = NoCall

\* The call throws.  A sequence goes back to its first "keep" pages, a
\* lifecycle finishes; "held" are the pages the call holds besides the table.
Fails(r, held, keep, memory) ==
    LET n == IF IsLifecycle(r) THEN 0 ELSE keep IN
    /\ GiveBack(held \cup ToSet(SubSeq(table[r], n + 1, Len(table[r]))), memory)
    /\ table' = [table EXCEPT ![r] = SubSeq(@, 1, n)]
    /\ text' = IF n = 0 THEN [text EXCEPT ![r] = <<>>] ELSE text
    /\ written' = IF n = 0 THEN [written EXCEPT ![r] = 0] ELSE written
    /\ kind' = IF IsLifecycle(r) THEN [kind EXCEPT ![r] = "none"] ELSE kind
    /\ call' = NoCall

\* What follows when the tokens have their places.
AfterAppend(r) == IF IsLifecycle(r) THEN [op |-> "compute", who |-> r] ELSE NoCall

-----------------------------------------------------------------------------
(* Objects come and go.                                                    *)

Open(r, k) ==
    /\ call = NoCall
    /\ kind[r] = "none"
    /\ kind' = [kind EXCEPT ![r] = k]
    /\ UNCHANGED <<poolVars, table, text, written, kv, call>>

\* finish, and the destructors.
Close(r) ==
    /\ call = NoCall
    /\ kind[r] # "none"
    /\ GiveBack(ToSet(table[r]), kv)
    /\ kind' = [kind EXCEPT ![r] = "none"]
    /\ table' = [table EXCEPT ![r] = <<>>]
    /\ text' = [text EXCEPT ![r] = <<>>]
    /\ written' = [written EXCEPT ![r] = 0]
    /\ UNCHANGED call

-----------------------------------------------------------------------------
(* Appending.                                                              *)

BeginAppend(r, count) ==
    /\ call' = [op |-> "append", who |-> r, count |-> count, pages |-> Len(table[r])]
    /\ UNCHANGED <<poolVars, requests, kv>>

Room(r) == MaxTokens - Len(text[r])

\* The request stands for so many more tokens, whatever the caller means by them.
Lengthen(r, count) ==
    \E new \in [1..count -> Token] : text' = [text EXCEPT ![r] = @ \o new]

\* append_tokens; a count of zero changes nothing, a shared tail that is not full is refused.
AppendTokens(r, count) ==
    /\ call = NoCall
    /\ kind[r] = "sequence"
    /\ count <= Room(r)
    /\ ~TailShared(r)
    /\ BeginAppend(r, count)

Prefill(r, count) ==
    /\ call = NoCall
    /\ kind[r] = "new"
    /\ count <= Room(r)
    /\ BeginAppend(r, count)

\* append_token_with_copy, and decode, which calls it.
AppendWithCopy(r) ==
    /\ call = NoCall
    /\ kind[r] \in {"sequence", "running"}
    /\ Room(r) > 0
    /\ \/ ~TailShared(r) /\ BeginAppend(r, 1)
       \/ /\ TailShared(r)
          /\ \E p \in Page :
                /\ TakePage(p)
                /\ call' = [op |-> "copy", who |-> r, page |-> p]
          /\ UNCHANGED requests
       \/ TailShared(r) /\ CannotAllocate /\ Fails(r, {}, Len(table[r]), kv)

\* One turn of the loop of append_tokens.
Grow ==
    /\ Doing("append")
    /\ LET r == call.who IN
        /\ Len(table[r]) < PagesFor(Len(text[r]) + call.count)
        /\ \/ /\ \E p \in Page :
                    /\ TakePage(p)
                    /\ table' = [table EXCEPT ![r] = Append(@, p)]
              /\ UNCHANGED <<kind, text, written, call>>
           \/ CannotAllocate /\ Fails(r, {}, call.pages, kv)

Grown ==
    /\ Doing("append")
    /\ LET r == call.who IN
        /\ Len(table[r]) >= PagesFor(Len(text[r]) + call.count)
        /\ Lengthen(r, call.count)
        /\ call' = AfterAppend(r)
    /\ UNCHANGED <<poolVars, kind, table, written, kv>>

\* BUG VARIANT: the request moves to a page that was not filled.
CopiedNot(old, new) == kv

\* copy_block.
Copied(old, new) == [kv EXCEPT ![new] = kv[old]]

\* copy_block and replace_last_owned; the new page takes the place of the old.
Copy ==
    /\ Doing("copy")
    /\ LET r == call.who
           old == Last(table[r]) IN
        \/ /\ GiveBack({old}, Copied(old, call.page))
           /\ table' = [table EXCEPT ![r] = Front(@) \o <<call.page>>]
           /\ Lengthen(r, 1)
           /\ call' = AfterAppend(r)
           /\ UNCHANGED <<kind, written>>
        \/ May("copy") /\ Fails(r, {call.page}, Len(table[r]), kv)

\* The rest of prefill and decode: the new tokens are mapped to slots and
\* written, ...
Compute ==
    /\ Doing("compute")
    /\ LET r == call.who IN
        \/ /\ kv' = WithTokens(r)
           /\ written' = [written EXCEPT ![r] = Len(text[r])]
           /\ call' = [op |-> "attend", who |-> r, queries |-> Len(text[r]) - written[r]]
           /\ UNCHANGED <<poolVars, kind, table, text>>
        \/ May("gpu") /\ \E memory \in {kv, WithTokens(r)} : Fails(r, {}, 0, memory)

\* ... and are the queries of an attention over the whole request.
Attend ==
    /\ Doing("attend")
    /\ LET r == call.who IN
        \/ /\ kind' = [kind EXCEPT ![r] = "running"]
           /\ call' = NoCall
           /\ UNCHANGED <<poolVars, table, text, written, kv>>
        \/ May("gpu") /\ Fails(r, {}, 0, kv)

\* The caller maps the new tokens of a sequence to slots and writes them, at
\* any time after the append.
Write(r) ==
    /\ call = NoCall
    /\ kind[r] = "sequence"
    /\ written[r] < Len(text[r])
    /\ kv' = WithTokens(r)
    /\ written' = [written EXCEPT ![r] = Len(text[r])]
    /\ UNCHANGED <<poolVars, kind, table, text, call>>

-----------------------------------------------------------------------------
(* fork_shared, into a new sequence.                                       *)

BeginFork(from, r) ==
    /\ call = NoCall
    /\ kind[from] # "none" /\ kind[r] = "none"
    /\ text[from] # <<>> /\ written[from] = Len(text[from])
    /\ call' = [op |-> "fork", who |-> r, from |-> from]
    /\ UNCHANGED <<poolVars, requests, kv>>

\* One turn of the loop: append_shared of the next page.
Share ==
    /\ Doing("fork")
    /\ LET r == call.who
           next == Len(table[r]) + 1 IN
        /\ next <= Len(table[call.from])
        /\ \/ /\ Retain(table[call.from][next])
              /\ table' = [table EXCEPT ![r] = Append(@, table[call.from][next])]
              /\ UNCHANGED <<kind, text, written, kv, call>>
           \/ May("memory") /\ Fails(r, {}, 0, kv)

Forked ==
    /\ Doing("fork")
    /\ LET r == call.who IN
        /\ Len(table[r]) = Len(table[call.from])
        /\ kind' = [kind EXCEPT ![r] = "sequence"]
        /\ text' = [text EXCEPT ![r] = text[call.from]]
        /\ written' = [written EXCEPT ![r] = written[call.from]]
    /\ call' = NoCall
    /\ UNCHANGED <<poolVars, table, kv>>

-----------------------------------------------------------------------------
(* PrefixCache.                                                            *)

\* The prefix the caller names for a logical block: its tokens up to the end
\* of the block, as many as there are.
PrefixOf(r, l) == SubSeq(text[r], 1, Min({l * BlockSize, Len(text[r])}))

IsComplete(q, l) == Len(q) % BlockSize = 0 /\ Len(q) \div BlockSize = l

\* publish_computed_block, of a block whose K and V have been written.
PublishBlock(r, l) ==
    LET q == PrefixOf(r, l) IN
    /\ call = NoCall
    /\ kind[r] # "none"
    /\ IsComplete(q, l)
    /\ Len(q) <= written[r]
    /\ Publish(table[r][l], q)
    /\ UNCHANGED <<requests, kv, call>>

\* attach_cached_prefix, on an empty sequence.  A call whose first block is
\* not in the cache changes nothing.
BeginAttach(r, want) ==
    /\ call = NoCall
    /\ kind[r] = "sequence" /\ text[r] = <<>>
    /\ Len(want) >= BlockSize /\ Published(SubSeq(want, 1, BlockSize)) # {}
    /\ call' = [op |-> "attach", who |-> r, want |-> want]
    /\ UNCHANGED <<poolVars, requests, kv>>

\* The pages that hold the next whole block of what the caller wants.
Hits ==
    LET n == Len(text[call.who]) + BlockSize IN
    IF n <= Len(call.want) THEN Published(SubSeq(call.want, 1, n)) ELSE {}

\* lookup takes a reference for the time of the call.
Lookup ==
    /\ Doing("attach")
    /\ \/ /\ \E p \in Hits :
                /\ Retain(p)
                /\ call' = [op |-> "hit", who |-> call.who, want |-> call.want, page |-> p]
          /\ UNCHANGED <<requests, kv>>
       \/ May("hash") /\ Fails(call.who, {}, 0, kv)

\* append_cached_full_block takes the reference of the table.
AttachPage ==
    /\ Doing("hit")
    /\ LET r == call.who
           n == Len(text[r]) + BlockSize IN
        \/ /\ Retain(call.page)
           /\ table' = [table EXCEPT ![r] = Append(@, call.page)]
           /\ text' = [text EXCEPT ![r] = SubSeq(call.want, 1, n)]
           /\ written' = [written EXCEPT ![r] = n]
           /\ call' = [call EXCEPT !.op = "attached"]
           /\ UNCHANGED <<kind, kv>>
        \/ May("memory") /\ Fails(r, {call.page}, 0, kv)

\* The reference of lookup goes back.
FreeLookup ==
    /\ Doing("attached")
    /\ GiveBack({call.page}, kv)
    /\ call' = [op |-> "attach", who |-> call.who, want |-> call.want]
    /\ UNCHANGED requests

\* The first miss, or the end of the whole blocks.
Attached ==
    /\ Doing("attach")
    /\ Hits = {}
    /\ call' = NoCall
    /\ UNCHANGED <<poolVars, requests, kv>>

Next ==
    \/ \E r \in Request :
        \/ \E k \in {"sequence", "new"} : Open(r, k)
        \/ Close(r)
        \/ \E count \in 1..MaxTokens : AppendTokens(r, count) \/ Prefill(r, count)
        \/ AppendWithCopy(r)
        \/ Write(r)
        \/ \E from \in Request : BeginFork(from, r)
        \/ \E l \in DOMAIN table[r] : PublishBlock(r, l)
        \/ \E want \in Text : BeginAttach(r, want)
    \/ Grow \/ Grown \/ Copy \/ Compute \/ Attend
    \/ Share \/ Forked
    \/ Lookup \/ AttachPage \/ FreeLookup \/ Attached

Spec == Init /\ [][Next]_vars

-----------------------------------------------------------------------------
(* Properties.                                                             *)

\* The places that refer to a page: tables, no table twice, and the call.
Sharers(p) == {r \in Request : p \in ToSet(table[r])}
HeldByCall(p) == call # NoCall /\ call.op \in {"copy", "hit", "attached"} /\ call.page = p

\* The reference count of a page is the number of places that refer to it, in
\* the middle of a call and after every failed one: forks, attached prefixes
\* and roll-backs neither leak a page nor free one in use
\* (sequence_state.cpp:46-49, 85-88; prefix_cache.cpp:23-39).
RefsCountTables ==
    \A p \in Page : refs[p] = Cardinality(Sharers(p)) + (IF HeldByCall(p) THEN 1 ELSE 0)

\* Every token that was written is found where the table says, whatever other
\* requests that share the page have appended since, and whatever was
\* copied, evicted or recycled (sequence_state.cpp:36-39, 77-89).
TokensIntact ==
    \A r \in Request : \A i \in 1..written[r] :
        kv[PageOf(r, i)][OffsetOf(i)] = text[r][i]

\* Between calls a table has the pages its tokens need and no other, after
\* failed calls too (sequence_state.h:39, 53; prefix_cache.h:15).
TablesCoverTokens ==
    call = NoCall => \A r \in Request :
        /\ Len(text[r]) <= Len(table[r]) * BlockSize
        /\ Len(table[r]) * BlockSize < Len(text[r]) + BlockSize

\* A published page holds the K and V of the last block of its prefix for as
\* long as lookup can find it (prefix_cache.h:19; block_manager.cpp:55-58).
CachedTrue ==
    \A p \in Page : prefix[p] # NoPrefix =>
        \A o \in 0..BlockSize - 1 :
            kv[p][o] = prefix[p][Len(prefix[p]) - BlockSize + o + 1]

\* A slot that is reserved and not yet written lies on a page that no other
\* request refers to and no lookup finds: the write that is due disturbs
\* nobody (sequence_state.cpp:36-39; paged_kv_write.cu:110-113).
ReservedIsPrivate ==
    call = NoCall => \A r \in Request : \A i \in written[r] + 1..Len(text[r]) :
        refs[PageOf(r, i)] = 1 /\ prefix[PageOf(r, i)] = NoPrefix

\* The requests a caller may read or attend over between calls: their K and V
\* are written (paged_attention.h:17).
Readable == {r \in Request : text[r] # <<>> /\ written[r] = Len(text[r])}

\* Through pages shared, copied, evicted and reused, the kernels read exactly
\* the tokens that attention over the contiguous text would: every query of
\* prefill and decode all tokens up to its own and none after, every row of a
\* batch its own request and no padding (paged_attention.h:12-13, 27-30), and
\* read_paged_kv the whole request in order.
AttentionSeesItsTokens ==
    /\ Doing("attend") =>
        LET r == call.who IN
        Attended(kv, table[r], Len(text[r]), call.queries) = Reference(text[r], call.queries)
    /\ call = NoCall => \A r, s \in Readable :
        /\ Gathered(kv, table[r], Len(text[r])) = text[r]
        /\ AttendedBatch(kv, <<table[r], table[s]>>, <<Len(text[r]), Len(text[s])>>)
            = <<text[r], text[s]>>
=============================================================================
