----------------------------- MODULE PagedReads -----------------------------
(***************************************************************************)
(* How the kernels of v2 find the K and V of a request: through a table of *)
(* its pages, which the host copies to the device, one table per call or   *)
(* one row per request of a batch.                                         *)
(*                                                                         *)
(* What a kernel reads is given as the sequence of slots' contents it      *)
(* visits; what it computes from them is left out, and so are heads and    *)
(* dimensions (see KvLayouts).  Tokens and blocks are counted from 0, as   *)
(* in the code, the entries of a sequence from 1.                          *)
(***************************************************************************)
EXTENDS Integers, Sequences, FiniteSetsExt

CONSTANTS
    BlockSize,     \* tokens per page
    InvalidBlock,  \* padding of a short row
    Junk           \* K and V that belong to no token

ASSUME BlockSizePositive == BlockSize \in Nat \ {0}

\* The content of a slot; a kernel that leaves its table, or follows padding,
\* reads something else than a token.
SlotAt(memory, blocks, index, token) ==
    IF index + 1 \in DOMAIN blocks /\ blocks[index + 1] # InvalidBlock
    THEN memory[blocks[index + 1]][token % BlockSize]
    ELSE Junk

\* The loop of attention_element over tokens 0 to last, in a table that starts
\* at entry base of blocks.
Visit(memory, blocks, base, last) ==
    [i \in 1..last + 1 |->
        SlotAt(memory, blocks, base + (i - 1) \div BlockSize, i - 1)]

\* BUG VARIANT: a query sees the token after its own as well.
LastVisibleNext(kvTokens, queryTokens, query) == kvTokens - queryTokens + query + 1

LastVisible(kvTokens, queryTokens, query) == kvTokens - queryTokens + query

\* paged_attention: what each of the last queryTokens tokens attends to.
Attended(memory, blocks, kvTokens, queryTokens) ==
    [query \in 0..queryTokens - 1 |->
        Visit(memory, blocks, 0, LastVisible(kvTokens, queryTokens, query))]

\* read_paged_kv: the tokens in order, one by one.
Gathered(memory, blocks, tokens) == Visit(memory, blocks, 0, tokens - 1)

-----------------------------------------------------------------------------
(* build_batch_block_table and paged_attention_batch.                      *)

Width(tables) == Max({Len(tables[request]) : request \in DOMAIN tables})

\* The rows one after the other; a short one is padded.
BatchTable(tables) ==
    LET width == Width(tables) IN
    [entry \in 1..Len(tables) * width |->
        LET row     == tables[(entry - 1) \div width + 1]
            logical == (entry - 1) % width
        IN  IF logical < Len(row) THEN row[logical + 1] ELSE InvalidBlock]

\* BUG VARIANT: a row starts where the pages of the row before it end.
RowStartPacked(tables, request) ==
    IF request = 1 THEN 0 ELSE Len(tables[request - 1])

RowStart(tables, request) == (request - 1) * Width(tables)

\* Every request has one query, its last token.
AttendedBatch(memory, tables, lengths) ==
    [request \in DOMAIN tables |->
        Visit(memory, BatchTable(tables), RowStart(tables, request), lengths[request] - 1)]

-----------------------------------------------------------------------------

\* reference_attention over contiguous K and V: the queries are the last
\* tokens, and each sees everything up to itself.
Reference(text, queryTokens) ==
    [query \in 0..queryTokens - 1 |-> SubSeq(text, 1, Len(text) - queryTokens + query + 1)]
=============================================================================
