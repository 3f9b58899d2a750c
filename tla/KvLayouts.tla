----------------------------- MODULE KvLayouts -----------------------------
(***************************************************************************)
(* Where an element of K or V lies: KVBlockLayout (v0, one block holds     *)
(* every layer), PagedKVLayout (v2, all K pages of a layer, then all V     *)
(* pages) and the index that the kernels compute for themselves.           *)
(*                                                                         *)
(* Sizes are size_t: what is not checked wraps, and a checked product that *)
(* does not fit throws.  Everything is counted from 0.                     *)
(***************************************************************************)
EXTENDS Integers

CONSTANTS
    SizeMax,    \* the largest size_t
    Overflow,   \* std::overflow_error is thrown
    Geometry,   \* layouts: layers, blocks, heads, tokens, dims and bytes
    Budget      \* device memory in bytes, for capacity_for

ASSUME SizeMaxIsNat == SizeMax \in Nat

ASSUME OverflowIsNoSize == Overflow \notin Nat

\* The constructors refuse a dimension that is zero; dtype_bytes is 2 or 4.
ASSUME GeometryIsPositive ==
    Geometry \subseteq
        [layers : Nat \ {0}, blocks : Nat \ {0}, heads : Nat \ {0},
         tokens : Nat \ {0}, dims : Nat \ {0}, bytes : {2, 4}]

ASSUME BudgetsFit == Budget \subseteq 0..SizeMax

Wrap(n) == n % (SizeMax + 1)

\* BUG VARIANT: the guard compares after the product has wrapped.
MultiplyLate(a, b) ==
    IF a = Overflow \/ b = Overflow \/ (b # 0 /\ Wrap(a * b) \div b > SizeMax \div b)
    THEN Overflow
    ELSE Wrap(a * b)

\* A product of sizes; an error of an argument is an error of the product.
Multiply(a, b) ==
    IF a = Overflow \/ b = Overflow \/ (b # 0 /\ a > SizeMax \div b)
    THEN Overflow
    ELSE Wrap(a * b)

-----------------------------------------------------------------------------
(* KVBlockLayout.                                                          *)

BlockBytes(g) ==
    Multiply(Multiply(Multiply(Multiply(Multiply(2, g.layers), g.heads), g.tokens), g.dims),
             g.bytes)

BlockCoordinate(g) ==
    [kind : 0..1, layer : 0..g.layers - 1, head : 0..g.heads - 1,
     token : 0..g.tokens - 1, dim : 0..g.dims - 1]

\* byte_offset, row by row.
BlockOffset(g, c) ==
    Wrap(((((c.kind * g.layers + c.layer) * g.heads + c.head) * g.tokens + c.token)
            * g.dims + c.dim) * g.bytes)

BlocksFor(g, budget) == budget \div BlockBytes(g)

CapacityFor(g, budget) ==
    [blocks    |-> BlocksFor(g, budget),
     allocated |-> Wrap(BlocksFor(g, budget) * BlockBytes(g)),
     tokens    |-> Multiply(BlocksFor(g, budget), g.tokens)]

-----------------------------------------------------------------------------
(* PagedKVLayout.                                                          *)

PageBytes(g) == Multiply(Multiply(Multiply(g.heads, g.tokens), g.dims), g.bytes)

CacheBytes(g) == Multiply(g.blocks, PageBytes(g))

TotalBytes(g) == Multiply(2, CacheBytes(g))

SlotCount(g) == Multiply(g.blocks, g.tokens)

\* The constructor does not throw.
Constructible(g) == TotalBytes(g) # Overflow /\ SlotCount(g) # Overflow

Coordinate(g) ==
    [kind : 0..1, block : 0..g.blocks - 1, head : 0..g.heads - 1,
     token : 0..g.tokens - 1, dim : 0..g.dims - 1]

PageOffset(g, part, block) ==
    (IF part = 1 THEN CacheBytes(g) ELSE 0) + block * PageBytes(g)

\* byte_offset.
ByteOffset(g, c) ==
    Wrap(PageOffset(g, c.kind, c.block)
        + ((c.head * g.tokens + c.token) * g.dims + c.dim) * g.bytes)

\* build_slot_mapping, of one token.
Slot(g, block, offset) ==
    IF block > (SizeMax - offset) \div g.tokens THEN Overflow ELSE Wrap(block * g.tokens + offset)

\* slot_byte_offset.
SlotOffset(g, part, slot, head, dim) ==
    ByteOffset(g, [kind |-> part, block |-> slot \div g.tokens, head |-> head,
                   token |-> slot % g.tokens, dim |-> dim])

\* BUG VARIANT: the head is the outer dimension of the cache.
CacheIndexHeadFirst(g, slot, head, dim) ==
    ((head * g.blocks + (slot \div g.tokens)) * g.tokens + (slot % g.tokens)) * g.dims + dim

\* The kernels' cache_index, into an array of elements.
CacheIndex(g, slot, head, dim) ==
    (((slot \div g.tokens) * g.heads + head) * g.tokens + (slot % g.tokens)) * g.dims + dim

\* The byte a kernel reads or writes: K from key_base, V from value_base, which
\* is the address of the first backing block after those of K.
KernelOffset(g, part, slot, head, dim) ==
    Wrap(part * g.blocks * PageBytes(g) + CacheIndex(g, slot, head, dim) * g.bytes)

-----------------------------------------------------------------------------
(* Properties.                                                             *)

\* Two elements of g.bytes bytes that do not overlap.
Apart(g, x, y) == x + g.bytes <= y \/ y + g.bytes <= x

\* One block: every element lies in it and on no other element, though the
\* offset itself is computed without a check (kv_layout.cpp:30, 45-51).
BlockExact(g) ==
    BlockBytes(g) # Overflow =>
        \A c \in BlockCoordinate(g) :
            /\ BlockOffset(g, c) + g.bytes <= BlockBytes(g)
            /\ \A d \in BlockCoordinate(g) :
                c # d => Apart(g, BlockOffset(g, c), BlockOffset(g, d))

\* The plan takes as many blocks as fit in the budget, and the number of
\* tokens never overflows (kv_layout.cpp:54-57).
CapacityExact(g) ==
    BlockBytes(g) # Overflow =>
        \A budget \in Budget : LET plan == CapacityFor(g, budget) IN
            /\ plan.allocated <= budget
            /\ budget < plan.allocated + BlockBytes(g)
            /\ plan.tokens # Overflow

\* All pages: the same for the offsets of the host.
PagesExact(g) ==
    Constructible(g) =>
        \A c \in Coordinate(g) :
            /\ ByteOffset(g, c) + g.bytes <= TotalBytes(g)
            /\ \A d \in Coordinate(g) : c # d => Apart(g, ByteOffset(g, c), ByteOffset(g, d))

\* The slot the control plane gives a token stands, for the host and in the
\* kernels, for the place byte_offset names (paged_kv_write.cu:77-80;
\* paged_kv_layout.cpp:61-67; slot_mapping.cpp:26-29).
KernelsAgree(g) ==
    Constructible(g) =>
        \A c \in Coordinate(g) : LET slot == Slot(g, c.block, c.token) IN
            /\ slot \in 0..SlotCount(g) - 1
            /\ SlotOffset(g, c.kind, slot, c.head, c.dim) = ByteOffset(g, c)
            /\ KernelOffset(g, c.kind, slot, c.head, c.dim) = ByteOffset(g, c)

BlocksExact == \A g \in Geometry : BlockExact(g) /\ CapacityExact(g)

PoolsExact == \A g \in Geometry : PagesExact(g) /\ KernelsAgree(g)

\* No layout that its constructor accepts puts two elements on one byte, one
\* outside the allocation, or means another place on the GPU than on the host:
\* neither the layout of a block (v0) nor that of a pool of pages (v2).
LayoutsExact ==
    \A kind \in {"block", "pool"} :
        IF kind = "block" THEN BlocksExact ELSE PoolsExact
=============================================================================
