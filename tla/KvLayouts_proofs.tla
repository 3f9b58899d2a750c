-------------------------- MODULE KvLayouts_proofs --------------------------
(***************************************************************************)
(* The layouts are exact for every geometry and every width of size_t.     *)
(*                                                                         *)
(* An offset is shown to be the number of the element, times its size; the *)
(* number is a row-major index, which stays below the product of the       *)
(* dimensions and determines its coordinates (RowInRange, RowUnique); and  *)
(* the constructors checked that product (MultiplyExact).                  *)
(***************************************************************************)
EXTENDS KvLayouts, TLAPS

\* Division, as SMT knows it.
LEMMA Quotient ==
    ASSUME NEW n \in Nat, NEW b \in Nat \ {0}
    PROVE  /\ n \div b \in Nat
           /\ n % b \in 0..b - 1
           /\ n = (n \div b) * b + (n % b)
  BY SMT

\* Products of naturals are naturals.
LEMMA TimesNat ==
    ASSUME NEW a \in Nat, NEW b \in Nat
    PROVE  a * b \in Nat
  BY SMT

\* A product grows with its factor.
LEMMA TimesMonotone ==
    ASSUME NEW a \in Nat, NEW b \in Nat, NEW n \in Nat, a <= b
    PROVE  a * n <= b * n
  <1>1. b = a + (b - a) /\ b - a \in Nat
    OBVIOUS
  <1>2. b * n = a * n + (b - a) * n
    BY <1>1, SMT
  <1>3. (b - a) * n \in Nat
    BY <1>1, TimesNat
  <1>. QED
    BY <1>2, <1>3, TimesNat, SMT

\* What fits does not wrap.
LEMMA WrapSmall ==
    ASSUME NEW n \in 0..SizeMax
    PROVE  Wrap(n) = n
  BY SizeMaxIsNat, SMT DEF Wrap

\* A row-major index lies below the product of the dimensions.
LEMMA RowInRange ==
    ASSUME NEW m \in Nat, NEW n \in Nat, NEW i \in 0..m - 1, NEW j \in 0..n - 1
    PROVE  i * n + j \in 0..m * n - 1
  <1>1. (i + 1) * n <= m * n
    BY TimesMonotone
  <1>2. (i + 1) * n = i * n + n
    BY SMT
  <1>3. i * n \in Nat /\ m * n \in Nat
    BY TimesNat
  <1>. QED
    BY <1>1, <1>2, <1>3, SMT

\* A row-major index determines its row and its column.
LEMMA RowUnique ==
    ASSUME NEW n \in Nat, NEW i \in Nat, NEW k \in Nat, NEW j \in 0..n - 1, NEW l \in 0..n - 1,
           i * n + j = k * n + l
    PROVE  i = k /\ j = l
  <1>1. ASSUME NEW x \in Nat, NEW y \in Nat, x < y
        PROVE  x * n + n <= y * n
    <2>1. (x + 1) * n <= y * n
      BY <1>1, TimesMonotone
    <2>. QED
      BY <2>1, SMT
  <1>2. i * n \in Nat /\ k * n \in Nat
    BY TimesNat
  <1>3. ~(i < k)
    BY <1>1, <1>2, SMT
  <1>4. ~(k < i)
    BY <1>1, <1>2, SMT
  <1>5. i = k
    BY <1>3, <1>4, SMT
  <1>. QED
    BY <1>2, <1>5, SMT

\* A checked product.
LEMMA MultiplyExact ==
    ASSUME NEW a \in Nat \cup {Overflow}, NEW b \in Nat \cup {Overflow},
           Multiply(a, b) # Overflow
    PROVE  /\ a \in Nat /\ b \in Nat
           /\ Multiply(a, b) = a * b
           /\ a * b \in 0..SizeMax
  <1>1. a \in Nat /\ b \in Nat /\ (b = 0 \/ a <= SizeMax \div b) /\ Multiply(a, b) = Wrap(a * b)
    <2>1. SizeMax \div b \in Nat \/ b = 0 \/ b \notin Nat
      BY SizeMaxIsNat, Quotient
    <2>. QED
    BY <2>1, SMT DEF Multiply
  <1>2. a * b \in Nat
    BY <1>1, TimesNat
  <1>3. a * b <= SizeMax
    <2>1. CASE b = 0
      BY <2>1, <1>1, SizeMaxIsNat, SMT
    <2>2. CASE b # 0
      <3>1. SizeMax \div b \in Nat /\ (SizeMax \div b) * b <= SizeMax
        BY <1>1, <2>2, SizeMaxIsNat, Quotient, SMT
      <3>2. a * b <= (SizeMax \div b) * b
        BY <1>1, <2>2, <3>1, TimesMonotone
      <3>. QED
        BY <3>1, <3>2, <1>2, SizeMaxIsNat, TimesNat, <1>1, SMT
    <2>. QED
      BY <2>1, <2>2
  <1>. QED
    BY <1>1, <1>2, <1>3, WrapSmall, SizeMaxIsNat

\* Room for one more element behind the i-th.
LEMMA Scaled ==
    ASSUME NEW m \in Nat, NEW n \in Nat, NEW i \in 0..m - 1
    PROVE  i * n + n <= m * n
  <1>1. (i + 1) * n <= m * n
    BY TimesMonotone
  <1>. QED
    BY <1>1, SMT

\* A product of positive factors is no less than either.
LEMMA TimesAtLeast ==
    ASSUME NEW a \in Nat \ {0}, NEW b \in Nat \ {0}
    PROVE  a <= a * b /\ b <= a * b
  <1>1. (0 + 1) * b <= a * b
    BY TimesMonotone
  <1>2. (0 + 1) * a <= b * a
    BY TimesMonotone
  <1>. QED
    BY <1>1, <1>2, SMT

\* The guard of a checked product lets pass what fits.
LEMMA FitsQuotient ==
    ASSUME NEW n \in Nat, NEW b \in Nat \ {0}, NEW a \in Nat, a * b <= n
    PROVE  a <= n \div b /\ n \div b \in Nat
  <1>. DEFINE most == n \div b
  <1>1. most \in Nat /\ n = most * b + (n % b) /\ n % b \in 0..b - 1
    BY Quotient
  <1>. HIDE DEF most
  <1>2. ASSUME most < a
        PROVE  FALSE
    <2>1. most + 1 \in Nat /\ most + 1 <= a
      BY <1>1, <1>2
    <2>2. (most + 1) * b <= a * b
      BY <2>1, TimesMonotone
    <2>3. (most + 1) * b = most * b + b
      BY <1>1
    <2>4. most * b \in Nat /\ a * b \in Nat
      BY <1>1, TimesNat
    <2>. QED
      BY <1>1, <2>2, <2>3, <2>4
  <1>. QED
    BY <1>1, <1>2 DEF most

\* A row and a column are found again by division.
LEMMA RowDivided ==
    ASSUME NEW n \in Nat \ {0}, NEW i \in Nat, NEW j \in 0..n - 1
    PROVE  (i * n + j) \div n = i /\ (i * n + j) % n = j
  <1>. DEFINE m == i * n + j
  <1>1. m \in Nat
    BY TimesNat
  <1>. HIDE DEF m
  <1>2. m \div n \in Nat /\ m % n \in 0..n - 1 /\ m = (m \div n) * n + (m % n)
    BY <1>1, Quotient
  <1>3. i * n + j = (m \div n) * n + (m % n)
    BY <1>2 DEF m
  <1>. QED
    BY <1>2, <1>3, RowUnique DEF m

\* The dimensions of a geometry.
LEMMA GeometryTypes ==
    ASSUME NEW g \in Geometry
    PROVE  /\ g.layers \in Nat \ {0}
           /\ g.blocks \in Nat \ {0}
           /\ g.heads \in Nat \ {0}
           /\ g.tokens \in Nat \ {0}
           /\ g.dims \in Nat \ {0}
           /\ g.bytes \in {2, 4} /\ g.bytes \in Nat \ {0}
  BY GeometryIsPositive

\* A product is a size, or it throws.
LEMMA MultiplyType ==
    ASSUME NEW a \in Nat \cup {Overflow}, NEW b \in Nat \cup {Overflow}
    PROVE  Multiply(a, b) \in Nat \cup {Overflow}
  <1>1. CASE Multiply(a, b) = Overflow
    BY <1>1
  <1>2. CASE Multiply(a, b) # Overflow
    <2>1. Multiply(a, b) = a * b /\ a * b \in 0..SizeMax
      BY <1>2, MultiplyExact
    <2>. QED
      BY <2>1, SizeMaxIsNat, SMT
  <1>. QED
    BY <1>1, <1>2

\* A product of positive factors is positive.
LEMMA MultiplyPositive ==
    ASSUME NEW a \in Nat \ {0}, NEW b \in Nat \ {0}
    PROVE  a * b \in Nat \ {0}
  <1>1. (0 + 1) * b <= a * b
    BY TimesMonotone
  <1>. QED
    BY <1>1, SMT

-----------------------------------------------------------------------------

BlockElements(g) == (((2 * g.layers) * g.heads) * g.tokens) * g.dims

BlockIndex(g, c) ==
    (((c.kind * g.layers + c.layer) * g.heads + c.head) * g.tokens + c.token) * g.dims + c.dim

\* What the constructor of KVBlockLayout has checked (kv_layout.cpp:33-36).
LEMMA BlockBytesExact ==
    ASSUME NEW g \in Geometry, BlockBytes(g) # Overflow
    PROVE  /\ BlockBytes(g) = BlockElements(g) * g.bytes
           /\ BlockBytes(g) \in 1..SizeMax
           /\ BlockElements(g) \in Nat
           /\ g.tokens <= BlockBytes(g)
  <1>. DEFINE M1 == Multiply(2, g.layers)
              M2 == Multiply(M1, g.heads)
              M3 == Multiply(M2, g.tokens)
              M4 == Multiply(M3, g.dims)
              M5 == Multiply(M4, g.bytes)
  <1>1. BlockBytes(g) = M5
    BY DEF BlockBytes
  <1>2. M1 \in Nat \cup {Overflow} /\ M2 \in Nat \cup {Overflow} /\ M3 \in Nat \cup {Overflow}
        /\ M4 \in Nat \cup {Overflow}
    <2>. HIDE DEF M1, M2, M3, M4
    <2>1. M1 \in Nat \cup {Overflow}
      BY GeometryTypes, MultiplyType DEF M1
    <2>2. M2 \in Nat \cup {Overflow}
      BY <2>1, GeometryTypes, MultiplyType DEF M2
    <2>3. M3 \in Nat \cup {Overflow}
      BY <2>2, GeometryTypes, MultiplyType DEF M3
    <2>4. M4 \in Nat \cup {Overflow}
      BY <2>3, GeometryTypes, MultiplyType DEF M4
    <2>. QED
      BY <2>1, <2>2, <2>3, <2>4
  <1>. HIDE DEF M1, M2, M3, M4
  <1>3. M5 = M4 * g.bytes /\ M4 * g.bytes \in 0..SizeMax /\ M4 \in Nat
    BY <1>1, <1>2, GeometryTypes, MultiplyExact
  <1>4. M4 = M3 * g.dims /\ M3 \in Nat
    BY <1>2, <1>3, OverflowIsNoSize, GeometryTypes, MultiplyExact DEF M4
  <1>5. M3 = M2 * g.tokens /\ M2 \in Nat
    BY <1>2, <1>4, OverflowIsNoSize, GeometryTypes, MultiplyExact DEF M3
  <1>6. M2 = M1 * g.heads /\ M1 \in Nat
    BY <1>2, <1>5, OverflowIsNoSize, GeometryTypes, MultiplyExact DEF M2
  <1>7. M1 = 2 * g.layers
    BY <1>6, OverflowIsNoSize, GeometryTypes, MultiplyExact DEF M1
  <1>8. BlockElements(g) = M4
    BY <1>4, <1>5, <1>6, <1>7 DEF BlockElements
  <1>9. M1 \in Nat \ {0} /\ M2 \in Nat \ {0} /\ M3 \in Nat \ {0} /\ M4 \in Nat \ {0}
        /\ M4 * g.bytes \in Nat \ {0}
    <2>1. M1 \in Nat \ {0}
      BY <1>7, GeometryTypes, MultiplyPositive
    <2>2. M2 \in Nat \ {0}
      BY <1>6, <2>1, GeometryTypes, MultiplyPositive
    <2>3. M3 \in Nat \ {0}
      BY <1>5, <2>2, GeometryTypes, MultiplyPositive
    <2>4. M4 \in Nat \ {0}
      BY <1>4, <2>3, GeometryTypes, MultiplyPositive
    <2>. QED
      BY <2>1, <2>2, <2>3, <2>4, GeometryTypes, MultiplyPositive
  <1>10. g.tokens <= M3 /\ M3 <= M4 /\ M4 <= M4 * g.bytes
    BY <1>4, <1>5, <1>9, GeometryTypes, TimesAtLeast
  <1>. QED
    BY <1>1, <1>3, <1>8, <1>9, <1>10, SizeMaxIsNat, GeometryTypes, SMT

\* The index of an element of a block is in range, and its own.
LEMMA BlockIndexExact ==
    ASSUME NEW g \in Geometry, NEW c \in BlockCoordinate(g)
    PROVE  /\ BlockIndex(g, c) \in 0..BlockElements(g) - 1
           /\ BlockOffset(g, c) = Wrap(BlockIndex(g, c) * g.bytes)
           /\ \A d \in BlockCoordinate(g) : c # d => BlockIndex(g, c) # BlockIndex(g, d)
  <1>. DEFINE R1(x) == x.kind * g.layers + x.layer
              R2(x) == R1(x) * g.heads + x.head
              R3(x) == R2(x) * g.tokens + x.token
              R4(x) == R3(x) * g.dims + x.dim
              N1 == 2 * g.layers
              N2 == N1 * g.heads
              N3 == N2 * g.tokens
              N4 == N3 * g.dims
  <1>1. \A x : BlockIndex(g, x) = R4(x)
    BY DEF BlockIndex
  <1>2. BlockElements(g) = N4
    BY DEF BlockElements
  <1>3. ASSUME NEW x \in BlockCoordinate(g)
        PROVE  /\ x.kind \in 0..1 /\ x.layer \in 0..g.layers - 1 /\ x.head \in 0..g.heads - 1
               /\ x.token \in 0..g.tokens - 1 /\ x.dim \in 0..g.dims - 1
    BY <1>3 DEF BlockCoordinate
  <1>4. N1 \in Nat /\ N2 \in Nat /\ N3 \in Nat
    <2>1. N1 \in Nat
      BY GeometryTypes, TimesNat
    <2>2. N2 \in Nat
      BY <2>1, GeometryTypes, TimesNat
    <2>3. N3 \in Nat
      BY <2>2, GeometryTypes, TimesNat
    <2>. QED
      BY <2>1, <2>2, <2>3
  <1>5. ASSUME NEW x \in BlockCoordinate(g)
        PROVE  /\ R1(x) \in 0..N1 - 1 /\ R2(x) \in 0..N2 - 1
               /\ R3(x) \in 0..N3 - 1 /\ R4(x) \in 0..N4 - 1
    <2>1. R1(x) \in 0..N1 - 1
      BY <1>3, GeometryTypes, RowInRange
    <2>2. R2(x) \in 0..N2 - 1
      <3>. HIDE DEF R1, N1
      <3>. QED
        BY <1>3, <1>4, <2>1, GeometryTypes, RowInRange
    <2>3. R3(x) \in 0..N3 - 1
      <3>. HIDE DEF R2, N2
      <3>. QED
        BY <1>3, <1>4, <2>2, GeometryTypes, RowInRange
    <2>4. R4(x) \in 0..N4 - 1
      <3>. HIDE DEF R3, N3
      <3>. QED
        BY <1>3, <1>4, <2>3, GeometryTypes, RowInRange
    <2>. QED
      BY <2>1, <2>2, <2>3, <2>4
  <1>6. ASSUME NEW x \in BlockCoordinate(g), NEW y \in BlockCoordinate(g), R4(x) = R4(y)
        PROVE  x = y
    <2>1. R1(x) \in Nat /\ R2(x) \in Nat /\ R3(x) \in Nat /\ R1(y) \in Nat /\ R2(y) \in Nat
          /\ R3(y) \in Nat
      <3>. HIDE DEF R1, R2, R3, R4, N1, N2, N3, N4
      <3>. QED
        BY <1>5
    <2>2. R3(x) = R3(y) /\ x.dim = y.dim
      <3>1. R3(x) * g.dims + x.dim = R3(y) * g.dims + y.dim
        BY <1>6 DEF R4
      <3>2. x.dim \in 0..g.dims - 1 /\ y.dim \in 0..g.dims - 1 /\ g.dims \in Nat
        BY <1>3, GeometryTypes
      <3>. HIDE DEF R3
      <3>. QED
        BY <2>1, <3>1, <3>2, RowUnique
    <2>3. R2(x) = R2(y) /\ x.token = y.token
      <3>1. R2(x) * g.tokens + x.token = R2(y) * g.tokens + y.token
        BY <2>2 DEF R3
      <3>2. x.token \in 0..g.tokens - 1 /\ y.token \in 0..g.tokens - 1 /\ g.tokens \in Nat
        BY <1>3, GeometryTypes
      <3>. HIDE DEF R2
      <3>. QED
        BY <2>1, <3>1, <3>2, RowUnique
    <2>4. R1(x) = R1(y) /\ x.head = y.head
      <3>1. R1(x) * g.heads + x.head = R1(y) * g.heads + y.head
        BY <2>3 DEF R2
      <3>2. x.head \in 0..g.heads - 1 /\ y.head \in 0..g.heads - 1 /\ g.heads \in Nat
        BY <1>3, GeometryTypes
      <3>. HIDE DEF R1
      <3>. QED
        BY <2>1, <3>1, <3>2, RowUnique
    <2>5. x.kind = y.kind /\ x.layer = y.layer
      <3>1. x.kind * g.layers + x.layer = y.kind * g.layers + y.layer
        BY <2>4
      <3>2. x.kind \in Nat /\ y.kind \in Nat /\ g.layers \in Nat
            /\ x.layer \in 0..g.layers - 1 /\ y.layer \in 0..g.layers - 1
        BY <1>3, GeometryTypes
      <3>. QED
        BY <3>1, <3>2, RowUnique
    <2>. QED
      BY <2>2, <2>3, <2>4, <2>5 DEF BlockCoordinate
  <1>7. BlockOffset(g, c) = Wrap(BlockIndex(g, c) * g.bytes)
    BY DEF BlockOffset, BlockIndex
  <1>. HIDE DEF R1, R2, R3, R4, N1, N2, N3, N4
  <1>. QED
    BY <1>1, <1>2, <1>5, <1>6, <1>7

\* What remains to show of an offset, once it is an index times the size.
LEMMA IndexedApart ==
    ASSUME NEW g \in Geometry, NEW n \in Nat, n * g.bytes \in 0..SizeMax,
           NEW i \in 0..n - 1, NEW k \in 0..n - 1
    PROVE  /\ Wrap(i * g.bytes) = i * g.bytes
           /\ i * g.bytes \in Nat
           /\ Wrap(i * g.bytes) + g.bytes <= n * g.bytes
           /\ i # k => Apart(g, Wrap(i * g.bytes), Wrap(k * g.bytes))
  <1>1. ASSUME NEW j \in 0..n - 1
        PROVE  j * g.bytes + g.bytes <= n * g.bytes /\ j * g.bytes \in Nat
               /\ Wrap(j * g.bytes) = j * g.bytes
    <2>1. j * g.bytes + g.bytes <= n * g.bytes
      BY GeometryTypes, Scaled
    <2>2. j * g.bytes \in Nat
      BY GeometryTypes, TimesNat
    <2>3. j * g.bytes \in 0..SizeMax
      BY <2>1, <2>2, GeometryTypes, SizeMaxIsNat, TimesNat, SMT
    <2>. QED
      BY <2>1, <2>2, <2>3, WrapSmall
  <1>2. ASSUME NEW x \in 0..n - 1, NEW y \in 0..n - 1, x < y
        PROVE  x * g.bytes + g.bytes <= y * g.bytes
    <2>1. x \in 0..y - 1 /\ y \in Nat
      BY <1>2, SMT
    <2>. QED
      BY <2>1, GeometryTypes, Scaled
  <1>3. i # k => i < k \/ k < i
    BY SMT
  <1>. QED
    BY <1>1, <1>2, <1>3 DEF Apart

\* KVBlockLayout::byte_offset never leaves the block and never maps two elements
\* to one byte, though it computes without a check (kv_layout.cpp:45-51).
THEOREM BlockLayoutExact == \A g \in Geometry : BlockExact(g)
  <1>1. SUFFICES ASSUME NEW g \in Geometry, BlockBytes(g) # Overflow,
                        NEW c \in BlockCoordinate(g)
                 PROVE  /\ BlockOffset(g, c) + g.bytes <= BlockBytes(g)
                        /\ \A d \in BlockCoordinate(g) :
                             c # d => Apart(g, BlockOffset(g, c), BlockOffset(g, d))
    BY DEF BlockExact
  <1>2. BlockElements(g) \in Nat /\ BlockElements(g) * g.bytes \in 0..SizeMax
        /\ BlockBytes(g) = BlockElements(g) * g.bytes
    BY <1>1, BlockBytesExact, SizeMaxIsNat, SMT
  <1>3. BlockOffset(g, c) + g.bytes <= BlockBytes(g)
    BY <1>2, BlockIndexExact, IndexedApart
  <1>4. ASSUME NEW d \in BlockCoordinate(g), c # d
        PROVE  Apart(g, BlockOffset(g, c), BlockOffset(g, d))
    <2>1. BlockIndex(g, c) # BlockIndex(g, d)
      BY <1>4, BlockIndexExact
    <2>2. BlockIndex(g, c) \in 0..BlockElements(g) - 1 /\ BlockIndex(g, d) \in 0..BlockElements(g) - 1
          /\ BlockOffset(g, c) = Wrap(BlockIndex(g, c) * g.bytes)
          /\ BlockOffset(g, d) = Wrap(BlockIndex(g, d) * g.bytes)
      BY BlockIndexExact
    <2>. QED
      BY <1>2, <2>1, <2>2, IndexedApart
  <1>. QED
    BY <1>3, <1>4

\* KVBlockLayout::capacity_for fills the budget as far as whole blocks can, and
\* its product of tokens never throws (kv_layout.cpp:53-57).
THEOREM CapacityPlanExact == \A g \in Geometry : CapacityExact(g)
  <1>1. SUFFICES ASSUME NEW g \in Geometry, BlockBytes(g) # Overflow, NEW budget \in Budget
                 PROVE  /\ Wrap(BlocksFor(g, budget) * BlockBytes(g)) <= budget
                        /\ budget < Wrap(BlocksFor(g, budget) * BlockBytes(g)) + BlockBytes(g)
                        /\ Multiply(BlocksFor(g, budget), g.tokens) # Overflow
    BY DEF CapacityExact, CapacityFor
  <1>. DEFINE size == BlockBytes(g)
              many == BlocksFor(g, budget)
  <1>2. size \in Nat \ {0} /\ g.tokens <= size /\ g.tokens \in Nat \ {0} /\ budget \in 0..SizeMax
    BY <1>1, BlockBytesExact, GeometryTypes, SizeMaxIsNat, BudgetsFit, SMT
  <1>3. many = budget \div size
    BY DEF BlocksFor
  <1>. HIDE DEF size, many
  <1>4. many \in Nat /\ many * size \in Nat /\ many * size <= budget /\ budget < many * size + size
    <2>1. many \in Nat /\ budget % size \in 0..size - 1 /\ budget = many * size + (budget % size)
      <3>1. budget \in Nat
        BY <1>2, SizeMaxIsNat
      <3>. QED
        BY <1>2, <1>3, <3>1, Quotient
    <2>2. many * size \in Nat
      BY <1>2, <2>1, TimesNat
    <2>. QED
      BY <1>2, <2>1, <2>2, SizeMaxIsNat, SMT
  <1>5. Wrap(many * size) = many * size
    BY <1>2, <1>4, WrapSmall, SizeMaxIsNat, SMT
  <1>6. many <= SizeMax \div g.tokens
    <2>1. g.tokens * many <= size * many
      BY <1>2, <1>4, TimesMonotone
    <2>2. many * g.tokens <= SizeMax
      BY <1>2, <1>4, <2>1, SizeMaxIsNat, SMT
    <2>. QED
      BY <1>2, <1>4, <2>2, SizeMaxIsNat, FitsQuotient
  <1>7. Multiply(many, g.tokens) # Overflow
    <2>1. many # Overflow /\ g.tokens # Overflow
      BY <1>2, <1>4, OverflowIsNoSize
    <2>2. ~(many > SizeMax \div g.tokens)
      <3>1. SizeMax \div g.tokens \in Nat
        BY <1>2, Quotient, SizeMaxIsNat
      <3>. QED
        BY <1>4, <1>6, <3>1, SMT
    <2>3. Wrap(many * g.tokens) \in Nat
      <3>1. many * g.tokens \in Nat
        BY <1>2, <1>4, TimesNat
      <3>. QED
        BY <3>1, Quotient, SizeMaxIsNat, SMT DEF Wrap
    <2>. QED
      BY <2>1, <2>2, <2>3, OverflowIsNoSize DEF Multiply
  <1>. QED
    BY <1>4, <1>5, <1>7 DEF size, many

-----------------------------------------------------------------------------

PageElements(g) == (g.heads * g.tokens) * g.dims

\* What the constructor of PagedKVLayout has checked
\* (paged_kv_layout.cpp:36-40).
LEMMA PageBytesExact ==
    ASSUME NEW g \in Geometry, Constructible(g)
    PROVE  /\ PageElements(g) \in Nat
           /\ PageBytes(g) = PageElements(g) * g.bytes
           /\ PageBytes(g) \in Nat
           /\ CacheBytes(g) = g.blocks * PageBytes(g)
           /\ CacheBytes(g) \in Nat
           /\ TotalBytes(g) = 2 * CacheBytes(g)
           /\ TotalBytes(g) \in 0..SizeMax
           /\ SlotCount(g) = g.blocks * g.tokens
           /\ SlotCount(g) \in 0..SizeMax
  <1>. DEFINE M1 == Multiply(g.heads, g.tokens)
              M2 == Multiply(M1, g.dims)
              M3 == Multiply(M2, g.bytes)
              M4 == Multiply(g.blocks, M3)
              M5 == Multiply(2, M4)
  <1>1. PageBytes(g) = M3 /\ CacheBytes(g) = M4 /\ TotalBytes(g) = M5
    BY DEF PageBytes, CacheBytes, TotalBytes
  <1>2. M5 # Overflow /\ SlotCount(g) # Overflow
    BY <1>1 DEF Constructible
  <1>. HIDE DEF M1, M2, M3, M4, M5
  <1>3. M1 \in Nat \cup {Overflow}
    BY GeometryTypes, MultiplyType DEF M1
  <1>4. M2 \in Nat \cup {Overflow}
    BY <1>3, GeometryTypes, MultiplyType DEF M2
  <1>5. M3 \in Nat \cup {Overflow}
    BY <1>4, GeometryTypes, MultiplyType DEF M3
  <1>6. M4 \in Nat \cup {Overflow}
    BY <1>5, GeometryTypes, MultiplyType DEF M4
  <1>7. M5 = 2 * M4 /\ M4 \in Nat /\ 2 * M4 \in 0..SizeMax
    BY <1>2, <1>6, MultiplyExact DEF M5
  <1>8. M4 = g.blocks * M3 /\ M3 \in Nat
    BY <1>5, <1>7, OverflowIsNoSize, GeometryTypes, MultiplyExact DEF M4
  <1>9. M3 = M2 * g.bytes /\ M2 \in Nat
    BY <1>4, <1>8, OverflowIsNoSize, GeometryTypes, MultiplyExact DEF M3
  <1>10. M2 = M1 * g.dims /\ M1 \in Nat
    BY <1>3, <1>9, OverflowIsNoSize, GeometryTypes, MultiplyExact DEF M2
  <1>11. M1 = g.heads * g.tokens
    BY <1>10, OverflowIsNoSize, GeometryTypes, MultiplyExact DEF M1
  <1>12. PageElements(g) = M2
    BY <1>10, <1>11 DEF PageElements
  <1>13. SlotCount(g) = g.blocks * g.tokens /\ SlotCount(g) \in 0..SizeMax
    BY <1>2, GeometryTypes, MultiplyExact DEF SlotCount
  <1>. QED
    BY <1>1, <1>7, <1>8, <1>9, <1>12, <1>13

\* The number of an element among all of the allocation.
RowIndex(g, c) == (c.head * g.tokens + c.token) * g.dims + c.dim

ElementIndex(g, c) == (c.kind * g.blocks + c.block) * PageElements(g) + RowIndex(g, c)

AllElements(g) == (2 * g.blocks) * PageElements(g)

\* The coordinates of an element.
LEMMA CoordinateTypes ==
    ASSUME NEW g \in Geometry, NEW c \in Coordinate(g)
    PROVE  /\ c.kind \in 0..1 /\ c.kind \in Nat
           /\ c.block \in 0..g.blocks - 1 /\ c.block \in Nat
           /\ c.head \in 0..g.heads - 1 /\ c.head \in Nat
           /\ c.token \in 0..g.tokens - 1 /\ c.token \in Nat
           /\ c.dim \in 0..g.dims - 1 /\ c.dim \in Nat
  BY GeometryTypes DEF Coordinate

\* The index of an element within its page is in range.
LEMMA RowIndexRange ==
    ASSUME NEW g \in Geometry, NEW c \in Coordinate(g)
    PROVE  /\ RowIndex(g, c) \in 0..PageElements(g) - 1
           /\ PageElements(g) \in Nat
  <1>1. c.head * g.tokens + c.token \in 0..g.heads * g.tokens - 1
    BY CoordinateTypes, GeometryTypes, RowInRange
  <1>2. g.heads * g.tokens \in Nat
    BY GeometryTypes, TimesNat
  <1>3. PageElements(g) \in Nat
    BY <1>2, GeometryTypes, TimesNat DEF PageElements
  <1>. DEFINE row == c.head * g.tokens + c.token
              rows == g.heads * g.tokens
  <1>4. RowIndex(g, c) = row * g.dims + c.dim /\ PageElements(g) = rows * g.dims
    BY DEF RowIndex, PageElements
  <1>5. row \in 0..rows - 1 /\ rows \in Nat
    BY <1>1, <1>2
  <1>. HIDE DEF row, rows
  <1>6. row * g.dims + c.dim \in 0..rows * g.dims - 1
    BY <1>5, CoordinateTypes, GeometryTypes, RowInRange
  <1>. QED
    BY <1>3, <1>4, <1>6

\* The index of an element within the allocation is in range, ...
LEMMA ElementIndexRange ==
    ASSUME NEW g \in Geometry, NEW c \in Coordinate(g)
    PROVE  /\ ElementIndex(g, c) \in 0..AllElements(g) - 1
           /\ AllElements(g) \in Nat
  <1>. DEFINE page == c.kind * g.blocks + c.block
              pages == 2 * g.blocks
  <1>1. page \in 0..pages - 1
    BY CoordinateTypes, GeometryTypes, RowInRange
  <1>2. pages \in Nat
    BY GeometryTypes, TimesNat
  <1>3. ElementIndex(g, c) = page * PageElements(g) + RowIndex(g, c)
        /\ AllElements(g) = pages * PageElements(g)
    BY DEF ElementIndex, AllElements
  <1>. HIDE DEF page, pages
  <1>4. page * PageElements(g) + RowIndex(g, c) \in 0..pages * PageElements(g) - 1
    BY <1>1, <1>2, RowIndexRange, RowInRange
  <1>5. pages * PageElements(g) \in Nat
    BY <1>2, RowIndexRange, TimesNat
  <1>. QED
    BY <1>3, <1>4, <1>5

\* ... and its own.
LEMMA ElementIndexUnique ==
    ASSUME NEW g \in Geometry, NEW c \in Coordinate(g), NEW d \in Coordinate(g),
           ElementIndex(g, c) = ElementIndex(g, d)
    PROVE  c = d
  <1>. DEFINE Page(x) == x.kind * g.blocks + x.block
              Row(x) == x.head * g.tokens + x.token
  <1>1. \A x \in Coordinate(g) : Page(x) \in Nat /\ Row(x) \in Nat
    BY CoordinateTypes, GeometryTypes, TimesNat
  <1>2. Page(c) = Page(d) /\ RowIndex(g, c) = RowIndex(g, d)
    <2>1. Page(c) * PageElements(g) + RowIndex(g, c) = Page(d) * PageElements(g) + RowIndex(g, d)
      BY DEF ElementIndex
    <2>2. RowIndex(g, c) \in 0..PageElements(g) - 1 /\ RowIndex(g, d) \in 0..PageElements(g) - 1
          /\ PageElements(g) \in Nat
      BY RowIndexRange
    <2>3. Page(c) \in Nat /\ Page(d) \in Nat
      BY <1>1
    <2>. HIDE DEF Page
    <2>. QED
      BY <2>1, <2>2, <2>3, RowUnique
  <1>3. c.kind = d.kind /\ c.block = d.block
    <2>1. c.kind * g.blocks + c.block = d.kind * g.blocks + d.block
      BY <1>2
    <2>2. /\ c.kind \in Nat /\ d.kind \in Nat /\ g.blocks \in Nat
          /\ c.block \in 0..g.blocks - 1 /\ d.block \in 0..g.blocks - 1
      BY CoordinateTypes, GeometryTypes
    <2>. QED
      BY <2>1, <2>2, RowUnique
  <1>4. Row(c) = Row(d) /\ c.dim = d.dim
    <2>1. Row(c) * g.dims + c.dim = Row(d) * g.dims + d.dim
      BY <1>2 DEF RowIndex
    <2>2. Row(c) \in Nat /\ Row(d) \in Nat
      BY <1>1
    <2>3. c.dim \in 0..g.dims - 1 /\ d.dim \in 0..g.dims - 1 /\ g.dims \in Nat
      BY CoordinateTypes, GeometryTypes
    <2>. HIDE DEF Row
    <2>. QED
      BY <2>1, <2>2, <2>3, RowUnique
  <1>5. c.head = d.head /\ c.token = d.token
    <2>1. c.head * g.tokens + c.token = d.head * g.tokens + d.token
      BY <1>4
    <2>2. /\ c.head \in Nat /\ d.head \in Nat /\ g.tokens \in Nat
          /\ c.token \in 0..g.tokens - 1 /\ d.token \in 0..g.tokens - 1
      BY CoordinateTypes, GeometryTypes
    <2>. QED
      BY <2>1, <2>2, RowUnique
  <1>. QED
    BY <1>3, <1>4, <1>5 DEF Coordinate

\* The offset of the host is that index times the size of an element.
LEMMA ByteOffsetIndexed ==
    ASSUME NEW g \in Geometry, Constructible(g), NEW c \in Coordinate(g)
    PROVE  /\ ByteOffset(g, c) = Wrap(ElementIndex(g, c) * g.bytes)
           /\ TotalBytes(g) = AllElements(g) * g.bytes
  <1>. DEFINE P == PageElements(g)
              R == RowIndex(g, c)
  <1>1. P \in Nat /\ R \in Nat /\ PageBytes(g) = P * g.bytes
        /\ CacheBytes(g) = g.blocks * (P * g.bytes)
        /\ TotalBytes(g) = 2 * (g.blocks * (P * g.bytes))
    BY PageBytesExact, RowIndexRange
  <1>2. ByteOffset(g, c) =
            Wrap(((IF c.kind = 1 THEN g.blocks * (P * g.bytes) ELSE 0) + c.block * (P * g.bytes))
                    + R * g.bytes)
    BY <1>1 DEF ByteOffset, PageOffset, RowIndex
  <1>3. ElementIndex(g, c) = (c.kind * g.blocks + c.block) * P + R
        /\ AllElements(g) = (2 * g.blocks) * P
    BY DEF ElementIndex, AllElements
  <1>. HIDE DEF P, R
  <1>4. (2 * g.blocks) * P * g.bytes = 2 * (g.blocks * (P * g.bytes))
    BY <1>1, GeometryTypes, SMT
  <1>5. ((IF c.kind = 1 THEN g.blocks * (P * g.bytes) ELSE 0) + c.block * (P * g.bytes)) + R * g.bytes
            = ((c.kind * g.blocks + c.block) * P + R) * g.bytes
    <2>. DEFINE b == g.blocks
                k == c.block
                y == g.bytes
    <2>1. b \in Nat /\ k \in Nat /\ y \in Nat
      BY GeometryTypes, CoordinateTypes
    <2>2. CASE c.kind = 1
      <3>1. (b * (P * y) + k * (P * y)) + R * y = ((1 * b + k) * P + R) * y
        <4>. HIDE DEF b, k, y
        <4>. QED
          BY <1>1, <2>1, SMT
      <3>. QED
        BY <2>2, <3>1
    <2>3. CASE c.kind = 0
      <3>1. (0 + k * (P * y)) + R * y = ((0 * b + k) * P + R) * y
        <4>. HIDE DEF b, k, y
        <4>. QED
          BY <1>1, <2>1, SMT
      <3>. QED
        BY <2>3, <3>1
    <2>. QED
      BY <2>2, <2>3, CoordinateTypes
  <1>. QED
    BY <1>1, <1>2, <1>3, <1>4, <1>5

\* PagedKVLayout::byte_offset never leaves the allocation, keeps K and V apart and
\* never maps two elements to one byte (paged_kv_layout.cpp:43-59).
THEOREM PagedLayoutExact == \A g \in Geometry : PagesExact(g)
  <1>1. SUFFICES ASSUME NEW g \in Geometry, Constructible(g), NEW c \in Coordinate(g)
                 PROVE  /\ ByteOffset(g, c) + g.bytes <= TotalBytes(g)
                        /\ \A d \in Coordinate(g) :
                             c # d => Apart(g, ByteOffset(g, c), ByteOffset(g, d))
    BY DEF PagesExact
  <1>2. AllElements(g) \in Nat /\ AllElements(g) * g.bytes \in 0..SizeMax
        /\ TotalBytes(g) = AllElements(g) * g.bytes
    BY <1>1, ElementIndexRange, ByteOffsetIndexed, PageBytesExact
  <1>3. ByteOffset(g, c) + g.bytes <= TotalBytes(g)
    BY <1>1, <1>2, ElementIndexRange, ByteOffsetIndexed, IndexedApart
  <1>4. ASSUME NEW d \in Coordinate(g), c # d
        PROVE  Apart(g, ByteOffset(g, c), ByteOffset(g, d))
    <2>1. ElementIndex(g, c) # ElementIndex(g, d)
      BY <1>4, ElementIndexUnique
    <2>2. ElementIndex(g, c) \in 0..AllElements(g) - 1 /\ ElementIndex(g, d) \in 0..AllElements(g) - 1
      BY ElementIndexRange
    <2>3. ByteOffset(g, c) = Wrap(ElementIndex(g, c) * g.bytes)
          /\ ByteOffset(g, d) = Wrap(ElementIndex(g, d) * g.bytes)
      BY <1>1, ByteOffsetIndexed
    <2>. QED
      BY <1>2, <2>1, <2>2, <2>3, IndexedApart
  <1>. QED
    BY <1>3, <1>4

\* For the slot that build_slot_mapping gives a token, slot_byte_offset and the
\* index the kernels compute name the byte that byte_offset names
\* (slot_mapping.cpp:26-29, paged_kv_write.cu:77-80).
THEOREM KernelIndexExact == \A g \in Geometry : KernelsAgree(g)
  <1>1. SUFFICES ASSUME NEW g \in Geometry, Constructible(g), NEW c \in Coordinate(g)
                 PROVE  LET slot == Slot(g, c.block, c.token) IN
                        /\ slot \in 0..SlotCount(g) - 1
                        /\ SlotOffset(g, c.kind, slot, c.head, c.dim) = ByteOffset(g, c)
                        /\ KernelOffset(g, c.kind, slot, c.head, c.dim) = ByteOffset(g, c)
    BY DEF KernelsAgree
  <1>. DEFINE place == c.block * g.tokens + c.token
              slot == Slot(g, c.block, c.token)
  <1>2. place \in 0..SlotCount(g) - 1 /\ SlotCount(g) \in 0..SizeMax
    <2>1. place \in 0..g.blocks * g.tokens - 1
      BY CoordinateTypes, GeometryTypes, RowInRange
    <2>. QED
      BY <1>1, <2>1, PageBytesExact
  <1>3. slot = place
    <2>1. SizeMax - c.token \in Nat /\ c.block * g.tokens <= SizeMax - c.token
      <3>1. c.block * g.tokens \in Nat
        BY CoordinateTypes, GeometryTypes, TimesNat
      <3>. QED
        BY <1>2, <3>1, CoordinateTypes, SizeMaxIsNat
    <2>2. c.block <= (SizeMax - c.token) \div g.tokens /\ (SizeMax - c.token) \div g.tokens \in Nat
      BY <2>1, CoordinateTypes, GeometryTypes, FitsQuotient
    <2>3. ~(c.block > (SizeMax - c.token) \div g.tokens)
      BY <2>2, CoordinateTypes
    <2>4. Wrap(place) = place
      BY <1>2, WrapSmall, SizeMaxIsNat
    <2>. QED
      BY <2>3, <2>4 DEF Slot
  <1>4. place \div g.tokens = c.block /\ place % g.tokens = c.token
    <2>1. c.block \in Nat /\ g.tokens \in Nat \ {0} /\ c.token \in 0..g.tokens - 1
      BY CoordinateTypes, GeometryTypes
    <2>. QED
      BY <2>1, RowDivided
  <1>5. SlotOffset(g, c.kind, place, c.head, c.dim) = ByteOffset(g, c)
    <2>1. c = [kind |-> c.kind, block |-> c.block, head |-> c.head, token |-> c.token, dim |-> c.dim]
      BY DEF Coordinate
    <2>. QED
      BY <1>4, <2>1 DEF SlotOffset
  <1>6. KernelOffset(g, c.kind, place, c.head, c.dim) = ByteOffset(g, c)
    <2>. DEFINE P == PageElements(g)
                R == RowIndex(g, c)
                X == ((c.block * g.heads + c.head) * g.tokens + c.token) * g.dims + c.dim
    <2>1. P \in Nat /\ R \in Nat /\ PageBytes(g) = P * g.bytes
      BY <1>1, PageBytesExact, RowIndexRange
    <2>2. CacheIndex(g, place, c.head, c.dim) = X
      BY <1>4 DEF CacheIndex
    <2>3. X = c.block * P + R
      BY CoordinateTypes, GeometryTypes, SMT DEF PageElements, RowIndex
    <2>4. KernelOffset(g, c.kind, place, c.head, c.dim)
            = Wrap((c.kind * g.blocks) * (P * g.bytes) + (c.block * P + R) * g.bytes)
      <3>. HIDE DEF P, R, X, place
      <3>. QED
        BY <2>1, <2>2, <2>3 DEF KernelOffset
    <2>5. (c.kind * g.blocks) * (P * g.bytes) + (c.block * P + R) * g.bytes
            = ((c.kind * g.blocks + c.block) * P + R) * g.bytes
      <3>. DEFINE b == g.blocks
                  k == c.block
                  y == g.bytes
                  z == c.kind
      <3>1. b \in Nat /\ k \in Nat /\ y \in Nat /\ z \in Nat
        BY GeometryTypes, CoordinateTypes
      <3>2. (z * b) * (P * y) + (k * P + R) * y = ((z * b + k) * P + R) * y
        <4>. HIDE DEF b, k, y, z, P, R
        <4>. QED
          BY <2>1, <3>1, SMT
      <3>. QED
        BY <3>2
    <2>6. ByteOffset(g, c) = Wrap(((c.kind * g.blocks + c.block) * P + R) * g.bytes)
      BY <1>1, ByteOffsetIndexed DEF ElementIndex
    <2>. QED
      BY <2>4, <2>5, <2>6
  <1>. HIDE DEF place, slot
  <1>7. slot \in 0..SlotCount(g) - 1
        /\ SlotOffset(g, c.kind, slot, c.head, c.dim) = ByteOffset(g, c)
        /\ KernelOffset(g, c.kind, slot, c.head, c.dim) = ByteOffset(g, c)
    BY <1>2, <1>3, <1>5, <1>6
  <1>. QED
    BY <1>7 DEF slot

\* All of it, for every geometry and budget.
THEOREM LayoutsCorrect == LayoutsExact
  BY BlockLayoutExact, CapacityPlanExact, PagedLayoutExact, KernelIndexExact
     DEF LayoutsExact, BlocksExact, PoolsExact
=============================================================================
