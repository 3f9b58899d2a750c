------------------------- MODULE BlockManager_proofs -------------------------
(* Proofs about BlockManager, for any pool, any prefixes and any hash      *)
(* function: where every block is, what the index lists, what a held       *)
(* handle may rely on, and that the manager is the pool of PagePool.       *)
(*                                                                         *)
(* Three layers: the lists on their own, the places that hold a block on   *)
(* their own, and then every operation on both.                            *)
EXTENDS BlockManager, SequenceTheorems, FiniteSetTheorems, TLAPS

NoRepeat(seq) == \A i, j \in DOMAIN seq : seq[i] = seq[j] => i = j

-----------------------------------------------------------------------------
(* The lists.                                                              *)

\* Unlinking a block from a list without repetitions takes out that block
\* and no other (IndexLru::erase).
LEMMA WithoutList ==
    ASSUME NEW S, NEW seq \in Seq(S), NoRepeat(seq), NEW b
    PROVE  /\ Without(seq, b) \in Seq(S)
           /\ NoRepeat(Without(seq, b))
           /\ \A a : InSeq(Without(seq, b), a) <=> InSeq(seq, a) /\ a # b
<1>1. CASE ~InSeq(seq, b)
  BY <1>1 DEF Without, InSeq
<1>2. CASE InSeq(seq, b)
  <2> DEFINE at == PlaceOf(seq, b)
             n == Len(seq)
             cut == SubSeq(seq, 1, at - 1) \o SubSeq(seq, at + 1, n)
  <2>1. at \in DOMAIN seq /\ seq[at] = b
    BY <1>2 DEF InSeq, PlaceOf
  <2>2. DOMAIN seq = 1..n /\ n \in Nat
    BY LenProperties
  <2>3. at \in 1..n
    BY <2>1, <2>2
  <2> HIDE DEF at, n
  <2>4. /\ SubSeq(seq, 1, at - 1) \in Seq(S)
        /\ Len(SubSeq(seq, 1, at - 1)) = at - 1
        /\ \A i \in 1..(at - 1) : SubSeq(seq, 1, at - 1)[i] = seq[i]
    BY <2>2, <2>3 DEF n
  <2>5. /\ SubSeq(seq, at + 1, n) \in Seq(S)
        /\ Len(SubSeq(seq, at + 1, n)) = n - at
        /\ \A i \in 1..(n - at) : SubSeq(seq, at + 1, n)[i] = seq[at + i]
    <3>1. at + 1 \in 1..(n + 1) /\ n \in (at + 1 - 1)..n
      BY <2>2, <2>3
    <3>2. n - (at + 1) + 1 = n - at /\ \A i \in 1..(n - at) : at + 1 + i - 1 = at + i
      BY <2>2, <2>3
    <3> QED BY <3>1, <3>2, <2>2, SubSeqProperties DEF n
  <2>6. cut \in Seq(S) /\ DOMAIN cut = 1..(n - 1)
    BY <2>2, <2>3, <2>4, <2>5
  <2>7. \A i \in 1..(n - 1) : cut[i] = IF i < at THEN seq[i] ELSE seq[i + 1]
    BY <2>2, <2>3, <2>4, <2>5
  <2>8. Without(seq, b) = cut
    BY <1>2 DEF Without, at, n
  <2> HIDE DEF cut
  <2> DEFINE old(i) == IF i < at THEN i ELSE i + 1
  <2>9. \A i \in 1..(n - 1) : old(i) \in 1..n /\ old(i) # at /\ cut[i] = seq[old(i)]
    BY <2>2, <2>3, <2>7
  <2>a. \A i, j \in 1..(n - 1) : old(i) = old(j) => i = j
    BY <2>2, <2>3
  <2> HIDE DEF old
  <2>b. NoRepeat(cut)
    BY <2>2, <2>6, <2>9, <2>a DEF NoRepeat
  <2>c. ASSUME NEW a, InSeq(cut, a) PROVE InSeq(seq, a) /\ a # b
    <3>1. PICK i \in 1..(n - 1) : cut[i] = a
      BY <2>6, <2>c DEF InSeq
    <3>2. old(i) \in DOMAIN seq /\ seq[old(i)] = a /\ old(i) # at
      BY <2>2, <2>9, <3>1
    <3> QED BY <2>1, <3>2 DEF InSeq, NoRepeat
  <2>11. ASSUME NEW a, InSeq(seq, a), a # b PROVE InSeq(cut, a)
    <3>1. PICK i \in 1..n : seq[i] = a
      BY <2>2, <2>11 DEF InSeq
    <3>2. CASE i < at
      <4>1. i \in 1..(n - 1) /\ cut[i] = a
        BY <2>2, <2>3, <2>7, <3>1, <3>2
      <4> QED BY <4>1, <2>6 DEF InSeq
    <3>3. CASE i > at
      <4>1. i - 1 \in 1..(n - 1) /\ cut[i - 1] = a
        BY <2>2, <2>3, <2>7, <3>1, <3>3
      <4> QED BY <4>1, <2>6 DEF InSeq
    <3> QED BY <3>1, <3>2, <3>3, <2>1, <2>2, <2>3, <2>11
  <2> QED BY <2>6, <2>8, <2>b, <2>c, <2>11
<1> QED BY <1>1, <1>2

\* Releasing puts a block that is on no list at the head of the free list or
\* at the end of the LRU list.
LEMMA LinkedList ==
    ASSUME NEW S, NEW seq \in Seq(S), NoRepeat(seq), NEW b \in S, ~InSeq(seq, b)
    PROVE  /\ <<b>> \o seq \in Seq(S) /\ NoRepeat(<<b>> \o seq)
           /\ \A a : InSeq(<<b>> \o seq, a) <=> InSeq(seq, a) \/ a = b
           /\ Append(seq, b) \in Seq(S) /\ NoRepeat(Append(seq, b))
           /\ \A a : InSeq(Append(seq, b), a) <=> InSeq(seq, a) \/ a = b
<1> DEFINE n == Len(seq)
           front == <<b>> \o seq
           back == Append(seq, b)
<1>1. DOMAIN seq = 1..n /\ n \in Nat
  BY LenProperties
<1>2. /\ front \in Seq(S) /\ DOMAIN front = 1..(n + 1)
      /\ \A i \in 1..(n + 1) : front[i] = IF i = 1 THEN b ELSE seq[i - 1]
  BY <1>1
<1>3. /\ back \in Seq(S) /\ DOMAIN back = 1..(n + 1)
      /\ \A i \in 1..(n + 1) : back[i] = IF i = n + 1 THEN b ELSE seq[i]
  BY <1>1
<1> HIDE DEF n, front, back
<1>4. \A i \in 1..n : seq[i] # b
  BY <1>1 DEF InSeq
<1>5. NoRepeat(front)
  <2> SUFFICES ASSUME NEW i \in 1..(n + 1), NEW j \in 1..(n + 1), front[i] = front[j]
               PROVE  i = j
    BY <1>2 DEF NoRepeat
  <2>1. CASE i = 1 \/ j = 1
    BY <2>1, <1>1, <1>2, <1>4
  <2>2. CASE i # 1 /\ j # 1
    <3>1. i - 1 \in 1..n /\ j - 1 \in 1..n /\ seq[i - 1] = seq[j - 1]
      BY <2>2, <1>1, <1>2
    <3>2. i - 1 = j - 1
      BY <3>1, <1>1 DEF NoRepeat
    <3> QED BY <3>2, <1>1
  <2> QED BY <2>1, <2>2
<1>6. NoRepeat(back)
  BY <1>1, <1>3, <1>4 DEF NoRepeat
<1>7. ASSUME NEW a PROVE InSeq(front, a) <=> InSeq(seq, a) \/ a = b
  <2>1. ASSUME NEW i \in 1..n, seq[i] = a PROVE front[i + 1] = a /\ i + 1 \in 1..(n + 1)
    BY <1>1, <1>2, <2>1
  <2>2. front[1] = b /\ 1 \in 1..(n + 1)
    BY <1>1, <1>2
  <2>3. ASSUME NEW i \in 1..(n + 1), front[i] = a, a # b
        PROVE  i - 1 \in 1..n /\ seq[i - 1] = a
    BY <1>1, <1>2, <2>3
  <2> QED BY <1>1, <1>2, <2>1, <2>2, <2>3 DEF InSeq
<1>8. ASSUME NEW a PROVE InSeq(back, a) <=> InSeq(seq, a) \/ a = b
  <2>1. ASSUME NEW i \in 1..n, seq[i] = a PROVE back[i] = a /\ i \in 1..(n + 1)
    BY <1>1, <1>3, <2>1
  <2>2. back[n + 1] = b /\ n + 1 \in 1..(n + 1)
    BY <1>1, <1>3
  <2>3. ASSUME NEW i \in 1..(n + 1), back[i] = a, a # b
        PROVE  i \in 1..n /\ seq[i] = a
    BY <1>1, <1>3, <2>3
  <2> QED BY <1>1, <1>3, <2>1, <2>2, <2>3 DEF InSeq
<1> QED BY <1>2, <1>3, <1>5, <1>6, <1>7, <1>8 DEF front, back

\* On a list without repetitions a block occurs once or not at all.
LEMMA OccursOnce ==
    ASSUME NEW seq, NoRepeat(seq), NEW b
    PROVE  Occurrences(seq, b) = IF InSeq(seq, b) THEN 1 ELSE 0
<1> DEFINE at == {i \in DOMAIN seq : seq[i] = b}
<1>1. CASE InSeq(seq, b)
  <2>1. PICK i \in DOMAIN seq : seq[i] = b
    BY <1>1 DEF InSeq
  <2>2. at = {i}
    BY <2>1 DEF NoRepeat
  <2> QED BY <1>1, <2>2, FS_Singleton DEF Occurrences
<1>2. CASE ~InSeq(seq, b)
  <2>1. at = {}
    BY <1>2 DEF InSeq
  <2> QED BY <1>2, <2>1, FS_EmptySet DEF Occurrences
<1> QED BY <1>1, <1>2

-----------------------------------------------------------------------------
(* The places that hold a block.                                           *)

HoldTypes == hold \in [Holder -> Seq(Handle)]

\* The reference count of a block is the number of its places.
Counted(b) == IsFiniteSet(References(b)) /\ refs[b] = Cardinality(References(b))

LEMMA ReferenceIs ==
    ASSUME NEW b, NEW r
    PROVE  r \in References(b) <=>
             \E h \in Holder : \E i \in Places(h, b) : r = <<h, i>>
BY DEF References

\* Appending a handle to a table adds one place of its block and of no other.
LEMMA PlaceAdded ==
    ASSUME HoldTypes, NEW h \in Holder, NEW e \in Handle, NEW b \in Block,
           hold' = [hold EXCEPT ![h] = Append(hold[h], e)]
    PROVE  /\ <<h, Len(hold[h]) + 1>> \notin References(b)
           /\ References(b)' = IF e.id = b
                               THEN References(b) \cup {<<h, Len(hold[h]) + 1>>}
                               ELSE References(b)
<1> DEFINE n == Len(hold[h])
<1>1. DOMAIN hold[h] = 1..n /\ n \in Nat
  BY LenProperties DEF HoldTypes
<1>2. /\ DOMAIN hold'[h] = 1..(n + 1) /\ hold'[h][n + 1] = e
      /\ \A i \in 1..n : hold'[h][i] = hold[h][i]
  BY <1>1 DEF HoldTypes
<1>3. \A k \in Holder : k # h => hold'[k] = hold[k]
  BY DEF HoldTypes
<1> HIDE DEF n
<1>4. n + 1 \notin Places(h, b)
  BY <1>1 DEF Places
<1>5. Places(h, b)' = IF e.id = b THEN Places(h, b) \cup {n + 1} ELSE Places(h, b)
  BY <1>1, <1>2 DEF Places
<1>6. \A k \in Holder : k # h => Places(k, b)' = Places(k, b)
  BY <1>3 DEF Places
<1>7. <<h, n + 1>> \notin References(b)
  BY <1>4 DEF References
<1>8. CASE e.id = b
  <2>1. References(b)' = UNION {{k} \X Places(k, b)' : k \in Holder}
    BY DEF References
  <2>2. Places(h, b)' = Places(h, b) \cup {n + 1}
    BY <1>5, <1>8
  <2>3. \A r : r \in References(b)' <=> r \in References(b) \/ r = <<h, n + 1>>
    BY <2>1, <2>2, <1>6 DEF References
  <2> QED BY <1>7, <1>8, <2>3 DEF n
<1>9. CASE e.id # b
  <2>1. \A k \in Holder : Places(k, b)' = Places(k, b)
    BY <1>5, <1>6, <1>9
  <2> QED BY <1>7, <1>9, <2>1 DEF References, n
<1> QED BY <1>8, <1>9

\* Dropping the first handle of a table removes one place of its block; the
\* others move up by one.
LEMMA PlaceDropped ==
    ASSUME HoldTypes, NEW h \in Holder, NEW b \in Block, hold[h] # <<>>,
           hold' = [hold EXCEPT ![h] = Tail(hold[h])], IsFiniteSet(References(b))
    PROVE  /\ IsFiniteSet(References(b)')
           /\ Cardinality(References(b)') =
                Cardinality(References(b)) - IF Head(hold[h]).id = b THEN 1 ELSE 0
           /\ Head(hold[h]).id = b => Cardinality(References(b)) > 0
<1> DEFINE n == Len(hold[h])
           first == IF Head(hold[h]).id = b THEN {<<h, 1>>} ELSE {}
           rest == References(b) \ first
           move == [r \in rest |-> IF r[1] = h THEN <<h, r[2] - 1>> ELSE r]
<1>1. DOMAIN hold[h] = 1..n /\ n \in Nat /\ n > 0 /\ Head(hold[h]) = hold[h][1]
  BY LenProperties, EmptySeq DEF HoldTypes
<1>2. /\ DOMAIN hold'[h] = 1..(n - 1)
      /\ \A i \in 1..(n - 1) : hold'[h][i] = hold[h][i + 1]
  BY <1>1 DEF HoldTypes
<1>3. \A k \in Holder : k # h => hold'[k] = hold[k]
  BY DEF HoldTypes
<1> HIDE DEF n
<1>4. \A i : i \in Places(h, b)' <=> i \in Nat /\ i > 0 /\ i + 1 \in Places(h, b)
  BY <1>1, <1>2 DEF Places
<1>5. \A k \in Holder : k # h => Places(k, b)' = Places(k, b)
  BY <1>3 DEF Places
<1>6. \A i \in Places(h, b) : i \in Nat /\ i > 0
  BY <1>1 DEF Places
<1>7. 1 \in Places(h, b) <=> Head(hold[h]).id = b
  BY <1>1 DEF Places
<1>8. first \subseteq References(b)
  BY <1>7 DEF References
<1>9. IsFiniteSet(rest) /\ Cardinality(rest) =
        Cardinality(References(b)) - IF Head(hold[h]).id = b THEN 1 ELSE 0
  <2>1. CASE Head(hold[h]).id = b
    <3>1. rest = References(b) \ {<<h, 1>>} /\ <<h, 1>> \in References(b)
      BY <2>1, <1>8
    <3> HIDE DEF rest
    <3> QED BY <2>1, <3>1, FS_RemoveElement
  <2>2. CASE Head(hold[h]).id # b
    <3>1. rest = References(b)
      BY <2>2
    <3> HIDE DEF rest
    <3> QED BY <2>2, <3>1, FS_CardinalityType
  <2> QED BY <2>1, <2>2
<1>10. Head(hold[h]).id = b => Cardinality(References(b)) > 0
  BY <1>8, FS_EmptySet, FS_CardinalityType
<1>11. \A r : r \in rest <=>
         \E k \in Holder : \E i \in Places(k, b) : r = <<k, i>> /\ ~(k = h /\ i = 1)
  BY <1>6, <1>7, ReferenceIs
<1>12. \A r : r \in References(b)' <=>
         \E k \in Holder : \E i \in Places(k, b)' : r = <<k, i>>
  BY DEF References
<1> HIDE DEF rest, first
<1>13. ExistsBijection(rest, References(b)')
  <2>1. ASSUME NEW r \in rest PROVE move[r] \in References(b)'
    <3>1. PICK k \in Holder : \E i \in Places(k, b) : r = <<k, i>> /\ ~(k = h /\ i = 1)
      BY <1>11
    <3>1i. PICK i \in Places(k, b) : r = <<k, i>> /\ ~(k = h /\ i = 1)
      BY <3>1
    <3>2. CASE k = h
      <4>1. i - 1 \in Places(h, b)'
        BY <1>4, <1>6, <3>1i, <3>2
      <4> QED BY <3>1i, <3>2, <4>1, <1>12
    <3>3. CASE k # h
      BY <1>5, <1>12, <3>1i, <3>3
    <3> QED BY <3>2, <3>3
  <2>2. ASSUME NEW q \in rest, NEW r \in rest, move[q] = move[r] PROVE q = r
    <3>1. PICK k \in Holder : \E i \in Places(k, b) : q = <<k, i>>
      BY <1>11
    <3>1i. PICK i \in Places(k, b) : q = <<k, i>>
      BY <3>1
    <3>2. PICK m \in Holder : \E j \in Places(m, b) : r = <<m, j>>
      BY <1>11
    <3>2i. PICK j \in Places(m, b) : r = <<m, j>>
      BY <3>2
    <3> QED BY <1>6, <2>2, <3>1i, <3>2i
  <2>3. ASSUME NEW t \in References(b)' PROVE \E r \in rest : move[r] = t
    <3>1. PICK k \in Holder : \E i \in Places(k, b)' : t = <<k, i>>
      BY <1>12
    <3>1i. PICK i \in Places(k, b)' : t = <<k, i>>
      BY <3>1
    <3>2. CASE k = h
      <4>1. <<h, i + 1>> \in rest
        BY <1>4, <1>11, <3>1i, <3>2
      <4>2. move[<<h, i + 1>>] = t
        BY <1>4, <3>1i, <3>2, <4>1
      <4> QED BY <4>1, <4>2
    <3>3. CASE k # h
      <4>1. t \in rest
        BY <1>5, <1>11, <3>1i, <3>3
      <4> QED BY <3>1i, <3>3, <4>1
    <3> QED BY <3>2, <3>3
  <2> HIDE DEF move
  <2>4. move \in [rest -> References(b)']
    BY <2>1 DEF move
  <2>5. move \in Injection(rest, References(b)')
    BY <2>2, <2>4 DEF Injection, IsInjective
  <2>6. move \in Surjection(rest, References(b)')
    BY <2>3, <2>4 DEF Surjection
  <2> QED BY <2>5, <2>6 DEF ExistsBijection, Bijection
<1> QED BY <1>9, <1>10, <1>13, FS_Bijection

-----------------------------------------------------------------------------
(* The operations on one block.                                            *)

PoolTypes ==
    /\ gen \in [Block -> Nat]
    /\ refs \in [Block -> 0..MaxRefs]
    /\ prefix \in [Block -> Prefix \cup {NoPrefix}]
    /\ freeList \in Seq(Block) /\ NoRepeat(freeList)
    /\ idle \in Seq(Block) /\ NoRepeat(idle)
    /\ index \in [HashValue -> SUBSET Block]

\* What BlocksPartitioned says, in terms of membership.
ListsExact ==
    \A b \in Block :
        /\ InSeq(freeList, b) <=> refs[b] = 0 /\ prefix[b] = NoPrefix
        /\ InSeq(idle, b) <=> refs[b] = 0 /\ prefix[b] # NoPrefix

PoolSound == PoolTypes /\ ListsExact /\ IndexExact

\* A published prefix is looked up under a hash value that occurs.
LEMMA HashOccurs ==
    ASSUME NEW p \in Prefix PROVE HashOf(p) \in HashValue
BY DEF HashValue

\* lookup finds every block that is published under the prefix and no other.
LEMMA CachedExact ==
    ASSUME PoolSound, NEW p \in Prefix
    PROVE  \A b \in Block : b \in Cached(p) <=> prefix[b] = p
BY HashOccurs, PrefixesAreFull DEF PoolSound, IndexExact, Cached

\* The head of a list is on it.
LEMMA HeadOnList ==
    ASSUME NEW S, NEW seq \in Seq(S), seq # <<>>
    PROVE  Head(seq) \in S /\ InSeq(seq, Head(seq))
BY LenProperties, EmptySeq, HeadTailProperties DEF InSeq

\* What allocate takes is referenced by nobody.
LEMMA AllocatableIsUnused ==
    ASSUME PoolSound, NEW b \in Block, Allocatable(b)
    PROVE  /\ refs[b] = 0
           /\ prefix[b] # NoPrefix => freeList = <<>>
BY HeadOnList DEF PoolSound, PoolTypes, ListsExact, Allocatable, Candidates

\* allocate, with or without publishing the new block.
LEMMA AllocateSound ==
    ASSUME PoolSound, NEW b \in Block, NEW p \in Prefix \cup {NoPrefix},
           Hits(p) = {}, Allocate(b, p)
    PROVE  PoolSound'
<1>1. refs[b] = 0
  BY AllocatableIsUnused DEF Allocate
<1>2. /\ gen' = [gen EXCEPT ![b] = gen[b] + 1]
      /\ refs' = [refs EXCEPT ![b] = 1]
      /\ prefix' = [prefix EXCEPT ![b] = p]
      /\ freeList' = Without(freeList, b)
      /\ idle' = Without(idle, b)
      /\ index' = IF p = NoPrefix THEN Unindexed(b)
                  ELSE [Unindexed(b) EXCEPT ![HashOf(p)] = Unindexed(b)[HashOf(p)] \cup {b}]
  BY DEF Allocate
<1>3. \A c \in Block : prefix[c] = p => p = NoPrefix
  BY CachedExact DEF Hits
<1>4. /\ Unindexed(b) \in [HashValue -> SUBSET Block]
      /\ \A v \in HashValue : Unindexed(b)[v] =
           {c \in Block : c # b /\ prefix[c] # NoPrefix /\ HashOf(prefix[c]) = v}
  <2>1. CASE prefix[b] = NoPrefix
    BY <2>1 DEF Unindexed, PoolSound, PoolTypes, IndexExact
  <2>2. CASE prefix[b] # NoPrefix
    <3>1. HashOf(prefix[b]) \in HashValue
      BY <2>2, HashOccurs DEF PoolSound, PoolTypes
    <3>2. Unindexed(b) = [index EXCEPT ![HashOf(prefix[b])] = index[HashOf(prefix[b])] \ {b}]
      BY <2>2 DEF Unindexed
    <3>3. ASSUME NEW v \in HashValue
          PROVE  Unindexed(b)[v] =
                   {c \in Block : c # b /\ prefix[c] # NoPrefix /\ HashOf(prefix[c]) = v}
      BY <2>2, <3>1, <3>2 DEF PoolSound, PoolTypes, IndexExact
    <3> QED BY <3>1, <3>2, <3>3 DEF PoolSound, PoolTypes
  <2> QED BY <2>1, <2>2
<1>5. \A v \in HashValue : index'[v] =
        {c \in Block : prefix'[c] # NoPrefix /\ HashOf(prefix'[c]) = v}
  <2>1. CASE p = NoPrefix
    BY <2>1, <1>2, <1>4 DEF PoolSound, PoolTypes
  <2>2. CASE p # NoPrefix
    <3>1. HashOf(p) \in HashValue
      BY <2>2, HashOccurs
    <3>2. \A v \in HashValue : index'[v] =
            IF v = HashOf(p) THEN Unindexed(b)[v] \cup {b} ELSE Unindexed(b)[v]
      BY <2>2, <3>1, <1>2, <1>4
    <3> QED BY <2>2, <3>2, <1>2, <1>4 DEF PoolSound, PoolTypes
  <2> QED BY <2>1, <2>2
<1>6. \A a, c \in Block : prefix'[a] = prefix'[c] /\ prefix'[a] # NoPrefix => a = c
  BY <1>2, <1>3 DEF PoolSound, PoolTypes, IndexExact
<1>7. index' \in [HashValue -> SUBSET Block]
  BY <1>2, <1>4
<1>8. PoolTypes'
  <2>1. /\ freeList' \in Seq(Block) /\ NoRepeat(freeList')
        /\ idle' \in Seq(Block) /\ NoRepeat(idle')
    BY <1>2, WithoutList DEF PoolSound, PoolTypes
  <2>2. 1 \in 0..MaxRefs
    BY LimitsPositive
  <2> QED BY <1>2, <1>7, <2>1, <2>2 DEF PoolSound, PoolTypes
<1>9. ListsExact'
  <2>1. \A c : /\ InSeq(freeList', c) <=> InSeq(freeList, c) /\ c # b
               /\ InSeq(idle', c) <=> InSeq(idle, c) /\ c # b
    BY <1>2, WithoutList DEF PoolSound, PoolTypes
  <2> QED BY <2>1, <1>2 DEF PoolSound, PoolTypes, ListsExact
<1> QED BY <1>5, <1>6, <1>8, <1>9 DEF PoolSound, IndexExact

\* retain counts one more reference; an idle block leaves the LRU list.
LEMMA RetainSound ==
    ASSUME PoolSound, NEW b \in Block, ~InSeq(freeList, b), Retainable(b), Retain(b)
    PROVE  /\ PoolSound'
           /\ refs' = [refs EXCEPT ![b] = refs[b] + 1]
<1>1. refs[b] + 1 \in 0..MaxRefs /\ (refs[b] + 1) % (MaxRefs + 1) = refs[b] + 1
  <2>1. refs[b] \in 0..MaxRefs /\ refs[b] # MaxRefs
    BY DEF PoolSound, PoolTypes, Retainable
  <2>2. \A r \in 0..MaxRefs : r # MaxRefs => r + 1 \in 0..MaxRefs /\ (r + 1) % (MaxRefs + 1) = r + 1
    BY LimitsPositive
  <2> QED BY <2>1, <2>2
<1>2. refs' = [refs EXCEPT ![b] = refs[b] + 1]
  BY <1>1 DEF Retain
<1>3. IndexExact'
  BY DEF PoolSound, IndexExact, Retain
<1>4. PoolTypes'
  BY <1>1, <1>2, WithoutList DEF PoolSound, PoolTypes, Retain
<1>5. \A c : InSeq(idle', c) <=> InSeq(idle, c) /\ (c = b => refs[b] # 0)
  BY WithoutList DEF PoolSound, PoolTypes, ListsExact, Retain
<1>6. \A c \in Block : refs'[c] = 0 <=> refs[c] = 0 /\ c # b
  BY <1>1, <1>2 DEF PoolSound, PoolTypes
<1>7. ListsExact'
  BY <1>5, <1>6 DEF PoolSound, PoolTypes, ListsExact, Retain
<1> QED BY <1>2, <1>3, <1>4, <1>7 DEF PoolSound

\* release of the last reference puts the block on the list it belongs on.
LEMMA ReleaseSound ==
    ASSUME PoolSound, NEW b \in Block, refs[b] > 0, Release(b)
    PROVE  PoolSound'
<1>1. refs' = [refs EXCEPT ![b] = refs[b] - 1] /\ refs[b] - 1 \in 0..MaxRefs
  <2>1. refs[b] \in 0..MaxRefs
    BY DEF PoolSound, PoolTypes
  <2>2. \A r \in 0..MaxRefs : r > 0 => r - 1 \in 0..MaxRefs
    BY LimitsPositive
  <2> QED BY <2>1, <2>2 DEF Release
<1>2. ~InSeq(freeList, b) /\ ~InSeq(idle, b)
  BY DEF PoolSound, PoolTypes, ListsExact
<1>3. IndexExact'
  BY DEF PoolSound, IndexExact, Release
<1>4. /\ freeList' \in Seq(Block) /\ NoRepeat(freeList')
      /\ \A c : InSeq(freeList', c) <=>
           InSeq(freeList, c) \/ (c = b /\ refs[b] = 1 /\ prefix[b] = NoPrefix)
  BY <1>2, LinkedList DEF PoolSound, PoolTypes, Release
<1>5. /\ idle' \in Seq(Block) /\ NoRepeat(idle')
      /\ \A c : InSeq(idle', c) <=>
           InSeq(idle, c) \/ (c = b /\ refs[b] = 1 /\ prefix[b] # NoPrefix)
  BY <1>2, LinkedList DEF PoolSound, PoolTypes, Release
<1>6. PoolTypes'
  BY <1>1, <1>4, <1>5 DEF PoolSound, PoolTypes, Release
<1>7. ListsExact'
  <2> SUFFICES ASSUME NEW c \in Block
               PROVE  /\ InSeq(freeList', c) <=> refs'[c] = 0 /\ prefix'[c] = NoPrefix
                      /\ InSeq(idle', c) <=> refs'[c] = 0 /\ prefix'[c] # NoPrefix
    BY DEF ListsExact
  <2>1. prefix' = prefix
    BY DEF Release
  <2>2. refs'[c] = IF c = b THEN refs[b] - 1 ELSE refs[c]
    BY <1>1 DEF PoolSound, PoolTypes
  <2>3. refs[b] \in Nat
    BY DEF PoolSound, PoolTypes
  <2> QED BY <1>2, <1>4, <1>5, <2>1, <2>2, <2>3 DEF PoolSound, ListsExact
<1> QED BY <1>3, <1>6, <1>7 DEF PoolSound

\* publish of a prefix nobody has published.
LEMMA PublishSound ==
    ASSUME PoolSound, NEW b \in Block, NEW p \in Prefix, Publishable(b, p),
           prefix' = [prefix EXCEPT ![b] = p],
           index' = [index EXCEPT ![HashOf(p)] = index[HashOf(p)] \cup {b}],
           UNCHANGED <<gen, refs, freeList, idle>>
    PROVE  PoolSound'
<1>1. refs[b] = 1 /\ prefix[b] = NoPrefix /\ p # NoPrefix
  BY PrefixesAreFull DEF Publishable
<1>2. HashOf(p) \in HashValue
  BY HashOccurs
<1>3. \A c \in Block : prefix[c] # p
  BY CachedExact DEF Publishable
<1>4. PoolTypes'
  BY <1>2 DEF PoolSound, PoolTypes
<1>5. ListsExact'
  BY <1>1 DEF PoolSound, PoolTypes, ListsExact
<1>6. \A v \in HashValue : index'[v] = IF v = HashOf(p) THEN index[v] \cup {b} ELSE index[v]
  BY <1>2 DEF PoolSound, PoolTypes
<1>7. \A c \in Block : prefix'[c] = IF c = b THEN p ELSE prefix[c]
  BY DEF PoolSound, PoolTypes
<1>8. IndexExact'
  BY <1>1, <1>3, <1>6, <1>7 DEF PoolSound, IndexExact
<1> QED BY <1>4, <1>5, <1>8 DEF PoolSound

-----------------------------------------------------------------------------
(* The inductive invariant, and what a step does to the holders.           *)

Calls ==
    [op : {"acquire"}, who : Holder, request : Request]
        \cup [op : {"share"}, who : Holder, from : Holder]
        \cup [op : {"release"}, who : Holder]

\* HeldBlocksKeepContent without what follows from the reference counts.
HandleSound(e) ==
    /\ gen[e.id] = e.generation
    /\ e.claim # NoPrefix => prefix[e.id] = e.claim

HeldSound == \A h \in Holder : \A i \in DOMAIN hold[h] : HandleSound(hold[h][i])

ManagerInv ==
    /\ PoolSound
    /\ HoldTypes
    /\ call \in Calls \cup {NoCall}
    /\ \A b \in Block : Counted(b)
    /\ HeldSound

\* A block that some table holds has a reference.
LEMMA HeldIsReferenced ==
    ASSUME ManagerInv, NEW h \in Holder, NEW i \in DOMAIN hold[h]
    PROVE  /\ hold[h][i] \in Handle /\ hold[h][i].id \in Block
           /\ refs[hold[h][i].id] > 0
<1>1. hold[h][i] \in Handle /\ hold[h][i].id \in Block
  <2>1. hold[h] \in Seq(Handle)
    BY DEF ManagerInv, HoldTypes
  <2>2. hold[h][i] \in Handle
    BY <2>1, LenProperties, ElementOfSeq
  <2> QED BY <2>2 DEF Handle
<1> DEFINE b == hold[h][i].id
<1>2. <<h, i>> \in References(b)
  BY ReferenceIs DEF Places
<1>3. Counted(b)
  BY <1>1 DEF ManagerInv
<1> HIDE DEF b
<1>4. refs[b] # 0 /\ refs[b] \in Nat
  BY <1>2, <1>3, FS_EmptySet, FS_CardinalityType DEF Counted
<1> QED BY <1>1, <1>4 DEF b

\* Handles that stay in the tables stay sound when the blocks in use keep
\* their generation and their prefix.
LEMMA KeptHandleSound ==
    ASSUME ManagerInv, NEW h \in Holder, NEW i \in DOMAIN hold[h],
           \A c \in Block : refs[c] > 0 => gen'[c] = gen[c] /\ prefix'[c] = prefix[c]
    PROVE  /\ gen'[hold[h][i].id] = hold[h][i].generation
           /\ hold[h][i].claim # NoPrefix => prefix'[hold[h][i].id] = hold[h][i].claim
BY HeldIsReferenced DEF ManagerInv, HeldSound, HandleSound

\* A step that appends a handle to a table and counts one reference more.
LEMMA TakeSound ==
    ASSUME ManagerInv, PoolSound', NEW h \in Holder, NEW e \in Handle,
           hold' = [hold EXCEPT ![h] = Append(hold[h], e)],
           refs' = [refs EXCEPT ![e.id] = refs[e.id] + 1],
           gen'[e.id] = e.generation,
           e.claim # NoPrefix => prefix'[e.id] = e.claim,
           \A c \in Block : refs[c] > 0 => gen'[c] = gen[c] /\ prefix'[c] = prefix[c],
           call' \in Calls \cup {NoCall}
    PROVE  ManagerInv'
<1> DEFINE n == Len(hold[h])
<1>1. HoldTypes
  BY DEF ManagerInv
<1>2. DOMAIN hold[h] = 1..n /\ n \in Nat
  BY <1>1, LenProperties DEF HoldTypes
<1>3. HoldTypes'
  BY <1>1, AppendProperties DEF HoldTypes
<1>4. ASSUME NEW b \in Block PROVE Counted(b)'
  <2>1. refs'[b] = IF e.id = b THEN refs[b] + 1 ELSE refs[b]
    BY DEF ManagerInv, PoolSound, PoolTypes
  <2>2. Counted(b)
    BY DEF ManagerInv
  <2>3. /\ <<h, n + 1>> \notin References(b)
        /\ References(b)' = IF e.id = b THEN References(b) \cup {<<h, n + 1>>}
                            ELSE References(b)
    BY <1>1, PlaceAdded
  <2>4. CASE e.id = b
    <3>1. IsFiniteSet(References(b)')
            /\ Cardinality(References(b)') = Cardinality(References(b)) + 1
      <4>1. IsFiniteSet(References(b)) /\ References(b)' = References(b) \cup {<<h, n + 1>>}
        BY <2>2, <2>3, <2>4 DEF Counted
      <4> DEFINE place == <<h, n + 1>>
      <4>2. place \notin References(b) /\ References(b)' = References(b) \cup {place}
        BY <2>3, <4>1
      <4> HIDE DEF place
      <4>3. /\ IsFiniteSet(References(b) \cup {place})
            /\ Cardinality(References(b) \cup {place}) = Cardinality(References(b)) + 1
        BY <4>1, <4>2, FS_AddElement
      <4> QED BY <4>2, <4>3
    <3> QED BY <2>1, <2>2, <2>4, <3>1 DEF Counted
  <2>5. CASE e.id # b
    BY <2>1, <2>2, <2>3, <2>5 DEF Counted
  <2> QED BY <2>4, <2>5
<1>5. HeldSound'
  <2> SUFFICES ASSUME NEW k \in Holder, NEW i \in DOMAIN hold'[k]
               PROVE  /\ gen'[hold'[k][i].id] = hold'[k][i].generation
                      /\ hold'[k][i].claim # NoPrefix
                           => prefix'[hold'[k][i].id] = hold'[k][i].claim
    BY DEF HeldSound, HandleSound
  <2>1. CASE k # h
    <3>1. hold'[k] = hold[k]
      BY <1>1, <2>1 DEF HoldTypes
    <3> QED BY <3>1, KeptHandleSound
  <2>2. CASE k = h
    <3>1. hold'[h] = Append(hold[h], e)
      BY <1>1 DEF HoldTypes
    <3>2. CASE i \in DOMAIN hold[h]
      <4>1. hold'[k][i] = hold[h][i]
        BY <1>1, <1>2, <2>2, <3>1, <3>2, AppendProperties DEF HoldTypes
      <4> QED BY <4>1, <3>2, KeptHandleSound
    <3>3. CASE i \notin DOMAIN hold[h]
      <4>1. hold'[k][i] = e
        BY <1>1, <1>2, <2>2, <3>1, <3>3, AppendProperties DEF HoldTypes
      <4> QED BY <4>1
    <3> QED BY <3>2, <3>3
  <2> QED BY <2>1, <2>2
<1> QED BY <1>3, <1>4, <1>5 DEF ManagerInv

\* A step of release: the first handle of a table goes, with its reference.
LEMMA DropSound ==
    ASSUME ManagerInv, NEW h \in Holder, hold[h] # <<>>, Release(Head(hold[h]).id),
           hold' = [hold EXCEPT ![h] = Tail(hold[h])], UNCHANGED call
    PROVE  ManagerInv'
<1> DEFINE n == Len(hold[h])
           d == Head(hold[h]).id
<1>1. HoldTypes
  BY DEF ManagerInv
<1>2. DOMAIN hold[h] = 1..n /\ n \in Nat /\ n > 0 /\ Head(hold[h]) = hold[h][1]
  BY <1>1, LenProperties, EmptySeq DEF HoldTypes
<1>3. d \in Block /\ refs[d] > 0
  BY <1>2, HeldIsReferenced
<1>4. HoldTypes'
  BY <1>1, HeadTailProperties DEF HoldTypes
<1>5. PoolSound'
  BY <1>3, ReleaseSound DEF ManagerInv
<1>6. gen' = gen /\ prefix' = prefix /\ refs' = [refs EXCEPT ![d] = refs[d] - 1]
  BY DEF Release
<1>7. ASSUME NEW b \in Block PROVE Counted(b)'
  <2>1. refs'[b] = IF d = b THEN refs[b] - 1 ELSE refs[b]
    BY <1>6 DEF ManagerInv, PoolSound, PoolTypes
  <2>2. Counted(b)
    BY DEF ManagerInv
  <2>3. /\ IsFiniteSet(References(b)')
        /\ Cardinality(References(b)') =
             Cardinality(References(b)) - IF d = b THEN 1 ELSE 0
    BY <1>1, <2>2, PlaceDropped DEF Counted
  <2>4. Cardinality(References(b)) \in Nat
    BY <2>2, FS_CardinalityType DEF Counted
  <2> HIDE DEF d
  <2> QED BY <2>1, <2>2, <2>3, <2>4 DEF Counted
<1>8. HeldSound'
  <2> SUFFICES ASSUME NEW k \in Holder, NEW i \in DOMAIN hold'[k]
               PROVE  /\ gen'[hold'[k][i].id] = hold'[k][i].generation
                      /\ hold'[k][i].claim # NoPrefix
                           => prefix'[hold'[k][i].id] = hold'[k][i].claim
    BY DEF HeldSound, HandleSound
  <2>1. CASE k # h
    <3>1. hold'[k] = hold[k] /\ i \in DOMAIN hold[k]
      BY <1>1, <2>1 DEF HoldTypes
    <3>2. /\ gen'[hold[k][i].id] = hold[k][i].generation
          /\ hold[k][i].claim # NoPrefix => prefix'[hold[k][i].id] = hold[k][i].claim
      BY <3>1, <1>6, KeptHandleSound
    <3> QED BY <3>1, <3>2
  <2>2. CASE k = h
    <3>1. hold'[h] = Tail(hold[h])
      BY <1>1 DEF HoldTypes
    <3>2. i \in Nat /\ i + 1 \in DOMAIN hold[h] /\ hold'[k][i] = hold[h][i + 1]
      BY <1>1, <1>2, <2>2, <3>1, HeadTailProperties DEF HoldTypes
    <3> QED BY <3>2, <1>6, KeptHandleSound
  <2> QED BY <2>1, <2>2
<1> QED BY <1>4, <1>5, <1>7, <1>8 DEF ManagerInv

\* A step that changes neither the pool nor a table.
LEMMA CallSound ==
    ASSUME ManagerInv, UNCHANGED <<gen, refs, prefix, freeList, idle, index, hold>>,
           call' \in Calls \cup {NoCall}
    PROVE  ManagerInv'
<1>1. PoolSound' /\ HoldTypes' /\ HeldSound'
  BY DEF ManagerInv, PoolSound, PoolTypes, ListsExact, IndexExact, HoldTypes,
         HeldSound, HandleSound
<1>2. \A b \in Block : Counted(b)'
  BY DEF ManagerInv, Counted, References, Places
<1> QED BY <1>1, <1>2 DEF ManagerInv

-----------------------------------------------------------------------------
(* The initial state and the actions.                                      *)

LEMMA InitSound == Init => ManagerInv
<1> SUFFICES ASSUME Init PROVE ManagerInv
  OBVIOUS
<1>1. Cardinality(Block) \in Nat /\ Block = 1..Cardinality(Block)
  BY PoolIsNumbered, FS_CardinalityType
<1>2. /\ freeList \in Seq(Block) /\ NoRepeat(freeList)
      /\ \A b \in Block : InSeq(freeList, b)
  BY <1>1 DEF Init, NoRepeat, InSeq
<1>3. /\ idle \in Seq(Block) /\ NoRepeat(idle)
      /\ \A b \in Block : ~InSeq(idle, b)
  BY DEF Init, NoRepeat, InSeq
<1>4. PoolTypes
  BY <1>2, <1>3, LimitsPositive DEF Init, PoolTypes
<1>5. ListsExact
  BY <1>2, <1>3 DEF Init, ListsExact
<1>6. IndexExact
  BY DEF Init, IndexExact
<1>7. HoldTypes /\ HeldSound
  BY DEF Init, HoldTypes, HeldSound
<1>8. ASSUME NEW b \in Block PROVE Counted(b)
  <2>1. \A h \in Holder : Places(h, b) = {}
    BY DEF Init, Places
  <2>2. References(b) = {}
    BY <2>1 DEF References
  <2> QED BY <2>2, FS_EmptySet DEF Init, Counted
<1> QED BY <1>4, <1>5, <1>6, <1>7, <1>8 DEF ManagerInv, PoolSound, Init

\* retain of a block that is not free, on behalf of a holder.
LEMMA RetainForHolder ==
    ASSUME ManagerInv, NEW h \in Holder, NEW e \in Handle, ~InSeq(freeList, e.id),
           Retainable(e.id), Retain(e.id), HandleSound(e), UNCHANGED call,
           hold' = [hold EXCEPT ![h] = Append(hold[h], e)]
    PROVE  ManagerInv'
<1>1. e.id \in Block
  BY DEF Handle
<1>2. PoolSound' /\ refs' = [refs EXCEPT ![e.id] = refs[e.id] + 1]
  BY <1>1, RetainSound DEF ManagerInv
<1>3. gen' = gen /\ prefix' = prefix
  BY DEF Retain
<1>4. call' \in Calls \cup {NoCall}
  BY DEF ManagerInv
<1>5. gen'[e.id] = e.generation /\ (e.claim # NoPrefix => prefix'[e.id] = e.claim)
  BY <1>3 DEF HandleSound
<1> QED BY <1>2, <1>3, <1>4, <1>5, TakeSound

\* allocate on behalf of a holder.
LEMMA AllocateForHolder ==
    ASSUME ManagerInv, NEW h \in Holder, NEW b \in Block, NEW p \in Prefix \cup {NoPrefix},
           Hits(p) = {}, Allocate(b, p), UNCHANGED call,
           hold' = [hold EXCEPT ![h] = Append(hold[h], Fresh(b, p))]
    PROVE  ManagerInv'
<1> DEFINE e == Fresh(b, p)
<1>1. PoolSound'
  BY AllocateSound DEF ManagerInv
<1>2. refs[b] = 0
  BY AllocatableIsUnused DEF ManagerInv, Allocate
<1>3. gen \in [Block -> Nat] /\ prefix \in [Block -> Prefix \cup {NoPrefix}]
  BY DEF ManagerInv, PoolSound, PoolTypes
<1>4. e \in Handle /\ e.id = b /\ e.generation = gen[b] + 1 /\ e.claim = p
  BY <1>3 DEF Fresh, Handle
<1>5. gen'[b] = gen[b] + 1 /\ prefix'[b] = p
  BY <1>3 DEF Allocate
<1>6. refs' = [refs EXCEPT ![b] = refs[b] + 1]
  BY <1>2 DEF Allocate
<1>7. \A c \in Block : refs[c] > 0 => gen'[c] = gen[c] /\ prefix'[c] = prefix[c]
  BY <1>2, <1>3 DEF Allocate
<1>8. call' \in Calls \cup {NoCall}
  BY DEF ManagerInv
<1> HIDE DEF e
<1>9. hold' = [hold EXCEPT ![h] = Append(hold[h], e)]
  BY DEF e
<1> QED BY <1>1, <1>4, <1>5, <1>6, <1>7, <1>8, <1>9, TakeSound

\* The first handle of an empty table.
LEMMA FirstHandle ==
    ASSUME NEW h, hold[h] = <<>>, NEW e, hold' = [hold EXCEPT ![h] = <<e>>]
    PROVE  hold' = [hold EXCEPT ![h] = Append(hold[h], e)]
<1>1. Append(<<>>, e) = <<e>>
  OBVIOUS
<1> QED BY <1>1

LEMMA AllocateOneSound ==
    ASSUME ManagerInv, NEW h \in Holder, AllocateOne(h) PROVE ManagerInv'
<1>1. PICK b \in Block :
        Allocate(b, NoPrefix) /\ hold' = [hold EXCEPT ![h] = <<Fresh(b, NoPrefix)>>]
  BY DEF AllocateOne
<1>2. hold' = [hold EXCEPT ![h] = Append(hold[h], Fresh(b, NoPrefix))]
  BY <1>1, FirstHandle DEF AllocateOne, Idle
<1>3. Hits(NoPrefix) = {}
  BY DEF Hits
<1> QED BY <1>1, <1>2, <1>3, AllocateForHolder DEF AllocateOne

\* The handle lookup and retain give out is sound.
LEMMA FoundSound ==
    ASSUME ManagerInv, NEW b \in Block, NEW p \in Prefix \cup {NoPrefix},
           p # NoPrefix => prefix[b] = p
    PROVE  Found(b, p) \in Handle /\ Found(b, p).id = b /\ HandleSound(Found(b, p))
BY DEF ManagerInv, PoolSound, PoolTypes, Found, Handle, HandleSound

\* A block with a published prefix is on no free list.
LEMMA HitIsNotFree ==
    ASSUME ManagerInv, NEW p \in Prefix, NEW b \in Cached(p)
    PROVE  b \in Block /\ prefix[b] = p /\ ~InSeq(freeList, b)
<1>1. b \in Block /\ prefix[b] = p
  BY HashOccurs DEF ManagerInv, PoolSound, PoolTypes, Cached
<1> QED BY <1>1, PrefixesAreFull DEF ManagerInv, PoolSound, ListsExact

LEMMA LookupOneSound ==
    ASSUME ManagerInv, NEW h \in Holder, NEW p \in Prefix, LookupOne(h, p)
    PROVE  ManagerInv'
<1>1. PICK b \in Cached(p) :
        Retainable(b) /\ Retain(b) /\ hold' = [hold EXCEPT ![h] = <<Found(b, p)>>]
  BY DEF LookupOne
<1>2. b \in Block /\ prefix[b] = p /\ ~InSeq(freeList, b)
  BY HitIsNotFree
<1> DEFINE e == Found(b, p)
<1>3. e \in Handle /\ e.id = b /\ HandleSound(e)
  BY <1>2, FoundSound
<1>4. hold[h] = <<>> /\ hold' = [hold EXCEPT ![h] = <<e>>]
  BY <1>1 DEF LookupOne, Idle
<1> HIDE DEF e
<1>5. hold' = [hold EXCEPT ![h] = Append(hold[h], e)]
  BY <1>4, FirstHandle
<1> QED BY <1>1, <1>2, <1>3, <1>5, RetainForHolder DEF LookupOne

LEMMA RetainOneSound ==
    ASSUME ManagerInv, NEW h \in Holder, NEW b \in Block, RetainOne(h, b)
    PROVE  ManagerInv'
<1>1. ~InSeq(freeList, b) /\ prefix[b] \in Prefix \cup {NoPrefix}
  BY DEF RetainOne, Valid, ManagerInv, PoolSound, PoolTypes
<1> DEFINE e == Found(b, prefix[b])
<1>2. e \in Handle /\ e.id = b /\ HandleSound(e)
  BY <1>1, FoundSound
<1> HIDE DEF e
<1>3. hold' = [hold EXCEPT ![h] = Append(hold[h], e)]
  BY FirstHandle DEF RetainOne, Idle, e
<1> QED BY <1>1, <1>2, <1>3, RetainForHolder DEF RetainOne

LEMMA PublishOneSound ==
    ASSUME ManagerInv, NEW h \in Holder, NEW i \in DOMAIN hold[h], NEW p \in Prefix,
           PublishOne(h, i, p)
    PROVE  ManagerInv'
<1> DEFINE b == hold[h][i].id
           e == [hold[h][i] EXCEPT !.claim = p]
<1>1. HoldTypes /\ hold[h][i] \in Handle /\ b \in Block
  BY HeldIsReferenced DEF ManagerInv
<1>2. /\ Publishable(b, p)
      /\ prefix' = [prefix EXCEPT ![b] = p]
      /\ index' = [index EXCEPT ![HashOf(p)] = index[HashOf(p)] \cup {b}]
      /\ UNCHANGED <<gen, refs, freeList, idle, call>>
      /\ hold' = [hold EXCEPT ![h] = [hold[h] EXCEPT ![i] = e]]
  BY DEF PublishOne
<1>3. e \in Handle /\ e.id = b /\ e.generation = hold[h][i].generation /\ e.claim = p
  BY <1>1 DEF Handle
<1>4. PoolSound'
  BY <1>1, <1>2, PublishSound DEF ManagerInv
<1> HIDE DEF e
<1>5. /\ \A k \in Holder : k # h => hold'[k] = hold[k]
      /\ hold'[h] = [hold[h] EXCEPT ![i] = e]
  BY <1>1, <1>2 DEF HoldTypes
<1>6. /\ DOMAIN hold'[h] = DOMAIN hold[h] /\ hold'[h][i] = e
      /\ \A j \in DOMAIN hold[h] : j # i => hold'[h][j] = hold[h][j]
  BY <1>5
<1>7. HoldTypes'
  <2>1. hold[h] \in Seq(Handle)
    BY <1>1 DEF HoldTypes
  <2>2. hold'[h] \in Seq(Handle)
    BY <1>3, <1>5, <2>1, ExceptSeq
  <2> QED BY <1>1, <1>2, <1>5, <2>2 DEF HoldTypes
<1>8. ASSUME NEW c \in Block PROVE Counted(c)'
  <2>1. \A k \in Holder : Places(k, c)' = Places(k, c)
    BY <1>3, <1>5, <1>6 DEF Places
  <2>2. References(c)' = References(c)
    BY <2>1 DEF References
  <2> QED BY <2>2, <1>2 DEF ManagerInv, Counted
<1>9. \A c \in Block : gen'[c] = gen[c] /\ (prefix[c] # NoPrefix => prefix'[c] = prefix[c])
  BY <1>1, <1>2 DEF Publishable
<1>10. prefix'[b] = p
  BY <1>1, <1>2 DEF ManagerInv, PoolSound, PoolTypes
<1>11. HeldSound'
  <2> SUFFICES ASSUME NEW k \in Holder, NEW j \in DOMAIN hold'[k]
               PROVE  /\ gen'[hold'[k][j].id] = hold'[k][j].generation
                      /\ hold'[k][j].claim # NoPrefix
                           => prefix'[hold'[k][j].id] = hold'[k][j].claim
    BY DEF HeldSound, HandleSound
  <2>1. ASSUME NEW m \in Holder, NEW l \in DOMAIN hold[m]
        PROVE  /\ gen'[hold[m][l].id] = hold[m][l].generation
               /\ hold[m][l].claim # NoPrefix => prefix'[hold[m][l].id] = hold[m][l].claim
    <3>1. hold[m][l] \in Handle /\ hold[m][l].id \in Block /\ HandleSound(hold[m][l])
      BY HeldIsReferenced DEF ManagerInv, HeldSound
    <3> QED BY <3>1, <1>9 DEF HandleSound
  <2>2. CASE k = h /\ j = i
    BY <2>2, <2>1, <1>3, <1>6, <1>10
  <2>3. CASE ~(k = h /\ j = i)
    <3>1. j \in DOMAIN hold[k] /\ hold'[k][j] = hold[k][j]
      BY <2>3, <1>5, <1>6
    <3> QED BY <3>1, <2>1
  <2> QED BY <2>2, <2>3
<1> QED BY <1>2, <1>4, <1>7, <1>8, <1>11 DEF ManagerInv

\* The calls on whole tables, step by step.
LEMMA CallIsRecord ==
    ASSUME ManagerInv, NEW h \in Holder
    PROVE  /\ Acquiring(h) => call.request \in Request
           /\ Sharing(h) => call.from \in Holder
BY DEF ManagerInv, Calls, Acquiring, Sharing

LEMMA NextPrefixIsPrefix ==
    ASSUME ManagerInv, NEW h \in Holder, Acquiring(h)
    PROVE  NextPrefix(h) \in Prefix \cup {NoPrefix}
<1> DEFINE n == Len(hold[h]) + 1
<1>1. n \in Nat /\ n > 0
  BY LenProperties DEF ManagerInv, HoldTypes
<1>2. call.request.full \in Prefix \cup {<<>>}
  BY CallIsRecord DEF Request
<1>3. CASE n <= Len(call.request.full)
  <2>1. call.request.full # <<>>
    BY <1>1, <1>3
  <2>2. call.request.full \in Prefix /\ Len(call.request.full) \in Nat
    BY <1>2, <2>1, PrefixesAreFull
  <2>3. n \in 1..Len(call.request.full)
    BY <1>1, <1>3, <2>2
  <2> QED BY <1>3, <2>2, <2>3, PrefixesAreFull DEF NextPrefix
<1>4. CASE ~(n <= Len(call.request.full))
  BY <1>4 DEF NextPrefix
<1> QED BY <1>3, <1>4

LEMMA GiveUpSound ==
    ASSUME ManagerInv, NEW h \in Holder, GiveUp(h) PROVE ManagerInv'
<1>1. call' \in Calls \cup {NoCall}
  BY DEF GiveUp, Calls
<1> QED BY <1>1, CallSound DEF GiveUp

LEMMA AcquireNextSound ==
    ASSUME ManagerInv, NEW h \in Holder, AcquireNext(h) PROVE ManagerInv'
<1> DEFINE p == NextPrefix(h)
<1>1. p \in Prefix \cup {NoPrefix}
  BY NextPrefixIsPrefix DEF AcquireNext
<1> HIDE DEF p
<1>2. ASSUME NEW b \in Hits(p), Retainable(b), Retain(b), UNCHANGED call,
             hold' = [hold EXCEPT ![h] = Append(hold[h], Found(b, p))]
      PROVE  ManagerInv'
  <2>1. p \in Prefix /\ b \in Cached(p)
    BY <1>1, <1>2 DEF Hits
  <2>2. b \in Block /\ prefix[b] = p /\ ~InSeq(freeList, b)
    BY <2>1, HitIsNotFree
  <2>3. Found(b, p) \in Handle /\ Found(b, p).id = b /\ HandleSound(Found(b, p))
    BY <1>1, <2>2, FoundSound
  <2> QED BY <1>2, <2>2, <2>3, RetainForHolder
<1>3. ASSUME Hits(p) = {}, NEW b \in Block, Allocate(b, p), UNCHANGED call,
             hold' = [hold EXCEPT ![h] = Append(hold[h], Fresh(b, p))]
      PROVE  ManagerInv'
  BY <1>1, <1>3, AllocateForHolder
<1>4. \/ \E b \in Hits(p) : IF Retainable(b)
                            THEN /\ Retain(b)
                                 /\ hold' = [hold EXCEPT ![h] = Append(hold[h], Found(b, p))]
                                 /\ UNCHANGED call
                            ELSE GiveUp(h)
      \/ /\ Hits(p) = {}
         /\ \E b \in Block : /\ Allocate(b, p)
                             /\ hold' = [hold EXCEPT ![h] = Append(hold[h], Fresh(b, p))]
                             /\ UNCHANGED call
      \/ GiveUp(h)
  BY DEF AcquireNext, p
<1> QED BY <1>2, <1>3, <1>4, GiveUpSound

LEMMA ShareNextSound ==
    ASSUME ManagerInv, NEW h \in Holder, ShareNext(h) PROVE ManagerInv'
<1> DEFINE from == call.from
           i == Len(hold[h]) + 1
           e == hold[from][i]
<1>1. from \in Holder
  BY CallIsRecord DEF ShareNext
<1>2. i \in DOMAIN hold[from]
  <2>1. Len(hold[h]) \in Nat /\ Len(hold[from]) \in Nat /\ DOMAIN hold[from] = 1..Len(hold[from])
    BY <1>1, LenProperties DEF ManagerInv, HoldTypes
  <2> QED BY <2>1 DEF ShareNext
<1>3. \/ Retainable(e.id) /\ Retain(e.id) /\ UNCHANGED call
          /\ hold' = [hold EXCEPT ![h] = Append(hold[h], e)]
      \/ GiveUp(h)
  BY DEF ShareNext
<1> HIDE DEF from, i
<1>4. e \in Handle /\ e.id \in Block /\ refs[e.id] > 0
  BY <1>1, <1>2, HeldIsReferenced
<1>5. HandleSound(e)
  BY <1>1, <1>2 DEF ManagerInv, HeldSound
<1> HIDE DEF e
<1>6. ~InSeq(freeList, e.id)
  BY <1>4 DEF ManagerInv, PoolSound, ListsExact
<1> QED BY <1>3, <1>4, <1>5, <1>6, RetainForHolder, GiveUpSound

LEMMA ReleaseNextSound ==
    ASSUME ManagerInv, NEW h \in Holder, ReleaseNext(h) PROVE ManagerInv'
BY DropSound DEF ReleaseNext

\* Beginning and ending a call.
LEMMA CallStepSound ==
    ASSUME ManagerInv, NEW h \in Holder,
           \/ \E r \in Request : AcquireBegin(h, r)
           \/ AcquireEnd(h)
           \/ \E from \in Holder : ShareBegin(from, h)
           \/ ShareEnd(h)
           \/ ReleaseBegin(h) \/ ReleaseEnd(h)
    PROVE  ManagerInv'
<1>1. call' \in Calls \cup {NoCall}
  BY DEF AcquireBegin, AcquireEnd, ShareBegin, ShareEnd, ReleaseBegin, ReleaseEnd, Calls
<1>2. UNCHANGED <<gen, refs, prefix, freeList, idle, index, hold>>
  BY DEF AcquireBegin, AcquireEnd, ShareBegin, ShareEnd, ReleaseBegin, ReleaseEnd
<1> QED BY <1>1, <1>2, CallSound

LEMMA StepSound == ManagerInv /\ [Next]_vars => ManagerInv'
<1> SUFFICES ASSUME ManagerInv, [Next]_vars PROVE ManagerInv'
  OBVIOUS
<1>1. CASE UNCHANGED vars
  BY <1>1, CallSound DEF vars, ManagerInv
<1>2. CASE Next
  BY <1>2, AllocateOneSound, LookupOneSound, RetainOneSound, PublishOneSound,
     AcquireNextSound, ShareNextSound, ReleaseNextSound, CallStepSound DEF Next
<1> QED BY <1>1, <1>2

\* The inductive invariant, for every pool, prefix set and hash function.
THEOREM ManagerInvariant == Spec => []ManagerInv
BY InitSound, StepSound, PTL DEF Spec

-----------------------------------------------------------------------------
(* What the runs check.                                                    *)

\* Reference counts are exact in the middle of every call: what acquire and
\* share have taken when they fail half way is given back once and only once.
THEOREM RefsCountHoldersHolds == Spec => []RefsCountHolders
<1>1. ManagerInv => RefsCountHolders
  BY DEF ManagerInv, Counted, RefsCountHolders
<1> QED BY <1>1, ManagerInvariant, PTL

\* A block is on the free list, on the LRU list or in use, and never on two of
\* them or twice on one: allocate can neither lose nor hand out a block twice.
THEOREM BlocksPartitionedHolds == Spec => []BlocksPartitioned
<1>1. ManagerInv => BlocksPartitioned
  BY OccursOnce DEF ManagerInv, PoolSound, PoolTypes, ListsExact, BlocksPartitioned
<1> QED BY <1>1, ManagerInvariant, PTL

\* The index lists exactly the published blocks, whatever prefixes collide.
THEOREM IndexExactHolds == Spec => []IndexExact
<1>1. ManagerInv => IndexExact
  BY DEF ManagerInv, PoolSound
<1> QED BY <1>1, ManagerInvariant, PTL

\* Nothing evicts or republishes a block that some table holds.
THEOREM HeldBlocksKeepContentHolds == Spec => []HeldBlocksKeepContent
<1>1. ASSUME ManagerInv PROVE HeldBlocksKeepContent
  <2> SUFFICES ASSUME NEW h \in Holder, NEW i \in DOMAIN hold[h]
               PROVE  /\ Valid(hold[h][i].id, hold[h][i].generation)
                      /\ hold[h][i].claim # NoPrefix => prefix[hold[h][i].id] = hold[h][i].claim
    BY DEF HeldBlocksKeepContent
  <2>1. hold[h][i].id \in Block /\ refs[hold[h][i].id] > 0
    BY <1>1, HeldIsReferenced
  <2>2. ~InSeq(freeList, hold[h][i].id)
    BY <1>1, <2>1 DEF ManagerInv, PoolSound, ListsExact
  <2> QED BY <1>1, <2>2 DEF ManagerInv, HeldSound, HandleSound, Valid
<1> QED BY <1>1, ManagerInvariant, PTL

\* What a step does to the pool, seen from the outside.
LEMMA PoolStep ==
    ASSUME ManagerInv, Next
    PROVE  \/ \E b \in Block, p \in Prefix \cup {NoPrefix} : Hits(p) = {} /\ Allocate(b, p)
           \/ \E b \in Block : ~InSeq(freeList, b) /\ Retainable(b) /\ Retain(b)
           \/ \E b \in Block : refs[b] > 0 /\ Release(b)
           \/ \E b \in Block, p \in Prefix :
                /\ Publishable(b, p) /\ prefix' = [prefix EXCEPT ![b] = p]
                /\ UNCHANGED <<gen, refs, freeList, idle>>
           \/ UNCHANGED <<gen, refs, prefix, freeList, idle, index>>
<1>1. PICK h \in Holder :
        \/ AllocateOne(h)
        \/ \E p \in Prefix : LookupOne(h, p)
        \/ \E b \in Block : RetainOne(h, b)
        \/ \E i \in DOMAIN hold[h] : \E p \in Prefix : PublishOne(h, i, p)
        \/ \E r \in Request : AcquireBegin(h, r)
        \/ AcquireNext(h) \/ AcquireEnd(h)
        \/ \E from \in Holder : ShareBegin(from, h)
        \/ ShareNext(h) \/ ShareEnd(h)
        \/ ReleaseBegin(h) \/ ReleaseNext(h) \/ ReleaseEnd(h)
  BY DEF Next
<1>2. CASE AllocateOne(h)
  BY <1>2 DEF AllocateOne, Hits
<1>3. ASSUME NEW p \in Prefix, LookupOne(h, p)
      PROVE  \E b \in Block : ~InSeq(freeList, b) /\ Retainable(b) /\ Retain(b)
  BY <1>3, HitIsNotFree DEF LookupOne
<1>4. ASSUME NEW b \in Block, RetainOne(h, b)
      PROVE  ~InSeq(freeList, b) /\ Retainable(b) /\ Retain(b)
  BY <1>4 DEF RetainOne, Valid
<1>5. ASSUME NEW i \in DOMAIN hold[h], NEW p \in Prefix, PublishOne(h, i, p)
      PROVE  \E b \in Block : /\ Publishable(b, p) /\ prefix' = [prefix EXCEPT ![b] = p]
                              /\ UNCHANGED <<gen, refs, freeList, idle>>
  BY <1>5, HeldIsReferenced DEF PublishOne
<1>6. CASE AcquireNext(h)
  <2>1. NextPrefix(h) \in Prefix \cup {NoPrefix}
    BY <1>6, NextPrefixIsPrefix DEF AcquireNext
  <2>2. PICK p \in Prefix \cup {NoPrefix} : p = NextPrefix(h)
    BY <2>1
  <2>3. \/ \E b \in Hits(p) : Retainable(b) /\ Retain(b)
        \/ Hits(p) = {} /\ \E b \in Block : Allocate(b, p)
        \/ GiveUp(h)
    BY <1>6, <2>2 DEF AcquireNext
  <2>4. ASSUME NEW b \in Hits(p) PROVE b \in Block /\ ~InSeq(freeList, b)
    BY <2>4, HitIsNotFree DEF Hits
  <2> QED BY <2>3, <2>4 DEF GiveUp
<1>7. CASE ShareNext(h)
  <2> DEFINE from == call.from
             i == Len(hold[h]) + 1
  <2>1. from \in Holder
    BY <1>7, CallIsRecord DEF ShareNext
  <2>2. i \in DOMAIN hold[from]
    <3>1. Len(hold[h]) \in Nat /\ Len(hold[from]) \in Nat /\ DOMAIN hold[from] = 1..Len(hold[from])
      BY <2>1, LenProperties DEF ManagerInv, HoldTypes
    <3> QED BY <1>7, <3>1 DEF ShareNext
  <2>3. \/ Retainable(hold[from][i].id) /\ Retain(hold[from][i].id)
        \/ GiveUp(h)
    BY <1>7 DEF ShareNext
  <2> HIDE DEF from, i
  <2>4. hold[from][i].id \in Block /\ ~InSeq(freeList, hold[from][i].id)
    BY <2>1, <2>2, HeldIsReferenced DEF ManagerInv, PoolSound, ListsExact
  <2> QED BY <2>3, <2>4 DEF GiveUp
<1>8. CASE ReleaseNext(h)
  <2>1. Release(Head(hold[h]).id) /\ hold[h] # <<>>
    BY <1>8 DEF ReleaseNext
  <2>2. hold[h] \in Seq(Handle)
    BY DEF ManagerInv, HoldTypes
  <2>3. 1 \in DOMAIN hold[h] /\ Head(hold[h]) = hold[h][1]
    BY <2>1, <2>2, LenProperties, EmptySeq
  <2> QED BY <2>1, <2>3, HeldIsReferenced
<1>9. CASE \/ \E r \in Request : AcquireBegin(h, r)
           \/ AcquireEnd(h)
           \/ \E from \in Holder : ShareBegin(from, h)
           \/ ShareEnd(h)
           \/ ReleaseBegin(h) \/ ReleaseEnd(h)
  BY <1>9 DEF AcquireBegin, AcquireEnd, ShareBegin, ShareEnd, ReleaseBegin, ReleaseEnd
<1> QED BY <1>1, <1>2, <1>3, <1>4, <1>5, <1>6, <1>7, <1>8, <1>9

\* A handle checked() has refused once it refuses for ever: a free block gets
\* a new generation before it leaves the free list, and generations only grow.
THEOREM RevokedStaysRevokedHolds == Spec => RevokedStaysRevoked
<1> DEFINE Refused == \A b \in Block, g \in 1..MaxGeneration :
                        g <= gen[b] /\ ~Valid(b, g) => ~Valid(b, g)'
<1>1. ASSUME ManagerInv, [Next]_vars PROVE Refused
  <2> SUFFICES ASSUME NEW b \in Block, NEW g \in Nat, g <= gen[b], ~Valid(b, g)
               PROVE  gen'[b] # g \/ InSeq(freeList', b)
    BY LimitsPositive DEF Valid
  <2>1. PoolTypes
    BY <1>1 DEF ManagerInv, PoolSound
  <2>2. gen[b] \in Nat /\ (gen[b] # g \/ InSeq(freeList, b))
    BY <2>1 DEF PoolTypes, Valid
  <2>3. ASSUME NEW c \in Block, NEW p, Allocate(c, p)
        PROVE  gen'[b] # g \/ InSeq(freeList', b)
    <3>1. gen'[b] = IF b = c THEN gen[b] + 1 ELSE gen[b]
      BY <2>1, <2>3 DEF Allocate, PoolTypes
    <3>2. freeList' = Without(freeList, c)
      BY <2>3 DEF Allocate
    <3>3. b # c /\ InSeq(freeList, b) => InSeq(freeList', b)
      BY <2>1, <3>2, WithoutList DEF PoolTypes
    <3> QED BY <2>2, <3>1, <3>3
  <2>4. ASSUME NEW c \in Block, refs[c] > 0, Release(c)
        PROVE  gen'[b] # g \/ InSeq(freeList', b)
    <3>1. ~InSeq(freeList, c)
      BY <1>1, <2>4 DEF ManagerInv, PoolSound, ListsExact
    <3>2. InSeq(freeList, b) => InSeq(freeList', b)
      BY <2>1, <2>4, <3>1, LinkedList DEF PoolTypes, Release
    <3> QED BY <2>2, <2>4, <3>2 DEF Release
  <2>5. CASE gen' = gen /\ freeList' = freeList
    BY <2>2, <2>5
  <2>6. CASE UNCHANGED vars
    BY <2>5, <2>6 DEF vars
  <2>7. CASE Next
    BY <1>1, <2>3, <2>4, <2>5, <2>7, PoolStep DEF Retain
  <2> QED BY <1>1, <2>6, <2>7
<1>2. ManagerInv /\ [Next]_vars => [Refused]_vars
  BY <1>1
<1> QED BY <1>2, ManagerInvariant, PTL DEF Spec, RevokedStaysRevoked

\* The manager is the pool the page tables of v2 rely on.
THEOREM PoolImplementedHolds == Spec => PoolImplemented
<1>1. Init => Pool!PoolInit
  BY DEF Init, Pool!PoolInit
<1>2. ASSUME ManagerInv, [Next]_vars PROVE [Pool!PoolNext]_(Pool!poolVars)
  <2>0. PoolSound /\ PoolTypes /\ ListsExact
    BY <1>2 DEF ManagerInv, PoolSound
  <2>1. CASE UNCHANGED <<refs, prefix>>
    BY <2>1 DEF Pool!poolVars
  <2>2. ASSUME NEW b \in Block, NEW p \in Prefix \cup {NoPrefix}, Hits(p) = {}, Allocate(b, p)
        PROVE  Pool!Allocate(b, p)
    <3>1. refs[b] = 0 /\ (prefix[b] # NoPrefix => freeList = <<>>)
      BY <2>0, <2>2, AllocatableIsUnused DEF Allocate
    <3>2. freeList = <<>> => \A c \in Block : ~(refs[c] = 0 /\ prefix[c] = NoPrefix)
      BY <2>0 DEF ListsExact, InSeq
    <3>3. b \in Pool!Allocatable
      BY <3>1, <3>2 DEF Pool!Allocatable, Pool!FreePages, Pool!Unreferenced
    <3>4. Pool!Published(p) = {}
      BY <2>0, <2>2, CachedExact DEF Hits, Pool!Published
    <3> QED BY <2>2, <3>3, <3>4 DEF Allocate, Pool!Allocate
  <2>3. ASSUME NEW b \in Block, ~InSeq(freeList, b), Retainable(b), Retain(b)
        PROVE  Pool!Retain(b)
    <3>1. b \notin Pool!FreePages
      BY <2>0, <2>3 DEF ListsExact, Pool!FreePages, Pool!Unreferenced
    <3>2. refs' = [refs EXCEPT ![b] = refs[b] + 1] /\ prefix' = prefix
      BY <2>0, <2>3, RetainSound DEF Retain
    <3> QED BY <3>1, <3>2 DEF Pool!Retain
  <2>4. ASSUME NEW b \in Block, refs[b] > 0, Release(b)
        PROVE  Pool!Release({b})
    <3>1. refs' = [c \in Block |-> IF c \in {b} THEN refs[c] - 1 ELSE refs[c]]
      BY <2>0, <2>4 DEF PoolTypes, Release
    <3> QED BY <2>4, <3>1 DEF Release, Pool!Release
  <2>5. ASSUME NEW b \in Block, NEW p \in Prefix, Publishable(b, p),
               prefix' = [prefix EXCEPT ![b] = p], refs' = refs
        PROVE  Pool!Publish(b, p)
    <3>1. Pool!Published(p) = {}
      BY <2>0, <2>5, CachedExact DEF Publishable, Pool!Published
    <3> QED BY <2>5, <3>1 DEF Publishable, Pool!Publish, Pool!Publishable
  <2>6. CASE Next
    BY <1>2, <2>1, <2>2, <2>3, <2>4, <2>5, <2>6, PoolStep DEF Pool!PoolNext
  <2> QED BY <1>2, <2>1, <2>6 DEF vars
<1> QED BY <1>1, <1>2, ManagerInvariant, PTL DEF Spec, PoolImplemented, Pool!PoolSpec
=============================================================================
