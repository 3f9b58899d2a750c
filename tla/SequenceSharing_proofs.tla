----------------------- MODULE SequenceSharing_proofs -----------------------
(***************************************************************************)
(* That requests may share pages without anybody noticing: what is proved  *)
(* of SequenceSharing for any number of requests, pages and tokens, any    *)
(* block size and any choice of what may fail.                             *)
(*                                                                         *)
(* The argument has two layers.  StructureInv says how tables, reference   *)
(* counts and the call in progress fit together: counts are exact, tables  *)
(* have the pages their tokens need and none twice, and a call knows what  *)
(* it needs to go on or to roll back.  ContentInv, which rests on it, says *)
(* what the pages hold: every written token, and for every published page  *)
(* the end of its prefix; a page somebody may still write to has no other  *)
(* reference and is not published.  Each action gets one lemma per layer.  *)
(***************************************************************************)
EXTENDS SequenceSharing, SequenceTheorems, FiniteSetTheorems, TLAPS

Kinds == {"none", "sequence", "new", "running"}

SharingTypes ==
    /\ refs \in [Page -> Nat]
    /\ prefix \in [Page -> Prefix \cup {NoPrefix}]
    /\ kind \in [Request -> Kinds]
    /\ table \in [Request -> Seq(Page)]
    /\ text \in [Request -> Text]
    /\ written \in [Request -> Nat]
    /\ call \in Calls \cup {NoCall}

InTables(r, p) == IF p \in ToSet(table[r]) THEN 1 ELSE 0
InCall(p) == IF HeldByCall(p) THEN 1 ELSE 0

\* A page has as many references as places refer to it.
Counted(p) ==
    /\ IsFiniteSet(Sharers(p))
    /\ refs[p] = Cardinality(Sharers(p)) + InCall(p)

\* The table of r is being filled.
Filling(r) == (Doing("append") \/ Doing("fork")) /\ call.who = r

\* A table has no page twice, and the pages its tokens need.
TableSound(r) ==
    /\ IsInjective(table[r])
    /\ ~Filling(r) => Len(table[r]) = PagesFor(Len(text[r]))
    /\ kind[r] = "none" => text[r] = <<>>
    /\ written[r] <= Len(text[r])

AppendFacts ==
    Doing("append") =>
        LET r == call.who IN
        /\ kind[r] # "none"
        /\ Len(text[r]) + call.count <= MaxTokens
        /\ call.pages = PagesFor(Len(text[r]))
        /\ call.pages <= Len(table[r])
        /\ Len(table[r]) <= PagesFor(Len(text[r]) + call.count)

CopyFacts ==
    Doing("copy") =>
        LET r == call.who IN
        /\ kind[r] # "none"
        /\ Len(text[r]) % BlockSize # 0
        /\ Len(text[r]) < MaxTokens
        /\ \A s \in Request : call.page \notin ToSet(table[s])

LifecycleFacts ==
    Doing("compute") \/ Doing("attend") => IsLifecycle(call.who)

ForkFacts ==
    Doing("fork") =>
        LET r == call.who IN
        /\ call.from # r
        /\ kind[r] = "none"
        /\ Len(table[r]) <= Len(table[call.from])
        /\ \A j \in 1..Len(table[r]) : table[r][j] = table[call.from][j]

\* The table holds the first whole blocks of what is wanted.
AttachFacts ==
    Doing("attach") \/ Doing("hit") \/ Doing("attached") =>
        LET r == call.who IN
        /\ kind[r] = "sequence"
        /\ Len(text[r]) <= Len(call.want)
        /\ Len(text[r]) = Len(table[r]) * BlockSize
        /\ text[r] = SubSeq(call.want, 1, Len(text[r]))
        /\ \A j \in 1..Len(table[r]) :
            prefix[table[r][j]] = SubSeq(call.want, 1, j * BlockSize)

HitFacts ==
    Doing("hit") =>
        LET n == Len(text[call.who]) + BlockSize IN
        /\ n <= Len(call.want)
        /\ prefix[call.page] = SubSeq(call.want, 1, n)

CallFacts ==
    AppendFacts /\ CopyFacts /\ LifecycleFacts /\ ForkFacts /\ AttachFacts /\ HitFacts

StructureInv ==
    /\ SharingTypes
    /\ \A p \in Page : Counted(p)
    /\ \A r \in Request : TableSound(r)
    /\ CallFacts

-----------------------------------------------------------------------------

Memory == [Page -> [0..BlockSize - 1 -> Token \cup {Junk}]]

\* Nobody else refers to the page, and no lookup finds it.
Private(p) == refs[p] = 1 /\ prefix[p] = NoPrefix

\* What was written is where the table says.
Intact(r) == \A i \in 1..written[r] : kv[PageOf(r, i)][OffsetOf(i)] = text[r][i]

\* Only pages whose tokens are all written are published.
PublishedIsWritten(r) ==
    \A j \in 1..Len(table[r]) :
        prefix[table[r][j]] # NoPrefix => j * BlockSize <= written[r]

\* The pages of the tokens that are not written have no other reference.
ReservedIsAlone(r) ==
    \A i \in written[r] + 1..Len(text[r]) : refs[PageOf(r, i)] = 1

Forking(r) == Doing("fork") /\ call.who = r

WrittenSound(r) ==
    /\ Intact(r)
    /\ ~Forking(r) => PublishedIsWritten(r)
    /\ ReservedIsAlone(r)

\* A lifecycle that is new has no tokens until prefill has given it some.
NewIsEmpty ==
    \A r \in Request : kind[r] = "new" =>
        text[r] = <<>> \/ ((Doing("compute") \/ Doing("attend")) /\ call.who = r)

CallContent ==
    /\ Doing("append") =>
        \A j \in 1..Len(table[call.who]) :
            j * BlockSize > Len(text[call.who]) => refs[table[call.who][j]] = 1
    /\ Doing("copy") => prefix[call.page] = NoPrefix
    /\ Doing("hit") \/ Doing("attached") => prefix[call.page] # NoPrefix
    /\ Doing("copy") \/ Doing("attend") \/ Doing("attach") \/ Doing("hit") \/ Doing("attached") =>
        written[call.who] = Len(text[call.who])
    /\ Doing("attend") => call.queries <= Len(text[call.who])
    /\ Doing("fork") => written[call.from] = Len(text[call.from])

ContentInv ==
    /\ kv \in Memory
    /\ CachedTrue
    /\ \A r \in Request : WrittenSound(r)
    /\ NewIsEmpty
    /\ CallContent

-----------------------------------------------------------------------------
(* Tables, as sequences.                                                   *)

\* A page is in a sequence when it is one of its entries.
LEMMA InTable ==
    ASSUME NEW S, NEW seq \in Seq(S), NEW x
    PROVE  /\ x \in ToSet(seq) <=> \E i \in 1..Len(seq) : seq[i] = x
           /\ ToSet(seq) \subseteq S
BY LenProperties DEF ToSet

\* append_owned, append_shared: a page that was not in the table is put at its end.
LEMMA ExtendedTable ==
    ASSUME NEW S, NEW seq \in Seq(S), IsInjective(seq), NEW x \in S, x \notin ToSet(seq)
    PROVE  /\ Append(seq, x) \in Seq(S)
           /\ Len(Append(seq, x)) = Len(seq) + 1
           /\ \A i \in 1..Len(seq) : Append(seq, x)[i] = seq[i]
           /\ Append(seq, x)[Len(seq) + 1] = x
           /\ IsInjective(Append(seq, x))
           /\ ToSet(Append(seq, x)) = ToSet(seq) \cup {x}
<1> DEFINE n == Len(seq)
           longer == Append(seq, x)
<1>1. n \in Nat /\ DOMAIN seq = 1..n
  BY LenProperties
<1>2. /\ longer \in Seq(S) /\ Len(longer) = n + 1 /\ DOMAIN longer = 1..(n + 1)
      /\ \A i \in 1..n : longer[i] = seq[i]
      /\ longer[n + 1] = x
  BY <1>1, AppendProperties, LenProperties
<1>3. \A i \in 1..n : seq[i] # x
  BY InTable
<1> HIDE DEF longer, n
<1>4. IsInjective(longer)
  BY <1>1, <1>2, <1>3 DEF IsInjective
<1>5. ASSUME NEW y PROVE y \in ToSet(longer) <=> y \in ToSet(seq) \cup {x}
  <2>1. y \in ToSet(longer) <=> \E i \in 1..(n + 1) : longer[i] = y
    BY <1>2, InTable
  <2>2. y \in ToSet(seq) <=> \E i \in 1..n : seq[i] = y
    BY InTable DEF n
  <2> QED BY <1>1, <1>2, <2>1, <2>2
<1> QED BY <1>2, <1>4, <1>5 DEF n, longer

\* truncate_to: the first pages stay, the others leave, and no page does both.
LEMMA CutTable ==
    ASSUME NEW S, NEW seq \in Seq(S), IsInjective(seq), NEW n \in 0..Len(seq)
    PROVE  /\ SubSeq(seq, 1, n) \in Seq(S)
           /\ Len(SubSeq(seq, 1, n)) = n
           /\ \A i \in 1..n : SubSeq(seq, 1, n)[i] = seq[i]
           /\ IsInjective(SubSeq(seq, 1, n))
           /\ \A x : x \in ToSet(seq) <=>
                \/ x \in ToSet(SubSeq(seq, 1, n))
                \/ x \in ToSet(SubSeq(seq, n + 1, Len(seq)))
           /\ \A x : ~(x \in ToSet(SubSeq(seq, 1, n)) /\ x \in ToSet(SubSeq(seq, n + 1, Len(seq))))
<1> DEFINE l == Len(seq)
           left == SubSeq(seq, 1, n)
           right == SubSeq(seq, n + 1, l)
<1>1. l \in Nat /\ DOMAIN seq = 1..l /\ n \in Nat /\ n <= l /\ \A i \in 1..l : seq[i] \in S
  BY LenProperties
<1>2. /\ left \in Seq(S) /\ Len(left) = n
      /\ \A i \in 1..n : left[i] = seq[i]
  <2>1. \A i \in 1..n : seq[i] \in S
    BY <1>1
  <2>2. /\ left \in Seq(S) /\ Len(left) = IF 1 <= n THEN n - 1 + 1 ELSE 0
        /\ \A i \in 1..(n - 1 + 1) : left[i] = seq[1 + i - 1]
    BY <1>1, <2>1, SubSeqProperties
  <2> HIDE DEF left
  <2> QED BY <1>1, <2>2
<1>3. /\ right \in Seq(S) /\ Len(right) = l - n
      /\ \A i \in 1..(l - n) : right[i] = seq[n + i]
  <2>1. \A i \in (n + 1)..l : seq[i] \in S
    BY <1>1
  <2>2. n + 1 \in Int /\ l \in Int
    BY <1>1
  <2>3. /\ right \in Seq(S) /\ Len(right) = IF n + 1 <= l THEN l - (n + 1) + 1 ELSE 0
        /\ \A i \in 1..(l - (n + 1) + 1) : right[i] = seq[n + 1 + i - 1]
    BY <2>1, <2>2, SubSeqProperties
  <2> HIDE DEF right, l
  <2>4. l - (n + 1) + 1 = l - n /\ \A i \in 1..(l - n) : n + 1 + i - 1 = n + i
    BY <1>1
  <2> QED BY <1>1, <2>3, <2>4
<1> HIDE DEF left, right
<1>4. DOMAIN left = 1..n
  BY <1>2, LenProperties
<1>5. IsInjective(left)
  BY <1>1, <1>2, <1>4 DEF IsInjective
<1>6. ASSUME NEW x
      PROVE  /\ x \in ToSet(seq) <=> \E i \in 1..l : seq[i] = x
             /\ x \in ToSet(left) <=> \E i \in 1..n : seq[i] = x
             /\ x \in ToSet(right) <=> \E i \in 1..(l - n) : seq[n + i] = x
  <2>1. x \in ToSet(seq) <=> \E i \in 1..l : seq[i] = x
    BY InTable
  <2>2. x \in ToSet(left) <=> \E i \in 1..n : left[i] = x
    BY <1>2, InTable
  <2>3. x \in ToSet(right) <=> \E i \in 1..(l - n) : right[i] = x
    BY <1>3, InTable
  <2> QED BY <1>2, <1>3, <2>1, <2>2, <2>3
<1> HIDE DEF l
<1>7. \A i \in 1..l : i \in 1..n \/ (i - n \in 1..(l - n) /\ n + (i - n) = i)
  BY <1>1
<1>8. \A i \in 1..(l - n) : n + i \in 1..l /\ n + i \notin 1..n
  BY <1>1
<1>9. \A i \in 1..n : i \in 1..l
  BY <1>1
<1>10. ASSUME NEW x PROVE x \in ToSet(seq) <=> x \in ToSet(left) \/ x \in ToSet(right)
  BY <1>6, <1>7, <1>8, <1>9
<1>11. ASSUME NEW x, x \in ToSet(left), x \in ToSet(right) PROVE FALSE
  <2>1. PICK i \in 1..n : seq[i] = x
    BY <1>6, <1>11
  <2>2. PICK j \in 1..(l - n) : seq[n + j] = x
    BY <1>6, <1>11
  <2>3. i = n + j
    BY <1>1, <1>8, <1>9, <2>1, <2>2 DEF IsInjective
  <2> QED BY <1>8, <2>3
<1> QED BY <1>2, <1>5, <1>10, <1>11 DEF left, right, l

\* replace_last_owned: a page that was not in the table takes the place of the last.
LEMMA ReplacedTable ==
    ASSUME NEW S, NEW seq \in Seq(S), IsInjective(seq), seq # <<>>,
           NEW x \in S, x \notin ToSet(seq)
    PROVE  /\ Front(seq) \o <<x>> \in Seq(S)
           /\ Len(Front(seq) \o <<x>>) = Len(seq)
           /\ \A i \in 1..Len(seq) :
                (Front(seq) \o <<x>>)[i] = IF i = Len(seq) THEN x ELSE seq[i]
           /\ IsInjective(Front(seq) \o <<x>>)
           /\ \A y : y \in ToSet(Front(seq) \o <<x>>) <=>
                (y \in ToSet(seq) /\ y # Last(seq)) \/ y = x
           /\ Last(seq) \in ToSet(seq)
<1> DEFINE n == Len(seq)
           new == Front(seq) \o <<x>>
<1>1. n \in Nat \ {0} /\ DOMAIN seq = 1..n /\ \A i \in 1..n : seq[i] \in S
  BY LenProperties, EmptySeq
<1>2. /\ Front(seq) \in Seq(S) /\ Len(Front(seq)) = n - 1
      /\ \A i \in 1..(n - 1) : Front(seq)[i] = seq[i]
  <2> DEFINE k == n - 1
  <2>1. k \in 0..Len(seq)
    BY <1>1
  <2>2. Front(seq) = SubSeq(seq, 1, k)
    BY DEF Front
  <2> HIDE DEF k, n
  <2>3. /\ SubSeq(seq, 1, k) \in Seq(S) /\ Len(SubSeq(seq, 1, k)) = k
        /\ \A i \in 1..k : SubSeq(seq, 1, k)[i] = seq[i]
    BY <2>1, CutTable
  <2> QED BY <2>2, <2>3 DEF k
<1>3. /\ new \in Seq(S) /\ Len(new) = n /\ DOMAIN new = 1..n
      /\ \A i \in 1..n : new[i] = IF i = n THEN x ELSE seq[i]
  <2>1. <<x>> \in Seq(S) /\ Len(<<x>>) = 1 /\ <<x>>[1] = x
    OBVIOUS
  <2> DEFINE m == Len(Front(seq))
  <2>2. /\ new \in Seq(S) /\ Len(new) = m + 1
        /\ \A i \in 1..(m + 1) : new[i] = IF i <= m THEN Front(seq)[i] ELSE <<x>>[i - m]
    BY <1>2, <2>1, ConcatProperties
  <2>3. m = n - 1 /\ m + 1 = n
    BY <1>1, <1>2
  <2>4. DOMAIN new = 1..n
    BY <2>2, <2>3, LenProperties
  <2> HIDE DEF n, new, m
  <2>5. ASSUME NEW i \in 1..n PROVE new[i] = IF i = n THEN x ELSE seq[i]
    <3>1. CASE i = n
      <4>1. ~(i <= m) /\ i - m = 1
        BY <1>1, <2>3, <3>1
      <4> QED BY <2>1, <2>2, <2>3, <3>1, <4>1
    <3>2. CASE i # n
      <4>1. i <= m /\ i \in 1..(n - 1)
        BY <1>1, <2>3, <3>2
      <4> QED BY <1>2, <2>2, <2>3, <3>2, <4>1
    <3> QED BY <3>1, <3>2
  <2> QED BY <2>2, <2>3, <2>4, <2>5
<1>4. \A i \in 1..n : seq[i] # x
  BY InTable
<1>5. Last(seq) = seq[n] /\ n \in 1..n
  BY <1>1 DEF Last
<1> HIDE DEF n, new
<1>6. IsInjective(new)
  BY <1>1, <1>3, <1>4 DEF IsInjective
<1>7. ASSUME NEW y PROVE y \in ToSet(new) <=> (y \in ToSet(seq) /\ y # Last(seq)) \/ y = x
  <2>1. y \in ToSet(new) <=> \E i \in 1..n : new[i] = y
    BY <1>3, InTable
  <2>2. y \in ToSet(seq) <=> \E i \in 1..n : seq[i] = y
    BY InTable DEF n
  <2>3. \A i \in 1..n : seq[i] = seq[n] => i = n
    BY <1>1, <1>5 DEF IsInjective
  <2> QED BY <1>1, <1>3, <1>5, <2>1, <2>2, <2>3
<1>8. Last(seq) \in ToSet(seq)
  BY <1>5, InTable DEF n
<1> QED BY <1>3, <1>6, <1>7, <1>8 DEF n, new

-----------------------------------------------------------------------------
(* Blocks and offsets.                                                     *)

\* The logical block of the i-th token, counted from 1.
BlockNo(i) == (i - 1) \div BlockSize + 1

\* Division, as SMT knows it.
LEMMA Quotient ==
    ASSUME NEW n \in Nat, NEW b \in Nat \ {0}
    PROVE  /\ n \div b \in Nat
           /\ n % b \in 0..b - 1
           /\ n = (n \div b) * b + (n % b)
  BY SMT

\* A product grows with its factor.
LEMMA TimesMonotone ==
    ASSUME NEW a \in Nat, NEW b \in Nat, NEW n \in Nat, a <= b
    PROVE  a * n <= b * n /\ a * n \in Nat /\ b * n \in Nat
<1>1. b = a + (b - a) /\ b - a \in Nat
  OBVIOUS
<1>2. b * n = a * n + (b - a) * n
  BY <1>1, SMT
<1>3. (b - a) * n \in Nat /\ a * n \in Nat /\ b * n \in Nat
  BY <1>1, SMT
<1> QED BY <1>1, <1>2, <1>3, SMT

\* One block more.
LEMMA NextBlock ==
    ASSUME NEW k \in Nat
    PROVE  /\ k * BlockSize \in Nat
           /\ (k + 1) * BlockSize = k * BlockSize + BlockSize
           /\ (k + 1) * BlockSize \in Nat
<1>1. BlockSize \in Nat
  BY BlockSizePositive
<1> QED BY <1>1, SMT

\* Fewer blocks end earlier by a block at least.
LEMMA FewerBlocks ==
    ASSUME NEW k \in Nat, NEW l \in Nat, k < l
    PROVE  k * BlockSize + BlockSize <= l * BlockSize
<1>1. BlockSize \in Nat /\ k + 1 \in Nat /\ k + 1 <= l
  BY BlockSizePositive
<1>2. (k + 1) * BlockSize <= l * BlockSize
  BY <1>1, TimesMonotone
<1> QED BY <1>2, NextBlock

\* blocks_required: the pages that hold n tokens, and no page too many.
LEMMA PagesForBounds ==
    ASSUME NEW n \in Nat
    PROVE  /\ PagesFor(n) \in Nat
           /\ n <= PagesFor(n) * BlockSize
           /\ PagesFor(n) * BlockSize < n + BlockSize
<1> DEFINE q == n \div BlockSize
           o == n % BlockSize
<1>1. BlockSize \in Nat \ {0}
  BY BlockSizePositive
<1>2. q \in Nat /\ o \in 0..BlockSize - 1 /\ n = q * BlockSize + o
  BY <1>1, Quotient
<1>3. PagesFor(n) = IF o # 0 THEN q + 1 ELSE q
  BY <1>2 DEF PagesFor
<1> HIDE DEF q, o
<1>4. q * BlockSize \in Nat /\ (q + 1) * BlockSize = q * BlockSize + BlockSize
  BY <1>2, NextBlock
<1> QED BY <1>1, <1>2, <1>3, <1>4

\* These bounds determine the number of pages.
LEMMA PagesForUnique ==
    ASSUME NEW n \in Nat, NEW k \in Nat, n <= k * BlockSize, k * BlockSize < n + BlockSize
    PROVE  k = PagesFor(n)
<1> DEFINE p == PagesFor(n)
<1>1. p \in Nat /\ n <= p * BlockSize /\ p * BlockSize < n + BlockSize
  BY PagesForBounds
<1> HIDE DEF p
<1>2. BlockSize \in Nat /\ k * BlockSize \in Nat /\ p * BlockSize \in Nat
  BY <1>1, NextBlock, BlockSizePositive
<1>3. ~(k < p)
  BY <1>1, <1>2, FewerBlocks
<1>4. ~(p < k)
  BY <1>1, <1>2, FewerBlocks
<1>5. k = p
  BY <1>1, <1>3, <1>4
<1> QED BY <1>5 DEF p

\* No tokens need no page, and some tokens one.
LEMMA PagesForNone ==
    /\ PagesFor(0) = 0
    /\ \A n \in Nat : PagesFor(n) = 0 => n = 0
<1>1. BlockSize \in Nat \ {0} /\ 0 * BlockSize = 0
  BY BlockSizePositive
<1>2. 0 = PagesFor(0)
  BY <1>1, PagesForUnique
<1>3. ASSUME NEW n \in Nat, PagesFor(n) = 0 PROVE n = 0
  BY <1>1, <1>3, PagesForBounds
<1> QED BY <1>2, <1>3

\* More tokens need no fewer pages.
LEMMA PagesForMonotone ==
    ASSUME NEW m \in Nat, NEW n \in Nat, m <= n
    PROVE  PagesFor(m) <= PagesFor(n)
<1> DEFINE p == PagesFor(m)
           q == PagesFor(n)
<1>1. p \in Nat /\ q \in Nat /\ p * BlockSize < m + BlockSize /\ n <= q * BlockSize
  BY PagesForBounds
<1> HIDE DEF p, q
<1>2. BlockSize \in Nat /\ q * BlockSize \in Nat /\ p * BlockSize \in Nat
  BY <1>1, NextBlock, BlockSizePositive
<1>3. ~(q < p)
  BY <1>1, <1>2, FewerBlocks
<1>4. p <= q
  BY <1>1, <1>3
<1> QED BY <1>4 DEF p, q

\* A tail that is not full has room for one more token.
LEMMA PagesForTail ==
    ASSUME NEW n \in Nat, n % BlockSize # 0
    PROVE  PagesFor(n + 1) = PagesFor(n) /\ n # 0 /\ PagesFor(n) # 0
<1> DEFINE q == n \div BlockSize
           o == n % BlockSize
<1>1. BlockSize \in Nat \ {0}
  BY BlockSizePositive
<1>2. q \in Nat /\ o \in 0..BlockSize - 1 /\ n = q * BlockSize + o
  BY <1>1, Quotient
<1>3. PagesFor(n) = q + 1 /\ o # 0
  BY <1>2 DEF PagesFor
<1> HIDE DEF q, o
<1>4. q * BlockSize \in Nat /\ (q + 1) * BlockSize = q * BlockSize + BlockSize
  BY <1>2, NextBlock
<1>5. q + 1 = PagesFor(n + 1)
  <2>1. n + 1 <= (q + 1) * BlockSize /\ (q + 1) * BlockSize < n + 1 + BlockSize
    BY <1>1, <1>2, <1>3, <1>4
  <2>2. n + 1 \in Nat /\ q + 1 \in Nat
    BY <1>2
  <2> QED BY <2>1, <2>2, PagesForUnique
<1> QED BY <1>2, <1>3, <1>4, <1>5

\* Whole blocks need as many pages.
LEMMA PagesForWhole ==
    ASSUME NEW k \in Nat
    PROVE  PagesFor(k * BlockSize) = k
<1>1. BlockSize \in Nat \ {0} /\ k * BlockSize \in Nat
  BY BlockSizePositive, NextBlock
<1> QED BY <1>1, PagesForUnique

\* token_location: the block and the offset of a token, and how they determine it.
LEMMA Location ==
    ASSUME NEW i \in Nat \ {0}
    PROVE  /\ BlockNo(i) \in Nat \ {0}
           /\ OffsetOf(i) \in 0..BlockSize - 1
           /\ BlockNo(i) - 1 \in Nat
           /\ (BlockNo(i) - 1) * BlockSize \in Nat
           /\ i = (BlockNo(i) - 1) * BlockSize + OffsetOf(i) + 1
<1> DEFINE q == (i - 1) \div BlockSize
           o == (i - 1) % BlockSize
<1>1. BlockSize \in Nat \ {0} /\ i - 1 \in Nat
  BY BlockSizePositive
<1>2. q \in Nat /\ o \in 0..BlockSize - 1 /\ i - 1 = q * BlockSize + o
  BY <1>1, Quotient
<1>3. BlockNo(i) = q + 1 /\ OffsetOf(i) = o
  BY DEF BlockNo, OffsetOf
<1> HIDE DEF q, o
<1>4. q + 1 - 1 = q /\ q * BlockSize \in Nat
  BY <1>2, NextBlock
<1> QED BY <1>1, <1>2, <1>3, <1>4

\* A token lies in the first l blocks when it is one of the first l * BlockSize.
LEMMA LocationBelow ==
    ASSUME NEW i \in Nat \ {0}, NEW l \in Nat
    PROVE  BlockNo(i) <= l <=> i <= l * BlockSize
<1> DEFINE b == BlockNo(i)
           k == b - 1
<1>1. b \in Nat \ {0} /\ k \in Nat /\ OffsetOf(i) \in 0..BlockSize - 1
      /\ k * BlockSize \in Nat /\ i = k * BlockSize + OffsetOf(i) + 1
  BY Location
<1>2. b = k + 1
  BY <1>1
<1> HIDE DEF b, k
<1>3. BlockSize \in Nat \ {0} /\ l * BlockSize \in Nat
  BY BlockSizePositive, NextBlock
<1>4. CASE k < l
  <2>1. k * BlockSize + BlockSize <= l * BlockSize
    BY <1>1, <1>4, FewerBlocks
  <2>2. i <= l * BlockSize /\ b <= l
    BY <1>1, <1>2, <1>3, <1>4, <2>1
  <2> QED BY <2>2 DEF b
<1>5. CASE l <= k
  <2>1. l * BlockSize <= k * BlockSize
    BY <1>1, <1>3, <1>5, TimesMonotone
  <2>2. ~(i <= l * BlockSize) /\ ~(b <= l)
    BY <1>1, <1>2, <1>3, <1>5, <2>1
  <2> QED BY <2>2 DEF b
<1> QED BY <1>1, <1>4, <1>5

\* The tokens of a request lie on the pages of its table.
LEMMA TokenHasPage ==
    ASSUME NEW n \in Nat, NEW i \in 1..n
    PROVE  BlockNo(i) \in 1..PagesFor(n)
<1> DEFINE l == PagesFor(n)
<1>1. l \in Nat /\ n <= l * BlockSize /\ l * BlockSize \in Nat /\ i \in Nat \ {0} /\ i <= n
  BY PagesForBounds, NextBlock
<1> HIDE DEF l
<1>2. BlockNo(i) <= l /\ BlockNo(i) \in Nat \ {0}
  BY <1>1, LocationBelow, Location
<1>3. BlockNo(i) \in 1..l
  BY <1>1, <1>2
<1> QED BY <1>3 DEF l

\* Two tokens have not the same place.
LEMMA LocationUnique ==
    ASSUME NEW i \in Nat \ {0}, NEW j \in Nat \ {0},
           BlockNo(i) = BlockNo(j), OffsetOf(i) = OffsetOf(j)
    PROVE  i = j
BY Location

-----------------------------------------------------------------------------
(* Texts.                                                                  *)

\* A text is a sequence of tokens that is not too long.
LEMMA TextIs ==
    ASSUME NEW t
    PROVE  t \in Text <=> t \in Seq(Token) /\ Len(t) <= MaxTokens
<1>1. ASSUME t \in Text PROVE t \in Seq(Token) /\ Len(t) <= MaxTokens
  <2>1. PICK n \in 0..MaxTokens : t \in [1..n -> Token]
    BY <1>1 DEF Text
  <2>2. t \in Seq(Token) /\ Len(t) = n
    BY <2>1, MaxTokensIsNat
  <2> QED BY <2>1, <2>2, MaxTokensIsNat
<1>2. ASSUME t \in Seq(Token), Len(t) <= MaxTokens PROVE t \in Text
  <2>1. Len(t) \in 0..MaxTokens /\ t \in [1..Len(t) -> Token]
    BY <1>2, LenProperties, MaxTokensIsNat
  <2> QED BY <2>1 DEF Text
<1> QED BY <1>1, <1>2

\* A request without tokens.
LEMMA EmptyText == <<>> \in Text
<1> DEFINE t == <<>>
<1>1. t \in Seq(Token) /\ Len(t) <= MaxTokens
  BY MaxTokensIsNat
<1> HIDE DEF t
<1>2. t \in Text
  BY <1>1, TextIs
<1> QED BY <1>2 DEF t

\* The request gets more tokens; those it has stay where they are.
LEMMA LongerText ==
    ASSUME NEW t \in Text, NEW c \in Nat, NEW new \in [1..c -> Token], Len(t) + c <= MaxTokens
    PROVE  /\ t \o new \in Text
           /\ Len(t \o new) = Len(t) + c
           /\ \A i \in 1..Len(t) : (t \o new)[i] = t[i]
<1>1. t \in Seq(Token) /\ Len(t) \in Nat
  BY TextIs, LenProperties
<1>2. new \in Seq(Token) /\ Len(new) = c
  OBVIOUS
<1>3. /\ t \o new \in Seq(Token) /\ Len(t \o new) = Len(t) + c
      /\ \A i \in 1..(Len(t) + c) : i <= Len(t) => (t \o new)[i] = t[i]
  BY <1>1, <1>2, ConcatProperties
<1>4. t \o new \in Text
  BY <1>3, TextIs
<1> QED BY <1>1, <1>3, <1>4

\* The first tokens of a text.
LEMMA CutText ==
    ASSUME NEW t \in Text, NEW n \in 0..Len(t)
    PROVE  /\ SubSeq(t, 1, n) \in Text
           /\ Len(SubSeq(t, 1, n)) = n
           /\ \A i \in 1..n : SubSeq(t, 1, n)[i] = t[i]
<1>1. t \in Seq(Token) /\ Len(t) \in Nat /\ Len(t) <= MaxTokens /\ n \in Nat /\ n <= Len(t)
  BY TextIs, LenProperties
<1>2. \A i \in 1..n : t[i] \in Token
  BY <1>1, LenProperties
<1>3. /\ SubSeq(t, 1, n) \in Seq(Token)
      /\ Len(SubSeq(t, 1, n)) = IF 1 <= n THEN n - 1 + 1 ELSE 0
      /\ \A i \in 1..(n - 1 + 1) : SubSeq(t, 1, n)[i] = t[1 + i - 1]
  BY <1>1, <1>2, SubSeqProperties
<1>4. Len(SubSeq(t, 1, n)) = n /\ \A i \in 1..n : SubSeq(t, 1, n)[i] = t[i]
  <2> DEFINE u == SubSeq(t, 1, n)
  <2> HIDE DEF u
  <2>1. Len(u) = n /\ \A i \in 1..n : u[i] = t[i]
    BY <1>1, <1>3 DEF u
  <2> QED BY <2>1 DEF u
<1>5. SubSeq(t, 1, n) \in Text
  <2> DEFINE u == SubSeq(t, 1, n)
  <2>1. u \in Seq(Token) /\ Len(u) <= MaxTokens
    BY <1>1, <1>3, <1>4, MaxTokensIsNat
  <2> HIDE DEF u
  <2>2. u \in Text
    BY <2>1, TextIs
  <2> QED BY <2>2 DEF u
<1> QED BY <1>4, <1>5

-----------------------------------------------------------------------------
(* Counting.                                                               *)

\* A step that changes the table of one request changes the number of those
\* who share a page by that request at most.
LEMMA SharersStep ==
    ASSUME NEW r \in Request, NEW p, IsFiniteSet(Sharers(p)),
           \A s \in Request : s # r => table'[s] = table[s]
    PROVE  /\ IsFiniteSet(Sharers(p)')
           /\ Cardinality(Sharers(p)') \in Nat /\ Cardinality(Sharers(p)) \in Nat
           /\ Cardinality(Sharers(p)') + InTables(r, p)
                = Cardinality(Sharers(p)) + InTables(r, p)'
<1> DEFINE old == Sharers(p)
           new == Sharers(p)'
<1>1. \A s \in Request : s # r => (s \in new <=> s \in old)
  BY DEF Sharers
<1>2. old \subseteq Request /\ new \subseteq Request
  BY DEF Sharers
<1>3. /\ r \in old <=> p \in ToSet(table[r])
      /\ r \in new <=> p \in ToSet(table'[r])
  BY DEF Sharers
<1>4. Cardinality(old) \in Nat
  BY FS_CardinalityType
<1>5. CASE r \in old /\ r \notin new
  <2>1. new = old \ {r}
    BY <1>1, <1>2, <1>5
  <2>2. IsFiniteSet(new) /\ Cardinality(new) = Cardinality(old) - 1
    <3> HIDE DEF old, new
    <3> QED BY <1>5, <2>1, FS_RemoveElement DEF old
  <2>3. Cardinality(new) \in Nat
    BY <2>2, FS_CardinalityType
  <2> QED BY <1>3, <1>4, <1>5, <2>2, <2>3 DEF InTables
<1>6. CASE r \notin old /\ r \in new
  <2>1. new = old \cup {r}
    BY <1>1, <1>2, <1>6
  <2>2. IsFiniteSet(new) /\ Cardinality(new) = Cardinality(old) + 1
    <3> HIDE DEF old, new
    <3> QED BY <1>6, <2>1, FS_AddElement DEF old
  <2>3. Cardinality(new) \in Nat
    BY <2>2, FS_CardinalityType
  <2> QED BY <1>3, <1>4, <1>6, <2>2, <2>3 DEF InTables
<1>7. CASE r \in old <=> r \in new
  <2>1. new = old
    BY <1>1, <1>2, <1>7
  <2> QED BY <1>3, <1>4, <1>7, <2>1 DEF InTables
<1> QED BY <1>5, <1>6, <1>7

\* The count of a page follows its references, whoever takes or drops them.
LEMMA CountStep ==
    ASSUME NEW r \in Request, NEW p, Counted(p), refs[p] \in Nat, refs'[p] \in Nat,
           \A s \in Request : s # r => table'[s] = table[s],
           refs'[p] + InTables(r, p) + InCall(p) = refs[p] + InTables(r, p)' + InCall(p)'
    PROVE  Counted(p)'
<1> DEFINE old == Cardinality(Sharers(p))
           new == Cardinality(Sharers(p)')
<1>1. IsFiniteSet(Sharers(p)') /\ new \in Nat /\ old \in Nat
      /\ new + InTables(r, p) = old + InTables(r, p)'
  BY SharersStep DEF Counted
<1>2. refs[p] = old + InCall(p)
  BY DEF Counted
<1>3. InTables(r, p) \in Nat /\ InTables(r, p)' \in Nat /\ InCall(p) \in Nat /\ InCall(p)' \in Nat
  BY DEF InTables, InCall
<1> HIDE DEF old, new
<1> DEFINE a == InTables(r, p)
           b == InTables(r, p)'
           c == InCall(p)
           d == InCall(p)'
           m == refs[p]
           n == refs'[p]
<1>4. /\ a \in Nat /\ b \in Nat /\ c \in Nat /\ d \in Nat /\ m \in Nat /\ n \in Nat
      /\ new \in Nat /\ old \in Nat /\ new + a = old + b /\ m = old + c /\ n + a + c = m + b + d
  BY <1>1, <1>2, <1>3
<1> HIDE DEF a, b, c, d, m, n
<1>5. n = new + d
  BY <1>4
<1>6. refs'[p] = new + InCall(p)'
  BY <1>5 DEF n, d
<1> QED BY <1>1, <1>6 DEF Counted, new

\* A page that a table or the call refers to has a reference; a page that two
\* requests refer to has two.
LEMMA CountedIs ==
    ASSUME NEW p, Counted(p)
    PROVE  /\ refs[p] \in Nat
           /\ \A r \in Request : p \in ToSet(table[r]) => refs[p] > 0
           /\ HeldByCall(p) => refs[p] > 0
           /\ refs[p] = 1 => \A r, s \in Request :
                p \in ToSet(table[r]) /\ p \in ToSet(table[s]) => r = s
           /\ refs[p] = 1 /\ HeldByCall(p) => \A r \in Request : p \notin ToSet(table[r])
<1> DEFINE all == Sharers(p)
           n == Cardinality(all)
<1>1. IsFiniteSet(all) /\ n \in Nat /\ refs[p] = n + InCall(p)
  BY FS_CardinalityType DEF Counted
<1>2. \A r \in Request : p \in ToSet(table[r]) <=> r \in all
  BY DEF Sharers
<1>3. n = 0 => all = {}
  BY <1>1, FS_EmptySet
<1>4. n = 1 => \E x : all = {x}
  BY <1>1, FS_Singleton
<1>5. InCall(p) = IF HeldByCall(p) THEN 1 ELSE 0
  BY DEF InCall
<1> HIDE DEF n, all
<1>6. refs[p] \in Nat
  BY <1>1, <1>5
<1>7. \A r \in Request : r \in all => refs[p] > 0
  BY <1>1, <1>3, <1>5
<1>8. HeldByCall(p) => refs[p] > 0
  BY <1>1, <1>5
<1>9. refs[p] = 1 => \A r, s \in Request : r \in all /\ s \in all => r = s
  <2>1. refs[p] = 1 => n = 0 \/ n = 1
    BY <1>1, <1>5
  <2> QED BY <2>1, <1>3, <1>4
<1>10. refs[p] = 1 /\ HeldByCall(p) => all = {}
  BY <1>1, <1>3, <1>5
<1> QED BY <1>2, <1>6, <1>7, <1>8, <1>9, <1>10

-----------------------------------------------------------------------------
(* Tables, counts and calls: every step keeps StructureInv.                *)

\* The parts of a call in progress.
LEMMA CallTyping ==
    ASSUME call \in Calls \cup {NoCall}
    PROVE  /\ call # NoCall => call.who \in Request
           /\ Doing("append") => call.count \in 1..MaxTokens /\ call.pages \in Nat
           /\ Doing("copy") \/ Doing("hit") \/ Doing("attached") => call.page \in Page
           /\ Doing("fork") => call.from \in Request
           /\ Doing("attach") \/ Doing("hit") \/ Doing("attached") => call.want \in Text
           /\ \A p : HeldByCall(p) <=>
                (Doing("copy") \/ Doing("hit") \/ Doing("attached")) /\ call.page = p
BY DEF Calls, Doing, HeldByCall

\* The records the actions build are calls.
LEMMA CallBuilt ==
    ASSUME NEW r \in Request
    PROVE  /\ \A c \in 1..MaxTokens, n \in Nat :
                [op |-> "append", who |-> r, count |-> c, pages |-> n] \in Calls
           /\ \A p \in Page : [op |-> "copy", who |-> r, page |-> p] \in Calls
           /\ [op |-> "compute", who |-> r] \in Calls
           /\ \A n \in Nat : [op |-> "attend", who |-> r, queries |-> n] \in Calls
           /\ \A f \in Request : [op |-> "fork", who |-> r, from |-> f] \in Calls
           /\ \A t \in Text : [op |-> "attach", who |-> r, want |-> t] \in Calls
           /\ \A t \in Text, p \in Page, o \in {"hit", "attached"} :
                [op |-> o, who |-> r, want |-> t, page |-> p] \in Calls
           /\ \A c \in Calls : c # NoCall
BY NoCallIsNone DEF Calls

\* Nothing is known of a call when there is none.
LEMMA NoCallLeft ==
    ASSUME call' = NoCall
    PROVE  /\ CallFacts'
           /\ \A p : ~HeldByCall(p)'
           /\ \A r : ~Filling(r)'
           /\ call' \in Calls \cup {NoCall}
<1>1. \A op : ~Doing(op)'
  BY DEF Doing
<1>2. /\ ~Doing("append")' /\ ~Doing("copy")' /\ ~Doing("compute")' /\ ~Doing("attend")'
      /\ ~Doing("fork")' /\ ~Doing("attach")' /\ ~Doing("hit")' /\ ~Doing("attached")'
  BY <1>1
<1>3. CallFacts'
  BY <1>2 DEF CallFacts, AppendFacts, CopyFacts, LifecycleFacts, ForkFacts, AttachFacts, HitFacts
<1>4. \A r : ~Filling(r)'
  BY <1>2 DEF Filling
<1>5. \A p : ~HeldByCall(p)'
  BY DEF HeldByCall
<1> QED BY <1>3, <1>4, <1>5

\* Roll-back, finish and the destructors: the call gives back what it holds, and
\* the table all pages but the first n, which are those of its text or none.
LEMMA CutSound ==
    ASSUME StructureInv, NEW r \in Request, NEW n \in 0..Len(table[r]), NEW held \in SUBSET Page,
           call = NoCall \/ call.who = r,
           \A p \in Page : p \in held <=> HeldByCall(p),
           \A p \in held : p \notin ToSet(table[r]),
           Release(held \cup ToSet(SubSeq(table[r], n + 1, Len(table[r])))),
           table' = [table EXCEPT ![r] = SubSeq(table[r], 1, n)],
           n # 0 => n = PagesFor(Len(text[r])) /\ text' = text /\ written' = written,
           n = 0 => text' = [text EXCEPT ![r] = <<>>] /\ written' = [written EXCEPT ![r] = 0],
           kind' \in [Request -> Kinds], \A s \in Request : s # r => kind'[s] = kind[s],
           kind'[r] = "none" => n = 0 \/ kind[r] = "none",
           call' = NoCall
    PROVE  StructureInv'
<1> DEFINE cut == ToSet(SubSeq(table[r], n + 1, Len(table[r])))
           kept == SubSeq(table[r], 1, n)
<1>1. SharingTypes /\ table[r] \in Seq(Page) /\ text[r] \in Text /\ IsInjective(table[r])
  BY DEF StructureInv, SharingTypes, TableSound
<1>2. /\ kept \in Seq(Page) /\ Len(kept) = n /\ IsInjective(kept)
      /\ \A p : p \in ToSet(table[r]) <=> p \in ToSet(kept) \/ p \in cut
      /\ \A p : ~(p \in ToSet(kept) /\ p \in cut)
  BY <1>1, CutTable
<1>3. CallFacts' /\ (\A p : ~HeldByCall(p)') /\ (\A s : ~Filling(s)') /\ call' \in Calls \cup {NoCall}
  BY NoCallLeft
<1>4. /\ \A p \in held \cup cut : refs[p] > 0
      /\ refs' = [p \in Page |-> IF p \in held \cup cut THEN refs[p] - 1 ELSE refs[p]]
      /\ prefix' = prefix
  BY DEF Release
<1>5. table'[r] = kept /\ \A s \in Request : s # r => table'[s] = table[s]
  BY <1>1 DEF SharingTypes
<1> HIDE DEF cut, kept
<1>6. SharingTypes'
  <2>1. refs' \in [Page -> Nat]
    BY <1>1, <1>4 DEF SharingTypes
  <2>2. table' \in [Request -> Seq(Page)]
    BY <1>1, <1>2 DEF SharingTypes, kept
  <2>3. <<>> \in Text
    BY EmptyText
  <2>4. text' \in [Request -> Text] /\ written' \in [Request -> Nat]
    <3>1. text \in [Request -> Text] /\ written \in [Request -> Nat]
      BY <1>1 DEF SharingTypes
    <3>2. CASE n = 0
      BY <2>3, <3>1, <3>2
    <3>3. CASE n # 0
      BY <3>1, <3>3
    <3> QED BY <3>2, <3>3
  <2> QED BY <1>1, <1>3, <1>4, <2>1, <2>2, <2>4 DEF SharingTypes
<1>7. ASSUME NEW p \in Page PROVE Counted(p)'
  <2>1. Counted(p) /\ refs[p] \in Nat /\ refs'[p] \in Nat
    BY <1>1, <1>6 DEF StructureInv, SharingTypes
  <2>2. InCall(p) = (IF p \in held THEN 1 ELSE 0) /\ InCall(p)' = 0
    BY <1>3 DEF InCall
  <2>3. /\ InTables(r, p) = IF p \in ToSet(kept) \/ p \in cut THEN 1 ELSE 0
        /\ InTables(r, p)' = IF p \in ToSet(kept) THEN 1 ELSE 0
    BY <1>2, <1>5 DEF InTables
  <2>4. refs'[p] = IF p \in held \cup cut THEN refs[p] - 1 ELSE refs[p]
    BY <1>4
  <2>5. ~(p \in held /\ p \in cut) /\ ~(p \in held /\ p \in ToSet(kept)) /\ ~(p \in cut /\ p \in ToSet(kept))
    BY <1>2
  <2>6. refs'[p] + InTables(r, p) + InCall(p) = refs[p] + InTables(r, p)' + InCall(p)'
    <3>1. CASE p \in held
      BY <2>1, <2>2, <2>3, <2>4, <2>5, <3>1
    <3>2. CASE p \in cut
      BY <2>1, <2>2, <2>3, <2>4, <2>5, <3>2
    <3>3. CASE p \notin held /\ p \notin cut
      BY <2>1, <2>2, <2>3, <2>4, <2>5, <3>3
    <3> QED BY <3>1, <3>2, <3>3
  <2> QED BY <1>5, <2>1, <2>6, CountStep
<1>8. ASSUME NEW s \in Request PROVE TableSound(s)'
  <2>1. CASE s = r
    <3>1. IsInjective(table'[s])
      BY <1>2, <1>5, <2>1
    <3>2. Len(table'[s]) = n
      BY <1>2, <1>5, <2>1
    <3>3. CASE n = 0
      <4>1. text'[s] = <<>> /\ Len(text'[s]) = 0 /\ written'[s] = 0
        BY <1>1, <2>1, <3>3 DEF SharingTypes
      <4> QED BY <3>1, <3>2, <3>3, <4>1, PagesForNone DEF TableSound
    <3>4. CASE n # 0
      <4>1. (kind[r] # "none" \/ text[r] = <<>>) /\ written[r] <= Len(text[r])
        BY DEF StructureInv, TableSound
      <4> QED BY <2>1, <3>1, <3>2, <3>4, <4>1 DEF TableSound
    <3> QED BY <3>3, <3>4
  <2>2. CASE s # r
    <3>1. ~Filling(s)
      BY <2>2 DEF Filling, Doing
    <3>2. text'[s] = text[s] /\ written'[s] = written[s]
      BY <1>1, <2>2 DEF SharingTypes
    <3>3. TableSound(s)
      BY DEF StructureInv
    <3> QED BY <1>5, <2>2, <3>1, <3>2, <3>3 DEF TableSound
  <2> QED BY <2>1, <2>2
<1> QED BY <1>3, <1>6, <1>7, <1>8 DEF StructureInv

\* Every failure, at any point of any call.
LEMMA FailsSound ==
    ASSUME StructureInv, NEW r \in Request, NEW keep \in 0..Len(table[r]), NEW held \in SUBSET Page,
           NEW memory,
           call = NoCall \/ call.who = r,
           \A p \in Page : p \in held <=> HeldByCall(p),
           \A p \in held : p \notin ToSet(table[r]),
           keep = 0 \/ keep = PagesFor(Len(text[r])),
           Fails(r, held, keep, memory)
    PROVE  StructureInv'
<1> DEFINE n == IF IsLifecycle(r) THEN 0 ELSE keep
<1>1. kind \in [Request -> Kinds]
  BY DEF StructureInv, SharingTypes
<1>2. n \in 0..Len(table[r]) /\ (n # 0 => n = keep)
  OBVIOUS
<1>3. /\ Release(held \cup ToSet(SubSeq(table[r], n + 1, Len(table[r]))))
      /\ table' = [table EXCEPT ![r] = SubSeq(table[r], 1, n)]
      /\ n # 0 => text' = text /\ written' = written
      /\ n = 0 => text' = [text EXCEPT ![r] = <<>>] /\ written' = [written EXCEPT ![r] = 0]
      /\ kind' = IF IsLifecycle(r) THEN [kind EXCEPT ![r] = "none"] ELSE kind
      /\ call' = NoCall
  BY DEF Fails, GiveBack
<1>4. /\ kind' \in [Request -> Kinds]
      /\ \A s \in Request : s # r => kind'[s] = kind[s]
      /\ kind'[r] = "none" => n = 0 \/ kind[r] = "none"
  BY <1>1, <1>3 DEF Kinds
<1> HIDE DEF n
<1> QED BY <1>2, <1>3, <1>4, CutSound

\* finish and the destructors.
LEMMA CloseSound ==
    ASSUME StructureInv, NEW r \in Request, Close(r)
    PROVE  StructureInv'
<1>1. kind \in [Request -> Kinds] /\ table \in [Request -> Seq(Page)] /\ table[r] \in Seq(Page)
  BY DEF StructureInv, SharingTypes
<1>2. IsInjective(table[r])
  BY DEF StructureInv, TableSound
<1> DEFINE n == 0
           held == {}
<1>3. n \in 0..Len(table[r]) /\ held \in SUBSET Page
  BY <1>1, LenProperties
<1>4. /\ SubSeq(table[r], 1, n) = <<>>
      /\ held \cup ToSet(SubSeq(table[r], n + 1, Len(table[r]))) = ToSet(table[r])
  <2>1. SubSeq(table[r], 1, Len(table[r])) = table[r]
    BY <1>1, SubSeqFull
  <2>2. n < 1 /\ n \in Int /\ 1 \in Int /\ n + 1 = 1 /\ held = {}
    OBVIOUS
  <2> HIDE DEF n, held
  <2>3. SubSeq(table[r], 1, n) = <<>>
    BY <2>2, SubSeqEmpty
  <2>4. SubSeq(table[r], n + 1, Len(table[r])) = table[r]
    BY <2>1, <2>2
  <2> QED BY <2>2, <2>3, <2>4
<1>5. /\ Release(held \cup ToSet(SubSeq(table[r], n + 1, Len(table[r]))))
      /\ table' = [table EXCEPT ![r] = SubSeq(table[r], 1, n)]
      /\ text' = [text EXCEPT ![r] = <<>>] /\ written' = [written EXCEPT ![r] = 0]
      /\ kind' \in [Request -> Kinds]
      /\ \A s \in Request : s # r => kind'[s] = kind[s]
      /\ call = NoCall /\ call' = NoCall
  BY <1>1, <1>4 DEF Close, GiveBack, Kinds
<1>6. \A p \in Page : p \in held <=> HeldByCall(p)
  BY <1>5 DEF HeldByCall
<1>7. n = 0 /\ \A p \in held : p \notin ToSet(table[r])
  OBVIOUS
<1> HIDE DEF n, held
<1> QED BY <1>3, <1>5, <1>6, <1>7, CutSound

\* A failure of a call that holds no page besides the table.
LEMMA FailsEmptyHanded ==
    ASSUME StructureInv, NEW r \in Request, NEW keep \in 0..Len(table[r]), NEW memory,
           call = NoCall \/ call.who = r,
           \A p \in Page : ~HeldByCall(p),
           keep = 0 \/ keep = PagesFor(Len(text[r])),
           Fails(r, {}, keep, memory)
    PROVE  StructureInv'
<1> DEFINE held == {}
<1>1. held \in SUBSET Page /\ (\A p \in Page : p \in held <=> HeldByCall(p))
      /\ (\A p \in held : p \notin ToSet(table[r])) /\ Fails(r, held, keep, memory)
  OBVIOUS
<1> HIDE DEF held
<1> QED BY <1>1, FailsSound

\* What is known of one request.
LEMMA RequestTypes ==
    ASSUME StructureInv, NEW r \in Request
    PROVE  /\ table[r] \in Seq(Page) /\ IsInjective(table[r]) /\ Len(table[r]) \in Nat
           /\ text[r] \in Text /\ Len(text[r]) \in Nat /\ Len(text[r]) <= MaxTokens
           /\ PagesFor(Len(text[r])) \in Nat
           /\ written[r] \in Nat /\ kind[r] \in Kinds
           /\ 0 \in 0..Len(table[r])
<1>1. table[r] \in Seq(Page) /\ text[r] \in Text /\ written[r] \in Nat /\ kind[r] \in Kinds
  BY DEF StructureInv, SharingTypes
<1>2. Len(table[r]) \in Nat /\ Len(text[r]) \in Nat /\ Len(text[r]) <= MaxTokens
  BY <1>1, LenProperties, TextIs
<1>3. IsInjective(table[r])
  BY DEF StructureInv, TableSound
<1>4. PagesFor(Len(text[r])) \in Nat
  BY <1>2, PagesForBounds
<1>5. 0 \in 0..Len(table[r])
  BY <1>2
<1> QED BY <1>1, <1>2, <1>3, <1>4, <1>5

\* What is known of the call.
LEMMA CallTypes ==
    ASSUME StructureInv
    PROVE  /\ call # NoCall => call.who \in Request
           /\ Doing("append") => call.count \in 1..MaxTokens /\ call.pages \in Nat
           /\ Doing("copy") \/ Doing("hit") \/ Doing("attached") => call.page \in Page
           /\ Doing("fork") => call.from \in Request
           /\ Doing("attach") \/ Doing("hit") \/ Doing("attached") => call.want \in Text
           /\ \A p : HeldByCall(p) <=>
                (Doing("copy") \/ Doing("hit") \/ Doing("attached")) /\ call.page = p
           /\ \A p : call = NoCall => ~HeldByCall(p)
<1>1. call \in Calls \cup {NoCall}
  BY DEF StructureInv, SharingTypes
<1> QED BY <1>1, CallTyping DEF HeldByCall

\* The operation of the next call.
LEMMA NextOp ==
    ASSUME NEW c \in Calls, call' = c
    PROVE  /\ call' # NoCall /\ call' \in Calls \cup {NoCall}
           /\ \A o : Doing(o)' <=> o = c.op
BY NoCallIsNone DEF Doing

\* When neither tables nor counts change, and the call holds what it held.
LEMMA SameCounts ==
    ASSUME \A p \in Page : Counted(p), UNCHANGED <<refs, table>>,
           \A p \in Page : HeldByCall(p)' <=> HeldByCall(p)
    PROVE  \A p \in Page : Counted(p)'
<1> SUFFICES ASSUME NEW p \in Page PROVE Counted(p)'
  OBVIOUS
<1>1. Sharers(p)' = Sharers(p) /\ InCall(p)' = InCall(p)
  BY DEF Sharers, InCall
<1> QED BY <1>1 DEF Counted

\* A table stays sound when its request does, and nobody fills it who did not.
LEMMA SameTable ==
    ASSUME StructureInv, NEW s \in Request, table'[s] = table[s], text'[s] = text[s],
           written'[s] = written[s] \/ written'[s] = Len(text[s]),
           kind'[s] = "none" => kind[s] = "none" \/ text[s] = <<>>,
           Filling(s) => Filling(s)'
    PROVE  TableSound(s)'
<1>1. TableSound(s) /\ Len(text[s]) \in Nat
  BY RequestTypes DEF StructureInv
<1> QED BY <1>1 DEF TableSound

\* A page that is taken from the pool was in no table.
LEMMA TakenPage ==
    ASSUME StructureInv, NEW p \in Page, TakePage(p)
    PROVE  /\ refs[p] = 0
           /\ refs' = [refs EXCEPT ![p] = 1] /\ refs' \in [Page -> Nat]
           /\ prefix' = [prefix EXCEPT ![p] = NoPrefix]
           /\ prefix' \in [Page -> Prefix \cup {NoPrefix}]
           /\ \A s \in Request : p \notin ToSet(table[s])
           /\ ~HeldByCall(p)
           /\ kv' = [kv EXCEPT ![p] = Blank]
<1>1. refs \in [Page -> Nat] /\ prefix \in [Page -> Prefix \cup {NoPrefix}] /\ Counted(p)
  BY DEF StructureInv, SharingTypes
<1>2. refs[p] = 0 /\ refs' = [refs EXCEPT ![p] = 1] /\ prefix' = [prefix EXCEPT ![p] = NoPrefix]
      /\ kv' = [kv EXCEPT ![p] = Blank]
  BY DEF TakePage, Allocate, Allocatable, FreePages, Unreferenced
<1>3. /\ \A s \in Request : p \notin ToSet(table[s])
      /\ ~HeldByCall(p)
  BY <1>1, <1>2, CountedIs
<1> QED BY <1>1, <1>2, <1>3

\* append_tokens, prefill and decode: the call begins.
LEMMA BeginAppendSound ==
    ASSUME StructureInv, NEW r \in Request, NEW count \in 1..MaxTokens,
           call = NoCall, kind[r] # "none", count <= Room(r),
           BeginAppend(r, count)
    PROVE  StructureInv'
<1> DEFINE c == [op |-> "append", who |-> r, count |-> count, pages |-> Len(table[r])]
<1>1. /\ table[r] \in Seq(Page) /\ IsInjective(table[r]) /\ Len(table[r]) \in Nat
      /\ text[r] \in Text /\ Len(text[r]) \in Nat
  BY RequestTypes
<1>2. c \in Calls /\ c.op = "append" /\ c.who = r /\ c.count = count /\ c.pages = Len(table[r])
  BY <1>1, CallBuilt
<1>3. call' = c /\ UNCHANGED <<refs, prefix, kind, table, text, written>>
  BY DEF BeginAppend, poolVars, requests
<1> HIDE DEF c
<1>4. /\ call' \in Calls \cup {NoCall}
      /\ \A o : Doing(o)' <=> o = "append"
  BY <1>2, <1>3, NextOp
<1>5. SharingTypes'
  BY <1>3, <1>4 DEF StructureInv, SharingTypes
<1>6. \A p \in Page : Counted(p)'
  <2>1. \A p : ~HeldByCall(p) /\ ~HeldByCall(p)'
    BY <1>2, <1>3 DEF HeldByCall
  <2> QED BY <1>3, <2>1, SameCounts DEF StructureInv
<1>7. Len(table[r]) = PagesFor(Len(text[r]))
  <2>1. ~Filling(r)
    BY DEF Filling, Doing
  <2> QED BY <2>1 DEF StructureInv, TableSound
<1>8. \A s \in Request : TableSound(s)'
  <2>1. \A s : ~Filling(s)
    BY DEF Filling, Doing
  <2> QED BY <1>3, <2>1, SameTable
<1>9. AppendFacts'
  <2>1. Len(text[r]) + count <= MaxTokens
    BY <1>1, MaxTokensIsNat DEF Room
  <2>2. PagesFor(Len(text[r])) <= PagesFor(Len(text[r]) + count)
    BY <1>1, PagesForMonotone
  <2> QED BY <1>1, <1>2, <1>3, <1>7, <2>1, <2>2 DEF AppendFacts
<1>10. CallFacts'
  BY <1>4, <1>9 DEF CallFacts, CopyFacts, LifecycleFacts, ForkFacts, AttachFacts, HitFacts
<1> QED BY <1>5, <1>6, <1>8, <1>10 DEF StructureInv

\* append_owned, append_shared, append_cached_full_block: one more entry, one
\* more reference.
LEMMA ExtendSound ==
    ASSUME StructureInv, NEW r \in Request, NEW p \in Page, p \notin ToSet(table[r]),
           table' = [table EXCEPT ![r] = Append(table[r], p)],
           refs' = [refs EXCEPT ![p] = refs[p] + 1],
           \A q \in Page : HeldByCall(q)' <=> HeldByCall(q)
    PROVE  /\ refs' \in [Page -> Nat]
           /\ table' \in [Request -> Seq(Page)]
           /\ \A s \in Request : s # r => table'[s] = table[s]
           /\ Len(table'[r]) = Len(table[r]) + 1
           /\ \A j \in 1..Len(table[r]) : table'[r][j] = table[r][j]
           /\ table'[r][Len(table[r]) + 1] = p
           /\ IsInjective(table'[r])
           /\ ToSet(table'[r]) = ToSet(table[r]) \cup {p}
           /\ \A q \in Page : Counted(q)'
<1> DEFINE longer == Append(table[r], p)
<1>1. table[r] \in Seq(Page) /\ IsInjective(table[r])
  BY RequestTypes
<1>2. /\ longer \in Seq(Page) /\ Len(longer) = Len(table[r]) + 1 /\ IsInjective(longer)
      /\ ToSet(longer) = ToSet(table[r]) \cup {p}
      /\ \A j \in 1..Len(table[r]) : longer[j] = table[r][j]
      /\ longer[Len(table[r]) + 1] = p
  BY <1>1, ExtendedTable
<1> HIDE DEF longer
<1>3. /\ table \in [Request -> Seq(Page)] /\ refs \in [Page -> Nat]
      /\ \A q \in Page : Counted(q)
  BY DEF StructureInv, SharingTypes
<1>4. table'[r] = longer /\ (\A s \in Request : s # r => table'[s] = table[s])
      /\ table' \in [Request -> Seq(Page)]
  BY <1>2, <1>3 DEF longer
<1>5. refs' \in [Page -> Nat]
  BY <1>3
<1>6. ASSUME NEW q \in Page PROVE Counted(q)'
  <2>1. InCall(q)' = InCall(q) /\ InCall(q) \in Nat
    BY DEF InCall
  <2>2. InTables(r, q) = (IF q \in ToSet(table[r]) THEN 1 ELSE 0)
        /\ InTables(r, q)' = (IF q \in ToSet(table[r]) \/ q = p THEN 1 ELSE 0)
    BY <1>2, <1>4 DEF InTables
  <2>3. refs[q] \in Nat /\ refs'[q] = IF q = p THEN refs[p] + 1 ELSE refs[q]
    BY <1>3
  <2>4. refs'[q] \in Nat
        /\ refs'[q] + InTables(r, q) + InCall(q) = refs[q] + InTables(r, q)' + InCall(q)'
    <3>1. CASE q = p
      BY <2>1, <2>2, <2>3, <3>1
    <3>2. CASE q # p
      BY <2>1, <2>2, <2>3, <3>2
    <3> QED BY <3>1, <3>2
  <2> QED BY <1>3, <1>4, <2>3, <2>4, CountStep
<1> QED BY <1>2, <1>4, <1>5, <1>6

\* One turn of the loop of append_tokens.
LEMMA GrowSound ==
    ASSUME StructureInv, Grow
    PROVE  StructureInv'
<1>0. Doing("append") /\ call.who \in Request
  BY CallTypes DEF Grow, Doing
<1> PICK r \in Request : r = call.who
  BY <1>0
<1>1. Doing("append") /\ Len(table[r]) < PagesFor(Len(text[r]) + call.count)
  BY DEF Grow
<1>2. /\ \A o : Doing(o) <=> o = "append"
      /\ call # NoCall /\ r = call.who /\ call.count \in 1..MaxTokens /\ call.pages \in Nat
      /\ \A p : ~HeldByCall(p)
  BY <1>1, CallTypes DEF Doing
<1>3. Len(table[r]) \in Nat /\ Len(text[r]) \in Nat /\ Len(text[r]) + call.count \in Nat
  BY <1>2, RequestTypes, MaxTokensIsNat
<1>4. /\ kind[r] # "none" /\ Len(text[r]) + call.count <= MaxTokens
      /\ call.pages = PagesFor(Len(text[r])) /\ call.pages <= Len(table[r])
  BY <1>1 DEF StructureInv, CallFacts, AppendFacts
<1>5. CASE Fails(r, {}, call.pages, kv)
  <2>1. call.pages \in 0..Len(table[r]) /\ (call = NoCall \/ call.who = r)
    BY <1>2, <1>3, <1>4
  <2> QED BY <1>2, <1>4, <1>5, <2>1, FailsEmptyHanded
<1>6. CASE \E p \in Page : TakePage(p) /\ table' = [table EXCEPT ![r] = Append(table[r], p)]
                           /\ UNCHANGED <<kind, text, written, call>>
  <2>1. PICK p \in Page : TakePage(p) /\ table' = [table EXCEPT ![r] = Append(table[r], p)]
    BY <1>6
  <2>2. UNCHANGED <<kind, text, written, call>>
    BY <1>6
  <2>3. /\ refs' = [refs EXCEPT ![p] = refs[p] + 1]
        /\ prefix' \in [Page -> Prefix \cup {NoPrefix}]
        /\ p \notin ToSet(table[r])
    BY <2>1, TakenPage
  <2>4. \A q \in Page : HeldByCall(q)' <=> HeldByCall(q)
    BY <2>2 DEF HeldByCall
  <2>5. /\ refs' \in [Page -> Nat]
        /\ table' \in [Request -> Seq(Page)]
        /\ \A s \in Request : s # r => table'[s] = table[s]
        /\ Len(table'[r]) = Len(table[r]) + 1
        /\ IsInjective(table'[r])
        /\ \A q \in Page : Counted(q)'
    BY <2>1, <2>3, <2>4, ExtendSound
  <2>6. SharingTypes'
    BY <2>2, <2>3, <2>5 DEF StructureInv, SharingTypes
  <2>7. ASSUME NEW s \in Request PROVE TableSound(s)'
    <3>1. TableSound(s)
      BY DEF StructureInv
    <3>2. Filling(s) => Filling(s)'
      BY <2>2 DEF Filling, Doing
    <3>3. CASE s # r
      BY <2>2, <2>5, <3>1, <3>2, <3>3, SameTable
    <3>4. CASE s = r
      <4>1. Filling(s)'
        BY <1>1, <2>2, <3>4 DEF Filling, Doing
      <4> QED BY <1>4, <2>2, <2>5, <3>1, <3>4, <4>1 DEF TableSound
    <3> QED BY <3>3, <3>4
  <2>8. AppendFacts'
    <3>1. PagesFor(Len(text[r]) + call.count) \in Nat
      BY <1>3, PagesForBounds
    <3>2. /\ call.pages <= Len(table'[r])
          /\ Len(table'[r]) <= PagesFor(Len(text[r]) + call.count)
      BY <1>1, <1>2, <1>3, <1>4, <2>5, <3>1
    <3> QED BY <1>4, <2>2, <3>2 DEF AppendFacts
  <2>9. \A o : Doing(o)' <=> o = "append"
    BY <1>2, <2>2 DEF Doing
  <2>10. CallFacts'
    BY <2>8, <2>9 DEF CallFacts, CopyFacts, LifecycleFacts, ForkFacts, AttachFacts, HitFacts
  <2> QED BY <2>5, <2>6, <2>7, <2>10 DEF StructureInv
<1> QED BY <1>5, <1>6 DEF Grow

\* What follows an append holds no page and fills no table.
LEMMA AfterAppendSound ==
    ASSUME StructureInv, NEW r \in Request, call' = AfterAppend(r), kind' = kind
    PROVE  /\ call' \in Calls \cup {NoCall}
           /\ \A p : ~HeldByCall(p)'
           /\ \A s : ~Filling(s)'
           /\ CallFacts'
<1>1. CASE call' = NoCall
  BY <1>1, NoCallLeft
<1>2. CASE IsLifecycle(r)
  <2> DEFINE c == [op |-> "compute", who |-> r]
  <2>1. c \in Calls /\ c.op = "compute" /\ c.who = r
    BY CallBuilt
  <2>2. call' = c
    BY <1>2 DEF AfterAppend
  <2> HIDE DEF c
  <2>3. /\ call' \in Calls \cup {NoCall}
        /\ \A o : Doing(o)' <=> o = "compute"
    BY <2>1, <2>2, NextOp
  <2>4. /\ \A p : ~HeldByCall(p)'
        /\ \A s : ~Filling(s)'
    BY <2>1, <2>2, <2>3 DEF HeldByCall, Filling
  <2>5. LifecycleFacts'
    BY <1>2, <2>1, <2>2 DEF LifecycleFacts, IsLifecycle
  <2>6. CallFacts'
    BY <2>3, <2>5 DEF CallFacts, AppendFacts, CopyFacts, ForkFacts, AttachFacts, HitFacts
  <2> QED BY <2>3, <2>4, <2>6
<1> QED BY <1>1, <1>2 DEF AfterAppend

\* append_tokens returns: the table has the pages of the longer text.
LEMMA GrownSound ==
    ASSUME StructureInv, Grown
    PROVE  StructureInv'
<1>0. Doing("append") /\ call.who \in Request
  BY CallTypes DEF Grown, Doing
<1> PICK r \in Request : r = call.who
  BY <1>0
<1>1. /\ Len(table[r]) >= PagesFor(Len(text[r]) + call.count)
      /\ Lengthen(r, call.count)
      /\ call' = AfterAppend(r)
      /\ UNCHANGED <<refs, prefix, kind, table, written, kv>>
  BY DEF Grown, poolVars
<1>2. /\ \A p : ~HeldByCall(p)
      /\ call.count \in 1..MaxTokens
  BY <1>0, CallTypes DEF Doing
<1>3. /\ Len(table[r]) \in Nat /\ text[r] \in Text /\ Len(text[r]) \in Nat
      /\ call.count \in Nat /\ Len(text[r]) + call.count \in Nat
  BY <1>2, RequestTypes, MaxTokensIsNat
<1>4. /\ kind[r] # "none" /\ Len(text[r]) + call.count <= MaxTokens
      /\ Len(table[r]) <= PagesFor(Len(text[r]) + call.count)
  BY <1>0 DEF StructureInv, CallFacts, AppendFacts
<1>5. /\ call' \in Calls \cup {NoCall}
      /\ \A p : ~HeldByCall(p)'
      /\ \A s : ~Filling(s)'
      /\ CallFacts'
  BY <1>1, AfterAppendSound
<1>6. PICK new \in [1..call.count -> Token] : text' = [text EXCEPT ![r] = text[r] \o new]
  BY <1>1 DEF Lengthen
<1> DEFINE longer == text[r] \o new
<1>7. longer \in Text /\ Len(longer) = Len(text[r]) + call.count
  BY <1>3, <1>4, LongerText
<1> HIDE DEF longer
<1>8. SharingTypes /\ text \in [Request -> Text]
  BY DEF StructureInv, SharingTypes
<1>9. /\ text'[r] = longer /\ (\A s \in Request : s # r => text'[s] = text[s])
      /\ text' \in [Request -> Text]
  BY <1>6, <1>7, <1>8 DEF longer
<1>10. SharingTypes'
  BY <1>1, <1>5, <1>8, <1>9 DEF SharingTypes
<1>11. \A p \in Page : Counted(p)'
  BY <1>1, <1>2, <1>5, SameCounts DEF StructureInv
<1>12. ASSUME NEW s \in Request PROVE TableSound(s)'
  <2>1. CASE s # r
    <3>1. ~Filling(s)
      BY <2>1 DEF Filling
    <3> QED BY <1>1, <1>9, <2>1, <3>1, SameTable
  <2>2. CASE s = r
    <3>1. PagesFor(Len(text[r]) + call.count) \in Nat
      BY <1>3, PagesForBounds
    <3>2. Len(table'[r]) = PagesFor(Len(text'[r]))
      BY <1>1, <1>3, <1>4, <1>7, <1>9, <3>1
    <3>3. TableSound(r)
      BY DEF StructureInv
    <3>4. written[r] \in Nat /\ written[r] <= Len(text[r]) /\ Len(text[r]) <= Len(text'[r])
      BY <1>3, <1>7, <1>9, <3>3, RequestTypes DEF TableSound
    <3>5. written'[r] <= Len(text'[r])
      BY <1>1, <1>3, <1>7, <1>9, <3>4
    <3> QED BY <1>1, <1>4, <2>2, <3>2, <3>3, <3>5 DEF TableSound
  <2> QED BY <2>1, <2>2
<1> QED BY <1>5, <1>10, <1>11, <1>12 DEF StructureInv

\* append_token_with_copy: a private tail grows, a shared one is copied first.
LEMMA AppendWithCopySound ==
    ASSUME StructureInv, NEW r \in Request, AppendWithCopy(r)
    PROVE  StructureInv'
<1>1. call = NoCall /\ kind[r] # "none" /\ Room(r) > 0 /\ (\A p : ~HeldByCall(p))
      /\ (\A o : ~Doing(o)) /\ \A s : ~Filling(s)
  BY CallTypes DEF AppendWithCopy, Doing, Filling
<1>2. /\ table[r] \in Seq(Page) /\ Len(table[r]) \in Nat /\ Len(table[r]) \in 0..Len(table[r])
      /\ text[r] \in Text /\ Len(text[r]) \in Nat
  BY RequestTypes
<1>3. Len(text[r]) < MaxTokens /\ 1 \in 1..MaxTokens /\ 1 <= Room(r)
  BY <1>1, <1>2, MaxTokensIsNat DEF Room
<1>4. Len(table[r]) = PagesFor(Len(text[r]))
  BY <1>1 DEF StructureInv, TableSound
<1>5. CASE BeginAppend(r, 1)
  BY <1>1, <1>3, <1>5, BeginAppendSound
<1>6. CASE Fails(r, {}, Len(table[r]), kv)
  BY <1>1, <1>2, <1>4, <1>6, FailsEmptyHanded
<1>7. CASE /\ TailShared(r)
           /\ \E p \in Page : TakePage(p) /\ call' = [op |-> "copy", who |-> r, page |-> p]
           /\ UNCHANGED requests
  <2>1. PICK p \in Page : TakePage(p) /\ call' = [op |-> "copy", who |-> r, page |-> p]
    BY <1>7
  <2>2. UNCHANGED <<kind, table, text, written>>
    BY <1>7 DEF requests
  <2>3. /\ refs[p] = 0 /\ refs' = [refs EXCEPT ![p] = 1] /\ refs' \in [Page -> Nat]
        /\ prefix' \in [Page -> Prefix \cup {NoPrefix}]
        /\ \A s \in Request : p \notin ToSet(table[s])
    BY <2>1, TakenPage
  <2> DEFINE c == [op |-> "copy", who |-> r, page |-> p]
  <2>4. c \in Calls /\ c.op = "copy" /\ c.who = r /\ c.page = p /\ call' = c
    BY <2>1, CallBuilt
  <2> HIDE DEF c
  <2>5. /\ call' \in Calls \cup {NoCall} /\ call' # NoCall
        /\ \A o : Doing(o)' <=> o = "copy"
    BY <2>4, NextOp
  <2>6. \A q : HeldByCall(q)' <=> q = p
    BY <2>4, <2>5 DEF HeldByCall
  <2>7. SharingTypes'
    BY <2>2, <2>3, <2>5 DEF StructureInv, SharingTypes
  <2>8. ASSUME NEW q \in Page PROVE Counted(q)'
    <3>1. Counted(q) /\ refs[q] \in Nat /\ refs'[q] \in Nat /\ refs'[q] = IF q = p THEN 1 ELSE refs[q]
      BY <2>3 DEF StructureInv, SharingTypes
    <3>2. InCall(q) = 0 /\ InCall(q)' = (IF q = p THEN 1 ELSE 0)
      BY <1>1, <2>6 DEF InCall
    <3>3. InTables(r, q)' = InTables(r, q) /\ InTables(r, q) \in Nat
      BY <2>2 DEF InTables
    <3>4. refs'[q] + InTables(r, q) + InCall(q) = refs[q] + InTables(r, q)' + InCall(q)'
      <4>1. CASE q = p
        BY <2>3, <3>1, <3>2, <3>3, <4>1
      <4>2. CASE q # p
        BY <3>1, <3>2, <3>3, <4>2
      <4> QED BY <4>1, <4>2
    <3> QED BY <2>2, <3>1, <3>4, CountStep
  <2>9. \A s \in Request : TableSound(s)'
    BY <1>1, <2>2, SameTable
  <2>10. CopyFacts'
    <3>1. Len(text[r]) % BlockSize # 0
      BY <1>7 DEF TailShared
    <3> QED BY <1>1, <1>3, <2>2, <2>3, <2>4, <3>1 DEF CopyFacts
  <2>11. CallFacts'
    BY <2>5, <2>10 DEF CallFacts, AppendFacts, LifecycleFacts, ForkFacts, AttachFacts, HitFacts
  <2> QED BY <2>7, <2>8, <2>9, <2>11 DEF StructureInv
<1> QED BY <1>5, <1>6, <1>7 DEF AppendWithCopy

\* replace_last_owned: the page the call holds takes the place of the last.
LEMMA CopySound ==
    ASSUME StructureInv, Copy
    PROVE  StructureInv'
<1>0. Doing("copy") /\ call.who \in Request /\ call.page \in Page
  BY CallTypes DEF Copy, Doing
<1> PICK r \in Request : r = call.who
  BY <1>0
<1> PICK p \in Page : p = call.page
  BY <1>0
<1>1. /\ kind[r] # "none" /\ Len(text[r]) % BlockSize # 0 /\ Len(text[r]) < MaxTokens
      /\ \A s \in Request : p \notin ToSet(table[s])
  BY <1>0 DEF StructureInv, CallFacts, CopyFacts
<1>2. /\ \A q : HeldByCall(q) <=> q = p
      /\ ~Doing("append") /\ ~Doing("fork") /\ \A s : ~Filling(s)
  BY <1>0, CallTypes DEF Doing, Filling
<1>3. /\ table[r] \in Seq(Page) /\ IsInjective(table[r]) /\ Len(table[r]) \in Nat
      /\ text[r] \in Text /\ Len(text[r]) \in Nat
  BY RequestTypes
<1>4. Len(table[r]) = PagesFor(Len(text[r]))
  BY <1>2 DEF StructureInv, TableSound
<1>5. /\ PagesFor(Len(text[r]) + 1) = Len(table[r]) /\ Len(table[r]) # 0 /\ table[r] # <<>>
  BY <1>1, <1>3, <1>4, PagesForTail
<1> DEFINE old == Last(table[r])
           new == Front(table[r]) \o <<p>>
<1>6. CASE Fails(r, {p}, Len(table[r]), kv)
  <2>1. {p} \in SUBSET Page /\ (\A q \in Page : q \in {p} <=> HeldByCall(q))
        /\ (\A q \in {p} : q \notin ToSet(table[r])) /\ Len(table[r]) \in 0..Len(table[r])
        /\ call.who = r
    BY <1>1, <1>2, <1>3
  <2> QED BY <1>4, <1>6, <2>1, FailsSound
<1>7. CASE /\ GiveBack({old}, Copied(old, p))
           /\ table' = [table EXCEPT ![r] = new]
           /\ Lengthen(r, 1)
           /\ call' = AfterAppend(r)
           /\ UNCHANGED <<kind, written>>
  <2>1. /\ new \in Seq(Page) /\ Len(new) = Len(table[r]) /\ IsInjective(new)
        /\ \A q : q \in ToSet(new) <=> (q \in ToSet(table[r]) /\ q # old) \/ q = p
        /\ old \in ToSet(table[r])
    BY <1>1, <1>3, <1>5, ReplacedTable
  <2>2. /\ refs[old] > 0 /\ prefix' = prefix
        /\ refs' = [q \in Page |-> IF q \in {old} THEN refs[q] - 1 ELSE refs[q]]
    BY <1>7 DEF GiveBack, Release
  <2>3. /\ call' \in Calls \cup {NoCall}
        /\ \A q : ~HeldByCall(q)'
        /\ \A s : ~Filling(s)'
        /\ CallFacts'
    BY <1>7, AfterAppendSound
  <2>4. PICK more \in [1..1 -> Token] : text' = [text EXCEPT ![r] = text[r] \o more]
    BY <1>7 DEF Lengthen
  <2> DEFINE longer == text[r] \o more
  <2>5. longer \in Text /\ Len(longer) = Len(text[r]) + 1
    <3>1. Len(text[r]) + 1 <= MaxTokens
      BY <1>1, <1>3, MaxTokensIsNat
    <3> QED BY <1>3, <3>1, LongerText
  <2> HIDE DEF longer, old, new
  <2>6. /\ SharingTypes /\ text \in [Request -> Text] /\ table \in [Request -> Seq(Page)]
        /\ refs \in [Page -> Nat]
    BY DEF StructureInv, SharingTypes
  <2>7. /\ text'[r] = longer /\ (\A s \in Request : s # r => text'[s] = text[s])
        /\ text' \in [Request -> Text]
    BY <2>4, <2>5, <2>6 DEF longer
  <2>8. /\ table'[r] = new /\ (\A s \in Request : s # r => table'[s] = table[s])
        /\ table' \in [Request -> Seq(Page)]
    BY <1>7, <2>1, <2>6
  <2>9. refs' \in [Page -> Nat]
    BY <2>2, <2>6
  <2>10. SharingTypes'
    BY <1>7, <2>2, <2>3, <2>6, <2>7, <2>8, <2>9 DEF SharingTypes
  <2>11. ASSUME NEW q \in Page PROVE Counted(q)'
    <3>1. /\ Counted(q) /\ refs[q] \in Nat /\ refs'[q] \in Nat
          /\ refs'[q] = IF q = old THEN refs[q] - 1 ELSE refs[q]
      BY <2>2, <2>6, <2>9 DEF StructureInv
    <3>2. InCall(q) = (IF q = p THEN 1 ELSE 0) /\ InCall(q)' = 0
      BY <1>2, <2>3 DEF InCall
    <3>3. /\ InTables(r, q) = (IF q \in ToSet(table[r]) THEN 1 ELSE 0)
          /\ InTables(r, q)' = IF (q \in ToSet(table[r]) /\ q # old) \/ q = p THEN 1 ELSE 0
      BY <2>1, <2>8 DEF InTables
    <3>4. refs'[q] + InTables(r, q) + InCall(q) = refs[q] + InTables(r, q)' + InCall(q)'
      <4>1. CASE q = p
        <5>1. q \notin ToSet(table[r]) /\ q # old
          BY <1>1, <2>1, <4>1
        <5> QED BY <3>1, <3>2, <3>3, <4>1, <5>1
      <4>2. CASE q = old
        <5>1. q # p
          BY <1>1, <2>1, <4>2
        <5> QED BY <2>1, <3>1, <3>2, <3>3, <4>2, <5>1
      <4>3. CASE q # p /\ q # old
        BY <3>1, <3>2, <3>3, <4>3
      <4> QED BY <4>1, <4>2, <4>3
    <3> QED BY <2>8, <3>1, <3>4, CountStep
  <2>12. ASSUME NEW s \in Request PROVE TableSound(s)'
    <3>1. CASE s # r
      BY <1>2, <1>7, <2>7, <2>8, <3>1, SameTable
    <3>2. CASE s = r
      <4>1. Len(table'[r]) = PagesFor(Len(text'[r]))
        BY <1>5, <2>1, <2>5, <2>7, <2>8
      <4>2. written[r] \in Nat /\ written[r] <= Len(text[r])
        BY RequestTypes DEF StructureInv, TableSound
      <4>3. written'[r] <= Len(text'[r])
        BY <1>3, <1>7, <2>5, <2>7, <4>2
      <4> QED BY <1>1, <1>7, <2>1, <2>8, <3>2, <4>1, <4>3 DEF TableSound
    <3> QED BY <3>1, <3>2
  <2> QED BY <2>3, <2>10, <2>11, <2>12 DEF StructureInv
<1>8. \/ Fails(r, {p}, Len(table[r]), kv)
      \/ /\ GiveBack({old}, Copied(old, p))
         /\ table' = [table EXCEPT ![r] = new]
         /\ Lengthen(r, 1)
         /\ call' = AfterAppend(r)
         /\ UNCHANGED <<kind, written>>
  BY DEF Copy
<1> QED BY <1>6, <1>7, <1>8

\* prefill and decode write the new tokens, or the request ends.
LEMMA ComputeSound ==
    ASSUME StructureInv, Compute
    PROVE  StructureInv'
<1>0. Doing("compute") /\ call.who \in Request
  BY CallTypes DEF Compute, Doing
<1> PICK r \in Request : r = call.who
  BY <1>0
<1>1. /\ \A q : ~HeldByCall(q)
      /\ \A s : ~Filling(s)
      /\ IsLifecycle(r)
  BY <1>0, CallTypes DEF Doing, Filling, StructureInv, CallFacts, LifecycleFacts
<1>2. /\ 0 \in 0..Len(table[r]) /\ Len(text[r]) \in Nat
      /\ written[r] \in Nat /\ written[r] <= Len(text[r])
  BY RequestTypes DEF StructureInv, TableSound
<1>3. CASE \E memory \in {kv, WithTokens(r)} : Fails(r, {}, 0, memory)
  BY <1>1, <1>2, <1>3, FailsEmptyHanded
<1>4. CASE /\ written' = [written EXCEPT ![r] = Len(text[r])]
           /\ call' = [op |-> "attend", who |-> r, queries |-> Len(text[r]) - written[r]]
           /\ UNCHANGED <<poolVars, kind, table, text>>
  <2> DEFINE c == [op |-> "attend", who |-> r, queries |-> Len(text[r]) - written[r]]
  <2>1. Len(text[r]) - written[r] \in Nat
    BY <1>2
  <2>2. c \in Calls /\ c.op = "attend" /\ c.who = r /\ call' = c
    BY <1>4, <2>1, CallBuilt
  <2> HIDE DEF c
  <2>3. /\ call' \in Calls \cup {NoCall}
        /\ \A o : Doing(o)' <=> o = "attend"
    BY <2>2, NextOp
  <2>4. \A q : ~HeldByCall(q)'
    BY <2>2 DEF HeldByCall
  <2>5. UNCHANGED <<refs, prefix, kind, table, text>>
    BY <1>4 DEF poolVars
  <2>6. written' \in [Request -> Nat]
        /\ \A s \in Request : written'[s] = written[s] \/ written'[s] = Len(text[s])
    BY <1>2, <1>4 DEF StructureInv, SharingTypes
  <2>7. SharingTypes'
    BY <2>3, <2>5, <2>6 DEF StructureInv, SharingTypes
  <2>8. \A q \in Page : Counted(q)'
    BY <1>1, <2>4, <2>5, SameCounts DEF StructureInv
  <2>9. \A s \in Request : TableSound(s)'
    BY <1>1, <2>5, <2>6, SameTable
  <2>10. LifecycleFacts'
    BY <1>1, <2>2, <2>5 DEF LifecycleFacts, IsLifecycle
  <2>11. CallFacts'
    BY <2>3, <2>10 DEF CallFacts, AppendFacts, CopyFacts, ForkFacts, AttachFacts, HitFacts
  <2> QED BY <2>7, <2>8, <2>9, <2>11 DEF StructureInv
<1> QED BY <1>3, <1>4 DEF Compute

\* A step that changes no table, no count and no text, and leaves no call.
LEMMA QuietSound ==
    ASSUME StructureInv, UNCHANGED <<refs, table, text>>, call' = NoCall,
           prefix' \in [Page -> Prefix \cup {NoPrefix}],
           kind' \in [Request -> Kinds], written' \in [Request -> Nat],
           \A s \in Request : written'[s] = written[s] \/ written'[s] = Len(text[s]),
           \A s \in Request : kind'[s] = "none" => kind[s] = "none",
           \A p : ~HeldByCall(p), \A s : ~Filling(s)
    PROVE  StructureInv'
<1>1. CallFacts' /\ (\A p : ~HeldByCall(p)') /\ call' \in Calls \cup {NoCall}
  BY NoCallLeft
<1>2. SharingTypes'
  BY <1>1 DEF StructureInv, SharingTypes
<1>3. \A p \in Page : Counted(p)'
  BY <1>1, SameCounts DEF StructureInv
<1>4. \A s \in Request : TableSound(s)'
  BY SameTable
<1> QED BY <1>1, <1>2, <1>3, <1>4 DEF StructureInv

\* The attention of prefill and decode.
LEMMA AttendSound ==
    ASSUME StructureInv, Attend
    PROVE  StructureInv'
<1>0. Doing("attend") /\ call.who \in Request
  BY CallTypes DEF Attend, Doing
<1> PICK r \in Request : r = call.who
  BY <1>0
<1>1. /\ \A q : ~HeldByCall(q)
      /\ \A s : ~Filling(s)
      /\ 0 \in 0..Len(table[r])
  BY <1>0, CallTypes, RequestTypes DEF Doing, Filling
<1>2. CASE Fails(r, {}, 0, kv)
  BY <1>1, <1>2, FailsEmptyHanded
<1>3. CASE /\ kind' = [kind EXCEPT ![r] = "running"] /\ call' = NoCall
           /\ UNCHANGED <<poolVars, table, text, written, kv>>
  <2>1. SharingTypes /\ UNCHANGED <<refs, prefix>>
    BY <1>3 DEF StructureInv, poolVars
  <2>2. kind' \in [Request -> Kinds] /\ \A s \in Request : kind'[s] = "none" => kind[s] = "none"
    BY <1>3, <2>1 DEF SharingTypes, Kinds
  <2> QED BY <1>1, <1>3, <2>1, <2>2, QuietSound DEF SharingTypes
<1> QED BY <1>2, <1>3 DEF Attend

\* Between calls.
LEMMA Idle ==
    ASSUME StructureInv, call = NoCall
    PROVE  (\A p : ~HeldByCall(p)) /\ (\A s : ~Filling(s)) /\ (\A o : ~Doing(o))
BY DEF HeldByCall, Filling, Doing

\* Constructors.
LEMMA OpenSound ==
    ASSUME StructureInv, NEW r \in Request, NEW k \in {"sequence", "new"}, Open(r, k)
    PROVE  StructureInv'
<1>1. SharingTypes /\ UNCHANGED <<refs, prefix, table, text, written, call>> /\ call = NoCall
      /\ kind' = [kind EXCEPT ![r] = k]
  BY DEF Open, StructureInv, poolVars
<1>2. kind' \in [Request -> Kinds] /\ \A s \in Request : kind'[s] = "none" => kind[s] = "none"
  BY <1>1 DEF SharingTypes, Kinds
<1> QED BY <1>1, <1>2, Idle, QuietSound DEF SharingTypes

\* The caller writes the tokens of a sequence.
LEMMA WriteSound ==
    ASSUME StructureInv, NEW r \in Request, Write(r)
    PROVE  StructureInv'
<1>1. SharingTypes /\ UNCHANGED <<refs, prefix, table, text, kind, call>> /\ call = NoCall
      /\ written' = [written EXCEPT ![r] = Len(text[r])] /\ Len(text[r]) \in Nat
  BY RequestTypes DEF Write, StructureInv, poolVars
<1>2. written' \in [Request -> Nat]
      /\ \A s \in Request : written'[s] = written[s] \/ written'[s] = Len(text[s])
  BY <1>1 DEF SharingTypes
<1> QED BY <1>1, <1>2, Idle, QuietSound DEF SharingTypes

\* The prefix of a complete block is the text up to its end.
LEMMA CompletePrefix ==
    ASSUME StructureInv, NEW r \in Request, NEW l \in DOMAIN table[r],
           IsComplete(PrefixOf(r, l), l)
    PROVE  /\ l \in Nat \ {0} /\ l <= Len(table[r]) /\ l * BlockSize \in Nat
           /\ PrefixOf(r, l) = SubSeq(text[r], 1, l * BlockSize)
           /\ Len(PrefixOf(r, l)) = l * BlockSize
           /\ l * BlockSize <= Len(text[r])
           /\ PrefixOf(r, l) \in Prefix
<1>1. /\ table[r] \in Seq(Page) /\ Len(table[r]) \in Nat
      /\ text[r] \in Text /\ Len(text[r]) \in Nat
  BY RequestTypes
<1>2. l \in Nat \ {0} /\ l <= Len(table[r])
  BY <1>1, LenProperties
<1>3. BlockSize \in Nat \ {0} /\ l * BlockSize \in Nat
  BY <1>2, BlockSizePositive, NextBlock
<1> DEFINE most == l * BlockSize
           n == Min({most, Len(text[r])})
           q == SubSeq(text[r], 1, n)
<1>4. n \in Nat /\ n <= most /\ n <= Len(text[r])
  <2>1. most \in Nat /\ Len(text[r]) \in Nat
    BY <1>1, <1>3
  <2> DEFINE two == {most, Len(text[r])}
  <2>2. \E x \in two : \A y \in two : x <= y
    BY <2>1
  <2> HIDE DEF most
  <2>3. n \in two /\ \A y \in two : n <= y
    BY <2>2 DEF Min
  <2> QED BY <2>1, <2>3
<1>5. PrefixOf(r, l) = q
  BY DEF PrefixOf
<1> HIDE DEF n
<1>6. q \in Text /\ Len(q) = n
  BY <1>1, <1>4, CutText
<1> HIDE DEF q
<1>7. Len(q) % BlockSize = 0 /\ Len(q) \div BlockSize = l
  BY <1>5 DEF IsComplete
<1>8. n = most
  <2>1. n = (n \div BlockSize) * BlockSize + (n % BlockSize)
    BY <1>3, <1>4, Quotient
  <2>2. n \div BlockSize = l /\ n % BlockSize = 0
    BY <1>6, <1>7
  <2> QED BY <1>3, <2>1, <2>2
<1>9. q \in Prefix
  <2>1. most # 0
    <3>1. 1 * BlockSize <= l * BlockSize
      BY <1>2, <1>3, TimesMonotone
    <3> QED BY <1>3, <3>1
  <2>2. Len(q) # 0
    BY <1>6, <1>8, <2>1
  <2>3. q # <<>>
    BY <2>2
  <2> QED BY <1>6, <1>7, <2>3, PrefixesAreFullBlocks
<1> QED BY <1>2, <1>3, <1>4, <1>5, <1>6, <1>8, <1>9 DEF q

\* publish_computed_block.
LEMMA PublishSound ==
    ASSUME StructureInv, NEW r \in Request, NEW l \in DOMAIN table[r], PublishBlock(r, l)
    PROVE  StructureInv'
<1>1. /\ SharingTypes /\ call = NoCall /\ UNCHANGED <<kind, table, text, written, call, refs>>
      /\ prefix' = [prefix EXCEPT ![table[r][l]] = PrefixOf(r, l)]
  BY DEF PublishBlock, Publish, requests, StructureInv
<1>2. PrefixOf(r, l) \in Prefix
  BY CompletePrefix DEF PublishBlock
<1>3. prefix' \in [Page -> Prefix \cup {NoPrefix}]
  BY <1>1, <1>2 DEF SharingTypes
<1> QED BY <1>1, <1>3, Idle, QuietSound DEF SharingTypes

\* fork_shared begins.
LEMMA BeginForkSound ==
    ASSUME StructureInv, NEW r \in Request, NEW from \in Request, BeginFork(from, r)
    PROVE  StructureInv'
<1> DEFINE c == [op |-> "fork", who |-> r, from |-> from]
<1>1. /\ call = NoCall /\ kind[from] # "none" /\ kind[r] = "none" /\ call' = c
      /\ UNCHANGED <<refs, prefix, kind, table, text, written, kv>>
  BY DEF BeginFork, poolVars, requests
<1>2. c \in Calls /\ c.op = "fork" /\ c.who = r /\ c.from = from
  BY CallBuilt
<1> HIDE DEF c
<1>3. /\ call' \in Calls \cup {NoCall}
      /\ \A o : Doing(o)' <=> o = "fork"
  BY <1>1, <1>2, NextOp
<1>4. (\A p : ~HeldByCall(p)) /\ (\A s : ~Filling(s)) /\ (\A p : ~HeldByCall(p)')
  BY <1>1, <1>2, Idle DEF HeldByCall
<1>5. SharingTypes'
  BY <1>1, <1>3 DEF StructureInv, SharingTypes
<1>6. \A p \in Page : Counted(p)'
  BY <1>1, <1>4, SameCounts DEF StructureInv
<1>7. \A s \in Request : TableSound(s)'
  BY <1>1, <1>4, SameTable
<1>8. ForkFacts'
  <2>1. Len(table[r]) = 0
    <3>1. text[r] = <<>> /\ Len(table[r]) = PagesFor(Len(text[r]))
      BY <1>1, <1>4 DEF StructureInv, TableSound
    <3>2. Len(text[r]) = 0
      BY <3>1
    <3> QED BY <3>1, <3>2, PagesForNone
  <2>2. Len(table[from]) \in Nat
    BY RequestTypes
  <2> QED BY <1>1, <1>2, <2>1, <2>2 DEF ForkFacts
<1>9. CallFacts'
  BY <1>3, <1>8 DEF CallFacts, AppendFacts, CopyFacts, LifecycleFacts, AttachFacts, HitFacts
<1> QED BY <1>5, <1>6, <1>7, <1>9 DEF StructureInv

\* append_shared of the next page of the fork.
LEMMA ShareSound ==
    ASSUME StructureInv, Share
    PROVE  StructureInv'
<1>0. Doing("fork") /\ call.who \in Request /\ call.from \in Request
  BY CallTypes DEF Share, Doing
<1> PICK r \in Request : r = call.who
  BY <1>0
<1> PICK f \in Request : f = call.from
  BY <1>0
<1>1. /\ \A q : ~HeldByCall(q)
      /\ \A o : Doing(o) <=> o = "fork"
      /\ Filling(r)
  BY <1>0, CallTypes DEF Doing, Filling
<1>2. /\ table[r] \in Seq(Page) /\ IsInjective(table[r]) /\ Len(table[r]) \in Nat
      /\ 0 \in 0..Len(table[r])
      /\ table[f] \in Seq(Page) /\ IsInjective(table[f]) /\ Len(table[f]) \in Nat
  BY RequestTypes
<1>3. /\ f # r /\ kind[r] = "none"
      /\ Len(table[r]) <= Len(table[f])
      /\ \A j \in 1..Len(table[r]) : table[r][j] = table[f][j]
  BY <1>0 DEF StructureInv, CallFacts, ForkFacts
<1> DEFINE next == Len(table[r]) + 1
           p == table[f][next]
<1>4. next <= Len(table[f])
  BY DEF Share
<1>5. CASE Fails(r, {}, 0, kv)
  BY <1>1, <1>2, <1>5, FailsEmptyHanded
<1>6. CASE /\ Retain(p)
           /\ table' = [table EXCEPT ![r] = Append(table[r], p)]
           /\ UNCHANGED <<kind, text, written, kv, call>>
  <2>1. next \in 1..Len(table[f]) /\ DOMAIN table[f] = 1..Len(table[f])
    BY <1>2, <1>4, LenProperties
  <2>2. p \in Page
    BY <1>2, <2>1, LenProperties
  <2>3. refs' = [refs EXCEPT ![p] = refs[p] + 1] /\ prefix' = prefix
    BY <1>6 DEF Retain
  <2>4. p \notin ToSet(table[r])
    <3>1. ASSUME NEW j \in 1..Len(table[r]), table[r][j] = p PROVE FALSE
      <4>1. j \in 1..Len(table[f]) /\ j # next
        BY <1>2, <1>3
      <4>2. table[f][j] = table[f][next]
        BY <1>3, <3>1
      <4> QED BY <1>2, <2>1, <4>1, <4>2 DEF IsInjective
    <3> QED BY <1>2, <3>1, InTable
  <2>5. \A q \in Page : HeldByCall(q)' <=> HeldByCall(q)
    BY <1>6 DEF HeldByCall
  <2> HIDE DEF p
  <2>6. /\ refs' \in [Page -> Nat]
        /\ table' \in [Request -> Seq(Page)]
        /\ \A s \in Request : s # r => table'[s] = table[s]
        /\ Len(table'[r]) = Len(table[r]) + 1
        /\ \A j \in 1..Len(table[r]) : table'[r][j] = table[r][j]
        /\ table'[r][Len(table[r]) + 1] = p
        /\ IsInjective(table'[r])
        /\ \A q \in Page : Counted(q)'
    BY <1>6, <2>2, <2>3, <2>4, <2>5, ExtendSound
  <2>7. SharingTypes'
    BY <1>6, <2>3, <2>6 DEF StructureInv, SharingTypes
  <2>8. ASSUME NEW s \in Request PROVE TableSound(s)'
    <3>1. TableSound(s)
      BY DEF StructureInv
    <3>2. Filling(s) => Filling(s)'
      BY <1>6 DEF Filling, Doing
    <3>3. CASE s # r
      BY <1>6, <2>6, <3>2, <3>3, SameTable
    <3>4. CASE s = r
      BY <1>1, <1>6, <2>6, <3>1, <3>2, <3>4 DEF TableSound
    <3> QED BY <3>3, <3>4
  <2>9. ForkFacts'
    <3>1. \A j \in 1..Len(table'[r]) : j \in 1..Len(table[r]) \/ j = next
      BY <1>2, <2>6
    <3>2. \A j \in 1..Len(table'[r]) : table'[r][j] = table'[f][j]
      BY <1>3, <2>6, <3>1 DEF p
    <3>3. Len(table'[r]) <= Len(table'[f])
      BY <1>3, <1>4, <2>6
    <3> QED BY <1>3, <1>6, <3>2, <3>3 DEF ForkFacts
  <2>10. \A o : Doing(o)' <=> o = "fork"
    BY <1>1, <1>6 DEF Doing
  <2>11. CallFacts'
    BY <2>9, <2>10 DEF CallFacts, AppendFacts, CopyFacts, LifecycleFacts, AttachFacts, HitFacts
  <2> QED BY <2>6, <2>7, <2>8, <2>11 DEF StructureInv
<1>7. \/ /\ Retain(p)
         /\ table' = [table EXCEPT ![r] = Append(table[r], p)]
         /\ UNCHANGED <<kind, text, written, kv, call>>
      \/ Fails(r, {}, 0, kv)
  BY DEF Share
<1> QED BY <1>5, <1>6, <1>7

\* fork_shared returns.
LEMMA ForkedSound ==
    ASSUME StructureInv, Forked
    PROVE  StructureInv'
<1>0. Doing("fork") /\ call.who \in Request /\ call.from \in Request
  BY CallTypes DEF Forked, Doing
<1> PICK r \in Request : r = call.who
  BY <1>0
<1> PICK f \in Request : f = call.from
  BY <1>0
<1>1. /\ Len(table[r]) = Len(table[f])
      /\ kind' = [kind EXCEPT ![r] = "sequence"]
      /\ text' = [text EXCEPT ![r] = text[f]]
      /\ written' = [written EXCEPT ![r] = written[f]]
      /\ call' = NoCall /\ UNCHANGED <<refs, prefix, table, kv>>
  BY DEF Forked, poolVars
<1>2. /\ \A q : ~HeldByCall(q)
      /\ \A s : Filling(s) => s = r
      /\ f # r
  BY <1>0, CallTypes DEF Doing, Filling, StructureInv, CallFacts, ForkFacts
<1>3. /\ CallFacts' /\ call' \in Calls \cup {NoCall}
      /\ \A p : ~HeldByCall(p)'
      /\ \A s : ~Filling(s)'
  BY <1>1, NoCallLeft
<1>4. SharingTypes
  BY DEF StructureInv
<1>5. SharingTypes'
  BY <1>1, <1>3, <1>4 DEF SharingTypes, Kinds
<1>6. \A p \in Page : Counted(p)'
  BY <1>1, <1>2, <1>3, SameCounts DEF StructureInv
<1>7. /\ text'[r] = text[f] /\ written'[r] = written[f] /\ kind'[r] = "sequence"
      /\ \A s \in Request : s # r =>
            text'[s] = text[s] /\ written'[s] = written[s] /\ kind'[s] = kind[s]
  BY <1>1, <1>4 DEF SharingTypes
<1>8. ASSUME NEW s \in Request PROVE TableSound(s)'
  <2>1. CASE s # r
    BY <1>1, <1>2, <1>7, <2>1, SameTable
  <2>2. CASE s = r
    <3>1. TableSound(f) /\ TableSound(r) /\ ~Filling(f)
      BY <1>2 DEF StructureInv
    <3> QED BY <1>1, <1>7, <2>2, <3>1 DEF TableSound
  <2> QED BY <2>1, <2>2
<1> QED BY <1>3, <1>5, <1>6, <1>8 DEF StructureInv

\* attach_cached_prefix begins, on an empty sequence.
LEMMA BeginAttachSound ==
    ASSUME StructureInv, NEW r \in Request, NEW want \in Text, BeginAttach(r, want)
    PROVE  StructureInv'
<1> DEFINE c == [op |-> "attach", who |-> r, want |-> want]
<1>1. /\ call = NoCall /\ kind[r] = "sequence" /\ text[r] = <<>> /\ call' = c
      /\ UNCHANGED <<refs, prefix, kind, table, text, written, kv>>
  BY DEF BeginAttach, poolVars, requests
<1>2. c \in Calls /\ c.op = "attach" /\ c.who = r /\ c.want = want
  BY CallBuilt
<1> HIDE DEF c
<1>3. /\ call' \in Calls \cup {NoCall}
      /\ \A o : Doing(o)' <=> o = "attach"
  BY <1>1, <1>2, NextOp
<1>4. (\A p : ~HeldByCall(p)) /\ (\A s : ~Filling(s)) /\ (\A p : ~HeldByCall(p)')
  BY <1>1, <1>2, Idle DEF HeldByCall
<1>5. SharingTypes'
  BY <1>1, <1>3 DEF StructureInv, SharingTypes
<1>6. \A p \in Page : Counted(p)'
  BY <1>1, <1>4, SameCounts DEF StructureInv
<1>7. \A s \in Request : TableSound(s)'
  BY <1>1, <1>4, SameTable
<1>8. AttachFacts'
  <2>1. Len(text[r]) = 0 /\ Len(table[r]) = 0
    <3>1. Len(table[r]) = PagesFor(Len(text[r]))
      BY <1>1, <1>4 DEF StructureInv, TableSound
    <3>2. Len(text[r]) = 0
      BY <1>1
    <3> QED BY <3>1, <3>2, PagesForNone
  <2>2. 0 * BlockSize = 0
    BY BlockSizePositive
  <2>3. SubSeq(want, 1, 0) = <<>>
    BY SubSeqEmpty
  <2>4. Len(want) \in Nat
    BY TextIs, LenProperties
  <2>5. /\ Len(text'[r]) = 0 /\ Len(table'[r]) * BlockSize = 0 /\ 1..Len(table'[r]) = {}
        /\ SubSeq(want, 1, Len(text'[r])) = text'[r]
    <3>1. text'[r] = <<>> /\ Len(text'[r]) = 0 /\ Len(table'[r]) = 0
      BY <1>1, <2>1
    <3>2. Len(table'[r]) * BlockSize = 0
      BY <2>2, <3>1
    <3>3. 1..Len(table'[r]) = {}
      BY <3>1
    <3>4. SubSeq(want, 1, Len(text'[r])) = text'[r]
      BY <2>3, <3>1
    <3> QED BY <3>1, <3>2, <3>3, <3>4
  <2> QED BY <1>1, <1>2, <2>4, <2>5 DEF AttachFacts
<1>9. CallFacts'
  BY <1>3, <1>8 DEF CallFacts, AppendFacts, CopyFacts, LifecycleFacts, ForkFacts, HitFacts
<1> QED BY <1>5, <1>6, <1>7, <1>9 DEF StructureInv

\* The reference a call takes or gives back besides the table.
LEMMA CallCounts ==
    ASSUME StructureInv, UNCHANGED table, refs' \in [Page -> Nat],
           \A q \in Page : refs'[q] + InCall(q) = refs[q] + InCall(q)'
    PROVE  \A q \in Page : Counted(q)'
<1> SUFFICES ASSUME NEW q \in Page PROVE Counted(q)'
  OBVIOUS
<1>1. IsFiniteSet(Sharers(q)) /\ Cardinality(Sharers(q)) \in Nat
      /\ refs[q] = Cardinality(Sharers(q)) + InCall(q)
  BY FS_CardinalityType DEF StructureInv, Counted
<1>2. Sharers(q)' = Sharers(q)
  BY DEF Sharers
<1>3. InCall(q) \in Nat /\ InCall(q)' \in Nat /\ refs'[q] \in Nat
  BY DEF InCall
<1> DEFINE n == Cardinality(Sharers(q))
           a == InCall(q)
           b == InCall(q)'
           k == refs'[q]
<1>4. k = n + b
  <2>1. n \in Nat /\ a \in Nat /\ b \in Nat /\ k \in Nat /\ k + a = n + a + b
    BY <1>1, <1>3
  <2> HIDE DEF n, a, b, k
  <2> QED BY <2>1
<1> QED BY <1>1, <1>2, <1>4 DEF Counted

\* lookup of the next whole block.
LEMMA LookupSound ==
    ASSUME StructureInv, Lookup
    PROVE  StructureInv'
<1>0. Doing("attach") /\ call.who \in Request /\ call.want \in Text
  BY CallTypes DEF Lookup, Doing
<1> PICK r \in Request : r = call.who
  BY <1>0
<1> PICK want \in Text : want = call.want
  BY <1>0
<1>1. /\ \A q : ~HeldByCall(q)
      /\ \A s : ~Filling(s)
      /\ 0 \in 0..Len(table[r])
  BY <1>0, CallTypes, RequestTypes DEF Doing, Filling
<1>2. CASE Fails(r, {}, 0, kv)
  BY <1>1, <1>2, FailsEmptyHanded
<1>3. CASE /\ \E p \in Hits :
                /\ Retain(p)
                /\ call' = [op |-> "hit", who |-> call.who, want |-> call.want, page |-> p]
           /\ UNCHANGED <<requests, kv>>
  <2>1. PICK p \in Hits : /\ Retain(p)
                          /\ call' = [op |-> "hit", who |-> call.who, want |-> call.want, page |-> p]
    BY <1>3
  <2> DEFINE n == Len(text[r]) + BlockSize
  <2>2. p \in Page /\ n <= Len(want) /\ prefix[p] = SubSeq(want, 1, n)
    BY DEF Hits, Published
  <2> DEFINE c == [op |-> "hit", who |-> r, want |-> want, page |-> p]
  <2>3. c \in Calls /\ c.op = "hit" /\ c.who = r /\ c.want = want /\ c.page = p /\ call' = c
    BY <2>1, <2>2, CallBuilt
  <2> HIDE DEF c
  <2>4. /\ call' \in Calls \cup {NoCall} /\ call' # NoCall
        /\ \A o : Doing(o)' <=> o = "hit"
    BY <2>3, NextOp
  <2>5. \A q : HeldByCall(q)' <=> q = p
    BY <2>3, <2>4 DEF HeldByCall
  <2>6. UNCHANGED <<kind, table, text, written, prefix>> /\ refs' = [refs EXCEPT ![p] = refs[p] + 1]
    BY <1>3, <2>1 DEF requests, Retain
  <2>7. refs \in [Page -> Nat] /\ refs' \in [Page -> Nat]
    BY <2>2, <2>6 DEF StructureInv, SharingTypes
  <2>8. SharingTypes'
    BY <2>4, <2>6, <2>7 DEF StructureInv, SharingTypes
  <2>9. \A q \in Page : Counted(q)'
    <3>1. ASSUME NEW q \in Page PROVE refs'[q] + InCall(q) = refs[q] + InCall(q)'
      <4>1. InCall(q) = 0 /\ InCall(q)' = IF q = p THEN 1 ELSE 0
        BY <1>1, <2>5 DEF InCall
      <4>2. refs'[q] = IF q = p THEN refs[q] + 1 ELSE refs[q]
        BY <2>6, <2>7
      <4>3. refs[q] \in Nat
        BY <2>7
      <4> QED BY <4>1, <4>2, <4>3
    <3> QED BY <2>2, <2>6, <2>7, <3>1, CallCounts
  <2>10. \A s \in Request : TableSound(s)'
    BY <1>1, <2>6, SameTable
  <2>11. AttachFacts' /\ HitFacts'
    <3>1. AttachFacts
      BY DEF StructureInv, CallFacts
    <3> QED BY <1>0, <2>2, <2>3, <2>6, <3>1 DEF AttachFacts, HitFacts
  <2>12. CallFacts'
    BY <2>4, <2>11 DEF CallFacts, AppendFacts, CopyFacts, LifecycleFacts, ForkFacts
  <2> QED BY <2>8, <2>9, <2>10, <2>12 DEF StructureInv
<1> QED BY <1>2, <1>3 DEF Lookup

\* The page that was found is not in the table yet: it holds a longer prefix
\* than any page there.
LEMMA HitIsNew ==
    ASSUME StructureInv, Doing("hit")
    PROVE  /\ call.who \in Request /\ call.page \in Page /\ call.want \in Text
           /\ Len(text[call.who]) + BlockSize \in Nat
           /\ Len(text[call.who]) + BlockSize <= Len(call.want)
           /\ Len(text[call.who]) + BlockSize = (Len(table[call.who]) + 1) * BlockSize
           /\ prefix[call.page] = SubSeq(call.want, 1, Len(text[call.who]) + BlockSize)
           /\ call.page \notin ToSet(table[call.who])
<1>0. call.who \in Request /\ call.page \in Page /\ call.want \in Text
  BY CallTypes DEF Doing
<1> PICK r \in Request : r = call.who
  BY <1>0
<1> PICK want \in Text : want = call.want
  BY <1>0
<1> DEFINE l == Len(table[r])
           t == Len(text[r])
           n == t + BlockSize
<1>1. /\ table[r] \in Seq(Page) /\ l \in Nat /\ t \in Nat /\ Len(want) \in Nat
      /\ BlockSize \in Nat \ {0}
  BY RequestTypes, BlockSizePositive, TextIs, LenProperties
<1>2. /\ t = l * BlockSize
      /\ \A j \in 1..l : prefix[table[r][j]] = SubSeq(want, 1, j * BlockSize)
      /\ n <= Len(want) /\ prefix[call.page] = SubSeq(want, 1, n)
  BY DEF StructureInv, CallFacts, AttachFacts, HitFacts
<1>3. n \in Nat /\ n = (l + 1) * BlockSize
  BY <1>1, <1>2, NextBlock
<1>4. ASSUME NEW j \in 1..l, table[r][j] = call.page PROVE FALSE
  <2> DEFINE m == j * BlockSize
  <2>1. m <= t /\ m \in Nat
    <3>1. j \in Nat /\ j <= l /\ l \in Nat /\ BlockSize \in Nat
      BY <1>1
    <3>2. m <= l * BlockSize /\ m \in Nat
      BY <3>1, TimesMonotone
    <3> QED BY <1>2, <3>2
  <2>2. m \in 0..Len(want) /\ n \in 0..Len(want) /\ m # n
    <3>1. t \in Nat /\ Len(want) \in Nat /\ BlockSize \in Nat \ {0} /\ t + BlockSize <= Len(want)
      BY <1>1, <1>2
    <3> HIDE DEF m, t
    <3> QED BY <2>1, <3>1
  <2>3. SubSeq(want, 1, m) = SubSeq(want, 1, n)
    BY <1>2, <1>4
  <2> HIDE DEF m, n
  <2>4. Len(SubSeq(want, 1, m)) = m /\ Len(SubSeq(want, 1, n)) = n
    BY <2>2, CutText
  <2> QED BY <2>2, <2>3, <2>4
<1>5. call.page \notin ToSet(table[r])
  BY <1>1, <1>4, InTable
<1> QED BY <1>0, <1>2, <1>3, <1>5

\* append_cached_full_block.
LEMMA AttachPageSound ==
    ASSUME StructureInv, AttachPage
    PROVE  StructureInv'
<1>0. Doing("hit") /\ call.who \in Request /\ call.page \in Page /\ call.want \in Text
  BY HitIsNew DEF AttachPage
<1> PICK r \in Request : r = call.who
  BY <1>0
<1> PICK want \in Text : want = call.want
  BY <1>0
<1> PICK p \in Page : p = call.page
  BY <1>0
<1> DEFINE n == Len(text[r]) + BlockSize
<1>1. /\ \A q : HeldByCall(q) <=> q = p
      /\ \A s : ~Filling(s)
      /\ \A o : Doing(o) <=> o = "hit"
      /\ 0 \in 0..Len(table[r]) /\ Len(table[r]) \in Nat
  BY <1>0, CallTypes, RequestTypes DEF Doing, Filling
<1>2. /\ n \in Nat /\ n <= Len(want) /\ n = (Len(table[r]) + 1) * BlockSize
      /\ prefix[p] = SubSeq(want, 1, n) /\ p \notin ToSet(table[r])
  BY <1>0, HitIsNew
<1>3. CASE Fails(r, {p}, 0, kv)
  <2>1. {p} \in SUBSET Page /\ (\A q \in Page : q \in {p} <=> HeldByCall(q))
        /\ (\A q \in {p} : q \notin ToSet(table[r])) /\ call.who = r
    BY <1>1, <1>2
  <2> QED BY <1>1, <1>3, <2>1, FailsSound
<1>4. CASE /\ Retain(p)
           /\ table' = [table EXCEPT ![r] = Append(table[r], p)]
           /\ text' = [text EXCEPT ![r] = SubSeq(want, 1, n)]
           /\ written' = [written EXCEPT ![r] = n]
           /\ call' = [call EXCEPT !.op = "attached"]
           /\ UNCHANGED <<kind, kv>>
  <2>1. /\ call' \in Calls /\ call'.op = "attached"
        /\ call'.who = r /\ call'.want = want /\ call'.page = p
    <3>1. call \in [op : {"hit", "attached"}, who : Request, want : Text, page : Page]
      BY <1>0 DEF StructureInv, SharingTypes, Calls, Doing
    <3>2. call' \in [op : {"hit", "attached"}, who : Request, want : Text, page : Page]
      BY <1>4, <3>1
    <3> QED BY <1>4, <3>1, <3>2 DEF Calls
  <2>2. /\ call' \in Calls \cup {NoCall} /\ call' # NoCall
        /\ \A o : Doing(o)' <=> o = "attached"
    BY <2>1, NoCallIsNone DEF Doing
  <2>3. \A q : HeldByCall(q)' <=> q = p
    BY <2>1, <2>2 DEF HeldByCall
  <2>4. refs' = [refs EXCEPT ![p] = refs[p] + 1] /\ prefix' = prefix
    BY <1>4 DEF Retain
  <2>5. /\ refs' \in [Page -> Nat]
        /\ table' \in [Request -> Seq(Page)]
        /\ \A s \in Request : s # r => table'[s] = table[s]
        /\ Len(table'[r]) = Len(table[r]) + 1
        /\ \A j \in 1..Len(table[r]) : table'[r][j] = table[r][j]
        /\ table'[r][Len(table[r]) + 1] = p
        /\ IsInjective(table'[r])
        /\ \A q \in Page : Counted(q)'
    <3>1. \A q \in Page : HeldByCall(q)' <=> HeldByCall(q)
      BY <1>1, <2>3
    <3> HIDE DEF n
    <3> QED BY <1>2, <1>4, <2>4, <3>1, ExtendSound
  <2>6. SubSeq(want, 1, n) \in Text /\ Len(SubSeq(want, 1, n)) = n
    <3>1. n \in 0..Len(want)
      <4>1. Len(want) \in Nat
        BY TextIs, LenProperties
      <4> QED BY <1>2, <4>1
    <3> HIDE DEF n
    <3> QED BY <3>1, CutText
  <2>7. /\ text'[r] = SubSeq(want, 1, n) /\ text' \in [Request -> Text]
        /\ written'[r] = n /\ written' \in [Request -> Nat]
        /\ \A s \in Request : s # r => text'[s] = text[s] /\ written'[s] = written[s]
    <3>1. text \in [Request -> Text] /\ written \in [Request -> Nat]
      BY DEF StructureInv, SharingTypes
    <3> HIDE DEF n
    <3> QED BY <1>2, <1>4, <2>6, <3>1
  <2> HIDE DEF n
  <2>8. SharingTypes'
    BY <1>4, <2>2, <2>4, <2>5, <2>7 DEF StructureInv, SharingTypes
  <2>9. AttachFacts
    BY DEF StructureInv, CallFacts
  <2>10. ASSUME NEW s \in Request PROVE TableSound(s)'
    <3>1. CASE s # r
      BY <1>1, <1>4, <2>5, <2>7, <3>1, SameTable
    <3>2. CASE s = r
      <4>1. PagesFor((Len(table[r]) + 1) * BlockSize) = Len(table[r]) + 1
        BY <1>1, PagesForWhole
      <4>2. kind'[r] # "none"
        BY <1>0, <1>4, <2>9 DEF AttachFacts
      <4> QED BY <1>2, <2>5, <2>6, <2>7, <3>2, <4>1, <4>2 DEF TableSound
    <3> QED BY <3>1, <3>2
  <2>11. AttachFacts'
    <3>1. /\ kind[r] = "sequence"
          /\ \A j \in 1..Len(table[r]) : prefix[table[r][j]] = SubSeq(want, 1, j * BlockSize)
      BY <1>0, <2>9 DEF AttachFacts
    <3>2. \A j \in 1..Len(table'[r]) : j \in 1..Len(table[r]) \/ j = Len(table[r]) + 1
      BY <1>1, <2>5
    <3>3. \A j \in 1..Len(table'[r]) : prefix'[table'[r][j]] = SubSeq(want, 1, j * BlockSize)
      BY <1>2, <2>4, <2>5, <3>1, <3>2
    <3>4. Len(text'[r]) = n /\ text'[r] = SubSeq(want, 1, n) /\ kind'[r] = "sequence"
      BY <1>4, <2>6, <2>7, <3>1
    <3>5. Len(text'[r]) <= Len(want) /\ Len(text'[r]) = Len(table'[r]) * BlockSize
      BY <1>2, <2>5, <3>4
    <3> QED BY <2>1, <3>3, <3>4, <3>5 DEF AttachFacts
  <2>12. CallFacts'
    BY <2>2, <2>11 DEF CallFacts, AppendFacts, CopyFacts, LifecycleFacts, ForkFacts, HitFacts
  <2> QED BY <2>5, <2>8, <2>10, <2>12 DEF StructureInv
<1>5. \/ /\ Retain(p)
         /\ table' = [table EXCEPT ![r] = Append(table[r], p)]
         /\ text' = [text EXCEPT ![r] = SubSeq(want, 1, n)]
         /\ written' = [written EXCEPT ![r] = n]
         /\ call' = [call EXCEPT !.op = "attached"]
         /\ UNCHANGED <<kind, kv>>
      \/ Fails(r, {p}, 0, kv)
  BY DEF AttachPage
<1> QED BY <1>3, <1>4, <1>5

\* The handle of lookup is dropped.
LEMMA FreeLookupSound ==
    ASSUME StructureInv, FreeLookup
    PROVE  StructureInv'
<1>0. Doing("attached") /\ call.who \in Request /\ call.page \in Page /\ call.want \in Text
  BY CallTypes DEF FreeLookup, Doing
<1> PICK r \in Request : r = call.who
  BY <1>0
<1> PICK want \in Text : want = call.want
  BY <1>0
<1> PICK p \in Page : p = call.page
  BY <1>0
<1>1. /\ \A q : HeldByCall(q) <=> q = p
      /\ \A s : ~Filling(s)
  BY <1>0, CallTypes DEF Doing, Filling
<1> DEFINE c == [op |-> "attach", who |-> r, want |-> want]
<1>2. /\ call' = c /\ UNCHANGED <<kind, table, text, written, prefix>>
      /\ refs[p] > 0
      /\ refs' = [q \in Page |-> IF q \in {p} THEN refs[q] - 1 ELSE refs[q]]
  BY DEF FreeLookup, GiveBack, Release, requests
<1>3. c \in Calls /\ c.op = "attach" /\ c.who = r /\ c.want = want
  BY CallBuilt
<1> HIDE DEF c
<1>4. /\ call' \in Calls \cup {NoCall}
      /\ \A o : Doing(o)' <=> o = "attach"
  BY <1>2, <1>3, NextOp
<1>5. \A q : ~HeldByCall(q)'
  BY <1>2, <1>3 DEF HeldByCall
<1>6. refs \in [Page -> Nat] /\ refs' \in [Page -> Nat]
  BY <1>2 DEF StructureInv, SharingTypes
<1>7. SharingTypes'
  BY <1>2, <1>4, <1>6 DEF StructureInv, SharingTypes
<1>8. \A q \in Page : Counted(q)'
  <2>1. ASSUME NEW q \in Page PROVE refs'[q] + InCall(q) = refs[q] + InCall(q)'
    <3>1. InCall(q) = (IF q = p THEN 1 ELSE 0) /\ InCall(q)' = 0
      BY <1>1, <1>5 DEF InCall
    <3>2. refs'[q] = (IF q = p THEN refs[q] - 1 ELSE refs[q]) /\ refs[q] \in Nat
      BY <1>2, <1>6
    <3> QED BY <3>1, <3>2
  <2> QED BY <1>2, <1>6, <2>1, CallCounts
<1>9. \A s \in Request : TableSound(s)'
  BY <1>1, <1>2, SameTable
<1>10. AttachFacts'
  <2>1. AttachFacts
    BY DEF StructureInv, CallFacts
  <2> QED BY <1>0, <1>2, <1>3, <2>1 DEF AttachFacts
<1>11. CallFacts'
  BY <1>4, <1>10 DEF CallFacts, AppendFacts, CopyFacts, LifecycleFacts, ForkFacts, HitFacts
<1> QED BY <1>7, <1>8, <1>9, <1>11 DEF StructureInv

\* attach_cached_prefix returns.
LEMMA AttachedSound ==
    ASSUME StructureInv, Attached
    PROVE  StructureInv'
<1>1. Doing("attach") /\ call' = NoCall
      /\ UNCHANGED <<refs, prefix, kind, table, text, written, kv>>
  BY DEF Attached, poolVars, requests
<1>2. (\A q : ~HeldByCall(q)) /\ \A s : ~Filling(s)
  BY <1>1, CallTypes DEF Doing, Filling
<1>3. SharingTypes
  BY DEF StructureInv
<1> QED BY <1>1, <1>2, <1>3, QuietSound DEF SharingTypes

\* Initially.
LEMMA StructureInit ==
    ASSUME Init
    PROVE  StructureInv
<1>1. /\ refs = [p \in Page |-> 0] /\ prefix = [p \in Page |-> NoPrefix]
      /\ kind = [r \in Request |-> "none"] /\ table = [r \in Request |-> <<>>]
      /\ text = [r \in Request |-> <<>>] /\ written = [r \in Request |-> 0] /\ call = NoCall
  BY DEF Init, PoolInit
<1>2. SharingTypes
  BY <1>1, EmptyText DEF SharingTypes, Kinds
<1>3. ASSUME NEW p \in Page PROVE Counted(p)
  <2>1. \A r \in Request : ToSet(table[r]) = {}
    BY <1>1 DEF ToSet
  <2>2. Sharers(p) = {}
    BY <2>1 DEF Sharers
  <2>3. InCall(p) = 0
    BY <1>1 DEF InCall, HeldByCall
  <2> QED BY <1>1, <2>2, <2>3, FS_EmptySet DEF Counted
<1>4. ASSUME NEW r \in Request PROVE TableSound(r)
  BY <1>1, PagesForNone DEF TableSound, IsInjective
<1>5. CallFacts
  BY <1>1 DEF CallFacts, AppendFacts, CopyFacts, LifecycleFacts, ForkFacts, AttachFacts, HitFacts, Doing
<1> QED BY <1>2, <1>3, <1>4, <1>5 DEF StructureInv

\* Every step of the callers and of the calls.
LEMMA StructureStep ==
    ASSUME StructureInv, [Next]_vars
    PROVE  StructureInv'
<1>1. CASE UNCHANGED vars
  BY <1>1 DEF vars, poolVars, requests, StructureInv, SharingTypes, Counted, Sharers, InCall, HeldByCall,
     TableSound, Filling, CallFacts, AppendFacts, CopyFacts, LifecycleFacts, ForkFacts, AttachFacts,
     HitFacts, Doing, IsLifecycle
<1>2. ASSUME NEW r \in Request, NEW k \in {"sequence", "new"}, Open(r, k) PROVE StructureInv'
  BY <1>2, OpenSound
<1>3. ASSUME NEW r \in Request, Close(r) PROVE StructureInv'
  BY <1>3, CloseSound
<1>4. ASSUME NEW r \in Request, NEW count \in 1..MaxTokens,
             AppendTokens(r, count) \/ Prefill(r, count)
      PROVE  StructureInv'
  BY <1>4, BeginAppendSound DEF AppendTokens, Prefill
<1>5. ASSUME NEW r \in Request, AppendWithCopy(r) PROVE StructureInv'
  BY <1>5, AppendWithCopySound
<1>6. ASSUME NEW r \in Request, Write(r) PROVE StructureInv'
  BY <1>6, WriteSound
<1>7. ASSUME NEW r \in Request, NEW from \in Request, BeginFork(from, r) PROVE StructureInv'
  BY <1>7, BeginForkSound
<1>8. ASSUME NEW r \in Request, NEW l \in DOMAIN table[r], PublishBlock(r, l) PROVE StructureInv'
  BY <1>8, PublishSound
<1>9. ASSUME NEW r \in Request, NEW want \in Text, BeginAttach(r, want) PROVE StructureInv'
  BY <1>9, BeginAttachSound
<1> QED BY <1>1, <1>2, <1>3, <1>4, <1>5, <1>6, <1>7, <1>8, <1>9, GrowSound, GrownSound, CopySound,
        ComputeSound, AttendSound, ShareSound, ForkedSound, LookupSound, AttachPageSound,
        FreeLookupSound, AttachedSound DEF Next

-----------------------------------------------------------------------------

\* The structure of tables, counts and calls is kept by every behaviour.
THEOREM StructureInvariant == Spec => []StructureInv
<1>1. Init => StructureInv
  BY StructureInit
<1>2. StructureInv /\ [Next]_vars => StructureInv'
  BY StructureStep
<1> QED BY <1>1, <1>2, PTL DEF Spec

\* The reference count of every page is the number of tables and calls that
\* refer to it, for any number of requests and pages.
THEOREM RefsCountTablesHolds == Spec => []RefsCountTables
<1>1. StructureInv => RefsCountTables
  BY DEF StructureInv, Counted, InCall, RefsCountTables
<1> QED BY <1>1, StructureInvariant, PTL

\* Between calls the table of a request has the pages its tokens need.
THEOREM TablesCoverTokensHolds == Spec => []TablesCoverTokens
<1>1. StructureInv => TablesCoverTokens
  <2> SUFFICES ASSUME StructureInv, call = NoCall, NEW r \in Request
               PROVE  /\ Len(text[r]) <= Len(table[r]) * BlockSize
                      /\ Len(table[r]) * BlockSize < Len(text[r]) + BlockSize
    BY DEF TablesCoverTokens
  <2>1. Len(table[r]) = PagesFor(Len(text[r])) /\ Len(text[r]) \in Nat
    BY Idle, RequestTypes DEF StructureInv, TableSound
  <2> QED BY <2>1, PagesForBounds
<1> QED BY <1>1, StructureInvariant, PTL

-----------------------------------------------------------------------------
(* Contents: every step keeps ContentInv.                                  *)

\* Every token of a request has a page of its table.
LEMMA TokenPage ==
    ASSUME StructureInv, NEW r \in Request
    PROVE  /\ PagesFor(Len(text[r])) <= Len(table[r])
           /\ \A i \in 1..Len(text[r]) :
                /\ i \in Nat \ {0}
                /\ BlockNo(i) \in 1..PagesFor(Len(text[r]))
                /\ BlockNo(i) \in 1..Len(table[r])
                /\ PageOf(r, i) = table[r][BlockNo(i)]
                /\ PageOf(r, i) \in Page
                /\ PageOf(r, i) \in ToSet(table[r])
                /\ OffsetOf(i) \in 0..BlockSize - 1
<1>1. /\ table[r] \in Seq(Page) /\ Len(table[r]) \in Nat /\ Len(text[r]) \in Nat
      /\ PagesFor(Len(text[r])) \in Nat
  BY RequestTypes
<1>2. PagesFor(Len(text[r])) <= Len(table[r])
  <2>1. CASE ~Filling(r)
    BY <1>1, <2>1 DEF StructureInv, TableSound
  <2>2. CASE Doing("append") /\ call.who = r
    BY <2>2 DEF StructureInv, CallFacts, AppendFacts
  <2>3. CASE Doing("fork") /\ call.who = r
    <3>1. text[r] = <<>>
      BY <2>3 DEF StructureInv, CallFacts, ForkFacts, TableSound
    <3>2. Len(text[r]) = 0
      BY <3>1
    <3> QED BY <1>1, <3>2, PagesForNone
  <2> QED BY <2>1, <2>2, <2>3 DEF Filling
<1>3. ASSUME NEW i \in 1..Len(text[r])
      PROVE  /\ i \in Nat \ {0}
             /\ BlockNo(i) \in 1..PagesFor(Len(text[r]))
             /\ BlockNo(i) \in 1..Len(table[r])
             /\ PageOf(r, i) = table[r][BlockNo(i)]
             /\ PageOf(r, i) \in Page
             /\ PageOf(r, i) \in ToSet(table[r])
             /\ OffsetOf(i) \in 0..BlockSize - 1
  <2>1. i \in Nat \ {0}
    BY <1>1
  <2>2. BlockNo(i) \in 1..PagesFor(Len(text[r]))
    BY <1>1, TokenHasPage
  <2>3. BlockNo(i) \in 1..Len(table[r])
    BY <1>1, <1>2, <2>2
  <2>4. PageOf(r, i) = table[r][BlockNo(i)]
    BY DEF PageOf, BlockNo
  <2>5. table[r][BlockNo(i)] \in Page /\ table[r][BlockNo(i)] \in ToSet(table[r])
    BY <1>1, <2>3, InTable, LenProperties
  <2> QED BY <2>1, <2>2, <2>3, <2>4, <2>5, Location
<1> QED BY <1>2, <1>3

\* The page of a token that is not written is private.
LEMMA ReservedPrivate ==
    ASSUME StructureInv, NEW r \in Request, WrittenSound(r),
           NEW i \in written[r] + 1..Len(text[r])
    PROVE  /\ i \in 1..Len(text[r])
           /\ Private(PageOf(r, i))
<1>1. /\ Len(table[r]) \in Nat /\ Len(text[r]) \in Nat /\ written[r] \in Nat
  BY RequestTypes
<1>2. i \in 1..Len(text[r]) /\ written[r] < i
  BY <1>1
<1>3. refs[PageOf(r, i)] = 1
  BY DEF WrittenSound, ReservedIsAlone
<1>4. ~Forking(r)
  <2>1. ASSUME Forking(r) PROVE FALSE
    <3>1. text[r] = <<>>
      BY <2>1 DEF StructureInv, CallFacts, ForkFacts, TableSound, Forking
    <3>2. Len(text[r]) = 0
      BY <3>1
    <3> QED BY <1>2, <3>2
  <2> QED BY <2>1
<1>5. BlockNo(i) \in 1..Len(table[r]) /\ PageOf(r, i) = table[r][BlockNo(i)] /\ i \in Nat \ {0}
  BY <1>2, TokenPage
<1>6. ~(BlockNo(i) * BlockSize <= written[r])
  <2>1. BlockNo(i) <= BlockNo(i) /\ BlockNo(i) \in Nat
    BY <1>1, <1>5
  <2>2. i <= BlockNo(i) * BlockSize
    BY <1>5, <2>1, LocationBelow
  <2>3. BlockNo(i) * BlockSize \in Nat
    BY <2>1, NextBlock
  <2> QED BY <1>1, <1>2, <2>2, <2>3
<1>7. prefix[PageOf(r, i)] = NoPrefix
  BY <1>4, <1>5, <1>6 DEF WrittenSound, PublishedIsWritten
<1> QED BY <1>2, <1>3, <1>7 DEF Private

\* A step that leaves the tokens of a request alone, and of the pages they lie on
\* the contents, the prefixes and, where tokens are to be written, the counts,
\* leaves the request sound.  Its table may lose or gain pages behind them.
LEMMA Undisturbed ==
    ASSUME StructureInv, NEW s \in Request, WrittenSound(s),
           text'[s] = text[s], written'[s] = written[s],
           Len(table'[s]) \in Nat, PagesFor(Len(text[s])) <= Len(table'[s]),
           \A j \in 1..Len(table'[s]) :
                \/ /\ j \in 1..Len(table[s]) /\ table'[s][j] = table[s][j]
                   /\ kv'[table[s][j]] = kv[table[s][j]]
                   /\ prefix'[table[s][j]] = prefix[table[s][j]]
                   /\ Private(table[s][j]) =>
                        refs'[table[s][j]] = 1 \/ written[s] = Len(text[s])
                \/ j > PagesFor(Len(text[s])) /\ prefix'[table'[s][j]] = NoPrefix,
           Forking(s) => Forking(s)'
    PROVE  WrittenSound(s)'
<1>1. /\ Len(table[s]) \in Nat /\ Len(text[s]) \in Nat /\ written[s] \in Nat
      /\ PagesFor(Len(text[s])) \in Nat /\ written[s] <= Len(text[s])
  BY RequestTypes DEF StructureInv, TableSound
<1>2. ASSUME NEW i \in 1..Len(text[s])
      PROVE  /\ PageOf(s, i)' = PageOf(s, i)
             /\ kv'[PageOf(s, i)] = kv[PageOf(s, i)]
             /\ Private(PageOf(s, i)) => refs'[PageOf(s, i)] = 1 \/ written[s] = Len(text[s])
  <2>1. BlockNo(i) \in 1..PagesFor(Len(text[s])) /\ PageOf(s, i) = table[s][BlockNo(i)]
    BY TokenPage
  <2>2. BlockNo(i) \in 1..Len(table'[s]) /\ ~(BlockNo(i) > PagesFor(Len(text[s])))
    BY <1>1, <2>1
  <2>3. PageOf(s, i)' = table'[s][BlockNo(i)]
    BY DEF PageOf, BlockNo
  <2> QED BY <2>1, <2>2, <2>3
<1>3. Intact(s)'
  <2> SUFFICES ASSUME NEW i \in 1..written'[s]
               PROVE  kv'[PageOf(s, i)'][OffsetOf(i)] = text'[s][i]
    BY DEF Intact, OffsetOf
  <2>1. i \in 1..written[s] /\ i \in 1..Len(text[s])
    BY <1>1
  <2>2. kv[PageOf(s, i)][OffsetOf(i)] = text[s][i]
    BY <2>1 DEF WrittenSound, Intact
  <2> QED BY <1>2, <2>1, <2>2
<1>4. ~Forking(s)' => PublishedIsWritten(s)'
  BY DEF WrittenSound, PublishedIsWritten
<1>5. ReservedIsAlone(s)'
  <2> SUFFICES ASSUME NEW i \in written[s] + 1..Len(text[s])
               PROVE  refs'[PageOf(s, i)'] = 1
    BY DEF ReservedIsAlone
  <2>1. i \in 1..Len(text[s]) /\ Private(PageOf(s, i))
    BY ReservedPrivate
  <2>2. written[s] # Len(text[s])
    BY <1>1
  <2> QED BY <1>2, <2>1, <2>2
<1> QED BY <1>3, <1>4, <1>5 DEF WrittenSound

\* The same for a request whose table the step does not touch.
LEMMA OtherRequest ==
    ASSUME StructureInv, NEW s \in Request, WrittenSound(s),
           text'[s] = text[s], written'[s] = written[s], table'[s] = table[s],
           \A p \in ToSet(table[s]) :
                /\ kv'[p] = kv[p] /\ prefix'[p] = prefix[p]
                /\ Private(p) => refs'[p] = 1 \/ written[s] = Len(text[s]),
           Forking(s) => Forking(s)'
    PROVE  WrittenSound(s)'
<1>1. table[s] \in Seq(Page) /\ Len(table[s]) \in Nat /\ PagesFor(Len(text[s])) <= Len(table[s])
  BY RequestTypes, TokenPage
<1>2. \A j \in 1..Len(table[s]) : table[s][j] \in ToSet(table[s])
  BY <1>1, InTable
<1> QED BY <1>1, <1>2, Undisturbed

\* A request without tokens and pages.
LEMMA EmptiedRequest ==
    ASSUME NEW s, Len(text'[s]) = 0, written'[s] = 0, Len(table'[s]) = 0
    PROVE  WrittenSound(s)'
BY DEF WrittenSound, Intact, PublishedIsWritten, ReservedIsAlone

\* Published pages keep what they hold, as long as no step writes to them.
LEMMA SameCached ==
    ASSUME CachedTrue,
           \A p \in Page : prefix'[p] # NoPrefix => prefix'[p] = prefix[p] /\ kv'[p] = kv[p]
    PROVE  CachedTrue'
BY DEF CachedTrue

\* Nothing is known of a call when there is none.
LEMMA NoCallContent ==
    ASSUME call' = NoCall
    PROVE  CallContent'
<1>1. \A op : ~Doing(op)'
  BY DEF Doing
<1>2. /\ ~Doing("append")' /\ ~Doing("copy")' /\ ~Doing("attend")'
      /\ ~Doing("fork")' /\ ~Doing("attach")' /\ ~Doing("hit")' /\ ~Doing("attached")'
  BY <1>1
<1> QED BY <1>2 DEF CallContent

\* What is written where nothing is.
LEMMA BlankIs == Blank \in [0..BlockSize - 1 -> Token \cup {Junk}]
BY DEF Blank

\* Roll-back, finish and the destructors: the table keeps its first n pages, and
\* what memory differs from kv in is of a request that ends.
CutStep(r, n, held, memory) ==
    /\ n \in 0..Len(table[r]) /\ held \in SUBSET Page /\ memory \in Memory
    /\ call = NoCall \/ call.who = r
    /\ \A p \in Page : p \in held <=> HeldByCall(p)
    /\ \A p \in held : p \notin ToSet(table[r])
    /\ \A p \in Page : memory[p] = kv[p] \/ (n = 0 /\ p \in ToSet(table[r]) /\ Private(p))
    /\ GiveBack(held \cup ToSet(SubSeq(table[r], n + 1, Len(table[r]))), memory)
    /\ table' = [table EXCEPT ![r] = SubSeq(table[r], 1, n)]
    /\ n # 0 => n = PagesFor(Len(text[r])) /\ text' = text /\ written' = written
    /\ n = 0 => text' = [text EXCEPT ![r] = <<>>] /\ written' = [written EXCEPT ![r] = 0]
    /\ \A s \in Request : kind'[s] = "new" => kind[s] = "new"
    /\ n # 0 => kind'[r] # "new"
    /\ Doing("fork") => n = 0
    /\ call' = NoCall

\* They disturb nobody else: a page that is freed had no other reference.
LEMMA CutContent ==
    ASSUME StructureInv, ContentInv, NEW r \in Request, NEW n, NEW held, NEW memory,
           CutStep(r, n, held, memory)
    PROVE  ContentInv'
<1> DEFINE cut == ToSet(SubSeq(table[r], n + 1, Len(table[r])))
           kept == SubSeq(table[r], 1, n)
           pages == held \cup cut
<1>0. /\ n \in 0..Len(table[r]) /\ held \in SUBSET Page /\ memory \in Memory
      /\ call = NoCall \/ call.who = r
      /\ \A p \in Page : p \in held <=> HeldByCall(p)
      /\ \A p \in held : p \notin ToSet(table[r])
      /\ \A p \in Page : memory[p] = kv[p] \/ (n = 0 /\ p \in ToSet(table[r]) /\ Private(p))
      /\ GiveBack(pages, memory)
      /\ table' = [table EXCEPT ![r] = kept]
      /\ n # 0 => n = PagesFor(Len(text[r])) /\ text' = text /\ written' = written
      /\ n = 0 => text' = [text EXCEPT ![r] = <<>>] /\ written' = [written EXCEPT ![r] = 0]
      /\ \A s \in Request : kind'[s] = "new" => kind[s] = "new"
      /\ n # 0 => kind'[r] # "new"
      /\ Doing("fork") => n = 0
      /\ call' = NoCall
  BY DEF CutStep
<1>1. /\ SharingTypes /\ table[r] \in Seq(Page) /\ IsInjective(table[r])
      /\ Len(table[r]) \in Nat /\ n \in Nat
  BY <1>0, RequestTypes DEF StructureInv
<1>2. /\ Len(kept) = n /\ kept \in Seq(Page)
      /\ \A j \in 1..n : kept[j] = table[r][j]
      /\ \A p : p \in ToSet(table[r]) <=> p \in ToSet(kept) \/ p \in cut
      /\ \A p : ~(p \in ToSet(kept) /\ p \in cut)
  BY <1>0, <1>1, CutTable
<1>3. table'[r] = kept /\ \A s \in Request : s # r => table'[s] = table[s]
  BY <1>0, <1>1 DEF SharingTypes
<1>4. /\ refs' = [p \in Page |-> IF p \in pages THEN refs[p] - 1 ELSE refs[p]]
      /\ prefix' = prefix
      /\ kv' = [p \in Page |-> IF p \in pages /\ refs[p] = 1 /\ prefix[p] = NoPrefix
                               THEN Blank ELSE memory[p]]
  BY <1>0 DEF GiveBack, Release
<1> HIDE DEF cut, kept
<1>5. kv' \in Memory
  BY <1>0, <1>4, BlankIs DEF Memory
<1>6. ASSUME NEW p \in Page
      PROVE  /\ ~(p \in pages /\ Private(p)) => kv'[p] = memory[p]
             /\ p \notin pages => refs'[p] = refs[p]
  BY <1>0, <1>4 DEF Private
<1>7. CachedTrue'
  <2>1. ASSUME NEW p \in Page, prefix'[p] # NoPrefix PROVE prefix'[p] = prefix[p] /\ kv'[p] = kv[p]
    <3>1. ~Private(p)
      BY <1>0, <1>4, <2>1 DEF Private
    <3> QED BY <1>0, <1>4, <1>6, <3>1
  <2> QED BY <1>0, <2>1, SameCached DEF ContentInv
<1>8. ASSUME NEW p \in Page, Private(p), p \in pages \/ p \in ToSet(table[r]),
             NEW s \in Request, s # r
      PROVE  p \notin ToSet(table[s])
  <2>1. Counted(p) /\ refs[p] = 1
    BY <1>0, <1>8 DEF StructureInv, Private
  <2>2. CASE p \in held
    BY <1>0, <2>1, <2>2, CountedIs
  <2>3. CASE p \in ToSet(table[r])
    BY <1>8, <2>1, <2>3, CountedIs
  <2> QED BY <1>0, <1>2, <1>8, <2>2, <2>3
<1>9. ASSUME NEW s \in Request PROVE WrittenSound(s)'
  <2>1. WrittenSound(s)
    BY DEF ContentInv
  <2>2. CASE s # r
    <3>1. text'[s] = text[s] /\ written'[s] = written[s]
      BY <1>0, <1>1, <2>2 DEF SharingTypes
    <3>2. ASSUME NEW p \in ToSet(table[s])
          PROVE  /\ kv'[p] = kv[p] /\ prefix'[p] = prefix[p]
                 /\ Private(p) => refs'[p] = 1
      <4>1. p \in Page
        BY RequestTypes, InTable
      <4>2. Private(p) => p \notin pages /\ p \notin ToSet(table[r])
        BY <1>0, <1>8, <2>2, <4>1
      <4>3. kv'[p] = kv[p]
        BY <1>0, <1>6, <4>1, <4>2
      <4>4. Private(p) => refs'[p] = 1
        BY <1>0, <1>6, <4>1, <4>2 DEF Private
      <4> QED BY <1>0, <1>4, <4>3, <4>4
    <3>3. ~Forking(s)
      BY <1>0, <2>2 DEF Forking, Doing
    <3> QED BY <1>0, <1>3, <2>1, <2>2, <3>1, <3>2, <3>3, OtherRequest
  <2>3. CASE s = r /\ n = 0
    <3>1. text'[r] = <<>> /\ written'[r] = 0
      BY <1>0, <1>1, <2>3 DEF SharingTypes
    <3>2. Len(text'[r]) = 0 /\ Len(table'[r]) = 0
      BY <1>0, <1>2, <1>3, <2>3, <3>1
    <3> QED BY <1>0, <2>3, <3>1, <3>2, EmptiedRequest
  <2>4. CASE s = r /\ n # 0
    <3>1. ASSUME NEW j \in 1..n
          PROVE  /\ j \in 1..Len(table[r]) /\ table'[r][j] = table[r][j]
                 /\ kv'[table[r][j]] = kv[table[r][j]]
                 /\ prefix'[table[r][j]] = prefix[table[r][j]]
                 /\ Private(table[r][j]) => refs'[table[r][j]] = 1
      <4>1. j \in 1..Len(table[r]) /\ table'[r][j] = table[r][j]
        BY <1>0, <1>1, <1>2, <1>3
      <4> DEFINE p == table[r][j]
      <4>2. p \in Page /\ p \in ToSet(kept)
        BY <1>1, <1>2, <4>1, InTable, LenProperties
      <4>3. p \notin pages
        BY <1>0, <1>2, <4>2
      <4> HIDE DEF p
      <4>4. kv'[p] = kv[p] /\ prefix'[p] = prefix[p] /\ (Private(p) => refs'[p] = 1)
        BY <1>0, <1>4, <1>6, <2>4, <4>2, <4>3 DEF Private
      <4> QED BY <1>0, <4>1, <4>4 DEF p
    <3>2. /\ n = PagesFor(Len(text[r])) /\ Len(table'[r]) = n
          /\ text'[r] = text[r] /\ written'[r] = written[r]
      BY <1>0, <1>2, <1>3, <2>4
    <3>3. ~Forking(r)
      BY <1>0, <2>4 DEF Forking, Doing
    <3> QED BY <1>0, <1>1, <2>1, <2>4, <3>1, <3>2, <3>3, Undisturbed
  <2> QED BY <1>0, <2>2, <2>3, <2>4
<1>10. NewIsEmpty'
  <2> SUFFICES ASSUME NEW s \in Request, kind'[s] = "new" PROVE text'[s] = <<>>
    BY DEF NewIsEmpty
  <2>1. CASE s # r
    <3>1. kind[s] = "new" /\ text'[s] = text[s]
      BY <1>0, <1>1, <2>1 DEF SharingTypes
    <3>2. ~((Doing("compute") \/ Doing("attend")) /\ call.who = s)
      BY <1>0, <2>1 DEF Doing
    <3> QED BY <1>0, <3>1, <3>2 DEF ContentInv, NewIsEmpty
  <2>2. CASE s = r /\ n = 0
    BY <1>0, <1>1, <2>2 DEF SharingTypes
  <2>3. CASE s = r /\ n # 0
    BY <1>0, <2>3
  <2> QED BY <1>0, <2>1, <2>2, <2>3
<1> QED BY <1>0, <1>5, <1>7, <1>9, <1>10, NoCallContent DEF ContentInv

\* Every failure.
LEMMA FailsContent ==
    ASSUME StructureInv, ContentInv, NEW r \in Request, NEW keep \in 0..Len(table[r]),
           NEW held \in SUBSET Page, NEW memory \in Memory,
           call = NoCall \/ call.who = r,
           \A p \in Page : p \in held <=> HeldByCall(p),
           \A p \in held : p \notin ToSet(table[r]),
           keep = 0 \/ keep = PagesFor(Len(text[r])),
           \A p \in Page : memory[p] = kv[p]
                \/ (IsLifecycle(r) /\ p \in ToSet(table[r]) /\ Private(p)),
           Doing("fork") => keep = 0,
           Fails(r, held, keep, memory)
    PROVE  ContentInv'
<1> DEFINE n == IF IsLifecycle(r) THEN 0 ELSE keep
<1>1. kind \in [Request -> Kinds]
  BY DEF StructureInv, SharingTypes
<1>2. n \in 0..Len(table[r]) /\ (n # 0 => n = keep) /\ (IsLifecycle(r) => n = 0)
      /\ (keep = 0 => n = 0)
  OBVIOUS
<1>3. /\ GiveBack(held \cup ToSet(SubSeq(table[r], n + 1, Len(table[r]))), memory)
      /\ table' = [table EXCEPT ![r] = SubSeq(table[r], 1, n)]
      /\ n # 0 => text' = text /\ written' = written
      /\ n = 0 => text' = [text EXCEPT ![r] = <<>>] /\ written' = [written EXCEPT ![r] = 0]
      /\ kind' = IF IsLifecycle(r) THEN [kind EXCEPT ![r] = "none"] ELSE kind
      /\ call' = NoCall
  BY DEF Fails
<1>4. /\ \A s \in Request : kind'[s] = "new" => kind[s] = "new"
      /\ kind'[r] # "new"
  BY <1>1, <1>3 DEF IsLifecycle
<1>5. \A p \in Page : memory[p] = kv[p] \/ (n = 0 /\ p \in ToSet(table[r]) /\ Private(p))
  BY <1>2
<1>6. /\ n # 0 => n = PagesFor(Len(text[r])) /\ text' = text /\ written' = written
      /\ Doing("fork") => n = 0
  BY <1>2, <1>3
<1> HIDE DEF n
<1>7. CutStep(r, n, held, memory)
  BY <1>2, <1>3, <1>4, <1>5, <1>6 DEF CutStep
<1> QED BY <1>7, CutContent

\* A failure of a call that holds no page besides the table.
LEMMA FailsEmptyHandedContent ==
    ASSUME StructureInv, ContentInv, NEW r \in Request, NEW keep \in 0..Len(table[r]),
           call = NoCall \/ call.who = r,
           \A p \in Page : ~HeldByCall(p),
           keep = 0 \/ keep = PagesFor(Len(text[r])),
           Doing("fork") => keep = 0,
           Fails(r, {}, keep, kv)
    PROVE  ContentInv'
<1> DEFINE held == {}
<1>1. held \in SUBSET Page /\ (\A p \in Page : p \in held <=> HeldByCall(p))
      /\ (\A p \in held : p \notin ToSet(table[r])) /\ Fails(r, held, keep, kv)
  OBVIOUS
<1>2. kv \in Memory /\ \A p \in Page : kv[p] = kv[p]
  BY DEF ContentInv
<1> HIDE DEF held
<1> QED BY <1>1, <1>2, FailsContent

\* finish and the destructors.
LEMMA CloseContent ==
    ASSUME StructureInv, ContentInv, NEW r \in Request, Close(r)
    PROVE  ContentInv'
<1>1. kind \in [Request -> Kinds] /\ table \in [Request -> Seq(Page)] /\ table[r] \in Seq(Page)
  BY DEF StructureInv, SharingTypes
<1> DEFINE n == 0
           held == {}
<1>2. n \in 0..Len(table[r]) /\ held \in SUBSET Page
  BY <1>1, LenProperties
<1>3. /\ SubSeq(table[r], 1, n) = <<>>
      /\ held \cup ToSet(SubSeq(table[r], n + 1, Len(table[r]))) = ToSet(table[r])
  <2>1. SubSeq(table[r], 1, Len(table[r])) = table[r]
    BY <1>1, SubSeqFull
  <2>2. n < 1 /\ n \in Int /\ 1 \in Int /\ n + 1 = 1 /\ held = {}
    OBVIOUS
  <2> HIDE DEF n, held
  <2>3. SubSeq(table[r], 1, n) = <<>>
    BY <2>2, SubSeqEmpty
  <2>4. SubSeq(table[r], n + 1, Len(table[r])) = table[r]
    BY <2>1, <2>2
  <2> QED BY <2>2, <2>3, <2>4
<1>4. /\ GiveBack(held \cup ToSet(SubSeq(table[r], n + 1, Len(table[r]))), kv)
      /\ table' = [table EXCEPT ![r] = SubSeq(table[r], 1, n)]
      /\ text' = [text EXCEPT ![r] = <<>>] /\ written' = [written EXCEPT ![r] = 0]
      /\ \A s \in Request : kind'[s] = "new" => kind[s] = "new"
      /\ call = NoCall /\ call' = NoCall
  BY <1>1, <1>3 DEF Close
<1>5. \A p \in Page : p \in held <=> HeldByCall(p)
  BY <1>4 DEF HeldByCall
<1>6. n = 0 /\ \A p \in held : p \notin ToSet(table[r])
  OBVIOUS
<1>7. kv \in Memory /\ ~Doing("fork") /\ \A p \in Page : kv[p] = kv[p]
  BY <1>4 DEF ContentInv, Doing
<1> HIDE DEF n, held
<1>8. CutStep(r, n, held, kv)
  BY <1>2, <1>4, <1>5, <1>6, <1>7 DEF CutStep
<1> QED BY <1>8, CutContent

\* No two tokens of a request have the same slot.
LEMMA SlotsDiffer ==
    ASSUME StructureInv, NEW r \in Request, NEW i \in 1..Len(text[r]), NEW k \in 1..Len(text[r]),
           PageOf(r, i) = PageOf(r, k), OffsetOf(i) = OffsetOf(k)
    PROVE  i = k
<1>1. /\ i \in Nat \ {0} /\ k \in Nat \ {0}
      /\ BlockNo(i) \in 1..Len(table[r]) /\ BlockNo(k) \in 1..Len(table[r])
      /\ table[r][BlockNo(i)] = table[r][BlockNo(k)]
  BY TokenPage
<1>2. IsInjective(table[r]) /\ DOMAIN table[r] = 1..Len(table[r])
  BY RequestTypes, LenProperties
<1>3. BlockNo(i) = BlockNo(k)
  BY <1>1, <1>2 DEF IsInjective
<1> QED BY <1>1, <1>3, LocationUnique

\* Pages that agree in every slot are the same.
LEMMA SamePage ==
    ASSUME NEW a \in [0..BlockSize - 1 -> Token \cup {Junk}],
           NEW b \in [0..BlockSize - 1 -> Token \cup {Junk}],
           \A o \in 0..BlockSize - 1 : a[o] = b[o]
    PROVE  a = b
<1>1. a = [o \in 0..BlockSize - 1 |-> a[o]] /\ b = [o \in 0..BlockSize - 1 |-> b[o]]
  OBVIOUS
<1> QED BY <1>1, Zenon

\* The tokens of r that lie in this slot and are not written.
Here(r, p, o) == {i \in written[r] + 1..Len(text[r]) : PageOf(r, i) = p /\ OffsetOf(i) = o}

\* The write of the tokens of a request that are due: all of them are in their
\* slots then, and only private pages of the request were written to.
LEMMA WithTokensIs ==
    ASSUME StructureInv, NEW r \in Request, kv \in Memory, WrittenSound(r)
    PROVE  /\ WithTokens(r) \in Memory
           /\ \A p \in Page : WithTokens(r)[p] = kv[p] \/ (p \in ToSet(table[r]) /\ Private(p))
           /\ \A i \in 1..Len(text[r]) : WithTokens(r)[PageOf(r, i)][OffsetOf(i)] = text[r][i]
<1>1. /\ text[r] \in Text /\ Len(text[r]) \in Nat /\ written[r] \in Nat
      /\ written[r] <= Len(text[r]) /\ text[r] \in Seq(Token)
  BY RequestTypes, TextIs DEF StructureInv, TableSound
<1>2. WithTokens(r) = [p \in Page |-> [o \in 0..BlockSize - 1 |->
        IF Here(r, p, o) = {} THEN kv[p][o] ELSE text[r][CHOOSE i \in Here(r, p, o) : TRUE]]]
  BY DEF WithTokens, Here
<1>3. \A p, o : \A i \in Here(r, p, o) :
        i \in 1..Len(text[r]) /\ Private(PageOf(r, i)) /\ PageOf(r, i) = p /\ OffsetOf(i) = o
  BY ReservedPrivate DEF Here
<1>4. \A p, o : Here(r, p, o) # {} =>
        \E i \in Here(r, p, o) : (CHOOSE j \in Here(r, p, o) : TRUE) = i
  OBVIOUS
<1>5. ASSUME NEW p \in Page, NEW o \in 0..BlockSize - 1
      PROVE  WithTokens(r)[p][o] =
                IF Here(r, p, o) = {} THEN kv[p][o] ELSE text[r][CHOOSE i \in Here(r, p, o) : TRUE]
  BY <1>2
<1>6. ASSUME NEW p \in Page
      PROVE  /\ WithTokens(r)[p] \in [0..BlockSize - 1 -> Token \cup {Junk}]
             /\ WithTokens(r)[p] = kv[p] \/ (p \in ToSet(table[r]) /\ Private(p))
  <2>1. kv[p] \in [0..BlockSize - 1 -> Token \cup {Junk}]
    BY DEF Memory
  <2>2. ASSUME NEW o \in 0..BlockSize - 1 PROVE WithTokens(r)[p][o] \in Token \cup {Junk}
    <3>1. CASE Here(r, p, o) = {}
      BY <1>5, <2>1, <3>1
    <3>2. CASE Here(r, p, o) # {}
      <4>1. PICK i \in Here(r, p, o) : (CHOOSE j \in Here(r, p, o) : TRUE) = i
        BY <1>4, <3>2
      <4>2. i \in 1..Len(text[r])
        BY <1>3
      <4>3. text[r][i] \in Token
        BY <1>1, <4>2, LenProperties
      <4> QED BY <1>5, <3>2, <4>1, <4>3
    <3> QED BY <3>1, <3>2
  <2>3. WithTokens(r)[p] = [o \in 0..BlockSize - 1 |-> WithTokens(r)[p][o]]
    BY <1>2
  <2>4. WithTokens(r)[p] \in [0..BlockSize - 1 -> Token \cup {Junk}]
    BY <2>2, <2>3
  <2>5. CASE \A o \in 0..BlockSize - 1 : Here(r, p, o) = {}
    <3>1. \A o \in 0..BlockSize - 1 : WithTokens(r)[p][o] = kv[p][o]
      BY <1>5, <2>5
    <3> DEFINE a == WithTokens(r)[p]
               b == kv[p]
    <3>2. a \in [0..BlockSize - 1 -> Token \cup {Junk}] /\ b \in [0..BlockSize - 1 -> Token \cup {Junk}]
          /\ \A o \in 0..BlockSize - 1 : a[o] = b[o]
      BY <2>1, <2>4, <3>1
    <3> HIDE DEF a, b
    <3>3. a = b
      BY <3>2, SamePage
    <3> QED BY <2>4, <3>3 DEF a, b
  <2>6. CASE \E o \in 0..BlockSize - 1 : Here(r, p, o) # {}
    <3>1. PICK o \in 0..BlockSize - 1 : Here(r, p, o) # {}
      BY <2>6
    <3>2. PICK i \in Here(r, p, o) : TRUE
      BY <3>1
    <3>3. i \in 1..Len(text[r]) /\ Private(p) /\ PageOf(r, i) = p
      BY <1>3
    <3>4. PageOf(r, i) \in ToSet(table[r])
      BY <3>3, TokenPage
    <3> QED BY <2>4, <3>3, <3>4
  <2> QED BY <2>5, <2>6
<1>7. WithTokens(r) \in Memory
  BY <1>2, <1>6 DEF Memory
<1>8. ASSUME NEW i \in 1..Len(text[r])
      PROVE  WithTokens(r)[PageOf(r, i)][OffsetOf(i)] = text[r][i]
  <2> DEFINE p == PageOf(r, i)
             o == OffsetOf(i)
  <2>1. p \in Page /\ o \in 0..BlockSize - 1
    BY TokenPage
  <2>2. \A k \in Here(r, p, o) : k = i
    BY <1>3, SlotsDiffer
  <2>3. CASE Here(r, p, o) # {}
    <3>1. PICK k \in Here(r, p, o) : (CHOOSE j \in Here(r, p, o) : TRUE) = k
      BY <1>4, <2>3
    <3> QED BY <1>5, <2>1, <2>2, <2>3, <3>1
  <2>4. CASE Here(r, p, o) = {}
    <3>1. i \notin written[r] + 1..Len(text[r])
      BY <2>4 DEF Here
    <3>2. i \in 1..written[r]
      BY <1>1, <3>1
    <3>3. kv[p][o] = text[r][i]
      BY <3>2 DEF WrittenSound, Intact
    <3> QED BY <1>5, <2>1, <2>4, <3>3
  <2> QED BY <2>3, <2>4
<1> QED BY <1>6, <1>7, <1>8

\* Steps that change no content: counts may change on pages others refer to.
LEMMA StillContent ==
    ASSUME StructureInv, ContentInv, kv' = kv, UNCHANGED <<prefix, table, text, written>>,
           \A p \in Page : Private(p) => refs'[p] = 1,
           \A s \in Request : Forking(s) => Forking(s)'
    PROVE  kv' \in Memory /\ CachedTrue' /\ \A s \in Request : WrittenSound(s)'
<1>1. kv' \in Memory /\ CachedTrue'
  BY SameCached DEF ContentInv
<1>2. ASSUME NEW s \in Request PROVE WrittenSound(s)'
  <2>1. WrittenSound(s)
    BY DEF ContentInv
  <2>2. \A p \in ToSet(table[s]) : p \in Page
    BY RequestTypes, InTable
  <2> QED BY <2>1, <2>2, OtherRequest
<1> QED BY <1>1, <1>2

\* Between calls a lifecycle that is new has no tokens.
LEMMA NewHasNone ==
    ASSUME ContentInv, NEW s \in Request, kind[s] = "new",
           (~Doing("compute") /\ ~Doing("attend")) \/ call.who # s
    PROVE  text[s] = <<>>
BY DEF ContentInv, NewIsEmpty

\* Constructors.
LEMMA OpenContent ==
    ASSUME StructureInv, ContentInv, NEW r \in Request, NEW k \in {"sequence", "new"}, Open(r, k)
    PROVE  ContentInv'
<1>1. /\ call = NoCall /\ call' = NoCall /\ kind[r] = "none" /\ kind' = [kind EXCEPT ![r] = k]
      /\ UNCHANGED <<refs, prefix, table, text, written, kv>>
  BY DEF Open, poolVars
<1>2. \A o : ~Doing(o)
  BY <1>1 DEF Doing
<1>3. kv' \in Memory /\ CachedTrue' /\ \A s \in Request : WrittenSound(s)'
  BY <1>1, <1>2, StillContent DEF Private, Forking
<1>4. NewIsEmpty'
  <2> SUFFICES ASSUME NEW s \in Request, kind'[s] = "new" PROVE text'[s] = <<>>
    BY DEF NewIsEmpty
  <2>1. kind \in [Request -> Kinds] /\ TableSound(r)
    BY DEF StructureInv, SharingTypes
  <2>2. CASE s = r
    BY <1>1, <2>1, <2>2 DEF TableSound
  <2>3. CASE s # r
    BY <1>1, <1>2, <2>1, <2>3, NewHasNone
  <2> QED BY <2>2, <2>3
<1> QED BY <1>1, <1>3, <1>4, NoCallContent DEF ContentInv

\* The last token of a request is on the last page of its table.
LEMMA LastToken ==
    ASSUME StructureInv, NEW r \in Request, ~Filling(r), Len(text[r]) # 0
    PROVE  /\ Len(text[r]) \in 1..Len(text[r])
           /\ PageOf(r, Len(text[r])) = Last(table[r])
           /\ BlockNo(Len(text[r])) = Len(table[r])
<1> DEFINE n == Len(text[r])
           l == Len(table[r])
           b == BlockNo(n)
<1>1. n \in Nat \ {0} /\ l \in Nat /\ l = PagesFor(n) /\ n \in 1..n
  BY RequestTypes DEF StructureInv, TableSound
<1>2. b \in 1..l /\ PageOf(r, n) = table[r][b]
  BY <1>1, TokenPage
<1>3. l * BlockSize < n + BlockSize /\ l * BlockSize \in Nat
  BY <1>1, PagesForBounds, NextBlock
<1> HIDE DEF l
<1>4. b \in Nat /\ b <= b
  BY <1>1, <1>2
<1>5. n <= b * BlockSize /\ b * BlockSize \in Nat
  BY <1>1, <1>4, LocationBelow, NextBlock
<1> HIDE DEF b, n
<1>6. ~(b < l)
  <2>1. ASSUME b < l PROVE b * BlockSize + BlockSize <= l * BlockSize
    BY <1>1, <1>4, <2>1, FewerBlocks
  <2> QED BY <1>1, <1>3, <1>5, <2>1, BlockSizePositive
<1>7. b = l
  BY <1>1, <1>2, <1>6
<1> QED BY <1>1, <1>2, <1>7 DEF b, l, n, Last

\* A tail that is not shared is the only page with room, and has one reference.
LEMMA TailAlone ==
    ASSUME StructureInv, NEW r \in Request, ~Filling(r), ~TailShared(r)
    PROVE  \A j \in 1..Len(table[r]) : j * BlockSize > Len(text[r]) => refs[table[r][j]] = 1
<1> SUFFICES ASSUME NEW j \in 1..Len(table[r]), j * BlockSize > Len(text[r])
             PROVE  refs[table[r][j]] = 1
  OBVIOUS
<1> DEFINE n == Len(text[r])
           l == Len(table[r])
<1>1. /\ n \in Nat /\ l \in Nat /\ l = PagesFor(n) /\ table[r] \in Seq(Page) /\ j \in Nat /\ j <= l
  BY RequestTypes DEF StructureInv, TableSound
<1>2. l * BlockSize < n + BlockSize /\ l * BlockSize \in Nat /\ j * BlockSize \in Nat
  BY <1>1, PagesForBounds, NextBlock
<1>3. j = l
  <2>1. ASSUME j < l PROVE FALSE
    <3> HIDE DEF l, n
    <3>1. j * BlockSize + BlockSize <= l * BlockSize
      BY <1>1, <2>1, FewerBlocks
    <3>2. j * BlockSize > n
      BY DEF n
    <3> QED BY <1>1, <1>2, <3>1, <3>2, BlockSizePositive
  <2> QED BY <1>1, <2>1
<1>4. n % BlockSize # 0
  <2>1. ASSUME n % BlockSize = 0 PROVE FALSE
    <3> DEFINE q == n \div BlockSize
    <3>1. q \in Nat /\ n = q * BlockSize + (n % BlockSize)
      BY <1>1, BlockSizePositive, Quotient
    <3>2. q * BlockSize \in Nat
      BY <3>1, NextBlock
    <3>3. n = q * BlockSize
      BY <1>1, <2>1, <3>1, <3>2
    <3> HIDE DEF q
    <3>4. PagesFor(n) = q
      BY <3>1, <3>3, PagesForWhole
    <3>5. l * BlockSize = n
      BY <1>1, <3>3, <3>4
    <3> QED BY <1>1, <1>3, <3>5
  <2> QED BY <2>1
<1>5. table[r][j] = Last(table[r]) /\ table[r][j] \in Page /\ table[r][j] \in ToSet(table[r])
  BY <1>1, <1>3, InTable, LenProperties DEF Last
<1>6. ~(refs[table[r][j]] > 1)
  BY <1>4, <1>5 DEF TailShared
<1>7. refs[table[r][j]] \in Nat /\ refs[table[r][j]] > 0
  BY <1>5, CountedIs DEF StructureInv
<1> QED BY <1>6, <1>7

\* append_tokens, prefill and the append after a check of the tail begin.
LEMMA BeginAppendContent ==
    ASSUME StructureInv, ContentInv, NEW r \in Request, NEW count \in 1..MaxTokens,
           call = NoCall, ~TailShared(r), BeginAppend(r, count)
    PROVE  ContentInv'
<1> DEFINE c == [op |-> "append", who |-> r, count |-> count, pages |-> Len(table[r])]
<1>1. call' = c /\ UNCHANGED <<refs, prefix, kind, table, text, written, kv>>
  BY DEF BeginAppend, poolVars, requests
<1>2. c \in Calls /\ c.op = "append" /\ c.who = r
  BY CallBuilt, RequestTypes
<1> HIDE DEF c
<1>3. \A o : Doing(o)' <=> o = "append"
  BY <1>1, <1>2, NextOp
<1>4. (\A o : ~Doing(o)) /\ \A s : ~Filling(s)
  BY Idle
<1>5. kv' \in Memory /\ CachedTrue' /\ \A s \in Request : WrittenSound(s)'
  BY <1>1, <1>4, StillContent DEF Private, Forking
<1>6. NewIsEmpty'
  BY <1>1, <1>4, NewHasNone DEF NewIsEmpty
<1>7. \A j \in 1..Len(table[r]) : j * BlockSize > Len(text[r]) => refs[table[r][j]] = 1
  BY <1>4, TailAlone
<1>8. CallContent'
  BY <1>1, <1>2, <1>3, <1>7 DEF CallContent
<1> QED BY <1>5, <1>6, <1>8 DEF ContentInv

\* A page is taken: it was in no table.
LEMMA TakenContent ==
    ASSUME StructureInv, ContentInv, NEW p \in Page, TakePage(p)
    PROVE  /\ kv' \in Memory
           /\ CachedTrue'
           /\ \A q \in Page : q # p => kv'[q] = kv[q] /\ refs'[q] = refs[q] /\ prefix'[q] = prefix[q]
           /\ refs'[p] = 1 /\ prefix'[p] = NoPrefix
           /\ \A s \in Request : p \notin ToSet(table[s])
<1>1. /\ refs' = [refs EXCEPT ![p] = 1]
      /\ prefix' = [prefix EXCEPT ![p] = NoPrefix]
      /\ \A s \in Request : p \notin ToSet(table[s])
      /\ kv' = [kv EXCEPT ![p] = Blank]
  BY TakenPage
<1>2. refs \in [Page -> Nat] /\ prefix \in [Page -> Prefix \cup {NoPrefix}] /\ kv \in Memory
  BY DEF StructureInv, SharingTypes, ContentInv
<1>3. /\ \A q \in Page : q # p => kv'[q] = kv[q] /\ refs'[q] = refs[q] /\ prefix'[q] = prefix[q]
      /\ refs'[p] = 1 /\ prefix'[p] = NoPrefix
  BY <1>1, <1>2 DEF Memory
<1>4. kv' \in Memory
  BY <1>1, <1>2, BlankIs DEF Memory
<1>5. CachedTrue'
  BY <1>3, SameCached DEF ContentInv
<1> QED BY <1>1, <1>3, <1>4, <1>5

\* One turn of the loop of append_tokens.
LEMMA GrowContent ==
    ASSUME StructureInv, ContentInv, Grow
    PROVE  ContentInv'
<1>0. Doing("append") /\ call.who \in Request
  BY CallTypes DEF Grow, Doing
<1> PICK r \in Request : r = call.who
  BY <1>0
<1>1. /\ \A o : Doing(o) <=> o = "append"
      /\ call # NoCall /\ (\A p : ~HeldByCall(p))
  BY <1>0, CallTypes DEF Doing
<1>2. /\ table[r] \in Seq(Page) /\ Len(table[r]) \in Nat /\ Len(text[r]) \in Nat
      /\ call.pages = PagesFor(Len(text[r])) /\ call.pages <= Len(table[r])
      /\ call.pages \in Nat
  BY <1>0, RequestTypes, CallTypes DEF StructureInv, CallFacts, AppendFacts
<1>3. CASE Fails(r, {}, call.pages, kv)
  <2> DEFINE n == call.pages
  <2>1. n \in 0..Len(table[r]) /\ n = PagesFor(Len(text[r])) /\ Fails(r, {}, n, kv)
    BY <1>2, <1>3
  <2> HIDE DEF n
  <2> QED BY <1>1, <2>1, FailsEmptyHandedContent
<1>4. CASE /\ \E p \in Page :
                /\ TakePage(p)
                /\ table' = [table EXCEPT ![r] = Append(@, p)]
           /\ UNCHANGED <<kind, text, written, call>>
  <2> PICK p \in Page : TakePage(p) /\ table' = [table EXCEPT ![r] = Append(table[r], p)]
    BY <1>4
  <2>1. /\ kv' \in Memory /\ CachedTrue'
        /\ \A q \in Page : q # p => kv'[q] = kv[q] /\ refs'[q] = refs[q] /\ prefix'[q] = prefix[q]
        /\ refs'[p] = 1 /\ prefix'[p] = NoPrefix
        /\ \A s \in Request : p \notin ToSet(table[s])
    BY TakenContent
  <2>2. /\ \A s \in Request : s # r => table'[s] = table[s]
        /\ Len(table'[r]) = Len(table[r]) + 1
        /\ \A j \in 1..Len(table[r]) : table'[r][j] = table[r][j]
        /\ table'[r][Len(table[r]) + 1] = p
    <3>1. IsInjective(table[r]) /\ table \in [Request -> Seq(Page)]
      BY RequestTypes DEF StructureInv, SharingTypes
    <3>2. table'[r] = Append(table[r], p)
      BY <3>1
    <3> QED BY <1>2, <2>1, <3>1, <3>2, ExtendedTable
  <2>3. \A j \in 1..Len(table[r]) : /\ table[r][j] \in Page /\ table[r][j] # p
    BY <1>2, <2>1, InTable, LenProperties
  <2>4. \A s \in Request : Forking(s) => Forking(s)'
    BY <1>1 DEF Forking
  <2>5. ASSUME NEW s \in Request PROVE WrittenSound(s)'
    <3>1. WrittenSound(s)
      BY DEF ContentInv
    <3>2. CASE s # r
      <4>1. \A q \in ToSet(table[s]) : q \in Page /\ q # p
        BY <2>1, RequestTypes, InTable
      <4>2. \A q \in ToSet(table[s]) : /\ kv'[q] = kv[q] /\ prefix'[q] = prefix[q]
                                       /\ Private(q) => refs'[q] = 1 \/ written[s] = Len(text[s])
        BY <2>1, <4>1 DEF Private
      <4> QED BY <1>4, <2>2, <2>4, <3>1, <3>2, <4>2, OtherRequest
    <3>3. CASE s = r
      <4>1. Len(table'[r]) \in Nat /\ PagesFor(Len(text[r])) <= Len(table'[r])
        BY <1>2, <2>2
      <4>2. ASSUME NEW j \in 1..Len(table'[r])
            PROVE  \/ /\ j \in 1..Len(table[r]) /\ table'[r][j] = table[r][j]
                      /\ kv'[table[r][j]] = kv[table[r][j]]
                      /\ prefix'[table[r][j]] = prefix[table[r][j]]
                      /\ Private(table[r][j]) =>
                            refs'[table[r][j]] = 1 \/ written[r] = Len(text[r])
                   \/ j > PagesFor(Len(text[r])) /\ prefix'[table'[r][j]] = NoPrefix
        <5>1. j \in 1..Len(table[r]) \/ j = Len(table[r]) + 1
          BY <1>2, <2>2
        <5>2. CASE j \in 1..Len(table[r])
          BY <2>1, <2>2, <2>3, <5>2 DEF Private
        <5>3. CASE j = Len(table[r]) + 1
          BY <1>2, <2>1, <2>2, <5>3
        <5> QED BY <5>1, <5>2, <5>3
      <4> QED BY <1>4, <2>4, <3>1, <3>3, <4>1, <4>2, Undisturbed
    <3> QED BY <3>2, <3>3
  <2>6. NewIsEmpty'
    BY <1>4 DEF ContentInv, NewIsEmpty, Doing
  <2>7. CallContent'
    <3>1. \A j \in 1..Len(table[r]) : j * BlockSize > Len(text[r]) => refs[table[r][j]] = 1
      BY <1>0 DEF ContentInv, CallContent
    <3>2. \A j \in 1..Len(table'[r]) : j \in 1..Len(table[r]) \/ j = Len(table[r]) + 1
      BY <1>2, <2>2
    <3>3. \A j \in 1..Len(table'[r]) : j * BlockSize > Len(text[r]) => refs'[table'[r][j]] = 1
      BY <2>1, <2>2, <2>3, <3>1, <3>2
    <3>4. \A o : Doing(o)' <=> o = "append"
      BY <1>1, <1>4 DEF Doing
    <3> QED BY <1>4, <3>3, <3>4 DEF CallContent
  <2> QED BY <2>1, <2>5, <2>6, <2>7 DEF ContentInv
<1> QED BY <1>3, <1>4 DEF Grow

\* The longer text: the tokens it had stay where they are.
LEMMA LengthenIs ==
    ASSUME StructureInv, NEW r \in Request, NEW count \in Nat, Lengthen(r, count),
           Len(text[r]) + count <= MaxTokens
    PROVE  /\ Len(text'[r]) = Len(text[r]) + count
           /\ \A i \in 1..Len(text[r]) : text'[r][i] = text[r][i]
           /\ \A s \in Request : s # r => text'[s] = text[s]
<1>1. PICK new \in [1..count -> Token] : text' = [text EXCEPT ![r] = text[r] \o new]
  BY DEF Lengthen
<1>2. text \in [Request -> Text] /\ text[r] \in Text
  BY DEF StructureInv, SharingTypes
<1>3. text'[r] = text[r] \o new /\ \A s \in Request : s # r => text'[s] = text[s]
  BY <1>1, <1>2
<1> QED BY <1>2, <1>3, LongerText

\* What follows an append: a lifecycle computes.
LEMMA AfterAppendContent ==
    ASSUME StructureInv, ContentInv, NEW r \in Request, call' = AfterAppend(r), kind' = kind,
           call = NoCall \/ call.who = r, ~Doing("compute") /\ ~Doing("attend"),
           \A s \in Request : s # r => text'[s] = text[s]
    PROVE  CallContent' /\ NewIsEmpty' /\ \A s : ~Forking(s)'
<1>1. \A s \in Request : kind[s] = "new" => text[s] = <<>>
  BY NewHasNone
<1>2. CASE ~IsLifecycle(r)
  <2>1. call' = NoCall /\ kind[r] # "new"
    BY <1>2 DEF AfterAppend, IsLifecycle
  <2>2. NewIsEmpty'
    BY <1>1, <2>1 DEF NewIsEmpty
  <2> QED BY <2>1, <2>2, NoCallContent DEF Forking, Doing
<1>3. CASE IsLifecycle(r)
  <2> DEFINE c == [op |-> "compute", who |-> r]
  <2>1. c \in Calls /\ c.op = "compute" /\ c.who = r
    BY CallBuilt
  <2>2. call' = c
    BY <1>3 DEF AfterAppend
  <2> HIDE DEF c
  <2>3. \A o : Doing(o)' <=> o = "compute"
    BY <2>1, <2>2, NextOp
  <2>4. CallContent'
    BY <2>3 DEF CallContent
  <2>5. NewIsEmpty'
    BY <1>1, <2>1, <2>2, <2>3 DEF NewIsEmpty
  <2> QED BY <2>3, <2>4, <2>5 DEF Forking
<1> QED BY <1>2, <1>3

\* append_tokens returns.
LEMMA GrownContent ==
    ASSUME StructureInv, ContentInv, Grown
    PROVE  ContentInv'
<1>0. Doing("append") /\ call.who \in Request
  BY CallTypes DEF Grown, Doing
<1> PICK r \in Request : r = call.who
  BY <1>0
<1>1. /\ Len(table[r]) >= PagesFor(Len(text[r]) + call.count)
      /\ Lengthen(r, call.count)
      /\ call' = AfterAppend(r)
      /\ UNCHANGED <<refs, prefix, kind, table, written, kv>>
  BY DEF Grown, poolVars
<1>2. (\A o : Doing(o) <=> o = "append") /\ call.count \in 1..MaxTokens
  BY <1>0, CallTypes DEF Doing
<1>3. /\ Len(table[r]) \in Nat /\ Len(text[r]) \in Nat /\ written[r] \in Nat
      /\ written[r] <= Len(text[r])
      /\ call.count \in Nat /\ Len(text[r]) + call.count <= MaxTokens
  BY <1>0, <1>2, RequestTypes, MaxTokensIsNat
     DEF StructureInv, TableSound, CallFacts, AppendFacts
<1>4. /\ Len(text'[r]) = Len(text[r]) + call.count
      /\ \A i \in 1..Len(text[r]) : text'[r][i] = text[r][i]
      /\ \A s \in Request : s # r => text'[s] = text[s]
  BY <1>1, <1>3, LengthenIs
<1>5. CallContent' /\ NewIsEmpty' /\ \A s : ~Forking(s)'
  BY <1>0, <1>1, <1>2, <1>4, AfterAppendContent
<1>6. kv' \in Memory /\ CachedTrue'
  BY <1>1, SameCached DEF ContentInv
<1>7. ASSUME NEW s \in Request PROVE WrittenSound(s)'
  <2>1. WrittenSound(s) /\ ~Forking(s)
    BY <1>2 DEF ContentInv, Forking
  <2>2. CASE s # r
    <3>1. \A p \in ToSet(table[s]) : p \in Page
      BY RequestTypes, InTable
    <3> QED BY <1>1, <1>4, <2>1, <2>2, <3>1, OtherRequest DEF Private
  <2>3. CASE s = r
    <3>1. Intact(r)'
      <4> SUFFICES ASSUME NEW i \in 1..written[r]
                   PROVE  kv'[PageOf(r, i)'][OffsetOf(i)] = text'[r][i]
        BY <1>1 DEF Intact, OffsetOf
      <4>1. i \in 1..Len(text[r])
        BY <1>3
      <4>2. kv[PageOf(r, i)][OffsetOf(i)] = text[r][i] /\ PageOf(r, i)' = PageOf(r, i)
        BY <1>1, <2>1, <2>3 DEF WrittenSound, Intact, PageOf
      <4> QED BY <1>1, <1>4, <4>1, <4>2
    <3>2. PublishedIsWritten(r)'
      BY <1>1, <2>1, <2>3 DEF WrittenSound, PublishedIsWritten
    <3>3. ReservedIsAlone(r)'
      <4> SUFFICES ASSUME NEW i \in written[r] + 1..Len(text'[r])
                   PROVE  refs[PageOf(r, i)] = 1
        BY <1>1 DEF ReservedIsAlone, PageOf
      <4>1. CASE i <= Len(text[r])
        <5>1. i \in written[r] + 1..Len(text[r])
          BY <1>3, <1>4, <4>1
        <5> QED BY <2>1, <2>3, <5>1 DEF WrittenSound, ReservedIsAlone
      <4>2. CASE i > Len(text[r])
        <5> DEFINE n == Len(text[r]) + call.count
        <5>1. n \in Nat /\ i \in 1..n /\ i \in Nat \ {0}
          BY <1>3, <1>4
        <5>2. PagesFor(n) \in Nat /\ PagesFor(n) <= Len(table[r])
          BY <1>1, <5>1, PagesForBounds
        <5> HIDE DEF n
        <5>3. BlockNo(i) \in 1..PagesFor(n)
          BY <5>1, TokenHasPage
        <5>4. BlockNo(i) \in 1..Len(table[r]) /\ BlockNo(i) \in Nat /\ BlockNo(i) <= BlockNo(i)
          BY <1>3, <5>2, <5>3
        <5>5. i <= BlockNo(i) * BlockSize /\ BlockNo(i) * BlockSize \in Nat
          BY <5>1, <5>4, LocationBelow, NextBlock
        <5>6. BlockNo(i) * BlockSize > Len(text[r])
          BY <1>3, <4>2, <5>1, <5>5
        <5>7. refs[table[r][BlockNo(i)]] = 1
          BY <1>0, <5>4, <5>6 DEF ContentInv, CallContent
        <5> QED BY <5>7 DEF PageOf, BlockNo
      <4> QED BY <1>3, <1>4, <4>1, <4>2
    <3> QED BY <2>3, <3>1, <3>2, <3>3 DEF WrittenSound
  <2> QED BY <2>2, <2>3
<1> QED BY <1>5, <1>6, <1>7 DEF ContentInv

\* append_token_with_copy.
LEMMA AppendWithCopyContent ==
    ASSUME StructureInv, ContentInv, NEW r \in Request, AppendWithCopy(r)
    PROVE  ContentInv'
<1>1. call = NoCall /\ (\A p : ~HeldByCall(p)) /\ (\A o : ~Doing(o)) /\ (\A s : ~Filling(s))
      /\ Room(r) > 0
  BY Idle DEF AppendWithCopy
<1>2. /\ Len(table[r]) \in 0..Len(table[r]) /\ Len(text[r]) \in Nat /\ written[r] \in Nat
      /\ written[r] <= Len(text[r]) /\ Len(table[r]) = PagesFor(Len(text[r]))
  BY <1>1, RequestTypes DEF StructureInv, TableSound
<1>3. 1 \in 1..MaxTokens
  BY <1>1, <1>2, MaxTokensIsNat DEF Room
<1>4. CASE ~TailShared(r) /\ BeginAppend(r, 1)
  BY <1>1, <1>3, <1>4, BeginAppendContent
<1>5. CASE Fails(r, {}, Len(table[r]), kv)
  BY <1>1, <1>2, <1>5, FailsEmptyHandedContent
<1>6. CASE /\ TailShared(r)
           /\ \E p \in Page :
                /\ TakePage(p)
                /\ call' = [op |-> "copy", who |-> r, page |-> p]
           /\ UNCHANGED requests
  <2> PICK p \in Page : TakePage(p) /\ call' = [op |-> "copy", who |-> r, page |-> p]
    BY <1>6
  <2> DEFINE c == [op |-> "copy", who |-> r, page |-> p]
  <2>1. c \in Calls /\ c.op = "copy" /\ c.who = r /\ c.page = p /\ call' = c
    BY CallBuilt
  <2> HIDE DEF c
  <2>2. \A o : Doing(o)' <=> o = "copy"
    BY <2>1, NextOp
  <2>3. /\ kv' \in Memory /\ CachedTrue'
        /\ \A q \in Page : q # p => kv'[q] = kv[q] /\ refs'[q] = refs[q] /\ prefix'[q] = prefix[q]
        /\ refs'[p] = 1 /\ prefix'[p] = NoPrefix
        /\ \A s \in Request : p \notin ToSet(table[s])
    BY TakenContent
  <2>4. UNCHANGED <<kind, table, text, written>>
    BY <1>6 DEF requests
  <2>5. ASSUME NEW s \in Request PROVE WrittenSound(s)'
    <3>1. WrittenSound(s) /\ ~Forking(s)
      BY <1>1 DEF ContentInv, Forking
    <3>2. \A q \in ToSet(table[s]) : q \in Page /\ q # p
      BY <2>3, RequestTypes, InTable
    <3>3. \A q \in ToSet(table[s]) : /\ kv'[q] = kv[q] /\ prefix'[q] = prefix[q]
                                     /\ Private(q) => refs'[q] = 1 \/ written[s] = Len(text[s])
      BY <2>3, <3>2 DEF Private
    <3> QED BY <2>4, <3>1, <3>3, OtherRequest
  <2>6. NewIsEmpty'
    BY <1>1, <2>4, NewHasNone DEF NewIsEmpty
  <2>7. written[r] = Len(text[r])
    <3>1. ASSUME written[r] # Len(text[r]) PROVE FALSE
      <4> DEFINE n == Len(text[r])
      <4>1. n \in written[r] + 1..n /\ n # 0
        BY <1>2, <3>1
      <4>2. PageOf(r, n) = Last(table[r])
        BY <1>1, <4>1, LastToken
      <4>3. WrittenSound(r)
        BY DEF ContentInv
      <4> HIDE DEF n
      <4>4. n = Len(text[r])
        BY DEF n
      <4>5. refs[PageOf(r, n)] = 1
        BY <4>1, <4>3, <4>4 DEF WrittenSound, ReservedIsAlone
      <4> QED BY <1>6, <4>2, <4>5 DEF TailShared
    <3> QED BY <3>1
  <2>8. CallContent'
    BY <2>1, <2>2, <2>3, <2>4, <2>7 DEF CallContent
  <2> QED BY <2>3, <2>5, <2>6, <2>8 DEF ContentInv
<1> QED BY <1>4, <1>5, <1>6 DEF AppendWithCopy

\* A page that only the call holds.
LEMMA OnlyHeld ==
    ASSUME StructureInv, NEW p \in Page, HeldByCall(p), \A s \in Request : p \notin ToSet(table[s])
    PROVE  refs[p] = 1
<1>1. refs[p] = Cardinality(Sharers(p)) + InCall(p)
  BY DEF StructureInv, Counted
<1>2. Sharers(p) = {}
  BY DEF Sharers
<1> QED BY <1>1, <1>2, FS_EmptySet DEF InCall

\* copy_block and replace_last_owned.
LEMMA CopyContent ==
    ASSUME StructureInv, ContentInv, Copy
    PROVE  ContentInv'
<1>0. Doing("copy") /\ call.who \in Request /\ call.page \in Page
  BY CallTypes DEF Copy, Doing
<1> PICK r \in Request : r = call.who
  BY <1>0
<1> PICK p \in Page : p = call.page
  BY <1>0
<1>1. /\ Len(text[r]) % BlockSize # 0 /\ Len(text[r]) < MaxTokens
      /\ \A s \in Request : p \notin ToSet(table[s])
  BY <1>0 DEF StructureInv, CallFacts, CopyFacts
<1>2. /\ \A q : HeldByCall(q) <=> q = p
      /\ \A o : Doing(o) <=> o = "copy"
      /\ \A s : ~Filling(s) /\ ~Forking(s)
  BY <1>0, CallTypes DEF Doing, Filling, Forking
<1>3. /\ table[r] \in Seq(Page) /\ IsInjective(table[r]) /\ Len(table[r]) \in Nat
      /\ text[r] \in Text /\ Len(text[r]) \in Nat /\ Len(table[r]) = PagesFor(Len(text[r]))
  BY <1>2, RequestTypes DEF StructureInv, TableSound
<1>4. /\ prefix[p] = NoPrefix /\ written[r] = Len(text[r])
  BY <1>0 DEF ContentInv, CallContent
<1>5. CASE Fails(r, {p}, Len(table[r]), kv)
  <2> DEFINE n == Len(table[r])
             held == {p}
  <2>1. n \in 0..Len(table[r]) /\ n = PagesFor(Len(text[r])) /\ Fails(r, held, n, kv)
    BY <1>3, <1>5
  <2>2. held \in SUBSET Page /\ (\A q \in Page : q \in held <=> HeldByCall(q))
        /\ (\A q \in held : q \notin ToSet(table[r])) /\ ~Doing("fork")
    BY <1>1, <1>2
  <2>3. kv \in Memory /\ \A q \in Page : kv[q] = kv[q]
    BY DEF ContentInv
  <2> HIDE DEF n, held
  <2> QED BY <1>0, <2>1, <2>2, <2>3, FailsContent
<1>6. ASSUME /\ GiveBack({Last(table[r])}, Copied(Last(table[r]), p))
             /\ table' = [table EXCEPT ![r] = Front(@) \o <<p>>]
             /\ Lengthen(r, 1)
             /\ call' = AfterAppend(r)
             /\ UNCHANGED <<kind, written>>
      PROVE  ContentInv'
  <2> DEFINE old == Last(table[r])
             n == Len(text[r])
             l == Len(table[r])
  <2>1. n # 0 /\ PagesFor(n + 1) = PagesFor(n) /\ l # 0 /\ l \in Nat
    BY <1>1, <1>3, PagesForTail
  <2>2. table[r] # <<>>
    BY <2>1
  <2>3. /\ Len(table'[r]) = l
        /\ \A j \in 1..l : table'[r][j] = IF j = l THEN p ELSE table[r][j]
        /\ old \in ToSet(table[r]) /\ old \in Page /\ old # p /\ old = table[r][l]
        /\ \A s \in Request : s # r => table'[s] = table[s]
    <3>1. table'[r] = Front(table[r]) \o <<p>> /\ \A s \in Request : s # r => table'[s] = table[s]
      BY <1>6 DEF StructureInv, SharingTypes
    <3>2. /\ Len(Front(table[r]) \o <<p>>) = l
          /\ \A j \in 1..l : (Front(table[r]) \o <<p>>)[j] = IF j = l THEN p ELSE table[r][j]
          /\ old \in ToSet(table[r])
      <4> DEFINE t == table[r]
      <4>1. t \in Seq(Page) /\ IsInjective(t) /\ t # <<>> /\ p \notin ToSet(t)
        BY <1>1, <1>3, <2>2
      <4> HIDE DEF t
      <4>2. /\ Len(Front(t) \o <<p>>) = Len(t)
            /\ \A j \in 1..Len(t) : (Front(t) \o <<p>>)[j] = IF j = Len(t) THEN p ELSE t[j]
            /\ Last(t) \in ToSet(t)
        BY <4>1, ReplacedTable
      <4> QED BY <4>2 DEF t
    <3>3. old \in Page /\ old # p
      BY <1>1, <1>3, <3>2, InTable
    <3> QED BY <3>1, <3>2, <3>3 DEF Last
  <2>4. \A j \in 1..l : j # l => table[r][j] # old /\ table[r][j] \in Page /\ table[r][j] # p
    <3>1. DOMAIN table[r] = 1..l /\ l \in 1..l
      BY <1>3, <2>1, LenProperties
    <3>2. \A j \in 1..l : table[r][j] \in ToSet(table[r]) /\ table[r][j] \in Page
      BY <1>3, InTable, LenProperties
    <3> QED BY <1>1, <1>3, <2>3, <3>1, <3>2 DEF IsInjective
  <2> HIDE DEF old
  <2>5. /\ refs' = [q \in Page |-> IF q \in {old} THEN refs[q] - 1 ELSE refs[q]]
        /\ prefix' = prefix
        /\ kv' = [q \in Page |-> IF q \in {old} /\ refs[q] = 1 /\ prefix[q] = NoPrefix
                                 THEN Blank ELSE Copied(old, p)[q]]
    BY <1>6 DEF GiveBack, Release, old
  <2>6. kv \in Memory /\ kv[old] \in [0..BlockSize - 1 -> Token \cup {Junk}]
    BY <2>3 DEF ContentInv, Memory
  <2>7. /\ Copied(old, p)[p] = kv[old]
        /\ \A q \in Page : q # p => Copied(old, p)[q] = kv[q]
    BY <2>6 DEF Copied, Memory
  <2>8. /\ kv'[p] = kv[old] /\ refs'[p] = 1 /\ prefix'[p] = NoPrefix
        /\ \A q \in Page : q # p /\ ~(q = old /\ Private(q)) => kv'[q] = kv[q]
        /\ \A q \in Page : q # old => refs'[q] = refs[q]
    <3>1. refs[p] = 1
      BY <1>1, <1>2, OnlyHeld
    <3> QED BY <1>4, <2>3, <2>5, <2>7, <3>1 DEF Private
  <2>9. kv' \in Memory
    <3>1. ASSUME NEW q \in Page PROVE kv'[q] \in [0..BlockSize - 1 -> Token \cup {Junk}]
      <4>1. kv[q] \in [0..BlockSize - 1 -> Token \cup {Junk}]
        BY <2>6 DEF Memory
      <4>2. CASE q = p
        BY <2>6, <2>8, <4>2
      <4>3. CASE q # p
        BY <2>5, <2>7, <4>1, <4>3, BlankIs
      <4> QED BY <4>2, <4>3
    <3>2. DOMAIN kv' = Page /\ kv' = [q \in Page |-> kv'[q]]
      BY <2>5
    <3> QED BY <3>1, <3>2 DEF Memory
  <2>10. CachedTrue'
    <3>1. \A q \in Page : prefix'[q] # NoPrefix => prefix'[q] = prefix[q] /\ kv'[q] = kv[q]
      BY <2>5, <2>8 DEF Private
    <3> QED BY <3>1, SameCached DEF ContentInv
  <2>11. /\ Len(text'[r]) = n + 1
         /\ \A i \in 1..n : text'[r][i] = text[r][i]
         /\ \A s \in Request : s # r => text'[s] = text[s]
    <3>1. n + 1 <= MaxTokens
      BY <1>1, <1>3, MaxTokensIsNat
    <3> QED BY <1>6, <3>1, LengthenIs
  <2>12. CallContent' /\ NewIsEmpty' /\ \A s : ~Forking(s)'
    BY <1>2, <1>6, <2>11, AfterAppendContent
  <2>13. ASSUME NEW s \in Request PROVE WrittenSound(s)'
    <3>1. WrittenSound(s)
      BY DEF ContentInv
    <3>2. CASE s # r
      <4>1. ASSUME NEW q \in ToSet(table[s])
            PROVE  /\ kv'[q] = kv[q] /\ prefix'[q] = prefix[q]
                   /\ Private(q) => refs'[q] = 1 \/ written[s] = Len(text[s])
        <5>1. q \in Page /\ q # p
          BY <1>1, RequestTypes, InTable
        <5>2. q = old => ~Private(q)
          BY <2>3, <3>2, <5>1, CountedIs DEF StructureInv, Private
        <5> QED BY <2>5, <2>8, <5>1, <5>2 DEF Private
      <4> QED BY <1>2, <1>6, <2>3, <2>11, <3>1, <3>2, <4>1, OtherRequest
    <3>3. CASE s = r
      <4>1. written'[r] = n /\ n \in Nat
        BY <1>3, <1>4, <1>6
      <4>2. Intact(r)'
        <5> SUFFICES ASSUME NEW i \in 1..n
                     PROVE  kv'[PageOf(r, i)'][OffsetOf(i)] = text'[r][i]
          BY <4>1 DEF Intact, OffsetOf
        <5>1. /\ BlockNo(i) \in 1..l /\ PageOf(r, i) = table[r][BlockNo(i)]
          BY TokenPage
        <5>2. PageOf(r, i)' = table'[r][BlockNo(i)]
          BY DEF PageOf, BlockNo
        <5>3. kv[PageOf(r, i)][OffsetOf(i)] = text[r][i]
          BY <1>4, <3>1, <3>3 DEF WrittenSound, Intact
        <5>4. kv'[PageOf(r, i)'] = kv[PageOf(r, i)]
          BY <2>3, <2>4, <2>8, <5>1, <5>2
        <5> QED BY <2>11, <5>3, <5>4
      <4>3. PublishedIsWritten(r)'
        <5> SUFFICES ASSUME NEW j \in 1..l, prefix'[table'[r][j]] # NoPrefix
                     PROVE  j * BlockSize <= n
          BY <2>3, <4>1 DEF PublishedIsWritten
        <5>1. j # l /\ table'[r][j] = table[r][j]
          BY <2>3, <2>8
        <5> QED BY <1>2, <1>4, <2>5, <3>1, <3>3, <5>1 DEF WrittenSound, PublishedIsWritten
      <4>4. ReservedIsAlone(r)'
        <5> SUFFICES ASSUME NEW i \in n + 1..n + 1
                     PROVE  refs'[PageOf(r, i)'] = 1
          BY <2>11, <4>1 DEF ReservedIsAlone
        <5>1. Len(table[r]) # 0 /\ BlockNo(n) = l
          BY <1>2, <2>1, LastToken
        <5>2. n \in Nat \ {0} /\ n + 1 \in Nat \ {0} /\ n + 1 \in 1..(n + 1) /\ i = n + 1
          BY <1>3, <2>1
        <5>3. BlockNo(n + 1) \in 1..l
          BY <1>3, <2>1, <5>2, TokenHasPage
        <5>4. l - 1 \in Nat /\ BlockNo(n + 1) \in Nat
          BY <2>1, <5>3
        <5>5. ~(BlockNo(n + 1) <= l - 1)
          <6>1. ~(BlockNo(n) <= l - 1)
            BY <2>1, <5>1
          <6>2. ~(n <= (l - 1) * BlockSize) /\ (l - 1) * BlockSize \in Nat
            BY <5>2, <5>4, <6>1, LocationBelow, NextBlock
          <6>3. ~(n + 1 <= (l - 1) * BlockSize)
            BY <5>2, <6>2
          <6> HIDE DEF n, l
          <6> QED BY <5>2, <5>4, <6>3, LocationBelow
        <5>6. BlockNo(n + 1) = l /\ l \in 1..l
          BY <2>1, <5>3, <5>4, <5>5
        <5>7. PageOf(r, i)' = table'[r][BlockNo(i)]
          BY DEF PageOf, BlockNo
        <5> QED BY <2>3, <2>8, <5>2, <5>6, <5>7
      <4> QED BY <3>3, <4>2, <4>3, <4>4 DEF WrittenSound
    <3> QED BY <3>2, <3>3
  <2> QED BY <2>9, <2>10, <2>12, <2>13 DEF ContentInv
<1> QED BY <1>5, <1>6 DEF Copy

\* The tokens that were due are in memory: the request is written, and no other
\* request had them.
LEMMA WriteOut ==
    ASSUME StructureInv, ContentInv, NEW r \in Request, ~Filling(r),
           kv' = WithTokens(r), written' = [written EXCEPT ![r] = Len(text[r])],
           UNCHANGED <<refs, prefix, table, text>>,
           \A s \in Request : Forking(s) => Forking(s)'
    PROVE  kv' \in Memory /\ CachedTrue' /\ \A s \in Request : WrittenSound(s)'
<1>1. \A s \in Request : WrittenSound(s)
  BY DEF ContentInv
<1>2. /\ kv' \in Memory
      /\ \A p \in Page : kv'[p] = kv[p] \/ (p \in ToSet(table[r]) /\ Private(p))
      /\ \A i \in 1..Len(text[r]) : kv'[PageOf(r, i)][OffsetOf(i)] = text[r][i]
  BY <1>1, WithTokensIs DEF ContentInv
<1>3. CachedTrue'
  BY <1>2, SameCached DEF ContentInv, Private
<1>4. written[r] <= Len(text[r]) /\ written[r] \in Nat /\ Len(text[r]) \in Nat
      /\ written'[r] = Len(text[r]) /\ \A s \in Request : s # r => written'[s] = written[s]
  BY RequestTypes DEF StructureInv, SharingTypes, TableSound
<1>5. ASSUME NEW s \in Request PROVE WrittenSound(s)'
  <2>1. CASE s # r
    <3>1. ASSUME NEW p \in ToSet(table[s]) PROVE kv'[p] = kv[p] /\ (Private(p) => refs'[p] = 1)
      <4>1. p \in Page
        BY RequestTypes, InTable
      <4>2. ~(p \in ToSet(table[r]) /\ Private(p))
        BY <2>1, <4>1, CountedIs DEF StructureInv, Private
      <4> QED BY <1>2, <4>1, <4>2 DEF Private
    <3> QED BY <1>1, <1>4, <2>1, <3>1, OtherRequest
  <2>2. CASE s = r
    <3>1. Intact(r)'
      BY <1>2, <1>4 DEF Intact, PageOf
    <3>2. PublishedIsWritten(r)'
      <4>1. PublishedIsWritten(r)
        BY <1>1 DEF WrittenSound, Forking, Filling
      <4> SUFFICES ASSUME NEW j \in 1..Len(table[r]), prefix[table[r][j]] # NoPrefix
                   PROVE  j * BlockSize <= Len(text[r])
        BY <1>4 DEF PublishedIsWritten
      <4>2. j * BlockSize <= written[r]
        BY <4>1 DEF PublishedIsWritten
      <4>3. j \in Nat
        BY RequestTypes
      <4>4. j * BlockSize \in Nat
        BY <4>3, NextBlock
      <4> QED BY <1>4, <4>2, <4>4
    <3>3. ReservedIsAlone(r)'
      BY <1>4 DEF ReservedIsAlone
    <3> QED BY <2>2, <3>1, <3>2, <3>3 DEF WrittenSound
  <2> QED BY <2>1, <2>2
<1> QED BY <1>2, <1>3, <1>5

\* The caller writes the tokens of a sequence.
LEMMA WriteContent ==
    ASSUME StructureInv, ContentInv, NEW r \in Request, Write(r)
    PROVE  ContentInv'
<1>1. /\ call = NoCall /\ call' = NoCall /\ kv' = WithTokens(r)
      /\ written' = [written EXCEPT ![r] = Len(text[r])]
      /\ UNCHANGED <<refs, prefix, kind, table, text>>
  BY DEF Write, poolVars
<1>2. (\A o : ~Doing(o)) /\ (\A s : ~Filling(s)) /\ \A s : ~Forking(s)
  BY <1>1, Idle DEF Forking
<1>3. kv' \in Memory /\ CachedTrue' /\ \A s \in Request : WrittenSound(s)'
  BY <1>1, <1>2, WriteOut
<1>4. NewIsEmpty'
  BY <1>1, <1>2, NewHasNone DEF NewIsEmpty
<1> QED BY <1>1, <1>3, <1>4, NoCallContent DEF ContentInv

\* The write of a prefill or decode.
LEMMA ComputeContent ==
    ASSUME StructureInv, ContentInv, Compute
    PROVE  ContentInv'
<1>0. Doing("compute") /\ call.who \in Request
  BY CallTypes DEF Compute, Doing
<1> PICK r \in Request : r = call.who
  BY <1>0
<1>1. /\ \A q : ~HeldByCall(q)
      /\ \A o : Doing(o) <=> o = "compute"
      /\ \A s : ~Filling(s) /\ ~Forking(s)
      /\ IsLifecycle(r)
  BY <1>0, CallTypes DEF Doing, Filling, Forking, StructureInv, CallFacts, LifecycleFacts
<1>2. /\ 0 \in 0..Len(table[r]) /\ Len(text[r]) \in Nat
      /\ written[r] \in Nat /\ written[r] <= Len(text[r])
  BY RequestTypes DEF StructureInv, TableSound
<1>3. kv \in Memory /\ WrittenSound(r)
  BY DEF ContentInv
<1>4. ASSUME NEW memory, memory = kv \/ memory = WithTokens(r), Fails(r, {}, 0, memory)
      PROVE  ContentInv'
  <2> DEFINE held == {}
             keep == 0
  <2>1. keep \in 0..Len(table[r]) /\ held \in SUBSET Page /\ keep = 0 /\ Fails(r, held, keep, memory)
        /\ (\A q \in Page : q \in held <=> HeldByCall(q))
        /\ (\A q \in held : q \notin ToSet(table[r]))
    BY <1>1, <1>2, <1>4
  <2>2. /\ memory \in Memory
        /\ \A p \in Page : memory[p] = kv[p]
            \/ (IsLifecycle(r) /\ p \in ToSet(table[r]) /\ Private(p))
    BY <1>1, <1>3, <1>4, WithTokensIs
  <2> HIDE DEF held, keep
  <2> QED BY <2>1, <2>2, FailsContent
<1>5. ASSUME /\ kv' = WithTokens(r)
             /\ written' = [written EXCEPT ![r] = Len(text[r])]
             /\ call' = [op |-> "attend", who |-> r, queries |-> Len(text[r]) - written[r]]
             /\ UNCHANGED <<poolVars, kind, table, text>>
      PROVE  ContentInv'
  <2> DEFINE c == [op |-> "attend", who |-> r, queries |-> Len(text[r]) - written[r]]
  <2>1. Len(text[r]) - written[r] \in Nat /\ Len(text[r]) - written[r] <= Len(text[r])
    BY <1>2
  <2>2. c \in Calls /\ c.op = "attend" /\ c.who = r /\ c.queries = Len(text[r]) - written[r] /\ call' = c
    BY <1>5, <2>1, CallBuilt
  <2> HIDE DEF c
  <2>3. \A o : Doing(o)' <=> o = "attend"
    BY <2>2, NextOp
  <2>4. UNCHANGED <<refs, prefix, kind, table, text>>
    BY <1>5 DEF poolVars
  <2>5. kv' \in Memory /\ CachedTrue' /\ \A s \in Request : WrittenSound(s)'
    BY <1>1, <1>5, <2>4, WriteOut
  <2>6. NewIsEmpty'
    <3> SUFFICES ASSUME NEW s \in Request, kind'[s] = "new"
                 PROVE  text'[s] = <<>> \/ (Doing("attend")' /\ call'.who = s)
      BY DEF NewIsEmpty
    <3>1. CASE s = r
      BY <2>2, <2>3, <3>1
    <3>2. CASE s # r
      BY <2>4, <3>2, NewHasNone
    <3> QED BY <3>1, <3>2
  <2>7. written'[r] = Len(text[r])
    BY <1>5 DEF StructureInv, SharingTypes
  <2>8. CallContent'
    BY <2>1, <2>2, <2>3, <2>4, <2>7 DEF CallContent
  <2> QED BY <2>5, <2>6, <2>8 DEF ContentInv
<1> QED BY <1>4, <1>5 DEF Compute

\* The attention of a prefill or decode.
LEMMA AttendContent ==
    ASSUME StructureInv, ContentInv, Attend
    PROVE  ContentInv'
<1>0. Doing("attend") /\ call.who \in Request
  BY CallTypes DEF Attend, Doing
<1> PICK r \in Request : r = call.who
  BY <1>0
<1>1. /\ \A q : ~HeldByCall(q)
      /\ \A o : Doing(o) <=> o = "attend"
      /\ 0 \in 0..Len(table[r])
  BY <1>0, CallTypes, RequestTypes DEF Doing
<1>2. CASE Fails(r, {}, 0, kv)
  BY <1>1, <1>2, FailsEmptyHandedContent
<1>3. CASE /\ kind' = [kind EXCEPT ![r] = "running"] /\ call' = NoCall
           /\ UNCHANGED <<poolVars, table, text, written, kv>>
  <2>1. kind \in [Request -> Kinds] /\ UNCHANGED <<refs, prefix>>
    BY <1>3 DEF StructureInv, SharingTypes, poolVars
  <2>2. kv' \in Memory /\ CachedTrue' /\ \A s \in Request : WrittenSound(s)'
    BY <1>1, <1>3, <2>1, StillContent DEF Private, Forking
  <2>3. NewIsEmpty'
    <3> SUFFICES ASSUME NEW s \in Request, kind'[s] = "new" PROVE text'[s] = <<>>
      BY DEF NewIsEmpty
    <3>1. s # r /\ kind[s] = "new"
      BY <1>3, <2>1
    <3> QED BY <1>3, <3>1, NewHasNone
  <2> QED BY <1>3, <2>2, <2>3, NoCallContent DEF ContentInv
<1> QED BY <1>2, <1>3 DEF Attend

\* fork_shared begins.
LEMMA BeginForkContent ==
    ASSUME StructureInv, ContentInv, NEW r \in Request, NEW from \in Request, BeginFork(from, r)
    PROVE  ContentInv'
<1> DEFINE c == [op |-> "fork", who |-> r, from |-> from]
<1>1. /\ call = NoCall /\ call' = c /\ written[from] = Len(text[from])
      /\ UNCHANGED <<refs, prefix, kind, table, text, written, kv>>
  BY DEF BeginFork, poolVars, requests
<1>2. c \in Calls /\ c.op = "fork" /\ c.who = r /\ c.from = from
  BY CallBuilt
<1> HIDE DEF c
<1>3. \A o : Doing(o)' <=> o = "fork"
  BY <1>1, <1>2, NextOp
<1>4. \A o : ~Doing(o)
  BY <1>1, Idle
<1>5. kv' \in Memory /\ CachedTrue' /\ \A s \in Request : WrittenSound(s)'
  BY <1>1, <1>4, StillContent DEF Private, Forking
<1>6. NewIsEmpty'
  BY <1>1, <1>4, NewHasNone DEF NewIsEmpty
<1>7. CallContent'
  BY <1>1, <1>2, <1>3 DEF CallContent
<1> QED BY <1>5, <1>6, <1>7 DEF ContentInv

\* append_shared of the next page: its owner has written all its tokens.
LEMMA ShareContent ==
    ASSUME StructureInv, ContentInv, Share
    PROVE  ContentInv'
<1>0. Doing("fork") /\ call.who \in Request /\ call.from \in Request
  BY CallTypes DEF Share, Doing
<1> PICK r \in Request : r = call.who
  BY <1>0
<1> PICK f \in Request : f = call.from
  BY <1>0
<1>1. /\ \A q : ~HeldByCall(q)
      /\ \A o : Doing(o) <=> o = "fork"
      /\ Forking(r) /\ 0 \in 0..Len(table[r])
  BY <1>0, CallTypes, RequestTypes DEF Doing, Forking
<1>2. /\ written[f] = Len(text[f]) /\ f # r /\ kind[r] = "none"
  BY <1>0 DEF ContentInv, CallContent, StructureInv, CallFacts, ForkFacts
<1>3. CASE Fails(r, {}, 0, kv)
  BY <1>1, <1>3, FailsEmptyHandedContent
<1> DEFINE next == Len(table[r]) + 1
           p == table[f][next]
<1>4. ASSUME /\ next <= Len(table[f])
             /\ Retain(p)
             /\ table' = [table EXCEPT ![r] = Append(@, p)]
             /\ UNCHANGED <<kind, text, written, call, kv>>
      PROVE  ContentInv'
  <2>1. next \in 1..Len(table[f]) /\ table[f] \in Seq(Page)
    BY <1>1, <1>4, RequestTypes
  <2>2. p \in Page /\ p \in ToSet(table[f])
    BY <2>1, InTable, LenProperties
  <2> HIDE DEF p
  <2>3. /\ prefix' = prefix /\ \A q \in Page : q # p => refs'[q] = refs[q]
        /\ \A s \in Request : s # r => table'[s] = table[s]
    BY <1>4, <2>2 DEF Retain, StructureInv, SharingTypes
  <2>4. kv' \in Memory /\ CachedTrue'
    BY <1>4, <2>3, SameCached DEF ContentInv
  <2>5. \A s \in Request : Forking(s)' <=> Forking(s)
    BY <1>4 DEF Forking, Doing
  <2>6. ASSUME NEW s \in Request PROVE WrittenSound(s)'
    <3>1. WrittenSound(s)
      BY DEF ContentInv
    <3>2. CASE s # r
      <4>1. ASSUME NEW q \in ToSet(table[s])
            PROVE  Private(q) => refs'[q] = 1 \/ written[s] = Len(text[s])
        <5>1. q \in Page
          BY RequestTypes, InTable
        <5>2. q = p /\ Private(q) => s = f
          BY <2>2, <5>1, CountedIs DEF StructureInv, Private
        <5> QED BY <1>2, <2>3, <5>1, <5>2 DEF Private
      <4> QED BY <1>4, <2>3, <2>5, <3>1, <3>2, <4>1, OtherRequest
    <3>3. CASE s = r
      <4>1. text[r] = <<>> /\ written[r] <= Len(text[r]) /\ written[r] \in Nat
        BY <1>2, RequestTypes DEF StructureInv, TableSound
      <4>2. Len(text[r]) = 0 /\ written[r] = 0
        <5>1. Len(text[r]) = 0
          BY <4>1
        <5> QED BY <4>1, <5>1
      <4>3. Len(text'[r]) = 0 /\ written'[r] = 0 /\ Forking(r)'
        BY <1>1, <1>4, <2>5, <4>2
      <4> QED BY <3>3, <4>3 DEF WrittenSound, Intact, ReservedIsAlone
    <3> QED BY <3>2, <3>3
  <2>7. NewIsEmpty'
    BY <1>4 DEF ContentInv, NewIsEmpty, Doing
  <2>8. \A o : Doing(o)' <=> o = "fork"
    BY <1>1, <1>4 DEF Doing
  <2>9. CallContent'
    BY <1>2, <1>4, <2>8 DEF CallContent
  <2> QED BY <2>4, <2>6, <2>7, <2>9 DEF ContentInv
<1> QED BY <1>3, <1>4 DEF Share

\* fork_shared returns: the new request reads what the old one reads.
LEMMA ForkedContent ==
    ASSUME StructureInv, ContentInv, Forked
    PROVE  ContentInv'
<1>0. Doing("fork") /\ call.who \in Request /\ call.from \in Request
  BY CallTypes DEF Forked, Doing
<1> PICK r \in Request : r = call.who
  BY <1>0
<1> PICK f \in Request : f = call.from
  BY <1>0
<1>1. /\ Len(table[r]) = Len(table[f])
      /\ kind' = [kind EXCEPT ![r] = "sequence"]
      /\ text' = [text EXCEPT ![r] = text[f]]
      /\ written' = [written EXCEPT ![r] = written[f]]
      /\ call' = NoCall /\ UNCHANGED <<refs, prefix, table, kv>>
  BY DEF Forked, poolVars
<1>2. /\ written[f] = Len(text[f]) /\ f # r
      /\ \A j \in 1..Len(table[r]) : table[r][j] = table[f][j]
      /\ \A s \in Request : Forking(s) => s = r
      /\ \A o : Doing(o) <=> o = "fork"
  BY <1>0 DEF ContentInv, CallContent, StructureInv, CallFacts, ForkFacts, Forking, Doing
<1>3. /\ kind \in [Request -> Kinds] /\ text'[r] = text[f] /\ written'[r] = written[f]
      /\ \A s \in Request : s # r => text'[s] = text[s] /\ written'[s] = written[s]
  BY <1>1 DEF StructureInv, SharingTypes
<1>4. kv' \in Memory /\ CachedTrue'
  BY <1>1, SameCached DEF ContentInv
<1>5. ASSUME NEW s \in Request PROVE WrittenSound(s)'
  <2>1. \A q \in ToSet(table[s]) : q \in Page
    BY RequestTypes, InTable
  <2>2. CASE s # r
    <3>1. WrittenSound(s) /\ ~Forking(s)
      BY <1>2, <2>2 DEF ContentInv
    <3> QED BY <1>1, <1>3, <2>1, <2>2, <3>1, OtherRequest DEF Private
  <2>3. CASE s = r
    <3>1. WrittenSound(f) /\ ~Forking(f) /\ Len(text[f]) \in Nat
      BY <1>2, RequestTypes DEF ContentInv
    <3>2. Intact(r)'
      <4> SUFFICES ASSUME NEW i \in 1..written[f]
                   PROVE  kv'[PageOf(r, i)'][OffsetOf(i)] = text'[r][i]
        BY <1>3 DEF Intact, OffsetOf
      <4>1. i \in 1..Len(text[f])
        BY <1>2
      <4>2. BlockNo(i) \in 1..Len(table[f]) /\ PageOf(f, i) = table[f][BlockNo(i)]
        BY <4>1, TokenPage
      <4>3. PageOf(r, i)' = table[r][BlockNo(i)]
        BY <1>1 DEF PageOf, BlockNo
      <4>4. kv[PageOf(f, i)][OffsetOf(i)] = text[f][i]
        BY <3>1 DEF WrittenSound, Intact
      <4> QED BY <1>1, <1>2, <1>3, <4>2, <4>3, <4>4
    <3>3. PublishedIsWritten(r)'
      BY <1>1, <1>2, <1>3, <3>1 DEF WrittenSound, PublishedIsWritten
    <3>4. ReservedIsAlone(r)'
      <4>1. written'[r] + 1..Len(text'[r]) = {}
        BY <1>2, <1>3, <3>1
      <4> QED BY <4>1 DEF ReservedIsAlone
    <3> QED BY <2>3, <3>2, <3>3, <3>4 DEF WrittenSound
  <2> QED BY <2>2, <2>3
<1>6. NewIsEmpty'
  <2> SUFFICES ASSUME NEW s \in Request, kind'[s] = "new" PROVE text'[s] = <<>>
    BY DEF NewIsEmpty
  <2>1. s # r /\ kind[s] = "new"
    BY <1>1, <1>3
  <2> QED BY <1>2, <1>3, <2>1, NewHasNone
<1> QED BY <1>1, <1>4, <1>5, <1>6, NoCallContent DEF ContentInv

\* The tokens of a block.
LEMMA BlockToken ==
    ASSUME NEW k \in Nat, NEW o \in 0..BlockSize - 1
    PROVE  /\ k * BlockSize + o + 1 \in Nat \ {0}
           /\ BlockNo(k * BlockSize + o + 1) = k + 1
           /\ OffsetOf(k * BlockSize + o + 1) = o
<1> DEFINE m == k * BlockSize
           i == m + o + 1
           b == BlockNo(i)
<1>1. m \in Nat /\ (k + 1) * BlockSize = m + BlockSize /\ BlockSize \in Nat \ {0} /\ k + 1 \in Nat
  BY NextBlock, BlockSizePositive
<1>2. i \in Nat \ {0}
  BY <1>1
<1>3. i <= (k + 1) * BlockSize /\ ~(i <= k * BlockSize)
  <2>1. i <= m + BlockSize /\ ~(i <= m)
    <3> HIDE DEF m
    <3> QED BY <1>1
  <2> QED BY <1>1, <2>1
<1> HIDE DEF i
<1>4. b <= k + 1 /\ ~(b <= k) /\ b \in Nat
  BY <1>1, <1>2, <1>3, LocationBelow, Location
<1>5. b = k + 1
  BY <1>4
<1>6. i = (b - 1) * BlockSize + OffsetOf(i) + 1 /\ OffsetOf(i) \in 0..BlockSize - 1
  BY <1>2, Location
<1>7. i = m + OffsetOf(i) + 1
  <2>1. b - 1 = k
    BY <1>5
  <2> QED BY <1>6, <2>1
<1>8. OffsetOf(i) = o
  <2>1. i = m + o + 1
    BY DEF i
  <2> HIDE DEF m
  <2> QED BY <1>1, <1>6, <1>7, <2>1
<1> QED BY <1>2, <1>5, <1>8 DEF i

\* publish_computed_block.
LEMMA PublishContent ==
    ASSUME StructureInv, ContentInv, NEW r \in Request, NEW l \in DOMAIN table[r], PublishBlock(r, l)
    PROVE  ContentInv'
<1> DEFINE q == PrefixOf(r, l)
           p == table[r][l]
<1>1. /\ call = NoCall /\ IsComplete(q, l) /\ Len(q) <= written[r]
      /\ refs[p] = 1 /\ prefix[p] = NoPrefix
      /\ prefix' = [prefix EXCEPT ![p] = q]
      /\ UNCHANGED <<kind, table, text, written, kv, call, refs>>
  BY DEF PublishBlock, Publish, Publishable, requests
<1>2. /\ l \in Nat \ {0} /\ l <= Len(table[r]) /\ l * BlockSize \in Nat
      /\ q = SubSeq(text[r], 1, l * BlockSize)
      /\ Len(q) = l * BlockSize /\ l * BlockSize <= Len(text[r])
  BY <1>1, CompletePrefix
<1>3. /\ table[r] \in Seq(Page) /\ IsInjective(table[r]) /\ text[r] \in Text
      /\ Len(text[r]) \in Nat /\ written[r] \in Nat /\ written[r] <= Len(text[r])
      /\ prefix \in [Page -> Prefix \cup {NoPrefix}]
  BY RequestTypes DEF StructureInv, SharingTypes, TableSound
<1>4. p \in Page /\ p \in ToSet(table[r]) /\ l \in 1..Len(table[r])
  BY <1>2, <1>3, InTable, LenProperties
<1>5. (\A o : ~Doing(o)) /\ \A s : ~Forking(s)
  BY <1>1, Idle DEF Forking
<1> DEFINE n == l * BlockSize
<1>6. q = SubSeq(text[r], 1, n) /\ \A i \in 1..n : q[i] = text[r][i]
  <2>1. n \in 0..Len(text[r])
    BY <1>2, <1>3
  <2> HIDE DEF n
  <2>2. \A i \in 1..n : SubSeq(text[r], 1, n)[i] = text[r][i]
    BY <1>3, <2>1, CutText
  <2> QED BY <1>2, <2>2 DEF n
<1> HIDE DEF p, q
<1>7. prefix'[p] = q /\ \A s \in Page : s # p => prefix'[s] = prefix[s]
  BY <1>1, <1>3, <1>4
<1>8. CachedTrue'
  <2> SUFFICES ASSUME NEW s \in Page, prefix'[s] # NoPrefix, NEW o \in 0..BlockSize - 1
               PROVE  kv'[s][o] = prefix'[s][Len(prefix'[s]) - BlockSize + o + 1]
    BY DEF CachedTrue
  <2>1. CASE s # p
    BY <1>1, <1>7, <2>1 DEF ContentInv, CachedTrue
  <2>2. CASE s = p
    <3> DEFINE k == l - 1
               m == k * BlockSize
               i == m + o + 1
    <3>1. k \in Nat /\ k + 1 = l
      BY <1>2
    <3>2. m \in Nat /\ n = m + BlockSize
      BY <3>1, NextBlock
    <3>3. i \in Nat \ {0} /\ BlockNo(i) = l /\ OffsetOf(i) = o
      BY <3>1, BlockToken
    <3>4. i \in 1..n /\ i = Len(q) - BlockSize + o + 1
      <4>1. Len(q) = n
        BY <1>2
      <4> HIDE DEF m, n
      <4> QED BY <3>2, <4>1, BlockSizePositive
    <3>5. i \in 1..written[r]
      <4>1. n <= written[r] /\ n \in Nat
        BY <1>1, <1>2
      <4> HIDE DEF i, n
      <4> QED BY <1>3, <3>4, <4>1
    <3> HIDE DEF i, n
    <3>6. kv[PageOf(r, i)][OffsetOf(i)] = text[r][i]
      BY <3>5 DEF ContentInv, WrittenSound, Intact
    <3>7. PageOf(r, i) = table[r][BlockNo(i)]
      BY DEF PageOf, BlockNo
    <3>8. kv[p][o] = text[r][i]
      BY <3>3, <3>6, <3>7 DEF p
    <3>9. kv'[s][o] = text[r][i] /\ prefix'[s] = q
      BY <1>1, <1>7, <2>2, <3>8
    <3>10. q[i] = text[r][i]
      BY <1>6, <3>4
    <3> QED BY <3>4, <3>9, <3>10
  <2> QED BY <2>1, <2>2
<1>9. ASSUME NEW s \in Request PROVE WrittenSound(s)'
  <2>1. WrittenSound(s)
    BY DEF ContentInv
  <2>2. CASE s # r
    <3>1. ASSUME NEW x \in ToSet(table[s]) PROVE x \in Page /\ x # p
      <4>1. x \in Page
        BY RequestTypes, InTable
      <4> QED BY <1>1, <1>4, <2>2, <4>1, CountedIs DEF StructureInv
    <3> QED BY <1>1, <1>5, <1>7, <2>1, <2>2, <3>1, OtherRequest DEF Private
  <2>3. CASE s = r
    <3>1. Intact(r)' /\ ReservedIsAlone(r)'
      BY <1>1, <2>1, <2>3 DEF WrittenSound, Intact, ReservedIsAlone, PageOf
    <3>2. PublishedIsWritten(r)'
      <4> SUFFICES ASSUME NEW j \in 1..Len(table[r]), prefix'[table[r][j]] # NoPrefix
                   PROVE  j * BlockSize <= written[r]
        BY <1>1 DEF PublishedIsWritten
      <4>1. CASE j = l
        BY <1>1, <1>2, <4>1
      <4>2. CASE j # l
        <5>1. table[r][j] # p
          BY <1>3, <1>4, <4>2, LenProperties DEF IsInjective, p
        <5>2. table[r][j] \in Page
          BY <1>3, LenProperties
        <5> QED BY <1>5, <1>7, <2>1, <2>3, <5>1, <5>2 DEF WrittenSound, PublishedIsWritten
      <4> QED BY <4>1, <4>2
    <3> QED BY <2>3, <3>1, <3>2 DEF WrittenSound
  <2> QED BY <2>2, <2>3
<1>10. NewIsEmpty'
  BY <1>1, <1>5, NewHasNone DEF NewIsEmpty
<1>11. kv' \in Memory
  BY <1>1 DEF ContentInv
<1> QED BY <1>1, <1>8, <1>9, <1>10, <1>11, NoCallContent DEF ContentInv

\* attach_cached_prefix begins, on an empty sequence.
LEMMA BeginAttachContent ==
    ASSUME StructureInv, ContentInv, NEW r \in Request, NEW want \in Text, BeginAttach(r, want)
    PROVE  ContentInv'
<1> DEFINE c == [op |-> "attach", who |-> r, want |-> want]
<1>1. /\ call = NoCall /\ call' = c /\ text[r] = <<>>
      /\ UNCHANGED <<refs, prefix, kind, table, text, written, kv>>
  BY DEF BeginAttach, poolVars, requests
<1>2. c \in Calls /\ c.op = "attach" /\ c.who = r
  BY CallBuilt
<1> HIDE DEF c
<1>3. \A o : Doing(o)' <=> o = "attach"
  BY <1>1, <1>2, NextOp
<1>4. \A o : ~Doing(o)
  BY <1>1, Idle
<1>5. kv' \in Memory /\ CachedTrue' /\ \A s \in Request : WrittenSound(s)'
  BY <1>1, <1>4, StillContent DEF Private, Forking
<1>6. NewIsEmpty'
  BY <1>1, <1>4, NewHasNone DEF NewIsEmpty
<1>7. written[r] = Len(text[r])
  <2>1. Len(text[r]) = 0
    BY <1>1
  <2>2. written[r] <= Len(text[r]) /\ written[r] \in Nat
    BY RequestTypes DEF StructureInv, TableSound
  <2> QED BY <2>1, <2>2
<1>8. CallContent'
  BY <1>1, <1>2, <1>3, <1>7 DEF CallContent
<1> QED BY <1>5, <1>6, <1>8 DEF ContentInv

\* lookup of the next whole block: what it finds is published.
LEMMA LookupContent ==
    ASSUME StructureInv, ContentInv, Lookup
    PROVE  ContentInv'
<1>0. Doing("attach") /\ call.who \in Request /\ call.want \in Text
  BY CallTypes DEF Lookup, Doing
<1> PICK r \in Request : r = call.who
  BY <1>0
<1> PICK want \in Text : want = call.want
  BY <1>0
<1>1. /\ \A q : ~HeldByCall(q)
      /\ \A o : Doing(o) <=> o = "attach"
      /\ 0 \in 0..Len(table[r])
  BY <1>0, CallTypes, RequestTypes DEF Doing
<1>2. CASE Fails(r, {}, 0, kv)
  BY <1>1, <1>2, FailsEmptyHandedContent
<1>3. CASE /\ \E p \in Hits :
                /\ Retain(p)
                /\ call' = [op |-> "hit", who |-> call.who, want |-> call.want, page |-> p]
           /\ UNCHANGED <<requests, kv>>
  <2>1. PICK p \in Hits : /\ Retain(p)
                          /\ call' = [op |-> "hit", who |-> call.who, want |-> call.want, page |-> p]
    BY <1>3
  <2>2. p \in Page /\ prefix[p] # NoPrefix
    BY DEF Hits, Published
  <2> DEFINE c == [op |-> "hit", who |-> r, want |-> want, page |-> p]
  <2>3. c \in Calls /\ c.op = "hit" /\ c.who = r /\ c.page = p /\ call' = c
    BY <2>1, <2>2, CallBuilt
  <2> HIDE DEF c
  <2>4. \A o : Doing(o)' <=> o = "hit"
    BY <2>3, NextOp
  <2>5. UNCHANGED <<kind, table, text, written, prefix, kv>>
        /\ \A q \in Page : q # p => refs'[q] = refs[q]
    BY <1>3, <2>1, <2>2 DEF requests, Retain, StructureInv, SharingTypes
  <2>6. kv' \in Memory /\ CachedTrue' /\ \A s \in Request : WrittenSound(s)'
    BY <1>1, <2>2, <2>5, StillContent DEF Private, Forking
  <2>7. NewIsEmpty'
    BY <1>1, <2>5, NewHasNone DEF NewIsEmpty
  <2>8. written[r] = Len(text[r])
    BY <1>0 DEF ContentInv, CallContent
  <2>9. CallContent'
    BY <2>2, <2>3, <2>4, <2>5, <2>8 DEF CallContent
  <2> QED BY <2>6, <2>7, <2>9 DEF ContentInv
<1> QED BY <1>2, <1>3 DEF Lookup

\* append_cached_full_block: the page holds the tokens the request gets.
LEMMA AttachPageContent ==
    ASSUME StructureInv, ContentInv, AttachPage
    PROVE  ContentInv'
<1>0. Doing("hit") /\ call.who \in Request /\ call.page \in Page /\ call.want \in Text
  BY HitIsNew DEF AttachPage
<1> PICK r \in Request : r = call.who
  BY <1>0
<1> PICK want \in Text : want = call.want
  BY <1>0
<1> PICK p \in Page : p = call.page
  BY <1>0
<1> DEFINE n == Len(text[r]) + BlockSize
<1>1. /\ \A q : HeldByCall(q) <=> q = p
      /\ \A o : Doing(o) <=> o = "hit"
      /\ \A s : ~Forking(s)
      /\ 0 \in 0..Len(table[r]) /\ Len(table[r]) \in Nat /\ table[r] \in Seq(Page)
      /\ IsInjective(table[r]) /\ Len(text[r]) \in Nat
  BY <1>0, CallTypes, RequestTypes DEF Doing, Forking
<1>2. /\ n \in Nat /\ n <= Len(want) /\ n = (Len(table[r]) + 1) * BlockSize
      /\ prefix[p] = SubSeq(want, 1, n) /\ p \notin ToSet(table[r])
  BY <1>0, HitIsNew
<1>3. /\ prefix[p] # NoPrefix /\ written[r] = Len(text[r])
  BY <1>0 DEF ContentInv, CallContent
<1>4. /\ kind[r] = "sequence"
      /\ Len(text[r]) = Len(table[r]) * BlockSize
      /\ text[r] = SubSeq(want, 1, Len(text[r])) /\ Len(text[r]) <= Len(want)
  BY <1>0 DEF StructureInv, CallFacts, AttachFacts
<1>5. CASE Fails(r, {p}, 0, kv)
  <2> DEFINE keep == 0
             held == {p}
  <2>1. keep \in 0..Len(table[r]) /\ keep = 0 /\ Fails(r, held, keep, kv)
    BY <1>1, <1>5
  <2>2. held \in SUBSET Page /\ (\A q \in Page : q \in held <=> HeldByCall(q))
        /\ (\A q \in held : q \notin ToSet(table[r])) /\ ~Doing("fork")
    BY <1>1, <1>2
  <2>3. kv \in Memory /\ \A q \in Page : kv[q] = kv[q]
    BY DEF ContentInv
  <2> HIDE DEF keep, held
  <2> QED BY <1>0, <2>1, <2>2, <2>3, FailsContent
<1>6. ASSUME /\ Retain(p)
             /\ table' = [table EXCEPT ![r] = Append(table[r], p)]
             /\ text' = [text EXCEPT ![r] = SubSeq(want, 1, n)]
             /\ written' = [written EXCEPT ![r] = n]
             /\ call' = [call EXCEPT !.op = "attached"]
             /\ UNCHANGED <<kind, kv>>
      PROVE  ContentInv'
  <2>1. /\ call' \in Calls /\ call'.op = "attached" /\ call'.who = r /\ call'.page = p
    <3>1. call \in [op : {"hit", "attached"}, who : Request, want : Text, page : Page]
      BY <1>0 DEF StructureInv, SharingTypes, Calls, Doing
    <3>2. call' \in [op : {"hit", "attached"}, who : Request, want : Text, page : Page]
      BY <1>6, <3>1
    <3> QED BY <1>6, <3>1, <3>2 DEF Calls
  <2>2. \A o : Doing(o)' <=> o = "attached"
    BY <2>1, NoCallIsNone DEF Doing
  <2>3. prefix' = prefix /\ \A q \in Page : q # p => refs'[q] = refs[q]
    BY <1>6 DEF Retain, StructureInv, SharingTypes
  <2>4. /\ \A s \in Request : s # r => table'[s] = table[s]
        /\ Len(table'[r]) = Len(table[r]) + 1
        /\ \A j \in 1..Len(table[r]) : table'[r][j] = table[r][j]
        /\ table'[r][Len(table[r]) + 1] = p
    <3>1. table'[r] = Append(table[r], p) /\ \A s \in Request : s # r => table'[s] = table[s]
      BY <1>6 DEF StructureInv, SharingTypes
    <3> QED BY <1>1, <1>2, <3>1, ExtendedTable
  <2>5. /\ text'[r] = SubSeq(want, 1, n) /\ written'[r] = n
        /\ \A s \in Request : s # r => text'[s] = text[s] /\ written'[s] = written[s]
    BY <1>6 DEF StructureInv, SharingTypes
  <2>6. /\ Len(text'[r]) = n /\ \A i \in 1..n : text'[r][i] = want[i]
        /\ \A i \in 1..Len(text[r]) : text[r][i] = want[i]
    <3>1. n \in 0..Len(want) /\ Len(text[r]) \in 0..Len(want)
      <4>1. Len(want) \in Nat
        BY TextIs, LenProperties
      <4> QED BY <1>1, <1>2, <1>4, <4>1
    <3> DEFINE k == Len(text[r])
    <3> HIDE DEF n, k
    <3>2. k \in 0..Len(want)
      BY <3>1 DEF k
    <3>3. Len(SubSeq(want, 1, n)) = n /\ \A i \in 1..n : SubSeq(want, 1, n)[i] = want[i]
      BY <3>1, CutText
    <3>4. \A i \in 1..k : SubSeq(want, 1, k)[i] = want[i]
      BY <3>2, CutText
    <3>5. text[r] = SubSeq(want, 1, k)
      BY <1>4 DEF k
    <3>6. \A i \in 1..k : text[r][i] = want[i]
      BY <3>4, <3>5
    <3> QED BY <2>5, <3>3, <3>6 DEF k
  <2>7. kv' \in Memory /\ CachedTrue'
    BY <1>6, <2>3, SameCached DEF ContentInv
  <2>8. ASSUME NEW s \in Request PROVE WrittenSound(s)'
    <3>1. WrittenSound(s)
      BY DEF ContentInv
    <3>2. CASE s # r
      <4>1. ASSUME NEW q \in ToSet(table[s]) PROVE Private(q) => refs'[q] = 1
        <5>1. q \in Page
          BY RequestTypes, InTable
        <5> QED BY <1>3, <2>3, <5>1 DEF Private
      <4> QED BY <1>1, <1>6, <2>3, <2>4, <2>5, <3>1, <3>2, <4>1, OtherRequest
    <3>3. CASE s = r
      <4> DEFINE l == Len(table[r])
                 m == l * BlockSize
      <4>1. l \in Nat /\ l + 1 \in Nat /\ m \in Nat /\ (l + 1) * BlockSize = m + BlockSize
            /\ BlockSize \in Nat \ {0} /\ n = m + BlockSize /\ Len(text[r]) = m
        BY <1>1, <1>4, NextBlock, BlockSizePositive
      <4> HIDE DEF n
      <4>2. Intact(r)'
        <5> SUFFICES ASSUME NEW i \in 1..n
                     PROVE  kv'[PageOf(r, i)'][OffsetOf(i)] = want[i]
          BY <2>5, <2>6 DEF Intact, OffsetOf
        <5>1. PageOf(r, i)' = table'[r][BlockNo(i)] /\ i \in Nat \ {0}
          BY <1>2 DEF PageOf, BlockNo
        <5>2. CASE i <= m
          <6>1. i \in 1..Len(text[r]) /\ i \in 1..written[r]
            <7> HIDE DEF m
            <7> QED BY <1>3, <4>1, <5>2
          <6>2. BlockNo(i) \in 1..Len(table[r]) /\ PageOf(r, i) = table[r][BlockNo(i)]
            BY <6>1, TokenPage
          <6>3. kv[PageOf(r, i)][OffsetOf(i)] = text[r][i]
            BY <3>1, <3>3, <6>1 DEF WrittenSound, Intact
          <6> QED BY <1>6, <2>4, <2>6, <5>1, <6>1, <6>2, <6>3
        <5>3. CASE i > m
          <6>1. i <= m + BlockSize
            <7> HIDE DEF m
            <7> QED BY <4>1
          <6>2. BlockNo(i) <= l + 1 /\ ~(BlockNo(i) <= l) /\ BlockNo(i) \in Nat
            <7>1. i <= (l + 1) * BlockSize /\ ~(i <= l * BlockSize)
              BY <4>1, <5>1, <5>3, <6>1
            <7>2. l \in Nat /\ l + 1 \in Nat /\ i \in Nat \ {0}
              BY <4>1, <5>1
            <7> HIDE DEF l, m
            <7>3. BlockNo(i) <= l + 1
              BY <7>1, <7>2, LocationBelow
            <7>4. ~(BlockNo(i) <= l)
              BY <7>1, <7>2, LocationBelow
            <7> QED BY <7>2, <7>3, <7>4, Location
          <6>3. BlockNo(i) = l + 1 /\ BlockNo(i) - 1 = l
            BY <4>1, <6>2
          <6>4. /\ i = (BlockNo(i) - 1) * BlockSize + OffsetOf(i) + 1
                /\ OffsetOf(i) \in 0..BlockSize - 1
            BY <5>1, Location
          <6>5. i = m + OffsetOf(i) + 1
            BY <6>3, <6>4
          <6>6. Len(prefix[p]) = n /\ \A k \in 1..n : prefix[p][k] = want[k]
            BY <1>2, <2>5, <2>6
          <6>7. kv[p][OffsetOf(i)] = prefix[p][n - BlockSize + OffsetOf(i) + 1]
            BY <1>3, <6>4, <6>6 DEF ContentInv, CachedTrue
          <6>8. n - BlockSize + OffsetOf(i) + 1 = i
            <7> HIDE DEF m
            <7> QED BY <4>1, <6>4, <6>5
          <6> QED BY <1>6, <2>4, <5>1, <6>3, <6>6, <6>7, <6>8
        <5> QED BY <4>1, <5>2, <5>3
      <4>3. PublishedIsWritten(r)'
        <5> SUFFICES ASSUME NEW j \in 1..l + 1 PROVE j * BlockSize <= n
          BY <2>4, <2>5 DEF PublishedIsWritten
        <5>1. j \in Nat /\ j <= l + 1
          BY <4>1
        <5>2. j * BlockSize <= (l + 1) * BlockSize
          BY <4>1, <5>1, TimesMonotone
        <5> QED BY <1>2, <5>2
      <4>4. ReservedIsAlone(r)'
        <5>1. written'[r] + 1..Len(text'[r]) = {}
          BY <1>2, <2>5, <2>6
        <5> QED BY <5>1 DEF ReservedIsAlone
      <4> QED BY <3>3, <4>2, <4>3, <4>4 DEF WrittenSound
    <3> QED BY <3>2, <3>3
  <2>9. NewIsEmpty'
    <3> SUFFICES ASSUME NEW s \in Request, kind'[s] = "new" PROVE text'[s] = <<>>
      BY DEF NewIsEmpty
    <3>1. s # r /\ kind[s] = "new"
      BY <1>4, <1>6
    <3> QED BY <1>1, <2>5, <3>1, NewHasNone
  <2>10. CallContent'
    BY <1>3, <2>1, <2>2, <2>3, <2>5, <2>6 DEF CallContent
  <2> QED BY <2>7, <2>8, <2>9, <2>10 DEF ContentInv
<1> QED BY <1>5, <1>6 DEF AttachPage

\* The handle of lookup is dropped.
LEMMA FreeLookupContent ==
    ASSUME StructureInv, ContentInv, FreeLookup
    PROVE  ContentInv'
<1>0. Doing("attached") /\ call.who \in Request /\ call.page \in Page /\ call.want \in Text
  BY CallTypes DEF FreeLookup, Doing
<1> PICK r \in Request : r = call.who
  BY <1>0
<1> PICK want \in Text : want = call.want
  BY <1>0
<1> PICK p \in Page : p = call.page
  BY <1>0
<1> DEFINE c == [op |-> "attach", who |-> r, want |-> want]
<1>1. /\ call' = c /\ UNCHANGED <<kind, table, text, written, prefix>>
      /\ refs' = [q \in Page |-> IF q \in {p} THEN refs[q] - 1 ELSE refs[q]]
      /\ kv' = [q \in Page |-> IF q \in {p} /\ refs[q] = 1 /\ prefix[q] = NoPrefix
                               THEN Blank ELSE kv[q]]
  BY DEF FreeLookup, GiveBack, Release, requests
<1>2. c \in Calls /\ c.op = "attach" /\ c.who = r
  BY CallBuilt
<1> HIDE DEF c
<1>3. (\A o : Doing(o)' <=> o = "attach") /\ (\A o : Doing(o) <=> o = "attached")
  BY <1>0, <1>1, <1>2, NextOp DEF Doing
<1>4. prefix[p] # NoPrefix /\ written[r] = Len(text[r])
  BY <1>0 DEF ContentInv, CallContent
<1>5. kv' = kv
  <2>1. kv = [q \in Page |-> kv[q]]
    BY DEF ContentInv, Memory
  <2>2. kv' = [q \in Page |-> kv[q]]
    BY <1>1, <1>4
  <2> QED BY <2>1, <2>2
<1>6. kv' \in Memory /\ CachedTrue' /\ \A s \in Request : WrittenSound(s)'
  BY <1>1, <1>3, <1>4, <1>5, StillContent DEF Private, Forking
<1>7. NewIsEmpty'
  BY <1>1, <1>3, NewHasNone DEF NewIsEmpty
<1>8. CallContent'
  BY <1>1, <1>2, <1>3, <1>4 DEF CallContent
<1> QED BY <1>6, <1>7, <1>8 DEF ContentInv

\* attach_cached_prefix returns.
LEMMA AttachedContent ==
    ASSUME StructureInv, ContentInv, Attached
    PROVE  ContentInv'
<1>1. Doing("attach") /\ call' = NoCall
      /\ UNCHANGED <<refs, prefix, kind, table, text, written, kv>>
  BY DEF Attached, poolVars, requests
<1>2. \A o : Doing(o) <=> o = "attach"
  BY <1>1 DEF Doing
<1>3. kv' \in Memory /\ CachedTrue' /\ \A s \in Request : WrittenSound(s)'
  BY <1>1, <1>2, StillContent DEF Private, Forking
<1>4. NewIsEmpty'
  BY <1>1, <1>2, NewHasNone DEF NewIsEmpty
<1> QED BY <1>1, <1>3, <1>4, NoCallContent DEF ContentInv

\* A request that is new has no tail to share.
LEMMA EmptyTail ==
    ASSUME StructureInv, ContentInv, NEW r \in Request, kind[r] = "new", call = NoCall
    PROVE  ~TailShared(r)
<1>1. text[r] = <<>>
  BY Idle, NewHasNone
<1>2. Len(text[r]) = 0 /\ 0 % BlockSize = 0
  <2>1. Len(text[r]) = 0
    BY <1>1
  <2>2. BlockSize \in Nat \ {0}
    BY BlockSizePositive
  <2>3. 0 % BlockSize = 0
    BY <2>2, SMT
  <2> QED BY <2>1, <2>3
<1> QED BY <1>2 DEF TailShared

\* Initially.
LEMMA ContentInit ==
    ASSUME Init
    PROVE  ContentInv
<1>1. /\ kv = [p \in Page |-> Blank] /\ prefix = [p \in Page |-> NoPrefix]
      /\ kind = [r \in Request |-> "none"] /\ table = [r \in Request |-> <<>>]
      /\ text = [r \in Request |-> <<>>] /\ written = [r \in Request |-> 0] /\ call = NoCall
  BY DEF Init, PoolInit
<1>2. kv \in Memory
  BY <1>1, BlankIs DEF Memory
<1>3. CachedTrue
  BY <1>1 DEF CachedTrue
<1>4. ASSUME NEW r \in Request PROVE WrittenSound(r)
  <2>1. Len(text[r]) = 0 /\ Len(table[r]) = 0 /\ written[r] = 0
    BY <1>1
  <2> QED BY <2>1 DEF WrittenSound, Intact, PublishedIsWritten, ReservedIsAlone
<1>5. NewIsEmpty /\ CallContent
  BY <1>1 DEF NewIsEmpty, CallContent, Doing
<1> QED BY <1>2, <1>3, <1>4, <1>5 DEF ContentInv

\* Every step keeps the contents.
LEMMA ContentStep ==
    ASSUME StructureInv, ContentInv, [Next]_vars
    PROVE  ContentInv'
<1>1. CASE UNCHANGED vars
  BY <1>1 DEF vars, poolVars, requests, ContentInv, Memory, CachedTrue, WrittenSound, Intact, PageOf,
     OffsetOf, Forking, PublishedIsWritten, ReservedIsAlone, NewIsEmpty, CallContent, Doing
<1>2. ASSUME NEW r \in Request, NEW k \in {"sequence", "new"}, Open(r, k) PROVE ContentInv'
  BY <1>2, OpenContent
<1>3. ASSUME NEW r \in Request, Close(r) PROVE ContentInv'
  BY <1>3, CloseContent
<1>4. ASSUME NEW r \in Request, NEW count \in 1..MaxTokens,
             AppendTokens(r, count) \/ Prefill(r, count)
      PROVE  ContentInv'
  BY <1>4, EmptyTail, BeginAppendContent DEF AppendTokens, Prefill
<1>5. ASSUME NEW r \in Request, AppendWithCopy(r) PROVE ContentInv'
  BY <1>5, AppendWithCopyContent
<1>6. ASSUME NEW r \in Request, Write(r) PROVE ContentInv'
  BY <1>6, WriteContent
<1>7. ASSUME NEW r \in Request, NEW from \in Request, BeginFork(from, r) PROVE ContentInv'
  BY <1>7, BeginForkContent
<1>8. ASSUME NEW r \in Request, NEW l \in DOMAIN table[r], PublishBlock(r, l) PROVE ContentInv'
  BY <1>8, PublishContent
<1>9. ASSUME NEW r \in Request, NEW want \in Text, BeginAttach(r, want) PROVE ContentInv'
  BY <1>9, BeginAttachContent
<1> QED BY <1>1, <1>2, <1>3, <1>4, <1>5, <1>6, <1>7, <1>8, <1>9, GrowContent, GrownContent, CopyContent,
        ComputeContent, AttendContent, ShareContent, ForkedContent, LookupContent, AttachPageContent,
        FreeLookupContent, AttachedContent DEF Next

\* Structure and contents are kept by every behaviour.
THEOREM SharingInvariant == Spec => [](StructureInv /\ ContentInv)
<1>1. Init => StructureInv /\ ContentInv
  BY StructureInit, ContentInit
<1>2. StructureInv /\ ContentInv /\ [Next]_vars => (StructureInv /\ ContentInv)'
  BY StructureStep, ContentStep
<1> QED BY <1>1, <1>2, PTL DEF Spec

\* What was written is read back where the table says, through every sharing,
\* copy, eviction and reuse of pages.
THEOREM TokensIntactHolds == Spec => []TokensIntact
<1>1. StructureInv /\ ContentInv => TokensIntact
  BY DEF ContentInv, WrittenSound, Intact, TokensIntact
<1> QED BY <1>1, SharingInvariant, PTL

\* A page that lookup finds holds the tokens of the prefix it is found under.
THEOREM CachedTrueHolds == Spec => []CachedTrue
<1>1. StructureInv /\ ContentInv => CachedTrue
  BY DEF ContentInv
<1> QED BY <1>1, SharingInvariant, PTL

\* A write that is due goes to pages nobody else refers to and no lookup finds.
THEOREM ReservedIsPrivateHolds == Spec => []ReservedIsPrivate
<1>1. StructureInv /\ ContentInv => ReservedIsPrivate
  <2> SUFFICES ASSUME StructureInv, ContentInv, NEW r \in Request,
                      NEW i \in written[r] + 1..Len(text[r])
               PROVE  refs[PageOf(r, i)] = 1 /\ prefix[PageOf(r, i)] = NoPrefix
    BY DEF ReservedIsPrivate
  <2> QED BY ReservedPrivate DEF ContentInv, Private
<1> QED BY <1>1, SharingInvariant, PTL

-----------------------------------------------------------------------------
(* What the kernels read.                                                  *)

\* A row of a batch: where its entries lie.
LEMMA RowEntry ==
    ASSUME NEW w \in Nat \ {0}, NEW x \in 0..w - 1
    PROVE  /\ x \div w = 0 /\ x % w = x
           /\ (w + x) \div w = 1 /\ (w + x) % w = x
<1>1. x \in Nat /\ x < w /\ w + x \in Nat
  OBVIOUS
<1>2. ASSUME NEW k \in {0, 1}
      PROVE  (k * w + x) \div w = k /\ (k * w + x) % w = x
  <2> DEFINE n == k * w + x
             q == n \div w
             o == n % w
  <2>1. n \in Nat /\ (k = 0 => n = x) /\ (k = 1 => n = w + x)
    BY <1>1
  <2>2. q \in Nat /\ o \in 0..w - 1 /\ n = q * w + o
    BY <2>1, Quotient
  <2> HIDE DEF q, o, n
  <2>3. q * w \in Nat
    BY <2>2, SMT
  <2>4. q < 2
    <3>1. ASSUME q >= 2 PROVE 2 * w <= q * w
      BY <2>2, <3>1, TimesMonotone
    <3>2. n < 2 * w
      BY <1>1, <2>1
    <3> QED BY <2>1, <2>2, <2>3, <3>1, <3>2
  <2>5. q = 0 \/ q = 1
    BY <2>2, <2>4
  <2>6. (q = 0 => n = o) /\ (q = 1 => n = w + o)
    BY <2>2
  <2>7. q = k /\ o = x
    BY <1>1, <2>1, <2>2, <2>5, <2>6
  <2> QED BY <2>7 DEF q, o, n
<1>3. 0 * w + x = x /\ 1 * w + x = w + x
  BY <1>1
<1>4. (0 * w + x) \div w = 0 /\ (0 * w + x) % w = x
  BY <1>2
<1>5. (1 * w + x) \div w = 1 /\ (1 * w + x) % w = x
  BY <1>2
<1> QED BY <1>3, <1>4, <1>5

\* A kernel that finds the pages of a request in its order, from some entry of a
\* table on, visits the tokens of the request.
LEMMA VisitReads ==
    ASSUME StructureInv, ContentInv, NEW r \in Request, written[r] = Len(text[r]),
           NEW blocks, NEW base \in Nat,
           \A j \in 1..Len(table[r]) : base + j \in DOMAIN blocks /\ blocks[base + j] = table[r][j],
           NEW n \in 0..Len(text[r])
    PROVE  Visit(kv, blocks, base, n - 1) = SubSeq(text[r], 1, n)
<1>1. text[r] \in Text /\ Len(text[r]) \in Nat /\ n \in Nat /\ n - 1 + 1 = n
  BY RequestTypes
<1>2. ASSUME NEW i \in 1..n
      PROVE  SlotAt(kv, blocks, base + (i - 1) \div BlockSize, i - 1) = text[r][i]
  <2>1. i \in 1..Len(text[r]) /\ i \in 1..written[r]
    BY <1>1
  <2>2. /\ BlockNo(i) \in 1..Len(table[r]) /\ PageOf(r, i) = table[r][BlockNo(i)]
        /\ PageOf(r, i) \in Page
    BY <2>1, TokenPage
  <2>3. kv[PageOf(r, i)][OffsetOf(i)] = text[r][i]
    BY <2>1 DEF ContentInv, WrittenSound, Intact
  <2> DEFINE d == (i - 1) \div BlockSize
  <2>4. d \in Nat /\ BlockNo(i) = d + 1
    <3>1. i - 1 \in Nat /\ BlockSize \in Nat \ {0}
      BY <1>1, BlockSizePositive
    <3> QED BY <3>1, Quotient DEF BlockNo
  <2> HIDE DEF d
  <2>5. base + d + 1 = base + BlockNo(i)
    BY <2>4
  <2>6. base + d + 1 \in DOMAIN blocks /\ blocks[base + d + 1] = PageOf(r, i)
    BY <2>2, <2>5
  <2>7. blocks[base + d + 1] # InvalidBlock
    BY <2>2, <2>6, InvalidBlockIsNoPage
  <2>8. SlotAt(kv, blocks, base + d, i - 1) = kv[PageOf(r, i)][(i - 1) % BlockSize]
    BY <2>6, <2>7 DEF SlotAt
  <2> QED BY <2>3, <2>8 DEF d, OffsetOf
<1>3. Visit(kv, blocks, base, n - 1) = [i \in 1..n |-> text[r][i]]
  BY <1>1, <1>2 DEF Visit
<1>4. SubSeq(text[r], 1, n) = [i \in 1..n |-> text[r][i]]
  <2>1. /\ SubSeq(text[r], 1, n) \in Text /\ Len(SubSeq(text[r], 1, n)) = n
        /\ \A i \in 1..n : SubSeq(text[r], 1, n)[i] = text[r][i]
    BY <1>1, CutText
  <2> DEFINE t == SubSeq(text[r], 1, n)
  <2> HIDE DEF t
  <2>2. t \in Seq(Token) /\ Len(t) = n
    BY <2>1, TextIs DEF t
  <2>3. t = [i \in 1..n |-> t[i]]
    BY <2>2, LenProperties
  <2>4. \A i \in 1..n : t[i] = text[r][i]
    BY <2>1 DEF t
  <2>5. t = [i \in 1..n |-> text[r][i]]
    BY <2>3, <2>4
  <2> QED BY <2>5 DEF t
<1> QED BY <1>3, <1>4

\* The same in the table of the request itself.
LEMMA VisitOwnTable ==
    ASSUME StructureInv, ContentInv, NEW r \in Request, written[r] = Len(text[r]),
           NEW n \in 0..Len(text[r])
    PROVE  Visit(kv, table[r], 0, n - 1) = SubSeq(text[r], 1, n)
<1>1. table[r] \in Seq(Page) /\ Len(table[r]) \in Nat
  BY RequestTypes
<1> DEFINE base == 0
<1>2. \A j \in 1..Len(table[r]) : base + j \in DOMAIN table[r] /\ table[r][base + j] = table[r][j]
  BY <1>1, LenProperties
<1>3. base \in Nat
  OBVIOUS
<1> HIDE DEF base
<1>4. Visit(kv, table[r], base, n - 1) = SubSeq(text[r], 1, n)
  BY <1>2, <1>3, VisitReads
<1> QED BY <1>4 DEF base

\* The whole text.
LEMMA WholeText ==
    ASSUME StructureInv, NEW r \in Request
    PROVE  SubSeq(text[r], 1, Len(text[r])) = text[r] /\ Len(text[r]) \in 0..Len(text[r])
<1>1. text[r] \in Seq(Token) /\ Len(text[r]) \in Nat
  BY RequestTypes, TextIs
<1> QED BY <1>1, SubSeqFull

\* The rows of a batch of two hold the tables of the two requests.
LEMMA BatchRows ==
    ASSUME NEW a \in Seq(Page), NEW b \in Seq(Page)
    PROVE  LET tables == <<a, b>>
               batch == BatchTable(tables) IN
           /\ RowStart(tables, 1) = 0 /\ RowStart(tables, 2) \in Nat
           /\ \A j \in 1..Len(a) : j \in DOMAIN batch /\ batch[j] = a[j]
           /\ \A j \in 1..Len(b) :
                RowStart(tables, 2) + j \in DOMAIN batch /\ batch[RowStart(tables, 2) + j] = b[j]
<1> DEFINE tables == <<a, b>>
           batch == BatchTable(tables)
           w == Width(tables)
           la == Len(a)
           lb == Len(b)
<1>1. la \in Nat /\ lb \in Nat
  BY LenProperties
<1>2. /\ DOMAIN tables = {1, 2} /\ tables[1] = a /\ tables[2] = b /\ Len(tables) = 2
  OBVIOUS
<1>3. w \in Nat /\ la <= w /\ lb <= w
  <2> DEFINE S == {Len(tables[request]) : request \in DOMAIN tables}
  <2>1. S = {la, lb}
    BY <1>2
  <2>2. \E x \in S : \A y \in S : x >= y
    BY <1>1, <2>1
  <2>3. Max(S) \in S /\ \A y \in S : Max(S) >= y
    BY <2>2 DEF Max
  <2>4. w = Max(S)
    BY DEF Width
  <2> HIDE DEF S, w
  <2> QED BY <1>1, <2>1, <2>3, <2>4
<1>4. batch = [entry \in 1..2 * w |->
        IF (entry - 1) % w < Len(tables[(entry - 1) \div w + 1])
        THEN tables[(entry - 1) \div w + 1][((entry - 1) % w) + 1] ELSE InvalidBlock]
  BY <1>2 DEF BatchTable
<1>5. RowStart(tables, 1) = 0 /\ RowStart(tables, 2) = w
  <2>1. RowStart(tables, 1) = (1 - 1) * w /\ RowStart(tables, 2) = (2 - 1) * w
    BY DEF RowStart
  <2> HIDE DEF w
  <2> QED BY <1>3, <2>1
<1> HIDE DEF w, batch, tables
<1>6. ASSUME NEW j \in 1..la PROVE j \in DOMAIN batch /\ batch[j] = a[j]
  <2>1. w \in Nat \ {0} /\ j - 1 \in 0..w - 1 /\ j \in 1..2 * w
    BY <1>1, <1>3
  <2>2. (j - 1) \div w = 0 /\ (j - 1) % w = j - 1
    BY <2>1, RowEntry
  <2>3. (j - 1) \div w + 1 = 1 /\ ((j - 1) % w) + 1 = j /\ (j - 1) % w < la
    BY <1>1, <2>1, <2>2
  <2>4. batch[j] = IF (j - 1) % w < Len(tables[(j - 1) \div w + 1])
                   THEN tables[(j - 1) \div w + 1][((j - 1) % w) + 1] ELSE InvalidBlock
    BY <1>4, <2>1
  <2>5. j \in DOMAIN batch
    BY <1>4, <2>1
  <2> QED BY <1>2, <2>3, <2>4, <2>5
<1>7. ASSUME NEW j \in 1..lb PROVE w + j \in DOMAIN batch /\ batch[w + j] = b[j]
  <2> DEFINE entry == w + j
  <2>1. w \in Nat \ {0} /\ j - 1 \in 0..w - 1 /\ entry \in 1..2 * w /\ entry - 1 = w + (j - 1)
    BY <1>1, <1>3
  <2> HIDE DEF entry
  <2>2. (w + (j - 1)) \div w = 1 /\ (w + (j - 1)) % w = j - 1
    BY <2>1, RowEntry
  <2>3. (entry - 1) \div w = 1 /\ (entry - 1) % w = j - 1
    BY <2>1, <2>2
  <2>4. (entry - 1) \div w + 1 = 2 /\ ((entry - 1) % w) + 1 = j /\ (entry - 1) % w < lb
    BY <1>1, <2>1, <2>3
  <2>5. batch[entry] = IF (entry - 1) % w < Len(tables[(entry - 1) \div w + 1])
                       THEN tables[(entry - 1) \div w + 1][((entry - 1) % w) + 1] ELSE InvalidBlock
    BY <1>4, <2>1
  <2>6. entry \in DOMAIN batch
    BY <1>4, <2>1
  <2>7. entry \in DOMAIN batch /\ batch[entry] = b[j]
    BY <1>2, <2>4, <2>5, <2>6
  <2> QED BY <2>7 DEF entry
<1> QED BY <1>3, <1>5, <1>6, <1>7 DEF batch, tables

\* A batch of two.
LEMMA BatchReads ==
    ASSUME StructureInv, ContentInv, NEW r \in Readable, NEW s \in Readable
    PROVE  AttendedBatch(kv, <<table[r], table[s]>>, <<Len(text[r]), Len(text[s])>>)
            = <<text[r], text[s]>>
<1> DEFINE tables == <<table[r], table[s]>>
           lengths == <<Len(text[r]), Len(text[s])>>
           batch == BatchTable(tables)
           start == RowStart(tables, 2)
<1>1. /\ r \in Request /\ written[r] = Len(text[r]) /\ table[r] \in Seq(Page)
      /\ s \in Request /\ written[s] = Len(text[s]) /\ table[s] \in Seq(Page)
  BY RequestTypes DEF Readable
<1>2. /\ RowStart(tables, 1) = 0 /\ start \in Nat
      /\ \A j \in 1..Len(table[r]) : j \in DOMAIN batch /\ batch[j] = table[r][j]
      /\ \A j \in 1..Len(table[s]) : start + j \in DOMAIN batch /\ batch[start + j] = table[s][j]
  BY <1>1, BatchRows
<1>3. AttendedBatch(kv, tables, lengths)
        = [request \in DOMAIN tables |->
            Visit(kv, batch, RowStart(tables, request), lengths[request] - 1)]
  BY DEF AttendedBatch
<1> HIDE DEF batch, start
<1>4. Visit(kv, batch, 0, Len(text[r]) - 1) = text[r]
  <2> DEFINE base == 0
  <2>1. base \in Nat /\ \A j \in 1..Len(table[r]) :
            base + j \in DOMAIN batch /\ batch[base + j] = table[r][j]
    BY <1>1, <1>2, RequestTypes
  <2> HIDE DEF base
  <2>2. Visit(kv, batch, base, Len(text[r]) - 1) = SubSeq(text[r], 1, Len(text[r]))
    BY <1>1, <2>1, VisitReads, WholeText
  <2> QED BY <1>1, <2>2, WholeText DEF base
<1>5. Visit(kv, batch, start, Len(text[s]) - 1) = text[s]
  <2>1. Visit(kv, batch, start, Len(text[s]) - 1) = SubSeq(text[s], 1, Len(text[s]))
    BY <1>1, <1>2, VisitReads, WholeText
  <2> QED BY <1>1, <2>1, WholeText
<1>6. /\ DOMAIN tables = {1, 2} /\ lengths[1] = Len(text[r]) /\ lengths[2] = Len(text[s])
  OBVIOUS
<1> DEFINE f == [request \in {1, 2} |->
                    Visit(kv, batch, RowStart(tables, request), lengths[request] - 1)]
<1>7. f[1] = text[r] /\ f[2] = text[s] /\ f = [request \in {1, 2} |-> f[request]]
  BY <1>2, <1>4, <1>5, <1>6 DEF start
<1>8. AttendedBatch(kv, tables, lengths) = f
  BY <1>3, <1>6
<1> HIDE DEF f
<1>9. f = <<text[r], text[s]>>
  <2>1. 1..2 = {1, 2}
    OBVIOUS
  <2> QED BY <1>7, <2>1
<1> QED BY <1>8, <1>9

\* Prefill, decode, read_paged_kv and batches see the tokens the contiguous text
\* would show them, through every sharing, copy, eviction and reuse of pages.
THEOREM AttentionSeesItsTokensHolds == Spec => []AttentionSeesItsTokens
<1>1. ASSUME StructureInv, ContentInv PROVE AttentionSeesItsTokens
  <2>1. ASSUME Doing("attend")
        PROVE  LET r == call.who IN
               Attended(kv, table[r], Len(text[r]), call.queries) = Reference(text[r], call.queries)
    <3>1. call.who \in Request /\ call.queries \in Nat
      BY <2>1, <1>1 DEF StructureInv, SharingTypes, Calls, Doing
    <3> PICK r \in Request : r = call.who
      BY <3>1
    <3> PICK n \in Nat : n = call.queries
      BY <3>1
    <3>2. written[r] = Len(text[r]) /\ n <= Len(text[r]) /\ Len(text[r]) \in Nat
      BY <1>1, <2>1, RequestTypes DEF ContentInv, CallContent
    <3>3. ASSUME NEW query \in 0..n - 1
          PROVE  Visit(kv, table[r], 0, LastVisible(Len(text[r]), n, query))
                    = SubSeq(text[r], 1, Len(text[r]) - n + query + 1)
      <4> DEFINE k == Len(text[r]) - n + query + 1
      <4>1. k \in 0..Len(text[r]) /\ LastVisible(Len(text[r]), n, query) = k - 1
        BY <3>2 DEF LastVisible
      <4> HIDE DEF k
      <4>2. Visit(kv, table[r], 0, k - 1) = SubSeq(text[r], 1, k)
        BY <1>1, <3>2, <4>1, VisitOwnTable
      <4> QED BY <4>1, <4>2 DEF k
    <3>4. Attended(kv, table[r], Len(text[r]), n) = Reference(text[r], n)
      BY <3>3 DEF Attended, Reference
    <3> QED BY <3>4
  <2>2. ASSUME NEW r \in Readable, NEW s \in Readable
        PROVE  /\ Gathered(kv, table[r], Len(text[r])) = text[r]
               /\ AttendedBatch(kv, <<table[r], table[s]>>, <<Len(text[r]), Len(text[s])>>)
                    = <<text[r], text[s]>>
    <3>1. r \in Request /\ written[r] = Len(text[r])
      BY DEF Readable
    <3>2. Visit(kv, table[r], 0, Len(text[r]) - 1) = text[r]
      BY <1>1, <3>1, WholeText, VisitOwnTable
    <3> QED BY <1>1, <3>2, BatchReads DEF Gathered
  <2> QED BY <2>1, <2>2 DEF AttentionSeesItsTokens
<1> QED BY <1>1, SharingInvariant, PTL
=============================================================================
