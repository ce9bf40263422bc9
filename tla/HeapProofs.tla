----------------------------- MODULE HeapProofs -----------------------------
(***************************************************************************)
(* The kernel heap, for any sizes of headers, pages and the heap, and for  *)
(* calls of any sizes: the blocks cover it, the list holds the holes, and  *)
(* no legal calls damage it but in the one way that OnlyStaleBackLink says.*)
(***************************************************************************)
EXTENDS Heap, QueueLemmas

(***************************************************************************)
(* The inductive invariant.  While the kernel runs, each block ends where  *)
(* another begins, or at the end of the heap ...                           *)
(***************************************************************************)
HolesOf(hdr) == {a \in DOMAIN hdr : hdr[a].is_hole}

Tiled(hdr) ==
    /\ DOMAIN hdr \subseteq HeapStart .. HeapEnd - 1
    /\ HeapStart \in DOMAIN hdr
    /\ \A a \in DOMAIN hdr :
          /\ hdr[a] \in [is_hole : BOOLEAN, size : Nat, prev : Nat]
          /\ hheader_next(hdr, a) \in DOMAIN hdr \cup {HeapEnd + HeaderSize}
    /\ \A a, b \in DOMAIN hdr : a < b => hheader_next(hdr, a) <= b

\* ... and points back to the one that ends where it begins.
Linked(hdr) ==
    /\ hdr[HeapStart].prev = NULL
    /\ \A b \in DOMAIN hdr \ {HeapStart} :
          hdr[b].prev \in DOMAIN hdr /\ hheader_next(hdr, hdr[b].prev) = b
    /\ \A a \in DOMAIN hdr :
          hheader_next(hdr, a) \in DOMAIN hdr => hdr[hheader_next(hdr, a)].prev = a

\* The hole that ends where another begins, if there is one, is in S.
HolesApartBut(hdr, S) ==
    \A a \in HolesOf(hdr) \ S : hheader_next(hdr, a) \notin HolesOf(hdr)

Sound(hdr) == Tiled(hdr) /\ Linked(hdr) /\ HolesApartBut(hdr, {})

\* The list holds the holes, each once.
Listed(m) ==
    /\ m.index \in Seq(Addresses)
    /\ IsInjective(m.index)
    /\ Range(m.index) = HolesOf(m.hdr)

\* The records are those of the blocks that are not holes, one for each.
Recorded(hdr, recs) ==
    /\ DOMAIN hdr \ HolesOf(hdr) = {rec.ptr - HeaderSize : rec \in recs}
    /\ \A rec \in recs : hdr[rec.ptr - HeaderSize].size - rec.size \in 0 .. HeaderSize
    /\ \A rec, other \in recs : rec.ptr = other.ptr => rec = other

IInv ==
    /\ TypeOK
    /\ IsFiniteSet(live)
    /\ halted = RUNNING => Sound(heap.hdr) /\ Listed(heap) /\ Recorded(heap.hdr, live)
    /\ OnlyStaleBackLink

---------------------------------------------------------------------------
(* The list of holes. *)

\* An element put into a list that does not hold it.
LEMMA InsertAtProperties ==
    ASSUME NEW S, NEW q \in Seq(S), NEW e \in S, NEW n \in 0 .. Len(q),
           IsInjective(q), e \notin Range(q)
    PROVE  LET r == InsertAt(q, n + 1, e)
           IN  r \in Seq(S) /\ IsInjective(r) /\ Range(r) = Range(q) \cup {e}
<1> DEFINE low == SubSeq(q, 1, n)
           high == SubSeq(q, n + 1, Len(q))
           r == (low \o << e >>) \o high
<1>1. /\ Len(q) \in Nat /\ n \in Nat /\ n <= Len(q)
      /\ DOMAIN q = 1 .. Len(q)
      /\ Range(q) = {q[i] : i \in 1 .. Len(q)}
  BY QueueRange
<1>2. InsertAt(q, n + 1, e) = r
  <2>1. (n + 1) - 1 = n
    BY <1>1
  <2> QED
    BY <2>1 DEF InsertAt
<1>3. /\ low \in Seq(S) /\ Len(low) = n
      /\ \A i \in 1 .. n : low[i] = q[i]
  BY <1>1, SubSeqProperties
<1>4. /\ high \in Seq(S) /\ Len(high) = Len(q) - n
      /\ \A i \in 1 .. Len(q) - n : high[i] = q[i + n]
  BY <1>1, DropProperties
<1>5. << e >> \in Seq(S) /\ Len(<< e >>) = 1 /\ << e >>[1] = e
  OBVIOUS
<1> HIDE DEF low, high
<1>6. /\ low \o << e >> \in Seq(S) /\ Len(low \o << e >>) = n + 1
      /\ \A i \in 1 .. n + 1 : (low \o << e >>)[i] = IF i <= n THEN q[i] ELSE e
  BY <1>1, <1>3, <1>5, ConcatProperties
<1>7. /\ r \in Seq(S) /\ Len(r) = Len(q) + 1
      /\ \A i \in 1 .. Len(q) + 1 :
            r[i] = IF i <= n THEN q[i] ELSE IF i = n + 1 THEN e ELSE q[i - 1]
  <2> DEFINE l == low \o << e >>
  <2>1. l \in Seq(S) /\ Len(l) = n + 1
    BY <1>6
  <2>2. \A i \in 1 .. n + 1 : l[i] = IF i <= n THEN q[i] ELSE e
    BY <1>6
  <2> HIDE DEF l
  <2>3. /\ l \o high \in Seq(S) /\ Len(l \o high) = Len(q) + 1
        /\ \A i \in 1 .. Len(q) + 1 :
              (l \o high)[i] = IF i <= n + 1 THEN l[i] ELSE high[i - (n + 1)]
    <3>1. /\ l \o high \in Seq(S) /\ Len(l \o high) = Len(l) + Len(high)
          /\ \A i \in 1 .. Len(l) + Len(high) :
                (l \o high)[i] = IF i <= Len(l) THEN l[i] ELSE high[i - Len(l)]
      BY <1>4, <2>1, ConcatProperties
    <3>2. Len(l) + Len(high) = Len(q) + 1
      BY <1>1, <1>4, <2>1
    <3> QED
      BY <2>1, <3>1, <3>2
  <2>4. ASSUME NEW i \in 1 .. Len(q) + 1
        PROVE  (l \o high)[i] = IF i <= n THEN q[i] ELSE IF i = n + 1 THEN e ELSE q[i - 1]
    <3>1. CASE i <= n + 1
      BY <1>1, <2>2, <2>3, <3>1
    <3>2. CASE i > n + 1
      <4>1. i - (n + 1) \in 1 .. Len(q) - n /\ i - (n + 1) + n = i - 1
        BY <1>1, <3>2
      <4>2. high[i - (n + 1)] = q[i - 1]
        BY <1>4, <4>1
      <4>3. ~ (i <= n + 1) /\ ~ (i <= n) /\ i # n + 1
        BY <1>1, <3>2
      <4> QED
        BY <2>3, <4>2, <4>3
    <3>3. i <= n + 1 \/ i > n + 1
      BY <1>1
    <3> QED
      BY <3>1, <3>2, <3>3
  <2> QED
    BY <2>3, <2>4 DEF l
<1> HIDE DEF r
<1>8. Range(r) = {r[i] : i \in 1 .. Len(q) + 1} /\ DOMAIN r = 1 .. Len(q) + 1
  BY <1>7, QueueRange
<1>9. Range(r) = Range(q) \cup {e}
  <2>1. ASSUME NEW x \in Range(r) PROVE x \in Range(q) \cup {e}
    <3>1. PICK i \in 1 .. Len(q) + 1 : x = r[i]
      BY <1>8
    <3>2. i \in 1 .. Len(q) \/ i = n + 1 \/ i - 1 \in 1 .. Len(q)
      BY <1>1
    <3> QED
      BY <1>1, <1>7, <3>1
  <2>2. ASSUME NEW i \in 1 .. Len(q) PROVE q[i] \in Range(r)
    <3>1. CASE i <= n
      <4>1. i \in 1 .. Len(q) + 1 /\ r[i] = q[i]
        BY <1>1, <1>7, <3>1
      <4> QED
        BY <1>8, <4>1
    <3>2. CASE i > n
      <4>1. i + 1 \in 1 .. Len(q) + 1 /\ r[i + 1] = q[i]
        BY <1>1, <1>7, <3>2
      <4> QED
        BY <1>8, <4>1
    <3> QED
      BY <1>1, <3>1, <3>2
  <2>3. n + 1 \in 1 .. Len(q) + 1 /\ r[n + 1] = e
    BY <1>1, <1>7
  <2>4. e \in Range(r)
    BY <1>8, <2>3
  <2>5. Range(q) \subseteq Range(r)
    BY <1>1, <2>2
  <2> QED
    BY <2>1, <2>4, <2>5
<1>10. IsInjective(r)
  <2>1. \A i, j \in 1 .. Len(q) : q[i] = q[j] => i = j
    BY <1>1 DEF IsInjective
  <2>2. \A i \in 1 .. Len(q) : q[i] # e
    BY <1>1
  <2>3. ASSUME NEW i \in 1 .. Len(q) + 1, NEW j \in 1 .. Len(q) + 1, i < j, r[i] = r[j]
        PROVE  FALSE
    <3>1. i \in Int /\ j \in Int
      OBVIOUS
    <3>2. CASE j <= n
      <4>1. /\ i \in 1 .. Len(q) /\ j \in 1 .. Len(q) /\ r[i] = q[i] /\ r[j] = q[j]
            /\ i # j
        BY <1>1, <1>7, <2>3, <3>1, <3>2
      <4> QED
        BY <2>1, <2>3, <4>1
    <3>3. CASE j = n + 1
      <4>1. i \in 1 .. Len(q) /\ r[i] = q[i] /\ r[j] = e
        BY <1>1, <1>7, <2>3, <3>1, <3>3
      <4> QED
        BY <2>2, <2>3, <4>1
    <3>4. CASE j > n + 1 /\ i <= n
      <4>1. /\ i \in 1 .. Len(q) /\ j - 1 \in 1 .. Len(q) /\ r[i] = q[i] /\ r[j] = q[j - 1]
            /\ i # j - 1
        BY <1>1, <1>7, <2>3, <3>1, <3>4
      <4> QED
        BY <2>1, <2>3, <4>1
    <3>5. CASE j > n + 1 /\ i = n + 1
      <4>1. j - 1 \in 1 .. Len(q) /\ r[i] = e /\ r[j] = q[j - 1]
        BY <1>1, <1>7, <2>3, <3>1, <3>5
      <4> QED
        BY <2>2, <2>3, <4>1
    <3>6. CASE j > n + 1 /\ i > n + 1
      <4>1. /\ i - 1 \in 1 .. Len(q) /\ j - 1 \in 1 .. Len(q) /\ i - 1 # j - 1
            /\ r[i] = q[i - 1] /\ r[j] = q[j - 1]
        BY <1>1, <1>7, <2>3, <3>1, <3>6
      <4> QED
        BY <2>1, <2>3, <4>1
    <3> QED
      BY <1>1, <3>1, <3>2, <3>3, <3>4, <3>5, <3>6
  <2>4. \A i, j \in 1 .. Len(q) + 1 : r[i] = r[j] => i = j
    <3> SUFFICES ASSUME NEW i \in 1 .. Len(q) + 1, NEW j \in 1 .. Len(q) + 1, r[i] = r[j]
                 PROVE  i = j
      OBVIOUS
    <3>1. ~ (i < j) /\ ~ (j < i)
      BY <2>3
    <3> QED
      BY <1>1, <3>1
  <2> QED
    BY <1>8, <2>4 DEF IsInjective
<1> QED
  BY <1>2, <1>7, <1>9, <1>10

\* What is left of a list without the element at a place.
LEMMA RemoveAtProperties ==
    ASSUME NEW S, NEW q \in Seq(S), NEW n \in 1 .. Len(q), IsInjective(q)
    PROVE  LET r == RemoveAt(q, n)
           IN  r \in Seq(S) /\ IsInjective(r) /\ Range(r) = Range(q) \ {q[n]}
<1> DEFINE low == SubSeq(q, 1, n - 1)
           high == SubSeq(q, n + 1, Len(q))
           r == low \o high
<1>1. /\ Len(q) \in Nat /\ n \in Nat /\ n <= Len(q) /\ n - 1 \in Nat /\ 1 <= n
      /\ n \in 0 .. Len(q)
      /\ DOMAIN q = 1 .. Len(q)
      /\ Range(q) = {q[i] : i \in 1 .. Len(q)}
  BY QueueRange
<1>2. RemoveAt(q, n) = r
  BY DEF RemoveAt
<1>3. /\ low \in Seq(S) /\ Len(low) = n - 1
      /\ \A i \in 1 .. n - 1 : low[i] = q[i]
  <2>1. \A i \in 1 .. n - 1 : q[i] \in S
    BY <1>1
  <2>2. /\ low \in Seq(S) /\ Len(low) = IF 1 <= n - 1 THEN (n - 1) - 1 + 1 ELSE 0
        /\ \A i \in 1 .. (n - 1) - 1 + 1 : low[i] = q[1 + i - 1]
    BY <1>1, <2>1, SubSeqProperties
  <2> HIDE DEF low
  <2> QED
    BY <1>1, <2>2
<1>4. /\ high \in Seq(S) /\ Len(high) = Len(q) - n
      /\ \A i \in 1 .. Len(q) - n : high[i] = q[i + n]
  <2>1. n \in 0 .. Len(q)
    BY <1>1
  <2>2. /\ SubSeq(q, n + 1, Len(q)) \in Seq(S)
        /\ Len(SubSeq(q, n + 1, Len(q))) = Len(q) - n
        /\ \A i \in 1 .. Len(SubSeq(q, n + 1, Len(q))) : SubSeq(q, n + 1, Len(q))[i] = q[i + n]
    BY <2>1, DropProperties
  <2> QED
    BY <2>2
<1> HIDE DEF low, high
<1>5. /\ r \in Seq(S) /\ Len(r) = Len(q) - 1
      /\ \A i \in 1 .. Len(q) - 1 : r[i] = IF i < n THEN q[i] ELSE q[i + 1]
  <2>1. /\ low \o high \in Seq(S) /\ Len(low \o high) = Len(low) + Len(high)
        /\ \A i \in 1 .. Len(low) + Len(high) :
              (low \o high)[i] = IF i <= Len(low) THEN low[i] ELSE high[i - Len(low)]
    BY <1>3, <1>4, ConcatProperties
  <2>2. Len(low) + Len(high) = Len(q) - 1
    BY <1>1, <1>3, <1>4
  <2>3. ASSUME NEW i \in 1 .. Len(q) - 1
        PROVE  r[i] = IF i < n THEN q[i] ELSE q[i + 1]
    <3>1. CASE i < n
      <4>1. i \in 1 .. n - 1 /\ i <= Len(low)
        BY <1>1, <1>3, <3>1
      <4> QED
        BY <1>3, <2>1, <2>2, <3>1, <4>1
    <3>2. CASE i >= n
      <4>1. /\ i - Len(low) \in 1 .. Len(q) - n /\ i - Len(low) + n = i + 1
            /\ ~ (i <= Len(low)) /\ ~ (i < n)
        BY <1>1, <1>3, <3>2
      <4>2. high[i - Len(low)] = q[i + 1]
        BY <1>4, <4>1
      <4> QED
        BY <2>1, <2>2, <4>1, <4>2
    <3>3. i < n \/ i >= n
      BY <1>1
    <3> QED
      BY <3>1, <3>2, <3>3
  <2> QED
    BY <2>1, <2>2, <2>3
<1> HIDE DEF r
<1>6. Range(r) = {r[i] : i \in 1 .. Len(q) - 1} /\ DOMAIN r = 1 .. Len(q) - 1
  BY <1>5, QueueRange
<1>7. \A i, j \in 1 .. Len(q) : q[i] = q[j] => i = j
  BY <1>1 DEF IsInjective
<1>8. Range(r) = Range(q) \ {q[n]}
  <2>1. ASSUME NEW x \in Range(r) PROVE x \in Range(q) \ {q[n]}
    <3>1. PICK i \in 1 .. Len(q) - 1 : x = r[i]
      BY <1>6
    <3>2. CASE i < n
      <4>1. i \in 1 .. Len(q) /\ i # n /\ x = q[i]
        BY <1>1, <1>5, <3>1, <3>2
      <4> QED
        BY <1>1, <1>7, <4>1
    <3>3. CASE ~ (i < n)
      <4>1. i + 1 \in 1 .. Len(q) /\ i + 1 # n /\ x = q[i + 1]
        BY <1>1, <1>5, <3>1, <3>3
      <4> QED
        BY <1>1, <1>7, <4>1
    <3> QED
      BY <3>2, <3>3
  <2>2. ASSUME NEW i \in 1 .. Len(q), i # n PROVE q[i] \in Range(r)
    <3>1. CASE i < n
      <4>1. i \in 1 .. Len(q) - 1 /\ r[i] = q[i]
        BY <1>1, <1>5, <3>1
      <4> QED
        BY <1>6, <4>1
    <3>2. CASE i > n
      <4>1. i - 1 \in 1 .. Len(q) - 1 /\ ~ (i - 1 < n) /\ (i - 1) + 1 = i
        BY <1>1, <3>2
      <4>2. r[i - 1] = q[i]
        BY <1>5, <4>1
      <4> QED
        BY <1>6, <4>1, <4>2
    <3>3. i < n \/ i > n
      BY <1>1, <2>2
    <3> QED
      BY <3>1, <3>2, <3>3
  <2>3. ASSUME NEW x \in Range(q), x # q[n] PROVE x \in Range(r)
    <3>1. PICK i \in 1 .. Len(q) : x = q[i]
      BY <1>1
    <3> QED
      BY <2>2, <2>3, <3>1
  <2> QED
    BY <2>1, <2>3
<1>9. IsInjective(r)
  <2> SUFFICES ASSUME NEW i \in 1 .. Len(q) - 1, NEW j \in 1 .. Len(q) - 1, r[i] = r[j]
               PROVE  i = j
    BY <1>6 DEF IsInjective
  <2>1. r[i] = q[IF i < n THEN i ELSE i + 1] /\ r[j] = q[IF j < n THEN j ELSE j + 1]
    BY <1>5
  <2>2. /\ (IF i < n THEN i ELSE i + 1) \in 1 .. Len(q)
        /\ (IF j < n THEN j ELSE j + 1) \in 1 .. Len(q)
    BY <1>1
  <2>3. (IF i < n THEN i ELSE i + 1) = (IF j < n THEN j ELSE j + 1)
    BY <1>7, <2>1, <2>2
  <2> QED
    BY <1>1, <2>3
<1> QED
  BY <1>2, <1>5, <1>8, <1>9

LEMMA ordlist_insertProperties ==
    ASSUME NEW S, NEW q \in Seq(S), NEW e \in S, NEW hdr,
           IsInjective(q), e \notin Range(q)
    PROVE  LET r == ordlist_insert(hdr, q, e)
           IN  r \in Seq(S) /\ IsInjective(r) /\ Range(r) = Range(q) \cup {e}
<1> DEFINE I == {i \in 1 .. Len(q) : hdr[q[i]].size <= hdr[e].size}
           n == IF I # {} THEN Max(I) ELSE 0
<1>1. ordlist_insert(hdr, q, e) = InsertAt(q, n + 1, e)
  BY DEF ordlist_insert, SelectLastInSeq
<1>2. Len(q) \in Nat
  BY QueueRange
<1>3. n \in 0 .. Len(q)
  <2>1. CASE I # {}
    <3>1. I \in SUBSET (1 .. Len(q))
      OBVIOUS
    <3>2. IsFiniteSet(1 .. Len(q))
      BY <1>2, FS_Interval
    <3> HIDE DEF I
    <3>3. IsFiniteSet(I)
      BY <3>1, <3>2, FS_Subset
    <3>4. I \in SUBSET Int
      BY <3>1
    <3>5. \E x \in I : \A y \in I : x >= y
      BY <2>1, <3>3, <3>4, SetEnds
    <3>6. Max(I) \in I
      BY <3>5 DEF Max
    <3>7. Max(I) \in 1 .. Len(q)
      BY <3>1, <3>6
    <3>8. \A i \in 1 .. Len(q) : i \in 0 .. Len(q)
      BY <1>2
    <3>9. n = Max(I)
      BY <2>1
    <3> QED
      BY <3>7, <3>8, <3>9
  <2>2. CASE I = {}
    BY <1>2, <2>2
  <2> QED
    BY <2>1, <2>2
<1> HIDE DEF n
<1> QED
  BY <1>1, <1>3, InsertAtProperties

LEMMA ordlist_removeProperties ==
    ASSUME NEW S, NEW q \in Seq(S), NEW e, IsInjective(q), e \in Range(q)
    PROVE  LET r == ordlist_remove(q, e)
           IN  r \in Seq(S) /\ IsInjective(r) /\ Range(r) = Range(q) \ {e}
<1> DEFINE I == {i \in 1 .. Len(q) : q[i] = e}
<1>1. \E i \in 1 .. Len(q) : q[i] = e
  BY QueueRange
<1>2. Min(I) \in I
  <2>1. I \in SUBSET (1 .. Len(q)) /\ I # {}
    BY <1>1
  <2>2. IsFiniteSet(1 .. Len(q))
    BY QueueRange, FS_Interval
  <2> HIDE DEF I
  <2>3. IsFiniteSet(I)
    BY <2>1, <2>2, FS_Subset
  <2>4. I \in SUBSET Int
    BY <2>1
  <2> QED
    BY <2>1, <2>3, <2>4, SetEnds DEF Min
<1>3. ordlist_remove(q, e) = RemoveAt(q, Min(I))
  BY <1>1 DEF ordlist_remove, RemoveFirst, SelectInSeq
<1>4. PICK n \in 1 .. Len(q) : q[n] = e /\ ordlist_remove(q, e) = RemoveAt(q, n)
  BY <1>2, <1>3
<1> QED
  BY <1>4, RemoveAtProperties

---------------------------------------------------------------------------
(* The layout of the heap. *)

\* What the assumption on the constants says of them one by one.
LEMMA ConstantFacts ==
    /\ HeaderSize \in Nat /\ HeaderSize > 0 /\ PageSize \in Int /\ PageSize > 2 * HeaderSize
    /\ HeapStart \in Nat /\ HeapStart > 0 /\ HeapStart % PageSize = 0
    /\ HeapSize \in Nat /\ HeapSize > 0
    /\ HeapEnd \in Nat /\ HeapEnd = HeapStart + HeapSize
    /\ NULL = 0
BY SizesAssumption DEF HeapEnd, NULL

LEMMA BlockFacts ==
    ASSUME NEW hdr, Tiled(hdr), NEW a \in DOMAIN hdr
    PROVE  /\ a \in Nat /\ HeapStart <= a /\ a < HeapEnd
           /\ hdr[a] \in [is_hole : BOOLEAN, size : Nat, prev : Nat]
           /\ hdr[a].size \in Nat /\ hdr[a].is_hole \in BOOLEAN /\ hdr[a].prev \in Nat
           /\ hheader_next(hdr, a) \in Nat
           /\ hheader_next(hdr, a) = a + HeaderSize + hdr[a].size
           /\ a + HeaderSize <= hheader_next(hdr, a) /\ a < hheader_next(hdr, a)
           /\ hheader_next(hdr, a) <= HeapEnd + HeaderSize
           /\ hheader_next(hdr, a) \in DOMAIN hdr <=> hheader_isvalid(hheader_next(hdr, a))
           /\ hheader_next(hdr, a) \notin DOMAIN hdr =>
                 hheader_next(hdr, a) = HeapEnd + HeaderSize
           /\ hheader_next(hdr, a) # HeapStart
<1>1. a \in HeapStart .. HeapEnd - 1
  BY DEF Tiled
<1>2. hdr[a] \in [is_hole : BOOLEAN, size : Nat, prev : Nat]
  BY DEF Tiled
<1>3. hheader_next(hdr, a) \in DOMAIN hdr \cup {HeapEnd + HeaderSize}
  BY DEF Tiled
<1>4. hheader_next(hdr, a) = a + HeaderSize + hdr[a].size
  BY DEF hheader_next
<1>5. a \in Nat /\ HeapStart <= a /\ a < HeapEnd
  BY <1>1, ConstantFacts
<1>6. hdr[a].size \in Nat /\ hdr[a].is_hole \in BOOLEAN /\ hdr[a].prev \in Nat
  BY <1>2
<1>7. /\ hheader_next(hdr, a) \in Nat
      /\ a + HeaderSize <= hheader_next(hdr, a) /\ a < hheader_next(hdr, a)
      /\ hheader_next(hdr, a) # HeapStart
  BY <1>4, <1>5, <1>6, ConstantFacts
<1>8. \A b \in DOMAIN hdr : b < HeapEnd
  BY ConstantFacts DEF Tiled
<1>9. CASE hheader_next(hdr, a) \in DOMAIN hdr
  <2>1. hheader_next(hdr, a) < HeapEnd
    BY <1>8, <1>9
  <2>2. hheader_next(hdr, a) <= HeapEnd + HeaderSize
    BY <1>7, <2>1, ConstantFacts
  <2> QED
    BY <1>2, <1>4, <1>5, <1>6, <1>7, <1>9, <2>1, <2>2 DEF hheader_isvalid
<1>10. CASE hheader_next(hdr, a) \notin DOMAIN hdr
  <2>1. hheader_next(hdr, a) = HeapEnd + HeaderSize
    BY <1>3, <1>10
  <2>2. hheader_next(hdr, a) <= HeapEnd + HeaderSize /\ ~ (hheader_next(hdr, a) < HeapEnd)
    BY <2>1, ConstantFacts
  <2> QED
    BY <1>2, <1>4, <1>5, <1>6, <1>7, <1>10, <2>1, <2>2 DEF hheader_isvalid
<1> QED
  BY <1>9, <1>10

\* The walk of heap_check meets every block.
LEMMA WalkMeetsAll ==
    ASSUME NEW hdr, Tiled(hdr)
    PROVE  Walk(hdr) = DOMAIN hdr
<1> DEFINE D == DOMAIN hdr
           Step(f) == [a \in Addresses |->
                          IF a \in DOMAIN hdr /\ hheader_isvalid(hheader_next(hdr, a))
                          THEN {a} \cup f[hheader_next(hdr, a)] ELSE {a}]
           Above(a) == {b \in D : b >= a}
           g == [a \in Addresses |-> IF a \in D THEN Above(a) ELSE {a}]
<1>1. D \subseteq Addresses
  BY ConstantFacts DEF Tiled, Addresses
<1>2. /\ \A a \in D : a \in Int /\ hheader_next(hdr, a) \in Int /\ a < hheader_next(hdr, a)
      /\ \A a \in D : hheader_isvalid(hheader_next(hdr, a)) => hheader_next(hdr, a) \in D
      /\ \A a \in D : ~ hheader_isvalid(hheader_next(hdr, a)) =>
             \A b \in D : b < hheader_next(hdr, a)
      /\ \A a, b \in D : a < b => hheader_next(hdr, a) <= b
  <2>1. \A a \in D : a \in Int /\ hheader_next(hdr, a) \in Int /\ a < hheader_next(hdr, a)
    BY BlockFacts
  <2>2. \A a \in D : hheader_isvalid(hheader_next(hdr, a)) => hheader_next(hdr, a) \in D
    BY BlockFacts
  <2>3. \A a, b \in D : a < b => hheader_next(hdr, a) <= b
    BY DEF Tiled
  <2>4. ASSUME NEW a \in D, ~ hheader_isvalid(hheader_next(hdr, a)), NEW b \in D
        PROVE  b < hheader_next(hdr, a)
    <3>1. hheader_next(hdr, a) >= HeapEnd /\ b < HeapEnd
      BY <2>1, <2>4, BlockFacts, ConstantFacts DEF hheader_isvalid
    <3> QED
      BY <2>1, <3>1, ConstantFacts
  <2> QED
    BY <2>1, <2>2, <2>3, <2>4
<1>3. ASSUME NEW a \in D, ~ hheader_isvalid(hheader_next(hdr, a))
      PROVE  Above(a) = {a}
  <2>1. ASSUME NEW b \in D, b >= a, b # a PROVE FALSE
    <3>1. a < b
      BY <1>2, <2>1
    <3>2. hheader_next(hdr, a) <= b /\ b < hheader_next(hdr, a)
      BY <1>2, <1>3, <3>1
    <3> QED
      BY <1>2, <3>2
  <2>2. a >= a
    BY <1>2
  <2> QED
    BY <2>1, <2>2
<1>4. ASSUME NEW a \in D, hheader_isvalid(hheader_next(hdr, a))
      PROVE  Above(a) = {a} \cup Above(hheader_next(hdr, a))
  <2>1. ASSUME NEW b \in D PROVE b >= a <=> b = a \/ b >= hheader_next(hdr, a)
    <3>1. a < b => hheader_next(hdr, a) <= b
      BY <1>2
    <3> QED
      BY <1>2, <3>1
  <2> QED
    BY <2>1
<1>5. g = Step(g)
  <2> HIDE DEF Above
  <2>1. ASSUME NEW a \in Addresses PROVE g[a] = Step(g)[a]
    <3>1. CASE a \notin D
      BY <3>1
    <3>2. CASE a \in D /\ ~ hheader_isvalid(hheader_next(hdr, a))
      BY <1>3, <3>2
    <3>3. CASE a \in D /\ hheader_isvalid(hheader_next(hdr, a))
      <4>1. hheader_next(hdr, a) \in D /\ hheader_next(hdr, a) \in Addresses
        BY <1>1, <1>2, <3>3
      <4>2. g[hheader_next(hdr, a)] = Above(hheader_next(hdr, a))
        BY <4>1
      <4> QED
        BY <1>4, <3>3, <4>2
    <3> QED
      BY <3>1, <3>2, <3>3
  <2>2. g = [a \in Addresses |-> g[a]] /\ Step(g) = [a \in Addresses |-> Step(g)[a]]
    OBVIOUS
  <2> QED
    BY <2>1, <2>2
<1>6. \E f : f = Step(f) /\ Walk(hdr) = f[HeapStart]
  <2> HIDE DEF g
  <2> QED
    BY <1>5 DEF Walk
<1>7. PICK f : f = Step(f) /\ Walk(hdr) = f[HeapStart]
  BY <1>6
<1>8. \A a \in D : f[a] = Above(a)
  <2> DEFINE Wrong == {a \in D : f[a] # Above(a)}
  <2> SUFFICES ASSUME Wrong # {} PROVE FALSE
    OBVIOUS
  <2>1. Wrong \in SUBSET D /\ D \in SUBSET (HeapStart .. HeapEnd - 1)
    BY DEF Tiled
  <2>2. IsFiniteSet(HeapStart .. HeapEnd - 1)
    BY ConstantFacts, FS_Interval
  <2> HIDE DEF Wrong, D
  <2>3. IsFiniteSet(D)
    BY <2>1, <2>2, FS_Subset
  <2>4. IsFiniteSet(Wrong)
    BY <2>1, <2>3, FS_Subset
  <2>5. Wrong \in SUBSET Int
    BY <1>2, <2>1
  <2>6. PICK a \in Wrong : \A b \in Wrong : a >= b
    BY <2>4, <2>5, SetEnds
  <2> USE DEF D
  <2>7. a \in D /\ f[a] # Above(a) /\ a \in Addresses
    BY <1>1, <2>6 DEF Wrong
  <2>8. f[a] = Step(f)[a]
    BY <1>7
  <2>9. CASE ~ hheader_isvalid(hheader_next(hdr, a))
    BY <1>3, <2>7, <2>8, <2>9
  <2>10. CASE hheader_isvalid(hheader_next(hdr, a))
    <3>1. hheader_next(hdr, a) \in D /\ hheader_next(hdr, a) \notin Wrong
      BY <1>2, <2>5, <2>6, <2>7, <2>10
    <3>2. f[hheader_next(hdr, a)] = Above(hheader_next(hdr, a))
      BY <3>1 DEF Wrong
    <3> HIDE DEF Above
    <3>3. f[a] = {a} \cup f[hheader_next(hdr, a)]
      BY <2>7, <2>8, <2>10
    <3> QED
      BY <1>4, <2>7, <2>10, <3>2, <3>3
  <2> QED
    BY <2>9, <2>10
<1>9. HeapStart \in D /\ \A b \in D : b >= HeapStart
  BY ConstantFacts DEF Tiled
<1> QED
  BY <1>7, <1>8, <1>9

\* What the checks of heap_check ask for holds of a sound heap.
LEMMA SoundPasses ==
    ASSUME NEW hdr, Sound(hdr)
    PROVE  heap_check(hdr)
<1>1. Tiled(hdr) /\ Linked(hdr) /\ Walk(hdr) = DOMAIN hdr
  BY WalkMeetsAll DEF Sound
<1> SUFFICES ASSUME NEW cur \in DOMAIN hdr
             PROVE  LinkedBefore(hdr, cur) /\ LinkedAfter(hdr, cur)
  BY <1>1 DEF heap_check
<1>2. \A a \in DOMAIN hdr : ~ (hdr[a].is_hole /\ hheader_next(hdr, a) \in DOMAIN hdr
                               /\ hdr[hheader_next(hdr, a)].is_hole)
  BY DEF Sound, HolesApartBut, HolesOf
<1>3. LinkedBefore(hdr, cur)
  <2>1. CASE cur = HeapStart
    <3>1. hdr[cur].prev = 0
      BY <1>1, <2>1, ConstantFacts DEF Linked
    <3> QED
      BY <2>1, <3>1, ConstantFacts DEF LinkedBefore
  <2>2. CASE cur # HeapStart
    <3>1. hdr[cur].prev \in DOMAIN hdr /\ hheader_next(hdr, hdr[cur].prev) = cur
      BY <1>1, <2>2 DEF Linked
    <3>2. hdr[cur].prev <= cur
      <4>1. hdr[cur].prev \in Nat /\ cur \in Nat /\ hdr[cur].prev < hheader_next(hdr, hdr[cur].prev)
        BY <1>1, <3>1, BlockFacts
      <4> QED
        BY <3>1, <4>1
    <3> QED
      BY <1>2, <3>1, <3>2 DEF LinkedBefore
  <2> QED
    BY <2>1, <2>2
<1>4. LinkedAfter(hdr, cur)
  <2>1. hheader_isvalid(hheader_next(hdr, cur)) => hheader_next(hdr, cur) \in DOMAIN hdr
    BY <1>1, BlockFacts
  <2> QED
    BY <1>1, <1>2, <2>1 DEF LinkedAfter, Linked
<1> QED
  BY <1>3, <1>4

---------------------------------------------------------------------------
(* What a split and a merge do to the layout. *)

HeaderType == [is_hole : BOOLEAN, size : Nat, prev : Nat]

\* A header put at m, within the block at a.
SplitAt(hdr, a, m, new) ==
    /\ DOMAIN new = DOMAIN hdr \cup {m}
    /\ \A b \in DOMAIN new : new[b] \in HeaderType
    /\ \A b \in DOMAIN hdr \ {a} : hheader_next(new, b) = hheader_next(hdr, b)
    /\ hheader_next(new, a) = m
    /\ hheader_next(new, m) = hheader_next(hdr, a)

LEMMA SplitTiled ==
    ASSUME NEW hdr, Tiled(hdr), NEW a \in DOMAIN hdr, NEW m \in Int,
           a + HeaderSize <= m, m < hheader_next(hdr, a), m < HeapEnd,
           NEW new, SplitAt(hdr, a, m, new)
    PROVE  Tiled(new) /\ m \notin DOMAIN hdr
<1>1. /\ a \in Nat /\ HeapStart <= a /\ a < m
      /\ hheader_next(hdr, a) \in Nat
  BY BlockFacts, ConstantFacts
<1>2. \A b, c \in DOMAIN hdr : b < c => hheader_next(hdr, b) <= c
  BY DEF Tiled
<1>3. \A b \in DOMAIN hdr : b \in Nat /\ hheader_next(hdr, b) \in Nat
  BY BlockFacts
<1>4. m \notin DOMAIN hdr
  BY <1>1, <1>2
<1>5. DOMAIN new \subseteq HeapStart .. HeapEnd - 1 /\ HeapStart \in DOMAIN new
  <2>1. m \in HeapStart .. HeapEnd - 1
    BY <1>1, ConstantFacts
  <2> QED
    BY <2>1 DEF Tiled, SplitAt
<1>6. \A b \in DOMAIN new :
         /\ new[b] \in [is_hole : BOOLEAN, size : Nat, prev : Nat]
         /\ hheader_next(new, b) \in DOMAIN new \cup {HeapEnd + HeaderSize}
  BY DEF Tiled, SplitAt, HeaderType
<1>7. ASSUME NEW b \in DOMAIN new, NEW c \in DOMAIN new, b < c
      PROVE  hheader_next(new, b) <= c
  <2>1. CASE b \in DOMAIN hdr \ {a} /\ c \in DOMAIN hdr
    BY <1>2, <1>7, <2>1 DEF SplitAt
  <2>2. CASE b \in DOMAIN hdr \ {a} /\ c = m
    <3>1. hheader_next(new, b) = hheader_next(hdr, b) /\ hheader_next(hdr, b) \in Nat /\ b \in Nat
      BY <1>3, <2>2 DEF SplitAt
    <3>2. CASE b < a
      <4>1. hheader_next(hdr, b) <= a
        BY <1>2, <2>2, <3>2
      <4> QED
        BY <1>1, <2>2, <3>1, <4>1
    <3>3. CASE ~ (b < a)
      <4>1. a < b
        BY <1>1, <2>2, <3>1, <3>3
      <4>2. hheader_next(hdr, a) <= b
        BY <1>2, <2>2, <4>1
      <4> QED
        BY <1>1, <1>7, <2>2, <3>1, <4>2
    <3> QED
      BY <3>2, <3>3
  <2>3. CASE b = a /\ c \in DOMAIN hdr
    <3>1. hheader_next(hdr, a) <= c /\ c \in Nat
      BY <1>2, <1>3, <1>7, <2>3
    <3> QED
      BY <1>1, <2>3, <3>1 DEF SplitAt
  <2>4. CASE b = a /\ c = m
    BY <2>4 DEF SplitAt
  <2>5. CASE b = m /\ c \in DOMAIN hdr
    <3>1. a < c /\ c \in Nat
      BY <1>1, <1>3, <1>7, <2>5
    <3> QED
      BY <1>2, <2>5, <3>1 DEF SplitAt
  <2>6. CASE b = m /\ c = m
    BY <1>7, <2>6
  <2> QED
    BY <2>1, <2>2, <2>3, <2>4, <2>5, <2>6 DEF SplitAt
<1> QED
  BY <1>4, <1>5, <1>6, <1>7 DEF Tiled

LEMMA SplitLinked ==
    ASSUME NEW hdr, Tiled(hdr), Linked(hdr), NEW a \in DOMAIN hdr, NEW m \in Int,
           a + HeaderSize <= m, m < hheader_next(hdr, a), m < HeapEnd,
           NEW new, SplitAt(hdr, a, m, new),
           new[m].prev = a,
           hheader_next(hdr, a) \in DOMAIN hdr => new[hheader_next(hdr, a)].prev = m,
           \A b \in DOMAIN hdr \ {hheader_next(hdr, a)} : new[b].prev = hdr[b].prev
    PROVE  Linked(new)
<1> DEFINE n == hheader_next(hdr, a)
<1>1. Tiled(new) /\ m \notin DOMAIN hdr
  BY SplitTiled
<1>2. HeapStart \in DOMAIN hdr /\ HeapStart # n /\ DOMAIN new = DOMAIN hdr \cup {m}
  BY BlockFacts DEF Tiled, SplitAt
<1>3. new[HeapStart].prev = NULL
  BY <1>2 DEF Linked
<1>4. /\ \A b \in DOMAIN hdr \ {a} : hheader_next(new, b) = hheader_next(hdr, b)
      /\ hheader_next(new, a) = m /\ hheader_next(new, m) = n
  BY DEF SplitAt
<1>5. ASSUME NEW b \in DOMAIN new \ {HeapStart}
      PROVE  new[b].prev \in DOMAIN new /\ hheader_next(new, new[b].prev) = b
  <2>1. CASE b = m
    BY <1>2, <1>4, <2>1
  <2>2. CASE b = n /\ b # m
    BY <1>2, <1>4, <2>2
  <2>3. CASE b # n /\ b # m
    <3>1. b \in DOMAIN hdr \ {HeapStart} /\ new[b].prev = hdr[b].prev
      BY <1>2, <2>3
    <3>2. hdr[b].prev \in DOMAIN hdr /\ hheader_next(hdr, hdr[b].prev) = b
      BY <3>1 DEF Linked
    <3>3. hdr[b].prev # a
      BY <2>3, <3>2
    <3> QED
      BY <1>2, <1>4, <3>1, <3>2, <3>3
  <2> QED
    BY <2>1, <2>2, <2>3
<1>6. ASSUME NEW b \in DOMAIN new, hheader_next(new, b) \in DOMAIN new
      PROVE  new[hheader_next(new, b)].prev = b
  <2>1. CASE b = a
    BY <1>4, <2>1
  <2>2. CASE b = m
    <3>1. hheader_next(new, b) = n /\ n # m
      BY <1>4, <2>2, BlockFacts
    <3> QED
      BY <1>2, <1>6, <2>2, <3>1
  <2>3. CASE b \in DOMAIN hdr \ {a}
    <3>1. hheader_next(new, b) = hheader_next(hdr, b)
      BY <1>4, <2>3
    <3>2. hheader_next(hdr, b) # m
      <4>1. hheader_next(hdr, b) = m => FALSE
        <5> SUFFICES ASSUME hheader_next(hdr, b) = m PROVE FALSE
          OBVIOUS
        <5>1. hheader_next(hdr, b) \notin DOMAIN hdr
          BY <1>1
        <5>2. m = HeapEnd + HeaderSize
          BY <2>3, <5>1, BlockFacts
        <5> QED
          BY <5>2, ConstantFacts
      <4> QED
        BY <4>1
    <3>3. hheader_next(hdr, b) \in DOMAIN hdr /\ hdr[hheader_next(hdr, b)].prev = b
      BY <1>2, <1>6, <2>3, <3>1, <3>2 DEF Linked
    <3>4. hheader_next(hdr, b) # n
      <4>1. n \in DOMAIN hdr => hdr[n].prev = a
        BY DEF Linked
      <4> QED
        BY <2>3, <3>3, <4>1
    <3> QED
      BY <3>1, <3>3, <3>4
  <2> QED
    BY <1>2, <2>1, <2>2, <2>3
<1> QED
  BY <1>3, <1>5, <1>6 DEF Linked

\* The block at a takes in the next one.
MergeAt(hdr, a, new) ==
    LET next == hheader_next(hdr, a)
    IN  /\ DOMAIN new = DOMAIN hdr \ {next}
        /\ \A b \in DOMAIN new : new[b] \in HeaderType
        /\ \A b \in DOMAIN new \ {a} : hheader_next(new, b) = hheader_next(hdr, b)
        /\ hheader_next(new, a) = hheader_next(hdr, next)
        /\ hheader_next(hdr, next) \in DOMAIN hdr => new[hheader_next(hdr, next)].prev = a
        /\ \A b \in DOMAIN new \ {hheader_next(hdr, next)} : new[b].prev = hdr[b].prev

LEMMA MergeTiled ==
    ASSUME NEW hdr, Tiled(hdr), Linked(hdr), NEW a \in DOMAIN hdr,
           hheader_next(hdr, a) \in DOMAIN hdr,
           NEW new, MergeAt(hdr, a, new)
    PROVE  Tiled(new) /\ Linked(new)
<1> DEFINE n == hheader_next(hdr, a)
           nn == hheader_next(hdr, n)
<1>1. /\ n \in DOMAIN hdr /\ n # HeapStart /\ a # n /\ a < n /\ n < nn /\ nn # HeapStart
      /\ a \in Nat /\ n \in Nat /\ nn \in Nat
  BY BlockFacts
<1>2. /\ DOMAIN new = DOMAIN hdr \ {n}
      /\ \A b \in DOMAIN new : new[b] \in HeaderType
      /\ \A b \in DOMAIN new \ {a} : hheader_next(new, b) = hheader_next(hdr, b)
      /\ hheader_next(new, a) = nn
      /\ nn \in DOMAIN hdr => new[nn].prev = a
      /\ \A b \in DOMAIN new \ {nn} : new[b].prev = hdr[b].prev
  BY DEF MergeAt
<1>3. /\ \A b, c \in DOMAIN hdr : b < c => hheader_next(hdr, b) <= c
      /\ \A b \in DOMAIN hdr : hheader_next(hdr, b) \in DOMAIN hdr \cup {HeapEnd + HeaderSize}
      /\ \A b \in DOMAIN hdr : b \in Nat /\ hheader_next(hdr, b) \in Nat
      /\ \A b \in DOMAIN hdr : hheader_next(hdr, b) \in DOMAIN hdr =>
            hdr[hheader_next(hdr, b)].prev = b
      /\ \A b \in DOMAIN hdr \ {HeapStart} :
            hdr[b].prev \in DOMAIN hdr /\ hheader_next(hdr, hdr[b].prev) = b
      /\ hdr[HeapStart].prev = NULL
  BY BlockFacts DEF Tiled, Linked
<1> HIDE DEF n, nn
<1>4. Tiled(new)
  <2>1. DOMAIN new \subseteq HeapStart .. HeapEnd - 1 /\ HeapStart \in DOMAIN new
    BY <1>1, <1>2 DEF Tiled
  <2>2. ASSUME NEW b \in DOMAIN new
        PROVE  /\ new[b] \in [is_hole : BOOLEAN, size : Nat, prev : Nat]
               /\ hheader_next(new, b) \in DOMAIN new \cup {HeapEnd + HeaderSize}
    <3>1. CASE b = a
      <4>1. nn \in DOMAIN hdr \cup {HeapEnd + HeaderSize} /\ nn # n
        BY <1>1, <1>3 DEF nn
      <4> QED
        BY <1>2, <3>1, <4>1 DEF HeaderType
    <3>2. CASE b # a
      <4>1. hheader_next(hdr, b) # n
        BY <1>1, <1>2, <1>3, <3>2 DEF n
      <4> QED
        BY <1>2, <1>3, <3>2, <4>1 DEF HeaderType
    <3> QED
      BY <3>1, <3>2
  <2>3. ASSUME NEW b \in DOMAIN new, NEW c \in DOMAIN new, b < c
        PROVE  hheader_next(new, b) <= c
    <3>1. CASE b # a
      BY <1>2, <1>3, <2>3, <3>1
    <3>2. CASE b = a
      <4>1. n <= c /\ c # n /\ c \in Nat
        BY <1>2, <1>3, <2>3, <3>2 DEF n
      <4>2. n < c
        BY <1>1, <4>1
      <4> QED
        BY <1>1, <1>2, <1>3, <3>2, <4>2 DEF nn
    <3> QED
      BY <3>1, <3>2
  <2> QED
    BY <2>1, <2>2, <2>3 DEF Tiled
<1>5. Linked(new)
  <2>1. new[HeapStart].prev = NULL
    <3>1. HeapStart \in DOMAIN new
      BY <1>4 DEF Tiled
    <3> QED
      BY <1>1, <1>2, <1>3, <3>1
  <2>2. ASSUME NEW b \in DOMAIN new \ {HeapStart}
        PROVE  new[b].prev \in DOMAIN new /\ hheader_next(new, new[b].prev) = b
    <3>1. CASE b = nn
      BY <1>1, <1>2, <2>2, <3>1
    <3>2. CASE b # nn
      <4>1. /\ new[b].prev = hdr[b].prev /\ hdr[b].prev \in DOMAIN hdr
            /\ hheader_next(hdr, hdr[b].prev) = b /\ b # n
        BY <1>2, <1>3, <2>2, <3>2
      <4>2. hdr[b].prev # n /\ hdr[b].prev # a
        BY <3>2, <4>1 DEF n, nn
      <4> QED
        BY <1>2, <4>1, <4>2
    <3> QED
      BY <3>1, <3>2
  <2>3. ASSUME NEW b \in DOMAIN new, hheader_next(new, b) \in DOMAIN new
        PROVE  new[hheader_next(new, b)].prev = b
    <3>1. CASE b = a
      BY <1>2, <2>3, <3>1
    <3>2. CASE b # a
      <4>1. /\ hheader_next(new, b) = hheader_next(hdr, b)
            /\ hdr[hheader_next(hdr, b)].prev = b /\ b # n
        BY <1>2, <1>3, <2>3, <3>2
      <4>2. hheader_next(hdr, b) # nn
        <5>1. nn \in DOMAIN hdr => hdr[nn].prev = n
          BY <1>1, <1>3 DEF nn
        <5> QED
          BY <1>2, <2>3, <4>1, <5>1
      <4> QED
        BY <1>2, <2>3, <4>1, <4>2
    <3> QED
      BY <3>1, <3>2
  <2> QED
    BY <2>1, <2>2, <2>3 DEF Linked
<1> QED
  BY <1>4, <1>5

\* Only what is a hole changes.
LEMMA SameLayout ==
    ASSUME NEW hdr, Tiled(hdr), Linked(hdr), NEW new, DOMAIN new = DOMAIN hdr,
           \A b \in DOMAIN hdr : /\ new[b] \in HeaderType
                                 /\ new[b].size = hdr[b].size /\ new[b].prev = hdr[b].prev
    PROVE  /\ Tiled(new) /\ Linked(new)
           /\ \A b \in DOMAIN hdr : hheader_next(new, b) = hheader_next(hdr, b)
<1>1. \A b \in DOMAIN hdr : hheader_next(new, b) = hheader_next(hdr, b)
  BY DEF hheader_next
<1>2. Tiled(new)
  BY <1>1 DEF Tiled, HeaderType
<1>3. HeapStart \in DOMAIN hdr
  BY DEF Tiled
<1>4. Linked(new)
  BY <1>1, <1>3 DEF Linked
<1> QED
  BY <1>1, <1>2, <1>4

---------------------------------------------------------------------------
(* The splits. *)

LEMMA LinkBackFacts ==
    ASSUME NEW hdr, NEW n, NEW prev \in Nat,
           \A b \in DOMAIN hdr : hdr[b] \in HeaderType
    PROVE  LET new == LinkBack(hdr, n, prev)
           IN  /\ DOMAIN new = DOMAIN hdr
               /\ \A b \in DOMAIN hdr :
                     /\ new[b] \in HeaderType
                     /\ new[b].size = hdr[b].size /\ new[b].is_hole = hdr[b].is_hole
                     /\ new[b].prev = IF b = n /\ hheader_isvalid(n) THEN prev ELSE hdr[b].prev
               /\ \A b \in DOMAIN hdr \ {n} : new[b] = hdr[b]
<1> DEFINE new == LinkBack(hdr, n, prev)
<1>1. CASE hheader_isvalid(n) /\ n \in DOMAIN hdr
  <2>1. new = [hdr EXCEPT ![n].prev = prev]
    BY <1>1 DEF LinkBack
  <2>2. DOMAIN new = DOMAIN hdr /\ new[n] = [hdr[n] EXCEPT !.prev = prev]
    BY <1>1, <2>1
  <2>3. \A b \in DOMAIN hdr \ {n} : new[b] = hdr[b]
    BY <2>1
  <2>4. /\ new[n] \in HeaderType /\ new[n].prev = prev
        /\ new[n].size = hdr[n].size /\ new[n].is_hole = hdr[n].is_hole
    BY <1>1, <2>2 DEF HeaderType
  <2> HIDE DEF new
  <2> QED
    BY <1>1, <2>2, <2>3, <2>4 DEF new
<1>2. CASE ~ (hheader_isvalid(n) /\ n \in DOMAIN hdr)
  <2>1. new = hdr
    BY <1>2 DEF LinkBack
  <2> HIDE DEF new
  <2> QED
    BY <1>2, <2>1 DEF new
<1> QED
  BY <1>1, <1>2

\* The headers new after a low split of the hole h of t at a, and the same with
\* the back link of the block n above mended.
LowSplitDone(t, h, a, n, new, fixed) ==
    /\ DOMAIN new = DOMAIN t \cup {a} /\ a \notin DOMAIN t /\ a < HeapEnd
    /\ \A b \in DOMAIN t \ {h} : new[b] = t[b]
    /\ new[h] = Header(TRUE, a - h - HeaderSize, t[h].prev)
    /\ new[a] = Header(FALSE, t[h].size - (a - h), h)
    /\ hheader_next(new, h) = a /\ hheader_next(new, a) = n
    /\ \A b \in DOMAIN t \ {h} : hheader_next(new, b) = hheader_next(t, b)
    /\ \A b \in DOMAIN new : new[b] \in HeaderType
    /\ Tiled(new)
    /\ Tiled(fixed) /\ Linked(fixed)
    /\ \A b \in DOMAIN new : hheader_next(fixed, b) = hheader_next(new, b)

LEMMA LowSplit ==
    ASSUME NEW t, Tiled(t), Linked(t), NEW h \in DOMAIN t, NEW a \in Int,
           h + HeaderSize < a, a < h + t[h].size, NEW index,
           NEW new, new = heap_low_split([hdr |-> t, index |-> index], h, a).hdr,
           NEW n, n = hheader_next(t, h),
           NEW fixed, fixed = LinkBack(new, n, a)
    PROVE  LowSplitDone(t, h, a, n, new, fixed)
<1> DEFINE header == Header(TRUE, a - h - HeaderSize, t[h].prev)
           above == Header(FALSE, t[h].size - (a - h), h)
           low == With(t, h, header)
<1>1. new = With(low, a, above)
  BY DEF heap_low_split
<1>2. /\ h \in Nat /\ HeapStart <= h /\ t[h].size \in Nat /\ t[h].prev \in Nat
      /\ n = h + HeaderSize + t[h].size /\ n <= HeapEnd + HeaderSize /\ n \in Nat
  BY BlockFacts
<1>3. /\ a \in Nat /\ h + HeaderSize <= a /\ a < n /\ a < HeapEnd /\ a # h
      /\ a - h - HeaderSize \in Nat /\ t[h].size - (a - h) \in Nat
  BY <1>2, ConstantFacts
<1>4. /\ header \in HeaderType /\ header.size = a - h - HeaderSize
      /\ header.is_hole = TRUE /\ header.prev = t[h].prev
      /\ above \in HeaderType /\ above.size = t[h].size - (a - h)
      /\ above.is_hole = FALSE /\ above.prev = h
  BY <1>2, <1>3 DEF Header, HeaderType
<1> HIDE DEF header, above
<1>5. DOMAIN low = DOMAIN t /\ low[h] = header /\ \A b \in DOMAIN t \ {h} : low[b] = t[b]
  BY DEF With
<1> HIDE DEF low
<1>6. /\ DOMAIN new = DOMAIN t \cup {a} /\ new[a] = above /\ new[h] = header
      /\ \A b \in DOMAIN t \ {h, a} : new[b] = t[b]
  BY <1>1, <1>3, <1>5 DEF With
<1>7. /\ hheader_next(new, h) = a /\ hheader_next(new, a) = n
      /\ \A b \in DOMAIN t \ {h, a} : hheader_next(new, b) = hheader_next(t, b)
  <2>1. hheader_next(new, h) = a
    BY <1>2, <1>3, <1>4, <1>6, ConstantFacts DEF hheader_next
  <2>2. hheader_next(new, a) = n
    BY <1>2, <1>3, <1>4, <1>6, ConstantFacts DEF hheader_next
  <2>3. \A b \in DOMAIN t \ {h, a} : hheader_next(new, b) = hheader_next(t, b)
    BY <1>6 DEF hheader_next
  <2> QED
    BY <2>1, <2>2, <2>3
<1>8. a \notin DOMAIN t
  <2>1. \A b \in DOMAIN t : h < b => n <= b
    BY DEF Tiled
  <2> QED
    BY <1>2, <1>3, <2>1, ConstantFacts
<1>9. /\ \A b \in DOMAIN t \ {h} : new[b] = t[b]
      /\ \A b \in DOMAIN t \ {h} : hheader_next(new, b) = hheader_next(t, b)
  BY <1>6, <1>7, <1>8
<1>10. \A b \in DOMAIN new : new[b] \in HeaderType
  BY <1>4, <1>6, <1>9 DEF Tiled, HeaderType
<1>11. SplitAt(t, h, a, new)
  BY <1>6, <1>7, <1>9, <1>10 DEF SplitAt
<1>12. Tiled(new)
  BY <1>3, <1>11, SplitTiled
<1>13. /\ DOMAIN fixed = DOMAIN new
       /\ \A b \in DOMAIN new : fixed[b] \in HeaderType /\ fixed[b].size = new[b].size
       /\ \A b \in DOMAIN new \ {n} : fixed[b] = new[b]
       /\ n \in DOMAIN new /\ hheader_isvalid(n) => fixed[n].prev = a
  BY <1>3, <1>10, LinkBackFacts
<1>14. \A b \in DOMAIN new : hheader_next(fixed, b) = hheader_next(new, b)
  BY <1>13 DEF hheader_next
<1>15. SplitAt(t, h, a, fixed)
  BY <1>11, <1>13, <1>14 DEF SplitAt
<1>16. Tiled(fixed)
  BY <1>3, <1>15, SplitTiled
<1>17. Linked(fixed)
  <2>1. fixed[a].prev = h
    BY <1>3, <1>4, <1>6, <1>13
  <2>2. n \in DOMAIN t => fixed[n].prev = a
    BY <1>6, <1>13, BlockFacts
  <2>3. \A b \in DOMAIN t \ {n} : fixed[b].prev = t[b].prev
    BY <1>4, <1>6, <1>9, <1>13
  <2> QED
    BY <1>3, <1>15, <2>1, <2>2, <2>3, SplitLinked
<1> QED
  BY <1>1, <1>3, <1>6, <1>7, <1>8, <1>9, <1>10, <1>12, <1>14, <1>16, <1>17
     DEF LowSplitDone, header, above

LEMMA HighSplit ==
    ASSUME NEW p, NEW a \in DOMAIN p, NEW size \in Nat, NEW index,
           Tiled(p), p[a].size - size > HeaderSize,
           Tiled(LinkBack(p, hheader_next(p, a), a)),
           Linked(LinkBack(p, hheader_next(p, a), a))
    PROVE  LET new == heap_high_split([hdr |-> p, index |-> index], a, size).hdr
               hole == a + HeaderSize + size
           IN  /\ DOMAIN new = DOMAIN p \cup {hole} /\ hole \notin DOMAIN p
               /\ hole \in Nat
               /\ new[hole].is_hole = TRUE
               /\ new[a].size = size
               /\ \A b \in DOMAIN p : new[b].is_hole = p[b].is_hole
               /\ \A b \in DOMAIN p \ {a} : new[b].size = p[b].size
               /\ hheader_next(new, a) = hole
               /\ hheader_next(new, hole) = hheader_next(p, a)
               /\ \A b \in DOMAIN p \ {a} : hheader_next(new, b) = hheader_next(p, b)
               /\ Tiled(new) /\ Linked(new)
<1> DEFINE n == hheader_next(p, a)
           hole == a + HeaderSize + size
           header == Header(TRUE, n - hole - HeaderSize, a)
           short == [p EXCEPT ![a].size = size]
           cut == With(short, hole, header)
           new == LinkBack(cut, n, hole)
           fixed == LinkBack(p, n, a)
<1>1. heap_high_split([hdr |-> p, index |-> index], a, size).hdr = new
  BY DEF heap_high_split
<1>2. /\ a \in Nat /\ HeapStart <= a /\ p[a].size \in Nat
      /\ n = a + HeaderSize + p[a].size /\ n <= HeapEnd + HeaderSize /\ n \in Nat
      /\ n \in DOMAIN p <=> hheader_isvalid(n)
  BY BlockFacts
<1>3. /\ hole \in Nat /\ a + HeaderSize <= hole /\ hole < n /\ hole < HeapEnd /\ hole # a
      /\ n - hole - HeaderSize \in Nat /\ hole # n
  BY <1>2, ConstantFacts
<1>4. /\ header \in HeaderType /\ header.size = n - hole - HeaderSize
      /\ header.is_hole = TRUE /\ header.prev = a
  <2> HIDE DEF hole
  <2> QED
    BY <1>2, <1>3 DEF Header, HeaderType
<1> HIDE DEF header
<1>5. \A b \in DOMAIN p : p[b] \in HeaderType
  BY DEF Tiled, HeaderType
<1>6. hole \notin DOMAIN p
  <2>1. \A b \in DOMAIN p : a < b => n <= b
    BY DEF Tiled
  <2> QED
    BY <1>2, <1>3, <2>1, ConstantFacts
<1>7. /\ DOMAIN short = DOMAIN p
      /\ \A b \in DOMAIN p \ {a} : short[b] = p[b]
      /\ short[a] = [p[a] EXCEPT !.size = size]
  OBVIOUS
<1> HIDE DEF short, hole
<1>8. /\ short[a] \in HeaderType /\ short[a].size = size /\ short[a].prev = p[a].prev
      /\ short[a].is_hole = p[a].is_hole
  BY <1>5, <1>7 DEF HeaderType
<1>9. /\ DOMAIN cut = DOMAIN p \cup {hole} /\ cut[hole] = header
      /\ \A b \in DOMAIN p : cut[b] = short[b]
  BY <1>6, <1>7 DEF With
<1> HIDE DEF cut
<1>10. \A b \in DOMAIN cut : cut[b] \in HeaderType
  BY <1>4, <1>5, <1>7, <1>8, <1>9
<1>11. /\ DOMAIN new = DOMAIN cut
       /\ \A b \in DOMAIN cut :
             /\ new[b] \in HeaderType
             /\ new[b].size = cut[b].size /\ new[b].is_hole = cut[b].is_hole
             /\ new[b].prev = IF b = n /\ hheader_isvalid(n) THEN hole ELSE cut[b].prev
  BY <1>3, <1>10, LinkBackFacts
<1>12. /\ DOMAIN fixed = DOMAIN p
       /\ \A b \in DOMAIN p :
             /\ fixed[b].size = p[b].size
             /\ fixed[b].prev = IF b = n /\ hheader_isvalid(n) THEN a ELSE p[b].prev
  BY <1>2, <1>5, LinkBackFacts
<1> HIDE DEF new, fixed
<1>13. \A b \in DOMAIN p : hheader_next(fixed, b) = hheader_next(p, b)
  BY <1>12 DEF hheader_next
<1>14. hheader_next(fixed, a) = n
  BY <1>13
<1>15. /\ hheader_next(new, a) = hole /\ hheader_next(new, hole) = n
       /\ \A b \in DOMAIN p \ {a} : hheader_next(new, b) = hheader_next(p, b)
  <2>1. hheader_next(new, a) = hole
    BY <1>8, <1>9, <1>11 DEF hheader_next, hole
  <2>2. hheader_next(new, hole) = n
    <3>1. new[hole].size = n - hole - HeaderSize
      BY <1>4, <1>9, <1>11
    <3> QED
      BY <1>2, <1>3, <3>1, ConstantFacts DEF hheader_next
  <2>3. \A b \in DOMAIN p \ {a} : hheader_next(new, b) = hheader_next(p, b)
    BY <1>7, <1>9, <1>11 DEF hheader_next
  <2> QED
    BY <2>1, <2>2, <2>3
<1> HIDE DEF n
<1>16. SplitAt(fixed, a, hole, new)
  BY <1>9, <1>11, <1>12, <1>13, <1>14, <1>15 DEF SplitAt
<1>17. /\ Tiled(fixed) /\ Linked(fixed)
  BY DEF fixed, n
<1>18. Tiled(new)
  BY <1>3, <1>12, <1>14, <1>16, <1>17, SplitTiled
<1>19. Linked(new)
  <2>1. new[hole].prev = a
    BY <1>3, <1>4, <1>9, <1>11
  <2>2. n \in DOMAIN fixed => new[n].prev = hole
    BY <1>2, <1>9, <1>11, <1>12
  <2>3. \A b \in DOMAIN fixed \ {n} : new[b].prev = fixed[b].prev
    <3>1. \A b \in DOMAIN p : cut[b].prev = p[b].prev
      BY <1>7, <1>8, <1>9
    <3>2. \A b \in DOMAIN p \ {n} : new[b].prev = p[b].prev
      BY <1>9, <1>11, <3>1
    <3> QED
      BY <1>12, <3>2
  <2> QED
    BY <1>3, <1>12, <1>14, <1>16, <1>17, <2>1, <2>2, <2>3, SplitLinked
<1>20. new[hole].is_hole = TRUE /\ new[a].size = size
  BY <1>4, <1>8, <1>9, <1>11
<1>21. /\ \A b \in DOMAIN p : new[b].is_hole = p[b].is_hole
       /\ \A b \in DOMAIN p \ {a} : new[b].size = p[b].size
  <2>1. \A b \in DOMAIN p : cut[b].is_hole = p[b].is_hole
    BY <1>7, <1>8, <1>9
  <2>2. \A b \in DOMAIN p \ {a} : cut[b].size = p[b].size
    BY <1>7, <1>9
  <2> QED
    BY <1>9, <1>11, <2>1, <2>2
<1> QED
  BY <1>1, <1>3, <1>6, <1>9, <1>11, <1>15, <1>18, <1>19, <1>20, <1>21 DEF hole, n

---------------------------------------------------------------------------
(* heap_alloc: where a block goes. *)

LEMMA UniqueRemainder ==
    ASSUME NEW P \in Nat, P > 0, NEW x \in Int, NEW q \in Int, NEW r \in 0 .. P - 1,
           x = P * q + r
    PROVE  x % P = r
<1>1. x % P \in 0 .. P - 1 /\ x \div P \in Int /\ x = P * (x \div P) + (x % P)
  OBVIOUS
<1> DEFINE k == x \div P
           s == x % P
<1>2. s \in 0 .. P - 1 /\ k \in Int /\ P * (k - q) = r - s
  BY <1>1
<1> HIDE DEF k, s
<1>3. CASE k > q
  <2>1. P * (k - q) >= P
    BY <1>2, <1>3
  <2> QED
    BY <1>2, <2>1
<1>4. CASE k < q
  <2>1. P * (k - q) <= - P
    BY <1>2, <1>4
  <2> QED
    BY <1>2, <2>1
<1>5. CASE k = q
  <2>1. P * (k - q) = 0
    BY <1>2, <1>5
  <2>2. s = r
    BY <1>2, <2>1
  <2> QED
    BY <2>2 DEF s
<1>6. k > q \/ k < q \/ k = q
  BY <1>2
<1> QED
  BY <1>3, <1>4, <1>5, <1>6

\* alignment_o puts a header so that its data begins a page.  The first
\* block of the heap, which begins a page itself, leaves room below it.
LEMMA Alignment ==
    ASSUME NEW h \in Nat
    PROVE  /\ alignment_o(h) \in Nat /\ h <= alignment_o(h)
           /\ alignment_o(h) % PageSize = PageSize - HeaderSize
           /\ h = HeapStart => alignment_o(h) - h > HeaderSize
<1> DEFINE x == PageSize - HeaderSize - h
           r == x % PageSize
<1>1. PageSize \in Nat /\ PageSize > 0 /\ x \in Int /\ PageSize - HeaderSize \in 0 .. PageSize - 1
  BY ConstantFacts
<1>2. r \in 0 .. PageSize - 1 /\ x \div PageSize \in Int /\ x = PageSize * (x \div PageSize) + r
  <2> HIDE DEF x
  <2> QED
    BY <1>1
<1>3. alignment_o(h) = h + r
  BY DEF alignment_o
<1>4. PICK q \in Int : x = PageSize * q + r
  BY <1>2
<1> HIDE DEF r
<1>5. alignment_o(h) \in Nat /\ h <= alignment_o(h)
  BY <1>1, <1>2, <1>3
<1>6. alignment_o(h) % PageSize = PageSize - HeaderSize
  <2>1. -q \in Int /\ PageSize * (-q) = -(PageSize * q) /\ PageSize * q \in Int
    BY <1>1
  <2>2. alignment_o(h) = PageSize * (-q) + (PageSize - HeaderSize)
    BY <1>1, <1>2, <1>3, <1>4, <2>1, ConstantFacts
  <2>3. alignment_o(h) \in Int
    BY <1>5
  <2> QED
    BY <1>1, <2>1, <2>2, <2>3, UniqueRemainder, ZenonT(40)
<1>7. ASSUME h = HeapStart PROVE alignment_o(h) - h > HeaderSize
  <2>1. HeapStart \div PageSize \in Int /\ HeapStart = PageSize * (HeapStart \div PageSize)
    BY <1>1, ConstantFacts
  <2>2. PICK k \in Int : HeapStart = PageSize * k
    BY <2>1
  <2>3. -k \in Int /\ PageSize * (-k) = -(PageSize * k) /\ PageSize * k \in Int
    BY <1>1
  <2>4. x = PageSize * (-k) + (PageSize - HeaderSize)
    BY <1>1, <1>7, <2>2, <2>3, ConstantFacts
  <2>5. r = PageSize - HeaderSize
    <3> HIDE DEF x
    <3> QED
      BY <1>1, <2>3, <2>4, UniqueRemainder DEF r
  <2> QED
    BY <1>3, <2>5, ConstantFacts
<1> QED
  BY <1>5, <1>6, <1>7

LEMMA HoleFound ==
    ASSUME Sound(heap.hdr), Listed(heap), NEW size \in Nat, NEW align \in BOOLEAN,
           BestHole(size, align) # NULL
    PROVE  LET h == BestHole(size, align)
               a == Place(h, align)
           IN  /\ h \in DOMAIN heap.hdr /\ heap.hdr[h].is_hole
               /\ a \in Nat /\ h <= a /\ heap.hdr[h].size - (a - h) >= size
               /\ align => a < h + heap.hdr[h].size /\ a % PageSize = PageSize - HeaderSize
               /\ ~ align => a = h
               /\ align /\ h = HeapStart => a - h > HeaderSize
<1> DEFINE q == heap.index
           I == {i \in 1 .. Len(q) : Fits(q[i], size, align)}
           i0 == SelectInSeq(q, LAMBDA h : Fits(h, size, align))
           h0 == BestHole(size, align)
           a0 == Place(h0, align)
<1>1. q \in Seq(Addresses)
  BY DEF Listed
<1>2. i0 = IF I # {} THEN Min(I) ELSE 0
  BY DEF SelectInSeq
<1>3. h0 = IF i0 = 0 THEN NULL ELSE q[i0]
  BY DEF BestHole
<1>4. i0 \in I
  <2>1. i0 # 0
    BY <1>3
  <2>2. I # {} /\ i0 = Min(I)
    BY <1>2, <2>1
  <2>3. I \in SUBSET (1 .. Len(q))
    OBVIOUS
  <2>4. IsFiniteSet(1 .. Len(q))
    BY <1>1, QueueRange, FS_Interval
  <2> HIDE DEF I, i0
  <2>5. IsFiniteSet(I)
    BY <2>3, <2>4, FS_Subset
  <2>6. I \in SUBSET Int
    BY <2>3
  <2>7. \E m \in I : \A j \in I : m <= j
    BY <2>2, <2>5, <2>6, SetEnds
  <2> QED
    BY <2>2, <2>7 DEF Min
<1> HIDE DEF i0
<1>5. h0 = q[i0] /\ i0 \in 1 .. Len(q) /\ Fits(q[i0], size, align)
  BY <1>3, <1>4
<1> HIDE DEF h0
<1>6. h0 \in HolesOf(heap.hdr)
  BY <1>1, <1>5, QueueRange DEF Listed
<1>7. h0 \in DOMAIN heap.hdr /\ heap.hdr[h0].is_hole
  BY <1>6 DEF HolesOf
<1>8. h0 \in Nat /\ heap.hdr[h0].size \in Nat
  BY <1>7, BlockFacts DEF Sound
<1>9. /\ align => a0 = alignment_o(h0)
      /\ ~ align => a0 = h0
  BY DEF Place
<1>10. a0 \in Nat /\ h0 <= a0
  BY <1>8, <1>9, Alignment
<1>11. /\ align => a0 % PageSize = PageSize - HeaderSize
       /\ align /\ h0 = HeapStart => a0 - h0 > HeaderSize
  BY <1>8, <1>9, Alignment
<1>12. Fits(h0, size, align)
  BY <1>5
<1>13. /\ align => heap.hdr[h0].size > a0 - h0
       /\ heap.hdr[h0].size - (a0 - h0) >= size
  BY <1>12 DEF Fits
<1> HIDE DEF a0
<1>14. align => a0 < h0 + heap.hdr[h0].size
  BY <1>8, <1>10, <1>13
<1> QED
  BY <1>7, <1>9, <1>10, <1>11, <1>13, <1>14 DEF h0, a0

---------------------------------------------------------------------------
(* heap_alloc: the heap after it. *)

\* The hole h out of the list, and the block at a made out of it.
Taken(h) == [hdr   |-> [heap.hdr EXCEPT ![h].is_hole = FALSE],
             index |-> ordlist_remove(heap.index, h)]
Placed(h, a, align) ==
    IF ~ align THEN Taken(h)
    ELSE IF a - h > HeaderSize THEN heap_low_split(Taken(h), h, a)
    ELSE AbsorbGap(Taken(h), h, a)

\* The heap p with a block at a that is all of the hole h from there on: sound
\* but for the back link of the block above.
Fixed(p, a) == LinkBack(p.hdr, hheader_next(p.hdr, a), a)

BlocksPlus(hdr, a, new) ==
    /\ DOMAIN new \ HolesOf(new) = (DOMAIN hdr \ HolesOf(hdr)) \cup {a}
    /\ a \notin DOMAIN hdr \ HolesOf(hdr)
    /\ \A b \in DOMAIN hdr \ HolesOf(hdr) : new[b].size = hdr[b].size

PlacedSound(p, h, a) ==
    /\ Tiled(p.hdr) /\ Listed(p)
    /\ a \in DOMAIN p.hdr /\ ~ p.hdr[a].is_hole
    /\ p.hdr[a].size = heap.hdr[h].size - (a - h)
    /\ BlocksPlus(heap.hdr, a, p.hdr)
    /\ HolesApartBut(p.hdr, {})
    /\ hheader_next(p.hdr, a) \notin HolesOf(p.hdr)
    /\ Tiled(Fixed(p, a)) /\ Linked(Fixed(p, a))
    /\ \A b \in DOMAIN p.hdr : p.hdr[b].prev \in {NULL} \cup DOMAIN p.hdr

\* The stale back link.
Stale(p, h, a) ==
    LET next == hheader_next(p.hdr, a)
    IN  /\ h \in DOMAIN p.hdr /\ hheader_next(p.hdr, h) = a /\ p.hdr[a].prev = h
        /\ next \in DOMAIN p.hdr /\ p.hdr[next].prev = h

LEMMA TakenSound ==
    ASSUME Sound(heap.hdr), Listed(heap), NEW h \in DOMAIN heap.hdr, heap.hdr[h].is_hole
    PROVE  LET t == Taken(h).hdr
           IN  /\ Tiled(t) /\ Linked(t) /\ DOMAIN t = DOMAIN heap.hdr
               /\ \A b \in DOMAIN t : t[b].size = heap.hdr[b].size
               /\ \A b \in DOMAIN t : hheader_next(t, b) = hheader_next(heap.hdr, b)
               /\ \A b \in DOMAIN t \ {h} : t[b] = heap.hdr[b]
               /\ t[h].is_hole = FALSE
               /\ HolesOf(t) = HolesOf(heap.hdr) \ {h}
               /\ hheader_next(t, h) \notin HolesOf(heap.hdr)
               /\ Listed(Taken(h))
<1> DEFINE hdr == heap.hdr
           t == Taken(h).hdr
<1>1. Tiled(hdr) /\ Linked(hdr)
  BY DEF Sound
<1>2. \A b \in DOMAIN hdr : hdr[b] \in HeaderType
  BY <1>1 DEF Tiled, HeaderType
<1>3. t = [hdr EXCEPT ![h].is_hole = FALSE]
  BY DEF Taken
<1>4. /\ DOMAIN t = DOMAIN hdr /\ \A b \in DOMAIN hdr \ {h} : t[b] = hdr[b]
      /\ t[h] = [hdr[h] EXCEPT !.is_hole = FALSE]
  BY <1>3
<1> HIDE DEF t
<1>5. /\ t[h] \in HeaderType /\ t[h].size = hdr[h].size /\ t[h].prev = hdr[h].prev
      /\ t[h].is_hole = FALSE
  BY <1>2, <1>4 DEF HeaderType
<1>6. \A b \in DOMAIN hdr : t[b] \in HeaderType /\ t[b].size = hdr[b].size /\ t[b].prev = hdr[b].prev
  BY <1>2, <1>4, <1>5
<1>7. /\ Tiled(t) /\ Linked(t)
      /\ \A b \in DOMAIN t : hheader_next(t, b) = hheader_next(hdr, b)
  BY <1>1, <1>4, <1>6, SameLayout
<1>8. HolesOf(t) = HolesOf(hdr) \ {h}
  BY <1>4, <1>5 DEF HolesOf
<1>9. h \in HolesOf(hdr)
  BY DEF HolesOf
<1>10. hheader_next(hdr, h) \notin HolesOf(hdr)
  BY <1>9 DEF Sound, HolesApartBut
<1>11. Listed(Taken(h))
  <2>1. heap.index \in Seq(Addresses) /\ IsInjective(heap.index) /\ h \in Range(heap.index)
        /\ Range(heap.index) = HolesOf(hdr)
    BY <1>9 DEF Listed
  <2> DEFINE r == ordlist_remove(heap.index, h)
  <2>2. r \in Seq(Addresses) /\ IsInjective(r) /\ Range(r) = Range(heap.index) \ {h}
    BY <2>1, ordlist_removeProperties
  <2>3. Taken(h).index = r
    BY DEF Taken
  <2> QED
    BY <1>8, <2>1, <2>2, <2>3 DEF Listed, t
<1> QED
  BY <1>4, <1>5, <1>6, <1>7, <1>8, <1>10, <1>11 DEF t

\* The block takes the whole hole from its start.
LEMMA PlacedWhole ==
    ASSUME Sound(heap.hdr), Listed(heap), NEW h \in DOMAIN heap.hdr, heap.hdr[h].is_hole,
           NEW align \in BOOLEAN, align => h # HeapStart
    PROVE  LET p == Placed(h, h, align)
           IN  PlacedSound(p, h, h) /\ p.hdr = Fixed(p, h)
<1> DEFINE hdr == heap.hdr
           t == Taken(h).hdr
           p == Placed(h, h, align)
           n == hheader_next(t, h)
<1>1. /\ Tiled(t) /\ Linked(t) /\ DOMAIN t = DOMAIN hdr
      /\ \A b \in DOMAIN t : t[b].size = hdr[b].size
      /\ \A b \in DOMAIN t : hheader_next(t, b) = hheader_next(hdr, b)
      /\ \A b \in DOMAIN t \ {h} : t[b] = hdr[b]
      /\ t[h].is_hole = FALSE
      /\ HolesOf(t) = HolesOf(hdr) \ {h}
      /\ n \notin HolesOf(hdr)
      /\ Listed(Taken(h))
  BY TakenSound
<1>2. h \in Nat /\ t[h] \in HeaderType /\ t[h].size \in Nat /\ hdr[h].size = t[h].size
  BY <1>1, BlockFacts DEF HeaderType
<1>3. p.hdr = t /\ p.index = Taken(h).index
  <2>1. CASE ~ align
    BY <2>1 DEF Placed
  <2>2. CASE align
    <3>1. /\ h # HeapStart /\ t[h].prev \in DOMAIN t /\ t[h].prev # NULL
          /\ t[h].prev # h
      <4>1. h # HeapStart /\ t[h].prev \in DOMAIN t
        BY <1>1, <2>2 DEF Linked
      <4>2. hheader_next(t, t[h].prev) = h
        BY <1>1, <4>1 DEF Linked
      <4>3. t[h].prev < h /\ t[h].prev >= HeapStart /\ t[h].prev \in Nat
        BY <1>1, <4>1, <4>2, BlockFacts
      <4> QED
        BY <1>2, <4>1, <4>3, ConstantFacts
    <3>2. h - h = 0 /\ ~ (h - h > HeaderSize)
      BY <1>2, ConstantFacts
    <3>3. p = AbsorbGap(Taken(h), h, h)
      BY <2>2, <3>2 DEF Placed
    <3> DEFINE moved == With(t, h, Header(FALSE, t[h].size, t[h].prev))
               prev == t[h].prev
    <3>4. Header(FALSE, t[h].size, t[h].prev) = t[h]
      BY <1>1, <1>2 DEF Header, HeaderType
    <3>5. moved = t
      <4>1. t = [b \in DOMAIN t |-> t[b]]
        <5>1. t = [hdr EXCEPT ![h].is_hole = FALSE]
          BY DEF Taken
        <5> HIDE DEF t
        <5> QED
          BY <5>1
      <4> HIDE DEF t
      <4>2. With(t, h, t[h]) = [b \in DOMAIN t |-> t[b]]
        BY <1>1 DEF With
      <4> QED
        BY <3>4, <4>1, <4>2
    <3> HIDE DEF moved
    <3>6. /\ p.hdr = IF prev \in DOMAIN moved
                     THEN [moved EXCEPT ![prev].size = @ + (h - h)] ELSE moved
          /\ p.index = Taken(h).index
      BY <3>1, <3>3 DEF AbsorbGap, moved
    <3>7. t[prev].size + 0 = t[prev].size /\ t[prev] \in HeaderType
      BY <1>1, <3>1, BlockFacts DEF HeaderType
    <3>8. [t EXCEPT ![prev].size = @ + (h - h)] = t
      <4>1. [t EXCEPT ![prev].size = @ + (h - h)]
            = [t EXCEPT ![prev] = [t[prev] EXCEPT !.size = t[prev].size + 0]]
        BY <3>2
      <4>2. [t[prev] EXCEPT !.size = t[prev].size + 0] = t[prev]
        BY <3>7 DEF HeaderType
      <4>3. t = [b \in DOMAIN t |-> t[b]]
        <5>1. t = [hdr EXCEPT ![h].is_hole = FALSE]
          BY DEF Taken
        <5> HIDE DEF t
        <5> QED
          BY <5>1
      <4> HIDE DEF t
      <4> QED
        BY <4>1, <4>2, <4>3
    <3> QED
      BY <3>1, <3>5, <3>6, <3>8
  <2> QED
    BY <2>1, <2>2
<1> HIDE DEF p, t
<1>4. \A b \in DOMAIN t : t[b] \in HeaderType
  BY <1>1 DEF Tiled, HeaderType
<1>5. Fixed(p, h) = t
  <2>1. Fixed(p, h) = LinkBack(t, n, h)
    BY <1>3 DEF Fixed
  <2>2. CASE hheader_isvalid(n) /\ n \in DOMAIN t
    <3>1. t[n].prev = h
      BY <1>1, <2>2 DEF Linked
    <3>2. LinkBack(t, n, h) = [t EXCEPT ![n].prev = h]
      BY <2>2 DEF LinkBack
    <3>3. [t[n] EXCEPT !.prev = h] = t[n]
      BY <1>4, <2>2, <3>1 DEF HeaderType
    <3>4. t = [b \in DOMAIN t |-> t[b]]
      <4>1. t = [hdr EXCEPT ![h].is_hole = FALSE]
        BY DEF Taken, t
      <4> QED
        BY <4>1
    <3> QED
      BY <2>1, <3>2, <3>3, <3>4
  <2>3. CASE ~ (hheader_isvalid(n) /\ n \in DOMAIN t)
    BY <2>1, <2>3 DEF LinkBack
  <2> QED
    BY <2>2, <2>3
<1>6. BlocksPlus(hdr, h, t)
  <2>1. h \in HolesOf(hdr)
    BY DEF HolesOf
  <2> QED
    BY <1>1, <2>1 DEF BlocksPlus, HolesOf
<1>7. HolesApartBut(t, {}) /\ n \notin HolesOf(t)
  BY <1>1 DEF Sound, HolesApartBut, HolesOf
<1>8. \A b \in DOMAIN t : t[b].prev \in {NULL} \cup DOMAIN t
  BY <1>1 DEF Linked
<1>9. Listed(p)
  <2>1. Taken(h).hdr = t
    BY DEF t
  <2> QED
    BY <1>1, <1>3, <2>1 DEF Listed
<1>10. t[h].size = hdr[h].size - (h - h)
  BY <1>2
<1> QED
  BY <1>1, <1>3, <1>5, <1>6, <1>7, <1>8, <1>9, <1>10 DEF PlacedSound, p

\* The block takes the end of the hole, and the gap below it stays a hole.
LEMMA PlacedAbove ==
    ASSUME Sound(heap.hdr), Listed(heap), NEW h \in DOMAIN heap.hdr, heap.hdr[h].is_hole,
           NEW a \in Nat, a - h > HeaderSize, a < h + heap.hdr[h].size
    PROVE  LET p == Placed(h, a, TRUE)
           IN  /\ PlacedSound(p, h, a)
               /\ hheader_next(p.hdr, a) \in DOMAIN p.hdr => Stale(p, h, a)
               /\ hheader_next(p.hdr, a) \notin DOMAIN p.hdr => p.hdr = Fixed(p, a)
<1> DEFINE hdr == heap.hdr
           t == Taken(h).hdr
           p == Placed(h, a, TRUE)
           new == p.hdr
           n == hheader_next(t, h)
           fixed == LinkBack(new, n, a)
<1>1. /\ Tiled(t) /\ Linked(t) /\ DOMAIN t = DOMAIN hdr
      /\ \A b \in DOMAIN t : t[b].size = hdr[b].size
      /\ \A b \in DOMAIN t : hheader_next(t, b) = hheader_next(hdr, b)
      /\ \A b \in DOMAIN t \ {h} : t[b] = hdr[b]
      /\ t[h].is_hole = FALSE
      /\ HolesOf(t) = HolesOf(hdr) \ {h}
      /\ n \notin HolesOf(hdr)
      /\ Listed(Taken(h))
  BY TakenSound
<1>2. h \in Nat /\ t[h].size \in Nat /\ t[h].prev \in Nat /\ hdr[h].size = t[h].size
  BY <1>1, BlockFacts
<1>3. h + HeaderSize < a /\ a < h + t[h].size /\ a \in Int /\ a # h
  BY <1>2, ConstantFacts
<1>4. p = heap_low_split(Taken(h), h, a) /\ Taken(h) = [hdr |-> t, index |-> Taken(h).index]
  BY DEF Placed, Taken
<1>5. /\ p.hdr = heap_low_split([hdr |-> t, index |-> Taken(h).index], h, a).hdr
      /\ p.index = ordlist_insert(p.hdr, Taken(h).index, h)
  <2> HIDE DEF t
  <2>1. p = heap_low_split([hdr |-> t, index |-> Taken(h).index], h, a)
    BY <1>4
  <2> HIDE DEF p
  <2> QED
    BY <2>1 DEF heap_low_split
<1> HIDE DEF t, p
<1>6. LowSplitDone(t, h, a, n, new, fixed)
  <2>1. Tiled(t) /\ Linked(t) /\ h \in DOMAIN t /\ n = hheader_next(t, h)
    BY <1>1 DEF n
  <2>2. new = heap_low_split([hdr |-> t, index |-> Taken(h).index], h, a).hdr
    BY <1>5 DEF new
  <2>3. fixed = LinkBack(new, n, a)
    BY DEF fixed
  <2>4. a \in Int /\ h + HeaderSize < a /\ a < h + t[h].size
    BY <1>3
  <2> HIDE DEF new, n, fixed
  <2> QED
    BY <2>1, <2>2, <2>3, <2>4, LowSplit
<1> USE DEF LowSplitDone
<1>7. /\ new[h].is_hole = TRUE /\ new[h].prev = t[h].prev
      /\ new[a].is_hole = FALSE /\ new[a].size = t[h].size - (a - h) /\ new[a].prev = h
  BY <1>6 DEF Header
<1> HIDE DEF new
<1>8. h \in HolesOf(hdr) /\ HolesOf(hdr) \subseteq DOMAIN hdr
  BY DEF HolesOf
<1>9. HolesOf(new) = HolesOf(hdr)
  <2>1. ASSUME NEW b \in DOMAIN new PROVE new[b].is_hole <=> b \in HolesOf(hdr)
    <3>1. CASE b = a
      BY <1>1, <1>6, <1>7, <1>8, <3>1
    <3>2. CASE b = h
      BY <1>7, <1>8, <3>2
    <3>3. CASE b # a /\ b # h
      <4>1. b \in DOMAIN t /\ new[b] = hdr[b]
        BY <1>1, <1>6, <3>3
      <4> QED
        BY <1>1, <4>1 DEF HolesOf
    <3> QED
      BY <3>1, <3>2, <3>3
  <2>2. HolesOf(hdr) \subseteq DOMAIN new
    BY <1>1, <1>6, <1>8
  <2> QED
    BY <2>1, <2>2 DEF HolesOf
<1>10. BlocksPlus(hdr, a, new)
  <2>1. DOMAIN new \ HolesOf(new) = (DOMAIN hdr \ HolesOf(hdr)) \cup {a}
    BY <1>1, <1>6, <1>8, <1>9
  <2>2. \A b \in DOMAIN hdr \ HolesOf(hdr) : new[b].size = hdr[b].size
    BY <1>1, <1>6, <1>8
  <2> QED
    BY <1>1, <1>6, <2>1, <2>2 DEF BlocksPlus
<1>11. HolesApartBut(new, {}) /\ n \notin HolesOf(new)
  <2>1. ASSUME NEW b \in HolesOf(new) PROVE hheader_next(new, b) \notin HolesOf(new)
    <3>1. CASE b = h
      BY <1>1, <1>6, <1>7, <1>8, <1>9, <3>1
    <3>2. CASE b # h
      <4>1. b \in HolesOf(hdr) /\ b \in DOMAIN t /\ hheader_next(new, b) = hheader_next(hdr, b)
        BY <1>1, <1>6, <1>8, <1>9, <3>2
      <4>2. hheader_next(hdr, b) \notin HolesOf(hdr)
        BY <4>1 DEF Sound, HolesApartBut
      <4> QED
        BY <1>9, <4>1, <4>2
    <3> QED
      BY <3>1, <3>2
  <2> QED
    BY <1>1, <1>9, <2>1 DEF HolesApartBut
<1>12. \A b \in DOMAIN new : new[b].prev \in {NULL} \cup DOMAIN new
  <2>1. \A b \in DOMAIN t : t[b].prev \in {NULL} \cup DOMAIN t
    BY <1>1 DEF Linked
  <2>2. ASSUME NEW b \in DOMAIN new PROVE new[b].prev \in {NULL} \cup DOMAIN new
    <3>1. CASE b = a
      BY <1>1, <1>6, <1>7, <3>1
    <3>2. CASE b \in DOMAIN t
      BY <1>1, <1>6, <1>7, <2>1, <3>2
    <3> QED
      BY <1>6, <3>1, <3>2
  <2> QED
    BY <2>2
<1>13. Listed(p)
  <2>1. /\ Taken(h).index \in Seq(Addresses) /\ IsInjective(Taken(h).index)
        /\ Range(Taken(h).index) = HolesOf(hdr) \ {h}
    BY <1>1 DEF Listed, t
  <2>2. h \in Addresses
    BY <1>1, ConstantFacts DEF Tiled, Addresses
  <2> DEFINE q == Taken(h).index
             r == ordlist_insert(p.hdr, q, h)
  <2>3. q \in Seq(Addresses) /\ IsInjective(q) /\ h \notin Range(q)
    BY <2>1
  <2>4. Range(q) = HolesOf(hdr) \ {h}
    BY <2>1
  <2> HIDE DEF q
  <2>5. r \in Seq(Addresses) /\ IsInjective(r) /\ Range(r) = Range(q) \cup {h}
    BY <2>2, <2>3, ordlist_insertProperties
  <2>6. p.index = r
    BY <1>5 DEF q
  <2>7. HolesOf(p.hdr) = HolesOf(hdr)
    BY <1>9 DEF new
  <2> QED
    BY <1>8, <2>4, <2>5, <2>6, <2>7 DEF Listed
<1>14. Fixed(p, a) = fixed
  BY <1>6 DEF Fixed, new
<1>15. PlacedSound(p, h, a)
  <2>1. hheader_next(p.hdr, a) = n /\ p.hdr = new
    BY <1>6 DEF new
  <2>2. a \in DOMAIN new
    BY <1>6
  <2>3. new[a].size = hdr[h].size - (a - h)
    BY <1>2, <1>7
  <2>4. Tiled(Fixed(p, a)) /\ Linked(Fixed(p, a))
    BY <1>6, <1>14
  <2> HIDE DEF fixed
  <2> QED
    BY <1>6, <1>7, <1>10, <1>11, <1>12, <1>13, <2>1, <2>2, <2>3, <2>4 DEF PlacedSound
<1>16. ASSUME n \in DOMAIN new PROVE Stale(p, h, a)
  <2>1. n \in DOMAIN t /\ n # h /\ n # a
    <3>1. n # a
      BY <1>6, <1>16, BlockFacts
    <3>2. n # h
      BY <1>1, BlockFacts
    <3> QED
      BY <1>6, <1>16, <3>1, <3>2
  <2>2. new[n].prev = h
    BY <1>1, <1>6, <2>1 DEF Linked
  <2> QED
    BY <1>1, <1>6, <1>7, <1>16, <2>2 DEF Stale, new
<1>17. ASSUME n \notin DOMAIN new PROVE p.hdr = Fixed(p, a)
  BY <1>14, <1>17 DEF LinkBack, new
<1>18. hheader_next(p.hdr, a) = n /\ new = p.hdr
  BY <1>6 DEF new
<1> QED
  BY <1>15, <1>16, <1>17, <1>18 DEF p

\* The block keeps what was asked for and a hole is made of the rest, or there
\* is no more to spare than a header.
LEMMA AllocatedSound ==
    ASSUME NEW p, NEW h, NEW a, NEW size \in Nat, PlacedSound(p, h, a),
           p = [hdr |-> p.hdr, index |-> p.index],
           p.hdr[a].size - size > HeaderSize
    PROVE  LET new == heap_high_split(p, a, size)
           IN  /\ Sound(new.hdr) /\ Listed(new)
               /\ BlocksPlus(heap.hdr, a, new.hdr) /\ new.hdr[a].size = size
<1> DEFINE t == p.hdr
           new == heap_high_split(p, a, size)
           nh == new.hdr
           hole == a + HeaderSize + size
           n == hheader_next(t, a)
<1>1. /\ Tiled(t) /\ Listed(p) /\ a \in DOMAIN t /\ ~ t[a].is_hole
      /\ BlocksPlus(heap.hdr, a, t) /\ HolesApartBut(t, {})
      /\ n \notin HolesOf(t)
      /\ Tiled(LinkBack(t, n, a)) /\ Linked(LinkBack(t, n, a))
  BY DEF PlacedSound, Fixed
<1>2. /\ nh = heap_high_split([hdr |-> t, index |-> p.index], a, size).hdr
      /\ new.index = ordlist_insert(nh, p.index, hole)
  <2>1. new = heap_high_split([hdr |-> t, index |-> p.index], a, size)
    OBVIOUS
  <2> HIDE DEF new
  <2> QED
    BY <2>1 DEF heap_high_split
<1> HIDE DEF t, new
<1>3. /\ DOMAIN nh = DOMAIN t \cup {hole} /\ hole \notin DOMAIN t
      /\ hole \in Nat
      /\ nh[hole].is_hole = TRUE
      /\ nh[a].size = size
      /\ \A b \in DOMAIN t : nh[b].is_hole = t[b].is_hole
      /\ \A b \in DOMAIN t \ {a} : nh[b].size = t[b].size
      /\ hheader_next(nh, a) = hole
      /\ hheader_next(nh, hole) = n
      /\ \A b \in DOMAIN t \ {a} : hheader_next(nh, b) = hheader_next(t, b)
      /\ Tiled(nh) /\ Linked(nh)
  <2>1. t[a].size - size > HeaderSize
    BY DEF t
  <2> DEFINE s == heap_high_split([hdr |-> t, index |-> p.index], a, size).hdr
  <2>2. /\ DOMAIN s = DOMAIN t \cup {hole} /\ hole \notin DOMAIN t
        /\ hole \in Nat
        /\ s[hole].is_hole = TRUE
        /\ s[a].size = size
        /\ \A b \in DOMAIN t : s[b].is_hole = t[b].is_hole
        /\ \A b \in DOMAIN t \ {a} : s[b].size = t[b].size
        /\ hheader_next(s, a) = hole
        /\ hheader_next(s, hole) = n
        /\ \A b \in DOMAIN t \ {a} : hheader_next(s, b) = hheader_next(t, b)
        /\ Tiled(s) /\ Linked(s)
    BY <1>1, <2>1, HighSplit
  <2>3. s = nh
    BY <1>2
  <2> HIDE DEF s, nh
  <2> QED
    BY <2>2, <2>3
<1> HIDE DEF nh, hole
<1>4. HolesOf(nh) = HolesOf(t) \cup {hole}
  BY <1>3 DEF HolesOf
<1>5. a \notin HolesOf(t) /\ HolesOf(t) \subseteq DOMAIN t
  BY <1>1 DEF HolesOf
<1>6. HolesApartBut(nh, {})
  <2>1. ASSUME NEW b \in HolesOf(nh) PROVE hheader_next(nh, b) \notin HolesOf(nh)
    <3>1. CASE b = hole
      <4>1. n # hole
        BY <1>3, BlockFacts
      <4> QED
        BY <1>1, <1>3, <1>4, <3>1, <4>1
    <3>2. CASE b # hole
      <4>1. b \in HolesOf(t) /\ b \in DOMAIN t \ {a}
        BY <1>4, <1>5, <3>2
      <4>2. hheader_next(nh, b) = hheader_next(t, b) /\ hheader_next(t, b) \notin HolesOf(t)
        BY <1>1, <1>3, <4>1 DEF HolesApartBut
      <4>3. hheader_next(nh, b) # hole
        <5> SUFFICES ASSUME hheader_next(nh, b) = hole PROVE FALSE
          OBVIOUS
        <5>1. hole \in DOMAIN nh /\ b \in DOMAIN nh /\ a \in DOMAIN nh
          BY <1>1, <1>3, <4>1
        <5>2. nh[hole].prev = b /\ nh[hole].prev = a
          BY <1>3, <5>1 DEF Linked
        <5> QED
          BY <4>1, <5>2
      <4> QED
        BY <1>4, <4>2, <4>3
    <3> QED
      BY <3>1, <3>2
  <2> QED
    BY <2>1 DEF HolesApartBut
<1>7. BlocksPlus(heap.hdr, a, nh)
  <2>1. DOMAIN nh \ HolesOf(nh) = DOMAIN t \ HolesOf(t)
    BY <1>3, <1>4, <1>5
  <2>2. ASSUME NEW b \in DOMAIN heap.hdr \ HolesOf(heap.hdr)
        PROVE  nh[b].size = heap.hdr[b].size
    <3>1. b \in DOMAIN t \ HolesOf(t) /\ b # a /\ t[b].size = heap.hdr[b].size
      BY <1>1 DEF BlocksPlus
    <3> QED
      BY <1>3, <3>1
  <2> QED
    BY <1>1, <2>1, <2>2 DEF BlocksPlus
<1>8. Listed(new)
  <2> DEFINE q == p.index
             r == ordlist_insert(nh, q, hole)
  <2>1. q \in Seq(Addresses) /\ IsInjective(q) /\ Range(q) = HolesOf(t)
    BY <1>1 DEF Listed, t
  <2>2. hole \in Addresses
    BY <1>3, ConstantFacts DEF Tiled, Addresses
  <2>3. hole \notin Range(q)
    BY <1>3, <1>5, <2>1
  <2>4. new.index = r /\ new.hdr = nh
    BY <1>2 DEF nh
  <2> HIDE DEF q
  <2>5. r \in Seq(Addresses) /\ IsInjective(r) /\ Range(r) = Range(q) \cup {hole}
    BY <2>1, <2>2, <2>3, ordlist_insertProperties
  <2> QED
    BY <1>4, <2>1, <2>4, <2>5 DEF Listed
<1>9. Sound(nh)
  BY <1>3, <1>6 DEF Sound
<1> QED
  BY <1>3, <1>7, <1>8, <1>9 DEF nh, new

---------------------------------------------------------------------------
(* heap_alloc: the types, also where the model stops. *)

HdrTypes(hdr) ==
    /\ DOMAIN hdr \subseteq Addresses
    /\ \A a \in DOMAIN hdr :
          hdr[a] \in [is_hole : BOOLEAN, size : 0 .. HeapSize, prev : {NULL} \cup Addresses]

LEMMA TiledTypes ==
    ASSUME NEW hdr, Tiled(hdr), \A b \in DOMAIN hdr : hdr[b].prev \in {NULL} \cup DOMAIN hdr
    PROVE  HdrTypes(hdr)
<1>1. DOMAIN hdr \subseteq Addresses
  BY ConstantFacts DEF Tiled, Addresses
<1>2. ASSUME NEW b \in DOMAIN hdr
      PROVE  hdr[b] \in [is_hole : BOOLEAN, size : 0 .. HeapSize, prev : {NULL} \cup Addresses]
  <2>1. hdr[b] \in [is_hole : BOOLEAN, size : Nat, prev : Nat]
    BY DEF Tiled
  <2>2. hdr[b].size \in 0 .. HeapSize
    BY BlockFacts, ConstantFacts
  <2>3. hdr[b].prev \in {NULL} \cup Addresses
    BY <1>1
  <2> QED
    BY <2>1, <2>2, <2>3
<1> QED
  BY <1>1, <1>2 DEF HdrTypes

LEMMA LinkedTypes ==
    ASSUME NEW hdr, Tiled(hdr), Linked(hdr)
    PROVE  HdrTypes(hdr)
<1>1. \A b \in DOMAIN hdr : hdr[b].prev \in {NULL} \cup DOMAIN hdr
  BY DEF Linked
<1> QED
  BY <1>1, TiledTypes

\* A header in the heap with a size and a back link that can be.
LEMMA CutTypes ==
    ASSUME NEW t, HdrTypes(t), NEW a \in DOMAIN t, NEW size \in 0 .. HeapSize,
           NEW hole \in Addresses, NEW rest \in 0 .. HeapSize, NEW n
    PROVE  LET cut == With([t EXCEPT ![a].size = size], hole, Header(TRUE, rest, a))
           IN  HdrTypes(LinkBack(cut, n, hole))
<1> DEFINE short == [t EXCEPT ![a].size = size]
           cut == With(short, hole, Header(TRUE, rest, a))
           T == [is_hole : BOOLEAN, size : 0 .. HeapSize, prev : {NULL} \cup Addresses]
<1>1. a \in Addresses /\ DOMAIN t \subseteq Addresses /\ \A b \in DOMAIN t : t[b] \in T
  BY DEF HdrTypes
<1>2. DOMAIN short = DOMAIN t /\ \A b \in DOMAIN t : short[b] \in T
  BY <1>1
<1>3. Header(TRUE, rest, a) \in T
  BY <1>1 DEF Header
<1> HIDE DEF short
<1>4. DOMAIN cut = DOMAIN t \cup {hole} /\ \A b \in DOMAIN cut : cut[b] \in T
  BY <1>2, <1>3 DEF With
<1> HIDE DEF cut
<1>5. CASE hheader_isvalid(n) /\ n \in DOMAIN cut
  <2>1. LinkBack(cut, n, hole) = [cut EXCEPT ![n].prev = hole]
    BY <1>5 DEF LinkBack
  <2>2. \A b \in DOMAIN cut : [cut EXCEPT ![n].prev = hole][b] \in T
    BY <1>4, <1>5
  <2>3. DOMAIN [cut EXCEPT ![n].prev = hole] = DOMAIN cut
    OBVIOUS
  <2> QED
    BY <1>1, <1>4, <2>1, <2>2, <2>3 DEF HdrTypes, cut, short
<1>6. CASE ~ (hheader_isvalid(n) /\ n \in DOMAIN cut)
  <2>1. LinkBack(cut, n, hole) = cut
    BY <1>6 DEF LinkBack
  <2> QED
    BY <1>1, <1>4, <2>1 DEF HdrTypes, cut, short
<1> QED
  BY <1>5, <1>6

\* A gap given away.
LEMMA AbsorbedTypes ==
    ASSUME Sound(heap.hdr), Listed(heap), NEW h \in DOMAIN heap.hdr, heap.hdr[h].is_hole,
           h # HeapStart, NEW a \in Nat, a - h \in 1 .. HeaderSize,
           NEW size \in Nat, heap.hdr[h].size - (a - h) >= size, a < h + heap.hdr[h].size
    PROVE  LET p == Placed(h, a, TRUE)
               new == IF LeavesRoom(p.hdr[a].size - size)
                      THEN heap_high_split(p, a, size) ELSE p
           IN  HdrTypes(new.hdr) /\ new.index \in Seq(Addresses)
<1> DEFINE hdr == heap.hdr
           t == Taken(h).hdr
           old == t[h]
           p == Placed(h, a, TRUE)
           gone == Without(t, h)
           moved == With(gone, a, Header(FALSE, old.size, old.prev))
           q == Taken(h).index
<1>1. /\ Tiled(t) /\ Linked(t) /\ DOMAIN t = DOMAIN hdr
      /\ \A b \in DOMAIN t : t[b].size = hdr[b].size
      /\ HolesOf(t) = HolesOf(hdr) \ {h}
      /\ Listed(Taken(h))
  BY TakenSound
<1>2. HdrTypes(t)
  BY <1>1, LinkedTypes
<1>3. q \in Seq(Addresses) /\ IsInjective(q) /\ Range(q) = HolesOf(t)
  BY <1>1 DEF Listed
<1>4. /\ h \in Nat /\ HeapStart <= h /\ old.size \in Nat /\ old.size = hdr[h].size
      /\ h + HeaderSize + old.size <= HeapEnd + HeaderSize
      /\ hheader_next(t, h) = h + HeaderSize + old.size
      /\ old.size \in 0 .. HeapSize
  BY <1>1, BlockFacts, ConstantFacts
<1>5. h < a /\ a < HeapEnd /\ a # h /\ a \in Addresses /\ a - h \in Nat /\ a - h <= HeaderSize
  BY <1>4, ConstantFacts DEF Addresses
<1>6. \A b \in DOMAIN t : h < b => h + HeaderSize + old.size <= b
  BY <1>1, <1>4 DEF Tiled
<1>7. a \notin DOMAIN t
  BY <1>4, <1>5, <1>6, ConstantFacts
<1>8. /\ old.prev \in DOMAIN t /\ old.prev # h /\ old.prev # NULL /\ old.prev # a
      /\ old.prev \in Nat /\ HeapStart <= old.prev /\ t[old.prev].size \in Nat
      /\ h = old.prev + HeaderSize + t[old.prev].size
  <2>1. old.prev \in DOMAIN t /\ hheader_next(t, old.prev) = h
    BY <1>1 DEF Linked
  <2>2. /\ old.prev \in Nat /\ HeapStart <= old.prev /\ t[old.prev].size \in Nat
        /\ hheader_next(t, old.prev) = old.prev + HeaderSize + t[old.prev].size
        /\ old.prev < hheader_next(t, old.prev)
    BY <1>1, <2>1, BlockFacts
  <2> DEFINE y == old.prev
             x == t[y].size
  <2>3. h \in DOMAIN t /\ h \in Nat
    BY <1>1, <1>4
  <2>4. /\ y \in DOMAIN t /\ y \in Nat /\ HeapStart <= y /\ x \in Nat
        /\ h = y + HeaderSize + x
    BY <2>1, <2>2
  <2> HIDE DEF x, y
  <2>5. y # h /\ y # NULL /\ y # a
    BY <1>7, <2>3, <2>4, ConstantFacts
  <2> QED
    BY <2>4, <2>5 DEF x, y
<1>9. ~ (a - h > HeaderSize)
  BY <1>5, ConstantFacts
<1>10. p = AbsorbGap(Taken(h), h, a)
  BY <1>9 DEF Placed
<1> HIDE DEF p, t, q
<1>11. /\ p.hdr = IF old.prev \in DOMAIN moved
                  THEN [moved EXCEPT ![old.prev].size = @ + (a - h)] ELSE moved
       /\ p.index = q
  BY <1>5, <1>8, <1>10 DEF AbsorbGap, t, q
<1>12. /\ DOMAIN gone = DOMAIN t \ {h}
       /\ \A b \in DOMAIN t \ {h} : gone[b] = t[b]
  BY DEF Without
<1> HIDE DEF gone
<1>13. /\ DOMAIN moved = (DOMAIN t \ {h}) \cup {a}
       /\ moved[a] = Header(FALSE, old.size, old.prev)
       /\ \A b \in DOMAIN t \ {h} : moved[b] = t[b]
  BY <1>7, <1>12 DEF With
<1> HIDE DEF moved
<1>14. /\ p.hdr = [moved EXCEPT ![old.prev].size = t[old.prev].size + (a - h)]
       /\ DOMAIN p.hdr = DOMAIN moved
  BY <1>8, <1>11, <1>13
<1>15. t[old.prev].size + (a - h) \in 0 .. HeapSize
  <2> DEFINE x == t[old.prev].size
             y == old.prev
  <2>1. x \in Nat /\ y \in Nat /\ HeapStart <= y /\ h = y + HeaderSize + x
    BY <1>8
  <2> HIDE DEF x, y
  <2>2. x + (a - h) \in 0 .. HeapSize
    BY <1>4, <1>5, <2>1, ConstantFacts
  <2> QED
    BY <2>2 DEF x
<1>16. p.hdr[a].size = old.size
  BY <1>5, <1>8, <1>13, <1>14 DEF Header
<1>17. HdrTypes(p.hdr)
  <2> DEFINE T == [is_hole : BOOLEAN, size : 0 .. HeapSize, prev : {NULL} \cup Addresses]
  <2>1. DOMAIN t \subseteq Addresses /\ \A b \in DOMAIN t : t[b] \in T
    BY <1>2 DEF HdrTypes
  <2>2. Header(FALSE, old.size, old.prev) \in T
    BY <1>4, <1>8, <2>1 DEF Header
  <2>3. \A b \in DOMAIN moved : moved[b] \in T
    BY <1>13, <2>1, <2>2
  <2>4. \A b \in DOMAIN moved :
           [moved EXCEPT ![old.prev].size = t[old.prev].size + (a - h)][b] \in T
    BY <1>15, <2>3
  <2> QED
    BY <1>5, <1>13, <1>14, <2>1, <2>4 DEF HdrTypes
<1>18. CASE ~ LeavesRoom(p.hdr[a].size - size)
  BY <1>3, <1>11, <1>17, <1>18 DEF p
<1>19. CASE LeavesRoom(p.hdr[a].size - size)
  <2> DEFINE n == hheader_next(p.hdr, a)
             hole == a + HeaderSize + size
             cut == With([p.hdr EXCEPT ![a].size = size], hole, Header(TRUE, n - hole - HeaderSize, a))
             r == ordlist_insert(LinkBack(cut, n, hole), p.index, hole)
  <2>1. heap_high_split(p, a, size) = [hdr |-> LinkBack(cut, n, hole), index |-> r]
    BY DEF heap_high_split
  <2>2. old.size - size > HeaderSize
    BY <1>16, <1>19 DEF LeavesRoom
  <2>3. n = a + HeaderSize + old.size
    BY <1>16 DEF hheader_next
  <2>4. /\ n - hole - HeaderSize \in 0 .. HeapSize
        /\ hole \in Addresses /\ h < hole /\ hole < h + HeaderSize + old.size
    BY <1>4, <1>5, <2>2, <2>3, ConstantFacts DEF Addresses
  <2>5. size \in 0 .. HeapSize /\ a \in DOMAIN p.hdr
    BY <1>4, <1>13, <1>14, <2>2, ConstantFacts
  <2>6. hole \notin Range(q)
    <3>1. hole \notin DOMAIN t
      BY <1>4, <1>6, <2>4, ConstantFacts DEF Addresses
    <3> QED
      BY <1>3, <3>1 DEF HolesOf
  <2>7. r \in Seq(Addresses)
    <3> DEFINE nh == LinkBack(cut, n, hole)
    <3>1. r = ordlist_insert(nh, q, hole)
      BY <1>11
    <3> HIDE DEF nh, hole, r
    <3> QED
      BY <1>3, <2>4, <2>6, <3>1, ordlist_insertProperties
  <2>8. HdrTypes(LinkBack(cut, n, hole))
    <3> DEFINE rest == n - hole - HeaderSize
    <3>1. rest \in 0 .. HeapSize
      BY <2>4
    <3> HIDE DEF rest, n, hole
    <3>2. HdrTypes(LinkBack(With([p.hdr EXCEPT ![a].size = size], hole, Header(TRUE, rest, a)), n, hole))
      BY <1>17, <2>4, <2>5, <3>1, CutTypes
    <3> QED
      BY <3>2 DEF rest
  <2> DEFINE new == IF LeavesRoom(p.hdr[a].size - size)
                    THEN heap_high_split(p, a, size) ELSE p
  <2>9. new = [hdr |-> LinkBack(cut, n, hole), index |-> r]
    BY <1>19, <2>1
  <2> HIDE DEF cut, n, hole, r, new
  <2>10. HdrTypes(new.hdr) /\ new.index \in Seq(Addresses)
    BY <2>7, <2>8, <2>9
  <2> QED
    BY <2>10 DEF new, p
<1> QED
  BY <1>18, <1>19

LEMMA NoAllocFault ==
    ASSUME Sound(heap.hdr), Recorded(heap.hdr, live),
           live \subseteq [ptr : Addresses, size : AllocSizes \cup AlignedSizes],
           NEW h \in DOMAIN heap.hdr, heap.hdr[h].is_hole,
           NEW a \in Nat, h <= a, NEW size \in Nat, size > 0,
           heap.hdr[h].size - (a - h) >= size
    PROVE  ~ AllocFault(a + HeaderSize, size)
<1> SUFFICES ASSUME NEW rec \in live,
                    {a + HeaderSize, a + HeaderSize + size - 1}
                        \cap (rec.ptr .. rec.ptr + rec.size - 1) # {}
             PROVE  FALSE
  BY DEF AllocFault
<1> DEFINE hdr == heap.hdr
           b == rec.ptr - HeaderSize
<1>1. rec.ptr \in Int /\ rec.size \in Int
  BY SizesAssumption DEF Addresses
<1>2. PICK x \in {a + HeaderSize, a + HeaderSize + size - 1} : x \in rec.ptr .. rec.ptr + rec.size - 1
  OBVIOUS
<1>3. a + HeaderSize <= x /\ x <= a + HeaderSize + size - 1 /\ x \in Int
  BY <1>2, ConstantFacts
<1>4. rec.ptr <= x /\ x <= rec.ptr + rec.size - 1
  BY <1>1, <1>2
<1>5. b \in DOMAIN hdr \ HolesOf(hdr) /\ hdr[b].size - rec.size \in 0 .. HeaderSize
  BY DEF Recorded
<1>6. b # h
  BY <1>5 DEF HolesOf
<1>7. /\ b \in Nat /\ hdr[b].size \in Nat /\ hheader_next(hdr, b) = b + HeaderSize + hdr[b].size
      /\ h \in Nat /\ hdr[h].size \in Nat /\ hheader_next(hdr, h) = h + HeaderSize + hdr[h].size
  BY <1>5, BlockFacts DEF Sound
<1>8. /\ b < h => hheader_next(hdr, b) <= h
      /\ h < b => hheader_next(hdr, h) <= b
  BY <1>5 DEF Sound, Tiled
<1>9. rec.size <= hdr[b].size
  BY <1>1, <1>5, <1>7, ConstantFacts
<1>10. CASE b < h
  <2>1. rec.ptr + rec.size <= h
    BY <1>1, <1>7, <1>8, <1>9, <1>10, ConstantFacts
  <2> QED
    BY <1>1, <1>3, <1>4, <1>7, <2>1, ConstantFacts
<1>11. CASE h < b
  <2>1. h + HeaderSize + hdr[h].size <= b
    BY <1>7, <1>8, <1>11
  <2>2. a + HeaderSize + size <= b
    BY <1>7, <2>1, ConstantFacts
  <2> QED
    BY <1>1, <1>3, <1>4, <1>7, <2>2, ConstantFacts
<1> QED
  BY <1>6, <1>7, <1>10, <1>11

---------------------------------------------------------------------------
(* heap_alloc: the invariant. *)

LEMMA PlacedRecord ==
    ASSUME NEW h, NEW a, NEW align
    PROVE  LET p == Placed(h, a, align) IN p = [hdr |-> p.hdr, index |-> p.index]
<1>1. CASE ~ align
  BY <1>1 DEF Placed, Taken
<1>2. CASE align /\ a - h > HeaderSize
  <2>1. Placed(h, a, align) = heap_low_split(Taken(h), h, a)
    BY <1>2 DEF Placed
  <2> QED
    BY <2>1 DEF heap_low_split
<1>3. CASE align /\ ~ (a - h > HeaderSize)
  <2>1. Placed(h, a, align) = AbsorbGap(Taken(h), h, a)
    BY <1>3 DEF Placed
  <2> QED
    BY <2>1 DEF AbsorbGap
<1> QED
  BY <1>1, <1>2, <1>3

\* Without a stale back link the heap with the block is sound.
LEMMA FixedSound ==
    ASSUME NEW p, NEW h, NEW a, PlacedSound(p, h, a), p.hdr = Fixed(p, a)
    PROVE  Sound(p.hdr)
<1>1. Tiled(p.hdr) /\ HolesApartBut(p.hdr, {}) /\ Linked(Fixed(p, a))
  BY DEF PlacedSound
<1> QED
  BY <1>1 DEF Sound

\* heap_check finds the stale back link, and that is all there is to mend.
LEMMA StaleFails ==
    ASSUME NEW p, NEW h, NEW a, PlacedSound(p, h, a), Stale(p, h, a), h # a
    PROVE  /\ ~ heap_check(p.hdr)
           /\ heap_check([p.hdr EXCEPT ![hheader_next(p.hdr, a)].prev = a])
<1> DEFINE t == p.hdr
           n == hheader_next(t, a)
           fixed == LinkBack(t, n, a)
<1>1. /\ Tiled(t) /\ a \in DOMAIN t /\ HolesApartBut(t, {})
      /\ Tiled(fixed) /\ Linked(fixed)
  BY DEF PlacedSound, Fixed
<1>2. n \in DOMAIN t /\ t[n].prev = h
  BY DEF Stale
<1>3. hheader_isvalid(n)
  BY <1>1, <1>2, BlockFacts
<1>4. ~ heap_check(t)
  <2>1. a \in Walk(t)
    BY <1>1, WalkMeetsAll
  <2>2. ~ LinkedAfter(t, a)
    BY <1>2, <1>3 DEF LinkedAfter
  <2> QED
    BY <2>1, <2>2 DEF heap_check
<1>5. a \in Nat /\ \A b \in DOMAIN t : t[b] \in HeaderType
  BY <1>1, BlockFacts DEF HeaderType
<1> HIDE DEF t, n
<1>6. /\ DOMAIN fixed = DOMAIN t
      /\ \A b \in DOMAIN t : fixed[b].size = t[b].size /\ fixed[b].is_hole = t[b].is_hole
  BY <1>5, LinkBackFacts
<1>7. fixed = [t EXCEPT ![n].prev = a]
  BY <1>2, <1>3 DEF LinkBack
<1> HIDE DEF fixed
<1>8. HolesOf(fixed) = HolesOf(t) /\ \A b \in DOMAIN t : hheader_next(fixed, b) = hheader_next(t, b)
  BY <1>6 DEF HolesOf, hheader_next
<1>9. HolesApartBut(fixed, {})
  <2>1. HolesOf(t) \subseteq DOMAIN t
    BY DEF HolesOf
  <2> QED
    BY <1>1, <1>8, <2>1 DEF HolesApartBut
<1>10. heap_check(fixed)
  BY <1>1, <1>9, SoundPasses DEF Sound
<1> QED
  BY <1>4, <1>7, <1>10 DEF t, n

\* The heap new after size units were taken from a on in a hole: sound, or with
\* a stale back link to where the hole began.
AllocDone(new, a, size) ==
    /\ HdrTypes(new.hdr) /\ Listed(new)
    /\ BlocksPlus(heap.hdr, a, new.hdr)
    /\ new.hdr[a].size - size \in 0 .. HeaderSize

StaleAt(hdr, a) ==
    LET h == hdr[a].prev
        next == hheader_next(hdr, a)
    IN  /\ a \in DOMAIN hdr /\ ~ hdr[a].is_hole
        /\ hdr[next].prev = h /\ hheader_next(hdr, h) = a
        /\ ~ heap_check(hdr)
        /\ heap_check([hdr EXCEPT ![next].prev = a])

LEMMA AllocHole ==
    ASSUME Sound(heap.hdr), Listed(heap), NEW h \in DOMAIN heap.hdr, heap.hdr[h].is_hole,
           NEW a \in Nat, h <= a, NEW size \in Nat, heap.hdr[h].size - (a - h) >= size,
           NEW align \in BOOLEAN,
           align => a < h + heap.hdr[h].size, ~ align => a = h,
           align /\ h = HeapStart => a - h > HeaderSize,
           ~ (align /\ a - h \in 1 .. HeaderSize),
           NEW p, p = Placed(h, a, align),
           NEW new, new = IF LeavesRoom(p.hdr[a].size - size)
                          THEN heap_high_split(p, a, size) ELSE p
    PROVE  /\ AllocDone(new, a, size)
           /\ Sound(new.hdr) \/ (align /\ StaleAt(new.hdr, a))
<1>1. /\ h \in Nat /\ heap.hdr[h].size \in Nat /\ HeaderSize \in Nat
      /\ Tiled(heap.hdr)
  BY BlockFacts, ConstantFacts DEF Sound
<1>2. a = h \/ (align /\ a - h > HeaderSize)
  BY <1>1
<1>3. PlacedSound(p, h, a) /\ (p.hdr = Fixed(p, a) \/ (align /\ a # h /\ Stale(p, h, a)))
  <2>1. CASE a = h
    <3>1. align => h # HeapStart
      BY <1>1, <2>1
    <3> QED
      BY <2>1, <3>1, PlacedWhole
  <2>2. CASE align /\ a - h > HeaderSize
    <3>1. a # h /\ p = Placed(h, a, TRUE)
      BY <1>1, <2>2
    <3>2. /\ PlacedSound(p, h, a)
          /\ hheader_next(p.hdr, a) \in DOMAIN p.hdr => Stale(p, h, a)
          /\ hheader_next(p.hdr, a) \notin DOMAIN p.hdr => p.hdr = Fixed(p, a)
      BY <2>2, <3>1, PlacedAbove
    <3> QED
      BY <2>2, <3>1, <3>2
  <2> QED
    BY <1>2, <2>1, <2>2
<1>4. p = [hdr |-> p.hdr, index |-> p.index]
  BY PlacedRecord
<1>5. /\ Tiled(p.hdr) /\ Listed(p) /\ a \in DOMAIN p.hdr /\ ~ p.hdr[a].is_hole
      /\ p.hdr[a].size = heap.hdr[h].size - (a - h)
      /\ BlocksPlus(heap.hdr, a, p.hdr)
      /\ \A b \in DOMAIN p.hdr : p.hdr[b].prev \in {NULL} \cup DOMAIN p.hdr
  BY <1>3 DEF PlacedSound
<1>6. CASE LeavesRoom(p.hdr[a].size - size)
  <2>1. new = heap_high_split(p, a, size) /\ p.hdr[a].size - size > HeaderSize
    BY <1>6 DEF LeavesRoom
  <2>2. /\ Sound(new.hdr) /\ Listed(new)
        /\ BlocksPlus(heap.hdr, a, new.hdr) /\ new.hdr[a].size = size
    BY <1>3, <1>4, <2>1, AllocatedSound
  <2>3. new.hdr[a].size - size \in 0 .. HeaderSize
    BY <1>1, <2>2
  <2>4. HdrTypes(new.hdr)
    BY <2>2, LinkedTypes DEF Sound
  <2> QED
    BY <2>2, <2>3, <2>4 DEF AllocDone
<1>7. CASE ~ LeavesRoom(p.hdr[a].size - size)
  <2>1. new = p
    BY <1>7
  <2>2. new.hdr[a].size - size \in 0 .. HeaderSize
    BY <1>1, <1>5, <1>7, <2>1 DEF LeavesRoom
  <2>3. HdrTypes(new.hdr)
    BY <1>5, <2>1, TiledTypes
  <2>4. AllocDone(new, a, size)
    BY <1>5, <2>1, <2>2, <2>3 DEF AllocDone
  <2>5. CASE p.hdr = Fixed(p, a)
    BY <1>3, <2>1, <2>4, <2>5, FixedSound
  <2>6. CASE align /\ a # h /\ Stale(p, h, a)
    <3>1. /\ ~ heap_check(p.hdr)
          /\ heap_check([p.hdr EXCEPT ![hheader_next(p.hdr, a)].prev = a])
      BY <1>3, <2>6, StaleFails
    <3>2. StaleAt(p.hdr, a)
      BY <1>5, <2>6, <3>1 DEF StaleAt, Stale
    <3> QED
      BY <2>1, <2>4, <2>6, <3>2
  <2> QED
    BY <1>3, <2>5, <2>6
<1> QED
  BY <1>6, <1>7

LEMMA AllocatedFacts ==
    ASSUME NEW h, NEW size, NEW align
    PROVE  LET a == Place(h, align)
               p == Placed(h, a, align)
           IN  Allocated(h, size, align) = IF LeavesRoom(p.hdr[a].size - size)
                                           THEN heap_high_split(p, a, size) ELSE p
<1> DEFINE a == Place(h, align)
           p == Placed(h, a, align)
<1>1. p = IF ~ align THEN Taken(h)
          ELSE IF a - h > HeaderSize THEN heap_low_split(Taken(h), h, a)
          ELSE AbsorbGap(Taken(h), h, a)
  BY DEF Placed
<1> HIDE DEF a, p
<1>2. Allocated(h, size, align) = IF LeavesRoom(p.hdr[a].size - size)
                                  THEN heap_high_split(p, a, size) ELSE p
  BY <1>1 DEF Allocated, Taken, a
<1> QED
  BY <1>2 DEF a, p

LEMMA AddedRecord ==
    ASSUME Recorded(heap.hdr, live), NEW new, NEW a \in Nat, NEW size,
           live \subseteq [ptr : Addresses, size : AllocSizes \cup AlignedSizes],
           BlocksPlus(heap.hdr, a, new), new[a].size - size \in 0 .. HeaderSize
    PROVE  Recorded(new, live \cup {[ptr |-> a + HeaderSize, size |-> size]})
<1> DEFINE rec == [ptr |-> a + HeaderSize, size |-> size]
           B == DOMAIN heap.hdr \ HolesOf(heap.hdr)
<1>1. rec.ptr - HeaderSize = a /\ rec.size = size
  BY ConstantFacts
<1>2. /\ B = {r.ptr - HeaderSize : r \in live}
      /\ \A r \in live : heap.hdr[r.ptr - HeaderSize].size - r.size \in 0 .. HeaderSize
      /\ \A r, other \in live : r.ptr = other.ptr => r = other
  BY DEF Recorded
<1>3. /\ DOMAIN new \ HolesOf(new) = B \cup {a} /\ a \notin B
      /\ \A b \in B : new[b].size = heap.hdr[b].size
  BY DEF BlocksPlus
<1> HIDE DEF rec, B
<1>4. DOMAIN new \ HolesOf(new) = {r.ptr - HeaderSize : r \in live \cup {rec}}
  BY <1>1, <1>2, <1>3
<1>5. \A r \in live \cup {rec} : new[r.ptr - HeaderSize].size - r.size \in 0 .. HeaderSize
  <2>1. ASSUME NEW r \in live PROVE new[r.ptr - HeaderSize].size - r.size \in 0 .. HeaderSize
    <3>1. r.ptr - HeaderSize \in B
      BY <1>2
    <3> QED
      BY <1>2, <1>3, <3>1
  <2> QED
    BY <1>1, <2>1
<1>6. \A r \in live : r.ptr # rec.ptr
  <2> SUFFICES ASSUME NEW r \in live, r.ptr = rec.ptr PROVE FALSE
    OBVIOUS
  <2>1. r.ptr - HeaderSize = a
    BY <1>1
  <2> QED
    BY <1>2, <1>3, <2>1
<1>7. \A r, other \in live \cup {rec} : r.ptr = other.ptr => r = other
  BY <1>2, <1>6
<1> QED
  BY <1>4, <1>5, <1>7 DEF Recorded, rec

LEMMA AllocIInv ==
    ASSUME IInv, NEW size \in AllocSizes \cup AlignedSizes, NEW align \in BOOLEAN,
           heap_alloc(size, align)
    PROVE  IInv'
<1> DEFINE h == BestHole(size, align)
           a == Place(h, align)
           p == Placed(h, a, align)
           new == IF LeavesRoom(p.hdr[a].size - size)
                  THEN heap_high_split(p, a, size) ELSE p
           rec == [ptr |-> a + HeaderSize, size |-> size]
<1>1. /\ halted = RUNNING /\ h # NULL /\ heap' = new
      /\ halted' = AfterAlloc(h, a + HeaderSize, size, align, new)
      /\ live' = IF halted' \in {"ALLOC FAULT", "WATCHER OVERFLOWED"} THEN live
                 ELSE live \cup {rec}
  <2>1. new = Allocated(h, size, align)
    BY AllocatedFacts
  <2> HIDE DEF new
  <2> QED
    BY <2>1 DEF heap_alloc
<1>2. /\ Sound(heap.hdr) /\ Listed(heap) /\ Recorded(heap.hdr, live)
      /\ live \subseteq [ptr : Addresses, size : AllocSizes \cup AlignedSizes]
      /\ IsFiniteSet(live)
  BY <1>1 DEF IInv, TypeOK
<1>3. size \in Nat /\ size > 0
  BY SizesAssumption
<1>4. /\ h \in DOMAIN heap.hdr /\ heap.hdr[h].is_hole
      /\ a \in Nat /\ h <= a /\ heap.hdr[h].size - (a - h) >= size
      /\ align => a < h + heap.hdr[h].size /\ a % PageSize = PageSize - HeaderSize
      /\ ~ align => a = h
      /\ align /\ h = HeapStart => a - h > HeaderSize
  BY <1>1, <1>2, <1>3, HoleFound
<1>5. GapTooSmall(h, align) <=> a - h \in 1 .. HeaderSize
  BY DEF GapTooSmall
<1>6. \E q : q = p
  OBVIOUS
<1> HIDE DEF h, a, p
<1>7. h \in Nat /\ heap.hdr[h].size \in Nat /\ h + heap.hdr[h].size <= HeapEnd /\ HeapStart <= h
  <2>1. /\ h \in Nat /\ heap.hdr[h].size \in Nat /\ HeapStart <= h
        /\ hheader_next(heap.hdr, h) = h + HeaderSize + heap.hdr[h].size
        /\ hheader_next(heap.hdr, h) <= HeapEnd + HeaderSize
    BY <1>2, <1>4, BlockFacts DEF Sound
  <2> QED
    BY <2>1, ConstantFacts
<1>8. rec \in [ptr : Addresses, size : AllocSizes \cup AlignedSizes]
  <2>1. a + HeaderSize \in Addresses
    BY <1>3, <1>4, <1>7, ConstantFacts DEF Addresses
  <2> QED
    BY <2>1
<1>9. /\ live' \subseteq [ptr : Addresses, size : AllocSizes \cup AlignedSizes]
      /\ IsFiniteSet(live')
  <2>1. IsFiniteSet(live \cup {rec})
    BY <1>2, FS_AddElement
  <2> HIDE DEF rec
  <2> QED
    BY <1>1, <1>2, <1>8, <2>1
<1>10. ~ AllocFault(a + HeaderSize, size)
  BY <1>2, <1>3, <1>4, NoAllocFault
<1>11. /\ halted' = IF Cardinality(live) = MaxRecs THEN "WATCHER OVERFLOWED"
                    ELSE IF align /\ a - h \in 1 .. HeaderSize THEN "gap absorbed"
                    ELSE IF ~ heap_check(new.hdr) THEN "corrupted heap"
                    ELSE RUNNING
       /\ halted' \in {RUNNING, "WATCHER OVERFLOWED", "corrupted heap", "gap absorbed"}
  <2> HIDE DEF new
  <2> QED
    BY <1>1, <1>5, <1>10 DEF AfterAlloc
<1> HIDE DEF rec
<1>12. CASE align /\ a - h \in 1 .. HeaderSize
  <2>1. h # HeapStart
    BY <1>4, <1>7, <1>12, ConstantFacts
  <2>2. p = Placed(h, a, TRUE)
    <3>1. align = TRUE
      BY <1>12
    <3> QED
      BY <3>1 DEF p
  <2>3. HdrTypes(new.hdr) /\ new.index \in Seq(Addresses)
    BY <1>2, <1>3, <1>4, <1>12, <2>1, <2>2, AbsorbedTypes
  <2>4. halted' \in {"WATCHER OVERFLOWED", "gap absorbed"}
    <3> HIDE DEF new
    <3> QED
      BY <1>11, <1>12
  <2>5. TypeOK'
    <3> HIDE DEF new
    <3> QED
      BY <1>1, <1>9, <2>3, <2>4 DEF TypeOK, HdrTypes
  <2> QED
    BY <1>9, <2>4, <2>5 DEF IInv, OnlyStaleBackLink, RUNNING
<1>13. CASE ~ (align /\ a - h \in 1 .. HeaderSize)
  <2>1. /\ AllocDone(new, a, size)
        /\ Sound(new.hdr) \/ (align /\ StaleAt(new.hdr, a))
    <3>1. p = Placed(h, a, align)
      BY DEF p
    <3>2. new = IF LeavesRoom(p.hdr[a].size - size)
                THEN heap_high_split(p, a, size) ELSE p
      OBVIOUS
    <3> HIDE DEF new
    <3> QED
      BY <1>2, <1>3, <1>4, <1>13, <3>1, <3>2, AllocHole
  <2> HIDE DEF new
  <2>2. /\ HdrTypes(new.hdr) /\ Listed(new)
        /\ BlocksPlus(heap.hdr, a, new.hdr)
        /\ new.hdr[a].size - size \in 0 .. HeaderSize
    BY <2>1 DEF AllocDone
  <2>3. TypeOK'
    BY <1>1, <1>9, <1>11, <2>2 DEF TypeOK, HdrTypes, Listed
  <2>4. Recorded(new.hdr, live \cup {rec})
    BY <1>2, <1>4, <2>2, AddedRecord DEF rec
  <2>5. CASE Sound(new.hdr)
    <3>1. halted' \in {RUNNING, "WATCHER OVERFLOWED"}
      BY <1>11, <1>13, <2>5, SoundPasses
    <3>2. halted' = RUNNING => live' = live \cup {rec}
      BY <1>1 DEF RUNNING
    <3>3. halted' = RUNNING =>
             Sound(heap'.hdr) /\ Listed(heap') /\ Recorded(heap'.hdr, live')
      BY <1>1, <2>2, <2>4, <2>5, <3>2
    <3>4. OnlyStaleBackLink'
      BY <3>1 DEF OnlyStaleBackLink, RUNNING
    <3> QED
      BY <1>9, <2>3, <3>3, <3>4 DEF IInv
  <2>6. CASE align /\ StaleAt(new.hdr, a)
    <3>1. halted' \in {"WATCHER OVERFLOWED", "corrupted heap"}
      BY <1>11, <1>13, <2>6 DEF StaleAt
    <3>2. /\ a \in DOMAIN heap'.hdr /\ ~ heap'.hdr[a].is_hole
          /\ heap'.hdr[hheader_next(heap'.hdr, a)].prev = heap'.hdr[a].prev
          /\ hheader_next(heap'.hdr, heap'.hdr[a].prev) = a
          /\ heap_check([heap'.hdr EXCEPT ![hheader_next(heap'.hdr, a)].prev = a])
      BY <1>1, <2>6 DEF StaleAt
    <3>3. OnlyStaleBackLink'
      BY <1>4, <2>6, <3>1, <3>2 DEF OnlyStaleBackLink
    <3> QED
      BY <1>9, <2>3, <3>1, <3>3 DEF IInv, RUNNING
  <2> QED
    BY <2>1, <2>5, <2>6
<1> QED
  BY <1>12, <1>13

---------------------------------------------------------------------------
(* heap_free. *)

SameBlocks(hdr, new) ==
    /\ DOMAIN new \ HolesOf(new) = DOMAIN hdr \ HolesOf(hdr)
    /\ \A b \in DOMAIN hdr \ HolesOf(hdr) : new[b].size = hdr[b].size

\* The headers of heap_merge when there is a hole to take in.
TakenIn(t, a, n, nn) ==
    Without([LinkBack(t, nn, a) EXCEPT ![a].size = @ + t[n].size + HeaderSize], n)

LEMMA MergedHeaders ==
    ASSUME NEW t, Tiled(t), Linked(t), NEW a \in DOMAIN t, NEW n \in DOMAIN t,
           n = hheader_next(t, a), NEW nn, nn = hheader_next(t, n),
           NEW new, new = TakenIn(t, a, n, nn)
    PROVE  /\ MergeAt(t, a, new)
           /\ \A b \in DOMAIN t \ {n} : new[b].is_hole = t[b].is_hole
           /\ \A b \in DOMAIN t \ {a, n} : new[b].size = t[b].size
<1> DEFINE room == t[a].size + t[n].size + HeaderSize
           linked == LinkBack(t, nn, a)
           wide == [linked EXCEPT ![a].size = room]
<1>1. /\ a \in Nat /\ t[a].size \in Nat /\ n = a + HeaderSize + t[a].size
      /\ t[n].size \in Nat /\ nn = n + HeaderSize + t[n].size
      /\ a < n /\ n < nn /\ n \in Nat /\ nn \in Nat
      /\ nn \in DOMAIN t <=> hheader_isvalid(nn)
  BY BlockFacts
<1>2. \A b \in DOMAIN t : t[b] \in HeaderType
  BY DEF Tiled, HeaderType
<1>3. /\ DOMAIN linked = DOMAIN t
      /\ \A b \in DOMAIN t :
            /\ linked[b] \in HeaderType
            /\ linked[b].size = t[b].size /\ linked[b].is_hole = t[b].is_hole
            /\ linked[b].prev = IF b = nn /\ hheader_isvalid(nn) THEN a ELSE t[b].prev
  BY <1>1, <1>2, LinkBackFacts
<1>4. room \in Nat
  BY <1>1, ConstantFacts
<1>5. new = Without(wide, n)
  <2>1. linked[a].size = t[a].size
    BY <1>3
  <2>2. new = Without([linked EXCEPT ![a].size = @ + t[n].size + HeaderSize], n)
    BY DEF TakenIn
  <2> HIDE DEF linked
  <2> QED
    BY <2>1, <2>2
<1> HIDE DEF room, linked
<1>6. /\ DOMAIN wide = DOMAIN t
      /\ \A b \in DOMAIN t \ {a} : wide[b] = linked[b]
      /\ wide[a] = [linked[a] EXCEPT !.size = room]
  BY <1>3
<1> HIDE DEF wide
<1>7. /\ wide[a] \in HeaderType /\ wide[a].size = room
      /\ wide[a].prev = linked[a].prev /\ wide[a].is_hole = linked[a].is_hole
  BY <1>3, <1>4, <1>6 DEF HeaderType
<1>8. DOMAIN new = DOMAIN t \ {n} /\ \A b \in DOMAIN t \ {n} : new[b] = wide[b]
  BY <1>5, <1>6 DEF Without
<1>9. a \in DOMAIN t \ {n}
  BY <1>1
<1>10. \A b \in DOMAIN new :
          /\ new[b] \in HeaderType /\ new[b].is_hole = t[b].is_hole
          /\ new[b].prev = IF b = nn /\ hheader_isvalid(nn) THEN a ELSE t[b].prev
  <2> SUFFICES ASSUME NEW b \in DOMAIN t \ {n}
               PROVE  /\ new[b] \in HeaderType /\ new[b].is_hole = t[b].is_hole
                      /\ new[b].prev = IF b = nn /\ hheader_isvalid(nn) THEN a ELSE t[b].prev
    BY <1>8
  <2>1. /\ linked[b] \in HeaderType /\ linked[b].is_hole = t[b].is_hole
        /\ linked[b].prev = IF b = nn /\ hheader_isvalid(nn) THEN a ELSE t[b].prev
    BY <1>3
  <2>2. /\ wide[b] \in HeaderType /\ wide[b].is_hole = linked[b].is_hole
        /\ wide[b].prev = linked[b].prev
    BY <1>6, <1>7, <2>1
  <2>3. new[b] = wide[b]
    BY <1>8
  <2> QED
    BY <2>1, <2>2, <2>3
<1>11. \A b \in DOMAIN new \ {a} : new[b].size = t[b].size /\ hheader_next(new, b) = hheader_next(t, b)
  BY <1>3, <1>6, <1>8 DEF hheader_next
<1>12. hheader_next(new, a) = nn
  <2>1. new[a].size = room
    BY <1>7, <1>8, <1>9
  <2> QED
    BY <1>1, <2>1, ConstantFacts DEF hheader_next, room
<1>13. nn \in DOMAIN t => new[nn].prev = a
  <2>1. nn \in DOMAIN t => nn \in DOMAIN new
    BY <1>1, <1>8
  <2> QED
    BY <1>1, <1>10, <2>1
<1>14. \A b \in DOMAIN new \ {nn} : new[b].prev = t[b].prev
  BY <1>10
<1>15. MergeAt(t, a, new)
  <2>1. hheader_next(t, a) = n /\ hheader_next(t, n) = nn
    OBVIOUS
  <2>2. /\ \A b \in DOMAIN new : new[b] \in HeaderType
        /\ \A b \in DOMAIN new \ {a} : hheader_next(new, b) = hheader_next(t, b)
    <3>1. \A b \in DOMAIN new : new[b] \in HeaderType
      BY <1>10
    <3>2. \A b \in DOMAIN new \ {a} : hheader_next(new, b) = hheader_next(t, b)
      BY <1>11, Zenon
    <3> QED
      BY <3>1, <3>2
  <2> DEFINE x == hheader_next(t, a)
             y == hheader_next(t, x)
  <2>3. x = n /\ y = nn
    BY <2>1
  <2> HIDE DEF x, y
  <2>4. /\ DOMAIN new = DOMAIN t \ {x}
        /\ hheader_next(new, a) = y
        /\ y \in DOMAIN t => new[y].prev = a
        /\ \A b \in DOMAIN new \ {y} : new[b].prev = t[b].prev
    BY <1>8, <1>12, <1>13, <1>14, <2>3
  <2> QED
    BY <2>2, <2>4 DEF MergeAt, x, y
<1> QED
  BY <1>8, <1>10, <1>11, <1>15

Ordered(m) == Tiled(m.hdr) /\ Linked(m.hdr) /\ Listed(m)

\* The heap new after the hole a of m took in the next one, if that is a hole.
MergeDone(m, a, S, new) ==
    /\ Ordered(new) /\ HolesApartBut(new.hdr, S) /\ SameBlocks(m.hdr, new.hdr)
    /\ a \in HolesOf(new.hdr) /\ new.hdr[a].prev = m.hdr[a].prev
    /\ \A b \in DOMAIN m.hdr :
          b < a => /\ b \in DOMAIN new.hdr /\ new.hdr[b].is_hole = m.hdr[b].is_hole
                   /\ hheader_next(new.hdr, b) = hheader_next(m.hdr, b)

LEMMA MergeSound ==
    ASSUME NEW m, Ordered(m), NEW a \in HolesOf(m.hdr), NEW S,
           HolesApartBut(m.hdr, S \cup {a}), hheader_next(m.hdr, a) \notin S,
           NEW new, new = heap_merge(m, a)
    PROVE  MergeDone(m, a, S, new)
<1> DEFINE t == m.hdr
           n == hheader_next(t, a)
           nn == hheader_next(t, n)
<1>1. /\ Tiled(t) /\ Linked(t) /\ Listed(m) /\ a \in DOMAIN t /\ t[a].is_hole
      /\ HolesOf(t) \subseteq DOMAIN t
  BY DEF Ordered, HolesOf
<1>2. a \in Nat /\ n \in Nat /\ a < n /\ (n \in DOMAIN t <=> hheader_isvalid(n))
  BY <1>1, BlockFacts
<1>3. CASE n \notin HolesOf(t)
  <2>1. new = m
    BY <1>3 DEF heap_merge, HolesOf
  <2>2. HolesApartBut(t, S)
    BY <1>3 DEF HolesApartBut
  <2> QED
    BY <1>1, <2>1, <2>2 DEF SameBlocks, MergeDone
<1>4. CASE n \in HolesOf(t)
  <2>1. n \in DOMAIN t /\ t[n].is_hole /\ hheader_isvalid(n)
    BY <1>2, <1>4 DEF HolesOf
  <2> DEFINE linked == LinkBack(t, nn, a)
             nh == Without([linked EXCEPT ![a].size = @ + t[n].size + HeaderSize], n)
             r == ordlist_remove(m.index, n)
  <2>2. new = [hdr |-> nh, index |-> r]
    BY <2>1 DEF heap_merge
  <2>3. /\ MergeAt(t, a, nh)
        /\ \A b \in DOMAIN t \ {n} : nh[b].is_hole = t[b].is_hole
        /\ \A b \in DOMAIN t \ {a, n} : nh[b].size = t[b].size
    <3>1. n = hheader_next(t, a) /\ nn = hheader_next(t, n)
      OBVIOUS
    <3>2. nh = TakenIn(t, a, n, nn)
      BY DEF TakenIn
    <3> HIDE DEF nh, n, nn
    <3> QED
      BY <1>1, <2>1, <3>1, <3>2, MergedHeaders
  <2> HIDE DEF nh
  <2>4. Tiled(nh) /\ Linked(nh)
    BY <1>1, <2>1, <2>3, MergeTiled
  <2>5. /\ DOMAIN nh = DOMAIN t \ {n}
        /\ \A b \in DOMAIN nh \ {a} : hheader_next(nh, b) = hheader_next(t, b)
        /\ hheader_next(nh, a) = nn
        /\ \A b \in DOMAIN nh \ {nn} : nh[b].prev = t[b].prev
    BY <2>3 DEF MergeAt
  <2>6. nn \in Nat /\ n < nn /\ a # nn
    BY <1>1, <1>2, <2>1, BlockFacts
  <2> HIDE DEF n, nn
  <2>7. HolesOf(nh) = HolesOf(t) \ {n}
    BY <2>3, <2>5 DEF HolesOf
  <2>8. nn \notin HolesOf(t)
    <3>1. n \in HolesOf(t) \ (S \cup {a})
      BY <1>2, <1>4 DEF n
    <3> QED
      BY <3>1 DEF HolesApartBut, nn
  <2>9. HolesApartBut(nh, S)
    <3>1. ASSUME NEW b \in HolesOf(nh) \ S PROVE hheader_next(nh, b) \notin HolesOf(nh)
      <4>1. CASE b = a
        BY <2>5, <2>7, <2>8, <4>1
      <4>2. CASE b # a
        <5>1. b \in HolesOf(t) \ (S \cup {a}) /\ b \in DOMAIN nh \ {a}
          BY <1>1, <2>5, <2>7, <4>2
        <5>2. hheader_next(t, b) \notin HolesOf(t)
          BY <5>1 DEF HolesApartBut
        <5> QED
          BY <2>5, <2>7, <5>1, <5>2
      <4> QED
        BY <4>1, <4>2
    <3> QED
      BY <3>1 DEF HolesApartBut
  <2>10. r \in Seq(Addresses) /\ IsInjective(r) /\ Range(r) = Range(m.index) \ {n}
    <3>1. m.index \in Seq(Addresses) /\ IsInjective(m.index) /\ n \in Range(m.index)
      BY <1>1, <1>4 DEF Listed
    <3> QED
      BY <3>1, ordlist_removeProperties
  <2> HIDE DEF r
  <2>11. new.hdr = nh /\ new.index = r
    BY <2>2
  <2>12. Ordered(new)
    BY <1>1, <2>4, <2>7, <2>10, <2>11 DEF Ordered, Listed
  <2>13. SameBlocks(t, nh)
    BY <1>1, <1>4, <2>3, <2>5, <2>7 DEF SameBlocks
  <2>14. a \in HolesOf(nh) /\ nh[a].prev = t[a].prev
    BY <1>1, <1>2, <2>5, <2>6, <2>7
  <2>15. ASSUME NEW b \in DOMAIN t, b < a
         PROVE  /\ b \in DOMAIN nh /\ nh[b].is_hole = t[b].is_hole
                /\ hheader_next(nh, b) = hheader_next(t, b)
    <3>1. b # n /\ b # a
      BY <1>1, <1>2, <2>15, BlockFacts
    <3> QED
      BY <2>3, <2>5, <3>1
  <2> QED
    BY <2>9, <2>11, <2>12, <2>13, <2>14, <2>15 DEF MergeDone
<1> QED
  BY <1>3, <1>4

LEMMA FreedSound ==
    ASSUME Sound(heap.hdr), Listed(heap),
           NEW block \in DOMAIN heap.hdr \ HolesOf(heap.hdr),
           NEW new, new = Freed(block)
    PROVE  /\ Sound(new.hdr) /\ Listed(new)
           /\ DOMAIN new.hdr \ HolesOf(new.hdr) = (DOMAIN heap.hdr \ HolesOf(heap.hdr)) \ {block}
           /\ \A b \in (DOMAIN heap.hdr \ HolesOf(heap.hdr)) \ {block} :
                 new.hdr[b].size = heap.hdr[b].size
<1> DEFINE hdr == heap.hdr
           t == [hdr EXCEPT ![block].is_hole = TRUE]
           m == [hdr |-> t, index |-> ordlist_insert(t, heap.index, block)]
           merged == heap_merge(m, block)
           prev == hdr[block].prev
<1>1. Tiled(hdr) /\ Linked(hdr) /\ HolesApartBut(hdr, {})
  BY DEF Sound
<1>2. \A b \in DOMAIN hdr : hdr[b] \in HeaderType
  BY <1>1 DEF Tiled, HeaderType
<1>3. /\ DOMAIN t = DOMAIN hdr /\ \A b \in DOMAIN hdr \ {block} : t[b] = hdr[b]
      /\ t[block] = [hdr[block] EXCEPT !.is_hole = TRUE]
  OBVIOUS
<1>4. m.hdr = t /\ m.index = ordlist_insert(t, heap.index, block)
  OBVIOUS
<1>5. new = IF merged.hdr[block].prev # NULL /\ merged.hdr[merged.hdr[block].prev].is_hole
            THEN heap_merge(merged, merged.hdr[block].prev) ELSE merged
  <2>1. t = [heap.hdr EXCEPT ![block].is_hole = TRUE]
    OBVIOUS
  <2>2. m = [hdr |-> t, index |-> ordlist_insert(t, heap.index, block)]
    OBVIOUS
  <2>3. merged = heap_merge([hdr |-> t, index |-> ordlist_insert(t, heap.index, block)], block)
    OBVIOUS
  <2> HIDE DEF t, m, merged
  <2> QED
    BY <2>1, <2>3 DEF Freed
<1> HIDE DEF t, m, merged
<1>6. /\ t[block] \in HeaderType /\ t[block].is_hole = TRUE
      /\ t[block].size = hdr[block].size /\ t[block].prev = hdr[block].prev
  BY <1>2, <1>3 DEF HeaderType
<1>7. \A b \in DOMAIN hdr : t[b] \in HeaderType /\ t[b].size = hdr[b].size /\ t[b].prev = hdr[b].prev
  BY <1>2, <1>3, <1>6
<1>8. /\ Tiled(t) /\ Linked(t)
      /\ \A b \in DOMAIN hdr : hheader_next(t, b) = hheader_next(hdr, b)
  BY <1>1, <1>3, <1>7, SameLayout
<1>9. HolesOf(t) = HolesOf(hdr) \cup {block}
  BY <1>3, <1>6 DEF HolesOf
<1>10. HolesOf(hdr) \subseteq DOMAIN hdr /\ block \in DOMAIN hdr /\ block \notin HolesOf(hdr)
  BY DEF HolesOf
<1>11. HolesApartBut(t, {prev} \cup {block})
  <2> SUFFICES ASSUME NEW b \in HolesOf(t) \ ({prev} \cup {block})
               PROVE  hheader_next(t, b) \notin HolesOf(t)
    BY DEF HolesApartBut
  <2>1. b \in HolesOf(hdr) /\ b \in DOMAIN hdr /\ hheader_next(t, b) = hheader_next(hdr, b)
    BY <1>8, <1>9, <1>10
  <2>2. hheader_next(hdr, b) \notin HolesOf(hdr)
    BY <1>1, <2>1 DEF HolesApartBut
  <2>3. hheader_next(hdr, b) # block
    BY <1>1, <1>10, <2>1 DEF Linked
  <2> QED
    BY <1>9, <2>1, <2>2, <2>3
<1>12. /\ block \in Nat /\ HeapStart <= block /\ block < hheader_next(hdr, block)
       /\ hheader_next(hdr, block) \in Nat
       /\ prev # NULL =>
             /\ prev \in DOMAIN hdr /\ hheader_next(hdr, prev) = block
             /\ prev \in Nat /\ prev < block
       /\ prev \in Nat
  <2>1. /\ block \in Nat /\ HeapStart <= block /\ block < hheader_next(hdr, block)
        /\ hheader_next(hdr, block) \in Nat /\ prev \in Nat
    BY <1>1, <1>10, BlockFacts
  <2>2. ASSUME prev # NULL
        PROVE  /\ prev \in DOMAIN hdr /\ hheader_next(hdr, prev) = block
               /\ prev < block
    <3>1. block # HeapStart
      BY <1>1, <2>2 DEF Linked
    <3>2. prev \in DOMAIN hdr /\ hheader_next(hdr, prev) = block
      BY <1>1, <1>10, <3>1 DEF Linked
    <3>3. prev < hheader_next(hdr, prev)
      BY <1>1, <3>2, BlockFacts
    <3> QED
      BY <3>2, <3>3
  <2> QED
    BY <2>1, <2>2
<1>13. hheader_next(t, block) \notin {prev}
  <2>1. hheader_next(t, block) = hheader_next(hdr, block)
    BY <1>8, <1>10
  <2>2. prev < hheader_next(hdr, block)
    BY <1>12, ConstantFacts
  <2> HIDE DEF prev
  <2> QED
    BY <1>12, <2>1, <2>2
<1>14. Ordered(m)
  <2> DEFINE q == heap.index
             r == ordlist_insert(t, q, block)
  <2>1. q \in Seq(Addresses) /\ IsInjective(q) /\ Range(q) = HolesOf(hdr)
    BY DEF Listed
  <2>2. block \in Addresses
    BY <1>1, <1>10, ConstantFacts DEF Tiled, Addresses
  <2>3. m.index = r
    BY <1>4
  <2> HIDE DEF q
  <2>4. r \in Seq(Addresses) /\ IsInjective(r) /\ Range(r) = Range(q) \cup {block}
    BY <1>10, <2>1, <2>2, ordlist_insertProperties
  <2> HIDE DEF r
  <2> QED
    BY <1>4, <1>8, <1>9, <2>1, <2>3, <2>4 DEF Ordered, Listed
<1>15. /\ Ordered(merged) /\ HolesApartBut(merged.hdr, {prev}) /\ SameBlocks(t, merged.hdr)
       /\ block \in HolesOf(merged.hdr) /\ merged.hdr[block].prev = t[block].prev
       /\ \A b \in DOMAIN t :
             b < block => /\ b \in DOMAIN merged.hdr
                          /\ merged.hdr[b].is_hole = t[b].is_hole
                          /\ hheader_next(merged.hdr, b) = hheader_next(t, b)
  <2>1. block \in HolesOf(m.hdr)
    BY <1>4, <1>9
  <2> DEFINE S == {prev}
  <2>2. HolesApartBut(m.hdr, S \cup {block}) /\ hheader_next(m.hdr, block) \notin S
    BY <1>4, <1>11, <1>13
  <2>3. merged = heap_merge(m, block)
    BY DEF merged
  <2> HIDE DEF S
  <2>4. MergeDone(m, block, S, merged)
    BY <1>14, <2>1, <2>2, <2>3, MergeSound
  <2> QED
    BY <1>4, <2>4 DEF S, MergeDone
<1>16. merged.hdr[block].prev = prev
  BY <1>6, <1>15
<1> HIDE DEF prev
<1>17. /\ Ordered(new) /\ HolesApartBut(new.hdr, {}) /\ SameBlocks(merged.hdr, new.hdr)
  <2>1. CASE prev # NULL /\ merged.hdr[prev].is_hole
    <3>1. new = heap_merge(merged, prev)
      BY <1>5, <1>16, <2>1
    <3>2. prev \in HolesOf(merged.hdr)
      BY <1>3, <1>12, <1>15, <2>1 DEF HolesOf
    <3>3. HolesApartBut(merged.hdr, {} \cup {prev})
      BY <1>15
    <3>4. MergeDone(merged, prev, {}, new)
      BY <1>15, <3>1, <3>2, <3>3, MergeSound
    <3> QED
      BY <3>4 DEF MergeDone
  <2>2. CASE ~ (prev # NULL /\ merged.hdr[prev].is_hole)
    <3>1. new = merged
      BY <1>5, <1>16, <2>2
    <3>2. prev \notin HolesOf(merged.hdr)
      <4>1. NULL \notin DOMAIN merged.hdr
        BY <1>15, ConstantFacts DEF Ordered, Tiled
      <4> QED
        BY <2>2, <4>1 DEF HolesOf
    <3>3. HolesApartBut(merged.hdr, {})
      BY <1>15, <3>2 DEF HolesApartBut
    <3> QED
      BY <1>15, <3>1, <3>3 DEF SameBlocks
  <2> QED
    BY <2>1, <2>2
<1>18. DOMAIN new.hdr \ HolesOf(new.hdr) = (DOMAIN hdr \ HolesOf(hdr)) \ {block}
  BY <1>3, <1>9, <1>15, <1>17 DEF SameBlocks
<1>19. \A b \in (DOMAIN hdr \ HolesOf(hdr)) \ {block} : new.hdr[b].size = hdr[b].size
  BY <1>3, <1>9, <1>15, <1>17 DEF SameBlocks
<1> QED
  BY <1>17, <1>18, <1>19 DEF Sound, Ordered

LEMMA FreeIInv ==
    ASSUME IInv, NEW ptr \in Addresses, heap_free(ptr)
    PROVE  IInv'
<1>1. PICK rec \in live : rec.ptr = ptr /\ live' = live \ {rec}
  BY DEF heap_free
<1> DEFINE block == ptr - HeaderSize
           B == DOMAIN heap.hdr \ HolesOf(heap.hdr)
<1>2. /\ halted = RUNNING /\ heap' = Freed(block)
      /\ halted' = IF heap_check(heap'.hdr) THEN RUNNING ELSE "corrupted heap"
  BY DEF heap_free
<1>3. /\ Sound(heap.hdr) /\ Listed(heap) /\ Recorded(heap.hdr, live)
      /\ live \subseteq [ptr : Addresses, size : AllocSizes \cup AlignedSizes]
      /\ IsFiniteSet(live)
  BY <1>2 DEF IInv, TypeOK
<1>4. /\ B = {r.ptr - HeaderSize : r \in live}
      /\ \A r \in live : heap.hdr[r.ptr - HeaderSize].size - r.size \in 0 .. HeaderSize
      /\ \A r, other \in live : r.ptr = other.ptr => r = other
  BY <1>3 DEF Recorded
<1>5. block \in B /\ rec.ptr - HeaderSize = block
  BY <1>1, <1>4
<1> HIDE DEF block, B
<1>6. /\ Sound(heap'.hdr) /\ Listed(heap')
      /\ DOMAIN heap'.hdr \ HolesOf(heap'.hdr) = B \ {block}
      /\ \A b \in B \ {block} : heap'.hdr[b].size = heap.hdr[b].size
  <2>1. PICK new : new = Freed(block)
    OBVIOUS
  <2>2. /\ Sound(new.hdr) /\ Listed(new)
        /\ DOMAIN new.hdr \ HolesOf(new.hdr) = B \ {block}
        /\ \A b \in B \ {block} : new.hdr[b].size = heap.hdr[b].size
    BY <1>3, <1>5, <2>1, FreedSound DEF B
  <2>3. heap' = new
    BY <1>2, <2>1
  <2> QED
    BY <2>2, <2>3
<1>7. halted' = RUNNING
  BY <1>2, <1>6, SoundPasses
<1>8. ASSUME NEW r \in live, r # rec PROVE r.ptr - HeaderSize # block
  <2>1. r.ptr # rec.ptr /\ r.ptr \in Int /\ rec.ptr \in Int
    BY <1>3, <1>4, <1>8, ConstantFacts DEF Addresses
  <2> QED
    BY <1>5, <2>1, ConstantFacts
<1>9. Recorded(heap'.hdr, live')
  <2>1. B \ {block} = {r.ptr - HeaderSize : r \in live \ {rec}}
    BY <1>4, <1>5, <1>8
  <2>2. ASSUME NEW r \in live \ {rec}
        PROVE  heap'.hdr[r.ptr - HeaderSize].size - r.size \in 0 .. HeaderSize
    <3>1. r.ptr - HeaderSize \in B \ {block}
      BY <2>1
    <3> QED
      BY <1>4, <1>6, <3>1
  <2> QED
    BY <1>1, <1>4, <1>6, <2>1, <2>2 DEF Recorded
<1>10. TypeOK'
  <2>1. HdrTypes(heap'.hdr)
    BY <1>6, LinkedTypes DEF Sound
  <2> QED
    BY <1>1, <1>3, <1>6, <1>7, <2>1 DEF TypeOK, HdrTypes, Listed
<1>11. IsFiniteSet(live')
  <2>1. live' \in SUBSET live
    BY <1>1
  <2> QED
    BY <1>3, <2>1, FS_Subset
<1> QED
  BY <1>6, <1>7, <1>9, <1>10, <1>11 DEF IInv, OnlyStaleBackLink, RUNNING

---------------------------------------------------------------------------
(* The invariance. *)

LEMMA InitIInv ==
    Init => IInv
<1> SUFFICES ASSUME Init PROVE IInv
  OBVIOUS
<1> DEFINE hdr == heap.hdr
           header == Header(TRUE, HeapSize, NULL)
<1>1. /\ heap = [hdr |-> [a \in {HeapStart} |-> header], index |-> << HeapStart >>]
      /\ live = {} /\ halted = RUNNING
  BY DEF Init
<1>2. /\ header \in HeaderType /\ header.is_hole = TRUE /\ header.size = HeapSize
      /\ header.prev = NULL
  BY ConstantFacts DEF Header, HeaderType
<1> HIDE DEF header
<1>3. DOMAIN hdr = {HeapStart} /\ hdr[HeapStart] = header
  BY <1>1
<1>4. heap.index = << HeapStart >>
  BY <1>1
<1> HIDE DEF hdr
<1>5. hheader_next(hdr, HeapStart) = HeapEnd + HeaderSize
  BY <1>2, <1>3, ConstantFacts DEF hheader_next
<1>6. HeapStart \in HeapStart .. HeapEnd - 1 /\ HeapStart # HeapEnd + HeaderSize
  BY ConstantFacts
<1>7. Tiled(hdr)
  <2>1. \A a, b \in DOMAIN hdr : ~ (a < b)
    BY <1>3, ConstantFacts
  <2> QED
    BY <1>2, <1>3, <1>5, <1>6, <2>1 DEF Tiled, HeaderType
<1>8. Linked(hdr)
  BY <1>2, <1>3, <1>5, <1>6 DEF Linked
<1>9. HolesOf(hdr) = {HeapStart}
  BY <1>2, <1>3 DEF HolesOf
<1>10. Sound(hdr)
  BY <1>5, <1>6, <1>7, <1>8, <1>9 DEF Sound, HolesApartBut
<1>11. HeapStart \in Addresses
  BY ConstantFacts DEF Addresses
<1>12. Listed(heap)
  <2> DEFINE q == << HeapStart >>
  <2>1. q \in Seq(Addresses) /\ Len(q) = 1 /\ q[1] = HeapStart
    BY <1>11
  <2>2. heap.index = q
    BY <1>4
  <2> HIDE DEF q
  <2>3. DOMAIN q = 1 .. 1 /\ Range(q) = {q[i] : i \in 1 .. 1}
    BY <2>1, QueueRange
  <2>4. IsInjective(q)
    BY <2>3 DEF IsInjective
  <2>5. Range(q) = {HeapStart}
    BY <2>1, <2>3
  <2> QED
    BY <1>9, <2>1, <2>2, <2>4, <2>5 DEF Listed, hdr
<1>13. Recorded(hdr, live)
  BY <1>1, <1>3, <1>9 DEF Recorded
<1>14. HdrTypes(hdr)
  BY <1>7, <1>8, LinkedTypes
<1>15. TypeOK
  BY <1>1, <1>12, <1>14 DEF TypeOK, HdrTypes, Listed, hdr
<1>16. IsFiniteSet(live)
  BY <1>1, FS_EmptySet
<1> QED
  BY <1>1, <1>10, <1>12, <1>13, <1>15, <1>16 DEF IInv, OnlyStaleBackLink, RUNNING, hdr

LEMMA NextIInv ==
    IInv /\ [Next]_vars => IInv'
<1> SUFFICES ASSUME IInv, [Next]_vars PROVE IInv'
  OBVIOUS
<1>1. ASSUME NEW size \in AllocSizes, heap_alloc(size, FALSE) PROVE IInv'
  BY <1>1, AllocIInv
<1>2. ASSUME NEW size \in AlignedSizes, heap_alloc(size, TRUE) PROVE IInv'
  BY <1>2, AllocIInv
<1>3. ASSUME NEW ptr \in Addresses, heap_free(ptr) PROVE IInv'
  BY <1>3, FreeIInv
<1>4. ASSUME NEW ptr \in Addresses, heap_free_unknown(ptr) PROVE IInv'
  BY <1>4 DEF heap_free_unknown, IInv, TypeOK, OnlyStaleBackLink, RUNNING
<1>5. ASSUME UNCHANGED vars PROVE IInv'
  BY <1>5 DEF vars, IInv, TypeOK, OnlyStaleBackLink
<1> QED
  BY <1>1, <1>2, <1>3, <1>4, <1>5 DEF Next

\* Whatever is allocated and freed, and in whatever order, as long as the
\* kernel runs the blocks of kheap.c cover the heap, each points back to the
\* one before it, no two holes are neighbours, the list of ordlist.c holds the
\* holes, each once, and every other block has a record of heapwatch.c.
THEOREM Invariance == Spec => []IInv
<1> QED
  BY InitIInv, NextIInv, PTL DEF Spec

\* The walk of heap_check meets every block, the blocks that are not holes are
\* those that kmalloc gave out and kfree has not got back, and each has the
\* room that was asked for and no more than a header to spare.
THEOREM NoBlockIsLost == Spec => []BlocksOwned
<1>1. IInv => BlocksOwned
  <2> SUFFICES ASSUME IInv, halted = RUNNING
               PROVE  /\ DOMAIN heap.hdr = Walk(heap.hdr)
                      /\ DOMAIN heap.hdr \ Holes = {rec.ptr - HeaderSize : rec \in live}
                      /\ \A rec \in live :
                            heap.hdr[rec.ptr - HeaderSize].size - rec.size \in 0 .. HeaderSize
    BY DEF BlocksOwned
  <2>1. Sound(heap.hdr) /\ Recorded(heap.hdr, live)
    BY DEF IInv
  <2>2. Holes = HolesOf(heap.hdr)
    BY DEF Holes, HolesOf
  <2> QED
    BY <2>1, <2>2, WalkMeetsAll DEF Sound, Recorded
<1> QED
  BY <1>1, Invariance, PTL

\* Nothing that kmalloc, kmalloc_a and kfree do is caught by the checks of
\* heapwatch_alloc and heap_check, but for one thing: after an aligned block
\* that takes all that is left of its hole, the block above points back to
\* where the hole began.
THEOREM OneFault == Spec => []OnlyStaleBackLink
<1>1. IInv => OnlyStaleBackLink
  BY DEF IInv
<1> QED
  BY <1>1, Invariance, PTL

---------------------------------------------------------------------------
(* The room in the list of holes. *)

\* A list has as many elements as places.
LEMMA InjectiveLength ==
    ASSUME NEW S, NEW q \in Seq(S), IsInjective(q)
    PROVE  IsFiniteSet(Range(q)) /\ Cardinality(Range(q)) = Len(q)
<1>1. /\ DOMAIN q = 1 .. Len(q) /\ Range(q) = {q[i] : i \in 1 .. Len(q)} /\ Len(q) \in Nat
  BY QueueRange
<1>2. IsFiniteSet(1 .. Len(q)) /\ Cardinality(1 .. Len(q)) = Len(q)
  BY <1>1, FS_Interval
<1>3. q \in [1 .. Len(q) -> Range(q)]
  <2>1. q = [i \in 1 .. Len(q) |-> q[i]]
    BY <1>1
  <2> QED
    BY <1>1, <2>1
<1>4. q \in Surjection(1 .. Len(q), Range(q))
  BY <1>1, <1>3 DEF Surjection
<1>5. q \in Injection(1 .. Len(q), Range(q))
  BY <1>3 DEF Injection
<1> QED
  BY <1>2, <1>4, <1>5, FS_Surjection

\* A hole lies above a block that is not a hole, or begins the heap.
LEMMA FewHoles ==
    ASSUME NEW hdr, Sound(hdr), NEW recs, IsFiniteSet(recs), Recorded(hdr, recs),
           IsFiniteSet(HolesOf(hdr))
    PROVE  Cardinality(HolesOf(hdr)) <= Cardinality(recs) + 1
<1> DEFINE B == DOMAIN hdr \ HolesOf(hdr)
           H == HolesOf(hdr) \ {HeapStart}
           below == [h \in H |-> hdr[h].prev]
           block == [rec \in recs |-> rec.ptr - HeaderSize]
<1>1. B = {rec.ptr - HeaderSize : rec \in recs}
  BY DEF Recorded
<1>2. block \in Surjection(recs, B)
  <2>1. block \in [recs -> B] /\ \A b \in B : \E rec \in recs : block[rec] = b
    BY <1>1
  <2> HIDE DEF block, B
  <2> QED
    BY <2>1 DEF Surjection
<1>3. IsFiniteSet(B) /\ Cardinality(B) <= Cardinality(recs)
  <2> HIDE DEF block, B
  <2> QED
    BY <1>2, FS_Surjection
<1>4. \A h \in H : hdr[h].prev \in B /\ hheader_next(hdr, hdr[h].prev) = h
  <2> SUFFICES ASSUME NEW h \in H
               PROVE  hdr[h].prev \in B /\ hheader_next(hdr, hdr[h].prev) = h
    OBVIOUS
  <2>1. h \in DOMAIN hdr \ {HeapStart} /\ h \in HolesOf(hdr)
    BY DEF HolesOf
  <2>2. hdr[h].prev \in DOMAIN hdr /\ hheader_next(hdr, hdr[h].prev) = h
    BY <2>1 DEF Sound, Linked
  <2>3. hdr[h].prev \notin HolesOf(hdr)
    BY <2>1, <2>2 DEF Sound, HolesApartBut
  <2> QED
    BY <2>2, <2>3
<1>5. below \in Injection(H, B)
  <2>1. below \in [H -> B]
    BY <1>4
  <2>2. \A g, h \in H : below[g] = below[h] => g = h
    BY <1>4
  <2>3. DOMAIN below = H
    OBVIOUS
  <2> HIDE DEF below, H, B
  <2>4. IsInjective(below)
    BY <2>2, <2>3 DEF IsInjective
  <2> QED
    BY <2>1, <2>4 DEF Injection
<1>6. Cardinality(H) <= Cardinality(B)
  <2> HIDE DEF below, H, B
  <2> QED
    BY <1>3, <1>5, FS_Injection
<1>7. /\ IsFiniteSet(H) /\ Cardinality(HolesOf(hdr)) <= Cardinality(H) + 1
  <2>1. /\ IsFiniteSet(H)
        /\ Cardinality(H) = IF HeapStart \in HolesOf(hdr) THEN Cardinality(HolesOf(hdr)) - 1
                            ELSE Cardinality(HolesOf(hdr))
    BY FS_RemoveElement
  <2>2. Cardinality(H) \in Nat /\ Cardinality(HolesOf(hdr)) \in Nat
    BY <2>1, FS_CardinalityType
  <2> HIDE DEF H
  <2> QED
    BY <2>1, <2>2
<1>8. /\ Cardinality(H) \in Nat /\ Cardinality(HolesOf(hdr)) \in Nat
      /\ Cardinality(B) \in Nat /\ Cardinality(recs) \in Nat
  BY <1>3, <1>7, FS_CardinalityType
<1> HIDE DEF H, B
<1> QED
  BY <1>3, <1>6, <1>7, <1>8

\* The list of ordlist.c holds every hole once and nothing else, and never more
\* of them than one for each block given out and one.
THEOREM ListIsExact == Spec => []IndexExact
<1>1. IInv => IndexExact
  <2> SUFFICES ASSUME IInv, halted = RUNNING
               PROVE  /\ Cardinality(Range(heap.index)) = Len(heap.index)
                      /\ Range(heap.index) = Holes
                      /\ Len(heap.index) <= Cardinality(live) + 1
    BY DEF IndexExact, IInv
  <2>1. /\ Sound(heap.hdr) /\ Listed(heap) /\ Recorded(heap.hdr, live) /\ IsFiniteSet(live)
    BY DEF IInv
  <2>2. Holes = HolesOf(heap.hdr)
    BY DEF Holes, HolesOf
  <2>3. heap.index \in Seq(Addresses) /\ IsInjective(heap.index)
        /\ Range(heap.index) = HolesOf(heap.hdr)
    BY <2>1 DEF Listed
  <2>4. IsFiniteSet(Range(heap.index)) /\ Cardinality(Range(heap.index)) = Len(heap.index)
    BY <2>3, InjectiveLength
  <2>5. Cardinality(HolesOf(heap.hdr)) <= Cardinality(live) + 1
    BY <2>1, <2>3, <2>4, FewHoles
  <2> QED
    BY <2>2, <2>3, <2>4, <2>5
<1> QED
  BY <1>1, Invariance, PTL
=============================================================================
