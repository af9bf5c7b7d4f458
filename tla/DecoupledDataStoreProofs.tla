---------------------- MODULE DecoupledDataStoreProofs ----------------------
(***************************************************************************)
(* Proofs about DecoupledDataStore, for every pool size and every set of   *)
(* sizes and values.  The argument is in three layers: what the list       *)
(* operations do to the set of their elements, the geometry of aligned     *)
(* blocks, and the inductive invariant IInv.                               *)
(***************************************************************************)
EXTENDS DecoupledDataStore, SequenceTheorems, TLAPS

-----------------------------------------------------------------------------
(* Lists *)

\* pop_front() on a list without duplicates removes its front element only.
LEMMA TailLemma ==
    ASSUME NEW S, NEW s \in Seq(S), s # <<>>, IsInjective(s)
    PROVE  /\ Head(s) \in ToSet(s) /\ Head(s) \in S
           /\ Tail(s) \in Seq(S)
           /\ IsInjective(Tail(s))
           /\ ToSet(Tail(s)) = ToSet(s) \ {Head(s)}
<1>1. /\ Len(s) \in Nat \ {0} /\ Tail(s) \in Seq(S) /\ Len(Tail(s)) = Len(s) - 1
      /\ Head(s) = s[1] /\ Head(s) \in S
      /\ \A i \in 1 .. Len(Tail(s)) : Tail(s)[i] = s[i + 1]
    BY HeadTailProperties, EmptySeq
<1>2. DOMAIN s = 1 .. Len(s) /\ DOMAIN Tail(s) = 1 .. Len(Tail(s))
    BY <1>1, LenProperties
<1>3. Head(s) \in ToSet(s)
    BY <1>1, <1>2 DEF ToSet
<1>4. IsInjective(Tail(s))
    <2> SUFFICES ASSUME NEW i \in DOMAIN Tail(s), NEW j \in DOMAIN Tail(s),
                        Tail(s)[i] = Tail(s)[j]
                 PROVE  i = j
        BY DEF IsInjective
    <2>1. i + 1 \in DOMAIN s /\ j + 1 \in DOMAIN s /\ s[i + 1] = s[j + 1]
        BY <1>1, <1>2
    <2> QED BY <2>1, <1>1, <1>2 DEF IsInjective
<1>5. ToSet(Tail(s)) \subseteq ToSet(s) \ {Head(s)}
    <2> SUFFICES ASSUME NEW i \in DOMAIN Tail(s)
                 PROVE  Tail(s)[i] \in ToSet(s) /\ Tail(s)[i] # Head(s)
        BY DEF ToSet
    <2>1. i + 1 \in DOMAIN s /\ 1 \in DOMAIN s /\ i + 1 # 1 /\ Tail(s)[i] = s[i + 1]
        BY <1>1, <1>2
    <2> QED BY <2>1, <1>1 DEF IsInjective, ToSet
<1>6. ToSet(s) \ {Head(s)} \subseteq ToSet(Tail(s))
    <2> SUFFICES ASSUME NEW i \in DOMAIN s, s[i] # Head(s)
                 PROVE  s[i] \in ToSet(Tail(s))
        BY DEF ToSet
    <2>1. i - 1 \in DOMAIN Tail(s) /\ Tail(s)[i - 1] = s[i]
        BY <1>1, <1>2
    <2> QED BY <2>1 DEF ToSet
<1> QED BY <1>1, <1>3, <1>4, <1>5, <1>6

\* push_back() adds the element and keeps the list free of duplicates when
\* it was not there.
LEMMA AppendLemma ==
    ASSUME NEW S, NEW s \in Seq(S), NEW e \in S
    PROVE  /\ Append(s, e) \in Seq(S)
           /\ ToSet(Append(s, e)) = ToSet(s) \cup {e}
           /\ IsInjective(s) /\ e \notin ToSet(s) => IsInjective(Append(s, e))
<1>1. /\ Append(s, e) \in Seq(S) /\ Len(Append(s, e)) = Len(s) + 1
      /\ \A i \in 1 .. Len(s) : Append(s, e)[i] = s[i]
      /\ Append(s, e)[Len(s) + 1] = e
      /\ Len(s) \in Nat
    BY AppendProperties, LenProperties
<1>2. DOMAIN s = 1 .. Len(s) /\ DOMAIN Append(s, e) = 1 .. (Len(s) + 1)
    BY <1>1, LenProperties
<1>3. ToSet(Append(s, e)) = ToSet(s) \cup {e}
    BY <1>1, <1>2 DEF ToSet
<1>4. ASSUME IsInjective(s), e \notin ToSet(s) PROVE IsInjective(Append(s, e))
    BY <1>1, <1>2, <1>4 DEF IsInjective, ToSet
<1> QED BY <1>1, <1>3, <1>4

\* erase(it) on a list without duplicates removes that element only.
LEMMA RemoveAtLemma ==
    ASSUME NEW S, NEW s \in Seq(S), NEW i \in DOMAIN s, IsInjective(s)
    PROVE  /\ RemoveAt(s, i) \in Seq(S)
           /\ IsInjective(RemoveAt(s, i))
           /\ ToSet(RemoveAt(s, i)) = ToSet(s) \ {s[i]}
<1> DEFINE a == SubSeq(s, 1, i - 1)
           b == SubSeq(s, i + 1, Len(s))
           n == Len(s)
           r == RemoveAt(s, i)
<1>1. n \in Nat /\ DOMAIN s = 1 .. n /\ \A j \in 1 .. n : s[j] \in S
    BY LenProperties, ElementOfSeq
<1>2. i \in 1 .. n
    BY <1>1
<1>3. /\ a \in Seq(S) /\ Len(a) = i - 1
      /\ \A j \in 1 .. (i - 1) : a[j] = s[j]
    <2>1. \A j \in 1 .. (i - 1) : s[j] \in S
        BY <1>1, <1>2
    <2>2. /\ a \in Seq(S) /\ Len(a) = IF 1 <= i - 1 THEN (i - 1) - 1 + 1 ELSE 0
          /\ \A j \in 1 .. (i - 1) - 1 + 1 : a[j] = s[1 + j - 1]
        BY <2>1, <1>1, <1>2, SubSeqProperties
    <2> QED BY <2>2, <1>1, <1>2
<1>4. /\ b \in Seq(S) /\ Len(b) = n - i
      /\ \A j \in 1 .. (n - i) : b[j] = s[i + j]
    <2>1. \A j \in (i + 1) .. n : s[j] \in S
        BY <1>1, <1>2
    <2>2. /\ b \in Seq(S) /\ Len(b) = IF i + 1 <= n THEN n - (i + 1) + 1 ELSE 0
          /\ \A j \in 1 .. n - (i + 1) + 1 : b[j] = s[(i + 1) + j - 1]
        BY <2>1, <1>1, <1>2, SubSeqProperties
    <2> QED BY <2>2, <1>1, <1>2
<1> HIDE DEF a, b
<1>5. r = a \o b
    BY DEF RemoveAt, a, b
<1> HIDE DEF r
<1>6. /\ r \in Seq(S) /\ Len(r) = n - 1
      /\ \A j \in 1 .. (n - 1) : r[j] = IF j < i THEN s[j] ELSE s[j + 1]
    <2>1. /\ r \in Seq(S) /\ Len(r) = Len(a) + Len(b)
          /\ \A j \in 1 .. Len(a) + Len(b) :
                r[j] = IF j <= Len(a) THEN a[j] ELSE b[j - Len(a)]
        BY <1>3, <1>4, <1>5, ConcatProperties, Zenon
    <2>2. Len(r) = n - 1
        BY <2>1, <1>1, <1>2, <1>3, <1>4
    <2>3. ASSUME NEW j \in 1 .. (n - 1)
          PROVE  r[j] = IF j < i THEN s[j] ELSE s[j + 1]
        <3>1. CASE j < i
            BY <3>1, <2>1, <1>1, <1>2, <1>3, <1>4
        <3>2. CASE ~(j < i)
            <4>1. j - (i - 1) \in 1 .. (n - i) /\ i + (j - (i - 1)) = j + 1
                BY <3>2, <1>1, <1>2
            <4>2. b[j - (i - 1)] = s[j + 1]
                BY <4>1, <1>4
            <4> QED BY <4>2, <3>2, <2>1, <1>1, <1>2, <1>3, <1>4
        <3> QED BY <3>1, <3>2
    <2> QED BY <2>1, <2>2, <2>3
<1>7. DOMAIN r = 1 .. (n - 1)
    BY <1>6, LenProperties
<1>8. IsInjective(r)
    <2> SUFFICES ASSUME NEW j \in DOMAIN r, NEW k \in DOMAIN r, r[j] = r[k]
                 PROVE  j = k
        BY DEF IsInjective
    <2> DEFINE J == IF j < i THEN j ELSE j + 1
               K == IF k < i THEN k ELSE k + 1
    <2>1. J \in DOMAIN s /\ K \in DOMAIN s /\ s[J] = s[K]
        BY <1>1, <1>2, <1>6, <1>7
    <2>2. J = K
        BY <2>1 DEF IsInjective
    <2> QED BY <2>2, <1>1, <1>2, <1>7
<1>9. ToSet(r) \subseteq ToSet(s) \ {s[i]}
    <2> SUFFICES ASSUME NEW j \in DOMAIN r
                 PROVE  r[j] \in ToSet(s) /\ r[j] # s[i]
        BY DEF ToSet
    <2> DEFINE J == IF j < i THEN j ELSE j + 1
    <2>1. J \in DOMAIN s /\ r[j] = s[J] /\ J # i
        BY <1>1, <1>2, <1>6, <1>7
    <2> QED BY <2>1 DEF IsInjective, ToSet
<1>10. ToSet(s) \ {s[i]} \subseteq ToSet(r)
    <2> SUFFICES ASSUME NEW j \in DOMAIN s, s[j] # s[i]
                 PROVE  s[j] \in ToSet(r)
        BY DEF ToSet
    <2> DEFINE J == IF j < i THEN j ELSE j - 1
    <2>1. J \in DOMAIN r /\ r[J] = s[j]
        BY <1>1, <1>2, <1>6, <1>7
    <2> QED BY <2>1 DEF ToSet
<1> QED BY <1>6, <1>8, <1>9, <1>10 DEF r

-----------------------------------------------------------------------------
(* Blocks *)

\* The pool is a whole number of 64-byte chunks.
LEMMA PoolLemma == NumChunks \in Nat \ {0} /\ Segments = 0 .. (8 * NumChunks - 1)
BY PoolAssumption DEF NumChunks, Segments

LEMMA SpanLemma ==
    ASSUME NEW k \in Orders
    PROVE  /\ Span(k) \in {1, 2, 4, 8}
           /\ k < MAX_ORDER => k + 1 \in Orders /\ Span(k + 1) = 2 * Span(k)
           /\ k > 0 => k - 1 \in Orders /\ Span(k) = 2 * Span(k - 1)
<1>1. k = 0 \/ k = 1 \/ k = 2 \/ k = 3
    BY DEF Orders, MAX_ORDER
<1> QED BY <1>1 DEF Orders, MAX_ORDER, Span

\* An aligned block lies inside the pool.
LEMMA BlockLemma ==
    ASSUME NEW b \in Block
    PROVE  /\ b.order \in Orders /\ b.ptr \in Segments /\ b.ptr \in Nat
           /\ b = [ptr |-> b.ptr, order |-> b.order]
           /\ SegmentsOf(b) \subseteq Segments
           /\ b.ptr \in SegmentsOf(b)
<1>1. /\ b.order \in {0, 1, 2, 3} /\ b.ptr \in 0 .. (8 * NumChunks - 1)
      /\ NumChunks \in Nat /\ b.ptr % Span(b.order) = 0
      /\ b = [ptr |-> b.ptr, order |-> b.order]
    BY PoolLemma DEF Block, Orders, MAX_ORDER
<1>2. b.ptr + Span(b.order) - 1 <= 8 * NumChunks - 1 /\ Span(b.order) \in Nat \ {0}
    BY <1>1 DEF Span
<1> QED BY <1>1, <1>2, PoolLemma DEF SegmentsOf, Orders, MAX_ORDER

\* Two aligned blocks that meet are nested.
LEMMA NestedLemma ==
    ASSUME NEW b \in Block, NEW c \in Block, b.order <= c.order,
           NEW s \in SegmentsOf(b) \cap SegmentsOf(c)
    PROVE  /\ SegmentsOf(b) \subseteq SegmentsOf(c)
           /\ b.order = c.order => b = c
<1>1. /\ b.order \in {0, 1, 2, 3} /\ b.ptr \in Nat /\ b.ptr % Span(b.order) = 0
      /\ c.order \in {0, 1, 2, 3} /\ c.ptr \in Nat /\ c.ptr % Span(c.order) = 0
    BY BlockLemma DEF Block, Orders, MAX_ORDER
<1>2. s \in Nat /\ b.ptr <= s /\ s < b.ptr + Span(b.order)
                /\ c.ptr <= s /\ s < c.ptr + Span(c.order)
    BY <1>1 DEF SegmentsOf, Span
<1>3. c.ptr <= b.ptr /\ b.ptr + Span(b.order) <= c.ptr + Span(c.order)
    <2> DEFINE p == b.ptr q == c.ptr
    <2>1. p \in Nat /\ q \in Nat
        BY <1>1
    <2> HIDE DEF p, q
    <2>2. CASE c.order = 0
        BY <1>1, <1>2, <2>1, <2>2 DEF Span, p, q
    <2>3. CASE c.order = 1
        BY <1>1, <1>2, <2>1, <2>3 DEF Span, p, q
    <2>4. CASE c.order = 2
        BY <1>1, <1>2, <2>1, <2>4 DEF Span, p, q
    <2>5. CASE c.order = 3
        BY <1>1, <1>2, <2>1, <2>5 DEF Span, p, q
    <2> QED BY <1>1, <2>2, <2>3, <2>4, <2>5
<1>4. SegmentsOf(b) \subseteq SegmentsOf(c)
    BY <1>1, <1>3 DEF SegmentsOf, Span
<1>5. b.order = c.order => b = c
    BY <1>1, <1>3, BlockLemma DEF Span
<1> QED BY <1>4, <1>5

\* splitOrder(): the two children are blocks and partition their parent.
LEMMA SplitLemma ==
    ASSUME NEW b \in Block, b.order > 0,
           NEW lo, lo = [ptr |-> b.ptr, order |-> b.order - 1],
           NEW hi, hi = [ptr |-> b.ptr + Span(b.order - 1), order |-> b.order - 1]
    PROVE  /\ lo \in Block /\ hi \in Block /\ lo # hi
           /\ SegmentsOf(b) = SegmentsOf(lo) \cup SegmentsOf(hi)
           /\ SegmentsOf(lo) \cap SegmentsOf(hi) = {}
           /\ hi.ptr = buddyOf(lo.ptr, lo.order)
<1>1. /\ b.order \in {1, 2, 3} /\ b.ptr \in 0 .. (8 * NumChunks - 1)
      /\ NumChunks \in Nat /\ b.ptr % Span(b.order) = 0
    BY PoolLemma DEF Block, Orders, MAX_ORDER
<1>2. lo.ptr = b.ptr /\ lo.order = b.order - 1
      /\ hi.ptr = b.ptr + Span(b.order - 1) /\ hi.order = b.order - 1
    OBVIOUS
<1>3. /\ lo.ptr % Span(lo.order) = 0 /\ hi.ptr % Span(hi.order) = 0
      /\ hi.ptr \in 0 .. (8 * NumChunks - 1) /\ hi.ptr # lo.ptr
      /\ lo.order \in {0, 1, 2, 3}
      /\ hi.ptr = buddyOf(lo.ptr, lo.order)
    BY <1>1, <1>2 DEF Span, buddyOf
<1>4. lo \in Block /\ hi \in Block /\ lo # hi
    BY <1>1, <1>2, <1>3, PoolLemma DEF Block, Orders, MAX_ORDER
<1>5. /\ SegmentsOf(b) = SegmentsOf(lo) \cup SegmentsOf(hi)
      /\ SegmentsOf(lo) \cap SegmentsOf(hi) = {}
    BY <1>1, <1>2 DEF SegmentsOf, Span
<1> QED BY <1>3, <1>4, <1>5

LEMMA IntervalLemma ==
    ASSUME NEW p \in Int, NEW n \in Nat \ {0}
    PROVE  /\ p .. (p + 2 * n - 1) = (p .. (p + n - 1)) \cup ((p + n) .. (p + n + n - 1))
           /\ (p .. (p + n - 1)) \cap ((p + n) .. (p + n + n - 1)) = {}
OBVIOUS

\* deallocate(): a block and its buddy are disjoint blocks, buddies of each
\* other, and the merged block is their union.
LEMMA BuddyLemma ==
    ASSUME NEW b \in Block, b.order < MAX_ORDER,
           NEW c, c = [ptr |-> buddyOf(b.ptr, b.order), order |-> b.order],
           NEW m, m = [ptr |-> IF b.ptr < c.ptr THEN b.ptr ELSE c.ptr,
                       order |-> b.order + 1]
    PROVE  /\ c \in Block /\ b # c /\ m \in Block
           /\ SegmentsOf(m) = SegmentsOf(b) \cup SegmentsOf(c)
           /\ SegmentsOf(b) \cap SegmentsOf(c) = {}
           /\ b.ptr = buddyOf(c.ptr, b.order)
<1>1. /\ b.order \in {0, 1, 2} /\ b.ptr \in 0 .. (8 * NumChunks - 1)
      /\ NumChunks \in Nat /\ b.ptr % Span(b.order) = 0
    BY PoolLemma DEF Block, Orders, MAX_ORDER
<1>2. /\ c.ptr = buddyOf(b.ptr, b.order) /\ c.order = b.order
      /\ m.ptr = (IF b.ptr < c.ptr THEN b.ptr ELSE c.ptr) /\ m.order = b.order + 1
    OBVIOUS
<1>3. /\ c.ptr % Span(c.order) = 0 /\ m.ptr % Span(m.order) = 0
      /\ c.ptr \in 0 .. (8 * NumChunks - 1) /\ m.ptr \in 0 .. (8 * NumChunks - 1)
      /\ c.ptr = b.ptr + Span(b.order) \/ c.ptr = b.ptr - Span(b.order)
      /\ b.ptr = buddyOf(c.ptr, b.order)
    <2>1. CASE b.order = 0
        BY <1>1, <1>2, <2>1 DEF Span, buddyOf
    <2>2. CASE b.order = 1
        BY <1>1, <1>2, <2>2 DEF Span, buddyOf
    <2>3. CASE b.order = 2
        BY <1>1, <1>2, <2>3 DEF Span, buddyOf
    <2> QED BY <1>1, <2>1, <2>2, <2>3
<1>4. Span(b.order) \in Nat \ {0} /\ Span(m.order) = 2 * Span(b.order)
    BY <1>1, <1>2 DEF Span
<1>5. c \in Block /\ b # c
    <2>1. c \in [ptr : Segments, order : Orders]
        BY <1>1, <1>2, <1>3, PoolLemma DEF Orders, MAX_ORDER
    <2>2. b.ptr # c.ptr
        BY <1>1, <1>3, <1>4
    <2> QED BY <2>1, <2>2, <1>3 DEF Block
<1>6. m \in Block
    <2>1. m \in [ptr : Segments, order : Orders]
        BY <1>1, <1>2, <1>3, PoolLemma DEF Orders, MAX_ORDER
    <2> QED BY <2>1, <1>3 DEF Block
<1>7. /\ SegmentsOf(m) = SegmentsOf(b) \cup SegmentsOf(c)
      /\ SegmentsOf(b) \cap SegmentsOf(c) = {}
    <2>1. /\ SegmentsOf(b) = b.ptr .. (b.ptr + Span(b.order) - 1)
          /\ SegmentsOf(c) = c.ptr .. (c.ptr + Span(b.order) - 1)
          /\ SegmentsOf(m) = m.ptr .. (m.ptr + 2 * Span(b.order) - 1)
        BY <1>2, <1>4 DEF SegmentsOf
    <2>2. CASE c.ptr = b.ptr + Span(b.order)
        <3>1. m.ptr = b.ptr /\ b.ptr \in Int
            BY <2>2, <1>1, <1>2, <1>4
        <3> QED BY ONLY <3>1, <2>1, <2>2, <1>4, IntervalLemma
    <2>3. CASE c.ptr = b.ptr - Span(b.order)
        <3>1. m.ptr = c.ptr /\ c.ptr \in Int /\ b.ptr = c.ptr + Span(b.order)
            BY <2>3, <1>1, <1>2, <1>4
        <3> QED BY ONLY <3>1, <2>1, <1>4, IntervalLemma
    <2> QED BY <1>3, <2>2, <2>3
<1> QED BY <1>3, <1>5, <1>6, <1>7

LEMMA BuddyOfBuddy ==
    ASSUME NEW b \in Block, b.order < MAX_ORDER
    PROVE  /\ buddyOf(b.ptr, b.order) # b.ptr
           /\ buddyOf(buddyOf(b.ptr, b.order), b.order) = b.ptr
<1> DEFINE c == [ptr |-> buddyOf(b.ptr, b.order), order |-> b.order]
           m == [ptr |-> IF b.ptr < c.ptr THEN b.ptr ELSE c.ptr,
                 order |-> b.order + 1]
<1>1. c \in Block /\ b # c /\ b.ptr = buddyOf(c.ptr, b.order)
    <2> HIDE DEF c
    <2>1. c = [ptr |-> buddyOf(b.ptr, b.order), order |-> b.order]
        BY DEF c
    <2> QED BY <2>1, BuddyLemma, Zenon
<1>2. c.ptr = buddyOf(b.ptr, b.order) /\ c.order = b.order
    OBVIOUS
<1> QED BY <1>1, <1>2, BlockLemma

-----------------------------------------------------------------------------
(* The inductive invariant *)

AllBlocks == FreeBlocks \cup live \cup InHand

IInv == /\ TypeOK
        /\ Disjoint /\ Separate /\ Covered /\ NoDuplicates
        /\ SplitAsserts
        /\ NoFreeBuddies

LEMMA AllBlocksLemma ==
    ASSUME TypeOK
    PROVE  AllBlocks \subseteq Block
BY DEF TypeOK, AllBlocks, FreeBlocks

\* Replacing a block by its two halves keeps the blocks a partition.
LEMMA SplitAccounting ==
    ASSUME NEW A, NEW B, NEW b \in A, NEW lo, NEW hi, lo # hi,
           SegmentsOf(b) = SegmentsOf(lo) \cup SegmentsOf(hi),
           SegmentsOf(lo) \cap SegmentsOf(hi) = {},
           B = (A \ {b}) \cup {lo, hi},
           \A x, y \in A : x # y => SegmentsOf(x) \cap SegmentsOf(y) = {},
           \A s \in Segments : \E x \in A : s \in SegmentsOf(x)
    PROVE  /\ \A x, y \in B : x # y => SegmentsOf(x) \cap SegmentsOf(y) = {}
           /\ \A s \in Segments : \E x \in B : s \in SegmentsOf(x)
<1>1. ASSUME NEW x \in A \ {b}, NEW y \in {lo, hi}
      PROVE  SegmentsOf(x) \cap SegmentsOf(y) = {}
    BY <1>1
<1>2. ASSUME NEW x \in B, NEW y \in B, x # y
      PROVE  SegmentsOf(x) \cap SegmentsOf(y) = {}
    BY <1>1, <1>2
<1>3. ASSUME NEW s \in Segments
      PROVE  \E x \in B : s \in SegmentsOf(x)
    <2>1. PICK x \in A : s \in SegmentsOf(x)
        OBVIOUS
    <2>2. CASE x = b
        BY <2>1, <2>2
    <2>3. CASE x # b
        BY <2>1, <2>3
    <2> QED BY <2>2, <2>3
<1> QED BY <1>2, <1>3

\* Replacing two disjoint blocks by their union keeps the blocks a partition.
LEMMA MergeAccounting ==
    ASSUME NEW A, NEW B, NEW b \in A, NEW c \in A, NEW m,
           SegmentsOf(m) = SegmentsOf(b) \cup SegmentsOf(c),
           B = (A \ {b, c}) \cup {m},
           \A x, y \in A : x # y => SegmentsOf(x) \cap SegmentsOf(y) = {},
           \A s \in Segments : \E x \in A : s \in SegmentsOf(x)
    PROVE  /\ \A x, y \in B : x # y => SegmentsOf(x) \cap SegmentsOf(y) = {}
           /\ \A s \in Segments : \E x \in B : s \in SegmentsOf(x)
<1>1. ASSUME NEW x \in A \ {b, c}
      PROVE  SegmentsOf(x) \cap SegmentsOf(m) = {}
    BY <1>1
<1>2. ASSUME NEW x \in B, NEW y \in B, x # y
      PROVE  SegmentsOf(x) \cap SegmentsOf(y) = {}
    BY <1>1, <1>2
<1>3. ASSUME NEW s \in Segments
      PROVE  \E x \in B : s \in SegmentsOf(x)
    <2>1. PICK x \in A : s \in SegmentsOf(x)
        OBVIOUS
    <2>2. CASE x \in {b, c}
        BY <2>1, <2>2
    <2>3. CASE x \notin {b, c}
        BY <2>1, <2>3
    <2> QED BY <2>2, <2>3
<1> QED BY <1>2, <1>3

\* The constructor's free lists.
LEMMA InitLists ==
    ASSUME Init
    PROVE  /\ freeLists \in [Orders -> Seq(Segments)]
           /\ ToSet(freeLists[MAX_ORDER]) = {8 * i : i \in 0 .. (NumChunks - 1)}
           /\ IsInjective(freeLists[MAX_ORDER])
           /\ \A k \in Orders : k # MAX_ORDER => freeLists[k] = <<>>
<1> DEFINE l == [i \in 1 .. NumChunks |-> (i - 1) * 8]
<1>1. /\ freeLists[MAX_ORDER] = l
      /\ \A k \in Orders : k # MAX_ORDER => freeLists[k] = <<>>
      /\ freeLists = [k \in Orders |-> IF k = MAX_ORDER THEN l ELSE <<>>]
    BY DEF Init, Orders, MAX_ORDER
<1>2. NumChunks \in Nat
    BY PoolLemma
<1>3. \A i \in 1 .. NumChunks : (i - 1) * 8 \in Segments
    BY PoolLemma
<1>4. l \in [1 .. NumChunks -> Segments]
    BY <1>3
<1>5. l \in Seq(Segments)
    BY <1>2, <1>4, SeqDef
<1>6. <<>> \in Seq(Segments)
    BY EmptySeq
<1>7. freeLists \in [Orders -> Seq(Segments)]
    BY <1>1, <1>5, <1>6
<1>8. ToSet(l) = {8 * i : i \in 0 .. (NumChunks - 1)}
    <2>1. ASSUME NEW i \in 1 .. NumChunks
          PROVE  l[i] \in {8 * j : j \in 0 .. (NumChunks - 1)}
        <3>1. i - 1 \in 0 .. (NumChunks - 1) /\ l[i] = 8 * (i - 1)
            BY <1>2
        <3> QED BY <3>1
    <2>2. ASSUME NEW i \in 0 .. (NumChunks - 1)
          PROVE  8 * i \in ToSet(l)
        <3>1. i + 1 \in DOMAIN l /\ l[i + 1] = 8 * i
            BY <1>2
        <3> QED BY <3>1 DEF ToSet
    <2> QED BY <2>1, <2>2 DEF ToSet
<1>9. IsInjective(l)
    BY <1>2 DEF IsInjective
<1> QED BY <1>1, <1>7, <1>8, <1>9

LEMMA InitInv == Init => IInv
<1> SUFFICES ASSUME Init PROVE IInv
    OBVIOUS
<1>1. /\ pc = "idle" /\ order = 0 /\ avail = 0 /\ ptr = 0 /\ reply = NoReply
      /\ live = {} /\ stored = <<>> /\ InHand = {}
      /\ pool = [s \in Segments |-> 0]
    BY DEF Init, InHand
<1>2. \A k \in Orders : k # MAX_ORDER => ToSet(freeLists[k]) = {}
    BY InitLists DEF ToSet
<1>3. ASSUME NEW b \in Block
      PROVE  b \in FreeBlocks <=> b.order = MAX_ORDER
    <2>1. b.order \in Orders /\ b.ptr \in 0 .. (8 * NumChunks - 1) /\ b.ptr % Span(b.order) = 0
        BY PoolLemma, BlockLemma DEF Block
    <2>2. CASE b.order = MAX_ORDER
        <3>1. b.ptr % 8 = 0 /\ NumChunks \in Nat
            BY <2>1, <2>2, PoolLemma DEF Span, MAX_ORDER
        <3>2. b.ptr = 8 * (b.ptr \div 8) /\ b.ptr \div 8 \in 0 .. (NumChunks - 1)
            BY <3>1, <2>1
        <3> QED BY <2>2, <3>2, InitLists DEF FreeBlocks
    <2>3. CASE b.order # MAX_ORDER
        BY <2>1, <2>3, <1>2 DEF FreeBlocks
    <2> QED BY <2>2, <2>3
<1>4. TypeOK
    <2>1. \A k \in Orders : \A p \in ToSet(freeLists[k]) : p % Span(k) = 0
        <3> SUFFICES ASSUME NEW p \in ToSet(freeLists[MAX_ORDER])
                     PROVE  p % Span(MAX_ORDER) = 0
            BY <1>2
        <3>1. PICK i \in 0 .. (NumChunks - 1) : p = 8 * i
            BY InitLists
        <3> QED BY <3>1 DEF Span, MAX_ORDER
    <2>2. 0 \in Orders /\ 0 \in Segments
        BY PoolLemma DEF Orders, MAX_ORDER
    <2> QED BY <1>1, <2>1, <2>2, InitLists DEF TypeOK
<1>5. Disjoint
    <2> SUFFICES ASSUME NEW b \in FreeBlocks, NEW c \in FreeBlocks, b # c
                 PROVE  SegmentsOf(b) \cap SegmentsOf(c) = {}
        BY <1>1 DEF Disjoint
    <2>1. b \in Block /\ c \in Block /\ b.order = MAX_ORDER /\ c.order = MAX_ORDER
        BY <1>3 DEF FreeBlocks
    <2> QED BY <2>1, NestedLemma DEF MAX_ORDER
<1>6. Covered
    <2> SUFFICES ASSUME NEW s \in Segments
                 PROVE  \E b \in FreeBlocks : s \in SegmentsOf(b)
        BY DEF Covered
    <2> DEFINE b == [ptr |-> 8 * (s \div 8), order |-> MAX_ORDER]
    <2>1. b.ptr \in Segments /\ b.ptr % 8 = 0 /\ s \in b.ptr .. (b.ptr + 8 - 1)
        BY PoolLemma
    <2>2. b \in Block /\ s \in SegmentsOf(b)
        BY <2>1 DEF Block, SegmentsOf, Span, Orders, MAX_ORDER
    <2> QED BY <2>2, <1>3
<1>7. NoDuplicates
    BY InitLists DEF NoDuplicates, IsInjective
<1>8. Separate /\ SplitAsserts
    BY <1>1 DEF Separate, SplitAsserts
<1>9. NoFreeBuddies
    BY <1>3 DEF NoFreeBuddies, FreeBlocks, MAX_ORDER
<1> QED BY <1>4, <1>5, <1>6, <1>7, <1>8, <1>9 DEF IInv

\* A call that only starts, or that only touches the contents, moves no block.
LEMMA AllocateInv ==
    ASSUME IInv, NEW size \in Sizes, Allocate(size)
    PROVE  IInv'
<1>1. sizeToOrder[size] \in Orders
    BY SizesAssumption DEF sizeToOrder, Orders, MAX_ORDER
<1>2. /\ order' \in Orders /\ pc' = "split" /\ pc = "idle"
      /\ asked' = order' /\ reply' = NoReply
      /\ UNCHANGED <<freeLists, pool, ptr, live, stored>>
    BY <1>1 DEF Allocate
<1>3. PICK k \in order' .. MAX_ORDER :
          /\ freeLists[k] # <<>>
          /\ \A j \in order' .. (k - 1) : freeLists[j] = <<>>
          /\ avail' = k
    BY DEF Allocate
<1>4. k \in Orders /\ order' <= k
    BY <1>2, <1>3 DEF Orders, MAX_ORDER
<1>5. FreeBlocks' = FreeBlocks /\ InHand = {} /\ InHand' = {}
    BY <1>2 DEF FreeBlocks, InHand
<1>6. TypeOK'
    BY <1>2, <1>3, <1>4, <1>5 DEF IInv, TypeOK
<1>7. Disjoint' /\ Separate' /\ Covered' /\ NoDuplicates'
    BY <1>2, <1>5 DEF IInv, Disjoint, Separate, Covered, NoDuplicates
<1>8. SplitAsserts'
    BY <1>2, <1>3, <1>4 DEF SplitAsserts
<1>9. NoFreeBuddies'
    BY <1>2, <1>5 DEF IInv, NoFreeBuddies
<1> QED BY <1>6, <1>7, <1>8, <1>9 DEF IInv

LEMMA DeallocateInv ==
    ASSUME IInv, NEW b \in live, Deallocate(b)
    PROVE  IInv'
<1>1. b \in Block
    BY DEF IInv, TypeOK
<1>2. /\ pc = "idle" /\ pc' = "coalesce" /\ asked' = NoReply /\ reply' = NoReply
      /\ ptr' = b.ptr /\ order' = b.order
      /\ live' = live \ {b}
      /\ stored' = [c \in DOMAIN stored \ {b} |-> stored[c]]
      /\ UNCHANGED <<freeLists, pool, avail>>
    BY DEF Deallocate
<1>3. FreeBlocks' = FreeBlocks /\ InHand = {} /\ InHand' = {b}
    BY <1>1, <1>2, BlockLemma DEF FreeBlocks, InHand
<1>4. TypeOK'
    BY <1>1, <1>2, <1>3, BlockLemma DEF IInv, TypeOK
<1>5. (FreeBlocks \cup live \cup InHand)' = FreeBlocks \cup live \cup InHand
    BY <1>2, <1>3
<1>6. Disjoint' /\ Covered'
    BY <1>5 DEF IInv, Disjoint, Covered
<1>7. Separate' /\ NoDuplicates'
    BY <1>2, <1>3 DEF IInv, Separate, NoDuplicates
<1>8. SplitAsserts'
    BY <1>2 DEF SplitAsserts
<1>9. NoFreeBuddies'
    BY <1>2, <1>3 DEF IInv, NoFreeBuddies
<1> QED BY <1>4, <1>6, <1>7, <1>8, <1>9 DEF IInv

LEMMA AllocateFailsInv ==
    ASSUME IInv, NEW size \in Sizes, AllocateFails(size)
    PROVE  IInv'
<1>1. /\ asked' \in Orders /\ reply' = ALLOC_FAIL
      /\ UNCHANGED <<freeLists, pool, locals, live, stored>>
    BY SizesAssumption DEF AllocateFails, sizeToOrder, Orders, MAX_ORDER
<1>2. FreeBlocks' = FreeBlocks /\ InHand' = InHand
    BY <1>1 DEF FreeBlocks, InHand, locals
<1> QED BY <1>1, <1>2 DEF IInv, TypeOK, Disjoint, Separate, Covered, NoDuplicates,
                          SplitAsserts, NoFreeBuddies, locals

LEMMA WriteInv ==
    ASSUME IInv, NEW b \in live, NEW v \in Value, write(b, v)
    PROVE  IInv'
<1>1. /\ pool' = [s \in Segments |-> IF s \in SegmentsOf(b) THEN v ELSE pool[s]]
      /\ stored' = [c \in DOMAIN stored \cup {b} |-> IF c = b THEN v ELSE stored[c]]
      /\ UNCHANGED <<freeLists, locals, asked, reply, live>>
    BY DEF write
<1>2. FreeBlocks' = FreeBlocks /\ InHand' = InHand
    BY <1>1 DEF FreeBlocks, InHand, locals
<1>3. TypeOK'
    <2>1. pool' \in [Segments -> Value \cup {0}]
        BY <1>1 DEF IInv, TypeOK
    <2>2. DOMAIN stored' \subseteq live' /\ \A c \in DOMAIN stored' : stored'[c] \in Value
        BY <1>1 DEF IInv, TypeOK
    <2> QED BY <1>1, <1>2, <2>1, <2>2 DEF IInv, TypeOK, locals
<1> QED BY <1>1, <1>2, <1>3 DEF IInv, Disjoint, Separate, Covered, NoDuplicates,
                                SplitAsserts, NoFreeBuddies, locals

LEMMA AllocateReturnsInv ==
    ASSUME IInv, AllocateReturns
    PROVE  IInv'
<1> DEFINE p == Head(freeLists[order])
           b == [ptr |-> p, order |-> order]
<1>1. /\ pc = "split" /\ avail = order /\ pc' = "idle"
      /\ order' = 0 /\ avail' = 0 /\ ptr' = 0
      /\ asked' = asked /\ reply' = p /\ live' = live \cup {b}
      /\ freeLists' = [freeLists EXCEPT ![order] = Tail(freeLists[order])]
      /\ UNCHANGED <<pool, stored>>
    BY DEF AllocateReturns, Return, data
<1>2. /\ order \in Orders /\ freeLists[order] \in Seq(Segments)
      /\ freeLists[order] # <<>> /\ IsInjective(freeLists[order])
    BY <1>1 DEF IInv, TypeOK, SplitAsserts, NoDuplicates
<1>3. /\ p \in ToSet(freeLists[order]) /\ p \in Segments
      /\ Tail(freeLists[order]) \in Seq(Segments)
      /\ IsInjective(Tail(freeLists[order]))
      /\ ToSet(Tail(freeLists[order])) = ToSet(freeLists[order]) \ {p}
    BY <1>2, TailLemma
<1>4. b \in Block /\ b \in FreeBlocks
    BY <1>2, <1>3 DEF IInv, TypeOK, Block, FreeBlocks
<1> HIDE DEF p
<1>5. /\ freeLists' \in [Orders -> Seq(Segments)]
      /\ freeLists'[order] = Tail(freeLists[order])
      /\ \A k \in Orders : k # order => freeLists'[k] = freeLists[k]
    BY <1>1, <1>2, <1>3 DEF IInv, TypeOK
<1>6. FreeBlocks' = FreeBlocks \ {b}
    <2>1. ASSUME NEW c \in Block
          PROVE  c \in FreeBlocks' <=> c \in FreeBlocks /\ c # b
        <3>1. CASE c.order = order
            <4>1. c # b <=> c.ptr # p
                BY <3>1, BlockLemma
            <4> QED BY <3>1, <4>1, <1>3, <1>5 DEF FreeBlocks
        <3>2. CASE c.order # order
            BY <3>2, <1>5, BlockLemma DEF FreeBlocks
        <3> QED BY <3>1, <3>2
    <2> QED BY <2>1 DEF FreeBlocks
<1>7. InHand = {} /\ InHand' = {}
    BY <1>1 DEF InHand
<1>8. TypeOK'
    <2>1. \A k \in Orders : \A q \in ToSet(freeLists'[k]) : q % Span(k) = 0
        BY <1>3, <1>5 DEF IInv, TypeOK
    <2>2. 0 \in Orders /\ 0 \in Segments
        BY PoolLemma DEF Orders, MAX_ORDER
    <2> QED BY <1>1, <1>3, <1>4, <1>5, <1>7, <2>1, <2>2 DEF IInv, TypeOK
<1>9. (FreeBlocks \cup live \cup InHand)' = FreeBlocks \cup live \cup InHand
    BY <1>1, <1>4, <1>6, <1>7
<1>10. Disjoint' /\ Covered'
    BY <1>9 DEF IInv, Disjoint, Covered
<1>11. Separate'
    BY <1>1, <1>6, <1>7 DEF IInv, Separate
<1>12. NoDuplicates'
    BY <1>3, <1>5 DEF IInv, NoDuplicates
<1>13. SplitAsserts'
    BY <1>1 DEF SplitAsserts
<1>14. NoFreeBuddies'
    <2> SUFFICES ASSUME NEW c \in FreeBlocks', c.order < MAX_ORDER,
                        buddyOf(c.ptr, c.order) \in ToSet(freeLists'[c.order])
                 PROVE  FALSE
        BY DEF NoFreeBuddies
    <2>1. /\ c \in FreeBlocks /\ c \in Block /\ c.order \in Orders
          /\ ToSet(freeLists'[c.order]) \subseteq ToSet(freeLists[c.order])
        BY <1>3, <1>5, <1>6, BlockLemma DEF FreeBlocks
    <2>2. c.order = order /\ p \in {c.ptr, buddyOf(c.ptr, c.order)}
        BY <2>1, <1>1 DEF IInv, NoFreeBuddies, p
    <2>3. p \notin ToSet(freeLists'[order]) /\ c.ptr \in ToSet(freeLists'[c.order])
        BY <1>3, <1>5 DEF FreeBlocks
    <2> QED BY <2>2, <2>3
<1> QED BY <1>8, <1>10, <1>11, <1>12, <1>13, <1>14 DEF IInv

LEMMA DeallocateReturnsInv ==
    ASSUME IInv, DeallocateReturns
    PROVE  IInv'
<1> DEFINE b == [ptr |-> ptr, order |-> order]
<1>1. /\ pc = "coalesce" /\ ~BuddyFree /\ pc' = "idle"
      /\ order' = 0 /\ avail' = 0 /\ ptr' = 0
      /\ freeLists' = [freeLists EXCEPT ![order] = Append(freeLists[order], ptr)]
      /\ UNCHANGED <<pool, asked, reply, live, stored>>
    BY DEF DeallocateReturns, Return
<1>2. InHand = {b} /\ InHand' = {} /\ b \in Block /\ b \notin FreeBlocks \cup live
    BY <1>1 DEF InHand, IInv, TypeOK, Separate
<1>3. /\ order \in Orders /\ ptr \in Segments /\ freeLists[order] \in Seq(Segments)
      /\ IsInjective(freeLists[order]) /\ ptr \notin ToSet(freeLists[order])
      /\ ptr % Span(order) = 0
    BY <1>2 DEF IInv, TypeOK, NoDuplicates, FreeBlocks, Block
<1>4. /\ Append(freeLists[order], ptr) \in Seq(Segments)
      /\ ToSet(Append(freeLists[order], ptr)) = ToSet(freeLists[order]) \cup {ptr}
      /\ IsInjective(Append(freeLists[order], ptr))
    BY <1>3, AppendLemma
<1>5. /\ freeLists' \in [Orders -> Seq(Segments)]
      /\ freeLists'[order] = Append(freeLists[order], ptr)
      /\ \A k \in Orders : k # order => freeLists'[k] = freeLists[k]
    BY <1>1, <1>3, <1>4 DEF IInv, TypeOK
<1>6. FreeBlocks' = FreeBlocks \cup {b}
    <2>1. ASSUME NEW c \in Block
          PROVE  c \in FreeBlocks' <=> c \in FreeBlocks \/ c = b
        <3>1. CASE c.order = order
            <4>1. c = b <=> c.ptr = ptr
                BY <3>1, BlockLemma
            <4> QED BY <3>1, <4>1, <1>4, <1>5 DEF FreeBlocks
        <3>2. CASE c.order # order
            BY <3>2, <1>5, BlockLemma DEF FreeBlocks
        <3> QED BY <3>1, <3>2
    <2> QED BY <2>1, <1>2 DEF FreeBlocks
<1>7. TypeOK'
    <2>1. \A k \in Orders : \A q \in ToSet(freeLists'[k]) : q % Span(k) = 0
        BY <1>3, <1>4, <1>5 DEF IInv, TypeOK
    <2>2. 0 \in Orders /\ 0 \in Segments
        BY PoolLemma DEF Orders, MAX_ORDER
    <2> QED BY <1>1, <1>2, <1>5, <2>1, <2>2 DEF IInv, TypeOK
<1>8. (FreeBlocks \cup live \cup InHand)' = FreeBlocks \cup live \cup InHand
    BY <1>1, <1>2, <1>6
<1>9. Disjoint' /\ Covered'
    BY <1>8 DEF IInv, Disjoint, Covered
<1>10. Separate' /\ NoDuplicates'
    BY <1>1, <1>2, <1>4, <1>5, <1>6 DEF IInv, Separate, NoDuplicates
<1>11. SplitAsserts'
    BY <1>1 DEF SplitAsserts
<1>12. NoFreeBuddies'
    <2> SUFFICES ASSUME NEW c \in FreeBlocks', c.order < MAX_ORDER,
                        buddyOf(c.ptr, c.order) \in ToSet(freeLists'[c.order])
                 PROVE  FALSE
        BY DEF NoFreeBuddies
    <2>1. c \in Block /\ c.order \in Orders
        BY BlockLemma DEF FreeBlocks
    <2>2. c.order # order \/ (c.ptr # ptr /\ buddyOf(c.ptr, c.order) # ptr)
        <3> SUFFICES ASSUME c.order = order
                     PROVE  c.ptr # ptr /\ buddyOf(c.ptr, c.order) # ptr
            OBVIOUS
        <3>1. /\ buddyOf(c.ptr, order) # c.ptr
              /\ c.ptr = buddyOf(buddyOf(c.ptr, order), order)
            BY <2>1, BuddyOfBuddy
        <3>2. buddyOf(ptr, order) \notin ToSet(freeLists[order])
            BY <1>1 DEF BuddyFree
        <3>3. c.ptr \in ToSet(freeLists'[order])
            BY DEF FreeBlocks
        <3> QED BY <3>1, <3>2, <3>3, <1>4, <1>5
    <2>3. /\ c \in FreeBlocks
          /\ buddyOf(c.ptr, c.order) \in ToSet(freeLists[c.order])
        <3>1. CASE c.order = order
            BY <3>1, <2>1, <2>2, <1>4, <1>5, <1>6
        <3>2. CASE c.order # order
            BY <3>2, <2>1, <1>5, <1>6
        <3> QED BY <3>1, <3>2
    <2> QED BY <2>3, <1>1 DEF IInv, NoFreeBuddies
<1> QED BY <1>7, <1>9, <1>10, <1>11, <1>12 DEF IInv

LEMMA splitOrderInv ==
    ASSUME IInv, splitOrder
    PROVE  IInv'
<1> DEFINE k == avail - 1
           p == Head(freeLists[avail])
           q == p + Span(k)
           b == [ptr |-> p, order |-> avail]
           lo == [ptr |-> p, order |-> k]
           hi == [ptr |-> q, order |-> k]
<1>1. /\ pc = "split" /\ avail > order /\ avail' = k
      /\ freeLists' = [freeLists EXCEPT
              ![avail] = Tail(freeLists[avail]),
              ![k]     = Append(Append(freeLists[k], p), q)]
      /\ UNCHANGED <<pool, pc, order, ptr, asked, reply, live, stored>>
    BY DEF splitOrder
<1>2. /\ avail \in Orders /\ order \in Orders /\ k \in Orders /\ k # avail /\ k >= order
      /\ avail > 0 /\ \A j \in Orders : j < avail => j <= k
    BY <1>1 DEF IInv, TypeOK, Orders, MAX_ORDER
<1>3. /\ freeLists[avail] \in Seq(Segments) /\ freeLists[avail] # <<>>
      /\ IsInjective(freeLists[avail]) /\ freeLists[k] = <<>>
    BY <1>1, <1>2 DEF IInv, TypeOK, SplitAsserts, NoDuplicates, Orders
<1>4. /\ p \in ToSet(freeLists[avail]) /\ p \in Segments
      /\ Tail(freeLists[avail]) \in Seq(Segments)
      /\ IsInjective(Tail(freeLists[avail]))
      /\ ToSet(Tail(freeLists[avail])) = ToSet(freeLists[avail]) \ {p}
    BY <1>3, TailLemma
<1>5. b \in Block /\ b \in FreeBlocks
    BY <1>2, <1>4 DEF IInv, TypeOK, Block, FreeBlocks
<1>6. b.ptr = p /\ b.order = avail /\ lo.ptr = p /\ lo.order = k /\ hi.ptr = q /\ hi.order = k
    OBVIOUS
<1> HIDE DEF p, b
<1>7. /\ lo \in Block /\ hi \in Block /\ lo # hi
      /\ SegmentsOf(b) = SegmentsOf(lo) \cup SegmentsOf(hi)
      /\ SegmentsOf(lo) \cap SegmentsOf(hi) = {}
      /\ q = buddyOf(p, k)
    <2>1. b.order > 0 /\ lo = [ptr |-> b.ptr, order |-> b.order - 1]
          /\ hi = [ptr |-> b.ptr + Span(b.order - 1), order |-> b.order - 1]
        BY <1>2, <1>6
    <2> HIDE DEF lo, hi
    <2>2. /\ lo \in Block /\ hi \in Block /\ lo # hi
          /\ SegmentsOf(b) = SegmentsOf(lo) \cup SegmentsOf(hi)
          /\ SegmentsOf(lo) \cap SegmentsOf(hi) = {}
          /\ hi.ptr = buddyOf(lo.ptr, lo.order)
        BY ONLY <2>1, <1>5, SplitLemma
    <2> QED BY <2>2, <1>6
<1>8. p \in Segments /\ q \in Segments
    BY <1>4, <1>6, <1>7, BlockLemma
<1> DEFINE new == Append(Append(<<>>, p), q)
<1>9. /\ new \in Seq(Segments) /\ ToSet(new) = {p, q} /\ IsInjective(new)
      /\ Head(new) = p /\ new # <<>>
    <2>1. p # q
        BY <1>7
    <2> DEFINE one == Append(<<>>, p)
    <2>2. <<>> \in Seq(Segments) /\ ToSet(<<>>) = {} /\ IsInjective(<<>>)
        BY EmptySeq DEF ToSet, IsInjective
    <2> DEFINE none == <<>>
    <2>3. one \in Seq(Segments) /\ ToSet(one) = {p} /\ IsInjective(one)
        <3>1. none \in Seq(Segments) /\ ToSet(none) = {} /\ IsInjective(none)
            BY <2>2
        <3>2. one = Append(none, p)
            OBVIOUS
        <3> HIDE DEF none, one
        <3> QED BY <3>1, <3>2, <1>8, AppendLemma
    <2>4. one # <<>> /\ Head(one) = p
        BY <1>8, <2>2, HeadTailAppend
    <2> HIDE DEF q, one, none
    <2>5. /\ Append(one, q) \in Seq(Segments) /\ ToSet(Append(one, q)) = {p, q}
          /\ IsInjective(Append(one, q))
        BY <2>1, <2>3, <1>8, AppendLemma
    <2>6. Append(one, q) # <<>> /\ Head(Append(one, q)) = p
        BY <2>3, <2>4, <1>8, HeadTailAppend
    <2> QED BY <2>5, <2>6 DEF one
<1> HIDE DEF q, lo, hi, new
<1>10. /\ freeLists' \in [Orders -> Seq(Segments)]
       /\ freeLists'[avail] = Tail(freeLists[avail])
       /\ freeLists'[k] = new
       /\ \A j \in Orders : j # avail /\ j # k => freeLists'[j] = freeLists[j]
    <2>1. freeLists' = [freeLists EXCEPT ![avail] = Tail(freeLists[avail]), ![k] = new]
        BY <1>1, <1>3 DEF new
    <2> QED BY <2>1, <1>2, <1>4, <1>9 DEF IInv, TypeOK
<1>11. FreeBlocks' = (FreeBlocks \ {b}) \cup {lo, hi}
    <2>1. ASSUME NEW c \in Block
          PROVE  c \in FreeBlocks' <=> (c \in FreeBlocks /\ c # b) \/ c = lo \/ c = hi
        <3>0. c.order \in Orders
            BY BlockLemma
        <3>1. CASE c.order = avail
            <4>1. c # b <=> c.ptr # p
                BY <3>1, <1>5, <1>6, BlockLemma
            <4>2. c # lo /\ c # hi
                BY <3>1, <1>2, <1>6
            <4> QED BY <3>0, <3>1, <4>1, <4>2, <1>4, <1>10 DEF FreeBlocks
        <3>2. CASE c.order = k
            <4>1. (c = lo <=> c.ptr = p) /\ (c = hi <=> c.ptr = q)
                BY <3>2, <1>6, <1>7, BlockLemma
            <4>2. c \notin FreeBlocks
                BY <3>2, <1>3 DEF FreeBlocks, ToSet
            <4> QED BY <3>2, <4>1, <4>2, <1>9, <1>10 DEF FreeBlocks
        <3>3. CASE c.order # avail /\ c.order # k
            BY <3>0, <3>3, <1>6, <1>10 DEF FreeBlocks
        <3> QED BY <3>1, <3>2, <3>3
    <2> QED BY <2>1, <1>7 DEF FreeBlocks
<1>12. InHand = {} /\ InHand' = {}
    BY <1>1 DEF InHand
<1>13. TypeOK'
    <2>1. ASSUME NEW j \in Orders, NEW r \in ToSet(freeLists'[j])
          PROVE  r % Span(j) = 0
        <3>1. CASE j = avail
            BY <3>1, <1>4, <1>10 DEF IInv, TypeOK
        <3>2. CASE j = k
            BY <3>2, <1>6, <1>7, <1>9, <1>10 DEF Block
        <3>3. CASE j # avail /\ j # k
            BY <3>3, <1>10 DEF IInv, TypeOK
        <3> QED BY <3>1, <3>2, <3>3
    <2> QED BY <1>1, <1>2, <1>10, <1>12, <2>1 DEF IInv, TypeOK
<1>14. Disjoint' /\ Covered'
    <2> DEFINE A == FreeBlocks \cup live \cup InHand
               B == FreeBlocks' \cup live' \cup InHand'
    <2>1. b \in A /\ B = (A \ {b}) \cup {lo, hi}
        BY <1>1, <1>5, <1>11, <1>12 DEF IInv, Separate
    <2>2. /\ \A x, y \in A : x # y => SegmentsOf(x) \cap SegmentsOf(y) = {}
          /\ \A s \in Segments : \E x \in A : s \in SegmentsOf(x)
        BY DEF IInv, Disjoint, Covered
    <2> HIDE DEF A, B
    <2>3. /\ \A x, y \in B : x # y => SegmentsOf(x) \cap SegmentsOf(y) = {}
          /\ \A s \in Segments : \E x \in B : s \in SegmentsOf(x)
        BY <2>1, <2>2, <1>7, SplitAccounting, Zenon
    <2> QED BY <2>3 DEF Disjoint, Covered, B
<1>15. Separate'
    <2>1. ASSUME NEW c \in {lo, hi} PROVE c \notin live
        <3>1. c \in Block /\ c # b /\ c.ptr \in SegmentsOf(c) \cap SegmentsOf(b)
            BY <1>2, <1>6, <1>7, BlockLemma
        <3> QED BY <3>1, <1>5 DEF IInv, Disjoint
    <2> QED BY <2>1, <1>1, <1>11, <1>12 DEF IInv, Separate
<1>16. NoDuplicates'
    BY <1>4, <1>9, <1>10 DEF IInv, NoDuplicates
<1>17. SplitAsserts'
    <2>1. \A j \in order .. (k - 1) : freeLists[j] = <<>> /\ j \in Orders /\ j # avail /\ j # k
        BY <1>1, <1>2 DEF IInv, SplitAsserts, Orders, MAX_ORDER
    <2> QED BY <2>1, <1>1, <1>2, <1>9, <1>10 DEF SplitAsserts
<1>18. NoFreeBuddies'
    <2> SUFFICES ASSUME NEW c \in FreeBlocks', c.order < MAX_ORDER,
                        buddyOf(c.ptr, c.order) \in ToSet(freeLists'[c.order])
                 PROVE  c.order = k /\ p \in {c.ptr, buddyOf(c.ptr, c.order)}
        BY <1>1, <1>9, <1>10 DEF NoFreeBuddies
    <2>1. c \in Block /\ c.order \in Orders /\ c.ptr \in ToSet(freeLists'[c.order])
        BY BlockLemma DEF FreeBlocks
    <2>2. CASE c.order = k
        <3>1. c.ptr \in {p, q} /\ buddyOf(c.ptr, k) \in {p, q}
            BY <2>1, <2>2, <1>9, <1>10
        <3>2. buddyOf(c.ptr, k) # c.ptr
            BY <2>1, <2>2, BuddyOfBuddy
        <3> QED BY <2>2, <3>1, <3>2
    <2>3. CASE c.order # k
        <3>1. /\ c \in FreeBlocks
              /\ buddyOf(c.ptr, c.order) \in ToSet(freeLists[c.order])
              /\ c.order = avail => p \notin ToSet(freeLists'[c.order])
            BY <2>1, <2>3, <1>4, <1>10 DEF FreeBlocks
        <3>2. c.order = avail /\ p \in {c.ptr, buddyOf(c.ptr, c.order)}
            BY <3>1 DEF IInv, NoFreeBuddies, p
        <3> QED BY <2>1, <3>1, <3>2
    <2> QED BY <2>2, <2>3
<1> QED BY <1>13, <1>14, <1>15, <1>16, <1>17, <1>18 DEF IInv

LEMMA CoalesceInv ==
    ASSUME IInv, Coalesce
    PROVE  IInv'
<1> DEFINE o == order
           bud == buddyOf(ptr, order)
           b == [ptr |-> ptr, order |-> order]
           c == [ptr |-> bud, order |-> order]
           m == [ptr |-> IF ptr < bud THEN ptr ELSE bud, order |-> order + 1]
<1>1. PICK i \in DOMAIN freeLists[order] :
          /\ freeLists[order][i] = bud
          /\ freeLists' = [freeLists EXCEPT ![order] = RemoveAt(freeLists[order], i)]
    BY DEF Coalesce
<1>2. /\ pc = "coalesce" /\ pc' = "coalesce" /\ order < MAX_ORDER
      /\ bud \in ToSet(freeLists[order])
      /\ ptr' = m.ptr /\ order' = order + 1
      /\ UNCHANGED <<pool, avail, asked, reply, live, stored>>
    BY DEF Coalesce, BuddyFree
<1>3. /\ InHand = {b} /\ InHand' = {m} /\ b \in Block /\ b \notin FreeBlocks \cup live
      /\ order \in Orders /\ order + 1 \in Orders
    BY <1>2 DEF InHand, IInv, TypeOK, Separate, Orders, MAX_ORDER
<1>4. b.ptr = ptr /\ b.order = order /\ c.ptr = bud /\ c.order = order /\ m.order = order + 1
    OBVIOUS
<1>5. /\ c \in Block /\ b # c /\ m \in Block
      /\ SegmentsOf(m) = SegmentsOf(b) \cup SegmentsOf(c)
    <2>1. /\ c = [ptr |-> buddyOf(b.ptr, b.order), order |-> b.order]
          /\ m = [ptr |-> IF b.ptr < c.ptr THEN b.ptr ELSE c.ptr, order |-> b.order + 1]
          /\ b.order < MAX_ORDER
        BY <1>2, <1>4
    <2> HIDE DEF b, c, m
    <2> QED BY <2>1, <1>3, BuddyLemma, Zenon
<1>6. c \in FreeBlocks
    BY <1>2, <1>4, <1>5 DEF FreeBlocks
<1>7. /\ RemoveAt(freeLists[order], i) \in Seq(Segments)
      /\ IsInjective(RemoveAt(freeLists[order], i))
      /\ ToSet(RemoveAt(freeLists[order], i)) = ToSet(freeLists[order]) \ {bud}
    <2>1. freeLists[order] \in Seq(Segments) /\ IsInjective(freeLists[order])
        BY <1>3 DEF IInv, TypeOK, NoDuplicates
    <2> QED BY <2>1, <1>1, RemoveAtLemma
<1> HIDE DEF bud, b, c, m
<1>8. /\ freeLists' \in [Orders -> Seq(Segments)]
      /\ ToSet(freeLists'[order]) = ToSet(freeLists[order]) \ {bud}
      /\ IsInjective(freeLists'[order])
      /\ \A k \in Orders : k # order => freeLists'[k] = freeLists[k]
    BY <1>1, <1>3, <1>7 DEF IInv, TypeOK
<1>9. FreeBlocks' = FreeBlocks \ {c}
    <2>1. ASSUME NEW d \in Block
          PROVE  d \in FreeBlocks' <=> d \in FreeBlocks /\ d # c
        <3>1. CASE d.order = order
            <4>1. d # c <=> d.ptr # bud
                BY <3>1, <1>4, <1>5, BlockLemma
            <4> QED BY <3>1, <4>1, <1>8 DEF FreeBlocks
        <3>2. CASE d.order # order
            BY <3>2, <1>4, <1>8, BlockLemma DEF FreeBlocks
        <3> QED BY <3>1, <3>2
    <2> QED BY <2>1 DEF FreeBlocks
<1>10. TypeOK'
    <2>1. \A k \in Orders : \A q \in ToSet(freeLists'[k]) : q % Span(k) = 0
        BY <1>8 DEF IInv, TypeOK
    <2>2. ptr' \in Segments /\ order' \in Orders
        BY <1>2, <1>3, <1>5, BlockLemma
    <2> QED BY <1>2, <1>3, <1>5, <1>8, <2>1, <2>2 DEF IInv, TypeOK
<1>11. Disjoint' /\ Covered'
    <2> DEFINE A == FreeBlocks \cup live \cup InHand
               B == FreeBlocks' \cup live' \cup InHand'
    <2>1. b \in A /\ c \in A /\ B = (A \ {b, c}) \cup {m}
        BY <1>2, <1>3, <1>6, <1>9 DEF IInv, Separate
    <2>2. /\ \A x, y \in A : x # y => SegmentsOf(x) \cap SegmentsOf(y) = {}
          /\ \A s \in Segments : \E x \in A : s \in SegmentsOf(x)
        BY DEF IInv, Disjoint, Covered
    <2> HIDE DEF A, B
    <2>3. /\ \A x, y \in B : x # y => SegmentsOf(x) \cap SegmentsOf(y) = {}
          /\ \A s \in Segments : \E x \in B : s \in SegmentsOf(x)
        BY <2>1, <2>2, <1>5, MergeAccounting, Zenon
    <2> QED BY <2>3 DEF Disjoint, Covered, B
<1>12. Separate'
    <2>1. m \notin FreeBlocks \cup live
        <3>1. m # b /\ b.ptr \in SegmentsOf(m) \cap SegmentsOf(b)
            BY <1>3, <1>4, <1>5, BlockLemma DEF Orders
        <3> QED BY <3>1, <1>3 DEF IInv, Disjoint
    <2> QED BY <2>1, <1>2, <1>3, <1>9 DEF IInv, Separate
<1>13. NoDuplicates'
    BY <1>8 DEF IInv, NoDuplicates
<1>14. SplitAsserts'
    BY <1>2 DEF SplitAsserts
<1>15. NoFreeBuddies'
    <2> SUFFICES ASSUME NEW d \in FreeBlocks', d.order < MAX_ORDER,
                        buddyOf(d.ptr, d.order) \in ToSet(freeLists'[d.order])
                 PROVE  FALSE
        BY DEF NoFreeBuddies
    <2>1. /\ d \in FreeBlocks /\ d.order \in Orders
          /\ buddyOf(d.ptr, d.order) \in ToSet(freeLists[d.order])
        BY <1>8, <1>9, BlockLemma DEF FreeBlocks
    <2> QED BY <2>1, <1>2 DEF IInv, NoFreeBuddies
<1> QED BY <1>10, <1>11, <1>12, <1>13, <1>14, <1>15 DEF IInv

LEMMA NextInv == IInv /\ [Next]_vars => IInv'
<1> SUFFICES ASSUME IInv, [Next]_vars PROVE IInv'
    OBVIOUS
<1>1. ASSUME NEW size \in Sizes, Allocate(size) PROVE IInv'
    BY <1>1, AllocateInv
<1>2. ASSUME NEW size \in Sizes, AllocateFails(size) PROVE IInv'
    BY <1>2, AllocateFailsInv
<1>3. ASSUME NEW b \in live, Deallocate(b) PROVE IInv'
    BY <1>3, DeallocateInv
<1>4. ASSUME NEW b \in live, NEW v \in Value, write(b, v) PROVE IInv'
    BY <1>4, WriteInv
<1>5. CASE Step
    BY <1>5, splitOrderInv, AllocateReturnsInv, CoalesceInv, DeallocateReturnsInv DEF Step
<1>6. CASE UNCHANGED vars
    BY <1>6 DEF vars, IInv, TypeOK, Disjoint, Separate, Covered, NoDuplicates,
                SplitAsserts, NoFreeBuddies, FreeBlocks, InHand
<1> QED BY <1>1, <1>2, <1>3, <1>4, <1>5, <1>6 DEF Next

LEMMA Invariance == Spec => []IInv
BY InitInv, NextInv, PTL DEF Spec

\* The variables keep their types, and free, held and carried blocks stay
\* aligned and inside the pool, for every pool and every set of sizes.
THEOREM TypeCorrect == Spec => []TypeOK
<1>1. IInv => TypeOK
    BY DEF IInv
<1> QED BY <1>1, Invariance, PTL

\* In every step of every call each segment has exactly one owner: no byte of
\* the pool leaks and none is allocated twice.
THEOREM PoolIsAccountedFor == Spec => []PoolAccounting
<1>1. IInv => PoolAccounting
    BY DEF IInv, PoolAccounting
<1> QED BY <1>1, Invariance, PTL

\* The assertions of splitOrder() cannot fail.
THEOREM SplitNeverPopsAnEmptyList == Spec => []SplitAsserts
<1>1. IInv => SplitAsserts
    BY DEF IInv
<1> QED BY <1>1, Invariance, PTL

\* deallocate() leaves no two free buddies behind.
THEOREM CoalescingIsComplete == Spec => []NoFreeBuddies
<1>1. IInv => NoFreeBuddies
    BY DEF IInv
<1> QED BY <1>1, Invariance, PTL

-----------------------------------------------------------------------------
(* What complete coalescing is for *)

\* Between calls an extent that meets no caller's block lies inside a single
\* free block.  Otherwise take the smallest free block inside it: its buddy is
\* covered by free blocks too, by smaller ones against the choice, by the
\* buddy itself against NoFreeBuddies, or by a larger one that overlaps it.
LEMMA FreeExtentLemma ==
    ASSUME IInv, pc = "idle", NEW e \in Block,
           \A b \in live : SegmentsOf(b) \cap SegmentsOf(e) = {}
    PROVE  \E b \in FreeBlocks : e.order <= b.order /\ SegmentsOf(e) \subseteq SegmentsOf(b)
<1> SUFFICES ASSUME \A b \in FreeBlocks :
                        ~(e.order <= b.order /\ SegmentsOf(e) \subseteq SegmentsOf(b))
             PROVE  FALSE
    OBVIOUS
<1> DEFINE Meets(b) == SegmentsOf(b) \cap SegmentsOf(e) # {}
           Small(k) == \E b \in FreeBlocks : Meets(b) /\ b.order = k
<1>1. \A b \in FreeBlocks : b \in Block /\ b.order \in Orders
    BY BlockLemma DEF FreeBlocks
<1>2. ASSUME NEW b \in FreeBlocks, Meets(b)
      PROVE  b.order < e.order
    <2> SUFFICES ASSUME e.order <= b.order PROVE FALSE
        BY <1>1, BlockLemma DEF Orders
    <2>1. PICK s : s \in SegmentsOf(e) \cap SegmentsOf(b)
        BY <1>2
    <2>2. SegmentsOf(e) \subseteq SegmentsOf(b)
        BY <2>1, <1>1, NestedLemma
    <2> QED BY <2>2
<1>3. ASSUME NEW s \in SegmentsOf(e)
      PROVE  \E b \in FreeBlocks : Meets(b) /\ s \in SegmentsOf(b)
    <2>1. s \in Segments /\ InHand = {}
        BY BlockLemma DEF InHand
    <2>2. PICK b \in FreeBlocks \cup live \cup InHand : s \in SegmentsOf(b)
        BY <2>1 DEF IInv, Covered
    <2>3. b \in FreeBlocks
        BY <2>1, <2>2
    <2> QED BY <2>2, <2>3
<1>4. Small(0) \/ Small(1) \/ Small(2) \/ Small(3)
    <2>1. PICK b \in FreeBlocks : Meets(b)
        BY <1>3, BlockLemma
    <2> QED BY <2>1, <1>1 DEF Orders, MAX_ORDER
<1>5. PICK k \in Orders : Small(k) /\ \A j \in Orders : j < k => ~Small(j)
    <2>1. 0 \in Orders /\ 1 \in Orders /\ 2 \in Orders /\ 3 \in Orders
          /\ \A j \in Orders : j \in {0, 1, 2, 3}
        BY DEF Orders, MAX_ORDER
    <2> HIDE DEF Small
    <2>2. CASE Small(0)
        BY <2>1, <2>2
    <2>3. CASE ~Small(0) /\ Small(1)
        BY <2>1, <2>3
    <2>4. CASE ~Small(0) /\ ~Small(1) /\ Small(2)
        BY <2>1, <2>4
    <2>5. CASE ~Small(0) /\ ~Small(1) /\ ~Small(2) /\ Small(3)
        BY <2>1, <2>5
    <2> QED BY <1>4, <2>2, <2>3, <2>4, <2>5
<1>6. PICK b \in FreeBlocks : Meets(b) /\ b.order = k
    BY <1>5
<1>7. b \in Block /\ b.order < e.order /\ b.order < MAX_ORDER /\ e.order \in Orders
    BY <1>1, <1>2, <1>6, BlockLemma DEF Orders, MAX_ORDER
<1> DEFINE c == [ptr |-> buddyOf(b.ptr, b.order), order |-> b.order]
           m == [ptr |-> IF b.ptr < c.ptr THEN b.ptr ELSE c.ptr,
                 order |-> b.order + 1]
<1>8. /\ c \in Block /\ b # c /\ m \in Block
      /\ SegmentsOf(m) = SegmentsOf(b) \cup SegmentsOf(c)
    <2> HIDE DEF c, m
    <2>1. /\ c = [ptr |-> buddyOf(b.ptr, b.order), order |-> b.order]
          /\ m = [ptr |-> IF b.ptr < c.ptr THEN b.ptr ELSE c.ptr, order |-> b.order + 1]
        BY DEF c, m
    <2> QED BY ONLY <2>1, <1>7, BuddyLemma
<1>9. /\ c.ptr = buddyOf(b.ptr, b.order) /\ c.order = b.order
      /\ m.order = b.order + 1
    OBVIOUS
<1> HIDE DEF c, m
<1>10. SegmentsOf(m) \subseteq SegmentsOf(e)
    <2>1. PICK s : s \in SegmentsOf(m) \cap SegmentsOf(e)
        BY <1>6, <1>8
    <2>2. m.order <= e.order
        BY <1>7, <1>9, <1>1 DEF Orders
    <2> QED BY <2>1, <2>2, <1>8, NestedLemma
<1>11. c.ptr \in SegmentsOf(c) /\ c.ptr \in SegmentsOf(e)
    BY <1>8, <1>10, BlockLemma
<1>12. PICK d \in FreeBlocks : Meets(d) /\ c.ptr \in SegmentsOf(d)
    BY <1>11, <1>3
<1>13. d \in Block /\ d.order \in Orders /\ ~(d.order < b.order)
    <2>1. d.order \in Orders /\ Small(d.order)
        BY <1>1, <1>12
    <2> HIDE DEF Small
    <2> QED BY <2>1, <1>1, <1>5, <1>6
<1>14. CASE d.order = b.order
    <2>1. c = d
        BY <1>8, <1>9, <1>11, <1>12, <1>13, <1>14, NestedLemma DEF Orders
    <2>2. buddyOf(b.ptr, b.order) \in ToSet(freeLists[b.order])
        BY <2>1, <1>9 DEF FreeBlocks
    <2> QED BY <2>2, <1>7 DEF IInv, NoFreeBuddies
<1>15. CASE d.order > b.order
    <2>1. m.order <= d.order
        BY <1>7, <1>9, <1>13, <1>15, <1>1 DEF Orders
    <2>2. SegmentsOf(m) \subseteq SegmentsOf(d)
        BY <2>1, <1>8, <1>11, <1>12, <1>13, NestedLemma
    <2>3. b.ptr \in SegmentsOf(b) \cap SegmentsOf(d) /\ b # d
        BY <2>2, <1>1, <1>8, <1>15, BlockLemma DEF Orders
    <2> QED BY <2>3, <1>12 DEF IInv, Disjoint
<1> QED BY <1>13, <1>14, <1>15, <1>7, <1>1 DEF Orders

\* A pool whose blocks have all been returned is back to its 64-byte chunks,
\* whatever the history of splits and merges.
THEOREM PoolBecomesWholeAgain == Spec => []EmptyPoolIsWhole
<1>1. ASSUME IInv, pc = "idle", live = {}
      PROVE  /\ ToSet(freeLists[MAX_ORDER]) = {8 * i : i \in 0 .. (NumChunks - 1)}
             /\ \A k \in 0 .. (MAX_ORDER - 1) : freeLists[k] = <<>>
    <2>1. ASSUME NEW s \in Segments
          PROVE  \E b \in FreeBlocks : b.order = MAX_ORDER /\ s \in SegmentsOf(b)
                                       /\ b.ptr = 8 * (s \div 8)
        <3> DEFINE e == [ptr |-> 8 * (s \div 8), order |-> MAX_ORDER]
        <3>1. e.ptr \in Segments /\ e.ptr % 8 = 0 /\ s \in e.ptr .. (e.ptr + 8 - 1)
            BY PoolLemma
        <3>2. e \in Block /\ s \in SegmentsOf(e) /\ e.order = MAX_ORDER
            BY <3>1 DEF Block, SegmentsOf, Span, Orders, MAX_ORDER
        <3>3. PICK b \in FreeBlocks : e.order <= b.order
                                      /\ SegmentsOf(e) \subseteq SegmentsOf(b)
            BY <3>2, <1>1, FreeExtentLemma
        <3>4. b \in Block /\ b.order = MAX_ORDER
            BY <3>2, <3>3, BlockLemma DEF FreeBlocks, Orders, MAX_ORDER
        <3>5. b = e
            <4> HIDE DEF e
            <4> QED BY <3>2, <3>3, <3>4, NestedLemma DEF MAX_ORDER
        <3> QED BY <3>2, <3>4, <3>5
    <2>2. ASSUME NEW i \in 0 .. (NumChunks - 1)
          PROVE  8 * i \in ToSet(freeLists[MAX_ORDER])
        <3>1. 8 * i \in Segments /\ 8 * ((8 * i) \div 8) = 8 * i
            BY PoolLemma
        <3> QED BY <3>1, <2>1 DEF FreeBlocks
    <2>3. ASSUME NEW p \in ToSet(freeLists[MAX_ORDER])
          PROVE  p \in {8 * i : i \in 0 .. (NumChunks - 1)}
        <3>1. MAX_ORDER \in Orders
            BY DEF Orders, MAX_ORDER
        <3>2. freeLists[MAX_ORDER] \in Seq(Segments) /\ p % 8 = 0
            BY <3>1, <1>1 DEF IInv, TypeOK, Span, MAX_ORDER
        <3>3. p \in Segments
            BY <3>2, LenProperties DEF ToSet
        <3>4. p \div 8 \in 0 .. (NumChunks - 1) /\ p = 8 * (p \div 8)
            BY <3>2, <3>3, PoolLemma
        <3> QED BY <3>4
    <2>4. ASSUME NEW k \in 0 .. (MAX_ORDER - 1), freeLists[k] # <<>>
          PROVE  FALSE
        <3>1. k \in Orders /\ k # MAX_ORDER
            BY DEF Orders, MAX_ORDER
        <3>2. freeLists[k] \in Seq(Segments) /\ IsInjective(freeLists[k])
            BY <3>1, <1>1 DEF IInv, TypeOK, NoDuplicates
        <3>3. Head(freeLists[k]) \in ToSet(freeLists[k]) /\ Head(freeLists[k]) \in Segments
            BY <3>2, <2>4, TailLemma
        <3> DEFINE b == [ptr |-> Head(freeLists[k]), order |-> k]
        <3>4. b \in Block /\ b \in FreeBlocks /\ b.order = k
            BY <3>1, <3>3, <1>1 DEF IInv, TypeOK, Block, FreeBlocks
        <3> HIDE DEF b
        <3>5. PICK c \in FreeBlocks : c.order = MAX_ORDER /\ b.ptr \in SegmentsOf(c)
            BY <3>4, <2>1, BlockLemma
        <3>6. b # c /\ b.ptr \in SegmentsOf(b)
            BY <3>1, <3>4, <3>5, BlockLemma
        <3> QED BY <3>4, <3>5, <3>6, <1>1 DEF IInv, Disjoint
    <2> QED BY <2>2, <2>3, <2>4
<1>2. IInv => EmptyPoolIsWhole
    BY <1>1 DEF EmptyPoolIsWhole
<1> QED BY <1>2, Invariance, PTL

-----------------------------------------------------------------------------
(* Contents *)

LEMMA ReadBackStep == IInv /\ ReadBack /\ [Next]_vars => ReadBack'
<1> SUFFICES ASSUME IInv, ReadBack, [Next]_vars,
                    NEW c \in DOMAIN stored', NEW s \in SegmentsOf(c)
             PROVE  pool'[s] = stored'[c]
    BY DEF ReadBack
<1>1. CASE UNCHANGED <<pool, stored>>
    BY <1>1 DEF ReadBack
<1>2. ASSUME NEW b \in live, Deallocate(b) PROVE pool'[s] = stored'[c]
    <2>1. c \in DOMAIN stored /\ stored'[c] = stored[c] /\ pool' = pool
        BY <1>2 DEF Deallocate
    <2> QED BY <2>1 DEF ReadBack
<1>3. ASSUME NEW b \in live, NEW v \in Value, write(b, v) PROVE pool'[s] = stored'[c]
    <2>1. /\ pool' = [t \in Segments |-> IF t \in SegmentsOf(b) THEN v ELSE pool[t]]
          /\ stored' = [d \in DOMAIN stored \cup {b} |-> IF d = b THEN v ELSE stored[d]]
        BY <1>3 DEF write
    <2>2. c \in live /\ c \in Block /\ s \in Segments
        BY <2>1, BlockLemma DEF IInv, TypeOK
    <2>3. CASE c = b
        BY <2>1, <2>2, <2>3
    <2>4. CASE c # b
        <3>1. s \notin SegmentsOf(b) /\ c \in DOMAIN stored
            BY <2>1, <2>2, <2>4 DEF IInv, Disjoint
        <3> QED BY <3>1, <2>1, <2>2, <2>4 DEF ReadBack
    <2> QED BY <2>3, <2>4
<1> QED BY <1>1, <1>2, <1>3 DEF Next, Step, vars, data, Allocate, AllocateFails,
        splitOrder, AllocateReturns, Coalesce, DeallocateReturns

\* What a caller wrote to a block stays there until it frees the block.
THEOREM ContentsSurvive == Spec => []ReadBack
<1>1. Init => ReadBack
    BY DEF Init, ReadBack
<1> QED BY <1>1, ReadBackStep, Invariance, PTL DEF Spec

-----------------------------------------------------------------------------
(* Every call returns *)

\* The iterations that are left of the call in progress, its return included.
CallWork == CASE pc = "split"    -> avail - order + 1
              [] pc = "coalesce" -> MAX_ORDER - order + 1
              [] OTHER           -> 0

LEMMA CallWorkType ==
    ASSUME IInv
    PROVE  CallWork \in 0 .. MAX_ORDER + 1 /\ (CallWork = 0 <=> pc = "idle")
BY DEF IInv, TypeOK, SplitAsserts, Orders, MAX_ORDER, CallWork

LEMMA CallWorkTypeNext == IInv' => (CallWork \in 0 .. MAX_ORDER + 1)'
<1>1. IInv => CallWork \in 0 .. MAX_ORDER + 1
    BY CallWorkType
<1> QED
    BY <1>1, PTL

LEMMA StepShortensTheCall ==
    ASSUME IInv, Step
    PROVE  CallWork' < CallWork
<1>1. /\ order \in 0 .. 3 /\ avail \in 0 .. 3
      /\ pc \in {"idle", "split", "coalesce"}
    BY DEF IInv, TypeOK, Orders, MAX_ORDER
<1>2. CASE splitOrder
    BY <1>1, <1>2 DEF splitOrder, CallWork
<1>3. CASE AllocateReturns
    BY <1>1, <1>3 DEF AllocateReturns, Return, CallWork
<1>4. CASE Coalesce
    BY <1>1, <1>4 DEF Coalesce, CallWork, MAX_ORDER
<1>5. CASE DeallocateReturns
    BY <1>1, <1>5 DEF DeallocateReturns, Return, CallWork, MAX_ORDER
<1> QED
    BY <1>2, <1>3, <1>4, <1>5 DEF Step

\* allocate() and deallocate() never run on: whatever the free lists are like, each
\* iteration brings the return nearer, and no call has more than four of them.
THEOREM CallsReturn ==
    Spec => /\ [](CallWork \in 0 .. MAX_ORDER + 1 /\ (CallWork = 0 <=> pc = "idle"))
            /\ [][pc # "idle" => CallWork' < CallWork]_vars
<1>1. IInv => CallWork \in 0 .. MAX_ORDER + 1 /\ (CallWork = 0 <=> pc = "idle")
    BY CallWorkType
<1>2. IInv /\ [Next]_vars => [pc # "idle" => CallWork' < CallWork]_vars
    <2> SUFFICES ASSUME IInv, Next, pc # "idle" PROVE CallWork' < CallWork
        OBVIOUS
    <2>1. Step
        BY DEF Next, Allocate, AllocateFails, Deallocate, write
    <2> QED
        BY <2>1, StepShortensTheCall
<1> QED
    BY <1>1, <1>2, Invariance, PTL DEF Spec

-----------------------------------------------------------------------------
(* The store implements SegmentPool *)

\* The order being allocated is one that was asked for.
RequestedOrder ==
    pc = "split" => /\ order \in {sizeToOrder[s] : s \in Sizes}
                    /\ asked = order /\ reply = NoReply

LEMMA RequestedOrderStep == RequestedOrder /\ [Next]_vars => RequestedOrder'
BY DEF RequestedOrder, Next, Step, vars, Allocate, AllocateFails, Deallocate, write,
       splitOrder, AllocateReturns, Coalesce, DeallocateReturns, Return, locals

\* allocate() answers ALLOC_FAIL only when no extent of the size is free.
LEMMA FailureIsJustified ==
    ASSUME IInv, NEW size \in Sizes, AllocateFails(size)
    PROVE  Abstract!FreeExtents(sizeToOrder[size]) = {}
<1> DEFINE k == sizeToOrder[size]
<1>1. k \in Orders
    BY SizesAssumption DEF sizeToOrder, Orders, MAX_ORDER
<1>2. pc = "idle" /\ \A j \in k .. MAX_ORDER : freeLists[j] = <<>>
    BY DEF AllocateFails
<1> HIDE DEF k
<1> SUFFICES ASSUME NEW p \in Abstract!FreeExtents(k)
             PROVE  FALSE
    BY DEF k
<1>3. /\ p \in Segments /\ p % Span(k) = 0
      /\ \A b \in live : (p .. (p + Span(k) - 1))
                            \cap (b.ptr .. (b.ptr + Span(b.order) - 1)) = {}
    BY PoolLemma DEF Abstract!FreeExtents, Abstract!Extent, Abstract!Occupied
<1> DEFINE e == [ptr |-> p, order |-> k]
<1>4. e \in Block /\ e.ptr = p /\ e.order = k
    BY <1>1, <1>3 DEF Block
<1>5. \A b \in live : SegmentsOf(b) \cap SegmentsOf(e) = {}
    BY <1>3, <1>4 DEF SegmentsOf
<1> HIDE DEF e
<1>6. PICK b \in FreeBlocks : e.order <= b.order
    BY <1>2, <1>4, <1>5, FreeExtentLemma
<1>7. b.order \in k .. MAX_ORDER /\ b.ptr \in ToSet(freeLists[b.order])
    BY <1>1, <1>4, <1>6, BlockLemma DEF FreeBlocks, Orders, MAX_ORDER
<1> QED BY <1>2, <1>7 DEF ToSet

LEMMA AllocationIsJustified ==
    ASSUME IInv, RequestedOrder, AllocateReturns
    PROVE  Abstract!Allocate
<1> DEFINE p == Head(freeLists[order])
           b == [ptr |-> p, order |-> order]
<1>1. /\ pc = "split" /\ avail = order /\ reply' = p /\ live' = live \cup {b}
    BY DEF AllocateReturns
<1>2. /\ order \in Orders /\ freeLists[order] \in Seq(Segments)
      /\ freeLists[order] # <<>> /\ IsInjective(freeLists[order])
    BY <1>1 DEF IInv, TypeOK, SplitAsserts, NoDuplicates
<1>3. p \in ToSet(freeLists[order]) /\ p \in Segments /\ p % Span(order) = 0
    BY <1>2, TailLemma DEF IInv, TypeOK
<1>4. b \in FreeBlocks /\ b.ptr = p /\ b.order = order
    BY <1>2, <1>3 DEF Block, FreeBlocks
<1> HIDE DEF p, b
<1>5. \A c \in live : SegmentsOf(b) \cap SegmentsOf(c) = {}
    BY <1>4 DEF IInv, Disjoint, Separate
<1>6. p \in Abstract!FreeExtents(order)
    BY <1>3, <1>4, <1>5, PoolLemma
       DEF SegmentsOf, Abstract!FreeExtents, Abstract!Extent, Abstract!Occupied
<1>7. asked = order /\ asked # NoReply /\ reply = NoReply /\ asked' = asked
    BY <1>1, <1>2 DEF RequestedOrder, AllocateReturns, NoReply, Orders, MAX_ORDER
<1> QED BY <1>1, <1>4, <1>6, <1>7 DEF Abstract!Allocate, b

\* Every behaviour of the buddy allocator is one of SegmentPool: extents it
\* hands out are aligned and free, and it fails only for want of one.
THEOREM StoreImplementsSegmentPool == Spec => ImplementsSegmentPool
<1>1. Init => Abstract!Init
    BY DEF Init, Abstract!Init
<1>2. ASSUME IInv, RequestedOrder, [Next]_vars
      PROVE  [Abstract!Next]_<<live, asked, reply>>
    <2>1. ASSUME NEW size \in Sizes, Allocate(size) PROVE Abstract!Next
        BY <2>1 DEF Allocate, Abstract!Next, Abstract!Request
    <2>2. ASSUME NEW size \in Sizes, AllocateFails(size) PROVE Abstract!Next
        BY <2>2, <1>2, FailureIsJustified
           DEF AllocateFails, Abstract!Next, Abstract!Fail
    <2>3. ASSUME NEW b \in live, Deallocate(b) PROVE Abstract!Next
        BY <2>3 DEF Deallocate, Abstract!Next, Abstract!Free
    <2>4. CASE AllocateReturns
        BY <2>4, <1>2, AllocationIsJustified DEF Abstract!Next
    <2>5. CASE UNCHANGED <<live, asked, reply>>
        BY <2>5
    <2> QED BY <1>2, <2>1, <2>2, <2>3, <2>4, <2>5 DEF Next, Step, vars, write,
            splitOrder, Coalesce, DeallocateReturns
<1>3. Init => RequestedOrder
    BY DEF Init, RequestedOrder
<1> QED BY <1>1, <1>2, <1>3, RequestedOrderStep, Invariance, PTL
        DEF Spec, ImplementsSegmentPool, Abstract!Spec
=============================================================================
