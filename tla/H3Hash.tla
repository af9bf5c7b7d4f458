------------------------------- MODULE H3Hash -------------------------------
(***************************************************************************)
(* The hash functions of the indexing policy (zcache/zcache_index.cc): the *)
(* constructor draws a random mask per way and bit of the set index, and   *)
(* an index bit is the parity of the line's number under its mask.         *)
(*                                                                         *)
(* A 64-bit integer is a sequence of eight bytes, the lowest one first,    *)
(* and a mask or a line number is the set of its bits that are 1.          *)
(***************************************************************************)
EXTENDS Integers, Sequences, FiniteSets, FiniteSetsExt

CONSTANTS
    Caches,         \* the policies constructed: [h3Seed, assoc, logNumSets]
    LineBits,       \* the bits in the number of a line: the address without its offset
    FewBits         \* of these, those of the lines that are listed one by one

VARIABLES
    cache,          \* the policy being constructed
    rng,            \* the state of the generator
    way, b,         \* the mask to be drawn next
    h3Matrix        \* the masks drawn: h3Matrix[way][b]

vars == <<cache, rng, way, b, h3Matrix>>

Multiplier == <<45, 127, 149, 76, 45, 244, 81, 88>>     \* 6364136223846793005
Increment  == <<79, 129, 103, 247, 126, 123, 5, 20>>    \* 1442695040888963407
Bytes == 1 .. 8

ToBytes(n) == [k \in Bytes |-> IF k <= 4 THEN (n \div (256 ^ (k - 1))) % 256 ELSE 0]
ToBits(x)  == {n \in 0 .. 63 : (x[n \div 8 + 1] \div (2 ^ (n % 8))) % 2 = 1}

lcgNext(state) ==
    LET Column(k) == Increment[k] +
            MapThenSumSet(LAMBDA m : state[m] * Multiplier[k + 1 - m], 1 .. k)
        carry[k \in 0 .. 8] == IF k = 0 THEN 0 ELSE (Column(k) + carry[k - 1]) \div 256
    IN [k \in Bytes |-> (Column(k) + carry[k - 1]) % 256]

\* h3Seed | 1
Seeded(h3Seed) == ToBytes(h3Seed + 1 - (h3Seed % 2))

Init ==
    /\ cache \in Caches
    /\ rng = Seeded(cache.h3Seed)
    /\ way = 0 /\ b = 0
    /\ h3Matrix = [w \in 0 .. cache.assoc - 1 |-> [n \in 0 .. cache.logNumSets - 1 |-> {}]]

Constructed == way = cache.assoc

DrawMask_SeedsEachWay ==                    \* mutant: rng declared inside the loop
    /\ ~Constructed
    /\ LET from == IF b = 0 THEN Seeded(cache.h3Seed) ELSE rng
       IN /\ rng' = lcgNext(from)
          /\ h3Matrix' = [h3Matrix EXCEPT ![way][b] = ToBits(rng')]
    /\ IF b + 1 < cache.logNumSets THEN b' = b + 1 /\ way' = way
                                   ELSE b' = 0 /\ way' = way + 1
    /\ UNCHANGED cache
DrawMask ==
    /\ ~Constructed
    /\ rng' = lcgNext(rng)
    /\ h3Matrix' = [h3Matrix EXCEPT ![way][b] = ToBits(rng')]
    /\ IF b + 1 < cache.logNumSets THEN b' = b + 1 /\ way' = way
                                   ELSE b' = 0 /\ way' = way + 1
    /\ UNCHANGED cache

Next == DrawMask
Spec == Init /\ [][Next]_vars

h3Hash(line, w) ==
    {n \in 0 .. cache.logNumSets - 1 : Cardinality(h3Matrix[w][n] \cap line) % 2 = 1}
-----------------------------------------------------------------------------
\* The rank of a set of masks over the two-element field, by elimination.
Xor(x, y) == (x \ y) \cup (y \ x)
Eliminate(n, s) ==
    LET with == {x \in s.rows : n \in x}
    IN IF with = {} THEN s
       ELSE LET pivot == CHOOSE x \in with : TRUE
            IN [rank |-> s.rank + 1,
                rows |-> {IF n \in x THEN Xor(x, pivot) ELSE x : x \in s.rows \ {pivot}}]
Rank(masks) == FoldSet(Eliminate, [rank |-> 0, rows |-> masks], LineBits).rank

MasksOf(w) == {h3Matrix[w][n] \cap LineBits : n \in 0 .. cache.logNumSets - 1}
Pairs == {p \in (0 .. cache.assoc - 1) \X (0 .. cache.assoc - 1) : p[1] < p[2]}

\* The masks of two ways are linearly independent: no one of them is a
\* combination of others.
Independent(p) == Rank(MasksOf(p[1]) \cup MasksOf(p[2])) = 2 * cache.logNumSets

\* The same counted out, where the lines can be listed: each pair of sets of two
\* ways is that of equally many lines.
EvenlyHit(p) ==
    LET lines == SUBSET FewBits
        free  == Cardinality(FewBits) - 2 * cache.logNumSets
        pairs == {<<h3Hash(line, p[1]), h3Hash(line, p[2])>> : line \in lines}
    IN free >= 4 =>
          /\ Cardinality(pairs) = 2 ^ (2 * cache.logNumSets)
          /\ \A sets \in pairs :
                Cardinality({line \in lines : h3Hash(line, p[1]) = sets[1]
                                              /\ h3Hash(line, p[2]) = sets[2]}) = 2 ^ free

\* "This gives W statistically independent set indices for the same address"
\* (zcache/zcache_index.cc:6): with the seeds and sizes of the scripts, the set
\* of a line in one way says nothing of its set in any other way, and every set
\* is used.
WaysAreIndependent == Constructed => \A p \in Pairs : Independent(p) /\ EvenlyHit(p)
=============================================================================
