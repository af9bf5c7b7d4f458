------------------------------ MODULE ZCacheRP ------------------------------
(***************************************************************************)
(* The zcache's replacement policy (zcache/zcache_rp.{hh,cc}): an LRU over *)
(* the whole cache with coarse timestamps.  The clock ticks once per       *)
(* bucket of accesses, and the size of a bucket is computed at the first   *)
(* access, when all entries have been instantiated.                        *)
(***************************************************************************)
EXTENDS Integers, Sequences, FiniteSets, SequencesExt

CONSTANTS
    Entry,          \* the tag entries; tagsInit() instantiates one per block
    NoEntry,
    Numerator,      \* p.bucket_size_fraction is Numerator / Denominator
    Denominator,
    MaxCandidates,  \* bound: the longest list getVictim() is asked about
    MaxAccesses     \* bound: the counters of the code are 64 bits wide

\* What the policy takes for granted; ZCacheLRU gives it its entries.
PolicyConstants ==
    /\ IsFiniteSet(Entry) /\ Entry # {} /\ NoEntry \notin Entry
    /\ Numerator \in Nat /\ Denominator \in Nat \ {0}
    /\ MaxCandidates \in Nat \ {0} /\ MaxAccesses \in Nat

VARIABLES
    lastTouchTimestamp,
    globalTimestamp,
    accessCount,
    bucketSize,     \* 0 until the first access
    last,           \* history: the access that touched each entry last, or 0
    asked,          \* history: the candidates of the last getVictim(), or none
    victim          \* and what it returned, or NoEntry

vars == <<lastTouchTimestamp, globalTimestamp, accessCount, bucketSize, last,
          asked, victim>>

entryCount == Cardinality(Entry)

\* The conversion to an integer truncates.
computedBucket ==
    LET n == (Numerator * entryCount) \div Denominator IN IF n > 1 THEN n ELSE 1

Init ==
    /\ lastTouchTimestamp = [e \in Entry |-> 0]
    /\ globalTimestamp = 0 /\ accessCount = 0 /\ bucketSize = 0
    /\ last = [e \in Entry |-> 0]
    /\ asked = {} /\ victim = NoEntry

touch_SizesTheBucketLast(e) ==              \* mutant: bucketSize set on return
    /\ accessCount < MaxAccesses
    /\ bucketSize' = computedBucket
    /\ accessCount' = accessCount + 1
    /\ globalTimestamp' = IF bucketSize = 0 \/ accessCount' % bucketSize = 0
                          THEN globalTimestamp + 1 ELSE globalTimestamp
    /\ lastTouchTimestamp' = [lastTouchTimestamp EXCEPT ![e] = globalTimestamp']
    /\ last' = [last EXCEPT ![e] = accessCount']
    /\ asked' = {} /\ victim' = NoEntry

\* touch(), which reset() calls too: for a hit, a fill and a relocation.
touch(e) ==
    /\ accessCount < MaxAccesses
    /\ bucketSize' = IF bucketSize = 0 THEN computedBucket ELSE bucketSize
    /\ accessCount' = accessCount + 1
    /\ globalTimestamp' = IF accessCount' % bucketSize' = 0
                          THEN globalTimestamp + 1 ELSE globalTimestamp
    /\ lastTouchTimestamp' = [lastTouchTimestamp EXCEPT ![e] = globalTimestamp']
    /\ last' = [last EXCEPT ![e] = accessCount']
    /\ asked' = {} /\ victim' = NoEntry

invalidate(e) ==
    /\ lastTouchTimestamp' = [lastTouchTimestamp EXCEPT ![e] = 0]
    /\ last' = [last EXCEPT ![e] = 0]
    /\ asked' = {} /\ victim' = NoEntry
    /\ UNCHANGED <<globalTimestamp, accessCount, bucketSize>>

getVictim_FirstYounger(candidates) ==       \* mutant: compares neighbours only
    /\ \E n \in DOMAIN candidates :
          /\ n < Len(candidates) => lastTouchTimestamp[candidates[n]]
                                       <= lastTouchTimestamp[candidates[n + 1]]
          /\ victim' = candidates[n]
    /\ asked' = ToSet(candidates)
    /\ UNCHANGED <<lastTouchTimestamp, globalTimestamp, accessCount, bucketSize, last>>

\* The first of the candidates with the smallest timestamp.  A walk may list
\* an entry more than once.
getVictim(candidates) ==
    /\ \E n \in DOMAIN candidates :
          /\ \A m \in DOMAIN candidates :
                /\ lastTouchTimestamp[candidates[n]] <= lastTouchTimestamp[candidates[m]]
                /\ m < n => lastTouchTimestamp[candidates[n]]
                               < lastTouchTimestamp[candidates[m]]
          /\ victim' = candidates[n]
    /\ asked' = ToSet(candidates)
    /\ UNCHANGED <<lastTouchTimestamp, globalTimestamp, accessCount, bucketSize, last>>

CandidateLists == UNION {[1 .. n -> Entry] : n \in 1 .. MaxCandidates}

Next ==
    \/ \E e \in Entry : touch(e) \/ invalidate(e)
    \/ \E candidates \in CandidateLists : getVictim(candidates)

Spec == Init /\ [][Next]_vars
-----------------------------------------------------------------------------
\* The counters and timestamps keep their types, no timestamp is ahead of the
\* clock, and the bucket size is known and positive from the first access on.
TypeOK ==
    /\ globalTimestamp \in Nat /\ accessCount \in Nat
    /\ globalTimestamp <= accessCount
    /\ lastTouchTimestamp \in [Entry -> 0 .. globalTimestamp]
    /\ bucketSize \in Nat /\ (bucketSize = 0 <=> accessCount = 0)
    /\ last \in [Entry -> 0 .. accessCount]
    /\ asked \subseteq Entry /\ victim \in asked \cup {NoEntry}

\* A timestamp is the number of the bucket of the entry's last access, for
\* every entry and at any time, so timestamps taken in different sets compare.
\* (The first bucket is one access short: it shares timestamp 0 with the
\* entries that were never used.)
TimestampIsBucket ==
    accessCount > 0 =>
        /\ globalTimestamp = accessCount \div bucketSize
        /\ \A e \in Entry : lastTouchTimestamp[e] = last[e] \div bucketSize

\* The policy is LRU up to a bucket (see BucketedLRU).
Promise == INSTANCE BucketedLRU
               WITH K <- computedBucket, now <- accessCount,
                    Requests <- SUBSET Entry
ImplementsBucketedLRU == Promise!Spec

\* "The global timestamp advances every max(1, round(fraction * numEntries))
\* accesses" (zcache/ReplacementPolicies.py:186-187): rounded to the nearest.
Rounded == (2 * Numerator * entryCount + Denominator) \div (2 * Denominator)
BucketIsRounded ==
    bucketSize > 0 => bucketSize = IF Rounded > 1 THEN Rounded ELSE 1
=============================================================================
