--------------------------- MODULE ZCacheRPProofs ---------------------------
(***************************************************************************)
(* Theorems about the replacement policy, for any number of entries and    *)
(* any bucket size.  What they need of arithmetic is how the quotient by   *)
(* the bucket size changes when one more access is counted.                *)
(***************************************************************************)
EXTENDS ZCacheRP, FiniteSetTheorems, TLAPS

\* A multiple of the divisor is divided exactly.
LEMMA ExactQuotient ==
    ASSUME NEW x \in Nat, NEW K \in Nat \ {0}
    PROVE  (K * x) \div K = x /\ (K * x) % K = 0
    BY Z3

\* The clock ticks exactly when the quotient steps.
LEMMA NextQuotient ==
    ASSUME NEW a \in Nat, NEW K \in Nat \ {0}
    PROVE  /\ (a + 1) % K = 0 => (a + 1) \div K = a \div K + 1
           /\ (a + 1) % K # 0 => (a + 1) \div K = a \div K
<1> DEFINE q == a \div K
           r == a % K
<1>1. q \in Nat /\ r \in Nat /\ r < K /\ a = K * q + r
    BY Z3
<1>2. CASE r + 1 < K
    <2>1. a + 1 = K * q + (r + 1)
        BY <1>1
    <2>2. (a + 1) \div K = q /\ (a + 1) % K = r + 1
        BY <1>1, <1>2, <2>1, Z3
    <2> QED
        BY <2>2, <1>1
<1>3. CASE r + 1 = K
    <2>1. a + 1 = K * (q + 1)
        BY <1>1, <1>3
    <2>2. q + 1 \in Nat
        BY <1>1
    <2>3. (a + 1) \div K = q + 1 /\ (a + 1) % K = 0
        <3> HIDE DEF q
        <3> QED
            BY ONLY ExactQuotient, <2>1, <2>2, K \in Nat \ {0}
    <2> QED
        BY <2>3
<1> QED
    BY <1>1, <1>2, <1>3

\* A smaller quotient belongs to a number smaller by less than one bucket.
LEMMA QuotientOrder ==
    ASSUME NEW a \in Nat, NEW b \in Nat, NEW K \in Nat \ {0}, a \div K <= b \div K
    PROVE  a < b + K
    BY Z3

LEMMA QuotientType ==
    ASSUME NEW a \in Nat, NEW K \in Nat \ {0}
    PROVE  a \div K \in Int
    BY Z3

\* A bucket has at least one access.
LEMMA BucketPositive ==
    ASSUME PolicyConstants
    PROVE  computedBucket \in Nat \ {0}
<1>1. entryCount \in Nat
    BY FS_CardinalityType DEF PolicyConstants, entryCount
<1>2. Numerator * entryCount \in Nat
    BY <1>1, Z3 DEF PolicyConstants
<1> DEFINE p == Numerator * entryCount
<1>3. p \div Denominator \in Int
    <2>1. p \in Nat /\ Denominator \in Nat \ {0}
        BY <1>2 DEF PolicyConstants
    <2> HIDE DEF p
    <2> QED
        BY <2>1, QuotientType
<1> QED
    BY <1>3 DEF computedBucket
-----------------------------------------------------------------------------
\* The bucket size, once set, is the computed one.
BucketFixed == accessCount > 0 => bucketSize = computedBucket

IInv == TypeOK /\ BucketFixed /\ TimestampIsBucket

LEMMA InitHolds == Init => IInv
<1> SUFFICES ASSUME Init PROVE IInv
    OBVIOUS
<1>1. TypeOK
    BY DEF Init, TypeOK
<1> QED
    BY <1>1 DEF Init, IInv, BucketFixed, TimestampIsBucket

LEMMA TouchPreserves ==
    ASSUME PolicyConstants, IInv, NEW e \in Entry, touch(e)
    PROVE  IInv'
<1> USE DEF touch
<1>1. bucketSize' = computedBucket /\ bucketSize' \in Nat \ {0}
    BY BucketPositive DEF IInv, TypeOK, BucketFixed
<1>2. accessCount \in Nat /\ accessCount' = accessCount + 1 /\ globalTimestamp \in Nat
    BY DEF IInv, TypeOK
<1>3. globalTimestamp' \in {globalTimestamp, globalTimestamp + 1}
    OBVIOUS
<1>4. TypeOK'
    <2>1. globalTimestamp' \in Nat /\ accessCount' \in Nat /\ globalTimestamp' <= accessCount'
        BY <1>2, <1>3 DEF IInv, TypeOK
    <2>2. lastTouchTimestamp' \in [Entry -> 0 .. globalTimestamp']
        BY <1>2, <1>3, <2>1 DEF IInv, TypeOK
    <2>3. last' \in [Entry -> 0 .. accessCount']
        BY <1>2 DEF IInv, TypeOK
    <2>4. bucketSize' \in Nat /\ (bucketSize' = 0 <=> accessCount' = 0)
        BY <1>1, <1>2
    <2>5. asked' \subseteq Entry /\ victim' \in asked' \cup {NoEntry}
        OBVIOUS
    <2> HIDE DEF touch
    <2> QED
        BY <2>1, <2>2, <2>3, <2>4, <2>5 DEF TypeOK
<1>5. globalTimestamp' = accessCount' \div bucketSize'
    <2>1. globalTimestamp = accessCount \div bucketSize'
        <3>1. CASE accessCount = 0
            <4>1. globalTimestamp = 0
                BY <3>1, <1>2 DEF IInv, TypeOK
            <4>2. (bucketSize' * 0) \div bucketSize' = 0
                BY <1>1, ExactQuotient, 0 \in Nat
            <4>3. bucketSize' * 0 = 0
                BY <1>1
            <4> QED
                BY <4>1, <4>2, <4>3, <3>1
        <3>2. CASE accessCount # 0
            BY <3>2, <1>1, <1>2 DEF IInv, TypeOK, BucketFixed, TimestampIsBucket
        <3> QED
            BY <3>1, <3>2
    <2>2. /\ accessCount' % bucketSize' = 0 =>
                accessCount' \div bucketSize' = accessCount \div bucketSize' + 1
          /\ accessCount' % bucketSize' # 0 =>
                accessCount' \div bucketSize' = accessCount \div bucketSize'
        BY <1>1, <1>2, NextQuotient
    <2>3. globalTimestamp' = IF accessCount' % bucketSize' = 0
                             THEN globalTimestamp + 1 ELSE globalTimestamp
        OBVIOUS
    <2> QED
        BY <2>1, <2>2, <2>3
<1>6. ASSUME NEW f \in Entry
      PROVE  lastTouchTimestamp'[f] = last'[f] \div bucketSize'
    <2>1. CASE f = e
        <3>1. lastTouchTimestamp'[f] = globalTimestamp' /\ last'[f] = accessCount'
            BY <2>1 DEF IInv, TypeOK
        <3> QED
            BY <3>1, <1>5
    <2>2. CASE f # e
        <3>1. lastTouchTimestamp'[f] = lastTouchTimestamp[f] /\ last'[f] = last[f]
            BY <2>2 DEF IInv, TypeOK
        <3>2. CASE accessCount = 0
            <4>1. lastTouchTimestamp[f] = 0 /\ last[f] = 0
                BY <3>2, <1>2 DEF IInv, TypeOK
            <4>2. (bucketSize' * 0) \div bucketSize' = 0 /\ bucketSize' * 0 = 0
                BY <1>1, ExactQuotient, 0 \in Nat
            <4> QED
                BY <4>1, <4>2, <3>1
        <3>3. CASE accessCount # 0
            <4>1. bucketSize' = bucketSize
                BY <3>3, <1>1, <1>2 DEF IInv, BucketFixed
            <4>2. lastTouchTimestamp[f] = last[f] \div bucketSize
                BY <3>3, <1>2 DEF IInv, TimestampIsBucket
            <4> QED
                BY <3>1, <4>1, <4>2
        <3> QED
            BY <3>2, <3>3
    <2> QED
        BY <2>1, <2>2
<1> QED
    BY <1>1, <1>4, <1>5, <1>6 DEF IInv, BucketFixed, TimestampIsBucket

LEMMA InvalidatePreserves == ASSUME IInv, NEW e \in Entry, invalidate(e) PROVE IInv'
<1> USE DEF invalidate
<1>1. TypeOK'
    BY DEF IInv, TypeOK
<1>2. BucketFixed'
    BY DEF IInv, BucketFixed, computedBucket, entryCount
<1>3. TimestampIsBucket'
    <2> SUFFICES ASSUME accessCount > 0, NEW f \in Entry
                 PROVE  /\ globalTimestamp' = accessCount' \div bucketSize'
                        /\ lastTouchTimestamp'[f] = last'[f] \div bucketSize'
        BY DEF TimestampIsBucket
    <2>1. bucketSize \in Nat \ {0}
        BY DEF IInv, TypeOK
    <2>2. (bucketSize * 0) \div bucketSize = 0 /\ bucketSize * 0 = 0
        BY <2>1, ExactQuotient, 0 \in Nat
    <2>3. CASE f = e
        <3>1. lastTouchTimestamp'[f] = 0 /\ last'[f] = 0
            BY <2>3 DEF IInv, TypeOK
        <3> QED
            BY <3>1, <2>2 DEF IInv, TimestampIsBucket
    <2>4. CASE f # e
        <3>1. lastTouchTimestamp'[f] = lastTouchTimestamp[f] /\ last'[f] = last[f]
            BY <2>4 DEF IInv, TypeOK
        <3> QED
            BY <3>1 DEF IInv, TimestampIsBucket
    <2> QED
        BY <2>3, <2>4
<1> QED
    BY <1>1, <1>2, <1>3 DEF IInv

LEMMA CandidatesAreEntries ==
    ASSUME NEW candidates \in CandidateLists
    PROVE  \A n \in DOMAIN candidates : candidates[n] \in Entry
    BY DEF CandidateLists

LEMMA GetVictimPreserves ==
    ASSUME IInv, NEW candidates \in CandidateLists, getVictim(candidates) PROVE IInv'
<1>1. asked' \subseteq Entry /\ victim' \in asked'
    BY CandidatesAreEntries DEF getVictim, ToSet
<1>2. UNCHANGED <<lastTouchTimestamp, globalTimestamp, accessCount, bucketSize, last>>
    BY DEF getVictim
<1> QED
    BY <1>1, <1>2 DEF IInv, TypeOK, BucketFixed, TimestampIsBucket

LEMMA NextPreserves == ASSUME PolicyConstants, IInv, [Next]_vars PROVE IInv'
<1>1. CASE \E e \in Entry : touch(e)
    BY <1>1, TouchPreserves
<1>2. CASE \E e \in Entry : invalidate(e)
    BY <1>2, InvalidatePreserves
<1>3. CASE \E candidates \in CandidateLists : getVictim(candidates)
    BY <1>3, GetVictimPreserves
<1>4. CASE UNCHANGED vars
    BY <1>4 DEF vars, IInv, TypeOK, BucketFixed, TimestampIsBucket
<1> QED
    BY <1>1, <1>2, <1>3, <1>4 DEF Next

LEMMA InductiveInvariant == ASSUME PolicyConstants PROVE Spec => []IInv
<1>1. Init => IInv
    BY InitHolds
<1>2. IInv /\ [Next]_vars => IInv'
    BY NextPreserves
<1> QED
    BY <1>1, <1>2, PTL DEF Spec
-----------------------------------------------------------------------------
\* The counters of the policy keep their types and no block is ahead of the
\* clock of touch().
THEOREM TypeCorrect == ASSUME PolicyConstants PROVE Spec => []TypeOK
<1>1. IInv => TypeOK
    BY DEF IInv
<1> QED
    BY <1>1, InductiveInvariant, PTL

\* The timestamp that touch() stores is the number of the bucket of the access,
\* for ever after.
THEOREM TimestampsAreBuckets == ASSUME PolicyConstants PROVE Spec => []TimestampIsBucket
<1>1. IInv => TimestampIsBucket
    BY DEF IInv
<1> QED
    BY <1>1, InductiveInvariant, PTL

\* The first entry with the smallest timestamp was used at most one bucket of
\* accesses after any other candidate.
LEMMA VictimIsOld ==
    ASSUME PolicyConstants, IInv, NEW candidates \in CandidateLists, getVictim(candidates)
    PROVE  Promise!Choose(ToSet(candidates))
<1>1. PICK n \in DOMAIN candidates :
          /\ \A m \in DOMAIN candidates :
                lastTouchTimestamp[candidates[n]] <= lastTouchTimestamp[candidates[m]]
          /\ victim' = candidates[n]
    BY DEF getVictim
<1>2. victim' \in ToSet(candidates)
    BY <1>1 DEF ToSet
<1>3. ASSUME NEW e \in ToSet(candidates)
      PROVE  last[victim'] < last[e] + computedBucket
    <2>1. PICK m \in DOMAIN candidates : e = candidates[m]
        BY DEF ToSet
    <2>2. victim' \in Entry /\ e \in Entry
        BY <1>1, <2>1, CandidatesAreEntries
    <2>3. last[victim'] \in Nat /\ last[e] \in Nat /\ accessCount \in Nat
        BY <2>2 DEF IInv, TypeOK
    <2>4. CASE accessCount = 0
        <3>1. last[victim'] = 0
            BY <2>2, <2>4 DEF IInv, TypeOK
        <3> QED
            BY <3>1, <2>3, BucketPositive
    <2>5. CASE accessCount # 0
        <3>1. bucketSize = computedBucket
            BY <2>3, <2>5 DEF IInv, BucketFixed
        <3>2. last[victim'] \div computedBucket <= last[e] \div computedBucket
            BY <1>1, <2>1, <2>2, <2>3, <2>5, <3>1 DEF IInv, TimestampIsBucket
        <3> QED
            BY <3>2, <2>3, BucketPositive, QuotientOrder
    <2> QED
        BY <2>4, <2>5
<1> QED
    BY <1>2, <1>3 DEF Promise!Choose, getVictim

\* getVictim() is LRU up to one bucket: whoever was used before the victim was
\* used less than a bucket of accesses before it.
THEOREM PolicyImplementsBucketedLRU ==
    ASSUME PolicyConstants
    PROVE  Spec => ImplementsBucketedLRU
<1>1. Init => Promise!Init
    BY DEF Init, Promise!Init
<1>2. IInv /\ [Next]_vars => [Promise!Next]_<<accessCount, last, asked, victim>>
    <2> SUFFICES ASSUME IInv, [Next]_vars
                 PROVE  Promise!Next \/ UNCHANGED <<accessCount, last, asked, victim>>
        OBVIOUS
    <2>1. ASSUME NEW e \in Entry, touch(e) PROVE Promise!Use(e)
        BY <2>1 DEF touch, Promise!Use
    <2>2. ASSUME NEW e \in Entry, invalidate(e) PROVE Promise!Forget(e)
        BY <2>2 DEF invalidate, Promise!Forget
    <2>3. ASSUME NEW candidates \in CandidateLists, getVictim(candidates)
          PROVE  \E cands \in SUBSET Entry : Promise!Choose(cands)
        <3>1. ToSet(candidates) \in SUBSET Entry
            BY <2>3, CandidatesAreEntries DEF ToSet
        <3> QED
            BY <2>3, <3>1, VictimIsOld
    <2>4. CASE UNCHANGED vars
        BY <2>4 DEF vars
    <2> QED
        BY <2>1, <2>2, <2>3, <2>4 DEF Next, Promise!Next
<1> QED
    BY <1>1, <1>2, InductiveInvariant, PTL DEF Spec, ImplementsBucketedLRU, Promise!Spec
=============================================================================
