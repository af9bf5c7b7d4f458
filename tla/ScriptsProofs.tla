---------------------------- MODULE ScriptsProofs ----------------------------
(***************************************************************************)
(* Theorems about the scripts: functional_verify.py at the sizes of the    *)
(* code and any fraction of them, for any number of MSHRs, ways and        *)
(* samples; the sweep over any two groups of benchmarks; the full-system   *)
(* scripts, for any number of regions of interest; and check_stats.py,     *)
(* for any files.                                                          *)
(***************************************************************************)
EXTENDS Simulations, FiniteSetTheorems, TLAPS
-----------------------------------------------------------------------------
(***************************************************************************)
(* The sizes of the scenarios, in units of K.                              *)
(***************************************************************************)
K == 1024 \div Scale

LEMMA KAndScale == K \in Nat \ {0} /\ K * Scale = 1024
<1>1. Scale \in Nat \ {0} /\ 1024 % Scale = 0
    BY ScaleAssumption
<1>2. 1024 = Scale * (1024 \div Scale) + (1024 % Scale)
    BY <1>1
<1>3. K \in Int
    BY <1>1 DEF K
<1>4. Scale * K = 1024
    BY <1>1, <1>2, <1>3 DEF K
<1> HIDE DEF K
<1>5. K > 0
    BY <1>1, <1>3, <1>4
<1> QED
    BY <1>1, <1>3, <1>4, <1>5

LEMMA Quotient == ASSUME NEW a \in Nat, NEW d \in Nat \ {0} PROVE (a * d) \div d = a
OBVIOUS

LEMMA WholeKiB == ASSUME NEW n \in Nat PROVE KiB(n) = n * K
<1>1. n * 1024 = (n * K) * Scale /\ n * K \in Nat
    <2>1. n * (K * Scale) = (n * K) * Scale
        BY KAndScale, ScaleAssumption
    <2> QED
        BY <2>1, KAndScale
<1>2. ((n * K) * Scale) \div Scale = n * K
    BY <1>1, Quotient, ScaleAssumption
<1> QED
    BY <1>1, <1>2 DEF KiB

NumLines(s) == SCENARIOS[s].sweep \div LineBytes

LEMMA SizesInK ==
    /\ NumLines("A") = 5 * K /\ NumLines("B") = 5 * K /\ NumLines("C") = 10 * K
    /\ PoolSlots("A") = 16 * K /\ PoolSlots("C") = 16 * K
    /\ \A s \in Scenario : CacheLines(s) = 4 * K /\ Lines(s) = 0 .. NumLines(s) - 1
    /\ Accesses("A") = 10 * K /\ Accesses("B") = 10 * K /\ Accesses("C") = 20 * K
<1>1. /\ SCENARIOS["A"].sweep = 320 * K /\ SCENARIOS["B"].sweep = 320 * K
      /\ SCENARIOS["C"].sweep = 640 * K
      /\ SCENARIOS["A"].pool = 256 * K /\ SCENARIOS["C"].pool = 256 * K
      /\ \A s \in Scenario : SCENARIOS[s].cache = 256 * K
    BY WholeKiB DEF SCENARIOS, Scenario
<1>2. K \in Nat
    BY KAndScale
<1> HIDE DEF K
<1>3. /\ (320 * K) \div 64 = 5 * K /\ (640 * K) \div 64 = 10 * K
      /\ (256 * K) \div 64 = 4 * K /\ (256 * K) \div 16 = 16 * K
    BY <1>2
<1>4. 10240 \div Scale = 10 * K /\ 20480 \div Scale = 20 * K
    <2>1. \A n \in Nat : (n * Scale) \div Scale = n
        BY Quotient, ScaleAssumption
    <2>2. (10 * K) * Scale = 10240 /\ (20 * K) * Scale = 20480
        BY <1>2, KAndScale, ScaleAssumption
    <2> QED
        BY <1>2, <2>1, <2>2
<1> QED
    BY <1>1, <1>3, <1>4
       DEF NumLines, PoolSlots, CacheLines, Lines, Accesses, LineBytes, SlotBytes, Scenario

\* More lines are swept than the cache holds, and in A and C the pool is larger.
LEMMA SizesCompare ==
    ASSUME NEW s \in Scenario
    PROVE  /\ NumLines(s) \in Nat /\ CacheLines(s) \in Nat /\ PoolSlots(s) \in Int
           /\ CacheLines(s) < NumLines(s)
           /\ Lines(s) = 0 .. NumLines(s) - 1
           /\ Accesses(s) = 2 * NumLines(s)
           /\ s # "B" => CacheLines(s) < PoolSlots(s)
<1>1. K \in Nat \ {0}
    BY KAndScale
<1>2. PoolSlots("B") \in Int
    BY WholeKiB, <1>1 DEF PoolSlots, SCENARIOS, SlotBytes
<1> HIDE DEF K
<1> QED
    BY <1>1, <1>2, SizesInK DEF Scenario

-----------------------------------------------------------------------------
(***************************************************************************)
(* The invariant of the traffic.  The first sweep misses throughout; what  *)
(* the second one hits was in the cache when it began, for a line that is  *)
(* filled later is behind the sweep.  So fewer lines are hit than there    *)
(* are in the cache, which are fewer than a sweep has.                     *)
(***************************************************************************)
Counters == [hits : Nat, misses : Nat, fills : Nat, padded : Nat, raw : Nat,
             fragEvictions : Nat, resRequests : Nat, resHits : Nat]

N     == NumLines(scenario)
Ahead == {l \in cached : l >= next}

TrafficTypeOK ==
    /\ scenario \in Scenario /\ phase \in 1 .. 3 /\ next \in 0 .. N
    /\ mshr \in SUBSET Nat /\ IsFiniteSet(mshr)
    /\ cached \in SUBSET Nat /\ IsFiniteSet(cached)
    /\ used \in Nat /\ entries \in Nat /\ st \in Counters

\* A line that is being fetched was asked for in this sweep, and is not cached.
Pending ==
    /\ mshr \cap cached = {} /\ \A l \in mshr : l < next
    /\ phase = 3 => mshr = {}

Served ==
    st.hits + st.misses = IF phase = 1 THEN next ELSE IF phase = 2 THEN N + next ELSE 2 * N

HitsWereCached ==
    /\ Cardinality(cached) <= CacheLines(scenario)
    /\ phase = 1 => st.hits = 0 /\ \A l \in cached : l < next
    /\ phase = 2 => st.hits + Cardinality(Ahead) <= CacheLines(scenario)
    /\ phase = 3 => st.hits <= CacheLines(scenario)

\* A line has a copy exactly if it recorded a slot, and a zero line fills its slot.
Filled ==
    /\ copies \subseteq cached /\ used = Cardinality(copies)
    /\ st.misses = st.fills + Cardinality(mshr)
    /\ st.padded = 16 * st.fills /\ st.raw = st.padded

Lookups ==
    /\ st.resHits = st.fragEvictions /\ st.fragEvictions <= st.fills
    /\ st.resHits <= st.resRequests
    /\ cached # copies => st.resHits < st.resRequests

\* The pool of scenarios A and C is never exhausted.
AmplePool == scenario # "B" => st.resRequests = 0

TrafficInv == /\ TrafficTypeOK /\ Pending /\ Served /\ HitsWereCached
              /\ Filled /\ Lookups /\ AmplePool
-----------------------------------------------------------------------------
LEMMA InitTraffic == ASSUME Init PROVE TrafficInv
<1>1. N \in Nat /\ CacheLines(scenario) \in Nat
    BY SizesCompare DEF Init, N
<1>2. IsFiniteSet({}) /\ Cardinality({}) = 0
    BY FS_EmptySet
<1> QED
    BY <1>1, <1>2 DEF Init, TrafficInv, TrafficTypeOK, Counters, Pending, Served, HitsWereCached,
                      Filled, Lookups, AmplePool

LEMMA AheadFinite ==
    ASSUME TrafficTypeOK
    PROVE  IsFiniteSet(Ahead) /\ Cardinality(Ahead) \in Nat /\ Cardinality(Ahead) <= Cardinality(cached)
BY FS_Subset, FS_CardinalityType DEF TrafficTypeOK, Ahead

LEMMA HitStep == ASSUME TrafficInv, Hit PROVE TrafficInv'
<1> USE DEF TrafficInv
<1>1. /\ N \in Nat /\ CacheLines(scenario) \in Nat /\ N' = N
      /\ next \in cached /\ phase \in {1, 2} /\ next \in 0 .. N - 1
    BY SizesCompare DEF Hit, Sweeping, N, TrafficTypeOK
<1>2. /\ st' = [st EXCEPT !.hits = @ + 1] /\ next' = next + 1
      /\ UNCHANGED <<scenario, phase, mshr, cached, copies, used, entries>>
    BY DEF Hit
<1>3. /\ TrafficTypeOK' /\ Pending' /\ Served' /\ Filled' /\ Lookups' /\ AmplePool'
    BY <1>1, <1>2 DEF TrafficTypeOK, Counters, Pending, Served, Filled, Lookups, AmplePool
<1>4. HitsWereCached'
    <2>1. phase = 2
        BY <1>1 DEF HitsWereCached, TrafficTypeOK
    <2>2. Ahead' = Ahead \ {next} /\ next \in Ahead
        BY <1>1, <1>2 DEF Ahead, TrafficTypeOK
    <2>3. Cardinality(Ahead') = Cardinality(Ahead) - 1
        BY <2>2, AheadFinite, FS_RemoveElement
    <2> HIDE DEF TrafficInv
    <2>4. HitsWereCached /\ TrafficTypeOK /\ Cardinality(Ahead) \in Nat
        BY AheadFinite DEF TrafficInv
    <2> QED
        BY <1>1, <1>2, <2>1, <2>3, <2>4 DEF HitsWereCached, TrafficTypeOK, Counters
<1> QED
    BY <1>3, <1>4

LEMMA MissStep == ASSUME TrafficInv, Miss PROVE TrafficInv'
<1> USE DEF TrafficInv
<1>1. /\ N \in Nat /\ CacheLines(scenario) \in Nat /\ N' = N
      /\ next \notin cached /\ phase \in {1, 2} /\ next \in 0 .. N - 1
    BY SizesCompare DEF Miss, Sweeping, N, TrafficTypeOK
<1>2. /\ st' = [st EXCEPT !.misses = @ + 1] /\ next' = next + 1 /\ mshr' = mshr \cup {next}
      /\ UNCHANGED <<scenario, phase, cached, copies, used, entries>>
    BY DEF Miss
<1>3. /\ IsFiniteSet(mshr') /\ Cardinality(mshr') = Cardinality(mshr) + 1
      /\ Cardinality(mshr) \in Nat
    <2>1. next \notin mshr /\ IsFiniteSet(mshr)
        BY <1>1 DEF Pending, TrafficTypeOK
    <2> QED
        BY <1>2, <2>1, FS_AddElement, FS_CardinalityType
<1>4. TrafficTypeOK' /\ Pending' /\ Served' /\ Lookups' /\ AmplePool'
    BY <1>1, <1>2, <1>3 DEF TrafficTypeOK, Counters, Pending, Served, Lookups, AmplePool
<1>5. Filled'
    BY <1>1, <1>2, <1>3 DEF TrafficTypeOK, Counters, Filled
<1>6. HitsWereCached'
    <2>1. Ahead' = Ahead
        BY <1>1, <1>2 DEF Ahead, TrafficTypeOK
    <2> QED
        BY <1>1, <1>2, <2>1 DEF HitsWereCached, TrafficTypeOK, Counters
<1> QED
    BY <1>4, <1>5, <1>6

LEMMA PhaseStep == ASSUME TrafficInv, NextPhase PROVE TrafficInv'
<1> USE DEF TrafficInv
<1>1. N \in Nat /\ CacheLines(scenario) \in Nat /\ N' = N /\ phase \in {1, 2} /\ next = N
    BY SizesCompare DEF NextPhase, Sweeping, N, TrafficTypeOK
<1>2. /\ phase' = phase + 1 /\ next' = 0 /\ mshr = {}
      /\ UNCHANGED <<scenario, mshr, cached, copies, used, entries, st>>
    BY DEF NextPhase
<1>3. TrafficTypeOK' /\ Pending' /\ Served' /\ Filled' /\ Lookups' /\ AmplePool'
    BY <1>1, <1>2 DEF TrafficTypeOK, Counters, Pending, Served, Filled, Lookups, AmplePool
<1>4. HitsWereCached'
    <2>1. CASE phase = 1
        <3>1. TrafficTypeOK'
            BY <1>3
        <3>2. Ahead' = cached
            <4>1. Ahead' = {l \in cached : l >= 0}
                BY <1>2 DEF Ahead
            <4>2. \A l \in cached : l >= 0
                BY DEF TrafficTypeOK
            <4> QED
                BY <4>1, <4>2
        <3>3. phase' = 2 /\ st'.hits = 0 /\ Cardinality(cached) \in Nat
            BY <1>2, <2>1, FS_CardinalityType DEF HitsWereCached, TrafficTypeOK
        <3> QED
            BY <1>2, <3>2, <3>3 DEF HitsWereCached
    <2>2. CASE phase = 2
        <3>1. Cardinality(Ahead) \in Nat
            BY AheadFinite
        <3>2. st.hits \in Nat
            BY DEF TrafficTypeOK, Counters
        <3> QED
            BY <1>1, <1>2, <2>2, <3>1, <3>2 DEF HitsWereCached
    <2> QED
        BY <1>1, <2>1, <2>2
<1> QED
    BY <1>3, <1>4

(***************************************************************************)
(* A fill: a line may be evicted, and the pool is asked for a slot.        *)
(***************************************************************************)
\* What is left of the cache and of the copies when the tags have made room.
LEMMA RoomIsMade ==
    ASSUME TrafficInv, NEW l \in mshr, NEW evicted \in Room(scenario, cached)
    PROVE  /\ l \notin cached /\ l < next /\ l \in Nat
           /\ cached \ evicted \in SUBSET Nat /\ IsFiniteSet(cached \ evicted)
           /\ Cardinality(cached \ evicted) \in Nat
           /\ Cardinality(cached \ evicted) < CacheLines(scenario)
           /\ copies \ evicted \subseteq cached \ evicted
           /\ IsFiniteSet(copies \ evicted)
           /\ used - Freed(evicted) = Cardinality(copies \ evicted)
           /\ Cardinality(copies \ evicted) \in Nat
           /\ Cardinality(copies \ evicted) <= Cardinality(cached \ evicted)
<1> USE DEF TrafficInv
<1>1. l \notin cached /\ l < next /\ l \in Nat
    BY DEF Pending, TrafficTypeOK
<1>2. /\ cached \in SUBSET Nat /\ IsFiniteSet(cached) /\ copies \subseteq cached
      /\ Cardinality(cached) <= CacheLines(scenario) /\ CacheLines(scenario) \in Nat
      /\ used = Cardinality(copies)
    BY SizesCompare DEF TrafficTypeOK, HitsWereCached, Filled
<1>3. /\ IsFiniteSet(cached \ evicted) /\ Cardinality(cached \ evicted) \in Nat
      /\ Cardinality(cached) \in Nat
    BY <1>2, FS_Difference, FS_CardinalityType
<1>4. Cardinality(cached \ evicted) < CacheLines(scenario)
    <2>1. CASE evicted = {} /\ Cardinality(cached) < CacheLines(scenario)
        BY <2>1, <1>3
    <2>2. ASSUME NEW v \in cached, evicted = {v}
          PROVE  Cardinality(cached \ evicted) < CacheLines(scenario)
        BY <1>2, <1>3, <2>2, FS_RemoveElement
    <2> QED
        BY <2>1, <2>2 DEF Room
<1>5. /\ copies \ evicted \subseteq cached \ evicted /\ IsFiniteSet(copies)
      /\ IsFiniteSet(copies \ evicted)
      /\ Cardinality(copies \ evicted) <= Cardinality(cached \ evicted)
    BY <1>2, <1>3, FS_Subset
<1>6. /\ used - Freed(evicted) = Cardinality(copies \ evicted)
      /\ Cardinality(copies \ evicted) \in Nat
    <2>1. Cardinality(copies \ evicted) = Cardinality(copies) - Cardinality(copies \cap evicted)
        BY <1>5, FS_Difference
    <2>2. evicted \cap copies = copies \cap evicted
        OBVIOUS
    <2> QED
        BY <1>2, <1>5, <2>1, <2>2, FS_CardinalityType DEF Freed
<1> QED
    BY <1>1, <1>2, <1>3, <1>4, <1>5, <1>6

LEMMA FillIsCounted ==
    ASSUME st \in Counters
    PROVE  /\ CountFill \in Counters
           /\ CountFill.hits = st.hits /\ CountFill.misses = st.misses
           /\ CountFill.fills = st.fills + 1
           /\ CountFill.padded = st.padded + 16 /\ CountFill.raw = st.raw + 16
           /\ CountFill.resRequests = st.resRequests /\ CountFill.resHits = st.resHits
           /\ CountFill.fragEvictions = st.fragEvictions
<1> DEFINE filled == [st EXCEPT !.fills = st.fills + 1]
           padded == [filled EXCEPT !.padded = filled.padded + SlotBytes]
<1>1. CountFill = [padded EXCEPT !.raw = padded.raw + SlotBytes]
    BY DEF CountFill
<1>2. /\ filled \in Counters /\ filled.fills = st.fills + 1
      /\ \A f \in DOMAIN st \ {"fills"} : filled[f] = st[f]
    BY DEF Counters
<1> HIDE DEF filled
<1>3. /\ padded \in Counters /\ padded.padded = filled.padded + 16
      /\ \A f \in DOMAIN filled \ {"padded"} : padded[f] = filled[f]
    BY <1>2 DEF Counters, SlotBytes
<1> HIDE DEF padded
<1>4. /\ CountFill \in Counters /\ CountFill.raw = padded.raw + 16
      /\ \A f \in DOMAIN padded \ {"raw"} : CountFill[f] = padded[f]
    BY <1>1, <1>3 DEF Counters, SlotBytes
<1> QED
    BY <1>2, <1>3, <1>4 DEF Counters

Looked(counted, requests, found) ==
    [counted EXCEPT !.resRequests = @ + requests, !.resHits = @ + found,
                    !.fragEvictions = @ + found]

LEMMA LookupsAreCounted ==
    ASSUME NEW counted \in Counters, NEW requests \in Nat, NEW found \in Nat
    PROVE  LET looked == Looked(counted, requests, found)
           IN /\ looked \in Counters
              /\ looked.hits = counted.hits /\ looked.misses = counted.misses
              /\ looked.fills = counted.fills
              /\ looked.padded = counted.padded /\ looked.raw = counted.raw
              /\ looked.resRequests = counted.resRequests + requests
              /\ looked.resHits = counted.resHits + found
              /\ looked.fragEvictions = counted.fragEvictions + found
<1> DEFINE looked == Looked(counted, requests, found)
           asked  == [counted EXCEPT !.resRequests = counted.resRequests + requests]
           hit    == [asked EXCEPT !.resHits = asked.resHits + found]
<1>1. looked = [hit EXCEPT !.fragEvictions = hit.fragEvictions + found]
    BY DEF Looked
<1> HIDE DEF looked
<1>2. /\ asked \in Counters /\ asked.resRequests = counted.resRequests + requests
      /\ \A f \in DOMAIN counted \ {"resRequests"} : asked[f] = counted[f]
    BY DEF Counters
<1> HIDE DEF asked
<1>3. /\ hit \in Counters /\ hit.resHits = asked.resHits + found
      /\ \A f \in DOMAIN asked \ {"resHits"} : hit[f] = asked[f]
    BY <1>2 DEF Counters
<1> HIDE DEF hit
<1>4. /\ looked \in Counters /\ looked.fragEvictions = hit.fragEvictions + found
      /\ \A f \in DOMAIN hit \ {"fragEvictions"} : looked[f] = hit[f]
    BY <1>1, <1>3 DEF Counters
<1>5. /\ looked \in Counters
      /\ looked.hits = counted.hits /\ looked.misses = counted.misses
      /\ looked.fills = counted.fills
      /\ looked.padded = counted.padded /\ looked.raw = counted.raw
      /\ looked.resRequests = counted.resRequests + requests
      /\ looked.resHits = counted.resHits + found
      /\ looked.fragEvictions = counted.fragEvictions + found
    BY <1>2, <1>3, <1>4 DEF Counters
<1> QED
    BY <1>5 DEF looked

\* What any of the three outcomes leaves: the line is cached, with or without a
\* copy, and the lookups are counted.
LEMMA FillLeaves ==
    ASSUME TrafficInv, NEW l \in mshr, mshr' = mshr \ {l}, UNCHANGED <<scenario, phase, next>>,
           NEW left \in SUBSET cached, cached' = left \cup {l},
           Cardinality(left) < CacheLines(scenario),
           copies' \subseteq cached', used' = Cardinality(copies'), entries' \in Nat,
           NEW requests \in Nat, NEW found \in Nat,
           st' = Looked(CountFill, requests, found),
           found <= 1, found <= requests,
           cached # copies \/ found < requests \/ cached' = copies',
           scenario # "B" => requests = 0
    PROVE  TrafficInv'
<1> USE DEF TrafficInv
<1>1. /\ N' = N /\ l \notin cached /\ l < next /\ l \in Nat /\ CacheLines(scenario) \in Nat
      /\ cached \in SUBSET Nat /\ IsFiniteSet(cached) /\ IsFiniteSet(mshr)
    BY SizesCompare DEF N, Pending, TrafficTypeOK
<1>2. /\ IsFiniteSet(cached') /\ cached' \in SUBSET Nat
      /\ Cardinality(cached') <= CacheLines(scenario)
    <2>1. IsFiniteSet(left) /\ Cardinality(left) \in Nat
        BY <1>1, FS_Subset, FS_CardinalityType
    <2>2. /\ IsFiniteSet(left \cup {l})
          /\ Cardinality(left \cup {l}) = Cardinality(left) + 1
        BY <1>1, <2>1, FS_AddElement
    <2> QED
        BY <1>1, <2>1, <2>2
<1>3. /\ IsFiniteSet(mshr') /\ Cardinality(mshr') = Cardinality(mshr) - 1
      /\ Cardinality(mshr) \in Nat
    BY <1>1, FS_RemoveElement, FS_CardinalityType
<1>4. /\ st \in Counters /\ st' \in Counters
      /\ st'.hits = st.hits /\ st'.misses = st.misses /\ st'.fills = st.fills + 1
      /\ st'.padded = st.padded + 16 /\ st'.raw = st.raw + 16
      /\ st'.resRequests = st.resRequests + requests
      /\ st'.resHits = st.resHits + found /\ st'.fragEvictions = st.fragEvictions + found
    <2>1. st \in Counters
        BY DEF TrafficTypeOK
    <2> HIDE DEF TrafficInv
    <2>2. CountFill \in Counters
        BY <2>1, FillIsCounted
    <2>3. /\ st' \in Counters
          /\ st'.hits = CountFill.hits /\ st'.misses = CountFill.misses
          /\ st'.fills = CountFill.fills
          /\ st'.padded = CountFill.padded /\ st'.raw = CountFill.raw
          /\ st'.resRequests = CountFill.resRequests + requests
          /\ st'.resHits = CountFill.resHits + found
          /\ st'.fragEvictions = CountFill.fragEvictions + found
        BY <2>2, LookupsAreCounted
    <2> QED
        BY <2>1, <2>3, FillIsCounted
<1>5. TrafficTypeOK' /\ Pending' /\ Served'
    <2>1. copies' \subseteq cached' /\ IsFiniteSet(copies') /\ used' \in Nat
        BY <1>2, FS_Subset, FS_CardinalityType
    <2>2. TrafficTypeOK'
        BY <1>1, <1>2, <1>3, <1>4, <2>1 DEF TrafficTypeOK
    <2>3. Pending' /\ Served'
        BY <1>1, <1>4 DEF Pending, Served
    <2> QED
        BY <2>2, <2>3
<1>6. HitsWereCached'
    <2>1. Ahead' \subseteq Ahead
        <3>1. Ahead' = {k \in left \cup {l} : k >= next}
            BY DEF Ahead
        <3>2. ASSUME NEW k \in Ahead' PROVE k \in Ahead
            BY <1>1, <3>1 DEF Ahead, TrafficTypeOK
        <3> QED
            BY <3>2
    <2>2. Cardinality(Ahead') <= Cardinality(Ahead) /\ Cardinality(Ahead') \in Nat
        BY <2>1, AheadFinite, FS_Subset, FS_CardinalityType
    <2>3. st.hits \in Nat /\ Cardinality(Ahead) \in Nat
        BY <1>4, AheadFinite DEF Counters
    <2> QED
        BY <1>1, <1>2, <1>4, <2>2, <2>3 DEF HitsWereCached
<1>7. Filled'
    BY <1>3, <1>4 DEF Filled, Counters
<1>8. Lookups' /\ AmplePool'
    BY <1>4 DEF Lookups, AmplePool, Counters
<1> QED
    BY <1>5, <1>6, <1>7, <1>8

LEMMA FillStep ==
    ASSUME TrafficInv, NEW l \in mshr, Fill(l)
    PROVE  TrafficInv'
<1>1. /\ mshr' = mshr \ {l} /\ UNCHANGED <<scenario, phase, next>>
      /\ st \in Counters /\ entries \in Nat /\ copies \subseteq cached
    BY DEF Fill, TrafficInv, TrafficTypeOK, Filled
<1>2. PICK evicted \in Room(scenario, cached) :
          LET kept  == copies \ evicted
              inUse == used - Freed(evicted)
          IN \/ Allocates(l, evicted, kept, inUse)
             \/ EvictsForSpace(l, evicted, kept, inUse)
             \/ GivesUp(l, evicted, kept, inUse)
    BY DEF Fill, insertBlock
<1> DEFINE held  == cached \ evicted
           kept  == copies \ evicted
           inUse == used - Freed(evicted)
<1>3. /\ l \notin cached /\ l < next /\ l \in Nat
      /\ held \in SUBSET Nat /\ IsFiniteSet(held) /\ Cardinality(held) \in Nat
      /\ Cardinality(held) < CacheLines(scenario)
      /\ kept \subseteq held /\ IsFiniteSet(kept)
      /\ inUse = Cardinality(kept) /\ Cardinality(kept) \in Nat
      /\ Cardinality(kept) <= Cardinality(held)
    BY RoomIsMade
<1>4. /\ CountFill = Looked(CountFill, 0, 0)
      /\ \A stale \in Nat : /\ CountLookups(CountFill, stale, 1) = Looked(CountFill, stale + 1, 1)
                            /\ CountLookups(CountFill, stale, 0) = Looked(CountFill, stale + 1, 0)
    <2>1. CountFill \in Counters
        BY <1>1, FillIsCounted
    <2>2. CountFill = Looked(CountFill, 0, 0)
        <3> DEFINE c == CountFill
        <3> HIDE DEF c
        <3>1. c \in Counters
            BY <2>1 DEF c
        <3>2. /\ c.resRequests + 0 = c.resRequests /\ c.resHits + 0 = c.resHits
              /\ c.fragEvictions + 0 = c.fragEvictions
            BY <3>1 DEF Counters
        <3>3. /\ [c EXCEPT !.resRequests = c.resRequests] = c
              /\ [c EXCEPT !.resHits = c.resHits] = c
              /\ [c EXCEPT !.fragEvictions = c.fragEvictions] = c
            BY <3>1 DEF Counters
        <3>4. Looked(c, 0, 0) = c
            BY <3>2, <3>3 DEF Looked
        <3> QED
            BY <3>4 DEF c
    <2>3. ASSUME NEW stale \in Nat, NEW found \in {0, 1}
          PROVE  CountLookups(CountFill, stale, found) = Looked(CountFill, stale + 1, found)
        <3>1. CountFill.resRequests + stale + 1 = CountFill.resRequests + (stale + 1)
            BY <2>1 DEF Counters
        <3> QED
            BY <3>1 DEF CountLookups, Looked
    <2> QED
        BY <2>2, <2>3
\* Only the pool of scenario B can be exhausted.
<1>5. scenario # "B" => inUse < PoolSlots(scenario)
    <2>1. scenario \in Scenario
        BY DEF TrafficInv, TrafficTypeOK
    <2> HIDE DEF held, kept, inUse
    <2> QED
        BY <1>3, <2>1, SizesCompare
<1>6. CASE Allocates(l, evicted, kept, inUse)
    <2>1. /\ cached' = held \cup {l} /\ copies' = kept \cup {l} /\ used' = inUse + 1
          /\ st' = CountFill /\ entries' = entries
        BY <1>6 DEF Allocates
    <2>2. Cardinality(kept \cup {l}) = Cardinality(kept) + 1
        BY <1>1, <1>3, FS_AddElement
    <2>3. /\ held \in SUBSET cached /\ copies' \subseteq cached' /\ used' = Cardinality(copies')
          /\ cached = copies => cached' = copies'
        BY <1>3, <2>1, <2>2
    <2>4. st' = Looked(CountFill, 0, 0) /\ entries' \in Nat
        BY <1>1, <1>4, <2>1
    <2>5. cached' = held \cup {l} /\ Cardinality(held) < CacheLines(scenario)
        BY <1>3, <2>1
    <2>6. cached # copies \/ 0 < 0 \/ cached' = copies'
        BY <2>3
    <2> HIDE DEF held, kept, inUse
    <2> QED
        BY <1>1, <2>3, <2>4, <2>5, <2>6, FillLeaves
<1>7. CASE EvictsForSpace(l, evicted, kept, inUse)
    <2>1. PICK victim \in kept, stale \in 0 .. entries - 1 :
              /\ cached' = (cached \ (evicted \cup {victim})) \cup {l}
              /\ copies' = (kept \ {victim}) \cup {l} /\ used' = inUse
              /\ entries' = entries - stale - 1
              /\ st' = CountLookups(CountFill, stale, 1)
        BY <1>7 DEF EvictsForSpace
    <2> DEFINE left == held \ {victim}
    <2>2. /\ cached' = left \cup {l} /\ left \in SUBSET cached /\ copies' \subseteq cached'
          /\ cached = copies => cached' = copies'
        BY <1>3, <2>1
    <2>3. Cardinality(left) < CacheLines(scenario)
        <3>1. scenario \in Scenario
            BY DEF TrafficInv, TrafficTypeOK
        <3>2. Cardinality(left) = Cardinality(held) - 1
            BY <1>3, FS_RemoveElement
        <3> HIDE DEF held, left
        <3> QED
            BY <1>3, <3>1, <3>2, SizesCompare
    <2>4. used' = Cardinality(copies')
        <3>1. /\ IsFiniteSet(kept \ {victim})
              /\ Cardinality(kept \ {victim}) = Cardinality(kept) - 1
            BY <1>3, FS_RemoveElement
        <3>2. l \notin kept \ {victim}
            BY <1>1, <1>3
        <3>3. Cardinality((kept \ {victim}) \cup {l}) = Cardinality(kept \ {victim}) + 1
            BY <3>1, <3>2, FS_AddElement
        <3> HIDE DEF held, kept, inUse, left
        <3> QED
            BY <1>3, <2>1, <3>1, <3>3
    <2>5. /\ st' = Looked(CountFill, stale + 1, 1) /\ stale + 1 \in Nat /\ 1 <= stale + 1
          /\ entries' \in Nat
        BY <1>1, <1>4, <2>1
    <2>6. scenario = "B"
        <3>1. scenario \in Scenario /\ inUse = PoolSlots(scenario) /\ inUse \in Nat
            BY <1>3, <1>7 DEF TrafficInv, TrafficTypeOK, EvictsForSpace
        <3> HIDE DEF inUse
        <3> QED
            BY <1>5, <3>1
    <2> HIDE DEF held, kept, inUse, left
    <2> QED
        BY <1>1, <2>2, <2>3, <2>4, <2>5, <2>6, FillLeaves
<1>8. CASE GivesUp(l, evicted, kept, inUse)
    <2>1. /\ cached' = held \cup {l} /\ copies' = kept /\ used' = inUse
          /\ entries' = 0 /\ st' = CountLookups(CountFill, entries, 0)
        BY <1>8 DEF GivesUp
    <2>2. held \in SUBSET cached /\ copies' \subseteq cached' /\ used' = Cardinality(copies')
        BY <1>3, <2>1
    <2>3. st' = Looked(CountFill, entries + 1, 0) /\ entries + 1 \in Nat /\ 0 < entries + 1
        BY <1>1, <1>4, <2>1
    <2>4. scenario = "B"
        <3>1. scenario \in Scenario /\ inUse = PoolSlots(scenario) /\ inUse \in Nat
            BY <1>3, <1>8 DEF TrafficInv, TrafficTypeOK, GivesUp
        <3> HIDE DEF inUse
        <3> QED
            BY <1>5, <3>1
    <2> HIDE DEF held, kept, inUse
    <2> QED
        BY <1>1, <1>3, <2>1, <2>2, <2>3, <2>4, FillLeaves
<1> QED
    BY <1>2, <1>6, <1>7, <1>8

LEMMA SampleKeeps == ASSUME TrafficInv, Sample PROVE TrafficInv'
<1>1. /\ entries' = entries + 1
      /\ UNCHANGED <<scenario, phase, next, mshr, cached, copies, used, st>>
    BY DEF Sample
<1> QED
    BY <1>1 DEF TrafficInv, TrafficTypeOK, N, Pending, Served, HitsWereCached, Ahead, Filled,
                Lookups, AmplePool

LEMMA TrafficInvariant == Spec => []TrafficInv
<1>1. Init => TrafficInv
    BY InitTraffic
<1>2. TrafficInv /\ [Next]_fvars => TrafficInv'
    <2> SUFFICES ASSUME TrafficInv, [Next]_fvars PROVE TrafficInv'
        OBVIOUS
    <2>1. CASE UNCHANGED fvars
        BY <2>1 DEF fvars, TrafficInv, TrafficTypeOK, N, Pending, Served, HitsWereCached, Ahead,
                    Filled, Lookups, AmplePool
    <2>2. ASSUME NEW l \in mshr, Fill(l) PROVE TrafficInv'
        BY <2>2, FillStep
    <2> QED
        BY <2>1, <2>2, HitStep, MissStep, PhaseStep, SampleKeeps DEF Next, Progress
<1> QED
    BY <1>1, <1>2, PTL DEF Spec
-----------------------------------------------------------------------------
(***************************************************************************)
(* The assertions of check_stats.py, on the statistics of the last phase.  *)
(***************************************************************************)
\* All accesses are served; the ones that missed have been filled.
LEMMA AtTheEnd ==
    ASSUME TrafficInv, phase = 3
    PROVE  /\ st.hits \in Nat /\ st.fills \in Nat /\ st.resRequests \in Nat /\ st.resHits \in Nat
           /\ st.hits + st.misses = Accesses(scenario) /\ st.misses = st.fills
           /\ st.hits < st.misses
           /\ st.padded = 16 * st.fills /\ st.raw = st.padded
           /\ st.fragEvictions = st.resHits /\ st.resHits <= st.fills
           /\ st.resHits <= st.resRequests
           /\ scenario # "B" => st.resRequests = 0
<1>1. /\ st.hits \in Nat /\ st.misses \in Nat /\ st.fills \in Nat /\ st.resRequests \in Nat
      /\ st.resHits \in Nat /\ scenario \in Scenario
    BY DEF TrafficInv, TrafficTypeOK, Counters
<1>2. st.misses = st.fills
    <2>1. mshr = {} /\ st.misses = st.fills + Cardinality(mshr)
        BY DEF TrafficInv, Pending, Filled
    <2>2. Cardinality(mshr) = 0
        BY <2>1, FS_EmptySet
    <2> QED
        BY <1>1, <2>1, <2>2
<1>3. st.hits + st.misses = 2 * N /\ st.hits <= CacheLines(scenario)
    BY DEF TrafficInv, Served, HitsWereCached
<1>4. N \in Nat /\ CacheLines(scenario) \in Nat /\ CacheLines(scenario) < N
      /\ Accesses(scenario) = 2 * N
    BY <1>1, SizesCompare DEF N
<1>5. st.hits < st.misses
    BY <1>1, <1>3, <1>4
<1> QED
    BY <1>1, <1>2, <1>3, <1>4, <1>5 DEF TrafficInv, Filled, Lookups, AmplePool

\* The assertions of CommonChecks and AmplePoolChecks, one by one.
LEMMA CommonHolds ==
    ASSUME TrafficInv, phase = 3
    PROVE  Failing(CommonChecks(scenario, Final)) \subseteq {"walkDepth"}
<1>1. st.fills > 0
    BY AtTheEnd
<1>2. Final.avgFrag = <<0, Final.padded>> /\ ~isnan(Final.avgFrag)
    <2>1. st.padded \in Nat /\ st.padded # 0 /\ st.padded - st.raw = 0
        BY <1>1, AtTheEnd
    <2>2. Final.avgFrag = <<0, st.padded>>
        BY <2>1 DEF Final, Ratio
    <2>3. NaN # <<0, st.padded>>
        BY <2>1, NaNAssumption
    <2> QED
        BY <2>2, <2>3 DEF Final, isnan
<1>3. /\ Final.hits + Final.misses = Accesses(scenario)
      /\ Final.padded % 8 = 0 /\ Final.raw = Final.padded
    <2>1. (16 * st.fills) % 8 = 0
        BY AtTheEnd
    <2> QED
        BY <2>1, AtTheEnd DEF Final
<1>4. Final.avgFrag[1] = 0
    BY <1>2
<1> DEFINE checks == CommonChecks(scenario, Final)
<1> HIDE DEF Final
<1>5. DOMAIN checks = {"accesses", "granularity", "rawIsPadded", "avgFrag", "walkDepth"}
    BY DEF CommonChecks
<1>6. checks["accesses"] /\ checks["granularity"] /\ checks["rawIsPadded"] /\ checks["avgFrag"]
    BY <1>2, <1>3, <1>4, Zenon DEF CommonChecks
<1> HIDE DEF checks
<1>7. Failing(checks) \subseteq {"walkDepth"}
    BY <1>5, <1>6 DEF Failing
<1> QED
    BY <1>7 DEF checks

LEMMA AmplePoolHolds ==
    ASSUME TrafficInv, phase = 3, scenario # "B"
    PROVE  Failing(AmplePoolChecks(Final)) = {}
<1>1. /\ Final.fills = Final.misses /\ Final.padded = Final.misses * 16
      /\ Final.fragEvictions = 0 /\ Final.resRequests = 0
    BY AtTheEnd DEF Final
<1>2. isnan(Final.resHitRate)
    BY AtTheEnd DEF Final, Ratio, isnan
<1> DEFINE checks == AmplePoolChecks(Final)
<1> HIDE DEF Final
<1>3. DOMAIN checks = {"fills", "padded", "noEvictions", "noRequests", "noHitRate"}
    BY DEF AmplePoolChecks
<1>4. /\ checks["fills"] /\ checks["padded"] /\ checks["noEvictions"] /\ checks["noRequests"]
      /\ checks["noHitRate"]
    BY <1>1, <1>2, Zenon DEF AmplePoolChecks
<1> HIDE DEF checks
<1>5. Failing(checks) = {}
    BY <1>3, <1>4 DEF Failing
<1> QED
    BY <1>5 DEF checks

\* The four about evictions follow one from the other.
LEMMA ActivityInB ==
    ASSUME TrafficInv, phase = 3, scenario = "B"
    PROVE  /\ Final.fills > 0 /\ Final.fills >= Final.fragEvictions
           /\ Final.fragEvictions > 0 <=> Final.resHits > 0
           /\ Final.resHits > 0 => Final.resRequests > 0
           /\ Final.resHits > 0 <=>
                 /\ ~isnan(Final.resHitRate)
                 /\ 0 < Final.resHitRate[1] /\ Final.resHitRate[1] <= Final.resHitRate[2]
<1>1. Final.fills > 0 /\ Final.fills >= Final.fragEvictions
    BY AtTheEnd DEF Final
<1>2. /\ Final.fragEvictions > 0 <=> Final.resHits > 0
      /\ Final.resHits > 0 => Final.resRequests > 0
    BY AtTheEnd DEF Final
<1>3. /\ st.resHits \in Nat /\ st.resRequests \in Nat /\ st.resHits <= st.resRequests
      /\ NaN # <<st.resHits, st.resRequests>>
    BY AtTheEnd, NaNAssumption
<1>4. /\ Final.resHits = st.resHits
      /\ Final.resHitRate = Ratio(st.resHits, st.resRequests)
    BY DEF Final
<1> HIDE DEF Final
<1>5. CASE st.resRequests = 0
    <2>1. Final.resHitRate = NaN /\ ~(Final.resHits > 0)
        BY <1>3, <1>4, <1>5 DEF Ratio
    <2> QED
        BY <1>1, <1>2, <2>1 DEF isnan
<1>6. CASE st.resRequests # 0
    <2>1. /\ Final.resHitRate = <<st.resHits, st.resRequests>> /\ ~isnan(Final.resHitRate)
          /\ Final.resHitRate[1] = st.resHits /\ Final.resHitRate[2] = st.resRequests
        BY <1>3, <1>4, <1>6 DEF Ratio, isnan
    <2> QED
        BY <1>1, <1>2, <1>3, <1>4, <2>1
<1> QED
    BY <1>5, <1>6

LEMMA ChecksAtTheEnd ==
    ASSUME TrafficInv, phase = 3
    PROVE  /\ Failures(scenario, Final) \subseteq Pinned
           /\ scenario = "B" => Failures("B", Final) \cap Activity
                                    \in {{}, Activity \ {"requests"}, Activity}
<1>1. scenario \in {"A", "B", "C"}
    BY DEF TrafficInv, TrafficTypeOK, Scenario
<1>2. Failing(CommonChecks(scenario, Final)) \subseteq {"walkDepth"}
    BY CommonHolds
<1>3. CASE scenario = "A"
    <2> DEFINE own == [reference   |-> /\ Final.hits = RefHits
                                       /\ Final.misses = Accesses("A") - RefHits,
                       noHits      |-> Final.resHits = 0,
                       relocations |-> ~isnan(Final.relocations) /\ Final.relocations > 0]
    <2>1. Failures("A", Final) = Failing(CommonChecks("A", Final))
                                     \cup Failing(AmplePoolChecks(Final)) \cup Failing(own)
        <3>1. CHECKERS("A", Final) = {CommonChecks("A", Final), AmplePoolChecks(Final), own}
            BY DEF CHECKERS, check_scenario_A
        <3> HIDE DEF own, Final
        <3> QED
            BY <3>1 DEF Failures
    <2>2. Final.resHits = 0
        BY <1>3, AtTheEnd DEF Final
    <2> HIDE DEF Final
    <2>3. DOMAIN own = {"reference", "noHits", "relocations"} /\ own["noHits"]
        BY <2>2, Zenon
    <2> HIDE DEF own
    <2>4. Failing(own) \subseteq {"reference", "relocations"}
        BY <2>3 DEF Failing
    <2> QED
        BY <1>2, <1>3, <2>1, <2>4, AmplePoolHolds DEF Pinned
<1>4. CASE scenario = "C"
    <2> DEFINE own == [dominate    |-> Final.misses > Final.hits,
                       relocations |-> /\ ~isnan(Final.relocations)
                                       /\ Final.relocations > RefRelocations]
    <2>1. Failures("C", Final) = Failing(CommonChecks("C", Final))
                                     \cup Failing(AmplePoolChecks(Final)) \cup Failing(own)
        <3>1. CHECKERS("C", Final) = {CommonChecks("C", Final), AmplePoolChecks(Final), own}
            BY DEF CHECKERS, check_scenario_C
        <3> HIDE DEF own, Final
        <3> QED
            BY <3>1 DEF Failures
    <2>2. Final.misses > Final.hits
        BY AtTheEnd DEF Final
    <2> HIDE DEF Final
    <2>3. DOMAIN own = {"dominate", "relocations"} /\ own["dominate"]
        BY <2>2, Zenon
    <2> HIDE DEF own
    <2>4. Failing(own) \subseteq {"relocations"}
        BY <2>3 DEF Failing
    <2> QED
        BY <1>2, <1>4, <2>1, <2>4, AmplePoolHolds DEF Pinned
<1>5. CASE scenario = "B"
    <2> DEFINE rated == /\ ~isnan(Final.resHitRate)
                        /\ 0 < Final.resHitRate[1]
                        /\ Final.resHitRate[1] <= Final.resHitRate[2]
               own == [filled      |-> Final.fills > 0,
                       evictions   |-> Final.fragEvictions > 0,
                       requests    |-> Final.resRequests > 0,
                       hits        |-> Final.resHits > 0,
                       hitRate     |-> rated,
                       oneEach     |-> Final.fills >= Final.fragEvictions,
                       relocations |-> ~isnan(Final.relocations) /\ Final.relocations > 0]
    <2>1. Failures("B", Final) = Failing(CommonChecks("B", Final)) \cup Failing(own)
        <3>1. CHECKERS("B", Final) = {CommonChecks("B", Final), own}
            BY DEF CHECKERS, check_scenario_B
        <3> HIDE DEF own, Final
        <3> QED
            BY <3>1 DEF Failures
    <2>2. /\ Final.fills > 0 /\ Final.fills >= Final.fragEvictions
          /\ Final.fragEvictions > 0 <=> Final.resHits > 0
          /\ Final.resHits > 0 => Final.resRequests > 0
          /\ Final.resHits > 0 <=> rated
        BY <1>5, ActivityInB
    <2> HIDE DEF Final, rated
    <2>3. DOMAIN own = {"filled", "evictions", "requests", "hits", "hitRate", "oneEach",
                        "relocations"}
        OBVIOUS
    <2>4. /\ own["filled"] /\ own["oneEach"]
          /\ own["evictions"] <=> Final.fragEvictions > 0
          /\ own["requests"]  <=> Final.resRequests > 0
          /\ own["hits"]      <=> Final.resHits > 0
          /\ own["hitRate"]   <=> rated
        BY <2>2, Zenon
    <2> HIDE DEF own
    <2>5. Failing(own) \subseteq {"relocations"} \cup Activity
        BY <2>3, <2>4 DEF Failing, Activity
    <2>6. Failing(own) \cap Activity \in {{}, Activity \ {"requests"}, Activity}
        <3>1. CASE Final.resHits > 0
            BY <2>2, <2>3, <2>4, <3>1 DEF Failing, Activity
        <3>2. CASE ~(Final.resHits > 0) /\ Final.resRequests > 0
            BY <2>2, <2>3, <2>4, <3>2 DEF Failing, Activity
        <3>3. CASE ~(Final.resHits > 0) /\ ~(Final.resRequests > 0)
            BY <2>2, <2>3, <2>4, <3>3 DEF Failing, Activity
        <3> QED
            BY <3>1, <3>2, <3>3
    <2>7. Failures("B", Final) \cap Activity = Failing(own) \cap Activity
        BY <1>2, <1>5, <2>1 DEF Activity
    <2> QED
        BY <1>2, <1>5, <2>1, <2>5, <2>6, <2>7 DEF Pinned
<1> QED
    BY <1>1, <1>3, <1>4, <1>5

\* Whatever the cache evicts and the reservoir finds, no assertion of
\* check_stats.py other than the pinned ones can fail on the statistics of
\* functional_verify.py, and its counters agree at any time.
THEOREM OnlyPinned == Spec => []OnlyPinnedChecksFail
<1>1. TrafficInv => OnlyPinnedChecksFail
    <2> SUFFICES ASSUME TrafficInv PROVE OnlyPinnedChecksFail
        OBVIOUS
    <2>1. CountersAgree
        BY DEF TrafficInv, TrafficTypeOK, Counters, Filled, Lookups, CountersAgree
    <2> QED
        BY <2>1, ChecksAtTheEnd DEF OnlyPinnedChecksFail
<1> QED
    BY <1>1, TrafficInvariant, PTL

-----------------------------------------------------------------------------
(***************************************************************************)
(* run_bpc_parsec_sweep.sh, for any two groups without repetition that     *)
(* have no benchmark in common and any number of runs at once.             *)
(***************************************************************************)
Distinct(q) == \A i, j \in 1 .. Len(q) : q[i] = q[j] => i = j
Members(q)  == {q[i] : i \in 1 .. Len(q)}
Benchmarks  == Sweep!Benchmarks

SweepConstants ==
    /\ PRIORITY \in Seq(benchmark_choices) /\ Distinct(PRIORITY)
    /\ REST \in Seq(benchmark_choices) /\ Distinct(REST)
    /\ Members(PRIORITY) \cap Members(REST) = {}
    /\ benchmark_choices = Members(PRIORITY) \cup Members(REST)
    /\ Jobs \subseteq Nat \ {0}

LEMMA GroupsOfTheSweep == SweepConstants
<1>1. PRIORITY \in Seq(benchmark_choices) /\ REST \in Seq(benchmark_choices)
    BY SweepAssumption
<1>2. DOMAIN PRIORITY = 1 .. Len(PRIORITY) /\ DOMAIN REST = 1 .. Len(REST)
    BY <1>1
<1>3. Range(PRIORITY) = Members(PRIORITY) /\ Range(REST) = Members(REST)
    BY <1>2 DEF Range, Members
<1>4. Distinct(PRIORITY) /\ Distinct(REST)
    BY <1>2, SweepAssumption DEF IsInjective, Distinct
<1> QED
    BY <1>1, <1>3, <1>4, SweepAssumption DEF SweepConstants
-----------------------------------------------------------------------------
LEMMA QueueTail ==
    ASSUME NEW S, NEW q \in Seq(S), Distinct(q), q # <<>>
    PROVE  /\ Tail(q) \in Seq(S) /\ Distinct(Tail(q))
           /\ Head(q) \in Members(q) /\ Members(Tail(q)) = Members(q) \ {Head(q)}
<1>1. /\ Tail(q) \in Seq(S) /\ Len(q) \in Nat \ {0} /\ Len(Tail(q)) = Len(q) - 1
      /\ \A i \in 1 .. Len(q) - 1 : Tail(q)[i] = q[i + 1]
      /\ Head(q) = q[1]
    OBVIOUS
<1>2. Distinct(Tail(q))
    BY <1>1 DEF Distinct
<1>3. Head(q) \in Members(q)
    BY <1>1 DEF Members
<1>4. Members(Tail(q)) = Members(q) \ {Head(q)}
    <2>1. ASSUME NEW x \in Members(Tail(q)) PROVE x \in Members(q) \ {Head(q)}
        BY <1>1, <2>1 DEF Members, Distinct
    <2>2. ASSUME NEW x \in Members(q) \ {Head(q)} PROVE x \in Members(Tail(q))
        <3>1. PICK i \in 1 .. Len(q) : x = q[i]
            BY DEF Members
        <3>2. i # 1 /\ i - 1 \in 1 .. Len(q) - 1 /\ (i - 1) + 1 = i
            BY <1>1, <3>1
        <3>3. x = Tail(q)[i - 1]
            BY <1>1, <3>1, <3>2
        <3> QED
            BY <1>1, <3>2, <3>3 DEF Members
    <2> QED
        BY <2>1, <2>2
<1> QED
    BY <1>1, <1>2, <1>3, <1>4

LEMMA Reported ==
    ASSUME NEW S, NEW q \in Seq(S), NEW x \in S
    PROVE  /\ Append(q, x) \in Seq(S) /\ Len(Append(q, x)) = Len(q) + 1
           /\ Members(Append(q, x)) = Members(q) \cup {x}
<1>1. /\ Append(q, x) \in Seq(S) /\ Len(Append(q, x)) = Len(q) + 1 /\ Len(q) \in Nat
      /\ \A i \in 1 .. Len(q) : Append(q, x)[i] = q[i]
      /\ Append(q, x)[Len(q) + 1] = x
    OBVIOUS
<1> QED
    BY <1>1 DEF Members

LEMMA EmptyQueue == ASSUME NEW S, NEW q \in Seq(S), Members(q) = {} PROVE q = <<>>
BY DEF Members

LEMMA RangeIsMembers == ASSUME NEW S, NEW q \in Seq(S) PROVE Sweep!Range(q) = Members(q)
BY DEF Sweep!Range, Members

LEMMA SameCardinality == \A S : Sweep!Cardinality(S) = Cardinality(S)
BY DEF Sweep!Cardinality, Cardinality, Sweep!IsFiniteSet, IsFiniteSet

LEMMA MembersFinite == ASSUME NEW S, NEW q \in Seq(S) PROVE IsFiniteSet(Members(q))
<1>1. IsFiniteSet(1 .. Len(q))
    BY FS_Interval
<1>2. q \in Surjection(1 .. Len(q), Members(q))
    BY DEF Surjection, Members
<1> QED
    BY <1>1, <1>2, FS_Surjection

LEMMA SweepNames ==
    ASSUME SweepConstants
    PROVE  /\ Sweep!Range(PRIORITY) = Members(PRIORITY) /\ Sweep!Range(REST) = Members(REST)
           /\ Benchmarks = benchmark_choices /\ IsFiniteSet(Benchmarks)
<1>1. Sweep!Range(PRIORITY) = Members(PRIORITY) /\ Sweep!Range(REST) = Members(REST)
    BY RangeIsMembers DEF SweepConstants
<1>2. IsFiniteSet(Members(PRIORITY)) /\ IsFiniteSet(Members(REST))
    BY MembersFinite DEF SweepConstants
<1> QED
    BY <1>1, <1>2, FS_Union DEF Benchmarks, Sweep!Benchmarks, SweepConstants

-----------------------------------------------------------------------------
(***************************************************************************)
(* The invariant of the sweep: the queue holds the benchmarks of the group *)
(* that have not been started, those of the group before have ended, and   *)
(* what has ended has been reported once.                                  *)
(***************************************************************************)
Ended(b) == status[b] \in {"done", "failed"}
Finished == {b \in Benchmarks : Ended(b)}
Waiting(q) == {b \in Members(q) : status[b] = "waiting"}

SweepTypeOK ==
    /\ group \in 0 .. 3
    /\ queue \in Seq(Benchmarks) /\ Distinct(queue)
    /\ status \in [Benchmarks -> {"waiting", "running", "done", "failed"}]
    /\ measured \in [Benchmarks -> BOOLEAN]
    /\ reported \in Seq(Benchmarks)

GroupsApart ==
    /\ group = 1 => /\ Members(queue) = Waiting(PRIORITY)
                    /\ \A b \in Members(REST) : status[b] = "waiting"
    /\ group = 2 => /\ Members(queue) = Waiting(REST)
                    /\ \A b \in Members(PRIORITY) : Ended(b)
    /\ group = 3 => \A b \in Benchmarks : Ended(b)
    /\ group = 0 => Sweep!PriorityRunsFirst /\ Sweep!Running = {}

ReportedOnce ==
    /\ Members(reported) = Finished /\ Len(reported) = Cardinality(Finished)
    /\ \A b \in Benchmarks : status[b] = "done" => measured[b]

SweepInv == /\ SweepTypeOK /\ GroupsApart /\ ReportedOnce
            /\ JOBS \in Jobs /\ Cardinality(Sweep!Running) <= JOBS
-----------------------------------------------------------------------------
LEMMA InitSweep == ASSUME SweepConstants, Sweep!Init PROVE SweepInv
<1>1. /\ Benchmarks = Members(PRIORITY) \cup Members(REST)
      /\ PRIORITY \in Seq(Benchmarks) /\ Distinct(PRIORITY)
      /\ JOBS \in Jobs /\ JOBS \in Nat
    BY SweepNames DEF SweepConstants, Sweep!Init
<1>2. /\ group = 1 /\ queue = PRIORITY /\ status = [b \in Benchmarks |-> "waiting"]
      /\ measured = [b \in Benchmarks |-> FALSE] /\ reported = <<>>
    BY DEF Sweep!Init, Benchmarks
<1>3. Finished = {} /\ Sweep!Running = {}
    BY <1>2 DEF Finished, Ended, Sweep!Running, Benchmarks
<1>4. Members(<<>>) = {} /\ Cardinality({}) = 0
    BY FS_EmptySet DEF Members
<1> QED
    BY <1>1, <1>2, <1>3, <1>4
       DEF SweepInv, SweepTypeOK, GroupsApart, Waiting, ReportedOnce

LEMMA RunningFinite ==
    ASSUME SweepConstants
    PROVE  /\ IsFiniteSet(Sweep!Running) /\ Cardinality(Sweep!Running) \in Nat
           /\ IsFiniteSet(Finished) /\ Cardinality(Finished) \in Nat
<1>1. Sweep!Running \subseteq Benchmarks /\ Finished \subseteq Benchmarks
    BY DEF Sweep!Running, Finished, Benchmarks
<1> QED
    BY <1>1, SweepNames, FS_Subset, FS_CardinalityType

\* The shell only starts a benchmark in one of its two groups, with room for it.
LEMMA HeadOfQueue ==
    ASSUME SweepConstants, SweepInv, Sweep!CanStart
    PROVE  /\ group \in {1, 2} /\ queue # <<>> /\ Cardinality(Sweep!Running) < JOBS
           /\ Head(queue) \in Benchmarks /\ status[Head(queue)] = "waiting"
           /\ Head(queue) \in Members(IF group = 1 THEN PRIORITY ELSE REST)
           /\ Tail(queue) \in Seq(Benchmarks) /\ Distinct(Tail(queue))
           /\ Members(Tail(queue)) = Members(queue) \ {Head(queue)}
<1>1. group \in {1, 2} /\ queue # <<>> /\ Cardinality(Sweep!Running) < JOBS
    BY SameCardinality DEF Sweep!CanStart
<1>2. /\ Tail(queue) \in Seq(Benchmarks) /\ Distinct(Tail(queue))
      /\ Head(queue) \in Members(queue)
      /\ Members(Tail(queue)) = Members(queue) \ {Head(queue)}
    BY <1>1, QueueTail DEF SweepInv, SweepTypeOK
<1>3. Members(queue) = Waiting(IF group = 1 THEN PRIORITY ELSE REST)
    BY <1>1 DEF SweepInv, GroupsApart
<1> QED
    BY <1>1, <1>2, <1>3, SweepNames DEF Waiting, SweepConstants

\* A benchmark changes from waiting or running to one of the later states.
LEMMA StartRuns ==
    ASSUME SweepConstants, SweepInv, Sweep!CanStart,
           status' = [status EXCEPT ![Head(queue)] = "running"], UNCHANGED reported,
           queue' = Tail(queue), UNCHANGED <<JOBS, group, measured>>
    PROVE  SweepInv'
<1> DEFINE b == Head(queue)
<1>1. /\ group \in {1, 2} /\ queue # <<>> /\ Cardinality(Sweep!Running) < JOBS
      /\ b \in Benchmarks /\ status[b] = "waiting"
      /\ b \in Members(IF group = 1 THEN PRIORITY ELSE REST)
      /\ queue' \in Seq(Benchmarks) /\ Distinct(queue')
      /\ Members(queue') = Members(queue) \ {b}
    BY HeadOfQueue
<1>2. status' = [status EXCEPT ![b] = "running"]
    OBVIOUS
<1> HIDE DEF b
<1>3. SweepTypeOK'
    BY <1>1, <1>2 DEF SweepInv, SweepTypeOK
<1>4. GroupsApart'
    <2>1. Members(PRIORITY) \cap Members(REST) = {} /\ Members(PRIORITY) \subseteq Benchmarks
          /\ Members(REST) \subseteq Benchmarks
        BY SweepNames DEF SweepConstants
    <2>2. CASE group = 1
        BY <1>1, <1>2, <2>1, <2>2 DEF SweepInv, SweepTypeOK, GroupsApart, Waiting
    <2>3. CASE group = 2
        BY <1>1, <1>2, <2>1, <2>3 DEF SweepInv, SweepTypeOK, GroupsApart, Waiting, Ended
    <2> QED
        BY <1>1, <2>2, <2>3
<1>5. ReportedOnce'
    <2>1. Finished' = Finished
        BY <1>1, <1>2 DEF SweepInv, SweepTypeOK, Finished, Ended
    <2> QED
        BY <1>1, <1>2, <2>1 DEF SweepInv, SweepTypeOK, ReportedOnce
<1>6. Cardinality(Sweep!Running') <= JOBS
    <2>1. Sweep!Running' = Sweep!Running \cup {b}
        BY <1>1, <1>2 DEF SweepInv, SweepTypeOK, Sweep!Running, Benchmarks
    <2>2. /\ IsFiniteSet(Sweep!Running) /\ Cardinality(Sweep!Running) \in Nat
          /\ JOBS \in Nat
        BY RunningFinite DEF SweepConstants, SweepInv
    <2>3. \/ Cardinality(Sweep!Running \cup {b}) = Cardinality(Sweep!Running)
          \/ Cardinality(Sweep!Running \cup {b}) = Cardinality(Sweep!Running) + 1
        BY <2>2, FS_AddElement
    <2>4. Cardinality(Sweep!Running) + 1 <= JOBS
        BY <1>1, <2>2
    <2> QED
        BY <2>1, <2>2, <2>3, <2>4
<1> QED
    BY <1>3, <1>4, <1>5, <1>6 DEF SweepInv

\* A benchmark of the group fails or is done: it is reported, and runs no more.
LEMMA ReportEnds ==
    ASSUME SweepConstants, SweepInv, group \in {1, 2},
           NEW b \in Members(IF group = 1 THEN PRIORITY ELSE REST), ~Ended(b),
           NEW v \in {"done", "failed"}, v = "done" => measured[b],
           status' = [status EXCEPT ![b] = v], reported' = Append(reported, b),
           UNCHANGED <<JOBS, group, measured>>, queue' \in Seq(Benchmarks), Distinct(queue'),
           Members(queue') = Members(queue) \ {b}
    PROVE  SweepInv'
<1>1. /\ Members(PRIORITY) \subseteq Benchmarks /\ Members(REST) \subseteq Benchmarks
      /\ Members(PRIORITY) \cap Members(REST) = {} /\ b \in Benchmarks
    BY SweepNames DEF SweepConstants
<1>2. /\ Append(reported, b) \in Seq(Benchmarks)
      /\ Len(Append(reported, b)) = Len(reported) + 1
      /\ Members(Append(reported, b)) = Members(reported) \cup {b}
    BY <1>1, Reported DEF SweepInv, SweepTypeOK
<1>3. SweepTypeOK'
    BY <1>1, <1>2 DEF SweepInv, SweepTypeOK
<1>4. status'[b] = v /\ \A c \in Benchmarks : c # b => status'[c] = status[c]
    BY <1>1 DEF SweepInv, SweepTypeOK
<1>5. GroupsApart'
    <2>1. CASE group = 1
        BY <1>1, <1>4, <2>1 DEF SweepInv, GroupsApart, Waiting
    <2>2. CASE group = 2
        BY <1>1, <1>4, <2>2 DEF SweepInv, GroupsApart, Waiting, Ended
    <2> QED
        BY <2>1, <2>2
<1>6. ReportedOnce'
    <2>1. Finished' = Finished \cup {b} /\ b \notin Finished
        BY <1>1, <1>4 DEF Finished, Ended
    <2>2. Cardinality(Finished \cup {b}) = Cardinality(Finished) + 1
        BY <2>1, RunningFinite, FS_AddElement
    <2>3. \A c \in Benchmarks : status'[c] = "done" => measured'[c]
        BY <1>1, <1>4 DEF SweepInv, ReportedOnce
    <2> QED
        BY <1>2, <2>1, <2>2, <2>3 DEF SweepInv, ReportedOnce
<1>7. Cardinality(Sweep!Running') <= JOBS
    <2>1. Sweep!Running' \subseteq Sweep!Running
        BY <1>1, <1>4 DEF Sweep!Running, Benchmarks
    <2>2. /\ IsFiniteSet(Sweep!Running) /\ Cardinality(Sweep!Running) \in Nat
          /\ JOBS \in Nat /\ Cardinality(Sweep!Running) <= JOBS
        BY RunningFinite DEF SweepConstants, SweepInv
    <2>3. IsFiniteSet(Sweep!Running') /\ Cardinality(Sweep!Running') <= Cardinality(Sweep!Running)
        BY <2>1, <2>2, FS_Subset
    <2>4. Cardinality(Sweep!Running') \in Nat
        BY <2>3, FS_CardinalityType
    <2> QED
        BY <2>2, <2>3, <2>4
<1> QED
    BY <1>3, <1>5, <1>6, <1>7 DEF SweepInv

LEMMA StartStep == ASSUME SweepConstants, SweepInv, Sweep!Start PROVE SweepInv'
<1>1. Sweep!CanStart /\ Head(queue) \in Benchmarks /\ Benchmarks = benchmark_choices
    BY HeadOfQueue, SweepNames DEF Sweep!Start
<1> QED
    BY <1>1, StartRuns DEF Sweep!Start

\* In this shell, nothing is running: set -e leaves what has been done.
LEMMA MkdirStep == ASSUME SweepConstants, SweepInv, Sweep!MkdirFails PROVE SweepInv'
<1>1. /\ group \in {1, 2} /\ Cardinality(Sweep!Running) < JOBS
      /\ Head(queue) \in Members(IF group = 1 THEN PRIORITY ELSE REST)
      /\ Head(queue) \in Benchmarks /\ status[Head(queue)] = "waiting"
      /\ Tail(queue) \in Seq(Benchmarks) /\ Distinct(Tail(queue))
      /\ Members(Tail(queue)) = Members(queue) \ {Head(queue)}
    BY HeadOfQueue DEF Sweep!MkdirFails
<1>2. CASE JOBS = 1
    <2>1. /\ group' = 0 /\ queue' = Tail(queue)
          /\ UNCHANGED <<JOBS, status, reported, measured>>
        BY <1>2 DEF Sweep!MkdirFails
    <2>2. Sweep!Running = {} /\ Sweep!Running' = {}
        <3>1. Cardinality(Sweep!Running) = 0
            BY <1>1, <1>2, RunningFinite
        <3> QED
            BY <2>1, <3>1, RunningFinite, FS_EmptySet DEF Sweep!Running, Benchmarks
    <2>3. Sweep!PriorityRunsFirst'
        <3>1. Sweep!PriorityRunsFirst
            BY <1>1, SweepNames
               DEF Sweep!PriorityRunsFirst, SweepInv, GroupsApart, Ended
        <3> QED
            BY <2>1, <3>1 DEF Sweep!PriorityRunsFirst
    <2>4. SweepTypeOK'
        BY <1>1, <2>1 DEF SweepInv, SweepTypeOK
    <2>5. GroupsApart'
        BY <2>1, <2>2, <2>3 DEF GroupsApart
    <2>6. ReportedOnce'
        BY <2>1 DEF SweepInv, ReportedOnce, Finished, Ended
    <2>7. Cardinality(Sweep!Running') <= JOBS
        BY <2>2 DEF SweepInv
    <2> QED
        BY <2>1, <2>4, <2>5, <2>6, <2>7 DEF SweepInv
<1>3. CASE JOBS # 1
    <2> DEFINE b == Head(queue)
    <2>1. /\ status' = [status EXCEPT ![b] = "failed"] /\ reported' = Append(reported, b)
          /\ UNCHANGED <<JOBS, group, measured>> /\ queue' = Tail(queue)
        BY <1>3 DEF Sweep!MkdirFails, Sweep!Report
    <2>2. ~Ended(b)
        BY <1>1 DEF Ended
    <2> HIDE DEF b
    <2>3. b \in Members(IF group = 1 THEN PRIORITY ELSE REST)
        BY <1>1 DEF b
    <2>4. /\ queue' \in Seq(Benchmarks) /\ Distinct(queue')
          /\ Members(queue') = Members(queue) \ {b}
        BY <1>1, <2>1 DEF b
    <2> QED
        BY <1>1, <2>1, <2>2, <2>3, <2>4, ReportEnds
<1> QED
    BY <1>2, <1>3

LEMMA GroupEndsStep == ASSUME SweepConstants, SweepInv, Sweep!GroupEnds PROVE SweepInv'
<1>1. /\ group \in {1, 2} /\ queue = <<>> /\ Sweep!Running = {}
      /\ group' = group + 1 /\ queue' = IF group = 1 THEN REST ELSE <<>>
      /\ UNCHANGED <<JOBS, status, measured, reported>>
    BY DEF Sweep!GroupEnds
<1>2. /\ Members(PRIORITY) \subseteq Benchmarks /\ Members(REST) \subseteq Benchmarks
      /\ Benchmarks = Members(PRIORITY) \cup Members(REST)
      /\ REST \in Seq(Benchmarks) /\ Distinct(REST)
    BY SweepNames DEF SweepConstants
<1>3. Members(<<>>) = {} /\ Distinct(<<>>)
    BY DEF Members, Distinct
<1>4. \A b \in Benchmarks : status[b] = "waiting" \/ Ended(b)
    BY <1>1 DEF SweepInv, SweepTypeOK, Sweep!Running, Ended, Benchmarks
<1>5. SweepTypeOK'
    BY <1>1, <1>2, <1>3 DEF SweepInv, SweepTypeOK
<1>6. GroupsApart'
    <2>1. CASE group = 1
        <3>1. \A b \in Members(PRIORITY) : Ended(b)
            BY <1>1, <1>2, <1>3, <1>4, <2>1 DEF SweepInv, GroupsApart, Waiting
        <3>2. Members(REST) = Waiting(REST)
            BY <2>1 DEF SweepInv, GroupsApart, Waiting
        <3> QED
            BY <1>1, <2>1, <3>1, <3>2 DEF GroupsApart, Waiting, Ended
    <2>2. CASE group = 2
        <3>1. \A b \in Benchmarks : Ended(b)
            BY <1>1, <1>2, <1>3, <1>4, <2>2 DEF SweepInv, GroupsApart, Waiting
        <3> QED
            BY <1>1, <2>2, <3>1 DEF GroupsApart, Ended
    <2> QED
        BY <1>1, <2>1, <2>2
<1>7. ReportedOnce' /\ Cardinality(Sweep!Running') <= JOBS
    BY <1>1 DEF SweepInv, ReportedOnce, Finished, Ended, Sweep!Running
<1> QED
    BY <1>1, <1>5, <1>6, <1>7 DEF SweepInv

LEMMA RunStep ==
    ASSUME SweepConstants, SweepInv, NEW b \in Benchmarks,
           Sweep!Measure(b) \/ Sweep!RunEnds(b)
    PROVE  SweepInv'
<1>1. CASE Sweep!Measure(b)
    <2>1. /\ measured' = [measured EXCEPT ![b] = TRUE]
          /\ UNCHANGED <<JOBS, group, queue, status, reported>>
        BY <1>1 DEF Sweep!Measure
    <2>2. \A c \in Benchmarks : measured[c] => measured'[c]
        BY <2>1 DEF SweepInv, SweepTypeOK
    <2>3. SweepTypeOK'
        BY <2>1 DEF SweepInv, SweepTypeOK
    <2>4. GroupsApart'
        BY <2>1 DEF SweepInv, GroupsApart, Waiting, Ended, Sweep!PriorityRunsFirst,
                    Sweep!Running
    <2>5. ReportedOnce' /\ Cardinality(Sweep!Running') <= JOBS
        BY <2>1, <2>2 DEF SweepInv, ReportedOnce, Finished, Ended, Sweep!Running
    <2> QED
        BY <2>1, <2>3, <2>4, <2>5 DEF SweepInv
<1>2. CASE Sweep!RunEnds(b)
    <2>1. PICK v \in {"done", "failed"} :
              /\ v = "done" => measured[b]
              /\ status' = [status EXCEPT ![b] = v] /\ reported' = Append(reported, b)
              /\ UNCHANGED <<JOBS, group, queue, measured>>
        BY <1>2 DEF Sweep!RunEnds, Sweep!GemDone, Sweep!GemFails, Sweep!Report
    <2>2. status[b] = "running" /\ b \in Sweep!Running
        BY <1>2 DEF Sweep!RunEnds, Sweep!GemDone, Sweep!GemFails, Sweep!Running, Benchmarks
    <2>3. group \in {1, 2}
        BY <2>2 DEF SweepInv, SweepTypeOK, GroupsApart, Ended
    <2>4. b \in Members(IF group = 1 THEN PRIORITY ELSE REST)
        <3>1. b \in Members(PRIORITY) \cup Members(REST)
            BY SweepNames DEF SweepConstants
        <3> QED
            BY <2>2, <2>3, <3>1 DEF SweepInv, GroupsApart, Ended
    <2>5. Members(queue) = Members(queue) \ {b}
        BY <2>2, <2>3 DEF SweepInv, GroupsApart, Waiting
    <2>6. queue' \in Seq(Benchmarks) /\ Distinct(queue')
        BY <2>1 DEF SweepInv, SweepTypeOK
    <2>7. ~Ended(b)
        BY <2>2 DEF Ended
    <2> QED
        BY <2>1, <2>3, <2>4, <2>5, <2>6, <2>7, ReportEnds
<1> QED
    BY <1>1, <1>2

LEMMA SweepInvariant == ASSUME SweepConstants PROVE Sweep!Spec => []SweepInv
<1>1. Sweep!Init => SweepInv
    BY InitSweep
<1>2. SweepInv /\ [Sweep!Next]_(Sweep!svars) => SweepInv'
    <2> SUFFICES ASSUME SweepInv, [Sweep!Next]_(Sweep!svars) PROVE SweepInv'
        OBVIOUS
    <2>1. CASE Sweep!Start
        BY <2>1, StartStep
    <2>2. CASE Sweep!MkdirFails
        BY <2>2, MkdirStep
    <2>3. CASE Sweep!GroupEnds
        BY <2>3, GroupEndsStep
    <2>4. ASSUME NEW b \in Benchmarks, Sweep!Measure(b) \/ Sweep!RunEnds(b)
          PROVE  SweepInv'
        BY <2>4, RunStep
    <2>5. CASE UNCHANGED Sweep!svars
        <3>1. UNCHANGED <<JOBS, group, queue, status, measured, reported>>
            BY <2>5 DEF Sweep!svars
        <3>2. SweepTypeOK' /\ GroupsApart'
            BY <3>1 DEF SweepInv, SweepTypeOK, GroupsApart, Waiting, Ended,
                        Sweep!PriorityRunsFirst, Sweep!Running
        <3>3. ReportedOnce' /\ Cardinality(Sweep!Running') <= JOBS
            BY <3>1 DEF SweepInv, ReportedOnce, Finished, Ended, Sweep!Running
        <3> QED
            BY <3>1, <3>2, <3>3 DEF SweepInv
    <2> QED
        BY <2>1, <2>2, <2>3, <2>4, <2>5 DEF Sweep!Next, Benchmarks
<1> QED
    BY <1>1, <1>2, PTL DEF Sweep!Spec

\* run_bpc_parsec_sweep.sh, for any benchmarks and any JOBS: no run of the second
\* group overlaps one of the first, at most JOBS run at once, and "=== all done ==="
\* means that every benchmark has been run and reported exactly once, and that
\* each reported as done has its statistics.
THEOREM SweepIsComplete == Sweep!Spec => []AllDoneIsComplete
<1>0. SweepConstants
    BY GroupsOfTheSweep
<1>1. SweepInv => AllDoneIsComplete
    <2> SUFFICES ASSUME SweepInv PROVE AllDoneIsComplete
        OBVIOUS
    <2>1. Sweep!PriorityRunsFirst
        BY <1>0, SweepNames DEF Sweep!PriorityRunsFirst, SweepInv, SweepTypeOK, GroupsApart,
                          Ended, SweepConstants
    <2>2. Sweep!Cardinality(Sweep!Running) <= JOBS
        BY SameCardinality DEF SweepInv
    <2>3. ASSUME group = 3
          PROVE  /\ Sweep!Running = {} /\ Sweep!Range(reported) = benchmark_choices
                 /\ Len(reported) = Sweep!Cardinality(benchmark_choices)
                 /\ \A b \in benchmark_choices : status[b] = "done" => measured[b]
        <3>1. \A b \in Benchmarks : Ended(b)
            BY <2>3 DEF SweepInv, GroupsApart
        <3>2. Finished = benchmark_choices
            BY <3>1, <1>0, SweepNames DEF Finished
        <3>3. Sweep!Running = {}
            BY <3>1 DEF Sweep!Running, Ended, Benchmarks
        <3>4. Sweep!Range(reported) = Finished
            BY RangeIsMembers DEF SweepInv, SweepTypeOK, ReportedOnce
        <3>5. Len(reported) = Sweep!Cardinality(Finished)
            BY SameCardinality DEF SweepInv, ReportedOnce
        <3>6. \A b \in Benchmarks : status[b] = "done" => measured[b]
            BY DEF SweepInv, ReportedOnce
        <3> QED
            BY <3>2, <3>3, <3>4, <3>5, <3>6, <1>0, SweepNames
    <2> QED
        BY <2>1, <2>2, <2>3 DEF AllDoneIsComplete, Sweep!AllDoneIsComplete
<1> QED
    BY <1>0, <1>1, SweepInvariant, PTL

-----------------------------------------------------------------------------
(***************************************************************************)
(* The full-system scripts, for any number of regions of interest.         *)
(***************************************************************************)
\* What the measuring scripts have in common.
ParsecMain     == <<"reset", "run", "roi_ticks">>
ParsecCommand  == <<"cd", "source", "parsecmgmt", "sleep", "m5 exit">>
ParsecHandlers == [WORKBEGIN |-> [calls |-> <<"reset", "switch">>, yields |-> <<FALSE>>],
                   WORKEND   |-> [calls |-> <<"dump">>,            yields |-> <<TRUE>>]]

LEMMA PartsOfScript ==
    ASSUME NEW m, NEW c, NEW h, NEW p
    PROVE  /\ Sim!Script(m, c, h, p).machine = m /\ Sim!Script(m, c, h, p).command = c
           /\ Sim!Script(m, c, h, p).handlers = h /\ Sim!Script(m, c, h, p).main = p
BY DEF Sim!Script

LEMMA ParsecScript ==
    ASSUME script \in Sim!Parsec
    PROVE  /\ script.main = ParsecMain /\ script.command = ParsecCommand
           /\ script.handlers = ParsecHandlers
           /\ script.machine.switch = "TIMING" /\ script.machine.start # "TIMING"
<1>1. \E m : /\ script = Sim!Script(m, ParsecCommand, ParsecHandlers, ParsecMain)
             /\ m.switch = "TIMING" /\ m.start # "TIMING"
    <2>1. /\ Sim!local_command = ParsecCommand /\ Sim!local_main = ParsecMain
          /\ Sim!zcache_only_command = ParsecCommand /\ Sim!zcache_only_main = ParsecMain
          /\ Sim!cdzcache_command = ParsecCommand /\ Sim!cdzcache_main = ParsecMain
        BY DEF Sim!local_command, Sim!local_main, Sim!zcache_only_command,
               Sim!zcache_only_main, Sim!cdzcache_command, Sim!cdzcache_main,
               ParsecCommand, ParsecMain
    <2>2. /\ Sim!local_handlers = ParsecHandlers
          /\ Sim!zcache_only_handlers = ParsecHandlers
          /\ Sim!cdzcache_handlers = ParsecHandlers
        BY Zenon DEF Sim!local_handlers, Sim!zcache_only_handlers, Sim!cdzcache_handlers,
                     ParsecHandlers
    <2>3. /\ Sim!local_machine.switch = "TIMING" /\ Sim!local_machine.start # "TIMING"
          /\ Sim!zcache_only_machine.switch = "TIMING"
          /\ Sim!zcache_only_machine.start # "TIMING"
          /\ \A b, a \in BOOLEAN : /\ Sim!cdzcache_machine(b, a).switch = "TIMING"
                                   /\ Sim!cdzcache_machine(b, a).start # "TIMING"
        BY DEF Sim!local_machine, Sim!zcache_only_machine, Sim!cdzcache_machine
    <2>4. CASE script = Sim!Script(Sim!local_machine, Sim!local_command,
                                   Sim!local_handlers, Sim!local_main)
        BY <2>1, <2>2, <2>3, <2>4
    <2>5. CASE script = Sim!Script(Sim!zcache_only_machine, Sim!zcache_only_command,
                                   Sim!zcache_only_handlers, Sim!zcache_only_main)
        BY <2>1, <2>2, <2>3, <2>5
    <2>6. ASSUME NEW b \in BOOLEAN, NEW a \in BOOLEAN,
                 script = Sim!Script(Sim!cdzcache_machine(b, a), Sim!cdzcache_command,
                                     Sim!cdzcache_handlers, Sim!cdzcache_main)
          PROVE  \E m : /\ script = Sim!Script(m, ParsecCommand, ParsecHandlers, ParsecMain)
                        /\ m.switch = "TIMING" /\ m.start # "TIMING"
        BY <2>1, <2>2, <2>3, <2>6
    <2>7. \/ script = Sim!Script(Sim!local_machine, Sim!local_command,
                                Sim!local_handlers, Sim!local_main)
          \/ script = Sim!Script(Sim!zcache_only_machine, Sim!zcache_only_command,
                                Sim!zcache_only_handlers, Sim!zcache_only_main)
          \/ \E b, a \in BOOLEAN :
                script = Sim!Script(Sim!cdzcache_machine(b, a), Sim!cdzcache_command,
                                    Sim!cdzcache_handlers, Sim!cdzcache_main)
        BY DEF Sim!Parsec
    <2> QED
        BY <2>4, <2>5, <2>6, <2>7, Zenon
<1>2. PICK m : /\ script = Sim!Script(m, ParsecCommand, ParsecHandlers, ParsecMain)
               /\ m.switch = "TIMING" /\ m.start # "TIMING"
    BY <1>1
<1> QED
    BY <1>2, PartsOfScript

\* The others measure nothing, and only the boot leaves a checkpoint.
LEMMA OtherScript ==
    ASSUME script \in Sim!Others
    PROVE  /\ script.main \in {<<"makedirs", "run", "checkpoint">>, <<"run">>}
           /\ script.command \in {<<"m5 exit">>, <<"hello", "m5 exit">>}
           /\ script \notin Sim!Parsec
<1>1. /\ script.main \in {<<"makedirs", "run", "checkpoint">>, <<"run">>}
      /\ script.command \in {<<"m5 exit">>, <<"hello", "m5 exit">>}
    <2>1. \/ script = Sim!Script(Sim!boot_machine, Sim!boot_command, Sim!NoHandlers,
                                 Sim!boot_main)
          \/ script = Sim!Script(Sim!sanity_machine, Sim!sanity_command, Sim!NoHandlers,
                                 Sim!sanity_main)
        BY Zenon DEF Sim!Others
    <2>2. \/ script.main = Sim!boot_main /\ script.command = Sim!boot_command
          \/ script.main = Sim!sanity_main /\ script.command = Sim!sanity_command
        BY <2>1, PartsOfScript
    <2> QED
        BY <2>2 DEF Sim!boot_main, Sim!boot_command, Sim!sanity_main, Sim!sanity_command
<1>2. <<"makedirs", "run", "checkpoint">> # ParsecMain /\ <<"run">> # ParsecMain
    BY DEF ParsecMain
<1> QED
    BY <1>1, <1>2, ParsecScript

LEMMA HandlerCalls ==
    /\ Sim!Contains(<<"reset", "switch">>, "reset") /\ Sim!Contains(<<"reset", "switch">>, "switch")
    /\ ~Sim!Contains(<<"reset", "switch">>, "dump")
    /\ Sim!Contains(<<"reset">>, "reset") /\ ~Sim!Contains(<<"reset">>, "switch")
    /\ ~Sim!Contains(<<"reset">>, "dump")
    /\ Sim!Contains(<<"dump">>, "dump") /\ ~Sim!Contains(<<"dump">>, "reset")
    /\ ~Sim!Contains(<<"dump">>, "switch")
BY DEF Sim!Contains

-----------------------------------------------------------------------------
(***************************************************************************)
(* The invariant of a run: a measuring script dumps once, at the end of a  *)
(* region at whose start it reset and from which on one core ran; the run  *)
(* has then returned, so that the exit of the process dumps nothing more,  *)
(* unless no region has ended, when its dump is the only one.              *)
(***************************************************************************)
SimTypeOK ==
    /\ script \in Sim!Parsec \cup Sim!Others
    /\ line \in Nat
    /\ DOMAIN guest = {"at", "good", "roi", "regions"}
    /\ guest.at \in Nat /\ guest.regions \in Nat
    /\ DOMAIN machine = {"cpu", "since", "ran", "dumped"}
    /\ advanced \in [{"WORKBEGIN", "WORKEND"} -> Nat]
    /\ events \in Seq({"WORKBEGIN", "WORKEND", "EXIT"})

OfRegion(r) == [since |-> r, ran |-> {"TIMING"}, region |-> r, at |-> "WORKEND"]
Measured    == \E d \in dumps : Sim!OfTheROI(d)

OneRegion ==
    /\ line <= 2 => /\ ~simulating /\ ~guest.roi /\ guest.regions = 0 /\ dumps = {}
                    /\ advanced["WORKEND"] = 0 /\ ~Sim!Contains(events, "WORKEND")
    /\ line = 0 => exit = Sim!None
    /\ simulating => /\ line = 3 /\ exit = Sim!None /\ dumps = {}
                     /\ advanced["WORKEND"] = 0
    /\ advanced["WORKBEGIN"] = guest.regions
    /\ machine.cpu = IF guest.regions = 0 THEN script.machine.start ELSE "TIMING"
    /\ guest.roi => /\ guest.regions > 0 /\ machine.since = guest.regions
                    /\ machine.ran \subseteq {"TIMING"}
    /\ exit # "error" => /\ dumps = {} \/ \E r \in Nat \ {0} : dumps = {OfRegion(r)}
                         /\ Sim!Contains(events, "WORKEND") <=> dumps # {}
                         /\ dumps # {} => machine.dumped
    /\ exit = "error" => dumps = {} \/ \E d \in dumps : dumps = {d} /\ d.at = "EXIT"
    /\ line > 3 /\ exit # "error" => dumps # {}
    /\ exit = "ok" => line > 3
    /\ saved = -1

NoRegion ==
    /\ simulating => line > 0 /\ exit = Sim!None
    /\ exit # "ok" => dumps = {}
    /\ dumps = {} \/ \E d \in dumps : dumps = {d} /\ d.at = "EXIT"
    /\ line = 3 /\ ~simulating /\ exit = Sim!None => guest.at > 0
    /\ saved # -1 => saved > 0

SimInv == /\ SimTypeOK
          /\ IF script \in Sim!Parsec THEN OneRegion ELSE NoRegion
-----------------------------------------------------------------------------
LEMMA InitSim == ASSUME Sim!Init PROVE SimInv
<1>1. /\ script \in Sim!Parsec \cup Sim!Others
      /\ line = 0 /\ simulating = FALSE
      /\ guest = [at |-> 0, good |-> TRUE, roi |-> FALSE, regions |-> 0]
      /\ machine = [cpu |-> script.machine.start, since |-> 0, ran |-> {}, dumped |-> FALSE]
      /\ advanced = [e \in {"WORKBEGIN", "WORKEND"} |-> 0]
      /\ events = <<>> /\ dumps = {} /\ saved = -1 /\ exit = Sim!None
    BY DEF Sim!Init
<1>2. /\ DOMAIN guest = {"at", "good", "roi", "regions"}
      /\ guest.at = 0 /\ guest.regions = 0 /\ guest.roi = FALSE
      /\ DOMAIN machine = {"cpu", "since", "ran", "dumped"} /\ machine.cpu = script.machine.start
    BY <1>1
<1>3. SimTypeOK
    BY <1>1, <1>2 DEF SimTypeOK
<1>4. ~Sim!Contains(events, "WORKEND") /\ Sim!None \notin {"ok", "error"}
    BY <1>1 DEF Sim!Contains, Sim!None
<1>5. OneRegion
    BY <1>1, <1>2, <1>4 DEF OneRegion
<1>6. NoRegion
    BY <1>1 DEF NoRegion
<1> QED
    BY <1>3, <1>5, <1>6 DEF SimInv

LEMMA AppendContains ==
    ASSUME NEW S, NEW q \in Seq(S), NEW x \in S, NEW y
    PROVE  Sim!Contains(Append(q, x), y) <=> Sim!Contains(q, y) \/ x = y
BY DEF Sim!Contains

\* The script's own statements.
LEMMA ScriptTypes == ASSUME SimTypeOK, Sim!ScriptStep PROVE SimTypeOK' /\ script' = script
<1>1. CASE Sim!ResetStats
    <2>1. /\ machine' = [machine EXCEPT !.since = 0, !.ran = {}] /\ line' = line + 1
          /\ UNCHANGED <<script, guest, advanced, events>>
        BY <1>1 DEF Sim!ResetStats
    <2>2. DOMAIN machine' = DOMAIN machine
        BY <2>1 DEF SimTypeOK
    <2> QED
        BY <2>1, <2>2 DEF SimTypeOK
<1>2. CASE ~Sim!ResetStats
    <2>1. /\ line' \in {1, line, line + 1}
          /\ UNCHANGED <<script, guest, machine, advanced, events>>
        BY <1>2 DEF Sim!ScriptStep, Sim!Requires, Sim!Run, Sim!ReportROI, Sim!MakeDirs,
                    Sim!Checkpoint, Sim!Finish
    <2> QED
        BY <2>1 DEF SimTypeOK
<1> QED
    BY <1>1, <1>2

LEMMA ScriptOneRegion ==
    ASSUME SimTypeOK, OneRegion, script \in Sim!Parsec, Sim!ScriptStep
    PROVE  OneRegion'
<1>1. /\ Len(script.main) = 3
      /\ script.main[1] = "reset" /\ script.main[2] = "run" /\ script.main[3] = "roi_ticks"
    BY ParsecScript DEF ParsecMain
<1>2. Sim!None \notin {"ok", "error"}
    BY DEF Sim!None
<1>3. CASE Sim!Requires
    <2>1. /\ line = 0 /\ line' = 1 /\ exit' \in {Sim!None, "error"}
          /\ UNCHANGED <<script, simulating, guest, machine, advanced, events, dumps, saved>>
        BY <1>3 DEF Sim!Requires
    <2> QED
        BY <1>2, <2>1 DEF OneRegion
<1>4. CASE Sim!ResetStats
    <2>1. /\ line = 1 /\ line' = 2
          /\ machine' = [machine EXCEPT !.since = 0, !.ran = {}]
          /\ UNCHANGED <<script, simulating, guest, advanced, events, dumps, saved, exit>>
        BY <1>1, <1>4 DEF Sim!ResetStats, Sim!Scripting
    <2>2. machine'.cpu = machine.cpu
        BY <2>1 DEF SimTypeOK
    <2> HIDE DEF Sim!None
    <2> QED
        BY <1>2, <2>1, <2>2 DEF OneRegion
<1>5. CASE Sim!Run
    <2>1. /\ line = 2 /\ line' = 3 /\ simulating' = TRUE /\ exit = Sim!None
          /\ UNCHANGED <<script, guest, machine, advanced, events, dumps, saved, exit>>
        BY <1>1, <1>5 DEF Sim!Run, Sim!Scripting
    <2> QED
        BY <1>2, <2>1 DEF OneRegion
<1>6. CASE Sim!ReportROI
    <2>1. /\ line = 3 /\ line' = 4 /\ ~simulating /\ exit = Sim!None
          /\ UNCHANGED <<script, simulating, guest, machine, advanced, events, saved>>
        BY <1>1, <1>6 DEF Sim!ReportROI, Sim!Scripting
    <2>2. CASE Sim!Contains(events, "WORKEND")
        <3>1. UNCHANGED <<exit, dumps>>
            BY <1>6, <2>2 DEF Sim!ReportROI
        <3> QED
            BY <1>2, <2>1, <2>2, <3>1 DEF OneRegion
    <2>3. CASE ~Sim!Contains(events, "WORKEND")
        <3>1. dumps = {} /\ exit' = "error" /\ Sim!AtExit
            BY <1>2, <1>6, <2>1, <2>3 DEF Sim!ReportROI, OneRegion
        <3>2. dumps' = {} \/ \E d \in dumps' : dumps' = {d} /\ d.at = "EXIT"
            BY <3>1 DEF Sim!AtExit, Sim!DumpOf
        <3> QED
            BY <1>2, <2>1, <2>3, <3>1, <3>2 DEF OneRegion
    <2> QED
        BY <2>2, <2>3
<1>7. CASE Sim!MakeDirs \/ Sim!Checkpoint
    BY <1>1, <1>7 DEF Sim!MakeDirs, Sim!Checkpoint, Sim!Scripting
<1>8. CASE Sim!Finish
    <2>1. /\ exit = Sim!None /\ ~simulating /\ line > 3 /\ exit' = "ok"
          /\ UNCHANGED <<script, line, simulating, guest, machine, advanced, events, saved>>
        BY <1>1, <1>8 DEF Sim!Finish
    <2>2. dumps # {} /\ machine.dumped
        BY <1>2, <2>1 DEF OneRegion
    <2>3. dumps' = dumps
        BY <1>8, <2>2 DEF Sim!Finish, Sim!AtExit
    <2> QED
        BY <1>2, <2>1, <2>2, <2>3 DEF OneRegion, SimTypeOK
<1> QED
    BY <1>3, <1>4, <1>5, <1>6, <1>7, <1>8 DEF Sim!ScriptStep

LEMMA ScriptNoRegion ==
    ASSUME SimTypeOK, NoRegion, script \in Sim!Others, Sim!ScriptStep
    PROVE  NoRegion'
<1>1. \A i \in 1 .. Len(script.main) : /\ i = 2 => script.main[i] = "run"
                                       /\ script.main[i] = "checkpoint" => i = 3
                                       /\ script.main[i] # "roi_ticks"
    <2>1. CASE script.main = <<"makedirs", "run", "checkpoint">>
        BY <2>1
    <2>2. CASE script.main = <<"run">>
        BY <2>2
    <2> QED
        BY <2>1, <2>2, OtherScript
<1>2. ~Sim!ReportROI
    BY <1>1 DEF Sim!ReportROI, Sim!Scripting
<1>3. CASE Sim!Run
    <2>1. /\ line > 0 /\ line' > 0 /\ simulating' /\ exit = Sim!None
          /\ UNCHANGED <<guest, dumps, saved, exit>>
        BY <1>3 DEF Sim!Run, Sim!Scripting
    <2> QED
        BY <2>1 DEF NoRegion
<1>4. CASE Sim!Checkpoint
    <2>1. /\ line = 3 /\ line' = 4 /\ ~simulating /\ exit = Sim!None /\ saved' = guest.at
          /\ UNCHANGED <<simulating, guest, dumps, exit>>
        BY <1>1, <1>4 DEF Sim!Checkpoint, Sim!Scripting
    <2> QED
        BY <2>1 DEF NoRegion
<1>5. CASE Sim!ResetStats \/ Sim!MakeDirs
    <2>1. /\ line # 2 /\ line' = line + 1 /\ ~simulating
          /\ UNCHANGED <<simulating, guest, dumps, saved, exit>>
        BY <1>1, <1>5 DEF Sim!ResetStats, Sim!MakeDirs, Sim!Scripting
    <2> QED
        BY <2>1 DEF NoRegion, SimTypeOK
<1>6. CASE Sim!Requires
    <2>1. /\ line = 0 /\ line' = 1 /\ exit = Sim!None
          /\ UNCHANGED <<simulating, guest, dumps, saved>>
        BY <1>6 DEF Sim!Requires
    <2> QED
        BY <2>1 DEF NoRegion, Sim!None
<1>7. CASE Sim!Finish
    <2>1. /\ exit = Sim!None /\ exit' = "ok" /\ ~simulating
          /\ UNCHANGED <<line, simulating, guest, saved>>
        BY <1>7 DEF Sim!Finish
    <2>2. dumps = {}
        BY <2>1 DEF NoRegion, Sim!None
    <2>3. dumps' = {} \/ \E d \in dumps' : dumps' = {d} /\ d.at = "EXIT"
        BY <1>7, <2>2 DEF Sim!Finish, Sim!AtExit, Sim!DumpOf
    <2> QED
        BY <2>1, <2>3 DEF NoRegion, Sim!None
<1> QED
    BY <1>2, <1>3, <1>4, <1>5, <1>6, <1>7 DEF Sim!ScriptStep

\* The guest, and gem5's handling of its exit events.
LEMMA HandleTypes ==
    ASSUME SimTypeOK, NEW e \in {"WORKBEGIN", "WORKEND"}, Sim!Handle(e),
           DOMAIN guest' = DOMAIN guest, guest'.at = guest.at, guest'.regions \in Nat
    PROVE  SimTypeOK' /\ script' = script
<1>1. /\ \E m, calls : machine' = Sim!Called(m, calls)
      /\ advanced' = [advanced EXCEPT ![e] = @ + 1] /\ events' = Append(events, e)
      /\ UNCHANGED <<script, line>>
    BY DEF Sim!Handle
<1>2. DOMAIN machine' = {"cpu", "since", "ran", "dumped"}
    BY <1>1 DEF Sim!Called
<1>3. events' \in Seq({"WORKBEGIN", "WORKEND", "EXIT"})
    BY <1>1 DEF SimTypeOK
<1>4. advanced' \in [{"WORKBEGIN", "WORKEND"} -> Nat]
    BY <1>1 DEF SimTypeOK
<1> QED
    BY <1>1, <1>2, <1>3, <1>4 DEF SimTypeOK

LEMMA GuestFields ==
    ASSUME SimTypeOK
    PROVE  /\ Sim!Boot => /\ DOMAIN guest' = DOMAIN guest /\ guest'.at = 1
                          /\ guest'.roi = guest.roi /\ guest'.regions = guest.regions
           /\ Sim!Command => /\ DOMAIN guest' = DOMAIN guest /\ guest'.at = guest.at + 1
                             /\ guest'.roi = FALSE /\ guest'.regions = guest.regions
           /\ Sim!WorkBegin \/ Sim!WorkBeginAgain =>
                 /\ DOMAIN guest' = DOMAIN guest /\ guest'.at = guest.at
                 /\ guest'.regions = guest.regions + 1
           /\ Sim!WorkEnd => /\ DOMAIN guest' = DOMAIN guest /\ guest'.at = guest.at
                             /\ guest'.roi = FALSE /\ guest'.regions = guest.regions
<1>1. DOMAIN guest = {"at", "good", "roi", "regions"}
    BY DEF SimTypeOK
<1>2. ASSUME Sim!Boot
      PROVE  /\ DOMAIN guest' = DOMAIN guest /\ guest'.at = 1
             /\ guest'.roi = guest.roi /\ guest'.regions = guest.regions
    <2>1. guest' = [guest EXCEPT !.at = 1]
        BY <1>2 DEF Sim!Boot
    <2> QED
        BY <1>1, <2>1
<1>3. ASSUME Sim!Command
      PROVE  /\ DOMAIN guest' = DOMAIN guest /\ guest'.at = guest.at + 1
             /\ guest'.roi = FALSE /\ guest'.regions = guest.regions
    <2>1. PICK success \in BOOLEAN :
              guest' = [guest EXCEPT !.at = @ + 1, !.good = @ /\ success, !.roi = FALSE]
        BY <1>3, Zenon DEF Sim!Command
    <2> DEFINE g1 == [guest EXCEPT !.at = guest.at + 1]
               g2 == [g1 EXCEPT !.good = guest.good /\ success]
    <2>2. DOMAIN g1 = DOMAIN guest /\ g1.at = guest.at + 1 /\ g1.good = guest.good
          /\ g1.regions = guest.regions
        BY <1>1
    <2>3. guest' = [[g1 EXCEPT !.good = guest.good /\ success] EXCEPT !.roi = FALSE]
        BY <2>1, <2>2, Zenon
    <2> HIDE DEF g1
    <2>4. DOMAIN g2 = DOMAIN guest /\ g2.at = guest.at + 1 /\ g2.regions = guest.regions
        BY <1>1, <2>2
    <2>5. guest' = [g2 EXCEPT !.roi = FALSE]
        BY <2>3
    <2> HIDE DEF g2
    <2> QED
        BY <1>1, <2>4, <2>5
<1>4. ASSUME Sim!WorkBegin \/ Sim!WorkBeginAgain
      PROVE  /\ DOMAIN guest' = DOMAIN guest /\ guest'.at = guest.at
             /\ guest'.regions = guest.regions + 1
    <2>1. CASE guest' = [guest EXCEPT !.roi = TRUE, !.regions = @ + 1]
        <3> DEFINE g1 == [guest EXCEPT !.roi = TRUE]
        <3>1. DOMAIN g1 = DOMAIN guest /\ g1.at = guest.at /\ g1.regions = guest.regions
            BY <1>1
        <3>2. guest' = [g1 EXCEPT !.regions = guest.regions + 1]
            BY <2>1, <3>1, Zenon
        <3> HIDE DEF g1
        <3> QED
            BY <1>1, <3>1, <3>2
    <2>2. CASE guest' = [guest EXCEPT !.regions = @ + 1]
        BY <1>1, <2>2
    <2> QED
        BY <1>4, <2>1, <2>2, Zenon DEF Sim!WorkBegin, Sim!WorkBeginAgain
<1>5. ASSUME Sim!WorkEnd
      PROVE  /\ DOMAIN guest' = DOMAIN guest /\ guest'.at = guest.at
             /\ guest'.roi = FALSE /\ guest'.regions = guest.regions
    <2>1. guest' = [guest EXCEPT !.roi = FALSE]
        BY <1>5 DEF Sim!WorkEnd
    <2> QED
        BY <1>1, <2>1
<1> QED
    BY <1>2, <1>3, <1>4, <1>5

LEMMA RanFields ==
    ASSUME SimTypeOK
    PROVE  /\ DOMAIN Sim!Ran(machine) = DOMAIN machine
           /\ Sim!Ran(machine).cpu = machine.cpu
           /\ Sim!Ran(machine).since = machine.since
           /\ Sim!Ran(machine).ran = machine.ran \cup {machine.cpu}
<1> DEFINE m == [machine EXCEPT !.ran = machine.ran \cup {machine.cpu}]
<1>1. /\ DOMAIN m = DOMAIN machine /\ m.cpu = machine.cpu /\ m.since = machine.since
      /\ m.ran = machine.ran \cup {machine.cpu}
    BY DEF SimTypeOK
<1>2. Sim!Ran(machine) = [m EXCEPT !.dumped = FALSE]
    BY Zenon DEF Sim!Ran
<1> HIDE DEF m
<1> QED
    BY <1>1, <1>2

LEMMA GuestTypes == ASSUME SimTypeOK, Sim!GuestStep PROVE SimTypeOK' /\ script' = script
<1>1. CASE Sim!Boot \/ Sim!Command
    <2>1. /\ machine' = Sim!Ran(machine) /\ UNCHANGED <<script, line, advanced, events>>
        BY <1>1 DEF Sim!Boot, Sim!Command, Sim!Quiet
    <2>2. DOMAIN guest' = DOMAIN guest /\ guest'.at \in Nat /\ guest'.regions \in Nat
        <3>1. /\ DOMAIN guest' = DOMAIN guest /\ guest'.at \in {1, guest.at + 1}
              /\ guest'.regions = guest.regions
            BY <1>1, GuestFields, Zenon
        <3> QED
            BY <3>1 DEF SimTypeOK
    <2>3. DOMAIN machine' = DOMAIN machine
        BY <2>1, RanFields
    <2> QED
        BY <2>1, <2>2, <2>3 DEF SimTypeOK
<1>2. CASE Sim!Panic
    BY <1>2 DEF Sim!Panic, SimTypeOK
<1>3. CASE Sim!WorkBegin \/ Sim!WorkBeginAgain
    <2>1. Sim!Handle("WORKBEGIN")
        BY <1>3 DEF Sim!WorkBegin, Sim!WorkBeginAgain
    <2>2. DOMAIN guest' = DOMAIN guest /\ guest'.at = guest.at /\ guest'.regions \in Nat
        <3>1. /\ DOMAIN guest' = DOMAIN guest /\ guest'.at = guest.at
              /\ guest'.regions = guest.regions + 1
            BY <1>3, GuestFields, Zenon
        <3> QED
            BY <3>1 DEF SimTypeOK
    <2> QED
        BY <2>1, <2>2, HandleTypes
<1>4. CASE Sim!WorkEnd
    <2>1. Sim!Handle("WORKEND")
        BY <1>4 DEF Sim!WorkEnd
    <2>2. DOMAIN guest' = DOMAIN guest /\ guest'.at = guest.at /\ guest'.regions \in Nat
        BY <1>4, GuestFields DEF SimTypeOK
    <2> QED
        BY <2>1, <2>2, HandleTypes
<1>5. CASE Sim!M5Exit
    <2>1. events' = Append(events, "EXIT") /\ UNCHANGED <<script, line, guest, machine, advanced>>
        BY <1>5 DEF Sim!M5Exit
    <2> QED
        BY <2>1 DEF SimTypeOK
<1> QED
    BY <1>1, <1>2, <1>3, <1>4, <1>5 DEF Sim!GuestStep

\* A region begins: the statistics are reset, and the measured core runs.  The
\* generator of the script has one turn, after which gem5 resets but keeps the core.
LEMMA RegionBegins ==
    ASSUME SimTypeOK, OneRegion, script \in Sim!Parsec, simulating,
           Sim!Handle("WORKBEGIN"), guest'.regions = guest.regions + 1
    PROVE  /\ machine'.cpu = "TIMING" /\ machine'.since = guest'.regions
           /\ machine'.ran = {} /\ dumps' = dumps /\ simulating'
           /\ advanced'["WORKBEGIN"] = advanced["WORKBEGIN"] + 1
           /\ advanced'["WORKEND"] = advanced["WORKEND"]
           /\ events' = Append(events, "WORKBEGIN")
<1> DEFINE m == Sim!Ran(machine)
           mine == /\ "WORKBEGIN" \in DOMAIN script.handlers
                   /\ advanced["WORKBEGIN"] < Len(script.handlers["WORKBEGIN"].yields)
           calls == IF mine THEN script.handlers["WORKBEGIN"].calls
                            ELSE Sim!DefaultCalls["WORKBEGIN"]
<1>1. m.cpu = machine.cpu
    BY RanFields
<1>2. script.handlers = ParsecHandlers /\ script.machine.switch = "TIMING"
      /\ script.machine.start # "TIMING"
    BY ParsecScript
<1>3. /\ DOMAIN ParsecHandlers = {"WORKBEGIN", "WORKEND"}
      /\ ParsecHandlers["WORKBEGIN"].calls = <<"reset", "switch">>
      /\ ParsecHandlers["WORKBEGIN"].yields = <<FALSE>>
    BY Zenon DEF ParsecHandlers
<1>4. Sim!DefaultCalls["WORKBEGIN"] = <<"reset">>
    BY DEF Sim!DefaultCalls
<1>5. mine <=> advanced["WORKBEGIN"] = 0
    BY <1>2, <1>3 DEF SimTypeOK
<1>6. /\ machine' = Sim!Called(m, calls)
      /\ dumps' = IF Sim!Contains(calls, "dump")
                  THEN dumps \cup {Sim!DumpOf(m, "WORKBEGIN")} ELSE dumps
      /\ advanced' = [advanced EXCEPT !["WORKBEGIN"] = @ + 1]
      /\ events' = Append(events, "WORKBEGIN")
      /\ simulating' = ~(mine /\ script.handlers["WORKBEGIN"].yields[advanced["WORKBEGIN"] + 1])
    BY DEF Sim!Handle
<1>7. simulating'
    <2>1. <<FALSE>>[1] = FALSE /\ 0 + 1 = 1
        OBVIOUS
    <2>2. mine => ~script.handlers["WORKBEGIN"].yields[advanced["WORKBEGIN"] + 1]
        BY <1>2, <1>3, <1>5, <2>1, Zenon
    <2> QED
        BY <1>6, <2>2, Zenon
<1> HIDE DEF m, mine
<1>8. calls = IF mine THEN <<"reset", "switch">> ELSE <<"reset">>
    BY <1>2, <1>3, <1>4
<1> HIDE DEF calls
<1>9. Sim!Contains(calls, "reset") /\ ~Sim!Contains(calls, "dump")
      /\ (Sim!Contains(calls, "switch") <=> mine)
    BY <1>8, HandlerCalls
<1>10. machine.cpu = IF mine THEN script.machine.start ELSE "TIMING"
    BY <1>5 DEF OneRegion, SimTypeOK
<1>11. machine'.cpu = "TIMING" /\ machine'.since = guest'.regions /\ machine'.ran = {}
    BY <1>1, <1>2, <1>6, <1>9, <1>10 DEF Sim!Called
<1> QED
    BY <1>6, <1>7, <1>9, <1>11 DEF SimTypeOK

\* A region ends: what is dumped is of that region, and run() returns.
LEMMA RegionEnds ==
    ASSUME SimTypeOK, OneRegion, script \in Sim!Parsec, simulating, guest.roi,
           Sim!Handle("WORKEND"), guest'.regions = guest.regions
    PROVE  /\ machine'.cpu = machine.cpu /\ machine'.dumped
           /\ dumps' = {OfRegion(guest.regions)} /\ ~simulating' /\ events' = Append(events, "WORKEND")
           /\ advanced'["WORKBEGIN"] = advanced["WORKBEGIN"]
<1> DEFINE m == Sim!Ran(machine)
           mine == /\ "WORKEND" \in DOMAIN script.handlers
                   /\ advanced["WORKEND"] < Len(script.handlers["WORKEND"].yields)
           calls == IF mine THEN script.handlers["WORKEND"].calls
                            ELSE Sim!DefaultCalls["WORKEND"]
<1>1. /\ advanced["WORKEND"] = 0 /\ dumps = {} /\ machine.cpu = "TIMING"
      /\ machine.since = guest.regions /\ machine.ran \subseteq {"TIMING"}
    BY DEF OneRegion, SimTypeOK
<1>2. m.cpu = machine.cpu /\ m.since = guest.regions /\ m.ran = {"TIMING"}
    BY <1>1, RanFields
<1>3. script.handlers = ParsecHandlers
    BY ParsecScript
<1>4. /\ DOMAIN ParsecHandlers = {"WORKBEGIN", "WORKEND"}
      /\ ParsecHandlers["WORKEND"].calls = <<"dump">>
      /\ ParsecHandlers["WORKEND"].yields = <<TRUE>>
    BY Zenon DEF ParsecHandlers
<1>5. mine /\ script.handlers["WORKEND"].yields[advanced["WORKEND"] + 1]
    BY <1>1, <1>3, <1>4
<1>6. calls = <<"dump">>
    BY <1>3, <1>4, <1>5
<1>7. /\ machine' = Sim!Called(m, calls)
      /\ dumps' = IF Sim!Contains(calls, "dump")
                  THEN dumps \cup {Sim!DumpOf(m, "WORKEND")} ELSE dumps
      /\ advanced' = [advanced EXCEPT !["WORKEND"] = @ + 1]
      /\ events' = Append(events, "WORKEND")
      /\ simulating' = ~(mine /\ script.handlers["WORKEND"].yields[advanced["WORKEND"] + 1])
    BY DEF Sim!Handle
<1>8. ~simulating'
    BY <1>5, <1>7
<1> HIDE DEF m, mine, calls
<1>9. dumps' = {OfRegion(guest.regions)}
    BY <1>1, <1>2, <1>6, <1>7, HandlerCalls DEF OfRegion, Sim!DumpOf
<1>10. machine'.cpu = machine.cpu /\ machine'.dumped
    BY <1>2, <1>6, <1>7, HandlerCalls DEF Sim!Called
<1> QED
    BY <1>7, <1>8, <1>9, <1>10 DEF SimTypeOK

LEMMA GuestOneRegion ==
    ASSUME SimTypeOK, OneRegion, script \in Sim!Parsec, Sim!GuestStep
    PROVE  OneRegion'
<1>1. /\ simulating /\ line = 3 /\ exit = Sim!None /\ dumps = {}
      /\ ~Sim!Contains(events, "WORKEND")
    <2>1. simulating
        BY DEF Sim!GuestStep, Sim!Boot, Sim!Panic, Sim!Command, Sim!WorkBegin,
               Sim!WorkBeginAgain, Sim!WorkEnd, Sim!M5Exit, Sim!Running
    <2>2. Sim!None # "error"
        BY DEF Sim!None
    <2> QED
        BY <2>1, <2>2 DEF OneRegion
<1>2. script' = script /\ Sim!None \notin {"ok", "error"}
    BY GuestTypes DEF Sim!None
<1>3. CASE Sim!Boot \/ Sim!Command
    <2>1. /\ machine' = Sim!Ran(machine)
          /\ UNCHANGED <<line, simulating, advanced, events, dumps, saved, exit>>
        BY <1>3 DEF Sim!Boot, Sim!Command, Sim!Quiet
    <2>2. /\ machine'.cpu = machine.cpu /\ machine'.since = machine.since
          /\ machine'.ran = machine.ran \cup {machine.cpu}
        BY <2>1, RanFields
    <2>3. guest'.regions = guest.regions /\ (guest'.roi => guest.roi)
        BY <1>3, GuestFields, Zenon
    <2>4. guest.regions > 0 => machine.cpu = "TIMING"
        BY DEF OneRegion, SimTypeOK
    <2>5. guest'.roi => /\ guest'.regions > 0 /\ machine'.since = guest'.regions
                        /\ machine'.ran \subseteq {"TIMING"}
        BY <2>2, <2>3, <2>4 DEF OneRegion
    <2> QED
        BY <1>1, <1>2, <2>1, <2>2, <2>3, <2>5 DEF OneRegion
<1>4. CASE Sim!Panic
    <2>1. /\ exit' = "error" /\ simulating' = FALSE
          /\ UNCHANGED <<line, guest, machine, advanced, events, dumps, saved>>
        BY <1>4 DEF Sim!Panic
    <2> QED
        BY <1>1, <1>2, <2>1 DEF OneRegion
<1>5. CASE Sim!WorkBegin \/ Sim!WorkBeginAgain
    <2>1. guest'.regions = guest.regions + 1 /\ Sim!Handle("WORKBEGIN")
        BY <1>5, GuestFields DEF Sim!WorkBegin, Sim!WorkBeginAgain
    <2>2. /\ machine'.cpu = "TIMING" /\ machine'.since = guest'.regions
          /\ machine'.ran = {} /\ dumps' = dumps /\ simulating'
          /\ advanced'["WORKBEGIN"] = advanced["WORKBEGIN"] + 1
          /\ advanced'["WORKEND"] = advanced["WORKEND"]
          /\ events' = Append(events, "WORKBEGIN")
        BY <1>1, <2>1, RegionBegins
    <2>3. UNCHANGED <<line, saved, exit>>
        BY <2>1 DEF Sim!Handle
    <2>4. ~Sim!Contains(events', "WORKEND")
        BY <1>1, <2>2, AppendContains DEF SimTypeOK
    <2>5. guest'.regions > 0
        BY <2>1 DEF SimTypeOK
    <2> QED
        BY <1>1, <1>2, <2>1, <2>2, <2>3, <2>4, <2>5 DEF OneRegion
<1>6. CASE Sim!WorkEnd
    <2>1. /\ guest'.regions = guest.regions /\ guest'.roi = FALSE /\ guest.roi
          /\ Sim!Handle("WORKEND")
        BY <1>6, GuestFields DEF Sim!WorkEnd
    <2>2. /\ machine'.cpu = machine.cpu /\ machine'.dumped
          /\ dumps' = {OfRegion(guest.regions)} /\ ~simulating'
          /\ events' = Append(events, "WORKEND")
          /\ advanced'["WORKBEGIN"] = advanced["WORKBEGIN"]
        BY <1>1, <2>1, RegionEnds
    <2>3. UNCHANGED <<line, saved, exit>>
        BY <2>1 DEF Sim!Handle
    <2>4. guest.regions \in Nat \ {0}
        BY <2>1 DEF OneRegion, SimTypeOK
    <2>5. dumps' # {} /\ Sim!Contains(events', "WORKEND")
        BY <2>2, AppendContains DEF SimTypeOK
    <2> QED
        BY <1>1, <1>2, <2>1, <2>2, <2>3, <2>4, <2>5 DEF OneRegion
<1>7. CASE Sim!M5Exit
    <2>1. /\ events' = Append(events, "EXIT") /\ simulating' = FALSE
          /\ UNCHANGED <<line, guest, machine, advanced, dumps, saved, exit>>
        BY <1>7 DEF Sim!M5Exit
    <2>2. ~Sim!Contains(events', "WORKEND")
        BY <1>1, <2>1, AppendContains DEF SimTypeOK
    <2> QED
        BY <1>1, <1>2, <2>1, <2>2 DEF OneRegion
<1> QED
    BY <1>3, <1>4, <1>5, <1>6, <1>7 DEF Sim!GuestStep

LEMMA SimCardinality == \A S : Sim!Cardinality(S) = Cardinality(S)
BY DEF Sim!Cardinality, Cardinality, Sim!IsFiniteSet, IsFiniteSet

LEMMA ElementOf ==
    ASSUME NEW S, NEW q \in Seq(S), NEW n \in DOMAIN q
    PROVE  n \in Nat \ {0} /\ q[n] \in S
OBVIOUS

LEMMA GuestNoRegion ==
    ASSUME SimTypeOK, NoRegion, script \in Sim!Others, Sim!GuestStep
    PROVE  NoRegion'
<1>1. script.command \in Seq({"hello", "m5 exit"})
    <2>1. /\ <<"m5 exit">> \in Seq({"hello", "m5 exit"})
          /\ <<"hello", "m5 exit">> \in Seq({"hello", "m5 exit"})
        OBVIOUS
    <2> QED
        BY <2>1, OtherScript
<1>2. \A n \in DOMAIN script.command :
         n \in Nat \ {0} /\ script.command[n] \in {"hello", "m5 exit"}
    BY <1>1, ElementOf
<1>3. ~Sim!Running("parsecmgmt")
    BY <1>2 DEF Sim!Running
<1>4. CASE Sim!Boot \/ Sim!Command
    <2>1. simulating /\ UNCHANGED <<line, simulating, dumps, saved, exit>>
        BY <1>4 DEF Sim!Boot, Sim!Command, Sim!Quiet, Sim!Running
    <2> QED
        BY <2>1 DEF NoRegion, SimTypeOK
<1>5. CASE Sim!Panic
    BY <1>5 DEF Sim!Panic, NoRegion, Sim!None
<1>6. CASE Sim!M5Exit
    <2>1. /\ guest.at \in DOMAIN script.command /\ ~simulating'
          /\ UNCHANGED <<guest, dumps, saved, exit>>
        BY <1>6 DEF Sim!M5Exit, Sim!Running
    <2>2. guest.at > 0
        <3>1. guest.at \in Nat \ {0}
            BY <1>2, <2>1
        <3> QED
            BY <3>1
    <2> QED
        BY <2>1, <2>2 DEF NoRegion
<1> QED
    BY <1>3, <1>4, <1>5, <1>6
       DEF Sim!GuestStep, Sim!WorkBegin, Sim!WorkBeginAgain, Sim!WorkEnd

LEMMA SimInvariant == Sim!Spec => []SimInv
<1>1. SimInv /\ [Sim!Next]_(Sim!rvars) => SimInv'
    <2> SUFFICES ASSUME SimInv, [Sim!Next]_(Sim!rvars) PROVE SimInv'
        OBVIOUS
    <2>1. CASE Sim!Next
        <3>1. SimTypeOK' /\ script' = script
            BY <2>1, ScriptTypes, GuestTypes DEF SimInv, Sim!Next
        <3>2. CASE script \in Sim!Parsec
            <4>1. OneRegion'
                BY <2>1, <3>2, ScriptOneRegion, GuestOneRegion DEF SimInv, Sim!Next
            <4> QED
                BY <3>1, <3>2, <4>1 DEF SimInv
        <3>3. CASE script \notin Sim!Parsec
            <4>1. script \in Sim!Others
                BY <3>3 DEF SimInv, SimTypeOK
            <4>2. NoRegion'
                BY <2>1, <3>3, <4>1, ScriptNoRegion, GuestNoRegion DEF SimInv, Sim!Next
            <4> QED
                BY <3>1, <3>3, <4>2 DEF SimInv
        <3> QED
            BY <3>2, <3>3
    <2>2. CASE UNCHANGED Sim!rvars
        <3>1. UNCHANGED <<script, line, simulating, guest, machine, advanced, events, dumps,
                          saved, exit>>
            BY <2>2 DEF Sim!rvars
        <3> QED
            BY <3>1 DEF SimInv, SimTypeOK, OneRegion, NoRegion
    <2> QED
        BY <2>1, <2>2
<1> QED
    BY <1>1, InitSim, PTL DEF Sim!Spec

\* x86-parsec-local.py, x86-parsec-zcache-only.py and cdzcache_parsec.py, on any
\* host and however many regions the benchmark announces and abandons: stats.txt
\* holds at most one dump, gem5's own at the exit of the process included; unless
\* the run failed it covers a region of interest from its start to its end, with
\* the measured core alone, and if the run failed it does not; a run that ends
\* well has left one.  x86_boot_checkpoint.py saves a guest that has booted.
THEOREM RunDumpsTheROI == Sim!Spec => []DumpCoversTheROI
<1>1. SimInv => DumpCoversTheROI
    <2> SUFFICES ASSUME SimInv PROVE DumpCoversTheROI
        OBVIOUS
    <2>1. dumps = {} \/ \E d \in dumps : dumps = {d}
        <3>1. CASE script \in Sim!Parsec
            BY <3>1 DEF SimInv, OneRegion
        <3>2. CASE script \notin Sim!Parsec
            BY <3>2 DEF SimInv, NoRegion
        <3> QED
            BY <3>1, <3>2
    <2>2. Sim!Cardinality(dumps) <= 1
        <3>1. CASE dumps = {}
            BY <3>1, FS_EmptySet, SimCardinality
        <3>2. ASSUME NEW d \in dumps, dumps = {d} PROVE Cardinality(dumps) <= 1
            <4>1. Cardinality({d}) = 1
                BY FS_Singleton, Zenon
            <4> QED
                BY <3>2, <4>1
        <3> QED
            BY <2>1, <3>1, <3>2, SimCardinality
    <2>3. ASSUME script \in Sim!Parsec
          PROVE  /\ \A d \in dumps : Sim!OfTheROI(d) <=> exit # "error"
                 /\ exit = "ok" => dumps # {}
        <3>1. CASE exit = "error"
            BY <2>3, <3>1 DEF SimInv, OneRegion, Sim!OfTheROI
        <3>2. CASE exit # "error"
            <4>1. dumps = {} \/ \E r \in Nat \ {0} : dumps = {OfRegion(r)}
                BY <2>3, <3>2 DEF SimInv, OneRegion
            <4>2. \A r \in Nat \ {0} : Sim!OfTheROI(OfRegion(r))
                BY DEF Sim!OfTheROI, OfRegion
            <4>3. exit = "ok" => dumps # {}
                BY <2>3 DEF SimInv, OneRegion
            <4> QED
                BY <3>2, <4>1, <4>2, <4>3
        <3> QED
            BY <3>1, <3>2
    <2>4. saved # -1 => saved > 0
        BY DEF SimInv, OneRegion, NoRegion
    <2> QED
        BY <2>2, <2>3, <2>4 DEF DumpCoversTheROI, Sim!DumpCoversTheROI, Sim!IsParsec
<1> QED
    BY <1>1, SimInvariant, PTL

\* What a step does to a measuring script's line, exit code and statistics.
LEMMA ScriptProgress ==
    ASSUME SimTypeOK, OneRegion, script \in Sim!Parsec, Sim!Next
    PROVE  \/ /\ exit = Sim!None /\ line' > 0 /\ exit' \in {Sim!None, "error"}
              /\ Measured' = Measured
           \/ /\ line > 0 /\ exit = Sim!None /\ ~Measured /\ line' > 0 /\ exit' = Sim!None
           \/ /\ line > 0 /\ exit = Sim!None /\ Measured /\ exit' = "ok"
              /\ Measured' = Measured
<1>1. dumps' = dumps => Measured' = Measured
    BY DEF Measured, Sim!OfTheROI
<1>2. Sim!None \notin {"ok", "error"}
    BY DEF Sim!None
<1>3. CASE Sim!Requires
    BY <1>1, <1>3 DEF Sim!Requires
<1>4. CASE Sim!ResetStats \/ Sim!Run \/ Sim!MakeDirs \/ Sim!Checkpoint
    <2>1. line > 0 /\ exit = Sim!None /\ line' = line + 1 /\ exit' = exit /\ dumps' = dumps
        BY <1>4 DEF Sim!ResetStats, Sim!Run, Sim!MakeDirs, Sim!Checkpoint, Sim!Scripting,
                    SimTypeOK
    <2> QED
        BY <1>1, <2>1 DEF SimTypeOK
<1>5. CASE Sim!ReportROI
    <2>1. line > 0 /\ exit = Sim!None /\ line' = line + 1 /\ exit' \in {Sim!None, "error"}
        BY <1>5 DEF Sim!ReportROI, Sim!Scripting, SimTypeOK
    <2>2. Measured' = Measured
        <3>1. CASE Sim!Contains(events, "WORKEND")
            BY <1>1, <1>5, <3>1 DEF Sim!ReportROI
        <3>2. CASE ~Sim!Contains(events, "WORKEND")
            <4>1. dumps = {}
                BY <1>2, <2>1, <3>2 DEF OneRegion
            <4>2. \A d \in dumps' : d.at = "EXIT"
                BY <1>5, <3>2, <4>1 DEF Sim!ReportROI, Sim!AtExit, Sim!DumpOf
            <4>3. ~Measured /\ ~Measured'
                BY <4>1, <4>2 DEF Measured, Sim!OfTheROI
            <4> QED
                BY <4>3 DEF Measured
        <3> QED
            BY <3>1, <3>2
    <2> QED
        BY <2>1, <2>2 DEF SimTypeOK
<1>6. CASE Sim!Finish
    <2>1. Len(script.main) = 3
        BY ParsecScript DEF ParsecMain
    <2>2. line > 3 /\ exit = Sim!None /\ exit' = "ok" /\ Sim!AtExit
        BY <1>6, <2>1 DEF Sim!Finish
    <2>3. PICK r \in Nat \ {0} : dumps = {OfRegion(r)}
        BY <1>2, <2>2 DEF OneRegion
    <2>4. Measured
        BY <2>3 DEF Measured, Sim!OfTheROI, OfRegion
    <2>5. dumps' = dumps
        BY <1>2, <2>2, <2>3 DEF OneRegion, Sim!AtExit
    <2> QED
        BY <1>1, <2>2, <2>4, <2>5 DEF SimTypeOK
<1>7. CASE Sim!GuestStep
    <2>1. simulating /\ line' = line /\ exit' \in {exit, "error"}
          /\ (exit' # exit => dumps' = dumps)
        BY <1>7 DEF Sim!GuestStep, Sim!Boot, Sim!Panic, Sim!Command, Sim!WorkBegin,
                    Sim!WorkBeginAgain, Sim!WorkEnd, Sim!M5Exit, Sim!Running, Sim!Handle,
                    Sim!Quiet
    <2>2. line = 3 /\ exit = Sim!None /\ dumps = {}
        BY <2>1 DEF OneRegion
    <2>3. ~Measured
        BY <2>2 DEF Measured
    <2> QED
        BY <1>1, <2>1, <2>2, <2>3
<1> QED
    BY <1>3, <1>4, <1>5, <1>6, <1>7 DEF Sim!Next, Sim!ScriptStep

\* A full-system script is the job for which run_bpc_parsec_sweep.sh takes it, but
\* for its ending: it is done only when the statistics of a region have been
\* written, it writes them only while it runs, and it does not change its mind.
THEOREM RunIsAJob == Sim!Spec => Sim!Job!Spec
<1> DEFINE status_ == IF ~Sim!IsParsec THEN "waiting"
                      ELSE IF exit = "ok" THEN "done"
                      ELSE IF exit = "error" THEN "failed"
                      ELSE IF line = 0 THEN "waiting" ELSE "running"
           measured_ == Measured
<1>1. Sim!Init => Sim!Job!Init
    BY DEF Sim!Init, Sim!Job!Init, Sim!IsParsec, Sim!None
<1> USE DEF Measured
<1>2. SimInv /\ SimInv' /\ [Sim!Next]_(Sim!rvars) => [Sim!Job!Next]_(Sim!Job!jvars)
    <2> SUFFICES ASSUME SimInv, SimInv', [Sim!Next]_(Sim!rvars)
                 PROVE  [Sim!Job!Next]_(Sim!Job!jvars)
        OBVIOUS
    <2>1. CASE Sim!Next /\ script \in Sim!Parsec
        <3>1. script' = script /\ SimTypeOK /\ OneRegion
            BY <2>1, ScriptTypes, GuestTypes DEF SimInv, Sim!Next
        <3>2. Sim!None \notin {"ok", "error"} /\ line \in Nat /\ line' \in Nat
            BY DEF Sim!None, SimInv, SimTypeOK
        <3>3. \/ status_ = "waiting" /\ status_' \in {"running", "failed"}
                 /\ measured_' = measured_
              \/ status_ = "running" /\ status_' \in {"running", "failed"}
                 /\ measured_' = measured_
              \/ status_ = "running" /\ status_' = "running" /\ ~measured_
              \/ status_ = "running" /\ status_' = "done" /\ measured_
                 /\ measured_' = measured_
            BY <2>1, <3>1, <3>2, ScriptProgress DEF Sim!IsParsec
        <3> QED
            BY <3>3 DEF Sim!Job!Next, Sim!Job!Begin, Sim!Job!Refuse, Sim!Job!Measure,
                        Sim!Job!Done, Sim!Job!Fail, Sim!Job!jvars
    <2>2. CASE Sim!Next /\ script \notin Sim!Parsec
        <3>1. script' = script /\ ~measured_ /\ ~measured_'
            BY <2>2, ScriptTypes, GuestTypes DEF SimInv, Sim!Next, NoRegion, Sim!OfTheROI
        <3> QED
            BY <2>2, <3>1 DEF Sim!IsParsec, Sim!Job!jvars
    <2>3. CASE UNCHANGED Sim!rvars
        BY <2>3 DEF Sim!rvars, Sim!IsParsec, Sim!Job!jvars
    <2> QED
        BY <2>1, <2>2, <2>3
<1> QED
    BY <1>1, <1>2, SimInvariant, PTL DEF Sim!Spec, Sim!Job!Spec

-----------------------------------------------------------------------------
(***************************************************************************)
(* check_stats.py, whatever the files hold: damaged lines, any number of   *)
(* dumps, or no file at all.                                               *)
(***************************************************************************)
Judged    == passed \cup failed \cup skipped
Passes(s) == Check!Holds(s, Check!parse_stats(files[s]))

CheckTypeOK ==
    /\ toCheck \in Seq(Scenario) /\ Distinct(toCheck)
    /\ passed \subseteq Scenario /\ failed \subseteq Scenario /\ skipped \subseteq Scenario
    /\ verdict \in {-1, 0, 1}

CheckInv ==
    /\ CheckTypeOK
    /\ \A s \in Scenario : files[s] # NoFile => files[s] \in Files[s]
    /\ \E r \in Check!Requests : Judged \cup Members(toCheck) = Check!Range(r)
    /\ Judged \cap Members(toCheck) = {}
    /\ passed \cap failed = {} /\ (passed \cup failed) \cap skipped = {}
    /\ \A s \in Judged : s \in skipped <=> files[s] = NoFile
    /\ \A s \in passed : Passes(s)
    /\ \A s \in failed : ~Passes(s)
    /\ verdict # -1 => toCheck = <<>> /\ (verdict = 0 <=> failed = {})
-----------------------------------------------------------------------------
(***************************************************************************)
(* The parser of check_stats.py, for any file: induction over the sets of  *)
(* its lines, which are ordered by inclusion and finite.                   *)
(***************************************************************************)
LEMMA SubsetInduction ==
    ASSUME NEW S, IsFiniteSet(S), NEW T \in SUBSET SUBSET S,
           \A s \in SUBSET S : (\A t \in SUBSET s : t # s => t \in T) => s \in T
    PROVE  T = SUBSET S
<1> DEFINE Bad == (SUBSET S) \ T
<1>1. IsWellFoundedOn(StrictSubsetOrdering(S), SUBSET S)
    BY FS_StrictSubsetOrderingWellFounded, FS_FiniteSubsetsOfFinite
<1> HIDE DEF Bad
<1>2. ASSUME Bad # {} PROVE FALSE
    <2>1. PICK s \in Bad : \A t \in Bad : ~(<<t, s>> \in StrictSubsetOrdering(S))
        <3>1. Bad \subseteq SUBSET S
            BY DEF Bad
        <3> QED
            BY <1>1, <1>2, <3>1, WFMin
    <2>2. s \in SUBSET S /\ s \notin T
        BY DEF Bad
    <2>3. \A t \in SUBSET s : t # s => t \in T
        BY <2>1, <2>2 DEF Bad, StrictSubsetOrdering
    <2> QED
        BY <2>2, <2>3
<1> QED
    BY <1>2 DEF Bad

LEMMA LastElement ==
    ASSUME NEW S, IsFiniteSet(S), S \subseteq Int
    PROVE  \A s \in SUBSET S : s # {} => Check!Max(s) \in s /\ \A x \in s : x <= Check!Max(s)
<1> DEFINE T == {s \in SUBSET S : s # {} => \E m \in s : \A x \in s : m >= x}
<1>1. ASSUME NEW s \in SUBSET S, \A t \in SUBSET s : t # s => t \in T PROVE s \in T
    <2>1. CASE s = {}
        BY <2>1
    <2>2. CASE s # {}
        <3>1. PICK y \in s : TRUE
            BY <2>2
        <3>2. s \ {y} \in T
            BY <1>1, <3>1
        <3>3. CASE s \ {y} = {}
            <4>1. \A x \in s : y >= x
                BY <3>1, <3>3
            <4> QED
                BY <3>1, <4>1
        <3>4. CASE s \ {y} # {}
            <4>1. PICK m \in s \ {y} : \A x \in s \ {y} : m >= x
                BY <3>2, <3>4
            <4>2. y \in Int /\ m \in Int /\ s \subseteq Int
                BY <3>1, <4>1
            <4>3. CASE y >= m
                <5>1. \A x \in s : y >= x
                    BY <4>1, <4>2, <4>3
                <5> QED
                    BY <3>1, <5>1
            <4>4. CASE m >= y
                <5>1. \A x \in s : m >= x
                    BY <4>1, <4>2, <4>4
                <5> QED
                    BY <4>1, <5>1
            <4> QED
                BY <4>2, <4>3, <4>4
        <3> QED
            BY <3>3, <3>4
    <2> QED
        BY <2>1, <2>2
<1>2. T = SUBSET S
    <2>1. T \in SUBSET SUBSET S
        OBVIOUS
    <2> HIDE DEF T
    <2> QED
        BY <1>1, <2>1, SubsetInduction
<1>3. ASSUME NEW s \in SUBSET S, s # {}
      PROVE  Check!Max(s) \in s /\ \A x \in s : x <= Check!Max(s)
    <2>1. \E m \in s : \A x \in s : m >= x
        BY <1>2, <1>3
    <2>2. Check!Max(s) \in s /\ \A x \in s : Check!Max(s) >= x
        BY <2>1 DEF Check!Max
    <2> QED
        BY <2>2, <1>3
<1> QED
    BY <1>3

\* What the lines in s have said so far: for each key, the value on the last of them.
Said(file, s, k)  == {n \in s : file[n] # Check!Noise /\ file[n].key = k}
LastIn(S)         == CHOOSE n \in S : \A m \in S : m <= n
Keys(file, s)     == {file[n].key : n \in {m \in s : file[m] # Check!Noise}}
SaidLast(file, s) == [k \in Keys(file, s) |-> file[LastIn(Said(file, s, k))].value]

\* The loop of parse_stats() over the lines in s.
ReadLines(file, g, s) ==
    IF s = {} THEN <<>>
    ELSE IF file[Check!Max(s)] = Check!Noise THEN g[s \ {Check!Max(s)}]
    ELSE Check!set(g[s \ {Check!Max(s)}], file[Check!Max(s)].key, file[Check!Max(s)].value)

LEMMA OneLine ==
    ASSUME NEW file, IsFiniteSet(DOMAIN file), DOMAIN file \subseteq Int,
           NEW s \in SUBSET DOMAIN file, s # {}
    PROVE  SaidLast(file, s) =
             IF file[Check!Max(s)] = Check!Noise THEN SaidLast(file, s \ {Check!Max(s)})
             ELSE Check!set(SaidLast(file, s \ {Check!Max(s)}),
                            file[Check!Max(s)].key, file[Check!Max(s)].value)
<1> DEFINE x == Check!Max(s)
           r == s \ {x}
<1>1. x \in s /\ \A y \in s : y <= x
    BY LastElement
<1>2. s \subseteq Int
    OBVIOUS
<1> HIDE DEF x
<1>3. CASE file[x] = Check!Noise
    <2>1. \A k : Said(file, s, k) = Said(file, r, k)
        BY <1>3 DEF Said
    <2>2. Keys(file, s) = Keys(file, r)
        BY <1>3 DEF Keys
    <2> QED
        BY <1>3, <2>1, <2>2 DEF SaidLast, x
<1>4. CASE file[x] # Check!Noise
    <2>1. Keys(file, s) = Keys(file, r) \cup {file[x].key}
        BY <1>1, <1>4 DEF Keys
    <2>2. ASSUME NEW k, k # file[x].key PROVE Said(file, s, k) = Said(file, r, k)
        BY <2>2 DEF Said
    <2>3. LastIn(Said(file, s, file[x].key)) = x
        <3> DEFINE S == Said(file, s, file[x].key)
        <3>1. x \in S /\ S \subseteq s
            BY <1>1, <1>4 DEF Said
        <3> HIDE DEF S
        <3>2. LastIn(S) \in S /\ \A m \in S : m <= LastIn(S)
            BY <1>1, <3>1 DEF LastIn
        <3>3. LastIn(S) = x
            BY <1>1, <1>2, <3>1, <3>2
        <3> QED
            BY <3>3 DEF S
    <2>4. DOMAIN SaidLast(file, r) = Keys(file, r)
        BY DEF SaidLast
    <2> DEFINE new == Check!set(SaidLast(file, r), file[x].key, file[x].value)
    <2>5. new = [k \in Keys(file, s) |-> IF k = file[x].key THEN file[x].value
                                         ELSE SaidLast(file, r)[k]]
        BY <2>1, <2>4 DEF Check!set
    <2>6. ASSUME NEW k \in Keys(file, s)
          PROVE  file[LastIn(Said(file, s, k))].value
                   = IF k = file[x].key THEN file[x].value ELSE SaidLast(file, r)[k]
        <3>1. CASE k = file[x].key
            BY <2>3, <3>1
        <3>2. CASE k # file[x].key
            <4>1. k \in Keys(file, r) /\ Said(file, s, k) = Said(file, r, k)
                BY <2>1, <2>2, <3>2
            <4> QED
                BY <3>2, <4>1 DEF SaidLast
        <3> QED
            BY <3>1, <3>2
    <2>7. SaidLast(file, s) = [k \in Keys(file, s) |-> file[LastIn(Said(file, s, k))].value]
        BY DEF SaidLast
    <2>8. SaidLast(file, s) = new
        <3> HIDE DEF new
        <3> QED
            BY <2>5, <2>6, <2>7
    <2> QED
        BY <1>4, <2>8 DEF x
<1> QED
    BY <1>3, <1>4

LEMMA ParserKeepsTheLast ==
    ASSUME NEW file, IsFiniteSet(DOMAIN file), DOMAIN file \subseteq Int
    PROVE  Check!parse_stats(file) = SaidLast(file, DOMAIN file)
<1> DEFINE D == DOMAIN file
           Solves(g) == g = [s \in SUBSET D |-> ReadLines(file, g, s)]
           g == CHOOSE h : Solves(h)
<1>1. Check!parse_stats(file) = g[D]
    BY DEF Check!parse_stats, Check!FoldLeft, Check!MapThenFoldSet, ReadLines
<1>2. SaidLast(file, {}) = <<>>
    BY DEF SaidLast, Keys
<1>3. \E h : Solves(h)
    <2> DEFINE h == [s \in SUBSET D |-> SaidLast(file, s)]
    <2>1. ASSUME NEW s \in SUBSET D PROVE h[s] = ReadLines(file, h, s)
        <3>1. CASE s = {}
            BY <1>2, <3>1 DEF ReadLines
        <3>2. CASE s # {}
            BY <3>2, OneLine DEF ReadLines
        <3> QED
            BY <3>1, <3>2
    <2>2. Solves(h)
        BY <2>1
    <2> QED
        BY <2>2
<1>4. Solves(g)
    BY <1>3
<1> HIDE DEF g
<1>5. \A s \in SUBSET D : g[s] = ReadLines(file, g, s)
    BY <1>4
<1> DEFINE T == {s \in SUBSET D : g[s] = SaidLast(file, s)}
<1>6. ASSUME NEW s \in SUBSET D, \A t \in SUBSET s : t # s => t \in T PROVE s \in T
    <2>1. CASE s = {}
        BY <1>2, <1>5, <2>1 DEF ReadLines
    <2>2. CASE s # {}
        <3>1. Check!Max(s) \in s
            BY <2>2, LastElement
        <3>2. s \ {Check!Max(s)} \in T
            BY <1>6, <3>1
        <3>3. g[s \ {Check!Max(s)}] = SaidLast(file, s \ {Check!Max(s)})
            BY <3>2
        <3>4. g[s] = SaidLast(file, s)
            BY <1>5, <2>2, <3>3, OneLine DEF ReadLines
        <3> QED
            BY <3>4
    <2> QED
        BY <2>1, <2>2
<1>7. T = SUBSET D
    <2>1. T \in SUBSET SUBSET D
        OBVIOUS
    <2> HIDE DEF T
    <2> QED
        BY <1>6, <2>1, SubsetInduction
<1> QED
    BY <1>1, <1>7

\* The assertions of a scenario read the statistics of the scenario only.
LEMMA FailuresReadTheKeys ==
    ASSUME NEW s \in Check!Scenario, NEW stats, NEW other,
           \A k \in Check!KeysOf(s) : stats[k] = other[k]
    PROVE  Check!Failures(s, stats) = Check!Failures(s, other)
<1>1. /\ stats.hits = other.hits /\ stats.misses = other.misses /\ stats.fills = other.fills
      /\ stats.padded = other.padded /\ stats.raw = other.raw
      /\ stats.fragEvictions = other.fragEvictions /\ stats.resRequests = other.resRequests
      /\ stats.resHitRate = other.resHitRate /\ stats.avgFrag = other.avgFrag
      /\ stats.relocations = other.relocations /\ stats.walkDepth = other.walkDepth
      /\ s # "C" => stats.resHits = other.resHits
    BY DEF Check!KeysOf, Check!IntKeys, Check!FloatKeys, Check!Scenario
<1>2. Check!CommonChecks(s, stats) = Check!CommonChecks(s, other)
    BY <1>1, Zenon DEF Check!CommonChecks
<1>3. Check!AmplePoolChecks(stats) = Check!AmplePoolChecks(other)
    BY <1>1, Zenon DEF Check!AmplePoolChecks
<1>4. CASE s = "A"
    <2>1. Check!check_scenario_A(stats) = Check!check_scenario_A(other)
        BY <1>1, <1>2, <1>3, <1>4, Zenon DEF Check!check_scenario_A
    <2> QED
        BY <1>4, <2>1, Zenon DEF Check!CHECKERS, Check!Failures
<1>5. CASE s = "B"
    <2>1. Check!check_scenario_B(stats) = Check!check_scenario_B(other)
        <3>1. s # "C"
            BY <1>5
        <3> QED
        BY <1>1, <1>2, <1>5, <3>1, Zenon DEF Check!check_scenario_B
    <2>2. s # "A"
        BY <1>5
    <2> QED
        BY <1>5, <2>1, <2>2, Zenon DEF Check!CHECKERS, Check!Failures
<1>6. CASE s = "C"
    <2>1. Check!check_scenario_C(stats) = Check!check_scenario_C(other)
        BY <1>1, <1>2, <1>3, <1>6, Zenon DEF Check!check_scenario_C
    <2> QED
        BY <1>6, <2>1 DEF Check!CHECKERS, Check!Failures
<1> QED
    BY <1>4, <1>5, <1>6 DEF Check!Scenario

\* Statistics of which no assertion fails are numbers, but for the hit rate.
LEMMA NoFailureIsANumber ==
    ASSUME NEW s \in Check!Scenario, NEW stats, Check!Failures(s, stats) = {}
    PROVE  \A k \in Check!FloatKeys \ {"resHitRate"} : ~Check!isnan(stats[k])
<1>1. \A c \in Check!CHECKERS(s, stats) : Check!Failing(c) = {}
    BY DEF Check!Failures
<1>2. Check!CommonChecks(s, stats) \in Check!CHECKERS(s, stats)
    BY DEF Check!CHECKERS, Check!check_scenario_A, Check!check_scenario_B,
           Check!check_scenario_C, Check!Scenario
<1>3. ~Check!isnan(stats.avgFrag) /\ ~Check!isnan(stats.walkDepth)
    <2>1. \A k \in DOMAIN Check!CommonChecks(s, stats) : Check!CommonChecks(s, stats)[k]
        BY <1>1, <1>2 DEF Check!Failing
    <2>2. Check!CommonChecks(s, stats).avgFrag /\ Check!CommonChecks(s, stats).walkDepth
        BY <2>1 DEF Check!CommonChecks
    <2> QED
        BY <2>2 DEF Check!CommonChecks
<1>4. ~Check!isnan(stats.relocations)
    <2>1. PICK c \in Check!CHECKERS(s, stats) :
              "relocations" \in DOMAIN c /\ (c.relocations => ~Check!isnan(stats.relocations))
        BY DEF Check!CHECKERS, Check!check_scenario_A, Check!check_scenario_B,
               Check!check_scenario_C, Check!Scenario
    <2> QED
        BY <1>1, <2>1 DEF Check!Failing
<1> QED
    BY <1>3, <1>4 DEF Check!FloatKeys

\* A scenario passes when the final values of its file are good.
LEMMA HoldsIfGood ==
    ASSUME NEW s \in Check!Scenario, NEW file,
           IsFiniteSet(DOMAIN file), DOMAIN file \subseteq Int
    PROVE  Check!Holds(s, Check!parse_stats(file)) <=> Check!Good(s, file)
<1> DEFINE stats == Check!parse_stats(file)
           final == [k \in Check!KeysOf(s) |-> Check!FinalValue(file, k)]
<1>1. stats = [k \in Keys(file, DOMAIN file)
                 |-> file[LastIn(Said(file, DOMAIN file, k))].value]
    BY ParserKeepsTheLast DEF SaidLast
<1> HIDE DEF stats
<1>2. /\ \A k : k \in DOMAIN stats <=> Check!Mentions(file, k) # {}
      /\ \A k \in DOMAIN stats : stats[k] = Check!FinalValue(file, k)
    <2>1. \A k : Said(file, DOMAIN file, k) = Check!Mentions(file, k)
        BY DEF Said, Check!Mentions
    <2>2. \A k : k \in Keys(file, DOMAIN file) <=> Said(file, DOMAIN file, k) # {}
        BY DEF Said, Keys
    <2>3. \A k : Check!FinalValue(file, k) = file[LastIn(Check!Mentions(file, k))].value
        BY DEF Check!FinalValue, LastIn
    <2> QED
        BY <1>1, <2>1, <2>2, <2>3
<1>3. CASE Check!KeysOf(s) \subseteq DOMAIN stats
    <2>1. Check!Failures(s, stats) = Check!Failures(s, final)
        BY <1>2, <1>3, FailuresReadTheKeys
    <2>2. \A k \in Check!KeysOf(s) : stats[k] = Check!FinalValue(file, k)
        BY <1>2, <1>3
    <2>3. Check!KeysOf(s) \ {"resHitRate"} = Check!IntKeys(s) \cup (Check!FloatKeys \ {"resHitRate"})
        BY DEF Check!KeysOf, Check!IntKeys, Check!FloatKeys, Check!Scenario
    <2>4. \A k \in Check!KeysOf(s) : Check!Mentions(file, k) # {}
        BY <1>2, <1>3
    <2>5. Check!Good(s, file) <=>
            /\ \A k \in Check!KeysOf(s) \ {"resHitRate"} : ~Check!isnan(stats[k])
            /\ Check!Failures(s, stats) = {}
        BY <2>1, <2>2, <2>4 DEF Check!Good
    <2>6. Check!Holds(s, stats) <=>
            /\ \A k \in Check!IntKeys(s) : ~Check!isnan(stats[k])
            /\ Check!Failures(s, stats) = {}
        BY <1>3 DEF Check!Holds, Check!Readable
    <2> QED
        BY <2>3, <2>5, <2>6, NoFailureIsANumber DEF stats
<1>4. CASE ~(Check!KeysOf(s) \subseteq DOMAIN stats)
    BY <1>2, <1>4 DEF Check!Holds, Check!Readable, Check!Good, stats
<1> QED
    BY <1>3, <1>4

-----------------------------------------------------------------------------
LEMMA ScenarioFinite == IsFiniteSet(Scenario)
<1>1. IsFiniteSet({"A"}) /\ IsFiniteSet({"B"}) /\ IsFiniteSet({"C"})
    BY FS_Singleton
<1>2. IsFiniteSet({"A"} \cup {"B"})
    BY <1>1, FS_Union
<1>3. IsFiniteSet(({"A"} \cup {"B"}) \cup {"C"})
    BY <1>1, <1>2, FS_Union
<1>4. Scenario = ({"A"} \cup {"B"}) \cup {"C"}
    BY DEF Scenario
<1> QED
    BY <1>3, <1>4

LEMMA DisjointCardinality ==
    ASSUME NEW S, IsFiniteSet(S), NEW T, IsFiniteSet(T), S \cap T = {}
    PROVE  Cardinality(S \cup T) = Cardinality(S) + Cardinality(T)
<1>1. Cardinality(S \cup T) = Cardinality(S) + Cardinality(T) - Cardinality(S \cap T)
    BY FS_Union
<1>2. Cardinality(S) \in Nat /\ Cardinality(T) \in Nat /\ Cardinality(S \cap T) = 0
    BY FS_CardinalityType, FS_EmptySet
<1> QED
    BY <1>1, <1>2

LEMMA RequestsAreLists ==
    \A r \in Check!Requests : r \in Seq(Scenario) /\ Distinct(r) /\ Check!Range(r) = Members(r)
<1> SUFFICES ASSUME NEW r \in Check!Requests
             PROVE  r \in Seq(Scenario) /\ Distinct(r) /\ Check!Range(r) = Members(r)
    OBVIOUS
<1>1. r = <<"A", "B", "C">> \/ \E s \in Scenario : r = <<s>>
    BY DEF Check!Requests, Check!Scenario, Scenario
<1>2. r \in Seq(Scenario)
    <2>1. <<"A", "B", "C">> \in Seq(Scenario) /\ \A s \in Scenario : <<s>> \in Seq(Scenario)
        BY DEF Scenario
    <2> QED
        BY <1>1, <2>1
<1>3. Distinct(r)
    <2>1. CASE r = <<"A", "B", "C">>
        BY <2>1 DEF Distinct
    <2>2. ASSUME NEW s \in Scenario, r = <<s>> PROVE Distinct(r)
        BY <2>2 DEF Distinct
    <2> QED
        BY <1>1, <2>1, <2>2
<1>4. Check!Range(r) = Members(r)
    BY <1>2 DEF Check!Range, Members
<1> QED
    BY <1>2, <1>3, <1>4

LEMMA InitCheck == ASSUME Check!Init PROVE CheckInv
<1>1. /\ toCheck \in Check!Requests /\ passed = {} /\ failed = {} /\ skipped = {}
      /\ verdict = -1
    BY DEF Check!Init
<1>2. \A s \in Scenario : files[s] # NoFile => files[s] \in Files[s]
    BY DEF Check!Init, Check!Left, Scenario
<1> QED
    BY <1>1, <1>2, RequestsAreLists DEF CheckInv, CheckTypeOK, Judged

\* The scenario at the head of the list is judged once and leaves it.
LEMMA NextScenario ==
    ASSUME CheckInv, toCheck # <<>>
    PROVE  /\ Tail(toCheck) \in Seq(Scenario) /\ Distinct(Tail(toCheck))
           /\ Check!Current \in Scenario /\ Check!Current \in Members(toCheck)
           /\ Check!Current \notin Judged
           /\ Members(Tail(toCheck)) = Members(toCheck) \ {Check!Current}
<1>1. toCheck \in Seq(Scenario) /\ Distinct(toCheck)
    BY DEF CheckInv, CheckTypeOK
<1>2. /\ Tail(toCheck) \in Seq(Scenario) /\ Distinct(Tail(toCheck))
      /\ Head(toCheck) \in Members(toCheck)
      /\ Members(Tail(toCheck)) = Members(toCheck) \ {Head(toCheck)}
    BY <1>1, QueueTail
<1>3. Head(toCheck) \in Scenario
    BY <1>1
<1> QED
    BY <1>2, <1>3 DEF CheckInv, Check!Current

LEMMA CheckStep == ASSUME CheckInv, Check!Next PROVE CheckInv'
<1>1. ASSUME toCheck # <<>>, toCheck' = Tail(toCheck), UNCHANGED <<files, verdict>>,
             \/ /\ files[Check!Current] = NoFile /\ skipped' = skipped \cup {Check!Current}
                /\ UNCHANGED <<passed, failed>>
             \/ /\ files[Check!Current] # NoFile /\ Passes(Check!Current)
                /\ passed' = passed \cup {Check!Current} /\ UNCHANGED <<failed, skipped>>
             \/ /\ files[Check!Current] # NoFile /\ ~Passes(Check!Current)
                /\ failed' = failed \cup {Check!Current} /\ UNCHANGED <<passed, skipped>>
      PROVE  CheckInv'
    <2> DEFINE c == Check!Current
    <2>1. /\ toCheck' \in Seq(Scenario) /\ Distinct(toCheck')
          /\ c \in Scenario /\ c \in Members(toCheck) /\ c \notin Judged
          /\ Members(toCheck') = Members(toCheck) \ {c}
        BY <1>1, NextScenario
    <2>2. \/ /\ files[c] = NoFile /\ skipped' = skipped \cup {c}
             /\ UNCHANGED <<passed, failed>>
          \/ /\ files[c] # NoFile /\ Passes(c)
             /\ passed' = passed \cup {c} /\ UNCHANGED <<failed, skipped>>
          \/ /\ files[c] # NoFile /\ ~Passes(c)
             /\ failed' = failed \cup {c} /\ UNCHANGED <<passed, skipped>>
        BY <1>1
    <2> HIDE DEF c
    <2>3. Judged' = Judged \cup {c}
        BY <2>2 DEF Judged
    <2>4. \A s : Passes(s)' <=> Passes(s)
        BY <1>1 DEF Passes
    <2>5. CheckTypeOK'
        BY <1>1, <2>1, <2>2 DEF CheckInv, CheckTypeOK
    <2>6. \E r \in Check!Requests : (Judged \cup Members(toCheck))' = Check!Range(r)
        BY <2>1, <2>3 DEF CheckInv
    <2>7. (Judged \cap Members(toCheck))' = {}
        BY <2>1, <2>3 DEF CheckInv
    <2>8. (passed \cap failed = {} /\ (passed \cup failed) \cap skipped = {})'
        BY <2>1, <2>2 DEF CheckInv, Judged
    <2>9. \A s \in Judged' : s \in skipped' <=> files'[s] = NoFile
        BY <1>1, <2>1, <2>2, <2>3 DEF CheckInv, Judged
    <2>10. (\A s \in passed' : Passes(s)) /\ (\A s \in failed' : ~Passes(s))
        BY <2>2 DEF CheckInv
    <2>11. verdict = -1
        BY <1>1 DEF CheckInv
    <2> QED
        BY <1>1, <2>4, <2>5, <2>6, <2>7, <2>8, <2>9, <2>10, <2>11 DEF CheckInv
<1>2. CASE Check!SkipMissing
    BY <1>1, <1>2 DEF Check!SkipMissing
<1>3. CASE Check!CheckScenario
    BY <1>1, <1>3 DEF Check!CheckScenario, Passes
<1>4. CASE Check!Finish
    <2>1. /\ toCheck = <<>> /\ verdict' = IF failed # {} THEN 1 ELSE 0
          /\ UNCHANGED <<files, toCheck, passed, failed, skipped>>
        BY <1>4 DEF Check!Finish
    <2> QED
        BY <2>1 DEF CheckInv, CheckTypeOK, Judged, Passes
<1> QED
    BY <1>2, <1>3, <1>4 DEF Check!Next

\* check_stats.py, for any files, of any lines: it exits with 0 exactly when the
\* final value of every statistic in each file found exists, is a number and
\* satisfies the assertions of its scenario, whatever was dumped before; an
\* exception in one scenario loses neither it nor the others, each scenario asked
\* for ends in exactly one of the three lists, and only the missing are skipped.
THEOREM VerdictOnTheFinalDump == Check!Spec => []ExitCodeIsTheVerdict
<1>1. CheckInv => ExitCodeIsTheVerdict
    <2> SUFFICES ASSUME CheckInv, verdict # -1
                 PROVE  /\ verdict = 0 <=> \A s \in passed \cup failed : Check!Good(s, files[s])
                        /\ Check!EveryScenarioIsReported
        BY DEF ExitCodeIsTheVerdict, Check!ExitCodeIsTheVerdict
    <2>1. toCheck = <<>> /\ (verdict = 0 <=> failed = {}) /\ Members(toCheck) = {}
        BY DEF CheckInv, Members
    <2>2. verdict = 0 <=> \A s \in passed \cup failed : Check!Good(s, files[s])
        <3>1. \A s \in passed \cup failed : Passes(s) <=> Check!Good(s, files[s])
            <4>1. ASSUME NEW s \in passed \cup failed PROVE Passes(s) <=> Check!Good(s, files[s])
                <5>1. s \in Scenario /\ s \in Judged /\ s \notin skipped
                    BY <4>1 DEF CheckInv, CheckTypeOK, Judged
                <5>2. files[s] \in Files[s]
                    BY <5>1 DEF CheckInv
                <5>3. files[s] \in Seq(Range(files[s]))
                    BY <5>1, <5>2, FilesAssumption
                <5>4. DOMAIN files[s] = 1 .. Len(files[s]) /\ Len(files[s]) \in Nat
                    BY <5>3
                <5>5. IsFiniteSet(DOMAIN files[s]) /\ DOMAIN files[s] \subseteq Int
                    BY <5>4, FS_Interval
                <5>6. s \in Check!Scenario
                    BY <5>1 DEF Scenario, Check!Scenario
                <5> QED
                    BY <5>5, <5>6, HoldsIfGood DEF Passes
            <4> QED
                BY <4>1
        <3> QED
            BY <2>1, <3>1 DEF CheckInv
    <2>3. Judged \in {Check!Range(r) : r \in Check!Requests}
        BY <2>1 DEF CheckInv
    <2>4. skipped = {s \in Judged : files[s] = NoFile}
        BY DEF CheckInv, Judged
    <2>5. Cardinality(passed) + Cardinality(failed) + Cardinality(skipped) = Cardinality(Judged)
        <3>1. IsFiniteSet(Scenario)
            BY ScenarioFinite
        <3>2. /\ IsFiniteSet(passed) /\ IsFiniteSet(failed) /\ IsFiniteSet(skipped)
              /\ IsFiniteSet(passed \cup failed)
            BY <3>1, FS_Subset, FS_Union DEF CheckInv, CheckTypeOK
        <3>3. /\ passed \cap failed = {} /\ (passed \cup failed) \cap skipped = {}
            BY DEF CheckInv
        <3>4. /\ Cardinality(passed) \in Nat /\ Cardinality(failed) \in Nat
              /\ Cardinality(skipped) \in Nat /\ Cardinality({}) = 0
            BY <3>2, FS_CardinalityType, FS_EmptySet
        <3>5. Cardinality(passed \cup failed) = Cardinality(passed) + Cardinality(failed)
            BY <3>2, <3>3, DisjointCardinality
        <3>6. Cardinality((passed \cup failed) \cup skipped)
                = Cardinality(passed \cup failed) + Cardinality(skipped)
            BY <3>2, <3>3, DisjointCardinality
        <3> QED
            BY <3>4, <3>5, <3>6 DEF Judged
    <2>6. \A S : Check!Cardinality(S) = Cardinality(S)
        BY DEF Check!Cardinality, Cardinality, Check!IsFiniteSet, IsFiniteSet
    <2> QED
        BY <2>2, <2>3, <2>4, <2>5, <2>6 DEF Check!EveryScenarioIsReported, Judged
<1>2. CheckInv /\ [Check!Next]_(Check!cvars) => CheckInv'
    <2> SUFFICES ASSUME CheckInv, UNCHANGED Check!cvars PROVE CheckInv'
        BY CheckStep
    <2>1. UNCHANGED <<files, toCheck, passed, failed, skipped, verdict>>
        BY DEF Check!cvars
    <2> QED
        BY <2>1 DEF CheckInv, CheckTypeOK, Judged, Passes
<1> QED
    BY <1>1, <1>2, InitCheck, PTL DEF Check!Spec
=============================================================================
