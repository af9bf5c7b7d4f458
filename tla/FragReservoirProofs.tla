------------------------- MODULE FragReservoirProofs -------------------------
(***************************************************************************)
(* What the reservoir promises, for any set of blocks, any number of slots *)
(* per class and any bound on the timestamps: a bin keeps the coldest of   *)
(* what it was offered, what is handed out fits the request, and the bins  *)
(* are what the fill handler takes them for.                               *)
(***************************************************************************)
EXTENDS FragReservoir, WellFoundedInduction, TLAPS
-----------------------------------------------------------------------------
(***************************************************************************)
(* The smallest and the largest of a set of natural numbers.               *)
(***************************************************************************)
LEMMA MinOfNaturals ==
    ASSUME NEW S \in SUBSET Nat, S # {}
    PROVE  Min(S) \in S /\ \A y \in S : Min(S) <= y
<1>1. PICK x \in S : \A y \in S : ~(<<y, x>> \in OpToRel(<, Nat))
    BY NatLessThanWellFounded, WFMin
<1>2. ASSUME NEW y \in S PROVE x <= y
    <2>1. x \in Nat /\ y \in Nat
        OBVIOUS
    <2>2. ~(y < x)
        BY <1>1, <2>1 DEF OpToRel
    <2> QED
        BY <2>1, <2>2
<1> QED
    BY <1>2 DEF Min

LEMMA MaxOfNaturals ==
    ASSUME NEW N \in Nat, NEW S \in SUBSET (0 .. N), S # {}
    PROVE  Max(S) \in S /\ \A y \in S : y <= Max(S)
<1> DEFINE Below == {z \in 0 .. N : N - z \in S}
<1>1. Below \in SUBSET Nat /\ Below # {}
    <2>1. PICK y \in S : TRUE
        OBVIOUS
    <2>2. N - y \in 0 .. N /\ N - (N - y) = y
        BY <2>1
    <2>3. N - y \in Below
        BY <2>2
    <2> QED
        BY <2>3
<1>2. Min(Below) \in Below /\ \A z \in Below : Min(Below) <= z
    <2> HIDE DEF Below
    <2> QED
        BY <1>1, MinOfNaturals
<1> DEFINE m == N - Min(Below)
<1>3. m \in S /\ Min(Below) = N - m
    BY <1>2
<1> HIDE DEF m
<1>4. ASSUME NEW y \in S PROVE y <= m
    <2>1. N - y \in Below /\ y \in 0 .. N
        <3>1. N - y \in 0 .. N /\ N - (N - y) = y
            OBVIOUS
        <3> QED
            BY <3>1
    <2>2. N - m <= N - y
        BY <1>2, <1>3, <2>1
    <2> QED
        BY <1>3, <2>1, <2>2
<1> QED
    BY <1>3, <1>4 DEF Max

-----------------------------------------------------------------------------
(***************************************************************************)
(* The invariant.  Bins are judged by what they recorded, so nothing has   *)
(* to relate them to the blocks; the timestamps are those of buckets past. *)
(***************************************************************************)
Timestamps == 0 .. now
AllocSizes == Sizes \cup {0}
Candidates == [entry : Block \cup {NoBlock}, allocSize : AllocSizes,
               lastTouch : Timestamps, valid : BOOLEAN]

TypeOK ==
    /\ now \in Nat
    /\ blocks \in [Block -> [valid : BOOLEAN, size : AllocSizes, touch : Timestamps]]
    /\ bins \in [Classes -> [BinSlots -> Candidates]]
    /\ victim \in Candidates
    /\ asked \in AllocSizes
    /\ dropped \in [Classes -> SUBSET Nat]

\* A candidate is in the bin of its size, and a slot without one is as cleared.
InPlace(c, b) == IF c.valid THEN c.entry \in Block /\ sizeToIdx(c.allocSize) = b
                            ELSE c = NoCandidate

CandidatesInPlace == \A b \in Classes : \A s \in BinSlots : InPlace(bins[b][s], b)
VictimFromABin    == \E b \in Classes : InPlace(victim, b)

\* Only a full bin turns candidates away, and only a request makes room again.
DroppedWhenFull == \A b \in Classes : dropped[b] # {} => FreeSlots(b) = {}

ResInv == /\ TypeOK /\ CandidatesInPlace /\ VictimFromABin /\ DroppedWhenFull
          /\ KeepsTheColdest /\ VictimFits
-----------------------------------------------------------------------------
LEMMA ClassOfSize ==
    ASSUME NEW sz \in AllocSizes
    PROVE  sizeToIdx(sz) \in Classes
BY ReservoirAssumption DEF AllocSizes, sizeToIdx, Classes

\* A block of the class of a request, or of a larger one, fits it.
LEMMA ClassFits ==
    ASSUME NEW had \in AllocSizes, NEW wanted \in Sizes,
           sizeToIdx(wanted) <= sizeToIdx(had)
    PROVE  had >= wanted \/ (had = 0 /\ wanted <= 8)
<1>1. had \in {0, 8, 16, 32, 64} /\ wanted \in {0, 8, 16, 32, 64}
    BY ReservoirAssumption DEF AllocSizes
<1>2. had \in Nat /\ wanted \in Nat
    BY <1>1
<1>3. CASE had = 0 \/ had = 8
    BY <1>1, <1>3 DEF sizeToIdx
<1>4. CASE had \in {16, 32, 64}
    BY <1>1, <1>4 DEF sizeToIdx
<1> QED
    BY <1>1, <1>3, <1>4

LEMMA InitResInv == ASSUME RInit PROVE ResInv
<1> USE ReservoirAssumption
<1>1. TypeOK
    BY DEF RInit, TypeOK, Candidates, AllocSizes, Timestamps, NoCandidate
<1>2. CandidatesInPlace /\ VictimFromABin /\ DroppedWhenFull
    BY DEF RInit, CandidatesInPlace, VictimFromABin, DroppedWhenFull, InPlace, NoCandidate, Classes
<1>3. KeepsTheColdest /\ VictimFits
    BY DEF RInit, KeepsTheColdest, VictimFits, NoCandidate, Filled
<1> QED
    BY <1>1, <1>2, <1>3 DEF ResInv

LEMMA SlotTypes ==
    ASSUME TypeOK, NEW b \in Classes, NEW s \in BinSlots
    PROVE  /\ bins[b][s] \in Candidates /\ now \in Nat
           /\ bins[b][s].lastTouch \in 0 .. now /\ bins[b][s].valid \in BOOLEAN
           /\ bins[b][s].allocSize \in AllocSizes
BY DEF TypeOK, Candidates, Timestamps

\* The largest timestamp of a full bin, and the first slot that has it.
LEMMA Warmest ==
    ASSUME TypeOK, NEW b \in Classes
    PROVE  /\ maxTouch(b) \in Nat
           /\ \A s \in BinSlots : bins[b][s].lastTouch <= maxTouch(b)
           /\ maxTouch(b) # 0 => /\ FirstWarmest(b) \in BinSlots
                                 /\ bins[b][FirstWarmest(b)].lastTouch = maxTouch(b)
<1> DEFINE Touches == {bins[b][s].lastTouch : s \in BinSlots}
<1>1. Touches \in SUBSET (0 .. now) /\ Touches # {} /\ now \in Nat
    <2>1. 0 \in BinSlots
        BY ReservoirAssumption DEF BinSlots
    <2> QED
        BY <2>1, SlotTypes
<1>2. maxTouch(b) = Max(Touches)
    BY DEF maxTouch
<1>3. maxTouch(b) \in Touches /\ \A y \in Touches : y <= maxTouch(b)
    <2> HIDE DEF Touches
    <2> QED
        BY <1>1, <1>2, MaxOfNaturals
<1> DEFINE Holding == {s \in BinSlots : bins[b][s].lastTouch = maxTouch(b)}
<1>4. Holding \in SUBSET Nat /\ Holding # {}
    BY <1>3, ReservoirAssumption DEF BinSlots
<1>5. Min(Holding) \in Holding
    <2> HIDE DEF Holding
    <2> QED
        BY <1>4, MinOfNaturals
<1> QED
    BY <1>1, <1>3, <1>5 DEF FirstWarmest

\* The coldest candidate of a bin that has one.
LEMMA ColdestOfABin ==
    ASSUME TypeOK, NEW b \in Classes, Filled(b) # {}
    PROVE  /\ Coldest(b) \in Filled(b)
           /\ \A r \in Filled(b) : bins[b][Coldest(b)].lastTouch <= bins[b][r].lastTouch
<1> DEFINE Touches == {bins[b][s].lastTouch : s \in Filled(b)}
           Coldests == {s \in Filled(b) :
                           \A r \in Filled(b) : bins[b][s].lastTouch <= bins[b][r].lastTouch}
<1>1. Touches \in SUBSET Nat /\ Touches # {}
    <2>1. \A s \in Filled(b) : bins[b][s].lastTouch \in Nat
        BY SlotTypes DEF Filled
    <2> QED
        BY <2>1
<1>2. Min(Touches) \in Touches /\ \A y \in Touches : Min(Touches) <= y
    <2> HIDE DEF Touches
    <2> QED
        BY <1>1, MinOfNaturals
<1>3. Coldests \in SUBSET Nat /\ Coldests # {}
    <2>1. Coldests \in SUBSET Nat
        BY ReservoirAssumption DEF Filled, BinSlots
    <2>2. PICK s \in Filled(b) : bins[b][s].lastTouch = Min(Touches)
        BY <1>2
    <2>3. s \in Coldests
        BY <1>2, <2>2
    <2> QED
        BY <2>1, <2>3
<1>4. Min(Coldests) \in Coldests
    <2> HIDE DEF Coldests
    <2> QED
        BY <1>3, MinOfNaturals
<1> QED
    BY <1>4 DEF Coldest

-----------------------------------------------------------------------------
(***************************************************************************)
(* The steps.                                                              *)
(***************************************************************************)
\* What a step that leaves the bins and the answer alone has to show.
LEMMA QuietStep ==
    ASSUME ResInv, Quiet, UNCHANGED <<bins, dropped>>,
           now' \in Nat, now <= now',
           blocks' \in [Block -> [valid : BOOLEAN, size : AllocSizes, touch : 0 .. now']]
    PROVE  ResInv'
<1> USE ReservoirAssumption DEF ResInv
<1>1. TypeOK'
    <2>1. bins' \in [Classes -> [BinSlots -> Candidates']]
        BY DEF TypeOK, Candidates, Timestamps, AllocSizes
    <2> QED
        BY <2>1 DEF TypeOK, Candidates, Timestamps, AllocSizes, Quiet, NoCandidate
<1>2. VictimFromABin' /\ VictimFits'
    BY DEF Quiet, VictimFromABin, VictimFits, InPlace, NoCandidate, Classes
<1>3. CandidatesInPlace' /\ DroppedWhenFull'
    BY DEF CandidatesInPlace, DroppedWhenFull, InPlace, FreeSlots
<1>4. KeepsTheColdest'
    BY DEF KeepsTheColdest, Filled, Quiet
<1> QED
    BY <1>1, <1>2, <1>3, <1>4 DEF ResInv

\* A sample that is written to a slot: a free one, or that of a candidate which
\* is at least as warm as all others and warmer than the sample.
LEMMA InsertStep ==
    ASSUME ResInv, NEW x \in Block, NEW s \in BinSlots, SampleInto(x, s),
           LET b == sizeToIdx(blocks[x].size)
           IN \/ ~bins[b][s].valid
              \/ /\ FreeSlots(b) = {}
                 /\ \A r \in BinSlots : bins[b][r].lastTouch <= bins[b][s].lastTouch
                 /\ blocks[x].touch < bins[b][s].lastTouch
    PROVE  ResInv'
<1> DEFINE b == sizeToIdx(blocks[x].size)
           c == [entry |-> x, allocSize |-> blocks[x].size, lastTouch |-> blocks[x].touch,
                 valid |-> TRUE]
<1>1. /\ blocks[x].size \in AllocSizes /\ blocks[x].touch \in Timestamps
      /\ b \in Classes /\ c \in Candidates /\ InPlace(c, b)
    <2>1. blocks[x].size \in AllocSizes /\ blocks[x].touch \in Timestamps
        BY DEF ResInv, TypeOK
    <2> QED
        BY <2>1, ClassOfSize DEF Candidates, InPlace
<1>2. /\ bins' = [bins EXCEPT ![b][s] = c]
      /\ UNCHANGED <<blocks, now>>
      /\ victim' = NoCandidate /\ asked' = 0 /\ inserted' = TRUE /\ replSlot' = s
      /\ dropped' = IF bins[b][s].valid
                    THEN [dropped EXCEPT ![b] = @ \cup {bins[b][s].lastTouch}] ELSE dropped
    BY DEF SampleInto, Insert, tagvars
<1> HIDE DEF b, c
<1>3. /\ \A d \in Classes, r \in BinSlots :
             bins'[d][r] = IF d = b /\ r = s THEN c ELSE bins[d][r]
      /\ bins' \in [Classes -> [BinSlots -> Candidates]]
    BY <1>1, <1>2 DEF ResInv, TypeOK
<1>4. TypeOK'
    <2>1. dropped' \in [Classes -> SUBSET Nat]
        BY <1>1, <1>2, SlotTypes DEF ResInv, TypeOK
    <2> QED
        BY <1>2, <1>3, <2>1 DEF ResInv, TypeOK, Candidates, Timestamps, AllocSizes, NoCandidate
<1>5. CandidatesInPlace' /\ VictimFromABin' /\ VictimFits'
    <2>1. CandidatesInPlace'
        BY <1>1, <1>3 DEF ResInv, CandidatesInPlace, InPlace
    <2>2. VictimFromABin' /\ VictimFits'
        BY <1>1, <1>2 DEF VictimFromABin, VictimFits, InPlace, NoCandidate
    <2> QED
        BY <2>1, <2>2
<1>6. DroppedWhenFull'
    <2> SUFFICES ASSUME NEW d \in Classes, dropped'[d] # {} PROVE FreeSlots(d)' = {}
        BY DEF DroppedWhenFull
    <2>1. FreeSlots(d) = {}
        <3>1. CASE d = b /\ bins[b][s].valid
            BY <3>1 DEF b
        <3>2. CASE ~(d = b /\ bins[b][s].valid)
            BY <1>2, <3>2 DEF ResInv, TypeOK, DroppedWhenFull
        <3> QED
            BY <3>1, <3>2
    <2> QED
        BY <1>3, <2>1 DEF FreeSlots, c
<1>7. KeepsTheColdest'
    <2> SUFFICES ASSUME NEW d \in Classes, NEW r \in Filled(d)', NEW touch \in dropped'[d]
                 PROVE  bins'[d][r].lastTouch <= touch
        BY <1>2 DEF KeepsTheColdest
    <2>1. r \in BinSlots
        BY DEF Filled
    <2>2. CASE d # b
        <3>1. r \in Filled(d) /\ touch \in dropped[d]
            BY <1>1, <1>2, <1>3, <2>1, <2>2 DEF Filled, ResInv, TypeOK
        <3> QED
            BY <1>3, <2>1, <2>2, <3>1 DEF ResInv, KeepsTheColdest
    <2>3. CASE d = b
        \* The bin was full, for otherwise nothing has been dropped from it.
        <3>1. bins[b][s].valid /\ FreeSlots(b) = {}
            <4>1. ~bins[b][s].valid => dropped[b] = {}
                BY <1>1 DEF ResInv, DroppedWhenFull, FreeSlots
            <4> QED
                BY <1>2, <2>3, <4>1 DEF b
        <3>2. /\ \A q \in BinSlots : bins[b][q].lastTouch <= bins[b][s].lastTouch
              /\ c.lastTouch < bins[b][s].lastTouch /\ c.lastTouch \in Nat
            BY <1>1, <3>1 DEF b, c, Timestamps, ResInv, TypeOK
        <3>3. \A q \in BinSlots : bins[b][q].lastTouch \in Nat
            BY <1>1, SlotTypes DEF ResInv
        <3>4. touch = bins[b][s].lastTouch \/ touch \in dropped[b]
            BY <1>1, <1>2, <2>3 DEF ResInv, TypeOK
        <3>5. bins[b][s].lastTouch <= touch /\ touch \in Nat
            BY <1>1, <3>1, <3>3, <3>4 DEF ResInv, KeepsTheColdest, Filled, TypeOK
        <3>6. bins[b][r].lastTouch <= touch
            BY <1>1, <2>1, <3>1, <3>2, <3>3, <3>5
        <3> QED
            BY <1>1, <1>3, <2>1, <2>3, <3>2, <3>3, <3>5, <3>6
    <2> QED
        BY <2>2, <2>3
<1> QED
    BY <1>4, <1>5, <1>6, <1>7 DEF ResInv

LEMMA RefuseStep ==
    ASSUME ResInv, NEW x \in Block, SampleRefused(x)
    PROVE  ResInv'
<1> DEFINE b == sizeToIdx(blocks[x].size)
<1>1. b \in Classes /\ blocks[x].touch \in Nat
    BY ClassOfSize DEF ResInv, TypeOK, Timestamps
<1>2. /\ UNCHANGED <<bins, blocks, now>> /\ FreeSlots(b) = {} /\ ~IsColder(blocks[x].touch, b)
      /\ dropped' = [dropped EXCEPT ![b] = @ \cup {blocks[x].touch}]
      /\ victim' = NoCandidate /\ asked' = 0 /\ inserted' = FALSE
    BY DEF SampleRefused, tagvars
<1> HIDE DEF b
<1>3. \A s \in BinSlots : bins[b][s].lastTouch <= blocks[x].touch
    <2>1. \A s \in BinSlots : bins[b][s].lastTouch \in Nat
        BY <1>1, SlotTypes DEF ResInv
    <2> QED
        BY <1>1, <1>2, <2>1, Warmest DEF ResInv, IsColder
<1>4. TypeOK' /\ CandidatesInPlace' /\ VictimFromABin' /\ VictimFits'
    <2>1. TypeOK'
        BY <1>1, <1>2 DEF ResInv, TypeOK, Candidates, Timestamps, AllocSizes, NoCandidate
    <2>2. CandidatesInPlace' /\ VictimFromABin' /\ VictimFits'
        BY <1>1, <1>2 DEF ResInv, CandidatesInPlace, VictimFromABin, VictimFits, InPlace,
                          NoCandidate
    <2> QED
        BY <2>1, <2>2
<1>5. DroppedWhenFull'
    BY <1>1, <1>2 DEF ResInv, TypeOK, DroppedWhenFull, FreeSlots
<1>6. KeepsTheColdest'
    BY <1>1, <1>2, <1>3 DEF ResInv, TypeOK, KeepsTheColdest, Filled
<1> QED
    BY <1>4, <1>5, <1>6 DEF ResInv

\* The coldest candidate of the first class that has one, for a request.
LEMMA HandOutStep ==
    ASSUME ResInv, NEW size \in Sizes \ {0}, NEW b \in Classes,
           b >= sizeToIdx(size), Filled(b) # {},
           \A c \in sizeToIdx(size) .. b - 1 : Filled(c) = {},
           HandOut(b, Coldest(b)), asked' = size, inserted' = FALSE, UNCHANGED tagvars
    PROVE  ResInv'
<1> DEFINE s == Coldest(b)
<1>1. /\ s \in BinSlots /\ bins[b][s].valid
      /\ \A r \in Filled(b) : bins[b][s].lastTouch <= bins[b][r].lastTouch
    BY ColdestOfABin DEF ResInv, Filled
<1>2. /\ victim' = bins[b][s] /\ bins' = [bins EXCEPT ![b][s] = NoCandidate]
      /\ dropped' = [dropped EXCEPT ![b] = {}] /\ UNCHANGED <<blocks, now>>
    BY DEF HandOut, tagvars
<1> HIDE DEF s
<1>3. NoCandidate \in Candidates
    BY DEF NoCandidate, Candidates, AllocSizes, Timestamps, ResInv, TypeOK
<1>4. /\ \A d \in Classes, r \in BinSlots :
             bins'[d][r] = IF d = b /\ r = s THEN NoCandidate ELSE bins[d][r]
      /\ bins' \in [Classes -> [BinSlots -> Candidates]]
    BY <1>1, <1>2, <1>3 DEF ResInv, TypeOK
<1>5. InPlace(victim', b) /\ victim'.valid
    BY <1>1, <1>2 DEF ResInv, CandidatesInPlace
<1>6. TypeOK'
    <2>1. victim' \in Candidates /\ dropped' \in [Classes -> SUBSET Nat] /\ asked' \in AllocSizes
        BY <1>1, <1>2, SlotTypes DEF ResInv, TypeOK, AllocSizes
    <2> QED
        BY <1>2, <1>4, <2>1 DEF ResInv, TypeOK, Candidates, Timestamps, AllocSizes
<1>7. CandidatesInPlace' /\ VictimFromABin'
    <2>1. ASSUME NEW d \in Classes, NEW r \in BinSlots PROVE InPlace(bins'[d][r], d)
        <3>1. InPlace(NoCandidate, d) /\ InPlace(bins[d][r], d)
            BY DEF ResInv, CandidatesInPlace, InPlace, NoCandidate
        <3> QED
            BY <1>4, <3>1
    <2> QED
        BY <1>5, <2>1 DEF CandidatesInPlace, VictimFromABin, InPlace
<1>8. DroppedWhenFull'
    <2> SUFFICES ASSUME NEW d \in Classes, dropped'[d] # {} PROVE FreeSlots(d)' = {}
        BY DEF DroppedWhenFull
    <2>1. d # b /\ dropped[d] # {}
        BY <1>2 DEF ResInv, TypeOK
    <2> QED
        BY <1>4, <2>1 DEF ResInv, DroppedWhenFull, FreeSlots
<1>9. KeepsTheColdest'
    <2> SUFFICES ASSUME NEW d \in Classes, NEW r \in Filled(d)', NEW touch \in dropped'[d]
                 PROVE  bins'[d][r].lastTouch <= touch
        BY DEF KeepsTheColdest
    <2>1. d # b /\ touch \in dropped[d]
        BY <1>2 DEF ResInv, TypeOK
    <2>2. r \in Filled(d) /\ bins'[d][r] = bins[d][r]
        BY <1>4, <2>1 DEF Filled
    <2> QED
        BY <2>1, <2>2 DEF ResInv, KeepsTheColdest
<1>10. VictimFits'
    <2>1. sizeToIdx(victim'.allocSize) = b /\ victim'.allocSize \in AllocSizes
        BY <1>5, <1>6 DEF InPlace, TypeOK, Candidates, AllocSizes
    <2>2. victim'.allocSize >= asked' \/ (victim'.allocSize = 0 /\ asked' <= 8)
        <3>1. sizeToIdx(size) <= b
            BY ReservoirAssumption DEF sizeToIdx, Classes
        <3> QED
            BY <2>1, <3>1, ClassFits
    <2>3. ASSUME NEW d \in sizeToIdx(asked') .. sizeToIdx(victim'.allocSize),
                 NEW r \in Filled(d)'
          PROVE  victim'.lastTouch <= bins'[d][r].lastTouch
        <3>1. d \in sizeToIdx(size) .. b /\ d \in Classes
            BY <2>1, ReservoirAssumption DEF sizeToIdx, Classes
        <3>2. r \in Filled(d) /\ bins'[d][r] = bins[d][r]
            BY <1>4, <3>1 DEF Filled, NoCandidate
        <3>3. d = b
            <4>1. ~(d \in sizeToIdx(size) .. b - 1)
                BY <3>2
            <4> QED
                BY <3>1, <4>1, ReservoirAssumption DEF Classes, sizeToIdx
        <3> QED
            BY <1>1, <1>2, <3>2, <3>3
    <2> QED
        BY <2>2, <2>3 DEF VictimFits, sizeToIdx
<1> QED
    BY <1>6, <1>7, <1>8, <1>9, <1>10 DEF ResInv

LEMMA NothingStep ==
    ASSUME ResInv, NEW size \in Sizes, victim' = NoCandidate,
           asked' = size, inserted' = FALSE, UNCHANGED <<bins, dropped, tagvars>>
    PROVE  ResInv'
<1>1. UNCHANGED <<bins, dropped, blocks, now>>
    BY DEF tagvars
<1>2. TypeOK'
    BY <1>1 DEF ResInv, TypeOK, Candidates, Timestamps, AllocSizes, NoCandidate
<1>3. VictimFromABin' /\ VictimFits'
    BY ReservoirAssumption DEF VictimFromABin, VictimFits, InPlace, NoCandidate, Classes
<1>5. CandidatesInPlace' /\ DroppedWhenFull'
    BY <1>1 DEF ResInv, CandidatesInPlace, InPlace, DroppedWhenFull, FreeSlots
<1>4. KeepsTheColdest'
    BY <1>1 DEF ResInv, KeepsTheColdest, Filled
<1> QED
    BY <1>2, <1>3, <1>4, <1>5 DEF ResInv

LEMMA TagsStep ==
    ASSUME ResInv, Tags
    PROVE  ResInv'
<1> USE DEF ResInv, TypeOK, Timestamps, AllocSizes
<1>1. ASSUME NEW x \in Block, NEW size \in Sizes, Fill(x, size) PROVE ResInv'
    BY <1>1, QuietStep DEF Fill
<1>2. ASSUME NEW x \in Block, Touch(x) PROVE ResInv'
    BY <1>2, QuietStep DEF Touch
<1>3. ASSUME NEW x \in Block, Evict(x) PROVE ResInv'
    BY <1>3, QuietStep DEF Evict
<1>4. CASE Bucket
    <2>1. blocks' \in [Block -> [valid : BOOLEAN, size : AllocSizes, touch : 0 .. now']]
        BY <1>4 DEF Bucket
    <2> QED
        BY <1>4, <2>1, QuietStep DEF Bucket
<1> QED
    BY <1>1, <1>2, <1>3, <1>4 DEF Tags

LEMMA SampleStep ==
    ASSUME ResInv, processSampleEvent
    PROVE  ResInv'
<1>1. ASSUME NEW x \in Block, SampleIntoFree(x) PROVE ResInv'
    <2> DEFINE b == sizeToIdx(blocks[x].size)
    <2>1. Min(FreeSlots(b)) \in FreeSlots(b)
        BY <1>1, MinOfNaturals, ReservoirAssumption DEF SampleIntoFree, FreeSlots, BinSlots
    <2> QED
        BY <1>1, <2>1, InsertStep DEF SampleIntoFree, FreeSlots
<1>2. ASSUME NEW x \in Block, SampleOverWarmest(x) PROVE ResInv'
    <2> DEFINE b == sizeToIdx(blocks[x].size)
    <2>1. b \in Classes /\ blocks[x].touch \in Nat
        BY ClassOfSize DEF ResInv, TypeOK, Timestamps
    <2>2. FreeSlots(b) = {} /\ IsColder(blocks[x].touch, b) /\ SampleInto(x, FirstWarmest(b))
        BY <1>2 DEF SampleOverWarmest
    <2>3. /\ FirstWarmest(b) \in BinSlots
          /\ bins[b][FirstWarmest(b)].lastTouch = maxTouch(b)
          /\ \A r \in BinSlots : bins[b][r].lastTouch <= maxTouch(b)
          /\ blocks[x].touch < maxTouch(b)
        BY <2>1, <2>2, Warmest DEF ResInv, IsColder
    <2> QED
        BY <2>2, <2>3, InsertStep
<1>3. ASSUME NEW x \in Block, SampleInvalid(x) PROVE ResInv'
    BY <1>3, QuietStep DEF SampleInvalid, tagvars, ResInv, TypeOK, Timestamps
<1> QED
    BY <1>1, <1>2, <1>3, RefuseStep DEF processSampleEvent

LEMMA RequestStep ==
    ASSUME ResInv, NEW size \in Sizes \ {0}, getVictim(size)
    PROVE  ResInv'
<1>1. ASSUME NEW b \in sizeToIdx(size) .. NumClasses - 1, Filled(b) # {},
             \A c \in sizeToIdx(size) .. b - 1 : Filled(c) = {}, HandOut(b, Coldest(b))
      PROVE  ResInv'
    <2>1. b \in Classes /\ b >= sizeToIdx(size)
        BY ReservoirAssumption DEF Classes, sizeToIdx
    <2> QED
        BY <1>1, <2>1, HandOutStep DEF getVictim
<1> QED
    BY <1>1, NothingStep DEF getVictim

-----------------------------------------------------------------------------
LEMMA ResInvInvariant == RSpec => []ResInv
<1>1. RInit => ResInv
    BY InitResInv
<1>2. ResInv /\ [RNext]_rvars => ResInv'
    <2> SUFFICES ASSUME ResInv, [RNext]_rvars PROVE ResInv'
        OBVIOUS
    <2>1. CASE UNCHANGED rvars
        BY <2>1 DEF ResInv, rvars, TypeOK, Candidates, Timestamps, AllocSizes, CandidatesInPlace,
                    VictimFromABin, InPlace, DroppedWhenFull, FreeSlots, KeepsTheColdest, Filled,
                    VictimFits
    <2>2. ASSUME NEW size \in Sizes \ {0}, getVictim(size) PROVE ResInv'
        BY <2>2, RequestStep
    <2> QED
        BY <2>1, <2>2, TagsStep, SampleStep DEF RNext
<1> QED
    BY <1>1, <1>2, PTL DEF RSpec

\* A bin keeps the coldest of the samples it was offered since a candidate was
\* last taken from it, and a full bin without a timestamp above 0 is not written
\* (processSampleEvent(), glue/frag_reservoir.cc).
THEOREM ColdestAreKept == RSpec => []KeepsTheColdest
<1>1. ResInv => KeepsTheColdest
    BY DEF ResInv
<1> QED
    BY <1>1, ResInvInvariant, PTL

\* What getVictim() hands out is large enough for the request, or has no copy and
\* is handed out for the smallest size; and it is the coldest of its class.
THEOREM VictimIsLargeEnough == RSpec => []VictimFits
<1>1. ResInv => VictimFits
    BY DEF ResInv
<1> QED
    BY <1>1, ResInvInvariant, PTL
-----------------------------------------------------------------------------
(***************************************************************************)
(* The bins as the fill handler sees them: a slot that is not valid holds  *)
(* no block, and a step is one of the abstract steps or changes nothing.   *)
(***************************************************************************)
LEMMA HeldIsValid ==
    ASSUME ResInv, NEW b \in Classes, NEW s \in BinSlots
    PROVE  /\ bins[b][s].valid <=> bins[b][s].entry # NoBlock
           /\ ~bins[b][s].valid => bins[b][s] = NoCandidate
<1>1. InPlace(bins[b][s], b)
    BY DEF ResInv, CandidatesInPlace
<1> QED
    BY <1>1, ReservoirAssumption DEF InPlace, NoCandidate

LEMMA StepsArePromised ==
    ASSUME ResInv, [RNext]_rvars
    PROVE  [Promise!Next]_(Promise!avars)
<1> DEFINE held  == [b \in Classes |-> [s \in BinSlots |-> bins[b][s].entry]]
           taken == victim.entry
<1>1. \A b \in Classes : FreeSlots(b) = {} => \A s \in BinSlots : held[b][s] # NoBlock
    BY HeldIsValid DEF FreeSlots
<1>2. \A b \in Classes : Filled(b) = {} => Promise!Empty(b)
    BY HeldIsValid DEF Filled, Promise!Empty, Promise!BinSlots, BinSlots
<1>3. victim' = NoCandidate /\ UNCHANGED bins => Promise!Done
    BY DEF Promise!Done, NoCandidate
<1>4. ASSUME NEW x \in Block, NEW s \in BinSlots, SampleInto(x, s),
             LET b == sizeToIdx(blocks[x].size)
             IN FreeSlots(b) = {} \/ ~bins[b][s].valid
      PROVE  \E b \in Classes, t \in BinSlots : Promise!Put(b, t, x)
    <2> DEFINE b == sizeToIdx(blocks[x].size)
    <2>1. b \in Classes
        BY ClassOfSize DEF ResInv, TypeOK
    <2>2. bins' = [bins EXCEPT ![b][s] = [entry |-> x, allocSize |-> blocks[x].size,
                                          lastTouch |-> blocks[x].touch, valid |-> TRUE]]
        BY <1>4 DEF SampleInto, Insert
    <2>3. taken' = NoBlock
        BY <1>4 DEF SampleInto, NoCandidate
    <2>4. held[b][s] = NoBlock \/ \A t \in BinSlots : held[b][t] # NoBlock
        BY <1>1, <1>4, <2>1, HeldIsValid
    <2> HIDE DEF b
    <2>5. held' = [held EXCEPT ![b][s] = x]
        BY <2>1, <2>2 DEF ResInv, TypeOK
    <2> QED
        BY <2>1, <2>3, <2>4, <2>5 DEF Promise!Put, Promise!BinSlots, BinSlots
<1>5. ASSUME NEW size \in Sizes \ {0}, NEW b \in sizeToIdx(size) .. NumClasses - 1,
             Filled(b) # {}, \A c \in sizeToIdx(size) .. b - 1 : Filled(c) = {},
             HandOut(b, Coldest(b))
      PROVE  Promise!Take(sizeToIdx(size))
    <2> DEFINE s == Coldest(b)
    <2>1. b \in Classes /\ \A c \in sizeToIdx(size) .. b - 1 : c \in Classes
        BY ReservoirAssumption DEF Classes, sizeToIdx
    <2>2. s \in BinSlots /\ bins[b][s].valid
        BY <1>5, <2>1, ColdestOfABin DEF ResInv, Filled
    <2>3. victim' = bins[b][s] /\ bins' = [bins EXCEPT ![b][s] = NoCandidate]
        BY <1>5 DEF HandOut
    <2> HIDE DEF s
    <2>4. held[b][s] # NoBlock /\ taken' = held[b][s]
        BY <2>1, <2>2, <2>3, HeldIsValid
    <2>5. held' = [held EXCEPT ![b][s] = NoBlock]
        BY <2>1, <2>2, <2>3 DEF ResInv, TypeOK, NoCandidate
    <2>6. \A c \in sizeToIdx(size) .. b - 1 : Promise!Empty(c)
        BY <1>2, <1>5, <2>1
    <2> QED
        BY <2>2, <2>4, <2>5, <2>6 DEF Promise!Take, Promise!BinSlots, BinSlots
<1>6. ASSUME NEW size \in Sizes \ {0}, getVictim(size) PROVE Promise!Next
    <2>1. sizeToIdx(size) \in Promise!Classes
        BY ClassOfSize DEF Promise!Classes, Classes, AllocSizes
    <2>2. CASE \A b \in sizeToIdx(size) .. NumClasses - 1 : Filled(b) = {}
        <3>1. victim' = NoCandidate /\ UNCHANGED bins
            BY <1>6, <2>2 DEF getVictim
        <3> QED
            BY <1>3, <3>1 DEF Promise!Next
    <2>3. CASE ~\A b \in sizeToIdx(size) .. NumClasses - 1 : Filled(b) = {}
        BY <1>5, <1>6, <2>1, <2>3 DEF getVictim, Promise!Next
    <2> QED
        BY <2>2, <2>3
<1>7. ASSUME processSampleEvent PROVE Promise!Next
    <2>1. ASSUME NEW x \in Block, NEW s \in BinSlots, SampleInto(x, s),
                 LET b == sizeToIdx(blocks[x].size)
                 IN FreeSlots(b) = {} \/ ~bins[b][s].valid
          PROVE  Promise!Next
        BY <1>4, <2>1 DEF Promise!Next, Promise!Classes, Promise!BinSlots, Classes, BinSlots
    <2>2. ASSUME NEW x \in Block, SampleIntoFree(x) PROVE Promise!Next
        <3> DEFINE b == sizeToIdx(blocks[x].size)
        <3>1. Min(FreeSlots(b)) \in FreeSlots(b)
            BY <2>2, MinOfNaturals, ReservoirAssumption DEF SampleIntoFree, FreeSlots, BinSlots
        <3> QED
            BY <2>1, <2>2, <3>1 DEF SampleIntoFree, FreeSlots
    <2>3. ASSUME NEW x \in Block, SampleOverWarmest(x) PROVE Promise!Next
        <3> DEFINE b == sizeToIdx(blocks[x].size)
        <3>1. b \in Classes /\ blocks[x].touch \in Nat
            BY ClassOfSize DEF ResInv, TypeOK, Timestamps
        <3>2. FreeSlots(b) = {} /\ IsColder(blocks[x].touch, b) /\ SampleInto(x, FirstWarmest(b))
            BY <2>3 DEF SampleOverWarmest
        <3>3. FirstWarmest(b) \in BinSlots
            BY <3>1, <3>2, Warmest DEF ResInv, IsColder
        <3> QED
            BY <2>1, <3>2, <3>3
    <2>4. ASSUME NEW x \in Block, SampleRefused(x) \/ SampleInvalid(x) PROVE Promise!Next
        BY <1>3, <2>4 DEF SampleRefused, SampleInvalid, Quiet, Promise!Next
    <2> QED
        BY <1>7, <2>2, <2>3, <2>4 DEF processSampleEvent
<1>8. CASE Tags
    <2>1. victim' = NoCandidate /\ UNCHANGED bins
        BY <1>8 DEF Tags, Fill, Touch, Evict, Bucket, Quiet
    <2> QED
        BY <1>3, <2>1 DEF Promise!Next
<1>9. CASE UNCHANGED rvars
    BY <1>9 DEF rvars, Promise!avars
<1> QED
    BY <1>6, <1>7, <1>8, <1>9 DEF RNext

\* The bins are what the fill handler takes them for (glue/zcache_glue.cc): a
\* request is given a block that is held, from the first class that has one, and
\* the slot is empty before the handler goes on.
THEOREM BinsAsPromised == RSpec => ImplementsSampledBins
<1>1. RInit => Promise!Init
    BY ReservoirAssumption
       DEF RInit, Promise!Init, Promise!Classes, Promise!BinSlots, Classes, BinSlots, NoCandidate
<1>2. ResInv /\ [RNext]_rvars => [Promise!Next]_(Promise!avars)
    BY StepsArePromised
<1> QED
    BY <1>1, <1>2, ResInvInvariant, PTL DEF RSpec, Promise!Spec, ImplementsSampledBins
=============================================================================
