--------------------------- MODULE ZCacheLRUProofs ---------------------------
(***************************************************************************)
(* Theorems about the tag store and its replacement policy together, for   *)
(* any number of ways, sets and lines, any hash functions, any limits of   *)
(* the walk and any bucket size.                                           *)
(*                                                                         *)
(* A step of the two is a step of each, so that what is proved of them     *)
(* apart holds of them together.  What they only achieve together rests on *)
(* the invariant that the access recorded for a block is the last one of   *)
(* its line, or a later one if the line has been relocated since.          *)
(***************************************************************************)
EXTENDS ZCacheLRU, ZCacheTagsProofs, FiniteSetTheorems

RPP == INSTANCE ZCacheRPProofs WITH Entry <- Slots, NoEntry <- NoSlot,
                                    MaxCandidates <- NumCandidates
-----------------------------------------------------------------------------
(***************************************************************************)
(* The policy of ZCacheLRU is the policy that ZCacheRPProofs is about.     *)
(***************************************************************************)
LEMMA BlocksAreEntries == RPP!PolicyConstants
<1>1. IsFiniteSet(Slots)
    <2>1. IsFiniteSet(Sets) /\ IsFiniteSet(Ways)
        BY WaysAssumption, SetsAssumption, FS_Interval DEF Sets, Ways
    <2> QED
        BY <2>1, FS_Product DEF Slots
<1>2. Slots # {} /\ NoSlot \notin Slots
    <2>1. <<0, 0>> \in Slots
        BY WaysAssumption, SetsAssumption DEF Slots, Sets, Ways
    <2> QED
        BY <2>1, WaysAssumption DEF Slots, NoSlot, Sets, Ways
<1>3. NumCandidates \in Nat \ {0}
    BY WalkAssumption, WaysAssumption
<1> QED
    BY <1>1, <1>2, <1>3, PolicyAssumption
       DEF RPP!PolicyConstants, RPP!IsFiniteSet, IsFiniteSet

LEMMA SamePolicy ==
    /\ RP!Init <=> RPP!Init
    /\ RP!Next <=> RPP!Next
    /\ \A s : RP!touch(s) <=> RPP!touch(s)
    /\ \A s : RP!invalidate(s) <=> RPP!invalidate(s)
    /\ \A c : RP!getVictim(c) <=> RPP!getVictim(c)
<1>1. RP!computedBucket = RPP!computedBucket
    BY DEF RP!computedBucket, RPP!computedBucket, RP!entryCount, RPP!entryCount,
           RP!Cardinality, RPP!Cardinality
<1>2. ASSUME NEW s PROVE RP!touch(s) <=> RPP!touch(s)
    BY <1>1 DEF RP!touch, RPP!touch
<1>3. ASSUME NEW s PROVE RP!invalidate(s) <=> RPP!invalidate(s)
    BY DEF RP!invalidate, RPP!invalidate
<1>4. ASSUME NEW c PROVE RP!getVictim(c) <=> RPP!getVictim(c)
    BY DEF RP!getVictim, RPP!getVictim, RP!ToSet, RPP!ToSet
<1>5. RP!CandidateLists = RPP!CandidateLists
    BY DEF RP!CandidateLists, RPP!CandidateLists
<1>6. RP!Init <=> RPP!Init
    BY DEF RP!Init, RPP!Init
<1> QED
    BY <1>2, <1>3, <1>4, <1>5, <1>6 DEF RP!Next, RPP!Next

-----------------------------------------------------------------------------
(***************************************************************************)
(* The invariant.                                                          *)
(***************************************************************************)
Settled(s) == isValid(s) /\ s # moving

\* What is recorded of a block is what is recorded of its line, except that a
\* relocation counts as an access of the block.
UseIsRecorded ==
    /\ used \in [Line -> 0 .. accessCount]
    /\ \A s \in Slots : Settled(s) =>
          /\ last[s] >= used[tag[s]]
          /\ tag[s] \notin relocated => last[s] = used[tag[s]]

\* A block that waits for its stamp is a relocated line's.
Unstamped ==
    moving # NoSlot => /\ pc = "insert"
                       /\ moving \in Slots /\ isValid(moving)
                       /\ tag[moving] \in relocated

VictimIsLeast ==
    Chosen => \A n \in DOMAIN candidates :
        lastTouchTimestamp[candidates[idx].slot] <= lastTouchTimestamp[candidates[n].slot]

LruInv == /\ IInv /\ RPP!IInv
          /\ UseIsRecorded /\ Unstamped /\ VictimIsLeast
-----------------------------------------------------------------------------
(***************************************************************************)
(* A step of the two is a step of each.                                    *)
(***************************************************************************)
LEMMA EveryStepOfTheTags == [LNext]_lruvars => [Next]_vars
<1> SUFFICES ASSUME LNext \/ UNCHANGED lruvars PROVE Next \/ UNCHANGED vars
    OBVIOUS
<1>1. ASSUME NEW l \in Line, accessBlock(l) PROVE Next \/ UNCHANGED vars
    BY <1>1 DEF accessBlock, Next
<1>2. ASSUME NEW l \in Line, Snoop(l) PROVE Next
    BY <1>2 DEF Snoop, Next
<1>3. CASE WalkStep
    BY <1>3 DEF WalkStep, Next, Walk
<1>4. CASE SelectVictim \/ Evict \/ Relocate \/ insertBlock
    BY <1>4 DEF SelectVictim, Evict, Relocate, insertBlock, Next, Walk
<1>5. CASE Restamp \/ UNCHANGED lruvars
    BY <1>5 DEF Restamp, lruvars
<1> QED
    BY <1>1, <1>2, <1>3, <1>4, <1>5 DEF LNext

\* The walk hands the policy a list of blocks that is not longer than
\* num_candidates.
LEMMA WalkIsARequest ==
    ASSUME TypeOK, RP!getVictim([n \in DOMAIN candidates |-> candidates[n].slot])
    PROVE  [n \in DOMAIN candidates |-> candidates[n].slot] \in RP!CandidateLists
<1> DEFINE c == [n \in DOMAIN candidates |-> candidates[n].slot]
<1>1. /\ candidates \in Seq(Node) /\ Len(candidates) \in Nat
      /\ Len(candidates) <= NumCandidates
      /\ DOMAIN candidates = 1 .. Len(candidates)
    BY DEF TypeOK
<1>2. c \in [1 .. Len(candidates) -> Slots]
    <2>1. \A n \in 1 .. Len(candidates) : candidates[n] \in Node
        BY <1>1
    <2>2. \A n \in 1 .. Len(candidates) : candidates[n].slot \in Slots
        BY <2>1 DEF Node
    <2> QED
        BY <1>1, <2>2
<1>3. DOMAIN c # {}
    BY DEF RP!getVictim
<1>4. Len(candidates) \in 1 .. NumCandidates
    BY <1>1, <1>3, WalkAssumption
<1> QED
    BY <1>2, <1>4 DEF RP!CandidateLists

LEMMA EveryStepOfThePolicy ==
    ASSUME LruInv, [LNext]_lruvars
    PROVE  [RP!Next]_stamps
<1>0. TypeOK /\ Placement /\ NoDuplicateLine
    BY DEF LruInv, IInv, TagInv
<1>1. ASSUME NEW l \in Line, accessBlock(l) PROVE RP!Next
    <2>1. findBlock(l) \in Slots
        BY <1>0, <1>1, FoundBlock DEF accessBlock, WriteHit
    <2> QED
        BY <1>1, <2>1 DEF accessBlock, RP!Next
<1>2. ASSUME NEW l \in Line, Snoop(l) PROVE RP!Next
    <2>1. findBlock(l) \in Slots
        BY <1>0, <1>2, FoundBlock DEF Snoop, SnoopInvalidate
    <2> QED
        BY <1>2, <2>1 DEF Snoop, Forgets, RP!Next
<1>3. CASE WalkStep
    BY <1>3 DEF WalkStep
<1>4. CASE SelectVictim
    BY <1>0, <1>4, WalkIsARequest DEF SelectVictim, RP!Next
<1>5. CASE Evict
    <2>1. Head(pendingSwapChain) \in Slots
        BY <1>5, WalkAssumption DEF Evict, EvictVictim, LruInv, IInv, TypeOK, ExecInv
    <2> QED
        BY <1>5, <2>1 DEF Evict, Forgets, RP!Next
<1>6. CASE Relocate
    <2>1. pendingSwapChain[i] \in Slots
        BY <1>6, MovedBlock DEF Relocate, LruInv
    <2> QED
        BY <1>6, <2>1 DEF Relocate, RP!Next, stamps
<1>7. CASE Restamp
    BY <1>7 DEF Restamp, RP!Next, LruInv, Unstamped
<1>8. CASE insertBlock
    <2>1. Last(pendingSwapChain) \in Slots
        BY <1>8, FreeRoot DEF insertBlock, LruInv
    <2> QED
        BY <1>8, <2>1 DEF insertBlock, RP!Next
<1>9. CASE UNCHANGED lruvars
    BY <1>9 DEF lruvars
<1> QED
    BY <1>1, <1>2, <1>3, <1>4, <1>5, <1>6, <1>7, <1>8, <1>9 DEF LNext

-----------------------------------------------------------------------------
(***************************************************************************)
(* The invariant is kept.                                                  *)
(***************************************************************************)
LEMMA InitLru == ASSUME LInit PROVE LruInv
<1>1. IInv
    BY InitHolds DEF LInit
<1>2. RPP!IInv
    BY BlocksAreEntries, SamePolicy, RPP!InitHolds DEF LInit
<1>3. UseIsRecorded /\ Unstamped /\ VictimIsLeast
    BY DEF LInit, Init, RP!Init, UseIsRecorded, Unstamped, VictimIsLeast, Settled, isValid, Chosen
<1> QED
    BY <1>1, <1>2, <1>3 DEF LruInv

\* A block is touched and its line used by the same access.
LEMMA TouchRecords ==
    ASSUME RPP!TypeOK, UseIsRecorded, moving = NoSlot, UNCHANGED moving,
           NEW l \in Line, NEW s \in Slots, RP!touch(s), Uses(l),
           tag \in [Slots -> Line \cup {NoLine}],
           tag' = [tag EXCEPT ![s] = l], 
           \A t \in Slots : tag[t] = l => t = s
    PROVE  UseIsRecorded'
<1>1. /\ accessCount \in Nat /\ accessCount' = accessCount + 1
      /\ last \in [Slots -> 0 .. accessCount]
      /\ last' = [last EXCEPT ![s] = accessCount + 1]
      /\ used' = [used EXCEPT ![l] = accessCount + 1]
      /\ relocated' = relocated \ {l}
    BY DEF RP!touch, Uses, RPP!TypeOK
<1>2. used' \in [Line -> 0 .. accessCount']
    BY <1>1 DEF UseIsRecorded
<1>3. ASSUME NEW t \in Slots, Settled(t)'
      PROVE  /\ last'[t] >= used'[tag'[t]]
             /\ tag'[t] \notin relocated' => last'[t] = used'[tag'[t]]
    <2>1. CASE t = s
        BY <1>1, <2>1 DEF UseIsRecorded
    <2>2. CASE t # s
        <3>1. tag'[t] = tag[t] /\ tag[t] # l /\ tag[t] # NoLine /\ tag[t] \in Line
            BY <1>3, <2>2 DEF Settled, isValid
        <3>2. Settled(t)
            BY <1>3, <3>1 DEF Settled, isValid
        <3> QED
            BY <1>1, <2>2, <3>1, <3>2 DEF UseIsRecorded
    <2> QED
        BY <2>1, <2>2
<1> QED
    BY <1>2, <1>3 DEF UseIsRecorded

\* A block that leaves takes what was recorded of its line along.
LEMMA ForgetRecords ==
    ASSUME RPP!TypeOK, TypeOK, NoDuplicateLine, UseIsRecorded, UNCHANGED moving,
           NEW s \in Slots, isValid(s), Forgets(s), invalidate(s)
    PROVE  UseIsRecorded'
<1>1. /\ accessCount \in Nat /\ accessCount' = accessCount
      /\ last \in [Slots -> 0 .. accessCount]
      /\ last' = [last EXCEPT ![s] = 0]
      /\ used' = [used EXCEPT ![tag[s]] = 0]
      /\ relocated' = relocated \ {tag[s]}
      /\ tag' = [tag EXCEPT ![s] = NoLine]
      /\ tag \in [Slots -> Line \cup {NoLine}]
    BY DEF RP!invalidate, Forgets, RPP!TypeOK, invalidate, TypeOK
<1>2. used' \in [Line -> 0 .. accessCount']
    <2>1. used \in [Line -> 0 .. accessCount] /\ tag[s] \in Line
        BY <1>1 DEF UseIsRecorded, isValid
    <2> QED
        BY <1>1, <2>1
<1>3. ASSUME NEW t \in Slots, Settled(t)'
      PROVE  /\ last'[t] >= used'[tag'[t]]
             /\ tag'[t] \notin relocated' => last'[t] = used'[tag'[t]]
    <2>1. t # s /\ tag'[t] = tag[t] /\ tag[t] \in Line /\ Settled(t)
        BY <1>1, <1>3 DEF Settled, isValid
    <2>2. tag[t] # tag[s]
        BY <2>1 DEF NoDuplicateLine, Settled
    <2> QED
        BY <1>1, <2>1, <2>2 DEF UseIsRecorded
<1> QED
    BY <1>2, <1>3 DEF UseIsRecorded

LEMMA RelocateRecords ==
    ASSUME LruInv, Relocate
    PROVE  UseIsRecorded' /\ Unstamped'
<1> DEFINE src == pendingSwapChain[i]
           dst == pendingSwapChain[i - 1]
<1>1. /\ src \in Slots /\ dst \in Slots /\ isValid(src) /\ ~isValid(dst)
      /\ doMoveBlock(src, dst)
    BY MovedBlock DEF LruInv, Relocate
<1>2. /\ moving = NoSlot /\ moving' = dst /\ RP!invalidate(src) /\ used' = used
      /\ relocated' = relocated \cup {tag[src]}
      /\ pc = "insert" /\ pc' = "insert"
    BY <1>1 DEF Relocate, MoveBlock
<1> HIDE DEF src, dst
<1>3. /\ tag \in [Slots -> Line \cup {NoLine}] /\ src # dst
      /\ \A t \in Slots : tag'[t] = IF t = src THEN NoLine
                                    ELSE IF t = dst THEN tag[src] ELSE tag[t]
    BY <1>1 DEF doMoveBlock, LruInv, IInv, TypeOK, isValid
<1>4. /\ accessCount' = accessCount /\ last \in [Slots -> 0 .. accessCount]
      /\ \A t \in Slots \ {src} : last'[t] = last[t]
    BY <1>2 DEF RP!invalidate, LruInv, RPP!IInv, RPP!TypeOK
<1>5. ASSUME NEW t \in Slots, Settled(t)'
      PROVE  /\ last'[t] >= used'[tag'[t]]
             /\ tag'[t] \notin relocated' => last'[t] = used'[tag'[t]]
    <2>1. t # src /\ t # dst /\ tag'[t] = tag[t]
        BY <1>2, <1>3, <1>5 DEF Settled, isValid
    <2>2. Settled(t)
        <3>1. t # moving
            BY <1>2, WaysAssumption DEF NoSlot, Slots, Sets, Ways
        <3> QED
            BY <1>5, <2>1, <3>1 DEF Settled, isValid
    <2> QED
        BY <1>2, <1>4, <2>1, <2>2 DEF LruInv, UseIsRecorded
<1>6. UseIsRecorded'
    BY <1>2, <1>4, <1>5 DEF LruInv, UseIsRecorded
<1>7. Unstamped'
    BY <1>1, <1>2, <1>3 DEF Unstamped, isValid
<1> QED
    BY <1>6, <1>7

LEMMA RestampRecords ==
    ASSUME LruInv, Restamp
    PROVE  UseIsRecorded' /\ Unstamped'
<1>1. /\ moving \in Slots /\ isValid(moving) /\ tag[moving] \in relocated
      /\ moving' = NoSlot /\ RP!touch(moving)
      /\ UNCHANGED <<tag, used, relocated>>
    BY DEF Restamp, LruInv, Unstamped, vars
<1>2. /\ accessCount \in Nat /\ accessCount' = accessCount + 1
      /\ last \in [Slots -> 0 .. accessCount]
      /\ last' = [last EXCEPT ![moving] = accessCount + 1]
      /\ used \in [Line -> 0 .. accessCount]
      /\ tag \in [Slots -> Line \cup {NoLine}]
    BY <1>1 DEF RP!touch, LruInv, RPP!IInv, RPP!TypeOK, UseIsRecorded, IInv, TypeOK
<1>3. ASSUME NEW t \in Slots, Settled(t)'
      PROVE  /\ last'[t] >= used'[tag'[t]]
             /\ tag'[t] \notin relocated' => last'[t] = used'[tag'[t]]
    <2>1. tag[t] \in Line /\ isValid(t)
        BY <1>1, <1>2, <1>3 DEF Settled, isValid
    <2>2. CASE t = moving
        BY <1>1, <1>2, <2>1, <2>2
    <2>3. CASE t # moving
        BY <1>1, <1>2, <2>1, <2>3 DEF LruInv, UseIsRecorded, Settled
    <2> QED
        BY <2>2, <2>3
<1>4. used' \in [Line -> 0 .. accessCount']
    BY <1>1, <1>2
<1> QED
    BY <1>1, <1>3, <1>4 DEF UseIsRecorded, Unstamped

\* Nothing is recorded, nothing leaves its place.
LEMMA QuietRecords ==
    ASSUME UseIsRecorded, UNCHANGED <<tag, moving, used, relocated, last, accessCount>>
    PROVE  UseIsRecorded'
BY DEF UseIsRecorded, Settled, isValid

LEMMA RecordsKept ==
    ASSUME LruInv, [LNext]_lruvars
    PROVE  UseIsRecorded' /\ Unstamped'
<1>0. /\ TypeOK /\ NoDuplicateLine /\ RPP!TypeOK /\ UseIsRecorded /\ Unstamped
      /\ tag \in [Slots -> Line \cup {NoLine}]
    BY DEF LruInv, IInv, TagInv, RPP!IInv, TypeOK
<1>1. ASSUME NEW l \in Line, accessBlock(l)
      PROVE  UseIsRecorded' /\ Unstamped'
    <2> DEFINE s == findBlock(l)
    <2>1. s \in Slots /\ tag[s] = l /\ \A t \in Slots : tag[t] = l => t = s
        BY <1>0, <1>1, FoundBlock DEF accessBlock, WriteHit
    <2>2. /\ moving = NoSlot /\ moving' = moving /\ RP!touch(s) /\ Uses(l)
          /\ tag' = tag
        BY <1>1 DEF accessBlock, WriteHit, Uses, vars
    <2> HIDE DEF s
    <2>3. tag' = [tag EXCEPT ![s] = l]
        BY <1>0, <2>1, <2>2
    <2> QED
        BY <1>0, <2>1, <2>2, <2>3, TouchRecords DEF Unstamped
<1>2. CASE insertBlock
    <2> DEFINE s == Last(pendingSwapChain)
    <2>1. /\ s \in Slots /\ req \in Line /\ tag' = [tag EXCEPT ![s] = req]
          /\ \A t \in Slots : tag[t] # req
        BY <1>2, FreeRoot DEF insertBlock, InsertLine, LruInv, IInv, TagInv, RequestIsAbsent
    <2>2. moving = NoSlot /\ moving' = moving /\ RP!touch(s) /\ Uses(req)
        BY <1>2 DEF insertBlock, Uses
    <2> HIDE DEF s
    <2> QED
        BY <1>0, <2>1, <2>2, TouchRecords DEF Unstamped
<1>3. ASSUME NEW l \in Line, Snoop(l)
      PROVE  UseIsRecorded' /\ Unstamped'
    <2> DEFINE s == findBlock(l)
    <2>1. s \in Slots /\ isValid(s)
        BY <1>0, <1>3, FoundBlock, LineAssumption DEF Snoop, SnoopInvalidate, isValid
    <2>2. moving = NoSlot /\ moving' = moving /\ Forgets(s) /\ invalidate(s)
        BY <1>3 DEF Snoop, SnoopInvalidate, Forgets
    <2> HIDE DEF s
    <2> QED
        BY <1>0, <2>1, <2>2, ForgetRecords DEF Unstamped
<1>4. CASE Evict
    <2> DEFINE s == Head(pendingSwapChain)
    <2>1. s \in Slots /\ isValid(s)
        BY <1>4, WalkAssumption DEF Evict, EvictVictim, LruInv, IInv, TypeOK, ExecInv
    <2>2. moving = NoSlot /\ moving' = moving /\ Forgets(s) /\ invalidate(s)
        BY <1>4 DEF Evict, EvictVictim, Forgets
    <2> HIDE DEF s
    <2> QED
        BY <1>0, <2>1, <2>2, ForgetRecords DEF Unstamped
<1>5. CASE Relocate
    BY <1>5, RelocateRecords
<1>6. CASE Restamp
    BY <1>6, RestampRecords
<1>7. CASE WalkStep \/ SelectVictim \/ UNCHANGED lruvars
    <2>1. UNCHANGED <<tag, moving, used, relocated, last, accessCount>>
        <3>1. ASSUME NEW l \in Line, FindFreeHome(l) \/ SeedWalk(l)
              PROVE  tag' = tag
            BY <3>1 DEF FindFreeHome, SeedWalk
        <3>2. ASSUME StartLevel \/ ExpandNode \/ EndLevel \/ SelectFree
                     \/ BuildChain \/ ReturnVictim \/ RefuseEviction
              PROVE  tag' = tag
            BY <3>2 DEF StartLevel, ExpandNode, EndLevel, SelectFree, ChooseNode,
                        BuildChain, ReturnVictim, RefuseEviction
        <3>3. CASE WalkStep
            BY <3>1, <3>2, <3>3 DEF WalkStep, stamps
        <3>4. CASE SelectVictim
            BY <3>4 DEF SelectVictim, SelectByPolicy, ChooseNode, RP!getVictim
        <3> QED
            BY <1>7, <3>3, <3>4 DEF lruvars, stamps, vars
    <2>2. moving # NoSlot => pc' = pc
        BY <1>0, <1>7 DEF WalkStep, SelectVictim, lruvars, vars
    <2> QED
        BY <1>0, <2>1, <2>2, QuietRecords DEF Unstamped, isValid
<1> QED
    BY <1>1, <1>2, <1>3, <1>4, <1>5, <1>6, <1>7 DEF LNext

\* The victim that getVictim() returns is a block of the walk with the least
\* stamp, and nothing is stamped or forgotten before the chain is built.
LEMMA VictimKept ==
    ASSUME LruInv, [LNext]_lruvars
    PROVE  VictimIsLeast'
<1> SUFFICES ASSUME Chosen', NEW n \in DOMAIN candidates'
             PROVE  lastTouchTimestamp'[candidates'[idx'].slot]
                       <= lastTouchTimestamp'[candidates'[n].slot]
    BY DEF VictimIsLeast
<1>0. pc' = "chain" /\ pendingSwapChain' = <<>> /\ AllValid'
    BY DEF Chosen
<1>1. CASE SelectVictim
    <2> DEFINE c == [k \in DOMAIN candidates |-> candidates[k].slot]
    <2>1. /\ RP!getVictim(c) /\ UNCHANGED candidates
          /\ candidates[idx'].slot = victim'
        BY <1>1 DEF SelectVictim, SelectByPolicy, ChooseNode
    <2>2. PICK k \in DOMAIN c :
              /\ \A m \in DOMAIN c : lastTouchTimestamp[c[k]] <= lastTouchTimestamp[c[m]]
              /\ victim' = c[k]
        BY <2>1 DEF RP!getVictim
    <2>3. UNCHANGED lastTouchTimestamp
        BY <2>1 DEF RP!getVictim
    <2> QED
        BY <2>1, <2>2, <2>3
<1>2. CASE WalkStep
    <2>1. CASE SelectFree
        <3>1. AllValid' = AllValid
            BY <2>1 DEF SelectFree, ChooseNode, AllValid, isValid
        <3> QED
            BY <1>0, <2>1, <3>1 DEF SelectFree, AllValid
    <2>2. CASE BuildChain
        <3>1. pendingSwapChain \in Seq(Slots)
            BY DEF LruInv, IInv, TypeOK
        <3> QED
            BY <1>0, <2>2, <3>1 DEF BuildChain
    <2>3. ASSUME NEW l \in Line, FindFreeHome(l) \/ SeedWalk(l) PROVE FALSE
        BY <1>0, <2>3 DEF FindFreeHome, SeedWalk
    <2>4. ~(StartLevel \/ ExpandNode \/ EndLevel \/ ReturnVictim \/ RefuseEviction)
        BY <1>0 DEF StartLevel, ExpandNode, EndLevel, ReturnVictim, RefuseEviction
    <2> QED
        BY <1>2, <2>1, <2>2, <2>3, <2>4 DEF WalkStep
<1>3. ASSUME NEW l \in Line, accessBlock(l) \/ Snoop(l) PROVE FALSE
    BY <1>0, <1>3 DEF accessBlock, Snoop, WriteHit, SnoopInvalidate, vars
<1>4. ~(Evict \/ Relocate \/ insertBlock)
    BY <1>0 DEF Evict, EvictVictim, Relocate, MoveBlock, insertBlock, InsertLine
<1>5. ~Restamp
    BY <1>0 DEF Restamp, vars, LruInv, Unstamped
<1>6. CASE UNCHANGED lruvars
    BY <1>6 DEF lruvars, vars, walk, stamps, LruInv, VictimIsLeast, Chosen, AllValid, isValid
<1> QED
    BY <1>1, <1>2, <1>3, <1>4, <1>5, <1>6 DEF LNext

LEMMA LruKept ==
    ASSUME LruInv, [LNext]_lruvars
    PROVE  LruInv'
<1>1. IInv'
    BY EveryStepOfTheTags, StepKeeps DEF LruInv
<1>2. RPP!IInv'
    <2>1. [RPP!Next]_(RPP!vars)
        BY EveryStepOfThePolicy, SamePolicy DEF stamps, RPP!vars
    <2>2. RPP!IInv
        BY DEF LruInv
    <2> QED
        BY <2>1, <2>2, BlocksAreEntries, RPP!NextPreserves
<1> QED
    BY <1>1, <1>2, RecordsKept, VictimKept DEF LruInv

LEMMA LruInvariance == LSpec => []LruInv
<1>1. LInit => LruInv
    BY InitLru
<1>2. LruInv /\ [LNext]_lruvars => LruInv'
    BY LruKept
<1> QED
    BY <1>1, <1>2, PTL DEF LSpec
-----------------------------------------------------------------------------
\* Asked by its policy, stopped by its relocations or not, the tag store does what
\* ZCacheTags says it does, so that whatever is proved of that holds here.
THEOREM TagsInTheComposition == LSpec => Spec
<1>1. LInit => Init
    BY DEF LInit
<1>2. [LNext]_lruvars => [Next]_vars
    BY EveryStepOfTheTags
<1> QED
    BY <1>1, <1>2, PTL DEF LSpec, Spec

LEMMA SamePromise ==
    /\ RPP!Promise!Init <=> RP!Promise!Init
    /\ RPP!Promise!Next <=> RP!Promise!Next
<1>1. RP!computedBucket = RPP!computedBucket
    BY DEF RP!computedBucket, RPP!computedBucket, RP!entryCount, RPP!entryCount,
           RP!Cardinality, RPP!Cardinality
<1> QED
    BY <1>1 DEF RPP!Promise!Init, RP!Promise!Init, RPP!Promise!Next, RP!Promise!Next,
       RPP!Promise!Use, RP!Promise!Use, RPP!Promise!Forget, RP!Promise!Forget,
       RPP!Promise!Choose, RP!Promise!Choose

\* The accesses of the tags, relocations included, are accesses that ZCacheRP
\* allows for.
LEMMA PolicyInTheComposition == LSpec => RP!Spec
<1>1. LInit => RP!Init
    BY DEF LInit
<1>2. LruInv /\ [LNext]_lruvars => [RP!Next]_(RP!vars)
    BY EveryStepOfThePolicy DEF stamps, RP!vars
<1> QED
    BY <1>1, <1>2, LruInvariance, PTL DEF LSpec, RP!Spec

LEMMA SameSpec == RP!Spec => RPP!Spec
<1>1. RP!Init => RPP!Init
    BY SamePolicy
<1>2. [RP!Next]_(RP!vars) => [RPP!Next]_(RPP!vars)
    BY SamePolicy DEF RP!vars, RPP!vars
<1> QED
    BY <1>1, <1>2, PTL DEF RP!Spec, RPP!Spec

\* However the tags hit, fill, evict and relocate, the stamp of a block is the
\* number of the bucket of the last access that touch() counted for it.
THEOREM StampsAreBuckets == LSpec => []TimestampIsBucket
<1>1. RPP!Spec => []RPP!TimestampIsBucket
    BY BlocksAreEntries, RPP!TimestampsAreBuckets
<1>2. RPP!TimestampIsBucket => TimestampIsBucket
    BY DEF RPP!TimestampIsBucket, RP!TimestampIsBucket, TimestampIsBucket
<1> QED
    BY <1>1, <1>2, PolicyInTheComposition, SameSpec, PTL

\* The victims of the walks are those of an LRU over the whole cache, up to one
\* bucket of accesses.
THEOREM VictimsAreLRUUpToABucket == LSpec => ImplementsBucketedLRU
<1>1. RPP!Spec => RPP!ImplementsBucketedLRU
    BY BlocksAreEntries, RPP!PolicyImplementsBucketedLRU
<1>2. RPP!Promise!Init => RP!Promise!Init
    BY SamePromise
<1>3. [RPP!Promise!Next]_<<accessCount, last, asked, victim>>
         => [RP!Promise!Next]_<<accessCount, last, asked, victim>>
    BY SamePromise
<1> QED
    BY <1>1, <1>2, <1>3, PolicyInTheComposition, SameSpec, PTL
       DEF ImplementsBucketedLRU, RP!ImplementsBucketedLRU, RPP!ImplementsBucketedLRU,
           RP!Promise!Spec, RPP!Promise!Spec
-----------------------------------------------------------------------------
(***************************************************************************)
(* What the stamps say of the lines.                                       *)
(***************************************************************************)
LEMMA SmallerQuotient ==
    ASSUME NEW a \in Nat, NEW b \in Nat, NEW K \in Nat \ {0}, a <= b
    PROVE  a \div K <= b \div K
BY Z3

\* The stamp of a block that does not wait for one is at least the bucket of its
\* line's last use, and exactly that if the line has not moved since.
LEMMA StampOfALine ==
    ASSUME LruInv, NEW s \in Slots, Settled(s)
    PROVE  /\ lastTouchTimestamp[s] \in Nat /\ Bucket(used[tag[s]]) \in Nat
           /\ lastTouchTimestamp[s] >= Bucket(used[tag[s]])
           /\ tag[s] \notin relocated => lastTouchTimestamp[s] = Bucket(used[tag[s]])
<1>1. /\ accessCount \in Nat /\ bucketSize \in Nat /\ (bucketSize = 0 <=> accessCount = 0)
      /\ globalTimestamp \in Nat /\ globalTimestamp <= accessCount
      /\ lastTouchTimestamp[s] \in 0 .. globalTimestamp /\ last[s] \in 0 .. accessCount
    BY DEF LruInv, RPP!IInv, RPP!TypeOK
<1>2. tag[s] \in Line
    BY DEF LruInv, IInv, TypeOK, Settled, isValid
<1>3. /\ used[tag[s]] \in 0 .. accessCount /\ last[s] >= used[tag[s]]
      /\ tag[s] \notin relocated => last[s] = used[tag[s]]
    BY <1>2 DEF LruInv, UseIsRecorded
<1>4. CASE accessCount = 0
    BY <1>1, <1>3, <1>4 DEF Bucket
<1>5. CASE accessCount > 0
    <2>1. lastTouchTimestamp[s] = last[s] \div bucketSize
        BY <1>5 DEF LruInv, RPP!IInv, RPP!TimestampIsBucket
    <2>2. Bucket(used[tag[s]]) = used[tag[s]] \div bucketSize
        BY <1>1, <1>5 DEF Bucket
    <2>3. bucketSize \in Nat \ {0} /\ last[s] \in Nat /\ used[tag[s]] \in Nat
        BY <1>1, <1>3, <1>5
    <2>4. used[tag[s]] \div bucketSize <= last[s] \div bucketSize
        BY <1>3, <2>3, SmallerQuotient
    <2>5. used[tag[s]] \div bucketSize \in Nat
        <3> DEFINE u == used[tag[s]]
        <3>1. u \in Nat /\ bucketSize \in Nat \ {0}
            BY <2>3
        <3> HIDE DEF u
        <3>2. u \div bucketSize \in Nat
            BY <3>1, Z3
        <3> QED
            BY <3>2 DEF u
    <2> QED
        BY <1>1, <1>3, <2>1, <2>2, <2>4, <2>5
<1> QED
    BY <1>1, <1>4, <1>5

\* Wherever relocations have taken a line, the stamp of its block is the bucket of
\* its last use or of a later access.
THEOREM LinesNeverLookOlder == LSpec => []NeverLooksOlder
<1>1. LruInv => NeverLooksOlder
    BY StampOfALine DEF NeverLooksOlder, Settled
<1> QED
    BY <1>1, LruInvariance, PTL

\* A line that the walk met, and that has stayed where it was since its last use,
\* was used no earlier than the line that is evicted, up to a bucket.
THEOREM VictimIsOldestUnlessRelocated == LSpec => []OldestUnlessRelocated
<1>1. LruInv => OldestUnlessRelocated
    <2> SUFFICES ASSUME LruInv, Chosen, NEW l \in OnTheWalk \ relocated
                 PROVE  Bucket(used[tag[candidates[idx].slot]]) <= Bucket(used[l])
        BY DEF OldestUnlessRelocated, OlderThan
    <2>1. PICK n \in DOMAIN candidates : l = tag[candidates[n].slot]
        BY DEF OnTheWalk
    <2>2. /\ candidates \in Seq(Node) /\ idx \in 0 .. Len(candidates)
          /\ pc = "chain" /\ pendingSwapChain = <<>> /\ AllValid
        BY DEF LruInv, IInv, TypeOK, Chosen
    <2>3. idx \in DOMAIN candidates
        BY <2>2 DEF LruInv, IInv, ChainInv, ChainStart
    <2>4. moving = NoSlot /\ NoSlot \notin Slots
        BY <2>2, WaysAssumption DEF LruInv, Unstamped, NoSlot, Slots, Sets, Ways
    <2> DEFINE v == candidates[idx].slot
               s == candidates[n].slot
    <2>5. v \in Slots /\ s \in Slots
        <3>1. candidates[idx] \in Node /\ candidates[n] \in Node
            BY <2>2, <2>3
        <3> QED
            BY <3>1 DEF Node
    <2>6. Settled(v) /\ Settled(s)
        BY <2>2, <2>3, <2>4, <2>5 DEF AllValid, Settled
    <2>7. lastTouchTimestamp[v] <= lastTouchTimestamp[s]
        BY <2>3 DEF LruInv, VictimIsLeast
    <2> HIDE DEF v, s
    <2>8. lastTouchTimestamp[s] = Bucket(used[l])
        BY <2>1, <2>5, <2>6, StampOfALine DEF s
    <2>9. /\ lastTouchTimestamp[v] \in Nat /\ Bucket(used[tag[v]]) \in Nat
          /\ lastTouchTimestamp[v] >= Bucket(used[tag[v]]) /\ lastTouchTimestamp[s] \in Nat
        BY <2>5, <2>6, StampOfALine
    <2> QED
        BY <2>7, <2>8, <2>9 DEF v
<1> QED
    BY <1>1, LruInvariance, PTL
=============================================================================
