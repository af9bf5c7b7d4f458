--------------------------- MODULE CDZCacheProofs ---------------------------
(***************************************************************************)
(* Theorems about the composition: for any cache geometry, any size of the *)
(* pool, any sizes of the compressed lines and any reservoir, each block   *)
(* of the pool belongs to one valid tag entry and holds its line.          *)
(***************************************************************************)
EXTENDS CDZCache, ZCacheTagsProofs, FiniteSetTheorems

DSP == INSTANCE DecoupledDataStoreProofs WITH Value <- Range(Payload), pc <- dpc

-----------------------------------------------------------------------------
(***************************************************************************)
(* The store of CDZCache is the store that DecoupledDataStoreProofs is     *)
(* about.                                                                  *)
(***************************************************************************)
StoreInv == DSP!IInv /\ DSP!ReadBack

LEMMA StoreConstants ==
    /\ DSP!PoolAssumption /\ DSP!SizesAssumption /\ DSP!ValueAssumption
BY StoreAssumption, PayloadAssumption
   DEF DSP!PoolAssumption, DSP!SizesAssumption, DSP!ValueAssumption, DSP!sizeToOrder, Range

LEMMA SameStore ==
    /\ DS!Init <=> DSP!Init
    /\ DS!Next <=> DSP!Next
    /\ DS!Step <=> DSP!Step
    /\ \A b : DS!SegmentsOf(b) = DSP!SegmentsOf(b)
<1>1. DS!sizeToOrder = DSP!sizeToOrder /\ DS!Segments = DSP!Segments
    BY DEF DS!sizeToOrder, DSP!sizeToOrder, DS!Segments, DSP!Segments,
           DS!NumChunks, DSP!NumChunks
<1>2. \A k : DS!Span(k) = DSP!Span(k)
    BY DEF DS!Span, DSP!Span
<1>3. \A b : DS!SegmentsOf(b) = DSP!SegmentsOf(b)
    BY <1>2 DEF DS!SegmentsOf, DSP!SegmentsOf
<1>4. \A p, k : DS!buddyOf(p, k) = DSP!buddyOf(p, k)
    BY <1>2 DEF DS!buddyOf, DSP!buddyOf
<1>5. \A s : DS!ToSet(s) = DSP!ToSet(s)
    BY DEF DS!ToSet, DSP!ToSet
<1>6. \A s, n : DS!RemoveAt(s, n) = DSP!RemoveAt(s, n)
    BY DEF DS!RemoveAt, DSP!RemoveAt
<1>7. DS!BuddyFree <=> DSP!BuddyFree
    BY <1>4, <1>5 DEF DS!BuddyFree, DSP!BuddyFree, DS!MAX_ORDER, DSP!MAX_ORDER
<1>8. ASSUME NEW size
      PROVE  /\ DS!Allocate(size) <=> DSP!Allocate(size)
             /\ DS!AllocateFails(size) <=> DSP!AllocateFails(size)
    BY <1>1 DEF DS!Allocate, DSP!Allocate, DS!AllocateFails, DSP!AllocateFails,
                DS!MAX_ORDER, DSP!MAX_ORDER, DS!NoReply, DSP!NoReply,
                DS!ALLOC_FAIL, DSP!ALLOC_FAIL, DS!locals, DSP!locals
<1>9. ASSUME NEW b
      PROVE  DS!Deallocate(b) <=> DSP!Deallocate(b)
    BY DEF DS!Deallocate, DSP!Deallocate, DS!NoReply, DSP!NoReply
<1>10. ASSUME NEW b, NEW v
       PROVE  DS!write(b, v) <=> DSP!write(b, v)
    BY <1>1, <1>3 DEF DS!write, DSP!write, DS!locals, DSP!locals
<1>11. DS!splitOrder <=> DSP!splitOrder
    BY <1>2 DEF DS!splitOrder, DSP!splitOrder
<1>12. DS!AllocateReturns <=> DSP!AllocateReturns
    BY DEF DS!AllocateReturns, DSP!AllocateReturns, DS!Return, DSP!Return, DS!data, DSP!data
<1>13. DS!Coalesce <=> DSP!Coalesce
    BY <1>4, <1>6, <1>7 DEF DS!Coalesce, DSP!Coalesce
<1>14. DS!DeallocateReturns <=> DSP!DeallocateReturns
    BY <1>7 DEF DS!DeallocateReturns, DSP!DeallocateReturns, DS!Return, DSP!Return
<1>15. (DS!Next <=> DSP!Next) /\ (DS!Step <=> DSP!Step)
    BY <1>8, <1>9, <1>10, <1>11, <1>12, <1>13, <1>14
       DEF DS!Next, DSP!Next, DS!Step, DSP!Step
<1>16. DS!Init <=> DSP!Init
    BY <1>1 DEF DS!Init, DSP!Init, DS!Orders, DSP!Orders, DS!MAX_ORDER, DSP!MAX_ORDER,
                DS!NumChunks, DSP!NumChunks, DS!NoReply, DSP!NoReply
<1> QED
    BY <1>3, <1>15, <1>16

LEMMA StoreKeeps ==
    /\ DS!Init => StoreInv
    /\ StoreInv /\ [DS!Next]_store => StoreInv'
<1>1. DSP!Init => DSP!IInv
    BY DSP!InitInv, StoreConstants
<1>2. DSP!Init => DSP!ReadBack
    BY DEF DSP!Init, DSP!ReadBack
<1>3. DSP!IInv /\ [DSP!Next]_(DSP!vars) => DSP!IInv'
    BY DSP!NextInv, StoreConstants
<1>4. DSP!IInv /\ DSP!ReadBack /\ [DSP!Next]_(DSP!vars) => DSP!ReadBack'
    BY DSP!ReadBackStep, StoreConstants
<1>5. [DS!Next]_store => [DSP!Next]_(DSP!vars)
    BY SameStore DEF store, DSP!vars
<1> QED
    BY <1>1, <1>2, <1>3, <1>4, <1>5, SameStore DEF StoreInv

\* What the store's steps mean to its callers: a block that allocate() returns
\* is a segment of the pool and was nobody's.
LEMMA StoreSteps ==
    ASSUME StoreInv
    PROVE  /\ reply \in Int /\ order \in 0 .. 3
           /\ \A b \in DOMAIN stored : \A g \in DS!SegmentsOf(b) : pool[g] = stored[b]
           /\ DS!Step => UNCHANGED <<pool, stored>>
           /\ DS!Step /\ dpc = "coalesce" =>
                 UNCHANGED <<live, reply>> /\ dpc' \in {"idle", "coalesce"}
           /\ DS!Step /\ dpc = "split" =>
                 \/ dpc' = "split" /\ order' = order /\ UNCHANGED <<live, reply>>
                 \/ /\ dpc' = "idle" /\ reply' \in Nat
                    /\ [ptr |-> reply', order |-> order] \notin live
                    /\ live' = live \cup {[ptr |-> reply', order |-> order]}
           /\ DS!Step => dpc \in {"split", "coalesce"}
<1>1. DSP!TypeOK /\ DSP!Separate /\ DSP!SplitAsserts /\ DSP!NoDuplicates /\ DSP!ReadBack
    BY DEF StoreInv, DSP!IInv
<1>2. reply \in Int /\ order \in 0 .. 3
    BY <1>1, StoreConstants, DSP!PoolLemma
       DEF DSP!TypeOK, DSP!ALLOC_FAIL, DSP!NoReply, DSP!Orders, DSP!MAX_ORDER
<1>3. \A b \in DOMAIN stored : \A g \in DS!SegmentsOf(b) : pool[g] = stored[b]
    BY <1>1, SameStore DEF DSP!ReadBack
<1>4. ASSUME DS!AllocateReturns
      PROVE  /\ dpc' = "idle" /\ reply' \in Nat
             /\ [ptr |-> reply', order |-> order] \notin live
             /\ live' = live \cup {[ptr |-> reply', order |-> order]}
    <2> DEFINE p == Head(freeLists[order])
               b == [ptr |-> p, order |-> order]
    <2>1. /\ dpc = "split" /\ avail = order /\ dpc' = "idle" /\ reply' = p
          /\ live' = live \cup {b}
        BY <1>4 DEF DS!AllocateReturns, DS!Return
    <2>2. /\ order \in DSP!Orders /\ freeLists[order] \in Seq(DSP!Segments)
          /\ freeLists[order] # <<>> /\ DSP!IsInjective(freeLists[order])
        BY <1>1, <2>1 DEF DSP!TypeOK, DSP!SplitAsserts, DSP!NoDuplicates
    <2>3. p \in DSP!ToSet(freeLists[order]) /\ p \in DSP!Segments
        BY <2>2, DSP!TailLemma, StoreConstants
    <2>4. p % DSP!Span(order) = 0
        BY <1>1, <2>2, <2>3 DEF DSP!TypeOK
    <2>5. b \in DSP!FreeBlocks
        BY <2>2, <2>3, <2>4 DEF DSP!FreeBlocks, DSP!Block
    <2>6. p \in Nat
        BY <2>3, DSP!PoolLemma, StoreConstants
    <2> QED
        BY <1>1, <2>1, <2>5, <2>6 DEF DSP!Separate
<1>5. DS!splitOrder => /\ dpc = "split" /\ dpc' = "split" /\ order' = order
                       /\ UNCHANGED <<pool, stored, live, reply>>
    BY DEF DS!splitOrder
<1>6. DS!Coalesce \/ DS!DeallocateReturns =>
        /\ dpc = "coalesce" /\ dpc' \in {"idle", "coalesce"}
        /\ UNCHANGED <<pool, stored, live, reply>>
    BY DEF DS!Coalesce, DS!DeallocateReturns, DS!Return
<1>7. DS!AllocateReturns => dpc = "split" /\ UNCHANGED <<pool, stored>>
    BY DEF DS!AllocateReturns, DS!data
<1> QED
    BY <1>2, <1>3, <1>4, <1>5, <1>6, <1>7 DEF DS!Step

-----------------------------------------------------------------------------
(***************************************************************************)
(* The inductive invariant: those of the tags and of the store, what is    *)
(* known at each point of invalidate() and handleFill(), PoolIsOwned, and  *)
(* that the store has what was written there for the line of each owner.   *)
(***************************************************************************)
MetaType == /\ blkDataPtr \in [Slots -> Int]
            /\ blkAllocSize \in [Slots -> Nat]
            /\ bins \in [Classes -> Seq(Slots)]

Filling == gpc \in {"allocate", "allocated", "release"}

Points ==
    /\ gpc \in {"none", "invalidate", "allocate", "allocated", "release"}
    /\ gpc \in {"none", "release"} => dpc = "idle"
    /\ gpc \in {"invalidate", "allocate"} => dpc \in {"idle", "coalesce"}
    /\ gpc = "allocated" => \/ dpc = "idle" /\ reply # DS!NoReply
                            \/ dpc = "split" /\ order = DS!sizeToOrder[want]
    /\ gpc = "invalidate" => subject \in Slots /\ HasCopy(subject)
    /\ Filling => /\ pc = "idle" /\ want \in Sizes
                  /\ subject \in Slots /\ isValid(subject) /\ ~HasCopy(subject)

Contents ==
    \A s \in Owners : /\ CopyOf(s) \in DOMAIN stored
                      /\ stored[CopyOf(s)] = Payload[tag[s]]

CInv == /\ IInv /\ StoreInv
        /\ MetaType /\ Points
        /\ NoPoolLeak /\ NoSharing /\ InvalidOwnsNothing
        /\ Contents

LEMMA CInitHolds == CInit => CInv
<1> SUFFICES ASSUME CInit PROVE CInv
    OBVIOUS
<1>1. IInv /\ StoreInv
    BY InitHolds, StoreKeeps DEF CInit
<1>2. MetaType /\ \A s \in Slots : ~HasCopy(s)
    BY DEF CInit, MetaType, HasCopy, ALLOC_FAIL, DS!ALLOC_FAIL, Classes
<1>3. Points
    BY DEF CInit, Points, Filling, DS!Init
<1>4. Owners = {} /\ InTransit = {} /\ live = {}
    BY <1>2 DEF CInit, Owners, InTransit, DS!Init
<1>5. NoPoolLeak /\ NoSharing /\ InvalidOwnsNothing /\ Contents
    BY <1>2, <1>4 DEF NoPoolLeak, NoSharing, InvalidOwnsNothing, Contents
<1> QED
    BY <1>1, <1>2, <1>3, <1>5 DEF CInv

-----------------------------------------------------------------------------
(***************************************************************************)
(* The reservoir.                                                          *)
(***************************************************************************)
LEMMA BinEntry ==
    ASSUME MetaType, NEW b \in Classes, NEW n \in DOMAIN bins[b]
    PROVE  bins[b][n] \in Slots
BY ElementOfSeq, LenProperties DEF MetaType

LEMMA RemoveAtType ==
    ASSUME NEW S, NEW s \in Seq(S), NEW n \in DOMAIN s
    PROVE  RemoveAt(s, n) \in Seq(S)
<1>1. Len(s) \in Nat /\ DOMAIN s = 1 .. Len(s) /\ n \in 1 .. Len(s)
    BY LenProperties
<1>2. SubSeq(s, 1, n - 1) \in Seq(S) /\ SubSeq(s, n + 1, Len(s)) \in Seq(S)
    BY <1>1, SubSeqProperties, ElementOfSeq
<1> QED
    BY <1>2, ConcatProperties DEF RemoveAt

LEMMA BinsKeep ==
    ASSUME MetaType, NEW b \in Classes,
           \/ UNCHANGED bins
           \/ \E n \in DOMAIN bins[b] : getVictim(b, n)
           \/ \E s \in Slots : bins' = [bins EXCEPT ![b] = Append(@, s)]
           \/ \E s \in Slots : \E n \in DOMAIN bins[b] : bins' = [bins EXCEPT ![b][n] = s]
    PROVE  bins' \in [Classes -> Seq(Slots)]
<1>1. bins \in [Classes -> Seq(Slots)] /\ bins[b] \in Seq(Slots)
    BY DEF MetaType
<1>2. ASSUME NEW n \in DOMAIN bins[b]
      PROVE  RemoveAt(bins[b], n) \in Seq(Slots)
    BY <1>1, RemoveAtType
<1>3. ASSUME NEW n \in DOMAIN bins[b], NEW s \in Slots
      PROVE  [bins[b] EXCEPT ![n] = s] \in Seq(Slots)
    BY <1>1, LenProperties, ExceptSeq
<1>4. ASSUME NEW s \in Slots
      PROVE  Append(bins[b], s) \in Seq(Slots)
    BY <1>1, AppendProperties
<1>5. ASSUME NEW q \in Seq(Slots), bins' = [bins EXCEPT ![b] = q]
      PROVE  bins' \in [Classes -> Seq(Slots)]
    BY <1>1, <1>5
<1>6. CASE UNCHANGED bins
    BY <1>1, <1>6
<1>7. CASE \E n \in DOMAIN bins[b] : getVictim(b, n)
    BY <1>2, <1>5, <1>7 DEF getVictim
<1>8. CASE \E s \in Slots : bins' = [bins EXCEPT ![b] = Append(bins[b], s)]
    BY <1>4, <1>5, <1>8
<1>9. CASE \E s \in Slots : \E n \in DOMAIN bins[b] :
              bins' = [bins EXCEPT ![b] = [bins[b] EXCEPT ![n] = s]]
    BY <1>3, <1>5, <1>9
<1> QED
    BY <1>6, <1>7, <1>8, <1>9

-----------------------------------------------------------------------------
(***************************************************************************)
(* The tags: a step of the composition is one of theirs, or drops a block  *)
(* between two requests.                                                   *)
(***************************************************************************)
LEMMA TagsStepOrForced ==
    ASSUME [CNext]_cvars
    PROVE  [Next]_vars \/ ForceEvict
<1>1. CASE UNCHANGED cvars
    BY <1>1 DEF cvars
<1>2. CASE TagsStep
    BY <1>2 DEF TagsStep, Next
<1>3. CASE EvictAndFree \/ \E l \in Line : SnoopAndFree(l)
    BY <1>3 DEF EvictAndFree, SnoopAndFree, Next
<1>4. CASE MoveWithCopy \/ InsertWithoutData \/ \E size \in Sizes : handleFill(size)
    BY <1>4 DEF MoveWithCopy, InsertWithoutData, handleFill, Next
<1>5. CASE StoreStep \/ FreeVictim \/ (\E l \in Line : FreeSnooped(l)) \/ processSampleEvent
    BY <1>5 DEF StoreStep, FreeVictim, FreeSnooped, deallocatePoolSlot, processSampleEvent
<1>6. CASE CallAllocate \/ StoreCopy \/ ReservoirEmpty \/ SkipStale \/ ReleaseVictim
    BY <1>6 DEF CallAllocate, StoreCopy, ReservoirEmpty, SkipStale, ReleaseVictim
<1> QED
    BY <1>1, <1>2, <1>3, <1>4, <1>5, <1>6 DEF CNext, GlueStep

\* The step of the fragmentation loop: it is between two requests to the tags.
LEMMA Forced ==
    ASSUME CInv, ForceEvict
    PROVE  /\ pc = "idle"
           /\ UNCHANGED <<owed, pc, req, candidates, fi, fringeEnd, level, idx,
                          pendingSwapChain, i>>
           /\ \E s \in Slots : isValid(s) /\ invalidate(s)
<1>1. PICK b \in Classes : \E n \in DOMAIN bins[b] :
        ~Stale(bins[b][n]) /\ forceInvalidate(bins[b][n])
    BY DEF ForceEvict
<1>2. PICK s \in Slots : ~Stale(s) /\ forceInvalidate(s)
    BY <1>1, BinEntry DEF CInv
<1> QED
    BY <1>2 DEF CInv, Points, Filling, ForceEvict, AllocFailed, Stale, forceInvalidate, walk

LEMMA TagsKeep ==
    ASSUME CInv, [CNext]_cvars
    PROVE  IInv'
<1>1. CASE [Next]_vars
    BY <1>1, StepKeeps DEF CInv
<1>2. CASE ForceEvict
    <2>1. /\ pc = "idle"
          /\ UNCHANGED <<owed, pc, req, candidates, fi, fringeEnd, level, idx,
                         pendingSwapChain, i>>
        BY <1>2, Forced
    <2>2. PICK s \in Slots : invalidate(s)
        BY <1>2, Forced
    <2>3. /\ TagInv' /\ dirty' \in [Slots -> BOOLEAN]
          /\ tag' \in [Slots -> Line \cup {NoLine}]
        BY <2>1, <2>2, InvalidateKeeps DEF CInv, IInv
    <2>4. TypeOK'
        BY <2>1, <2>3 DEF CInv, IInv, TypeOK
    <2>5. WalkInv' /\ ChainInv' /\ ExecInv' /\ AtRest'
        BY <2>1 DEF CInv, IInv, WalkInv, ChainInv, ExecInv, AtRest, Walking, Searching
    <2> QED
        BY <2>3, <2>4, <2>5 DEF IInv
<1> QED
    BY <1>1, <1>2, TagsStepOrForced

-----------------------------------------------------------------------------
(***************************************************************************)
(* The store: the glue frees and writes only what it holds.                *)
(***************************************************************************)
LEMMA WhatIsHeld ==
    ASSUME CInv
    PROVE  /\ \A s \in Owners : CopyOf(s) \in live
           /\ gpc = "release" => victimBlock \in live
           /\ gpc = "allocated" /\ StoreIdle /\ reply # ALLOC_FAIL =>
                 [ptr |-> reply, order |-> DS!sizeToOrder[want]] \in live
           /\ gpc = "none" => \A s \in Slots : HasCopy(s) => s \in Owners
           /\ \A s \in Slots : HasCopy(s) => tag[s] \in Line
BY DEF CInv, NoPoolLeak, InTransit, Owners, InvalidOwnsNothing, IInv, TypeOK, isValid

LEMMA StoreIsUsedCorrectly ==
    ASSUME CInv, [CNext]_cvars
    PROVE  [DS!Next]_store
<1>1. CASE UNCHANGED store
    BY <1>1
<1>2. ASSUME NEW s \in Slots, deallocatePoolSlot(s)
      PROVE  DS!Next
    <2>1. CopyOf(s) \in live /\ DS!Deallocate(CopyOf(s))
        BY <1>2, WhatIsHeld DEF deallocatePoolSlot
    <2> QED
        BY <2>1 DEF DS!Next
<1>3. CASE FreeVictim
    <2>1. Head(pendingSwapChain) \in Slots
        BY <1>3, WalkAssumption DEF FreeVictim, CInv, IInv, TypeOK, ExecInv
    <2> QED
        BY <1>2, <1>3, <2>1 DEF FreeVictim
<1>4. CASE \E l \in Line : FreeSnooped(l)
    <2>1. PICK l \in Line : FreeSnooped(l)
        BY <1>4
    <2>2. findBlock(l) \in Slots
        BY <2>1, FoundBlock DEF FreeSnooped, CInv, IInv, TagInv
    <2> QED
        BY <1>2, <2>1, <2>2 DEF FreeSnooped
<1>5. CASE StoreStep
    BY <1>5 DEF StoreStep, DS!Next
<1>6. CASE CallAllocate
    <2>1. want \in Sizes
        BY <1>6 DEF CallAllocate, CInv, Points, Filling
    <2> QED
        BY <1>6, <2>1 DEF CallAllocate, DS!Next
<1>7. CASE StoreCopy
    <2> DEFINE b == [ptr |-> reply, order |-> DS!sizeToOrder[want]]
    <2>1. b \in live /\ DS!write(b, Payload[tag[subject]])
        BY <1>7, WhatIsHeld DEF StoreCopy
    <2>2. tag[subject] \in Line
        BY <1>7 DEF StoreCopy, CInv, Points, Filling, IInv, TypeOK, isValid
    <2>3. Payload[tag[subject]] \in Range(Payload)
        BY <2>2, PayloadAssumption DEF Range
    <2> HIDE DEF b
    <2> QED
        BY <2>1, <2>3 DEF DS!Next
<1>8. CASE ReleaseVictim
    <2>1. victimBlock \in live /\ DS!Deallocate(victimBlock)
        BY <1>8, WhatIsHeld DEF ReleaseVictim
    <2> QED
        BY <2>1 DEF DS!Next
<1>9. CASE TagsStep \/ EvictAndFree \/ (\E l \in Line : SnoopAndFree(l)) \/ MoveWithCopy
           \/ InsertWithoutData \/ (\E size \in Sizes : handleFill(size))
           \/ processSampleEvent \/ ReservoirEmpty \/ SkipStale \/ ForceEvict
           \/ UNCHANGED cvars
    <2>1. UNCHANGED store
        BY <1>9 DEF TagsStep, EvictAndFree, SnoopAndFree, MoveWithCopy, InsertWithoutData,
                    handleFill, processSampleEvent, ReservoirEmpty, SkipStale, ForceEvict,
                    PoolSlotFreed, cvars
    <2> QED
        BY <2>1
<1> QED
    BY <1>3, <1>4, <1>5, <1>6, <1>7, <1>8, <1>9 DEF CNext, GlueStep

-----------------------------------------------------------------------------
(***************************************************************************)
(* Who owns what.                                                          *)
(***************************************************************************)
Ownership == NoPoolLeak /\ NoSharing /\ InvalidOwnsNothing /\ Contents

\* A step that leaves the pool blocks with their owners, and the owners their
\* lines.
LEMMA OwnershipAside ==
    ASSUME CInv, UNCHANGED <<live, stored, blkDataPtr, blkAllocSize>>,
           Owners' = Owners, InTransit' = InTransit,
           \A s \in Slots : HasCopy(s) => tag'[s] = tag[s]
    PROVE  Ownership'
<1>1. \A s \in Slots : CopyOf(s)' = CopyOf(s) /\ HasCopy(s)' = HasCopy(s)
    BY DEF CopyOf, HasCopy
<1>2. Owners \subseteq Slots /\ \A s \in Owners : HasCopy(s)
    BY DEF Owners
<1>3. NoPoolLeak' /\ NoSharing'
    BY <1>1, <1>2 DEF CInv, NoPoolLeak, NoSharing
<1>4. InvalidOwnsNothing'
    BY <1>1 DEF CInv, InvalidOwnsNothing, isValid
<1>5. Contents'
    BY <1>1, <1>2 DEF CInv, Contents
<1> QED
    BY <1>3, <1>4, <1>5 DEF Ownership

\* The steps that change neither metadata nor what the glue is doing.
LEMMA TagsAlone ==
    ASSUME CInv, gpc = "none", UNCHANGED <<store, blkDataPtr, blkAllocSize, glue>>,
           bins' \in [Classes -> Seq(Slots)],
           \A s \in Slots : HasCopy(s) => tag'[s] = tag[s]
    PROVE  MetaType' /\ Points' /\ Ownership'
<1>1. Owners' = Owners /\ InTransit' = InTransit
    BY DEF glue, store, Owners, InTransit, HasCopy, StoreIdle
<1>2. Ownership'
    BY <1>1, OwnershipAside DEF store
<1>3. MetaType'
    BY DEF CInv, MetaType
<1>4. Points'
    BY DEF glue, store, CInv, Points, Filling
<1> QED
    BY <1>2, <1>3, <1>4

\* The slot that a line is inserted into was invalid.
LEMMA InsertedNext ==
    ASSUME CInv, InsertLine
    PROVE  LET s == Last(pendingSwapChain)
           IN /\ s \in Slots /\ ~HasCopy(s) /\ tag'[s] \in Line
              /\ \A t \in Slots : HasCopy(t) => tag'[t] = tag[t]
BY FreeRoot DEF CInv, InvalidOwnsNothing

LEMMA TagsStepKeeps ==
    ASSUME CInv, TagsStep \/ InsertWithoutData \/ processSampleEvent \/ UNCHANGED cvars
    PROVE  MetaType' /\ Points' /\ Ownership'
<1>1. CASE TagsStep
    <2>1. UNCHANGED tag
        BY <1>1 DEF TagsStep, FindFreeHome, SeedWalk, WriteHit, Walk, RefuseEviction,
                    StartLevel, ExpandNode, EndLevel, SelectFree, SelectByPolicy, ChooseNode,
                    BuildChain, ReturnVictim
    <2> QED
        BY <1>1, <2>1, TagsAlone DEF TagsStep, meta, CInv, MetaType
<1>2. CASE InsertWithoutData
    BY <1>2, InsertedNext, TagsAlone DEF InsertWithoutData, meta, CInv, MetaType
<1>3. CASE processSampleEvent
    <2>1. bins' \in [Classes -> Seq(Slots)]
        <3>1. PICK s \in Slots :
                LET b == sizeToIdx(blkAllocSize[s]) IN
                   \/ bins' = [bins EXCEPT ![b] = Append(bins[b], s)]
                   \/ \E n \in DOMAIN bins[b] :
                         bins' = [bins EXCEPT ![b] = [bins[b] EXCEPT ![n] = s]]
            BY <1>3 DEF processSampleEvent
        <3>2. sizeToIdx(blkAllocSize[s]) \in Classes
            BY DEF sizeToIdx, Classes
        <3> QED
            BY <3>1, <3>2, BinsKeep DEF CInv
    <2> QED
        BY <1>3, <2>1, TagsAlone DEF processSampleEvent, meta, vars
<1>4. CASE UNCHANGED cvars
    <2>1. Owners' = Owners /\ InTransit' = InTransit
        BY <1>4 DEF cvars, glue, store, meta, Owners, InTransit, HasCopy, StoreIdle
    <2>2. Ownership'
        BY <1>4, <2>1, OwnershipAside DEF cvars, vars, store, meta
    <2>3. MetaType' /\ Points'
        BY <1>4 DEF cvars, vars, glue, store, meta, CInv, MetaType, Points, Filling, isValid, HasCopy
    <2> QED
        BY <2>2, <2>3
<1> QED
    BY <1>1, <1>2, <1>3, <1>4

\* The block of a victim goes back to the store before its tag entry is
\* cleared; in between the entry is no longer an owner.
LEMMA FreeKeeps ==
    ASSUME CInv, NEW s \in Slots, deallocatePoolSlot(s)
    PROVE  MetaType' /\ Points' /\ Ownership'
<1>1. /\ gpc = "none" /\ HasCopy(s) /\ gpc' = "invalidate" /\ subject' = s
      /\ dpc' = "coalesce"
      /\ live' = live \ {CopyOf(s)}
      /\ stored' = [c \in DOMAIN stored \ {CopyOf(s)} |-> stored[c]]
      /\ UNCHANGED <<tag, blkDataPtr, blkAllocSize, bins>>
    BY DEF deallocatePoolSlot, DS!Deallocate, vars, meta
<1>2. /\ Owners = {t \in Slots : HasCopy(t)} /\ InTransit = {}
      /\ Owners' = Owners \ {s} /\ InTransit' = {}
    BY <1>1 DEF Owners, InTransit, HasCopy
<1>3. \A t \in Slots : CopyOf(t)' = CopyOf(t) /\ HasCopy(t)' = HasCopy(t)
    BY <1>1 DEF CopyOf, HasCopy
<1>4. \A t \in Owners' : t \in Owners /\ CopyOf(t) # CopyOf(s)
    BY <1>1, <1>2 DEF CInv, NoSharing
<1>5. NoPoolLeak'
    <2>1. live = {CopyOf(t) : t \in Owners}
        BY <1>2 DEF CInv, NoPoolLeak
    <2>2. live' = {CopyOf(t) : t \in Owners \ {s}}
        BY <1>1, <1>2, <1>4, <2>1
    <2>3. {CopyOf(t)' : t \in Owners \ {s}} = {CopyOf(t) : t \in Owners \ {s}}
        BY <1>2, <1>3
    <2> QED
        BY <1>2, <2>2, <2>3 DEF NoPoolLeak
<1>6. NoSharing'
    BY <1>2, <1>3, <1>4 DEF CInv, NoSharing
<1>7. InvalidOwnsNothing'
    BY <1>1, <1>3 DEF CInv, InvalidOwnsNothing, isValid
<1>8. Contents'
    BY <1>1, <1>2, <1>3, <1>4 DEF CInv, Contents
<1>9. MetaType' /\ Points'
    BY <1>1, <1>3 DEF CInv, MetaType, Points, Filling
<1> QED
    BY <1>5, <1>6, <1>7, <1>8, <1>9 DEF Ownership

\* Clearing the metadata of an entry, with or without its tag.
LEMMA ClearedMeta ==
    ASSUME MetaType, NEW s \in Slots, clearMeta(s)
    PROVE  /\ blkDataPtr' \in [Slots -> Int] /\ blkAllocSize' \in [Slots -> Nat]
           /\ ~HasCopy(s)'
           /\ \A t \in Slots \ {s} : CopyOf(t)' = CopyOf(t) /\ HasCopy(t)' = HasCopy(t)
BY DEF MetaType, clearMeta, HasCopy, CopyOf, ALLOC_FAIL, DS!ALLOC_FAIL

LEMMA InvalidateKeepsOwners ==
    ASSUME CInv, NEW s \in Slots, PoolSlotFreed(s), invalidate(s)
    PROVE  MetaType' /\ Points' /\ Ownership'
<1>1. /\ dpc = "idle" /\ clearMeta(s)
      /\ gpc' = "none"
      /\ \/ gpc = "invalidate" /\ subject = s
         \/ gpc = "none" /\ ~HasCopy(s)
      /\ UNCHANGED <<store, bins>>
      /\ UNCHANGED <<dpc, live, stored, reply>>
    BY DEF PoolSlotFreed, StoreIdle, store
<1>2. /\ blkDataPtr' \in [Slots -> Int] /\ blkAllocSize' \in [Slots -> Nat]
      /\ ~HasCopy(s)'
      /\ \A t \in Slots \ {s} : CopyOf(t)' = CopyOf(t) /\ HasCopy(t)' = HasCopy(t)
    BY <1>1, ClearedMeta DEF CInv
<1>3. \A t \in Slots \ {s} : tag'[t] = tag[t]
    BY DEF invalidate, CInv, IInv, TypeOK
<1>4. /\ Owners' = Owners /\ s \notin Owners /\ Owners \subseteq Slots
      /\ InTransit' = {} /\ InTransit = {}
    BY <1>1, <1>2 DEF Owners, InTransit
<1>5. NoPoolLeak'
    BY <1>1, <1>2, <1>4 DEF CInv, NoPoolLeak
<1>6. NoSharing'
    BY <1>2, <1>4 DEF CInv, NoSharing
<1>7. InvalidOwnsNothing'
    BY <1>2, <1>3 DEF CInv, InvalidOwnsNothing, isValid
<1>8. Contents'
    BY <1>1, <1>2, <1>3, <1>4 DEF CInv, Contents
<1>9. MetaType' /\ Points'
    BY <1>1, <1>2 DEF CInv, MetaType, Points, Filling
<1> QED
    BY <1>5, <1>6, <1>7, <1>8, <1>9 DEF Ownership

\* doMoveBlock() takes the pool block along.
LEMMA MoveKeepsOwners ==
    ASSUME CInv, MoveWithCopy
    PROVE  MetaType' /\ Points' /\ Ownership'
<1>1. PICK src \in Slots, dst \in Slots :
         /\ src = pendingSwapChain[i] /\ dst = pendingSwapChain[i - 1]
         /\ isValid(src) /\ ~isValid(dst)
         /\ doMoveBlock(src, dst)
    BY MovedBlock DEF MoveWithCopy, CInv
<1> DEFINE from(t) == IF t = dst THEN src ELSE t
<1>2. /\ gpc = "none" /\ UNCHANGED <<bins, glue>> /\ UNCHANGED <<dpc, live, stored, reply>>
      /\ gpc' = "none"
      /\ blkDataPtr' = [blkDataPtr EXCEPT ![dst] = blkDataPtr[src], ![src] = ALLOC_FAIL]
      /\ blkAllocSize' = [blkAllocSize EXCEPT ![dst] = blkAllocSize[src], ![src] = 0]
    BY <1>1 DEF MoveWithCopy, store, glue
<1>3. src # dst /\ tag \in [Slots -> Line \cup {NoLine}] /\ ~HasCopy(dst)
    BY <1>1 DEF CInv, IInv, TypeOK, InvalidOwnsNothing
<1>a. /\ blkDataPtr' \in [Slots -> Int] /\ blkAllocSize' \in [Slots -> Nat]
      /\ \A t \in Slots : blkDataPtr'[t] = IF t = src THEN ALLOC_FAIL ELSE blkDataPtr[from(t)]
      /\ \A t \in Slots : blkAllocSize'[t] = IF t = src THEN 0 ELSE blkAllocSize[from(t)]
    BY <1>1, <1>2, <1>3 DEF CInv, MetaType, ALLOC_FAIL, DS!ALLOC_FAIL
<1>b. \A t \in Slots \ {src} : tag'[t] = tag[from(t)]
    BY <1>1, <1>3 DEF doMoveBlock
<1>c. /\ from(dst) = src
      /\ \A t \in Slots \ {src, dst} : from(t) = t
      /\ \A t \in Slots \ {src} : from(t) \in Slots \ {dst}
      /\ \A t, u \in Slots \ {src} : from(t) = from(u) => t = u
    BY <1>1, <1>3
<1> HIDE DEF from
<1>4. /\ ~HasCopy(src)'
      /\ \A t \in Slots \ {src} : CopyOf(t)' = CopyOf(from(t)) /\ HasCopy(t)' = HasCopy(from(t))
    BY <1>1, <1>a DEF HasCopy, CopyOf
<1>5. /\ Owners = {t \in Slots : HasCopy(t)} /\ InTransit = {} /\ InTransit' = {}
      /\ Owners' = {t \in Slots : HasCopy(t)'}
    BY <1>2 DEF Owners, InTransit, HasCopy
<1>6. /\ \A t \in Owners' : from(t) \in Owners /\ t \in Slots \ {src}
      /\ \A t \in Owners : \E u \in Owners' : from(u) = t
    <2>1. \A t \in Owners' : from(t) \in Owners /\ t \in Slots \ {src}
        BY <1>4, <1>5, <1>c
    <2>2. ASSUME NEW t \in Owners
          PROVE  \E u \in Owners' : from(u) = t
        <3>1. t # dst /\ t \in Slots /\ HasCopy(t)
            BY <1>3, <1>5
        <3>2. CASE t = src
            BY <1>1, <1>3, <1>4, <1>5, <1>c, <3>1, <3>2
        <3>3. CASE t # src
            BY <1>4, <1>5, <1>c, <3>1, <3>3
        <3> QED
            BY <3>2, <3>3
    <2> QED
        BY <2>1, <2>2
<1>7. \A t \in Owners' : CopyOf(t)' = CopyOf(from(t)) /\ tag'[t] = tag[from(t)]
    BY <1>4, <1>6, <1>b
<1>8. NoPoolLeak'
    <2>1. live = {CopyOf(t) : t \in Owners}
        BY <1>5 DEF CInv, NoPoolLeak
    <2>2. {CopyOf(t)' : t \in Owners'} = {CopyOf(t) : t \in Owners}
        BY <1>6, <1>7
    <2> QED
        BY <1>2, <1>5, <2>1, <2>2 DEF NoPoolLeak
<1>9. NoSharing'
    BY <1>5, <1>6, <1>7, <1>c DEF CInv, NoSharing
<1>10. InvalidOwnsNothing'
    BY <1>4, <1>b, <1>c DEF CInv, InvalidOwnsNothing, isValid
<1>11. Contents'
    BY <1>2, <1>6, <1>7 DEF CInv, Contents
<1>12. MetaType' /\ Points'
    BY <1>2, <1>a DEF CInv, MetaType, Points, Filling
<1> QED
    BY <1>8, <1>9, <1>10, <1>11, <1>12 DEF Ownership

\* handleFill() up to the answer of allocate().
LEMMA FillStartsKeeps ==
    ASSUME CInv, NEW size \in Sizes, handleFill(size)
    PROVE  MetaType' /\ Points' /\ Ownership'
<1>1. PICK s \in Slots : /\ s = Last(pendingSwapChain) /\ ~HasCopy(s) /\ tag'[s] \in Line
                         /\ \A t \in Slots : HasCopy(t) => tag'[t] = tag[t]
    BY InsertedNext DEF handleFill
<1>2. /\ gpc = "none" /\ gpc' = "allocate" /\ subject' = s /\ want' = size /\ pc' = "idle"
      /\ UNCHANGED <<live, stored, dpc, blkDataPtr, blkAllocSize, bins>>
    BY <1>1 DEF handleFill, InsertLine, store, meta
<1>3. Owners' = Owners /\ InTransit' = InTransit
    BY <1>2 DEF Owners, InTransit, HasCopy
<1>4. Ownership'
    BY <1>1, <1>2, <1>3, OwnershipAside
<1>5. MetaType'
    BY <1>2 DEF CInv, MetaType
<1>6. Points'
    BY <1>1, <1>2, LineAssumption DEF CInv, Points, Filling, isValid, HasCopy
<1> QED
    BY <1>4, <1>5, <1>6

LEMMA CallAllocateKeeps ==
    ASSUME CInv, CallAllocate
    PROVE  MetaType' /\ Points' /\ Ownership'
<1>1. /\ gpc = "allocate" /\ gpc' = "allocated"
      /\ UNCHANGED <<tag, pc, blkDataPtr, blkAllocSize, bins, subject, want>>
      /\ UNCHANGED <<live, stored>>
      /\ \/ dpc' = "split" /\ order' = DS!sizeToOrder[want]
         \/ dpc' = "idle" /\ reply' = ALLOC_FAIL
    BY DEF CallAllocate, DS!Allocate, DS!AllocateFails, DS!locals, vars, meta,
           ALLOC_FAIL, DS!ALLOC_FAIL
<1>2. Owners' = Owners /\ InTransit' = InTransit
    BY <1>1 DEF Owners, InTransit, HasCopy, StoreIdle, ALLOC_FAIL, DS!ALLOC_FAIL
<1>3. Ownership'
    BY <1>1, <1>2, OwnershipAside
<1>4. MetaType' /\ Points'
    BY <1>1 DEF CInv, MetaType, Points, Filling, isValid, HasCopy,
                ALLOC_FAIL, DS!ALLOC_FAIL, DS!NoReply
<1> QED
    BY <1>3, <1>4

\* A step of the store under a call of the glue: allocate() brings a block
\* into transit when it returns, the others change nothing for the owners.
LEMMA StoreStepKeeps ==
    ASSUME CInv, StoreStep
    PROVE  MetaType' /\ Points' /\ Ownership'
<1>1. /\ DS!Step /\ UNCHANGED <<pool, stored>>
      /\ UNCHANGED <<tag, pc, blkDataPtr, blkAllocSize, bins, gpc, subject, want, victimBlock>>
      /\ dpc \in {"split", "coalesce"}
    BY StoreSteps DEF CInv, StoreStep, vars, meta, glue
<1>2. /\ Owners' = Owners /\ Owners \subseteq Slots
      /\ \A s \in Slots : CopyOf(s)' = CopyOf(s) /\ HasCopy(s)' = HasCopy(s)
    BY <1>1 DEF Owners, HasCopy, CopyOf
<1>3. CASE dpc = "coalesce"
    <2>1. UNCHANGED <<live, reply>> /\ dpc' \in {"idle", "coalesce"}
          /\ gpc \in {"invalidate", "allocate"}
        BY <1>1, <1>3, StoreSteps DEF CInv, Points
    <2>2. InTransit' = {} /\ InTransit = {}
        BY <1>1, <2>1 DEF InTransit
    <2>3. Ownership'
        BY <1>1, <1>2, <2>1, <2>2, OwnershipAside
    <2>4. MetaType' /\ Points'
        BY <1>1, <2>1 DEF CInv, MetaType, Points, Filling, isValid, HasCopy
    <2> QED
        BY <2>3, <2>4
<1>4. CASE dpc = "split"
    <2>1. gpc = "allocated" /\ order = DS!sizeToOrder[want] /\ InTransit = {}
        BY <1>1, <1>4 DEF CInv, Points, InTransit, StoreIdle
    <2>2. CASE dpc' = "split" /\ order' = order /\ UNCHANGED <<live, reply>>
        <3>1. InTransit' = {}
            BY <1>1, <2>1, <2>2 DEF InTransit, StoreIdle
        <3>2. Ownership'
            BY <1>1, <1>2, <2>1, <2>2, <3>1, OwnershipAside
        <3>3. MetaType' /\ Points'
            BY <1>1, <2>1, <2>2 DEF CInv, MetaType, Points, Filling, isValid, HasCopy
        <3> QED
            BY <3>2, <3>3
    <2>3. CASE /\ dpc' = "idle" /\ reply' \in Nat
               /\ [ptr |-> reply', order |-> order] \notin live
               /\ live' = live \cup {[ptr |-> reply', order |-> order]}
        <3>1. InTransit' = {[ptr |-> reply', order |-> order]}
            BY <1>1, <2>1, <2>3 DEF InTransit, StoreIdle, ALLOC_FAIL, DS!ALLOC_FAIL
        <3>2. \A s \in Owners : CopyOf(s) \in live
            BY WhatIsHeld
        <3>3. NoPoolLeak' /\ NoSharing'
            BY <1>2, <2>1, <2>3, <3>1, <3>2 DEF CInv, NoPoolLeak, NoSharing
        <3>4. InvalidOwnsNothing' /\ Contents'
            BY <1>1, <1>2 DEF CInv, InvalidOwnsNothing, Contents, isValid
        <3>5. MetaType' /\ Points'
            BY <1>1, <2>1, <2>3
               DEF CInv, MetaType, Points, Filling, isValid, HasCopy, DS!NoReply
        <3> QED
            BY <3>3, <3>4, <3>5 DEF Ownership
    <2> QED
        BY <1>1, <1>4, <2>2, <2>3, StoreSteps DEF CInv
<1> QED
    BY <1>1, <1>3, <1>4

\* The allocated block is written and recorded in the tag entry.
LEMMA StoreCopyKeeps ==
    ASSUME CInv, StoreCopy
    PROVE  MetaType' /\ Points' /\ Ownership'
<1> DEFINE b == [ptr |-> reply, order |-> DS!sizeToOrder[want]]
<1>1. /\ gpc = "allocated" /\ gpc' = "none" /\ StoreIdle /\ reply # ALLOC_FAIL
      /\ blkDataPtr' = [blkDataPtr EXCEPT ![subject] = reply]
      /\ blkAllocSize' = [blkAllocSize EXCEPT ![subject] = want]
      /\ stored' = [c \in DOMAIN stored \cup {b} |->
                       IF c = b THEN Payload[tag[subject]] ELSE stored[c]]
      /\ UNCHANGED <<tag, pc, bins, live>>
      /\ dpc' = "idle"
    BY DEF StoreCopy, DS!write, DS!locals, HandlerReturns, vars, StoreIdle
<1>2. PICK s \in Slots : s = subject
    BY <1>1 DEF CInv, Points, Filling
<1>3. /\ isValid(s) /\ ~HasCopy(s) /\ want \in Sizes
    BY <1>1, <1>2 DEF CInv, Points, Filling
<1>4. want \in Nat /\ want > 0 /\ reply \in Int
    BY <1>3, StoreAssumption, StoreSteps DEF CInv
<1>5. /\ blkDataPtr' \in [Slots -> Int] /\ blkAllocSize' \in [Slots -> Nat]
      /\ HasCopy(s)' /\ CopyOf(s)' = b
      /\ \A t \in Slots \ {s} : CopyOf(t)' = CopyOf(t) /\ HasCopy(t)' = HasCopy(t)
    BY <1>1, <1>2, <1>4 DEF CInv, MetaType, HasCopy, CopyOf, ALLOC_FAIL, DS!ALLOC_FAIL
<1>6. /\ InTransit = {b} /\ InTransit' = {}
    BY <1>1 DEF InTransit
<1> HIDE DEF b
<1>7. Owners' = Owners \cup {s} /\ s \notin Owners /\ Owners \subseteq Slots
    BY <1>1, <1>3, <1>5 DEF Owners
<1>8. NoPoolLeak'
    BY <1>1, <1>5, <1>6, <1>7 DEF CInv, NoPoolLeak
<1>9. \A t \in Owners : CopyOf(t) # b
    BY <1>6 DEF CInv, NoSharing
<1>10. NoSharing'
    BY <1>5, <1>6, <1>7, <1>9 DEF CInv, NoSharing
<1>11. InvalidOwnsNothing'
    BY <1>1, <1>3, <1>5 DEF CInv, InvalidOwnsNothing, isValid
<1>12. Contents'
    BY <1>1, <1>2, <1>5, <1>7, <1>9 DEF CInv, Contents
<1>13. MetaType' /\ Points'
    BY <1>1, <1>5 DEF CInv, MetaType, Points, Filling
<1> QED
    BY <1>8, <1>10, <1>11, <1>12, <1>13 DEF Ownership

\* The fragmentation loop.  A victim's block is in transit from the moment its
\* tag entry is dropped until it is back in the store.
LEMMA GiveUpOrSkipKeeps ==
    ASSUME CInv, ReservoirEmpty \/ SkipStale
    PROVE  MetaType' /\ Points' /\ Ownership'
<1>1. /\ AllocFailed /\ gpc' \in {"none", "allocate"}
      /\ gpc' = "allocate" => UNCHANGED <<subject, want>>
      /\ UNCHANGED <<tag, pc, blkDataPtr, blkAllocSize, live, stored, dpc>>
    BY DEF ReservoirEmpty, SkipStale, HandlerReturns, vars, meta, store
<1>2. bins' \in [Classes -> Seq(Slots)]
    <2>1. CASE ReservoirEmpty
        BY <2>1 DEF ReservoirEmpty, CInv, MetaType
    <2>2. CASE SkipStale
        BY <2>2, BinsKeep DEF SkipStale, CInv
    <2> QED
        BY <2>1, <2>2
<1>3. Owners' = Owners /\ InTransit' = {} /\ InTransit = {}
    BY <1>1 DEF Owners, InTransit, HasCopy, AllocFailed
<1>4. Ownership'
    BY <1>1, <1>3, OwnershipAside
<1>5. MetaType' /\ Points'
    BY <1>1, <1>2 DEF CInv, MetaType, Points, Filling, isValid, HasCopy, AllocFailed, StoreIdle
<1> QED
    BY <1>4, <1>5

LEMMA ForceEvictKeeps ==
    ASSUME CInv, ForceEvict
    PROVE  MetaType' /\ Points' /\ Ownership'
<1>1. PICK b \in Classes : \E n \in DOMAIN bins[b] :
        /\ getVictim(b, n) /\ ~Stale(bins[b][n])
        /\ victimBlock' = CopyOf(bins[b][n])
        /\ forceInvalidate(bins[b][n])
    BY DEF ForceEvict
<1>2. PICK s \in Slots : ~Stale(s) /\ victimBlock' = CopyOf(s) /\ forceInvalidate(s)
    BY <1>1, BinEntry DEF CInv
<1>3. bins' \in [Classes -> Seq(Slots)]
    BY <1>1, BinsKeep DEF CInv
<1>4. /\ gpc = "allocated" /\ dpc = "idle" /\ reply = ALLOC_FAIL /\ gpc' = "release"
      /\ UNCHANGED <<pc, subject, want, live, stored, dpc>>
    BY <1>2 DEF ForceEvict, AllocFailed, StoreIdle, forceInvalidate, store
<1>5. /\ HasCopy(s) /\ isValid(s)
      /\ blkDataPtr' \in [Slots -> Int] /\ blkAllocSize' \in [Slots -> Nat]
      /\ ~HasCopy(s)'
      /\ \A t \in Slots \ {s} : CopyOf(t)' = CopyOf(t) /\ HasCopy(t)' = HasCopy(t)
    BY <1>2, ClearedMeta DEF Stale, forceInvalidate, CInv
<1>6. \A t \in Slots \ {s} : tag'[t] = tag[t]
    BY <1>2 DEF forceInvalidate, invalidate, CInv, IInv, TypeOK
<1>7. PICK t \in Slots : t = subject /\ t # s /\ isValid(t) /\ ~HasCopy(t) /\ want \in Sizes
                         /\ pc = "idle"
    BY <1>4, <1>5 DEF CInv, Points, Filling
<1>8. /\ s \in Owners /\ Owners \subseteq Slots /\ Owners' = Owners \ {s}
      /\ InTransit = {} /\ InTransit' = {CopyOf(s)}
    BY <1>2, <1>4, <1>5 DEF Owners, InTransit, StoreIdle
<1>9. NoPoolLeak'
    <2>1. live = {CopyOf(u) : u \in Owners}
        BY <1>8 DEF CInv, NoPoolLeak
    <2>2. {CopyOf(u)' : u \in Owners'} = {CopyOf(u) : u \in Owners \ {s}}
        BY <1>5, <1>8
    <2>3. live = {CopyOf(u) : u \in Owners \ {s}} \cup {CopyOf(s)}
        BY <1>8, <2>1
    <2> QED
        BY <1>4, <1>8, <2>2, <2>3 DEF NoPoolLeak
<1>10. NoSharing'
    BY <1>5, <1>8 DEF CInv, NoSharing
<1>11. InvalidOwnsNothing'
    BY <1>5, <1>6 DEF CInv, InvalidOwnsNothing, isValid
<1>12. Contents'
    BY <1>4, <1>5, <1>6, <1>8 DEF CInv, Contents
<1>13. MetaType' /\ Points'
    BY <1>3, <1>4, <1>5, <1>6, <1>7 DEF CInv, MetaType, Points, Filling, isValid
<1> QED
    BY <1>9, <1>10, <1>11, <1>12, <1>13 DEF Ownership

LEMMA ReleaseVictimKeeps ==
    ASSUME CInv, ReleaseVictim
    PROVE  MetaType' /\ Points' /\ Ownership'
<1>1. /\ gpc = "release" /\ gpc' = "allocate" /\ dpc' = "coalesce"
      /\ live' = live \ {victimBlock}
      /\ stored' = [c \in DOMAIN stored \ {victimBlock} |-> stored[c]]
      /\ UNCHANGED <<tag, pc, blkDataPtr, blkAllocSize, bins, subject, want>>
    BY DEF ReleaseVictim, DS!Deallocate, vars, meta
<1>2. /\ Owners' = Owners /\ Owners \subseteq Slots
      /\ InTransit = {victimBlock} /\ InTransit' = {}
    BY <1>1 DEF Owners, InTransit, HasCopy
<1>3. \A s \in Slots : CopyOf(s)' = CopyOf(s) /\ HasCopy(s)' = HasCopy(s)
    BY <1>1 DEF CopyOf, HasCopy
<1>4. \A s \in Owners : CopyOf(s) # victimBlock
    BY <1>2 DEF CInv, NoSharing
<1>5. NoPoolLeak'
    BY <1>1, <1>2, <1>3, <1>4 DEF CInv, NoPoolLeak
<1>6. NoSharing'
    BY <1>2, <1>3 DEF CInv, NoSharing
<1>7. InvalidOwnsNothing'
    BY <1>1, <1>3 DEF CInv, InvalidOwnsNothing, isValid
<1>8. Contents'
    BY <1>1, <1>2, <1>3, <1>4 DEF CInv, Contents
<1>9. MetaType' /\ Points'
    BY <1>1, <1>3 DEF CInv, MetaType, Points, Filling, isValid, HasCopy
<1> QED
    BY <1>5, <1>6, <1>7, <1>8, <1>9 DEF Ownership

-----------------------------------------------------------------------------
LEMMA OwnershipKeeps ==
    ASSUME CInv, [CNext]_cvars
    PROVE  MetaType' /\ Points' /\ Ownership'
<1>1. CASE TagsStep \/ InsertWithoutData \/ processSampleEvent \/ UNCHANGED cvars
    BY <1>1, TagsStepKeeps
<1>2. CASE FreeVictim
    <2>1. Head(pendingSwapChain) \in Slots
        BY <1>2, WalkAssumption DEF FreeVictim, CInv, IInv, TypeOK, ExecInv
    <2> QED
        BY <1>2, <2>1, FreeKeeps DEF FreeVictim
<1>3. CASE EvictAndFree
    <2>1. Head(pendingSwapChain) \in Slots
        BY <1>3, WalkAssumption DEF EvictAndFree, EvictVictim, CInv, IInv, TypeOK, ExecInv
    <2> QED
        BY <1>3, <2>1, InvalidateKeepsOwners DEF EvictAndFree, EvictVictim
<1>4. ASSUME NEW l \in Line, FreeSnooped(l)
      PROVE  MetaType' /\ Points' /\ Ownership'
    <2>1. findBlock(l) \in Slots
        BY <1>4, FoundBlock DEF FreeSnooped, CInv, IInv, TagInv
    <2> QED
        BY <1>4, <2>1, FreeKeeps DEF FreeSnooped
<1>5. ASSUME NEW l \in Line, SnoopAndFree(l)
      PROVE  MetaType' /\ Points' /\ Ownership'
    <2>1. findBlock(l) \in Slots
        BY <1>5, FoundBlock DEF SnoopAndFree, SnoopInvalidate, CInv, IInv, TagInv
    <2> QED
        BY <1>5, <2>1, InvalidateKeepsOwners DEF SnoopAndFree, SnoopInvalidate
<1>6. CASE MoveWithCopy
    BY <1>6, MoveKeepsOwners
<1>7. ASSUME NEW size \in Sizes, handleFill(size)
      PROVE  MetaType' /\ Points' /\ Ownership'
    BY <1>7, FillStartsKeeps
<1>8. CASE StoreStep
    BY <1>8, StoreStepKeeps
<1>9. CASE GlueStep
    BY <1>9, CallAllocateKeeps, StoreCopyKeeps, GiveUpOrSkipKeeps, ForceEvictKeeps,
       ReleaseVictimKeeps DEF GlueStep
<1> QED
    BY <1>1, <1>2, <1>3, <1>4, <1>5, <1>6, <1>7, <1>8, <1>9 DEF CNext

LEMMA CStepKeeps == CInv /\ [CNext]_cvars => CInv'
<1> SUFFICES ASSUME CInv, [CNext]_cvars PROVE CInv'
    OBVIOUS
<1>1. IInv'
    BY TagsKeep
<1>2. StoreInv'
    BY StoreIsUsedCorrectly, StoreKeeps DEF CInv
<1>3. MetaType' /\ Points' /\ Ownership'
    BY OwnershipKeeps
<1> QED
    BY <1>1, <1>2, <1>3 DEF CInv, Ownership

LEMMA CInvariance == CSpec => []CInv
<1>1. CInit => CInv
    BY CInitHolds
<1>2. CInv /\ [CNext]_cvars => CInv'
    BY CStepKeeps
<1> QED
    BY <1>1, <1>2, PTL DEF CSpec

\* The pool and the tags agree at every step of every request: no block of the
\* pool leaks, none has two owners, and none outlives its line.
THEOREM PoolBelongsToTheTags == CSpec => []PoolIsOwned
<1>1. CInv => PoolIsOwned
    BY DEF CInv, PoolIsOwned
<1> QED
    BY <1>1, CInvariance, PTL

\* The copy that a tag entry points to is the one of its line, across
\* relocations, evictions and the reuse of the pool.
THEOREM CopiesStayWithTheirLines == CSpec => []CopyIsOfTheLine
<1>1. CInv => CopyIsOfTheLine
    <2> SUFFICES ASSUME CInv, NEW s \in Owners, NEW g \in DS!SegmentsOf(CopyOf(s))
                 PROVE  pool[g] = Payload[tag[s]]
        BY DEF CopyIsOfTheLine
    <2>1. CopyOf(s) \in DOMAIN stored /\ stored[CopyOf(s)] = Payload[tag[s]]
        BY DEF CInv, Contents
    <2> QED
        BY <2>1, StoreSteps DEF CInv
<1> QED
    BY <1>1, CInvariance, PTL

\* The fragmentation loop drops tag entries without a request of theirs, and
\* still every line is where a lookup finds it, and once.
THEOREM TagsStayConsistent == CSpec => [](Placement /\ NoDuplicateLine)
<1>1. CInv => Placement /\ NoDuplicateLine
    BY DEF CInv, IInv, TagInv
<1> QED
    BY <1>1, CInvariance, PTL

\* Nor does it disturb a relocation: the assertions on it hold in the cache too,
\* its chains are legal, and no line is evicted to make way but when it must be.
THEOREM RelocationsStayLegal ==
    CSpec => [](RelocationAsserts /\ ChainIsLegal /\ EvictsOnlyWhenFull)
<1>1. CInv => RelocationAsserts /\ ChainIsLegal /\ EvictsOnlyWhenFull
    BY ChainFacts DEF CInv
<1> QED
    BY <1>1, CInvariance, PTL

\* The fragmentation loop never evicts the block it makes room for.
THEOREM LoopSparesItsTarget == CSpec => []FillTargetSurvives
<1>1. CInv => FillTargetSurvives
    BY DEF CInv, Points, Filling, FillTargetSurvives
<1> QED
    BY <1>1, CInvariance, PTL

\* The tags and the glue free and write only blocks of the pool that they hold,
\* so what is proved of the data store alone holds of it in the cache.
THEOREM ContractOfTheStoreIsKept == CSpec => UsesStoreCorrectly
<1>1. CInit => DS!Init
    BY DEF CInit
<1>2. CInv /\ [CNext]_cvars => [DS!Next]_store
    BY StoreIsUsedCorrectly
<1>3. [DS!Next]_store <=> [DS!Next]_(DS!vars)
    BY DEF store, DS!vars
<1> QED
    BY <1>1, <1>2, <1>3, CInvariance, PTL DEF CSpec, UsesStoreCorrectly, DS!Spec

-----------------------------------------------------------------------------
(***************************************************************************)
(* A pool with 64 bytes for every slot is never exhausted, whatever the    *)
(* mixture of sizes and the order in which they come and go: when          *)
(* allocate() fails, every chunk of 64 bytes is touched by the block of an *)
(* owner, none of which lies in two chunks; but the slot that is being     *)
(* filled owns nothing.                                                    *)
(***************************************************************************)
UsedSlots   == UNION {Homes(l) : l \in Line}
PoolIsAmple == PoolBytes >= 64 * Cardinality(UsedSlots)

\* After a failed allocate() the lists that would have done are empty.
FailedForWant ==
    AllocFailed => \A k \in DS!sizeToOrder[want] .. 3 : freeLists[k] = <<>>

LEMMA FailedForWantKeeps ==
    ASSUME CInv, FailedForWant, [CNext]_cvars
    PROVE  FailedForWant'
<1> SUFFICES ASSUME AllocFailed'
             PROVE  (\A k \in DS!sizeToOrder[want] .. 3 : freeLists[k] = <<>>)'
    BY DEF FailedForWant
<1>1. gpc' = "allocated" /\ dpc' = "idle" /\ reply' = ALLOC_FAIL
    BY DEF AllocFailed, StoreIdle
<1>2. CASE UNCHANGED <<gpc, want, store>>
    BY <1>1, <1>2 DEF FailedForWant, AllocFailed, StoreIdle, store
<1>3. CASE CallAllocate
    <2>1. DS!AllocateFails(want)
        BY <1>1, <1>3 DEF CallAllocate, DS!Allocate
    <2> QED
        BY <1>3, <2>1 DEF CallAllocate, DS!AllocateFails, DS!MAX_ORDER
<1>4. CASE StoreStep
    <2>1. gpc = "allocated" /\ DS!Step /\ dpc = "split"
        BY <1>1, <1>4, StoreSteps DEF StoreStep, glue, CInv, Points
    <2>2. reply' \in Nat
        BY <1>1, <2>1, StoreSteps DEF CInv
    <2> QED
        BY <1>1, <2>2 DEF ALLOC_FAIL, DS!ALLOC_FAIL
<1>5. CASE TagsStep \/ InsertWithoutData \/ processSampleEvent \/ MoveWithCopy \/ UNCHANGED cvars
    BY <1>2, <1>5 DEF TagsStep, InsertWithoutData, processSampleEvent, MoveWithCopy, cvars, glue
<1>6. CASE FreeVictim \/ EvictAndFree \/ \E l \in Line : FreeSnooped(l) \/ SnoopAndFree(l)
    BY <1>1, <1>6 DEF FreeVictim, EvictAndFree, FreeSnooped, SnoopAndFree, deallocatePoolSlot,
                      PoolSlotFreed
<1>7. CASE \E size \in Sizes : handleFill(size)
    BY <1>1, <1>7 DEF handleFill
<1>8. CASE StoreCopy \/ ReservoirEmpty \/ SkipStale \/ ForceEvict \/ ReleaseVictim
    BY <1>1, <1>8 DEF StoreCopy, ReservoirEmpty, SkipStale, ForceEvict, ReleaseVictim,
                      HandlerReturns
<1> QED
    BY <1>3, <1>4, <1>5, <1>6, <1>7, <1>8 DEF CNext, GlueStep

LEMMA UsedSlotsFinite == IsFiniteSet(UsedSlots) /\ Cardinality(UsedSlots) \in Nat
<1>1. IsFiniteSet(Sets) /\ IsFiniteSet(Ways)
    BY FS_Interval, WaysAssumption, SetsAssumption DEF Sets, Ways
<1>2. IsFiniteSet(Slots)
    BY <1>1, FS_Product DEF Slots
<1>3. UsedSlots \in SUBSET Slots
    BY HomesType DEF UsedSlots
<1>4. IsFiniteSet(UsedSlots)
    BY <1>2, <1>3, FS_Subset
<1> QED
    BY <1>4, FS_CardinalityType

\* A block of the pool lies in one chunk of 64 bytes.
LEMMA BlockInChunk ==
    ASSUME NEW b \in DSP!Block, NEW c \in 0 .. (DSP!NumChunks - 1),
           DSP!SegmentsOf(b) \cap DSP!SegmentsOf([ptr |-> 8 * c, order |-> 3]) # {}
    PROVE  b.ptr \div 8 = c
<1> DEFINE e == [ptr |-> 8 * c, order |-> 3]
<1>1. DSP!NumChunks \in Nat /\ DSP!Segments = 0 .. (8 * DSP!NumChunks - 1) /\ c \in Nat
    BY DSP!PoolLemma, StoreConstants
<1>2. e \in DSP!Block
    BY <1>1 DEF DSP!Block, DSP!Orders, DSP!MAX_ORDER, DSP!Span
<1>3. b.order <= e.order /\ b.ptr \in DSP!SegmentsOf(b) /\ b.ptr \in Nat
    BY DSP!BlockLemma, StoreConstants DEF DSP!Orders, DSP!MAX_ORDER
<1>4. PICK g : g \in DSP!SegmentsOf(b) \cap DSP!SegmentsOf(e)
    OBVIOUS
<1> HIDE DEF e
<1>5. DSP!SegmentsOf(b) \subseteq DSP!SegmentsOf(e)
    BY <1>2, <1>3, <1>4, DSP!NestedLemma, StoreConstants
<1>6. b.ptr \in (8 * c) .. (8 * c + 7)
    <2>1. e.ptr = 8 * c /\ e.order = 3
        BY DEF e
    <2>2. DSP!SegmentsOf(e) = (8 * c) .. (8 * c + 8 - 1)
        BY <2>1 DEF DSP!SegmentsOf, DSP!Span
    <2> HIDE DEF e
    <2> QED
        BY <1>1, <1>3, <1>5, <2>2
<1> QED
    BY <1>1, <1>3, <1>6

LEMMA FailureTouchesEveryChunk ==
    ASSUME CInv, FailedForWant, AllocFailed, NEW c \in 0 .. (DSP!NumChunks - 1)
    PROVE  \E s \in Owners : CopyOf(s).ptr \div 8 = c
<1> DEFINE e == [ptr |-> 8 * c, order |-> 3]
<1>1. DSP!NumChunks \in Nat /\ DSP!Segments = 0 .. (8 * DSP!NumChunks - 1) /\ c \in Nat
    BY DSP!PoolLemma, StoreConstants
<1>2. e \in DSP!Block /\ e.order = 3
    BY <1>1 DEF DSP!Block, DSP!Orders, DSP!MAX_ORDER, DSP!Span
<1> HIDE DEF e
<1>3. freeLists[3] = <<>>
    <2>1. want \in {8, 16, 32, 64}
        BY StoreAssumption DEF AllocFailed, CInv, Points, Filling
    <2>2. 3 \in DS!sizeToOrder[want] .. 3
        BY <2>1 DEF DS!sizeToOrder
    <2> QED
        BY <2>2 DEF FailedForWant
<1>4. \A b \in DSP!FreeBlocks : b.order < 3
    <2> SUFFICES ASSUME NEW b \in DSP!FreeBlocks, ~(b.order < 3)
                 PROVE  FALSE
        OBVIOUS
    <2>1. b.order = 3 /\ b.ptr \in DSP!ToSet(freeLists[3])
        BY DEF DSP!FreeBlocks, DSP!Block, DSP!Orders, DSP!MAX_ORDER
    <2> QED
        BY <1>3, <2>1 DEF DSP!ToSet
<1>5. PICK b \in live : DSP!SegmentsOf(b) \cap DSP!SegmentsOf(e) # {}
    <2> SUFFICES ASSUME \A b \in live : DSP!SegmentsOf(b) \cap DSP!SegmentsOf(e) = {}
                 PROVE  FALSE
        OBVIOUS
    <2>1. \E b \in DSP!FreeBlocks : e.order <= b.order
        BY <1>2, DSP!FreeExtentLemma, StoreConstants
           DEF CInv, StoreInv, AllocFailed, StoreIdle
    <2> QED
        BY <1>2, <1>4, <2>1 DEF DSP!FreeBlocks, DSP!Block, DSP!Orders, DSP!MAX_ORDER
<1>6. b \in DSP!Block
    BY DEF CInv, StoreInv, DSP!IInv, DSP!TypeOK
<1>7. b.ptr \div 8 = c
    <2>1. DSP!SegmentsOf(b) \cap DSP!SegmentsOf([ptr |-> 8 * c, order |-> 3]) # {}
        BY <1>5, Zenon DEF e
    <2> QED
        BY <1>6, <2>1, BlockInChunk
<1>8. InTransit = {}
    BY DEF AllocFailed, InTransit
<1> QED
    BY <1>7, <1>8 DEF CInv, NoPoolLeak

\* With 64 bytes of pool for every slot that a line may be in, allocate() always
\* succeeds, as functional_verify.py takes it to do.
THEOREM AmplePoolSuffices ==
    ASSUME PoolIsAmple
    PROVE  CSpec => []NeverExhausted
<1>1. CInit => FailedForWant
    BY DEF CInit, FailedForWant, AllocFailed
<1>2. CInv /\ FailedForWant /\ [CNext]_cvars => FailedForWant'
    BY FailedForWantKeeps
<1>3. CInv /\ FailedForWant => NeverExhausted
    <2> SUFFICES ASSUME CInv, FailedForWant, AllocFailed
                 PROVE  FALSE
        BY DEF NeverExhausted
    <2> DEFINE Chunks == 0 .. (DSP!NumChunks - 1)
               Touching == {t \in Owners : CopyOf(t).ptr \div 8 \in Chunks}
               f == [s \in Touching |-> CopyOf(s).ptr \div 8]
               Others == UsedSlots \ {subject}
    <2>1. DSP!NumChunks \in Nat /\ DSP!NumChunks >= Cardinality(UsedSlots)
        BY StoreAssumption, UsedSlotsFinite DEF PoolIsAmple, DSP!NumChunks
    <2>2. \A s \in Slots : isValid(s) => s \in UsedSlots
        BY DEF CInv, IInv, TagInv, Placement, TypeOK, UsedSlots, isValid
    <2>3. subject \in UsedSlots /\ subject \notin Owners
        BY <2>2 DEF AllocFailed, CInv, Points, Filling, Owners
    <2>4. Touching \in SUBSET Others
        BY <2>2, <2>3 DEF Owners, CInv, InvalidOwnsNothing
    <2>5. IsFiniteSet(Others) /\ Cardinality(Others) = Cardinality(UsedSlots) - 1
        BY <2>3, UsedSlotsFinite, FS_RemoveElement
    <2>6. IsFiniteSet(Touching) /\ Cardinality(Touching) <= Cardinality(Others)
        BY <2>4, <2>5, FS_Subset
    <2>7. f \in Surjection(Touching, Chunks)
        BY FailureTouchesEveryChunk DEF Surjection
    <2> HIDE DEF f, Touching, Others
    <2>8. Cardinality(Chunks) <= Cardinality(Touching)
        BY <2>6, <2>7, FS_Surjection
    <2>9. Cardinality(Chunks) = DSP!NumChunks
        BY <2>1, FS_Interval
    <2>10. Cardinality(Touching) \in Nat
        BY <2>6, FS_CardinalityType
    <2> QED
        BY <2>1, <2>5, <2>6, <2>8, <2>9, <2>10, UsedSlotsFinite
<1> QED
    BY <1>1, <1>2, <1>3, CInvariance, PTL DEF CSpec
-----------------------------------------------------------------------------
(***************************************************************************)
(* Every request is served to its end.  The fragmentation loop forgets an  *)
(* entry of the reservoir in every round, and nothing is sampled before    *)
(* the request is done; a round, and the rest of a miss, are bounded.      *)
(***************************************************************************)
Entries  == Len(bins[0]) + Len(bins[1]) + Len(bins[2]) + Len(bins[3])
CallWork == DSP!CallWork

\* A bound on the steps left of the request being served, or of a snoop.
StepsLeft ==
    CASE gpc = "release"    -> 14 * Entries + 13
      [] gpc = "allocate"   -> 14 * Entries + 7 + CallWork
      [] gpc = "allocated"  -> 14 * Entries + 1 + CallWork
      [] gpc = "invalidate" -> CallWork + IF pc = "idle" THEN 1 ELSE 14 * Entries + 7 + Work
      [] OTHER              -> IF pc = "idle" THEN 0 ELSE 14 * Entries + 12 + Work

MaxSteps == 14 * (BinSlots[0] + BinSlots[1] + BinSlots[2] + BinSlots[3]) + 12 + MaxWork

BinsFit == \A b \in Classes : Len(bins[b]) <= BinSlots[b]
StepInv == Bounded /\ BinsFit

LEMMA StepsByCases ==
    /\ gpc = "release"    => StepsLeft = 14 * Entries + 13
    /\ gpc = "allocate"   => StepsLeft = 14 * Entries + 7 + CallWork
    /\ gpc = "allocated"  => StepsLeft = 14 * Entries + 1 + CallWork
    /\ gpc = "invalidate" /\ pc = "idle" => StepsLeft = CallWork + 1
    /\ gpc = "invalidate" /\ pc # "idle" => StepsLeft = CallWork + (14 * Entries + 7 + Work)
    /\ gpc = "none" /\ pc = "idle" => StepsLeft = 0
    /\ gpc = "none" /\ pc # "idle" => StepsLeft = 14 * Entries + 12 + Work
BY DEF StepsLeft

LEMMA StepsByCasesNext ==
    /\ gpc' = "release"    => StepsLeft' = 14 * Entries' + 13
    /\ gpc' = "allocate"   => StepsLeft' = 14 * Entries' + 7 + CallWork'
    /\ gpc' = "allocated"  => StepsLeft' = 14 * Entries' + 1 + CallWork'
    /\ gpc' = "invalidate" /\ pc' = "idle" => StepsLeft' = CallWork' + 1
    /\ gpc' = "invalidate" /\ pc' # "idle" => StepsLeft' = CallWork' + (14 * Entries' + 7 + Work')
    /\ gpc' = "none" /\ pc' = "idle" => StepsLeft' = 0
    /\ gpc' = "none" /\ pc' # "idle" => StepsLeft' = 14 * Entries' + 12 + Work'
BY DEF StepsLeft

LEMMA CallOfTheStore ==
    ASSUME CInv
    PROVE  /\ CallWork \in Nat /\ CallWork <= 4
           /\ CallWork = 0 <=> StoreIdle
           /\ DS!Step => CallWork' < CallWork
<1>1. DSP!IInv
    BY DEF CInv, StoreInv
<1>2. CallWork \in 0 .. DSP!MAX_ORDER + 1 /\ (CallWork = 0 <=> dpc = "idle")
    BY <1>1, DSP!CallWorkType, StoreConstants DEF CallWork
<1>3. DS!Step => CallWork' < CallWork
    BY <1>1, DSP!StepShortensTheCall, StoreConstants, SameStore DEF CallWork
<1> QED
    BY <1>2, <1>3 DEF DSP!MAX_ORDER, StoreIdle

LEMMA CallOfTheStoreNext == CInv' => CallWork' \in Nat /\ CallWork' <= 4
<1>1. CInv => CallWork \in Nat /\ CallWork <= 4
    BY CallOfTheStore
<1>2. CInv' => (CallWork \in Nat /\ CallWork <= 4)'
    BY <1>1, PTL
<1> QED
    BY <1>2

LEMMA SumsOfFour ==
    \A a, b, c, d \in Nat :
        /\ a + b + c + d \in Nat
        /\ (a - 1) + b + c + d = (a + b + c + d) - 1 /\ a + (b - 1) + c + d = (a + b + c + d) - 1
        /\ a + b + (c - 1) + d = (a + b + c + d) - 1 /\ a + b + c + (d - 1) = (a + b + c + d) - 1
OBVIOUS

LEMMA SumsCompare ==
    \A a, b, c, d, v, w, x, y \in Nat :
        a <= v /\ b <= w /\ c <= x /\ d <= y => a + b + c + d <= v + w + x + y
OBVIOUS

\* Four iterations of the store fit into what is counted for a call.
LEMMA CallsFit ==
    \A e, w, c, d \in Nat : d <= 4 =>
        /\ 14 * e + 1 + d < 14 * e + 7 + c /\ 14 * e + 7 + d < 14 * e + 13
        /\ d + (14 * e + 7 + w) < 14 * e + 12 + w
OBVIOUS

LEMMA FourClasses == 0 \in Classes /\ 1 \in Classes /\ 2 \in Classes /\ 3 \in Classes
                     /\ \A b \in Classes : b = 0 \/ b = 1 \/ b = 2 \/ b = 3
BY DEF Classes

LEMMA EntriesType ==
    ASSUME MetaType
    PROVE  /\ \A b \in Classes : Len(bins[b]) \in Nat
           /\ Entries \in Nat
<1>1. \A b \in Classes : bins[b] \in Seq(Slots)
    BY DEF MetaType
<1>2. \A b \in Classes : Len(bins[b]) \in Nat
    BY <1>1, LenProperties
<1>3. Len(bins[0]) \in Nat /\ Len(bins[1]) \in Nat /\ Len(bins[2]) \in Nat /\ Len(bins[3]) \in Nat
    BY <1>2, FourClasses
<1> QED
    BY <1>2, <1>3, SumsOfFour DEF Entries

\* getVictim() takes one entry out of the reservoir.
LEMMA OneEntryLess ==
    ASSUME MetaType, NEW b \in Classes, NEW n \in DOMAIN bins[b], getVictim(b, n)
    PROVE  /\ \A c \in Classes : Len(bins'[c]) = IF c = b THEN Len(bins[c]) - 1 ELSE Len(bins[c])
           /\ Entries' = Entries - 1
<1>1. bins \in [Classes -> Seq(Slots)] /\ bins[b] \in Seq(Slots)
    BY DEF MetaType
<1>2. Len(RemoveAt(bins[b], n)) = Len(bins[b]) - 1
    <2>1. /\ Len(bins[b]) \in Nat /\ n \in 1 .. Len(bins[b])
        BY <1>1, LenProperties
    <2>2. /\ SubSeq(bins[b], 1, n - 1) \in Seq(Slots) /\ Len(SubSeq(bins[b], 1, n - 1)) = n - 1
          /\ SubSeq(bins[b], n + 1, Len(bins[b])) \in Seq(Slots)
          /\ Len(SubSeq(bins[b], n + 1, Len(bins[b]))) = Len(bins[b]) - n
        BY <1>1, <2>1, SubSeqProperties, ElementOfSeq
    <2> QED
        BY <2>1, <2>2, ConcatProperties DEF RemoveAt
<1>3. \A c \in Classes : Len(bins'[c]) = IF c = b THEN Len(bins[c]) - 1 ELSE Len(bins[c])
    BY <1>1, <1>2 DEF getVictim
<1>4. \A c \in Classes : Len(bins[c]) \in Nat
    BY EntriesType
<1>5. Entries' = Entries - 1
    <2>1. /\ Len(bins[0]) \in Nat /\ Len(bins[1]) \in Nat
          /\ Len(bins[2]) \in Nat /\ Len(bins[3]) \in Nat
        BY <1>4, FourClasses
    <2>2. /\ Len(bins'[0]) = IF b = 0 THEN Len(bins[0]) - 1 ELSE Len(bins[0])
          /\ Len(bins'[1]) = IF b = 1 THEN Len(bins[1]) - 1 ELSE Len(bins[1])
          /\ Len(bins'[2]) = IF b = 2 THEN Len(bins[2]) - 1 ELSE Len(bins[2])
          /\ Len(bins'[3]) = IF b = 3 THEN Len(bins[3]) - 1 ELSE Len(bins[3])
        BY <1>3, FourClasses
    <2>3. b = 0 \/ b = 1 \/ b = 2 \/ b = 3
        BY FourClasses
    <2>4. CASE b = 0
        BY <2>1, <2>2, <2>4, SumsOfFour DEF Entries
    <2>5. CASE b = 1
        BY <2>1, <2>2, <2>5, SumsOfFour DEF Entries
    <2>6. CASE b = 2
        BY <2>1, <2>2, <2>6, SumsOfFour DEF Entries
    <2>7. CASE b = 3
        BY <2>1, <2>2, <2>7, SumsOfFour DEF Entries
    <2> QED
        BY <2>3, <2>4, <2>5, <2>6, <2>7
<1> QED
    BY <1>3, <1>5


LEMMA StepInvKeeps ==
    ASSUME CInv, StepInv, [CNext]_cvars
    PROVE  StepInv'
<1>1. Bounded'
    <2>1. CASE [Next]_vars
        BY <2>1, BoundedKeeps DEF CInv, StepInv
    <2>2. CASE ForceEvict
        <3>1. UNCHANGED <<pc, fi, fringeEnd, level, idx, pendingSwapChain, i>>
            BY <2>2, Forced
        <3> QED
            BY <3>1 DEF StepInv, Bounded, InBounds, Searching, Work
    <2> QED
        BY <2>1, <2>2, TagsStepOrForced
<1>2. BinsFit'
    <2>1. /\ bins \in [Classes -> Seq(Slots)] /\ MetaType
          /\ \A b \in Classes : Len(bins[b]) \in Nat /\ BinSlots[b] \in Nat
        BY BinAssumption, EntriesType DEF CInv, MetaType, Classes
    <2>2. CASE UNCHANGED bins
        BY <2>2 DEF StepInv, BinsFit
    <2>3. ASSUME NEW b \in Classes, NEW n \in DOMAIN bins[b], getVictim(b, n)
          PROVE  BinsFit'
        BY <2>1, <2>3, OneEntryLess DEF StepInv, BinsFit
    <2>4. CASE processSampleEvent
        <3>1. PICK s \in Slots :
                LET b == sizeToIdx(blkAllocSize[s]) IN
                   \/ /\ Len(bins[b]) < BinSlots[b]
                      /\ bins' = [bins EXCEPT ![b] = Append(bins[b], s)]
                   \/ \E n \in DOMAIN bins[b] :
                         bins' = [bins EXCEPT ![b] = [bins[b] EXCEPT ![n] = s]]
            BY <2>4 DEF processSampleEvent
        <3> DEFINE b == sizeToIdx(blkAllocSize[s])
        <3>2. b \in Classes
            BY DEF sizeToIdx, Classes
        <3>3. CASE Len(bins[b]) < BinSlots[b] /\ bins' = [bins EXCEPT ![b] = Append(bins[b], s)]
            <4>1. Len(Append(bins[b], s)) = Len(bins[b]) + 1
                BY <2>1, <3>2, AppendProperties
            <4> HIDE DEF b
            <4> QED
                BY <2>1, <3>2, <3>3, <4>1 DEF StepInv, BinsFit
        <3>4. ASSUME NEW n \in DOMAIN bins[b],
                     bins' = [bins EXCEPT ![b] = [bins[b] EXCEPT ![n] = s]]
              PROVE  BinsFit'
            <4>1. Len([bins[b] EXCEPT ![n] = s]) = Len(bins[b])
                BY <2>1, <3>2, <3>4, ExceptSeq, LenProperties
            <4> HIDE DEF b
            <4> QED
                BY <2>1, <3>2, <3>4, <4>1 DEF StepInv, BinsFit
        <3> QED
            BY <3>1, <3>3, <3>4
    <2>5. CASE SkipStale \/ ForceEvict
        <3>1. PICK b \in Classes : \E n \in DOMAIN bins[b] : getVictim(b, n)
            BY <2>5 DEF SkipStale, ForceEvict
        <3> QED
            BY <2>3, <3>1
    <2>6. TagsStep \/ StoreStep \/ FreeVictim \/ EvictAndFree
          \/ (\E l \in Line : FreeSnooped(l) \/ SnoopAndFree(l)) \/ MoveWithCopy
          \/ InsertWithoutData \/ (\E size \in Sizes : handleFill(size))
          \/ CallAllocate \/ StoreCopy \/ ReservoirEmpty \/ ReleaseVictim \/ UNCHANGED cvars
          => UNCHANGED bins
        BY DEF TagsStep, StoreStep, FreeVictim, EvictAndFree, FreeSnooped, SnoopAndFree,
               deallocatePoolSlot, PoolSlotFreed, MoveWithCopy, InsertWithoutData, handleFill,
               CallAllocate, StoreCopy, ReservoirEmpty, ReleaseVictim, cvars
    <2> QED
        BY <2>2, <2>4, <2>5, <2>6 DEF CNext, GlueStep
<1> QED
    BY <1>1, <1>2 DEF StepInv

\* Every step of a request brings its end nearer.
LEMMA StepShortens ==
    ASSUME CInv, StepInv, Busy, CNext
    PROVE  StepsLeft' < StepsLeft
<1>1. /\ Entries \in Nat /\ CallWork \in Nat /\ CallWork <= 4
      /\ CallWork = 0 <=> StoreIdle
      /\ Work \in Nat /\ (Work = 0 <=> pc = "idle")
    BY EntriesType, CallOfTheStore, WorkType DEF CInv, StepInv, Bounded
<1>2. CallWork' \in Nat /\ CallWork' <= 4
    BY CStepKeeps, CallOfTheStoreNext
<1>3. Work' \in Nat
    BY CStepKeeps, StepInvKeeps, WorkTypeNext DEF CInv, StepInv, Bounded
<1> HIDE DEF CallWork
<1>4. pc # "idle" /\ Next => Work' < Work
    BY MissShortens DEF CInv, StepInv, Bounded
<1>5. UNCHANGED bins => Entries' = Entries
    BY DEF Entries
<1>6. UNCHANGED vars => pc' = pc /\ Work' = Work
    BY DEF vars, walk, Work
<1>7. gpc = "none" => pc # "idle"
    BY DEF Busy
<1>8. CASE TagsStep
    <2>1. gpc = "none" /\ gpc' = "none" /\ UNCHANGED bins /\ Next
        BY <1>8 DEF TagsStep, Next, glue
    <2> QED
        BY <1>1, <1>3, <1>4, <1>5, <1>7, <2>1, StepsByCases, StepsByCasesNext
<1>9. CASE StoreStep
    <2>1. DS!Step /\ UNCHANGED <<gpc, bins>> /\ UNCHANGED vars
        BY <1>9 DEF StoreStep, glue
    <2>2. CallWork' < CallWork
        BY <2>1, CallOfTheStore
    <2>3. gpc \in {"invalidate", "allocate", "allocated"}
        BY <1>1, <1>2, <2>2 DEF CInv, Points, StoreIdle
    <2> QED
        BY <1>1, <1>2, <1>3, <1>5, <1>6, <2>1, <2>2, <2>3, StepsByCases, StepsByCasesNext
<1>10. CASE FreeVictim
    <2>1. /\ pc = "evict" /\ gpc = "none" /\ gpc' = "invalidate"
          /\ UNCHANGED bins /\ UNCHANGED vars
        BY <1>10 DEF FreeVictim, deallocatePoolSlot
    <2>2. /\ StepsLeft = 14 * Entries + 12 + Work
          /\ StepsLeft' = CallWork' + (14 * Entries + 7 + Work)
        BY <1>5, <1>6, <2>1, StepsByCases, StepsByCasesNext
    <2> QED
        BY <1>1, <1>2, <2>2, CallsFit
<1>11. CASE EvictAndFree
    <2>1. /\ pc = "evict" /\ pc' = "insert" /\ gpc \in {"none", "invalidate"} /\ gpc' = "none"
          /\ UNCHANGED <<bins, pendingSwapChain, i>>
        BY <1>11 DEF EvictAndFree, EvictVictim, PoolSlotFreed
    <2>2. Work = Len(pendingSwapChain) + 9 /\ Work' = Len(pendingSwapChain) + 2 - i
        BY <2>1, WorkByCases DEF WorkIs
    <2>3. Len(pendingSwapChain) \in Nat /\ i \in Nat /\ i >= 2
        BY <2>1, Measured DEF CInv, Measures
    <2> QED
        BY <1>1, <1>3, <1>5, <2>1, <2>2, <2>3, StepsByCases, StepsByCasesNext
<1>12. ASSUME NEW l \in Line, FreeSnooped(l) PROVE StepsLeft' < StepsLeft
    <2>1. pc = "idle" /\ gpc = "none"
        BY <1>12 DEF FreeSnooped, deallocatePoolSlot
    <2> QED
        BY <1>7, <2>1
<1>13. ASSUME NEW l \in Line, SnoopAndFree(l) PROVE StepsLeft' < StepsLeft
    <2>1. /\ pc = "idle" /\ pc' = "idle" /\ gpc \in {"none", "invalidate"} /\ gpc' = "none"
        BY <1>13 DEF SnoopAndFree, SnoopInvalidate, PoolSlotFreed
    <2> QED
        BY <1>1, <1>7, <2>1, StepsByCases, StepsByCasesNext
<1>14. CASE MoveWithCopy \/ InsertWithoutData
    <2>1. gpc = "none" /\ gpc' = "none" /\ UNCHANGED bins /\ Next
        BY <1>14 DEF MoveWithCopy, InsertWithoutData, Next, glue
    <2> QED
        BY <1>1, <1>3, <1>4, <1>5, <1>7, <2>1, StepsByCases, StepsByCasesNext
<1>15. ASSUME NEW size \in Sizes, handleFill(size) PROVE StepsLeft' < StepsLeft
    <2>1. /\ pc # "idle" /\ gpc = "none" /\ gpc' = "allocate" /\ UNCHANGED <<bins, dpc>>
        BY <1>15 DEF handleFill, InsertLine, store
    <2>2. CallWork' = 0
        <3>1. dpc = "idle" /\ dpc' = "idle"
            BY <2>1 DEF CInv, Points
        <3> QED
            BY <3>1 DEF CallWork, DSP!CallWork
    <2> QED
        BY <1>1, <1>5, <2>1, <2>2, StepsByCases, StepsByCasesNext
<1>16. CASE CallAllocate
    <2>1. gpc = "allocate" /\ gpc' = "allocated" /\ UNCHANGED bins
        BY <1>16 DEF CallAllocate
    <2>2. /\ StepsLeft = 14 * Entries + 7 + CallWork
          /\ StepsLeft' = 14 * Entries + 1 + CallWork'
        BY <1>5, <2>1, StepsByCases, StepsByCasesNext
    <2> QED
        BY <1>1, <1>2, <2>2, CallsFit
<1>17. CASE StoreCopy \/ ReservoirEmpty
    <2>1. gpc = "allocated" /\ gpc' = "none" /\ UNCHANGED vars
        BY <1>17 DEF StoreCopy, ReservoirEmpty, AllocFailed, HandlerReturns
    <2>2. pc = "idle"
        BY <2>1 DEF CInv, Points, Filling
    <2> QED
        BY <1>1, <1>6, <2>1, <2>2, StepsByCases, StepsByCasesNext
<1>18. CASE SkipStale \/ ForceEvict
    <2>1. gpc = "allocated" /\ StoreIdle /\ UNCHANGED dpc /\ gpc' \in {"allocate", "release"}
        BY <1>18 DEF SkipStale, ForceEvict, AllocFailed, store
    <2>2. Entries' = Entries - 1
        <3>1. PICK b \in Classes : \E n \in DOMAIN bins[b] : getVictim(b, n)
            BY <1>18 DEF SkipStale, ForceEvict
        <3> QED
            BY <3>1, OneEntryLess DEF CInv
    <2>3. CallWork' = 0
        BY <2>1 DEF CallWork, DSP!CallWork, StoreIdle
    <2> QED
        BY <1>1, <2>1, <2>2, <2>3, StepsByCases, StepsByCasesNext
<1>19. CASE ReleaseVictim
    <2>1. gpc = "release" /\ gpc' = "allocate" /\ UNCHANGED bins
        BY <1>19 DEF ReleaseVictim
    <2>2. StepsLeft = 14 * Entries + 13 /\ StepsLeft' = 14 * Entries + 7 + CallWork'
        BY <1>5, <2>1, StepsByCases, StepsByCasesNext
    <2> QED
        BY <1>1, <1>2, <2>2, CallsFit
<1>20. CASE processSampleEvent
    BY <1>7, <1>20 DEF processSampleEvent
<1> QED
    BY <1>8, <1>9, <1>10, <1>11, <1>12, <1>13, <1>14, <1>15, <1>16, <1>17, <1>18, <1>19, <1>20
       DEF CNext, GlueStep

LEMMA StepsLeftType ==
    ASSUME CInv, StepInv
    PROVE  StepsLeft \in 0 .. MaxSteps /\ (StepsLeft = 0 <=> ~Busy)
<1>1. /\ Entries \in Nat /\ CallWork \in Nat /\ CallWork <= 4
      /\ Work \in Nat /\ (Work = 0 <=> pc = "idle") /\ Work <= MaxWork
    BY EntriesType, CallOfTheStore, WorkType DEF CInv, StepInv, Bounded
<1>2. MaxWork \in Nat /\ MaxWork >= 2
    BY WaysAssumption, WalkAssumption DEF MaxWork
<1> DEFINE Room == BinSlots[0] + BinSlots[1] + BinSlots[2] + BinSlots[3]
<1>3. Room \in Nat /\ Entries <= Room
    <2>1. /\ BinSlots[0] \in Nat /\ BinSlots[1] \in Nat /\ BinSlots[2] \in Nat /\ BinSlots[3] \in Nat
          /\ Len(bins[0]) <= BinSlots[0] /\ Len(bins[1]) <= BinSlots[1]
          /\ Len(bins[2]) <= BinSlots[2] /\ Len(bins[3]) <= BinSlots[3]
        BY BinAssumption, FourClasses DEF StepInv, BinsFit
    <2>2. /\ Len(bins[0]) \in Nat /\ Len(bins[1]) \in Nat
          /\ Len(bins[2]) \in Nat /\ Len(bins[3]) \in Nat
        BY EntriesType, FourClasses DEF CInv
    <2>3. Room \in Nat
        BY <2>1, SumsOfFour
    <2>4. Entries <= Room
        BY <2>1, <2>2, SumsCompare DEF Entries
    <2> QED
        BY <2>3, <2>4
<1>4. MaxSteps = 14 * Room + 12 + MaxWork
    BY DEF MaxSteps
<1> HIDE DEF Room, CallWork
<1>5. gpc \in {"none", "invalidate", "allocate", "allocated", "release"}
    BY DEF CInv, Points
<1> QED
    BY <1>1, <1>2, <1>3, <1>4, <1>5, StepsByCases DEF Busy

\* Of RequestCompletes, all but the fairness: a request, with its walk, evictions,
\* relocations and the fragmentation loop, stale entries or not, takes at most
\* MaxSteps steps, and so do the deallocations of a snoop.  With four slots in each
\* bin of the reservoir this is 246 more than 3 * num_candidates + 2 * walk_levels.
THEOREM RequestsEnd ==
    CSpec => /\ [](StepsLeft \in 0 .. MaxSteps /\ (StepsLeft = 0 <=> ~Busy))
             /\ [][Busy => StepsLeft' < StepsLeft]_cvars
<1>1. CInit => StepInv
    <2> SUFFICES ASSUME CInit PROVE StepInv
        OBVIOUS
    <2>1. InBounds /\ Work = 0
        BY InitInBounds DEF CInit, Init, Work
    <2>2. 0 <= MaxWork
        BY WaysAssumption, WalkAssumption DEF MaxWork
    <2>3. \A b \in Classes : bins[b] = <<>> /\ BinSlots[b] \in Nat
        BY BinAssumption DEF CInit, Classes
    <2> QED
        BY <2>1, <2>2, <2>3 DEF StepInv, Bounded, BinsFit
<1>2. CInv /\ StepInv /\ [CNext]_cvars => StepInv'
    BY StepInvKeeps
<1>3. CInv /\ StepInv => StepsLeft \in 0 .. MaxSteps /\ (StepsLeft = 0 <=> ~Busy)
    BY StepsLeftType
<1>4. CInv /\ StepInv /\ [CNext]_cvars => [Busy => StepsLeft' < StepsLeft]_cvars
    BY StepShortens
<1> QED
    BY <1>1, <1>2, <1>3, <1>4, CInvariance, PTL DEF CSpec
-----------------------------------------------------------------------------
(***************************************************************************)
(* Memory.  The tags alone lose no write; the fragmentation loop does, as  *)
(* it drops a block, dirty or not, that nobody writes back.  It is the     *)
(* only step that does, and it loses the write of that block only.         *)
(***************************************************************************)
ForcesOut(l) ==
    /\ gpc # "release" /\ gpc' = "release"
    /\ \E s \in Slots : tag[s] = l /\ dirty[s] /\ tag'[s] = NoLine

LEMMA WriteIsKeptOrForcedOut ==
    ASSUME CInv, [CNext]_cvars, NEW l \in Line, WriteIsSafe(l)
    PROVE  WriteIsSafe(l)' \/ ForcesOut(l)
<1>1. CASE [Next]_vars
    BY <1>1, WriteIsKept DEF CInv
<1>2. CASE ForceEvict
    <2>1. /\ gpc # "release" /\ gpc' = "release" /\ owed' = owed
        BY <1>2, Forced DEF ForceEvict, AllocFailed
    <2>2. PICK s \in Slots : invalidate(s)
        BY <1>2, Forced
    <2>3. /\ \A t \in Slots : tag'[t] = IF t = s THEN NoLine ELSE tag[t]
          /\ \A t \in Slots : dirty'[t] = IF t = s THEN FALSE ELSE dirty[t]
        BY <2>2 DEF invalidate, CInv, IInv, TypeOK
    <2>4. CASE tag[s] = l /\ dirty[s]
        BY <2>1, <2>3, <2>4 DEF ForcesOut
    <2>5. ASSUME ~(tag[s] = l /\ dirty[s]), l \in owed
          PROVE  \E w \in Ways : (tag[Home(l, w)] = l /\ dirty[Home(l, w)])'
        <3>1. PICK w \in Ways : tag[Home(l, w)] = l /\ dirty[Home(l, w)]
            BY <2>5 DEF WriteIsSafe
        <3>2. Home(l, w) \in Slots /\ Home(l, w) # s
            BY <2>5, <3>1, HomeType
        <3> QED
            BY <2>3, <3>1, <3>2 DEF Home
    <2> QED
        BY <2>1, <2>4, <2>5 DEF WriteIsSafe
<1> QED
    BY <1>1, <1>2, TagsStepOrForced

\* A write that memory lacks is lost in one step only: a forced eviction of the
\* very block that holds it.  The writes of all other lines stay safe, also after.
THEOREM WritesLostOnlyByForcedEviction ==
    CSpec => [][\A l \in Line : WriteIsSafe(l) => WriteIsSafe(l)' \/ ForcesOut(l)]_cvars
<1>1. CInv /\ [CNext]_cvars =>
        [\A l \in Line : WriteIsSafe(l) => WriteIsSafe(l)' \/ ForcesOut(l)]_cvars
    BY WriteIsKeptOrForcedOut
<1> QED
    BY <1>1, CInvariance, PTL DEF CSpec

\* With an ample pool nothing is forced out: seen from the tags, the compressed
\* cache is the tag store alone.  So it implements LineStore and loses no write.
THEOREM AmpleCacheIsALineStore ==
    ASSUME PoolIsAmple
    PROVE  CSpec => Spec /\ ImplementsLineStore /\ []NoLostWrite
<1>1. CInit => Init
    BY DEF CInit
<1>2. NeverExhausted /\ [CNext]_cvars => [Next]_vars
    BY TagsStepOrForced DEF NeverExhausted, ForceEvict
<1>3. CSpec => Spec
    BY <1>1, <1>2, AmplePoolSuffices, PTL DEF CSpec, Spec
<1> QED
    BY <1>3, TagsImplementLineStore, WritesAreKept, PTL

-----------------------------------------------------------------------------
(***************************************************************************)
(* The pool as the cache sees it.                                          *)
(***************************************************************************)
OwnersOf(g) == {s \in Owners : g \in DSP!SegmentsOf(CopyOf(s))}

\* A segment in a free list, in deallocate()'s hand, or on its way to the tags.
Loose(g) == \E b \in DSP!FreeBlocks \cup DSP!InHand \cup InTransit : g \in DSP!SegmentsOf(b)

\* At every step of every request, each 8 bytes of the pool belong to one valid
\* tag entry, or to none and are then free or on their way.
THEOREM EveryByteHasOneOwner ==
    CSpec => [](\A g \in DSP!Segments :
                    IF Loose(g) THEN OwnersOf(g) = {}
                                ELSE \E s \in Slots : isValid(s) /\ OwnersOf(g) = {s})
<1>1. ASSUME CInv, NEW g \in DSP!Segments
      PROVE  IF Loose(g) THEN OwnersOf(g) = {}
                         ELSE \E s \in Slots : isValid(s) /\ OwnersOf(g) = {s}
    <2>1. /\ live = {CopyOf(s) : s \in Owners} \cup InTransit
          /\ \A s, t \in Owners : CopyOf(s) = CopyOf(t) => s = t
          /\ \A s \in Owners : CopyOf(s) \notin InTransit
          /\ \A s \in Owners : s \in Slots /\ isValid(s)
        BY <1>1 DEF CInv, NoPoolLeak, NoSharing, InvalidOwnsNothing, Owners
    <2>2. /\ DSP!FreeBlocks \cap live = {} /\ DSP!InHand \cap live = {}
          /\ \A b, c \in DSP!FreeBlocks \cup live \cup DSP!InHand :
                b # c => DSP!SegmentsOf(b) \cap DSP!SegmentsOf(c) = {}
          /\ \E b \in DSP!FreeBlocks \cup live \cup DSP!InHand : g \in DSP!SegmentsOf(b)
        BY <1>1 DEF CInv, StoreInv, DSP!IInv, DSP!Separate, DSP!Disjoint, DSP!Covered
    <2>3. CASE Loose(g)
        <3> SUFFICES ASSUME NEW s \in Owners, g \in DSP!SegmentsOf(CopyOf(s))
                     PROVE  FALSE
            BY <2>3 DEF OwnersOf
        <3>1. PICK b \in DSP!FreeBlocks \cup DSP!InHand \cup InTransit : g \in DSP!SegmentsOf(b)
            BY <2>3 DEF Loose
        <3>2. CopyOf(s) \in live /\ CopyOf(s) # b
            BY <2>1, <2>2, <3>1
        <3>3. b \in DSP!FreeBlocks \cup live \cup DSP!InHand
            BY <2>1, <3>1
        <3> QED
            BY <2>2, <3>1, <3>2, <3>3
    <2>4. CASE ~Loose(g)
        <3>1. PICK s \in Owners : g \in DSP!SegmentsOf(CopyOf(s))
            BY <2>1, <2>2, <2>4 DEF Loose
        <3>2. \A t \in OwnersOf(g) : t = s
            BY <2>1, <2>2, <3>1 DEF OwnersOf
        <3> QED
            BY <2>1, <2>4, <3>1, <3>2 DEF OwnersOf
    <2> QED
        BY <2>3, <2>4
<1>2. CInv => \A g \in DSP!Segments :
                IF Loose(g) THEN OwnersOf(g) = {}
                            ELSE \E s \in Slots : isValid(s) /\ OwnersOf(g) = {s}
    BY <1>1
<1> QED
    BY <1>2, CInvariance, PTL

\* What is proved of the store by itself, brought into the cache by the contract.
THEOREM StoreServesTheCache == CSpec => DSP!ImplementsSegmentPool /\ []DSP!EmptyPoolIsWhole
<1>1. CSpec => DSP!Spec
    <2>1. CInit => DSP!Init
        BY SameStore DEF CInit
    <2>2. CInv /\ [CNext]_cvars => [DSP!Next]_(DSP!vars)
        BY StoreIsUsedCorrectly, SameStore DEF store, DSP!vars
    <2> QED
        BY <2>1, <2>2, CInvariance, PTL DEF CSpec, DSP!Spec
<1>2. DSP!Spec => DSP!ImplementsSegmentPool
    BY DSP!StoreImplementsSegmentPool, StoreConstants
<1>3. DSP!Spec => []DSP!EmptyPoolIsWhole
    BY DSP!PoolBecomesWholeAgain, StoreConstants
<1> QED
    BY <1>1, <1>2, <1>3, PTL

\* A cache that has lost its last line has given everything back: all the 64-byte
\* chunks of the pool are free, and nothing smaller is.
THEOREM EmptyCacheHasAWholePool ==
    CSpec => [](gpc = "none" /\ (\A s \in Slots : ~isValid(s)) =>
                    /\ DSP!ToSet(freeLists[3]) = {8 * c : c \in 0 .. (DSP!NumChunks - 1)}
                    /\ \A k \in 0 .. 2 : freeLists[k] = <<>>)
<1>1. ASSUME CInv, DSP!EmptyPoolIsWhole, gpc = "none", \A s \in Slots : ~isValid(s)
      PROVE  /\ DSP!ToSet(freeLists[3]) = {8 * c : c \in 0 .. (DSP!NumChunks - 1)}
             /\ \A k \in 0 .. 2 : freeLists[k] = <<>>
    <2>1. dpc = "idle" /\ InTransit = {}
        BY <1>1 DEF CInv, Points, InTransit
    <2>2. Owners = {}
        BY <1>1 DEF CInv, InvalidOwnsNothing, Owners
    <2>3. live = {}
        BY <1>1, <2>1, <2>2 DEF CInv, NoPoolLeak
    <2> QED
        BY <1>1, <2>1, <2>3 DEF DSP!EmptyPoolIsWhole, DSP!MAX_ORDER
<1>2. CInv /\ DSP!EmptyPoolIsWhole =>
        (gpc = "none" /\ (\A s \in Slots : ~isValid(s)) =>
            /\ DSP!ToSet(freeLists[3]) = {8 * c : c \in 0 .. (DSP!NumChunks - 1)}
            /\ \A k \in 0 .. 2 : freeLists[k] = <<>>)
    BY <1>1
<1> QED
    BY <1>2, CInvariance, StoreServesTheCache, PTL

\* The fragmentation loop runs only for want of room: when allocate() has failed,
\* there is no aligned extent of that size that no tag entry's block reaches into.
THEOREM ForcedEvictionsAreNeeded ==
    CSpec => [](AllocFailed =>
                    \A e \in DSP!Block : e.order = DS!sizeToOrder[want] =>
                        \E s \in Owners : DSP!SegmentsOf(CopyOf(s)) \cap DSP!SegmentsOf(e) # {})
<1>1. CInit => FailedForWant
    BY DEF CInit, FailedForWant, AllocFailed
<1>2. CInv /\ FailedForWant /\ [CNext]_cvars => FailedForWant'
    BY FailedForWantKeeps
<1>3. ASSUME CInv, FailedForWant, AllocFailed,
             NEW e \in DSP!Block, e.order = DS!sizeToOrder[want]
      PROVE  \E s \in Owners : DSP!SegmentsOf(CopyOf(s)) \cap DSP!SegmentsOf(e) # {}
    <2>1. \A b \in DSP!FreeBlocks : ~(e.order <= b.order)
        <3> SUFFICES ASSUME NEW b \in DSP!FreeBlocks, e.order <= b.order
                     PROVE  FALSE
            OBVIOUS
        <3>1. /\ b.order \in 0 .. 3 /\ e.order \in 0 .. 3
              /\ b.ptr \in DSP!ToSet(freeLists[b.order])
            BY DEF DSP!FreeBlocks, DSP!Block, DSP!Orders, DSP!MAX_ORDER
        <3>2. freeLists[b.order] = <<>>
            BY <1>3, <3>1 DEF FailedForWant
        <3> QED
            BY <3>1, <3>2 DEF DSP!ToSet
    <2>2. ~(\A b \in live : DSP!SegmentsOf(b) \cap DSP!SegmentsOf(e) = {})
        BY <1>3, <2>1, DSP!FreeExtentLemma, StoreConstants
           DEF CInv, StoreInv, AllocFailed, StoreIdle
    <2>3. InTransit = {}
        BY <1>3 DEF AllocFailed, InTransit
    <2> QED
        BY <1>3, <2>2, <2>3 DEF CInv, NoPoolLeak
<1>4. CInv /\ FailedForWant =>
        (AllocFailed =>
            \A e \in DSP!Block : e.order = DS!sizeToOrder[want] =>
                \E s \in Owners : DSP!SegmentsOf(CopyOf(s)) \cap DSP!SegmentsOf(e) # {})
    BY <1>3
<1> QED
    BY <1>1, <1>2, <1>4, CInvariance, PTL DEF CSpec
=============================================================================
