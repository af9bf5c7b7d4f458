------------------------------ MODULE CDZCache ------------------------------
(***************************************************************************)
(* The compressed decoupled zcache: the tag store of ZCacheTags, whose     *)
(* valid blocks may own a block of the data pool of DecoupledDataStore     *)
(* (glue/zcache_tags_new.{hh,cc}), the fill handler that compresses,       *)
(* allocates and, when the pool is exhausted or fragmented, evicts         *)
(* (glue/zcache_glue.cc), and the reservoir of blocks sampled to be        *)
(* evicted in that case (glue/frag_reservoir.cc).                          *)
(*                                                                         *)
(* Everything runs in the event of the request being served; only the      *)
(* reservoir's sampling is an event of its own, between two requests.      *)
(* gpc is the point reached in ZCacheTagsNew::invalidate() or in           *)
(* ZCacheGlue::handleFill().  A call into the data store is a step here,   *)
(* followed by the store's own steps until it is idle again.               *)
(***************************************************************************)
EXTENDS ZCacheTags

CONSTANTS
    PoolBytes,      \* as in DecoupledDataStore
    Sizes,          \* the sizes in bytes that BPC compresses a line to
    Payload,        \* Payload[l]: what identifies the data of line l
    BinSlots        \* BinSlots[b]: the slots of reservoir bin b, 4 in the code

\* What the constructor of the data store and its sizeToOrder() panic on.
ASSUME StoreAssumption == /\ PoolBytes \in Nat \ {0} /\ PoolBytes % 64 = 0
                          /\ Sizes \subseteq {8, 16, 32, 64}
ASSUME PayloadAssumption == Payload \in [Line -> Nat \ {0}]
ASSUME BinAssumption == BinSlots \in [0 .. 3 -> Nat]

VARIABLES freeLists, pool, dpc, order, avail, ptr, asked, reply, live, stored
store == <<freeLists, pool, dpc, order, avail, ptr, asked, reply, live, stored>>

DS == INSTANCE DecoupledDataStore WITH Value <- Range(Payload), pc <- dpc

VARIABLES
    blkDataPtr,     \* the pool block of each tag entry, or ALLOC_FAIL
    blkAllocSize,   \* and its size in bytes, or 0
    bins,           \* the reservoir: per size class, the blocks sampled
    gpc,            \* "none", or the point reached in invalidate/handleFill
    subject,        \* the block being invalidated or filled
    want,           \* paddedSize
    victimBlock     \* victimPtr and victimSize

meta  == <<blkDataPtr, blkAllocSize>>
glue  == <<gpc, subject, want, victimBlock>>
cvars == <<vars, store, meta, bins, glue>>

ALLOC_FAIL == DS!ALLOC_FAIL
NoBlock    == [ptr |-> 0, order |-> 0]
NoSlot     == <<0, 0>>
Classes    == 0 .. 3

\* FragReservoir::sizeToIdx(); a block without a copy has size 0 and class 0.
sizeToIdx(sz) == IF sz <= 8 THEN 0 ELSE IF sz <= 16 THEN 1 ELSE IF sz <= 32 THEN 2 ELSE 3

HasCopy(s) == blkDataPtr[s] # ALLOC_FAIL /\ blkAllocSize[s] > 0
CopyOf(s)  == [ptr |-> blkDataPtr[s], order |-> DS!sizeToOrder[blkAllocSize[s]]]

CInit ==
    /\ Init /\ DS!Init
    /\ blkDataPtr = [s \in Slots |-> ALLOC_FAIL]
    /\ blkAllocSize = [s \in Slots |-> 0]
    /\ bins = [b \in Classes |-> <<>>]
    /\ gpc = "none" /\ subject = NoSlot /\ want = 0 /\ victimBlock = NoBlock

clearMeta(s) == /\ blkDataPtr' = [blkDataPtr EXCEPT ![s] = ALLOC_FAIL]
                /\ blkAllocSize' = [blkAllocSize EXCEPT ![s] = 0]

StoreIdle == dpc = "idle"

\* The next iteration of the data store's loops.
StoreStep == DS!Step /\ UNCHANGED <<vars, meta, bins, glue>>

(***************************************************************************)
(* The steps of ZCacheTags that the subclass leaves alone.                 *)
(***************************************************************************)
TagsStep ==
    /\ gpc = "none"
    /\ \/ \E l \in Line : FindFreeHome(l) \/ SeedWalk(l)
       \/ \E l \in Written : WriteHit(l)
       \/ Walk
       \/ RefuseEviction
    /\ UNCHANGED <<store, meta, bins, glue>>

(***************************************************************************)
(* ZCacheTagsNew::invalidate(): the pool block is freed first, then the    *)
(* metadata is cleared and the tag invalidated.                            *)
(***************************************************************************)
deallocatePoolSlot(s) ==
    /\ gpc = "none" /\ HasCopy(s)
    /\ DS!Deallocate(CopyOf(s))
    /\ gpc' = "invalidate" /\ subject' = s
    /\ UNCHANGED <<vars, meta, bins, want, victimBlock>>

PoolSlotFreed_WithoutFreeing(s) ==          \* mutant: the slot leaks
    /\ StoreIdle
    /\ \/ gpc = "none"
       \/ gpc = "invalidate" /\ subject = s
    /\ clearMeta(s)
    /\ gpc' = "none" /\ subject' = NoSlot
    /\ UNCHANGED <<store, bins, want, victimBlock>>

PoolSlotFreed(s) ==
    /\ StoreIdle
    /\ \/ gpc = "none" /\ ~HasCopy(s)
       \/ gpc = "invalidate" /\ subject = s
    /\ clearMeta(s)
    /\ gpc' = "none" /\ subject' = NoSlot
    /\ UNCHANGED <<store, bins, want, victimBlock>>

FreeVictim   == pc = "evict" /\ deallocatePoolSlot(Head(pendingSwapChain))
EvictAndFree == EvictVictim /\ PoolSlotFreed(Head(pendingSwapChain))

FreeSnooped(l)   == pc = "idle" /\ Hits(l) # {} /\ deallocatePoolSlot(findBlock(l))
SnoopAndFree(l)  == SnoopInvalidate(l) /\ PoolSlotFreed(findBlock(l))

(***************************************************************************)
(* ZCacheTagsNew::doMoveBlock(): the metadata moves with the tag.          *)
(***************************************************************************)
MoveWithCopy_KeepsSource ==                 \* mutant: src keeps its pointer
    /\ gpc = "none" /\ MoveBlock
    /\ LET src == pendingSwapChain[i]
           dst == pendingSwapChain[i - 1]
       IN IF isValid(src)
          THEN /\ blkDataPtr' = [blkDataPtr EXCEPT ![dst] = blkDataPtr[src]]
               /\ blkAllocSize' = [blkAllocSize EXCEPT ![dst] = blkAllocSize[src]]
          ELSE UNCHANGED meta
    /\ UNCHANGED <<store, bins, glue>>
MoveWithCopy_TagOnly ==                     \* mutant: no override of doMoveBlock()
    /\ gpc = "none" /\ MoveBlock
    /\ UNCHANGED <<store, meta, bins, glue>>

MoveWithCopy ==
    /\ gpc = "none" /\ MoveBlock
    /\ LET src == pendingSwapChain[i]
           dst == pendingSwapChain[i - 1]
       IN IF isValid(src)
          THEN /\ blkDataPtr' = [blkDataPtr EXCEPT ![dst] = blkDataPtr[src],
                                                   ![src] = ALLOC_FAIL]
               /\ blkAllocSize' = [blkAllocSize EXCEPT ![dst] = blkAllocSize[src],
                                                       ![src] = 0]
          ELSE UNCHANGED meta
    /\ UNCHANGED <<store, bins, glue>>

(***************************************************************************)
(* ZCacheTagsNew::insertBlock(): after the insertion, a fill that carries  *)
(* data goes to ZCacheGlue::handleFill(), which compresses it.             *)
(***************************************************************************)
InsertWithoutData ==
    /\ gpc = "none" /\ InsertLine
    /\ UNCHANGED <<store, meta, bins, glue>>

handleFill(size) ==
    /\ gpc = "none" /\ InsertLine
    /\ gpc' = "allocate" /\ subject' = Last(pendingSwapChain) /\ want' = size
    /\ UNCHANGED <<store, meta, bins, victimBlock>>

CallAllocate ==
    /\ gpc = "allocate"
    /\ DS!Allocate(want) \/ DS!AllocateFails(want)
    /\ gpc' = "allocated"
    /\ UNCHANGED <<vars, meta, bins, subject, want, victimBlock>>

HandlerReturns == /\ gpc' = "none" /\ subject' = NoSlot /\ want' = 0
                  /\ victimBlock' = NoBlock

StoreCopy ==
    /\ gpc = "allocated" /\ StoreIdle /\ reply # ALLOC_FAIL
    /\ DS!write([ptr |-> reply, order |-> DS!sizeToOrder[want]], Payload[tag[subject]])
    /\ blkDataPtr' = [blkDataPtr EXCEPT ![subject] = reply]
    /\ blkAllocSize' = [blkAllocSize EXCEPT ![subject] = want]
    /\ HandlerReturns
    /\ UNCHANGED <<vars, bins>>

(***************************************************************************)
(* The fragmentation-eviction loop.  getVictim() takes the coldest block   *)
(* of the first class from the requested one up that has any; touches are  *)
(* not modelled, so it may be any block of that class.                     *)
(***************************************************************************)
AllocFailed == gpc = "allocated" /\ StoreIdle /\ reply = ALLOC_FAIL

ReservoirEmpty ==
    /\ AllocFailed
    /\ \A b \in sizeToIdx(want) .. 3 : bins[b] = <<>>
    /\ HandlerReturns
    /\ UNCHANGED <<vars, store, meta, bins>>

getVictim_KeepsEntry(b, n) ==               \* mutant: the slot is not cleared
    /\ b >= sizeToIdx(want)
    /\ \A c \in sizeToIdx(want) .. (b - 1) : bins[c] = <<>>
    /\ n \in DOMAIN bins[b]
    /\ UNCHANGED bins
getVictim(b, n) ==
    /\ b >= sizeToIdx(want)
    /\ \A c \in sizeToIdx(want) .. (b - 1) : bins[c] = <<>>
    /\ bins' = [bins EXCEPT ![b] = RemoveAt(@, n)]

Stale(s) == ~isValid(s) \/ ~HasCopy(s)

SkipStale ==
    /\ AllocFailed
    /\ \E b \in Classes : \E n \in DOMAIN bins[b] :
          getVictim(b, n) /\ Stale(bins[b][n])
    /\ gpc' = "allocate"
    /\ UNCHANGED <<vars, store, meta, subject, want, victimBlock>>

\* forceInvalidate(): the tag entry is dropped at once, whatever its state.
forceInvalidate_KeepsMeta(s) ==             \* mutant: metadata not cleared
    /\ invalidate(s) /\ UNCHANGED meta
    /\ UNCHANGED <<owed, pc, req, walk, pendingSwapChain, i>>
forceInvalidate(s) ==
    /\ invalidate(s) /\ clearMeta(s)
    /\ UNCHANGED <<owed, pc, req, walk, pendingSwapChain, i>>

ForceEvict ==
    /\ AllocFailed
    /\ \E b \in Classes : \E n \in DOMAIN bins[b] :
          /\ getVictim(b, n) /\ ~Stale(bins[b][n])
          /\ victimBlock' = CopyOf(bins[b][n])
          /\ forceInvalidate(bins[b][n])
    /\ gpc' = "release"
    /\ UNCHANGED <<store, subject, want>>

ReleaseVictim_WithRequestedSize ==          \* mutant: deallocate(victimPtr, paddedSize)
    /\ gpc = "release"
    /\ DS!Deallocate([victimBlock EXCEPT !.order = DS!sizeToOrder[want]])
    /\ gpc' = "allocate" /\ victimBlock' = NoBlock
    /\ UNCHANGED <<vars, meta, bins, subject, want>>

ReleaseVictim ==
    /\ gpc = "release"
    /\ DS!Deallocate(victimBlock)
    /\ gpc' = "allocate" /\ victimBlock' = NoBlock
    /\ UNCHANGED <<vars, meta, bins, subject, want>>

(***************************************************************************)
(* processSampleEvent(): the LFSR names any block.  A valid one goes into  *)
(* the bin of its present size, in a free slot or over a warmer entry.     *)
(***************************************************************************)
processSampleEvent ==
    /\ pc = "idle" /\ gpc = "none"
    /\ \E s \in Slots :
          /\ isValid(s)
          /\ LET b == sizeToIdx(blkAllocSize[s]) IN
                \/ /\ Len(bins[b]) < BinSlots[b]
                   /\ bins' = [bins EXCEPT ![b] = Append(@, s)]
                \/ /\ Len(bins[b]) = BinSlots[b]
                   /\ \E n \in DOMAIN bins[b] : bins' = [bins EXCEPT ![b][n] = s]
    /\ UNCHANGED <<vars, store, meta, glue>>

GlueStep == CallAllocate \/ StoreCopy \/ ReservoirEmpty \/ SkipStale \/ ForceEvict
            \/ ReleaseVictim

CNext ==
    \/ TagsStep \/ StoreStep
    \/ FreeVictim \/ EvictAndFree
    \/ \E l \in Line : FreeSnooped(l) \/ SnoopAndFree(l)
    \/ MoveWithCopy
    \/ InsertWithoutData
    \/ \E size \in Sizes : handleFill(size)
    \/ GlueStep
    \/ processSampleEvent

CSpec == CInit /\ [][CNext]_cvars

\* A request is served to its end in the event that started it.
Busy     == pc # "idle" \/ gpc # "none"
FairSpec == CSpec /\ WF_cvars(Busy /\ CNext)
-----------------------------------------------------------------------------
\* The pool block on its way between the tags and the store, if any: taken
\* from a victim and not yet freed, or allocated and not yet recorded.
InTransit ==
    (IF gpc = "release" THEN {victimBlock} ELSE {}) \cup
    (IF gpc = "allocated" /\ StoreIdle /\ reply # ALLOC_FAIL
     THEN {[ptr |-> reply, order |-> DS!sizeToOrder[want]]} ELSE {})

Owners == {s \in Slots : HasCopy(s) /\ ~(gpc = "invalidate" /\ subject = s)}

\* What the store has given out belongs to a tag entry or is in transit, and to
\* one of them only; only valid entries own pool blocks, also while a chain of
\* relocations is half done.
NoPoolLeak == live = {CopyOf(s) : s \in Owners} \cup InTransit
NoSharing  ==
    /\ \A s, t \in Owners : CopyOf(s) = CopyOf(t) => s = t
    /\ \A s \in Owners : CopyOf(s) \notin InTransit
InvalidOwnsNothing == \A s \in Slots : HasCopy(s) => isValid(s)

\* The pool and the tag entries agree at every step: no block of the pool leaks,
\* none is shared, and none outlives its line.
PoolIsOwned == NoPoolLeak /\ NoSharing /\ InvalidOwnsNothing

\* The copy a tag entry points to is that of the line it is tagged with: it
\* survives relocations, evictions of other lines and reuse of the pool.
CopyIsOfTheLine ==
    \A s \in Owners : isValid(s) =>
        \A g \in DS!SegmentsOf(CopyOf(s)) : pool[g] = Payload[tag[s]]

\* However many blocks the fragmentation loop evicts, the block it is filling
\* is not one of them, and still owns nothing when the loop ends.
FillTargetSurvives ==
    gpc \in {"allocate", "allocated", "release"} =>
        isValid(subject) /\ ~HasCopy(subject)

\* With 64 bytes of pool for every slot of the tags, allocation never fails.
NeverExhausted == ~AllocFailed

\* The tags and the glue keep the store's side of the contract: they free and
\* write only blocks that they hold.
UsesStoreCorrectly == DS!Spec

\* Every request is served to its end: the walk, the relocations and above all
\* the fragmentation loop of handleFill() terminate, stale entries or not.
RequestCompletes == Busy ~> ~Busy

\* "Guard: skip stale reservoir entries (block invalidated or re-inserted since
\* it was sampled ...)" (glue/zcache_glue.cc:137-138): a block smaller than the
\* request, which its bin does not hold, was refilled since it was sampled,
\* and is not evicted.
RefilledEntriesAreSkipped ==
    [][gpc # "release" /\ gpc' = "release" =>
          victimBlock'.order >= DS!sizeToOrder[want]]_cvars
=============================================================================
