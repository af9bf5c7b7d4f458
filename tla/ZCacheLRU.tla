------------------------------ MODULE ZCacheLRU ------------------------------
(***************************************************************************)
(* The tag store of ZCacheTags together with its replacement policy        *)
(* ZCacheRP: which access stamps which block (accessBlock(), insertBlock() *)
(* and doMoveBlock() of zcache/zcache_tags.cc), and what the stamps say of *)
(* the lines when a walk chooses its victim by them.                       *)
(*                                                                         *)
(* A relocation invalidates the stamp of the block that is left and then   *)
(* resets that of the block moved into, which is one more access for the   *)
(* policy: the second half is a step of its own here (Restamp), and the    *)
(* tags wait for it.                                                       *)
(***************************************************************************)
EXTENDS ZCacheTags

CONSTANTS Numerator, Denominator, MaxAccesses       \* as in ZCacheRP

ASSUME PolicyAssumption ==
    Numerator \in Nat /\ Denominator \in Nat \ {0} /\ MaxAccesses \in Nat

VARIABLES lastTouchTimestamp, globalTimestamp, accessCount, bucketSize,
          last, asked, victim                       \* as in ZCacheRP
stamps == <<lastTouchTimestamp, globalTimestamp, accessCount, bucketSize, last,
            asked, victim>>

NoSlot == <<0, -1>>

RP == INSTANCE ZCacheRP WITH Entry <- Slots, NoEntry <- NoSlot,
                             MaxCandidates <- NumCandidates

VARIABLES
    moving,         \* the block moved into and not yet stamped, or NoSlot
    used,           \* history: the access that last hit or filled each line, or 0
    relocated       \* history: the lines moved since

lruvars == <<vars, stamps, moving, used, relocated>>

LInit == /\ Init /\ RP!Init
         /\ moving = NoSlot
         /\ used = [l \in Line |-> 0] /\ relocated = {}

(***************************************************************************)
(* A hit touches the block; a fill resets it.                              *)
(***************************************************************************)
Uses(l) == /\ used' = [used EXCEPT ![l] = accessCount']
           /\ relocated' = relocated \ {l}
           /\ UNCHANGED moving

accessBlock(l) ==
    /\ moving = NoSlot
    /\ \/ l \in Written /\ WriteHit(l)
       \/ pc = "idle" /\ Hits(l) # {} /\ UNCHANGED vars
    /\ RP!touch(findBlock(l))
    /\ Uses(l)

insertBlock ==
    /\ moving = NoSlot
    /\ InsertLine
    /\ RP!touch(Last(pendingSwapChain))
    /\ Uses(req)

(***************************************************************************)
(* An evicted or snooped block loses its stamp.                            *)
(***************************************************************************)
Forgets(s) == /\ RP!invalidate(s)
              /\ used' = [used EXCEPT ![tag[s]] = 0]
              /\ relocated' = relocated \ {tag[s]}
              /\ UNCHANGED moving

Evict    == moving = NoSlot /\ EvictVictim /\ Forgets(Head(pendingSwapChain))
Snoop(l) == moving = NoSlot /\ SnoopInvalidate(l) /\ Forgets(findBlock(l))

(***************************************************************************)
(* doMoveBlock().                                                          *)
(***************************************************************************)
Relocate ==
    /\ moving = NoSlot
    /\ MoveBlock
    /\ LET src == pendingSwapChain[i]
           dst == pendingSwapChain[i - 1]
       IN IF isValid(src)
          THEN /\ RP!invalidate(src)
               /\ moving' = dst
               /\ relocated' = relocated \cup {tag[src]}
          ELSE UNCHANGED <<stamps, moving, relocated>>
    /\ UNCHANGED used

Restamp_Skipped ==                          \* mutant: dst is not reset
    /\ moving # NoSlot
    /\ moving' = NoSlot
    /\ UNCHANGED <<vars, stamps, used, relocated>>
Restamp ==
    /\ moving # NoSlot
    /\ RP!touch(moving)
    /\ moving' = NoSlot
    /\ UNCHANGED <<vars, used, relocated>>

(***************************************************************************)
(* The policy is asked only when every block of the walk is valid.         *)
(***************************************************************************)
SelectVictim_First ==                       \* mutant: the first candidate
    /\ moving = NoSlot
    /\ SelectByPolicy /\ idx' = 1
    /\ victim' = candidates[1].slot
    /\ asked' = {candidates[n].slot : n \in DOMAIN candidates}
    /\ UNCHANGED <<lastTouchTimestamp, globalTimestamp, accessCount, bucketSize, last,
                   moving, used, relocated>>
SelectVictim ==
    /\ moving = NoSlot
    /\ RP!getVictim([n \in DOMAIN candidates |-> candidates[n].slot])
    /\ SelectByPolicy /\ candidates[idx'].slot = victim'
    /\ UNCHANGED <<moving, used, relocated>>

WalkStep == /\ moving = NoSlot
            /\ \/ \E l \in Line : FindFreeHome(l) \/ SeedWalk(l)
               \/ StartLevel \/ ExpandNode \/ EndLevel \/ SelectFree
               \/ BuildChain \/ ReturnVictim \/ RefuseEviction
            /\ UNCHANGED <<stamps, moving, used, relocated>>

LNext ==
    \/ \E l \in Line : accessBlock(l) \/ Snoop(l)
    \/ WalkStep \/ SelectVictim
    \/ Evict \/ Relocate \/ Restamp \/ insertBlock

LSpec == LInit /\ [][LNext]_lruvars
-----------------------------------------------------------------------------
\* What ZCacheRP promises of the stamps, kept by the accesses of the tags.
TimestampIsBucket     == RP!TimestampIsBucket
ImplementsBucketedLRU == RP!ImplementsBucketedLRU

Bucket(access) == IF bucketSize = 0 THEN 0 ELSE access \div bucketSize

\* A line never looks older than it is: wherever relocations have taken it, the
\* stamp of its block is that of its last use or a later one.
NeverLooksOlder ==
    \A s \in Slots : isValid(s) /\ s # moving =>
        lastTouchTimestamp[s] >= Bucket(used[tag[s]])

\* The victim has just been chosen by its stamp.
Chosen == pc = "chain" /\ pendingSwapChain = <<>> /\ AllValid
OlderThan(ls) ==
    \A l \in ls : Bucket(used[tag[candidates[idx].slot]]) <= Bucket(used[l])
OnTheWalk == {tag[candidates[n].slot] : n \in DOMAIN candidates}

\* The victim was used in no later bucket than any line of the walk that has
\* stayed where it was since its own last use, whatever was relocated around it.
\* Of one that has moved nothing can be said: doMoveBlock() stamps it as if it
\* had just been used, so that "the globally-oldest candidate" of
\* zcache/zcache_tags.hh:8 may well be kept.
OldestUnlessRelocated == Chosen => OlderThan(OnTheWalk \ relocated)
=============================================================================
