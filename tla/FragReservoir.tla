---------------------------- MODULE FragReservoir ----------------------------
(***************************************************************************)
(* The fragmentation reservoir (glue/frag_reservoir.{hh,cc}): from time to *)
(* time a block of the tags is sampled into the bin of its size, over the  *)
(* warmest candidate if need be; when the data store is exhausted, the     *)
(* coldest candidate of a large enough size is handed out.                 *)
(*                                                                         *)
(* A bin keeps the size and the timestamp that its block had when it was   *)
(* sampled, while the block goes on being touched, evicted and refilled:   *)
(* the actions Fill, Touch, Evict and Bucket are the tags and the policy   *)
(* (ZCacheRP), which stamps all accesses of a bucket alike, the first ones *)
(* with 0.                                                                 *)
(***************************************************************************)
EXTENDS Integers, FiniteSets, FiniteSetsExt

CONSTANTS
    Block, NoBlock,
    Sizes,          \* the sizes that blocks have in the data store
    NumClasses,     \* size classes, 4: the largest sizes are 8, 16, 32 and 64 bytes
    NumSlots,       \* candidates per class, 4 in the code
    MaxTimestamp    \* bound: the timestamps of the code have 64 bits

\* The four bins of the code, and the sizes that the data store hands out: 8,
\* 16, 32 or 64 bytes, or 0 for a block without a copy.
ASSUME ReservoirAssumption ==
    /\ NumClasses = 4 /\ NumSlots \in Nat \ {0}
    /\ Sizes \subseteq {0, 8, 16, 32, 64}
    /\ NoBlock \notin Block

VARIABLES
    blocks,         \* of each block [valid, size, touch]; size 0: no copy in the pool
    now,            \* the timestamp of the present bucket
    bins,           \* bins[b][s]: [entry, allocSize, lastTouch, valid]
    replSlot,       \* the slot written by the last sample, or -1
    inserted,       \* the last step inserted a sample
    victim,         \* the candidate handed out by the last step, or none
    asked,          \* the size it was handed out for
    dropped         \* history: of each class, the timestamps that were refused or
                    \* overwritten since a candidate was last taken from its bin

rvars == <<blocks, now, bins, replSlot, inserted, victim, asked, dropped>>
tagvars == <<blocks, now>>

Classes  == 0 .. NumClasses - 1
BinSlots == 0 .. NumSlots - 1

NoCandidate == [entry |-> NoBlock, allocSize |-> 0, lastTouch |-> 0, valid |-> FALSE]

sizeToIdx(sz) == IF sz <= 8 THEN 0 ELSE IF sz <= 16 THEN 1 ELSE IF sz <= 32 THEN 2 ELSE 3

RInit ==
    /\ blocks = [x \in Block |-> [valid |-> FALSE, size |-> 0, touch |-> 0]]
    /\ now = 0
    /\ bins = [b \in Classes |-> [s \in BinSlots |-> NoCandidate]]
    /\ replSlot = -1 /\ inserted = FALSE
    /\ victim = NoCandidate /\ asked = 0
    /\ dropped = [b \in Classes |-> {}]

\* The step neither samples nor hands out a block.
Quiet == replSlot' = -1 /\ inserted' = FALSE /\ victim' = NoCandidate /\ asked' = 0

(***************************************************************************)
(* The tags: a fill may find no room in the pool.                          *)
(***************************************************************************)
Fill(x, size) ==
    /\ ~blocks[x].valid
    /\ blocks' = [blocks EXCEPT ![x] = [valid |-> TRUE, size |-> size, touch |-> now]]
    /\ UNCHANGED <<now, bins, dropped>> /\ Quiet
Touch(x) ==
    /\ blocks[x].valid /\ blocks[x].touch # now
    /\ blocks' = [blocks EXCEPT ![x].touch = now]
    /\ UNCHANGED <<now, bins, dropped>> /\ Quiet
Evict(x) ==
    /\ blocks[x].valid
    /\ blocks' = [blocks EXCEPT ![x] = [valid |-> FALSE, size |-> 0, touch |-> 0]]
    /\ UNCHANGED <<now, bins, dropped>> /\ Quiet
Bucket == now < MaxTimestamp /\ now' = now + 1 /\ UNCHANGED <<blocks, bins, dropped>> /\ Quiet

(***************************************************************************)
(* processSampleEvent() for the block that the LFSR names.                 *)
(***************************************************************************)
FreeSlots(b) == {s \in BinSlots : ~bins[b][s].valid}

\* The largest timestamp of a full bin, and the first slot that has it; the
\* search starts from 0 and -1 and replaces them by anything larger.
maxTouch(b) == Max({bins[b][s].lastTouch : s \in BinSlots})

FirstWarmest(b) ==
    IF maxTouch(b) = 0 THEN -1
    ELSE Min({s \in BinSlots : bins[b][s].lastTouch = maxTouch(b)})

IsColder_OrEqual(touch, b) == touch <= maxTouch(b)      \* mutant: <=
IsColder(touch, b)         == touch < maxTouch(b)

Insert_KeepsSize(b, s, x) ==                \* mutant: allocSize not recorded
    bins' = [bins EXCEPT ![b][s] = [entry |-> x, allocSize |-> 0,
                                    lastTouch |-> blocks[x].touch, valid |-> TRUE]]
Insert(b, s, x) ==
    bins' = [bins EXCEPT ![b][s] = [entry |-> x, allocSize |-> blocks[x].size,
                                    lastTouch |-> blocks[x].touch, valid |-> TRUE]]

SampleInto(x, s) ==
    LET b == sizeToIdx(blocks[x].size)
    IN /\ blocks[x].valid
       /\ IF s \in BinSlots THEN Insert(b, s, x) ELSE UNCHANGED bins
       /\ replSlot' = s /\ inserted' = TRUE
       /\ dropped' = IF s \in BinSlots /\ bins[b][s].valid
                     THEN [dropped EXCEPT ![b] = @ \cup {bins[b][s].lastTouch}] ELSE dropped
       /\ victim' = NoCandidate /\ asked' = 0
       /\ UNCHANGED tagvars

SampleIntoFree(x) ==
    LET b == sizeToIdx(blocks[x].size)
    IN FreeSlots(b) # {} /\ SampleInto(x, Min(FreeSlots(b)))

SampleOverWarmest(x) ==
    LET b == sizeToIdx(blocks[x].size)
    IN /\ FreeSlots(b) = {} /\ IsColder(blocks[x].touch, b)
       /\ SampleInto(x, FirstWarmest(b))

SampleRefused(x) ==
    LET b == sizeToIdx(blocks[x].size)
    IN /\ blocks[x].valid
       /\ FreeSlots(b) = {} /\ ~IsColder(blocks[x].touch, b)
       /\ replSlot' = FirstWarmest(b) /\ inserted' = FALSE
       /\ dropped' = [dropped EXCEPT ![b] = @ \cup {blocks[x].touch}]
       /\ victim' = NoCandidate /\ asked' = 0
       /\ UNCHANGED <<bins, tagvars>>

\* The event finds nothing to sample: the block that is named is invalid.
SampleInvalid(x) ==
    /\ ~blocks[x].valid
    /\ UNCHANGED <<bins, dropped, tagvars>> /\ Quiet

processSampleEvent ==
    \E x \in Block : SampleIntoFree(x) \/ SampleOverWarmest(x) \/ SampleRefused(x)
                     \/ SampleInvalid(x)

(***************************************************************************)
(* getVictim(): the first class that has a candidate, and of its coldest   *)
(* candidates the first one, whose slot is cleared.                        *)
(***************************************************************************)
Filled(b) == {s \in BinSlots : bins[b][s].valid}

Coldest(b) ==
    Min({s \in Filled(b) :
            \A r \in Filled(b) : bins[b][s].lastTouch <= bins[b][r].lastTouch})

HandOut_KeepsSlot(b, s) ==                  \* mutant: the slot is not cleared
    /\ victim' = bins[b][s]
    /\ dropped' = [dropped EXCEPT ![b] = {}]
    /\ UNCHANGED bins
HandOut(b, s) ==
    /\ victim' = bins[b][s]
    /\ bins' = [bins EXCEPT ![b][s] = NoCandidate]
    /\ dropped' = [dropped EXCEPT ![b] = {}]

getVictim(sizeBytes) ==
    /\ asked' = sizeBytes /\ replSlot' = -1 /\ inserted' = FALSE
    /\ \/ \E b \in sizeToIdx(sizeBytes) .. NumClasses - 1 :
             /\ Filled(b) # {}
             /\ \A c \in sizeToIdx(sizeBytes) .. b - 1 : Filled(c) = {}
             /\ HandOut(b, Coldest(b))
       \/ /\ \A b \in sizeToIdx(sizeBytes) .. NumClasses - 1 : Filled(b) = {}
          /\ victim' = NoCandidate
          /\ UNCHANGED <<bins, dropped>>
    /\ UNCHANGED tagvars

Tags == \/ \E x \in Block : Touch(x) \/ Evict(x)
        \/ \E x \in Block, size \in Sizes : Fill(x, size)
        \/ Bucket

RNext == Tags \/ processSampleEvent \/ \E size \in Sizes \ {0} : getVictim(size)

RSpec == RInit /\ [][RNext]_rvars
-----------------------------------------------------------------------------
\* A bin keeps the coldest of what it was offered, whatever its blocks have
\* done since: after a candidate was last taken from it, nothing was refused or
\* overwritten that was colder than something it still holds.  A full bin of
\* which no block has been touched since the first bucket, whose timestamp is 0,
\* is not written at all: replSlot is then still -1.
KeepsTheColdest ==
    /\ \A b \in Classes : \A s \in Filled(b) : \A touch \in dropped[b] :
          bins[b][s].lastTouch <= touch
    /\ inserted => replSlot \in BinSlots

\* What is handed out was large enough for the request when it was sampled, or
\* had no copy to give up and was asked for the smallest size, as the guard of
\* handleFill() expects; and no colder candidate is left of those of its size or
\* of a smaller one that would have been large enough.  (A larger class may hold
\* a colder one, whatever glue/frag_reservoir.hh:36 says of "the coldest
\* candidate".)
VictimFits ==
    victim.valid =>
        /\ victim.allocSize >= asked \/ (victim.allocSize = 0 /\ asked <= 8)
        /\ \A b \in sizeToIdx(asked) .. sizeToIdx(victim.allocSize) : \A s \in Filled(b) :
              victim.lastTouch <= bins[b][s].lastTouch

\* What CDZCache models of the reservoir (see SampledBins).
Promise == INSTANCE SampledBins
               WITH held <- [b \in Classes |-> [s \in BinSlots |-> bins[b][s].entry]],
                    taken <- victim.entry
ImplementsSampledBins == Promise!Spec
=============================================================================
