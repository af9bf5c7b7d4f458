------------------------- MODULE DecoupledDataStore -------------------------
(***************************************************************************)
(* The compressed data pool of the CDZCache: a buddy allocator over 8-byte *)
(* segments with block sizes 8, 16, 32 and 64 bytes (orders 0 to 3), as in *)
(* glue/decoupled_data_store.{hh,cc}.                                      *)
(*                                                                         *)
(* allocate() and deallocate() are loops, and every iteration is a step    *)
(* here: pc says which loop the store is in, and order, avail and ptr are  *)
(* the C++ locals of the same names.  live and stored are history: what    *)
(* the callers hold, and what they last wrote there.                       *)
(***************************************************************************)
EXTENDS Integers, Sequences, SequencesExt

CONSTANTS
    PoolBytes,      \* p.pool_bytes
    Sizes,          \* the sizes, in bytes, that the callers ask for
    Value           \* what the callers write (0 is what the pool starts with)

SEGMENT_SIZE == 8
MAX_ORDER    == 3
Orders       == 0 .. MAX_ORDER

sizeToOrder ==
    [s \in {8, 16, 32, 64} |->
        CASE s = 8  -> 0
          [] s = 16 -> 1
          [] s = 32 -> 2
          [] s = 64 -> 3]

\* The constructor panics on any other pool, sizeToOrder on any other size.
ASSUME PoolAssumption == /\ PoolBytes \in Nat \ {0}
                         /\ PoolBytes % 64 = 0
ASSUME SizesAssumption == Sizes \subseteq DOMAIN sizeToOrder
ASSUME ValueAssumption == Value \subseteq Nat \ {0}

NumChunks == PoolBytes \div 64
Segments  == 0 .. (8 * NumChunks - 1)

\* 1u << k, the number of segments of a block of order k.
Span(k) == CASE k = 0 -> 1 [] k = 1 -> 2 [] k = 2 -> 4 [] k = 3 -> 8

\* ptr ^ (1u << k): bit k of the segment index is flipped.
buddyOf(p, k) == IF (p \div Span(k)) % 2 = 0 THEN p + Span(k) ELSE p - Span(k)

Block == {b \in [ptr : Segments, order : Orders] : b.ptr % Span(b.order) = 0}
SegmentsOf(b) == b.ptr .. (b.ptr + Span(b.order) - 1)

ALLOC_FAIL == -1        \* UINT32_MAX: no segment has this index
NoReply    == -2        \* no allocate() has returned since the last call
-----------------------------------------------------------------------------
VARIABLES
    freeLists,      \* freeLists[k]: segment indices of the free blocks
    pool,           \* the bytes, one value per segment
    pc,             \* "idle", or the loop being executed
    order,
    avail,
    ptr,
    asked,          \* history: the order the last allocate() asked for
    reply,          \* and what it returned
    live,           \* the blocks the callers hold
    stored          \* what the callers last wrote to the blocks they hold

locals == <<pc, order, avail, ptr>>
data   == <<pool, stored>>
vars   == <<freeLists, pool, pc, order, avail, ptr, asked, reply, live, stored>>

Init ==
    /\ freeLists = [k \in Orders |-> IF k = MAX_ORDER
                                     THEN [i \in 1 .. NumChunks |-> (i - 1) * 8]
                                     ELSE <<>>]
    /\ pool = [s \in Segments |-> 0]
    /\ pc = "idle" /\ order = 0 /\ avail = 0 /\ ptr = 0
    /\ asked = NoReply /\ reply = NoReply
    /\ live = {}
    /\ stored = <<>>

Return ==
    /\ pc' = "idle" /\ order' = 0 /\ avail' = 0 /\ ptr' = 0

(***************************************************************************)
(* allocate(): the smallest order >= the requested one with a free block   *)
(* is split down to the requested order, and the front block is taken.     *)
(***************************************************************************)
AllocateFails_LooksAtOneOrder(size) ==      \* mutant: gives up too early
    /\ pc = "idle"
    /\ freeLists[sizeToOrder[size]] = <<>>
    /\ asked' = sizeToOrder[size] /\ reply' = ALLOC_FAIL
    /\ UNCHANGED <<freeLists, pool, locals, live, stored>>

AllocateFails(size) ==
    /\ pc = "idle"
    /\ \A k \in sizeToOrder[size] .. MAX_ORDER : freeLists[k] = <<>>
    /\ asked' = sizeToOrder[size] /\ reply' = ALLOC_FAIL
    /\ UNCHANGED <<freeLists, pool, locals, live, stored>>

Allocate_TakesTheTopOrder(size) ==          \* mutant: does not look for avail
    /\ pc = "idle"
    /\ order' = sizeToOrder[size]
    /\ avail' = MAX_ORDER
    /\ pc' = "split"
    /\ asked' = order' /\ reply' = NoReply
    /\ UNCHANGED <<freeLists, pool, ptr, live, stored>>

Allocate(size) ==
    /\ pc = "idle"
    /\ order' = sizeToOrder[size]
    /\ \E k \in order' .. MAX_ORDER :
          /\ freeLists[k] # <<>>
          /\ \A j \in order' .. (k - 1) : freeLists[j] = <<>>
          /\ avail' = k
    /\ pc' = "split"
    /\ asked' = order' /\ reply' = NoReply
    /\ UNCHANGED <<freeLists, pool, ptr, live, stored>>

splitOrder_SpanOfTheParent ==               \* mutant: 1u << order
    /\ pc = "split" /\ avail > order
    /\ LET p == Head(freeLists[avail]) IN
          freeLists' = [freeLists EXCEPT
              ![avail]     = Tail(@),
              ![avail - 1] = Append(Append(@, p), p + Span(avail))]
    /\ avail' = avail - 1
    /\ UNCHANGED <<pool, pc, order, ptr, asked, reply, live, stored>>

splitOrder ==
    /\ pc = "split" /\ avail > order
    /\ LET p == Head(freeLists[avail]) IN
          freeLists' = [freeLists EXCEPT
              ![avail]     = Tail(@),
              ![avail - 1] = Append(Append(@, p), p + Span(avail - 1))]
    /\ avail' = avail - 1
    /\ UNCHANGED <<pool, pc, order, ptr, asked, reply, live, stored>>

AllocateReturns ==
    /\ pc = "split" /\ avail = order
    /\ LET b == [ptr |-> Head(freeLists[order]), order |-> order] IN
          /\ reply' = b.ptr
          /\ live' = live \cup {b}
    /\ freeLists' = [freeLists EXCEPT ![order] = Tail(@)]
    /\ Return
    /\ UNCHANGED <<data, asked>>

(***************************************************************************)
(* deallocate(): while the buddy of the block is free it is taken off its  *)
(* list (the first occurrence) and merged; the result is pushed back.      *)
(***************************************************************************)
Deallocate(b) ==
    /\ pc = "idle"
    /\ ptr' = b.ptr /\ order' = b.order
    /\ pc' = "coalesce"
    /\ live' = live \ {b}
    /\ stored' = [c \in DOMAIN stored \ {b} |-> stored[c]]
    /\ asked' = NoReply /\ reply' = NoReply
    /\ UNCHANGED <<freeLists, pool, avail>>

BuddyFree_StopsOneEarly ==                  \* mutant: order + 1 < MAX_ORDER
    order < MAX_ORDER - 1 /\ buddyOf(ptr, order) \in ToSet(freeLists[order])
BuddyFree_LooksAtTheFront ==                \* mutant: no search
    /\ order < MAX_ORDER /\ freeLists[order] # <<>>
    /\ Head(freeLists[order]) = buddyOf(ptr, order)

BuddyFree == order < MAX_ORDER /\ buddyOf(ptr, order) \in ToSet(freeLists[order])

Coalesce_KeepsTheBuddy ==                   \* mutant: no erase()
    /\ pc = "coalesce" /\ BuddyFree
    /\ ptr' = IF ptr < buddyOf(ptr, order) THEN ptr ELSE buddyOf(ptr, order)
    /\ order' = order + 1
    /\ UNCHANGED <<freeLists, pool, pc, avail, asked, reply, live, stored>>

Coalesce ==
    /\ pc = "coalesce" /\ BuddyFree
    /\ \E i \in DOMAIN freeLists[order] :
          /\ freeLists[order][i] = buddyOf(ptr, order)
          /\ \A j \in 1 .. (i - 1) : freeLists[order][j] # buddyOf(ptr, order)
          /\ freeLists' = [freeLists EXCEPT ![order] = RemoveAt(@, i)]
    /\ ptr' = IF ptr < buddyOf(ptr, order) THEN ptr ELSE buddyOf(ptr, order)
    /\ order' = order + 1
    /\ UNCHANGED <<pool, pc, avail, asked, reply, live, stored>>

DeallocateReturns ==
    /\ pc = "coalesce" /\ ~BuddyFree
    /\ freeLists' = [freeLists EXCEPT ![order] = Append(@, ptr)]
    /\ Return
    /\ UNCHANGED <<pool, asked, reply, live, stored>>

(***************************************************************************)
(* write(): the caller fills a block it holds.                             *)
(***************************************************************************)
write(b, v) ==
    /\ pc = "idle"
    /\ pool' = [s \in Segments |-> IF s \in SegmentsOf(b) THEN v ELSE pool[s]]
    /\ stored' = [c \in DOMAIN stored \cup {b} |-> IF c = b THEN v ELSE stored[c]]
    /\ UNCHANGED <<freeLists, locals, asked, reply, live>>

\* The iterations and the return of the call in progress.
Step == splitOrder \/ AllocateReturns \/ Coalesce \/ DeallocateReturns

\* Callers give back, and write to, only the blocks they hold.
Next ==
    \/ \E size \in Sizes : Allocate(size) \/ AllocateFails(size)
    \/ \E b \in live : Deallocate(b)
    \/ \E b \in live, v \in Value : write(b, v)
    \/ Step

Spec == Init /\ [][Next]_vars
-----------------------------------------------------------------------------
FreeBlocks == {b \in Block : b.ptr \in ToSet(freeLists[b.order])}

\* The block deallocate() carries from list to list while it coalesces.
InHand == IF pc = "coalesce" THEN {[ptr |-> ptr, order |-> order]} ELSE {}

\* Every variable stays in its type; what is in a free list, in hand or with
\* a caller is an aligned block inside the pool.
TypeOK ==
    /\ freeLists \in [Orders -> Seq(Segments)]
    /\ \A k \in Orders : \A p \in ToSet(freeLists[k]) : p % Span(k) = 0
    /\ pool \in [Segments -> Value \cup {0}]
    /\ pc \in {"idle", "split", "coalesce"}
    /\ order \in Orders /\ avail \in Orders /\ ptr \in Segments
    /\ InHand \subseteq Block
    /\ asked \in Orders \cup {NoReply}
    /\ reply \in Segments \cup {ALLOC_FAIL, NoReply}
    /\ live \subseteq Block
    /\ DOMAIN stored \subseteq live
    /\ \A b \in DOMAIN stored : stored[b] \in Value

\* No byte is lost and none is given out twice: at every step of every call,
\* each segment lies in exactly one block among the free lists, the callers'
\* blocks and the block in hand, and no list holds a block twice.
Disjoint ==
    \A b, c \in FreeBlocks \cup live \cup InHand :
        b # c => SegmentsOf(b) \cap SegmentsOf(c) = {}
Separate == /\ FreeBlocks \cap live = {}
            /\ InHand \cap (FreeBlocks \cup live) = {}
Covered  == \A s \in Segments :
                \E b \in FreeBlocks \cup live \cup InHand : s \in SegmentsOf(b)
NoDuplicates == \A k \in Orders : IsInjective(freeLists[k])

PoolAccounting == Disjoint /\ Separate /\ Covered /\ NoDuplicates

\* splitOrder()'s assertion and allocate()'s front(): in every iteration there
\* is a block to pop, and the lists between it and the request are empty, so
\* no smaller block that would do was passed over.
SplitAsserts ==
    pc = "split" =>
        /\ order <= avail
        /\ freeLists[avail] # <<>>
        /\ \A k \in order .. (avail - 1) : freeLists[k] = <<>>

\* Between calls no two buddies are both free: deallocate() has merged all it
\* can, and allocate() has split no more than it had to.  In the middle of a
\* split the only such pair is the one whose front is popped next.
NoFreeBuddies ==
    \A b \in FreeBlocks :
        LET buddy == buddyOf(b.ptr, b.order) IN
            b.order < MAX_ORDER /\ buddy \in ToSet(freeLists[b.order]) =>
                /\ pc = "split" /\ b.order = avail
                /\ Head(freeLists[avail]) \in {b.ptr, buddy}

\* When the callers have given everything back the pool is whole again: all
\* the 64-byte chunks are free and nothing smaller is.
EmptyPoolIsWhole ==
    pc = "idle" /\ live = {} =>
        /\ ToSet(freeLists[MAX_ORDER]) = {8 * i : i \in 0 .. (NumChunks - 1)}
        /\ \A k \in 0 .. (MAX_ORDER - 1) : freeLists[k] = <<>>

\* A caller finds in its block what it last wrote there, whatever was
\* allocated, freed and written since.
ReadBack == \A b \in DOMAIN stored : \A s \in SegmentsOf(b) : pool[s] = stored[b]

\* The store is an allocator of aligned extents that answers ALLOC_FAIL only
\* when no extent of that size is free (see SegmentPool).
Abstract == INSTANCE SegmentPool WITH NumSegments <- 8 * NumChunks,
                                      Orders <- {sizeToOrder[s] : s \in Sizes}
ImplementsSegmentPool == Abstract!Spec
=============================================================================
