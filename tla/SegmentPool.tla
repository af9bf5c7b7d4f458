----------------------------- MODULE SegmentPool -----------------------------
(***************************************************************************)
(* What the data store promises its callers, with no free list in sight:   *)
(* an allocation returns an extent aligned on its own size that overlaps   *)
(* nothing the callers hold, and it fails only when there is none         *)
(* ("ALLOC_FAIL on exhaustion / fragmentation",                            *)
(* glue/decoupled_data_store.hh:33).                                       *)
(***************************************************************************)
EXTENDS Naturals

CONSTANTS
    NumSegments,    \* the pool has the segments 0 .. NumSegments - 1
    Orders,         \* the orders that are requested
    Span(_),        \* an extent of order k has Span(k) segments
    ALLOC_FAIL,
    NoReply

VARIABLES
    live,           \* the extents the callers hold
    asked,          \* the order of the last request, NoReply if since forgotten
    reply           \* the answer to it, NoReply as long as there is none

Extent(p, k)    == p .. (p + Span(k) - 1)
Occupied        == UNION {Extent(b.ptr, b.order) : b \in live}
FreeExtents(k)  == {p \in 0 .. (NumSegments - 1) :
                        p % Span(k) = 0 /\ Extent(p, k) \cap Occupied = {}}

Init == live = {} /\ asked = NoReply /\ reply = NoReply

Request(k) == asked' = k /\ reply' = NoReply /\ UNCHANGED live

Allocate == /\ asked # NoReply /\ reply = NoReply
            /\ \E p \in FreeExtents(asked) :
                  /\ live' = live \cup {[ptr |-> p, order |-> asked]}
                  /\ reply' = p
            /\ UNCHANGED asked

Fail(k) == /\ FreeExtents(k) = {}
           /\ asked' = k /\ reply' = ALLOC_FAIL
           /\ UNCHANGED live

Free(b) == live' = live \ {b} /\ asked' = NoReply /\ reply' = NoReply

Next == \/ \E k \in Orders : Request(k) \/ Fail(k)
        \/ Allocate
        \/ \E b \in live : Free(b)

Spec == Init /\ [][Next]_<<live, asked, reply>>
=============================================================================
