----------------------------- MODULE BucketedLRU -----------------------------
(***************************************************************************)
(* What the replacement policy promises: a victim is chosen among the      *)
(* candidates, and whoever was used before it was used at most one bucket  *)
(* of accesses before it.  An entry that was invalidated counts as never   *)
(* used.                                                                   *)
(***************************************************************************)
EXTENDS Naturals

CONSTANTS
    Entry,
    Requests,       \* the sets of candidates that are asked about
    K,              \* the accesses in a bucket
    NoEntry

VARIABLES
    now,            \* the accesses so far
    last,           \* last[e]: the access that used e last, or 0
    asked,          \* the candidates of the last question, or none
    victim          \* and the answer, or NoEntry

Init == now = 0 /\ last = [e \in Entry |-> 0] /\ asked = {} /\ victim = NoEntry

Use(e) == /\ now' = now + 1
          /\ last' = [last EXCEPT ![e] = now + 1]
          /\ asked' = {} /\ victim' = NoEntry

Forget(e) == /\ last' = [last EXCEPT ![e] = 0]
             /\ asked' = {} /\ victim' = NoEntry
             /\ UNCHANGED now

Choose(cands) == /\ asked' = cands
                 /\ victim' \in cands
                 /\ \A e \in cands : last[victim'] < last[e] + K
                 /\ UNCHANGED <<now, last>>

Next == \/ \E e \in Entry : Use(e) \/ Forget(e)
        \/ \E cands \in Requests : Choose(cands)

Spec == Init /\ [][Next]_<<now, last, asked, victim>>
=============================================================================
