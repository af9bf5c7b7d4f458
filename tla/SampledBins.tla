----------------------------- MODULE SampledBins -----------------------------
(***************************************************************************)
(* What the fill handler relies on when it asks the reservoir for a block  *)
(* to evict (glue/zcache_glue.cc), as CDZCache models it: blocks have been *)
(* put into the slots of size classes, a block only replaces another when  *)
(* no slot of the class is free, and a request takes some block of the     *)
(* first class, from its own up, that has one.  Nothing is said of which.  *)
(***************************************************************************)
EXTENDS Integers

CONSTANTS Block, NoBlock, NumClasses, NumSlots

VARIABLES
    held,       \* held[b][s]: the block in slot s of class b, or NoBlock
    taken       \* the answer to the last request, or NoBlock

avars == <<held, taken>>

Classes  == 0 .. NumClasses - 1
BinSlots == 0 .. NumSlots - 1
Empty(b) == \A s \in BinSlots : held[b][s] = NoBlock

Init == held = [b \in Classes |-> [s \in BinSlots |-> NoBlock]] /\ taken = NoBlock

Put(b, s, block) ==
    /\ held[b][s] = NoBlock \/ \A t \in BinSlots : held[b][t] # NoBlock
    /\ held' = [held EXCEPT ![b][s] = block]
    /\ taken' = NoBlock

Take(class) ==
    \E b \in class .. NumClasses - 1, s \in BinSlots :
        /\ \A c \in class .. b - 1 : Empty(c)
        /\ held[b][s] # NoBlock
        /\ held' = [held EXCEPT ![b][s] = NoBlock]
        /\ taken' = held[b][s]

TakeNothing(class) ==
    /\ \A b \in class .. NumClasses - 1 : Empty(b)
    /\ taken' = NoBlock
    /\ UNCHANGED held

\* The answer has been used.
Done == taken' = NoBlock /\ UNCHANGED held

Next ==
    \/ Done
    \/ \E b \in Classes, s \in BinSlots, block \in Block : Put(b, s, block)
    \/ \E class \in Classes : Take(class) \/ TakeNothing(class)
Spec == Init /\ [][Next]_avars
=============================================================================
