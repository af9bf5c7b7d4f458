----------------------------- MODULE MCCDZCache -----------------------------
EXTENDS CDZCache

CONSTANTS A, B, C, D

\* Two ways: A and B share both slots; C and D share one of them and one more.
ChainHash == [l \in Line |-> IF l \in {A, B} THEN 0 :> 0 @@ 1 :> 0 ELSE 0 :> 0 @@ 1 :> 1]
Numbering == [l \in Line |-> CASE l = A -> 1 [] l = B -> 2 [] l = C -> 3 [] OTHER -> 4]
Anonymous == [l \in Line |-> 1]

\* A bin below the smallest size asked for is never read, so its entries make
\* no difference; the others get one slot, or none.
OneSlot  == [k \in 0 .. 3 |-> IF k < 2 THEN 0 ELSE 1]
NoSlots  == [k \in 0 .. 3 |-> 0]
=============================================================================
