----------------------------- MODULE SampleLFSR -----------------------------
(***************************************************************************)
(* The generator of the reservoir's sampling event (lfsrNext() of          *)
(* glue/frag_reservoir.cc) and the block that it names.                    *)
(***************************************************************************)
EXTENDS Naturals, Bitwise

CONSTANTS
    Seed, Taps,     \* 0xACE1 and 0xB400 in the code
    NumBlocks,      \* of the tag store: 4096 for 256 KiB
    Watched,        \* the blocks whose sampling is followed
    MaxDraws        \* bound: the event is scheduled for ever

VARIABLES
    lfsrState,
    draws,          \* history: the samples taken
    unseen          \* history: the watched blocks that none of them named

vars == <<lfsrState, draws, unseen>>

Init == lfsrState = Seed /\ draws = 0 /\ unseen = Watched

lfsrNext_ShiftsLast(x) ==                   \* mutant: the taps shifted along
    IF x % 2 = 1 THEN (x \div 2) ^^ (Taps \div 2) ELSE x \div 2
lfsrNext(x) == IF x % 2 = 1 THEN (x \div 2) ^^ Taps ELSE x \div 2

getBlockIndex(x) == x % NumBlocks

Draw ==
    /\ draws < MaxDraws
    /\ lfsrState' = lfsrNext(lfsrState)
    /\ draws' = draws + 1
    /\ unseen' = unseen \ {getBlockIndex(lfsrState')}

Next == Draw
Spec == Init /\ [][Next]_vars
-----------------------------------------------------------------------------
\* "Produces the full period of 65535 before repeating"
\* (glue/frag_reservoir.cc:27): the first state comes back after 65535 draws,
\* not earlier, and so all the others have been passed in between; 0, which
\* the generator could not leave, is not among them.  A store of at most 65535
\* blocks has each of them sampled in every period, its two ends included.
FullPeriod ==
    /\ lfsrState # 0
    /\ draws > 0 => (lfsrState = Seed <=> draws % 65535 = 0)
    /\ draws >= 65535 => unseen = {}
=============================================================================
