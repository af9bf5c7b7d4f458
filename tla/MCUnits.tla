------------------------------- MODULE MCUnits -------------------------------
(***************************************************************************)
(* The units of the cache that work on their own, each for itself: one is  *)
(* chosen at the start and runs, and the others stay in an initial state.  *)
(***************************************************************************)
EXTENDS BPC, FragReservoir

VARIABLES
    unit,
    lfsrState, draws, unseen,                                       \* SampleLFSR
    cache, rng, way, mask, h3Matrix                                 \* H3Hash

generator == <<lfsrState, draws, unseen>>
indexing  == <<cache, rng, way, mask, h3Matrix>>
uvars     == <<unit, vars, rvars, generator, indexing>>

(***************************************************************************)
(* Lines of 16 words of 32 bits: n planes that are stored raw, at the low  *)
(* or at the high bits, and planes that repeat, complement, clear or fill  *)
(* the rest.                                                               *)
(***************************************************************************)
FromPlanes(p(_)) == [w \in Words |-> {x \in Bits : w \in p(x)}]
Single(x)        == {x % 3}
Uncompressed(n)  ==
    {FromPlanes(LAMBDA x : IF x < n THEN Single(x) ELSE {}),
     FromPlanes(LAMBDA x : IF x >= BITS_PER_WORD - n THEN Single(x) ELSE Words),
     FromPlanes(LAMBDA x : IF x < n THEN Single(x) ELSE {0, 1}),
     FromPlanes(LAMBDA x : IF x < n THEN Single(x)
                           ELSE IF x % 2 = 0 THEN {2, 3} ELSE Words \ {2, 3})}
MCLines == UNION {Uncompressed(n) : n \in 0 .. BITS_PER_WORD}

\* The generator of the code over one period and a bit, 256 KiB of lines; the
\* blocks watched are the two ends of the store and two in between.
LFSR == INSTANCE SampleLFSR
            WITH Seed <- 44257, Taps <- 46080, NumBlocks <- 4096,
                 Watched <- {0, 1, 2047, 4095}, MaxDraws <- 65600

\* The caches of the scripts, all of 256 KiB: in 16 ways under the seed 42 and the
\* default one, and in 4 ways; and smaller ones, of which the smallest, under
\* these and other seeds, have all the lines of 64 KiB listed.  Addresses are
\* physical and have 32 bits.
Default == 305419896        \* 0x12345678
Caches  == {[h3Seed |-> 42, assoc |-> 16, logNumSets |-> 8],
            [h3Seed |-> Default, assoc |-> 16, logNumSets |-> 8],
            [h3Seed |-> Default, assoc |-> 4, logNumSets |-> 10],
            [h3Seed |-> Default, assoc |-> 4, logNumSets |-> 8]}
           \cup {[h3Seed |-> s, assoc |-> 4, logNumSets |-> 2] : s \in {Default, 42} \cup 2 .. 12}
H3 == INSTANCE H3Hash WITH b <- mask, LineBits <- 0 .. 25, FewBits <- 0 .. 9

(***************************************************************************)
(* The choice.                                                             *)
(***************************************************************************)
Idle(u) ==
    CASE u = "compressor" -> /\ line = [w \in Words |-> {}] /\ caller = "glue"
                             /\ maxCompressionRatio = 0
      [] u = "indexing"   -> cache = [h3Seed |-> Default, assoc |-> 4, logNumSets |-> 8]
      [] OTHER            -> TRUE

UInit == /\ unit \in {"compressor", "reservoir", "generator", "indexing"}
         /\ Init /\ RInit /\ LFSR!Init /\ H3!Init
         /\ \A u \in {"compressor", "indexing"} \ {unit} : Idle(u)

UNext == \/ /\ unit = "compressor" /\ Next
            /\ UNCHANGED <<unit, rvars, generator, indexing>>
         \/ /\ unit = "reservoir" /\ RNext
            /\ UNCHANGED <<unit, vars, generator, indexing>>
         \/ /\ unit = "generator" /\ LFSR!Next
            /\ UNCHANGED <<unit, vars, rvars, indexing>>
         \/ /\ unit = "indexing" /\ H3!Next
            /\ UNCHANGED <<unit, vars, rvars, generator>>

USpec == UInit /\ [][UNext]_uvars
-----------------------------------------------------------------------------
\* lfsrNext() runs through all its states, and so every block is sampled.
FullPeriod == LFSR!FullPeriod

\* The hash functions that the constructor draws are independent of each other.
WaysAreIndependent == H3!WaysAreIndependent
=============================================================================
