-------------------------- MODULE FunctionalVerify --------------------------
(***************************************************************************)
(* functional_verify.py: the traffic of the three verification scenarios,  *)
(* and the statistics it leaves for check_stats.py.  Two linear sweeps of  *)
(* reads over zero-filled memory, each in a phase of its own, through a    *)
(* cache with MSHRs into the glue (glue/zcache_glue.cc).                   *)
(*                                                                         *)
(* The cache is the set of the lines it holds and the pool a number of     *)
(* slots of 16 bytes: a zero line compresses to 32 planes of 3 bits, which *)
(* are padded to 16 bytes.  Which line a fill evicts, which blocks are     *)
(* sampled and which samples have gone stale is left open.                 *)
(***************************************************************************)
EXTENDS StatChecks, FiniteSets

CONSTANTS
    ASSOC,      \* ways of the cache, 4 in the code
    MSHRs,      \* misses that may be outstanding, 16 in the code
    BinSlots    \* samples that a reservoir bin holds, 4 in the code

KiB(n) == (n * 1024) \div Scale

\* period and sim_ticks in ticks; the sizes are divided by Scale.
SCENARIOS ==
    [A |-> [pool |-> KiB(256), sweep |-> KiB(320), cache |-> KiB(256),
            period |-> 100,   sim_ticks |-> 50000000],
     B |-> [pool |-> KiB(16),  sweep |-> KiB(320), cache |-> KiB(256),
            period |-> 100,   sim_ticks |-> 50000000],
     C |-> [pool |-> KiB(256), sweep |-> KiB(640), cache |-> KiB(256),
            period |-> 15000, sim_ticks |-> 200000000]]

LineBytes   == 64
SlotBytes   == 16
MissLatency == 12000    \* "~12000 ticks" (functional_verify.py:73)

Lines(s)      == 0 .. (SCENARIOS[s].sweep \div LineBytes) - 1
CacheLines(s) == SCENARIOS[s].cache \div LineBytes
PoolSlots(s)  == SCENARIOS[s].pool \div SlotBytes

\* A period longer than the latency of a miss serialises the misses.
Outstanding(s) == IF SCENARIOS[s].period > MissLatency THEN 1 ELSE MSHRs

\* A phase lasts long enough for its sweep to be served to the end.
ASSUME PhaseAssumption ==
    \A s \in Scenario :
        LET perAccess == IF SCENARIOS[s].period > MissLatency
                         THEN SCENARIOS[s].period ELSE MissLatency \div MSHRs + 1
        IN Cardinality(Lines(s)) * perAccess + MissLatency < SCENARIOS[s].sim_ticks

VARIABLES
    scenario,
    phase,      \* 1 warm-up, 2 measurement, 3 the exit generator has run
    next,       \* the line that the generator asks for next
    mshr,       \* the lines being fetched
    cached,     \* the lines in the cache
    copies,     \* those of them whose tag entry records a pool slot
    used,       \* the pool slots given out
    entries,    \* the samples in the reservoir bin of 16-byte blocks
    st          \* the counters behind stats.txt

fvars == <<scenario, phase, next, mshr, cached, copies, used, entries, st>>

Init ==
    /\ scenario \in Scenario
    /\ phase = 1 /\ next = 0
    /\ mshr = {} /\ cached = {} /\ copies = {} /\ used = 0 /\ entries = 0
    /\ st = [hits |-> 0, misses |-> 0, fills |-> 0, padded |-> 0, raw |-> 0,
             fragEvictions |-> 0, resRequests |-> 0, resHits |-> 0]

Sweeping == phase < 3 /\ next \in Lines(scenario)

Hit ==
    /\ Sweeping /\ next \in cached
    /\ st' = [st EXCEPT !.hits = @ + 1]
    /\ next' = next + 1
    /\ UNCHANGED <<scenario, phase, mshr, cached, copies, used, entries>>

\* The cache blocks the generator while all MSHRs are taken.
Miss ==
    /\ Sweeping /\ next \notin cached
    /\ Cardinality(mshr) < Outstanding(scenario)
    /\ mshr' = mshr \cup {next}
    /\ st' = [st EXCEPT !.misses = @ + 1]
    /\ next' = next + 1
    /\ UNCHANGED <<scenario, phase, cached, copies, used, entries>>

NextPhase_NoExit ==                         \* mutant: exit_gen not in the list
    /\ phase < 2 /\ ~Sweeping /\ mshr = {}
    /\ phase' = phase + 1 /\ next' = 0
    /\ UNCHANGED <<scenario, mshr, cached, copies, used, entries, st>>
\* A phase goes on after its sweep until its time is over.
NextPhase ==
    /\ phase < 3 /\ ~Sweeping /\ mshr = {}
    /\ phase' = phase + 1 /\ next' = 0
    /\ UNCHANGED <<scenario, mshr, cached, copies, used, entries, st>>

\* processSampleEvent(): a block with a copy, over an older sample if need be.
Sample ==
    /\ phase < 3 /\ copies # {} /\ entries < BinSlots
    /\ entries' = entries + 1
    /\ UNCHANGED <<scenario, phase, next, mshr, cached, copies, used, st>>

(***************************************************************************)
(* The tags make room: a line is evicted when the cache is full, or when   *)
(* none of the blocks that the walk reaches is free, which are at least as *)
(* many as there are ways; and its pool slot is freed.                     *)
(***************************************************************************)
Room(s, held) == (IF Cardinality(held) < CacheLines(s) THEN {{}} ELSE {})
                 \cup (IF Cardinality(held) >= ASSOC THEN {{v} : v \in held} ELSE {})

Freed(evicted)      == Cardinality(evicted \cap copies)

(***************************************************************************)
(* handleFill(): the statistics are counted before the allocation; if it   *)
(* fails, samples are consumed until a valid victim makes room for the     *)
(* line or none is left, and then the line has no copy.                    *)
(***************************************************************************)
CountFill == [st EXCEPT !.fills = @ + 1, !.padded = @ + SlotBytes, !.raw = @ + SlotBytes]

CountLookups_StaleIsHit(counted, stale, found) ==   \* mutant: before the guard
    [counted EXCEPT !.resRequests = @ + stale + 1,
                    !.resHits = @ + stale + found, !.fragEvictions = @ + found]
CountLookups(counted, stale, found) ==
    [counted EXCEPT !.resRequests = @ + stale + 1,
                    !.resHits = @ + found, !.fragEvictions = @ + found]

Allocates(l, evicted, kept, inUse) ==
    /\ inUse < PoolSlots(scenario)
    /\ cached' = (cached \ evicted) \cup {l}
    /\ copies' = kept \cup {l} /\ used' = inUse + 1
    /\ st' = CountFill
    /\ UNCHANGED entries

EvictsForSpace(l, evicted, kept, inUse) ==
    /\ inUse = PoolSlots(scenario)
    /\ \E victim \in kept, stale \in 0 .. entries - 1 :
          /\ cached' = (cached \ (evicted \cup {victim})) \cup {l}
          /\ copies' = (kept \ {victim}) \cup {l} /\ used' = inUse
          /\ entries' = entries - stale - 1
          /\ st' = CountLookups(CountFill, stale, 1)

GivesUp(l, evicted, kept, inUse) ==
    /\ inUse = PoolSlots(scenario)
    /\ cached' = (cached \ evicted) \cup {l}
    /\ copies' = kept /\ used' = inUse
    /\ entries' = 0
    /\ st' = CountLookups(CountFill, entries, 0)

insertBlock(l) ==
    \E evicted \in Room(scenario, cached) :
        LET kept  == copies \ evicted
            inUse == used - Freed(evicted)
        IN \/ Allocates(l, evicted, kept, inUse)
           \/ EvictsForSpace(l, evicted, kept, inUse)
           \/ GivesUp(l, evicted, kept, inUse)

Fill(l) ==
    /\ l \in mshr /\ insertBlock(l)
    /\ mshr' = mshr \ {l}
    /\ UNCHANGED <<scenario, phase, next>>

Progress == Hit \/ Miss \/ NextPhase \/ \E l \in mshr : Fill(l)
Next     == Progress \/ Sample
Spec     == Init /\ [][Next]_fvars

\* The simulator serves its events in order of time, and the events of the
\* traffic and the memory are always scheduled.
FairSpec == Spec /\ WF_fvars(Progress)
-----------------------------------------------------------------------------
\* The counters tell one story while the run goes on, whatever the pool does: a
\* miss is a fill or still outstanding, a slot given out is that of a line, what
\* is evicted for space is what the reservoir found, a line without a copy
\* is a lookup that found nothing, and no fill evicts more than one block.
CountersAgree ==
    /\ st.misses = st.fills + Cardinality(mshr)
    /\ used = Cardinality(copies) /\ st.resHits = st.fragEvictions
    /\ st.fragEvictions <= st.fills
    /\ cached # copies => st.resRequests > st.resHits

\* The statistics that the simulator prints when the run has ended; the
\* relocations and the depth of the walks are not modelled.
Final == [hits |-> st.hits, misses |-> st.misses, fills |-> st.fills,
          padded |-> st.padded, raw |-> st.raw, fragEvictions |-> st.fragEvictions,
          resRequests |-> st.resRequests, resHits |-> st.resHits,
          resHitRate  |-> Ratio(st.resHits, st.resRequests),
          avgFrag     |-> Ratio(st.padded - st.raw, st.padded),
          relocations |-> NaN, walkDepth |-> NaN]

\* What check_stats.py pins to one run of one configuration: the reference
\* numbers, and that the mechanism under test was active at all.
Activity == {"requests", "evictions", "hits", "hitRate"}
Pinned   == {"reference", "relocations", "walkDepth"} \cup Activity

\* "Assert expected CDZCache stats" (check_stats.py:277): whatever is evicted,
\* sampled or found stale, no other assertion of any scenario can fail, and in
\* scenario B the three about evictions fail together or not at all, and always
\* if nothing was asked of the reservoir.
OnlyPinnedChecksFail ==
    /\ CountersAgree
    /\ phase = 3 =>
          /\ Failures(scenario, Final) \subseteq Pinned
          /\ scenario = "B" => Failures("B", Final) \cap Activity
                                   \in {{}, Activity \ {"requests"}, Activity}
=============================================================================
