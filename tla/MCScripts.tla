------------------------------ MODULE MCScripts ------------------------------
(***************************************************************************)
(* The scripts of the repository: one is chosen at the start and runs, and *)
(* the variables of the others stay as they are.                           *)
(***************************************************************************)
EXTENDS Simulations

VARIABLES
    program,                                                        \* the one chosen
    statements, objects, resolved, outcome                          \* Elaboration

builds  == <<statements, objects, resolved, outcome>>
scripts == <<program, fvars, reports, runs, sweeps, builds>>

(***************************************************************************)
(* Files for check_stats.py: the statistics of a run that passes, with the *)
(* numbers of the code.                                                    *)
(***************************************************************************)
Clean(hits, misses, moves) ==
    [hits |-> hits, misses |-> misses, fills |-> misses,
     padded |-> misses * 16, raw |-> misses * 16,
     fragEvictions |-> 0, resRequests |-> 0, resHits |-> 0,
     resHitRate |-> Ratio(0, 0), avgFrag |-> Ratio(0, misses * 16),
     relocations |-> moves, walkDepth |-> Ratio(3, 2)]

Passing ==
    [A |-> Clean(467, 9773, 4853),
     B |-> [Clean(400, 9840, 4000) EXCEPT !.fragEvictions = 5000, !.resRequests = 6000,
                                          !.resHits = 5000, !.resHitRate = Ratio(5000, 6000)],
     C |-> Clean(2000, 18480, 9000)]

Order == <<"hits", "misses", "fills", "padded", "raw", "fragEvictions", "resRequests",
           "resHits", "resHitRate", "avgFrag", "relocations", "walkDepth">>
Dump(s) == LET keys == SelectSeq(Order, LAMBDA k : k \in DOMAIN s)
           IN <<Noise>> \o [n \in DOMAIN keys |-> Entry(keys[n], s[keys[n]])] \o <<Noise>>

\* One dump, good or with one statistic off, missing or not a number; or two
\* dumps, the damaged one before or after the good one.
IsRatio(k)     == k \in {"resHitRate", "avgFrag", "walkDepth"}
OffByOne(s, k) == [s EXCEPT ![k] = IF isnan(@) THEN <<0, 1>>
                                   ELSE IF IsRatio(k) THEN <<@[1] + 2 * @[2], @[2]>>
                                   ELSE @ + 1]
Without(s, k)  == [j \in DOMAIN s \ {k} |-> s[j]]
Garbled(s, k)  == [s EXCEPT ![k] = NaN]
Damaged(s, ks) == UNION {{OffByOne(s, k), Without(s, k), Garbled(s, k)} : k \in ks}
Single(s)      == {Dump(v) : v \in {Passing[s]} \cup Damaged(Passing[s], DOMAIN Passing[s])}
Twice(s, ks)   == {Dump(v) \o Dump(Passing[s]) : v \in {Passing[s]} \cup Damaged(Passing[s], ks)}
                  \cup {Dump(Passing[s]) \o Dump(v) : v \in Damaged(Passing[s], ks)}

MCFiles == [A |-> {<<>>} \cup Single("A") \cup Twice("A", {"hits", "resHitRate"}),
            B |-> {<<>>} \cup Single("B"),
            C |-> {Dump(Passing.C), Dump(OffByOne(Passing.C, "fills"))}]

(***************************************************************************)
(* The others: every script and host, every variant that can be built, and *)
(* a benchmark that announces up to two regions of interest; the first and *)
(* the last names of the sweep's groups, one run at a time and two.        *)
(***************************************************************************)
Build == INSTANCE Elaboration
             WITH script <- statements, Variants <- {"lru", "bpc", "zcache"}, Ratios <- {1, 2, 4}

MCPriority == <<"blackscholes", "swaptions", "freqmine">>
MCRest     == <<"bodytrack", "canneal", "x264">>
MCChoices  == Range(MCPriority) \cup Range(MCRest)

\* Of the programs that do not run, the variables have some initial values.
Idle == /\ IF program = "verify" THEN TRUE ELSE scenario = "A"
        /\ IF program = "check"  THEN TRUE
           ELSE files = [s \in Scenario |-> NoFile] /\ toCheck = <<"A">>
        /\ IF program = "run"    THEN TRUE
           ELSE script = Sim!Script(Sim!sanity_machine, Sim!sanity_command, Sim!NoHandlers,
                                    Sim!sanity_main) /\ host = {}
        /\ IF program = "build"  THEN TRUE ELSE statements = Build!bpc_sanity
        /\ IF program = "sweep"  THEN TRUE ELSE JOBS = 1

SInit == /\ program \in {"verify", "check", "run", "build", "sweep"}
         /\ Idle
         /\ Init /\ Check!Init /\ Sim!Init /\ Sweep!Init /\ Build!Init

Verifies == program = "verify" /\ UNCHANGED <<program, reports, runs, sweeps, builds>>
Checks   == program = "check"  /\ UNCHANGED <<program, fvars, runs, sweeps, builds>>
Runs     == program = "run"    /\ UNCHANGED <<program, fvars, reports, sweeps, builds>>
Sweeps   == program = "sweep"  /\ UNCHANGED <<program, fvars, reports, runs, builds>>
Builds   == program = "build"  /\ UNCHANGED <<program, fvars, reports, runs, sweeps>>

SProgress == \/ Verifies /\ Progress
             \/ Runs     /\ Sim!Next
             \/ Sweeps   /\ Sweep!Progress
             \/ Builds   /\ Build!Next

\* Events that are no steps of the program: a sample of the reservoir, and the
\* statistics of a benchmark in the sweep.
SEvents == \/ Verifies /\ Sample
           \/ Sweeps /\ \E b \in benchmark_choices : Sweep!Measure(b)

SNext == SProgress \/ SEvents \/ (Checks /\ Check!Next)

\* Neither the programs nor the simulator stop by themselves.  (check_stats.py is
\* one loop over its arguments, and left out of this.)
SSpec == SInit /\ [][SNext]_scripts /\ WF_scripts(SProgress)
-----------------------------------------------------------------------------
\* The names, required parameters and proxies of every script resolve, but for
\* cdzcache_parsec.py --variant cdzcache, which ElaborationCDZCache runs by itself.
EveryScriptBuilds == Build!EveryScriptBuilds

\* What the scripts declare in two places agrees.
ParametersAgree == Build!ParametersAgree

\* Every program that simulates ends: the generator is never blocked for good,
\* and no failing guest or run keeps the rest from being worked off.
Ended == CASE program = "verify" -> phase = 3
           [] program = "check"  -> TRUE
           [] program = "run"    -> exit # Sim!None
           [] program = "sweep"  -> Sweep!SweepEnded
           [] program = "build"  -> outcome # "building"
EveryProgramEnds == <>Ended
=============================================================================
