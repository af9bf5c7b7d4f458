----------------------------- MODULE StatChecks -----------------------------
(***************************************************************************)
(* The statistics of a verification run and what check_stats.py expects of *)
(* them: the parser of stats.txt and the assertions of the three           *)
(* scenarios, each under the name by which the properties refer to it.     *)
(*                                                                         *)
(* A statistic is a counter (an integer), an average or rate (a fraction   *)
(* <<numerator, denominator>>), or NaN, which is what 0/0 prints and what  *)
(* the parser makes of text that is not a number.                          *)
(***************************************************************************)
EXTENDS Integers, Sequences, SequencesExt

CONSTANTS
    NaN,            \* float("nan")
    Scale,          \* every size is divided by Scale, which is 1 in the code
    RefHits,        \* hits of the reference run of scenario A, 467 in the code
    RefRelocations  \* relocations of that run, 4853 in the code

\* The sizes are whole numbers of KiB, and stay whole.
ASSUME ScaleAssumption == Scale \in Nat \ {0} /\ 1024 % Scale = 0
ASSUME NaNAssumption   == NaN \notin Int /\ NaN \notin Int \X Int

Scenario == {"A", "B", "C"}

Accesses(s) == (IF s = "C" THEN 20480 ELSE 10240) \div Scale

\* The statistics read through int(), which raises on NaN, and the others.
IntKeys(s)   == {"hits", "misses", "fills", "padded", "raw", "fragEvictions", "resRequests"}
                \cup (IF s = "C" THEN {} ELSE {"resHits"})
FloatKeys    == {"resHitRate", "avgFrag", "relocations", "walkDepth"}
KeysOf(s)    == IntKeys(s) \cup FloatKeys

Ratio(n, d)  == IF d = 0 THEN NaN ELSE <<n, d>>
isnan(v)     == v = NaN

(***************************************************************************)
(* stats.txt is a sequence of lines: noise (empty, a comment, a separator  *)
(* or a single word), or a key with a value.  gem5 appends a block of      *)
(* lines at every dump, so a key may occur several times.                  *)
(***************************************************************************)
Noise         == [key |-> "", value |-> 0]
Entry(k, v)   == [key |-> k, value |-> v]

\* stats[key] = value
set(stats, k, v)        == [x \in DOMAIN stats \cup {k} |-> IF x = k THEN v ELSE stats[x]]
setdefault(stats, k, v) == [x \in DOMAIN stats \cup {k} |-> IF x \in DOMAIN stats
                                                           THEN stats[x] ELSE v]

parse_stats_FirstWins(file) ==              \* mutant: setdefault() for stats[key] =
    FoldLeft(LAMBDA stats, line : IF line = Noise THEN stats
                                  ELSE setdefault(stats, line.key, line.value),
             <<>>, file)
parse_stats(file) ==
    FoldLeft(LAMBDA stats, line : IF line = Noise THEN stats
                                  ELSE set(stats, line.key, line.value),
             <<>>, file)

(***************************************************************************)
(* The assertions of each scenario, in groups.                             *)
(***************************************************************************)
CommonChecks(s, st) ==
    [accesses    |-> st.hits + st.misses = Accesses(s),
     granularity |-> st.padded % 8 = 0,
     rawIsPadded |-> st.raw = st.padded,
     avgFrag     |-> ~isnan(st.avgFrag) /\ st.avgFrag[1] = 0,
     walkDepth   |-> ~isnan(st.walkDepth) /\ st.walkDepth[1] >= st.walkDepth[2]]

\* Scenarios A and C: the pool is as large as the cache and never exhausted.
AmplePoolChecks(st) ==
    [fills       |-> st.fills = st.misses,
     padded      |-> st.padded = st.misses * 16,
     noEvictions |-> st.fragEvictions = 0,
     noRequests  |-> st.resRequests = 0,
     noHitRate   |-> isnan(st.resHitRate)]

check_scenario_A(st) ==
    {CommonChecks("A", st), AmplePoolChecks(st),
     [reference   |-> st.hits = RefHits /\ st.misses = Accesses("A") - RefHits,
      noHits      |-> st.resHits = 0,
      relocations |-> ~isnan(st.relocations) /\ st.relocations > 0]}

check_scenario_B(st) ==
    {CommonChecks("B", st),
     [filled      |-> st.fills > 0,
      evictions   |-> st.fragEvictions > 0,
      requests    |-> st.resRequests > 0,
      hits        |-> st.resHits > 0,
      hitRate     |-> /\ ~isnan(st.resHitRate)
                      /\ 0 < st.resHitRate[1] /\ st.resHitRate[1] <= st.resHitRate[2],
      oneEach     |-> st.fills >= st.fragEvictions,
      relocations |-> ~isnan(st.relocations) /\ st.relocations > 0]}

check_scenario_C(st) ==
    {CommonChecks("C", st), AmplePoolChecks(st),
     [dominate    |-> st.misses > st.hits,
      relocations |-> ~isnan(st.relocations) /\ st.relocations > RefRelocations]}

CHECKERS(s, st) ==
    CASE s = "A" -> check_scenario_A(st)
      [] s = "B" -> check_scenario_B(st)
      [] OTHER   -> check_scenario_C(st)

\* The assertions that do not hold of complete statistics.
Failing(checks)  == {c \in DOMAIN checks : ~checks[c]}
Failures(s, st)  == UNION {Failing(checks) : checks \in CHECKERS(s, st)}

\* get() raises when a statistic is missing, int() when it is NaN.
Readable(s, st) == KeysOf(s) \subseteq DOMAIN st /\ \A k \in IntKeys(s) : ~isnan(st[k])
=============================================================================
