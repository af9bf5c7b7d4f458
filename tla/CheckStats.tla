----------------------------- MODULE CheckStats -----------------------------
(***************************************************************************)
(* check_stats.py, main(): the scenarios asked for are checked one after   *)
(* the other; a missing file is skipped, any exception fails the scenario  *)
(* and not the program; the exit code sums up.  The files are whatever the *)
(* simulations left: nothing, one dump, several, or a damaged one.         *)
(***************************************************************************)
EXTENDS StatChecks, FiniteSets

CONSTANTS
    NoFile,     \* stats.txt does not exist
    Files       \* Files[s]: the contents that the file of scenario s may have

VARIABLES
    files,      \* the stats.txt of every scenario
    toCheck,    \* the scenarios still to be checked, in order
    passed, failed, skipped,
    exit        \* the exit code, or -1 while the program runs

cvars == <<files, toCheck, passed, failed, skipped, exit>>

Requests == {<<"A", "B", "C">>} \cup {<<s>> : s \in Scenario}

Left(s)  == Files[s] \cup {NoFile}

Init ==
    /\ \E a \in Left("A"), b \in Left("B"), c \in Left("C") :
          files = [A |-> a, B |-> b, C |-> c]
    /\ toCheck \in Requests
    /\ passed = {} /\ failed = {} /\ skipped = {} /\ exit = -1

Current == Head(toCheck)

SkipMissing ==
    /\ toCheck # <<>> /\ files[Current] = NoFile
    /\ skipped' = skipped \cup {Current}
    /\ toCheck' = Tail(toCheck)
    /\ UNCHANGED <<files, passed, failed, exit>>

\* The try block: an assertion, a missing statistic or an unreadable one.
Holds(s, st) == Readable(s, st) /\ Failures(s, st) = {}

CheckScenario ==
    /\ toCheck # <<>> /\ files[Current] # NoFile
    /\ IF Holds(Current, parse_stats(files[Current]))
       THEN passed' = passed \cup {Current} /\ UNCHANGED failed
       ELSE failed' = failed \cup {Current} /\ UNCHANGED passed
    /\ toCheck' = Tail(toCheck)
    /\ UNCHANGED <<files, skipped, exit>>

Finish ==
    /\ toCheck = <<>> /\ exit = -1
    /\ exit' = IF failed # {} THEN 1 ELSE 0
    /\ UNCHANGED <<files, toCheck, passed, failed, skipped>>

Next == SkipMissing \/ CheckScenario \/ Finish
Spec == Init /\ [][Next]_cvars
-----------------------------------------------------------------------------
\* What the file finally says of a key: the value on its last line.
Mentions(file, k) == {n \in DOMAIN file : file[n] # Noise /\ file[n].key = k}
FinalValue(file, k) ==
    LET last == CHOOSE n \in Mentions(file, k) : \A m \in Mentions(file, k) : m <= n
    IN file[last].value

\* A file is good when its final values exist, are numbers and satisfy the
\* assertions of the scenario.
Good(s, file) ==
    /\ \A k \in KeysOf(s) : Mentions(file, k) # {}
    /\ \A k \in KeysOf(s) \ {"resHitRate"} : ~isnan(FinalValue(file, k))
    /\ Failures(s, [k \in KeysOf(s) |-> FinalValue(file, k)]) = {}

\* An exception in one scenario loses neither it nor the scenarios after it:
\* at the end each one asked for is in exactly one of the three lists.
EveryScenarioIsReported ==
    /\ Cardinality(passed) + Cardinality(failed) + Cardinality(skipped)
         = Cardinality(passed \cup failed \cup skipped)
    /\ passed \cup failed \cup skipped \in {Range(r) : r \in Requests}
    /\ skipped = {s \in passed \cup failed \cup skipped : files[s] = NoFile}

\* "Exit code: 0 = all checked scenarios passed, 1 = any failure"
\* (check_stats.py:12), where passing is a matter of the final dump alone,
\* complete and undamaged: neither an earlier dump nor a missing or
\* non-numeric statistic makes a scenario pass, or a good one fail; and no
\* scenario is lost to an exception in another.
ExitCodeIsTheVerdict ==
    exit # -1 =>
        /\ exit = 0 <=> \A s \in passed \cup failed : Good(s, files[s])
        /\ EveryScenarioIsReported
=============================================================================
