----------------------------- MODULE Simulations -----------------------------
(***************************************************************************)
(* The scripts that simulate: functional_verify.py, the full-system        *)
(* scripts, and the sweep, whose runs of gem5 are full-system scripts; and *)
(* check_stats.py, which judges what the first has left.  Each has its own *)
(* variables, and MCScripts chooses the one that runs.                     *)
(***************************************************************************)
EXTENDS FunctionalVerify, SequencesExt

CONSTANTS
    MaxRegions,                                                 \* ParsecRun
    PRIORITY, REST, benchmark_choices, Jobs,                    \* BenchmarkSweep
    NoFile, Files                                               \* CheckStats

VARIABLES
    script, host, line, simulating, guest, machine, advanced,
    events, dumps, saved, exit,                                 \* ParsecRun
    JOBS, group, queue, status, measured, reported,             \* BenchmarkSweep
    files, toCheck, passed, failed, skipped, verdict            \* CheckStats

runs    == <<script, host, line, simulating, guest, machine, advanced, events, dumps,
             saved, exit>>
sweeps  == <<JOBS, group, queue, status, measured, reported>>
reports == <<files, toCheck, passed, failed, skipped, verdict>>

Sim   == INSTANCE ParsecRun
Sweep == INSTANCE BenchmarkSweep
Check == INSTANCE CheckStats WITH exit <- verdict, Scale <- 1   \* as in the code

\* The groups name every benchmark that the script accepts, and name it once.
ASSUME SweepAssumption ==
    /\ PRIORITY \in Seq(benchmark_choices) /\ IsInjective(PRIORITY)
    /\ REST \in Seq(benchmark_choices) /\ IsInjective(REST)
    /\ Range(PRIORITY) \cap Range(REST) = {}
    /\ benchmark_choices = Range(PRIORITY) \cup Range(REST)
    /\ Jobs \subseteq Nat \ {0}

\* A file is a sequence of lines, whatever the lines are.
ASSUME FilesAssumption ==
    \A s \in Scenario : \A file \in Files[s] : file \in Seq(Range(file))
-----------------------------------------------------------------------------
\* What a full-system script dumps is its region of interest and nothing else.
DumpCoversTheROI == Sim!DumpCoversTheROI

\* A full-system script is the job for which the sweep takes it.
ImplementsJob == Sim!ImplementsJob

\* "=== all done ===" is printed when everything has been run, in its order.
AllDoneIsComplete == Sweep!AllDoneIsComplete

\* check_stats.py: the exit code is the verdict on the final dumps.
ExitCodeIsTheVerdict == Check!ExitCodeIsTheVerdict
=============================================================================
