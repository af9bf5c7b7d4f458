--------------------------- MODULE BenchmarkSweep ---------------------------
(***************************************************************************)
(* run_bpc_parsec_sweep.sh: two groups of benchmarks, one after the other; *)
(* within a group one run at a time, in this shell, or up to JOBS at once  *)
(* through xargs, each in a shell of its own.  The shell runs under        *)
(* set -e, which its children do not inherit; a run_one that fails to make *)
(* its directory ends the shell, or is reported as failed, accordingly.    *)
(*                                                                         *)
(* A run of gem5 is a BenchmarkJob, which ParsecRun implements.            *)
(***************************************************************************)
EXTENDS Integers, Sequences, SequencesExt, FiniteSets

CONSTANTS
    PRIORITY, REST,     \* the two groups, in order
    benchmark_choices,  \* the benchmarks that the script's --benchmark accepts
    Jobs                \* the values that the shell may be given for JOBS

VARIABLES
    JOBS,       \* 1 by default
    group,      \* 1 priority, 2 rest, 3 "=== all done ===", 0 set -e ended the shell
    queue,      \* the benchmarks of the group that have not been started
    status,     \* of each benchmark, as in BenchmarkJob
    measured,   \* each benchmark's statistics have been written
    reported    \* the lines "done" and "FAIL", in order

svars == <<JOBS, group, queue, status, measured, reported>>

Benchmarks == Range(PRIORITY) \cup Range(REST)
Groups     == <<PRIORITY, REST>>
Running    == {b \in Benchmarks : status[b] = "running"}

Init ==
    /\ JOBS \in Jobs
    /\ group = 1 /\ queue = PRIORITY
    /\ status = [b \in Benchmarks |-> "waiting"]
    /\ measured = [b \in Benchmarks |-> FALSE]
    /\ reported = <<>>

\* xargs starts the next run when fewer than JOBS are running.
CanStart == group \in {1, 2} /\ queue # <<>> /\ Cardinality(Running) < JOBS

Report(b) == reported' = Append(reported, b)

\* An unknown benchmark is refused by the script's argument parser.
Start ==
    /\ CanStart
    /\ LET b == Head(queue)
       IN IF b \in benchmark_choices
          THEN status' = [status EXCEPT ![b] = "running"] /\ UNCHANGED reported
          ELSE status' = [status EXCEPT ![b] = "failed"] /\ Report(b)
    /\ queue' = Tail(queue)
    /\ UNCHANGED <<JOBS, group, measured>>

\* mkdir -p fails: set -e ends this shell; a child goes on, cannot open its
\* log, and reports the failure.
MkdirFails ==
    /\ CanStart
    /\ LET b == Head(queue)
       IN IF JOBS = 1
          THEN group' = 0 /\ UNCHANGED <<status, reported>>
          ELSE status' = [status EXCEPT ![b] = "failed"] /\ Report(b) /\ UNCHANGED group
    /\ queue' = Tail(queue)
    /\ UNCHANGED <<JOBS, measured>>

Measure(b) ==
    /\ status[b] = "running" /\ ~measured[b]
    /\ measured' = [measured EXCEPT ![b] = TRUE]
    /\ UNCHANGED <<JOBS, group, queue, status, reported>>

GemDone(b) ==
    /\ status[b] = "running" /\ measured[b]
    /\ status' = [status EXCEPT ![b] = "done"] /\ Report(b)
    /\ UNCHANGED <<JOBS, group, queue, measured>>

GemFails(b) ==
    /\ status[b] = "running"
    /\ status' = [status EXCEPT ![b] = "failed"] /\ Report(b)
    /\ UNCHANGED <<JOBS, group, queue, measured>>

GroupEnds_NoWait ==                         \* mutant: xargs in the background
    /\ group \in {1, 2} /\ queue = <<>>
    /\ group' = group + 1
    /\ queue' = IF group = 1 THEN REST ELSE <<>>
    /\ UNCHANGED <<JOBS, status, measured, reported>>
GroupEnds ==
    /\ group \in {1, 2} /\ queue = <<>> /\ Running = {}
    /\ group' = group + 1
    /\ queue' = IF group = 1 THEN REST ELSE <<>>
    /\ UNCHANGED <<JOBS, status, measured, reported>>

RunEnds(b) == GemDone(b) \/ GemFails(b)

Next ==
    \/ Start \/ MkdirFails \/ GroupEnds
    \/ \E b \in Benchmarks : Measure(b) \/ RunEnds(b)

Spec     == Init /\ [][Next]_svars
\* The shell goes on when it can, and the runs end, as those of ParsecRun.
Progress == Start \/ MkdirFails \/ GroupEnds \/ \E b \in Benchmarks : RunEnds(b)
FairSpec == Spec /\ WF_svars(Progress)
-----------------------------------------------------------------------------
\* "Priority group runs first; remaining benchmarks run after"
\* (run_bpc_parsec_sweep.sh:3): no run of the second group overlaps the first.
PriorityRunsFirst ==
    (\E b \in Range(REST) : status[b] # "waiting")
        => \A b \in Range(PRIORITY) : status[b] \in {"done", "failed"}

\* "=== all done ===" says that every benchmark the script accepts has been
\* run and reported once, and that nothing is running; the lines "done" are
\* of measured runs.  Until then the groups keep apart and at most JOBS run.
AllDoneIsComplete ==
    /\ PriorityRunsFirst /\ Cardinality(Running) <= JOBS
    /\ group = 3 =>
          /\ Running = {} /\ Range(reported) = benchmark_choices
          /\ Len(reported) = Cardinality(benchmark_choices)
          /\ \A b \in benchmark_choices : status[b] = "done" => measured[b]

\* One failing benchmark does not keep the others from being run: the sweep
\* gets to its end, or, one run at a time, to a directory it cannot make.
SweepEnded == group = 3 \/ (JOBS = 1 /\ group = 0)
=============================================================================
