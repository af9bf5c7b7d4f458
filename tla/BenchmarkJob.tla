---------------------------- MODULE BenchmarkJob ----------------------------
(***************************************************************************)
(* What one run of a benchmark promises to whoever started it: once it has *)
(* started it ends, and it says that it is done only when it has left the  *)
(* statistics of the region of interest.                                   *)
(***************************************************************************)
VARIABLES
    status,     \* "waiting", "running", "done" or "failed"
    measured    \* the statistics of the region of interest have been written

jvars == <<status, measured>>

Init == status = "waiting" /\ measured = FALSE

Begin   == status = "waiting" /\ status' = "running" /\ UNCHANGED measured
Measure == status = "running" /\ measured' = TRUE /\ UNCHANGED status
Done    == status = "running" /\ measured /\ status' = "done" /\ UNCHANGED measured
Refuse  == status = "waiting" /\ status' = "failed" /\ UNCHANGED measured
Fail    == status = "running" /\ status' = "failed" /\ UNCHANGED measured

Next == Begin \/ Refuse \/ Measure \/ Done \/ Fail

Spec     == Init /\ [][Next]_jvars
FairSpec == Spec /\ WF_jvars(Done \/ Fail)
=============================================================================
