----------------------------- MODULE ParsecRun -----------------------------
(***************************************************************************)
(* The full-system scripts: x86-parsec-local.py, x86-parsec-zcache-only.py *)
(* and cdzcache_parsec.py, which measure a PARSEC benchmark, and           *)
(* x86_boot_checkpoint.py and run_bpc_sanity.py, which boot Linux and run  *)
(* a program.                                                              *)
(*                                                                         *)
(* A script is data: the machine it asks for, the commands of its guest,   *)
(* its handlers of exit events and its own statements.  What interprets    *)
(* them is gem5, which is not part of the repository: the simulator runs   *)
(* the guest up to an exit event, advances the generator of that event,    *)
(* and returns if the generator yields TRUE; every generator of the        *)
(* scripts yields once, after which gem5's default takes its place.  When  *)
(* a process that has simulated exits, gem5 dumps the statistics once more *)
(* (functional_verify.py has no other dump), unless it just did.           *)
(***************************************************************************)
EXTENDS Integers, Sequences, SequencesExt, FiniteSets

CONSTANT MaxRegions     \* regions of interest a benchmark may announce

None == "none"

(***************************************************************************)
(* x86-parsec-local.py                                                     *)
(***************************************************************************)
local_machine == [requires |-> {"kvm", "mesi"}, start |-> "KVM", switch |-> "TIMING",
                  panics |-> FALSE]
local_command == <<"cd", "source", "parsecmgmt", "sleep", "m5 exit">>

local_handlers_NoReset ==                   \* mutant: m5.stats.reset() forgotten
    [WORKBEGIN |-> [calls |-> <<"switch">>, yields |-> <<FALSE>>],
     WORKEND   |-> [calls |-> <<"dump">>,   yields |-> <<TRUE>>]]
local_handlers ==
    [WORKBEGIN |-> [calls |-> <<"reset", "switch">>, yields |-> <<FALSE>>],
     WORKEND   |-> [calls |-> <<"dump">>,            yields |-> <<TRUE>>]]

local_main == <<"reset", "run", "roi_ticks">>

(***************************************************************************)
(* x86-parsec-zcache-only.py                                               *)
(***************************************************************************)
zcache_only_machine == [requires |-> {"kvm"}, start |-> "KVM", switch |-> "TIMING",
                        panics |-> FALSE]
zcache_only_command == <<"cd", "source", "parsecmgmt", "sleep", "m5 exit">>
zcache_only_handlers ==
    [WORKBEGIN |-> [calls |-> <<"reset", "switch">>, yields |-> <<FALSE>>],
     WORKEND   |-> [calls |-> <<"dump">>,            yields |-> <<TRUE>>]]

zcache_only_main == <<"reset", "run", "roi_ticks">>

(***************************************************************************)
(* cdzcache_parsec.py: "--atomic-boot ... avoids KVM+CompressedTags panic  *)
(* for --variant bpc" (cdzcache_parsec.py:65-66).                          *)
(***************************************************************************)
cdzcache_machine(bpc, atomic_boot) ==
    [requires |-> IF atomic_boot THEN {} ELSE {"kvm"},
     start    |-> IF atomic_boot THEN "ATOMIC" ELSE "KVM",
     switch   |-> "TIMING",
     panics   |-> bpc /\ ~atomic_boot]
cdzcache_command == <<"cd", "source", "parsecmgmt", "sleep", "m5 exit">>

cdzcache_handlers ==
    [WORKBEGIN |-> [calls |-> <<"reset", "switch">>, yields |-> <<FALSE>>],
     WORKEND   |-> [calls |-> <<"dump">>,            yields |-> <<TRUE>>]]
cdzcache_main == <<"reset", "run", "roi_ticks">>

(***************************************************************************)
(* x86_boot_checkpoint.py and run_bpc_sanity.py: one kind of core, no      *)
(* handlers; the guest is the boot image, or the program hello.            *)
(***************************************************************************)
NoHandlers == [e \in {} |-> None]

boot_machine == [requires |-> {}, start |-> "ATOMIC", switch |-> "ATOMIC", panics |-> FALSE]
boot_command == <<"m5 exit">>
boot_main    == <<"makedirs", "run", "checkpoint">>

sanity_machine == [requires |-> {}, start |-> "TIMING", switch |-> "TIMING", panics |-> FALSE]
sanity_command == <<"hello", "m5 exit">>
sanity_main    == <<"run">>

Script(machine, command, handlers, main) ==
    [machine |-> machine, command |-> command, handlers |-> handlers, main |-> main]

Parsec ==
    {Script(local_machine, local_command, local_handlers, local_main),
     Script(zcache_only_machine, zcache_only_command, zcache_only_handlers,
            zcache_only_main)}
    \cup {Script(cdzcache_machine(bpc, atomic_boot), cdzcache_command, cdzcache_handlers,
                 cdzcache_main) : bpc, atomic_boot \in BOOLEAN}
Others ==
    {Script(boot_machine, boot_command, NoHandlers, boot_main),
     Script(sanity_machine, sanity_command, NoHandlers, sanity_main)}
-----------------------------------------------------------------------------
VARIABLES
    script,
    host,       \* what gem5 was built with and the host offers
    line,       \* the statement of the script that comes next
    simulating, \* run() has not returned
    guest,      \* the guest: [at |-> its next command, or 0 while it boots,
                \*   good |-> its commands succeeded so far, roi |-> in a region,
                \*   regions |-> the regions announced]
    machine,    \* [cpu, since |-> the region at whose start the statistics were
                \*   reset, 0 for none, ran |-> the cores that ran since,
                \*   dumped |-> nothing ran since the last dump]
    advanced,   \* how often the generator of each event was advanced
    events,     \* the exit events so far
    dumps,      \* the dumps of the statistics: what each covers, the regions that
                \*   were announced before it, and what it was made at
    saved,      \* the checkpoint: where the guest was, or -1
    exit        \* how the process ended: "ok", "error" or None

rvars == <<script, host, line, simulating, guest, machine, advanced, events, dumps,
           saved, exit>>

Init ==
    /\ script \in Parsec \cup Others
    /\ host \in SUBSET {"kvm", "mesi"}
    /\ line = 0 /\ simulating = FALSE
    /\ guest = [at |-> 0, good |-> TRUE, roi |-> FALSE, regions |-> 0]
    /\ machine = [cpu |-> script.machine.start, since |-> 0, ran |-> {}, dumped |-> FALSE]
    /\ advanced = [e \in {"WORKBEGIN", "WORKEND"} |-> 0]
    /\ events = <<>> /\ dumps = {} /\ saved = -1 /\ exit = None

(***************************************************************************)
(* The script.                                                             *)
(***************************************************************************)
\* The dump of machine m at an exit event, or at the exit of the process.
DumpOf(m, at) == [since |-> m.since, ran |-> m.ran, region |-> guest.regions, at |-> at]

\* The first run() has the process dump once more when it exits, by itself or by
\* an exception of Python; a second dump at the same time is suppressed.
AtExit == dumps' = IF machine.dumped THEN dumps ELSE dumps \cup {DumpOf(machine, "EXIT")}

Scripting(statement) ==
    /\ exit = None /\ ~simulating /\ line \in 1 .. Len(script.main)
    /\ script.main[line] = statement

\* requires(): the build and the host must have what the script needs.  Nothing
\* has run yet, and nothing is dumped.
Requires ==
    /\ exit = None /\ line = 0
    /\ line' = 1
    /\ exit' = IF script.machine.requires \subseteq host THEN None ELSE "error"
    /\ UNCHANGED <<script, host, simulating, guest, machine, advanced, events, dumps, saved>>

ResetStats ==
    /\ Scripting("reset")
    /\ machine' = [machine EXCEPT !.since = 0, !.ran = {}]
    /\ line' = line + 1
    /\ UNCHANGED <<script, host, simulating, guest, advanced, events, dumps, saved, exit>>

Run ==
    /\ Scripting("run")
    /\ simulating' = TRUE /\ line' = line + 1
    /\ UNCHANGED <<script, host, guest, machine, advanced, events, dumps, saved, exit>>

ReportROI_Guarded ==                        \* mutant: the list printed, not its head
    /\ Scripting("roi_ticks")
    /\ line' = line + 1
    /\ UNCHANGED <<script, host, simulating, guest, machine, advanced, events, dumps, saved,
                   exit>>
\* simulator.get_roi_ticks()[0]: an IndexError unless a region has ended.
ReportROI ==
    /\ Scripting("roi_ticks")
    /\ line' = line + 1
    /\ IF Contains(events, "WORKEND") THEN UNCHANGED <<exit, dumps>>
                                      ELSE exit' = "error" /\ AtExit
    /\ UNCHANGED <<script, host, simulating, guest, machine, advanced, events, saved>>

MakeDirs ==
    /\ Scripting("makedirs")
    /\ line' = line + 1
    /\ UNCHANGED <<script, host, simulating, guest, machine, advanced, events, dumps, saved,
                   exit>>

Checkpoint ==
    /\ Scripting("checkpoint")
    /\ saved' = guest.at /\ line' = line + 1
    /\ UNCHANGED <<script, host, simulating, guest, machine, advanced, events, dumps, exit>>

Finish ==
    /\ exit = None /\ ~simulating /\ line > Len(script.main)
    /\ exit' = "ok" /\ AtExit
    /\ UNCHANGED <<script, host, line, simulating, guest, machine, advanced, events, saved>>

(***************************************************************************)
(* The guest: it boots, and runs its commands whether or not the one       *)
(* before succeeded.  A benchmark that starts at all announces its region  *)
(* of interest, but may fail before and inside it.                         *)
(***************************************************************************)
Running(command) == simulating /\ guest.at \in DOMAIN script.command /\ script.command[guest.at] = command
Ran(m)           == [m EXCEPT !.ran = @ \cup {m.cpu}, !.dumped = FALSE]
Quiet            == UNCHANGED <<script, host, line, simulating, advanced, events, dumps,
                                saved, exit>>

Boot ==
    /\ simulating /\ guest.at = 0
    /\ guest' = [guest EXCEPT !.at = 1] /\ machine' = Ran(machine)
    /\ Quiet

\* CompressedTags under KVM: gem5 aborts while Linux boots, and dumps nothing.
Panic ==
    /\ simulating /\ guest.at = 0 /\ script.machine.panics
    /\ exit' = "error" /\ simulating' = FALSE
    /\ UNCHANGED <<script, host, line, guest, machine, advanced, events, dumps, saved>>

Command ==
    /\ \E c \in {"cd", "source", "parsecmgmt", "sleep", "hello"} : Running(c)
    /\ \E success \in BOOLEAN :
          guest' = [guest EXCEPT !.at = @ + 1, !.good = @ /\ success, !.roi = FALSE]
    /\ machine' = Ran(machine)
    /\ Quiet

(***************************************************************************)
(* gem5 handles an exit event: the script's handler while its generator    *)
(* lasts, then or in its absence the default, which resets or dumps the    *)
(* statistics and goes on, or, for m5 exit, returns.                       *)
(***************************************************************************)
\* The calls of a handler; those to reset and to switch concern different things.
Called(m, calls) ==
    [cpu   |-> IF ~Contains(calls, "switch")          THEN m.cpu
               ELSE IF m.cpu = script.machine.start THEN script.machine.switch
                                                    ELSE script.machine.start,
     since |-> IF Contains(calls, "reset") THEN guest'.regions ELSE m.since,
     ran   |-> IF Contains(calls, "reset") THEN {} ELSE m.ran,
     dumped |-> Contains(calls, "dump")]

DefaultCalls == [WORKBEGIN |-> <<"reset">>, WORKEND |-> <<"dump">>]

Handle(e) ==
    LET mine  == e \in DOMAIN script.handlers /\
                 advanced[e] < Len(script.handlers[e].yields)
        calls == IF mine THEN script.handlers[e].calls ELSE DefaultCalls[e]
        m     == Ran(machine)
    IN /\ machine' = Called(m, calls)
       /\ dumps' = IF Contains(calls, "dump") THEN dumps \cup {DumpOf(m, e)} ELSE dumps
       /\ advanced' = [advanced EXCEPT ![e] = @ + 1]
       /\ events' = Append(events, e)
       /\ simulating' = ~(mine /\ script.handlers[e].yields[advanced[e] + 1])
       /\ UNCHANGED <<script, host, line, saved, exit>>

WorkBegin ==
    /\ Running("parsecmgmt") /\ guest.good /\ ~guest.roi /\ guest.regions < MaxRegions
    /\ guest' = [guest EXCEPT !.roi = TRUE, !.regions = @ + 1]
    /\ Handle("WORKBEGIN")

\* A benchmark may announce a region without ending the one before.
WorkBeginAgain ==
    /\ Running("parsecmgmt") /\ guest.roi /\ guest.regions < MaxRegions
    /\ guest' = [guest EXCEPT !.regions = @ + 1]
    /\ Handle("WORKBEGIN")

WorkEnd ==
    /\ Running("parsecmgmt") /\ guest.roi
    /\ guest' = [guest EXCEPT !.roi = FALSE]
    /\ Handle("WORKEND")

M5Exit ==
    /\ Running("m5 exit")
    /\ events' = Append(events, "EXIT")
    /\ simulating' = FALSE
    /\ UNCHANGED <<script, host, line, guest, machine, advanced, dumps, saved, exit>>

ScriptStep == Requires \/ ResetStats \/ Run \/ ReportROI \/ MakeDirs \/ Checkpoint \/ Finish
GuestStep  == Boot \/ Panic \/ Command \/ WorkBegin \/ WorkBeginAgain \/ WorkEnd \/ M5Exit
Next       == ScriptStep \/ GuestStep

Spec     == Init /\ [][Next]_rvars
\* Neither Python nor the simulator stops by itself, and the guest's commands
\* are taken to end.
FairSpec == Spec /\ WF_rvars(Next)
-----------------------------------------------------------------------------
IsParsec == script \in Parsec

\* What a reader of stats.txt wants: the statistics of one region, from its start
\* to its end, without the boot, an earlier region or another core.
OfTheROI(d) ==
    d.at = "WORKEND" /\ d.since = d.region /\ d.region > 0 /\ d.ran = {"TIMING"}

\* "dumps stats at workend" of a "switch ... to TIMING at ROI workbegin"
\* (cdzcache_parsec.py:9).  No script leaves two dumps, of which check_stats.py or
\* a reader might take the wrong one, and the exit status tells whether the one
\* that a measuring script leaves is of the region: a run that fails after it has
\* simulated leaves the dump of its exit, which covers the boot, or an unfinished
\* region and what followed.  A checkpoint is of a guest that has booted.
DumpCoversTheROI ==
    /\ Cardinality(dumps) <= 1
    /\ IsParsec => /\ \A d \in dumps : OfTheROI(d) <=> exit # "error"
                   /\ exit = "ok" => dumps # {}
    /\ saved # -1 => saved > 0

\* A run of a benchmark is the job that the sweep takes it for: it says that
\* it is done only with the statistics of its region on disk, and it ends.
Job == INSTANCE BenchmarkJob
       WITH status   <- IF ~IsParsec THEN "waiting"
                        ELSE IF exit = "ok" THEN "done"
                        ELSE IF exit = "error" THEN "failed"
                        ELSE IF line = 0 THEN "waiting" ELSE "running",
            measured <- \E d \in dumps : OfTheROI(d)
ImplementsJob == Job!FairSpec
=============================================================================
