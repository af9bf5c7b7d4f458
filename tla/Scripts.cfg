\* functional_verify.py with its sizes divided by 1024: 4 cache lines, sweeps of
\* 5, 5 and 10; for the other scripts see MCScripts.
SPECIFICATION SSpec
CONSTANTS
    NaN = NaN
    NoFile = NoFile
    Files <- MCFiles
    Scale = 1024
    RefHits = 467
    RefRelocations = 4853
    ASSOC = 3
    MSHRs = 2
    BinSlots = 2
    PRIORITY <- MCPriority
    REST <- MCRest
    benchmark_choices <- MCChoices
    Jobs = {1, 2}
    MaxRegions = 2
CHECK_DEADLOCK FALSE
INVARIANTS ExitCodeIsTheVerdict OnlyPinnedChecksFail DumpCoversTheROI AllDoneIsComplete
           EveryScriptBuilds ParametersAgree
PROPERTIES ImplementsJob EveryProgramEnds
