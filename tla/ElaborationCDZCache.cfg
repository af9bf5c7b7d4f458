\* The variant for which the script exists.
SPECIFICATION Spec
CONSTANTS
    Variants = {"cdzcache"}
    Ratios = {2}
CHECK_DEADLOCK FALSE
INVARIANTS EveryScriptBuilds
