SPECIFICATION FairSpec
CONSTANTS
    Procs = {p1, p2}
    Settings = {0, 1}
    Forbid = TRUE
    Cap = 1
    MaxDue = 2
    MaxRuns = 6
    MaxEvents = 4
INVARIANTS
    OccurrenceOnce
    WithinCap
    ExecutedOnce
    LiveRunsMarked
    EndedRunsSettled
PROPERTIES
    RunsSettle
    DeletedStops
CHECK_DEADLOCK FALSE
