SPECIFICATION Spec
CONSTANTS
    Procs = {p1}
    Settings = {2}
    Forbid = TRUE
    Cap = 1
    MaxDue = 1
    MaxRuns = 8
    MaxEvents = 5
INVARIANTS
    OneRetry
CHECK_DEADLOCK FALSE
