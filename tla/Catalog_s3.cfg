SPECIFICATION Spec
CONSTANTS
    Procs = {p1, p2}
    Reapers = {}
    Entries = {e1}
    NoEntry = NoEntry
    Work = {"init", "append", "remove"}
    Retries = 1
    ScanLimit = 1
    KeepLast = 0
    Retention = 2
    MaxAttempt = 1
    MaxSweep = 1
    AdapterRetries = TRUE
    MaxSnap = 3
    MaxTime = 0
    MaxLosses = 0
SYMMETRY Symmetry
INVARIANTS
    PointerResolves
CHECK_DEADLOCK FALSE
