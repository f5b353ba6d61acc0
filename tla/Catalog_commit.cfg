SPECIFICATION Spec
CONSTANTS
    Procs = {p1, p2}
    Reapers = {r1}
    Entries = {e1}
    NoEntry = NoEntry
    Work = {"init", "append", "remove", "recover"}
    Retries = 2
    ScanLimit = 1
    KeepLast = 0
    Retention = 2
    MaxAttempt = 1
    MaxSweep = 1
    AdapterRetries = FALSE
    MaxSnap = 6
    MaxTime = 4
    MaxLosses = 1
SYMMETRY Symmetry
CONSTRAINT Cases
INVARIANTS
    TypeOK
    ConflictMeansProgress
    AuditOnce
    PointerResolves
    RollbackAvailable
PROPERTIES
    ImplementsCatalogAbs
CHECK_DEADLOCK FALSE
