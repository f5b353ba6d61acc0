SPECIFICATION FairSpec
CONSTANTS
    Boxes = {b1, b2}
    Sessions = {s1, s2}
    Sweepers = {r1}
    Second = s2
    Spare = b2
    Size <- PoolSize
    MaxCreations = 2
    CanList = TRUE
    None = None
    MaxFaults = 1
CONSTRAINT Cases
INVARIANTS
    TypeOK
    HandedOutOnce
    SessionKeepsSandbox
    WithinSize
PROPERTIES
    ClaimedMembersTracked
    NothingLeaks
