SPECIFICATION MCSpec
CONSTANTS
    Visitors = {u1, u2}
    First = u1
    Admins = {a1}
    Savers = {w1}
    MaxVisits = 1
    MaxPerVersion = 1
    KeepVersions = 1
    MaxSessions = 2
    MaxVersions = 2
    Attachment = TRUE
    MaxEvents = 2
INVARIANTS
    VersionKept
PROPERTIES
    VisitsKept
    NothingIdles
CHECK_DEADLOCK FALSE
