SPECIFICATION Spec
CONSTANTS
    first = first
    second = second
    s1 = s1
    Users = {first, second}
    Sessions = {s1, s2}
    Owner <- SessionOwner
    Takeovers = {t1}
    Requester <- TakenOverBy
    Drivers = {d1}
    Loops = {"sweep"}
    Attachment = {TRUE}
    Slow = {s1}
    MaxBusy = 2
    MaxFaults = 1
    None = None
INVARIANTS
    OneEditor
CHECK_DEADLOCK FALSE
