SPECIFICATION FairSpec
CONSTANTS
    first = first
    second = second
    s1 = s1
    Users = {first, second}
    Sessions = {s1}
    Owner <- SessionOwner
    Takeovers = {t1}
    Requester <- TakenOverBy
    Drivers = {d1}
    Loops = {"reconcile"}
    Attachment = {TRUE, FALSE}
    Slow = {s1}
    MaxBusy = 3
    MaxFaults = 2
    None = None
PROPERTIES
    NothingForgotten
CHECK_DEADLOCK FALSE
