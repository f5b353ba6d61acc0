SPECIFICATION MCSpec
CONSTANTS
    Clients = {c1, c2}
    Keys = {k1}
    Titles = {"renamed"}
    Labels = {"secret"}
    MaxNotebooks = 2
    MaxEvents = 4
INVARIANTS
    LabelsNeverWrong
    RecordsSettle
    ListedExists
    RetryCreatesNothing
PROPERTIES
    DeletedPurged
CHECK_DEADLOCK FALSE
