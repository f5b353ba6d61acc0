SPECIFICATION FairSpec
CONSTANTS
    Movers = {m1, m2}
    Cancellers = {c1}
    Writers = {w1}
    Kinds = {"save", "file", "session", "delete"}
    MaxMoves = 2
    MaxFaults = 1
    StalePosts = FALSE
    None = None
    Ghost = Ghost
INVARIANTS NothingLost ReadableIsListed
PROPERTIES NotebookReturns PublicationCompletes
CHECK_DEADLOCK FALSE
