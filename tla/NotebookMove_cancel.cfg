SPECIFICATION Spec
CONSTANTS
    Movers = {m1, m2}
    Cancellers = {c1}
    Writers = {w1}
    Kinds = {"save", "file", "session", "delete"}
    MaxMoves = 2
    MaxFaults = 1
    StalePosts = TRUE
    None = None
    Ghost = Ghost
SYMMETRY Symmetry
INVARIANTS NothingLost
CHECK_DEADLOCK FALSE
