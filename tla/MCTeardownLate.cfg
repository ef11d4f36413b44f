SPECIFICATION Spec
CONSTANTS
    Rids = {r1}
    Workers = {w1, w2}
    Leader <- Lone
    Data = data
    Capacity = 1
    ClientStreams = FALSE
    Pool = FALSE
    MaxPasses = 0
    Speculates = FALSE
    Collective = TRUE
    Faults = {"step"}
    w1 = w1
\* A server whose requests have all ended stops.
CHECK_DEADLOCK FALSE
INVARIANTS
    NothingFreedIsRead
