SPECIFICATION Spec
CONSTANTS
    Rids = {r1}
    Workers = {w1}
    Leader <- Lone
    Data = data
    Capacity = 1
    ClientStreams = TRUE
    Pool = FALSE
    MaxPasses = 1
    Speculates = FALSE
    Collective = TRUE
    Faults = {"abort", "input", "output", "step", "read", "ingest", "dispatch", "advance", "deadline", "death"}
    w1 = w1
\* A server whose requests have all ended stops.
CHECK_DEADLOCK FALSE
INVARIANTS
    AckedUnread
    ToldOnce
PROPERTIES
    RemovedUnread
