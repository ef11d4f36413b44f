SPECIFICATION FairSpec
CONSTANTS
    Rids = {r1}
    Workers = {w1, w2}
    Leader <- Group
    Data = data
    Capacity = 1
    ClientStreams = FALSE
    Pool = TRUE
    MaxPasses = 0
    Speculates = FALSE
    Collective = TRUE
    Faults = {"abort", "server"}
    w1 = w1
\* A server whose requests have all ended stops.
CHECK_DEADLOCK FALSE
INVARIANTS
    NewBeforeAbort
PROPERTIES
    Answered
    Forgotten
