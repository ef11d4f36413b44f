SPECIFICATION Spec
CONSTANTS
    Rids = {r1, r2}
    Workers = {w1, w2}
    Leader <- Group
    Data = data
    Capacity = 1
    ClientStreams = FALSE
    Pool = FALSE
    MaxPasses = 0
    Speculates = TRUE
    Collective = FALSE
    Faults = {"dispatch"}
    w1 = w1
\* A server whose requests have all ended stops.
CHECK_DEADLOCK FALSE
SYMMETRY Symmetry
INVARIANTS
    SameOrder
    NoIdleSlot
    StepsNameHeld
