SPECIFICATION FairSpec
CONSTANTS
    u1 = u1
    u2 = u2
    b1 = b1
    b2 = b2
    Uuids = {u1, u2}
    Bufs = {b1, b2}
    MaxReads = 2
    MaxEdges = 2
    MaxLives = 2
    Faults = {"register", "engine", "transfer"}
    None = None
\* Once the last request is removed nothing is left to do.
CHECK_DEADLOCK FALSE
INVARIANTS
    NoStrayWrite
    DeliveredWhole
    GateIsOwn
PROPERTIES
    KeepsContract
    DrainEnds
    KeptAreReturned
