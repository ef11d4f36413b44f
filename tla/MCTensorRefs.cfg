SPECIFICATION Spec
CONSTANTS
    Uuids = {u1, u2}
    MaxEdges = 3
    MayRefuse = TRUE
    MayForce = TRUE
\* Once the request is removed nothing is left to do.
CHECK_DEADLOCK FALSE
SYMMETRY Symmetry
INVARIANTS
    SourceHeld
    FreedWhenRead
