SPECIFICATION Spec
CONSTANTS
    p1 = p1
    p2 = p2
    p3 = p3
    p4 = p4
    Pages = {p1, p2, p3}
    Keys = {"a", "ab", "ad"}
    KeyParent <- MCKeyParent
    None = None
    UseSpare = TRUE
    UseDrop = FALSE
    MaxRefs = 2
    MaxClock = 5
SYMMETRY PageSymmetry
INVARIANTS
    EvictableExact
    EvictReachesAll
PROPERTIES
    EvictsOldest
    SparedGoLast
