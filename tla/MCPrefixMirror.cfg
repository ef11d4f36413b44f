SPECIFICATION FairSpec
CONSTANTS
    p1 = p1
    p2 = p2
    p3 = p3
    p4 = p4
    Pages = {p1, p2, p3}
    Keys = {"a", "ab", "abc", "ad"}
    KeyParent <- MCKeyParent
    None = None
    UseSpare = FALSE
    UseDrop = TRUE
    MaxRefs = 1
    MaxClock = 3
INVARIANTS
    TypeOK
    EvictableLocal
    ForestOK
PROPERTIES
    CallsReturn
