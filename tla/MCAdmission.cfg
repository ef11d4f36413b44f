SPECIFICATION Spec
CONSTANTS
    r1 = r1
    r2 = r2
    r3 = r3
    Rids = {r1, r2, r3}
    NoRid = NoRid
    NoNode = NoNode
    Nodes <- MCNodes
    KeysOf <- MCKeysOf
    Cap <- MCCap
    Ask <- MCAsk
    MaxArrivals = 3
    MaxMoves = 1
INVARIANTS
    FittingIsSeen
    AllOrNothing
    ParkedIsOwed
PROPERTIES
    NoOvertaking
\* With no request left and no arrival number to hand out nothing happens.
CHECK_DEADLOCK FALSE
