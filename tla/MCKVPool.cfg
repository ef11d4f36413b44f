SPECIFICATION Spec
CONSTANTS
    r1 = r1
    r2 = r2
    p1 = p1
    p2 = p2
    p3 = p3
    p4 = p4
    Pages = {p1, p2, p3, p4}
    Rids = {r1, r2}
    Keys = {"a", "ab", "ad"}
    Chain <- MCChain
    Limit <- MCLimit
    MaxSpan = 1
    HostPages = 1
    None = None
SYMMETRY PageSymmetry
INVARIANTS
    GrantsAreMet
    PagesConserved
    ReadsOwnPrefix
    FrontierPrivate
    MarkSound
