SPECIFICATION Spec
CONSTANTS
    d1 = d1
    d2 = d2
    t1 = t1
    t2 = t2
    m1 = m1
    p1 = p1
    p2 = p2
    Rows = {d1, d2}
    Tokens = {t1, t2}
    Pushes = {m1}
    Puts = {p1, p2}
    None = None
    MaxFaults = 1
SYMMETRY Symmetry
INVARIANTS
    TypeOK
    NoPushUnheard
    SharedTokenNeedsOverlap
    RegisteredOrExcused
