SPECIFICATION Spec
CONSTANTS
    a1 = a1 a2 = a2
    r1 = r1 r2 = r2 r3 = r3 r4 = r4
    u1 = u1 f1 = f1 f2 = f2 k1 = k1
    Accounts = {a1, a2}
    Leaver = a1
    Requests = {r1, r2, r3, r4}
    Settled = {r1, r2}
    Posts = {u1}
    Files = {f1, f2}
    Keys = {k1}
    None = None
    MaxOps = 2
    MaxFaults = 1
SYMMETRY Symmetry
INVARIANTS
    TypeOK
    SameKeySameRow
    ObjectsMatchRows
    DanglingReportNeedsRace
PROPERTY AbortNeedsOverlap
CHECK_DEADLOCK FALSE
