SPECIFICATION Spec
CONSTANTS
    Updates = {u1}
    Requests = {r1, r2, r3}
    Statuses = {s1}
    Media = {m0, m1}
    CreationPhoto = m0
    None = None
SYMMETRY Symmetry
INVARIANTS
    TypeOK
    HuskOnlyByOverlap
PROPERTIES
    TombstoneIsFinal
    CoverSourceKept
    RefusalIsExplained
CHECK_DEADLOCK FALSE
