SPECIFICATION Spec
CONSTANTS
    Workers = {w1, w2}
    Updates = {u1, u2}
    Devices = {d1}
    Accounts = {a1, a2}
    Tokens = {t1, t2}
    None = None
    BatchSize = 2
    MaxChurn = 1
    MaxAborts = 1
SYMMETRY Symmetry
INVARIANTS
    TypeOK
    StableFollowerNotified
    RetractedInTimeIsSilent
    DuplicateNeedsAbort
PROPERTY ImplementsOutbox
CHECK_DEADLOCK FALSE
