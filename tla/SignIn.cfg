SPECIFICATION Spec
CONSTANTS
    Codes = {c1, c2}
    Verifies = {v1, v2, v3}
    Phones = {p1, p2}
    Devices = {d1, d2}
    Cats = {k1, k2}
    MaxAttempts = 1
    Providers = {"own", "external"}
    None = None
CONSTRAINT Bound
SYMMETRY Symmetry
INVARIANTS
    SessionPerCode
    WaitsForward
    ClashNeedsRace
PROPERTY ContentKeepsOwner
CHECK_DEADLOCK FALSE
