SPECIFICATION Spec
CONSTANTS
    Codes = {}
    Verifies = {v1, v2}
    Phones = {p1}
    Devices = {d1}
    Cats = {}
    MaxAttempts = 1
    Providers = {"external"}
    None = None
INVARIANT LosingInsertFallsBack
CHECK_DEADLOCK FALSE
