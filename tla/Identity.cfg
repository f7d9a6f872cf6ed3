SPECIFICATION FairSpec
CONSTANTS
    r1 = r1
    r2 = r2
    r3 = r3
    c1 = c1
    c2 = c2
    f1 = f1
    f2 = f2
    Rows = {r1, r2, r3}
    Calls = {c1, c2}
    Flows = {f1, f2}
    None = None
    MaxFaults = 1
INVARIANTS
    TypeOK
    OneRegistration
    RestartKeepsDevice
    StaleOnlyIfDisturbed
PROPERTY
    EveryFlowEnds
CHECK_DEADLOCK FALSE
