SPECIFICATION FairSpec
CONSTANTS
    Updates = {u1, u2}
    Users = {a1}
    Cats = {c1}
    Keys = {k1}
    None = None
    MaxNow = 3
    NeedsHelpExpiry = 2
    CorrectionWindow = 1
INVARIANTS
    TypeOK
    EligibleOnlyOnActivation
    FreshnessIsNewest
    AlertCoversEveryMark
    SameKeySameUpdate
PROPERTY EveryRequestEnds
CHECK_DEADLOCK FALSE
