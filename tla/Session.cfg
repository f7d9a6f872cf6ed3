SPECIFICATION FairSpec
CONSTANTS
    Sessions = {s1, s2, s3}
    Rotations = {i1, i2, i3}
    Requests = {r1}
    None = None
    MaxFaults = 1
    MaxLogouts = 1
INVARIANTS
    TypeOK
    OneReplacementPerToken
    RevokedHasSuccessor
    NoSpuriousSignOut
PROPERTY EveryRequestEnds
CHECK_DEADLOCK FALSE
