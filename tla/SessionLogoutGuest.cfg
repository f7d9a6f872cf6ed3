SPECIFICATION FairSpec
CONSTANTS
    Sessions = {s1, s2, s3}
    Rotations = {i1, i2}
    Requests = {r1}
    None = None
    MaxFaults = 0
    MaxLogouts = 1
PROPERTY LoggedOutStaysGuest
CHECK_DEADLOCK FALSE
