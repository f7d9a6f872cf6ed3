SPECIFICATION LiveSpec
CONSTANTS
    Workers = {w1, w2}
    Updates = {u1, u2}
    Devices = {d1, d2}
    Accounts = {a1, a2}
    Tokens = {t1, t2}
    None = None
    BatchSize = 1
    MaxChurn = 0
    MaxAborts = 1
PROPERTY EveryRowProcessed
CHECK_DEADLOCK FALSE
