SPECIFICATION FairSpec
CONSTANTS
    e1 = e1
    e2 = e2
    w1 = w1
    w2 = w2
    Events = {e1, e2}
    Workers = {w1, w2}
    Writers = {e1, e2, w1, w2}
    Contents <- MCContents
    TokenTtl = 0
    MinTtl = 1
    MaxTtl = 2
    ReplayTtl = 2
    Leeway = 0
    Skew = 1
    Pause = 0
    MaxTime = 3
    MaxCrashes = 1
INVARIANTS IInv SingleUse LedgerTells ChainUnbroken
PROPERTIES LedgerSpec EventSettles
CHECK_DEADLOCK FALSE
