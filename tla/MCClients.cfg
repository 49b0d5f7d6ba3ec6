SPECIFICATION MCLiveSpec
CONSTANTS
    Users = {u1, u2}
    Ids = {1, 2}
    MaxVersion = 2
    MaxAuth = 2
    MaxFaults = 1
    k1 = k1
    k2 = k2
    k3 = k3
    k4 = k4
    g1 = g1
    g2 = g2
    t1 = t1
    t2 = t2
    None = None
INVARIANTS
    ShownIsOwn
PROPERTIES
    HomeIsCurrent
    LostOwnerRecovers
    EveryInputIsQuoted
CHECK_DEADLOCK FALSE
