SPECIFICATION MCLiveSpec
CONSTANTS
    Ops = {o1}
    Workers = {w1, w2}
    None = None
    MaxMintAttempts = 2
    Outsiders = {o1}
    MaxFaults = 1
    MaxReverts = 2
    MaxExpiries = 1
    Deliveries = {d1, d2}
    Broken = {d2}
    Consumers = {c1, c2}
    Flushers = {f1, f2}
    Msgs = {m1, m2}
    Outbox = Outbox
    Payments = {p1}
    Scans = {s1}
INVARIANTS
    MintsAreSingleAndBacked
PROPERTIES
    
    EveryDeliveryEnds
    
CHECK_DEADLOCK FALSE
