SPECIFICATION MCSpec
CONSTANTS
    Deliveries = {d1, d2}
    Broken = {d2}
    Consumers = {e1, e2}
    Flushers = {f1}
    Msgs = {t1, t2}
    Outbox = Outbox
    None = None
    MaxAttempts = 2
    MaxRetries = 1
    MaxFaults = 1
    MaxMerchant = 1
    c1 = c1
    c2 = c2
    QuoteRequests = {r1, r2}
    Payments = {t1, t2}
    Scans = {s1}
    Networks = {t1, t2}
    Payer = Payer
    Pending = Pending
SYMMETRY Symmetry
INVARIANTS
    
    QuotesAreHonoured
    
    BrowserKeepsTrack
    PaymentsAddUp
    CutoverKeepsEveryWrite
CHECK_DEADLOCK FALSE
