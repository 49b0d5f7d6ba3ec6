SPECIFICATION MCLiveSpec
CONSTANTS
    Providers <- ProviderList
    Configured <- CapabilityRow
    LargestRange = 10000000
    LegacyRange = 2
    MinRange = 1
    MaxCalls = 3
    MaxBlocks = 20
    MaxEvents = 2
    MaxRetries = 1
    ScanHead = 7
    MaxErrors = 2
    managed = managed
    public = public
    p1 = p1
    p2 = p2
    a1 = a1
    i1 = i1
    i2 = i2
    r1 = r1
    r2 = r2
    None = None
INVARIANTS
    ScanIsComplete
    ClosedWasDelivered
PROPERTIES
    AcceptedWorkEnds
    ReadingGoesOn
CHECK_DEADLOCK FALSE
