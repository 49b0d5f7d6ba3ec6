SPECIFICATION MCSpec
CONSTANTS
    Streams = {s1, s2}
    Transfers = {s1}
    UserOps = {s2}
    Fresh = {}
    Events = {e1}
    SeenBy <- SeenByAll
    Deposits = {e1}
    Base = 10
    MaxHeight = 13
    StartLength = 2
    MaxReorgs = 1
    MaxDepth = 2
    MaxAborts = 0
    WindowBlocks = 2
    EventBlocks = 1
    s1 = s1
    s2 = s2
    e1 = e1
    u1 = u1
    u2 = u2
    a1 = a1
    a2 = a2
    h1 = h1
    i1 = i1
    i2 = i2
    r1 = r1
    r2 = r2
    None = None
SYMMETRY Symmetry
INVARIANTS
    JournalIsTheChain
    EveryWalletIsWatched
    
    
CHECK_DEADLOCK FALSE
