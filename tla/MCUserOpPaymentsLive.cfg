SPECIFICATION MCLiveSpec
CONSTANTS
    Parts = {"userops"}
    Ops = {op1}
    Links = {l1}
    LinkOf <- OneLink
    Submits = {s1, s2}
    None = None
    MaxErrorAttempts = 2
    MaxReorgs = 1
    MaxFaults = 2
    op1 = op1
    op2 = op2
    l1 = l1
    r1 = r1
    o1 = o1
    b1 = b1
    MaxBlock = 2
    Bundled = FALSE
    Service = Service
    Lost = Lost
 
PROPERTIES
    
    LandedIsClosed
CHECK_DEADLOCK FALSE
