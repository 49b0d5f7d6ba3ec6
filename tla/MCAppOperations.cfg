SPECIFICATION MCSpec
CONSTANTS
    Parts = {"userops", "transport", "sponsor", "wallet", "balances",
             "burns", "signin", "merchant", "webhooks"}
    Ops = {op1, op2}
    Links = {l1}
    LinkOf <- SameLink
    Submits = {s1, s2}
    None = None
    MaxErrorAttempts = 1
    MaxReorgs = 0
    MaxFaults = 0
    op1 = op1
    op2 = op2
    l1 = l1
    r1 = r1
    o1 = o1
    b1 = b1
    MaxBlock = 2
    Bundled = FALSE
    Service = Service
    Lost = Lost
SYMMETRY Symmetry
INVARIANTS
    PaymentsAreAccounted
    WalletDoesAsShown
    BalancesAreExact
    BurnsAreMintedOnce
    SignInIsSafe
    MerchantsAreToldTheTruth
CHECK_DEADLOCK FALSE
