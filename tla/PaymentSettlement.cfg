SPECIFICATION Spec
CONSTANTS
    Intents = {i1}
    Attempts = {a1, a2}
    Home = home
    Chains = {home, far}
    Workers = {w1, w2}
    UserOps = {u1}
    Kinds = {"checkout", "app", "legacy"}
    Modes = {"test", "live"}
    AmountModes = {"fixed", "payer_defined"}
    Amounts = {1}
    MaxCctpFee = 1
    None = None
    IntentTtl = 1
    AuthTtl = 1
    Grace = 0
    SettleRetries = 2
    MaxTime = 2
    MaxCrashes = 1
SYMMETRY Symmetry
INVARIANTS
    LedgerChain
    LinkAgreesWithIntent
    SettlementHasEvidence
PROPERTY ImplementsLedger
