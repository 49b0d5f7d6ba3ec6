SPECIFICATION FairSpec
CONSTANTS
    Intents = {i1}
    Attempts = {a1}
    Home = home
    Chains = {home, far}
    Workers = {w1}
    UserOps = {u1}
    Kinds = {"checkout"}
    Modes = {"live"}
    AmountModes = {"fixed"}
    Amounts = {1}
    MaxCctpFee = 1
    None = None
    IntentTtl = 1
    AuthTtl = 1
    Grace = 0
    SettleRetries = 2
    MaxTime = 0
    MaxCrashes = 0
PROPERTY EveryWalletPaymentSettles
