--------------------------- MODULE MCAppOperations ---------------------------
\* What the App Worker does for a user and for a merchant: two operations that
\* claim one link, the transport that sends them, the sponsor that pays for
\* them, swaps and savings, the balances they change, the burns they start,
\* the challenges of signing in, and the legacy merchant API with its
\* webhooks. Only the component that part names runs in a behaviour, so the
\* state spaces add up; a configuration chooses the parts it runs.
EXTENDS UserOpPayments, TLC

CONSTANTS Parts, op1, op2, l1, r1, o1, b1, MaxBlock, Bundled, Service,
          Lost

OneLink == op1 :> l1
SameLink == op1 :> l1 @@ op2 :> l1
FastQuotes == {<<100001, "fast">>}
SponsorOrders == {<<"parmelia">>, <<"erc7677", "parmelia">>,
                  <<"parmelia", "self-funded">>}

VARIABLES part,
          supports, cache, mode, row, txHash, call, held, landed, shown,
          submits, expiries, now, order, config, previous, deployed,
          signerSet, funded, cap, build, sponsorRows, builds, walletNow,
          price, fee, wallet, nonce, reserve, quotes, walletRequest, ops,
          walletLedger, events, balancesChain, safe, fresh, truth, req, snap,
          baseline, policy, deltas, cp, cursor, ix, run, reader, asked,
          balancesFaults, missed, burnsRow, burnsAge, fate, attested, minted,
          tx, pass, lease, burnsFaults, pushes, kind, last, signinRow, mail,
          session, p, signinFaults, granted, guesses, merchantIntent,
          merchantLink, event, dlv, enabled, post, settler, auth, invoice,
          merchantFaults, webhooksRow, webhooksEnabled, secret, current, ring,
          flush, mig, acked, webhooksFaults, resends

Transport == INSTANCE OpTransport WITH
    BundlerCount <- 2, WriteCount <- 1, SelfFallback <- TRUE,
    HashMismatch <- FALSE, MaxSubmits <- 2, MaxExpiries <- 1

Sponsor == INSTANCE Sponsorship WITH
    Paymasters <- Submits, Service <- Service, Orders <- SponsorOrders,
    TTL <- 2, MaxTime <- 4, MaxBuilds <- 1, rows <- sponsorRows

Wallet == INSTANCE WalletActions WITH
    Bps <- 10, SwapFeeBps <- 1, SlippageBps <- 2, Amounts <- {2},
    Prices <- {0, 3, 5}, QuoteTTL <- 1, Window <- 1, Bundled <- Bundled,
    MaxQuotes <- 1, MaxOps <- 2, MaxEvents <- 1, now <- walletNow,
    request <- walletRequest, ledger <- walletLedger

Balance == INSTANCE Balances WITH
    MaxBlock <- MaxBlock, Start <- 1, Kinds <- {"to", "from"},
    Passes <- {op1}, Readers <- {r1}, Strategies <- {"events_plus_rpc",
    "rpc_only"}, MaxRequests <- 1, MaxFaults <- 1, chain <- balancesChain,
    faults <- balancesFaults

Burns == INSTANCE AppCrosschain WITH
    Ops <- {o1}, Passes <- Submits, Strangers <- {b1}, Quotes <- FastQuotes,
    FeeBps <- 50, MaxAttempts <- 2, MaxTx <- 1, MaxFaults <- 1,
    row <- burnsRow, age <- burnsAge, faults <- burnsFaults
ASSUME BurnsAssumption == Burns!TransfersAssumption

Challenges == INSTANCE SignIn WITH
    MaxRows <- 2, Requests <- Submits, MaxTries <- 2, Credentials <- Ops,
    MaxFaults <- 1, row <- signinRow, faults <- signinFaults

Merchant == INSTANCE MerchantApi WITH
    Posts <- Ops, Settlers <- Submits, Endpoints <- {l1},
    Subscribed <- {"payment.paid"}, MaxFaults <- 0, intent <- merchantIntent,
    link <- merchantLink, faults <- merchantFaults

Webhooks == INSTANCE MerchantWebhooks WITH
    Rows <- {l1}, Flushes <- Ops, Migrators <- {r1}, MaxAttempts <- 2,
    MaxKey <- 3, MaxFaults <- 1, MaxResends <- 1, row <- webhooksRow,
    enabled <- webhooksEnabled, faults <- webhooksFaults

transportState ==
    <<supports, cache, mode, row, txHash, call, held, landed, shown, submits,
      expiries>>
TransportOff ==
    supports = 0 /\ cache = 0 /\ mode = 0 /\ row = 0 /\ txHash = 0 /\ call = 0
    /\ held = 0 /\ landed = 0 /\ shown = 0 /\ submits = 0 /\ expiries = 0
sponsorState ==
    <<now, order, config, previous, deployed, signerSet, funded, cap, build,
      sponsorRows, builds>>
SponsorOff ==
    now = 0 /\ order = 0 /\ config = 0 /\ previous = 0 /\ deployed = 0
    /\ signerSet = 0 /\ funded = 0 /\ cap = 0 /\ build = 0 /\ sponsorRows = 0
    /\ builds = 0
walletState ==
    <<walletNow, price, fee, wallet, nonce, reserve, quotes, walletRequest,
      ops, walletLedger, events>>
WalletOff ==
    walletNow = 0 /\ price = 0 /\ fee = 0 /\ wallet = 0 /\ nonce = 0
    /\ reserve = 0 /\ quotes = 0 /\ walletRequest = 0 /\ ops = 0
    /\ walletLedger = 0 /\ events = 0
balancesState ==
    <<balancesChain, safe, fresh, truth, req, snap, baseline, policy, deltas,
      cp, cursor, ix, run, reader, asked, balancesFaults, missed>>
BalanceOff ==
    balancesChain = 0 /\ safe = 0 /\ fresh = 0 /\ truth = 0 /\ req = 0
    /\ snap = 0 /\ baseline = 0 /\ policy = 0 /\ deltas = 0 /\ cp = 0
    /\ cursor = 0 /\ ix = 0 /\ run = 0 /\ reader = 0 /\ asked = 0
    /\ balancesFaults = 0 /\ missed = 0
burnsState ==
    <<burnsRow, burnsAge, fate, attested, minted, tx, pass, lease,
      burnsFaults, pushes>>
BurnsOff ==
    burnsRow = 0 /\ burnsAge = 0 /\ fate = 0 /\ attested = 0 /\ minted = 0
    /\ tx = 0 /\ pass = 0 /\ lease = 0 /\ burnsFaults = 0 /\ pushes = 0
signinState ==
    <<kind, last, signinRow, mail, session, p, signinFaults, granted, guesses>>
ChallengesOff ==
    kind = 0 /\ last = 0 /\ signinRow = 0 /\ mail = 0 /\ session = 0
    /\ p = 0 /\ signinFaults = 0 /\ granted = 0 /\ guesses = 0
merchantState ==
    <<merchantIntent, merchantLink, event, dlv, enabled, post, settler, auth,
      invoice, merchantFaults>>
MerchantOff ==
    merchantIntent = 0 /\ merchantLink = 0 /\ event = 0 /\ dlv = 0
    /\ enabled = 0 /\ post = 0 /\ settler = 0 /\ auth = 0 /\ invoice = 0
    /\ merchantFaults = 0
webhooksState ==
    <<webhooksRow, webhooksEnabled, secret, current, ring, flush, mig, acked,
      webhooksFaults, resends>>
WebhooksOff ==
    webhooksRow = 0 /\ webhooksEnabled = 0 /\ secret = 0 /\ current = 0
    /\ ring = 0 /\ flush = 0 /\ mig = 0 /\ acked = 0 /\ webhooksFaults = 0
    /\ resends = 0

MCInit ==
    /\ part \in Parts
    /\ Init
    /\ IF part = "transport" THEN Transport!Init ELSE TransportOff
    /\ IF part = "sponsor" THEN Sponsor!Init ELSE SponsorOff
    /\ IF part = "wallet" THEN Wallet!Init ELSE WalletOff
    /\ IF part = "balances" THEN Balance!Init ELSE BalanceOff
    /\ IF part = "burns" THEN Burns!Init ELSE BurnsOff
    /\ IF part = "signin" THEN Challenges!Init ELSE ChallengesOff
    /\ IF part = "merchant" THEN Merchant!Init ELSE MerchantOff
    /\ IF part = "webhooks" THEN Webhooks!Init ELSE WebhooksOff

MCNext ==
    \/ /\ part = "userops" /\ Next
       /\ UNCHANGED <<part, transportState, sponsorState, walletState,
                      balancesState, burnsState, signinState, merchantState,
                      webhooksState>>
    \/ /\ part = "transport" /\ Transport!Next
       /\ UNCHANGED <<part, vars, sponsorState, walletState, balancesState,
                      burnsState, signinState, merchantState, webhooksState>>
    \/ /\ part = "sponsor" /\ Sponsor!Next
       /\ UNCHANGED <<part, vars, transportState, walletState, balancesState,
                      burnsState, signinState, merchantState, webhooksState>>
    \/ /\ part = "wallet" /\ Wallet!Next
       /\ UNCHANGED <<part, vars, transportState, sponsorState, balancesState,
                      burnsState, signinState, merchantState, webhooksState>>
    \/ /\ part = "balances" /\ Balance!Next
       /\ UNCHANGED <<part, vars, transportState, sponsorState, walletState,
                      burnsState, signinState, merchantState, webhooksState>>
    \/ /\ part = "burns" /\ Burns!Next
       /\ UNCHANGED <<part, vars, transportState, sponsorState, walletState,
                      balancesState, signinState, merchantState, webhooksState>>
    \/ /\ part = "signin" /\ Challenges!Next
       /\ UNCHANGED <<part, vars, transportState, sponsorState, walletState,
                      balancesState, burnsState, merchantState, webhooksState>>
    \/ /\ part = "merchant" /\ Merchant!Next
       /\ UNCHANGED <<part, vars, transportState, sponsorState, walletState,
                      balancesState, burnsState, signinState, webhooksState>>
    \/ /\ part = "webhooks" /\ Webhooks!Next
       /\ UNCHANGED <<part, vars, transportState, sponsorState, walletState,
                      balancesState, burnsState, signinState, merchantState>>

MCVars ==
    <<part, vars, transportState, sponsorState, walletState, balancesState,
      burnsState, signinState, merchantState, webhooksState>>

MCSpec == MCInit /\ [][MCNext]_MCVars

\* The fairness of the operations of a user, where only they run.
MCLiveSpec == MCSpec /\ Fairness

-----------------------------------------------------------------------------
\* Two operations of one link are interchangeable, and so are the requests
\* and what stands for passes, paymasters, settlers and credentials.
Symmetry == {f @@ g : f \in Permutations(Submits), g \in Permutations(Ops)}

\* What a user is shown is what happens: the swap or deposit that was signed, the
\* sponsor data that was handed out, and one transport for one operation however
\* rejections, silence and the fallback follow each other.
WalletDoesAsShown ==
    /\ part = "wallet" => Wallet!ExecutedAsShown /\ Wallet!StatementIsTrue
    /\ part = "sponsor" => Sponsor!HandedOutIsHonoured
    /\ part = "transport" => Transport!ReleasedWasNotSent /\ Transport!OneTransportHolds

\* A balance that is served belongs to the block it names, and a settled one is
\* exact, whichever readers, events and reorganisations met.
BalancesAreExact ==
    part = "balances" => Balance!ReadIsExact /\ Balance!SettledIsExact

\* A cross-chain transfer counts as completed only for a mint that succeeded,
\* and its user is told once, under overlapping passes and failing calls.
BurnsAreMintedOnce ==
    part = "burns" => Burns!BurnsAreMintedOnce

\* A mailed code and a sign-in link are answered once, guesses are bounded over
\* all tries at once, and the code of the last mail works.
SignInIsSafe ==
    part = "signin" =>
        Challenges!AnsweredOnce /\ Challenges!GuessesAreBounded /\ Challenges!LastMailWorks

\* A payment.paid event tells the truth, one idempotency key gives one intent,
\* an acknowledged delivery is not sent again but by hand, and every stored
\* secret can be read with a key of the ring.
MerchantsAreToldTheTruth ==
    /\ part = "merchant" => Merchant!PaidEventIsTrue /\ Merchant!SameKeySameIntent
    /\ part = "webhooks" => Webhooks!AcknowledgedOnce /\ Webhooks!SecretIsReadable
=============================================================================
