----------------------------- MODULE MCCheckout -----------------------------
\* A checkout from the quote to the receipt, with what the browser of a user
\* keeps: jobs, quotes, router watch, the payer's browser, the routers, the
\* cutover of the domain, passkeys and operation pages, each in a small
\* instance of its own. Only the component that part names runs in a
\* behaviour, so the state spaces add up.
EXTENDS PaymentJobs, TLC

CONSTANTS QuoteRequests, Payments, Scans, Networks, Payer, c1, c2, Pending

Rule(id, priority, bps, routes) ==
    [id |-> id, priority |-> priority, bps |-> bps, routes |-> routes, min |-> 1, max |-> 20]
AllRoutes == {"local", "cctp"}
\* A default rule with a promotion above it, and two rules of one priority that
\* share a route.
FeePolicies ==
    {{Rule(1, 1, 1, AllRoutes), Rule(2, 0, 0, AllRoutes)},
     {Rule(1, 1, 1, AllRoutes), Rule(2, 1, 0, {"cctp"})}}
Authorization(r, intent, attempt, amount, gross, fee, cctpFee, by, until) ==
    [r |-> r, intent |-> intent, attempt |-> attempt, amount |-> amount, gross |-> gross,
     fee |-> fee, cctpFee |-> cctpFee, by |-> by, from |-> 0, until |-> until]
Declarations == [r \in AllRoutes |-> 1]
Wallets == c1 :> "w1" @@ c2 :> "w2"
RowKinds == "a" :> "link" @@ "b" :> "both"
RowOwners == "a" :> "w" @@ "b" :> "u"
Deployments == {{"v1", "bridge"}, {"v2", "bridge"}, {"cctp"}}
\* Retries of one intent, a late and a mispriced authorization, and burns
\* whose Circle fee does and does not leave the settlement whole.
Authorizations ==
    { Authorization("v1", 1, 1, 100, 100, 1, 0, 1, 0), Authorization("v2", 1, 1, 100, 101, 1, 0, 1, 1),
      Authorization("v2", 1, 2, 100, 100, 0, 0, 2, 1), Authorization("v2", 2, 3, 100, 102, 2, 0, 1, 1),
      Authorization("cctp", 3, 4, 100, 103, 1, 2, 1, 1), Authorization("cctp", 3, 5, 100, 102, 1, 2, 1, 1),
      Authorization("bridge", 0, 6, 100, 100, 1, 2, 0, 0) }

VARIABLES part,
          now, changes, policy, preflight, router, observation, intent,
          quotes, attempts, request, answers, charged, feeRow, chain, fresh,
          reorgs, blocks, events, checkpoint, status, scan, watchFaults,
          split, record, page, flow, caps, clientAttempts, txs, replaced,
          clientFaults, switches, reloads, deployed, bal, allowance, permits,
          paused, signer, used, paid, settled, burned, stray, routersNow,
          admin, file, appRun, payRun, app, work, onChain, artifact, target,
          report, written, manager, hidden, pointer, view, keysFlow,
          pendingPasskey, ops, signers, proposal, mature, stored, keys,
          proposed, forgotten, keysReloads, kind, form, refresh, seq, timer,
          requests, quoteState, stage, prepared, signing, result, poll, polls,
          failed, pageOps, landed, inbound, edits, pageFaults

Quotes == INSTANCE CheckoutQuotes WITH
    Policies <- FeePolicies, Declared <- Declarations, Denominator <- 10,
    CircleFees <- {5}, Clients <- {c1, c2}, Wallet <- Wallets, Keys <- {"k1"},
    Requests <- QuoteRequests, Amounts <- {10}, QuoteTTL <- 2, AuthTTL <- 2,
    ObservationTTL <- 1, MinWindow <- 0, Expiry <- 1, MaxTime <- 2,
    MaxQuotes <- 1, MaxChanges <- 1

Watch == INSTANCE RouterWatch WITH
    Attempts <- Payments, AppAttempts <- {}, Scans <- Scans, Window <- 2,
    Confirmations <- 1, MaxHeight <- 3, MaxReorgs <- 1, MaxDepth <- 2,
    MaxFaults <- 1, faults <- watchFaults

Client == INSTANCE CheckoutClient WITH
    Payers <- {Payer}, Networks <- Networks, MaxAttempts <- 2, MaxTxs <- 1,
    MaxFaults <- 1, MaxSwitches <- 1, MaxReloads <- 1,
    attempts <- clientAttempts, faults <- clientFaults

Routers == INSTANCE PaymentRouters WITH
    Auths <- Authorizations, Deployments <- Deployments, Payer <- "payer",
    Merchant <- "merchant", Treasury <- "treasury", Funds <- 350,
    MaxFeeBps <- 100, Denominator <- 10000, MaxTime <- 1, MaxAdmin <- 3,
    now <- routersNow

Cutover == INSTANCE DataCutover WITH
    Rows <- {"a", "b"}, Kind <- RowKinds, Owner <- RowOwners,
    Merchants <- {"u"}, LateRouter <- FALSE

Device == INSTANCE ClientKeys WITH
    Devices <- Networks, MaxKeys <- 3, MaxOps <- 2, MaxReloads <- 1,
    flow <- keysFlow, reloads <- keysReloads

Page == INSTANCE WalletClient WITH
    Kinds <- {"pay", "swap", "earn", "crosschain", "inbound"}, Tokens <- {c1},
    Inputs <- {1}, MaxEdits <- 2, MaxOps <- 2, MaxFaults <- 1, ops <- pageOps,
    faults <- pageFaults

quotesState ==
    <<now, changes, policy, preflight, router, observation, intent, quotes,
      attempts, request, answers, charged, feeRow>>
QuotesOff ==
    now = 0 /\ changes = 0 /\ policy = 0 /\ preflight = 0 /\ router = 0
    /\ observation = 0 /\ intent = 0 /\ quotes = 0 /\ attempts = 0
    /\ request = 0 /\ answers = 0 /\ charged = 0 /\ feeRow = 0
watchState ==
    <<chain, fresh, reorgs, blocks, events, checkpoint, status, scan,
      watchFaults, split>>
WatchOff ==
    chain = 0 /\ fresh = 0 /\ reorgs = 0 /\ blocks = 0 /\ events = 0
    /\ checkpoint = 0 /\ status = 0 /\ scan = 0 /\ watchFaults = 0
    /\ split = 0
clientState ==
    <<record, page, flow, caps, clientAttempts, txs, replaced, clientFaults,
      switches, reloads>>
ClientOff ==
    record = 0 /\ page = 0 /\ flow = 0 /\ caps = 0 /\ clientAttempts = 0
    /\ txs = 0 /\ replaced = 0 /\ clientFaults = 0 /\ switches = 0
    /\ reloads = 0
routersState ==
    <<deployed, bal, allowance, permits, paused, signer, used, paid, settled,
      burned, stray, routersNow, admin>>
RoutersOff ==
    deployed = 0 /\ bal = 0 /\ allowance = 0 /\ permits = 0 /\ paused = 0
    /\ signer = 0 /\ used = 0 /\ paid = 0 /\ settled = 0 /\ burned = 0
    /\ stray = 0 /\ routersNow = 0 /\ admin = 0
cutoverState ==
    <<file, appRun, payRun, app, work, onChain, artifact, target, report,
      written>>
CutoverOff ==
    file = 0 /\ appRun = 0 /\ payRun = 0 /\ app = 0 /\ work = 0 /\ onChain = 0
    /\ artifact = 0 /\ target = 0 /\ report = 0 /\ written = 0
keysState ==
    <<manager, hidden, pointer, view, keysFlow, pendingPasskey, ops, signers,
      proposal, mature, stored, keys, proposed, forgotten, keysReloads>>
DeviceOff ==
    manager = 0 /\ hidden = 0 /\ pointer = 0 /\ view = 0 /\ keysFlow = 0
    /\ pendingPasskey = 0 /\ ops = 0 /\ signers = 0 /\ proposal = 0
    /\ mature = 0 /\ stored = 0 /\ keys = 0 /\ proposed = 0 /\ forgotten = 0
    /\ keysReloads = 0
pageState ==
    <<kind, form, refresh, seq, timer, requests, quoteState, stage, prepared,
      signing, result, poll, polls, failed, pageOps, landed, inbound, edits,
      pageFaults>>
PageOff ==
    kind = 0 /\ form = 0 /\ refresh = 0 /\ seq = 0 /\ timer = 0
    /\ requests = 0 /\ quoteState = 0 /\ stage = 0 /\ prepared = 0
    /\ signing = 0 /\ result = 0 /\ poll = 0 /\ polls = 0 /\ failed = 0
    /\ pageOps = 0 /\ landed = 0 /\ inbound = 0 /\ edits = 0 /\ pageFaults = 0

MCInit ==
    /\ part \in {"jobs", "quotes", "watch", "client", "routers", "cutover", "keys", "page"}
    /\ Init
    /\ IF part = "quotes" THEN Quotes!Init ELSE QuotesOff
    /\ IF part = "watch" THEN Watch!Init ELSE WatchOff
    /\ IF part = "client" THEN Client!Init ELSE ClientOff
    /\ IF part = "routers" THEN Routers!Init ELSE RoutersOff
    /\ IF part = "cutover" THEN Cutover!Init ELSE CutoverOff
    /\ IF part = "keys" THEN Device!Init ELSE DeviceOff
    /\ IF part = "page" THEN Page!Init ELSE PageOff

MCNext ==
    \/ /\ part = "jobs" /\ Next
       /\ UNCHANGED <<part, quotesState, watchState, clientState,
                      routersState, cutoverState, keysState, pageState>>
    \/ /\ part = "quotes" /\ Quotes!Next
       /\ UNCHANGED <<part, vars, watchState, clientState, routersState,
                      cutoverState, keysState, pageState>>
    \/ /\ part = "watch" /\ Watch!Next
       /\ UNCHANGED <<part, vars, quotesState, clientState, routersState,
                      cutoverState, keysState, pageState>>
    \/ /\ part = "client" /\ Client!Next
       /\ UNCHANGED <<part, vars, quotesState, watchState, routersState,
                      cutoverState, keysState, pageState>>
    \/ /\ part = "routers" /\ Routers!Next
       /\ UNCHANGED <<part, vars, quotesState, watchState, clientState,
                      cutoverState, keysState, pageState>>
    \/ /\ part = "cutover" /\ Cutover!Next
       /\ UNCHANGED <<part, vars, quotesState, watchState, clientState,
                      routersState, keysState, pageState>>
    \/ /\ part = "keys" /\ Device!Next
       /\ UNCHANGED <<part, vars, quotesState, watchState, clientState,
                      routersState, cutoverState, pageState>>
    \/ /\ part = "page" /\ Page!Next
       /\ UNCHANGED <<part, vars, quotesState, watchState, clientState,
                      routersState, cutoverState, keysState>>

MCVars == <<part, vars, quotesState, watchState, clientState, routersState, cutoverState, keysState, pageState>>

MCSpec == MCInit /\ [][MCNext]_MCVars

-----------------------------------------------------------------------------
Symmetry == Permutations(Msgs) \cup Permutations(Consumers)

\* An attempt is authorized only while its intent, its route and its router
\* can take the payment, it charges what its quote showed, the fee row of the
\* ledger says the same, and one idempotency key gives one attempt, whatever
\* policy or router changed since the quote and in whatever order two requests run.
QuotesAreHonoured ==
    part = "quotes" =>
      Quotes!AuthorizedIsPayable /\ Quotes!ChargedAsQuoted /\ Quotes!SameKeySameAttempt

\* The checkpoint of a router watcher never passes a payment event of the chain
\* it stands on that was not recorded, under reorgs, crashes and a second scan.
CheckpointIsCovered == part = "watch" => Watch!CheckpointIsCovered

\* What a browser keeps leads back to what happened, over reloads, wallet changes
\* and late answers: the payer's record to the transaction that was broadcast, a
\* device to a passkey that was proposed for it, a page to an operation that
\* landed before it reports success.
BrowserKeepsTrack ==
    /\ part = "client" => Client!RecordRecovers
    /\ part = "keys" => Device!PointerWasProposed
    /\ part = "page" => Page!SuccessIsReal

\* The routers keep no money: what payers paid is what merchants, the treasury
\* and the burns received, each payment in full and once.
PaymentsAddUp == part = "routers" => Routers!PaymentsAddUp

\* No write of the checkout domain is left behind by the cutover, and App and
\* Payments never both accept writes, however the stages are half deployed.
CutoverKeepsEveryWrite ==
    part = "cutover" => Cutover!NoWriteIsLost /\ Cutover!OneOwner
=============================================================================
