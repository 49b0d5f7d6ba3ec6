-------------------------- MODULE CheckoutQuotes --------------------------
(***************************************************************************)
(* The public checkout of one payment link: fee policy, quotes, and the    *)
(* attempts whose authorization the Payments Worker signs (quoteEngine.ts, *)
(* feePolicy.ts, routerHealth.ts, checkoutAccess.ts, checkout.routes.ts)   *)
(* up to the fee rows of a landed payment.  What becomes of an attempt     *)
(* afterwards is PaymentSettlement.                                        *)
(* A client is a browser: it keeps one checkout capability and one wallet. *)
(* A route stands for its chain.  Rate limits only refuse requests.        *)
(***************************************************************************)
EXTENDS Integers, Sequences, FiniteSets, SequencesExt

CONSTANTS
    Policies,    \* sets of fee rules an operator may configure
    Declared,    \* per route, the fee cap of the network manifest
    Denominator, \* 10_000 basis points
    CircleFees,  \* per cent fees Circle may answer for a burn
    Clients, Wallet,
    Keys,        \* Idempotency-Key values
    Requests,    \* POST /:linkId/attempts
    Amounts,
    QuoteTTL, AuthTTL, ObservationTTL, MinWindow,
    Expiry,      \* expiresAt of the intent
    MaxTime, MaxQuotes, MaxChanges,
    None

Routes == {"local", "cctp"}
Mine == "mine"  \* the signer or treasury this Worker is configured with
Other == "other"

VARIABLES
    now, changes,
    policy, preflight, \* PAYMENT_FEE_POLICY_JSON, PAYMENT_ROUTER_PREFLIGHT_ENABLED
    router,      \* per route: the contract's configuration
    observation, \* observationCache: what was read and until when it serves
    intent, quotes, attempts,
    request, answers,
    charged,     \* per attempt, what its payment moved on chain
    feeRow       \* payment_fee_ledger: actual amounts, None while unknown

vars == <<now, changes, policy, preflight, router, observation, intent, quotes,
          attempts, request, answers, charged, feeRow>>

Idle == [pc |-> "idle"]
NoObservation == [seen |-> None, until |-> 0]

TypeOK ==
    /\ now \in 0..MaxTime /\ policy \in Policies /\ preflight \in BOOLEAN
    /\ intent.status \in {"awaiting_payment", "closed"}
    /\ \A r \in Requests : request[r].pc \in {"idle", "authorize", "insert"}
    /\ DOMAIN charged = DOMAIN attempts /\ DOMAIN feeRow = DOMAIN attempts

Init ==
    /\ now = 0 /\ changes = 0 /\ policy \in Policies /\ preflight \in BOOLEAN
    /\ \E cap \in {0, Declared["local"]} :
         router = [r \in Routes |->
           [paused |-> FALSE, signer |-> Mine, treasury |-> Mine,
            cap |-> IF r = "local" THEN cap ELSE Declared[r]]]
    /\ observation = [r \in Routes |-> NoObservation]
    /\ \E mode \in {"fixed", "payer_defined"} :
         intent = [mode |-> mode, amount |-> CHOOSE a \in Amounts : TRUE,
                   status |-> "awaiting_payment"]
    /\ quotes = <<>> /\ attempts = <<>> /\ charged = <<>> /\ feeRow = <<>>
    /\ request = [r \in Requests |-> Idle] /\ answers = {}

-----------------------------------------------------------------------------
(* The fee policy.                                                         *)

Matches(rule, route, amount) ==
    /\ route \in rule.routes
    /\ amount >= rule.min /\ amount <= rule.max
Candidates(p, route, amount) == {rule \in p : Matches(rule, route, amount)}
Before(a, b) == a.priority > b.priority \/ (a.priority = b.priority /\ a.id < b.id)
First(rules) == CHOOSE a \in rules : \A b \in rules \ {a} : Before(a, b)

\* Only the second candidate is compared with the first.
Ambiguous(rules) ==
    /\ Cardinality(rules) > 1
    /\ LET a == First(rules)
           b == First(rules \ {a})
       IN a.priority = b.priority /\ a.bps # b.bps

\* resolvePaymentFee: basis points, or None when it refuses.
ResolvePaymentFee(p, route, amount) ==
    LET rules == Candidates(p, route, amount)
        bps   == IF rules = {} THEN 0 ELSE First(rules).bps
    IN IF \/ Ambiguous(rules) \/ bps > Declared[route]
          \/ bps > 0 /\ ~preflight
       THEN None ELSE bps

\* getLiveCctpFee: the protocol fee rounded up, plus a fifth rounded up.
CeilDiv(a, b) == (a + b - 1) \div b
LiveCctpFee(amount, percent) == CeilDiv(CeilDiv(amount * percent, 100) * 120, 100)

-----------------------------------------------------------------------------
(* Quotes: POST /:linkId/quotes.                                           *)

Payable == intent.status = "awaiting_payment" /\ now < Expiry
QuotedAmounts == IF intent.mode = "fixed" THEN {intent.amount} ELSE Amounts

\* An unknown live fee refuses the quote: there is no fallback fee.
BuildQuote(wallet, route, amount) ==
    LET bps == ResolvePaymentFee(policy, route, amount)
    IN /\ Len(quotes) < MaxQuotes /\ Payable /\ bps # None
       /\ \E network \in IF route = "local" THEN {0}
                         ELSE {LiveCctpFee(amount, f) : f \in CircleFees} :
            LET platform == (amount * bps) \div Denominator
            IN quotes' = Append(quotes,
                 [payer |-> wallet, route |-> route, amount |-> amount,
                  bps |-> bps, platform |-> platform, network |-> network,
                  gross |-> amount + platform + network, policy |-> policy,
                  expires |-> now + QuoteTTL])
       /\ UNCHANGED <<now, changes, policy, preflight, router, observation,
                      intent, attempts, request, answers, charged, feeRow>>

-----------------------------------------------------------------------------
(* Attempts: POST /:linkId/attempts.                                       *)

SameKey(wallet, route, key) ==
    {a \in DOMAIN attempts :
       LET q == quotes[attempts[a].quote]
       IN q.payer = wallet /\ q.route = route /\ attempts[a].key = key}

\* A replay is answered to the holder of its capability, and to nobody else.
Answer(client, q, key) ==
    LET same == SameKey(quotes[q].payer, quotes[q].route, key)
    IN {[client |-> client, payer |-> quotes[q].payer, key |-> key,
         route |-> quotes[q].route, attempt |-> a] :
        a \in {b \in same : attempts[b].client = client}}

\* verifyCheckoutPayerProof: the quote's wallet signed link, quote and
\* capability.
ProvesPayer(client, q) == Wallet[client] = quotes[q].payer

\* The reads and checks of the handler; the request may also be limited.
PostAttempt(r, client, q, key) ==
    /\ request[r] = Idle
    /\ IF SameKey(quotes[q].payer, quotes[q].route, key) # {}
       THEN answers' = answers \cup Answer(client, q, key) /\ UNCHANGED request
       ELSE /\ now < quotes[q].expires /\ ProvesPayer(client, q)
            /\ quotes[q].amount \in QuotedAmounts
            /\ intent.mode = "fixed" \/ intent.status = "awaiting_payment"
            /\ request' = [request EXCEPT ![r] =
                 [pc |-> "authorize", client |-> client, quote |-> q, key |-> key]]
            /\ UNCHANGED answers
    /\ UNCHANGED <<now, changes, policy, preflight, router, observation, intent,
                   quotes, attempts, charged, feeRow>>

\* evaluatePaymentRouterObservation for the fee of the quote.
Ready(route, bps, seen) ==
    /\ seen.cap = Declared[route] /\ bps <= Declared[route]
    /\ seen.signer = Mine /\ (bps > 0 => seen.treasury = Mine)
    /\ ~seen.paused

\* cachedObservation: a recent read serves for ObservationTTL.
Observed(route) ==
    IF observation[route].until > now THEN observation[route].seen
    ELSE router[route]

\* collectPaymentRouterHealth, asked by /health: reads what is not cached.
CollectPaymentRouterHealth ==
    /\ preflight /\ \E r \in Routes : observation[r].until <= now
    /\ observation' = [r \in Routes |->
         IF observation[r].until > now THEN observation[r]
         ELSE [seen |-> router[r], until |-> now + ObservationTTL]]
    /\ UNCHANGED <<now, changes, policy, preflight, router, intent, quotes,
                   attempts, request, answers, charged, feeRow>>

\* authorizationWindow: the authorization ends with the quote and the intent.
VariantQuoteOnly(q) == IF now + AuthTTL < q.expires THEN now + AuthTTL ELSE q.expires
ValidUntil(q) ==
    LET limits == {now + AuthTTL, q.expires, Expiry}
    IN CHOOSE t \in limits : \A u \in limits : t <= u

\* authorizeAttempt; a refusal ends the request.
AuthorizeAttempt(r) ==
    /\ request[r].pc = "authorize"
    /\ LET q     == quotes[request[r].quote]
           seen  == Observed(q.route)
           until == ValidUntil(q)
           open  == now < q.expires /\ until > now + MinWindow
           ready == IF preflight THEN Ready(q.route, q.bps, seen) ELSE q.bps = 0
       IN /\ request' = [request EXCEPT ![r] =
               IF open /\ ready
               THEN [pc |-> "insert", client |-> @.client, quote |-> @.quote,
                     key |-> @.key, until |-> until,
                     seen |-> IF preflight THEN seen ELSE None]
               ELSE Idle]
          /\ observation' = IF preflight /\ open /\ observation[q.route].until <= now
                            THEN [observation EXCEPT ![q.route] =
                                    [seen |-> seen, until |-> now + ObservationTTL]]
                            ELSE observation
    /\ UNCHANGED <<now, changes, policy, preflight, router, intent, quotes,
                   attempts, answers, charged, feeRow>>

\* feeLedgerStatements: a line of zero is actual from the start.
NewFeeRow(q) == [platform |-> IF quotes[q].platform = 0 THEN 0 ELSE None,
                 network  |-> IF quotes[q].network = 0 THEN 0 ELSE None]

\* insertAttempt: the key is unique and the trigger wants a payable intent;
\* the fee rows are written with it.  After a lost race the winner is
\* answered, again only to the holder of its capability.
KeyIsFree(q, key) == SameKey(quotes[q].payer, quotes[q].route, key) = {}
InsertAttempt(r) ==
    /\ request[r].pc = "insert" /\ request' = [request EXCEPT ![r] = Idle]
    /\ LET q == request[r].quote
           a == Len(attempts) + 1
       IN IF KeyIsFree(q, request[r].key) /\ intent.status = "awaiting_payment"
          THEN /\ attempts' = Append(attempts,
                    [quote |-> q, client |-> request[r].client,
                     key |-> request[r].key, until |-> request[r].until,
                     seen |-> request[r].seen])
               /\ charged' = Append(charged, None)
               /\ feeRow' = Append(feeRow, NewFeeRow(q))
               /\ answers' = answers \cup
                    {[client |-> request[r].client, payer |-> quotes[q].payer,
                      key |-> request[r].key, route |-> quotes[q].route,
                      attempt |-> a]}
          ELSE /\ answers' = answers \cup
                    Answer(request[r].client, q, request[r].key)
               /\ UNCHANGED <<attempts, charged, feeRow>>
    /\ UNCHANGED <<now, changes, policy, preflight, router, observation, intent,
                   quotes>>

-----------------------------------------------------------------------------
(* The chain and the fee rows.                                             *)

\* What the router of the route checks; it is paid once per intent.
RouterAccepts(a) ==
    LET q == quotes[attempts[a].quote]
        c == router[q.route]
    IN /\ now <= attempts[a].until /\ ~c.paused /\ c.signer = Mine
       /\ q.platform <= (q.amount * c.cap) \div Denominator
       /\ q.gross = q.amount + q.platform + q.network
Paid(route) == \E b \in DOMAIN attempts :
                  charged[b] # None /\ quotes[attempts[b].quote].route = route

\* A burn costs at most the fee that was authorized.
Land(a) ==
    LET q == quotes[attempts[a].quote]
    IN /\ charged[a] = None /\ ~Paid(q.route) /\ RouterAccepts(a)
       /\ \E network \in 0..q.network :
            charged' = [charged EXCEPT ![a] =
              [platform |-> q.platform, network |-> network, at |-> now]]
       /\ UNCHANGED <<now, changes, policy, preflight, router, observation,
                      intent, quotes, attempts, request, answers, feeRow>>

\* recordAttemptFeeEvidence: the platform fee with the source event, the
\* network fee once the mint is known.
RecordAttemptFeeEvidence(a, minted) ==
    /\ charged[a] # None
    /\ charged[a].platform = quotes[attempts[a].quote].platform
    /\ minted => charged[a].network <= quotes[attempts[a].quote].network
    /\ feeRow' = [feeRow EXCEPT
         ![a].platform = charged[a].platform,
         ![a].network  = IF minted THEN charged[a].network ELSE @]
    /\ UNCHANGED <<now, changes, policy, preflight, router, observation, intent,
                   quotes, attempts, request, answers, charged>>

-----------------------------------------------------------------------------
(* The environment.                                                        *)

Change == changes < MaxChanges /\ changes' = changes + 1
rest == <<quotes, attempts, request, answers, charged, feeRow>>

PolicyChanges(p) ==
    /\ Change /\ p # policy /\ policy' = p
    /\ UNCHANGED <<now, preflight, router, observation, intent, rest>>
RouterChanges(route) ==
    /\ Change
    /\ \E c \in {[router[route] EXCEPT !.paused = ~@],
                 [router[route] EXCEPT !.signer = Other],
                 [router[route] EXCEPT !.treasury = Other]} :
         c # router[route] /\ router' = [router EXCEPT ![route] = c]
    /\ UNCHANGED <<now, policy, preflight, observation, intent, rest>>
\* Paid, canceled: PaymentSettlement.
IntentCloses ==
    /\ intent.status = "awaiting_payment"
    /\ intent' = [intent EXCEPT !.status = "closed"]
    /\ UNCHANGED <<now, changes, policy, preflight, router, observation, rest>>
Tick ==
    /\ now < MaxTime /\ now' = now + 1
    /\ UNCHANGED <<changes, policy, preflight, router, observation, intent, rest>>

Next ==
    \/ \E c \in Clients, route \in Routes, a \in QuotedAmounts :
         BuildQuote(Wallet[c], route, a)
    \/ \E r \in Requests :
         \/ \E c \in Clients, q \in DOMAIN quotes, k \in Keys : PostAttempt(r, c, q, k)
         \/ AuthorizeAttempt(r) \/ InsertAttempt(r)
    \/ \E a \in DOMAIN attempts :
         Land(a) \/ \E minted \in BOOLEAN : RecordAttemptFeeEvidence(a, minted)
    \/ \E p \in Policies : PolicyChanges(p)
    \/ \E route \in Routes : RouterChanges(route)
    \/ CollectPaymentRouterHealth \/ IntentCloses \/ Tick

Spec == Init /\ [][Next]_vars

-----------------------------------------------------------------------------
\* An authorization checked by the preflight can be executed until it ends,
\* as long as nobody changes the router again: it was not signed for a paused
\* router, another signer, another treasury or a fee above the deployed cap.
AuthorizedIsPayable ==
    \A a \in DOMAIN attempts :
      LET q == quotes[attempts[a].quote]
      IN ( /\ now <= attempts[a].until /\ attempts[a].seen = router[q.route]) =>
           RouterAccepts(a) /\ (q.bps > 0 => router[q.route].treasury = Mine)

\* However requests race and are retried, the payer of a landed payment never
\* pays more than the gross amount quoted, nor after the intent expired, and a
\* fee row that knows the actual amount says what was charged.
ChargedAsQuoted ==
    \A a \in DOMAIN attempts :
      LET q == quotes[attempts[a].quote]
      IN charged[a] # None =>
           /\ q.amount + charged[a].platform + charged[a].network <= q.gross
           /\ charged[a].at <= Expiry
           /\ feeRow[a].platform \in {None, charged[a].platform}
           /\ feeRow[a].network \in {None, charged[a].network}

\* Requests with one Idempotency-Key, payer and chain get one attempt however
\* they race, and only the client that holds its capability gets it.
SameKeySameAttempt ==
    \A x \in answers :
      /\ attempts[x.attempt].client = x.client
      /\ \A y \in answers :
           (x.payer = y.payer /\ x.key = y.key /\ x.route = y.route) =>
             x.attempt = y.attempt

\* "Top-priority rules disagree; GatoPago refuses to choose silently."
\* (docs/api.md).  Violated with three rules: only the first two of the top
\* priority are compared.
TopRulesAgree ==
    \A q \in Range(quotes) :
      \A a, b \in Candidates(q.policy, q.route, q.amount) :
        ( /\ \A c \in Candidates(q.policy, q.route, q.amount) :
               a.priority >= c.priority /\ b.priority >= c.priority) =>
          a.bps = b.bps
=============================================================================
