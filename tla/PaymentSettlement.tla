------------------------- MODULE PaymentSettlement -------------------------
(***************************************************************************)
(* The economic core of the Payments Worker: payment intents, the checkout *)
(* attempts that pay them, the router contracts that execute a signed      *)
(* attempt on a source chain, and the workers that turn on-chain evidence  *)
(* into a settlement.  Every read of D1 that is followed by an await, and  *)
(* every D1 batch, is a step of its own; a batch is atomic.                *)
(*                                                                         *)
(* An `events` row stands for the rows that each batch writes together:    *)
(* the event, its payment_outbox row and its webhook_deliveries.           *)
(***************************************************************************)
EXTENDS Integers, FiniteSets, FiniteSetsExt, TLC

CONSTANTS Intents,        \* payment_intents rows the run may create
          Attempts,       \* payment_attempts rows the run may create
          Chains,         \* source chains, one router contract on each
          Home,           \* the settlement chain: its route is "local"
          Workers,        \* concurrent executions: queue jobs and requests
          UserOps,        \* UserOperation hashes the App may report
          Kinds,          \* who may reserve: see Attempt
          Modes,          \* API modes in use, of {"test", "live"}
          AmountModes,    \* of {"fixed", "payer_defined"}
          Amounts,        \* atomic USDC amounts a merchant or payer may choose
          MaxCctpFee,     \* cctp_fee_atomic: the quoted ceiling of a burn's fee
          None,           \* SQL NULL
          IntentTtl,      \* life of an intent
          AuthTtl,        \* PAYMENT_AUTHORIZATION_TTL_SECONDS
          Grace,          \* ATTEMPT_EVIDENCE_GRACE_SECONDS
          SettleRetries,  \* rounds of the compare-and-set loop (5 in the code)
          MaxTime,        \* bound on the clock
          MaxCrashes      \* bound on executions lost half-way

ASSUME ConstantsAssumption ==
    /\ Kinds \subseteq {"checkout", "app", "legacy"}
    /\ Modes \subseteq {"test", "live"}
    /\ AmountModes \subseteq {"fixed", "payer_defined"}
    /\ Amounts \subseteq Nat \ {0}
    /\ MaxCctpFee \in Nat
    /\ Home \in Chains
    /\ IntentTtl \in Nat /\ AuthTtl \in Nat /\ Grace \in Nat
    /\ SettleRetries \in Nat \ {0}
    /\ MaxTime \in Nat /\ MaxCrashes \in Nat

ASSUME NoneAssumption ==
    /\ None \notin Intents \cup Attempts \cup Chains \cup UserOps

VARIABLES
    now,        \* wall clock, shared by D1, the workers and block.timestamp
    intent,     \* payment_intents
    link,       \* payment_links, one per intent
    attempt,    \* payment_attempts
    fee,        \* payment_fee_ledger: the lines with their actual amount
    burns,      \* crosschain_operations: attempts with an operation row
    minted,     \* minted_amount_atomic of the operation, 0 while NULL
    commits,    \* payment_settlement_commits
    events,     \* events with their outbox row and deliveries
    paidIntent, \* paidIntent of the router of each chain
    logs,       \* attempts whose PaymentSettled log is on its chain
    worker,     \* local state of each execution
    crashes     \* executions lost so far

intentVars == <<intent, link>>
relayVars == <<burns, minted>>
ledgerVars == <<commits, events>>
chainVars == <<paidIntent, logs>>
envVars == <<now, crashes>>
vars == <<intentVars, attempt, fee, relayVars, ledgerVars, chainVars, worker,
          envVars>>

-----------------------------------------------------------------------------
(* Rows.                                                                   *)

IntentStatuses == {"none", "awaiting_payment", "paid", "overpaid", "canceled"}
LinkStatuses == {"none", "pending", "paid", "canceled"}
ActiveStatuses == {"reserved", "submitted", "processing"}
SettledStatuses == {"paid", "overpaid"}
AttemptStatuses == {"none", "expired", "canceled"} \cup ActiveStatuses
                      \cup SettledStatuses

Intent == [status: IntentStatuses, amountMode: {"fixed", "payer_defined"},
           mode: {"test", "live"}, amount: Nat, paid: Nat, expiresAt: Int]
Link == [status: LinkStatuses, amount: Nat]
\* A checkout attempt is executed by the payer's own wallet and carries a
\* capability; an app attempt is executed by a UserOperation of the payer's
\* smart account; a legacy attempt is a wallet's, without a capability.
Attempt == [status: AttemptStatuses, intent: Intents \cup {None},
            chain: Chains \cup {None}, kind: {"checkout", "app", "legacy"},
            amount: Nat, validUntil: Int,
            sourceTx: BOOLEAN, userOp: UserOps \cup {None}]
Commit == [attempt: Attempts, intent: Intents, previous: Nat, settled: Nat,
           resulting: Nat, expected: Nat, status: SettledStatuses]
Event == [kind: {"created", "settlement", "sandbox"}, intent: Intents,
          attempt: Attempts \cup {None},
          type: {"payment.created", "payment.paid", "payment.overpaid"},
          paid: Nat]
Worker == [pc: {"idle", "reconcile", "fee", "read", "commit", "simulate"},
           attempt: Attempts \cup {None}, intent: Intents \cup {None},
           settled: Nat, previous: Nat, expected: Nat, retry: Nat]

FeeLines == {"platform", "network"}

TypeOK ==
    /\ now \in Nat
    /\ intent \in [Intents -> Intent]
    /\ link \in [Intents -> Link]
    /\ attempt \in [Attempts -> Attempt]
    /\ fee \in [Attempts -> SUBSET FeeLines]
    /\ burns \subseteq Attempts
    /\ minted \in [Attempts -> Nat]
    /\ commits \subseteq Commit
    /\ events \subseteq Event
    /\ paidIntent \subseteq Chains \X Intents
    /\ logs \subseteq Attempts
    /\ worker \in [Workers -> Worker]
    /\ crashes \in Nat

NoIntent == [status |-> "none", amountMode |-> "fixed", mode |-> "live",
             amount |-> 0, paid |-> 0, expiresAt |-> 0]
NoAttempt == [status |-> "none", intent |-> None, chain |-> None,
              kind |-> "checkout", amount |-> 0, validUntil |-> 0,
              sourceTx |-> FALSE, userOp |-> None]
Idle == [pc |-> "idle", attempt |-> None, intent |-> None,
         settled |-> 0, previous |-> 0, expected |-> 0, retry |-> 0]

Init ==
    /\ now = 0
    /\ intent = [i \in Intents |-> NoIntent]
    /\ link = [i \in Intents |-> [status |-> "none", amount |-> 0]]
    /\ attempt = [a \in Attempts |-> NoAttempt]
    /\ fee = [a \in Attempts |-> {}]
    /\ burns = {}
    /\ minted = [a \in Attempts |-> 0]
    /\ commits = {}
    /\ events = {}
    /\ paidIntent = {}
    /\ logs = {}
    /\ worker = [w \in Workers |-> Idle]
    /\ crashes = 0

\* INSERT OR IGNORE INTO events: the id is derived from the kind and subject.
WithEvent(e) ==
    IF \E old \in events : /\ old.kind = e.kind
                           /\ old.intent = e.intent
                           /\ old.attempt = e.attempt
      THEN events
      ELSE events \cup {e}

-----------------------------------------------------------------------------
(* Merchant operations.                                                    *)

\* createIntentAndLink: intent, link and payment.created in one batch.
CreateIntent(i, amountMode, mode, amount) ==
    /\ intent[i].status = "none"
    /\ intent' = [intent EXCEPT ![i] =
                    [status |-> "awaiting_payment", amountMode |-> amountMode,
                     mode |-> mode, amount |-> amount, paid |-> 0,
                     expiresAt |-> now + IntentTtl]]
    /\ link' = [link EXCEPT ![i] = [status |-> "pending", amount |-> amount]]
    /\ events' = WithEvent([kind |-> "created", intent |-> i, attempt |-> None,
                            type |-> "payment.created", paid |-> 0])
    /\ UNCHANGED <<attempt, fee, commits, worker, relayVars, chainVars,
                   envVars>>

\* Variant: the UPDATE of cancelPaymentIntent without its status condition.
CancelableAnyStatus(i) == intent[i].status # "none"

\* The WHERE clause of cancelPaymentIntent.
Cancelable(i) == intent[i].status = "awaiting_payment"

\* cancelPaymentIntent: the intent and its link in one batch.
CancelPaymentIntent(i) ==
    /\ Cancelable(i)
    /\ intent' = [intent EXCEPT ![i].status = "canceled"]
    /\ link' = [link EXCEPT ![i].status = "canceled"]
    /\ UNCHANGED <<attempt, fee, worker, relayVars, ledgerVars, chainVars,
                   envVars>>

\* simulatePaymentIntent, first half: the read that decides to go on.
SimulateRead(w, i) ==
    /\ worker[w].pc = "idle"
    /\ intent[i].status = "awaiting_payment"
    /\ intent[i].mode = "test"
    /\ worker' = [worker EXCEPT ![w] = [Idle EXCEPT !.pc = "simulate",
                                                    !.intent = i,
                                                    !.expected = intent[i].amount]]
    /\ UNCHANGED <<attempt, fee, intentVars, relayVars, ledgerVars, chainVars,
                   envVars>>

\* Variant: the link's UPDATE without its status condition.
LinkOpenAlways(i) == TRUE

\* The WHERE clause of simulatePaymentIntent's UPDATE of the link.
LinkOpen(i) == link[i].status = "pending"

\* simulatePaymentIntent, second half: the batch.  Only the intent's UPDATE
\* and the link's carry a condition; the event, outbox and deliveries do not.
SimulateBatch(w) ==
    LET i == worker[w].intent IN
    /\ worker[w].pc = "simulate"
    /\ intent' = IF intent[i].status = "awaiting_payment"
                   THEN [intent EXCEPT ![i].status = "paid",
                                       ![i].paid = intent[i].amount]
                   ELSE intent
    /\ link' = IF LinkOpen(i)
                 THEN [link EXCEPT ![i].status = "paid"]
                 ELSE link
    /\ events' = WithEvent([kind |-> "sandbox", intent |-> i, attempt |-> None,
                            type |-> "payment.paid",
                            paid |-> worker[w].expected])
    /\ worker' = [worker EXCEPT ![w] = Idle]
    /\ UNCHANGED <<attempt, fee, commits, relayVars, chainVars, envVars>>

-----------------------------------------------------------------------------
(* Attempts.                                                               *)

\* The trigger payment_attempt_matches_payable_intent.
PayableBy(i, amount) ==
    /\ intent[i].status = "awaiting_payment"
    /\ \/ intent[i].amountMode = "fixed" /\ intent[i].amount = amount
       \/ intent[i].amountMode = "payer_defined" /\ intent[i].paid = 0

\* authorizationWindow: the signed window never outlives the intent.
ValidUntil(i) ==
    IF now + AuthTtl < intent[i].expiresAt THEN now + AuthTtl
                                           ELSE intent[i].expiresAt

\* insertAttempt and insertQuoteAndAttempt, with the authorization signed just
\* before: from here on the payer holds a signature the router accepts.
ReserveAttempt(a, i, c, kind, amount) ==
    /\ attempt[a].status = "none"
    /\ PayableBy(i, amount)
    /\ kind = "app" => c = Home
    /\ kind = "legacy" => intent[i].amountMode = "fixed"
    /\ ValidUntil(i) > now
    /\ attempt' = [attempt EXCEPT ![a] =
                     [status |-> "reserved", intent |-> i, chain |-> c,
                      kind |-> kind, amount |-> amount,
                      validUntil |-> ValidUntil(i),
                      sourceTx |-> FALSE, userOp |-> None]]
    /\ UNCHANGED <<fee, worker, intentVars, relayVars, ledgerVars, chainVars,
                   envVars>>

\* registerAppExecution: the App reports the UserOperation it submitted.
RegisterAppExecution(a, u) ==
    /\ attempt[a].kind = "app"
    /\ attempt[a].status \in ActiveStatuses \cup {"paid"}
    /\ attempt[a].userOp \in {None, u}
    /\ attempt' = [attempt EXCEPT
                     ![a].status = IF @ = "reserved" THEN "submitted" ELSE @,
                     ![a].userOp = u]
    /\ UNCHANGED <<fee, worker, intentVars, relayVars, ledgerVars, chainVars,
                   envVars>>

\* registerAttempt: the browser reports a transaction; the receipt is checked
\* against the attempt before registerSourceTransaction stores its hash.
RegisterSourceTransaction(a) ==
    /\ attempt[a].kind = "checkout"
    /\ attempt[a].status \in ActiveStatuses \cup SettledStatuses
    /\ a \in logs
    /\ attempt' = [attempt EXCEPT
                     ![a].status = IF @ = "reserved" THEN "submitted" ELSE @,
                     ![a].sourceTx = TRUE]
    /\ UNCHANGED <<fee, worker, intentVars, relayVars, ledgerVars, chainVars,
                   envVars>>

\* cancelAttempt: only a reservation nobody has reported a transaction for.
CancelAttempt(a) ==
    /\ attempt[a].kind = "checkout"
    /\ attempt[a].status = "reserved"
    /\ ~attempt[a].sourceTx
    /\ attempt[a].userOp = None
    /\ attempt' = [attempt EXCEPT ![a].status = "canceled"]
    /\ UNCHANGED <<fee, worker, intentVars, relayVars, ledgerVars, chainVars,
                   envVars>>

\* The attempts of an intent that releaseExpiredPayerDefinedAmount expires.
Overdue(i) == {a \in Attempts : /\ attempt[a].intent = i
                                /\ attempt[a].status \in {"reserved", "submitted"}
                                /\ attempt[a].validUntil < now - Grace}

\* Whether releaseExpiredPayerDefinedAmount resets the amount of the intent.
AmountReleased(i) ==
    /\ intent[i].amountMode = "payer_defined"
    /\ intent[i].status = "awaiting_payment"
    /\ ~\E a \in Attempts \ Overdue(i) : /\ attempt[a].intent = i
                                         /\ attempt[a].status \in ActiveStatuses

\* releaseExpiredPayerDefinedAmount, run by every checkout read, quote and
\* reservation of the intent's link.
ReleaseExpired(i) ==
    LET amount == IF AmountReleased(i) THEN 0 ELSE intent[i].amount IN
    /\ attempt' = [a \in Attempts |-> IF a \in Overdue(i)
                                        THEN [attempt[a] EXCEPT !.status = "expired"]
                                        ELSE attempt[a]]
    /\ intent' = [intent EXCEPT ![i].amount = amount]
    /\ link' = IF intent[i].amountMode = "payer_defined" /\ amount = 0
                 THEN [link EXCEPT ![i].amount = 0]
                 ELSE link
    /\ UNCHANGED <<fee, worker, relayVars, ledgerVars, chainVars, envVars>>

-----------------------------------------------------------------------------
(* The router contract of a chain: ParmeliaPaymentRouterV2 on Home,        *)
(* ParmeliaCctpPaymentRouter elsewhere.                                    *)

\* Variant: a router that forgets which intents it has been paid for.
RouterAcceptsAgain(a) ==
    /\ attempt[a].status # "none"
    /\ now <= attempt[a].validUntil
    /\ a \notin logs

\* _validateAuthorization: any signature that was returned to the payer, inside
\* its window, for an attempt and an intent this router has not been paid for.
RouterAccepts(a) ==
    /\ attempt[a].status # "none"
    /\ now <= attempt[a].validUntil
    /\ a \notin logs
    /\ <<attempt[a].chain, attempt[a].intent>> \notin paidIntent

\* _settle and _burn: the payer executes the signed authorization inside its
\* window.  The contract knows nothing of the attempt's or the intent's row.
RouterPay(a) ==
    /\ RouterAccepts(a)
    /\ logs' = logs \cup {a}
    /\ paidIntent' = paidIntent \cup {<<attempt[a].chain, attempt[a].intent>>}
    /\ UNCHANGED <<attempt, fee, worker, intentVars, relayVars, ledgerVars,
                   envVars>>

-----------------------------------------------------------------------------
(* Reconciliation and settlement.                                          *)

\* scanPaymentRouters for one log: markAttemptProcessing, then reconcile.
ScanLog(w, a) ==
    /\ worker[w].pc = "idle"
    /\ a \in logs
    /\ attempt' = [attempt EXCEPT
                     ![a].status = IF @ \in {"reserved", "submitted"}
                                     THEN "processing" ELSE @,
                     ![a].sourceTx = TRUE]
    /\ worker' = [worker EXCEPT ![w] = [Idle EXCEPT !.pc = "reconcile",
                                                    !.attempt = a]]
    /\ UNCHANGED <<fee, intentVars, relayVars, ledgerVars, chainVars, envVars>>

\* An attempt_reconcile job: nothing to do until a transaction is known.
ReconcileJob(w, a) ==
    /\ worker[w].pc = "idle"
    /\ attempt[a].sourceTx
    /\ worker' = [worker EXCEPT ![w] = [Idle EXCEPT !.pc = "reconcile",
                                                    !.attempt = a]]
    /\ UNCHANGED <<attempt, fee, intentVars, relayVars, ledgerVars, chainVars,
                   envVars>>

\* validatePaymentSourceReceipt: the transaction's sender must be the payer and
\* its target the router.  A UserOperation's transaction goes from a bundler
\* to the EntryPoint, so only a wallet's own transaction passes.
EvidenceValid(a) == a \in logs /\ attempt[a].kind # "app"

\* What reconcileLocal and reconcileBurn do first: leave an attempt that is
\* settled alone, and refuse (by throwing) evidence that does not match.
Reconcilable(w) ==
    LET a == worker[w].attempt IN
    /\ worker[w].pc = "reconcile"
    /\ attempt[a].status \notin SettledStatuses
    /\ EvidenceValid(a)

ReconcileRefused(w) ==
    /\ worker[w].pc = "reconcile"
    /\ ~Reconcilable(w)
    /\ worker' = [worker EXCEPT ![w] = Idle]
    /\ UNCHANGED <<attempt, fee, intentVars, relayVars, ledgerVars, chainVars,
                   envVars>>

\* reconcileLocal: settleAttempt with the amount of the PaymentSettled log.
ReconcileLocal(w) ==
    LET a == worker[w].attempt IN
    /\ Reconcilable(w)
    /\ attempt[a].chain = Home
    /\ worker' = [worker EXCEPT ![w].pc = "fee", ![w].settled = attempt[a].amount]
    /\ UNCHANGED <<attempt, fee, intentVars, relayVars, ledgerVars, chainVars,
                   envVars>>

\* reconcileBurn: three idempotent writes (the operation row, the platform
\* fee line, markAttemptProcessing); the settlement waits for the mint.
ReconcileBurn(w) ==
    LET a == worker[w].attempt IN
    /\ Reconcilable(w)
    /\ attempt[a].chain # Home
    /\ burns' = burns \cup {a}
    /\ fee' = [fee EXCEPT ![a] = @ \cup {"platform"}]
    /\ attempt' = [attempt EXCEPT
                     ![a].status = IF @ \in {"reserved", "submitted"}
                                     THEN "processing" ELSE @,
                     ![a].sourceTx = TRUE]
    /\ worker' = [worker EXCEPT ![w] = Idle]
    /\ UNCHANGED <<minted, intentVars, ledgerVars, chainVars, envVars>>

\* The CCTP relay as this module needs it: Circle attests the burn and the
\* message is minted on Home.  The merchant receives the burned amount (the
\* settlement amount plus the quoted fee ceiling) less the fee Circle took.
CctpMint(a, charged) ==
    /\ a \in burns
    /\ minted[a] = 0
    /\ minted' = [minted EXCEPT ![a] = attempt[a].amount + MaxCctpFee - charged]
    /\ fee' = [fee EXCEPT ![a] = FeeLines]
    /\ UNCHANGED <<attempt, burns, worker, intentVars, ledgerVars, chainVars,
                   envVars>>

\* mintCctpSettlement finds the nonce used: finalizeCctpSettlement settles.
\* settleAttempt leaves at once when its first read shows a settled attempt.
FinalizeCctp(w, a) ==
    /\ worker[w].pc = "idle"
    /\ minted[a] > 0
    /\ attempt[a].status \notin SettledStatuses
    /\ worker' = [worker EXCEPT ![w] = [Idle EXCEPT !.pc = "fee", !.attempt = a,
                                                    !.settled = minted[a]]]
    /\ UNCHANGED <<attempt, fee, intentVars, relayVars, ledgerVars, chainVars,
                   envVars>>

\* recordAttemptFeeEvidence, committed before the settlement itself.
RecordFeeEvidence(w) ==
    /\ worker[w].pc = "fee"
    /\ fee' = [fee EXCEPT ![worker[w].attempt] = FeeLines]
    /\ worker' = [worker EXCEPT ![w].pc = "read"]
    /\ UNCHANGED <<attempt, intentVars, relayVars, ledgerVars, chainVars,
                   envVars>>

\* expected of settleAttempt: the first settlement of an open intent fixes it.
ExpectedAmount(a) ==
    LET row == intent[attempt[a].intent] IN
    IF row.amountMode = "payer_defined" /\ row.paid = 0
      THEN attempt[a].amount
      ELSE row.amount

\* The reads that open a round of settleAttempt's loop.
SettleRead(w) ==
    LET a == worker[w].attempt IN
    /\ worker[w].pc = "read"
    /\ worker' = [worker EXCEPT ![w] =
                    IF attempt[a].status \in ActiveStatuses
                      THEN [@ EXCEPT !.pc = "commit",
                                     !.previous = intent[attempt[a].intent].paid,
                                     !.expected = ExpectedAmount(a)]
                      ELSE Idle]
    /\ UNCHANGED <<attempt, fee, intentVars, relayVars, ledgerVars, chainVars,
                   envVars>>

\* Variant: a batch without the compare-and-set on paid_amount_atomic.
CommitGuardNoCas(a, previous) ==
    /\ attempt[a].status \in ActiveStatuses
    /\ ~\E c \in commits : c.attempt = a

\* Variant: a batch that refuses a payment of a canceled intent.
CommitGuardNotCanceled(a, previous) ==
    LET i == attempt[a].intent IN
    /\ intent[i].paid = previous
    /\ intent[i].status \in {"awaiting_payment", "paid", "overpaid"}
    /\ attempt[a].status \in ActiveStatuses
    /\ ~\E c \in commits : c.attempt = a

\* The condition under which the batch inserts its commit row.
CommitGuard(a, previous) ==
    LET i == attempt[a].intent IN
    /\ intent[i].paid = previous
    /\ intent[i].status \in {"awaiting_payment", "paid", "overpaid", "canceled"}
    /\ attempt[a].status \in ActiveStatuses
    /\ ~\E c \in commits : c.attempt = a

\* The batch of settleAttempt when its commit row was inserted.
SettleCommit(w) ==
    LET a == worker[w].attempt
        i == attempt[a].intent
        paid == worker[w].previous + worker[w].settled
        expected == worker[w].expected
        status == IF paid > expected THEN "overpaid" ELSE "paid"
    IN
    /\ worker[w].pc = "commit"
    /\ CommitGuard(a, worker[w].previous)
    /\ commits' = commits \cup
                    {[attempt |-> a, intent |-> i, previous |-> worker[w].previous,
                      settled |-> worker[w].settled, resulting |-> paid,
                      expected |-> expected, status |-> status]}
    /\ attempt' = [attempt EXCEPT ![a].status = status, ![a].sourceTx = TRUE]
    /\ intent' = [intent EXCEPT ![i].amount = expected, ![i].status = status,
                                ![i].paid = paid]
    /\ link' = [link EXCEPT ![i].amount = IF @ = 0 THEN expected ELSE @,
                            ![i].status = "paid"]
    /\ events' = WithEvent([kind |-> "settlement", intent |-> i, attempt |-> a,
                            type |-> IF status = "overpaid"
                                       THEN "payment.overpaid"
                                       ELSE "payment.paid",
                            paid |-> paid])
    /\ worker' = [worker EXCEPT ![w] = Idle]
    /\ UNCHANGED <<fee, relayVars, chainVars, envVars>>

\* The batch when another writer moved the intent or the attempt: nothing is
\* written and the loop starts over, until the rounds are used up.
SettleConflict(w) ==
    /\ worker[w].pc = "commit"
    /\ ~CommitGuard(worker[w].attempt, worker[w].previous)
    /\ worker' = [worker EXCEPT ![w] =
                    IF worker[w].retry + 1 < SettleRetries
                      THEN [worker[w] EXCEPT !.pc = "read", !.retry = @ + 1]
                      ELSE Idle]
    /\ UNCHANGED <<attempt, fee, intentVars, relayVars, ledgerVars, chainVars,
                   envVars>>

-----------------------------------------------------------------------------
(* Environment.                                                            *)

\* An execution dies between two of its steps (eviction, CPU limit, D1 error).
Crash(w) ==
    /\ crashes < MaxCrashes
    /\ worker[w].pc # "idle"
    /\ worker' = [worker EXCEPT ![w] = Idle]
    /\ crashes' = crashes + 1
    /\ UNCHANGED <<now, attempt, fee, intentVars, relayVars, ledgerVars,
                   chainVars>>

Tick ==
    /\ now < MaxTime
    /\ now' = now + 1
    /\ UNCHANGED <<attempt, fee, worker, crashes, intentVars, relayVars,
                   ledgerVars, chainVars>>

CreateSome ==
    \E i \in Intents, mode \in Modes, amountMode \in AmountModes,
       amount \in Amounts \cup {0} :
        /\ amount = 0 <=> amountMode = "payer_defined"
        /\ CreateIntent(i, amountMode, mode, amount)

ReserveSome ==
    \E a \in Attempts, i \in Intents, c \in Chains, amount \in Amounts,
       kind \in Kinds :
        ReserveAttempt(a, i, c, kind, amount)

Next ==
    \/ CreateSome
    \/ \E i \in Intents : CancelPaymentIntent(i)
    \/ \E i \in Intents : ReleaseExpired(i)
    \/ \E w \in Workers, i \in Intents : SimulateRead(w, i)
    \/ \E w \in Workers : SimulateBatch(w)
    \/ ReserveSome
    \/ \E a \in Attempts, u \in UserOps : RegisterAppExecution(a, u)
    \/ \E a \in Attempts : RegisterSourceTransaction(a)
    \/ \E a \in Attempts : CancelAttempt(a)
    \/ \E a \in Attempts : RouterPay(a)
    \/ \E w \in Workers, a \in Attempts : ScanLog(w, a)
    \/ \E w \in Workers, a \in Attempts : ReconcileJob(w, a)
    \/ \E w \in Workers : ReconcileRefused(w)
    \/ \E w \in Workers : ReconcileLocal(w)
    \/ \E w \in Workers : ReconcileBurn(w)
    \/ \E a \in Attempts, charged \in 0..MaxCctpFee : CctpMint(a, charged)
    \/ \E w \in Workers, a \in Attempts : FinalizeCctp(w, a)
    \/ \E w \in Workers : RecordFeeEvidence(w)
    \/ \E w \in Workers : SettleRead(w)
    \/ \E w \in Workers : SettleCommit(w)
    \/ \E w \in Workers : SettleConflict(w)
    \/ \E w \in Workers : Crash(w)
    \/ Tick

Spec == Init /\ [][Next]_vars

\* Queue messages and the minute cron are delivered until their job succeeds,
\* so a scan or a finalization that stays due starts again and again; a running
\* execution takes its next step; Circle attests every finalized burn.
WorkerStep(w) ==
    \/ ReconcileRefused(w) \/ ReconcileLocal(w) \/ ReconcileBurn(w)
    \/ RecordFeeEvidence(w) \/ SettleRead(w) \/ SettleCommit(w)
    \/ SettleConflict(w) \/ SimulateBatch(w)
Fairness ==
    /\ \A w \in Workers : WF_vars(WorkerStep(w))
    /\ \A a \in Attempts : /\ SF_vars(\E w \in Workers : ScanLog(w, a))
                           /\ SF_vars(\E w \in Workers : FinalizeCctp(w, a))
                           /\ WF_vars(\E charged \in 0..MaxCctpFee :
                                          CctpMint(a, charged))

FairSpec == Spec /\ Fairness

\* Attempts and executions are interchangeable: no definition names one of them.
Symmetry == Permutations(Attempts) \cup Permutations(Workers)

-----------------------------------------------------------------------------
(* Properties.                                                             *)

CommitsOf(i) == {c \in commits : c.intent = i}

\* settleAttempt's compare-and-set never loses or doubles a payment: the
\* commits of an intent are consecutive, disjoint increments of its
\* paid_amount_atomic, they end at its current value, and on a live intent
\* they start at zero (a sandbox simulation may have set a first value).
LedgerChain ==
    \A i \in Intents :
        /\ \A c \in CommitsOf(i) :
             /\ c.settled > 0
             /\ c.resulting = c.previous + c.settled
             /\ c.resulting <= intent[i].paid
             /\ \/ \E d \in CommitsOf(i) : d.resulting = c.previous
                \/ intent[i].mode = "live" => c.previous = 0
        /\ \A c, d \in CommitsOf(i) :
             c # d => c.resulting <= d.previous \/ d.resulting <= c.previous
        /\ CommitsOf(i) # {} =>
             \E c \in CommitsOf(i) : c.resulting = intent[i].paid

\* What a live intent reports as paid is exactly the sum of the settlements
\* recorded for it, whatever interleaving of workers wrote them.
PaidIsSumOfSettlements ==
    \A i \in Intents :
        intent[i].mode = "live" =>
            intent[i].paid = MapThenSumSet(LAMBDA c : c.settled, CommitsOf(i))

\* The status an intent shows agrees with its money: nothing is paid before a
\* settlement, "paid" is the exact amount and "overpaid" is more, even though
\* settleAttempt computes the status from rows it read before its batch.
StatusMatchesPaid ==
    \A i \in Intents :
        CASE intent[i].status = "paid"     -> intent[i].paid = intent[i].amount
          [] intent[i].status = "overpaid" -> intent[i].paid > intent[i].amount
          [] OTHER                         -> intent[i].paid = 0

\* The payer's view (the link) and the merchant's (the intent) always agree on
\* status and amount, although cancel, simulate and settle each update the two
\* tables under conditions of their own.
LinkAgreesWithIntent ==
    \A i \in Intents :
        /\ link[i].status = CASE intent[i].status = "none" -> "none"
                              [] intent[i].status = "awaiting_payment" -> "pending"
                              [] intent[i].status = "canceled" -> "canceled"
                              [] OTHER -> "paid"
        /\ link[i].amount = intent[i].amount

\* Every settlement is announced by exactly one event with the status and the
\* cumulative amount of its commit, and no other settlement event exists, under
\* duplicate jobs, conflicting batches and crashes.
EventPerCommit ==
    /\ \A c \in commits :
         \E e \in events : /\ e.kind = "settlement"
                           /\ e.attempt = c.attempt
                           /\ e.intent = c.intent
                           /\ e.paid = c.resulting
                           /\ e.type = IF c.status = "overpaid"
                                         THEN "payment.overpaid"
                                         ELSE "payment.paid"
    /\ \A e \in events :
         e.kind = "settlement" => \E c \in commits : c.attempt = e.attempt
    /\ \A e, f \in events :
         e.kind = "settlement" /\ f.kind = "settlement" /\ e.attempt = f.attempt
           => e = f

\* No settlement without on-chain evidence: the attempt's log is on its chain,
\* at least the signed amount reached the merchant, both fee lines have their
\* actual amount, and a chain's router paid an intent at most once.
SettlementHasEvidence ==
    /\ \A c \in commits :
         /\ c.attempt \in logs
         /\ c.intent = attempt[c.attempt].intent
         /\ c.settled >= attempt[c.attempt].amount
         /\ fee[c.attempt] = FeeLines
         /\ attempt[c.attempt].status = c.status
    /\ \A c, d \in commits :
         /\ c # d
         /\ c.intent = d.intent
         => attempt[c.attempt].chain # attempt[d.attempt].chain

\* A settled intent never returns to a payable or canceled status, an overpaid
\* one never to paid, the paid amount never shrinks and commits are append-only.
SettlementIsFinal ==
    [][/\ \A i \in Intents :
            /\ intent[i].status \in SettledStatuses =>
                 intent'[i].status \in SettledStatuses
            /\ intent[i].status = "overpaid" => intent'[i].status = "overpaid"
            /\ intent'[i].paid >= intent[i].paid
       /\ commits \subseteq commits']_vars

\* A wallet's payment that a router accepted is eventually settled, unless its
\* attempt was canceled or expired meanwhile: duplicate scans, crashes and lost
\* compare-and-set rounds only delay it.
RouterPaymentSettles ==
    \A a \in Attempts :
        (a \in logs /\ attempt[a].kind # "app") ~>
            attempt[a].status \in SettledStatuses \cup {"canceled", "expired"}

\* docs: a signature already issued may be executed until valid_until "y debe
\* reconciliarse".  A canceled attempt's signature stays valid for the router,
\* and an attempt expires while its payment may not have been scanned yet; in
\* both cases settleAttempt leaves without settling.
EveryWalletPaymentSettles ==
    \A a \in Attempts :
        (a \in logs /\ attempt[a].kind # "app") ~>
            attempt[a].status \in SettledStatuses

\* docs: payment.paid fires for a payment with a GatoPago balance ("Flow A").
\* Its transaction is sent by a bundler to the EntryPoint, which
\* validatePaymentSourceReceipt refuses as evidence.
AppPaymentSettles ==
    \A a \in Attempts :
        (a \in logs /\ attempt[a].kind = "app") ~>
            attempt[a].status \in SettledStatuses

\* docs: payment.paid says that a payment intent is confirmed paid.  The batch
\* of simulatePaymentIntent writes the event even when a cancellation came
\* between its read and its batch.
PaidEventMeansPaid ==
    \A e \in events :
        e.type = "payment.paid" => intent[e.intent].status \in SettledStatuses
-----------------------------------------------------------------------------
\* The ledger is read off the rows: what is credited is what has a commit,
\* what is told is what has a settlement event.
Ledger == INSTANCE PaymentLedger WITH
  Payments <- Attempts,
  status <- [i \in Intents |-> intent[i].status],
  sandbox <- {i \in Intents : intent[i].status # "none" /\ intent[i].mode = "test"},
  paid <- [i \in Intents |-> intent[i].paid],
  executed <- logs,
  credited <- {c.attempt : c \in commits},
  told <- {<<e.attempt, e.paid>> : e \in {x \in events : x.kind = "settlement"}}

\* Every step of the workers, under duplicate scans, lost compare-and-set
\* rounds and crashes, is a step of the ledger or invisible in it: an
\* executed payment is credited at most once, with the cumulative sum told
\* in the same step, and an intent that took money is never reopened or
\* canceled.
ImplementsLedger == Ledger!Spec
=============================================================================
