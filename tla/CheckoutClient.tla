--------------------------- MODULE CheckoutClient ---------------------------
(***************************************************************************)
(* The checkout page that pays a link from an external wallet              *)
(* (client/src/features/checkout): the React state of one tab, its record  *)
(* in session storage, the flow behind the Confirm button, and the two     *)
(* effects that restore an attempt after a reload and poll it.  The user   *)
(* may reload the tab at any await, the wallet may change account or       *)
(* network under a running flow, and calls may fail.                       *)
(*                                                                         *)
(* The Payments Worker is modelled by what its routes do to an attempt     *)
(* (PaymentSettlement has the whole of it), the router by the rule that an *)
(* attempt is paid once.  A capability and the idempotency key created     *)
(* with it are one number.                                                 *)
(***************************************************************************)
EXTENDS Naturals, Sequences

CONSTANTS Payers, Networks,  \* the wallet's accounts, the link's networks
          MaxAttempts,       \* attempts the server creates
          MaxTxs,            \* payment transactions the wallet broadcasts
          MaxFaults,         \* calls that fail or whose answer is lost
          MaxSwitches,       \* account or network changes of the wallet
          MaxReloads,        \* reloads of the tab
          None

VARIABLES record,    \* the session record of the link, or None
          page,      \* the React state of the mounted page
          flow,      \* the running confirmPayment or reviewPayment
          caps,      \* capabilities created so far
          attempts,  \* attempts at the server
          txs,       \* payment transactions given to the network
          replaced,  \* attempts whose capability the page threw away
          faults, switches, reloads

vars == <<record, page, flow, caps, attempts, txs, replaced, faults, switches, reloads>>
-----------------------------------------------------------------------------
Terminal == {"paid", "expired", "canceled"}
Open == {"reserved", "submitted"}
Idle == [at |-> "idle"]

NewRecord(payer, network) ==
    [cap |-> caps + 1, payer |-> payer, chain |-> network, attempt |-> None, hash |-> None]

\* A mounted page reads its record once: the network, the capability and the
\* attempt that the restoring effect asks for come from it.
Mounted(network) ==
    [account |-> None, network |-> IF record = None THEN network ELSE record.chain,
     quote |-> None, attempt |-> None, cap |-> IF record = None THEN None ELSE record.cap,
     hash |-> None, reviewing |-> FALSE, result |-> None, restore |-> record]

Init ==
    /\ record = None
    /\ caps = 0
    /\ \E n \in Networks : page = Mounted(n)
    /\ flow = Idle
    /\ attempts = <<>>
    /\ txs = <<>>
    /\ replaced = {}
    /\ faults = 0 /\ switches = 0 /\ reloads = 0

Fault == faults < MaxFaults /\ faults' = faults + 1
Usable == flow.at = "idle" /\ page.result = None

\* The record of this payer and network is kept, any other is overwritten.
Kept(payer, network) == record # None /\ record.payer = payer /\ record.chain = network

Begun(payer, network) ==
    IF Kept(payer, network) THEN record ELSE NewRecord(payer, network)

\* Overwriting a record forgets the capability of the attempts it opened.
BeginCheckoutResume(payer, network) ==
    /\ record' = Begun(payer, network)
    /\ caps' = IF record' = record THEN caps ELSE caps + 1
    /\ replaced' = IF record' = record \/ record = None THEN replaced
                   ELSE replaced \cup {a \in DOMAIN attempts : attempts[a].cap = record.cap}

\* Once paid, the page that hosts this one shows the receipt instead.
Show(result) == IF page.result = "paid" THEN "paid" ELSE result

Shown(a) == [id |-> a, status |-> attempts[a].status, registered |-> attempts[a].hash # None]
-----------------------------------------------------------------------------
Connect ==
    /\ Usable
    /\ \E p \in Payers, n \in Networks :
         page' = [page EXCEPT !.account = p, !.network = n]
    /\ page' # page
    /\ page.account # None => switches < MaxSwitches
    /\ switches' = IF page.account = None THEN switches ELSE switches + 1
    /\ UNCHANGED <<record, flow, caps, attempts, txs, replaced, faults, reloads>>

HandleAccountsChanged ==
    /\ page.account # None
    /\ switches < MaxSwitches /\ switches' = switches + 1
    /\ \E p \in (Payers \ {page.account}) \cup {None} :
         page' = [page EXCEPT !.account = p, !.quote = IF p = None THEN @ ELSE None]
    /\ UNCHANGED <<record, flow, caps, attempts, txs, replaced, faults, reloads>>

HandleChainChanged ==
    /\ page.account # None
    /\ switches < MaxSwitches /\ switches' = switches + 1
    /\ \E n \in Networks \ {page.network} :
         page' = [page EXCEPT !.network = n, !.quote = None]
    /\ UNCHANGED <<record, flow, caps, attempts, txs, replaced, faults, reloads>>

\* The network list is disabled while an attempt is open.
SelectNetwork ==
    /\ Usable
    /\ page.attempt # None => page.attempt.status \in Terminal
    /\ switches < MaxSwitches /\ switches' = switches + 1
    /\ \E n \in Networks \ {page.network} :
         page' = [page EXCEPT !.network = n, !.quote = None]
    /\ UNCHANGED <<record, flow, caps, attempts, txs, replaced, faults, reloads>>

Resumable == page.attempt # None /\ page.attempt.status \notin Terminal
                                 /\ ~ page.attempt.registered

\* The wallet that opened an attempt resumes it; anything else asks for a quote.
ReviewPayment ==
    /\ Usable /\ page.account # None /\ ~ page.reviewing
    /\ \/ /\ Resumable
          /\ attempts[page.attempt.id].payer = page.account
          /\ page' = [page EXCEPT !.reviewing = TRUE]
          /\ UNCHANGED <<record, flow, caps, replaced>>
       \/ /\ ~ Resumable
          /\ BeginCheckoutResume(page.account, page.network)
          /\ page' = [page EXCEPT !.cap = record'.cap]
          /\ flow' = [at |-> "quoting", payer |-> page.account, chain |-> page.network,
                      cap |-> record'.cap]
    /\ UNCHANGED <<attempts, txs, faults, switches, reloads>>

QuoteAnswered ==
    /\ flow.at = "quoting"
    /\ flow' = Idle
    /\ \/ /\ page' = [page EXCEPT !.reviewing = TRUE,
                        !.quote = [payer |-> flow.payer, chain |-> flow.chain, cap |-> flow.cap]]
          /\ UNCHANGED faults
       \/ Fault /\ UNCHANGED page
    /\ UNCHANGED <<record, caps, attempts, txs, replaced, switches, reloads>>
-----------------------------------------------------------------------------
\* The flow keeps the account, network, quote and attempt of the click.
ConfirmPayment ==
    /\ Usable /\ page.reviewing /\ page.account # None
    /\ page.quote # None \/ page.attempt # None
    /\ BeginCheckoutResume(page.account, page.network)
    /\ page' = [page EXCEPT !.reviewing = FALSE, !.cap = record'.cap]
    /\ flow' = [at |-> IF page.attempt = None THEN "creating" ELSE "executing",
                payer |-> page.account, chain |-> page.network, quote |-> page.quote,
                attempt |-> IF page.attempt = None THEN None ELSE page.attempt.id,
                resume |-> record', broadcast |-> FALSE, tx |-> None]
    /\ UNCHANGED <<attempts, txs, faults, switches, reloads>>

Throw == flow' = [flow EXCEPT !.at = "failed"]

\* POST /attempts: the key finds the attempt it already created; a new one
\* needs the quote's payer and capability.
AttemptOf(cap) == {a \in DOMAIN attempts : attempts[a].cap = cap}
Creatable == /\ flow.quote.cap = flow.resume.cap /\ flow.quote.payer = flow.payer
             /\ Len(attempts) < MaxAttempts

CreateCheckoutAttempt ==
    /\ flow.at = "creating"
    /\ LET old == AttemptOf(flow.resume.cap)
           made == old = {} /\ Creatable
           a == IF made THEN Len(attempts) + 1 ELSE CHOOSE x \in old : TRUE
       IN /\ attempts' = IF made
                         THEN Append(attempts, [cap |-> flow.resume.cap, payer |-> flow.payer,
                                chain |-> flow.quote.chain, status |-> "reserved", hash |-> None])
                         ELSE attempts
          /\ \/ /\ made \/ old # {}
                /\ record' = [flow.resume EXCEPT !.attempt = a]
                /\ page' = [page EXCEPT !.attempt = [id |-> a, status |-> attempts'[a].status,
                                                     registered |-> attempts'[a].hash # None]]
                /\ flow' = [flow EXCEPT !.at = "executing", !.attempt = a,
                                        !.resume.attempt = a]
                /\ UNCHANGED faults
             \/ /\ IF made \/ old # {} THEN Fault ELSE UNCHANGED faults
                /\ Throw
                /\ UNCHANGED <<record, page>>
    /\ UNCHANGED <<caps, txs, replaced, switches, reloads>>

\* The wrong wallet, the wrong network, a short balance or a rejected permit
\* end the flow; an approval is itself a transaction of the wallet.
MayExecute == attempts[flow.attempt].payer = flow.payer /\ attempts[flow.attempt].chain = flow.chain

ExecuteCheckoutAttempt ==
    /\ flow.at = "executing"
    /\ \/ /\ MayExecute
          /\ \E approved \in BOOLEAN :
               flow' = [flow EXCEPT !.at = "sending", !.broadcast = approved]
          /\ UNCHANGED faults
       \/ /\ MayExecute /\ Fault
          /\ \E approved \in BOOLEAN :
               flow' = [flow EXCEPT !.at = "failed", !.broadcast = approved]
       \/ ~ MayExecute /\ Throw /\ UNCHANGED faults
    /\ UNCHANGED <<record, page, caps, attempts, txs, replaced, switches, reloads>>

\* The gas estimate refuses what the router would refuse; the user may reject.
Payable(a) == /\ attempts[a].status # "expired"
              /\ \A t \in DOMAIN txs : txs[t].attempt = a => txs[t].status # "mined"

\* The router call of an attempt, with a permit or without one.
PaymentData(a) == [attempt |-> a, status |-> "pending", told |-> FALSE]

Send ==
    /\ flow.at = "sending"
    /\ \/ /\ Payable(flow.attempt) /\ Len(txs) < MaxTxs
          /\ txs' = Append(txs, PaymentData(flow.attempt))
          /\ flow' = [flow EXCEPT !.at = "sent", !.tx = Len(txs) + 1]
       \/ Throw /\ UNCHANGED txs
    /\ UNCHANGED <<record, page, caps, attempts, replaced, faults, switches, reloads>>

VariantForgetHash ==
    /\ flow.at = "sent"
    /\ txs' = [txs EXCEPT ![flow.tx].told = TRUE]
    /\ record' = flow.resume
    /\ page' = [page EXCEPT !.hash = flow.tx]
    /\ flow' = [flow EXCEPT !.at = "confirming", !.broadcast = TRUE]
    /\ UNCHANGED <<caps, attempts, replaced, faults, switches, reloads>>

\* The wallet answers with the hash, which is saved before anything else.
OnWalletTransaction ==
    /\ flow.at = "sent"
    /\ txs' = [txs EXCEPT ![flow.tx].told = TRUE]
    /\ record' = [flow.resume EXCEPT !.attempt = flow.attempt, !.hash = flow.tx]
    /\ page' = [page EXCEPT !.hash = flow.tx]
    /\ flow' = [flow EXCEPT !.at = "confirming", !.broadcast = TRUE, !.resume = record']
    /\ UNCHANGED <<caps, attempts, replaced, faults, switches, reloads>>

\* Sixty polls of the receipt: none while the transaction is pending.
Receipt(t) == IF txs[t].status = "pending" THEN None ELSE txs[t].status

WaitForReceipt ==
    /\ flow.at = "confirming"
    /\ \/ /\ Receipt(flow.tx) = "mined"
          /\ flow' = [flow EXCEPT !.at = "registering"]
          /\ UNCHANGED <<page, faults>>
       \/ Receipt(flow.tx) = "reverted" /\ Throw /\ UNCHANGED <<page, faults>>
       \/ /\ Receipt(flow.tx) = None
          /\ flow' = Idle /\ page' = [page EXCEPT !.result = Show("processing")]
          /\ UNCHANGED faults
       \/ Fault /\ Throw /\ UNCHANGED page
    /\ UNCHANGED <<record, caps, attempts, txs, replaced, switches, reloads>>

\* POST register: the capability, a receipt that proves the attempt, no other hash.
Registers(a, cap, t) ==
    /\ attempts[a].cap = cap
    /\ attempts[a].status \in Open \cup {"paid"}
    /\ attempts[a].hash \in {None, t}
    /\ txs[t].status = "mined"

Registered(a, t) ==
    [attempts EXCEPT ![a].hash = t, ![a].status = IF @ = "reserved" THEN "submitted" ELSE @]

\* Five tries; the flow then shows the payment as processing either way.
RegisterWithRetry ==
    /\ flow.at = "registering"
    /\ flow' = Idle
    /\ \/ /\ Registers(flow.attempt, flow.resume.cap, flow.tx)
          /\ attempts' = Registered(flow.attempt, flow.tx)
          /\ page' = [page EXCEPT !.result = Show("processing"),
                        !.attempt = [id |-> flow.attempt, registered |-> TRUE,
                                     status |-> attempts'[flow.attempt].status]]
          /\ UNCHANGED faults
       \/ /\ page' = [page EXCEPT !.result = Show("processing")]
          /\ IF Registers(flow.attempt, flow.resume.cap, flow.tx) THEN Fault ELSE UNCHANGED faults
          /\ UNCHANGED attempts
    /\ UNCHANGED <<record, caps, txs, replaced, switches, reloads>>

Cancelable(a, cap) ==
    attempts[a].cap = cap /\ attempts[a].status = "reserved" /\ attempts[a].hash = None

\* The catch block: an attempt this flow broadcast nothing for is canceled.
CancelAfterError ==
    /\ flow.at = "failed"
    /\ flow' = Idle
    /\ \/ /\ flow.attempt # None /\ ~ flow.broadcast
          /\ Cancelable(flow.attempt, flow.resume.cap)
          /\ attempts' = [attempts EXCEPT ![flow.attempt].status = "canceled"]
          /\ \/ /\ record' = None
                /\ page' = [page EXCEPT !.attempt = None]
                /\ UNCHANGED faults
             \/ Fault /\ UNCHANGED <<record, page>>
       \/ /\ (flow.attempt # None /\ ~ flow.broadcast) =>
                 ~ Cancelable(flow.attempt, flow.resume.cap)
          /\ UNCHANGED <<attempts, record, page, faults>>
       \/ /\ flow.attempt # None /\ ~ flow.broadcast
          /\ Fault /\ UNCHANGED <<attempts, record, page>>
    /\ UNCHANGED <<caps, txs, replaced, switches, reloads>>
-----------------------------------------------------------------------------
Told(a, closed) == [page EXCEPT !.attempt = Shown(a), !.result = Show(closed)]

Verdict(a, otherwise) == CASE attempts[a].status = "paid" -> "paid"
                           [] attempts[a].status \in {"expired", "canceled"} -> "failed"
                           [] OTHER -> otherwise

\* A failed read keeps the record.
RestoreFailed ==
    /\ page.restore # None /\ Fault
    /\ page' = [page EXCEPT !.restore = None]
    /\ UNCHANGED <<record, caps, attempts, txs, replaced, flow, switches, reloads>>

\* The restoring effect: reads the attempt of the record the page was mounted
\* with, registers a hash the server does not have, closes what has ended; a
\* late answer closes whatever record is there by then.
RestoreAttempt ==
    /\ page.restore # None
    /\ LET r == page.restore IN
       \/ /\ r.attempt = None \/ (r.attempt # None /\ attempts[r.attempt].cap # r.cap)
          /\ page' = [page EXCEPT !.restore = None]
          /\ UNCHANGED <<record, attempts, replaced>>
       \/ /\ r.attempt # None /\ attempts[r.attempt].cap = r.cap
          /\ LET a == r.attempt
                 hash == IF attempts[a].hash # None THEN attempts[a].hash ELSE r.hash
             IN /\ page' = [Told(a, Verdict(a, IF hash # None THEN "processing" ELSE page.result))
                              EXCEPT !.hash = hash, !.restore = None]
                /\ record' = IF attempts[a].status \in Terminal THEN None ELSE record
                /\ replaced' = IF record' = record \/ record.attempt \in {None, a}
                               THEN replaced ELSE replaced \cup {record.attempt}
                /\ \/ /\ attempts[a].hash = None /\ r.hash # None /\ Registers(a, r.cap, r.hash)
                      /\ attempts' = Registered(a, r.hash)
                   \/ UNCHANGED attempts
    /\ UNCHANGED <<caps, txs, flow, faults, switches, reloads>>

\* The polling effect, while the page holds a hash and an open attempt.
Poll ==
    /\ page.attempt # None /\ page.cap # None /\ page.hash # None
    /\ page.attempt.status \notin Terminal
    /\ attempts[page.attempt.id].cap = page.cap
    /\ LET a == page.attempt.id IN
       /\ page' = Told(a, Verdict(a, page.result))
       /\ record' = IF attempts[a].status \in Terminal THEN None ELSE record
    /\ UNCHANGED <<flow, caps, attempts, txs, replaced, faults, switches, reloads>>

\* The tab is loaded again: its React state and its flow are gone.
Reload ==
    /\ reloads < MaxReloads /\ reloads' = reloads + 1
    /\ page' = Mounted(page.network)
    /\ flow' = Idle
    /\ UNCHANGED <<record, caps, attempts, txs, replaced, faults, switches>>
-----------------------------------------------------------------------------
\* The network includes or reverts a transaction; the router pays an attempt once.
Mine ==
    /\ \E t \in DOMAIN txs :
         /\ txs[t].status = "pending"
         /\ \/ Payable(txs[t].attempt) /\ txs' = [txs EXCEPT ![t].status = "mined"]
            \/ txs' = [txs EXCEPT ![t].status = "reverted"]
    /\ UNCHANGED <<record, page, flow, caps, attempts, replaced, faults, switches, reloads>>

\* The watcher and the reconciliation of the Payments Worker settle what they
\* find on the chain; the sweep expires what was never paid.
Reconcile ==
    /\ \E a \in DOMAIN attempts :
         /\ attempts[a].status \in Open
         /\ \/ \E t \in DOMAIN txs :
                 /\ txs[t].attempt = a /\ txs[t].status = "mined"
                 /\ attempts' = [attempts EXCEPT ![a].hash = t, ![a].status = "paid"]
            \/ /\ \A t \in DOMAIN txs : txs[t].attempt = a => txs[t].status = "reverted"
               /\ attempts' = [attempts EXCEPT ![a].status = "expired"]
    /\ UNCHANGED <<record, page, flow, caps, txs, replaced, faults, switches, reloads>>

Next == \/ Connect \/ HandleAccountsChanged \/ HandleChainChanged \/ SelectNetwork
        \/ ReviewPayment \/ QuoteAnswered \/ ConfirmPayment \/ CreateCheckoutAttempt
        \/ ExecuteCheckoutAttempt \/ Send \/ OnWalletTransaction \/ WaitForReceipt
        \/ RegisterWithRetry \/ CancelAfterError \/ RestoreAttempt \/ RestoreFailed
        \/ Poll \/ Reload \/ Mine \/ Reconcile

Spec == Init /\ [][Next]_vars

\* The page and its calls go on while the tab is open, and so do the network
\* and the Worker; the user, the wallet and the faults owe nothing.
LiveSpec == /\ Spec
            /\ WF_vars(RestoreAttempt) /\ WF_vars(Poll) /\ WF_vars(Mine) /\ WF_vars(Reconcile)
            /\ WF_vars(QuoteAnswered) /\ WF_vars(CreateCheckoutAttempt)
            /\ WF_vars(ExecuteCheckoutAttempt) /\ WF_vars(OnWalletTransaction)
            /\ WF_vars(WaitForReceipt) /\ WF_vars(RegisterWithRetry) /\ WF_vars(CancelAfterError)
-----------------------------------------------------------------------------
Records == [cap : Nat, payer : Payers, chain : Networks,
            attempt : Nat \cup {None}, hash : Nat \cup {None}]

\* The record, the attempts and the transactions have their shapes.
TypeOK ==
    /\ record \in Records \cup {None}
    /\ \A a \in DOMAIN attempts : attempts[a].status \in Open \cup Terminal
    /\ \A t \in DOMAIN txs : txs[t].status \in {"pending", "mined", "reverted"}
    /\ page.result \in {None, "processing", "paid", "failed"}

LastTold(t) == txs[t].told /\ \A u \in DOMAIN txs : u > t => ~ txs[u].told

\* The hash of the last payment the wallet reported is in the tab's record,
\* with the attempt it pays and the capability that opens it, for as long as
\* the server keeps that attempt open: whatever call fails or whenever the tab
\* is reloaded, the next page can register it ("a temporary API outage must
\* not erase the transaction hash needed to recover the payment").  A change
\* of account or network replaces the record and with it the capability, and
\* so does the late answer about an attempt that the record no longer names.
RecordRecovers ==
    \A t \in DOMAIN txs :
      LET a == txs[t].attempt IN
      (LastTold(t) /\ attempts[a].status \in Open /\ a \notin replaced) =>
        /\ record # None
        /\ record.attempt = a /\ record.hash = t
        /\ record.cap = attempts[a].cap

\* An attempt is canceled only while no payment of it is in the network's hands.
CanceledWasNotSent ==
    \A t \in DOMAIN txs :
      attempts[txs[t].attempt].status = "canceled" => txs[t].status = "reverted"

=============================================================================
