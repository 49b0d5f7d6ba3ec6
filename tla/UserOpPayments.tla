--------------------------- MODULE UserOpPayments ---------------------------
(***************************************************************************)
(* The App's UserOperation payments: POST /pay/submit claims a prepared    *)
(* row and the payment link behind it, hands the signed operation to the   *)
(* relayer or a bundler and answers 202; the shared watcher journals what  *)
(* the EntryPoint did with it; the payment reconciler reads that journal   *)
(* and settles the payment or closes it.                                   *)
(*                                                                         *)
(* Every request is split at its awaits on D1 and on the transport, and so *)
(* is the reconciler, of which one run exists at a time (EventJobs).  An   *)
(* await that fails, and a Worker that dies, end the request where it is.  *)
(* Due times are left out: a request that is not finished may be due at    *)
(* any time.  An operation keeps its transaction, so that it has one       *)
(* ledger row; expires_at and the paymaster's window are the age of the    *)
(* row.  The point receipt of the satellite chain, swap, savings and       *)
(* cross-chain bookkeeping and the balance refresh are left out.           *)
(***************************************************************************)
EXTENDS Integers, FiniteSets

CONSTANTS Ops,            \* userOpHash values
          Links,          \* payment links, each backing one intent
          LinkOf,         \* the link an operation pays, or None
          Submits,        \* concurrent POST /pay/submit requests
          None,
          MaxErrorAttempts, \* RECONCILE_MAX_ERROR_ATTEMPTS
          MaxReorgs,      \* bound on the operations a reorg removes
          MaxFaults       \* bound on crashes and failed awaits

ASSUME ConstantsAssumption ==
    /\ None \notin Ops \cup Links
    /\ LinkOf \in [Ops -> Links \cup {None}]
    /\ MaxErrorAttempts \in Nat \ {0}
    /\ MaxReorgs \in Nat /\ MaxFaults \in Nat

VARIABLES
    payment,     \* status of the pending_payments row
    age,         \* "fresh"; expires_at is past; its margin is past too
    request,     \* payment_reconcile_requests
    link,        \* payment_links: paid by, claim, and was it broadcast
    intent,      \* status of the payment intent behind a link
    submit,      \* local state of each request
    recon,       \* local state of the reconciler
    sent,        \* operations the relayer or a bundler holds
    chain,       \* where an operation landed and with which success
    receipt,     \* user_operation_receipts
    ledger,      \* the ledger row of an operation
    reorged,     \* operations a reorg has removed once
    astray,      \* operations whose claims no live request accounts for
    raced,       \* operations a recovery overtook before their ledger write
    faults

rows == <<payment, age, request>>
links == <<link, intent>>
network == <<sent, chain>>
ghosts == <<reorged, astray, raced>>
vars == <<rows, links, submit, recon, network, receipt, ledger, ghosts, faults>>

InFlight == {"submitting", "submitted"}
Terminal == {"confirmed", "failed"}
\* "none" before /pay/prepare, "gone" once the row is deleted
Statuses == {"none", "prepared", "gone"} \cup InFlight \cup Terminal
Ages == {"fresh", "expired", "over"}
Blocks == {1, 2}

Request == [status: {"none", "pending", "processing", "failed", "completed", "dead"},
            attempts: 0..MaxErrorAttempts]
NoRequest == [status |-> "none", attempts |-> 0]
Link == [paidBy: Ops \cup {None}, claim: Ops \cup {None}, broadcast: BOOLEAN]
Unclaimed == [paidBy |-> None, claim |-> None, broadcast |-> FALSE]
Landing == [block: Blocks, ok: BOOLEAN]
Receipt == [block: Blocks, ok: BOOLEAN, canonical: BOOLEAN]
Entry == [block: Blocks, canonical: BOOLEAN]

\* SQL NULL is no row.
ASSUME NoneAssumption == None \notin Landing \cup Receipt \cup Entry

Submit == [pc: {"idle", "claimed", "linkTaken", "send", "accepted",
                "ambiguous", "mark", "refused", "unlink"},
           op: Ops \cup {None}]
IdleSubmit == [pc |-> "idle", op |-> None]
Recon == [pc: {"idle", "read", "discover", "ledger", "link", "confirm", "fail", "unlink",
               "wait"},
          op: Ops \cup {None}, block: Blocks \cup {None}]
IdleRecon == [pc |-> "idle", op |-> None, block |-> None]

Init ==
    /\ payment = [op \in Ops |-> "none"]
    /\ age = [op \in Ops |-> "fresh"]
    /\ request = [op \in Ops |-> NoRequest]
    /\ link = [l \in Links |-> Unclaimed]
    /\ intent = [l \in Links |-> "awaiting_payment"]
    /\ submit = [s \in Submits |-> IdleSubmit]
    /\ recon = IdleRecon
    /\ sent = {}
    /\ chain = [op \in Ops |-> None]
    /\ receipt = [op \in Ops |-> None]
    /\ ledger = [op \in Ops |-> None]
    /\ reorged = {} /\ astray = {} /\ raced = {} /\ faults = 0

----------------------------------------------------------------------------
(* The rows                                                                *)

\* INSERT ... ON CONFLICT DO UPDATE of a reconcile request: a live lease stays.
Requested(r) ==
    IF r.status = "processing" THEN r ELSE [r EXCEPT !.status = "pending"]

\* trg_payment_reconcile_submitted
SubmittedTrigger(op) ==
    request' = IF payment[op] = "submitted" \/ request[op].status = "completed"
               THEN request
               ELSE [request EXCEPT ![op].status = "pending"]

\* trg_payment_reconcile_terminal
TerminalTrigger(op) ==
    request' = [request EXCEPT ![op].status =
                   IF @ = "none" THEN "none" ELSE "completed"]

\* trg_user_operation_receipt_reconcile_insert and _update
ReceiptTrigger(op) ==
    request' = IF payment[op] \in InFlight
               THEN [request EXCEPT ![op].status = "pending"]
               ELSE request

\* The foreign key deletes the request with the row.
Delete(op) ==
    /\ payment' = [payment EXCEPT ![op] = "gone"]
    /\ request' = [request EXCEPT ![op] = NoRequest]

\* POST /pay/prepare refuses a link that is paid and a payment that is no
\* longer awaited; a link somebody else is paying is not refused.
Preparable(op) ==
    LinkOf[op] # None => /\ link[LinkOf[op]].paidBy = None
                         /\ intent[LinkOf[op]] = "awaiting_payment"

Prepare(op) ==
    /\ payment[op] = "none" /\ Preparable(op)
    /\ payment' = [payment EXCEPT ![op] = "prepared"]
    /\ UNCHANGED <<age, request, links, submit, recon, network, receipt, ledger,
                   ghosts, faults>>

\* createPendingPayment, getPendingPayment and the sweep delete unsigned rows.
ExpirePrepared(op) ==
    /\ payment[op] = "prepared" /\ age[op] # "fresh"
    /\ Delete(op)
    /\ UNCHANGED <<age, links, submit, recon, network, receipt, ledger, ghosts, faults>>

SweepTerminal(op) ==
    /\ payment[op] \in Terminal /\ age[op] = "over"
    /\ Delete(op)
    /\ UNCHANGED <<age, links, submit, recon, network, receipt, ledger, ghosts, faults>>

\* No request lives through the five minutes of the margin.
Tick(op) ==
    /\ payment[op] # "none" /\ age[op] # "over"
    /\ age[op] = "expired" => \A s \in Submits : submit[s].op # op
    /\ age' = [age EXCEPT ![op] = IF @ = "fresh" THEN "expired" ELSE "over"]
    /\ UNCHANGED <<payment, request, links, submit, recon, network, receipt, ledger,
                   ghosts, faults>>

CancelIntent(l) ==
    /\ intent[l] = "awaiting_payment" /\ link[l].claim = None
    /\ intent' = [intent EXCEPT ![l] = "canceled"]
    /\ UNCHANGED <<rows, link, submit, recon, network, receipt, ledger, ghosts, faults>>

----------------------------------------------------------------------------
(* POST /pay/submit                                                        *)

Goto(s, pc) ==
    submit' = [submit EXCEPT ![s] = IF pc = "idle" THEN IdleSubmit
                                    ELSE [pc |-> pc, op |-> submit[s].op]]

\* Variant: the claim leaves no work for the reconciler.
ClaimPendingAlone(s, op) ==
    /\ submit[s].pc = "idle"
    /\ payment[op] = "prepared" /\ age[op] = "fresh"
    /\ LinkOf[op] # None => /\ link[LinkOf[op]].paidBy = None
                            /\ intent[LinkOf[op]] = "awaiting_payment"
    /\ payment' = [payment EXCEPT ![op] = "submitting"]
    /\ submit' = [submit EXCEPT ![s] =
                     [pc |-> IF LinkOf[op] = None THEN "send" ELSE "claimed", op |-> op]]
    /\ UNCHANGED <<age, request, links, recon, network, receipt, ledger, ghosts, faults>>

\* getPendingPayment and the checks of the link and its intent, which the two
\* claims repeat; then one batch: the compare-and-set of the row, and work for
\* the reconciler as long as the row is submitting, whoever claimed it.
ClaimPending(s, op) ==
    /\ submit[s].pc = "idle"
    /\ payment[op] \notin {"none", "gone"} /\ age[op] = "fresh"
    /\ LinkOf[op] # None => /\ link[LinkOf[op]].paidBy = None
                            /\ intent[LinkOf[op]] = "awaiting_payment"
    /\ payment' = [payment EXCEPT ![op] = IF @ = "prepared" THEN "submitting" ELSE @]
    /\ request' = IF payment'[op] = "submitting"
                  THEN [request EXCEPT ![op] = Requested(@)]
                  ELSE request
    /\ submit' = IF payment[op] # "prepared" THEN submit
                 ELSE [submit EXCEPT ![s] =
                          [pc |-> IF LinkOf[op] = None THEN "send" ELSE "claimed", op |-> op]]
    /\ UNCHANGED <<age, links, recon, network, receipt, ledger, ghosts, faults>>

\* Variant: a broadcast claim expires as well.
LapsedBroadcast(l) ==
    link[l].claim # None /\ age[link[l].claim] = "over"

\* A claim expires 15 minutes after it is taken, and so after the margin of
\* its operation, unless it was marked as broadcast.
Lapsed(l) ==
    /\ link[l].claim # None /\ ~link[l].broadcast
    /\ age[link[l].claim] = "over"

Claimable(l, op) ==
    /\ link[l].paidBy = None /\ intent[l] = "awaiting_payment"
    /\ link[l].claim \in {None, op} \/ Lapsed(l)

ClaimLink(s) ==
    LET op == submit[s].op
        l == LinkOf[op] IN
    /\ submit[s].pc = "claimed"
    /\ \/ /\ Claimable(l, op)
          /\ link' = [link EXCEPT ![l].claim = op, ![l].broadcast = FALSE]
          /\ Goto(s, "send")
       \/ /\ ~Claimable(l, op)
          /\ link' = link
          /\ Goto(s, "linkTaken")
    /\ UNCHANGED <<rows, intent, recon, network, receipt, ledger, ghosts, faults>>

\* sendUserOperation: accepted, an answer that was lost whether or not the
\* operation arrived, or an error that proves it was not sent.
Send(s) ==
    LET op == submit[s].op IN
    /\ submit[s].pc = "send"
    /\ \/ sent' = sent \cup {op} /\ Goto(s, "accepted")
       \/ sent' \in {sent, sent \cup {op}} /\ Goto(s, "ambiguous")
       \/ sent' = sent /\ Goto(s, "refused")
    /\ UNCHANGED <<rows, links, recon, chain, receipt, ledger, ghosts, faults>>

\* Variant: the hand-off is written whatever the status has become.
PersistSubmittedAlways(s) ==
    LET op == submit[s].op IN
    /\ submit[s].pc \in {"accepted", "ambiguous"}
    /\ payment' = [payment EXCEPT ![op] = "submitted"]
    /\ SubmittedTrigger(op)
    /\ Goto(s, IF LinkOf[op] = None THEN "idle" ELSE "mark")
    /\ UNCHANGED <<age, links, recon, network, receipt, ledger, ghosts, faults>>

\* setPendingPaymentSubmitted
PersistSubmitted(s) ==
    LET op == submit[s].op IN
    /\ submit[s].pc \in {"accepted", "ambiguous"}
    /\ IF payment[op] \in InFlight
       THEN /\ payment' = [payment EXCEPT ![op] = "submitted"]
            /\ SubmittedTrigger(op)
       ELSE UNCHANGED <<payment, request>>
    /\ Goto(s, IF LinkOf[op] = None THEN "idle" ELSE "mark")
    /\ UNCHANGED <<age, links, recon, network, receipt, ledger, ghosts, faults>>

\* Only after a lost answer is a failed write caught and the claim still marked.
PersistFails(s) ==
    /\ submit[s].pc = "ambiguous" /\ LinkOf[submit[s].op] # None
    /\ faults < MaxFaults
    /\ faults' = faults + 1
    /\ Goto(s, "mark")
    /\ UNCHANGED <<rows, links, recon, network, receipt, ledger, ghosts>>

\* markPaymentLinkClaimBroadcast
MarkBroadcast(s) ==
    LET op == submit[s].op
        l == LinkOf[op] IN
    /\ submit[s].pc = "mark"
    /\ link' = IF link[l].paidBy = None /\ link[l].claim = op
               THEN [link EXCEPT ![l].broadcast = TRUE] ELSE link
    /\ Goto(s, "idle")
    /\ UNCHANGED <<rows, intent, recon, network, receipt, ledger, ghosts, faults>>

\* releasePendingClaim, of a refused operation or one whose link is taken
ReleasePending(s) ==
    LET op == submit[s].op IN
    /\ submit[s].pc \in {"linkTaken", "refused"}
    /\ payment' = [payment EXCEPT ![op] = IF @ = "submitting" THEN "prepared" ELSE @]
    /\ Goto(s, IF submit[s].pc = "refused" /\ LinkOf[op] # None THEN "unlink" ELSE "idle")
    /\ UNCHANGED <<age, request, links, recon, network, receipt, ledger, ghosts, faults>>

\* releasePaymentLinkClaim: by operation, and so whichever request holds it
Released(l, op, allowBroadcast) ==
    IF /\ link[l].paidBy = None /\ link[l].claim = op
       /\ allowBroadcast \/ ~link[l].broadcast
    THEN [link EXCEPT ![l] = Unclaimed] ELSE link

\* Another request has taken the row up again since this one gave it back.
Retaken(s) ==
    payment[submit[s].op] \notin {"prepared", "gone"}

ReleaseLink(s) ==
    LET op == submit[s].op IN
    /\ submit[s].pc = "unlink"
    /\ link' = Released(LinkOf[op], op, FALSE)
    /\ astray' = IF Retaken(s) THEN astray \cup {op} ELSE astray
    /\ Goto(s, "idle")
    /\ UNCHANGED <<rows, intent, recon, network, receipt, ledger, reorged, raced, faults>>

SubmitDies(s) ==
    /\ submit[s].pc # "idle"
    /\ faults < MaxFaults
    /\ faults' = faults + 1
    /\ astray' = astray \cup {submit[s].op}
    /\ Goto(s, "idle")
    /\ UNCHANGED <<rows, links, recon, network, receipt, ledger, reorged, raced>>

----------------------------------------------------------------------------
(* The chain and the watcher                                               *)

\* The paymaster's window ends before the margin of the row.
Land(op) ==
    /\ op \in sent /\ chain[op] = None /\ age[op] # "over"
    /\ \E ok \in BOOLEAN :
          chain' = [chain EXCEPT ![op] =
                       [block |-> IF op \in reorged THEN 2 ELSE 1, ok |-> ok]]
    /\ UNCHANGED <<rows, links, submit, recon, sent, receipt, ledger, ghosts, faults>>

Reorg(op) ==
    /\ chain[op] # None /\ op \notin reorged
    /\ Cardinality(reorged) < MaxReorgs
    /\ chain' = [chain EXCEPT ![op] = None]
    /\ reorged' = reorged \cup {op}
    /\ UNCHANGED <<rows, links, submit, recon, sent, receipt, ledger, astray, raced, faults>>

\* getCanonicalUserOperation
Canonical(op) == receipt[op] # None /\ receipt[op].canonical

\* Evidence of a block the chain no longer has
Orphan(op, e) ==
    e # None /\ e.canonical /\ (chain[op] = None \/ chain[op].block # e.block)
OrphanReceipts == {op \in Ops : Orphan(op, receipt[op])}

Demoted(f) ==
    [op \in Ops |-> IF Orphan(op, f[op]) THEN [f[op] EXCEPT !.canonical = FALSE] ELSE f[op]]

Overtaken == IF recon.pc = "ledger" THEN {recon.op} \cap OrphanReceipts ELSE {}

\* verifyAndRecoverStream: one batch, of the receipts and of the ledger
Recover ==
    /\ OrphanReceipts # {}
    /\ receipt' = Demoted(receipt)
    /\ ledger' = Demoted(ledger)
    /\ raced' = raced \cup Overtaken
    /\ UNCHANGED <<rows, links, submit, recon, network, reorged, astray, faults>>

\* The watcher writes the receipt of the branch it verified first.
Journal(op) ==
    /\ OrphanReceipts = {}
    /\ chain[op] # None /\ ~Canonical(op)
    /\ receipt' = [receipt EXCEPT ![op] = [block |-> chain[op].block, ok |-> chain[op].ok,
                                           canonical |-> TRUE]]
    /\ ReceiptTrigger(op)
    /\ UNCHANGED <<payment, age, links, submit, recon, network, ledger,
                   ghosts, faults>>

\* The streams that have a checkpoint: the watcher keeps one for each shard.
Streams == {"userops:shard"}

\* A checkpoint is past the margin of an operation only when the watcher has
\* journaled it, if it landed at all; it moves there as soon as it can.
Covers(stream, op) ==
    stream \in Streams /\ age[op] = "over" /\ (chain[op] # None => Canonical(op))

----------------------------------------------------------------------------
(* The payment reconciler                                                  *)

ReconAt(pc, op) ==
    recon' = IF pc = "idle" THEN IdleRecon
             ELSE [pc |-> pc, op |-> op, block |-> recon.block]

\* enqueueMissingReconcileRequests: INSERT OR IGNORE
Enqueued ==
    [op \in Ops |-> IF payment[op] \in InFlight /\ request[op].status = "none"
                    THEN [status |-> "pending", attempts |-> 0] ELSE request[op]]

\* Variant: a request whose run died is never taken again.
ClaimRequestOnce(op) ==
    /\ recon.pc = "idle"
    /\ Enqueued[op].status \in {"pending", "failed"}
    /\ request' = [Enqueued EXCEPT ![op] =
                      [status |-> "processing",
                       attempts |-> IF @.attempts < MaxErrorAttempts
                                    THEN @.attempts + 1 ELSE @.attempts]]
    /\ ReconAt("read", op)
    /\ UNCHANGED <<payment, age, links, submit, network, receipt, ledger, ghosts, faults>>

\* claimPaymentReconcileRequest; a lease that is still there is of a dead run.
ClaimRequest(op) ==
    /\ recon.pc = "idle"
    /\ Enqueued[op].status \in {"pending", "failed", "processing"}
    /\ request' = [Enqueued EXCEPT ![op] =
                      [status |-> "processing",
                       attempts |-> IF @.attempts < MaxErrorAttempts
                                    THEN @.attempts + 1 ELSE @.attempts]]
    /\ ReconAt("read", op)
    /\ UNCHANGED <<payment, age, links, submit, network, receipt, ledger, ghosts, faults>>

\* complete and reschedule: only while the request is processing, with our lease
Finish(op, status) ==
    request' = [request EXCEPT ![op].status = IF @ = "processing" THEN status ELSE @]

\* userOperationStreamCoveredPast
CoveredPast(op) == Covers("userops", op)

\* What reconcileOne decides of a row that is not terminal
Verdict(op) ==
    CASE Canonical(op) -> IF receipt[op].ok THEN "ledger" ELSE "fail"
      [] ~Canonical(op) /\ CoveredPast(op) -> "fail"
      [] OTHER -> "discover"

\* getPendingPaymentAnyState and the canonical receipt
Read ==
    LET op == recon.op IN
    /\ recon.pc = "read"
    /\ \/ /\ payment[op] \in Terminal \cup {"gone"}
          /\ Finish(op, "completed")
          /\ ReconAt("idle", op)
       \/ /\ payment[op] \notin Terminal \cup {"gone"}
          /\ recon' = [pc |-> Verdict(op), op |-> op,
                       block |-> IF Canonical(op) THEN receipt[op].block ELSE None]
          /\ request' = request
    /\ UNCHANGED <<payment, age, links, submit, network, receipt, ledger, ghosts, faults>>

\* The bundler's point receipt tells the transaction and not the result.
Discover ==
    LET op == recon.op IN
    /\ recon.pc = "discover" /\ chain[op] # None
    /\ payment' = [payment EXCEPT ![op] = IF @ = "gone" THEN @ ELSE "submitted"]
    /\ IF payment[op] = "gone" THEN request' = request ELSE SubmittedTrigger(op)
    /\ ReconAt("wait", op)
    /\ UNCHANGED <<age, links, submit, network, receipt, ledger, ghosts, faults>>

\* Nothing was found, or the discovery is written: the request is rescheduled.
Wait ==
    /\ recon.pc \in {"discover", "wait"}
    /\ Finish(recon.op, "pending")
    /\ ReconAt("idle", recon.op)
    /\ UNCHANGED <<payment, age, links, submit, network, receipt, ledger, ghosts, faults>>

\* writeLedgerEntries: a row that is there is kept, unless a reorg demoted it.
\* No epoch guards this write.
WriteLedger ==
    LET op == recon.op IN
    /\ recon.pc = "ledger"
    /\ ledger' = IF ledger[op] # None /\ ledger[op].canonical THEN ledger
                 ELSE [ledger EXCEPT ![op] = [block |-> recon.block, canonical |-> TRUE]]
    /\ ReconAt(IF LinkOf[op] = None THEN "confirm" ELSE "link", op)
    /\ UNCHANGED <<rows, links, submit, network, receipt, ghosts, faults>>

\* settlePaymentLinkWithOutbox
SettleLink ==
    LET op == recon.op
        l == LinkOf[op]
        flips == link[l].paidBy = None /\ link[l].claim \in {None, op} IN
    /\ recon.pc = "link"
    /\ link' = IF flips THEN [link EXCEPT ![l] = [Unclaimed EXCEPT !.paidBy = op]] ELSE link
    /\ intent' = IF link'[l].paidBy = op /\ intent[l] = "awaiting_payment"
                 THEN [intent EXCEPT ![l] = "paid"] ELSE intent
    /\ ReconAt("confirm", op)
    /\ UNCHANGED <<rows, submit, network, receipt, ledger, ghosts, faults>>

\* setPendingPaymentStatus: unconditional, but the row may be gone
Conclude(op, status) ==
    IF payment[op] = "gone" THEN UNCHANGED <<payment, request>>
    ELSE /\ payment' = [payment EXCEPT ![op] = status]
         /\ IF payment[op] # status THEN TerminalTrigger(op) ELSE request' = request

Confirm ==
    /\ recon.pc = "confirm"
    /\ Conclude(recon.op, "confirmed")
    /\ ReconAt("idle", recon.op)
    /\ UNCHANGED <<age, links, submit, network, receipt, ledger, ghosts, faults>>

Fail ==
    LET op == recon.op IN
    /\ recon.pc = "fail"
    /\ Conclude(op, "failed")
    /\ ReconAt(IF LinkOf[op] = None THEN "idle" ELSE "unlink", op)
    /\ UNCHANGED <<age, links, submit, network, receipt, ledger, ghosts, faults>>

Unlink ==
    LET op == recon.op IN
    /\ recon.pc = "unlink"
    /\ link' = Released(LinkOf[op], op, TRUE)
    /\ ReconAt("idle", op)
    /\ UNCHANGED <<rows, intent, submit, network, receipt, ledger, ghosts, faults>>

\* An exception is caught and reschedules the request, or buries it.
ReconFails ==
    LET op == recon.op IN
    /\ recon.pc # "idle"
    /\ faults < MaxFaults
    /\ faults' = faults + 1
    /\ Finish(op, IF request[op].attempts >= MaxErrorAttempts THEN "dead" ELSE "failed")
    /\ astray' = IF recon.pc = "unlink" THEN astray \cup {op} ELSE astray
    /\ ReconAt("idle", op)
    /\ UNCHANGED <<payment, age, links, submit, network, receipt, ledger, reorged, raced>>

ReconDies ==
    /\ recon.pc # "idle"
    /\ faults < MaxFaults
    /\ faults' = faults + 1
    /\ astray' = IF recon.pc = "unlink" THEN astray \cup {recon.op} ELSE astray
    /\ ReconAt("idle", recon.op)
    /\ UNCHANGED <<rows, links, submit, network, receipt, ledger, reorged, raced>>

----------------------------------------------------------------------------
SubmitStep(s) ==
    \/ ClaimLink(s) \/ Send(s) \/ PersistSubmitted(s)
    \/ MarkBroadcast(s) \/ ReleasePending(s) \/ ReleaseLink(s)

ReconStep ==
    \/ Read \/ Discover \/ Wait \/ WriteLedger \/ SettleLink \/ Confirm \/ Fail \/ Unlink

Next ==
    \/ \E op \in Ops : Prepare(op) \/ ExpirePrepared(op) \/ SweepTerminal(op) \/ Tick(op)
    \/ \E l \in Links : CancelIntent(l)
    \/ \E s \in Submits : \/ \E op \in Ops : ClaimPending(s, op)
                          \/ SubmitStep(s) \/ PersistFails(s) \/ SubmitDies(s)
    \/ \E op \in Ops : Land(op) \/ Reorg(op) \/ Journal(op)
    \/ Recover
    \/ \E op \in Ops : ClaimRequest(op)
    \/ ReconStep \/ ReconFails \/ ReconDies

Spec == Init /\ [][Next]_vars

\* A request and a run go on until they end or die; the jobs of the watcher and
\* the reconciler reschedule themselves while there is work (EventJobs), and
\* due requests are taken oldest first, so none is passed over for ever.
Fairness ==
    /\ \A s \in Submits : WF_vars(SubmitStep(s))
    /\ WF_vars(Recover)
    /\ \A op \in Ops : /\ WF_vars(Tick(op))
                       /\ WF_vars(Journal(op))
                       /\ SF_vars(ClaimRequest(op))
    /\ WF_vars(ReconStep)

LiveSpec == Spec /\ Fairness

----------------------------------------------------------------------------
(* Safety                                                                  *)

\* Every row and local state has the values its columns and code allow.
TypeOK ==
    /\ payment \in [Ops -> Statuses]
    /\ age \in [Ops -> Ages]
    /\ request \in [Ops -> Request]
    /\ link \in [Links -> Link]
    /\ intent \in [Links -> {"awaiting_payment", "paid", "canceled"}]
    /\ submit \in [Submits -> Submit]
    /\ recon \in Recon
    /\ sent \subseteq Ops
    /\ chain \in [Ops -> Landing \cup {None}]
    /\ receipt \in [Ops -> Receipt \cup {None}]
    /\ ledger \in [Ops -> Entry \cup {None}]
    /\ reorged \subseteq Ops /\ astray \subseteq Ops /\ raced \subseteq Ops
    /\ faults \in 0..MaxFaults

\* A payment in flight always has work that will find it: the row and its
\* reconcile request are claimed in one batch (claimPendingForSubmit), and no
\* interleaving of triggers, leases and requests completes the request first.
InFlightHasWork ==
    \A op \in Ops : payment[op] \in InFlight =>
        request[op].status \notin {"none", "completed"}

\* An operation that may be at the relayer is never offered for signing again:
\* releasePendingClaim follows only an error that proves it was not sent.
SentIsNotReleased ==
    \A op \in Ops : op \in sent => payment[op] # "prepared"

\* An operation that may be on its way is never lost sight of: a request works on
\* it, and it is not offered for signing again.
OperationIsTracked == InFlightHasWork /\ SentIsNotReleased

\* A payment is only failed when it moved no money: its operation has not
\* landed with success, unless a reorg replaced what the reconciler saw.
FailedMovedNothing ==
    \A op \in Ops :
        payment[op] = "failed" /\ op \notin reorged => ~(chain[op] # None /\ chain[op].ok)

\* A confirmed payment is in the ledger, and it has paid its link if its claim
\* held: accounting comes before the status, so that a crash between the two
\* repeats it (settlePayment, then setPendingPaymentStatus).
ConfirmedIsAccounted ==
    \A op \in Ops : payment[op] = "confirmed" =>
        /\ ledger[op] # None
        /\ LinkOf[op] # None /\ op \notin astray \cup reorged => link[LinkOf[op]].paidBy = op

\* An operation that moved money
Funded(op) == chain[op] # None /\ chain[op].ok

\* The funds of two operations never pay for one link
OneFundedPerLink ==
    \A op1, op2 \in Ops :
        op1 # op2 /\ LinkOf[op1] = LinkOf[op2] /\ LinkOf[op1] # None =>
            ~(Funded(op1) /\ Funded(op2))

\* The link is reserved before any funds are broadcast, so that two operations
\* never pay for it and nobody pays for a canceled intent: except for an
\* operation whose request died, or lost its claim to another request's
\* release, or was reorganised.
ClaimGuardsFunds ==
    LET sound == Ops \ (reorged \cup astray) IN
    \A op1 \in sound : LinkOf[op1] # None /\ Funded(op1) =>
        /\ \A op2 \in sound \ {op1} : LinkOf[op2] = LinkOf[op1] => ~Funded(op2)
        /\ intent[LinkOf[op1]] # "canceled"

\* Two requests that pay one link never charge it twice: a confirmed payment has
\* its rows, and the claim keeps the funds of others out (payments.ts).
PaymentsAreAccounted == ConfirmedIsAccounted /\ ClaimGuardsFunds

\* The ledger follows the journal through a reorg: a canonical row is in the
\* block of the canonical receipt, unless the recovery came between the
\* reconciler's read and its write, which no epoch guards.
LedgerFollowsJournal ==
    \A op \in Ops : ledger[op] # None /\ ledger[op].canonical /\ op \notin raced =>
        Canonical(op) /\ receipt[op].block = ledger[op].block

\* Runbook, docs/runbooks/reorg.md: the ledger of an orphaned branch has
\* canonical = 0 once the recovery has run.
OrphanedLedgerIsMarked ==
    \A op \in Ops : ledger[op] # None /\ ledger[op].canonical =>
        receipt[op].block # ledger[op].block \/ receipt[op].canonical

ClosedIsKept == \A op \in Ops : payment[op] \in Terminal => payment'[op] \in {payment[op], "gone"}
PayerIsKept == \A l \in Links : link[l].paidBy # None => link'[l].paidBy = link[l].paidBy

\* A payment that is confirmed or failed stays so until its row is swept, and
\* so does the payer of a link: a late answer of the transport, a discovery or
\* a retried submit never reopens it.
TerminalStays == [][ClosedIsKept /\ PayerIsKept]_vars

----------------------------------------------------------------------------
(* Liveness                                                                *)

\* A payment whose operation landed is closed with that result, whatever
\* request or run died on the way, unless its work was buried or a reorg came.
LandedIsClosed ==
    \A op \in Ops : payment[op] \in InFlight /\ chain[op] # None ~>
        payment[op] \in Terminal \/ request[op].status = "dead" \/ op \in reorged

\* The reconciler closes what can no longer land (server/README.md:104).
UnlandedPaymentFails ==
    \A op \in Ops : payment[op] \in InFlight /\ age[op] = "over" /\ chain[op] = None ~>
        payment[op] \notin InFlight

\* A failed operation gives its link back, so that somebody else can pay it.
FailedFreesLink ==
    \A l \in Links, op \in Ops :
        payment[op] = "failed" /\ link[l].claim = op ~> link[l].claim # op
=============================================================================
