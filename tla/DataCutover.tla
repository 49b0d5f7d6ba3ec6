---------------------------- MODULE DataCutover ----------------------------
(***************************************************************************)
(* The move of the checkout domain from the App Worker's database to the   *)
(* Payments Worker's.  Two Workers run configurations deployed separately  *)
(* from two tracked files; the deploy scripts refuse a pair of files that  *)
(* is not a stage of the cutover.  While the App is frozen the operator    *)
(* drains it, exports its database, splits it, imports the result once     *)
(* into Payments and pins the checksum of the import.  The Payments gates  *)
(* compare that checksum with the control row on every write.              *)
(*                                                                         *)
(* A checksum is modelled by the content it is taken of, so two checksums  *)
(* are equal exactly when the contents are.                                *)
(***************************************************************************)
EXTENDS FiniteSets

CONSTANTS
    Rows,          \* checkouts: a payment link, an intent, or both
    Kind,          \* Kind[r]: "link", "intent" or "both"
    Owner,         \* Owner[r]: the uid that owns the checkout
    Merchants,     \* uids with a row in the App's merchants table
    LateRouter,    \* payments through the legacy router land after the export
    Pending,       \* the configured checksum before the import is pinned
    None

VARIABLES
    file,      \* the tracked Wrangler files: mode, sync, boot, sum, target
    appRun,    \* what the deployed App Worker runs with: mode, sync
    payRun,    \* what the deployed Payments Worker runs with, or None
    app,       \* the checkout tables of the App database
    work,      \* payment_reconcile_requests that are not finished
    onChain,   \* intents paid through the legacy router
    artifact,  \* the last split of an App export, or None
    target,    \* Payments D1: content and control row, None before it exists
    report,    \* the last preflight report
    written    \* checkouts written by Payments after the import

cutoverVars == <<file, appRun, payRun, app, work, onChain, artifact, target, report, written>>

Modes == {"legacy", "frozen", "payments"}
Absent == [link |-> "none", intent |-> "none"]
NoReport == [drained |-> FALSE, pinned |-> FALSE, loaded |-> FALSE]

----------------------------------------------------------------------------
(* split-payments-d1.mjs                                                   *)

\* A merchant per row of merchants and per owner of a link without one.
MigratedMerchants(db) ==
    Merchants \cup {Owner[r] : r \in {x \in Rows : db[x].link # "none"}}

\* A checkout is paid when its link or its intent says so; a link without an
\* intent gets one, an intent without a link gets a link of the same status.
MigratedStatus(row) ==
    IF row = Absent THEN "absent"
    ELSE IF row.link = "paid" \/ row.intent = "paid" THEN "paid"
    ELSE IF row.intent = "canceled" THEN "canceled"
    ELSE "awaiting_payment"

\* The data-only artifact: what the migrated database holds, and its checksum.
Migrate(db) ==
    [merchants |-> MigratedMerchants(db), rows |-> [r \in Rows |-> MigratedStatus(db[r])]]

EmptyContent == [merchants |-> {}, rows |-> [r \in Rows |-> "absent"]]
FreshTarget == [content |-> EmptyContent, sum |-> None]

\* The artifact's guard: every business table empty and the control row pristine.
ImportGuard == target.content = EmptyContent /\ target.sum = None

----------------------------------------------------------------------------
(* The deploy guards and the runtime gates                                 *)

VariantAnyOwner(c) ==
    IF ~c.target
    THEN IF c.mode = "legacy" /\ ~c.sync /\ c.boot /\ c.sum = Pending THEN "preprovision" ELSE "invalid"
    ELSE IF c.boot
    THEN IF c.sync \/ c.mode = "payments" THEN "invalid"
         ELSE IF c.mode = "legacy" THEN IF c.sum = Pending THEN "bootstrap" ELSE "invalid"
         ELSE IF c.sum = Pending THEN "frozen" ELSE "imported-bootstrap"
    ELSE IF c.sum = Pending THEN "invalid"
    ELSE IF c.mode = "payments" THEN IF c.sync THEN "cutover" ELSE "invalid"
    ELSE IF c.sync THEN "syncing" ELSE "target-active"

\* The stage two tracked files stand for, "invalid" when the pair is none.
ClassifyLocalCutoverConfig(c) ==
    IF ~c.target
    THEN IF c.mode = "legacy" /\ ~c.sync /\ c.boot /\ c.sum = Pending THEN "preprovision" ELSE "invalid"
    ELSE IF c.boot
    THEN IF c.sync \/ c.mode = "payments" THEN "invalid"
         ELSE IF c.mode = "legacy" THEN IF c.sum = Pending THEN "bootstrap" ELSE "invalid"
         ELSE IF c.sum = Pending THEN "frozen" ELSE "imported-bootstrap"
    ELSE IF c.sum = Pending THEN "invalid"
    ELSE CASE c.mode = "frozen" -> IF c.sync THEN "syncing" ELSE "target-active"
           [] c.mode = "payments" /\ c.sync -> "cutover"
           [] OTHER -> "invalid"

\* Until sync starts the target must still be exactly what was imported.
RequiresExactBaseline(stage) == stage \notin {"syncing", "cutover"}

\* The import is verified when the control row is complete and carries the
\* configured checksum.
DataCutoverReady == payRun.sum # Pending /\ target # None /\ target.sum = payRun.sum

\* Payments accepts a write when both gates are open.
PaymentsWriteAvailable == payRun # None /\ ~payRun.boot /\ DataCutoverReady

\* The App serves a mutating request of the checkout domain itself only in
\* legacy; frozen answers 503 and payments proxies it.
PaymentsCutoverAction == CASE appRun.mode = "legacy" -> "app"
                           [] appRun.mode = "frozen" -> "block_write"
                           [] OTHER -> "proxy"

\* A link payment prepared in legacy may be submitted only while App owns writes.
PaymentSubmissionBlocked == appRun.mode # "legacy"

\* The legacy watchers and deliveries run until Payments owns the domain.
LegacyPaymentRuntimeEnabled == appRun.mode # "payments"

----------------------------------------------------------------------------
Init ==
    /\ file = [mode |-> "legacy", sync |-> FALSE, boot |-> TRUE, sum |-> Pending, target |-> FALSE]
    /\ appRun = [mode |-> "legacy", sync |-> FALSE]
    /\ payRun = None
    /\ app = [r \in Rows |-> Absent]
    /\ work = {} /\ onChain = {}
    /\ artifact = None /\ target = None
    /\ report = NoReport
    /\ written = {}

----------------------------------------------------------------------------
(* The App's checkout domain                                               *)

\* POST /links, /merchant or /v1 creates a checkout.
Create(r) ==
    /\ PaymentsCutoverAction = "app" /\ app[r] = Absent
    /\ Kind[r] # "link" => Owner[r] \in Merchants
    /\ app' = [app EXCEPT ![r] = [link |-> IF Kind[r] = "intent" THEN "none" ELSE "pending",
                                  intent |-> IF Kind[r] = "link" THEN "none" ELSE "awaiting_payment"]]
    /\ UNCHANGED <<file, appRun, payRun, work, onChain, artifact, target, report, written>>

\* POST /v1/payment_intents/:id/cancel
Cancel(r) ==
    /\ PaymentsCutoverAction = "app" /\ app[r].intent = "awaiting_payment"
    /\ app' = [app EXCEPT ![r].intent = "canceled"]
    /\ UNCHANGED <<file, appRun, payRun, work, onChain, artifact, target, report, written>>

\* POST /pay/submit of a link payment: the operation is sent and reconciled later.
SubmitLinkPayment(r) ==
    /\ ~PaymentSubmissionBlocked
    /\ app[r].link = "pending" /\ r \notin work
    /\ work' = work \cup {r}
    /\ UNCHANGED <<file, appRun, payRun, app, onChain, artifact, target, report, written>>

\* payment_reconciler runs in every mode: the link is marked, then the intent;
\* a run that dies between the two leaves the request to be retried.
Reconcile(r, dies) ==
    /\ r \in work
    /\ app' = [app EXCEPT ![r].link = "paid",
                          ![r].intent = IF ~dies /\ @ = "awaiting_payment" THEN "paid" ELSE @]
    /\ work' = IF dies THEN work ELSE work \ {r}
    /\ UNCHANGED <<file, appRun, payRun, onChain, artifact, target, report, written>>

\* external: a payer executes the router authorization of an intent.
RouterPay(r) ==
    /\ app[r].intent = "awaiting_payment" /\ r \notin onChain
    /\ LateRouter \/ artifact = None
    /\ onChain' = onChain \cup {r}
    /\ UNCHANGED <<file, appRun, payRun, app, work, artifact, target, report, written>>

\* router_watcher credits the payment it finds on chain.
WatchRouter(r) ==
    /\ LegacyPaymentRuntimeEnabled
    /\ r \in onChain /\ app[r].intent = "awaiting_payment"
    /\ app' = [app EXCEPT ![r].intent = "paid", ![r].link = IF @ = "pending" THEN "paid" ELSE @]
    /\ UNCHANGED <<file, appRun, payRun, work, onChain, artifact, target, report, written>>

----------------------------------------------------------------------------
(* Payments                                                                *)

\* A mutating HTTP request, RPC call, Queue batch or Cron of Payments.
PaymentsWrite(r) ==
    /\ PaymentsWriteAvailable
    /\ target.content.rows[r] = "awaiting_payment"
    /\ target' = [target EXCEPT !.content.rows[r] = "paid"]
    /\ written' = written \cup {r}
    /\ UNCHANGED <<file, appRun, payRun, app, work, onChain, artifact, report>>

----------------------------------------------------------------------------
(* The operator                                                            *)

Deployed == /\ appRun = [mode |-> file.mode, sync |-> file.sync]
            /\ file.target => payRun = [boot |-> file.boot, sum |-> file.sum]

\* One variable of one tracked file is changed at a time.
Edits == LET sums == {Pending} \cup IF artifact = None THEN {} ELSE {artifact}
         IN  {[file EXCEPT !.mode = x] : x \in Modes} \cup {[file EXCEPT !.sync = x] : x \in BOOLEAN}
             \cup {[file EXCEPT !.boot = x] : x \in BOOLEAN} \cup {[file EXCEPT !.sum = x] : x \in sums}

\* What the preflight has to show before a stage is left for the next one,
\* and what a rollback requires: no write of Payments is abandoned.
Evidence(from, to) ==
    CASE from = "frozen" /\ to = "imported-bootstrap" -> target.sum # None
      [] from = "imported-bootstrap" /\ to = "target-active" -> report.loaded
      [] from = "target-active" /\ to = "syncing" -> PaymentsWriteAvailable
      [] from = "syncing" /\ to = "cutover" -> PaymentsWriteAvailable
      [] to = "imported-bootstrap" -> written = {}
      [] OTHER -> TRUE

Edit(c) ==
    /\ Deployed /\ c # file
    /\ ClassifyLocalCutoverConfig(c) # "invalid"
    /\ Evidence(ClassifyLocalCutoverConfig(file), ClassifyLocalCutoverConfig(c))
    /\ file' = c
    /\ report' = NoReport
    /\ UNCHANGED <<appRun, payRun, app, work, onChain, artifact, target, written>>

\* wrangler d1 create, the migrations, and the database id in the file.
Provision ==
    /\ target = None /\ Deployed
    /\ target' = FreshTarget
    /\ file' = [file EXCEPT !.target = TRUE]
    /\ UNCHANGED <<appRun, payRun, app, work, onChain, artifact, report, written>>

\* A target that was written to is replaced, never imported into again.
ReplaceTarget ==
    /\ target # None /\ target # FreshTarget
    /\ payRun # None /\ payRun.boot /\ file.boot /\ written = {}
    /\ target' = FreshTarget
    /\ report' = NoReport
    /\ UNCHANGED <<file, appRun, payRun, app, work, onChain, artifact, written>>

\* assert-payments-deploy-config.mjs, then wrangler deploy.
DeployPayments ==
    /\ file.target /\ ClassifyLocalCutoverConfig(file) # "invalid"
    /\ payRun' = [boot |-> file.boot, sum |-> file.sum]
    /\ UNCHANGED <<file, appRun, app, work, onChain, artifact, target, report, written>>

\* assert-app-deploy-config.mjs also wants the Service Binding's target to exist.
DeployApp ==
    /\ file.target /\ ClassifyLocalCutoverConfig(file) # "invalid" /\ payRun # None
    /\ appRun' = [mode |-> file.mode, sync |-> file.sync]
    /\ UNCHANGED <<file, payRun, app, work, onChain, artifact, target, report, written>>

\* app-drain: no reconciliation of a payment is unfinished.
Drained == work = {}

\* d1 export of the App database, then the split, its verification and the
\* rehearsal of its import; a router payment the watcher has not seen yet is
\* waited for unless LateRouter.
Export ==
    /\ appRun.mode = "frozen" /\ file.mode = "frozen" /\ Drained
    /\ LateRouter \/ \A r \in onChain : app[r].intent # "awaiting_payment"
    /\ artifact' = Migrate(app)
    /\ UNCHANGED <<file, appRun, payRun, app, work, onChain, target, report, written>>

\* wrangler d1 execute --file: refused as a whole unless the target is pristine.
Import ==
    /\ artifact # None /\ target # None /\ payRun # None /\ payRun.boot
    /\ ImportGuard
    /\ target' = [content |-> artifact, sum |-> artifact]
    /\ UNCHANGED <<file, appRun, payRun, app, work, onChain, artifact, report, written>>

\* A new export of the App database, split again.
SnapshotSplit == Migrate(app)

\* An export of the target, verified against the manifest of a split.
VerifyTargetExport(manifest) == target.content = manifest

\* classifyPaymentsImportState
ImportState == CASE target = None -> "unavailable"
                 [] ImportGuard -> "empty"
                 [] target.sum # None -> "loaded"
                 [] OTHER -> "unsafe"

\* preflight-phase2-remote.mjs: the snapshot is compared with the
\* configured checksum, the control row and an export of the target.
PreflightReport ==
    LET pinned == file.sum = SnapshotSplit
        exact == RequiresExactBaseline(ClassifyLocalCutoverConfig(file))
    IN  [drained |-> Drained, pinned |-> pinned,
         loaded |-> /\ Drained /\ pinned
                    /\ ImportState = "loaded" /\ target.sum = SnapshotSplit
                    /\ exact => VerifyTargetExport(SnapshotSplit)]

Preflight ==
    /\ file.target /\ Deployed
    /\ report' = PreflightReport
    /\ UNCHANGED <<file, appRun, payRun, app, work, onChain, artifact, target, written>>

----------------------------------------------------------------------------
AppNext ==
    \E r \in Rows : \/ Create(r) \/ Cancel(r) \/ SubmitLinkPayment(r)
                    \/ RouterPay(r) \/ WatchRouter(r) \/ PaymentsWrite(r)
                    \/ \E dies \in BOOLEAN : Reconcile(r, dies)

OperatorNext ==
    \/ \E c \in Edits : Edit(c)
    \/ Provision \/ ReplaceTarget \/ DeployPayments \/ DeployApp
    \/ Export \/ Import \/ Preflight

Next == AppNext \/ OperatorNext

Spec == Init /\ [][Next]_cutoverVars

----------------------------------------------------------------------------
\* The App and Payments never both accept writes of the checkout domain, in
\* whatever order the two Workers are deployed at each stage and however the
\* operator goes back and forth (runbook: one owner at every instant).
OneOwner == PaymentsCutoverAction = "app" => ~PaymentsWriteAvailable

\* Once the App hands its checkouts to Payments, every checkout the App ever
\* accepted is there with the status the App gave it, or with a later one that
\* Payments gave it.
NoWriteIsLost ==
    appRun.mode = "payments" =>
        \A r \in Rows :
            \/ target.content.rows[r] = MigratedStatus(app[r])
            \/ r \in written /\ MigratedStatus(app[r]) = "awaiting_payment"
=============================================================================
