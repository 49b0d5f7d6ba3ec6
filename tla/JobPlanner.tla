----------------------------- MODULE JobPlanner -----------------------------
(***************************************************************************)
(* The planner of the App Worker's event jobs (eventJobs.ts) and the       *)
(* recovery wakeup of its health check (health.ts, operationalHealth.ts).  *)
(* A job serves the rows of one D1 table and, at the end of each run, asks *)
(* for its next run from what it finds in that table.  How a wakeup        *)
(* travels (scheduler object, queue, partition lease) is EventJobs: here a *)
(* wakeup is kept until it runs, is redelivered a bounded number of times  *)
(* and then goes to the dead letter queue.                                 *)
(* Each table is one row that may be written again once it was served.     *)
(* Left out: the times themselves; a wakeup that comes early finds nothing *)
(* to claim and plans again.                                               *)
(***************************************************************************)
EXTENDS Naturals, Sequences

CONSTANTS
    Jobs,          \* the jobs of the instance, some of JobNames
    Legacy,        \* paymentsCutoverState(env).mode # "payments"
    BoundarySync,  \* paymentsBoundarySyncState(env).enabled
    ActiveShards,  \* a shard of the indexer watches some wallet
    MaxWrites,     \* bound on the rows written by requests
    MaxRetries,    \* max_retries of the queue
    MaxFaults      \* bound on lost runs, failed calls and failed rows

VARIABLES
    row,     \* per job: the status of its row
    leased,  \* per job: the lease of a processing row has not expired
    wake,    \* per job: a scheduled record or a message in the queue
    tries,   \* per job: redeliveries of that message
    run,     \* per job: where its execution is
    writes, faults

vars == <<row, leased, wake, tries, run, writes, faults>>
bookkeeping == <<writes, faults>>

\* Tables whose drain claims a row under a lease, tables whose rows stay
\* pending until they are served, and tables of operations that are polled
\* until they end.  The safety sweep serves no row: it recurs.
Leasing == {"payment_reconciler", "balance_refresh", "user_event_delivery",
            "webhook_delivery"}
Queued  == {"indexer_wallet_registry", "satellite_wallet_registry",
            "reorg_replay", "payments_boundary_sync", "alchemy_address_sync"}
Polled  == {"account_operation_reconciler", "crosschain_relayer",
            "user_operation_watcher"}
JobNames == Leasing \cup Queued \cup Polled \cup {"indexer_safety_sweep"}

Statuses == {"none", "pending", "processing", "failed", "served"}
Phases   == {"idle", "claim", "work", "plan", "events"}
Active(j) == row[j] \in {"pending", "processing", "failed"}

TypeOK ==
    /\ Jobs \subseteq JobNames
    /\ row \in [Jobs -> Statuses] /\ run \in [Jobs -> Phases]
    /\ leased \in [Jobs -> BOOLEAN] /\ wake \in [Jobs -> BOOLEAN]
    /\ tries \in [Jobs -> 0..MaxRetries]
    /\ writes \in 0..MaxWrites /\ faults \in 0..MaxFaults

Init ==
    /\ row = [j \in Jobs |-> IF j = "indexer_safety_sweep" /\ ActiveShards
                             THEN "pending" ELSE "none"]
    /\ leased = [j \in Jobs |-> FALSE]
    /\ wake = [j \in Jobs |-> j = "indexer_safety_sweep" /\ ActiveShards]
    /\ tries = [j \in Jobs |-> 0] /\ run = [j \in Jobs |-> "idle"]
    /\ writes = 0 /\ faults = 0

NoFault == UNCHANGED faults
Fault   == faults < MaxFaults /\ faults' = faults + 1

-----------------------------------------------------------------------------
(* When a job is due again: TRUE where the code computes a time.           *)

\* A leased row counts from the end of its lease.
VariantUnfinishedOnly(j) == row[j] \in {"pending", "failed"}
LeasedRowDue(j) == row[j] \in {"pending", "processing", "failed"}
QueuedRowDue(j) == row[j] \in {"pending", "failed"}

nextPaymentReconcileRun == LeasedRowDue("payment_reconciler")
nextBalanceRepairRun    == LeasedRowDue("balance_refresh")
nextUserEventRun        == LeasedRowDue("user_event_delivery")
nextWebhookDeliveryRun  == Legacy /\ LeasedRowDue("webhook_delivery")
nextAccountOperationRun == Active("account_operation_reconciler")
nextCrosschainRun       == Active("crosschain_relayer")
hasPendingPayments      == Active("user_operation_watcher")
nextIndexerWalletRegistryRun(j) == QueuedRowDue(j)
nextReorgReplayRun      == QueuedRowDue("reorg_replay")
nextPaymentsBoundarySyncRun ==
    BoundarySync /\ QueuedRowDue("payments_boundary_sync")
\* Rows the provider has not taken yet remain for the next page; a failed
\* subscription is tried again.
nextAlchemyAddressSyncRun == QueuedRowDue("alchemy_address_sync")
nextIndexerSafetySweepRun == ActiveShards

\* The job's own entry of scheduleJobContinuations.
NextRun(j) ==
    CASE j = "payment_reconciler"        -> nextPaymentReconcileRun
      [] j = "balance_refresh"           -> nextBalanceRepairRun
      [] j = "user_event_delivery"       -> nextUserEventRun
      [] j = "webhook_delivery"          -> nextWebhookDeliveryRun
      [] j = "account_operation_reconciler" -> nextAccountOperationRun
      [] j = "crosschain_relayer"        -> nextCrosschainRun
      [] j = "user_operation_watcher"    -> hasPendingPayments
      [] j \in {"indexer_wallet_registry", "satellite_wallet_registry"} ->
            nextIndexerWalletRegistryRun(j)
      [] j = "reorg_replay"              -> nextReorgReplayRun
      [] j = "payments_boundary_sync"    -> nextPaymentsBoundarySyncRun
      [] j = "alchemy_address_sync"      -> nextAlchemyAddressSyncRun
      [] j = "indexer_safety_sweep"      -> nextIndexerSafetySweepRun

-----------------------------------------------------------------------------
(* Producers.                                                              *)

\* scheduleEventJob: admitting an equal wakeup changes nothing.  A new
\* message starts its own count of redeliveries.
Scheduled(S) == [j \in Jobs |-> wake[j] \/ j \in S]

\* A request or a webhook writes a row and asks for its job; the call may
\* fail after the row is committed.  Home invalidations written by a trigger
\* take the same path (wakeUserEventDeliveryIfPending).
Write(j) ==
    /\ j # "indexer_safety_sweep" /\ writes < MaxWrites
    /\ row[j] \in {"none", "served"}
    /\ row' = [row EXCEPT ![j] = "pending"] /\ writes' = writes + 1
    /\ \/ wake' = Scheduled({j}) /\ NoFault
       \/ UNCHANGED wake /\ Fault
    /\ UNCHANGED <<leased, tries, run>>

-----------------------------------------------------------------------------
(* One execution of a job.                                                 *)

Goto(j, pc) == run' = [run EXCEPT ![j] = pc]

\* consumeEventJobsQueue hands the message to executeEventJob.
Start(j) ==
    /\ wake[j] /\ run[j] = "idle"
    /\ wake' = [wake EXCEPT ![j] = FALSE] /\ Goto(j, "claim")
    /\ UNCHANGED <<row, leased, tries, bookkeeping>>

Claimable(j) == \/ row[j] \in {"pending", "failed"}
                \/ row[j] = "processing" /\ ~leased[j]

\* JOB_RUNNERS: the drain looks for a row that is due and, where the table
\* has leases, claims it.
Claim(j) ==
    /\ run[j] = "claim"
    /\ IF Claimable(j) THEN
         /\ Goto(j, "work")
         /\ IF j \in Leasing
            THEN /\ row' = [row EXCEPT ![j] = "processing"]
                 /\ leased' = [leased EXCEPT ![j] = TRUE]
            ELSE UNCHANGED <<row, leased>>
       ELSE Goto(j, "plan") /\ UNCHANGED <<row, leased>>
    /\ UNCHANGED <<wake, tries, bookkeeping>>

\* The D1 triggers on balances, ledger entries, payments and operations write
\* a Home invalidation together with the row a job serves.
Triggered(r, j) ==
    IF /\ j # "user_event_delivery" /\ "user_event_delivery" \in Jobs
       /\ r["user_event_delivery"] \in {"none", "served"}
    THEN [r EXCEPT !["user_event_delivery"] = "pending"] ELSE r

\* The row is served, or a dependency fails and the row is left for a later
\* run (failed; an operation that is polled stays as it was).
Work(j) ==
    /\ run[j] = "work"
    /\ \/ /\ row' = IF j = "indexer_safety_sweep" THEN row
                    ELSE Triggered([row EXCEPT ![j] = "served"], j)
          /\ NoFault
       \/ /\ j # "indexer_safety_sweep" /\ Fault
          /\ row' = IF j \in Polled THEN row
                    ELSE [row EXCEPT ![j] = "failed"]
    /\ leased' = [leased EXCEPT ![j] = FALSE]
    /\ Goto(j, "plan")
    /\ UNCHANGED <<wake, tries, writes>>

\* consumeEventJobsQueue retries a message whose run threw, up to the
\* queue's limit; the queue does the same for an execution that is lost.
Redeliver(j) ==
    IF tries[j] < MaxRetries
    THEN /\ wake' = Scheduled({j})
         /\ tries' = [tries EXCEPT ![j] = @ + 1]
    ELSE tries' = [tries EXCEPT ![j] = 0] /\ UNCHANGED wake

RunFails(j) == Fault /\ Redeliver(j) /\ Goto(j, "idle")

\* scheduleJobContinuations: first the job's own next run ...
PlanOwn(j) ==
    /\ run[j] = "plan"
    /\ \/ /\ wake' = Scheduled(IF NextRun(j) THEN {j} ELSE {})
          /\ Goto(j, "events") /\ NoFault /\ UNCHANGED tries
       \/ RunFails(j)
    /\ UNCHANGED <<row, leased, writes>>

\* ... then the invalidations the triggers wrote, which no writer announces.
PlanTriggered(j) ==
    /\ run[j] = "events"
    /\ \/ /\ wake' = Scheduled(
               IF /\ j # "user_event_delivery"
                  /\ "user_event_delivery" \in Jobs /\ nextUserEventRun
               THEN {"user_event_delivery"} ELSE {})
          /\ tries' = [tries EXCEPT ![j] = 0] /\ NoFault /\ Goto(j, "idle")
       \/ RunFails(j)
    /\ UNCHANGED <<row, leased, writes>>

\* The execution is lost; the lease of its row stays until it expires.
Lost(j) ==
    /\ run[j] \in {"claim", "work"} /\ RunFails(j)
    /\ UNCHANGED <<row, leased, writes>>

LeaseExpires(j) ==
    /\ leased[j] /\ run[j] # "work"
    /\ leased' = [leased EXCEPT ![j] = FALSE]
    /\ UNCHANGED <<row, wake, tries, run, bookkeeping>>

-----------------------------------------------------------------------------
(* The health check.                                                       *)

\* getOperationalHealth counts no crosschain operation, no legacy webhook and
\* no pending payment.
Counted(j) ==
    CASE j \in {"crosschain_relayer", "webhook_delivery",
                "user_operation_watcher", "indexer_safety_sweep"} -> FALSE
      [] j \in {"indexer_wallet_registry", "satellite_wallet_registry",
                "reorg_replay", "alchemy_address_sync"} -> QueuedRowDue(j)
      [] OTHER -> Active(j)

shouldWakeRecovery == ActiveShards \/ \E j \in Jobs : Counted(j)

\* recoverEventJobs asks for the jobs in this order, then for the satellite
\* registries, the partitions with pending payments and the provider.
RecoveryJobs ==
    <<"indexer_wallet_registry", "reorg_replay", "indexer_safety_sweep",
      "payment_reconciler", "balance_refresh", "account_operation_reconciler",
      "crosschain_relayer", "user_event_delivery">>
    \o (IF BoundarySync THEN <<"payments_boundary_sync">> ELSE <<>>)
    \o (IF Legacy THEN <<"webhook_delivery">> ELSE <<>>)
    \o <<"satellite_wallet_registry", "user_operation_watcher",
         "alchemy_address_sync">>

Recovered(n) ==
    {j \in Jobs : \E k \in 1..n :
        /\ j = RecoveryJobs[k]
        /\ NextRun(j) \/ j = "alchemy_address_sync"}

\* collectHealthSnapshot starts the recovery when some queue holds work; a
\* failed call ends it half way and the next probe starts again.
HealthProbe ==
    /\ shouldWakeRecovery
    /\ \/ wake' = Scheduled(Recovered(Len(RecoveryJobs))) /\ NoFault
       \/ /\ Fault
          /\ \E n \in 0..Len(RecoveryJobs) : wake' = Scheduled(Recovered(n))
    /\ UNCHANGED <<row, leased, tries, run, writes>>

-----------------------------------------------------------------------------
Step(j) == Start(j) \/ Claim(j) \/ Work(j) \/ PlanOwn(j) \/ PlanTriggered(j)

Next ==
    \/ \E j \in Jobs : \/ Write(j) \/ Step(j) \/ Lost(j) \/ LeaseExpires(j)
    \/ HealthProbe

\* The queue delivers what is due, an execution goes on unless it is lost,
\* leases expire and a monitor keeps probing /health.
Fairness ==
    /\ \A j \in Jobs : WF_vars(Step(j)) /\ WF_vars(LeaseExpires(j))
    /\ WF_vars(HealthProbe)

Spec == Init /\ [][Next]_vars
LiveSpec == Spec /\ Fairness

-----------------------------------------------------------------------------
\* Every row a request, a webhook or a trigger wrote is served, whatever run
\* is lost, whatever call fails and even when the queue gave its message up:
\* scheduleJobContinuations plans from the table, and the health check plans
\* again from all of them.
EveryRowIsServed ==
    \A j \in Jobs \ {"indexer_safety_sweep"} :
        row[j] = "pending" ~> row[j] = "served"
=============================================================================
