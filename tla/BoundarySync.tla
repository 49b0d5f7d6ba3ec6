---------------------------- MODULE BoundarySync ----------------------------
(***************************************************************************)
(* The one-way boundary between the App Worker and the Payments Worker.    *)
(* The App keeps two outboxes, filled by triggers of its database: the     *)
(* settlement account of a user (one row, the latest wallet) and the       *)
(* executions of payment attempts.  Passes of payments_boundary_sync drain *)
(* them through RPC commands, and the Payments Worker applies a command    *)
(* once.  The two databases share no transaction.                          *)
(***************************************************************************)
EXTENDS Naturals

CONSTANTS MaxVersion, \* bound: changes of the user's wallet
          Attempts,   \* payment attempts of the App
          Passes,     \* passes that may overlap
          MaxFaults,  \* bound: lost answers, passes that die
          None

Versions == 0..MaxVersion
Modes == {"legacy", "frozen", "payments"}
NoPass == [pc |-> "idle", a |-> None, v |-> 0, seen |-> 0]

VARIABLES mode,      \* PAYMENTS_CUTOVER_MODE of the App Worker
          open,      \* paymentsWriteAvailability of the Payments Worker
          version,   \* users.settlement_account_version; names the wallet too
          box,       \* payment_account_sync_outbox: the version it holds, or 0
          exec,      \* payment_execution_sync_outbox, by attempt
          merchant,  \* merchants.account_version and the version of its wallet
          commands,  \* settlement_account_commands
          attempt,   \* payment_attempts.status in the Payments Worker
          runs,      \* app_execution_commands
          watched,   \* attempts whose reconciliation jobs were enqueued
          pass, faults

vars == <<mode, open, version, box, exec, merchant, commands, attempt, runs, watched, pass, faults>>
app == <<version, box, exec>>
payments == <<merchant, commands, attempt, runs, watched>>

Init ==
  /\ mode = "legacy" /\ open = FALSE /\ version = 0 /\ box = 0
  /\ exec = [a \in Attempts |-> "none"]
  /\ merchant = [version |-> 0, wallet |-> 0] /\ commands = {}
  /\ attempt = [a \in Attempts |-> "none"] /\ runs = {} /\ watched = {}
  /\ pass = [d \in Passes |-> NoPass] /\ faults = 0

(* Sync never runs in legacy mode: the rows wait for the import. *)
PaymentsBoundarySyncEnabled == mode # "legacy"

----------------------------------------------------------------------------
(* The App Worker. *)

(* A new wallet bumps the version, and the trigger replaces the row. *)
SaveUser ==
  /\ version < MaxVersion /\ version' = version + 1 /\ box' = version + 1
  /\ UNCHANGED <<mode, open, exec, payments, pass, faults>>

(* An attempt is reserved over RPC; paymentLinkPrepareAction allows it only *)
(* once Payments owns the links.                                            *)
ReserveAppPaymentAttempt(a) ==
  /\ mode = "payments" /\ open /\ attempt[a] = "none"
  /\ attempt' = [attempt EXCEPT ![a] = "reserved"]
  /\ UNCHANGED <<mode, open, app, merchant, commands, runs, watched, pass, faults>>

(* The trigger on a submitted payment; paymentSubmissionBlocked holds the *)
(* submission back outside payments mode.                                 *)
SubmitPayment(a) ==
  /\ mode = "payments" /\ attempt[a] # "none" /\ exec[a] = "none"
  /\ exec' = [exec EXCEPT ![a] = "pending"]
  /\ UNCHANGED <<mode, open, version, box, payments, pass, faults>>

(* The payer's browser cancels a reserved attempt in the Payments Worker. *)
CancelAttempt(a) ==
  /\ open /\ attempt[a] = "reserved" /\ attempt' = [attempt EXCEPT ![a] = "canceled"]
  /\ UNCHANGED <<mode, open, app, merchant, commands, runs, watched, pass, faults>>

----------------------------------------------------------------------------
(* A pass over the outboxes. *)

Goto(d, pc) == pass' = [pass EXCEPT ![d].pc = pc]
Done(d) == pass' = [pass EXCEPT ![d] = NoPass]

ListAccounts(d) ==
  /\ PaymentsBoundarySyncEnabled /\ pass[d].pc = "idle" /\ box # 0
  /\ pass' = [pass EXCEPT ![d] = [NoPass EXCEPT !.pc = "account", !.v = box]]
  /\ UNCHANGED <<mode, open, app, payments, faults>>

ListExecutions(d) ==
  /\ PaymentsBoundarySyncEnabled /\ pass[d].pc = "idle"
  /\ \E a \in Attempts : /\ exec[a] \in {"pending", "failed"}
                         /\ pass' = [pass EXCEPT ![d] = [NoPass EXCEPT !.pc = "execution", !.a = a]]
  /\ UNCHANGED <<mode, open, app, payments, faults>>

(* upsertSettlementAccount: a command that was applied is answered again, *)
(* otherwise the merchant is read.                                        *)
SendSettlementAccount(d) ==
  /\ pass[d].pc = "account"
  /\ IF ~ open THEN Goto(d, "nack")
     ELSE IF pass[d].v \in commands THEN Goto(d, "ack")
     ELSE pass' = [pass EXCEPT ![d].pc = "upsert", ![d].seen = merchant.version]
  /\ UNCHANGED <<mode, open, app, payments, faults>>

(* The UPDATE repeats the comparison with the version in the row. *)
Newer(d) == pass[d].v > pass[d].seen /\ merchant.version < pass[d].v

(* One batch: the merchant and the command; a key that exists fails it all. *)
PersistSettlementAccount(d) ==
  LET v == pass[d].v IN
  /\ pass[d].pc = "upsert"
  /\ IF v \in commands \/ (pass[d].seen = 0 /\ merchant.version # 0)
     THEN Goto(d, "nack") /\ UNCHANGED <<merchant, commands>>
     ELSE /\ merchant' = IF Newer(d) THEN [version |-> v, wallet |-> v] ELSE merchant
          /\ commands' = commands \cup {v} /\ Goto(d, "ack")
  /\ UNCHANGED <<mode, open, app, attempt, runs, watched, faults>>

VariantDeleteAny(v) == TRUE
(* Only a row no newer than the command is deleted. *)
MayForget(v) == box <= v

AccountDelivered(d) ==
  /\ pass[d].pc = "ack" /\ pass[d].a = None /\ Done(d)
  /\ box' = IF MayForget(pass[d].v) THEN 0 ELSE box
  /\ UNCHANGED <<mode, open, version, exec, payments, faults>>

(* registerAppExecution: a command is recorded once, and the jobs that watch *)
(* the attempt are enqueued after it, on a replay too.                       *)
RegisterAppExecution(d) ==
  LET a == pass[d].a IN
  /\ pass[d].pc = "execution"
  /\ IF open
     THEN /\ runs' = runs \cup {a} /\ Goto(d, "enqueue")
          /\ attempt' = IF attempt[a] = "reserved" /\ a \notin runs
                        THEN [attempt EXCEPT ![a] = "submitted"] ELSE attempt
     ELSE Goto(d, "nack") /\ UNCHANGED <<runs, attempt>>
  /\ UNCHANGED <<mode, open, app, merchant, commands, watched, faults>>

EnqueuePaymentJobs(d) ==
  /\ pass[d].pc = "enqueue" /\ watched' = watched \cup {pass[d].a} /\ Goto(d, "ack")
  /\ UNCHANGED <<mode, open, app, merchant, commands, attempt, runs, faults>>

Answered(d) == pass[d].pc = "ack" /\ pass[d].a # None

ExecutionDelivered(d) ==
  /\ Answered(d) /\ Done(d) /\ exec' = [exec EXCEPT ![pass[d].a] = "gone"]
  /\ UNCHANGED <<mode, open, version, box, payments, faults>>

(* Any error keeps the row, whatever it holds by now. *)
SyncFailed(d) ==
  /\ pass[d].pc = "nack" /\ Done(d)
  /\ exec' = IF pass[d].a # None /\ exec[pass[d].a] # "gone"
             THEN [exec EXCEPT ![pass[d].a] = "failed"] ELSE exec
  /\ UNCHANGED <<mode, open, version, box, payments, faults>>

----------------------------------------------------------------------------
(* Faults and deployments. *)

(* The answer of a command is lost on the way back, or the callee dies. *)
LoseAnswer(d) ==
  /\ pass[d].pc \in {"ack", "upsert", "enqueue"} /\ faults < MaxFaults /\ faults' = faults + 1
  /\ Goto(d, "nack")
  /\ UNCHANGED <<mode, open, app, payments>>

Crash(d) ==
  /\ pass[d].pc # "idle" /\ faults < MaxFaults /\ faults' = faults + 1 /\ Done(d)
  /\ UNCHANGED <<mode, open, app, payments>>

(* The cutover: links are frozen, the import is verified, Payments takes over. *)
Deploy ==
  /\ \/ mode = "legacy" /\ mode' = "frozen" /\ UNCHANGED open
     \/ mode = "frozen" /\ open /\ mode' = "payments" /\ UNCHANGED open
     \/ mode = "frozen" /\ ~ open /\ open' = TRUE /\ UNCHANGED mode
  /\ UNCHANGED <<app, payments, pass, faults>>

Next ==
  \/ SaveUser \/ Deploy
  \/ \E a \in Attempts : ReserveAppPaymentAttempt(a) \/ SubmitPayment(a) \/ CancelAttempt(a)
  \/ \E d \in Passes : ListAccounts(d) \/ ListExecutions(d) \/ SendSettlementAccount(d)
                       \/ PersistSettlementAccount(d) \/ AccountDelivered(d)
                       \/ RegisterAppExecution(d) \/ EnqueuePaymentJobs(d)
                       \/ ExecutionDelivered(d) \/ SyncFailed(d) \/ LoseAnswer(d) \/ Crash(d)

Spec == Init /\ [][Next]_vars

Fairness ==
  /\ WF_vars(Deploy)
  /\ \A d \in Passes :
       /\ WF_vars(ListAccounts(d) \/ ListExecutions(d))
       /\ WF_vars(SendSettlementAccount(d) \/ PersistSettlementAccount(d) \/ AccountDelivered(d)
                  \/ RegisterAppExecution(d) \/ EnqueuePaymentJobs(d) \/ ExecutionDelivered(d)
                  \/ SyncFailed(d))
LiveSpec == Spec /\ Fairness

----------------------------------------------------------------------------
(* Properties *)

(* The outbox row, the merchant and the passes keep their domains. *)
TypeOK ==
  /\ box \in Versions /\ merchant.version \in Versions /\ mode \in Modes
  /\ \A d \in Passes : pass[d].v \in Versions

(* An account whose row is gone has reached the Payments Worker, in the version *)
(* the user has now: a pass that answers for an older wallet deletes nothing    *)
(* newer (drainPaymentsBoundaryOutbox), and the merchant never falls back to a  *)
(* wallet that a later command replaced (upsertSettlementAccount).              *)
AccountIsNotForgotten ==
  box = 0 => merchant = [version |-> version, wallet |-> version]

(* An execution whose row is gone is known to the Payments Worker, and the jobs *)
(* that will look for its payment were enqueued, whatever answers were lost     *)
(* between the command, its record and the jobs (registerAppPaymentExecution).  *)
ExecutionIsWatched ==
  \A a \in Attempts : exec[a] = "gone" => a \in runs /\ a \in watched

(* The wallet a user ends with becomes the merchant's settlement wallet. *)
AccountArrives == <>[](merchant.version = version)
=============================================================================
