---------------------------- MODULE PaymentJobs ----------------------------
(***************************************************************************)
(* How the Payments Worker turns one committed event into webhook POSTs:   *)
(* flushPaymentOutbox publishes the outbox row to the queue, concurrent    *)
(* queue consumers claim the job run of a message by its dedupe key, and   *)
(* deliverOne leases, POSTs and records each delivery of the event.  A     *)
(* merchant may resend a delivery, which is a second job on the same rows. *)
(*                                                                         *)
(* Leases carry no clock here: a delivery's 30 s lease may run out at any  *)
(* moment after it was taken; a job's 16 min lease outlives every          *)
(* execution (the platform ends one after 15 min), so it runs out only     *)
(* when nobody executes the job any more.  Of the retry delays only one    *)
(* is modelled: a message that met a live job lease sleeps until then.     *)
(***************************************************************************)
EXTENDS Integers, FiniteSets

CONSTANTS Deliveries,   \* webhook_deliveries of the event, one per endpoint
          Broken,       \* those whose endpoint never answers 2xx
          Consumers,    \* concurrent queue consumers (max_concurrency)
          Flushers,     \* concurrent flushPaymentOutbox calls (cron, requests)
          Msgs,         \* queue messages the run may send
          Outbox,       \* the dedupe key outbox:<id> of the event
          None,         \* SQL NULL
          MaxAttempts,  \* POSTs before a delivery is dead (8 in the code)
          MaxRetries,   \* max_retries of the queue (20 in the code)
          MaxFaults,    \* bound on crashes, thrown errors and refused sends
          MaxMerchant   \* bound on merchant and disabled endpoints

ASSUME JobsAssumption ==
    /\ Broken \subseteq Deliveries
    /\ Outbox \notin Msgs
    /\ None \notin Deliveries \cup Consumers \cup Msgs
    /\ MaxAttempts \in Nat \ {0}
    /\ MaxRetries \in Nat /\ MaxFaults \in Nat /\ MaxMerchant \in Nat

VARIABLES
    outbox,     \* status of the payment_outbox row
    msg,        \* queue messages
    jobRun,     \* payment_job_runs by dedupe key
    delivery,   \* webhook_deliveries
    consumer,   \* local state of each consumer
    flusher,    \* local state of each flush
    posts,      \* POSTs made per delivery, and whether one was answered 2xx
    resent,     \* deliveries a merchant resent
    active,     \* deliveries whose endpoint is active
    faults, merchant

vars == <<outbox, msg, jobRun, delivery, consumer, flusher, posts, resent,
          active, faults, merchant>>

Keys == Msgs \cup {Outbox}
OpenStatuses == {"pending", "processing", "failed"}
TerminalStatuses == {"delivered", "dead"}

Message == [state: {"unsent", "queued", "asleep", "inflight", "acked", "dlq"},
            key: Keys \cup {None}, target: SUBSET Deliveries, attempts: Nat]
JobRun == {"none", "processing", "expired", "completed", "failed"}
Delivery == [status: OpenStatuses \cup TerminalStatuses,
             owner: Consumers \cup {None},
             lease: {"none", "live", "expired"}, attempts: Nat]
\* todo pairs a listed delivery with the attempt_count its row had then.
Consumer == [pc: {"idle", "list", "loop", "post", "record", "finish", "ack",
                  "fail"},
             msg: Msgs \cup {None}, todo: SUBSET (Deliveries \X Nat),
             current: Deliveries \cup {None}, count: Nat,
             ok: BOOLEAN, leasePending: BOOLEAN]

\* Rows, messages and executions have the shape of their tables and types.
TypeOK ==
    /\ outbox \in {"pending", "enqueued", "failed", "completed"}
    /\ msg \in [Msgs -> Message]
    /\ jobRun \in [Keys -> JobRun]
    /\ delivery \in [Deliveries -> Delivery]
    /\ consumer \in [Consumers -> Consumer]
    /\ flusher \in [Flushers -> {"idle", "send", "mark"}]
    /\ posts \in [Deliveries -> [made: Nat, answered: BOOLEAN]]
    /\ resent \subseteq Deliveries
    /\ active \subseteq Deliveries
    /\ faults \in 0..MaxFaults /\ merchant \in 0..MaxMerchant
    /\ \A d \in Deliveries : delivery[d].attempts <= posts[d].made

Free == [pc |-> "idle", msg |-> None, todo |-> {}, current |-> None,
         count |-> 0, ok |-> FALSE, leasePending |-> FALSE]

\* The batch that committed the event left its outbox row and its deliveries.
Init ==
    /\ outbox = "pending"
    /\ msg = [m \in Msgs |-> [state |-> "unsent", key |-> None, target |-> {},
                              attempts |-> 0]]
    /\ jobRun = [k \in Keys |-> "none"]
    /\ delivery = [d \in Deliveries |-> [status |-> "pending", owner |-> None,
                                         lease |-> "none", attempts |-> 0]]
    /\ consumer = [c \in Consumers |-> Free]
    /\ flusher = [f \in Flushers |-> "idle"]
    /\ posts = [d \in Deliveries |-> [made |-> 0, answered |-> FALSE]]
    /\ resent = {}
    /\ active = Deliveries
    /\ faults = 0 /\ merchant = 0

-----------------------------------------------------------------------------
(* flushPaymentOutbox.                                                     *)

\* enqueuePaymentJob.
Send(m, key, target) ==
    /\ msg[m].state = "unsent"
    /\ msg' = [msg EXCEPT ![m] = [state |-> "queued", key |-> key,
                                  target |-> target, attempts |-> 0]]

\* listDuePaymentOutbox.
FlushRead(f) ==
    /\ flusher[f] = "idle"
    /\ outbox \in {"pending", "failed"}
    /\ flusher' = [flusher EXCEPT ![f] = "send"]
    /\ UNCHANGED <<outbox, msg, jobRun, delivery, consumer, posts, resent,
                   active, faults, merchant>>

FlushSend(f) ==
    /\ flusher[f] = "send"
    /\ \E m \in Msgs : Send(m, Outbox, Deliveries)
    /\ flusher' = [flusher EXCEPT ![f] = "mark"]
    /\ UNCHANGED <<outbox, jobRun, delivery, consumer, posts, resent, active,
                   faults, merchant>>

\* markPaymentOutboxEnqueued.
FlushMark(f) ==
    /\ flusher[f] = "mark"
    /\ outbox' = IF outbox \in {"pending", "failed"} THEN "enqueued" ELSE outbox
    /\ flusher' = [flusher EXCEPT ![f] = "idle"]
    /\ UNCHANGED <<msg, jobRun, delivery, consumer, posts, resent, active,
                   faults, merchant>>

\* The send, or the mark after it, throws: markPaymentOutboxFailed, whatever
\* the row's status has become meanwhile.
FlushThrows(f) ==
    /\ flusher[f] # "idle"
    /\ faults < MaxFaults
    /\ outbox' = "failed"
    /\ flusher' = [flusher EXCEPT ![f] = "idle"]
    /\ faults' = faults + 1
    /\ UNCHANGED <<msg, jobRun, delivery, consumer, posts, resent, active,
                   merchant>>

\* The worker dies between the send and the mark.
FlushCrash(f) ==
    /\ flusher[f] # "idle"
    /\ faults < MaxFaults
    /\ flusher' = [flusher EXCEPT ![f] = "idle"]
    /\ faults' = faults + 1
    /\ UNCHANGED <<outbox, msg, jobRun, delivery, consumer, posts, resent,
                   active, merchant>>

-----------------------------------------------------------------------------
(* consumePaymentQueue.                                                    *)

\* queueMessage.retry, or the platform's redelivery: the queue gives a message
\* 1 + MaxRetries deliveries and then moves it to the dead letter queue.
Requeued(m) ==
    [msg[m] EXCEPT !.state = IF @ = "inflight" /\ msg[m].attempts > MaxRetries
                               THEN "dlq" ELSE "queued"]

\* The outbox statement of completePaymentJob's batch.
OutboxAfter(key) == IF key = Outbox THEN "completed" ELSE outbox

\* Variant: a claim that ignores a live lease.
ClaimableAlways(key) == jobRun[key] # "completed"

\* claimPaymentJob's INSERT OR IGNORE and its compare-and-set: whichever of its
\* statements decides, the outcome is that of one atomic claim.
Claimable(key) == jobRun[key] \in {"none", "failed", "expired"}

\* The messages the queue may deliver now.
Deliverable(m) ==
    \/ msg[m].state = "queued"
    \/ msg[m].state = "asleep" /\ jobRun[msg[m].key] # "processing"

\* A message is delivered and its job claimed.
ClaimJob(c, m) ==
    /\ consumer[c].pc = "idle"
    /\ Deliverable(m)
    /\ Claimable(msg[m].key)
    /\ msg' = [msg EXCEPT ![m].state = "inflight", ![m].attempts = @ + 1]
    /\ jobRun' = [jobRun EXCEPT ![msg[m].key] = "processing"]
    /\ consumer' = [consumer EXCEPT ![c] = [Free EXCEPT !.pc = "list", !.msg = m]]
    /\ UNCHANGED <<outbox, delivery, flusher, posts, resent, active, faults,
                   merchant>>

\* The job is done already: completePaymentJob repairs the outbox row.
ClaimCompleted(c, m) ==
    /\ consumer[c].pc = "idle"
    /\ Deliverable(m)
    /\ jobRun[msg[m].key] = "completed"
    /\ msg' = [msg EXCEPT ![m].state = "acked", ![m].attempts = @ + 1]
    /\ outbox' = OutboxAfter(msg[m].key)
    /\ UNCHANGED <<jobRun, delivery, consumer, flusher, posts, resent, active,
                   faults, merchant>>

\* Another consumer holds the lease: retry after what is left of it.
ClaimLeased(c, m) ==
    /\ consumer[c].pc = "idle"
    /\ Deliverable(m)
    /\ ~Claimable(msg[m].key)
    /\ jobRun[msg[m].key] # "completed"
    /\ msg' = [msg EXCEPT
                 ![m].attempts = @ + 1,
                 ![m].state = IF msg[m].attempts + 1 > MaxRetries THEN "dlq"
                                                                  ELSE "asleep"]
    /\ UNCHANGED <<outbox, jobRun, delivery, consumer, flusher, posts, resent,
                   active, faults, merchant>>

\* listWebhookDeliveryJobs: the rows, attempt_count included, read once.
ListDeliveries(c) ==
    /\ consumer[c].pc = "list"
    /\ consumer' = [consumer EXCEPT
         ![c].pc = "loop",
         ![c].todo = {<<d, delivery[d].attempts>> : d \in
                        {e \in msg[consumer[c].msg].target :
                           /\ delivery[e].status \in OpenStatuses
                           /\ e \in active}}]
    /\ UNCHANGED <<outbox, msg, jobRun, delivery, flusher, posts, resent,
                   active, faults, merchant>>

\* The WHERE clause of claimWebhookDelivery.
DeliveryClaimable(d) ==
    \/ delivery[d].status \in {"pending", "failed"} /\ delivery[d].lease # "live"
    \/ delivery[d].status = "processing" /\ delivery[d].lease = "expired"

\* deliverOne begins: the lease is taken, or the row is left for later.
ClaimDelivery(c, d, count) ==
    /\ consumer[c].pc = "loop"
    /\ <<d, count>> \in consumer[c].todo
    /\ IF DeliveryClaimable(d)
         THEN /\ delivery' = [delivery EXCEPT ![d].status = "processing",
                                              ![d].owner = c, ![d].lease = "live"]
              /\ consumer' = [consumer EXCEPT ![c].pc = "post",
                                              ![c].todo = @ \ {<<d, count>>},
                                              ![c].current = d, ![c].count = count]
         ELSE /\ consumer' = [consumer EXCEPT ![c].todo = @ \ {<<d, count>>},
                                              ![c].leasePending = TRUE]
              /\ UNCHANGED delivery
    /\ UNCHANGED <<outbox, msg, jobRun, flusher, posts, resent, active,
                   faults, merchant>>

\* The POST: answered 2xx, or not (another status, a timeout, a network error).
Post(c) ==
    /\ consumer[c].pc = "post"
    /\ \E ok \in {TRUE, FALSE} :
         /\ ok => consumer[c].current \notin Broken
         /\ consumer' = [consumer EXCEPT ![c].pc = "record", ![c].ok = ok]
         /\ posts' = [posts EXCEPT ![consumer[c].current] =
                        [made |-> @.made + 1, answered |-> @.answered \/ ok]]
    /\ UNCHANGED <<outbox, msg, jobRun, delivery, flusher, resent, active,
                   faults, merchant>>

\* AND lease_owner = ?
Owns(c, d) == delivery[d].owner = c

\* Variant: a delivery that is never given up.
RecordedStatusNeverDead(ok, attempts) == IF ok THEN "delivered" ELSE "failed"

\* The status recordWebhookResponse and recordWebhookNetworkFailure write.
RecordedStatus(ok, attempts) ==
    CASE ok -> "delivered"
      [] ~ok /\ attempts >= MaxAttempts -> "dead"
      [] OTHER -> "failed"

\* delivery.attempt_count + 1, from the row as it was listed.
Counted(c) == consumer[c].count + 1

\* recordWebhookResponse, recordWebhookNetworkFailure: fenced by lease_owner.
\* Anything but a 2xx throws out of the loop over the deliveries.
Record(c) ==
    LET d == consumer[c].current
        attempts == Counted(c) IN
    /\ consumer[c].pc = "record"
    /\ delivery' = IF Owns(c, d)
                     THEN [delivery EXCEPT ![d] =
                             [status |-> RecordedStatus(consumer[c].ok, attempts),
                              owner |-> None, lease |-> "none",
                              attempts |-> attempts]]
                     ELSE delivery
    /\ consumer' = [consumer EXCEPT ![c].pc = IF consumer[c].ok THEN "loop" ELSE "fail",
                                    ![c].current = None, ![c].count = 0,
                                    ![c].ok = FALSE]
    /\ UNCHANGED <<outbox, msg, jobRun, flusher, posts, resent, active,
                   faults, merchant>>

\* WEBHOOK_DELIVERY_LEASE_PENDING.
RunSucceeded(c) == ~consumer[c].leasePending

\* runPaymentJob returns, or throws for a delivery somebody else had leased.
LoopEnds(c) ==
    /\ consumer[c].pc = "loop"
    /\ consumer[c].todo = {}
    /\ consumer' = [consumer EXCEPT ![c].pc = IF RunSucceeded(c) THEN "finish"
                                                                 ELSE "fail"]
    /\ UNCHANGED <<outbox, msg, jobRun, delivery, flusher, posts, resent,
                   active, faults, merchant>>

\* completePaymentJob: the run and the outbox row in one batch.
CompleteJob(c) ==
    /\ consumer[c].pc = "finish"
    /\ jobRun' = [jobRun EXCEPT ![msg[consumer[c].msg].key] = "completed"]
    /\ outbox' = OutboxAfter(msg[consumer[c].msg].key)
    /\ consumer' = [consumer EXCEPT ![c].pc = "ack"]
    /\ UNCHANGED <<msg, delivery, flusher, posts, resent, active, faults,
                   merchant>>

\* queueMessage.ack.
Ack(c) ==
    /\ consumer[c].pc = "ack"
    /\ msg' = [msg EXCEPT ![consumer[c].msg].state = "acked"]
    /\ consumer' = [consumer EXCEPT ![c] = Free]
    /\ UNCHANGED <<outbox, jobRun, delivery, flusher, posts, resent, active,
                   faults, merchant>>

\* The catch block: failPaymentJob, then retry.
FailJob(c) ==
    LET m == consumer[c].msg IN
    /\ consumer[c].pc = "fail"
    /\ jobRun' = [jobRun EXCEPT ![msg[m].key] = "failed"]
    /\ msg' = [msg EXCEPT ![m] = Requeued(m)]
    /\ consumer' = [consumer EXCEPT ![c] = Free]
    /\ UNCHANGED <<outbox, delivery, flusher, posts, resent, active, faults,
                   merchant>>

\* A D1, decryption or platform error thrown inside the try block.
Throw(c) ==
    /\ consumer[c].pc \in {"list", "loop", "post", "record", "finish"}
    /\ faults < MaxFaults
    /\ consumer' = [consumer EXCEPT ![c].pc = "fail"]
    /\ faults' = faults + 1
    /\ UNCHANGED <<outbox, msg, jobRun, delivery, flusher, posts, resent,
                   active, merchant>>

\* The consumer is lost; the queue delivers the message again.
ConsumerCrash(c) ==
    /\ consumer[c].pc # "idle"
    /\ faults < MaxFaults
    /\ msg' = [msg EXCEPT ![consumer[c].msg] = Requeued(consumer[c].msg)]
    /\ consumer' = [consumer EXCEPT ![c] = Free]
    /\ faults' = faults + 1
    /\ UNCHANGED <<outbox, jobRun, delivery, flusher, posts, resent, active,
                   merchant>>

-----------------------------------------------------------------------------
(* Time and the merchant.                                                  *)

DeliveryLeaseExpires(d) ==
    /\ delivery[d].lease = "live"
    /\ delivery' = [delivery EXCEPT ![d].lease = "expired"]
    /\ UNCHANGED <<outbox, msg, jobRun, consumer, flusher, posts, resent,
                   active, faults, merchant>>

JobLeaseExpires(k) ==
    /\ jobRun[k] = "processing"
    /\ \A c \in Consumers : consumer[c].pc # "idle" => msg[consumer[c].msg].key # k
    /\ jobRun' = [jobRun EXCEPT ![k] = "expired"]
    /\ UNCHANGED <<outbox, msg, delivery, consumer, flusher, posts, resent,
                   active, faults, merchant>>

\* POST /merchant/webhook_deliveries/:id/resend: resendWebhookDelivery, then a
\* job with a dedupe key of its own (unless the send throws).
Resend(d) ==
    /\ merchant < MaxMerchant
    /\ delivery' = [delivery EXCEPT ![d].status = "pending", ![d].owner = None,
                                    ![d].lease = "none"]
    /\ \E m \in Msgs : Send(m, m, {d})
    /\ resent' = resent \cup {d}
    /\ merchant' = merchant + 1
    /\ UNCHANGED <<outbox, jobRun, consumer, flusher, posts, active, faults>>

\* disableWebhookEndpoint: the deliveries of the endpoint are no longer listed.
DisableEndpoint(d) ==
    /\ merchant < MaxMerchant
    /\ d \in active
    /\ active' = active \ {d}
    /\ merchant' = merchant + 1
    /\ UNCHANGED <<outbox, msg, jobRun, delivery, consumer, flusher, posts,
                   resent, faults>>

ResendNotSent(d) ==
    /\ merchant < MaxMerchant
    /\ faults < MaxFaults
    /\ delivery' = [delivery EXCEPT ![d].status = "pending", ![d].owner = None,
                                    ![d].lease = "none"]
    /\ resent' = resent \cup {d}
    /\ merchant' = merchant + 1 /\ faults' = faults + 1
    /\ UNCHANGED <<outbox, msg, jobRun, consumer, flusher, posts, active>>

Next ==
    \/ \E f \in Flushers : FlushRead(f) \/ FlushSend(f) \/ FlushMark(f)
    \/ \E f \in Flushers : FlushThrows(f) \/ FlushCrash(f)
    \/ \E c \in Consumers, m \in Msgs :
         ClaimJob(c, m) \/ ClaimCompleted(c, m) \/ ClaimLeased(c, m)
    \/ \E c \in Consumers : ListDeliveries(c)
    \/ \E c \in Consumers : \E todo \in consumer[c].todo :
         ClaimDelivery(c, todo[1], todo[2])
    \/ \E c \in Consumers :
         Post(c) \/ Record(c) \/ LoopEnds(c) \/ CompleteJob(c) \/ Ack(c)
           \/ FailJob(c) \/ Throw(c) \/ ConsumerCrash(c)
    \/ \E d \in Deliveries :
         DeliveryLeaseExpires(d) \/ Resend(d) \/ ResendNotSent(d)
           \/ DisableEndpoint(d)
    \/ \E k \in Keys : JobLeaseExpires(k)

Spec == Init /\ [][Next]_vars

\* The cron flushes every minute, a started flush and a started execution go
\* on, the queue delivers what is queued, and leases run out.
FlusherStep(f) == FlushRead(f) \/ FlushSend(f) \/ FlushMark(f)
ConsumerStep(c) ==
    \/ ListDeliveries(c) \/ Post(c) \/ Record(c) \/ LoopEnds(c)
    \/ CompleteJob(c) \/ Ack(c) \/ FailJob(c)
    \/ \E todo \in consumer[c].todo : ClaimDelivery(c, todo[1], todo[2])
Delivered(m) ==
    \E c \in Consumers : ClaimJob(c, m) \/ ClaimCompleted(c, m) \/ ClaimLeased(c, m)
Fairness ==
    /\ \A f \in Flushers : WF_vars(FlusherStep(f))
    /\ \A c \in Consumers : WF_vars(ConsumerStep(c))
    /\ \A m \in Msgs : WF_vars(Delivered(m))
    /\ \A k \in Keys : WF_vars(JobLeaseExpires(k))

FairSpec == Spec /\ Fairness

-----------------------------------------------------------------------------
(* Properties.                                                             *)

\* The dedupe key keeps a job to one execution at a time, under duplicate
\* messages, retries, crashes and expired leases (claimPaymentJob).
OneExecutionPerJob ==
    \A c, e \in Consumers :
        /\ c # e
        /\ consumer[c].pc \notin {"idle", "ack"}
        /\ consumer[e].pc \notin {"idle", "ack"}
        => msg[consumer[c].msg].key # msg[consumer[e].msg].key

\* The outbox row is completed only when every delivery of its event is
\* delivered or dead (or a merchant reopened it or disabled its endpoint): no
\* failure, lost lease or crash lets the job finish early.
CompletedOutboxIsDelivered ==
    outbox = "completed" =>
        \A d \in active \ resent : delivery[d].status \in TerminalStatuses

\* A delivery marked delivered was answered 2xx by its endpoint, and one marked
\* dead was POSTed MaxAttempts times.
TerminalIsEarned ==
    \A d \in Deliveries :
        /\ delivery[d].status = "delivered" => posts[d].answered
        /\ delivery[d].status = "dead" => posts[d].made >= MaxAttempts

\* What the queue promises of a job, under duplicate messages, retries, crashes
\* and expired leases: one execution at a time (claimPaymentJob), an end only
\* when its deliveries ended, and ends that an endpoint has earned.
JobsRunOnceToTheEnd ==
    OneExecutionPerJob /\ CompletedOutboxIsDelivered /\ TerminalIsEarned

\* A late answer never overwrites a delivered or dead delivery: only the
\* merchant reopens one.
TerminalIsFinal ==
    [][\A d \in Deliveries :
         delivery[d].status \in TerminalStatuses =>
             \/ delivery'[d].status = delivery[d].status
             \/ delivery'[d].status = "pending" /\ merchant' > merchant]_vars

\* Every delivery of a committed event ends delivered or dead: duplicate
\* messages, failing endpoints and leases held by others only delay it.
EveryDeliveryEnds ==
    \A d \in Deliveries : <>(delivery[d].status \in TerminalStatuses)

\* docs: "GatoPago POSTs each event to your URL".  A run stops at the first
\* endpoint that fails, so enough failing endpoints use up the message's
\* retries before the others are ever tried.
HealthyEndpointIsTried ==
    \A d \in Deliveries \ Broken : <>(posts[d].made > 0)
=============================================================================
