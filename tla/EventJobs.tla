------------------------------ MODULE EventJobs ------------------------------
(***************************************************************************)
(* The event-driven jobs of the App Worker, for one partition of one chain *)
(* job (indexer, user_operation_watcher, recovery_watcher).  A producer    *)
(* asks the partition's EventJobScheduler, a Durable Object, for a wakeup; *)
(* the object keeps at most one record and one alarm, and at the alarm     *)
(* sends one message to the queue; a queue consumer takes the partition's  *)
(* D1 lease, runs the job and asks for the next wakeup.                    *)
(*                                                                         *)
(* A Durable Object runs one storage operation at a time, so its handlers  *)
(* are atomic between two awaits on something else: here, the await of     *)
(* sendBatch in alarm(), during which schedule() may run.  A consumer is   *)
(* split at every await on D1, the object or the chain.  Times are delays  *)
(* from now: 0 is due.                                                     *)
(***************************************************************************)
EXTENDS Integers, FiniteSets, Bags

CONSTANTS Executors,      \* concurrent queue consumers (max_concurrency)
          None,
          MaxDelay,       \* the longest delay
          MaxHead,        \* bound on the chain's safe head
          MaxRetries,     \* max_retries of parmelia-scheduled-jobs
          MaxGeneration,  \* generations wrap after this many
          MaxWakes,       \* bound on producers' requests
          MaxFaults       \* bound on crashes and failed calls

ASSUME ConstantsAssumption ==
    /\ MaxDelay \in Nat \ {0} /\ MaxHead \in Nat /\ MaxRetries \in Nat
    /\ MaxGeneration \in Nat \ {0, 1}
    /\ MaxWakes \in Nat /\ MaxFaults \in Nat
    /\ None \notin Executors \cup Nat

VARIABLES
    record,    \* the stored ScheduledEventJob, or None
    alarm,     \* the delay of the object's alarm, or None
    handler,   \* alarm() while it awaits sendBatch
    queue,     \* bag of messages
    dead,      \* targets of the messages in the dead letter queue
    lease,     \* cron_leases row of the partition: the owner, or None
    exec,      \* local state of each consumer
    cursor,    \* sync cursor of the partition
    head,      \* safe head of the chain
    need,      \* highest target of an accepted wakeup
    owed,      \* a wakeup was accepted and no run has started since
    torn,      \* the object died between a record and its alarm
    wakes, faults

object == <<record, alarm>>
chain == <<cursor, head>>
promises == <<need, owed>>
vars == <<object, handler, queue, dead, lease, exec, chain, promises, torn,
          wakes, faults>>

Delays == 0..MaxDelay
\* A request without targetBlock has target 0: the job runs to the head.
Targets == 0..MaxHead
Generations == 1..MaxGeneration

Request == [runAt: Delays, target: Targets]
Record == [runAt: Delays, target: Targets, generation: Generations,
           state: {"scheduled", "dispatching"}]
\* `tries` counts the deliveries that failed.
Message == [target: Targets, tries: 0..MaxRetries]
Handler == [pc: {"idle", "sending", "sent"}, generation: Generations,
            target: Targets]
\* `scan` is the head the run read, `goal` the target it works to.
Exec == [pc: {"idle", "lease", "preserve", "run", "commit", "continue",
              "release"},
         msg: Message, scan: Targets, goal: Targets, failed: BOOLEAN]

TypeOK ==
    /\ record \in Record \cup {None}
    /\ alarm \in Delays \cup {None}
    /\ handler \in Handler
    /\ IsABag(queue) /\ BagToSet(queue) \subseteq Message
    /\ dead \subseteq Targets
    /\ lease \in Executors \cup {None}
    /\ exec \in [Executors -> Exec]
    /\ cursor \in Targets /\ head \in Targets /\ cursor <= head
    /\ need \in Targets /\ owed \in BOOLEAN /\ torn \in BOOLEAN
    /\ wakes \in 0..MaxWakes /\ faults \in 0..MaxFaults

NoHandler == [pc |-> "idle", generation |-> 1, target |-> 0]
NoExec == [pc |-> "idle", msg |-> [target |-> 0, tries |-> 0], scan |-> 0,
           goal |-> 0, failed |-> FALSE]

Init ==
    /\ record = None /\ alarm = None /\ handler = NoHandler
    /\ queue = EmptyBag /\ dead = {} /\ lease = None
    /\ exec = [e \in Executors |-> NoExec]
    /\ cursor = 0 /\ head = 0 /\ need = 0
    /\ owed = FALSE /\ torn = FALSE
    /\ wakes = 0 /\ faults = 0

Larger(a, b) == IF a >= b THEN a ELSE b
Smaller(a, b) == IF a <= b THEN a ELSE b
Fault == faults < MaxFaults /\ faults' = faults + 1
NoFault == UNCHANGED faults

-----------------------------------------------------------------------------
(* EventJobScheduler.schedule.                                             *)

\* mergeScheduledJob: a wakeup that is no later than the request and covers
\* its target absorbs it, unless it is already being dispatched.
Absorbed(r, q) ==
    /\ r # None
    /\ r.state = "scheduled" /\ r.runAt <= q.runAt
    /\ q.target = 0 \/ (r.target # 0 /\ q.target <= r.target)

\* mergeScheduledJob: the record that replaces r.
Merged(r, q) ==
    IF r = None
    THEN [runAt |-> q.runAt, target |-> q.target, generation |-> 1,
          state |-> "scheduled"]
    ELSE [runAt |-> IF r.state = "scheduled" THEN Smaller(r.runAt, q.runAt)
                    ELSE q.runAt,
          target |-> Larger(r.target, q.target),
          generation |-> (r.generation % MaxGeneration) + 1,
          state |-> "scheduled"]

\* Variant: an alarm that is already set is never moved.
ScheduleNoRearm(q) ==
    IF Absorbed(record, q)
    THEN UNCHANGED object
    ELSE /\ record' = Merged(record, q)
         /\ alarm' = IF alarm = None THEN record'.runAt ELSE alarm

\* scheduleParsed: the request is accepted, absorbed or not.
Schedule(q) ==
    IF Absorbed(record, q)
    THEN UNCHANGED object
    ELSE LET r == Merged(record, q) IN
         /\ record' = r
         /\ alarm' = IF alarm = None \/ r.runAt < alarm THEN r.runAt ELSE alarm

\* The object is restarted between the transaction and setAlarm; the caller
\* sees an exception.
ScheduleTorn(q) ==
    /\ Fault
    /\ ~Absorbed(record, q)
    /\ record' = Merged(record, q)
    /\ torn' = TRUE
    /\ UNCHANGED alarm

\* The object cannot be reached; the caller sees an exception.
ScheduleFails == Fault /\ UNCHANGED <<object, torn>>

\* A producer committed its work to D1 and asks for a run.
Wake(q) ==
    /\ wakes < MaxWakes /\ wakes' = wakes + 1
    /\ \/ /\ Schedule(q)
          /\ need' = Larger(need, q.target) /\ owed' = TRUE
          /\ UNCHANGED <<torn, faults>>
       \/ (ScheduleTorn(q) \/ ScheduleFails) /\ UNCHANGED promises
    /\ UNCHANGED <<handler, queue, dead, lease, exec, chain>>

-----------------------------------------------------------------------------
(* EventJobScheduler.alarm.                                                *)

\* armEarliestJob
Arm(r) == IF r = None THEN None ELSE r.runAt

\* The due record is marked before the queue is called; a record that is not
\* due only has its alarm set again.
AlarmFires ==
    /\ alarm = 0 /\ handler.pc = "idle"
    /\ IF record # None /\ record.runAt = 0
       THEN /\ record' = [record EXCEPT !.state = "dispatching"]
            /\ handler' = [pc |-> "sending", generation |-> record.generation,
                           target |-> record.target]
            /\ alarm' = None
       ELSE alarm' = Arm(record) /\ UNCHANGED <<record, handler>>
    /\ UNCHANGED <<queue, dead, lease, exec, chain, promises, torn, wakes,
                   faults>>

\* The queue accepts the message.
QueueAccepts ==
    /\ handler.pc = "sending"
    /\ handler' = [handler EXCEPT !.pc = "sent"]
    /\ queue' = queue (+) SetToBag({[target |-> handler.target, tries |-> 0]})
    /\ UNCHANGED <<object, dead, lease, exec, chain, promises, torn, wakes,
                   faults>>

\* The record alarm() dispatched has not been scheduled again meanwhile.
StillDispatched == record # None /\ record.generation = handler.generation

SendReturns ==
    /\ handler.pc = "sent"
    /\ record' = IF StillDispatched THEN None ELSE record
    /\ alarm' = Arm(record')
    /\ handler' = NoHandler
    /\ UNCHANGED <<queue, dead, lease, exec, chain, promises, torn, wakes,
                   faults>>

\* sendBatch throws, whether or not the queue had accepted the message; the
\* wakeup comes back after dispatchRetryMs.
SendFails ==
    /\ handler.pc \in {"sending", "sent"} /\ Fault
    /\ \E d \in Delays \ {0} :
           record' = IF StillDispatched
                     THEN [record EXCEPT !.state = "scheduled", !.runAt = d]
                     ELSE record
    /\ alarm' = Arm(record')
    /\ handler' = NoHandler
    /\ UNCHANGED <<queue, dead, lease, exec, chain, promises, torn, wakes>>

\* The object is restarted during alarm(): the platform runs it again.
AlarmCrashes ==
    /\ handler.pc \in {"sending", "sent"} /\ Fault
    /\ handler' = NoHandler
    /\ alarm' = 0
    /\ UNCHANGED <<record, queue, dead, lease, exec, chain, promises, torn,
                   wakes>>

-----------------------------------------------------------------------------
(* consumeEventJobsQueue and executeEventJob.                              *)

Goto(e, pc) == exec' = [exec EXCEPT ![e].pc = pc]

\* message.retry(), and the redelivery after a lost execution.
Requeue(m) ==
    IF m.tries < MaxRetries
    THEN /\ queue' = queue (+) SetToBag({[m EXCEPT !.tries = @ + 1]})
         /\ UNCHANGED dead
    ELSE dead' = dead \cup {m.target} /\ UNCHANGED queue

Deliver(e) ==
    /\ exec[e].pc = "idle"
    /\ \E m \in BagToSet(queue) :
           /\ queue' = queue (-) SetToBag({m})
           /\ exec' = [exec EXCEPT ![e] = [NoExec EXCEPT !.pc = "lease",
                                                         !.msg = m]]
    /\ UNCHANGED <<object, handler, dead, lease, chain, promises, torn, wakes,
                   faults>>

\* acquireLease: take over an expired row or insert the first one.
LeaseFree == lease = None

AcquireLease(e) ==
    /\ exec[e].pc = "lease" /\ LeaseFree
    /\ lease' = e
    /\ Goto(e, "run")
    /\ UNCHANGED <<object, handler, queue, dead, chain, promises, torn, wakes,
                   faults>>

LeaseBusy(e) ==
    /\ exec[e].pc = "lease" /\ ~LeaseFree
    /\ Goto(e, "preserve")
    /\ UNCHANGED <<object, handler, queue, dead, lease, chain, promises, torn,
                   wakes, faults>>

\* OVERLAP_RETRY_MS from now, with the target of the message.
Overlap(m) == [runAt |-> MaxDelay, target |-> m.target]

\* The message is acknowledged only once the wakeup is back in the object.
Preserve(e) ==
    /\ exec[e].pc = "preserve"
    /\ exec' = [exec EXCEPT ![e] = NoExec]
    /\ \/ Schedule(Overlap(exec[e].msg))
          /\ UNCHANGED <<queue, dead, torn, faults>>
       \/ (ScheduleTorn(Overlap(exec[e].msg)) \/ ScheduleFails)
          /\ Requeue(exec[e].msg)
    /\ UNCHANGED <<handler, lease, chain, promises, wakes>>

\* The runner reads the safe head (and D1): later work is another wakeup's.
RunStart(e) ==
    /\ exec[e].pc = "run"
    /\ exec' = [exec EXCEPT ![e].pc = "commit", ![e].scan = head,
                            ![e].goal = Larger(exec[e].msg.target, head)]
    /\ owed' = FALSE
    /\ UNCHANGED <<object, handler, queue, dead, lease, chain, need, torn,
                   wakes, faults>>

\* One invocation commits a bounded range below the head it read.
RunCommit(e) ==
    /\ exec[e].pc = "commit"
    /\ cursor' = Larger(cursor, Smaller(exec[e].scan, cursor + 1))
    /\ Goto(e, "continue")
    /\ UNCHANGED <<object, handler, queue, dead, lease, head, promises, torn,
                   wakes, faults>>

\* The runner throws: the lease is released and the message retried.
RunThrows(e) ==
    /\ exec[e].pc \in {"run", "commit"} /\ Fault
    /\ exec' = [exec EXCEPT ![e].pc = "release", ![e].failed = TRUE]
    /\ UNCHANGED <<object, handler, queue, dead, lease, chain, promises, torn,
                   wakes>>

\* Variant: a run is caught up once it reached the head it read.
CaughtUpToScan(e) == cursor >= exec[e].scan

\* The run's caughtUp.
CaughtUp(e) == cursor >= exec[e].goal
\* FAST_RETRY_MS from now, with the target the run worked to.
CatchUp(e) == [runAt |-> 1, target |-> exec[e].goal]

\* scheduleJobContinuations
Continue(e) ==
    /\ exec[e].pc = "continue"
    /\ \/ /\ IF CaughtUp(e) THEN UNCHANGED object ELSE Schedule(CatchUp(e))
          /\ Goto(e, "release")
          /\ UNCHANGED <<torn, faults>>
       \/ /\ ~CaughtUp(e)
          /\ ScheduleTorn(CatchUp(e)) \/ ScheduleFails
          /\ exec' = [exec EXCEPT ![e].pc = "release", ![e].failed = TRUE]
    /\ UNCHANGED <<handler, queue, dead, lease, chain, promises, wakes>>

\* releaseLease deletes the row this owner holds; its failure is only logged.
Release(e) ==
    /\ exec[e].pc = "release"
    /\ \/ lease' = (IF lease = e THEN None ELSE lease) /\ NoFault
       \/ UNCHANGED lease /\ Fault
    /\ IF exec[e].failed THEN Requeue(exec[e].msg)
       ELSE UNCHANGED <<queue, dead>>
    /\ exec' = [exec EXCEPT ![e] = NoExec]
    /\ UNCHANGED <<object, handler, chain, promises, torn, wakes>>

\* The execution is lost: the queue delivers its message again and the lease
\* stays until it expires.
Crash(e) ==
    /\ exec[e].pc # "idle" /\ Fault
    /\ Requeue(exec[e].msg)
    /\ exec' = [exec EXCEPT ![e] = NoExec]
    /\ UNCHANGED <<object, handler, lease, chain, promises, torn, wakes>>

\* A lease lasts 16 minutes and an execution at most 15 (JOB_LEASE_TTL_MS):
\* it expires only when its holder is gone.
Holding(e) == exec[e].pc \in {"run", "commit", "continue", "release"}

LeaseExpires ==
    /\ lease # None /\ ~Holding(lease)
    /\ lease' = None
    /\ UNCHANGED <<object, handler, queue, dead, exec, chain, promises, torn,
                   wakes, faults>>

-----------------------------------------------------------------------------
(* The environment.                                                        *)

Tick ==
    /\ (record # None /\ record.runAt > 0) \/ alarm \in Delays \ {0}
    /\ record' = IF record = None THEN None
                 ELSE [record EXCEPT !.runAt = Larger(0, @ - 1)]
    /\ alarm' = IF alarm = None THEN None ELSE Larger(0, alarm - 1)
    /\ UNCHANGED <<handler, queue, dead, lease, exec, chain, promises, torn,
                   wakes, faults>>

HeadAdvances ==
    /\ head < MaxHead /\ head' = head + 1
    /\ UNCHANGED <<object, handler, queue, dead, lease, exec, cursor, promises,
                   torn, wakes, faults>>

Consume(e) ==
    \/ Deliver(e) \/ AcquireLease(e) \/ LeaseBusy(e) \/ Preserve(e)
    \/ RunStart(e) \/ RunCommit(e) \/ Continue(e) \/ Release(e)
Dispatch == AlarmFires \/ QueueAccepts \/ SendReturns

Next ==
    \/ \E q \in Request : Wake(q)
    \/ Dispatch \/ SendFails \/ AlarmCrashes
    \/ \E e \in Executors : Consume(e) \/ RunThrows(e) \/ Crash(e)
    \/ LeaseExpires \/ Tick \/ HeadAdvances

Spec == Init /\ [][Next]_vars

\* Alarms, queue consumers, clocks and the chain go on; faults and producers
\* owe nothing.
LiveSpec ==
    /\ Spec
    /\ WF_vars(Dispatch) /\ WF_vars(Tick)
    /\ WF_vars(HeadAdvances) /\ WF_vars(LeaseExpires)
    /\ \A e \in Executors : WF_vars(Consume(e))

-----------------------------------------------------------------------------
(* Properties.                                                             *)

Messages == BagToSet(queue)
Working == {e \in Executors : exec[e].pc # "idle"}

\* A stored wakeup always has an alarm no later than itself, unless the object
\* was once restarted between the two writes: schedule() sets the alarm only
\* for a change, and alarm() arms it on every way out.
RecordIsArmed ==
    (record # None /\ handler.pc = "idle" /\ ~torn)
        => alarm # None /\ alarm <= record.runAt

\* An accepted wakeup that no run has answered is still in the object, in the
\* queue, with a consumer that has not read the state yet or in the dead
\* letter queue: neither the dispatch, nor a busy lease, nor a failed run or a
\* lost execution drops it.
WakeupIsKept ==
    owed => \/ record # None \/ Messages # {} \/ dead # {}
            \/ \E e \in Working :
                   exec[e].pc \in {"lease", "preserve", "run"} \/ exec[e].failed

\* The highest block a producer asked for is reached or still carried by the
\* record, a message or a run: coalescing and overlaps keep the target.
TargetIsKept ==
    \/ need <= cursor
    \/ record # None /\ record.target >= need
    \/ \E m \in Messages : m.target >= need
    \/ \E t \in dead : t >= need
    \/ \E e \in Working : exec[e].msg.target >= need \/ exec[e].goal >= need

\* One run of a partition at a time, although deliveries overlap, executions
\* are lost and leases expire.
RunsAreExclusive ==
    \A e, f \in Executors : Holding(e) /\ Holding(f) => e = f

\* Every block a producer asked for is indexed, with the same exceptions.
TargetIsReached ==
    \A t \in 1..MaxHead : (need >= t) ~> (cursor >= t \/ dead # {} \/ torn)

\* The scheduler's promise: "Coalescing an equivalent/later wakeup is still a
\* successful durable admission" (eventScheduler.ts).
AdmittedWakeupRuns == owed ~> (~owed \/ dead # {})

=============================================================================
