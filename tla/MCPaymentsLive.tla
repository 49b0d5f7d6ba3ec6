--------------------------- MODULE MCPaymentsLive ---------------------------
\* What the relayer, the job queue and the router watch of the Payments Worker
\* promise to finish, each in a small instance of its own; only the one that
\* part names runs in a behaviour, under the fairness its own module states.
EXTENDS CctpRelay, TLC

CONSTANTS Deliveries, Broken, Consumers, Flushers, Msgs, Outbox, Payments,
          Scans

VARIABLES part,
          outbox, msg, jobRun, delivery, consumer, flusher, posts, resent,
          active, jobsFaults, merchant, watchChain, fresh, reorgs, blocks,
          events, checkpoint, status, scan, watchFaults, split

Jobs == INSTANCE PaymentJobs WITH
    MaxAttempts <- 2, MaxRetries <- 5, MaxFaults <- 0, MaxMerchant <- 0,
    faults <- jobsFaults

Watch == INSTANCE RouterWatch WITH
    Attempts <- Payments, AppAttempts <- {}, Scans <- Scans, Window <- 2,
    Confirmations <- 1, MaxHeight <- 3, MaxReorgs <- 1, MaxDepth <- 1,
    MaxFaults <- 1, chain <- watchChain, faults <- watchFaults

jobsState ==
    <<outbox, msg, jobRun, delivery, consumer, flusher, posts, resent, active,
      jobsFaults, merchant>>
JobsOff ==
    outbox = 0 /\ msg = 0 /\ jobRun = 0 /\ delivery = 0 /\ consumer = 0
    /\ flusher = 0 /\ posts = 0 /\ resent = 0 /\ active = 0 /\ jobsFaults = 0
    /\ merchant = 0
watchState ==
    <<watchChain, fresh, reorgs, blocks, events, checkpoint, status, scan,
      watchFaults, split>>
WatchOff ==
    watchChain = 0 /\ fresh = 0 /\ reorgs = 0 /\ blocks = 0 /\ events = 0
    /\ checkpoint = 0 /\ status = 0 /\ scan = 0 /\ watchFaults = 0
    /\ split = 0

MCInit ==
    /\ part \in {"relay", "jobs", "watch"}
    /\ Init
    /\ IF part = "jobs" THEN Jobs!Init ELSE JobsOff
    /\ IF part = "watch" THEN Watch!Init ELSE WatchOff

MCNext ==
    \/ /\ part = "relay" /\ Next
       /\ UNCHANGED <<part, jobsState, watchState>>
    \/ /\ part = "jobs" /\ Jobs!Next
       /\ UNCHANGED <<part, vars, watchState>>
    \/ /\ part = "watch" /\ Watch!Next
       /\ UNCHANGED <<part, vars, jobsState>>

MCVars == <<part, vars, jobsState, watchState>>

MCSpec == MCInit /\ [][MCNext]_MCVars

\* The fairness of each module, while its component is the one that runs.
Fair ==
    /\ \A o \in Ops :
        /\ WF_vars(part = "relay" /\ CircleAttests(o))
        /\ WF_vars(part = "relay" /\ Confirm(o))
        /\ WF_vars(part = "relay" /\ DeadClaimExpires(o))
        /\ SF_vars(part = "relay" /\ \E w \in Workers : AttestStart(w, o) /\ mintJob[o] = "none")
        /\ SF_vars(part = "relay" /\ \E w \in Workers : MintStart(w, o))
        /\ SF_vars(part = "relay" /\ \E w \in Workers : worker[w].op = o /\ AcquireLease(w))
    /\ \A w \in Workers : WF_vars(part = "relay" /\ WorkerStep(w))
    /\ WF_vars(part = "relay" /\ (Mine(TRUE) \/ Mine(FALSE)))
    /\ WF_vars(part = "relay" /\ DeadLeaseExpires)
    /\ \A f \in Flushers : WF_jobsState(part = "jobs" /\ Jobs!FlusherStep(f))
    /\ \A c \in Consumers : WF_jobsState(part = "jobs" /\ Jobs!ConsumerStep(c))
    /\ \A m \in Msgs : WF_jobsState(part = "jobs" /\ Jobs!Delivered(m))
    /\ \A k \in Jobs!Keys : WF_jobsState(part = "jobs" /\ Jobs!JobLeaseExpires(k))
    /\ WF_watchState(part = "watch" /\ \E es \in SUBSET Payments : Watch!Mine(es))
    /\ \A s \in Scans : WF_watchState(part = "watch" /\ Watch!Step(s))

MCLiveSpec == MCSpec /\ Fair

-----------------------------------------------------------------------------
\* Every recorded burn ends: its payment is settled, or it is handed to support
\* after the last attempt to mint.
BurnsEnd ==
    \A o \in Ops :
        (part = "relay" /\ op[o].status = "burned")
            ~> (o \in settled \/ op[o].status = "needs_support")

\* Every delivery of a committed event ends delivered or dead: duplicate
\* messages, failing endpoints and leases held by others only delay it.
EveryDeliveryEnds ==
    []<>(part = "jobs" =>
           \A d \in Deliveries : delivery[d].status \in Jobs!TerminalStatuses)

\* A payment that lands and stays is found and paid by the watch alone, even
\* when nobody registers its transaction, under a reorg and a failing scan.
PaymentIsFound ==
    []<>(part = "watch" =>
           \A a \in Watch!Landed :
               Watch!HeightOf(a) <= 2 /\ Watch!HeightOf(a) \notin split
                   => status[a] = "paid")
=============================================================================
