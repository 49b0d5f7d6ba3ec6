---------------------------- MODULE MCBackground ----------------------------
\* What the background work of the App Worker comes to: the planner of jobs,
\* the outbox of user events, the synchronisation with the Payments Worker,
\* the scanner of logs and the circuit of an RPC endpoint. Only the component
\* that part names runs in a behaviour, under the fairness its own module
\* states.
EXTENDS LogScan, TLC

CONSTANTS managed, public, p1, p2, a1, i1, i2, r1, r2, None

ProviderList == <<managed, public>>
CapabilityRow ==
    managed :> [range |-> 1, priority |-> 0] @@ public :> [range |-> 0, priority |-> -1]
HomeOf == r1 :> i1 @@ r2 :> i2
PlannedJobs == {"user_event_delivery", "crosschain_relayer", "indexer_safety_sweep"}

VARIABLES part,
          row, leased, wake, tries, run, writes, faults, configured,
          noticesRow, version, tokens, pass, noticesFaults, told, heard, mode,
          open, boundaryVersion, box, exec, merchant, commands, attempt, runs,
          watched, boundaryPass, boundaryFaults, poolRow, cache, active,
          waiters, held, orphans, req, up, poolFaults

Planner == INSTANCE JobPlanner WITH
    Jobs <- PlannedJobs, Legacy <- FALSE, BoundarySync <- TRUE,
    ActiveShards <- TRUE, MaxWrites <- 1, MaxRetries <- 1, MaxFaults <- 2

Notices == INSTANCE UserEvents WITH
    MaxRows <- 1, MaxAttempts <- 2, Tokens <- {a1}, Passes <- {p1, p2},
    MaxFaults <- 1, row <- noticesRow, faults <- noticesFaults

Boundary == INSTANCE BoundarySync WITH
    MaxVersion <- 3, Attempts <- {a1}, Passes <- {p1, p2}, MaxFaults <- 2,
    version <- boundaryVersion, pass <- boundaryPass, faults <- boundaryFaults

Endpoint == INSTANCE RpcPool WITH
    Isolates <- {i1, i2}, Requests <- {r1, r2}, Home <- HomeOf,
    MaxConcurrent <- 1, Threshold <- 1, MaxFaults <- 1, row <- poolRow,
    faults <- poolFaults

plannerState ==
    <<row, leased, wake, tries, run, writes, faults>>
PlannerOff ==
    row = 0 /\ leased = 0 /\ wake = 0 /\ tries = 0 /\ run = 0 /\ writes = 0
    /\ faults = 0
noticesState ==
    <<configured, noticesRow, version, tokens, pass, noticesFaults, told,
      heard>>
NoticesOff ==
    configured = 0 /\ noticesRow = 0 /\ version = 0 /\ tokens = 0 /\ pass = 0
    /\ noticesFaults = 0 /\ told = 0 /\ heard = 0
boundaryState ==
    <<mode, open, boundaryVersion, box, exec, merchant, commands, attempt,
      runs, watched, boundaryPass, boundaryFaults>>
BoundaryOff ==
    mode = 0 /\ open = 0 /\ boundaryVersion = 0 /\ box = 0 /\ exec = 0
    /\ merchant = 0 /\ commands = 0 /\ attempt = 0 /\ runs = 0 /\ watched = 0
    /\ boundaryPass = 0 /\ boundaryFaults = 0
poolState ==
    <<poolRow, cache, active, waiters, held, orphans, req, up, poolFaults>>
EndpointOff ==
    poolRow = 0 /\ cache = 0 /\ active = 0 /\ waiters = 0 /\ held = 0
    /\ orphans = 0 /\ req = 0 /\ up = 0 /\ poolFaults = 0

MCInit ==
    /\ part \in {"scan", "planner", "notices", "boundary", "pool"}
    /\ Init
    /\ part = "scan" \/ events = {ScanHead}
    /\ IF part = "planner" THEN Planner!Init ELSE PlannerOff
    /\ IF part = "notices" THEN Notices!Init ELSE NoticesOff
    /\ IF part = "boundary" THEN Boundary!Init ELSE BoundaryOff
    /\ IF part = "pool" THEN Endpoint!Init ELSE EndpointOff

MCNext ==
    \/ /\ part = "scan" /\ Next
       /\ UNCHANGED <<part, plannerState, noticesState, boundaryState,
                      poolState>>
    \/ /\ part = "planner" /\ Planner!Next
       /\ UNCHANGED <<part, vars, noticesState, boundaryState, poolState>>
    \/ /\ part = "notices" /\ Notices!Next
       /\ UNCHANGED <<part, vars, plannerState, boundaryState, poolState>>
    \/ /\ part = "boundary" /\ Boundary!Next
       /\ UNCHANGED <<part, vars, plannerState, noticesState, poolState>>
    \/ /\ part = "pool" /\ Endpoint!Next
       /\ UNCHANGED <<part, vars, plannerState, noticesState, boundaryState>>

MCVars == <<part, vars, plannerState, noticesState, boundaryState, poolState>>

MCSpec == MCInit /\ [][MCNext]_MCVars

\* The fairness of each module, while its component is the one that runs.
Fair ==
    /\ WF_vars(part = "scan" /\ Job)
    /\ \A j \in PlannedJobs :
        /\ WF_plannerState(part = "planner" /\ Planner!Step(j))
        /\ WF_plannerState(part = "planner" /\ Planner!LeaseExpires(j))
    /\ WF_plannerState(part = "planner" /\ Planner!HealthProbe)
    /\ \A d \in {p1, p2} :
        /\ WF_noticesState(part = "notices" /\ Notices!Step(d))
        /\ WF_noticesState(part = "notices" /\ \E r \in Notices!Rows : Notices!ListDue(d, r))
    /\ \A r \in Notices!Rows :
        /\ WF_noticesState(part = "notices" /\ Notices!Clock(r))
        /\ \A d \in {p1, p2} : SF_noticesState(part = "notices" /\ Notices!ListDue(d, r))
    /\ WF_boundaryState(part = "boundary" /\ Boundary!Deploy)
    /\ \A d \in {p1, p2} :
        /\ WF_boundaryState(part = "boundary" /\ (Boundary!ListAccounts(d) \/ Boundary!ListExecutions(d)))
        /\ WF_boundaryState(part = "boundary" /\
             (\/ Boundary!SendSettlementAccount(d) \/ Boundary!PersistSettlementAccount(d)
              \/ Boundary!AccountDelivered(d) \/ Boundary!RegisterAppExecution(d)
              \/ Boundary!EnqueuePaymentJobs(d) \/ Boundary!ExecutionDelivered(d)
              \/ Boundary!SyncFailed(d)))
    /\ WF_poolState(part = "pool" /\ Endpoint!OpenElapses)
    /\ WF_poolState(part = "pool" /\ Endpoint!LeaseExpires)
    /\ WF_poolState(part = "pool" /\ Endpoint!Repair)
    /\ \A i \in {i1, i2} : WF_poolState(part = "pool" /\ Endpoint!CacheElapses(i))
    /\ \A r \in {r1, r2} : WF_poolState(part = "pool" /\ Endpoint!Step(r))

MCLiveSpec == MCSpec /\ Fair

-----------------------------------------------------------------------------
\* What a worker deleted or closed has reached its receiver: a settlement account
\* the Payments Worker, an App execution its watch, a notice a mail, a push or
\* nobody left to reach.
ClosedWasDelivered ==
    /\ part = "boundary" => Boundary!AccountIsNotForgotten /\ Boundary!ExecutionIsWatched
    /\ part = "notices" => Notices!DeliveredWasTold

\* No accepted work stays open for ever, whatever run, message or answer is lost:
\* a row of the planner is served, a notice delivered or given up after its
\* attempts, and the wallet a user ends with reaches the merchant's account.
AcceptedWorkEnds ==
    []<>(/\ part = "planner" =>
              \A j \in PlannedJobs \ {"indexer_safety_sweep"} : ~Planner!Active(j)
         /\ part = "notices" => \A r \in Notices!Rows : noticesRow[r].st \notin Notices!Open
         /\ part = "boundary" => merchant.version = boundaryVersion)

\* A provider that answers again is used again: while the one of the widest range
\* answers the backlog drains, and the circuit of an endpoint that works comes to
\* be closed whoever died holding the probe.
ReadingGoesOn ==
    []<>(/\ part = "scan" =>
              \/ \A p \in Names : Capability(p).range = Widest => p \in down
              \/ cursor = ScanHead
         /\ part = "pool" => ~up \/ poolRow.state = "closed")
=============================================================================
