------------------------------ MODULE RpcPool ------------------------------
(***************************************************************************)
(* A request to one RPC endpoint on one lane, from the circuit breaker     *)
(* that may refuse it to the release of what it held.  Every isolate has   *)
(* its own transport: a cached copy of the circuit and a semaphore whose   *)
(* slots are handed over to waiters.  They share the circuit's row in D1   *)
(* and the leases of the admission object.                                 *)
(*                                                                         *)
(* Clocks are the actions that let a time pass.  The stored leases are the *)
(* live ones: expired records are pruned by every transaction and by the   *)
(* alarm, and never counted.  Requests repeat for ever.                    *)
(***************************************************************************)
EXTENDS Naturals, FiniteSets, Sequences

CONSTANTS Isolates, Requests,
          Home,       \* the isolate of a request
          MaxConcurrent,        \* maxConcurrency of the endpoint
          Threshold,  \* CIRCUIT_FAILURE_THRESHOLD
          MaxFaults   \* bound: outages, failed calls to D1, dead isolates

Codes == {"RATE_LIMITED", "TIMEOUT"}
Closed == [state |-> "closed", failures |-> 0, until |-> "past"]
NoCache == [circuit |-> Closed, fresh |-> FALSE]
Idle == [pc |-> "idle", half |-> FALSE, code |-> "TIMEOUT"]
Holding == {"admit", "call", "record", "recover", "release"}

VARIABLES row,     \* rpc_endpoint_health of the endpoint
          cache,   \* cachedCircuit and whether cachedCircuitUntil is ahead
          active,  \* LocalSemaphore.active, by isolate
          waiters, \* LocalSemaphore.waiters, by isolate
          held,    \* requests whose lease is live
          orphans, \* live leases nobody will release
          req,     \* the request: where it stands, wasHalfOpen, failureCode
          up, faults

local == <<active, waiters>>
leases == <<held, orphans>>
vars == <<row, cache, local, leases, req, up, faults>>

Init ==
  /\ row = Closed /\ cache = [i \in Isolates |-> NoCache]
  /\ active = [i \in Isolates |-> 0] /\ waiters = [i \in Isolates |-> <<>>]
  /\ held = {} /\ orphans = 0 /\ req = [r \in Requests |-> Idle]
  /\ up = TRUE /\ faults = 0

Fault == faults < MaxFaults /\ faults' = faults + 1

\* A state of the circuit that refuses requests, and one that asks for a probe.
Blocks(c) == c.state # "closed" /\ c.until = "future"
Probes(c) == c.state # "closed" /\ c.until = "past"

(* ---------------------------- LocalSemaphore --------------------------- *)

\* acquire: a free slot, or a place among the waiters.
Enter(r) ==
  LET i == Home[r] IN
  IF active[i] >= MaxConcurrent
  THEN /\ waiters' = [waiters EXCEPT ![i] = Append(@, r)] /\ UNCHANGED active
       /\ req' = [req EXCEPT ![r].pc = "waiting"]
  ELSE /\ active' = [active EXCEPT ![i] = @ + 1] /\ UNCHANGED waiters
       /\ req' = [req EXCEPT ![r].pc = "admit"]

\* The slot of r passes to the first waiter, or is free again.
ReleaseLocal(r) ==
  LET i == Home[r] IN
  IF waiters[i] # <<>>
  THEN /\ waiters' = [waiters EXCEPT ![i] = Tail(@)] /\ UNCHANGED active
       /\ req' = [req EXCEPT ![r] = Idle, ![Head(waiters[i])].pc = "admit"]
  ELSE /\ active' = [active EXCEPT ![i] = @ - 1] /\ UNCHANGED waiters
       /\ req' = [req EXCEPT ![r] = Idle]

VariantForgetSlot(r) == req' = [req EXCEPT ![r] = Idle] /\ UNCHANGED local

\* A request that was not admitted gives its slot back.
ReleaseRejected(r) == ReleaseLocal(r)

(* ------------------------------- Circuit ------------------------------- *)

Refuse(r) == req' = [req EXCEPT ![r] = Idle] /\ UNCHANGED local

\* readCircuit into the cache; what cannot be read counts as closed.
Pass(r, c) ==
  IF Blocks(c) THEN Refuse(r)
  ELSE IF Probes(c) THEN req' = [req EXCEPT ![r].pc = "claim"] /\ UNCHANGED local
  ELSE Enter(r)

ReadCircuit ==
  {<<row, FALSE>>} \cup (IF faults < MaxFaults THEN {<<Closed, TRUE>>} ELSE {})

Request(r) ==
  /\ req[r].pc = "idle"
  /\ LET i == Home[r] IN
     \/ /\ cache[i].fresh
        /\ Pass(r, cache[i].circuit)
        /\ UNCHANGED <<cache, faults>>
     \/ /\ ~cache[i].fresh
        /\ \E s \in ReadCircuit :
             /\ cache' = [cache EXCEPT ![i] = [circuit |-> s[1], fresh |-> TRUE]]
             /\ faults' = faults + (IF s[2] THEN 1 ELSE 0)
             /\ Pass(r, s[1])
  /\ UNCHANGED <<row, leases, up>>

\* The rows claimHalfOpenProbe takes: an expired probe can be claimed again.
Claimable(c) == Probes(c)

ClaimHalfOpenProbe(r) ==
  /\ req[r].pc = "claim"
  /\ LET i == Home[r]
         probe(f) == [state |-> "half_open", failures |-> f, until |-> "future"] IN
     \/ /\ Claimable(row)
        /\ row' = probe(row.failures)
        /\ cache' = [cache EXCEPT ![i] =
                      [circuit |-> probe(@.circuit.failures), fresh |-> TRUE]]
        /\ Enter(r) /\ UNCHANGED faults
     \/ /\ ~Claimable(row)
        /\ req' = [req EXCEPT ![r].pc = "busy"]
        /\ UNCHANGED <<row, cache, local, faults>>
     \/ Fault /\ Enter(r) /\ UNCHANGED <<row, cache>>
  /\ UNCHANGED <<leases, up>>

\* Somebody else holds the probe: the row is read once more.
Reread(r) ==
  /\ req[r].pc = "busy"
  /\ \E s \in ReadCircuit :
       /\ cache' = [cache EXCEPT ![Home[r]] = [circuit |-> s[1], fresh |-> TRUE]]
       /\ faults' = faults + (IF s[2] THEN 1 ELSE 0)
       /\ IF Blocks(s[1]) THEN Refuse(r) ELSE Enter(r)
  /\ UNCHANGED <<row, leases, up>>

(* ------------------------------ Admission ------------------------------ *)

WaitTimeout(r) ==
  /\ req[r].pc = "waiting"
  /\ waiters' = [waiters EXCEPT ![Home[r]] = SelectSeq(@, LAMBDA w : w # r)]
  /\ req' = [req EXCEPT ![r] = Idle]
  /\ UNCHANGED <<row, cache, active, leases, up, faults>>

Full == Cardinality(held) + orphans >= MaxConcurrent

\* The transaction of acquire, which has pruned what expired.
Granted == ~Full

Acquire(r) ==
  /\ req[r].pc = "admit" /\ Granted
  /\ held' = held \cup {r} /\ req' = [req EXCEPT ![r].pc = "call"]
  /\ UNCHANGED <<row, cache, local, orphans, up, faults>>

\* The deadline passes at a full endpoint, or the call fails, having taken a
\* lease or not.
AcquireFails(r) ==
  /\ req[r].pc = "admit"
  /\ \/ Full /\ UNCHANGED <<orphans, faults>>
     \/ Fault /\ UNCHANGED orphans
     \/ Fault /\ ~Full /\ orphans' = orphans + 1
  /\ ReleaseRejected(r)
  /\ UNCHANGED <<row, cache, held, up>>

(* ------------------------------- Outcome ------------------------------- *)

Succeed(r) ==
  /\ req[r].pc = "call" /\ up
  /\ LET i == Home[r] IN
     IF cache[i].circuit.state # "closed" \/ cache[i].circuit.failures > 0
     THEN /\ req' = [req EXCEPT ![r].pc = "recover", ![r].half = FALSE]
          /\ UNCHANGED cache
     ELSE /\ req' = [req EXCEPT ![r].pc = "release"]
          /\ cache' = [cache EXCEPT ![i].circuit = Closed]
  /\ UNCHANGED <<row, local, leases, up, faults>>

\* A deterministic rejection: proof of life for a half-open circuit.
Reject(r) ==
  /\ req[r].pc = "call" /\ up
  /\ req' = [req EXCEPT ![r] = IF cache[Home[r]].circuit.state = "half_open"
                                 THEN [@ EXCEPT !.pc = "recover", !.half = TRUE]
                                 ELSE [@ EXCEPT !.pc = "release"]]
  /\ UNCHANGED <<row, cache, local, leases, up, faults>>

TransientFailure(r) ==
  /\ req[r].pc = "call" /\ ~up
  /\ \E code \in Codes :
       req' = [req EXCEPT ![r] = [pc |-> "record", code |-> code,
                                  half |-> cache[Home[r]].circuit.state = "half_open"]]
  /\ UNCHANGED <<row, cache, local, leases, up, faults>>

FailureThreshold(code) == IF code = "RATE_LIMITED" THEN 1 ELSE Threshold

\* Failures are counted up to the threshold: more of them say nothing else.
CountFailure(f) == IF f < Threshold THEN f + 1 ELSE f

\* The upsert of recordFailure.
Failed(c, code) ==
  LET n == CountFailure(c.failures) IN
  IF c.state = "half_open" \/ n >= FailureThreshold(code)
  THEN [state |-> "open", failures |-> n, until |-> "future"]
  ELSE [c EXCEPT !.failures = n]

\* ... and what the transport remembers of it.
Remembered(c, half, code) ==
  LET n == CountFailure(c.failures) IN
  IF half \/ n >= FailureThreshold(code)
  THEN [state |-> "open", failures |-> n, until |-> "future"]
  ELSE [state |-> "closed", failures |-> n, until |-> "past"]

RecordFailure(r) ==
  /\ req[r].pc = "record"
  /\ \/ row' = Failed(row, req[r].code) /\ UNCHANGED faults
     \/ Fault /\ UNCHANGED row
  /\ LET i == Home[r] IN
     cache' = [cache EXCEPT ![i] =
       [circuit |-> Remembered(@.circuit, req[r].half, req[r].code), fresh |-> TRUE]]
  /\ req' = [req EXCEPT ![r].pc = "release"]
  /\ UNCHANGED <<local, leases, up>>

RecordRecovery(r) ==
  /\ req[r].pc = "recover"
  /\ \/ row' = Closed /\ UNCHANGED faults
     \/ Fault /\ UNCHANGED row
  /\ cache' = [cache EXCEPT ![Home[r]] =
       [circuit |-> Closed, fresh |-> @.fresh \/ req[r].half]]
  /\ req' = [req EXCEPT ![r].pc = "release"]
  /\ UNCHANGED <<local, leases, up>>

\* The finally block: the lease, as far as its object answers, then the slot.
Release(r) ==
  /\ req[r].pc = "release"
  /\ \/ UNCHANGED <<orphans, faults>>
     \/ Fault /\ orphans' = orphans + (IF r \in held THEN 1 ELSE 0)
  /\ held' = held \ {r}
  /\ ReleaseLocal(r)
  /\ UNCHANGED <<row, cache, up>>

(* --------------------------- Time and failures ------------------------- *)

OpenElapses ==
  /\ row.state # "closed" /\ row.until = "future" /\ row' = [row EXCEPT !.until = "past"]
  /\ UNCHANGED <<cache, local, leases, req, up, faults>>

CacheElapses(i) ==
  /\ \/ cache[i].fresh /\ cache' = [cache EXCEPT ![i].fresh = FALSE]
     \/ /\ cache[i].circuit.until = "future"
        /\ cache' = [cache EXCEPT ![i].circuit.until = "past"]
  /\ UNCHANGED <<row, local, leases, req, up, faults>>

\* A lease outlives the timeout of the call it was taken for by ten seconds.
LeaseExpires ==
  /\ \/ orphans > 0 /\ orphans' = orphans - 1 /\ UNCHANGED held
     \/ /\ \E r \in held : req[r].pc # "call" /\ held' = held \ {r}
        /\ UNCHANGED orphans
  /\ UNCHANGED <<row, cache, local, req, up, faults>>

IsolateDies(i) ==
  /\ Fault
  /\ LET mine == {r \in Requests : Home[r] = i} IN
     /\ req' = [r \in Requests |-> IF r \in mine THEN Idle ELSE req[r]]
     /\ held' = held \ mine /\ orphans' = orphans + Cardinality(held \cap mine)
  /\ active' = [active EXCEPT ![i] = 0] /\ waiters' = [waiters EXCEPT ![i] = <<>>]
  /\ cache' = [cache EXCEPT ![i] = NoCache]
  /\ UNCHANGED <<row, up>>

Outage == up /\ Fault /\ up' = FALSE /\ UNCHANGED <<row, cache, local, leases, req>>
Repair == ~up /\ up' = TRUE /\ UNCHANGED <<row, cache, local, leases, req, faults>>

Step(r) ==
  \/ Request(r) \/ ClaimHalfOpenProbe(r) \/ Reread(r) \/ Acquire(r)
  \/ Succeed(r) \/ Reject(r) \/ TransientFailure(r)
  \/ RecordFailure(r) \/ RecordRecovery(r) \/ Release(r)

Next ==
  \/ \E r \in Requests : Step(r) \/ WaitTimeout(r) \/ AcquireFails(r)
  \/ OpenElapses \/ LeaseExpires \/ Outage \/ Repair
  \/ \E i \in Isolates : CacheElapses(i) \/ IsolateDies(i)

Spec == Init /\ [][Next]_vars

(***************************************************************************)
(* Isolates run what they have started, times pass, the provider comes     *)
(* back.  Nothing says that a waiter gives up or an endpoint is full.      *)
(***************************************************************************)
LiveSpec ==
  /\ Spec /\ WF_vars(OpenElapses) /\ WF_vars(LeaseExpires) /\ WF_vars(Repair)
  /\ \A i \in Isolates : WF_vars(CacheElapses(i))
  /\ \A r \in Requests : WF_vars(Step(r))

(* ------------------------------ Properties ----------------------------- *)

\* The endpoint never has more calls in flight than its maxConcurrency, over
\* all isolates, whatever dies, expires or loses its answer
\* (RpcAdmissionController).
InFlightIsBounded == Cardinality({r \in Requests : req[r].pc = "call"}) <= MaxConcurrent

\* No slot of a transport is lost or used twice: active counts exactly the
\* requests between acquire and release, and nobody waits for a free slot,
\* across hand-overs, timeouts of waiters and refused admissions
\* (LocalSemaphore).
SlotsAreAccounted ==
  \A i \in Isolates :
    /\ active[i] = Cardinality({r \in Requests : Home[r] = i /\ req[r].pc \in Holding})
    /\ waiters[i] # <<>> => active[i] = MaxConcurrent

\* An endpoint that works again is used again: while it stays up, its circuit
\* comes to be closed whoever died holding the probe (claimHalfOpenProbe,
\* recordRecovery).
CircuitCloses == <>[]up => []<>(row.state = "closed")
=============================================================================
