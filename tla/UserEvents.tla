----------------------------- MODULE UserEvents -----------------------------
(***************************************************************************)
(* The outbox of user-facing events: home invalidations written by         *)
(* triggers, security alerts and activity notices, drained by passes that  *)
(* may overlap and that claim a row under a lease.  One user, with the     *)
(* devices it registered; mail and push are external and answer anything.  *)
(***************************************************************************)
EXTENDS Naturals, FiniteSets

CONSTANTS MaxRows,     \* bound: events
          MaxAttempts, \* MAX_ATTEMPTS
          Tokens,      \* device tokens
          Passes,      \* drains that may overlap
          MaxFaults,   \* bound: drains that die
          None

Rows == 1..MaxRows
Open == {"pending", "failed", "processing"}
NoRow == [st |-> "none", kind |-> None, attempts |-> 0, owner |-> None, due |-> TRUE]
NoPass == [pc |-> "idle", r |-> 0, listed |-> 0, seen |-> 0, mail |-> FALSE]

VARIABLES configured, \* FCM_SERVICE_ACCOUNT is set
          row,        \* user_event_outbox
          version,    \* home_state_versions
          tokens,     \* push_tokens
          pass, faults,
          told,       \* rows handed to the user by mail or push
          heard       \* the newest home version a device was told of

vars == <<configured, row, version, tokens, pass, faults, told, heard>>
ghosts == <<told, heard>>

Init ==
  /\ configured \in BOOLEAN /\ row = [r \in Rows |-> NoRow] /\ version = 0
  /\ tokens = {} /\ pass = [d \in Passes |-> NoPass] /\ faults = 0
  /\ told = {} /\ heard = 0

----------------------------------------------------------------------------
(* Rows come with the change they report, in one batch. *)

NewRow == CHOOSE r \in Rows : row[r].st = "none" /\ \A q \in Rows : row[q].st = "none" => r <= q
Insert(kind) == /\ \E r \in Rows : row[r].st = "none"
                /\ row' = [row EXCEPT ![NewRow] = [NoRow EXCEPT !.st = "pending", !.kind = kind]]

(* The triggers on what the home shows bump its version and add a row. *)
HomeChanges ==
  /\ Insert("home") /\ version' = version + 1
  /\ UNCHANGED <<configured, tokens, pass, faults, ghosts>>

EnqueueUserEvent(kind) ==
  /\ kind \in {"security", "activity"} /\ Insert(kind)
  /\ UNCHANGED <<configured, version, tokens, pass, faults, ghosts>>

AddPushToken(t) ==
  /\ t \notin tokens /\ tokens' = tokens \cup {t}
  /\ UNCHANGED <<configured, row, version, pass, faults, ghosts>>

----------------------------------------------------------------------------
(* A drain.  The lease of a row is lost when its time is over: a row whose *)
(* due flag is set may be claimed, whoever holds it.                       *)

Goto(d, pc) == pass' = [pass EXCEPT ![d].pc = pc]
Done(d) == pass' = [pass EXCEPT ![d] = NoPass]
(* Waiting and due, or processing under a lease that has run out. *)
Due(r) == row[r].st \in Open /\ row[r].due

ListDue(d, r) ==
  /\ pass[d].pc = "idle" /\ Due(r)
  /\ pass' = [pass EXCEPT ![d] = [NoPass EXCEPT !.pc = "claim", !.r = r,
                                                !.listed = row[r].attempts]]
  /\ UNCHANGED <<configured, row, version, tokens, faults, ghosts>>

(* The claim repeats the condition; the attempts the drain goes by are the *)
(* ones it listed.                                                         *)
Claim(d) ==
  LET r == pass[d].r IN
  /\ pass[d].pc = "claim"
  /\ IF Due(r)
     THEN /\ row' = [row EXCEPT ![r].st = "processing", ![r].owner = d, ![r].due = FALSE,
                                ![r].attempts = @ + 1]
          /\ Goto(d, row[r].kind)
     ELSE Done(d) /\ UNCHANGED row
  /\ UNCHANGED <<configured, version, tokens, faults, ghosts>>

Mine(d) == row[pass[d].r].st = "processing" /\ row[pass[d].r].owner = d
Closed(q) == [q EXCEPT !.st = "delivered", !.owner = None]

ReadHomeVersion(d) ==
  /\ pass[d].pc = "home" /\ pass' = [pass EXCEPT ![d].pc = "invalidate", ![d].seen = version]
  /\ UNCHANGED <<configured, row, version, tokens, faults, ghosts>>

Failed(reached, dead) == ~ (tokens \subseteq reached \cup dead)

(* Devices are reached, gone for good (and pruned), or answer with an error; *)
(* the call as a whole may throw, which the drain records as a failure.      *)
InvalidateUserHome(d) ==
  /\ pass[d].pc = "invalidate"
  /\ \/ ~ configured /\ Goto(d, "collapse") /\ UNCHANGED <<tokens, heard>>
     \/ configured /\ Goto(d, "fail") /\ UNCHANGED <<tokens, heard>>
     \/ configured /\ \E reached \in SUBSET tokens : \E dead \in SUBSET (tokens \ reached) :
            /\ tokens' = tokens \ dead
            /\ heard' = IF reached # {} /\ pass[d].seen > heard THEN pass[d].seen ELSE heard
            /\ Goto(d, IF Failed(reached, dead) THEN "fail" ELSE "collapse")
  /\ UNCHANGED <<configured, row, version, faults, told>>

(* The invalidation closes its own row and every other one that waits. *)
CompleteHomeInvalidations(d) ==
  /\ pass[d].pc = "collapse" /\ Done(d)
  /\ row' = [q \in Rows |->
       IF q = pass[d].r THEN (IF Mine(d) THEN Closed(row[q]) ELSE row[q])
       ELSE IF row[q].kind = "home" /\ row[q].st \in {"pending", "failed"}
       THEN Closed(row[q]) ELSE row[q]]
  /\ UNCHANGED <<configured, version, tokens, faults, ghosts>>

(* A security alert is mailed first; a mail that fails is not an error. *)
SendSecurityAlertEmail(d) ==
  /\ pass[d].pc = "security"
  /\ \/ told' = told \cup {pass[d].r} /\ pass' = [pass EXCEPT ![d].pc = "notify", ![d].mail = TRUE]
     \/ UNCHANGED told /\ Goto(d, "notify")
  /\ UNCHANGED <<configured, row, version, tokens, faults, heard>>

ActivityNotice(d) ==
  /\ pass[d].pc = "activity" /\ Goto(d, "notify")
  /\ UNCHANGED <<configured, row, version, tokens, faults, ghosts>>

(* Neither a mail nor a push that got through. *)
NotDelivered(d, failed) == ~ pass[d].mail /\ failed

Pushed(d, reached, dead) ==
  /\ tokens' = tokens \ dead
  /\ told' = IF Failed(reached, dead) THEN told ELSE told \cup {pass[d].r}
  /\ Goto(d, IF NotDelivered(d, Failed(reached, dead)) THEN "fail" ELSE "complete")

(* Without credentials, or when it throws, the push did nothing. *)
NotifyUser(d) ==
  /\ pass[d].pc = "notify"
  /\ \/ Goto(d, IF pass[d].mail THEN "complete" ELSE "fail") /\ UNCHANGED <<tokens, told>>
     \/ configured /\ \E reached \in SUBSET tokens :
                        \E dead \in SUBSET (tokens \ reached) : Pushed(d, reached, dead)
  /\ UNCHANGED <<configured, row, version, faults, heard>>

Complete(d) ==
  /\ pass[d].pc = "complete" /\ Done(d)
  /\ row' = IF Mine(d) THEN [row EXCEPT ![pass[d].r] = Closed(@)] ELSE row
  /\ UNCHANGED <<configured, version, tokens, faults, ghosts>>

Terminal(d) == pass[d].listed + 1 >= MaxAttempts

Fail(d) ==
  /\ pass[d].pc = "fail" /\ Done(d)
  /\ row' = IF Mine(d) THEN [row EXCEPT ![pass[d].r].st = IF Terminal(d) THEN "dead" ELSE "failed",
                                        ![pass[d].r].owner = None] ELSE row
  /\ UNCHANGED <<configured, version, tokens, faults, ghosts>>

----------------------------------------------------------------------------
(* A retry delay is over, or a lease has run out. *)
Clock(r) ==
  /\ row[r].st \in Open /\ ~ row[r].due /\ row' = [row EXCEPT ![r].due = TRUE]
  /\ (row[r].st = "processing" /\ \E d \in Passes : row[r].owner = d /\ pass[d].r = r)
       => faults < MaxFaults
  /\ faults' = IF row[r].st = "processing" /\ \E d \in Passes : row[r].owner = d /\ pass[d].r = r
               THEN faults + 1 ELSE faults
  /\ UNCHANGED <<configured, version, tokens, pass, ghosts>>

Crash(d) ==
  /\ pass[d].pc # "idle" /\ faults < MaxFaults /\ faults' = faults + 1 /\ Done(d)
  /\ UNCHANGED <<configured, row, version, tokens, ghosts>>

Step(d) ==
  \/ Claim(d) \/ ReadHomeVersion(d) \/ InvalidateUserHome(d) \/ CompleteHomeInvalidations(d)
  \/ SendSecurityAlertEmail(d) \/ ActivityNotice(d) \/ NotifyUser(d) \/ Complete(d) \/ Fail(d)

Next ==
  \/ HomeChanges \/ EnqueueUserEvent("security") \/ EnqueueUserEvent("activity")
  \/ \E t \in Tokens : AddPushToken(t)
  \/ \E d \in Passes : Step(d) \/ Crash(d)
  \/ \E d \in Passes, r \in Rows : ListDue(d, r)
  \/ \E r \in Rows : Clock(r)

Spec == Init /\ [][Next]_vars
Fairness ==
  /\ \A d \in Passes : WF_vars(Step(d)) /\ WF_vars(\E r \in Rows : ListDue(d, r))
  /\ \A r \in Rows : WF_vars(Clock(r)) /\ \A d \in Passes : SF_vars(ListDue(d, r))
LiveSpec == Spec /\ Fairness

----------------------------------------------------------------------------
(* Properties *)

(* The rows and the drains keep their domains. *)
TypeOK ==
  /\ \A r \in Rows : row[r].st \in Open \cup {"none", "delivered", "dead"}
  /\ \A d \in Passes : pass[d].r \in 0..MaxRows

(* A notice counts as delivered only if a mail or a push carried it, or no device *)
(* was left to reach, whichever overlapping drain closed the row.                 *)
DeliveredWasTold ==
  \A r \in Rows : row[r].st = "delivered" /\ row[r].kind # "home" => r \in told

(* Every event ends: delivered, or given up after its attempts. *)
EveryEventEnds ==
  \A r \in Rows : (row[r].st \in Open) ~> (row[r].st \in {"delivered", "dead"})

(* With nothing left to deliver, the devices that answered know the newest *)
(* version of the home ("one latest-version invalidation subsumes every    *)
(* older pending row").                                                    *)
HomeIsCurrent ==
  configured /\ heard > 0 /\ (\A r \in Rows : row[r].kind = "home" => row[r].st \notin Open)
     /\ (\A r \in Rows : row[r].st # "dead")
  => heard = version
=============================================================================
