--------------------------- MODULE MerchantWebhooks ---------------------------
(***************************************************************************)
(* The delivery of the App's merchant events: rows listed, claimed under a *)
(* lease, signed, posted and updated by overlapping runs, resent by hand;  *)
(* and the secrets they are signed with, re-encrypted row by row while the *)
(* operator deploys a new key and retires the old ones.                    *)
(***************************************************************************)
EXTENDS Naturals, FiniteSets

CONSTANTS Rows,         \* webhook_deliveries; each has an endpoint of its own
          Flushes,      \* runs of deliverPendingWebhooks
          Migrators,    \* runs of migrateWebhookSecrets
          MaxAttempts,  \* MAX_ATTEMPTS
          MaxKey,       \* bound: keys ever deployed, 1..MaxKey; 0 is plain text
          MaxFaults,    \* bound: runs that die, posts that fail
          MaxResends,   \* bound: deliveries sent again by hand
          None

Keys == 1..MaxKey
Absent == [st |-> "none", attempt |-> 0, due |-> FALSE]
Queued == [st |-> "pending", attempt |-> 0, due |-> TRUE]
IdleFlush == [pc |-> "idle", d |-> None, attempt |-> 0, key |-> 0, ok |-> FALSE]
IdleMigrator == [pc |-> "idle", d |-> None, old |-> 0, new |-> 0]

VARIABLES row,      \* webhook_deliveries
          enabled,  \* endpoints that exist
          secret,   \* the key an endpoint's secret is encrypted with
          current,  \* WEBHOOK_SECRET_ENCRYPTION_KEY
          ring,     \* ... and WEBHOOK_SECRET_ENCRYPTION_KEYS_PREVIOUS
          flush, mig,
          acked,    \* answers 2xx since the row was queued
          faults, resends

vars == <<row, enabled, secret, current, ring, flush, mig, acked, faults, resends>>
keyring == <<current, ring>>

Init ==
  /\ row = [d \in Rows |-> Absent] /\ enabled = Rows
  /\ current = 1 /\ ring = {1} /\ secret \in [Rows -> {0, 1}]
  /\ flush = [f \in Flushes |-> IdleFlush] /\ mig = [m \in Migrators |-> IdleMigrator]
  /\ acked = [d \in Rows |-> 0] /\ faults = 0 /\ resends = 0

Fault == faults < MaxFaults /\ faults' = faults + 1
Set(f, r) == flush' = [flush EXCEPT ![f] = r]

\* A settlement queues its deliveries (MerchantApi).
Enqueue(d) ==
  /\ row[d].st = "none" /\ d \in enabled /\ row' = [row EXCEPT ![d] = Queued]
  /\ UNCHANGED <<enabled, secret, keyring, flush, mig, acked, faults, resends>>

(* ------------------------------ Deliveries ----------------------------- *)

\* listDueWebhookDeliveries joins the endpoint: without it nothing is due.
ListDue(f, d) ==
  /\ flush[f].pc = "idle" /\ row[d].st = "pending" /\ row[d].due /\ d \in enabled
  /\ Set(f, [pc |-> "claim", d |-> d, attempt |-> row[d].attempt, key |-> secret[d], ok |-> FALSE])
  /\ UNCHANGED <<row, enabled, secret, keyring, mig, acked, faults, resends>>

\* The WHERE clause of claimWebhookDelivery.
Claimable(d) == row[d].st = "pending" /\ row[d].due

ClaimDelivery(f) ==
  /\ flush[f].pc = "claim"
  /\ LET d == flush[f].d IN
     IF Claimable(d)
     THEN row' = [row EXCEPT ![d].due = FALSE] /\ Set(f, [flush[f] EXCEPT !.pc = "post"])
     ELSE UNCHANGED row /\ Set(f, IdleFlush)
  /\ UNCHANGED <<enabled, secret, keyring, mig, acked, faults, resends>>

\* decryptWebhookSecret: plain text, or a key of the ring.
Readable(key) == key = 0 \/ key \in ring

\* deliverOne cannot sign: the row keeps its lease and its attempts.
CannotSign(f) ==
  /\ flush[f].pc = "post" /\ ~Readable(flush[f].key) /\ Set(f, IdleFlush)
  /\ UNCHANGED <<row, enabled, secret, keyring, mig, acked, faults, resends>>

PostDelivery(f) ==
  /\ flush[f].pc = "post" /\ Readable(flush[f].key)
  /\ \/ /\ acked' = [acked EXCEPT ![flush[f].d] = @ + 1]
        /\ Set(f, [flush[f] EXCEPT !.pc = "update", !.ok = TRUE]) /\ UNCHANGED faults
     \/ Fault /\ Set(f, [flush[f] EXCEPT !.pc = "update", !.ok = FALSE]) /\ UNCHANGED acked
  /\ UNCHANGED <<row, enabled, secret, keyring, mig, resends>>

\* updateWebhookDelivery overwrites the row.
UpdateDelivery(f) ==
  /\ flush[f].pc = "update"
  /\ LET n == flush[f].attempt + 1 IN
     row' = [row EXCEPT ![flush[f].d] =
       [st |-> IF flush[f].ok THEN "delivered" ELSE IF n >= MaxAttempts THEN "failed" ELSE "pending",
        attempt |-> n, due |-> FALSE]]
  /\ Set(f, IdleFlush)
  /\ UNCHANGED <<enabled, secret, keyring, mig, acked, faults, resends>>

FlushDies(f) ==
  /\ flush[f].pc # "idle" /\ Fault /\ Set(f, IdleFlush)
  /\ UNCHANGED <<row, enabled, secret, keyring, mig, acked, resends>>

\* A backoff or the lease of a dead run passes; a live run posts well within it.
RetryIsDue(d) ==
  /\ row[d].st = "pending" /\ ~row[d].due
  /\ \A f \in Flushes : flush[f].d = d => flush[f].pc = "claim"
  /\ row' = [row EXCEPT ![d].due = TRUE]
  /\ UNCHANGED <<enabled, secret, keyring, flush, mig, acked, faults, resends>>

\* POST /merchant/webhook_deliveries/:id/resend.
RequeueWebhookDelivery(d) ==
  /\ row[d].st # "none" /\ d \in enabled /\ resends < MaxResends /\ resends' = resends + 1
  /\ row' = [row EXCEPT ![d] = Queued]
  /\ UNCHANGED <<enabled, secret, keyring, flush, mig, acked, faults>>

DeleteWebhookEndpoint(d) ==
  /\ d \in enabled /\ enabled' = enabled \ {d}
  /\ UNCHANGED <<row, secret, keyring, flush, mig, acked, faults, resends>>

(* --------------------------- Secrets and keys -------------------------- *)

\* An endpoint registered anew has its secret encrypted with the active key.
CreateWebhookEndpoint(d) ==
  /\ d \notin enabled /\ row[d].st = "none" /\ enabled' = enabled \cup {d}
  /\ secret' = [secret EXCEPT ![d] = current]
  /\ UNCHANGED <<row, keyring, flush, mig, acked, faults, resends>>

\* listWebhookSecretsNeedingEncryption, and the row re-encrypted in memory.
RotateWebhookSecret(m, d) ==
  /\ mig[m].pc = "idle" /\ d \in enabled /\ secret[d] # current /\ Readable(secret[d])
  /\ mig' = [mig EXCEPT ![m] = [pc |-> "write", d |-> d, old |-> secret[d], new |-> current]]
  /\ UNCHANGED <<row, enabled, secret, keyring, flush, acked, faults, resends>>

\* UPDATE ... WHERE id = ? AND secret = ?.
Unchanged(m) == secret[mig[m].d] = mig[m].old

ReplaceWebhookSecret(m) ==
  /\ mig[m].pc = "write"
  /\ secret' = IF mig[m].d \in enabled /\ Unchanged(m)
                 THEN [secret EXCEPT ![mig[m].d] = mig[m].new] ELSE secret
  /\ mig' = [mig EXCEPT ![m] = IdleMigrator]
  /\ UNCHANGED <<row, enabled, keyring, flush, acked, faults, resends>>

\* The operator deploys a new active key; a former one is retired only when no
\* row remains to be re-encrypted (remaining = 0).
DeployKey ==
  /\ current < MaxKey /\ current' = current + 1 /\ ring' = ring \cup {current + 1}
  /\ UNCHANGED <<row, enabled, secret, flush, mig, acked, faults, resends>>

RetireKey(k) ==
  /\ k \in ring /\ k # current /\ \A d \in enabled : secret[d] = current
  /\ ring' = ring \ {k}
  /\ UNCHANGED <<row, enabled, secret, current, flush, mig, acked, faults, resends>>

Next ==
  \/ \E d \in Rows :
       \/ Enqueue(d) \/ RetryIsDue(d) \/ RequeueWebhookDelivery(d)
       \/ DeleteWebhookEndpoint(d) \/ CreateWebhookEndpoint(d)
       \/ \E f \in Flushes : ListDue(f, d)
       \/ \E m \in Migrators : RotateWebhookSecret(m, d)
  \/ \E f \in Flushes :
       ClaimDelivery(f) \/ CannotSign(f) \/ PostDelivery(f) \/ UpdateDelivery(f) \/ FlushDies(f)
  \/ \E m \in Migrators : ReplaceWebhookSecret(m)
  \/ DeployKey \/ \E k \in Keys : RetireKey(k)

Spec == Init /\ [][Next]_vars

(* ------------------------------ Properties ----------------------------- *)

\* Every post a merchant acknowledged beyond the first was asked for by hand
\* or follows a run that died: overlapping runs never post one delivery twice
\* (claimWebhookDelivery).
AcknowledgedOnce == \A d \in Rows : acked[d] <= 1 + resends + faults

\* No endpoint is left with a secret no deployed key can read, although rows
\* are re-encrypted by runs of several deployments while keys are retired
\* (replaceWebhookSecret).
SecretIsReadable == \A d \in enabled : Readable(secret[d])
=============================================================================
