----------------------------- MODULE MerchantApi -----------------------------
(***************************************************************************)
(* The App's merchant API: intents created under an idempotency key, the   *)
(* four ways an intent is closed (its checkout link, an invoice paid at    *)
(* the router, a simulation, a cancellation), the event each settlement    *)
(* leaves, and the rows that ask for its delivery (MerchantWebhooks).      *)
(*                                                                         *)
(* One merchant with test keys, one idempotency key.  A request is one     *)
(* handler: what it read is in its record until it writes.  A              *)
(* UserOperation that pays a link and the claim it holds are those of      *)
(* UserOpPayments, here in two steps.                                      *)
(***************************************************************************)
EXTENDS Naturals, FiniteSets

CONSTANTS Posts,        \* requests that create; the intent bears their name
          Settlers,     \* requests and runs that close an intent
          Endpoints,
          Subscribed,   \* enabledEvents of the endpoints
          MaxFaults,    \* bound: handlers that die
          None

Types == {"payment.created", "payment.paid"}
Kinds == {"simulate", "sandbox", "watch", "settle", "cancel"}
NoIntent == [st |-> "none", tx |-> None, key |-> FALSE, link |-> FALSE, late |-> FALSE]
NoLink == [st |-> "none", claim |-> None]
IdlePost == [pc |-> "idle", eps |-> {}, answer |-> None]
IdleSettler == [pc |-> "idle", kind |-> "cancel", i |-> None, eps |-> {}]

VARIABLES intent,   \* payment_intents
          link,     \* payment_links of the intents
          event,    \* events: None, or the transaction the event names
          dlv,      \* webhook_deliveries: intent, type and endpoint
          enabled,  \* webhook_endpoints that exist
          post, settler,
          auth,     \* intents with a signed router authorization
          invoice,  \* invoices paid at the router
          faults

books == <<intent, link, event, dlv>>
vars == <<books, enabled, post, settler, auth, invoice, faults>>

Init ==
  /\ intent = [i \in Posts |-> NoIntent] /\ link = [i \in Posts |-> NoLink]
  /\ event = [i \in Posts |-> [t \in Types |-> None]]
  /\ dlv = {} /\ enabled = Endpoints
  /\ post = [p \in Posts |-> IdlePost] /\ settler = [s \in Settlers |-> IdleSettler]
  /\ auth = {} /\ invoice = {} /\ faults = 0

Fault == faults < MaxFaults /\ faults' = faults + 1

(* ------------------------------- The outbox ---------------------------- *)

\* prepareEventOutbox: the endpoints that want the event, as they are now.
OutboxEndpoints(type) == IF type \in Subscribed THEN enabled ELSE {}

\* eventOutboxStatements: one event for a type and intent, one delivery each.
WithEvent(i, type, tx, eps, wins) ==
  LET there == event[i][type] # None IN
  /\ event' = IF wins /\ ~there THEN [event EXCEPT ![i][type] = tx] ELSE event
  /\ dlv' = IF wins \/ there THEN dlv \cup ({<<i, type>>} \X eps) ELSE dlv

(* -------------------------- Creating an intent ------------------------- *)

KeyOwners == {i \in Posts : intent[i].st # "none" /\ intent[i].key}
Winner == CHOOSE i \in KeyOwners : TRUE
Answer(p, i) == post' = [post EXCEPT ![p] = [pc |-> "done", eps |-> {}, answer |-> i]]

\* POST /v1/payment_intents: the key is looked up, the outbox prepared.
ReadKey(p) ==
  /\ post[p].pc = "idle"
  /\ IF KeyOwners # {} THEN Answer(p, Winner)
     ELSE post' = [post EXCEPT ![p] = [pc |-> "create", answer |-> None,
                                       eps |-> OutboxEndpoints("payment.created")]]
  /\ UNCHANGED <<books, enabled, settler, auth, invoice, faults>>

Create(p, key, withLink, eps) ==
  /\ intent' = [intent EXCEPT ![p] = [st |-> "awaiting_payment", tx |-> None, key |-> key,
                                      link |-> withLink, late |-> FALSE]]
  /\ link' = IF withLink THEN [link EXCEPT ![p].st = "pending"] ELSE link
  /\ WithEvent(p, "payment.created", p, eps, TRUE)

VariantNoUniqueKey == TRUE

\* The unique index on (merchant_id, idempotency_key).
KeyIsFree == KeyOwners = {}

\* The batch inserts link, intent and event, or the loser reads the winner.
CreatePaymentIntent(p) ==
  /\ post[p].pc = "create"
  /\ \/ KeyIsFree /\ Create(p, TRUE, TRUE, post[p].eps) /\ Answer(p, p)
     \/ ~KeyIsFree /\ Answer(p, Winner) /\ UNCHANGED books
  /\ UNCHANGED <<enabled, settler, auth, invoice, faults>>

\* POST /merchant/sandbox/charge: a test intent with neither key nor link.
SandboxCharge(p) ==
  /\ post[p].pc = "idle"
  /\ Create(p, FALSE, FALSE, OutboxEndpoints("payment.created")) /\ Answer(p, None)
  /\ UNCHANGED <<enabled, settler, auth, invoice, faults>>

PostDies(p) ==
  /\ post[p].pc = "create" /\ Fault /\ post' = [post EXCEPT ![p] = IdlePost]
  /\ UNCHANGED <<books, enabled, settler, auth, invoice>>

(* --------------------------- Closing an intent ------------------------- *)

Expire(i) ==
  /\ intent[i].st # "none" /\ ~intent[i].late /\ intent' = [intent EXCEPT ![i].late = TRUE]
  /\ UNCHANGED <<link, event, dlv, enabled, post, settler, auth, invoice, faults>>

IsIntentPayable(i) == intent[i].st = "awaiting_payment" /\ ~intent[i].late

\* GET .../onchain, and the merchant's view of an intent; the deadline of the
\* authorization is the expiry of the intent.
BuildRouterAuthorization(i) ==
  /\ IsIntentPayable(i) /\ i \notin auth /\ auth' = auth \cup {i}
  /\ UNCHANGED <<books, enabled, post, settler, invoice, faults>>

\* The router takes an authorized invoice once, before its deadline.
PayInvoice(i) ==
  /\ i \in auth /\ i \notin invoice /\ ~intent[i].late /\ invoice' = invoice \cup {i}
  /\ UNCHANGED <<books, enabled, post, settler, auth, faults>>

\* /pay/prepare on the link of an intent that can still be paid.
ClaimLink(i) ==
  /\ IsIntentPayable(i) /\ link[i].st = "pending" /\ link[i].claim = None
  /\ link' = [link EXCEPT ![i].claim = "op"]
  /\ UNCHANGED <<intent, event, dlv, enabled, post, settler, auth, invoice, faults>>

\* What each handler asks of the intent it has read before it goes on.
Reads(kind, i) ==
  CASE kind = "simulate" -> IsIntentPayable(i)
    [] kind = "sandbox"  -> intent[i].st = "awaiting_payment"
    [] kind = "watch"    -> i \in invoice /\ intent[i].st = "awaiting_payment"
    [] kind = "settle"   -> link[i].st = "pending" /\ link[i].claim = "op"
    [] kind = "cancel"   -> intent[i].st = "awaiting_payment"

ReadIntent(s, kind, i) ==
  /\ settler[s].pc = "idle" /\ Reads(kind, i)
  /\ settler' = [settler EXCEPT ![s] = [pc |-> "write", kind |-> kind, i |-> i,
                   eps |-> IF kind = "cancel" THEN {} ELSE OutboxEndpoints("payment.paid")]]
  /\ UNCHANGED <<books, enabled, post, auth, invoice, faults>>

Ended(s) == settler' = [settler EXCEPT ![s] = IdleSettler]

\* UPDATE payment_intents ... WHERE status = 'awaiting_payment'.
StillAwaiting(i) == intent[i].st = "awaiting_payment"

MarkPaid(i, tx, wins) ==
  intent' = IF wins THEN [intent EXCEPT ![i].st = "paid", ![i].tx = tx] ELSE intent

\* markPaymentIntentPaidWithOutbox, for simulations and for the watcher.
MarkPaymentIntentPaid(s) ==
  /\ settler[s].pc = "write" /\ settler[s].kind \in {"simulate", "sandbox", "watch"}
  /\ LET i == settler[s].i
         wins == StillAwaiting(i) IN
     /\ MarkPaid(i, settler[s].kind, wins)
     /\ WithEvent(i, "payment.paid", settler[s].kind, settler[s].eps, wins)
  /\ UNCHANGED link /\ Ended(s)
  /\ UNCHANGED <<enabled, post, auth, invoice, faults>>

\* settlePaymentLinkWithOutbox: the link first, the intent if the link took it.
SettlePaymentLink(s) ==
  /\ settler[s].pc = "write" /\ settler[s].kind = "settle"
  /\ LET i == settler[s].i
         taken == link[i].st = "pending"
         wins == taken /\ StillAwaiting(i) IN
     /\ link' = IF taken THEN [link EXCEPT ![i] = [st |-> "paid", claim |-> None]] ELSE link
     /\ MarkPaid(i, "settle", wins)
     /\ WithEvent(i, "payment.paid", "settle", settler[s].eps, wins)
  /\ Ended(s)
  /\ UNCHANGED <<enabled, post, auth, invoice, faults>>

\* updatePaymentIntentStatus: not while a payment of the link is claimed.
CancelPaymentIntent(s) ==
  /\ settler[s].pc = "write" /\ settler[s].kind = "cancel"
  /\ LET i == settler[s].i IN
     intent' = IF StillAwaiting(i) /\ link[i].claim = None
                 THEN [intent EXCEPT ![i].st = "canceled"] ELSE intent
  /\ Ended(s)
  /\ UNCHANGED <<link, event, dlv, enabled, post, auth, invoice, faults>>

SettlerDies(s) ==
  /\ settler[s].pc = "write" /\ Fault /\ Ended(s)
  /\ UNCHANGED <<books, enabled, post, auth, invoice>>

(* ------------------------------ Endpoints ------------------------------ *)

DeleteWebhookEndpoint(e) ==
  /\ e \in enabled /\ enabled' = enabled \ {e}
  /\ UNCHANGED <<books, post, settler, auth, invoice, faults>>

CreateWebhookEndpoint(e) ==
  /\ e \notin enabled /\ \A d \in dlv : d[2] # e
  /\ enabled' = enabled \cup {e}
  /\ UNCHANGED <<books, post, settler, auth, invoice, faults>>

Next ==
  \/ \E p \in Posts :
       \/ ReadKey(p) \/ CreatePaymentIntent(p) \/ SandboxCharge(p) \/ PostDies(p)
       \/ Expire(p) \/ BuildRouterAuthorization(p) \/ PayInvoice(p) \/ ClaimLink(p)
  \/ \E s \in Settlers :
       \/ \E kind \in Kinds : \E i \in Posts : ReadIntent(s, kind, i)
       \/ MarkPaymentIntentPaid(s) \/ SettlePaymentLink(s) \/ CancelPaymentIntent(s) \/ SettlerDies(s)
  \/ \E e \in Endpoints : DeleteWebhookEndpoint(e) \/ CreateWebhookEndpoint(e)

Spec == Init /\ [][Next]_vars

(* ------------------------------ Properties ----------------------------- *)

\* The merchant is told of a payment exactly when the intent is paid, and the
\* event names the transaction that settled it, whichever of the settlements
\* and cancellations racing for the intent came first
\* (eventOutboxStatements with its guard).
PaidEventIsTrue ==
  \A i \in Posts :
    event[i]["payment.paid"] = (IF intent[i].st = "paid" THEN intent[i].tx ELSE None)

\* Requests under one idempotency key are answered with one and the same
\* intent, and it exists with its link (the unique index and the loser's
\* second read in POST /v1/payment_intents).
SameKeySameIntent ==
  /\ \A p, q \in Posts : post[p].answer # None /\ post[q].answer # None
                           => post[p].answer = post[q].answer
  /\ \A p \in Posts : post[p].answer # None =>
       intent[post[p].answer].key /\ link[post[p].answer].st # "none"
=============================================================================
