---------------------- MODULE PaymentSettlementProofs -----------------------
(***************************************************************************)
(* The settlements of PaymentSettlement form one chain of amounts and rest *)
(* on evidence, intents, links, commits and events agree, and the whole    *)
(* implements PaymentLedger: proofs for every set of intents, attempts,    *)
(* chains and workers and every bound.                                     *)
(***************************************************************************)
EXTENDS PaymentSettlement, TLAPS

\* What the rows say beyond their types.  A reserved attempt names an intent
\* and a chain and has a positive amount.
AttemptRows ==
    \A a \in Attempts :
        attempt[a].status # "none" => /\ attempt[a].intent \in Intents
                                      /\ attempt[a].chain \in Chains
                                      /\ attempt[a].amount > 0

\* Logs, operations, hashes and mints are those of reserved attempts.
EvidenceRows ==
    \A a \in Attempts :
        (a \in logs \/ a \in burns \/ attempt[a].sourceTx \/ minted[a] > 0)
            => attempt[a].status # "none"

\* A running execution works on a row that exists.
WorkerRows ==
    \A w \in Workers :
        /\ worker[w].pc \in {"reconcile", "fee", "read", "commit"} =>
             /\ worker[w].attempt \in Attempts
             /\ attempt[worker[w].attempt].status # "none"
        /\ worker[w].pc \in {"fee", "read", "commit"} => worker[w].settled > 0
        /\ worker[w].pc = "simulate" => worker[w].intent \in Intents

\* The inductive strengthening of TypeOK.
TypeInv == TypeOK /\ AttemptRows /\ EvidenceRows /\ WorkerRows

\* The inductive invariant holds of the empty database.
LEMMA InitTypeInv == Init => TypeInv
BY ConstantsAssumption, NoneAssumption
   DEF Init, TypeInv, TypeOK, AttemptRows, EvidenceRows, WorkerRows, Intent, Link,
       Attempt, Worker, NoIntent, NoAttempt, Idle, IntentStatuses, LinkStatuses,
       AttemptStatuses, ActiveStatuses, SettledStatuses, FeeLines

\* INSERT OR IGNORE keeps the events table well-formed.
LEMMA WithEventType ==
    ASSUME events \subseteq Event, NEW e \in Event
    PROVE  WithEvent(e) \subseteq Event
BY DEF WithEvent

\* An update that keeps an attempt's terms, and leaves the rest of what the
\* row conditions mention alone, preserves them.
LEMMA RowsKept ==
    ASSUME TypeInv, UNCHANGED <<logs, burns, minted, worker>>,
           \A a \in Attempts :
               /\ attempt[a].status # "none" <=> attempt[a].status' # "none"
               /\ attempt[a].intent' = attempt[a].intent
               /\ attempt[a].chain' = attempt[a].chain
               /\ attempt[a].amount' = attempt[a].amount
               /\ attempt[a].sourceTx' => attempt[a].status # "none"
    PROVE  (AttemptRows /\ EvidenceRows /\ WorkerRows)'
<1>1. AttemptRows'
  BY DEF TypeInv, AttemptRows
<1>2. EvidenceRows'
  BY DEF TypeInv, EvidenceRows
<1>3. WorkerRows'
  BY DEF TypeInv, WorkerRows
<1>4. QED
  BY <1>1, <1>2, <1>3

\* Each kind of step preserves the inductive invariant.
LEMMA StepTypeInv == TypeInv /\ [Next]_vars => TypeInv'
<1> SUFFICES ASSUME TypeInv, [Next]_vars PROVE TypeInv'
  OBVIOUS
<1> USE ConstantsAssumption, NoneAssumption
<1>1. CASE CreateSome
  <2>1. PICK i \in Intents, mode \in Modes, amountMode \in AmountModes,
             amount \in Amounts \cup {0} : CreateIntent(i, amountMode, mode, amount)
    BY <1>1 DEF CreateSome
  <2> DEFINE row == [status |-> "awaiting_payment", amountMode |-> amountMode,
                     mode |-> mode, amount |-> amount, paid |-> 0,
                     expiresAt |-> now + IntentTtl]
  <2>2. row \in Intent /\ intent' = [intent EXCEPT ![i] = row]
    BY <2>1 DEF TypeInv, TypeOK, CreateIntent, Intent, IntentStatuses
  <2>3. intent' \in [Intents -> Intent]
    BY <2>2 DEF TypeInv, TypeOK
  <2>4. link' \in [Intents -> Link]
    BY <2>1 DEF TypeInv, TypeOK, CreateIntent, Link, LinkStatuses
  <2>5. [kind |-> "created", intent |-> i, attempt |-> None,
         type |-> "payment.created", paid |-> 0] \in Event
    BY DEF Event
  <2>6. events' \subseteq Event
    BY <2>1, <2>5, WithEventType DEF TypeInv, TypeOK, CreateIntent
  <2>7. TypeOK'
    BY <2>1, <2>3, <2>4, <2>6 DEF TypeInv, TypeOK, CreateIntent, intentVars, relayVars, ledgerVars, chainVars, envVars
  <2>8. QED
    BY <2>1, <2>7 DEF TypeInv, AttemptRows, EvidenceRows, WorkerRows,
       CreateIntent, relayVars, chainVars
<1>2. CASE \E i \in Intents : CancelPaymentIntent(i)
  <2>1. PICK i \in Intents : CancelPaymentIntent(i)
    BY <1>2
  <2>2. intent' \in [Intents -> Intent]
    BY <2>1 DEF TypeInv, TypeOK, Intent, IntentStatuses, CancelPaymentIntent
  <2>3. link' \in [Intents -> Link]
    BY <2>1 DEF TypeInv, TypeOK, Link, LinkStatuses, CancelPaymentIntent
  <2>4. QED
    BY <2>1, <2>2, <2>3 DEF TypeInv, TypeOK, AttemptRows, EvidenceRows, WorkerRows,
       CancelPaymentIntent, relayVars, ledgerVars, chainVars, envVars
<1>3. CASE \E i \in Intents : ReleaseExpired(i)
  <2>1. PICK i \in Intents : ReleaseExpired(i)
    BY <1>3
  <2>2. \A a \in Attempts : /\ attempt[a] \in Attempt
                             /\ [attempt[a] EXCEPT !.status = "expired"] \in Attempt
    BY DEF TypeInv, TypeOK, Attempt, AttemptStatuses
  <2>3. attempt' \in [Attempts -> Attempt]
    BY <2>1, <2>2 DEF ReleaseExpired
  <2>4. intent' \in [Intents -> Intent]
    <3>1. PICK amount \in Nat : intent' = [intent EXCEPT ![i].amount = amount]
      <4>1. intent[i] \in Intent
        BY DEF TypeInv, TypeOK
      <4>2. intent[i].amount \in Nat
        BY <4>1 DEF Intent
      <4>3. QED
        BY <2>1, <4>2 DEF ReleaseExpired
    <3>2. intent[i] \in Intent /\ intent \in [Intents -> Intent]
      BY DEF TypeInv, TypeOK
    <3>3. [intent[i] EXCEPT !.amount = amount] \in Intent
      BY <3>2 DEF Intent
    <3>4. intent' = [intent EXCEPT ![i] = [intent[i] EXCEPT !.amount = amount]]
      BY <3>1, <3>2
    <3>5. QED
      BY <3>2, <3>3, <3>4
  <2>5. link' \in [Intents -> Link]
    <3>1. link[i] \in Link /\ link \in [Intents -> Link]
      BY DEF TypeInv, TypeOK
    <3>2. [link[i] EXCEPT !.amount = 0] \in Link
      BY <3>1 DEF Link
    <3>3. link' = link \/ link' = [link EXCEPT ![i] = [link[i] EXCEPT !.amount = 0]]
      BY <2>1, <3>1 DEF ReleaseExpired
    <3>4. QED
      BY <3>1, <3>2, <3>3
  <2>6. TypeOK'
    BY <2>1, <2>3, <2>4, <2>5 DEF TypeInv, TypeOK, ReleaseExpired, intentVars, relayVars, ledgerVars, chainVars, envVars
  <2>7. AttemptRows' /\ EvidenceRows' /\ WorkerRows'
    <3>1. UNCHANGED <<logs, burns, minted, worker>>
      BY <2>1 DEF ReleaseExpired, relayVars, chainVars
    <3>2. ASSUME NEW a \in Attempts
          PROVE  /\ attempt[a].status # "none" <=> attempt[a].status' # "none"
                 /\ attempt[a].intent' = attempt[a].intent
                 /\ attempt[a].chain' = attempt[a].chain
                 /\ attempt[a].amount' = attempt[a].amount
                 /\ attempt[a].sourceTx' => attempt[a].status # "none"
      BY <2>1, <2>2 DEF ReleaseExpired, Overdue, Attempt, TypeInv, EvidenceRows
    <3>3. QED
      BY <3>1, <3>2, RowsKept
  <2>8. QED
    BY <2>6, <2>7 DEF TypeInv
<1>4. CASE \E w \in Workers, i \in Intents : SimulateRead(w, i)
  <2>1. PICK w \in Workers, i \in Intents : SimulateRead(w, i)
    BY <1>4
  <2>2. worker' \in [Workers -> Worker]
    BY <2>1 DEF TypeInv, TypeOK, Worker, Idle, SimulateRead, Intent
  <2>3. TypeOK'
    BY <2>1, <2>2 DEF TypeInv, TypeOK, SimulateRead, intentVars, relayVars, ledgerVars, chainVars, envVars
  <2>4. AttemptRows' /\ EvidenceRows'
    BY <2>1 DEF TypeInv, AttemptRows, EvidenceRows, SimulateRead, relayVars,
       chainVars
  <2>5. WorkerRows'
    BY <2>1, <2>2 DEF TypeInv, TypeOK, WorkerRows, SimulateRead, Idle, Worker, Intent
  <2>6. QED
    BY <2>3, <2>4, <2>5 DEF TypeInv
<1>5. CASE \E w \in Workers : SimulateBatch(w)
  <2>1. PICK w \in Workers : SimulateBatch(w)
    BY <1>5
  <2> DEFINE i == worker[w].intent
  <2>2. i \in Intents /\ worker[w].expected \in Nat
    BY <2>1 DEF TypeInv, TypeOK, Worker, WorkerRows, SimulateBatch
  <2>3. intent' \in [Intents -> Intent]
    <3> DEFINE row == [intent[i] EXCEPT !.status = "paid", !.paid = intent[i].amount]
    <3>0. intent[i] \in Intent
      BY <2>2 DEF TypeInv, TypeOK
    <3>1. row \in Intent
      BY <3>0 DEF Intent, IntentStatuses
    <3>2. intent' = intent \/ intent' = [intent EXCEPT ![i] = row]
      BY <2>1, <2>2 DEF SimulateBatch, TypeInv, TypeOK
    <3>3. QED
      BY <2>2, <3>1, <3>2 DEF TypeInv, TypeOK
  <2>4. link' \in [Intents -> Link]
    BY <2>1, <2>2 DEF TypeInv, TypeOK, Link, LinkStatuses, SimulateBatch
  <2>5. [kind |-> "sandbox", intent |-> i, attempt |-> None,
         type |-> "payment.paid", paid |-> worker[w].expected] \in Event
    BY <2>2 DEF Event
  <2>6. events' \subseteq Event
    BY <2>1, <2>5, WithEventType DEF TypeInv, TypeOK, SimulateBatch
  <2>7. worker' \in [Workers -> Worker]
    BY <2>1 DEF TypeInv, TypeOK, Worker, Idle, SimulateBatch
  <2>8. TypeOK'
    BY <2>1, <2>3, <2>4, <2>6, <2>7 DEF TypeInv, TypeOK, SimulateBatch, relayVars,
       chainVars, envVars
  <2>9. AttemptRows' /\ EvidenceRows'
    BY <2>1 DEF TypeInv, AttemptRows, EvidenceRows, SimulateBatch, relayVars, chainVars
  <2>10. WorkerRows'
    BY <2>1 DEF TypeInv, TypeOK, WorkerRows, SimulateBatch, Idle
  <2>11. QED
    BY <2>8, <2>9, <2>10 DEF TypeInv
<1>6. CASE ReserveSome
  <2>1. PICK a \in Attempts, i \in Intents, c \in Chains, amount \in Amounts,
             kind \in Kinds : ReserveAttempt(a, i, c, kind, amount)
    BY <1>6 DEF ReserveSome
  <2> DEFINE row == [status |-> "reserved", intent |-> i, chain |-> c, kind |-> kind,
                     amount |-> amount, validUntil |-> ValidUntil(i),
                     sourceTx |-> FALSE, userOp |-> None]
  <2>2. ValidUntil(i) \in Int
    BY DEF TypeInv, TypeOK, ValidUntil, Intent
  <2>3. row \in Attempt /\ attempt' = [attempt EXCEPT ![a] = row]
    BY <2>1, <2>2 DEF ReserveAttempt, Attempt, AttemptStatuses, ActiveStatuses
  <2>4. TypeOK'
    <3>1. attempt' \in [Attempts -> Attempt]
      BY <2>3 DEF TypeInv, TypeOK
    <3>2. QED
      BY <2>1, <3>1 DEF TypeInv, TypeOK, ReserveAttempt, intentVars, relayVars, ledgerVars, chainVars, envVars
  <2> HIDE DEF row
  <2>5. /\ attempt'[a].status = "reserved" /\ attempt'[a].intent = i
        /\ attempt'[a].chain = c /\ attempt'[a].amount = amount
        /\ \A b \in Attempts \ {a} : attempt'[b] = attempt[b]
        /\ ~attempt'[a].sourceTx
        /\ UNCHANGED <<logs, burns, minted, worker>>
    <3>1. UNCHANGED <<logs, burns, minted, worker>>
      BY <2>1 DEF ReserveAttempt, relayVars, chainVars
    <3>2. attempt'[a] = row /\ \A b \in Attempts \ {a} : attempt'[b] = attempt[b]
      BY <2>3 DEF TypeInv, TypeOK
    <3>3. QED
      BY <3>1, <3>2 DEF row
  <2>6. AttemptRows'
    <3>1. amount > 0
      BY DEF TypeInv
    <3>2. QED
      BY <2>5, <3>1 DEF TypeInv, AttemptRows
  <2>7. EvidenceRows'
    BY <2>5 DEF TypeInv, EvidenceRows
  <2>8. WorkerRows'
    BY <2>5 DEF TypeInv, WorkerRows
  <2>9. QED
    BY <2>4, <2>6, <2>7, <2>8 DEF TypeInv
<1>7. CASE \E a \in Attempts, u \in UserOps : RegisterAppExecution(a, u)
  <2>1. PICK a \in Attempts, u \in UserOps : RegisterAppExecution(a, u)
    BY <1>7
  <2> DEFINE row == [attempt[a] EXCEPT !.status = IF @ = "reserved" THEN "submitted" ELSE @,
                                   !.userOp = u]
  <2>2. row \in Attempt
    <3>1. attempt[a] \in Attempt
      BY DEF TypeInv, TypeOK
    <3>2. QED
      BY <3>1 DEF Attempt, AttemptStatuses, ActiveStatuses, SettledStatuses
  <2>3. attempt' = [attempt EXCEPT ![a] = row]
    BY <2>1 DEF RegisterAppExecution, TypeInv, TypeOK, Attempt
  <2>4. TypeOK'
    <3>1. attempt' \in [Attempts -> Attempt]
      BY <2>2, <2>3 DEF TypeInv, TypeOK
    <3>2. QED
      BY <2>1, <3>1 DEF TypeInv, TypeOK, RegisterAppExecution, intentVars, relayVars, ledgerVars, chainVars, envVars
  <2>5. AttemptRows' /\ EvidenceRows' /\ WorkerRows'
    <3>1. UNCHANGED <<logs, burns, minted, worker>>
      BY <2>1 DEF RegisterAppExecution, relayVars, chainVars
    <3>2. attempt[a].status # "none" /\ attempt[a] \in Attempt
      BY <2>1 DEF RegisterAppExecution, ActiveStatuses, SettledStatuses, TypeInv, TypeOK
    <3>3. ASSUME NEW b \in Attempts
          PROVE  /\ attempt[b].status # "none" <=> attempt[b].status' # "none"
                 /\ attempt[b].intent' = attempt[b].intent
                 /\ attempt[b].chain' = attempt[b].chain
                 /\ attempt[b].amount' = attempt[b].amount
                 /\ attempt[b].sourceTx' => attempt[b].status # "none"
      <4>1. CASE b = a
        BY <2>3, <3>2, <4>1 DEF TypeInv, TypeOK, Attempt
      <4>2. CASE b # a
        BY <2>3, <4>2 DEF TypeInv, TypeOK, EvidenceRows
      <4>3. QED
        BY <4>1, <4>2
    <3>4. QED
      BY <3>1, <3>3, RowsKept
  <2>6. QED
    BY <2>4, <2>5 DEF TypeInv
<1>8. CASE \E a \in Attempts : RegisterSourceTransaction(a)
  <2>1. PICK a \in Attempts : RegisterSourceTransaction(a)
    BY <1>8
  <2> DEFINE row == [attempt[a] EXCEPT !.status = IF @ = "reserved" THEN "submitted" ELSE @,
                                   !.sourceTx = TRUE]
  <2>2. row \in Attempt
    <3>1. attempt[a] \in Attempt
      BY DEF TypeInv, TypeOK
    <3>2. QED
      BY <3>1 DEF Attempt, AttemptStatuses, ActiveStatuses, SettledStatuses
  <2>3. attempt' = [attempt EXCEPT ![a] = row]
    BY <2>1 DEF RegisterSourceTransaction, TypeInv, TypeOK, Attempt
  <2>4. TypeOK'
    <3>1. attempt' \in [Attempts -> Attempt]
      BY <2>2, <2>3 DEF TypeInv, TypeOK
    <3>2. QED
      BY <2>1, <3>1 DEF TypeInv, TypeOK, RegisterSourceTransaction, intentVars, relayVars, ledgerVars, chainVars, envVars
  <2>5. AttemptRows' /\ EvidenceRows' /\ WorkerRows'
    <3>1. UNCHANGED <<logs, burns, minted, worker>>
      BY <2>1 DEF RegisterSourceTransaction, relayVars, chainVars
    <3>2. attempt[a].status # "none" /\ attempt[a] \in Attempt
      BY <2>1 DEF RegisterSourceTransaction, ActiveStatuses, SettledStatuses, TypeInv, TypeOK
    <3>3. ASSUME NEW b \in Attempts
          PROVE  /\ attempt[b].status # "none" <=> attempt[b].status' # "none"
                 /\ attempt[b].intent' = attempt[b].intent
                 /\ attempt[b].chain' = attempt[b].chain
                 /\ attempt[b].amount' = attempt[b].amount
                 /\ attempt[b].sourceTx' => attempt[b].status # "none"
      <4>1. CASE b = a
        BY <2>3, <3>2, <4>1 DEF TypeInv, TypeOK, Attempt
      <4>2. CASE b # a
        BY <2>3, <4>2 DEF TypeInv, TypeOK, EvidenceRows
      <4>3. QED
        BY <4>1, <4>2
    <3>4. QED
      BY <3>1, <3>3, RowsKept
  <2>6. QED
    BY <2>4, <2>5 DEF TypeInv
<1>9. CASE \E a \in Attempts : CancelAttempt(a)
  <2>1. PICK a \in Attempts : CancelAttempt(a)
    BY <1>9
  <2> DEFINE row == [attempt[a] EXCEPT !.status = "canceled"]
  <2>2. row \in Attempt
    <3>1. attempt[a] \in Attempt
      BY DEF TypeInv, TypeOK
    <3>2. QED
      BY <3>1 DEF Attempt, AttemptStatuses, ActiveStatuses, SettledStatuses
  <2>3. attempt' = [attempt EXCEPT ![a] = row]
    BY <2>1 DEF CancelAttempt, TypeInv, TypeOK, Attempt
  <2>4. TypeOK'
    <3>1. attempt' \in [Attempts -> Attempt]
      BY <2>2, <2>3 DEF TypeInv, TypeOK
    <3>2. QED
      BY <2>1, <3>1 DEF TypeInv, TypeOK, CancelAttempt, intentVars, relayVars, ledgerVars, chainVars, envVars
  <2>5. AttemptRows' /\ EvidenceRows' /\ WorkerRows'
    <3>1. UNCHANGED <<logs, burns, minted, worker>>
      BY <2>1 DEF CancelAttempt, relayVars, chainVars
    <3>2. attempt[a].status # "none" /\ attempt[a] \in Attempt
      BY <2>1 DEF CancelAttempt, ActiveStatuses, SettledStatuses, TypeInv, TypeOK
    <3>3. ASSUME NEW b \in Attempts
          PROVE  /\ attempt[b].status # "none" <=> attempt[b].status' # "none"
                 /\ attempt[b].intent' = attempt[b].intent
                 /\ attempt[b].chain' = attempt[b].chain
                 /\ attempt[b].amount' = attempt[b].amount
                 /\ attempt[b].sourceTx' => attempt[b].status # "none"
      <4>1. CASE b = a
        BY <2>3, <3>2, <4>1 DEF TypeInv, TypeOK, Attempt
      <4>2. CASE b # a
        BY <2>3, <4>2 DEF TypeInv, TypeOK, EvidenceRows
      <4>3. QED
        BY <4>1, <4>2
    <3>4. QED
      BY <3>1, <3>3, RowsKept
  <2>6. QED
    BY <2>4, <2>5 DEF TypeInv
<1>10. CASE \E a \in Attempts : RouterPay(a)
  <2>1. PICK a \in Attempts : RouterPay(a)
    BY <1>10
  <2>2. attempt[a].status # "none" /\ attempt[a].chain \in Chains
        /\ attempt[a].intent \in Intents
    BY <2>1 DEF RouterPay, RouterAccepts, TypeInv, AttemptRows
  <2>3. TypeOK'
    BY <2>1, <2>2 DEF TypeInv, TypeOK, RouterPay, intentVars, relayVars, ledgerVars,
       envVars
  <2>4. QED
    BY <2>1, <2>2, <2>3 DEF TypeInv, AttemptRows, EvidenceRows, WorkerRows, RouterPay,
       relayVars
<1>11. CASE \E w \in Workers, a \in Attempts : ScanLog(w, a)
  <2>1. PICK w \in Workers, a \in Attempts : ScanLog(w, a)
    BY <1>11
  <2>2. a \in Attempts /\ attempt[a].status # "none"
    BY <2>1 DEF ScanLog, TypeInv, EvidenceRows
  <2> DEFINE row == [attempt[a] EXCEPT !.status = IF @ \in {"reserved", "submitted"}
                                                THEN "processing" ELSE @,
                                   !.sourceTx = TRUE]
  <2>3. row \in Attempt /\ attempt[a] \in Attempt
    <3>1. attempt[a] \in Attempt
      BY <2>2 DEF TypeInv, TypeOK
    <3>2. QED
      BY <3>1 DEF Attempt, AttemptStatuses, ActiveStatuses, SettledStatuses
  <2>4. attempt' = [attempt EXCEPT ![a] = row]
    BY <2>1, <2>2 DEF ScanLog, TypeInv, TypeOK, Attempt
  <2>5. attempt' \in [Attempts -> Attempt]
    BY <2>2, <2>3, <2>4 DEF TypeInv, TypeOK
  <2>6. worker' \in [Workers -> Worker]
    BY <2>1, <2>2 DEF TypeInv, TypeOK, Worker, Idle, ScanLog
  <2>7. TypeOK'
    BY <2>1, <2>2, <2>5, <2>6 DEF TypeInv, TypeOK, ScanLog, intentVars, relayVars, ledgerVars, chainVars, envVars
  <2>8. /\ row.status # "none" /\ row.intent = attempt[a].intent
        /\ row.chain = attempt[a].chain /\ row.amount = attempt[a].amount
    BY <2>2, <2>3 DEF Attempt
  <2> HIDE DEF row
  <2>9. \A b \in Attempts : b # a => attempt'[b] = attempt[b]
    BY <2>4 DEF TypeInv, TypeOK
  <2>10. attempt'[a] = row
    BY <2>2, <2>4 DEF TypeInv, TypeOK
  <2>11. AttemptRows'
    BY <2>2, <2>8, <2>9, <2>10 DEF TypeInv, AttemptRows
  <2>12. EvidenceRows'
    BY <2>1, <2>2, <2>8, <2>9, <2>10 DEF TypeInv, EvidenceRows, ScanLog, relayVars, chainVars
  <2>13. WorkerRows'
    <3>1. \A b \in Attempts : attempt[b].status # "none" => attempt'[b].status # "none"
      BY <2>8, <2>9, <2>10
    <3>2. /\ worker \in [Workers -> Worker]
          /\ worker' = [worker EXCEPT ![w] = [Idle EXCEPT !.pc = "reconcile",
                                                         !.attempt = a]]
      BY <2>1 DEF TypeInv, TypeOK, ScanLog
    <3>3. /\ \A v \in Workers : v # w => worker'[v] = worker[v]
          /\ worker'[w].pc = "reconcile" /\ worker'[w].attempt = a
      BY <3>2 DEF Idle
    <3>4. QED
      BY <2>2, <3>1, <3>3 DEF TypeInv, WorkerRows
  <2>14. QED
    BY <2>7, <2>11, <2>12, <2>13 DEF TypeInv
<1>12. CASE \E w \in Workers, a \in Attempts : ReconcileJob(w, a)
  <2>1. PICK w \in Workers, a \in Attempts : ReconcileJob(w, a)
    BY <1>12
  <2>2. worker' \in [Workers -> Worker]
    BY <2>1 DEF TypeInv, TypeOK, Worker, Idle, ReconcileJob
  <2>3. TypeOK'
    BY <2>1, <2>2 DEF TypeInv, TypeOK, ReconcileJob, intentVars, relayVars, ledgerVars, chainVars, envVars
  <2>4. AttemptRows' /\ EvidenceRows'
    BY <2>1 DEF TypeInv, AttemptRows, EvidenceRows, ReconcileJob, relayVars,
       chainVars
  <2>5. WorkerRows'
    BY <2>1, <2>2 DEF TypeInv, TypeOK, WorkerRows, EvidenceRows, ReconcileJob, Idle, Worker
  <2>6. QED
    BY <2>3, <2>4, <2>5 DEF TypeInv
<1>13. CASE \E w \in Workers : ReconcileRefused(w)
  <2>1. PICK w \in Workers : ReconcileRefused(w)
    BY <1>13
  <2>2. worker' \in [Workers -> Worker]
    BY <2>1 DEF TypeInv, TypeOK, Worker, Idle, ReconcileRefused
  <2>3. TypeOK'
    BY <2>1, <2>2 DEF TypeInv, TypeOK, ReconcileRefused, intentVars, relayVars, ledgerVars, chainVars, envVars
  <2>4. AttemptRows' /\ EvidenceRows'
    BY <2>1 DEF TypeInv, AttemptRows, EvidenceRows, ReconcileRefused, relayVars,
       chainVars
  <2>5. WorkerRows'
    BY <2>1, <2>2 DEF TypeInv, TypeOK, WorkerRows, ReconcileRefused, Idle, Worker
  <2>6. QED
    BY <2>3, <2>4, <2>5 DEF TypeInv
<1>14. CASE \E w \in Workers : ReconcileLocal(w)
  <2>1. PICK w \in Workers : ReconcileLocal(w)
    BY <1>14
  <2>0. /\ worker[w].attempt \in Attempts /\ worker[w].pc = "reconcile"
        /\ attempt[worker[w].attempt].status # "none"
        /\ attempt[worker[w].attempt].amount \in Nat
        /\ attempt[worker[w].attempt].amount > 0
        /\ worker[w] \in Worker
    BY <2>1 DEF ReconcileLocal, Reconcilable, TypeInv, TypeOK, WorkerRows, AttemptRows,
       Attempt
  <2>2. worker' \in [Workers -> Worker]
    BY <2>1, <2>0 DEF TypeInv, TypeOK, Worker, Idle, ReconcileLocal
  <2>3. TypeOK'
    BY <2>1, <2>2 DEF TypeInv, TypeOK, ReconcileLocal, intentVars, relayVars, ledgerVars, chainVars, envVars
  <2>4. AttemptRows' /\ EvidenceRows'
    BY <2>1 DEF TypeInv, AttemptRows, EvidenceRows, ReconcileLocal, relayVars,
       chainVars
  <2>5. WorkerRows'
    BY <2>1, <2>2, <2>0 DEF TypeInv, TypeOK, WorkerRows, ReconcileLocal, Idle, Worker
  <2>6. QED
    BY <2>3, <2>4, <2>5 DEF TypeInv
<1>15. CASE \E w \in Workers : ReconcileBurn(w)
  <2>1. PICK w \in Workers : ReconcileBurn(w)
    BY <1>15
  <2> DEFINE a == worker[w].attempt
  <2>2. a \in Attempts /\ attempt[a].status # "none"
    BY <2>1 DEF ReconcileBurn, Reconcilable, TypeInv, WorkerRows
  <2> DEFINE row == [attempt[a] EXCEPT !.status = IF @ \in {"reserved", "submitted"}
                                                THEN "processing" ELSE @,
                                   !.sourceTx = TRUE]
  <2>3. row \in Attempt /\ attempt[a] \in Attempt
    <3>1. attempt[a] \in Attempt
      BY <2>2 DEF TypeInv, TypeOK
    <3>2. QED
      BY <3>1 DEF Attempt, AttemptStatuses, ActiveStatuses, SettledStatuses
  <2>4. attempt' = [attempt EXCEPT ![a] = row]
    BY <2>1, <2>2 DEF ReconcileBurn, TypeInv, TypeOK, Attempt
  <2>5. attempt' \in [Attempts -> Attempt]
    BY <2>2, <2>3, <2>4 DEF TypeInv, TypeOK
  <2>6. worker' \in [Workers -> Worker]
    BY <2>1, <2>2 DEF TypeInv, TypeOK, Worker, Idle, ReconcileBurn
  <2>7. TypeOK'
    BY <2>1, <2>2, <2>5, <2>6 DEF TypeInv, TypeOK, ReconcileBurn, intentVars, relayVars, ledgerVars, chainVars, envVars, FeeLines
  <2>8. /\ row.status # "none" /\ row.intent = attempt[a].intent
        /\ row.chain = attempt[a].chain /\ row.amount = attempt[a].amount
    BY <2>2, <2>3 DEF Attempt
  <2> HIDE DEF row
  <2>9. \A b \in Attempts : b # a => attempt'[b] = attempt[b]
    BY <2>4 DEF TypeInv, TypeOK
  <2>10. attempt'[a] = row
    BY <2>2, <2>4 DEF TypeInv, TypeOK
  <2>11. AttemptRows'
    BY <2>2, <2>8, <2>9, <2>10 DEF TypeInv, AttemptRows
  <2>12. EvidenceRows'
    BY <2>1, <2>2, <2>8, <2>9, <2>10 DEF TypeInv, EvidenceRows, ReconcileBurn, relayVars, chainVars
  <2>13. WorkerRows'
    <3>1. \A b \in Attempts : attempt[b].status # "none" => attempt'[b].status # "none"
      BY <2>8, <2>9, <2>10
    <3>2. worker \in [Workers -> Worker] /\ worker' = [worker EXCEPT ![w] = Idle]
      BY <2>1 DEF TypeInv, TypeOK, ReconcileBurn
    <3>3. /\ \A v \in Workers : v # w => worker'[v] = worker[v]
          /\ worker'[w].pc = "idle"
      BY <3>2 DEF Idle
    <3>4. QED
      BY <3>1, <3>3 DEF TypeInv, WorkerRows
  <2>14. QED
    BY <2>7, <2>11, <2>12, <2>13 DEF TypeInv
<1>16. CASE \E a \in Attempts, charged \in 0..MaxCctpFee : CctpMint(a, charged)
  <2>1. PICK a \in Attempts, charged \in 0..MaxCctpFee : CctpMint(a, charged)
    BY <1>16
  <2>2. attempt[a].status # "none" /\ attempt[a].amount \in Nat
    BY <2>1 DEF CctpMint, TypeInv, TypeOK, EvidenceRows, Attempt
  <2>3. minted' \in [Attempts -> Nat]
    BY <2>1, <2>2 DEF TypeInv, TypeOK, CctpMint
  <2>4. fee' \in [Attempts -> SUBSET FeeLines]
    BY <2>1 DEF TypeInv, TypeOK, CctpMint
  <2>5. TypeOK'
    BY <2>1, <2>3, <2>4 DEF TypeInv, TypeOK, CctpMint, intentVars, ledgerVars,
       chainVars, envVars
  <2>6. AttemptRows' /\ WorkerRows'
    BY <2>1 DEF TypeInv, AttemptRows, WorkerRows, CctpMint
  <2>7. EvidenceRows'
    BY <2>1, <2>2 DEF TypeInv, TypeOK, EvidenceRows, CctpMint, chainVars
  <2>8. QED
    BY <2>5, <2>6, <2>7 DEF TypeInv
<1>17. CASE \E w \in Workers, a \in Attempts : FinalizeCctp(w, a)
  <2>1. PICK w \in Workers, a \in Attempts : FinalizeCctp(w, a)
    BY <1>17
  <2>2. worker' \in [Workers -> Worker]
    BY <2>1 DEF TypeInv, TypeOK, Worker, Idle, FinalizeCctp
  <2>3. TypeOK'
    BY <2>1, <2>2 DEF TypeInv, TypeOK, FinalizeCctp, intentVars, relayVars, ledgerVars, chainVars, envVars
  <2>4. AttemptRows' /\ EvidenceRows'
    BY <2>1 DEF TypeInv, AttemptRows, EvidenceRows, FinalizeCctp, relayVars,
       chainVars
  <2>5. WorkerRows'
    BY <2>1, <2>2 DEF TypeInv, TypeOK, WorkerRows, EvidenceRows, FinalizeCctp, Idle, Worker
  <2>6. QED
    BY <2>3, <2>4, <2>5 DEF TypeInv
<1>18. CASE \E w \in Workers : RecordFeeEvidence(w)
  <2>1. PICK w \in Workers : RecordFeeEvidence(w)
    BY <1>18
  <2>2. worker' \in [Workers -> Worker] /\ fee' \in [Attempts -> SUBSET FeeLines]
    <3>1. worker' \in [Workers -> Worker]
      <4>1. [worker[w] EXCEPT !.pc = "read"] \in Worker
        BY DEF TypeInv, TypeOK, Worker
      <4>2. worker' = [worker EXCEPT ![w] = [worker[w] EXCEPT !.pc = "read"]]
        BY <2>1 DEF RecordFeeEvidence, TypeInv, TypeOK
      <4>3. QED
        BY <4>1, <4>2 DEF TypeInv, TypeOK
    <3>2. fee' \in [Attempts -> SUBSET FeeLines]
      BY <2>1 DEF TypeInv, TypeOK, RecordFeeEvidence
    <3>3. QED
      BY <3>1, <3>2
  <2>3. TypeOK'
    BY <2>1, <2>2 DEF TypeInv, TypeOK, RecordFeeEvidence, intentVars, relayVars, ledgerVars, chainVars, envVars
  <2>4. AttemptRows' /\ EvidenceRows'
    BY <2>1 DEF TypeInv, AttemptRows, EvidenceRows, RecordFeeEvidence, relayVars,
       chainVars
  <2>5. WorkerRows'
    BY <2>1 DEF TypeInv, TypeOK, WorkerRows, RecordFeeEvidence, Worker
  <2>6. QED
    BY <2>3, <2>4, <2>5 DEF TypeInv
<1>19. CASE \E w \in Workers : SettleRead(w)
  <2>1. PICK w \in Workers : SettleRead(w)
    BY <1>19
  <2> DEFINE a == worker[w].attempt
             next == [worker[w] EXCEPT !.pc = "commit",
                                       !.previous = intent[attempt[a].intent].paid,
                                       !.expected = ExpectedAmount(a)]
  <2>2. /\ a \in Attempts /\ attempt[a].status # "none" /\ worker[w].pc = "read"
        /\ worker[w] \in Worker /\ worker[w].settled > 0
    BY <2>1 DEF SettleRead, TypeInv, TypeOK, WorkerRows
  <2>3. attempt[a].intent \in Intents /\ attempt[a].amount \in Nat
    BY <2>2 DEF TypeInv, TypeOK, AttemptRows, Attempt
  <2>4. intent[attempt[a].intent].paid \in Nat /\ ExpectedAmount(a) \in Nat
    BY <2>3 DEF TypeInv, TypeOK, Intent, ExpectedAmount
  <2>5. next \in Worker /\ next.attempt = a /\ next.settled > 0 /\ next.pc = "commit"
    BY <2>2, <2>4 DEF Worker
  <2>6. /\ worker' = [worker EXCEPT ![w] = worker'[w]]
        /\ worker'[w] \in {next, Idle}
    BY <2>1 DEF SettleRead, TypeInv, TypeOK
  <2> HIDE DEF next
  <2>7. worker' \in [Workers -> Worker]
    BY <2>5, <2>6 DEF TypeInv, TypeOK, Idle, Worker
  <2>8. TypeOK'
    BY <2>1, <2>7 DEF TypeInv, TypeOK, SettleRead, intentVars, relayVars, ledgerVars, chainVars, envVars
  <2>9. AttemptRows' /\ EvidenceRows' /\ UNCHANGED attempt
    BY <2>1 DEF TypeInv, AttemptRows, EvidenceRows, SettleRead, relayVars, chainVars
  <2>10. WorkerRows'
    BY <2>2, <2>5, <2>6, <2>9 DEF TypeInv, TypeOK, WorkerRows, Idle
  <2>11. QED
    BY <2>8, <2>9, <2>10 DEF TypeInv
<1>20. CASE \E w \in Workers : SettleCommit(w)
  <2>1. PICK w \in Workers : SettleCommit(w)
    BY <1>20
  <2> DEFINE a == worker[w].attempt
             i == attempt[a].intent
             paid == worker[w].previous + worker[w].settled
             expected == worker[w].expected
             status == IF paid > expected THEN "overpaid" ELSE "paid"
             commit == [attempt |-> a, intent |-> i, previous |-> worker[w].previous,
                        settled |-> worker[w].settled, resulting |-> paid,
                        expected |-> expected, status |-> status]
             arow == [attempt[a] EXCEPT !.status = status, !.sourceTx = TRUE]
             irow == [intent[i] EXCEPT !.amount = expected, !.status = status,
                                       !.paid = paid]
             lrow == [link[i] EXCEPT !.amount = IF @ = 0 THEN expected ELSE @,
                                     !.status = "paid"]
             event == [kind |-> "settlement", intent |-> i, attempt |-> a,
                       type |-> IF status = "overpaid" THEN "payment.overpaid"
                                                       ELSE "payment.paid",
                       paid |-> paid]
  <2>2. /\ a \in Attempts /\ attempt[a].status # "none" /\ attempt[a] \in Attempt
        /\ worker[w] \in Worker
    BY <2>1 DEF SettleCommit, TypeInv, TypeOK, WorkerRows
  <2>3. /\ i \in Intents /\ paid \in Nat /\ expected \in Nat
        /\ status \in SettledStatuses
        /\ worker[w].previous \in Nat /\ worker[w].settled \in Nat
        /\ intent[i] \in Intent /\ link[i] \in Link
    BY <2>2 DEF TypeInv, TypeOK, AttemptRows, Worker, SettledStatuses
  <2> HIDE DEF paid, expected, status
  <2>4. commit \in Commit /\ event \in Event
    BY <2>2, <2>3 DEF Commit, Event
  <2>5. arow \in Attempt /\ arow.status # "none" /\ arow.intent = attempt[a].intent
        /\ arow.chain = attempt[a].chain /\ arow.amount = attempt[a].amount
    BY <2>2, <2>3 DEF Attempt, AttemptStatuses, SettledStatuses
  <2>6. irow \in Intent
    BY <2>3 DEF Intent, IntentStatuses, SettledStatuses
  <2>7. lrow \in Link
    BY <2>3 DEF Link, LinkStatuses
  <2>8. /\ commits' = commits \cup {commit}
        /\ attempt' = [attempt EXCEPT ![a] = arow]
        /\ intent' = [intent EXCEPT ![i] = irow]
        /\ link' = [link EXCEPT ![i] = lrow]
        /\ events' = WithEvent(event)
        /\ worker' = [worker EXCEPT ![w] = Idle]
        /\ UNCHANGED <<fee, relayVars, chainVars, envVars>>
    BY <2>1, <2>2, <2>3 DEF SettleCommit, TypeInv, TypeOK, paid, expected, status
  <2> HIDE DEF commit, arow, irow, lrow, event, i
  <2>9. attempt' \in [Attempts -> Attempt] /\ intent' \in [Intents -> Intent]
        /\ link' \in [Intents -> Link]
    BY <2>2, <2>3, <2>5, <2>6, <2>7, <2>8 DEF TypeInv, TypeOK
  <2>10. commits' \subseteq Commit /\ events' \subseteq Event
    BY <2>4, <2>8, WithEventType DEF TypeInv, TypeOK
  <2>11. worker' \in [Workers -> Worker]
    BY <2>8 DEF TypeInv, TypeOK, Worker, Idle
  <2>12. TypeOK'
    BY <2>8, <2>9, <2>10, <2>11 DEF TypeInv, TypeOK, relayVars, chainVars, envVars
  <2>13. /\ attempt'[a] = arow
         /\ \A b \in Attempts : b # a => attempt'[b] = attempt[b]
    BY <2>2, <2>8 DEF TypeInv, TypeOK
  <2>14. AttemptRows'
    BY <2>2, <2>5, <2>13 DEF TypeInv, AttemptRows
  <2>15. EvidenceRows'
    BY <2>2, <2>5, <2>8, <2>13 DEF TypeInv, EvidenceRows, relayVars, chainVars
  <2>16. WorkerRows'
    BY <2>2, <2>5, <2>8, <2>13 DEF TypeInv, TypeOK, WorkerRows, Idle
  <2>17. QED
    BY <2>12, <2>14, <2>15, <2>16 DEF TypeInv
<1>21. CASE \E w \in Workers : SettleConflict(w)
  <2>1. PICK w \in Workers : SettleConflict(w)
    BY <1>21
  <2> DEFINE next == [worker[w] EXCEPT !.pc = "read",
                                       !.retry = worker[w].retry + 1]
  <2>2. /\ worker[w] \in Worker /\ worker[w].attempt \in Attempts
        /\ worker[w].settled > 0 /\ attempt[worker[w].attempt].status # "none"
    BY <2>1 DEF SettleConflict, TypeInv, TypeOK, WorkerRows
  <2>3. /\ next \in Worker /\ next.attempt = worker[w].attempt /\ next.settled > 0
        /\ next.pc = "read"
    <3>1. worker[w].retry + 1 \in Nat
      BY <2>2 DEF Worker
    <3>2. next \in Worker
      BY <2>2, <3>1 DEF Worker
    <3>3. QED
      BY <2>2, <3>2 DEF Worker
  <2>4. /\ worker' = [worker EXCEPT ![w] = worker'[w]]
        /\ worker'[w] \in {next, Idle}
    <3>1. CASE worker[w].retry + 1 < SettleRetries
      <4>1. worker' = [worker EXCEPT ![w] = next]
        BY <2>1, <3>1 DEF SettleConflict
      <4>2. QED
        BY <4>1 DEF TypeInv, TypeOK
    <3>2. CASE ~(worker[w].retry + 1 < SettleRetries)
      BY <2>1, <2>2, <3>2 DEF SettleConflict, TypeInv, TypeOK
    <3>3. QED
      BY <3>1, <3>2
  <2> HIDE DEF next
  <2>5. worker' \in [Workers -> Worker]
    BY <2>3, <2>4 DEF TypeInv, TypeOK, Idle, Worker
  <2>6. TypeOK'
    BY <2>1, <2>5 DEF TypeInv, TypeOK, SettleConflict, intentVars, relayVars, ledgerVars, chainVars, envVars
  <2>7. AttemptRows' /\ EvidenceRows' /\ UNCHANGED attempt
    BY <2>1 DEF TypeInv, AttemptRows, EvidenceRows, SettleConflict, relayVars, chainVars
  <2>8. WorkerRows'
    BY <2>2, <2>3, <2>4, <2>7 DEF TypeInv, TypeOK, WorkerRows, Idle
  <2>9. QED
    BY <2>6, <2>7, <2>8 DEF TypeInv
<1>22. CASE \E w \in Workers : Crash(w)
  <2>1. PICK w \in Workers : Crash(w)
    BY <1>22
  <2>2. worker' \in [Workers -> Worker]
    BY <2>1 DEF TypeInv, TypeOK, Worker, Idle, Crash
  <2>3. QED
    BY <2>1, <2>2 DEF TypeInv, TypeOK, AttemptRows, EvidenceRows, WorkerRows, Crash,
       Idle, intentVars, relayVars, ledgerVars, chainVars
<1>23. CASE Tick
  BY <1>23 DEF Tick, TypeInv, TypeOK, AttemptRows, EvidenceRows, WorkerRows,
     intentVars, relayVars, ledgerVars, chainVars
<1>24. CASE UNCHANGED vars
  BY <1>24 DEF vars, TypeInv, TypeOK, AttemptRows, EvidenceRows, WorkerRows,
     intentVars, relayVars, ledgerVars, chainVars, envVars
<1>25. QED
  BY <1>1, <1>2, <1>3, <1>4, <1>5, <1>6, <1>7, <1>8, <1>9, <1>10,
     <1>11, <1>12, <1>13, <1>14, <1>15, <1>16, <1>17, <1>18, <1>19, <1>20,
     <1>21, <1>22, <1>23, <1>24 DEF Next

\* Every table keeps its shape in every behaviour: in particular no settlement
\* makes an amount negative and no execution works on a row that is not there.
THEOREM TypeCorrect == Spec => []TypeOK
<1>1. TypeInv => TypeOK
  BY DEF TypeInv
<1>2. QED
  BY <1>1, InitTypeInv, StepTypeInv, PTL DEF Spec
-----------------------------------------------------------------------------
(* The ledger.                                                             *)

\* An intent nobody has settled or canceled has no settlement commit.
OpenHasNoCommit ==
    \A i \in Intents :
        intent[i].status \in {"none", "awaiting_payment"} => CommitsOf(i) = {}

\* Money of a live intent comes from commits only.
LiveStartsAtZero ==
    \A i \in Intents :
        intent[i].mode = "live" /\ CommitsOf(i) = {} => intent[i].paid = 0

\* Only test intents are ever simulated.
SimulationIsTest ==
    \A w \in Workers :
        worker[w].pc = "simulate" =>
            /\ intent[worker[w].intent].mode = "test"
            /\ intent[worker[w].intent].status # "none"

\* The inductive strengthening of LedgerChain.
LedgerInv == LedgerChain /\ OpenHasNoCommit /\ LiveStartsAtZero /\ SimulationIsTest

\* Steps that leave every intent's money, mode and commits alone keep the
\* ledger.
LEMMA LedgerKept ==
    ASSUME LedgerInv, UNCHANGED commits,
           \A i \in Intents :
               /\ intent[i].paid' = intent[i].paid
               /\ intent[i].mode' = intent[i].mode
               /\ intent[i].status' \in {"none", "awaiting_payment"} =>
                      intent[i].status \in {"none", "awaiting_payment"}
    PROVE  LedgerChain' /\ OpenHasNoCommit' /\ LiveStartsAtZero'
<1>1. \A i \in Intents : CommitsOf(i)' = CommitsOf(i)
  BY DEF CommitsOf
<1>2. LedgerChain'
  BY <1>1 DEF LedgerInv, LedgerChain
<1>3. OpenHasNoCommit'
  BY <1>1 DEF LedgerInv, OpenHasNoCommit
<1>4. LiveStartsAtZero'
  BY <1>1 DEF LedgerInv, LiveStartsAtZero
<1>5. QED
  BY <1>2, <1>3, <1>4

\* Steps that write neither intents nor commits, and start no simulation.
LEMMA LedgerUntouched ==
    ASSUME LedgerInv, UNCHANGED <<intent, commits>>,
           \A w \in Workers : worker[w].pc' = "simulate" => worker[w]' = worker[w]
    PROVE  LedgerInv'
<1>1. LedgerChain' /\ OpenHasNoCommit' /\ LiveStartsAtZero'
  BY LedgerKept
<1>2. SimulationIsTest'
  BY DEF LedgerInv, SimulationIsTest
<1>3. QED
  BY <1>1, <1>2 DEF LedgerInv

\* The batch of settleAttempt extends the chain of its intent by one commit.
LEMMA CommitKeepsLedger ==
    ASSUME TypeInv, LedgerInv, NEW w \in Workers, SettleCommit(w)
    PROVE  LedgerInv'
<1>0. PICK a \in Attempts, i \in Intents : a = worker[w].attempt /\ i = attempt[a].intent
  BY DEF SettleCommit, TypeInv, WorkerRows, AttemptRows
<1> DEFINE old == intent[i].paid
           paid == worker[w].previous + worker[w].settled
           status == IF paid > worker[w].expected THEN "overpaid" ELSE "paid"
           commit == [attempt |-> a, intent |-> i, previous |-> worker[w].previous,
                      settled |-> worker[w].settled, resulting |-> paid,
                      expected |-> worker[w].expected, status |-> status]
<1>1. /\ worker[w].settled > 0 /\ worker[w].settled \in Nat
      /\ worker[w].previous = old /\ old \in Nat
  BY <1>0 DEF SettleCommit, CommitGuard, TypeInv, TypeOK, WorkerRows, AttemptRows, Worker,
     Intent
<1>2. /\ commit.intent = i /\ commit.settled > 0 /\ commit.previous = old
      /\ commit.resulting = commit.previous + commit.settled /\ commit.resulting = paid
      /\ paid \in Nat /\ paid > old /\ status \in SettledStatuses
  BY <1>1 DEF SettledStatuses
<1>3. commits' = commits \cup {commit}
  BY <1>0 DEF SettleCommit
<1>4. /\ intent'[i].paid = paid /\ intent'[i].mode = intent[i].mode
      /\ intent'[i].status = status
      /\ \A j \in Intents : j # i => intent'[j] = intent[j]
  <2>1. intent' = [intent EXCEPT ![i].amount = worker[w].expected,
                                 ![i].status = status, ![i].paid = paid]
    BY <1>0 DEF SettleCommit
  <2> HIDE DEF paid, status
  <2>2. intent \in [Intents -> Intent]
    BY DEF TypeInv, TypeOK
  <2>3. QED
    BY <2>1, <2>2 DEF Intent
<1>5. SimulationIsTest'
  <2>1. \A v \in Workers : worker'[v].pc = "simulate" =>
                              worker'[v] = worker[v] /\ worker[v].intent \in Intents
    BY DEF SettleCommit, Idle, TypeInv, TypeOK, WorkerRows
  <2>2. \A j \in Intents : /\ intent'[j].mode = intent[j].mode
                           /\ intent[j].status # "none" => intent'[j].status # "none"
    BY <1>2, <1>4 DEF SettledStatuses
  <2>3. QED
    BY <2>1, <2>2 DEF LedgerInv, SimulationIsTest
<1> HIDE DEF commit, paid, status, old
<1>6. /\ CommitsOf(i)' = CommitsOf(i) \cup {commit}
      /\ \A j \in Intents : j # i => CommitsOf(j)' = CommitsOf(j)
  BY <1>2, <1>3 DEF CommitsOf
<1>7. OpenHasNoCommit' /\ LiveStartsAtZero'
  BY <1>1, <1>2, <1>4, <1>6 DEF LedgerInv, OpenHasNoCommit, LiveStartsAtZero,
     SettledStatuses
<1>8. LedgerChain'
  <2>1. ASSUME NEW j \in Intents, j # i
        PROVE  /\ CommitsOf(j)' = CommitsOf(j)
               /\ intent'[j] = intent[j]
    BY <1>4, <1>6, <2>1
  <2>2. /\ \A c \in CommitsOf(i) : /\ c.settled > 0
                                   /\ c.resulting = c.previous + c.settled
                                   /\ c.resulting <= old
                                   /\ \/ \E d \in CommitsOf(i) : d.resulting = c.previous
                                      \/ intent[i].mode = "live" => c.previous = 0
        /\ \A c, d \in CommitsOf(i) :
             c # d => c.resulting <= d.previous \/ d.resulting <= c.previous
        /\ CommitsOf(i) # {} => \E c \in CommitsOf(i) : c.resulting = old
        /\ intent[i].mode = "live" /\ CommitsOf(i) = {} => old = 0
        /\ \A c \in CommitsOf(i) : c.resulting \in Nat
    BY <1>1 DEF LedgerInv, LedgerChain, LiveStartsAtZero, old, CommitsOf, TypeInv,
       TypeOK, Commit
  <2>3. \A c \in CommitsOf(i)' :
           /\ c.settled > 0
           /\ c.resulting = c.previous + c.settled
           /\ c.resulting <= intent'[i].paid
           /\ \/ \E d \in CommitsOf(i)' : d.resulting = c.previous
              \/ intent'[i].mode = "live" => c.previous = 0
    <3>1. SUFFICES ASSUME NEW c \in CommitsOf(i) \cup {commit}
                   PROVE  /\ c.settled > 0
                          /\ c.resulting = c.previous + c.settled
                          /\ c.resulting <= paid
                          /\ \/ \E d \in CommitsOf(i) \cup {commit} :
                                   d.resulting = c.previous
                             \/ intent[i].mode = "live" => c.previous = 0
      BY <1>4, <1>6
    <3>2. CASE c \in CommitsOf(i)
      BY <1>1, <1>2, <2>2, <3>2
    <3>3. CASE c = commit
      <4>1. c.settled > 0 /\ c.resulting = c.previous + c.settled /\ c.resulting <= paid
        BY <1>2, <3>3
      <4>2. CASE CommitsOf(i) = {}
        BY <1>2, <2>2, <3>3, <4>1, <4>2
      <4>3. CASE CommitsOf(i) # {}
        BY <1>2, <2>2, <3>3, <4>1, <4>3
      <4>4. QED
        BY <4>2, <4>3
    <3>4. QED
      BY <3>2, <3>3
  <2>4. \A c, d \in CommitsOf(i)' :
           c # d => c.resulting <= d.previous \/ d.resulting <= c.previous
    BY <1>2, <1>6, <2>2
  <2>5. \E c \in CommitsOf(i)' : c.resulting = intent'[i].paid
    BY <1>2, <1>4, <1>6
  <2>6. ASSUME NEW j \in Intents
        PROVE  /\ \A c \in CommitsOf(j)' :
                    /\ c.settled > 0
                    /\ c.resulting = c.previous + c.settled
                    /\ c.resulting <= intent'[j].paid
                    /\ \/ \E d \in CommitsOf(j)' : d.resulting = c.previous
                       \/ intent'[j].mode = "live" => c.previous = 0
               /\ \A c, d \in CommitsOf(j)' :
                    c # d => c.resulting <= d.previous \/ d.resulting <= c.previous
               /\ CommitsOf(j)' # {} =>
                    \E c \in CommitsOf(j)' : c.resulting = intent'[j].paid
    <3>1. CASE j = i
      BY <2>3, <2>4, <2>5, <3>1
    <3>2. CASE j # i
      BY <2>1, <3>2 DEF LedgerInv, LedgerChain
    <3>3. QED
      BY <3>1, <3>2
  <2>7. QED
    BY <2>6 DEF LedgerChain
<1>9. QED
  BY <1>5, <1>7, <1>8 DEF LedgerInv

\* The empty ledger satisfies the ledger invariant.
LEMMA InitLedgerInv == Init => LedgerInv
BY DEF Init, LedgerInv, LedgerChain, OpenHasNoCommit, LiveStartsAtZero,
   SimulationIsTest, CommitsOf, NoIntent, Idle

\* Each kind of step preserves the ledger invariant.
LEMMA StepLedgerInv == TypeInv /\ LedgerInv /\ [Next]_vars => LedgerInv'
<1> SUFFICES ASSUME TypeInv, LedgerInv, [Next]_vars PROVE LedgerInv'
  OBVIOUS
<1>1. CASE CreateSome
  <2>1. PICK i \in Intents, mode \in Modes, amountMode \in AmountModes,
             amount \in Amounts \cup {0} : CreateIntent(i, amountMode, mode, amount)
    BY <1>1 DEF CreateSome
  <2>2. /\ intent'[i].paid = 0 /\ intent'[i].status = "awaiting_payment"
        /\ intent[i].status = "none"
        /\ \A j \in Intents : j # i => intent'[j] = intent[j]
        /\ UNCHANGED <<commits, worker>>
    BY <2>1 DEF CreateIntent, TypeInv, TypeOK
  <2>3. CommitsOf(i) = {} /\ \A j \in Intents : CommitsOf(j)' = CommitsOf(j)
    BY <2>2 DEF LedgerInv, OpenHasNoCommit, CommitsOf
  <2>4. LedgerChain'
    <3>1. \A j \in Intents : j # i => intent[j]' = intent[j]
      BY <2>2
    <3>2. \A j \in Intents : CommitsOf(j)' = CommitsOf(j)
      BY <2>3
    <3>3. QED
      BY <2>3, <3>1, <3>2 DEF LedgerInv, LedgerChain
  <2>5. OpenHasNoCommit' /\ LiveStartsAtZero'
    BY <2>2, <2>3 DEF LedgerInv, OpenHasNoCommit, LiveStartsAtZero
  <2>6. SimulationIsTest'
    BY <2>2 DEF LedgerInv, SimulationIsTest, TypeInv, WorkerRows
  <2>7. QED
    BY <2>4, <2>5, <2>6 DEF LedgerInv
<1>2. CASE \E i \in Intents : CancelPaymentIntent(i)
  <2>1. PICK i \in Intents : CancelPaymentIntent(i)
    BY <1>2
  <2>2. /\ \A j \in Intents :
             /\ intent'[j].paid = intent[j].paid
             /\ intent'[j].mode = intent[j].mode
             /\ intent'[j].status \in {intent[j].status, "canceled"}
        /\ UNCHANGED <<commits, worker>>
    BY <2>1 DEF CancelPaymentIntent, TypeInv, TypeOK, Intent, ledgerVars
  <2>3. LedgerChain' /\ OpenHasNoCommit' /\ LiveStartsAtZero'
    BY <2>2, LedgerKept
  <2>4. SimulationIsTest'
    BY <2>2 DEF LedgerInv, SimulationIsTest, TypeInv, WorkerRows
  <2>5. QED
    BY <2>3, <2>4 DEF LedgerInv
<1>3. CASE \E i \in Intents : ReleaseExpired(i)
  <2>1. PICK i \in Intents : ReleaseExpired(i)
    BY <1>3
  <2>2. /\ \A j \in Intents :
             /\ intent'[j].paid = intent[j].paid
             /\ intent'[j].mode = intent[j].mode
             /\ intent'[j].status = intent[j].status
        /\ UNCHANGED <<commits, worker>>
    BY <2>1 DEF ReleaseExpired, TypeInv, TypeOK, Intent, ledgerVars
  <2>3. LedgerChain' /\ OpenHasNoCommit' /\ LiveStartsAtZero'
    BY <2>2, LedgerKept
  <2>4. SimulationIsTest'
    BY <2>2 DEF LedgerInv, SimulationIsTest, TypeInv, WorkerRows
  <2>5. QED
    BY <2>3, <2>4 DEF LedgerInv
<1>4. CASE \E w \in Workers, i \in Intents : SimulateRead(w, i)
  <2>1. PICK w \in Workers, i \in Intents : SimulateRead(w, i)
    BY <1>4
  <2>2. LedgerChain' /\ OpenHasNoCommit' /\ LiveStartsAtZero'
    BY <2>1, LedgerKept DEF SimulateRead, intentVars, ledgerVars
  <2>3. SimulationIsTest'
    BY <2>1 DEF LedgerInv, SimulationIsTest, SimulateRead, Idle, intentVars, TypeInv,
       TypeOK
  <2>4. QED
    BY <2>2, <2>3 DEF LedgerInv
<1>5. CASE \E w \in Workers : SimulateBatch(w)
  <2>1. PICK w \in Workers : SimulateBatch(w)
    BY <1>5
  <2> DEFINE i == worker[w].intent
  <2>2. /\ i \in Intents /\ intent[i].mode = "test" /\ intent[i].status # "none"
        /\ UNCHANGED commits
    BY <2>1 DEF SimulateBatch, LedgerInv, SimulationIsTest, TypeInv, WorkerRows
  <2>3. /\ \A j \in Intents : j # i => intent'[j] = intent[j]
        /\ intent'[i].mode = "test" /\ intent'[i].status # "none"
        /\ intent[i].status # "awaiting_payment" => intent'[i] = intent[i]
        /\ intent[i].status = "awaiting_payment" => intent'[i].status = "paid"
    BY <2>1, <2>2 DEF SimulateBatch, TypeInv, TypeOK, Intent
  <2>4. \A j \in Intents : CommitsOf(j)' = CommitsOf(j)
    BY <2>2 DEF CommitsOf
  <2>5. intent[i].status = "awaiting_payment" => CommitsOf(i) = {}
    BY <2>2 DEF LedgerInv, OpenHasNoCommit
  <2> HIDE DEF i
  <2>6. LedgerChain'
    <3>1. ASSUME NEW j \in Intents PROVE intent[j]' = intent[j] \/ CommitsOf(j) = {}
      BY <2>2, <2>3, <2>5
    <3>2. QED
      BY <2>4, <3>1 DEF LedgerInv, LedgerChain
  <2>7. OpenHasNoCommit' /\ LiveStartsAtZero'
    BY <2>2, <2>3, <2>4, <2>5 DEF LedgerInv, OpenHasNoCommit, LiveStartsAtZero
  <2>8. SimulationIsTest'
    <3>1. \A v \in Workers : worker'[v].pc = "simulate" =>
                                worker'[v] = worker[v] /\ worker[v].intent \in Intents
      BY <2>1 DEF SimulateBatch, Idle, TypeInv, TypeOK, WorkerRows
    <3>2. QED
      BY <2>2, <2>3, <3>1 DEF LedgerInv, SimulationIsTest
  <2>9. QED
    BY <2>6, <2>7, <2>8 DEF LedgerInv
<1>6. CASE \E w \in Workers : SettleCommit(w)
  BY <1>6, CommitKeepsLedger
<1>7. CASE ReserveSome
  BY <1>7, LedgerUntouched DEF ReserveSome, ReserveAttempt, intentVars, ledgerVars
<1>8. CASE \E a \in Attempts, u \in UserOps : RegisterAppExecution(a, u)
  BY <1>8, LedgerUntouched DEF RegisterAppExecution, intentVars, ledgerVars
<1>9. CASE \E a \in Attempts : RegisterSourceTransaction(a)
  BY <1>9, LedgerUntouched DEF RegisterSourceTransaction, intentVars, ledgerVars
<1>10. CASE \E a \in Attempts : CancelAttempt(a)
  BY <1>10, LedgerUntouched DEF CancelAttempt, intentVars, ledgerVars
<1>11. CASE \E a \in Attempts : RouterPay(a)
  BY <1>11, LedgerUntouched DEF RouterPay, intentVars, ledgerVars
<1>12. CASE \E w \in Workers, a \in Attempts : ScanLog(w, a)
  BY <1>12, LedgerUntouched DEF ScanLog, intentVars, ledgerVars, Idle, Worker, TypeInv, TypeOK
<1>13. CASE \E w \in Workers, a \in Attempts : ReconcileJob(w, a)
  BY <1>13, LedgerUntouched DEF ReconcileJob, intentVars, ledgerVars, Idle, Worker, TypeInv, TypeOK
<1>14. CASE \E w \in Workers : ReconcileRefused(w)
  BY <1>14, LedgerUntouched DEF ReconcileRefused, intentVars, ledgerVars, Idle, Worker, TypeInv, TypeOK
<1>15. CASE \E w \in Workers : ReconcileLocal(w)
  BY <1>15, LedgerUntouched DEF ReconcileLocal, intentVars, ledgerVars, Idle, Worker, TypeInv, TypeOK
<1>16. CASE \E w \in Workers : ReconcileBurn(w)
  BY <1>16, LedgerUntouched DEF ReconcileBurn, intentVars, ledgerVars, Idle, Worker, TypeInv, TypeOK
<1>17. CASE \E a \in Attempts, charged \in 0..MaxCctpFee : CctpMint(a, charged)
  BY <1>17, LedgerUntouched DEF CctpMint, intentVars, ledgerVars
<1>18. CASE \E w \in Workers, a \in Attempts : FinalizeCctp(w, a)
  BY <1>18, LedgerUntouched DEF FinalizeCctp, intentVars, ledgerVars, Idle, Worker, TypeInv, TypeOK
<1>19. CASE \E w \in Workers : RecordFeeEvidence(w)
  BY <1>19, LedgerUntouched DEF RecordFeeEvidence, intentVars, ledgerVars, Idle, Worker, TypeInv, TypeOK
<1>20. CASE \E w \in Workers : SettleRead(w)
  BY <1>20, LedgerUntouched DEF SettleRead, intentVars, ledgerVars, Idle, Worker, TypeInv, TypeOK
<1>21. CASE \E w \in Workers : SettleConflict(w)
  BY <1>21, LedgerUntouched DEF SettleConflict, intentVars, ledgerVars, Idle, Worker, TypeInv, TypeOK
<1>22. CASE \E w \in Workers : Crash(w)
  BY <1>22, LedgerUntouched DEF Crash, intentVars, ledgerVars, Idle, Worker, TypeInv, TypeOK
<1>23. CASE Tick
  BY <1>23, LedgerUntouched DEF Tick, intentVars, ledgerVars
<1>24. CASE UNCHANGED vars
  BY <1>24, LedgerUntouched DEF vars, intentVars, ledgerVars
<1>25. QED
  BY <1>1, <1>2, <1>3, <1>4, <1>5, <1>6, <1>7, <1>8, <1>9, <1>10,
     <1>11, <1>12, <1>13, <1>14, <1>15, <1>16, <1>17, <1>18, <1>19, <1>20,
     <1>21, <1>22, <1>23, <1>24 DEF Next

\* For any number of intents, attempts, chains and workers, crashes included,
\* the settlement commits of an intent form one chain of increments that ends
\* at its paid amount: settleAttempt loses no payment and counts none twice.
THEOREM LedgerCorrect == Spec => []LedgerChain
<1>1. LedgerInv => LedgerChain
  BY DEF LedgerInv
<1>2. TypeInv /\ LedgerInv /\ [Next]_vars => TypeInv' /\ LedgerInv'
  BY StepTypeInv, StepLedgerInv
<1>3. QED
  BY <1>1, <1>2, InitTypeInv, InitLedgerInv, PTL DEF Spec

-----------------------------------------------------------------------------
(* What a step does to the rows.                                           *)

\* What stays of an attempt that was reserved, and of one that is settled; a
\* new attempt is for a payable intent.
TermsStay ==
    \A a \in Attempts :
        /\ attempt[a].status # "none" =>
             /\ attempt'[a].status # "none"
             /\ attempt'[a].intent = attempt[a].intent
             /\ attempt'[a].chain = attempt[a].chain
             /\ attempt'[a].amount = attempt[a].amount
             /\ attempt[a].status \in SettledStatuses =>
                    attempt'[a].status = attempt[a].status
        /\ attempt[a].status = "none" =>
             \/ attempt'[a].status = "none"
             \/ UNCHANGED intent /\ PayableBy(attempt'[a].intent, attempt'[a].amount)

\* An update of one reserved attempt that changes none of its terms.
LEMMA OneRow ==
    ASSUME TypeInv, NEW a \in Attempts, attempt[a].status # "none",
           NEW status \in AttemptStatuses \ {"none"},
           attempt[a].status \in SettledStatuses => status = attempt[a].status,
           NEW sourceTx \in BOOLEAN, NEW userOp,
           attempt' = [attempt EXCEPT ![a] = [attempt[a] EXCEPT
                          !.status = status, !.sourceTx = sourceTx, !.userOp = userOp]]
    PROVE  TermsStay
<1>1. attempt[a] \in Attempt /\ attempt \in [Attempts -> Attempt]
  BY DEF TypeInv, TypeOK
<1>2. \A b \in Attempts : b # a => attempt'[b] = attempt[b]
  BY <1>1
<1>3. /\ attempt'[a].status = status
      /\ attempt'[a].intent = attempt[a].intent /\ attempt'[a].chain = attempt[a].chain
      /\ attempt'[a].amount = attempt[a].amount
  BY <1>1 DEF Attempt
<1>4. QED
  BY <1>2, <1>3 DEF TermsStay

\* No handler rewrites the terms of an attempt or reopens a settled one.
LEMMA TermsStayStep == TypeInv /\ [Next]_vars => TermsStay
<1> SUFFICES ASSUME TypeInv, [Next]_vars PROVE TermsStay
  OBVIOUS
<1>0. attempt \in [Attempts -> Attempt]
  BY DEF TypeInv, TypeOK
<1>1. CASE UNCHANGED attempt
  BY <1>1 DEF TermsStay
<1>2. CASE \E i \in Intents : ReleaseExpired(i)
  <2>1. PICK i \in Intents :
            attempt' = [a \in Attempts |-> IF a \in Overdue(i)
                                             THEN [attempt[a] EXCEPT !.status = "expired"]
                                             ELSE attempt[a]]
    BY <1>2 DEF ReleaseExpired
  <2>2. \A a \in Attempts :
            a \in Overdue(i) => attempt[a].status \notin SettledStatuses \cup {"none"}
    BY DEF Overdue, SettledStatuses
  <2>3. QED
    BY <1>0, <2>1, <2>2 DEF TermsStay, Attempt
<1>3. CASE ReserveSome
  <2>1. PICK a \in Attempts, i \in Intents, c \in Chains, amount \in Amounts,
             kind \in Kinds : ReserveAttempt(a, i, c, kind, amount)
    BY <1>3 DEF ReserveSome
  <2>2. /\ attempt[a].status = "none" /\ PayableBy(i, amount) /\ UNCHANGED intent
        /\ attempt'[a].intent = i /\ attempt'[a].amount = amount
        /\ \A b \in Attempts : b # a => attempt'[b] = attempt[b]
    BY <1>0, <2>1 DEF ReserveAttempt, intentVars
  <2>3. QED
    BY <2>2 DEF TermsStay
<1>4. CASE \E a \in Attempts, u \in UserOps : RegisterAppExecution(a, u)
  <2>1. PICK a \in Attempts, u \in UserOps : RegisterAppExecution(a, u)
    BY <1>4
  <2>2. attempt[a] \in Attempt /\ attempt[a].status # "none"
    BY <1>0, <2>1 DEF RegisterAppExecution, ActiveStatuses
  <2> DEFINE status == IF attempt[a].status = "reserved" THEN "submitted"
                                                        ELSE attempt[a].status
  <2>3. /\ status \in AttemptStatuses \ {"none"} /\ attempt[a].sourceTx \in BOOLEAN
        /\ attempt[a].status \in SettledStatuses => status = attempt[a].status
    BY <2>2 DEF Attempt, AttemptStatuses, ActiveStatuses, SettledStatuses
  <2>4. attempt' = [attempt EXCEPT ![a] = [attempt[a] EXCEPT
            !.status = status, !.sourceTx = attempt[a].sourceTx, !.userOp = u]]
    BY <1>0, <2>1, <2>2 DEF RegisterAppExecution, Attempt
  <2>5. QED
    BY <2>2, <2>3, <2>4, OneRow
<1>5. CASE \E a \in Attempts : RegisterSourceTransaction(a)
  <2>1. PICK a \in Attempts : RegisterSourceTransaction(a)
    BY <1>5
  <2>2. attempt[a] \in Attempt /\ attempt[a].status # "none"
    BY <1>0, <2>1 DEF RegisterSourceTransaction, ActiveStatuses, SettledStatuses
  <2> DEFINE status == IF attempt[a].status = "reserved" THEN "submitted"
                                                        ELSE attempt[a].status
  <2>3. /\ status \in AttemptStatuses \ {"none"}
        /\ attempt[a].status \in SettledStatuses => status = attempt[a].status
    BY <2>2 DEF Attempt, AttemptStatuses, ActiveStatuses, SettledStatuses
  <2>4. attempt' = [attempt EXCEPT ![a] = [attempt[a] EXCEPT
            !.status = status, !.sourceTx = TRUE, !.userOp = attempt[a].userOp]]
    BY <1>0, <2>1, <2>2 DEF RegisterSourceTransaction, Attempt
  <2>5. QED
    BY <2>2, <2>3, <2>4, OneRow
<1>6. CASE \E a \in Attempts : CancelAttempt(a)
  <2>1. PICK a \in Attempts : CancelAttempt(a)
    BY <1>6
  <2>2. attempt[a] \in Attempt /\ attempt[a].status = "reserved"
    BY <1>0, <2>1 DEF CancelAttempt
  <2>3. attempt' = [attempt EXCEPT ![a] = [attempt[a] EXCEPT !.status = "canceled",
            !.sourceTx = attempt[a].sourceTx, !.userOp = attempt[a].userOp]]
    BY <1>0, <2>1, <2>2 DEF CancelAttempt, Attempt
  <2>4. QED
    BY <2>2, <2>3, OneRow DEF AttemptStatuses, SettledStatuses, Attempt
<1>7. CASE \E w \in Workers, a \in Attempts : ScanLog(w, a)
  <2>1. PICK w \in Workers, a \in Attempts : ScanLog(w, a)
    BY <1>7
  <2>2. attempt[a] \in Attempt /\ attempt[a].status # "none"
    BY <1>0, <2>1 DEF ScanLog, TypeInv, EvidenceRows
  <2> DEFINE status == IF attempt[a].status \in {"reserved", "submitted"}
                         THEN "processing" ELSE attempt[a].status
  <2>3. /\ status \in AttemptStatuses \ {"none"}
        /\ attempt[a].status \in SettledStatuses => status = attempt[a].status
    BY <2>2 DEF Attempt, AttemptStatuses, ActiveStatuses, SettledStatuses
  <2>4. attempt' = [attempt EXCEPT ![a] = [attempt[a] EXCEPT
            !.status = status, !.sourceTx = TRUE, !.userOp = attempt[a].userOp]]
    BY <1>0, <2>1, <2>2 DEF ScanLog, Attempt
  <2>5. QED
    BY <2>2, <2>3, <2>4, OneRow
<1>8. CASE \E w \in Workers : ReconcileBurn(w)
  <2>1. PICK w \in Workers : ReconcileBurn(w)
    BY <1>8
  <2> DEFINE a == worker[w].attempt
             status == IF attempt[a].status \in {"reserved", "submitted"}
                         THEN "processing" ELSE attempt[a].status
  <2>2. a \in Attempts /\ attempt[a] \in Attempt /\ attempt[a].status # "none"
    BY <1>0, <2>1 DEF ReconcileBurn, Reconcilable, TypeInv, WorkerRows
  <2>3. /\ status \in AttemptStatuses \ {"none"}
        /\ attempt[a].status \in SettledStatuses => status = attempt[a].status
    BY <2>2 DEF Attempt, AttemptStatuses, ActiveStatuses, SettledStatuses
  <2>4. attempt' = [attempt EXCEPT ![a] = [attempt[a] EXCEPT
            !.status = status, !.sourceTx = TRUE, !.userOp = attempt[a].userOp]]
    BY <1>0, <2>1, <2>2 DEF ReconcileBurn, Attempt
  <2> HIDE DEF a, status
  <2>5. QED
    BY <2>2, <2>3, <2>4, OneRow
<1>9. CASE \E w \in Workers : SettleCommit(w)
  <2>1. PICK w \in Workers : SettleCommit(w)
    BY <1>9
  <2> DEFINE a == worker[w].attempt
             status == IF worker[w].previous + worker[w].settled > worker[w].expected
                         THEN "overpaid" ELSE "paid"
  <2>2. /\ a \in Attempts /\ attempt[a] \in Attempt
        /\ attempt[a].status \in ActiveStatuses
    BY <1>0, <2>1 DEF SettleCommit, CommitGuard, TypeInv, WorkerRows
  <2>3. status \in AttemptStatuses \ {"none"} /\ attempt[a].status \notin SettledStatuses
    BY <2>2 DEF AttemptStatuses, ActiveStatuses, SettledStatuses
  <2>4. attempt' = [attempt EXCEPT ![a].status = status, ![a].sourceTx = TRUE]
    BY <2>1 DEF SettleCommit
  <2> HIDE DEF a, status
  <2>5. attempt' = [attempt EXCEPT ![a] = [attempt[a] EXCEPT
            !.status = status, !.sourceTx = TRUE, !.userOp = attempt[a].userOp]]
    BY <1>0, <2>2, <2>4 DEF Attempt
  <2>6. QED
    BY <2>2, <2>3, <2>5, OneRow DEF ActiveStatuses
<1>10. QED
  BY <1>1, <1>2, <1>3, <1>4, <1>5, <1>6, <1>7, <1>8, <1>9 DEF Next, CreateSome,
     CreateIntent, CancelPaymentIntent, SimulateRead, SimulateBatch, RouterPay,
     ReconcileJob, ReconcileRefused, ReconcileLocal, CctpMint, FinalizeCctp,
     RecordFeeEvidence, SettleRead, SettleConflict, Crash, Tick, vars

\* A fee line that has its actual amount keeps it.
FeesStay == \A a \in Attempts : fee[a] = FeeLines => fee'[a] = FeeLines

\* Fee evidence is added to, never taken back.
LEMMA FeesStayStep == TypeInv /\ [Next]_vars => FeesStay
<1> SUFFICES ASSUME TypeInv, [Next]_vars PROVE FeesStay
  OBVIOUS
<1>0. fee \in [Attempts -> SUBSET FeeLines]
  BY DEF TypeInv, TypeOK
<1>1. CASE UNCHANGED fee
  BY <1>1 DEF FeesStay
<1>2. CASE \E w \in Workers : ReconcileBurn(w)
  BY <1>0, <1>2 DEF ReconcileBurn, FeesStay, FeeLines
<1>3. CASE \E a \in Attempts, charged \in 0..MaxCctpFee : CctpMint(a, charged)
  BY <1>0, <1>3 DEF CctpMint, FeesStay
<1>4. CASE \E w \in Workers : RecordFeeEvidence(w)
  BY <1>0, <1>4 DEF RecordFeeEvidence, FeesStay
<1>5. QED
  BY ZenonT(60), <1>1, <1>2, <1>3, <1>4 DEF Next, CreateSome, CreateIntent, CancelPaymentIntent,
     ReleaseExpired, SimulateRead, SimulateBatch, ReserveSome, ReserveAttempt,
     RegisterAppExecution, RegisterSourceTransaction, CancelAttempt, RouterPay, ScanLog,
     ReconcileJob, ReconcileRefused, ReconcileLocal, FinalizeCctp, SettleRead,
     SettleCommit, SettleConflict, Crash, Tick, vars

\* What the batch of settleAttempt writes, and what it rests on: execution w
\* settles attempt a of intent i, which has then received paid.
Commits(w, a, i, paid, expected, status) ==
    /\ a = worker[w].attempt /\ i = attempt[a].intent
    /\ paid = worker[w].previous + worker[w].settled
    /\ expected = worker[w].expected
    /\ status = IF paid > expected THEN "overpaid" ELSE "paid"
    /\ attempt[a].status \in ActiveStatuses
    /\ ~\E c \in commits : c.attempt = a
    /\ worker[w].pc = "commit" /\ worker[w].previous = intent[i].paid
    /\ worker[w].settled \in Nat /\ worker[w].settled > 0
    /\ intent[i].paid \in Nat /\ paid > intent[i].paid
    /\ commits' = commits \cup
           {[attempt |-> a, intent |-> i, previous |-> worker[w].previous,
             settled |-> worker[w].settled, resulting |-> paid,
             expected |-> expected, status |-> status]}
    /\ events' = WithEvent([kind |-> "settlement", intent |-> i, attempt |-> a,
             type |-> IF status = "overpaid" THEN "payment.overpaid"
                                             ELSE "payment.paid",
             paid |-> paid])
    /\ attempt'[a].status = status
    /\ attempt'[a].intent = i /\ attempt'[a].chain = attempt[a].chain
    /\ attempt'[a].amount = attempt[a].amount
    /\ \A b \in Attempts : b # a => attempt'[b] = attempt[b]
    /\ intent'[i].amount = expected /\ intent'[i].status = status
    /\ intent'[i].paid = paid /\ intent'[i].mode = intent[i].mode
    /\ intent'[i].amountMode = intent[i].amountMode
    /\ \A j \in Intents : j # i => intent'[j] = intent[j]
    /\ link'[i].status = "paid"
    /\ link'[i].amount = IF link[i].amount = 0 THEN expected ELSE link[i].amount
    /\ \A j \in Intents : j # i => link'[j] = link[j]
    /\ worker'[w] = Idle
    /\ \A v \in Workers : v # w => worker'[v] = worker[v]
    /\ UNCHANGED <<fee, burns, minted, paidIntent, logs>>

\* Every batch that settles does so.
LEMMA CommitFacts ==
    ASSUME TypeInv, NEW w \in Workers, SettleCommit(w)
    PROVE  \E a \in Attempts, i \in Intents, paid \in Nat, expected \in Nat,
              status \in SettledStatuses : Commits(w, a, i, paid, expected, status)
<1>0. PICK a, i, paid, expected, status :
          /\ a = worker[w].attempt /\ i = attempt[a].intent
          /\ paid = worker[w].previous + worker[w].settled
          /\ expected = worker[w].expected
          /\ status = IF paid > expected THEN "overpaid" ELSE "paid"
  OBVIOUS
<1>1. /\ a \in Attempts /\ attempt[a].status # "none" /\ attempt[a] \in Attempt
      /\ worker[w] \in Worker /\ worker[w].settled > 0 /\ worker[w].pc = "commit"
  BY <1>0 DEF SettleCommit, TypeInv, TypeOK, WorkerRows
<1>2. /\ i \in Intents /\ intent[i] \in Intent /\ link[i] \in Link
  BY <1>0, <1>1 DEF TypeInv, TypeOK, AttemptRows
<1>3. /\ worker[w].previous \in Nat /\ worker[w].settled \in Nat /\ paid \in Nat
      /\ expected \in Nat /\ intent[i].paid \in Nat /\ status \in SettledStatuses
  BY <1>0, <1>1, <1>2 DEF Worker, Intent, SettledStatuses
<1>4. /\ intent[i].paid = worker[w].previous /\ attempt[a].status \in ActiveStatuses
      /\ ~\E c \in commits : c.attempt = a
  BY <1>0 DEF SettleCommit, CommitGuard
<1>5. paid > intent[i].paid
  BY <1>0, <1>1, <1>3, <1>4
<1>6. /\ commits' = commits \cup
             {[attempt |-> a, intent |-> i, previous |-> worker[w].previous,
               settled |-> worker[w].settled, resulting |-> paid,
               expected |-> expected, status |-> status]}
      /\ events' = WithEvent([kind |-> "settlement", intent |-> i, attempt |-> a,
               type |-> IF status = "overpaid" THEN "payment.overpaid"
                                               ELSE "payment.paid",
               paid |-> paid])
      /\ attempt' = [attempt EXCEPT ![a].status = status, ![a].sourceTx = TRUE]
      /\ intent' = [intent EXCEPT ![i].amount = expected, ![i].status = status,
                                  ![i].paid = paid]
      /\ link' = [link EXCEPT ![i].amount = IF @ = 0 THEN expected ELSE @,
                              ![i].status = "paid"]
      /\ worker' = [worker EXCEPT ![w] = Idle]
      /\ UNCHANGED <<fee, burns, minted, paidIntent, logs>>
  BY <1>0 DEF SettleCommit, relayVars, chainVars
<1>7. /\ attempt \in [Attempts -> Attempt] /\ intent \in [Intents -> Intent]
      /\ link \in [Intents -> Link] /\ worker \in [Workers -> Worker]
  BY DEF TypeInv, TypeOK
<1>8. /\ attempt'[a].status = status
      /\ attempt'[a].intent = attempt[a].intent /\ attempt'[a].chain = attempt[a].chain
      /\ attempt'[a].amount = attempt[a].amount
      /\ \A b \in Attempts : b # a => attempt'[b] = attempt[b]
  BY <1>1, <1>6, <1>7 DEF Attempt
<1>9. /\ intent'[i].amount = expected /\ intent'[i].status = status
      /\ intent'[i].paid = paid /\ intent'[i].mode = intent[i].mode
      /\ intent'[i].amountMode = intent[i].amountMode
      /\ \A j \in Intents : j # i => intent'[j] = intent[j]
  BY <1>2, <1>6, <1>7 DEF Intent
<1>10. /\ link'[i].status = "paid"
       /\ link'[i].amount = IF link[i].amount = 0 THEN expected ELSE link[i].amount
       /\ \A j \in Intents : j # i => link'[j] = link[j]
  BY <1>2, <1>6, <1>7 DEF Link
<1>11. /\ worker'[w] = Idle
       /\ \A v \in Workers : v # w => worker'[v] = worker[v]
  BY <1>6, <1>7
<1>12. Commits(w, a, i, paid, expected, status)
  BY <1>0, <1>1, <1>3, <1>4, <1>5, <1>6, <1>8, <1>9, <1>10, <1>11 DEF Commits
<1>13. QED
  BY <1>1, <1>2, <1>3, <1>12

-----------------------------------------------------------------------------
(* Evidence.                                                               *)

\* A router remembers what it was paid for: its logs are of different intents.
RouterMemory ==
    /\ \A a \in logs : <<attempt[a].chain, attempt[a].intent>> \in paidIntent
    /\ \A a, b \in logs : a # b => \/ attempt[a].chain # attempt[b].chain
                                    \/ attempt[a].intent # attempt[b].intent

\* Only payments of a router are relayed, and a mint pays the signed amount.
MintEvidence ==
    /\ burns \subseteq logs
    /\ \A a \in Attempts : minted[a] > 0 => /\ a \in burns
                                            /\ minted[a] >= attempt[a].amount

\* What an execution on its way to the batch has seen.
Seen(w) ==
    /\ worker[w].pc \in {"fee", "read", "commit"} =>
         /\ worker[w].attempt \in logs
         /\ worker[w].settled >= attempt[worker[w].attempt].amount
    /\ worker[w].pc \in {"read", "commit"} => fee[worker[w].attempt] = FeeLines

\* No execution runs ahead of its evidence.
WorkersSaw == \A w \in Workers : Seen(w)

\* One commit per attempt, with its evidence.
CommitsRest ==
    /\ \A c \in commits :
         /\ c.attempt \in logs
         /\ c.intent = attempt[c.attempt].intent
         /\ c.settled >= attempt[c.attempt].amount
         /\ fee[c.attempt] = FeeLines
         /\ attempt[c.attempt].status = c.status
    /\ \A c, d \in commits : c.attempt = d.attempt => c = d

\* The inductive strengthening of SettlementHasEvidence.
EvidenceInv == RouterMemory /\ MintEvidence /\ WorkersSaw /\ CommitsRest

\* An empty database owes no evidence.
LEMMA InitEvidenceInv == Init => EvidenceInv
BY DEF Init, EvidenceInv, RouterMemory, MintEvidence, WorkersSaw, Seen, CommitsRest, Idle

\* _validateAuthorization lets no second attempt of an intent pass one router.
LEMMA RouterMemoryStep == TypeInv /\ RouterMemory /\ [Next]_vars => RouterMemory'
<1> SUFFICES ASSUME TypeInv, RouterMemory, [Next]_vars PROVE RouterMemory'
  OBVIOUS
<1>1. /\ logs \subseteq Attempts /\ TermsStay
      /\ \A a \in logs : attempt[a].status # "none"
  BY TermsStayStep DEF TypeInv, TypeOK, EvidenceRows
<1>2. \A a \in logs : /\ attempt'[a].chain = attempt[a].chain
                       /\ attempt'[a].intent = attempt[a].intent
  BY <1>1 DEF TermsStay
<1>3. CASE UNCHANGED <<logs, paidIntent>>
  BY <1>2, <1>3 DEF RouterMemory
<1>4. CASE \E a \in Attempts : RouterPay(a)
  <2>1. PICK a \in Attempts : RouterPay(a)
    BY <1>4
  <2>2. /\ logs' = logs \cup {a} /\ UNCHANGED attempt
        /\ paidIntent' = paidIntent \cup {<<attempt[a].chain, attempt[a].intent>>}
        /\ <<attempt[a].chain, attempt[a].intent>> \notin paidIntent
    BY <2>1 DEF RouterPay, RouterAccepts
  <2>3. QED
    BY <2>2 DEF RouterMemory
<1>5. QED
  BY ZenonT(60), <1>3, <1>4 DEF Next, CreateSome, CreateIntent, CancelPaymentIntent,
     ReleaseExpired, SimulateRead, SimulateBatch, ReserveSome, ReserveAttempt,
     RegisterAppExecution, RegisterSourceTransaction, CancelAttempt, ScanLog,
     ReconcileJob, ReconcileRefused, ReconcileLocal, ReconcileBurn, CctpMint,
     FinalizeCctp, RecordFeeEvidence, SettleRead, SettleCommit, SettleConflict, Crash,
     Tick, vars, chainVars

\* Logs are never lost.
LEMMA LogsGrow == [Next]_vars => logs \subseteq logs'
BY ZenonT(60) DEF Next, CreateSome, CreateIntent, CancelPaymentIntent,
   ReleaseExpired, SimulateRead, SimulateBatch, ReserveSome, ReserveAttempt, RouterPay,
   RegisterAppExecution, RegisterSourceTransaction, CancelAttempt, ScanLog,
   ReconcileJob, ReconcileRefused, ReconcileLocal, ReconcileBurn, CctpMint,
   FinalizeCctp, RecordFeeEvidence, SettleRead, SettleCommit, SettleConflict, Crash,
   Tick, vars, chainVars

\* The relay mints what was burned, less a fee within the quoted ceiling.
LEMMA MintEvidenceStep == TypeInv /\ MintEvidence /\ [Next]_vars => MintEvidence'
<1> SUFFICES ASSUME TypeInv, MintEvidence, [Next]_vars PROVE MintEvidence'
  OBVIOUS
<1>1. TermsStay /\ logs \subseteq logs' /\ minted \in [Attempts -> Nat]
  BY TermsStayStep, LogsGrow DEF TypeInv, TypeOK
<1>2. \A a \in Attempts : minted[a] > 0 => attempt'[a].amount = attempt[a].amount
  BY <1>1 DEF TermsStay, TypeInv, EvidenceRows
<1>3. CASE UNCHANGED <<burns, minted>>
  BY <1>1, <1>2, <1>3 DEF MintEvidence
<1>4. CASE \E w \in Workers : ReconcileBurn(w)
  BY <1>1, <1>2, <1>4 DEF MintEvidence, ReconcileBurn, Reconcilable, EvidenceValid
<1>5. CASE \E a \in Attempts, charged \in 0..MaxCctpFee : CctpMint(a, charged)
  <2>1. PICK a \in Attempts, charged \in 0..MaxCctpFee : CctpMint(a, charged)
    BY <1>5
  <2>2. /\ a \in burns /\ UNCHANGED <<attempt, burns>>
        /\ minted' = [minted EXCEPT ![a] = attempt[a].amount + MaxCctpFee - charged]
    BY <2>1 DEF CctpMint
  <2>3. attempt[a].amount + MaxCctpFee - charged >= attempt[a].amount
    BY ConstantsAssumption DEF TypeInv, TypeOK, Attempt
  <2>4. QED
    BY <1>1, <2>2, <2>3 DEF MintEvidence
<1>6. QED
  BY ZenonT(60), <1>3, <1>4, <1>5 DEF Next, CreateSome, CreateIntent, CancelPaymentIntent,
     ReleaseExpired, SimulateRead, SimulateBatch, ReserveSome, ReserveAttempt, RouterPay,
     RegisterAppExecution, RegisterSourceTransaction, CancelAttempt, ScanLog,
     ReconcileJob, ReconcileRefused, ReconcileLocal,
     FinalizeCctp, RecordFeeEvidence, SettleRead, SettleCommit, SettleConflict, Crash,
     Tick, vars, relayVars

\* An execution that stays where it was, or starts over, has seen enough.
LEMMA SeenKept ==
    ASSUME TypeInv, WorkersSaw, TermsStay, FeesStay, logs \subseteq logs',
           NEW w \in Workers,
           worker'[w] = worker[w] \/ worker'[w].pc \notin {"fee", "read", "commit"}
    PROVE  Seen(w)'
<1>1. CASE worker'[w].pc \notin {"fee", "read", "commit"}
  BY <1>1 DEF Seen
<1>2. CASE worker'[w] = worker[w] /\ worker[w].pc \in {"fee", "read", "commit"}
  <2>1. worker[w].attempt \in Attempts /\ attempt[worker[w].attempt].status # "none"
    BY <1>2 DEF TypeInv, WorkerRows
  <2>2. QED
    BY <1>2, <2>1 DEF WorkersSaw, Seen, TermsStay, FeesStay
<1>3. QED
  BY <1>1, <1>2

\* Reconciliation checks the log, finalization the mint, before either settles.
LEMMA WorkersSawStep ==
    TypeInv /\ MintEvidence /\ WorkersSaw /\ [Next]_vars => WorkersSaw'
<1> SUFFICES ASSUME TypeInv, MintEvidence, WorkersSaw, [Next]_vars,
                    NEW w \in Workers
             PROVE  Seen(w)'
  BY DEF WorkersSaw
<1>1. TermsStay /\ FeesStay /\ logs \subseteq logs'
  BY TermsStayStep, FeesStayStep, LogsGrow
<1>2. /\ worker \in [Workers -> Worker] /\ fee \in [Attempts -> SUBSET FeeLines]
      /\ attempt \in [Attempts -> Attempt]
  BY DEF TypeInv, TypeOK
<1>3. CASE worker'[w] = worker[w] \/ worker'[w].pc \notin {"fee", "read", "commit"}
  BY <1>1, <1>3, SeenKept
<1>4. CASE ReconcileLocal(w)
  <2> DEFINE a == worker[w].attempt
  <2>1. /\ a \in logs /\ attempt[a].amount \in Nat /\ UNCHANGED <<attempt, logs>>
        /\ worker' = [worker EXCEPT ![w].pc = "fee", ![w].settled = attempt[a].amount]
    BY <1>2, <1>4 DEF ReconcileLocal, Reconcilable, EvidenceValid, chainVars, TypeInv,
       TypeOK, Attempt
  <2>2. worker'[w].pc = "fee" /\ worker'[w].attempt = a
        /\ worker'[w].settled = attempt[a].amount
    BY <1>2, <2>1 DEF Worker
  <2>3. QED
    BY <2>1, <2>2 DEF Seen
<1>5. CASE \E a \in Attempts : FinalizeCctp(w, a)
  <2>1. PICK a \in Attempts : FinalizeCctp(w, a)
    BY <1>5
  <2>2. /\ worker'[w].pc = "fee" /\ worker'[w].attempt = a
        /\ worker'[w].settled = minted[a] /\ minted[a] > 0
        /\ UNCHANGED <<attempt, logs>>
    BY <1>2, <2>1 DEF FinalizeCctp, chainVars, Idle
  <2>3. QED
    BY <2>2 DEF Seen, MintEvidence
<1>6. CASE RecordFeeEvidence(w)
  <2>1. worker[w].attempt \in logs /\ worker[w].pc = "fee"
    BY <1>6 DEF RecordFeeEvidence, WorkersSaw, Seen
  <2>2. /\ worker'[w].attempt = worker[w].attempt /\ worker'[w].pc = "read"
        /\ worker'[w].settled = worker[w].settled
        /\ fee'[worker[w].attempt] = FeeLines
        /\ UNCHANGED <<attempt, logs>>
    BY <1>2, <1>6, <2>1 DEF RecordFeeEvidence, chainVars, Worker, TypeInv, TypeOK
  <2>3. QED
    BY <2>1, <2>2 DEF Seen, WorkersSaw
<1>7. CASE SettleRead(w) \/ SettleConflict(w)
  <2>1. /\ worker[w].pc \in {"read", "commit"} /\ UNCHANGED <<attempt, logs, fee>>
        /\ worker'[w].pc \in {"read", "commit", "idle"}
        /\ worker'[w].pc # "idle" => /\ worker'[w].attempt = worker[w].attempt
                                     /\ worker'[w].settled = worker[w].settled
    <3>1. CASE SettleRead(w)
      <4> DEFINE next == [worker[w] EXCEPT !.pc = "commit",
                              !.previous = intent[attempt[worker[w].attempt].intent].paid,
                              !.expected = ExpectedAmount(worker[w].attempt)]
      <4>1. worker'[w] = Idle \/ worker'[w] = next
        BY <1>2, <3>1 DEF SettleRead
      <4>2. /\ next.pc = "commit" /\ next.attempt = worker[w].attempt
            /\ next.settled = worker[w].settled
        BY <1>2 DEF Worker
      <4> HIDE DEF next
      <4>3. QED
        BY <3>1, <4>1, <4>2 DEF SettleRead, chainVars, Idle
    <3>2. CASE SettleConflict(w)
      <4> DEFINE next == [worker[w] EXCEPT !.pc = "read",
                                           !.retry = worker[w].retry + 1]
      <4>1. worker'[w] = Idle \/ worker'[w] = next
        BY <1>2, <3>2 DEF SettleConflict
      <4>2. /\ next.pc = "read" /\ next.attempt = worker[w].attempt
            /\ next.settled = worker[w].settled
        BY <1>2 DEF Worker
      <4> HIDE DEF next
      <4>3. QED
        BY <3>2, <4>1, <4>2 DEF SettleConflict, chainVars, Idle
    <3>3. QED
      BY <1>7, <3>1, <3>2
  <2>2. QED
    BY <2>1 DEF Seen, WorkersSaw
<1>8. CASE \E v \in Workers : \/ SimulateBatch(v) \/ ReconcileRefused(v)
                              \/ ReconcileBurn(v) \/ SettleCommit(v) \/ Crash(v)
  <2>1. PICK v \in Workers : worker' = [worker EXCEPT ![v] = Idle]
    BY ZenonT(60), <1>8 DEF SimulateBatch, ReconcileRefused, ReconcileBurn, SettleCommit, Crash
  <2>2. QED
    BY <1>2, <1>3, <2>1 DEF Idle
<1>9. ASSUME NEW v \in Workers, NEW pc \in {"simulate", "reconcile"},
             NEW row, row.pc = pc, worker' = [worker EXCEPT ![v] = row]
      PROVE  Seen(w)'
  BY <1>2, <1>3, <1>9
<1>10. CASE \E v \in Workers, i \in Intents : SimulateRead(v, i)
  <2>1. PICK v \in Workers, i \in Intents :
            worker' = [worker EXCEPT ![v] = [Idle EXCEPT !.pc = "simulate",
                                              !.intent = i,
                                              !.expected = intent[i].amount]]
    BY <1>10 DEF SimulateRead
  <2> DEFINE row == [Idle EXCEPT !.pc = "simulate", !.intent = i,
                                 !.expected = intent[i].amount]
  <2>2. row.pc = "simulate"
    BY DEF Idle
  <2> HIDE DEF row
  <2>3. worker' = [worker EXCEPT ![v] = row]
    BY <2>1 DEF row
  <2>4. QED
    BY <1>9, <2>2, <2>3
<1>11. CASE \E v \in Workers, a \in Attempts : ScanLog(v, a) \/ ReconcileJob(v, a)
  <2>1. PICK v \in Workers, a \in Attempts :
            worker' = [worker EXCEPT ![v] = [Idle EXCEPT !.pc = "reconcile",
                                                         !.attempt = a]]
    BY <1>11 DEF ScanLog, ReconcileJob
  <2> DEFINE row == [Idle EXCEPT !.pc = "reconcile", !.attempt = a]
  <2>2. row.pc = "reconcile"
    BY DEF Idle
  <2> HIDE DEF row
  <2>3. worker' = [worker EXCEPT ![v] = row]
    BY <2>1 DEF row
  <2>4. QED
    BY <1>9, <2>2, <2>3
<1>12. CASE \E v \in Workers \ {w} :
               \/ ReconcileLocal(v) \/ RecordFeeEvidence(v) \/ SettleRead(v)
               \/ SettleConflict(v) \/ \E a \in Attempts : FinalizeCctp(v, a)
  BY <1>2, <1>3, <1>12 DEF ReconcileLocal, RecordFeeEvidence, SettleRead,
     SettleConflict, FinalizeCctp
<1>13. CASE UNCHANGED worker
  BY <1>3, <1>13
<1>14. QED
  BY <1>4, <1>5, <1>6, <1>7, <1>8, <1>10, <1>11, <1>12, <1>13 DEF Next, CreateSome,
     CreateIntent, CancelPaymentIntent, ReleaseExpired, ReserveSome, ReserveAttempt,
     RegisterAppExecution, RegisterSourceTransaction, CancelAttempt, RouterPay,
     CctpMint, Tick, vars

\* The batch settles an attempt once, and only with what its execution has seen.
LEMMA CommitsRestStep ==
    TypeInv /\ WorkersSaw /\ CommitsRest /\ [Next]_vars => CommitsRest'
<1> SUFFICES ASSUME TypeInv, WorkersSaw, CommitsRest, [Next]_vars PROVE CommitsRest'
  OBVIOUS
<1>1. TermsStay /\ FeesStay /\ logs \subseteq logs'
  BY TermsStayStep, FeesStayStep, LogsGrow
<1>2. \A c \in commits :
         /\ c.attempt \in logs'
         /\ c.intent = attempt'[c.attempt].intent
         /\ c.settled >= attempt'[c.attempt].amount
         /\ fee'[c.attempt] = FeeLines
         /\ attempt'[c.attempt].status = c.status
  <2>1. SUFFICES ASSUME NEW c \in commits
                 PROVE  /\ c.attempt \in logs'
                        /\ c.intent = attempt'[c.attempt].intent
                        /\ c.settled >= attempt'[c.attempt].amount
                        /\ fee'[c.attempt] = FeeLines
                        /\ attempt'[c.attempt].status = c.status
    OBVIOUS
  <2>2. /\ c.attempt \in Attempts /\ c.status \in SettledStatuses
        /\ attempt[c.attempt].status = c.status
    BY DEF TypeInv, TypeOK, Commit, CommitsRest
  <2>3. attempt[c.attempt].status # "none"
    BY <2>2 DEF SettledStatuses
  <2>4. QED
    BY <1>1, <2>2, <2>3 DEF CommitsRest, TermsStay, FeesStay
<1>3. CASE UNCHANGED commits
  BY <1>2, <1>3 DEF CommitsRest
<1>4. CASE \E w \in Workers : SettleCommit(w)
  <2>1. PICK w \in Workers : SettleCommit(w)
    BY <1>4
  <2>2. PICK a \in Attempts, i \in Intents, paid \in Nat, expected \in Nat,
             status \in SettledStatuses : Commits(w, a, i, paid, expected, status)
    BY <2>1, CommitFacts
  <2> DEFINE commit == [attempt |-> a, intent |-> i, previous |-> worker[w].previous,
                        settled |-> worker[w].settled, resulting |-> paid,
                        expected |-> expected, status |-> status]
  <2>3. /\ a \in Attempts /\ worker[w].pc = "commit" /\ ~\E c \in commits : c.attempt = a
        /\ commits' = commits \cup {commit} /\ attempt'[a].status = status
        /\ attempt'[a].intent = i /\ attempt'[a].amount = attempt[a].amount
        /\ UNCHANGED <<fee, logs>>
    BY <2>2 DEF Commits
  <2>4. a \in logs /\ worker[w].settled >= attempt[a].amount /\ fee[a] = FeeLines
    BY ZenonT(60), <2>2, <2>3 DEF WorkersSaw, Seen, Commits
  <2>5. /\ commit.attempt = a /\ commit.intent = i /\ commit.settled = worker[w].settled
        /\ commit.status = status
    OBVIOUS
  <2> HIDE DEF commit
  <2>6. QED
    BY <1>2, <2>3, <2>4, <2>5 DEF CommitsRest
<1>5. QED
  BY ZenonT(60), <1>3, <1>4 DEF Next, CreateSome, CreateIntent, CancelPaymentIntent,
     ReleaseExpired, SimulateRead, SimulateBatch, ReserveSome, ReserveAttempt, RouterPay,
     RegisterAppExecution, RegisterSourceTransaction, CancelAttempt, ScanLog,
     ReconcileJob, ReconcileRefused, ReconcileLocal, ReconcileBurn, CctpMint,
     FinalizeCctp, RecordFeeEvidence, SettleRead, SettleConflict, Crash,
     Tick, vars, ledgerVars

\* Each kind of step preserves the evidence.
LEMMA StepEvidenceInv == TypeInv /\ EvidenceInv /\ [Next]_vars => EvidenceInv'
BY RouterMemoryStep, MintEvidenceStep, WorkersSawStep, CommitsRestStep DEF EvidenceInv

\* The evidence invariant gives the property: commits of one intent come from
\* different attempts, hence from different logs, hence from different routers.
LEMMA EvidenceInvImplies == EvidenceInv => SettlementHasEvidence
<1> SUFFICES ASSUME EvidenceInv PROVE SettlementHasEvidence
  OBVIOUS
<1>1. ASSUME NEW c \in commits, NEW d \in commits, c # d, c.intent = d.intent
      PROVE  attempt[c.attempt].chain # attempt[d.attempt].chain
  <2>1. /\ c.attempt \in logs /\ d.attempt \in logs /\ c.attempt # d.attempt
        /\ attempt[c.attempt].intent = attempt[d.attempt].intent
    BY <1>1 DEF EvidenceInv, CommitsRest
  <2>2. QED
    BY <2>1 DEF EvidenceInv, RouterMemory
<1>2. QED
  BY <1>1 DEF EvidenceInv, CommitsRest, SettlementHasEvidence

\* For any number of attempts, chains and workers, under duplicate scans, lost
\* compare-and-set rounds and crashes: no settlement without a log on its chain,
\* the whole amount and both fee lines, and at most one per intent and chain.
THEOREM EvidenceCorrect == Spec => []SettlementHasEvidence
<1>1. TypeInv /\ EvidenceInv /\ [Next]_vars => TypeInv' /\ EvidenceInv'
  BY StepTypeInv, StepEvidenceInv
<1>2. QED
  BY <1>1, InitTypeInv, InitEvidenceInv, EvidenceInvImplies, PTL DEF Spec
-----------------------------------------------------------------------------
(* Money: what a step does to one intent and its link.                     *)

\* The other intents and links are left alone.
OthersStay(i) == \A j \in Intents : j # i => intent'[j] = intent[j] /\ link'[j] = link[j]

\* createIntentAndLink.
Opened(i) ==
    /\ intent[i].status = "none" /\ intent'[i].status = "awaiting_payment"
    /\ intent'[i].paid = 0 /\ intent'[i].amount \in Nat
    /\ intent'[i].amountMode = "payer_defined" => intent'[i].amount = 0
    /\ link'[i].status = "pending" /\ link'[i].amount = intent'[i].amount
    /\ UNCHANGED <<attempt, worker>>

\* An intent whose terms and money a step leaves alone.
SameMoney(i) ==
    /\ intent'[i].paid = intent[i].paid
    /\ intent'[i].mode = intent[i].mode /\ intent'[i].amountMode = intent[i].amountMode

\* cancelPaymentIntent.
Canceled(i) ==
    /\ intent[i].status = "awaiting_payment" /\ intent'[i].status = "canceled"
    /\ SameMoney(i) /\ intent'[i].amount = intent[i].amount
    /\ link'[i].status = "canceled" /\ link'[i].amount = link[i].amount
    /\ UNCHANGED <<attempt, worker>>

\* releaseExpiredPayerDefinedAmount: perhaps the amount goes back to zero.
Released(i) ==
    /\ intent'[i].status = intent[i].status /\ SameMoney(i)
    /\ \/ intent'[i].amount = intent[i].amount
       \/ /\ intent[i].amountMode = "payer_defined"
          /\ intent[i].status = "awaiting_payment" /\ intent'[i].amount = 0
    /\ link'[i].status = link[i].status
    /\ link'[i].amount = IF intent[i].amountMode = "payer_defined" /\ intent'[i].amount = 0
                           THEN 0 ELSE link[i].amount
    /\ UNCHANGED worker

\* simulatePaymentIntent, when the intent was still open.
Simulated(i) ==
    /\ \E w \in Workers : /\ worker[w].pc = "simulate" /\ worker[w].intent = i
                          /\ worker' = [worker EXCEPT ![w] = Idle]
    /\ intent[i].status = "awaiting_payment" /\ intent'[i].status = "paid"
    /\ intent'[i].paid = intent[i].amount /\ intent'[i].amount = intent[i].amount
    /\ intent'[i].mode = intent[i].mode /\ intent'[i].amountMode = intent[i].amountMode
    /\ link'[i].status = "paid" /\ link'[i].amount = link[i].amount
    /\ UNCHANGED attempt

\* Link and intent agree: LinkAgreesWithIntent, one status at a time.
LinkFollows ==
    \A i \in Intents :
        /\ link[i].amount = intent[i].amount
        /\ intent[i].status = "none" => link[i].status = "none"
        /\ intent[i].status = "awaiting_payment" => link[i].status = "pending"
        /\ intent[i].status = "canceled" => link[i].status = "canceled"
        /\ intent[i].status \in SettledStatuses => link[i].status = "paid"

\* Every step does one of these things to at most one intent.
LEMMA IntentSteps ==
    ASSUME TypeInv, LinkFollows, [Next]_vars
    PROVE  \/ UNCHANGED <<intent, link>>
           \/ \E i \in Intents :
                OthersStay(i) /\ (Opened(i) \/ Canceled(i) \/ Released(i) \/ Simulated(i))
           \/ \E w \in Workers : SettleCommit(w)
<1>0. intent \in [Intents -> Intent] /\ link \in [Intents -> Link]
  BY DEF TypeInv, TypeOK
<1>1. CASE CreateSome
  <2>1. PICK i \in Intents, mode \in Modes, amountMode \in AmountModes,
             amount \in Amounts \cup {0} : /\ amount = 0 <=> amountMode = "payer_defined"
                                           /\ CreateIntent(i, amountMode, mode, amount)
    BY <1>1 DEF CreateSome
  <2>2. amount \in Nat
    BY ConstantsAssumption
  <2>3. OthersStay(i) /\ Opened(i)
    BY <1>0, <2>1, <2>2 DEF CreateIntent, OthersStay, Opened
  <2>4. QED
    BY <2>3
<1>2. CASE \E i \in Intents : CancelPaymentIntent(i)
  <2>1. PICK i \in Intents : CancelPaymentIntent(i)
    BY <1>2
  <2>2. OthersStay(i) /\ Canceled(i)
    BY <1>0, <2>1 DEF CancelPaymentIntent, Cancelable, OthersStay, Canceled, SameMoney,
       Intent, Link
  <2>3. QED
    BY <2>2
<1>3. CASE \E i \in Intents : ReleaseExpired(i)
  <2>1. PICK i \in Intents : ReleaseExpired(i)
    BY <1>3
  <2>2. PICK amount \in {0, intent[i].amount} :
            /\ intent' = [intent EXCEPT ![i].amount = amount]
            /\ link' = IF intent[i].amountMode = "payer_defined" /\ amount = 0
                         THEN [link EXCEPT ![i].amount = 0] ELSE link
            /\ \/ amount = intent[i].amount
               \/ /\ intent[i].amountMode = "payer_defined"
                  /\ intent[i].status = "awaiting_payment" /\ amount = 0
            /\ UNCHANGED worker
    BY <2>1 DEF ReleaseExpired, AmountReleased
  <2>3. /\ OthersStay(i) /\ SameMoney(i) /\ intent'[i].status = intent[i].status
        /\ intent'[i].amount = amount
    BY <1>0, <2>2 DEF OthersStay, SameMoney, Intent
  <2>4. /\ link'[i].status = link[i].status
        /\ link'[i].amount = IF intent[i].amountMode = "payer_defined" /\ amount = 0
                               THEN 0 ELSE link[i].amount
    BY <1>0, <2>2 DEF Link
  <2>5. OthersStay(i) /\ Released(i)
    BY <2>2, <2>3, <2>4 DEF Released
  <2>6. QED
    BY <2>5
<1>4. CASE \E w \in Workers : SimulateBatch(w)
  <2>1. PICK w \in Workers : SimulateBatch(w)
    BY <1>4
  <2>2. PICK i \in Intents : i = worker[w].intent
    BY <2>1 DEF SimulateBatch, TypeInv, WorkerRows
  <2>3. CASE intent[i].status = "awaiting_payment"
    <3>1. link[i].status = "pending"
      BY <2>3 DEF LinkFollows
    <3>2. /\ intent' = [intent EXCEPT ![i].status = "paid", ![i].paid = intent[i].amount]
          /\ link' = [link EXCEPT ![i].status = "paid"]
          /\ worker[w].pc = "simulate" /\ worker' = [worker EXCEPT ![w] = Idle]
          /\ UNCHANGED attempt
      BY <2>1, <2>2, <2>3, <3>1 DEF SimulateBatch, LinkOpen
    <3>3. OthersStay(i) /\ Simulated(i)
      BY ZenonT(60), <1>0, <2>2, <2>3, <3>2 DEF OthersStay, Simulated, Intent, Link
    <3>4. QED
      BY <3>3
  <2>4. CASE intent[i].status # "awaiting_payment"
    <3>1. link[i].status # "pending"
      BY <1>0, <2>4 DEF LinkFollows, Intent, IntentStatuses, SettledStatuses
    <3>2. QED
      BY <2>1, <2>2, <2>4, <3>1 DEF SimulateBatch, LinkOpen
  <2>5. QED
    BY <2>3, <2>4
<1>5. CASE UNCHANGED <<intent, link>>
  BY <1>5
<1>6. QED
  BY ZenonT(60), <1>1, <1>2, <1>3, <1>4, <1>5 DEF Next, SimulateRead, ReserveSome, ReserveAttempt,
     RouterPay, RegisterAppExecution, RegisterSourceTransaction, CancelAttempt, ScanLog,
     ReconcileJob, ReconcileRefused, ReconcileLocal, ReconcileBurn, CctpMint,
     FinalizeCctp, RecordFeeEvidence, SettleRead, SettleConflict, Crash,
     Tick, vars, intentVars

-----------------------------------------------------------------------------
(* Money: the invariant.                                                   *)

\* Attempts are of intents that exist, and of a fixed intent for its amount.
PayableRows ==
    \A a \in Attempts :
        attempt[a].status # "none" =>
            /\ intent[attempt[a].intent].status # "none"
            /\ intent[attempt[a].intent].amountMode = "fixed" =>
                   attempt[a].amount = intent[attempt[a].intent].amount

\* A payer-defined intent has no amount until its first payment.
OpenAmount ==
    \A i \in Intents :
        intent[i].amountMode = "payer_defined" /\ intent[i].paid = 0
            => intent[i].amount = 0

\* StatusMatchesPaid, one status at a time.
MoneyAgrees ==
    \A i \in Intents :
        /\ intent[i].status = "paid" => intent[i].paid = intent[i].amount
        /\ intent[i].status = "overpaid" => intent[i].paid > intent[i].amount
        /\ intent[i].status \in {"none", "awaiting_payment", "canceled"} =>
               intent[i].paid = 0

\* What an execution read is still true of intent i where the compare-and-set
\* can succeed, or the intent has no amount yet.
ReadHolds(w, i) ==
    /\ worker[w].previous <= intent[i].paid
    /\ worker[w].expected <= worker[w].previous + worker[w].settled
    /\ intent[i].paid = worker[w].previous =>
         \/ worker[w].expected = intent[i].amount
         \/ /\ intent[i].amountMode = "payer_defined"
            /\ intent[i].amount = 0 /\ intent[i].paid = 0

\* Executions that are about to write know the money of their intent.
ReadsHold ==
    \A w \in Workers :
        worker[w].pc = "commit" => ReadHolds(w, attempt[worker[w].attempt].intent)

\* The inductive strengthening of StatusMatchesPaid and LinkAgreesWithIntent.
MoneyInv == PayableRows /\ OpenAmount /\ MoneyAgrees /\ LinkFollows /\ ReadsHold

\* Nothing is owed before the first intent.
LEMMA InitMoneyInv == Init => MoneyInv
BY DEF Init, MoneyInv, PayableRows, OpenAmount, MoneyAgrees, LinkFollows, ReadsHold,
   NoIntent, NoAttempt, Idle, SettledStatuses

\* Attempts stay with intents that exist, and fixed amounts stay fixed.
LEMMA PayableRowsStep == TypeInv /\ MoneyInv /\ [Next]_vars => PayableRows'
<1> SUFFICES ASSUME TypeInv, MoneyInv, [Next]_vars,
                    NEW a \in Attempts, attempt'[a].status # "none"
             PROVE  /\ intent'[attempt'[a].intent].status # "none"
                    /\ intent'[attempt'[a].intent].amountMode = "fixed" =>
                           attempt'[a].amount = intent'[attempt'[a].intent].amount
  BY DEF PayableRows
<1>1. TermsStay
  BY TermsStayStep
<1>2. CASE attempt[a].status = "none"
  <2>1. UNCHANGED intent /\ PayableBy(attempt'[a].intent, attempt'[a].amount)
    BY <1>1, <1>2 DEF TermsStay
  <2>2. QED
    BY <2>1 DEF PayableBy
<1>3. CASE attempt[a].status # "none"
  <2>1. PICK i \in Intents :
            /\ i = attempt[a].intent /\ i = attempt'[a].intent
            /\ attempt'[a].amount = attempt[a].amount
            /\ intent[i].status # "none"
            /\ intent[i].amountMode = "fixed" => attempt[a].amount = intent[i].amount
    BY <1>1, <1>3 DEF TermsStay, TypeInv, AttemptRows, MoneyInv, PayableRows
  <2>2. CASE intent'[i] = intent[i]
    BY <2>1, <2>2
  <2>3. CASE \E j \in Intents :
               OthersStay(j) /\ (Opened(j) \/ Canceled(j) \/ Released(j) \/ Simulated(j))
    BY <2>1, <2>3 DEF OthersStay, Opened, Canceled, Released, Simulated, SameMoney
  <2>4. CASE \E w \in Workers : SettleCommit(w)
    <3>1. PICK w \in Workers : SettleCommit(w)
      BY <2>4
    <3>2. PICK b \in Attempts, j \in Intents, paid \in Nat, expected \in Nat,
               status \in SettledStatuses : Commits(w, b, j, paid, expected, status)
      BY <3>1, CommitFacts
    <3>3. CASE i = j
      <4>1. ReadHolds(w, j)
        BY <3>2 DEF MoneyInv, ReadsHold, Commits
      <4>2. intent[j].amountMode = "fixed" => expected = intent[j].amount
        BY <3>2, <4>1 DEF ReadHolds, Commits
      <4>3. /\ intent'[j].status = status /\ intent'[j].amount = expected
            /\ intent'[j].amountMode = intent[j].amountMode /\ status # "none"
        BY <3>2 DEF Commits, SettledStatuses
      <4>4. QED
        BY <2>1, <3>3, <4>2, <4>3
    <3>4. CASE i # j
      <4>1. intent'[i] = intent[i]
        BY <3>2, <3>4 DEF Commits
      <4>2. QED
        BY <2>2, <4>1
    <3>5. QED
      BY <3>3, <3>4
  <2>5. QED
    BY <2>2, <2>3, <2>4, IntentSteps DEF MoneyInv
<1>4. QED
  BY <1>2, <1>3

\* The first commit gives a payer-defined intent its amount.
LEMMA OpenAmountStep == TypeInv /\ MoneyInv /\ [Next]_vars => OpenAmount'
<1> SUFFICES ASSUME TypeInv, MoneyInv, [Next]_vars PROVE OpenAmount'
  OBVIOUS
<1>1. CASE UNCHANGED <<intent, link>>
  BY <1>1 DEF MoneyInv, OpenAmount
<1>2. CASE \E i \in Intents :
             OthersStay(i) /\ (Opened(i) \/ Canceled(i) \/ Released(i) \/ Simulated(i))
  BY <1>2 DEF MoneyInv, OpenAmount, MoneyAgrees, OthersStay, Opened, Canceled, Released,
     Simulated, SameMoney
<1>3. CASE \E w \in Workers : SettleCommit(w)
  <2>1. PICK w \in Workers, a \in Attempts, i \in Intents, paid \in Nat,
             expected \in Nat, status \in SettledStatuses :
                 Commits(w, a, i, paid, expected, status)
    BY <1>3, CommitFacts
  <2>2. /\ intent'[i].paid = paid /\ intent[i].paid \in Nat /\ paid > intent[i].paid
        /\ \A j \in Intents : j # i => intent'[j] = intent[j]
    BY <2>1 DEF Commits
  <2>3. paid # 0
    BY <2>2
  <2>4. QED
    BY <2>2, <2>3 DEF MoneyInv, OpenAmount
<1>4. QED
  BY <1>1, <1>2, <1>3, IntentSteps DEF MoneyInv

\* The batch writes a status that fits the money it writes.
LEMMA MoneyAgreesStep == TypeInv /\ MoneyInv /\ [Next]_vars => MoneyAgrees'
<1> SUFFICES ASSUME TypeInv, MoneyInv, [Next]_vars PROVE MoneyAgrees'
  OBVIOUS
<1>0. \A i \in Intents : intent[i] \in Intent
  BY DEF TypeInv, TypeOK
<1>1. CASE UNCHANGED <<intent, link>>
  BY <1>1 DEF MoneyInv, MoneyAgrees
<1>2. CASE \E i \in Intents :
             OthersStay(i) /\ (Opened(i) \/ Canceled(i) \/ Released(i) \/ Simulated(i))
  <2>1. PICK i \in Intents :
            OthersStay(i) /\ (Opened(i) \/ Canceled(i) \/ Released(i) \/ Simulated(i))
    BY <1>2
  <2>2. ASSUME NEW j \in Intents, j # i PROVE intent'[j] = intent[j]
    BY <2>1, <2>2 DEF OthersStay
  <2>3. CASE Opened(i)
    BY <2>2, <2>3 DEF MoneyInv, MoneyAgrees, Opened
  <2>4. CASE Canceled(i)
    BY <2>2, <2>4 DEF MoneyInv, MoneyAgrees, Canceled, SameMoney
  <2>5. CASE Released(i)
    BY <2>2, <2>5 DEF MoneyInv, MoneyAgrees, Released, SameMoney
  <2>6. CASE Simulated(i)
    BY <2>2, <2>6 DEF MoneyInv, MoneyAgrees, Simulated
  <2>7. QED
    BY <2>1, <2>3, <2>4, <2>5, <2>6
<1>3. CASE \E w \in Workers : SettleCommit(w)
  <2>1. PICK w \in Workers, a \in Attempts, i \in Intents, paid \in Nat,
             expected \in Nat, status \in SettledStatuses :
                 Commits(w, a, i, paid, expected, status)
    BY <1>3, CommitFacts
  <2>2. /\ intent'[i].paid = paid /\ intent'[i].amount = expected
        /\ intent'[i].status = status
        /\ status = IF paid > expected THEN "overpaid" ELSE "paid"
        /\ \A j \in Intents : j # i => intent'[j] = intent[j]
    BY <2>1 DEF Commits
  <2>3. expected <= paid
    BY <2>1 DEF Commits, MoneyInv, ReadsHold, ReadHolds
  <2>4. QED
    BY <2>2, <2>3 DEF MoneyInv, MoneyAgrees
<1>4. QED
  BY <1>1, <1>2, <1>3, IntentSteps DEF MoneyInv

\* Cancel, simulate, release and settle update link and intent alike.
LEMMA LinkFollowsStep == TypeInv /\ MoneyInv /\ [Next]_vars => LinkFollows'
<1> SUFFICES ASSUME TypeInv, MoneyInv, [Next]_vars PROVE LinkFollows'
  OBVIOUS
<1>1. CASE UNCHANGED <<intent, link>>
  BY <1>1 DEF MoneyInv, LinkFollows
<1>2. CASE \E i \in Intents :
             OthersStay(i) /\ (Opened(i) \/ Canceled(i) \/ Released(i) \/ Simulated(i))
  <2>1. PICK i \in Intents :
            OthersStay(i) /\ (Opened(i) \/ Canceled(i) \/ Released(i) \/ Simulated(i))
    BY <1>2
  <2>2. ASSUME NEW j \in Intents, j # i
        PROVE  intent'[j] = intent[j] /\ link'[j] = link[j]
    BY <2>1, <2>2 DEF OthersStay
  <2>3. CASE Opened(i)
    BY <2>2, <2>3 DEF MoneyInv, LinkFollows, Opened, SettledStatuses
  <2>4. CASE Canceled(i)
    BY <2>2, <2>4 DEF MoneyInv, LinkFollows, Canceled, SettledStatuses
  <2>5. CASE Released(i)
    <3>1. link'[i].amount = intent'[i].amount
      BY <2>5 DEF MoneyInv, LinkFollows, Released
    <3>2. QED
      BY <2>2, <2>5, <3>1 DEF MoneyInv, LinkFollows, Released
  <2>6. CASE Simulated(i)
    BY <2>2, <2>6 DEF MoneyInv, LinkFollows, Simulated, SettledStatuses
  <2>7. QED
    BY <2>1, <2>3, <2>4, <2>5, <2>6
<1>3. CASE \E w \in Workers : SettleCommit(w)
  <2>1. PICK w \in Workers, a \in Attempts, i \in Intents, paid \in Nat,
             expected \in Nat, status \in SettledStatuses :
                 Commits(w, a, i, paid, expected, status)
    BY <1>3, CommitFacts
  <2>2. expected = intent[i].amount \/ intent[i].amount = 0
    BY ZenonT(60), <2>1 DEF Commits, MoneyInv, ReadsHold, ReadHolds
  <2>3. /\ link'[i].status = "paid" /\ intent'[i].status = status
        /\ intent'[i].amount = expected
        /\ link'[i].amount = IF link[i].amount = 0 THEN expected ELSE link[i].amount
        /\ \A j \in Intents : j # i => intent'[j] = intent[j] /\ link'[j] = link[j]
    BY <2>1 DEF Commits
  <2>4. link'[i].amount = intent'[i].amount
    BY <2>2, <2>3 DEF MoneyInv, LinkFollows
  <2>5. QED
    BY <2>3, <2>4 DEF MoneyInv, LinkFollows, SettledStatuses
<1>4. QED
  BY <1>1, <1>2, <1>3, IntentSteps DEF MoneyInv

\* What an execution has read stays true until it loses the compare-and-set:
\* every write to the money of its intent raises the paid amount.
LEMMA ReadsHoldStep ==
    TypeInv /\ WorkersSaw /\ MoneyInv /\ [Next]_vars => ReadsHold'
<1> SUFFICES ASSUME TypeInv, WorkersSaw, MoneyInv, [Next]_vars,
                    NEW w \in Workers, worker'[w].pc = "commit"
             PROVE  ReadHolds(w, attempt[worker[w].attempt].intent)'
  BY DEF ReadsHold
<1>0. /\ worker \in [Workers -> Worker] /\ intent \in [Intents -> Intent] /\ TermsStay
      /\ attempt \in [Attempts -> Attempt]
  BY TermsStayStep DEF TypeInv, TypeOK
<1>1. ASSUME worker'[w] = worker[w]
      PROVE  ReadHolds(w, attempt[worker[w].attempt].intent)'
  <2>1. /\ worker[w].pc = "commit" /\ worker[w].attempt \in Attempts
        /\ attempt[worker[w].attempt].status # "none"
    BY <1>1 DEF TypeInv, WorkerRows
  <2>2. PICK i \in Intents : /\ i = attempt[worker[w].attempt].intent
                             /\ i = attempt'[worker'[w].attempt].intent
                             /\ ReadHolds(w, i) /\ intent[i].status # "none"
    BY <1>0, <1>1, <2>1 DEF TypeInv, AttemptRows, TermsStay, MoneyInv, ReadsHold,
       PayableRows
  <2>3. /\ worker[w].previous \in Nat /\ worker[w].settled \in Nat
        /\ worker[w].expected \in Nat /\ intent[i].paid \in Nat
        /\ intent[i].amount \in Nat
    BY <1>0 DEF Worker, Intent
  <2>4. CASE intent'[i] = intent[i]
    BY <1>1, <2>2, <2>4 DEF ReadHolds
  <2>5. CASE \E j \in Intents :
               OthersStay(j) /\ (Opened(j) \/ Canceled(j) \/ Released(j) \/ Simulated(j))
    <3>1. PICK j \in Intents :
              OthersStay(j) /\ (Opened(j) \/ Canceled(j) \/ Released(j) \/ Simulated(j))
      BY <2>5
    <3>2. CASE j # i
      BY <2>4, <3>1, <3>2 DEF OthersStay
    <3>3. CASE j = i /\ Opened(i)
      BY <2>2, <3>3 DEF Opened
    <3>4. CASE j = i /\ Canceled(i)
      BY <1>1, <2>2, <3>4 DEF Canceled, SameMoney, ReadHolds
    <3>5. CASE j = i /\ Released(i)
      <4>1. intent[i].status = "awaiting_payment" => intent[i].paid = 0
        BY DEF MoneyInv, MoneyAgrees
      <4>2. QED
        BY <1>1, <2>2, <3>5, <4>1 DEF Released, SameMoney, ReadHolds
    <3>6. CASE j = i /\ Simulated(i)
      <4>1. intent[i].paid = 0
        BY <3>6 DEF MoneyInv, MoneyAgrees, Simulated
      <4>2. intent'[i].paid = intent[i].amount /\ intent'[i].amount = intent[i].amount
            /\ intent'[i].amountMode = intent[i].amountMode
        BY <3>6 DEF Simulated
      <4>3. QED
        BY <1>1, <2>2, <2>3, <4>1, <4>2 DEF ReadHolds
    <3>7. QED
      BY <3>1, <3>2, <3>3, <3>4, <3>5, <3>6
  <2>6. CASE \E v \in Workers : SettleCommit(v)
    <3>1. PICK v \in Workers, a \in Attempts, j \in Intents, paid \in Nat,
               expected \in Nat, status \in SettledStatuses :
                   Commits(v, a, j, paid, expected, status)
      BY <2>6, CommitFacts
    <3>2. CASE j # i
      BY <2>4, <3>1, <3>2 DEF Commits
    <3>3. CASE j = i
      <4>1. intent'[i].paid > intent[i].paid /\ intent'[i].paid \in Nat
        BY <3>1, <3>3 DEF Commits
      <4>2. QED
        BY <1>1, <2>2, <2>3, <4>1 DEF ReadHolds
    <3>4. QED
      BY <3>2, <3>3
  <2>7. QED
    BY <2>4, <2>5, <2>6, IntentSteps DEF MoneyInv
<1>2. CASE SettleRead(w)
  <2>1. /\ worker[w].pc = "read" /\ UNCHANGED <<attempt, intent>>
        /\ worker[w] \in Worker
    BY <1>0, <1>2 DEF SettleRead, intentVars
  <2>2. PICK a \in Attempts, i \in Intents :
            /\ a = worker[w].attempt /\ i = attempt[a].intent
            /\ attempt[a].status # "none" /\ worker[w].settled >= attempt[a].amount
    BY <1>0, <2>1 DEF TypeInv, WorkerRows, AttemptRows, WorkersSaw, Seen
  <2>3. PICK expected : expected = ExpectedAmount(a)
    OBVIOUS
  <2> DEFINE next == [worker[w] EXCEPT !.pc = "commit", !.previous = intent[i].paid,
                                       !.expected = expected]
  <2>4. worker'[w] \in {next, Idle}
    BY <1>0, <1>2, <2>2, <2>3 DEF SettleRead
  <2>5. /\ next.attempt = a /\ next.settled = worker[w].settled
        /\ next.previous = intent[i].paid /\ next.expected = expected
    BY <2>1, <2>2 DEF Worker
  <2> HIDE DEF next
  <2>6. worker'[w] = next
    <3>1. Idle.pc # "commit"
      BY DEF Idle
    <3>2. QED
      BY <2>4, <3>1
  <2>7. /\ attempt[a].amount \in Nat /\ worker[w].settled \in Nat
        /\ intent[i].paid \in Nat /\ intent[i].amount \in Nat
        /\ intent[i].amountMode \in {"fixed", "payer_defined"}
        /\ intent[i].status \in IntentStatuses \ {"none"}
        /\ intent[i].amountMode = "fixed" => attempt[a].amount = intent[i].amount
    BY <1>0, <2>1, <2>2 DEF Attempt, Worker, Intent, MoneyInv, PayableRows
  <2>8. /\ intent[i].amountMode = "payer_defined" /\ intent[i].paid = 0
            => intent[i].amount = 0
        /\ intent[i].status = "paid" => intent[i].paid = intent[i].amount
        /\ intent[i].status = "overpaid" => intent[i].paid > intent[i].amount
        /\ intent[i].status \in {"awaiting_payment", "canceled"} => intent[i].paid = 0
    BY DEF MoneyInv, MoneyAgrees, OpenAmount
  <2>9. expected = IF intent[i].amountMode = "payer_defined" /\ intent[i].paid = 0
                     THEN attempt[a].amount ELSE intent[i].amount
    BY <2>2, <2>3 DEF ExpectedAmount
  <2>10. expected <= intent[i].paid + worker[w].settled
    <3>1. CASE intent[i].amountMode = "payer_defined" /\ intent[i].paid = 0
      BY <2>2, <2>7, <2>9, <3>1
    <3>2. CASE intent[i].paid # 0
      BY <2>7, <2>8, <2>9, <3>2 DEF IntentStatuses
    <3>3. CASE intent[i].amountMode = "fixed"
      BY <2>2, <2>7, <2>9, <3>3
    <3>4. QED
      BY <2>7, <3>1, <3>2, <3>3
  <2>11. /\ worker'[w].settled = worker[w].settled
         /\ worker'[w].previous = intent[i].paid /\ worker'[w].expected = expected
         /\ attempt'[worker'[w].attempt].intent = i /\ intent'[i] = intent[i]
    BY <2>1, <2>2, <2>5, <2>6
  <2>12. ReadHolds(w, i)'
    BY <2>7, <2>8, <2>9, <2>10, <2>11 DEF ReadHolds
  <2>13. QED
    BY <2>11, <2>12
<1>3. CASE \E v \in Workers \ {w} :
              \/ SettleRead(v) \/ SettleConflict(v) \/ ReconcileLocal(v)
              \/ RecordFeeEvidence(v) \/ \E a \in Attempts : FinalizeCctp(v, a)
  BY <1>0, <1>1, <1>3 DEF SettleRead, SettleConflict, ReconcileLocal, RecordFeeEvidence,
     FinalizeCctp
<1>4. CASE ReconcileLocal(w) \/ RecordFeeEvidence(w) \/ \E a \in Attempts : FinalizeCctp(w, a)
  <2>1. worker'[w].pc \in {"fee", "read"}
    BY ZenonT(60), <1>0, <1>4 DEF ReconcileLocal, RecordFeeEvidence, FinalizeCctp, Worker, Idle
  <2>2. QED
    BY <2>1
<1>5. CASE SettleConflict(w)
  <2> DEFINE next == [worker[w] EXCEPT !.pc = "read", !.retry = worker[w].retry + 1]
  <2>1. worker'[w] = Idle \/ worker'[w] = next
    BY <1>0, <1>5 DEF SettleConflict
  <2>2. next.pc = "read"
    BY <1>0 DEF Worker
  <2> HIDE DEF next
  <2>3. QED
    BY <2>1, <2>2 DEF Idle
<1>6. ASSUME NEW v \in Workers, NEW row, row.pc # "commit",
             worker' = [worker EXCEPT ![v] = row]
      PROVE  ReadHolds(w, attempt[worker[w].attempt].intent)'
  BY <1>0, <1>1, <1>6
<1>7. CASE \E v \in Workers : \/ SimulateBatch(v) \/ ReconcileRefused(v)
                              \/ ReconcileBurn(v) \/ SettleCommit(v) \/ Crash(v)
  <2>1. PICK v \in Workers : worker' = [worker EXCEPT ![v] = Idle]
    BY ZenonT(60), <1>7 DEF SimulateBatch, ReconcileRefused, ReconcileBurn, SettleCommit, Crash
  <2>2. Idle.pc # "commit"
    BY DEF Idle
  <2>3. QED
    BY <1>6, <2>1, <2>2
<1>8. CASE \E v \in Workers, i \in Intents : SimulateRead(v, i)
  <2>1. PICK v \in Workers, i \in Intents :
            worker' = [worker EXCEPT ![v] = [Idle EXCEPT !.pc = "simulate",
                                              !.intent = i,
                                              !.expected = intent[i].amount]]
    BY <1>8 DEF SimulateRead
  <2> DEFINE row == [Idle EXCEPT !.pc = "simulate", !.intent = i,
                                 !.expected = intent[i].amount]
  <2>2. row.pc # "commit"
    BY DEF Idle
  <2> HIDE DEF row
  <2>3. worker' = [worker EXCEPT ![v] = row]
    BY <2>1 DEF row
  <2>4. QED
    BY <1>6, <2>2, <2>3
<1>9. CASE \E v \in Workers, a \in Attempts : ScanLog(v, a) \/ ReconcileJob(v, a)
  <2>1. PICK v \in Workers, a \in Attempts :
            worker' = [worker EXCEPT ![v] = [Idle EXCEPT !.pc = "reconcile",
                                                         !.attempt = a]]
    BY <1>9 DEF ScanLog, ReconcileJob
  <2> DEFINE row == [Idle EXCEPT !.pc = "reconcile", !.attempt = a]
  <2>2. row.pc # "commit"
    BY DEF Idle
  <2> HIDE DEF row
  <2>3. worker' = [worker EXCEPT ![v] = row]
    BY <2>1 DEF row
  <2>4. QED
    BY <1>6, <2>2, <2>3
<1>10. CASE UNCHANGED worker
  BY <1>1, <1>10
<1>11. QED
  BY <1>2, <1>3, <1>4, <1>5, <1>7, <1>8, <1>9, <1>10 DEF Next, CreateSome, CreateIntent,
     CancelPaymentIntent, ReleaseExpired, ReserveSome, ReserveAttempt,
     RegisterAppExecution, RegisterSourceTransaction, CancelAttempt, RouterPay,
     CctpMint, Tick, vars

\* Each kind of step preserves the money invariant.
LEMMA StepMoneyInv == TypeInv /\ EvidenceInv /\ MoneyInv /\ [Next]_vars => MoneyInv'
BY PayableRowsStep, OpenAmountStep, MoneyAgreesStep, LinkFollowsStep, ReadsHoldStep
   DEF MoneyInv, EvidenceInv

\* The money invariant gives the property the run checks of the link.
LEMMA LinkFollowsImplies == TypeInv /\ LinkFollows => LinkAgreesWithIntent
BY DEF TypeInv, TypeOK, Intent, IntentStatuses, SettledStatuses, LinkFollows,
   LinkAgreesWithIntent

\* The invariant that all the theorems about settlements rest on.
SettlementInv == TypeInv /\ LedgerInv /\ EvidenceInv /\ MoneyInv

\* It holds of the empty database, and every step preserves it.
LEMMA SettlementInvHolds ==
    (Init => SettlementInv) /\ (SettlementInv /\ [Next]_vars => SettlementInv')
BY InitTypeInv, InitLedgerInv, InitEvidenceInv, InitMoneyInv, StepTypeInv, StepLedgerInv,
   StepEvidenceInv, StepMoneyInv DEF SettlementInv

\* The payer's link and the merchant's intent agree on status and amount in
\* every reachable state, although cancel, simulate, release and settle write
\* the two tables under conditions of their own.
THEOREM LinkCorrect == Spec => []LinkAgreesWithIntent
<1>1. SettlementInv => LinkAgreesWithIntent
  BY LinkFollowsImplies DEF SettlementInv, MoneyInv
<1>2. QED
  BY <1>1, SettlementInvHolds, PTL DEF Spec

\* The status an intent shows agrees with its money in every reachable state,
\* although settleAttempt computes it from rows it read before its batch.
THEOREM StatusCorrect == Spec => []StatusMatchesPaid
<1>1. TypeInv /\ MoneyAgrees => StatusMatchesPaid
  BY DEF TypeInv, TypeOK, Intent, IntentStatuses, MoneyAgrees, StatusMatchesPaid
<1>2. SettlementInv => StatusMatchesPaid
  BY <1>1 DEF SettlementInv, MoneyInv
<1>3. QED
  BY <1>2, SettlementInvHolds, PTL DEF Spec

-----------------------------------------------------------------------------
(* Announcements.                                                          *)

\* Settlement events: one for each commit, and with its contents.
SettlementEvents == {e \in events : e.kind = "settlement"}

\* The event of the batch that settles attempt a.
Announcement(a, i, paid, status) ==
    [kind |-> "settlement", intent |-> i, attempt |-> a,
     type |-> IF status = "overpaid" THEN "payment.overpaid" ELSE "payment.paid",
     paid |-> paid]

\* Other events are of other kinds.
LEMMA OtherEvents ==
    ASSUME NEW e, e.kind # "settlement", events' = WithEvent(e)
    PROVE  SettlementEvents' = SettlementEvents
BY DEF WithEvent, SettlementEvents

\* A batch that settles really inserts its event: INSERT OR IGNORE finds none.
LEMMA CommitAnnounces ==
    ASSUME EventPerCommit, NEW w \in Workers, NEW a \in Attempts, NEW i \in Intents,
           NEW paid \in Nat, NEW expected \in Nat, NEW status \in SettledStatuses,
           Commits(w, a, i, paid, expected, status)
    PROVE  SettlementEvents' = SettlementEvents \cup {Announcement(a, i, paid, status)}
<1>1. ~\E old \in events : old.kind = "settlement" /\ old.attempt = a
  <2>1. ~\E c \in commits : c.attempt = a
    BY DEF Commits
  <2>2. \A e \in events : e.kind = "settlement" => \E c \in commits : c.attempt = e.attempt
    BY DEF EventPerCommit
  <2>3. QED
    BY <2>1, <2>2
<1>2. PICK e : e = Announcement(a, i, paid, status)
  OBVIOUS
<1>3. e.kind = "settlement" /\ e.intent = i /\ e.attempt = a
  BY <1>2 DEF Announcement
<1>4. events' = WithEvent(e)
  BY <1>2 DEF Commits, Announcement
<1>5. events' = events \cup {e}
  BY <1>1, <1>3, <1>4 DEF WithEvent
<1>6. QED
  BY <1>2, <1>3, <1>5 DEF SettlementEvents

\* What a step does to commits and settlement events.
LEMMA EventSteps ==
    ASSUME [Next]_vars
    PROVE  \/ UNCHANGED <<commits, SettlementEvents>>
           \/ \E w \in Workers : SettleCommit(w)
<1>1. CASE CreateSome
  <2>1. PICK i, amountMode, mode, amount : CreateIntent(i, amountMode, mode, amount)
    BY <1>1 DEF CreateSome
  <2>2. PICK e : /\ e = [kind |-> "created", intent |-> i, attempt |-> None,
                         type |-> "payment.created", paid |-> 0]
                 /\ events' = WithEvent(e)
    BY <2>1 DEF CreateIntent
  <2>3. e.kind # "settlement"
    BY <2>2
  <2>4. UNCHANGED commits
    BY <2>1 DEF CreateIntent
  <2>5. QED
    BY <2>2, <2>3, <2>4, OtherEvents
<1>2. CASE \E w \in Workers : SimulateBatch(w)
  <2>1. PICK w \in Workers : SimulateBatch(w)
    BY <1>2
  <2>2. PICK e : /\ e = [kind |-> "sandbox", intent |-> worker[w].intent,
                         attempt |-> None, type |-> "payment.paid",
                         paid |-> worker[w].expected]
                 /\ events' = WithEvent(e)
    BY <2>1 DEF SimulateBatch
  <2>3. e.kind # "settlement"
    BY <2>2
  <2>4. UNCHANGED commits
    BY <2>1 DEF SimulateBatch
  <2>5. QED
    BY <2>2, <2>3, <2>4, OtherEvents
<1>3. CASE UNCHANGED <<commits, events>>
  BY <1>3 DEF SettlementEvents
<1>4. QED
  BY ZenonT(60), <1>1, <1>2, <1>3 DEF Next, CancelPaymentIntent, ReleaseExpired, SimulateRead,
     ReserveSome, ReserveAttempt, RouterPay, RegisterAppExecution,
     RegisterSourceTransaction, CancelAttempt, ScanLog, ReconcileJob, ReconcileRefused,
     ReconcileLocal, ReconcileBurn, CctpMint, FinalizeCctp, RecordFeeEvidence,
     SettleRead, SettleConflict, Crash, Tick, vars, ledgerVars

\* The announcement has the contents of the commit it is written with.
LEMMA EventPerCommitStep == TypeInv /\ EventPerCommit /\ [Next]_vars => EventPerCommit'
<1> DEFINE Told(cs, es) ==
      /\ \A c \in cs :
           \E e \in es : /\ e.attempt = c.attempt /\ e.intent = c.intent
                         /\ e.paid = c.resulting
                         /\ e.type = IF c.status = "overpaid" THEN "payment.overpaid"
                                                              ELSE "payment.paid"
      /\ \A e \in es : \E c \in cs : c.attempt = e.attempt
      /\ \A e, f \in es : e.attempt = f.attempt => e = f
<1>0. /\ EventPerCommit => Told(commits, SettlementEvents)
      /\ Told(commits', SettlementEvents') => EventPerCommit'
  BY DEF EventPerCommit, SettlementEvents
<1> SUFFICES ASSUME TypeInv, EventPerCommit, [Next]_vars, Told(commits, SettlementEvents)
             PROVE  Told(commits', SettlementEvents')
  BY <1>0
<1>1. CASE UNCHANGED <<commits, SettlementEvents>>
  BY <1>1
<1>2. CASE \E w \in Workers : SettleCommit(w)
  <2>1. PICK w \in Workers, a \in Attempts, i \in Intents, paid \in Nat,
             expected \in Nat, status \in SettledStatuses :
                 Commits(w, a, i, paid, expected, status)
    BY <1>2, CommitFacts
  <2>2. PICK c : /\ c.attempt = a /\ c.intent = i /\ c.resulting = paid
                 /\ c.status = status /\ commits' = commits \cup {c}
    BY <2>1 DEF Commits
  <2>3. PICK e : e = Announcement(a, i, paid, status)
    OBVIOUS
  <2>4. SettlementEvents' = SettlementEvents \cup {e}
    BY <2>1, <2>3, CommitAnnounces
  <2>5. /\ e.attempt = a /\ e.intent = i /\ e.paid = paid
        /\ e.type = IF status = "overpaid" THEN "payment.overpaid" ELSE "payment.paid"
    BY <2>3 DEF Announcement
  <2>6. ~\E d \in commits : d.attempt = a
    BY <2>1 DEF Commits
  <2>7. ~\E f \in SettlementEvents : f.attempt = a
    BY <2>6
  <2>8. QED
    BY <2>2, <2>4, <2>5, <2>7
<1>3. QED
  BY <1>1, <1>2, EventSteps

\* Every settlement is announced by exactly one event with the status and the
\* cumulative amount of its commit, under duplicate jobs, lost compare-and-set
\* rounds and crashes.
THEOREM EventCorrect == Spec => []EventPerCommit
<1>1. Init => EventPerCommit
  BY DEF Init, EventPerCommit
<1>2. QED
  BY <1>1, EventPerCommitStep, InitTypeInv, StepTypeInv, PTL DEF Spec

-----------------------------------------------------------------------------
(* Finality.                                                               *)

\* No step reopens or lowers what an intent was paid.
LEMMA SettlementStepIsFinal ==
    ASSUME SettlementInv, [Next]_vars
    PROVE  /\ \A i \in Intents :
                /\ intent[i].status \in SettledStatuses =>
                     intent'[i].status \in SettledStatuses
                /\ intent[i].status = "overpaid" => intent'[i].status = "overpaid"
                /\ intent'[i].paid >= intent[i].paid
           /\ commits \subseteq commits'
<1>0. /\ TypeInv /\ MoneyInv /\ LinkFollows
      /\ \A i \in Intents : intent[i].paid \in Nat /\ intent[i].amount \in Nat
  BY DEF SettlementInv, TypeInv, TypeOK, MoneyInv, Intent
<1>1. commits \subseteq commits'
  BY EventSteps DEF SettleCommit
<1> SUFFICES ASSUME NEW i \in Intents
             PROVE  /\ intent[i].status \in SettledStatuses =>
                         intent'[i].status \in SettledStatuses
                    /\ intent[i].status = "overpaid" => intent'[i].status = "overpaid"
                    /\ intent'[i].paid >= intent[i].paid
  BY <1>1
<1>2. CASE intent'[i] = intent[i]
  BY <1>0, <1>2
<1>3. CASE \E j \in Intents :
             OthersStay(j) /\ (Opened(j) \/ Canceled(j) \/ Released(j) \/ Simulated(j))
  <2>1. PICK j \in Intents :
            OthersStay(j) /\ (Opened(j) \/ Canceled(j) \/ Released(j) \/ Simulated(j))
    BY <1>3
  <2>2. CASE j # i
    BY <1>2, <2>1, <2>2 DEF OthersStay
  <2>3. CASE j = i /\ (Opened(i) \/ Simulated(i))
    <3>1. /\ intent[i].status \in {"none", "awaiting_payment"}
          /\ intent'[i].paid \in {0, intent[i].amount} /\ intent[i].paid = 0
      BY <1>0, <2>3 DEF MoneyInv, MoneyAgrees, Opened, Simulated
    <3>2. QED
      BY <1>0, <3>1 DEF SettledStatuses
  <2>4. CASE j = i /\ (Canceled(i) \/ Released(i))
    BY <1>0, <2>4 DEF Canceled, Released, SameMoney, SettledStatuses
  <2>5. QED
    BY <2>1, <2>2, <2>3, <2>4
<1>4. CASE \E w \in Workers : SettleCommit(w)
  <2>1. PICK w \in Workers, a \in Attempts, j \in Intents, paid \in Nat,
             expected \in Nat, status \in SettledStatuses :
                 Commits(w, a, j, paid, expected, status)
    BY <1>0, <1>4, CommitFacts
  <2>2. CASE j # i
    BY <1>2, <2>1, <2>2 DEF Commits
  <2>3. CASE j = i
    <3>1. /\ intent'[i].paid = paid /\ paid > intent[i].paid
          /\ intent'[i].status = status
          /\ status = IF paid > expected THEN "overpaid" ELSE "paid"
      BY <2>1, <2>3 DEF Commits
    <3>2. ASSUME intent[i].status = "overpaid" PROVE status = "overpaid"
      <4>1. intent[i].paid > intent[i].amount
        BY <1>0, <3>2 DEF MoneyInv, MoneyAgrees
      <4>2. /\ worker[w].pc = "commit" /\ attempt[worker[w].attempt].intent = i
            /\ worker[w].expected = expected /\ intent[i].paid = worker[w].previous
        BY <2>1, <2>3 DEF Commits
      <4>3. ReadHolds(w, i)
        BY <1>0, <4>2 DEF MoneyInv, ReadsHold
      <4>4. expected = intent[i].amount
        BY <1>0, <4>1, <4>2, <4>3 DEF ReadHolds
      <4>5. QED
        BY <1>0, <3>1, <4>1, <4>4
    <3>3. QED
      BY <1>0, <3>1, <3>2
  <2>4. QED
    BY <2>2, <2>3
<1>5. QED
  BY <1>0, <1>2, <1>3, <1>4, IntentSteps

\* A settled intent never returns to a payable or canceled status, an overpaid
\* one never to paid, the paid amount never shrinks and commits are append-only.
THEOREM FinalityCorrect == Spec => SettlementIsFinal
<1>1. SettlementInv /\ [Next]_vars =>
        [/\ \A i \in Intents :
              /\ intent[i].status \in SettledStatuses =>
                   intent'[i].status \in SettledStatuses
              /\ intent[i].status = "overpaid" => intent'[i].status = "overpaid"
              /\ intent'[i].paid >= intent[i].paid
         /\ commits \subseteq commits']_vars
  BY SettlementStepIsFinal
<1>2. QED
  BY <1>1, SettlementInvHolds, PTL DEF Spec, SettlementIsFinal

-----------------------------------------------------------------------------
(* The ledger the merchant is promised.                                    *)

\* The mapping of the INSTANCE Ledger, one part at a time.
StatusOf == [i \in Intents |-> intent[i].status]
PaidOf == [i \in Intents |-> intent[i].paid]
SandboxOf == {i \in Intents : intent[i].status # "none" /\ intent[i].mode = "test"}
CreditedOf == {c.attempt : c \in commits}
ToldOf == {<<e.attempt, e.paid>> : e \in SettlementEvents}

\* The ledger's variables are these parts.
LEMMA LedgerVars ==
    ASSUME UNCHANGED <<StatusOf, SandboxOf, PaidOf, logs, CreditedOf, ToldOf>>
    PROVE  UNCHANGED Ledger!vars
BY DEF Ledger!vars, StatusOf, SandboxOf, PaidOf, CreditedOf, ToldOf, SettlementEvents

\* Steps that leave an intent's status, mode and money alone are invisible.
LEMMA SameIntents ==
    ASSUME \A i \in Intents : /\ intent'[i].status = intent[i].status
                              /\ intent'[i].mode = intent[i].mode
                              /\ intent'[i].paid = intent[i].paid
    PROVE  UNCHANGED <<StatusOf, SandboxOf, PaidOf>>
BY DEF StatusOf, SandboxOf, PaidOf

\* Commits and events that stay leave what is credited and told.
LEMMA SameCommits ==
    ASSUME UNCHANGED <<commits, SettlementEvents>>
    PROVE  UNCHANGED <<CreditedOf, ToldOf>>
BY DEF CreditedOf, ToldOf

\* Opening an intent opens it in the ledger.
LEMMA OpenRefines ==
    ASSUME NEW i \in Intents, OthersStay(i), Opened(i),
           intent[i].paid = 0, UNCHANGED <<logs, CreditedOf, ToldOf>>
    PROVE  Ledger!Open(i)
<1>1. /\ StatusOf[i] = "none" /\ StatusOf' = [StatusOf EXCEPT ![i] = "awaiting_payment"]
      /\ UNCHANGED PaidOf
  BY DEF StatusOf, PaidOf, OthersStay, Opened
<1>2. SandboxOf' \in {SandboxOf, SandboxOf \cup {i}}
  BY DEF SandboxOf, OthersStay, Opened
<1>3. QED
  BY <1>1, <1>2 DEF Ledger!Open, StatusOf, PaidOf, SandboxOf, CreditedOf, ToldOf,
     SettlementEvents

\* Canceling an open intent cancels it in the ledger.
LEMMA CancelRefines ==
    ASSUME NEW i \in Intents, OthersStay(i), Canceled(i),
           UNCHANGED <<logs, CreditedOf, ToldOf>>
    PROVE  Ledger!Cancel(i)
<1>1. /\ StatusOf[i] = "awaiting_payment"
      /\ StatusOf' = [StatusOf EXCEPT ![i] = "canceled"]
      /\ UNCHANGED <<PaidOf, SandboxOf>>
  BY DEF StatusOf, PaidOf, SandboxOf, OthersStay, Canceled, SameMoney
<1>2. QED
  BY <1>1 DEF Ledger!Cancel, StatusOf, PaidOf, SandboxOf, CreditedOf, ToldOf,
     SettlementEvents

\* Simulating pays a test intent that had taken no money.
LEMMA SimulateRefines ==
    ASSUME NEW i \in Intents, OthersStay(i), Simulated(i), intent[i].mode = "test",
           intent[i].paid = 0, UNCHANGED <<logs, CreditedOf, ToldOf>>
    PROVE  Ledger!Simulate(i)
<1>1. /\ i \in SandboxOf /\ StatusOf[i] = "awaiting_payment"
      /\ StatusOf' = [StatusOf EXCEPT ![i] = "paid"]
      /\ PaidOf[i] = 0 /\ PaidOf' = [PaidOf EXCEPT ![i] = PaidOf'[i]]
      /\ UNCHANGED SandboxOf
  BY DEF StatusOf, PaidOf, SandboxOf, OthersStay, Simulated
<1>2. QED
  BY <1>1 DEF Ledger!Simulate, StatusOf, PaidOf, SandboxOf, CreditedOf, ToldOf,
     SettlementEvents

\* The invariant the refinement rests on.
LedgerStepInv == SettlementInv /\ EventPerCommit

\* A batch that settles credits the ledger.
LEMMA CreditRefines ==
    ASSUME LedgerStepInv, [Next]_vars, NEW w \in Workers, SettleCommit(w)
    PROVE  \E a \in Attempts, i \in Intents : Ledger!Credit(a, i)
<1>0. TypeInv /\ EvidenceInv /\ MoneyInv /\ EventPerCommit
  BY DEF LedgerStepInv, SettlementInv
<1>1. PICK a \in Attempts, i \in Intents, paid \in Nat, expected \in Nat,
           status \in SettledStatuses : Commits(w, a, i, paid, expected, status)
  BY <1>0, CommitFacts
<1>2. /\ intent'[i].status = status /\ intent'[i].paid = paid
      /\ intent'[i].mode = intent[i].mode /\ paid > intent[i].paid
      /\ \A j \in Intents : j # i => intent'[j] = intent[j]
      /\ UNCHANGED logs /\ a = worker[w].attempt /\ i = attempt[a].intent
      /\ worker[w].pc = "commit" /\ attempt[a].status \in ActiveStatuses
  BY <1>1 DEF Commits
<1>3. a \in logs \ CreditedOf
  <2>1. a \in logs
    BY <1>0, <1>2 DEF EvidenceInv, WorkersSaw, Seen
  <2>2. ~\E c \in commits : c.attempt = a
    BY <1>1 DEF Commits
  <2>3. QED
    BY <2>1, <2>2 DEF CreditedOf
<1>4. intent[i].status # "none"
  BY <1>0, <1>2 DEF MoneyInv, PayableRows, ActiveStatuses
<1>5. CreditedOf' = CreditedOf \cup {a}
  <2>1. PICK c : c.attempt = a /\ commits' = commits \cup {c}
    BY <1>1 DEF Commits
  <2>2. QED
    BY <2>1 DEF CreditedOf
<1>6. ToldOf' = ToldOf \cup {<<a, paid>>}
  <2>1. PICK e : e = Announcement(a, i, paid, status)
    OBVIOUS
  <2>2. e.attempt = a /\ e.paid = paid
    BY <2>1 DEF Announcement
  <2>3. SettlementEvents' = SettlementEvents \cup {e}
    BY <1>0, <1>1, <2>1, CommitAnnounces
  <2>4. QED
    BY <2>2, <2>3 DEF ToldOf
<1>7. /\ PaidOf'[i] = paid /\ PaidOf'[i] > PaidOf[i]
      /\ PaidOf' = [PaidOf EXCEPT ![i] = PaidOf'[i]]
  BY <1>2 DEF PaidOf
<1>8. /\ status \in {"paid", "overpaid"} /\ StatusOf[i] # "none"
      /\ StatusOf' = [StatusOf EXCEPT ![i] = status]
  BY <1>2, <1>4 DEF StatusOf, SettledStatuses
<1>9. StatusOf[i] = "overpaid" => status = "overpaid"
  BY <1>2, SettlementStepIsFinal DEF StatusOf, LedgerStepInv
<1>10. UNCHANGED SandboxOf
  BY <1>2, <1>4 DEF SandboxOf, SettledStatuses
<1>11. Ledger!Credit(a, i)
  BY <1>2, <1>3, <1>5, <1>6, <1>7, <1>8, <1>9, <1>10 DEF Ledger!Credit, StatusOf, PaidOf,
     SandboxOf, CreditedOf, ToldOf, SettlementEvents
<1>12. QED
  BY <1>11

\* A payment of a router is executed in the ledger.
LEMMA ExecuteRefines ==
    ASSUME NEW a \in Attempts, RouterPay(a)
    PROVE  Ledger!Execute(a)
<1>1. /\ logs' = logs \cup {a} /\ UNCHANGED <<intent, commits, SettlementEvents>>
  BY DEF RouterPay, SettlementEvents, intentVars, ledgerVars
<1>2. UNCHANGED <<StatusOf, SandboxOf, PaidOf, CreditedOf, ToldOf>>
  BY <1>1, SameIntents, SameCommits
<1>3. QED
  BY <1>1, <1>2 DEF Ledger!Execute, StatusOf, PaidOf, SandboxOf, CreditedOf, ToldOf,
     SettlementEvents

\* Only the routers write logs.
LEMMA LogSteps ==
    ASSUME [Next]_vars
    PROVE  UNCHANGED logs \/ \E a \in Attempts : RouterPay(a)
BY ZenonT(60) DEF Next, CreateSome, CreateIntent, CancelPaymentIntent, ReleaseExpired,
   SimulateRead, SimulateBatch, ReserveSome, ReserveAttempt, RegisterAppExecution,
   RegisterSourceTransaction, CancelAttempt, ScanLog, ReconcileJob, ReconcileRefused,
   ReconcileLocal, ReconcileBurn, CctpMint, FinalizeCctp, RecordFeeEvidence,
   SettleRead, SettleCommit, SettleConflict, Crash, Tick, vars, chainVars

\* Every step of the workers is a step of the ledger or invisible in it.
LEMMA StepRefines == LedgerStepInv /\ [Next]_vars => [Ledger!Next]_(Ledger!vars)
<1> SUFFICES ASSUME LedgerStepInv, [Next]_vars PROVE [Ledger!Next]_(Ledger!vars)
  OBVIOUS
<1>0. TypeInv /\ MoneyInv /\ LinkFollows /\ LedgerInv
  BY DEF LedgerStepInv, SettlementInv, MoneyInv
<1>1. CASE \E w \in Workers : SettleCommit(w)
  BY <1>1, CreditRefines DEF Ledger!Next
<1>2. CASE \E a \in Attempts : RouterPay(a)
  BY <1>2, ExecuteRefines DEF Ledger!Next
<1>3. CASE UNCHANGED <<logs, commits, SettlementEvents>>
  <2>1. UNCHANGED <<logs, CreditedOf, ToldOf>>
    BY <1>3, SameCommits
  <2>2. CASE UNCHANGED <<intent, link>>
    BY <2>1, <2>2, SameIntents, LedgerVars
  <2>3. CASE \E i \in Intents :
               OthersStay(i) /\ (Opened(i) \/ Canceled(i) \/ Released(i) \/ Simulated(i))
    <3>1. PICK i \in Intents :
              OthersStay(i) /\ (Opened(i) \/ Canceled(i) \/ Released(i) \/ Simulated(i))
      BY <2>3
    <3>2. intent[i].status \in {"none", "awaiting_payment"} => intent[i].paid = 0
      BY <1>0 DEF MoneyInv, MoneyAgrees
    <3>3. CASE Opened(i)
      <4>1. intent[i].paid = 0
        BY <3>2, <3>3 DEF Opened
      <4>2. QED
        BY <2>1, <3>1, <3>3, <4>1, OpenRefines DEF Ledger!Next
    <3>4. CASE Canceled(i)
      BY <2>1, <3>1, <3>4, CancelRefines DEF Ledger!Next
    <3>5. CASE Released(i)
      <4>1. \A j \in Intents : /\ intent'[j].status = intent[j].status
                               /\ intent'[j].mode = intent[j].mode
                               /\ intent'[j].paid = intent[j].paid
        BY <3>1, <3>5 DEF OthersStay, Released, SameMoney
      <4>2. QED
        BY <2>1, <4>1, SameIntents, LedgerVars
    <3>6. CASE Simulated(i)
      <4>1. intent[i].mode = "test" /\ intent[i].paid = 0
        BY <1>0, <3>2, <3>6 DEF Simulated, LedgerInv, SimulationIsTest
      <4>2. QED
        BY <2>1, <3>1, <3>6, <4>1, SimulateRefines DEF Ledger!Next
    <3>7. QED
      BY <3>1, <3>3, <3>4, <3>5, <3>6
  <2>4. CASE \E w \in Workers : SettleCommit(w)
    BY <1>1, <2>4
  <2>5. QED
    BY <1>0, <2>2, <2>3, <2>4, IntentSteps
<1>4. QED
  BY <1>1, <1>2, <1>3, LogSteps, EventSteps

\* The empty database is the empty ledger.
LEMMA InitRefines == Init => Ledger!Init
BY DEF Init, Ledger!Init, NoIntent

\* Every behaviour of the Payments Worker, with its duplicate scans, lost
\* compare-and-set rounds and crashes, is a behaviour of the ledger: an executed
\* payment is credited at most once, whole, told in the same step, and an intent
\* that took money is never reopened or canceled.
THEOREM ImplementsLedgerCorrect == Spec => ImplementsLedger
<1>1. Init => LedgerStepInv /\ Ledger!Init
  BY SettlementInvHolds, InitRefines DEF LedgerStepInv, Init, EventPerCommit
<1>2. LedgerStepInv /\ [Next]_vars => LedgerStepInv'
  BY SettlementInvHolds, EventPerCommitStep DEF LedgerStepInv, SettlementInv
<1>3. QED
  BY <1>1, <1>2, StepRefines, PTL DEF Spec, ImplementsLedger, Ledger!Spec

=============================================================================
