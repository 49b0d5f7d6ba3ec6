--------------------------- MODULE PaymentJobsProofs ---------------------------
(***************************************************************************)
(* Proofs about PaymentJobs for every set of deliveries, consumers,        *)
(* flushes and messages and every bound.                                   *)
(***************************************************************************)
EXTENDS PaymentJobs, TLAPS

-----------------------------------------------------------------------------
(* Types                                                                   *)

Rows ==
    /\ outbox \in {"pending", "enqueued", "failed", "completed"}
    /\ msg \in [Msgs -> Message]
    /\ jobRun \in [Keys -> JobRun]
    /\ delivery \in [Deliveries -> Delivery]
    /\ flusher \in [Flushers -> {"idle", "send", "mark"}]
    /\ posts \in [Deliveries -> [made: Nat, answered: BOOLEAN]]
    /\ resent \subseteq Deliveries
    /\ active \subseteq Deliveries
    /\ faults \in 0..MaxFaults /\ merchant \in 0..MaxMerchant

\* An execution has a message, and a delivery while it posts it.
Executions ==
    /\ consumer \in [Consumers -> Consumer]
    /\ \A c \in Consumers :
          /\ consumer[c].pc # "idle" => consumer[c].msg \in Msgs
          /\ consumer[c].pc \in {"post", "record"} => consumer[c].current \in Deliveries

\* A message that was sent has the key and the deliveries of its job.
MessageRows ==
    \A m \in Msgs : msg[m].state # "unsent" => msg[m].key \in Keys

\* Who executes has taken a message that was sent.
TakenWasSent ==
    \A c \in Consumers : consumer[c].pc # "idle" => msg[consumer[c].msg].state # "unsent"

Tables == Rows /\ Executions /\ MessageRows
TypeInv == Tables /\ TakenWasSent

\* Sending a message keeps the rows' type.
LEMMA SendType ==
    ASSUME msg \in [Msgs -> Message], MessageRows, NEW m \in Msgs, NEW key \in Keys,
           NEW target \in SUBSET Deliveries, Send(m, key, target)
    PROVE  msg' \in [Msgs -> Message] /\ MessageRows'
<1>1. PICK e \in Message :
        e = [state |-> "queued", key |-> key, target |-> target, attempts |-> 0]
  BY DEF Message
<1>2. msg' = [msg EXCEPT ![m] = e]
  BY <1>1 DEF Send
<1>3. QED
  BY <1>1, <1>2 DEF MessageRows

\* The steps of a flush and of the merchant.
LEMMA OtherStepsType ==
    ASSUME TypeInv,
           \/ \E f \in Flushers : \/ FlushRead(f) \/ FlushSend(f) \/ FlushMark(f)
                                  \/ FlushThrows(f) \/ FlushCrash(f)
           \/ \E d \in Deliveries : \/ DeliveryLeaseExpires(d) \/ Resend(d)
                                    \/ ResendNotSent(d) \/ DisableEndpoint(d)
           \/ \E k \in Keys : JobLeaseExpires(k)
    PROVE  Tables'
<1>0. UNCHANGED consumer
  BY DEF FlushRead, FlushSend, FlushMark, FlushThrows, FlushCrash, DeliveryLeaseExpires, Resend,
     ResendNotSent, DisableEndpoint, JobLeaseExpires
<1>1. CASE \E f \in Flushers : FlushRead(f) \/ FlushMark(f) \/ FlushThrows(f) \/ FlushCrash(f)
  BY <1>0, <1>1, JobsAssumption DEF FlushRead, FlushMark, FlushThrows, FlushCrash, TypeInv, Tables, Rows,
     Executions, MessageRows
<1>2. ASSUME NEW f \in Flushers, FlushSend(f) PROVE Tables'
  <2>1. msg' \in [Msgs -> Message] /\ MessageRows'
    BY <1>2, SendType DEF FlushSend, TypeInv, Tables, Rows, Keys
  <2>2. QED
    BY <1>0, <1>2, <2>1 DEF FlushSend, TypeInv, Tables, Rows, Executions
<1>3. ASSUME NEW d \in Deliveries, DeliveryLeaseExpires(d) PROVE Tables'
  <2>1. delivery' \in [Deliveries -> Delivery]
    BY <1>3 DEF DeliveryLeaseExpires, TypeInv, Tables, Rows, Delivery
  <2>2. QED
    BY <1>0, <1>3, <2>1 DEF DeliveryLeaseExpires, TypeInv, Tables, Rows, Executions, MessageRows
<1>4. ASSUME NEW d \in Deliveries, Resend(d) \/ ResendNotSent(d) PROVE Tables'
  <2>1. delivery' \in [Deliveries -> Delivery]
    <3>1. delivery[d] \in Delivery /\ delivery \in [Deliveries -> Delivery]
      BY DEF TypeInv, Tables, Rows
    <3>2. PICK e \in Delivery :
            e = [delivery[d] EXCEPT !.status = "pending", !.owner = None, !.lease = "none"]
      BY <3>1 DEF Delivery, OpenStatuses
    <3>3. delivery' = [delivery EXCEPT ![d] = e]
      BY <1>4, <3>1, <3>2 DEF Resend, ResendNotSent
    <3>4. QED
      BY <3>1, <3>2, <3>3
  <2>2. msg' \in [Msgs -> Message] /\ MessageRows'
    <3>1. CASE Resend(d)
      BY <3>1, SendType DEF Resend, TypeInv, Tables, Rows, Keys
    <3>2. CASE ResendNotSent(d)
      BY <3>2 DEF ResendNotSent, TypeInv, Tables, Rows, MessageRows
    <3>3. QED
      BY <1>4, <3>1, <3>2
  <2>3. /\ resent' = resent \cup {d} /\ merchant < MaxMerchant /\ merchant' = merchant + 1
        /\ faults' = faults \/ (faults < MaxFaults /\ faults' = faults + 1)
    BY <1>4 DEF Resend, ResendNotSent
  <2>4. resent' \subseteq Deliveries /\ merchant' \in 0..MaxMerchant /\ faults' \in 0..MaxFaults
    BY <2>3, JobsAssumption DEF TypeInv, Tables, Rows
  <2>5. QED
    BY <1>0, <1>4, <2>1, <2>2, <2>4 DEF Resend, ResendNotSent, TypeInv, Tables, Rows, Executions
<1>5. ASSUME NEW d \in Deliveries, DisableEndpoint(d) PROVE Tables'
  BY <1>0, <1>5, JobsAssumption DEF DisableEndpoint, TypeInv, Tables, Rows, Executions, MessageRows
<1>6. ASSUME NEW k \in Keys, JobLeaseExpires(k) PROVE Tables'
  BY <1>0, <1>6 DEF JobLeaseExpires, TypeInv, Tables, Rows, Executions, MessageRows, JobRun
<1>7. QED
  BY <1>1, <1>2, <1>3, <1>4, <1>5, <1>6

\* What a consumer does to the message it takes or gives back.
LEMMA Delivers ==
    ASSUME TypeInv, NEW m \in Msgs, msg[m].state # "unsent",
           \/ \E c \in Consumers : ClaimJob(c, m) \/ ClaimCompleted(c, m) \/ ClaimLeased(c, m)
           \/ \E c \in Consumers :
                 m = consumer[c].msg /\ (Ack(c) \/ FailJob(c) \/ ConsumerCrash(c))
    PROVE  /\ msg' \in [Msgs -> Message] /\ MessageRows'
           /\ \A k \in Msgs : /\ msg'[k].state = "unsent" <=> msg[k].state = "unsent"
                              /\ msg'[k].key = msg[k].key
                              /\ msg'[k].target = msg[k].target
<1>1. msg \in [Msgs -> Message] /\ msg[m] \in Message
  BY DEF TypeInv, Tables, Rows
<1>2. /\ msg' \in [Msgs -> Message]
      /\ \A k \in Msgs \ {m} : msg'[k] = msg[k]
      /\ msg'[m].state # "unsent" /\ msg'[m].key = msg[m].key /\ msg'[m].target = msg[m].target
  <2>1. CASE \E c \in Consumers : ClaimJob(c, m)
    BY <1>1, <2>1 DEF ClaimJob, Message
  <2>2. CASE \E c \in Consumers : ClaimCompleted(c, m)
    BY <1>1, <2>2 DEF ClaimCompleted, Message
  <2>3. CASE \E c \in Consumers : ClaimLeased(c, m)
    <3>1. PICK st \in {"dlq", "asleep"} :
            msg' = [msg EXCEPT ![m].attempts = msg[m].attempts + 1, ![m].state = st]
      BY <2>3 DEF ClaimLeased
    <3>2. msg[m].attempts + 1 \in Nat
      BY <1>1 DEF Message
    <3>3. QED
      BY <1>1, <3>1, <3>2 DEF Message
  <2>4. CASE \E c \in Consumers : m = consumer[c].msg /\ Ack(c)
    BY <1>1, <2>4 DEF Ack, Message
  <2>5. CASE \E c \in Consumers : m = consumer[c].msg /\ (FailJob(c) \/ ConsumerCrash(c))
    BY <1>1, <2>5 DEF FailJob, ConsumerCrash, Requeued, Message
  <2>6. QED
    BY <2>1, <2>2, <2>3, <2>4, <2>5
<1>3. QED
  BY <1>2 DEF TypeInv, Tables, MessageRows

\* Consumers take a message that was sent, and work on it.
LEMMA TakenIsSent ==
    ASSUME TypeInv, NEW c \in Consumers, NEW m \in Msgs,
           ClaimJob(c, m) \/ ClaimCompleted(c, m) \/ ClaimLeased(c, m)
    PROVE  msg[m].state # "unsent" /\ msg[m].key \in Keys
BY DEF ClaimJob, ClaimCompleted, ClaimLeased, Deliverable, TypeInv, Tables, MessageRows

\* The steps of a consumer
Claims(c) == \E m \in Msgs : ClaimJob(c, m) \/ ClaimCompleted(c, m) \/ ClaimLeased(c, m)
Works(c) ==
    \/ ListDeliveries(c) \/ Post(c) \/ Record(c) \/ LoopEnds(c) \/ CompleteJob(c) \/ Throw(c)
    \/ \E t \in consumer[c].todo : ClaimDelivery(c, t[1], t[2])
Leaves(c) == Ack(c) \/ FailJob(c) \/ ConsumerCrash(c)

\* A consumer's own row has its type after each of its steps.
LEMMA ConsumerType ==
    ASSUME TypeInv, NEW c \in Consumers, Claims(c) \/ Works(c) \/ Leaves(c)
    PROVE  /\ consumer' \in [Consumers -> Consumer]
           /\ \A e \in Consumers \ {c} : consumer'[e] = consumer[e]
           /\ consumer'[c].pc # "idle" => consumer'[c].msg \in Msgs
           /\ consumer'[c].pc \in {"post", "record"} => consumer'[c].current \in Deliveries
<1>0. consumer \in [Consumers -> Consumer] /\ consumer[c] \in Consumer
  BY DEF TypeInv, Tables, Executions
<1>a. Free \in Consumer /\ Free.pc = "idle"
  BY DEF Free, Consumer
<1>1. ASSUME NEW m \in Msgs, ClaimJob(c, m)
      PROVE  /\ consumer' \in [Consumers -> Consumer]
             /\ \A e \in Consumers \ {c} : consumer'[e] = consumer[e]
             /\ consumer'[c].pc # "idle" => consumer'[c].msg \in Msgs
             /\ consumer'[c].pc \in {"post", "record"} => consumer'[c].current \in Deliveries
  <2> DEFINE row == [Free EXCEPT !.pc = "list", !.msg = m]
  <2>1. row \in Consumer /\ row.pc = "list" /\ row.msg = m
    BY <1>a DEF Consumer
  <2>2. consumer' = [consumer EXCEPT ![c] = row]
    BY <1>1 DEF ClaimJob
  <2> HIDE DEF row
  <2>3. QED
    BY <1>0, <2>1, <2>2
<1>2. CASE \E m \in Msgs : ClaimCompleted(c, m) \/ ClaimLeased(c, m)
  BY <1>0, <1>2 DEF ClaimCompleted, ClaimLeased, TypeInv, Tables, Executions
<1>3. CASE ListDeliveries(c)
  <2> DEFINE todo == {<<d, delivery[d].attempts>> : d \in
                        {e \in msg[consumer[c].msg].target :
                           /\ delivery[e].status \in OpenStatuses
                           /\ e \in active}}
  <2>1. consumer[c].pc = "list" /\ consumer' = [consumer EXCEPT ![c].pc = "loop", ![c].todo = todo]
    BY <1>3 DEF ListDeliveries
  <2>2. todo \in SUBSET (Deliveries \X Nat)
    BY DEF TypeInv, Tables, Rows, Delivery
  <2> HIDE DEF todo
  <2>3. QED
    BY <1>0, <2>1, <2>2 DEF Consumer, TypeInv, Tables, Executions
<1>4. CASE Post(c)
  <2>1. PICK ok \in BOOLEAN : consumer' = [consumer EXCEPT ![c].pc = "record", ![c].ok = ok]
    BY <1>4 DEF Post
  <2>2. consumer[c].pc = "post"
    BY <1>4 DEF Post
  <2>3. QED
    BY <1>0, <2>1, <2>2 DEF Consumer, TypeInv, Tables, Executions
<1>5. CASE Record(c)
  BY <1>0, <1>5 DEF Record, Consumer, TypeInv, Tables, Executions
<1>6. CASE LoopEnds(c) \/ CompleteJob(c) \/ Throw(c)
  BY <1>0, <1>6 DEF LoopEnds, CompleteJob, Throw, Consumer, TypeInv, Tables, Executions
<1>7. ASSUME NEW t \in consumer[c].todo, ClaimDelivery(c, t[1], t[2])
      PROVE  /\ consumer' \in [Consumers -> Consumer]
             /\ \A e \in Consumers \ {c} : consumer'[e] = consumer[e]
             /\ consumer'[c].pc # "idle" => consumer'[c].msg \in Msgs
             /\ consumer'[c].pc \in {"post", "record"} => consumer'[c].current \in Deliveries
  <2>1. PICK d \in Deliveries, n \in Nat : d = t[1] /\ n = t[2]
    BY <1>0 DEF Consumer
  <2>2. PICK rest \in SUBSET (Deliveries \X Nat) : rest = consumer[c].todo \ {<<d, n>>}
    BY <1>0 DEF Consumer
  <2>3. /\ consumer[c].pc = "loop"
        /\ \/ consumer' = [consumer EXCEPT ![c].pc = "post", ![c].todo = rest,
                                           ![c].current = d, ![c].count = n]
           \/ consumer' = [consumer EXCEPT ![c].todo = rest, ![c].leasePending = TRUE]
    BY <1>7, <2>1, <2>2 DEF ClaimDelivery
  <2>4. QED
    BY <1>0, <2>3 DEF Consumer, TypeInv, Tables, Executions
<1>8. CASE Leaves(c)
  <2>1. consumer' = [consumer EXCEPT ![c] = Free]
    BY <1>8 DEF Leaves, Ack, FailJob, ConsumerCrash
  <2>2. QED
    BY <1>0, <1>a, <2>1
<1>9. QED
  BY <1>1, <1>2, <1>3, <1>4, <1>5, <1>6, <1>7, <1>8 DEF Claims, Works

\* The tables keep their types when a consumer goes on.
LEMMA ConsumerStepsType ==
    ASSUME TypeInv, NEW c \in Consumers, Claims(c) \/ Works(c) \/ Leaves(c)
    PROVE  Tables'
<1>1. Executions'
  BY ConsumerType DEF TypeInv, Tables, Executions
<1>2. UNCHANGED <<flusher, resent, active, merchant>>
  BY DEF Claims, Works, Leaves, ClaimJob, ClaimCompleted, ClaimLeased, ListDeliveries, Post,
     Record, LoopEnds, CompleteJob, Throw, ClaimDelivery, Ack, FailJob, ConsumerCrash
<1>3. faults' = faults \/ (faults < MaxFaults /\ faults' = faults + 1)
  BY DEF Claims, Works, Leaves, ClaimJob, ClaimCompleted, ClaimLeased, ListDeliveries, Post,
     Record, LoopEnds, CompleteJob, Throw, ClaimDelivery, Ack, FailJob, ConsumerCrash
<1>4. faults' \in 0..MaxFaults
  BY <1>3, JobsAssumption DEF TypeInv, Tables, Rows
<1>5. msg' \in [Msgs -> Message] /\ MessageRows'
  <2>1. CASE Works(c)
    BY <2>1 DEF Works, ListDeliveries, Post, Record, LoopEnds, CompleteJob, Throw, ClaimDelivery,
       TypeInv, Tables, Rows, MessageRows
  <2>2. CASE Claims(c)
    BY <2>2, Delivers, TakenIsSent DEF Claims
  <2>3. CASE Leaves(c)
    <3>1. consumer[c].msg \in Msgs /\ msg[consumer[c].msg].state # "unsent"
      BY <2>3 DEF Leaves, Ack, FailJob, ConsumerCrash, TypeInv, Tables, Executions, TakenWasSent
    <3>2. QED
      BY <2>3, <3>1, Delivers DEF Leaves
  <2>4. QED
    BY <2>1, <2>2, <2>3
<1>6. outbox' \in {"pending", "enqueued", "failed", "completed"} /\ jobRun' \in [Keys -> JobRun]
  BY DEF Claims, Works, Leaves, ClaimJob, ClaimCompleted, ClaimLeased, ListDeliveries, Post,
     Record, LoopEnds, CompleteJob, Throw, ClaimDelivery, Ack, FailJob, ConsumerCrash, OutboxAfter,
     TypeInv, Tables, Rows, JobRun
<1>7. posts' \in [Deliveries -> [made: Nat, answered: BOOLEAN]]
  <2>1. CASE Post(c)
    BY <2>1 DEF Post, TypeInv, Tables, Rows, Executions
  <2>2. CASE ~Post(c)
    BY <2>2 DEF Claims, Works, Leaves, ClaimJob, ClaimCompleted, ClaimLeased, ListDeliveries,
       Record, LoopEnds, CompleteJob, Throw, ClaimDelivery, Ack, FailJob, ConsumerCrash, TypeInv, Tables,
       Rows
  <2>3. QED
    BY <2>1, <2>2
<1>8. delivery' \in [Deliveries -> Delivery]
  <2>1. CASE Record(c)
    <3>1. consumer[c].current \in Deliveries /\ Counted(c) \in Nat
      BY <2>1 DEF Record, Counted, TypeInv, Tables, Executions, Consumer
    <3>2. RecordedStatus(consumer[c].ok, Counted(c)) \in OpenStatuses \cup TerminalStatuses
      BY DEF RecordedStatus, OpenStatuses, TerminalStatuses
    <3>3. PICK row \in Delivery :
            row = [status |-> RecordedStatus(consumer[c].ok, Counted(c)), owner |-> None,
                   lease |-> "none", attempts |-> Counted(c)]
      BY <3>1, <3>2 DEF Delivery
    <3>4. delivery' = delivery \/ delivery' = [delivery EXCEPT ![consumer[c].current] = row]
      BY <2>1, <3>3 DEF Record
    <3>5. QED
      BY <3>4 DEF TypeInv, Tables, Rows
  <2>2. ASSUME NEW t \in consumer[c].todo, ClaimDelivery(c, t[1], t[2])
        PROVE  delivery' \in [Deliveries -> Delivery]
    <3>1. PICK d \in Deliveries : d = t[1]
      BY <2>2 DEF TypeInv, Tables, Executions, Consumer
    <3>2. PICK row \in Delivery :
            row = [delivery[d] EXCEPT !.status = "processing", !.owner = c, !.lease = "live"]
      BY DEF TypeInv, Tables, Rows, Delivery, OpenStatuses
    <3>3. delivery' = delivery \/ delivery' = [delivery EXCEPT ![d] = row]
      BY <2>2, <3>1, <3>2 DEF ClaimDelivery
    <3>4. QED
      BY <3>3 DEF TypeInv, Tables, Rows
  <2>3. CASE UNCHANGED delivery
    BY <2>3 DEF TypeInv, Tables, Rows
  <2>4. QED
    BY <2>1, <2>2, <2>3 DEF Claims, Works, Leaves, ClaimJob, ClaimCompleted, ClaimLeased,
       ListDeliveries, Post, LoopEnds, CompleteJob, Throw, Ack, FailJob, ConsumerCrash
<1>9. QED
  BY <1>1, <1>2, <1>4, <1>5, <1>6, <1>7, <1>8 DEF TypeInv, Tables, Rows

\* The steps of a flush, and those of the merchant and of time
Flushes == \E f \in Flushers : \/ FlushRead(f) \/ FlushSend(f) \/ FlushMark(f)
                               \/ FlushThrows(f) \/ FlushCrash(f)
Elsewhere == \/ \E d \in Deliveries : \/ DeliveryLeaseExpires(d) \/ Resend(d)
                                       \/ ResendNotSent(d) \/ DisableEndpoint(d)
             \/ \E k \in Keys : JobLeaseExpires(k)

\* Every step is of one of these kinds.
LEMMA StepCases ==
    ASSUME [Next]_vars
    PROVE  \/ \E c \in Consumers : Claims(c) \/ Works(c) \/ Leaves(c)
           \/ Flushes \/ Elsewhere \/ UNCHANGED vars
BY ZenonT(60) DEF Next, Claims, Works, Leaves, Flushes, Elsewhere

\* A message keeps its job, and a new one is of the outbox or of a resend.
LEMMA MessagesStay ==
    ASSUME TypeInv, [Next]_vars, NEW m \in Msgs
    PROVE  /\ resent \subseteq resent' /\ active' \subseteq active
           /\ msg[m].state # "unsent" => /\ msg'[m].state # "unsent"
                                        /\ msg'[m].key = msg[m].key
                                        /\ msg'[m].target = msg[m].target
           /\ msg'[m].state # "unsent" /\ msg[m].state = "unsent" =>
                 \/ msg'[m].key = Outbox /\ msg'[m].target = Deliveries
                 \/ msg'[m].key = m /\ msg'[m].target \subseteq resent'
<1>1. CASE UNCHANGED vars
  BY <1>1 DEF vars
<1>2. ASSUME NEW c \in Consumers, Claims(c) \/ Works(c) \/ Leaves(c)
      PROVE  /\ UNCHANGED <<resent, active>>
             /\ msg'[m].state = "unsent" <=> msg[m].state = "unsent"
             /\ msg'[m].key = msg[m].key /\ msg'[m].target = msg[m].target
  <2>1. UNCHANGED <<resent, active>>
    BY <1>2 DEF Claims, Works, Leaves, ClaimJob, ClaimCompleted, ClaimLeased, ListDeliveries, Post,
       Record, LoopEnds, CompleteJob, Throw, ClaimDelivery, Ack, FailJob, ConsumerCrash
  <2>2. CASE Claims(c)
    BY <2>1, <2>2, Delivers, TakenIsSent DEF Claims
  <2>3. CASE Leaves(c)
    <3>1. consumer[c].msg \in Msgs /\ msg[consumer[c].msg].state # "unsent"
      BY <2>3 DEF Leaves, Ack, FailJob, ConsumerCrash, TypeInv, Tables, Executions, TakenWasSent
    <3>2. QED
      BY <2>1, <2>3, <3>1, Delivers DEF Leaves
  <2>4. CASE Works(c)
    BY <2>1, <2>4 DEF Works, ListDeliveries, Post, Record, LoopEnds, CompleteJob, Throw,
       ClaimDelivery
  <2>5. QED
    BY <1>2, <2>2, <2>3, <2>4
<1>3. ASSUME NEW n \in Msgs, NEW key, NEW target, Send(n, key, target)
      PROVE  /\ msg[m].state # "unsent" => msg'[m] = msg[m]
             /\ msg'[m].state # "unsent" /\ msg[m].state = "unsent" =>
                   m = n /\ msg'[m].key = key /\ msg'[m].target = target
  BY <1>3 DEF Send, TypeInv, Tables, Rows
<1>4. CASE Flushes
  BY <1>3, <1>4 DEF Flushes, FlushRead, FlushSend, FlushMark, FlushThrows, FlushCrash
<1>5. ASSUME NEW d \in Deliveries, Resend(d)
      PROVE  /\ resent \subseteq resent' /\ active' \subseteq active
             /\ msg[m].state # "unsent" => msg'[m] = msg[m]
             /\ msg'[m].state # "unsent" /\ msg[m].state = "unsent" =>
                   msg'[m].key = m /\ msg'[m].target \subseteq resent'
  <2>1. PICK n \in Msgs : Send(n, n, {d})
    BY <1>5 DEF Resend
  <2>2. resent' = resent \cup {d} /\ active' = active
    BY <1>5 DEF Resend
  <2>3. QED
    BY <1>3, <2>1, <2>2
<1>6. ASSUME NEW d \in Deliveries, DeliveryLeaseExpires(d) \/ ResendNotSent(d) \/ DisableEndpoint(d)
      PROVE  UNCHANGED msg /\ resent \subseteq resent' /\ active' \subseteq active
  BY <1>6 DEF DeliveryLeaseExpires, ResendNotSent, DisableEndpoint
<1>7. ASSUME NEW k \in Keys, JobLeaseExpires(k) PROVE UNCHANGED <<msg, resent, active>>
  BY <1>7 DEF JobLeaseExpires
<1>8. QED
  BY <1>1, <1>2, <1>4, <1>5, <1>6, <1>7, StepCases DEF Elsewhere

\* A consumer that goes on keeps its message.
LEMMA KeepsMessage ==
    ASSUME TypeInv, [Next]_vars, NEW c \in Consumers
    PROVE  \/ consumer'[c] = consumer[c]
           \/ \E m \in Msgs : ClaimJob(c, m) /\ consumer'[c].msg = m /\ consumer'[c].pc = "list"
                              /\ consumer'[c].todo = {}
           \/ Works(c) /\ consumer'[c].msg = consumer[c].msg /\ consumer[c].pc \notin {"idle", "ack"}
           \/ Leaves(c) /\ consumer'[c] = Free
<1>0. consumer \in [Consumers -> Consumer]
  BY DEF TypeInv, Tables, Executions
<1>1. ASSUME NEW e \in Consumers, Claims(e) \/ Works(e) \/ Leaves(e), e # c
      PROVE  consumer'[c] = consumer[c]
  BY <1>1, ConsumerType
<1>2. CASE Claims(c)
  <2>1. ASSUME NEW m \in Msgs, ClaimJob(c, m)
        PROVE  consumer'[c].msg = m /\ consumer'[c].pc = "list" /\ consumer'[c].todo = {}
    BY <1>0, <2>1 DEF ClaimJob, Free
  <2>2. QED
    BY <1>2, <2>1 DEF Claims, ClaimCompleted, ClaimLeased
<1>3. CASE Works(c)
  <2>0. consumer[c] \in Consumer
    BY <1>0
  <2>1. CASE ListDeliveries(c) \/ LoopEnds(c) \/ CompleteJob(c) \/ Throw(c)
    <3>1. consumer'[c].msg = consumer[c].msg
      BY <1>0, <2>0, <2>1 DEF ListDeliveries, LoopEnds, CompleteJob, Throw, Consumer
    <3>2. consumer[c].pc \notin {"idle", "ack"}
      BY <2>1 DEF ListDeliveries, LoopEnds, CompleteJob, Throw
    <3>3. QED
      BY <1>3, <3>1, <3>2
  <2>2. CASE Post(c)
    <3>1. PICK ok \in {TRUE, FALSE} :
             consumer' = [consumer EXCEPT ![c].pc = "record", ![c].ok = ok]
      BY <2>2 DEF Post
    <3>2. consumer'[c].msg = consumer[c].msg
      BY <1>0, <2>0, <3>1 DEF Consumer
    <3>3. consumer[c].pc = "post"
      BY <2>2 DEF Post
    <3>4. QED
      BY <1>3, <3>2, <3>3
  <2>3. CASE Record(c)
    <3>1. consumer'[c].msg = consumer[c].msg
      BY <1>0, <2>0, <2>3 DEF Record, Consumer
    <3>2. consumer[c].pc = "record"
      BY <2>3 DEF Record
    <3>3. QED
      BY <1>3, <3>1, <3>2
  <2>4. ASSUME NEW t \in consumer[c].todo, ClaimDelivery(c, t[1], t[2])
        PROVE  consumer'[c].msg = consumer[c].msg /\ consumer[c].pc = "loop"
    <3>1. consumer[c].pc = "loop"
      BY <2>4 DEF ClaimDelivery
    <3>2. CASE DeliveryClaimable(t[1])
      BY <1>0, <2>0, <2>4, <3>1, <3>2 DEF ClaimDelivery, Consumer
    <3>3. CASE ~DeliveryClaimable(t[1])
      BY <1>0, <2>0, <2>4, <3>1, <3>3 DEF ClaimDelivery, Consumer
    <3>4. QED
      BY <3>1, <3>2, <3>3
  <2>5. QED
    BY <1>3, <2>1, <2>2, <2>3, <2>4 DEF Works
<1>4. CASE Leaves(c)
  BY <1>0, <1>4 DEF Leaves, Ack, FailJob, ConsumerCrash
<1>5. CASE Flushes \/ Elsewhere \/ UNCHANGED vars
  BY ZenonT(60), <1>5 DEF Flushes, Elsewhere, FlushRead, FlushSend, FlushMark, FlushThrows,
     FlushCrash, DeliveryLeaseExpires, Resend, ResendNotSent, DisableEndpoint, JobLeaseExpires, vars
<1>6. QED
  BY <1>1, <1>2, <1>3, <1>4, <1>5, StepCases

\* Every step keeps the types.
LEMMA StepType == TypeInv /\ [Next]_vars => TypeInv'
<1> SUFFICES ASSUME TypeInv, [Next]_vars PROVE TypeInv'
  OBVIOUS
<1>1. Tables'
  <2>1. CASE UNCHANGED vars
    BY <2>1 DEF vars, TypeInv, Tables, Rows, Executions, MessageRows
  <2>2. QED
    BY <2>1, StepCases, OtherStepsType, ConsumerStepsType DEF Flushes, Elsewhere
<1>2. ASSUME NEW c \in Consumers, consumer'[c].pc # "idle"
      PROVE  msg'[consumer'[c].msg].state # "unsent"
  <2>1. consumer'[c].msg \in Msgs
    BY <1>1, <1>2 DEF Tables, Executions
  <2>2. msg[consumer'[c].msg].state # "unsent"
    BY <1>2, <2>1, KeepsMessage, TakenIsSent DEF TypeInv, TakenWasSent, Free
  <2>3. QED
    BY <2>1, <2>2, MessagesStay
<1>3. QED
  BY <1>1, <1>2 DEF TypeInv, TakenWasSent

\* The initial states satisfy the invariant.
LEMMA TypeInit == Init => TypeInv
<1> SUFFICES ASSUME Init PROVE TypeInv
  OBVIOUS
<1>1. Free \in Consumer /\ Free.pc = "idle"
  BY DEF Free, Consumer
<1>2. \A m \in Msgs : msg[m].state = "unsent"
  BY DEF Init
<1>3. Rows
  BY JobsAssumption DEF Init, Rows, Message, Delivery, OpenStatuses, JobRun
<1>4. Executions
  BY <1>1 DEF Init, Executions
<1>5. QED
  BY <1>1, <1>2, <1>3, <1>4 DEF Init, TypeInv, Tables, MessageRows, TakenWasSent

-----------------------------------------------------------------------------
(* One execution of a job                                                  *)

KeyOf(c) == msg[consumer[c].msg].key
TargetOf(c) == msg[consumer[c].msg].target
Executes(c) == consumer[c].pc \notin {"idle", "ack"}

\* The outbox's job is about all the deliveries of the event; a resend's about
\* one that was resent.
JobsTarget ==
    \A m \in Msgs : msg[m].state # "unsent" =>
        IF msg[m].key = Outbox THEN msg[m].target = Deliveries ELSE msg[m].target \subseteq resent

\* The lease of a job lasts as long as its execution.
ExecutionsHoldJob == \A c \in Consumers : Executes(c) => jobRun[KeyOf(c)] = "processing"

\* An execution keeps to the deliveries of its job.
ListsOwn ==
    \A c \in Consumers : Executes(c) =>
        /\ \A t \in consumer[c].todo : t[1] \in TargetOf(c)
        /\ consumer[c].pc \in {"post", "record"} => consumer[c].current \in TargetOf(c)

JobInv == JobsTarget /\ ExecutionsHoldJob /\ OneExecutionPerJob /\ ListsOwn

\* An execution goes on with its job, or has just claimed it.
LEMMA ExecutionStep ==
    ASSUME TypeInv, [Next]_vars, NEW c \in Consumers, consumer'[c].pc \notin {"idle", "ack"}
    PROVE  \/ /\ Executes(c) /\ KeyOf(c)' = KeyOf(c) /\ TargetOf(c)' = TargetOf(c)
              /\ consumer'[c] = consumer[c] \/ Works(c)
           \/ \E m \in Msgs : /\ ClaimJob(c, m)
                              /\ KeyOf(c)' = msg[m].key /\ TargetOf(c)' = msg[m].target
                              /\ consumer'[c].pc = "list" /\ consumer'[c].todo = {}
<1>1. CASE Executes(c) /\ consumer'[c].msg = consumer[c].msg /\ (consumer'[c] = consumer[c] \/ Works(c))
  <2>1. consumer[c].msg \in Msgs /\ msg[consumer[c].msg].state # "unsent"
    BY <1>1 DEF Executes, TypeInv, Tables, Executions, TakenWasSent
  <2>2. QED
    BY <1>1, <2>1, MessagesStay DEF KeyOf, TargetOf
<1>2. ASSUME NEW m \in Msgs, ClaimJob(c, m), consumer'[c].msg = m
      PROVE  KeyOf(c)' = msg[m].key /\ TargetOf(c)' = msg[m].target
  BY <1>2, TakenIsSent, MessagesStay DEF KeyOf, TargetOf
<1>3. QED
  BY <1>1, <1>2, KeepsMessage DEF Executes, Free

\* A job run changes when its job is claimed, ends or loses its lease.
LEMMA JobRunStep ==
    ASSUME TypeInv, [Next]_vars, NEW k \in Keys, jobRun'[k] # jobRun[k]
    PROVE  \/ \E c \in Consumers, m \in Msgs : ClaimJob(c, m) /\ k = msg[m].key
           \/ \E c \in Consumers : CompleteJob(c) /\ k = KeyOf(c)
           \/ \E c \in Consumers : FailJob(c) /\ k = KeyOf(c)
           \/ JobLeaseExpires(k)
<1>0. jobRun \in [Keys -> JobRun]
  BY DEF TypeInv, Tables, Rows
<1>1. CASE Flushes \/ UNCHANGED vars
  BY <1>1 DEF Flushes, FlushRead, FlushSend, FlushMark, FlushThrows, FlushCrash, vars
<1>2. CASE Elsewhere
  BY <1>0, <1>2 DEF Elsewhere, DeliveryLeaseExpires, Resend, ResendNotSent, DisableEndpoint,
     JobLeaseExpires
<1>3. ASSUME NEW c \in Consumers, Claims(c) PROVE \E m \in Msgs : ClaimJob(c, m) /\ k = msg[m].key
  BY <1>0, <1>3 DEF Claims, ClaimJob, ClaimCompleted, ClaimLeased
<1>4. ASSUME NEW c \in Consumers, Works(c) PROVE CompleteJob(c) /\ k = KeyOf(c)
  BY <1>0, <1>4 DEF Works, ListDeliveries, Post, Record, LoopEnds, CompleteJob, Throw, ClaimDelivery,
     KeyOf
<1>5. ASSUME NEW c \in Consumers, Leaves(c) PROVE FailJob(c) /\ k = KeyOf(c)
  BY <1>0, <1>5 DEF Leaves, Ack, FailJob, ConsumerCrash, KeyOf
<1>6. QED
  BY <1>1, <1>2, <1>3, <1>4, <1>5, StepCases

\* Claiming a job changes no execution but the one it starts.
LEMMA ClaimStarts ==
    ASSUME TypeInv, NEW c \in Consumers, NEW m \in Msgs, ClaimJob(c, m)
    PROVE  /\ \A e \in Consumers \ {c} : consumer'[e] = consumer[e]
           /\ msg[m].key \in Keys /\ Claimable(msg[m].key)
           /\ jobRun'[msg[m].key] = "processing"
           /\ consumer[c].pc = "idle"
BY TakenIsSent DEF ClaimJob, TypeInv, Tables, Rows, Executions

\* Every step keeps the jobs' targets.
LEMMA StepTarget ==
    ASSUME TypeInv, JobsTarget, [Next]_vars
    PROVE  JobsTarget'
BY MessagesStay, JobsAssumption DEF JobsTarget

\* Every step keeps the lease of a job with its execution.
LEMMA StepHolds ==
    ASSUME TypeInv, JobInv, [Next]_vars
    PROVE  ExecutionsHoldJob'
<1> SUFFICES ASSUME NEW c \in Consumers, consumer'[c].pc \notin {"idle", "ack"}
             PROVE  jobRun'[KeyOf(c)'] = "processing"
  BY DEF ExecutionsHoldJob, Executes
<1>1. ASSUME NEW m \in Msgs, ClaimJob(c, m), KeyOf(c)' = msg[m].key
      PROVE  jobRun'[KeyOf(c)'] = "processing"
  BY <1>1, ClaimStarts
<1>2. CASE /\ Executes(c) /\ KeyOf(c)' = KeyOf(c)
           /\ consumer'[c] = consumer[c] \/ Works(c)
  <2>1. consumer[c].msg \in Msgs /\ KeyOf(c) \in Keys /\ jobRun[KeyOf(c)] = "processing"
    BY <1>2 DEF Executes, KeyOf, TypeInv, Tables, Executions, TakenWasSent, MessageRows, JobInv,
       ExecutionsHoldJob
  <2>2. ASSUME NEW e \in Consumers, CompleteJob(e) \/ FailJob(e), KeyOf(e) = KeyOf(c) PROVE FALSE
    <3>1. consumer[e].pc \in {"finish", "fail"} /\ consumer'[e].pc \in {"ack", "idle"}
      <4>0. consumer \in [Consumers -> Consumer] /\ consumer[e] \in Consumer
        BY DEF TypeInv, Tables, Executions
      <4>1. CASE CompleteJob(e)
        BY <4>0, <4>1 DEF CompleteJob, Consumer
      <4>2. CASE FailJob(e)
        BY <4>0, <4>2 DEF FailJob, Free
      <4>3. QED
        BY <2>2, <4>1, <4>2
    <3>2. e = c
      BY <1>2, <2>2, <3>1 DEF JobInv, OneExecutionPerJob, Executes, KeyOf
    <3>3. QED
      BY <3>1, <3>2
  <2>3. ASSUME NEW e \in Consumers, NEW m \in Msgs, ClaimJob(e, m), KeyOf(c) = msg[m].key PROVE FALSE
    BY <2>1, <2>3, ClaimStarts DEF Claimable
  <2>4. ~JobLeaseExpires(KeyOf(c))
    BY <1>2 DEF JobLeaseExpires, Executes, KeyOf
  <2>5. jobRun'[KeyOf(c)] = jobRun[KeyOf(c)]
    BY <2>1, <2>2, <2>3, <2>4, JobRunStep
  <2>6. QED
    BY <1>2, <2>1, <2>5
<1>3. QED
  BY <1>1, <1>2, ExecutionStep

\* No step makes a second execution of a job.
LEMMA StepOnce ==
    ASSUME TypeInv, JobInv, [Next]_vars
    PROVE  OneExecutionPerJob'
<1> SUFFICES ASSUME NEW c \in Consumers, NEW e \in Consumers, c # e,
                    consumer'[c].pc \notin {"idle", "ack"}, consumer'[e].pc \notin {"idle", "ack"}
             PROVE  KeyOf(c)' # KeyOf(e)'
  BY DEF OneExecutionPerJob, KeyOf
<1>1. ASSUME NEW a \in Consumers, NEW b \in Consumers, a # b, consumer'[b].pc \notin {"idle", "ack"},
             NEW m \in Msgs, ClaimJob(a, m), KeyOf(a)' = msg[m].key
      PROVE  KeyOf(a)' # KeyOf(b)'
  <2>1. consumer'[b] = consumer[b] /\ Claimable(msg[m].key) /\ Executes(b)
    BY <1>1, ClaimStarts DEF Executes
  <2>2. ASSUME NEW n \in Msgs, ClaimJob(b, n) PROVE FALSE
    BY <2>1, <2>2 DEF ClaimJob, Executes
  <2>3. KeyOf(b)' = KeyOf(b)
    BY <1>1, <2>2, ExecutionStep
  <2>4. jobRun[KeyOf(b)] = "processing"
    BY <2>1 DEF JobInv, ExecutionsHoldJob
  <2>5. QED
    BY <1>1, <2>1, <2>3, <2>4 DEF Claimable
<1>2. CASE Executes(c) /\ KeyOf(c)' = KeyOf(c) /\ Executes(e) /\ KeyOf(e)' = KeyOf(e)
  BY <1>2 DEF Executes, KeyOf, JobInv, OneExecutionPerJob
<1>3. QED
  BY <1>1, <1>2, ExecutionStep

\* What the steps of an execution do to it.
LEMMA ListsRow ==
    ASSUME TypeInv, NEW c \in Consumers, ListDeliveries(c)
    PROVE  /\ consumer[c].pc = "list" /\ consumer'[c].pc = "loop"
           /\ consumer'[c].leasePending = consumer[c].leasePending
           /\ consumer'[c].todo = {<<d, delivery[d].attempts>> : d \in
                {e \in TargetOf(c) : delivery[e].status \in OpenStatuses /\ e \in active}}
           /\ UNCHANGED <<delivery, posts>>
<1> DEFINE todo == {<<d, delivery[d].attempts>> : d \in
                {e \in TargetOf(c) : delivery[e].status \in OpenStatuses /\ e \in active}}
<1>0. consumer \in [Consumers -> Consumer] /\ consumer[c] \in Consumer
  BY DEF TypeInv, Tables, Executions
<1>1. /\ consumer[c].pc = "list" /\ UNCHANGED <<delivery, posts>>
      /\ consumer' = [consumer EXCEPT ![c].pc = "loop", ![c].todo = todo]
  BY DEF ListDeliveries, TargetOf
<1> HIDE DEF todo
<1>2. /\ consumer'[c].pc = "loop" /\ consumer'[c].leasePending = consumer[c].leasePending
      /\ consumer'[c].todo = todo
  BY <1>0, <1>1 DEF Consumer
<1>3. QED
  BY <1>1, <1>2 DEF todo

\* A delivery on the list is leased for its POST, or left to whoever has it.
LEMMA ClaimsRow ==
    ASSUME TypeInv, NEW c \in Consumers, NEW t \in consumer[c].todo, ClaimDelivery(c, t[1], t[2])
    PROVE  /\ consumer[c].pc = "loop" /\ t[1] \in Deliveries /\ t[2] \in Nat
           /\ consumer'[c].todo = consumer[c].todo \ {t}
           /\ UNCHANGED posts
           /\ \/ /\ DeliveryClaimable(t[1])
                 /\ consumer'[c].pc = "post" /\ consumer'[c].current = t[1]
                 /\ consumer'[c].count = t[2]
                 /\ consumer'[c].leasePending = consumer[c].leasePending
                 /\ \A d \in Deliveries \ {t[1]} : delivery'[d] = delivery[d]
                 /\ delivery'[t[1]].status = "processing" /\ delivery'[t[1]].owner = c
                 /\ delivery'[t[1]].attempts = delivery[t[1]].attempts
              \/ /\ ~DeliveryClaimable(t[1])
                 /\ consumer'[c].pc = "loop" /\ consumer'[c].leasePending
                 /\ UNCHANGED delivery
<1>0. consumer \in [Consumers -> Consumer] /\ consumer[c] \in Consumer
  BY DEF TypeInv, Tables, Executions
<1>1. PICK d \in Deliveries, n \in Nat : t = <<d, n>> /\ d = t[1] /\ n = t[2]
  BY <1>0 DEF Consumer
<1>2. PICK rest : rest = consumer[c].todo \ {t}
  OBVIOUS
<1>3. consumer[c].pc = "loop" /\ UNCHANGED posts
  BY DEF ClaimDelivery
<1>4. CASE DeliveryClaimable(d)
  <2>1. /\ consumer' = [consumer EXCEPT ![c].pc = "post", ![c].todo = rest,
                                        ![c].current = d, ![c].count = n]
        /\ delivery' = [delivery EXCEPT ![d].status = "processing", ![d].owner = c,
                                        ![d].lease = "live"]
    BY <1>1, <1>2, <1>4 DEF ClaimDelivery
  <2>2. consumer'[c].pc = "post" /\ consumer'[c].current = d /\ consumer'[c].count = n
        /\ consumer'[c].todo = rest /\ consumer'[c].leasePending = consumer[c].leasePending
    BY <1>0, <2>1 DEF Consumer
  <2>3. /\ \A x \in Deliveries \ {d} : delivery'[x] = delivery[x]
        /\ delivery'[d].status = "processing" /\ delivery'[d].owner = c
        /\ delivery'[d].attempts = delivery[d].attempts
    BY <2>1 DEF TypeInv, Tables, Rows, Delivery
  <2>4. QED
    BY <1>1, <1>2, <1>3, <1>4, <2>2, <2>3
<1>5. CASE ~DeliveryClaimable(d)
  <2>1. /\ consumer' = [consumer EXCEPT ![c].todo = rest, ![c].leasePending = TRUE]
        /\ UNCHANGED delivery
    BY <1>1, <1>2, <1>5 DEF ClaimDelivery
  <2>2. consumer'[c].pc = "loop" /\ consumer'[c].leasePending /\ consumer'[c].todo = rest
    BY <1>0, <1>3, <2>1 DEF Consumer
  <2>3. QED
    BY <1>1, <1>2, <1>3, <1>5, <2>1, <2>2
<1>6. QED
  BY <1>4, <1>5

\* A POST is answered 2xx or not.
LEMMA PostsRow ==
    ASSUME TypeInv, NEW c \in Consumers, Post(c)
    PROVE  /\ consumer[c].pc = "post" /\ consumer'[c].pc = "record"
           /\ consumer'[c].todo = consumer[c].todo /\ consumer'[c].current = consumer[c].current
           /\ consumer'[c].count = consumer[c].count
           /\ consumer'[c].leasePending = consumer[c].leasePending
           /\ UNCHANGED delivery
           /\ posts'[consumer[c].current].made = posts[consumer[c].current].made + 1
           /\ consumer'[c].ok => posts'[consumer[c].current].answered
           /\ \A d \in Deliveries : /\ posts[d].made <= posts'[d].made
                                    /\ posts[d].answered => posts'[d].answered
<1>0. consumer \in [Consumers -> Consumer] /\ consumer[c] \in Consumer
  BY DEF TypeInv, Tables, Executions
<1>1. PICK ok \in BOOLEAN :
        /\ consumer' = [consumer EXCEPT ![c].pc = "record", ![c].ok = ok]
        /\ posts' = [posts EXCEPT ![consumer[c].current] =
                       [made |-> @.made + 1, answered |-> @.answered \/ ok]]
  BY DEF Post
<1>2. consumer[c].pc = "post" /\ UNCHANGED delivery /\ consumer[c].current \in Deliveries
  BY DEF Post, TypeInv, Tables, Executions
<1>3. /\ consumer'[c].pc = "record" /\ consumer'[c].ok = ok
      /\ consumer'[c].todo = consumer[c].todo /\ consumer'[c].current = consumer[c].current
      /\ consumer'[c].count = consumer[c].count
      /\ consumer'[c].leasePending = consumer[c].leasePending
  BY <1>0, <1>1 DEF Consumer
<1>4. posts \in [Deliveries -> [made: Nat, answered: BOOLEAN]]
  BY DEF TypeInv, Tables, Rows
<1>5. /\ posts'[consumer[c].current].made = posts[consumer[c].current].made + 1
      /\ ok => posts'[consumer[c].current].answered
      /\ \A d \in Deliveries : /\ posts[d].made <= posts'[d].made
                               /\ posts[d].answered => posts'[d].answered
  BY <1>1, <1>2, <1>4
<1>6. QED
  BY <1>2, <1>3, <1>5

\* An answer is recorded on the row its execution still owns.
LEMMA RecordsRow ==
    ASSUME TypeInv, NEW c \in Consumers, Record(c)
    PROVE  /\ consumer[c].pc = "record" /\ consumer[c].current \in Deliveries
           /\ consumer'[c].pc = IF consumer[c].ok THEN "loop" ELSE "fail"
           /\ consumer'[c].todo = consumer[c].todo
           /\ consumer'[c].leasePending = consumer[c].leasePending
           /\ UNCHANGED posts
           /\ \A d \in Deliveries \ {consumer[c].current} : delivery'[d] = delivery[d]
           /\ \/ /\ delivery[consumer[c].current].owner = c
                 /\ delivery'[consumer[c].current].owner = None
                 /\ delivery'[consumer[c].current].attempts = consumer[c].count + 1
                 /\ delivery'[consumer[c].current].status =
                      RecordedStatus(consumer[c].ok, consumer[c].count + 1)
              \/ /\ delivery[consumer[c].current].owner # c
                 /\ UNCHANGED delivery
<1>0. consumer \in [Consumers -> Consumer] /\ consumer[c] \in Consumer
  BY DEF TypeInv, Tables, Executions
<1>1. consumer[c].pc = "record" /\ consumer[c].current \in Deliveries /\ UNCHANGED posts
  BY DEF Record, TypeInv, Tables, Executions
<1>2. /\ consumer'[c].pc = IF consumer[c].ok THEN "loop" ELSE "fail"
      /\ consumer'[c].todo = consumer[c].todo
      /\ consumer'[c].leasePending = consumer[c].leasePending
  BY <1>0 DEF Record, Consumer
<1>3. CASE delivery[consumer[c].current].owner = c
  <2>1. delivery' = [delivery EXCEPT ![consumer[c].current] =
                       [status |-> RecordedStatus(consumer[c].ok, consumer[c].count + 1),
                        owner |-> None, lease |-> "none", attempts |-> consumer[c].count + 1]]
    BY <1>3 DEF Record, Owns, Counted
  <2>2. QED
    BY <1>1, <1>2, <1>3, <2>1 DEF TypeInv, Tables, Rows
<1>4. CASE delivery[consumer[c].current].owner # c
  <2>1. UNCHANGED delivery
    BY <1>4 DEF Record, Owns
  <2>2. QED
    BY <1>1, <1>2, <1>4, <2>1
<1>5. QED
  BY <1>3, <1>4

\* A loop ends when nothing is left on its list.
LEMMA EndsRow ==
    ASSUME TypeInv, NEW c \in Consumers, LoopEnds(c) \/ CompleteJob(c) \/ Throw(c)
    PROVE  /\ UNCHANGED <<delivery, posts>>
           /\ \/ /\ LoopEnds(c) /\ consumer[c].pc = "loop" /\ consumer[c].todo = {}
                 /\ consumer'[c].todo = {}
                 /\ consumer'[c].leasePending = consumer[c].leasePending
                 /\ consumer'[c].pc = IF consumer[c].leasePending THEN "fail" ELSE "finish"
              \/ /\ CompleteJob(c) /\ consumer[c].pc = "finish" /\ consumer'[c].pc = "ack"
                 /\ consumer'[c].todo = consumer[c].todo
              \/ /\ Throw(c) /\ consumer'[c].pc = "fail"
                 /\ consumer'[c].todo = consumer[c].todo
<1>0. consumer \in [Consumers -> Consumer] /\ consumer[c] \in Consumer
  BY DEF TypeInv, Tables, Executions
<1>1. CASE LoopEnds(c)
  BY <1>0, <1>1 DEF LoopEnds, RunSucceeded, Consumer
<1>2. CASE CompleteJob(c)
  BY <1>0, <1>2 DEF CompleteJob, Consumer
<1>3. CASE Throw(c)
  BY <1>0, <1>3 DEF Throw, Consumer
<1>4. QED
  BY <1>1, <1>2, <1>3

\* Every step keeps an execution to the deliveries of its job.
LEMMA StepListsOwn ==
    ASSUME TypeInv, JobInv, [Next]_vars
    PROVE  ListsOwn'
<1> SUFFICES ASSUME NEW c \in Consumers, consumer'[c].pc \notin {"idle", "ack"}
             PROVE  /\ \A t \in consumer'[c].todo : t[1] \in TargetOf(c)'
                    /\ consumer'[c].pc \in {"post", "record"} =>
                          consumer'[c].current \in TargetOf(c)'
  BY DEF ListsOwn, Executes
<1>1. ASSUME Executes(c), TargetOf(c)' = TargetOf(c), Works(c)
      PROVE  /\ \A t \in consumer'[c].todo : t[1] \in TargetOf(c)
             /\ consumer'[c].pc \in {"post", "record"} => consumer'[c].current \in TargetOf(c)
  <2>0. /\ \A t \in consumer[c].todo : t[1] \in TargetOf(c)
        /\ consumer[c].pc \in {"post", "record"} => consumer[c].current \in TargetOf(c)
    BY <1>1 DEF JobInv, ListsOwn
  <2>1. CASE ListDeliveries(c)
    BY <2>1, ListsRow
  <2>2. ASSUME NEW t \in consumer[c].todo, ClaimDelivery(c, t[1], t[2])
        PROVE  /\ \A u \in consumer'[c].todo : u[1] \in TargetOf(c)
               /\ consumer'[c].pc \in {"post", "record"} => consumer'[c].current \in TargetOf(c)
    BY <2>0, <2>2, ClaimsRow
  <2>3. CASE Post(c)
    BY <2>0, <2>3, PostsRow
  <2>4. CASE Record(c)
    BY <2>0, <2>4, RecordsRow
  <2>5. CASE LoopEnds(c) \/ Throw(c) \/ CompleteJob(c)
    <3>1. consumer'[c].pc \notin {"post", "record"}
      BY <2>5, EndsRow
    <3>2. consumer'[c].pc # "ack"
      OBVIOUS
    <3>3. QED
      BY <2>0, <2>5, <3>1, <3>2, EndsRow
  <2>6. QED
    BY <1>1, <2>1, <2>2, <2>3, <2>4, <2>5 DEF Works
<1>2. QED
  BY <1>1, ExecutionStep DEF JobInv, ListsOwn

\* A job has one execution at a time, whose lease it keeps.
LEMMA JobStep ==
    ASSUME TypeInv, JobInv, [Next]_vars
    PROVE  JobInv'
BY StepTarget, StepHolds, StepOnce, StepListsOwn DEF JobInv

\* The initial states satisfy the invariant.
LEMMA JobInit == Init => JobInv
<1>1. Free.pc = "idle"
  BY DEF Free
<1>2. QED
  BY <1>1 DEF Init, JobInv, JobsTarget, ExecutionsHoldJob, OneExecutionPerJob, ListsOwn, Executes

-----------------------------------------------------------------------------
(* What ends a job                                                         *)

\* Only a delivery that is being made has an owner.
OwnedIsOpen == \A d \in Deliveries : delivery[d].owner # None => delivery[d].status = "processing"

Ended(d) == delivery[d].status \in TerminalStatuses

\* A delivery the merchant has left alone
Plain(d) == d \in active \ resent

\* The outbox's execution is the only one that makes a plain delivery, and it
\* owns the one it is making.
MakesItsOwn ==
    \A c \in Consumers :
        consumer[c].pc \in {"post", "record"} /\ Plain(consumer[c].current) =>
            delivery[consumer[c].current].owner = c

\* The outbox's execution has still to do what has not ended.
ToDo(c, d) ==
    \/ \E t \in consumer[c].todo : t[1] = d
    \/ consumer[c].pc \in {"post", "record"} /\ consumer[c].current = d
    \/ consumer[c].leasePending
StillToDo ==
    \A c \in Consumers :
        consumer[c].pc \in {"loop", "post", "record", "finish"} /\ KeyOf(c) = Outbox =>
            \A d \in Deliveries : Plain(d) => Ended(d) \/ ToDo(c, d)

\* An execution that is about to complete its job has nothing left to do.
FinishedIsDone ==
    \A c \in Consumers : consumer[c].pc = "finish" =>
        consumer[c].todo = {} /\ ~consumer[c].leasePending

\* The job of the outbox row, or the row itself, is completed.
OutboxIsDone == outbox = "completed" \/ jobRun[Outbox] = "completed"
DoneIsDelivered == OutboxIsDone => \A d \in Deliveries : Plain(d) => Ended(d)

EndInv == OwnedIsOpen /\ MakesItsOwn /\ StillToDo /\ FinishedIsDone /\ DoneIsDelivered

\* What the merchant has touched stays touched.
LEMMA PlainStays ==
    ASSUME [Next]_vars
    PROVE  resent \subseteq resent' /\ active' \subseteq active
<1>1. CASE Flushes \/ UNCHANGED vars
  BY <1>1 DEF Flushes, FlushRead, FlushSend, FlushMark, FlushThrows, FlushCrash, vars
<1>2. CASE Elsewhere
  BY <1>2 DEF Elsewhere, DeliveryLeaseExpires, Resend, ResendNotSent, DisableEndpoint,
     JobLeaseExpires
<1>3. ASSUME NEW c \in Consumers, Claims(c) \/ Works(c) \/ Leaves(c)
      PROVE  UNCHANGED <<resent, active>>
  BY <1>3 DEF Claims, Works, Leaves, ClaimJob, ClaimCompleted, ClaimLeased, ListDeliveries, Post,
     Record, LoopEnds, CompleteJob, Throw, ClaimDelivery, Ack, FailJob, ConsumerCrash
<1>4. QED
  BY <1>1, <1>2, <1>3, StepCases

\* What happens to a delivery's row.
LEMMA DeliveryStep ==
    ASSUME TypeInv, [Next]_vars, NEW d \in Deliveries
    PROVE  \/ /\ delivery'[d].status = delivery[d].status
              /\ delivery'[d].owner = delivery[d].owner
              /\ delivery'[d].attempts = delivery[d].attempts
           \/ \E c \in Consumers : \E t \in consumer[c].todo :
                 ClaimDelivery(c, t[1], t[2]) /\ t[1] = d /\ DeliveryClaimable(d)
           \/ \E c \in Consumers :
                 Record(c) /\ consumer[c].current = d /\ delivery[d].owner = c
           \/ /\ delivery'[d].status = "pending" /\ delivery'[d].owner = None
              /\ delivery'[d].attempts = delivery[d].attempts
              /\ d \in resent' /\ merchant' = merchant + 1
<1>0. delivery \in [Deliveries -> Delivery] /\ delivery[d] \in Delivery
  BY DEF TypeInv, Tables, Rows
<1>1. CASE Flushes \/ UNCHANGED vars
  BY <1>1 DEF Flushes, FlushRead, FlushSend, FlushMark, FlushThrows, FlushCrash, vars
<1>2. CASE \E e \in Deliveries : DeliveryLeaseExpires(e)
  BY <1>0, <1>2 DEF DeliveryLeaseExpires, Delivery
<1>3. CASE \E e \in Deliveries : Resend(e) \/ ResendNotSent(e)
  BY <1>0, <1>3 DEF Resend, ResendNotSent, Delivery
<1>4. CASE (\E e \in Deliveries : DisableEndpoint(e)) \/ (\E k \in Keys : JobLeaseExpires(k))
  BY <1>4 DEF DisableEndpoint, JobLeaseExpires
<1>5. ASSUME NEW c \in Consumers, Claims(c) \/ Leaves(c) PROVE UNCHANGED delivery
  BY <1>5 DEF Claims, Leaves, ClaimJob, ClaimCompleted, ClaimLeased, Ack, FailJob, ConsumerCrash
<1>6. ASSUME NEW c \in Consumers, ListDeliveries(c) \/ Post(c) \/ LoopEnds(c) \/ CompleteJob(c)
                                    \/ Throw(c)
      PROVE UNCHANGED delivery
  BY <1>6 DEF ListDeliveries, Post, LoopEnds, CompleteJob, Throw
<1>7. ASSUME NEW c \in Consumers, Record(c)
      PROVE  \/ delivery'[d] = delivery[d]
             \/ consumer[c].current = d /\ delivery[d].owner = c
  BY <1>7, RecordsRow
<1>8. ASSUME NEW c \in Consumers, NEW t \in consumer[c].todo, ClaimDelivery(c, t[1], t[2])
      PROVE  delivery'[d] = delivery[d] \/ (t[1] = d /\ DeliveryClaimable(d))
  <2>1. CASE t[1] = d
    BY <1>8, <2>1, ClaimsRow
  <2>2. CASE t[1] # d
    BY <1>8, <2>2, ClaimsRow
  <2>3. QED
    BY <2>1, <2>2
<1>9. QED
  BY <1>1, <1>2, <1>3, <1>4, <1>5, <1>6, <1>7, <1>8, StepCases DEF Elsewhere, Works

\* A plain delivery that has ended has ended for good.
LEMMA EndedStays ==
    ASSUME TypeInv, OwnedIsOpen, [Next]_vars, NEW d \in Deliveries, Ended(d)
    PROVE  \/ delivery'[d].status = delivery[d].status
           \/ delivery'[d].status = "pending" /\ d \in resent' /\ merchant' = merchant + 1
<1>1. delivery[d].status \in {"delivered", "dead"} /\ delivery[d].owner = None
  BY DEF Ended, TerminalStatuses, OwnedIsOpen
<1>2. ~DeliveryClaimable(d)
  BY <1>1 DEF DeliveryClaimable
<1>3. delivery[d].owner \notin Consumers
  BY <1>1, JobsAssumption
<1>4. QED
  BY <1>2, <1>3, DeliveryStep

\* Two executions never make the same plain delivery.
LEMMA PlainIsAlone ==
    ASSUME TypeInv, JobInv, NEW c \in Consumers, Executes(c), NEW d \in Deliveries, Plain(d),
           d \in TargetOf(c)
    PROVE  /\ KeyOf(c) = Outbox
           /\ \A e \in Consumers : Executes(e) /\ d \in TargetOf(e) => e = c
<1>1. ASSUME NEW e \in Consumers, Executes(e), d \in TargetOf(e) PROVE KeyOf(e) = Outbox
  <2>1. consumer[e].msg \in Msgs /\ msg[consumer[e].msg].state # "unsent"
    BY <1>1 DEF Executes, TypeInv, Tables, Executions, TakenWasSent
  <2>2. QED
    BY <1>1, <2>1 DEF JobInv, JobsTarget, Plain, TargetOf, KeyOf
<1>2. QED
  BY <1>1 DEF JobInv, OneExecutionPerJob, Executes, KeyOf

\* Every step keeps an owner's delivery open.
LEMMA StepOwned ==
    ASSUME TypeInv, OwnedIsOpen, [Next]_vars
    PROVE  OwnedIsOpen'
<1> SUFFICES ASSUME NEW d \in Deliveries, delivery'[d].owner # None
             PROVE  delivery'[d].status = "processing"
  BY DEF OwnedIsOpen
<1>1. ASSUME NEW c \in Consumers, NEW t \in consumer[c].todo, ClaimDelivery(c, t[1], t[2]),
             t[1] = d, DeliveryClaimable(d)
      PROVE  delivery'[d].status = "processing"
  BY <1>1, ClaimsRow
<1>2. ASSUME NEW c \in Consumers, Record(c), consumer[c].current = d, delivery[d].owner = c
      PROVE  delivery'[d].owner = None
  BY <1>2, RecordsRow
<1>3. QED
  BY <1>1, <1>2, DeliveryStep DEF OwnedIsOpen

\* Every step keeps the outbox's execution the owner of what it makes.
LEMMA StepMakes ==
    ASSUME TypeInv, JobInv, EndInv, [Next]_vars
    PROVE  MakesItsOwn'
<1> SUFFICES ASSUME NEW c \in Consumers, consumer'[c].pc \in {"post", "record"},
                    Plain(consumer[c].current)'
             PROVE  delivery'[consumer'[c].current].owner = c
  BY DEF MakesItsOwn
<1>0. Plain(consumer'[c].current)
  BY PlainStays DEF Plain
<1>1. CASE Executes(c) /\ consumer'[c] = consumer[c]
  <2> DEFINE d == consumer[c].current
  <2>1. d \in Deliveries /\ Plain(d) /\ d \in TargetOf(c) /\ d \notin resent'
    BY <1>0, <1>1 DEF TypeInv, Tables, Executions, JobInv, ListsOwn, Plain
  <2>2. delivery[d].owner = c
    BY <1>0, <1>1 DEF EndInv, MakesItsOwn
  <2> HIDE DEF d
  <2>3. ASSUME NEW e \in Consumers, NEW t \in consumer[e].todo, ClaimDelivery(e, t[1], t[2]),
               t[1] = d
        PROVE  FALSE
    <3>1. consumer[e].pc = "loop" /\ consumer[e].pc \notin {"idle", "ack"}
      BY <2>3, ClaimsRow
    <3>2. Executes(e) /\ d \in TargetOf(e)
      BY <2>3, <3>1 DEF JobInv, ListsOwn, Executes
    <3>3. e = c
      BY <1>1, <2>1, <3>2, PlainIsAlone
    <3>4. QED
      BY <1>1, <3>1, <3>3
  <2>4. ASSUME NEW e \in Consumers, Record(e), delivery[d].owner = e PROVE FALSE
    <3>1. e = c /\ consumer'[e].pc \in {"loop", "fail"}
      BY <2>2, <2>4, RecordsRow
    <3>2. QED
      BY <3>1
  <2>5. delivery'[d].owner = delivery[d].owner
    BY <2>1, <2>3, <2>4, DeliveryStep
  <2>6. QED
    BY <1>1, <2>2, <2>5 DEF d
<1>2. CASE Works(c)
  <2>1. CASE ListDeliveries(c)
    BY <2>1, ListsRow
  <2>2. ASSUME NEW t \in consumer[c].todo, ClaimDelivery(c, t[1], t[2])
        PROVE  delivery'[consumer'[c].current].owner = c
    BY <2>2, ClaimsRow
  <2>3. CASE Post(c)
    BY <1>0, <2>3, PostsRow DEF EndInv, MakesItsOwn
  <2>4. CASE Record(c)
    BY <2>4, RecordsRow
  <2>5. CASE LoopEnds(c) \/ Throw(c) \/ CompleteJob(c)
    BY <2>5, EndsRow
  <2>6. QED
    BY <1>2, <2>1, <2>2, <2>3, <2>4, <2>5 DEF Works
<1>3. QED
  BY <1>1, <1>2, ExecutionStep

\* Every step of the outbox's execution leaves it what has not ended.
LEMMA StepToDo ==
    ASSUME TypeInv, JobInv, EndInv, [Next]_vars
    PROVE  StillToDo'
<1> SUFFICES ASSUME NEW c \in Consumers, KeyOf(c)' = Outbox, NEW d \in Deliveries, Plain(d)',
                    consumer'[c].pc \in {"loop", "post", "record", "finish"}
             PROVE  Ended(d)' \/ ToDo(c, d)'
  BY DEF StillToDo
<1>1. Plain(d) /\ d \notin resent'
  BY PlainStays DEF Plain
<1>2. Ended(d) => Ended(d)'
  BY <1>1, EndedStays DEF EndInv, Ended
<1>3. /\ Executes(c) /\ KeyOf(c) = Outbox
      /\ consumer'[c] = consumer[c] \/ Works(c)
  BY ExecutionStep
<1>4. consumer[c].pc \in {"loop", "post", "record", "finish"} => Ended(d) \/ ToDo(c, d)
  BY <1>1, <1>3 DEF EndInv, StillToDo
<1>5. CASE consumer'[c] = consumer[c]
  BY <1>2, <1>4, <1>5 DEF ToDo
<1>6. CASE ListDeliveries(c)
  <2>1. d \in TargetOf(c)
    <3>1. consumer[c].msg \in Msgs /\ msg[consumer[c].msg].state # "unsent"
      BY <1>3 DEF Executes, TypeInv, Tables, Executions, TakenWasSent
    <3>2. QED
      BY <1>3, <3>1 DEF JobInv, JobsTarget, TargetOf, KeyOf
  <2>2. d \in active /\ delivery[d].status \in OpenStatuses \cup TerminalStatuses
    BY <1>1 DEF Plain, TypeInv, Tables, Rows, Delivery
  <2>3. ASSUME delivery[d].status \in OpenStatuses
        PROVE  <<d, delivery[d].attempts>> \in consumer'[c].todo
    BY <1>6, <2>1, <2>2, <2>3, ListsRow
  <2>4. ASSUME delivery[d].status \in OpenStatuses PROVE ToDo(c, d)'
    BY <2>3, <2>4 DEF ToDo
  <2>5. QED
    BY <1>2, <2>2, <2>4 DEF Ended
<1>7. ASSUME NEW t \in consumer[c].todo, ClaimDelivery(c, t[1], t[2])
      PROVE  Ended(d)' \/ ToDo(c, d)'
  <2>1. Ended(d) \/ consumer[c].leasePending \/ \E u \in consumer[c].todo : u[1] = d
    BY <1>4, <1>7, ClaimsRow DEF ToDo
  <2>2. CASE consumer[c].leasePending
    BY <1>7, <2>2, ClaimsRow DEF ToDo
  <2>3. ASSUME NEW u \in consumer[c].todo, u[1] = d PROVE ToDo(c, d)'
    <3>1. CASE u = t
      BY <1>7, <2>3, <3>1, ClaimsRow DEF ToDo
    <3>2. CASE u # t
      <4>1. u \in consumer'[c].todo
        BY <1>7, <2>3, <3>2, ClaimsRow
      <4>2. QED
        BY <2>3, <4>1 DEF ToDo
    <3>3. QED
      BY <3>1, <3>2
  <2>4. QED
    BY <1>2, <2>1, <2>2, <2>3
<1>8. CASE Post(c)
  BY <1>2, <1>4, <1>8, PostsRow DEF ToDo
<1>9. CASE Record(c)
  <2>1. consumer[c].pc = "record" /\ consumer[c].ok
    BY <1>9, RecordsRow
  <2>2. CASE consumer[c].current = d
    <3>1. delivery[d].owner = c
      BY <1>1, <2>1, <2>2 DEF EndInv, MakesItsOwn
    <3>2. delivery'[d].status = "delivered"
      BY <1>9, <2>1, <2>2, <3>1, RecordsRow DEF RecordedStatus
    <3>3. QED
      BY <3>2 DEF Ended, TerminalStatuses
  <2>3. CASE consumer[c].current # d
    BY <1>2, <1>4, <1>9, <2>1, <2>3, RecordsRow DEF ToDo
  <2>4. QED
    BY <2>2, <2>3
<1>10. CASE LoopEnds(c) \/ CompleteJob(c) \/ Throw(c)
  BY <1>2, <1>4, <1>10, EndsRow DEF ToDo
<1>11. QED
  BY <1>3, <1>5, <1>6, <1>7, <1>8, <1>9, <1>10 DEF Works

\* An execution comes to its end when its list is empty.
LEMMA StepFinished ==
    ASSUME TypeInv, FinishedIsDone, [Next]_vars
    PROVE  FinishedIsDone'
<1> SUFFICES ASSUME NEW c \in Consumers, consumer'[c].pc = "finish"
             PROVE  consumer'[c].todo = {} /\ ~consumer'[c].leasePending
  BY DEF FinishedIsDone
<1>1. CASE consumer'[c] = consumer[c]
  BY <1>1 DEF FinishedIsDone
<1>2. CASE Works(c)
  <2>1. ASSUME NEW t \in consumer[c].todo, ClaimDelivery(c, t[1], t[2]) PROVE FALSE
    BY <2>1, ClaimsRow
  <2>2. ~ListDeliveries(c) /\ ~Post(c) /\ ~Record(c)
    BY ListsRow, PostsRow, RecordsRow
  <2>3. CASE LoopEnds(c) \/ CompleteJob(c) \/ Throw(c)
    BY <2>3, EndsRow
  <2>4. QED
    BY <1>2, <2>1, <2>2, <2>3 DEF Works
<1>3. QED
  BY <1>1, <1>2, ExecutionStep

\* The outbox's job is done only by the end of its execution.
LEMMA OutboxStep ==
    ASSUME TypeInv, [Next]_vars, OutboxIsDone'
    PROVE  \/ OutboxIsDone
           \/ \E c \in Consumers : CompleteJob(c) /\ KeyOf(c) = Outbox
<1>1. ASSUME jobRun'[Outbox] = "completed", jobRun[Outbox] # "completed"
      PROVE  \E c \in Consumers : CompleteJob(c) /\ KeyOf(c) = Outbox
  <2>1. Outbox \in Keys /\ jobRun \in [Keys -> JobRun]
    BY DEF Keys, TypeInv, Tables, Rows
  <2>2. ASSUME NEW c \in Consumers, NEW m \in Msgs, ClaimJob(c, m), Outbox = msg[m].key PROVE FALSE
    BY <1>1, <2>2, ClaimStarts
  <2>3. ASSUME NEW c \in Consumers, FailJob(c), KeyOf(c) = Outbox PROVE FALSE
    BY <1>1, <2>1, <2>3 DEF FailJob, KeyOf
  <2>4. ~JobLeaseExpires(Outbox)
    BY <1>1, <2>1 DEF JobLeaseExpires
  <2>5. QED
    BY <1>1, <2>1, <2>2, <2>3, <2>4, JobRunStep
<1>2. ASSUME outbox' = "completed", outbox # "completed"
      PROVE  \/ jobRun[Outbox] = "completed"
             \/ \E c \in Consumers : CompleteJob(c) /\ KeyOf(c) = Outbox
  <2>1. ~(Flushes \/ Elsewhere \/ UNCHANGED vars)
    BY <1>2 DEF Flushes, FlushRead, FlushSend, FlushMark, FlushThrows, FlushCrash, Elsewhere,
       DeliveryLeaseExpires, Resend, ResendNotSent, DisableEndpoint, JobLeaseExpires, vars
  <2>2. ASSUME NEW c \in Consumers, Leaves(c) PROVE FALSE
    BY <1>2, <2>2 DEF Leaves, Ack, FailJob, ConsumerCrash
  <2>3. ASSUME NEW c \in Consumers, Claims(c) PROVE jobRun[Outbox] = "completed"
    BY <1>2, <2>3 DEF Claims, ClaimJob, ClaimCompleted, ClaimLeased, OutboxAfter
  <2>4. ASSUME NEW c \in Consumers, Works(c) PROVE CompleteJob(c) /\ KeyOf(c) = Outbox
    BY <1>2, <2>4 DEF Works, ListDeliveries, Post, Record, LoopEnds, CompleteJob, Throw,
       ClaimDelivery, OutboxAfter, KeyOf
  <2>5. QED
    BY <2>1, <2>2, <2>3, <2>4, StepCases
<1>3. QED
  BY <1>1, <1>2 DEF OutboxIsDone

\* The outbox's job is not done before its deliveries have ended.
LEMMA StepDone ==
    ASSUME TypeInv, JobInv, EndInv, [Next]_vars
    PROVE  DoneIsDelivered'
<1> SUFFICES ASSUME OutboxIsDone', NEW d \in Deliveries, Plain(d)'
             PROVE  Ended(d)'
  BY DEF DoneIsDelivered
<1>1. Plain(d) /\ d \notin resent'
  BY PlainStays DEF Plain
<1>2. Ended(d) => Ended(d)'
  BY <1>1, EndedStays DEF EndInv, Ended
<1>3. ASSUME NEW c \in Consumers, CompleteJob(c), KeyOf(c) = Outbox PROVE Ended(d)
  <2>1. consumer[c].pc = "finish"
    BY <1>3 DEF CompleteJob
  <2>2. ~ToDo(c, d)
    BY <2>1 DEF EndInv, FinishedIsDone, ToDo
  <2>3. QED
    BY <1>1, <1>3, <2>1, <2>2 DEF EndInv, StillToDo
<1>4. QED
  BY <1>1, <1>2, <1>3, OutboxStep DEF EndInv, DoneIsDelivered

\* Every step keeps what ends a job.
LEMMA EndStep ==
    ASSUME TypeInv, JobInv, EndInv, [Next]_vars
    PROVE  EndInv'
BY StepOwned, StepMakes, StepToDo, StepFinished, StepDone DEF EndInv

\* The initial states satisfy the invariant.
LEMMA EndInit == Init => EndInv
<1>1. Free.pc = "idle"
  BY DEF Free
<1>2. QED
  BY <1>1 DEF Init, EndInv, OwnedIsOpen, MakesItsOwn, StillToDo, FinishedIsDone, DoneIsDelivered,
     OutboxIsDone, Keys

-----------------------------------------------------------------------------
(* What earns an end                                                       *)

\* The attempts that were counted, on the rows and on the lists, were made.
RowsAreMade == \A d \in Deliveries : delivery[d].attempts <= posts[d].made
ListsAreMade ==
    \A c \in Consumers :
        /\ \A t \in consumer[c].todo : t[2] <= posts[t[1]].made
        /\ consumer[c].pc = "post" => consumer[c].count <= posts[consumer[c].current].made
        /\ consumer[c].pc = "record" => consumer[c].count + 1 <= posts[consumer[c].current].made

\* A 2xx that is about to be recorded was answered.
OkIsAnswered ==
    \A c \in Consumers : consumer[c].pc = "record" /\ consumer[c].ok =>
        posts[consumer[c].current].answered

EarnInv == RowsAreMade /\ ListsAreMade /\ OkIsAnswered /\ TerminalIsEarned

\* POSTs are never taken back.
LEMMA PostsStay ==
    ASSUME TypeInv, [Next]_vars, NEW d \in Deliveries
    PROVE  /\ posts[d].made \in Nat /\ posts'[d].made \in Nat
           /\ posts[d].made <= posts'[d].made
           /\ posts[d].answered => posts'[d].answered
<1>0. posts[d].made \in Nat /\ posts'[d].made \in Nat
  BY StepType DEF TypeInv, Tables, Rows
<1>1. ASSUME Flushes \/ Elsewhere \/ UNCHANGED vars PROVE UNCHANGED posts
  <2>1. CASE Flushes
    BY <2>1 DEF Flushes, FlushRead, FlushSend, FlushMark, FlushThrows, FlushCrash
  <2>2. CASE Elsewhere
    BY <2>2 DEF Elsewhere, DeliveryLeaseExpires, Resend, ResendNotSent, DisableEndpoint,
       JobLeaseExpires
  <2>3. CASE UNCHANGED vars
    BY <2>3 DEF vars
  <2>4. QED
    BY <1>1, <2>1, <2>2, <2>3
<1>2. ASSUME NEW c \in Consumers, Claims(c) \/ Leaves(c) PROVE UNCHANGED posts
  BY <1>2 DEF Claims, Leaves, ClaimJob, ClaimCompleted, ClaimLeased, Ack, FailJob, ConsumerCrash
<1>3. ASSUME NEW c \in Consumers, Works(c)
      PROVE  posts[d].made <= posts'[d].made /\ (posts[d].answered => posts'[d].answered)
  <2>1. CASE Post(c)
    BY <2>1, PostsRow
  <2>2. CASE UNCHANGED posts
    BY <1>0, <2>2
  <2>3. QED
    BY <1>3, <2>1, <2>2 DEF Works, ListDeliveries, Record, LoopEnds, CompleteJob, Throw, ClaimDelivery
<1>4. QED
  BY <1>0, <1>1, <1>2, <1>3, StepCases

\* What an execution has listed are deliveries and counts of theirs.
LEMMA Listed ==
    ASSUME TypeInv, NEW c \in Consumers, NEW t \in consumer[c].todo
    PROVE  t[1] \in Deliveries /\ t[2] \in Nat
BY DEF TypeInv, Tables, Executions, Consumer

\* Every step keeps a row's count behind its POSTs.
LEMMA StepRowsMade ==
    ASSUME TypeInv, EarnInv, [Next]_vars
    PROVE  RowsAreMade'
<1> SUFFICES ASSUME NEW d \in Deliveries PROVE delivery'[d].attempts <= posts'[d].made
  BY DEF RowsAreMade
<1>1. /\ delivery[d].attempts \in Nat /\ posts[d].made \in Nat /\ posts'[d].made \in Nat
      /\ delivery[d].attempts <= posts[d].made /\ posts[d].made <= posts'[d].made
  BY PostsStay DEF TypeInv, Tables, Rows, Delivery, EarnInv, RowsAreMade
<1>2. CASE delivery'[d].attempts = delivery[d].attempts
  BY <1>1, <1>2
<1>3. ASSUME NEW c \in Consumers, Record(c), consumer[c].current = d, delivery[d].owner = c
      PROVE  delivery'[d].attempts <= posts'[d].made
  <2>1. delivery'[d].attempts = consumer[c].count + 1 /\ consumer[c].pc = "record"
    BY <1>3, RecordsRow
  <2>2. consumer[c].count \in Nat /\ consumer[c].count + 1 <= posts[d].made
    BY <1>3, <2>1 DEF TypeInv, Tables, Executions, Consumer, EarnInv, ListsAreMade
  <2>3. QED
    BY <1>1, <2>1, <2>2
<1>4. ASSUME NEW c \in Consumers, NEW t \in consumer[c].todo, ClaimDelivery(c, t[1], t[2]), t[1] = d,
             DeliveryClaimable(d)
      PROVE  delivery'[d].attempts = delivery[d].attempts
  BY <1>4, ClaimsRow
<1>5. QED
  BY <1>2, <1>3, <1>4, DeliveryStep

\* Every step keeps a list's counts behind the POSTs.
LEMMA StepListsMade ==
    ASSUME TypeInv, EarnInv, [Next]_vars
    PROVE  ListsAreMade'
<1> SUFFICES ASSUME NEW c \in Consumers
             PROVE  /\ \A t \in consumer'[c].todo : t[2] <= posts'[t[1]].made
                    /\ consumer'[c].pc = "post" =>
                          consumer'[c].count <= posts'[consumer'[c].current].made
                    /\ consumer'[c].pc = "record" =>
                          consumer'[c].count + 1 <= posts'[consumer'[c].current].made
  BY DEF ListsAreMade
<1>0. consumer[c].count \in Nat /\ (consumer[c].pc \in {"post", "record"} =>
                                      consumer[c].current \in Deliveries)
  BY DEF TypeInv, Tables, Executions, Consumer
<1>1. \A t \in consumer[c].todo : t[2] <= posts'[t[1]].made
  <2>1. ASSUME NEW t \in consumer[c].todo PROVE t[2] <= posts'[t[1]].made
    <3>1. t[1] \in Deliveries /\ t[2] \in Nat /\ t[2] <= posts[t[1]].made
      BY Listed DEF EarnInv, ListsAreMade
    <3>2. QED
      BY <3>1, PostsStay
  <2>2. QED
    BY <2>1
<1>2. CASE consumer'[c] = consumer[c]
  <2>1. ASSUME consumer[c].pc = "post" PROVE consumer[c].count <= posts'[consumer[c].current].made
    <3>1. consumer[c].count <= posts[consumer[c].current].made
      BY <2>1 DEF EarnInv, ListsAreMade
    <3>2. QED
      BY <1>0, <2>1, <3>1, PostsStay
  <2>2. ASSUME consumer[c].pc = "record"
        PROVE  consumer[c].count + 1 <= posts'[consumer[c].current].made
    <3>1. consumer[c].count + 1 <= posts[consumer[c].current].made
      BY <2>2 DEF EarnInv, ListsAreMade
    <3>2. QED
      BY <1>0, <2>2, <3>1, PostsStay
  <2>3. QED
    BY <1>1, <1>2, <2>1, <2>2
<1>3. CASE ListDeliveries(c)
  <2>1. \A d \in Deliveries : delivery[d].attempts <= posts[d].made
    BY DEF EarnInv, RowsAreMade
  <2>2. UNCHANGED posts /\ consumer'[c].pc = "loop"
    BY <1>3, ListsRow
  <2>3. ASSUME NEW t \in consumer'[c].todo PROVE t[2] <= posts[t[1]].made
    <3>1. PICK d \in active : t = <<d, delivery[d].attempts>>
      BY <1>3, ListsRow
    <3>2. d \in Deliveries
      BY <3>1 DEF TypeInv, Tables, Rows
    <3>3. QED
      BY <2>1, <3>1, <3>2
  <2>4. QED
    BY <2>2, <2>3
<1>4. ASSUME NEW t \in consumer[c].todo, ClaimDelivery(c, t[1], t[2])
      PROVE  /\ \A u \in consumer'[c].todo : u[2] <= posts'[u[1]].made
             /\ consumer'[c].pc = "post" =>
                   consumer'[c].count <= posts'[consumer'[c].current].made
             /\ consumer'[c].pc # "record"
  BY <1>1, <1>4, ClaimsRow
<1>5. CASE Post(c)
  <2>1. /\ consumer[c].pc = "post" /\ consumer'[c].pc = "record"
        /\ consumer'[c].todo = consumer[c].todo /\ consumer'[c].current = consumer[c].current
        /\ consumer'[c].count = consumer[c].count
        /\ posts'[consumer[c].current].made = posts[consumer[c].current].made + 1
    BY <1>5, PostsRow
  <2>2. consumer[c].count <= posts[consumer[c].current].made
        /\ posts[consumer[c].current].made \in Nat
    BY <1>0, <2>1, PostsStay DEF EarnInv, ListsAreMade
  <2>3. QED
    BY <1>0, <1>1, <2>1, <2>2
<1>6. CASE Record(c)
  BY <1>1, <1>6, RecordsRow
<1>7. CASE LoopEnds(c) \/ CompleteJob(c) \/ Throw(c)
  <2>1. consumer'[c].pc \in {"fail", "finish", "ack"}
    BY <1>7, EndsRow
  <2>2. consumer'[c].todo = consumer[c].todo
    BY <1>7, EndsRow
  <2>3. QED
    BY <1>1, <2>1, <2>2
<1>8. CASE consumer'[c].todo = {} /\ consumer'[c].pc \in {"idle", "list"}
  BY <1>8
<1>9. QED
  BY <1>2, <1>3, <1>4, <1>5, <1>6, <1>7, <1>8, KeepsMessage DEF Works, Free

\* Every step keeps a 2xx an answer.
LEMMA StepAnswered ==
    ASSUME TypeInv, EarnInv, [Next]_vars
    PROVE  OkIsAnswered'
<1> SUFFICES ASSUME NEW c \in Consumers, consumer'[c].pc = "record", consumer'[c].ok
             PROVE  posts'[consumer'[c].current].answered
  BY DEF OkIsAnswered
<1>1. CASE consumer'[c] = consumer[c]
  <2>1. consumer[c].current \in Deliveries /\ posts[consumer[c].current].answered
    BY <1>1 DEF TypeInv, Tables, Executions, EarnInv, OkIsAnswered
  <2>2. QED
    BY <1>1, <2>1, PostsStay
<1>2. CASE Works(c)
  <2>1. CASE Post(c)
    BY <2>1, PostsRow
  <2>2. ASSUME NEW t \in consumer[c].todo, ClaimDelivery(c, t[1], t[2]) PROVE FALSE
    BY <2>2, ClaimsRow
  <2>3. ~ListDeliveries(c) /\ ~Record(c)
    BY ListsRow, RecordsRow
  <2>4. ~(LoopEnds(c) \/ CompleteJob(c) \/ Throw(c))
    BY EndsRow
  <2>5. QED
    BY <1>2, <2>1, <2>2, <2>3, <2>4 DEF Works
<1>3. QED
  BY <1>1, <1>2, ExecutionStep

\* Every step keeps the ends earned.
LEMMA StepEarned ==
    ASSUME TypeInv, EarnInv, [Next]_vars
    PROVE  TerminalIsEarned'
<1> SUFFICES ASSUME NEW d \in Deliveries
             PROVE  /\ delivery'[d].status = "delivered" => posts'[d].answered
                    /\ delivery'[d].status = "dead" => posts'[d].made >= MaxAttempts
  BY DEF TerminalIsEarned
<1>1. /\ posts[d].made \in Nat /\ posts'[d].made \in Nat /\ posts[d].made <= posts'[d].made
      /\ posts[d].answered => posts'[d].answered
      /\ MaxAttempts \in Nat
  BY PostsStay, JobsAssumption
<1>2. CASE delivery'[d].status = delivery[d].status
  <2>1. /\ delivery[d].status = "delivered" => posts[d].answered
        /\ delivery[d].status = "dead" => posts[d].made >= MaxAttempts
    BY DEF EarnInv, TerminalIsEarned
  <2>2. QED
    BY <1>1, <1>2, <2>1
<1>3. ASSUME NEW c \in Consumers, Record(c), consumer[c].current = d, delivery[d].owner = c
      PROVE  /\ delivery'[d].status = "delivered" => posts'[d].answered
             /\ delivery'[d].status = "dead" => posts'[d].made >= MaxAttempts
  <2>1. /\ consumer[c].pc = "record"
        /\ delivery'[d].status = RecordedStatus(consumer[c].ok, consumer[c].count + 1)
    BY <1>3, RecordsRow
  <2>2. consumer[c].count \in Nat /\ consumer[c].count + 1 <= posts[d].made
    BY <1>3, <2>1 DEF TypeInv, Tables, Executions, Consumer, EarnInv, ListsAreMade
  <2>3. consumer[c].ok => posts[d].answered
    BY <1>3, <2>1 DEF EarnInv, OkIsAnswered
  <2>4. /\ delivery'[d].status = "delivered" => consumer[c].ok
        /\ delivery'[d].status = "dead" => consumer[c].count + 1 >= MaxAttempts
    BY <2>1 DEF RecordedStatus
  <2>5. QED
    BY <1>1, <2>2, <2>3, <2>4
<1>4. ASSUME NEW c \in Consumers, NEW t \in consumer[c].todo, ClaimDelivery(c, t[1], t[2]), t[1] = d,
             DeliveryClaimable(d)
      PROVE  delivery'[d].status = "processing"
  BY <1>4, ClaimsRow
<1>5. QED
  BY <1>2, <1>3, <1>4, DeliveryStep

\* Every step keeps what earns an end.
LEMMA EarnStep ==
    ASSUME TypeInv, EarnInv, [Next]_vars
    PROVE  EarnInv'
BY StepRowsMade, StepListsMade, StepAnswered, StepEarned DEF EarnInv

\* The initial states satisfy the invariant.
LEMMA EarnInit == Init => EarnInv
<1>1. Free.pc = "idle" /\ Free.todo = {}
  BY DEF Free
<1>2. QED
  BY <1>1 DEF Init, EarnInv, RowsAreMade, ListsAreMade, OkIsAnswered, TerminalIsEarned

-----------------------------------------------------------------------------
(* The theorems                                                            *)

JobsInv == TypeInv /\ JobInv /\ EndInv /\ EarnInv

\* The invariant is inductive.
LEMMA JobsAlways == Spec => []JobsInv
<1>1. Init => JobsInv
  BY TypeInit, JobInit, EndInit, EarnInit DEF JobsInv
<1>2. JobsInv /\ [Next]_vars => JobsInv'
  BY StepType, JobStep, EndStep, EarnStep DEF JobsInv
<1>3. QED
  BY <1>1, <1>2, PTL DEF Spec

\* Rows, messages and executions keep their shape, and a row's attempt_count
\* never runs ahead of the POSTs that were made (recordWebhookResponse).
THEOREM TypeCorrect == Spec => []TypeOK
<1>1. JobsInv => TypeOK
  BY DEF JobsInv, TypeInv, Tables, Rows, Executions, EarnInv, RowsAreMade, TypeOK
<1>2. QED
  BY <1>1, JobsAlways, PTL

\* A job has one execution at a time, its outbox row is completed only when its
\* deliveries ended, and an end was earned: claimPaymentJob, runPaymentJob and
\* completePaymentJob under duplicate messages, crashes and lost leases.
THEOREM JobsRunOnceCorrect == Spec => []JobsRunOnceToTheEnd
<1>1. JobsInv => JobsRunOnceToTheEnd
  <2> SUFFICES ASSUME JobsInv PROVE JobsRunOnceToTheEnd
    OBVIOUS
  <2>1. active \subseteq Deliveries
    BY DEF JobsInv, TypeInv, Tables, Rows
  <2>2. CompletedOutboxIsDelivered
    BY <2>1 DEF JobsInv, EndInv, DoneIsDelivered, OutboxIsDone, Plain, Ended,
       CompletedOutboxIsDelivered
  <2>3. QED
    BY <2>2 DEF JobsInv, JobInv, EarnInv, JobsRunOnceToTheEnd
<1>2. QED
  BY <1>1, JobsAlways, PTL

\* A late answer never overwrites a delivery that ended: the lease_owner fence
\* of recordWebhookResponse, and claimWebhookDelivery's WHERE clause.
THEOREM FinalityCorrect == Spec => TerminalIsFinal
<1>1. JobsInv /\ [Next]_vars =>
        [\A d \in Deliveries :
           delivery[d].status \in TerminalStatuses =>
               \/ delivery'[d].status = delivery[d].status
               \/ delivery'[d].status = "pending" /\ merchant' > merchant]_vars
  <2> SUFFICES ASSUME JobsInv, [Next]_vars, NEW d \in Deliveries,
                      delivery[d].status \in TerminalStatuses
               PROVE  \/ delivery'[d].status = delivery[d].status
                      \/ delivery'[d].status = "pending" /\ merchant' > merchant
    OBVIOUS
  <2>1. merchant \in Nat
    BY JobsAssumption DEF JobsInv, TypeInv, Tables, Rows
  <2>2. \/ delivery'[d].status = delivery[d].status
        \/ delivery'[d].status = "pending" /\ merchant' = merchant + 1
    BY EndedStays DEF JobsInv, EndInv, Ended
  <2>3. QED
    BY <2>1, <2>2
<1>2. QED
  BY <1>1, JobsAlways, PTL DEF Spec, TerminalIsFinal
====
