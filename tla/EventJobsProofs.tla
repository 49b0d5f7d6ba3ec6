--------------------------- MODULE EventJobsProofs ---------------------------
(***************************************************************************)
(* The event scheduler never leaves a stored wakeup without an alarm: a    *)
(* proof for any number of consumers, delays, targets, producers' requests *)
(* and faults.  The argument is about the object's two variables alone:    *)
(* schedule() is the only writer besides alarm(), every way out of alarm() *)
(* arms the record that is left, and a request that changes nothing found  *)
(* an armed record.                                                        *)
(***************************************************************************)
EXTENDS EventJobs, TLAPS

\* What the object stores, without the targets, which arming never reads.
StoredRecord == record # None => /\ DOMAIN record = {"runAt", "target",
                                                     "generation", "state"}
                                 /\ record.runAt \in Delays
StoredAlarm == alarm \in Delays \cup {None}
StoredHandler == "pc" \in DOMAIN handler
ArmedInv == StoredRecord /\ StoredAlarm /\ StoredHandler /\ RecordIsArmed

\* The requests of producers and consumers have delays.
Delayed(q) == q.runAt \in Delays

\* What a request and the record make is due no later than both allow.
LEMMA MergedIsStored ==
    ASSUME NEW q, Delayed(q), StoredRecord
    PROVE  /\ DOMAIN Merged(record, q) = {"runAt", "target", "generation",
                                          "state"}
           /\ Merged(record, q).runAt \in Delays
BY ConstantsAssumption DEF Delayed, StoredRecord, Merged, Smaller, Delays

\* schedule() keeps an armed record armed, whatever the handler is doing.
LEMMA ScheduleArms ==
    ASSUME NEW q, Delayed(q), ArmedInv, Schedule(q), UNCHANGED <<handler, torn>>
    PROVE  ArmedInv'
<1>1. CASE Absorbed(record, q)
  BY <1>1 DEF Schedule, ArmedInv, StoredRecord, StoredAlarm, StoredHandler,
              RecordIsArmed, object
<1>2. CASE ~Absorbed(record, q)
  <2> DEFINE r == Merged(record, q)
  <2>1. /\ DOMAIN r = {"runAt", "target", "generation", "state"}
        /\ r.runAt \in Delays
    BY MergedIsStored DEF ArmedInv
  <2>2. /\ record' = r
        /\ alarm' = IF alarm = None \/ r.runAt < alarm THEN r.runAt ELSE alarm
    BY <1>2 DEF Schedule
  <2> HIDE DEF r
  <2>3. alarm' \in Delays /\ alarm' <= r.runAt
    BY <2>1, <2>2, ConstantsAssumption DEF ArmedInv, StoredAlarm, Delays
  <2>4. alarm' # None
    BY <2>3, ConstantsAssumption DEF Delays
  <2> QED
    BY <2>1, <2>2, <2>3, <2>4 DEF ArmedInv, StoredRecord, StoredAlarm,
                                  StoredHandler, RecordIsArmed
<1> QED
  BY <1>1, <1>2

\* A restart between the two writes is remembered by `torn`.
LEMMA TornIsRemembered ==
    ASSUME NEW q, Delayed(q), ArmedInv, ScheduleTorn(q), UNCHANGED handler
    PROVE  ArmedInv'
BY MergedIsStored DEF ScheduleTorn, ArmedInv, StoredRecord, StoredAlarm,
                      StoredHandler, RecordIsArmed

\* armEarliestJob, at the end of alarm(), arms what is left.
LEMMA ArmArms ==
    ASSUME StoredRecord', StoredHandler', alarm' = Arm(record')
    PROVE  ArmedInv'
<1>1. CASE record' = None
  BY <1>1 DEF Arm, ArmedInv, StoredAlarm, StoredHandler, RecordIsArmed
<1>2. CASE record' # None
  <2>1. record'.runAt \in Delays /\ alarm' = record'.runAt
    BY <1>2 DEF StoredRecord, Arm
  <2>2. alarm' # None /\ alarm' <= record'.runAt
    BY <2>1, ConstantsAssumption DEF Delays
  <2> QED
    BY <2>1, <2>2 DEF ArmedInv, StoredAlarm, StoredHandler, RecordIsArmed
<1> QED
  BY <1>1, <1>2

\* Steps of the consumers that do not call the object.
LEMMA ObjectUntouched ==
    ASSUME ArmedInv, UNCHANGED <<object, handler, torn>>
    PROVE  ArmedInv'
BY DEF ArmedInv, StoredRecord, StoredAlarm, StoredHandler, RecordIsArmed,
       object

\* alarm(): the dispatch, its two ways back and a restart.
LEMMA HandlerArms ==
    ASSUME ArmedInv, Dispatch \/ SendFails \/ AlarmCrashes
    PROVE  ArmedInv'
<1>1. CASE AlarmFires
  <2>1. CASE record # None /\ record.runAt = 0
    <3>1. /\ record' = [record EXCEPT !.state = "dispatching"]
          /\ alarm' = None
          /\ handler'.pc = "sending" /\ "pc" \in DOMAIN handler'
      BY <1>1, <2>1 DEF AlarmFires
    <3>2. /\ DOMAIN record' = DOMAIN record
          /\ record'.runAt = record.runAt
      BY <2>1, <3>1 DEF ArmedInv, StoredRecord
    <3> QED
      BY <2>1, <3>1, <3>2 DEF ArmedInv, StoredRecord, StoredAlarm,
                              StoredHandler, RecordIsArmed
  <2>2. CASE ~(record # None /\ record.runAt = 0)
    <3>1. alarm' = Arm(record) /\ UNCHANGED <<record, handler>>
      BY <1>1, <2>2 DEF AlarmFires
    <3> QED
      BY <3>1, ArmArms DEF ArmedInv, StoredRecord, StoredHandler
  <2> QED
    BY <2>1, <2>2
<1>2. CASE QueueAccepts
  <2>1. handler' = [handler EXCEPT !.pc = "sent"] /\ UNCHANGED object
    BY <1>2 DEF QueueAccepts
  <2>2. handler'.pc = "sent" /\ "pc" \in DOMAIN handler'
    BY <2>1 DEF ArmedInv, StoredHandler
  <2> QED
    BY <2>1, <2>2 DEF ArmedInv, StoredRecord, StoredAlarm, StoredHandler,
                      RecordIsArmed, object
<1>3. CASE SendReturns
  <2>1. StoredRecord'
    BY <1>3 DEF SendReturns, ArmedInv, StoredRecord
  <2>2. StoredHandler' /\ alarm' = Arm(record')
    BY <1>3 DEF SendReturns, StoredHandler, NoHandler
  <2> QED
    BY <2>1, <2>2, ArmArms
<1>4. CASE SendFails
  <2>1. PICK d \in Delays \ {0} :
            record' = IF StillDispatched
                      THEN [record EXCEPT !.state = "scheduled", !.runAt = d]
                      ELSE record
    BY <1>4 DEF SendFails
  <2>2. StoredRecord'
    <3>1. CASE StillDispatched
      <4> DEFINE s == [record EXCEPT !.state = "scheduled"]
      <4>1. record # None /\ record' = [s EXCEPT !.runAt = d]
        BY <2>1, <3>1 DEF StillDispatched
      <4>2. DOMAIN s = {"runAt", "target", "generation", "state"}
        BY <4>1 DEF ArmedInv, StoredRecord
      <4> HIDE DEF s
      <4> QED
        BY <4>1, <4>2 DEF StoredRecord
    <3>2. CASE ~StillDispatched
      BY <2>1, <3>2 DEF ArmedInv, StoredRecord
    <3> QED
      BY <3>1, <3>2
  <2>3. StoredHandler' /\ alarm' = Arm(record')
    BY <1>4 DEF SendFails, StoredHandler, NoHandler
  <2> QED
    BY <2>2, <2>3, ArmArms
<1>5. CASE AlarmCrashes
  <2>1. alarm' = 0 /\ record' = record /\ StoredHandler'
    BY <1>5 DEF AlarmCrashes, StoredHandler, NoHandler
  <2>2. 0 \in Delays /\ None # 0
    BY ConstantsAssumption DEF Delays
  <2>3. record # None => record.runAt >= 0
    BY ConstantsAssumption DEF ArmedInv, StoredRecord, Delays
  <2> QED
    BY <2>1, <2>2, <2>3 DEF ArmedInv, StoredRecord, StoredAlarm, RecordIsArmed
<1> QED
  BY <1>1, <1>2, <1>3, <1>4, <1>5 DEF Dispatch

\* The consumers' requests, and the steps that leave the object alone.
LEMMA ConsumerArms ==
    ASSUME ArmedInv, NEW e \in Executors, Consume(e) \/ RunThrows(e) \/ Crash(e)
    PROVE  ArmedInv'
<1>1. Delayed(Overlap(exec[e].msg)) /\ Delayed(CatchUp(e))
  BY ConstantsAssumption DEF Delayed, Overlap, CatchUp, Delays
<1>2. CASE Deliver(e) \/ AcquireLease(e) \/ LeaseBusy(e) \/ RunStart(e)
           \/ RunCommit(e) \/ Release(e) \/ RunThrows(e) \/ Crash(e)
  <2>1. UNCHANGED <<object, handler, torn>>
    BY <1>2 DEF Deliver, AcquireLease, LeaseBusy, RunStart, RunCommit, Release,
                RunThrows, Crash
  <2> QED
    BY <2>1, ObjectUntouched
<1>3. CASE Preserve(e)
  <2> DEFINE q == Overlap(exec[e].msg)
  <2>1. UNCHANGED handler
    BY <1>3 DEF Preserve
  <2>2. CASE Schedule(q) /\ UNCHANGED torn
    BY <1>1, <2>1, <2>2, ScheduleArms
  <2>3. CASE ScheduleTorn(q)
    BY <1>1, <2>1, <2>3, TornIsRemembered
  <2>4. CASE ScheduleFails
    BY <2>1, <2>4, ObjectUntouched DEF ScheduleFails
  <2> QED
    BY <1>3, <2>2, <2>3, <2>4 DEF Preserve
<1>4. CASE Continue(e)
  <2>1. UNCHANGED handler
    BY <1>4 DEF Continue
  <2>2. CASE UNCHANGED <<object, torn>>
    BY <2>1, <2>2, ObjectUntouched
  <2>3. CASE Schedule(CatchUp(e)) /\ UNCHANGED torn
    BY <1>1, <2>1, <2>3, ScheduleArms
  <2>4. CASE ScheduleTorn(CatchUp(e))
    BY <1>1, <2>1, <2>4, TornIsRemembered
  <2>5. CASE ScheduleFails
    BY <2>1, <2>5, ObjectUntouched DEF ScheduleFails
  <2> QED
    BY <1>4, <2>2, <2>3, <2>4, <2>5 DEF Continue
<1> QED
  BY <1>2, <1>3, <1>4 DEF Consume

\* The passage of time brings a record and its alarm nearer together.
LEMMA TickArms ==
    ASSUME ArmedInv, Tick
    PROVE  ArmedInv'
<1>1. /\ record' = IF record = None THEN None
                   ELSE [record EXCEPT !.runAt = Larger(0, record.runAt - 1)]
      /\ alarm' = IF alarm = None THEN None ELSE Larger(0, alarm - 1)
      /\ UNCHANGED <<handler, torn>>
  BY DEF Tick
<1>2. CASE record = None
  <2>1. alarm' \in Delays \cup {None}
    BY <1>1, ConstantsAssumption DEF ArmedInv, StoredAlarm, Delays, Larger
  <2> QED
    BY <1>1, <1>2, <2>1 DEF ArmedInv, StoredRecord, StoredAlarm, StoredHandler,
                            RecordIsArmed
<1>3. CASE record # None
  <2>1. /\ DOMAIN record' = {"runAt", "target", "generation", "state"}
        /\ record'.runAt = Larger(0, record.runAt - 1)
        /\ record.runAt \in Delays
    BY <1>1, <1>3 DEF ArmedInv, StoredRecord
  <2>2. record'.runAt \in Delays
    BY <2>1, ConstantsAssumption DEF Larger, Delays
  <2>3. alarm' \in Delays \cup {None}
    BY <1>1, ConstantsAssumption DEF ArmedInv, StoredAlarm, Delays, Larger
  <2>4. ASSUME alarm # None, alarm <= record.runAt
        PROVE  alarm' # None /\ alarm' <= record'.runAt
    <3>1. alarm \in Delays /\ alarm' = Larger(0, alarm - 1)
      BY <1>1, <2>4 DEF ArmedInv, StoredAlarm
    <3> QED
      BY <2>1, <2>4, <3>1, ConstantsAssumption DEF Larger, Delays
  <2> QED
    BY <1>1, <1>3, <2>1, <2>2, <2>3, <2>4
       DEF ArmedInv, StoredRecord, StoredAlarm, StoredHandler, RecordIsArmed
<1> QED
  BY <1>2, <1>3

\* For every value of the constants: while the object has not been restarted
\* between the two writes of schedule(), the record it stores has an alarm no
\* later than itself whenever alarm() is not running.
THEOREM RecordAlwaysArmed == Spec => []RecordIsArmed
<1>1. Init => ArmedInv
  BY DEF Init, NoHandler, ArmedInv, StoredRecord, StoredAlarm, StoredHandler,
         RecordIsArmed
<1>2. ArmedInv /\ [Next]_vars => ArmedInv'
  <2> SUFFICES ASSUME ArmedInv, [Next]_vars
               PROVE  ArmedInv'
    OBVIOUS
  <2>1. CASE \E q \in Request : Wake(q)
    <3>1. PICK q \in Request : Wake(q)
      BY <2>1
    <3>2. Delayed(q) /\ UNCHANGED handler
      BY <3>1 DEF Request, Delayed, Wake
    <3>3. CASE Schedule(q) /\ UNCHANGED torn
      BY <3>2, <3>3, ScheduleArms
    <3>4. CASE ScheduleTorn(q)
      BY <3>2, <3>4, TornIsRemembered
    <3>5. CASE ScheduleFails
      BY <3>2, <3>5, ObjectUntouched DEF ScheduleFails
    <3> QED
      BY <3>1, <3>3, <3>4, <3>5 DEF Wake
  <2>2. CASE Dispatch \/ SendFails \/ AlarmCrashes
    BY <2>2, HandlerArms
  <2>3. CASE \E e \in Executors : Consume(e) \/ RunThrows(e) \/ Crash(e)
    BY <2>3, ConsumerArms
  <2>4. CASE Tick
    BY <2>4, TickArms
  <2>5. CASE LeaseExpires \/ HeadAdvances \/ UNCHANGED vars
    <3>1. UNCHANGED <<object, handler, torn>>
      BY <2>5 DEF LeaseExpires, HeadAdvances, vars
    <3> QED
      BY <3>1, ObjectUntouched
  <2> QED
    BY <2>1, <2>2, <2>3, <2>4, <2>5 DEF Next
<1>3. ArmedInv => RecordIsArmed
  BY DEF ArmedInv
<1> QED
  BY <1>1, <1>2, <1>3, PTL DEF Spec

=============================================================================
