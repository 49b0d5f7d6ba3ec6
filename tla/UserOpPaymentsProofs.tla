------------------------ MODULE UserOpPaymentsProofs ------------------------
(***************************************************************************)
(* Work is never lost, the claim of a payment link keeps the funds of all  *)
(* but one operation out, and a closed payment is accounted for: proofs    *)
(* about UserOpPayments for every set of operations, links and requests    *)
(* and every bound.                                                        *)
(***************************************************************************)
EXTENDS UserOpPayments, TLAPS

\* The rows the proofs read, and the operation of every execution.
PaymentRows == payment \in [Ops -> Statuses] /\ request \in [Ops -> Request]
SubmitRows ==
    /\ submit \in [Submits -> Submit]
    /\ \A s \in Submits : submit[s].pc # "idle" => submit[s].op \in Ops
ReconRow == recon.pc # "idle" => recon.op \in Ops
Rows == PaymentRows /\ SubmitRows /\ ReconRow

\* A completed request is of a closed payment.
CompletedIsClosed ==
    \A op \in Ops : request[op].status = "completed" => payment[op] \in Terminal \cup {"gone"}

\* Only the reconciler closes a payment, so the one it works on is open until
\* it has closed it.
ReconIsOpen ==
    recon.pc \notin {"idle", "read", "unlink"} => payment[recon.op] \notin Terminal

WorkRows == CompletedIsClosed /\ InFlightHasWork
WorkInv == WorkRows /\ ReconIsOpen

\* A status written to a request changes that request and nothing else of it.
LEMMA StatusWritten ==
    ASSUME NEW f \in [Ops -> Request], NEW g, NEW op \in Ops,
           NEW st \in {"none", "pending", "processing", "failed", "completed", "dead"},
           g = [f EXCEPT ![op].status = st]
    PROVE  /\ g \in [Ops -> Request]
           /\ g[op].status = st
           /\ \A o \in Ops \ {op} : g[o] = f[o]
  BY DEF Request

\* The initial state.
LEMMA InitRows == Init => Rows /\ WorkInv
  BY ConstantsAssumption DEF Init, Rows, PaymentRows, SubmitRows, ReconRow, WorkInv, WorkRows,
     CompletedIsClosed, InFlightHasWork, ReconIsOpen, Statuses, Request, NoRequest, Submit, IdleSubmit,
     IdleRecon, InFlight, Terminal
\* A live request that goes on keeps its operation; one that ends has none.
LEMMA GotoRows ==
    ASSUME SubmitRows, NEW s \in Submits, submit[s].pc # "idle",
           NEW pc \in {"idle", "claimed", "linkTaken", "send", "accepted",
                       "ambiguous", "mark", "refused", "unlink"},
           Goto(s, pc)
    PROVE  /\ SubmitRows'
           /\ \A r \in Submits \ {s} : submit'[r] = submit[r]
           /\ submit'[s].pc = pc
           /\ pc # "idle" => submit'[s].op = submit[s].op
  BY ConstantsAssumption DEF SubmitRows, Goto, Submit, IdleSubmit

\* The reconciler's row after a step.
LEMMA ReconAtRow ==
    ASSUME NEW pc, NEW op \in Ops, ReconAt(pc, op)
    PROVE  ReconRow' /\ recon'.pc = pc /\ (pc # "idle" => recon'.op = op)
  BY DEF ReconAt, ReconRow, IdleRecon

\* A payment that is not taken in flight and whose request stays as it is.
LEMMA PaymentMoved ==
    ASSUME PaymentRows, WorkRows, NEW op \in Ops,
           NEW to \in Statuses \ (Terminal \cup InFlight),
           to = "gone" \/ payment[op] \notin Terminal \cup {"gone"},
           payment' = [payment EXCEPT ![op] = to],
           UNCHANGED request
    PROVE  PaymentRows' /\ WorkRows'
  BY DEF PaymentRows, WorkRows, CompletedIsClosed, InFlightHasWork, Statuses, InFlight, Terminal

\* A status written to the request of one payment.
LEMMA RequestWritten ==
    ASSUME PaymentRows, WorkRows, NEW op \in Ops,
           NEW st \in {"none", "pending", "processing", "failed", "completed", "dead"},
           request' = [request EXCEPT ![op].status = st],
           payment' \in [Ops -> Statuses],
           \A o \in Ops \ {op} : payment'[o] = payment[o],
           st = "completed" => payment'[op] \in Terminal \cup {"gone"},
           st = "none" => payment'[op] \notin InFlight
    PROVE  PaymentRows' /\ WorkRows'
  <1>1. /\ request' \in [Ops -> Request]
        /\ request'[op].status = st
        /\ \A o \in Ops \ {op} : request'[o] = request[o]
    <2>1. request \in [Ops -> Request] BY DEF PaymentRows
    <2>2. QED BY ONLY <2>1, StatusWritten, request' = [request EXCEPT ![op].status = st], op \in Ops,
                    st \in {"none", "pending", "processing", "failed", "completed", "dead"}
  <1>2. QED
    BY <1>1 DEF PaymentRows, WorkRows, CompletedIsClosed, InFlightHasWork, Statuses, InFlight, Terminal

\* complete and reschedule of the reconciler
LEMMA FinishKept ==
    ASSUME PaymentRows, WorkRows, NEW op \in Ops,
           NEW st \in {"pending", "failed", "completed", "dead"},
           Finish(op, st), UNCHANGED payment,
           st = "completed" => payment[op] \in Terminal \cup {"gone"}
    PROVE  PaymentRows' /\ WorkRows'
  <1> DEFINE new == IF request[op].status = "processing" THEN st ELSE request[op].status
  <1>1. request[op] \in Request BY DEF PaymentRows
  <1>2. new \in {"none", "pending", "processing", "failed", "completed", "dead"}
    BY <1>1 DEF Request
  <1>3. request' = [request EXCEPT ![op].status = new] BY DEF Finish
  <1>4. /\ new = "completed" => payment'[op] \in Terminal \cup {"gone"}
        /\ new = "none" => payment'[op] \notin InFlight
    BY DEF WorkRows, CompletedIsClosed, InFlightHasWork
  <1> HIDE DEF new
  <1>5. QED BY <1>2, <1>3, <1>4, RequestWritten DEF PaymentRows

\* The trigger of a payment that becomes submitted
LEMMA SubmittedKept ==
    ASSUME PaymentRows, WorkRows, NEW op \in Ops,
           payment[op] \notin Terminal \cup {"gone"},
           payment' = [payment EXCEPT ![op] = "submitted"],
           SubmittedTrigger(op)
    PROVE  PaymentRows' /\ WorkRows'
  <1>1. payment' \in [Ops -> Statuses] /\ payment'[op] = "submitted"
        /\ \A o \in Ops \ {op} : payment'[o] = payment[o]
    BY DEF PaymentRows, Statuses, InFlight
  <1>2. request[op].status # "completed" BY DEF WorkRows, CompletedIsClosed
  <1>3. CASE payment[op] = "submitted"
    BY <1>1, <1>3 DEF SubmittedTrigger, PaymentRows, WorkRows, CompletedIsClosed, InFlightHasWork
  <1>4. CASE payment[op] # "submitted"
    <2>1. request' = [request EXCEPT ![op].status = "pending"]
      BY <1>2, <1>4 DEF SubmittedTrigger
    <2>2. QED BY <1>1, <2>1, RequestWritten
  <1>5. QED BY <1>3, <1>4

\* The terminal status and its trigger
LEMMA ConcludeKept ==
    ASSUME PaymentRows, WorkRows, NEW op \in Ops, NEW st \in Terminal,
           payment[op] \notin Terminal, Conclude(op, st)
    PROVE  PaymentRows' /\ WorkRows'
           /\ \A o \in Ops \ {op} : payment'[o] = payment[o]
  <1>1. CASE payment[op] = "gone"
    BY <1>1 DEF Conclude, PaymentRows, WorkRows, CompletedIsClosed, InFlightHasWork
  <1>2. CASE payment[op] # "gone"
    <2> DEFINE new == IF request[op].status = "none" THEN "none" ELSE "completed"
    <2>1. /\ payment' \in [Ops -> Statuses] /\ payment'[op] = st
          /\ \A o \in Ops \ {op} : payment'[o] = payment[o]
      BY <1>2 DEF Conclude, PaymentRows, Statuses
    <2>2. request' = [request EXCEPT ![op].status = new]
      BY <1>2 DEF Conclude, TerminalTrigger
    <2>3. st \notin InFlight BY DEF Terminal, InFlight
    <2>4. new \in {"none", "completed"} OBVIOUS
    <2> HIDE DEF new
    <2>5. QED BY <2>1, <2>2, <2>3, <2>4, RequestWritten
  <1>3. QED BY <1>1, <1>2

\* Nobody but the reconciler closes a payment.
LEMMA OpenKept ==
    ASSUME ReconRow, ReconIsOpen, UNCHANGED recon,
           \A op \in Ops : payment'[op] \in Terminal => payment[op] \in Terminal
    PROVE  ReconRow' /\ ReconIsOpen'
  BY DEF ReconRow, ReconIsOpen

\* Steps that touch neither payments, requests nor the reconciler
LEMMA Untouched ==
    ASSUME Rows, WorkInv, UNCHANGED <<payment, request, recon>>, SubmitRows'
    PROVE  Rows' /\ WorkInv'
  BY DEF Rows, PaymentRows, ReconRow, WorkInv, WorkRows, CompletedIsClosed, InFlightHasWork, ReconIsOpen

\* The rows by themselves: prepare, expiry, sweep
LEMMA RowStepsKeep ==
    ASSUME Rows, WorkInv, NEW op \in Ops,
           Prepare(op) \/ ExpirePrepared(op) \/ SweepTerminal(op) \/ Tick(op)
    PROVE  Rows' /\ WorkInv'
  <1> USE DEF Rows, WorkInv
  <1>0. SubmitRows' BY DEF Prepare, ExpirePrepared, SweepTerminal, Tick, SubmitRows
  <1>1. CASE Prepare(op)
    <2>1. PaymentRows' /\ WorkRows'
      BY <1>1, PaymentMoved DEF Prepare, Statuses, Terminal, InFlight
    <2>2. QED BY <1>0, <1>1, <2>1, OpenKept DEF Prepare, PaymentRows, Terminal
  <1>2. CASE ExpirePrepared(op) \/ SweepTerminal(op)
    <2>1. /\ payment' = [payment EXCEPT ![op] = "gone"]
          /\ request' = [request EXCEPT ![op] = NoRequest]
          /\ UNCHANGED recon
      BY <1>2 DEF ExpirePrepared, SweepTerminal, Delete
    <2>2. PaymentRows' /\ WorkRows'
      BY <2>1, ConstantsAssumption DEF PaymentRows, WorkRows, CompletedIsClosed, InFlightHasWork, Statuses,
         InFlight, Terminal, NoRequest, Request
    <2>3. QED BY <1>0, <2>1, <2>2, OpenKept DEF PaymentRows, Terminal
  <1>3. CASE Tick(op)
    BY <1>0, <1>3, Untouched DEF Tick
  <1>4. QED BY <1>1, <1>2, <1>3

\* A request claims the row, and leaves work in the same batch.
LEMMA ClaimPendingKeeps ==
    ASSUME Rows, WorkInv, NEW s \in Submits, NEW op \in Ops, ClaimPending(s, op)
    PROVE  Rows' /\ WorkInv'
  <1> USE DEF Rows, WorkInv
  <1>1. SubmitRows'
    BY DEF ClaimPending, SubmitRows, Submit
  <1>2. payment' \in [Ops -> Statuses] /\ \A o \in Ops \ {op} : payment'[o] = payment[o]
    BY DEF ClaimPending, PaymentRows, Statuses, InFlight
  <1>3. payment'[op] = IF payment[op] = "prepared" THEN "submitting" ELSE payment[op]
    BY DEF ClaimPending, PaymentRows
  <1>4. request[op] \in Request BY DEF PaymentRows
  <1>5. PaymentRows' /\ WorkRows'
    <2>1. CASE payment'[op] = "submitting"
      <3> DEFINE new == IF request[op].status = "processing" THEN "processing" ELSE "pending"
      <3>1. request' = [request EXCEPT ![op] = Requested(request[op])]
        BY <2>1 DEF ClaimPending
      <3>2. Requested(request[op]) \in Request /\ Requested(request[op]).status = new
        BY <1>4 DEF Requested, Request
      <3>3. QED
        BY <1>2, <2>1, <3>1, <3>2 DEF PaymentRows, WorkRows, CompletedIsClosed, InFlightHasWork
    <2>2. CASE payment'[op] # "submitting"
      BY <1>2, <1>3, <2>2 DEF ClaimPending, PaymentRows, WorkRows, CompletedIsClosed, InFlightHasWork
    <2>3. QED BY <2>1, <2>2
  <1>6. \A o \in Ops : payment'[o] \in Terminal => payment[o] \in Terminal
    BY <1>2, <1>3 DEF Terminal
  <1>7. QED BY <1>1, <1>5, <1>6, OpenKept DEF ClaimPending

\* The other steps of a request
LEMMA SubmitStepsKeep ==
    ASSUME Rows, WorkInv, NEW s \in Submits,
           SubmitStep(s) \/ PersistFails(s) \/ SubmitDies(s)
    PROVE  Rows' /\ WorkInv'
  <1> USE DEF Rows, WorkInv
  <1>1. submit[s].op \in Ops /\ submit[s].pc # "idle"
    BY DEF SubmitStep, ClaimLink, Send, PersistSubmitted, MarkBroadcast, ReleasePending, ReleaseLink,
       PersistFails, SubmitDies, SubmitRows
  <1>2. SubmitRows'
    BY <1>1, GotoRows DEF SubmitStep, ClaimLink, Send, PersistSubmitted, MarkBroadcast,
       ReleasePending, ReleaseLink, PersistFails, SubmitDies
  <1>3. CASE ClaimLink(s) \/ Send(s) \/ MarkBroadcast(s) \/ ReleaseLink(s) \/ PersistFails(s)
             \/ SubmitDies(s)
    BY <1>2, <1>3, Untouched DEF ClaimLink, Send, MarkBroadcast, ReleaseLink, PersistFails, SubmitDies,
       rows
  <1>4. CASE PersistSubmitted(s)
    <2> DEFINE op == submit[s].op
    <2>1. CASE payment[op] \in InFlight
      <3>1. payment' = [payment EXCEPT ![op] = "submitted"] /\ SubmittedTrigger(op) /\ UNCHANGED recon
        BY <1>4, <2>1 DEF PersistSubmitted
      <3>2. PaymentRows' /\ WorkRows'
        BY <1>1, <2>1, <3>1, SubmittedKept DEF InFlight, Terminal
      <3>3. QED BY <1>1, <1>2, <3>1, <3>2, OpenKept DEF PaymentRows, Terminal
    <2>2. CASE payment[op] \notin InFlight
      BY <1>2, <1>4, <2>2, Untouched DEF PersistSubmitted
    <2>3. QED BY <2>1, <2>2
  <1>5. CASE ReleasePending(s)
    <2> DEFINE op == submit[s].op
    <2>1. CASE payment[op] = "submitting"
      <3>1. PaymentRows' /\ WorkRows'
        BY <1>1, <1>5, <2>1, PaymentMoved DEF ReleasePending, Statuses, Terminal, InFlight
      <3>2. QED BY <1>1, <1>2, <1>5, <3>1, <2>1, OpenKept DEF ReleasePending, PaymentRows, Terminal
    <2>2. CASE payment[op] # "submitting"
      <3>1. payment' = payment BY <1>1, <1>5, <2>2 DEF ReleasePending, PaymentRows
      <3>2. QED BY <1>2, <1>5, <3>1, Untouched DEF ReleasePending
    <2>3. QED BY <2>1, <2>2
  <1>6. QED BY <1>3, <1>4, <1>5 DEF SubmitStep

\* The chain and the watcher: only the trigger of a receipt writes a request.
LEMMA ChainStepsKeep ==
    ASSUME Rows, WorkInv,
           Recover \/ \E op \in Ops : Land(op) \/ Reorg(op) \/ Journal(op)
    PROVE  Rows' /\ WorkInv'
  <1> USE DEF Rows, WorkInv
  <1>1. CASE Recover
    BY <1>1, Untouched DEF Recover, rows, SubmitRows
  <1>2. ASSUME NEW op \in Ops, Land(op) \/ Reorg(op) PROVE Rows' /\ WorkInv'
    BY <1>2, Untouched DEF Land, Reorg, rows, SubmitRows
  <1>3. ASSUME NEW op \in Ops, Journal(op) PROVE Rows' /\ WorkInv'
    <2>1. UNCHANGED <<payment, submit, recon>> /\ ReceiptTrigger(op)
      BY <1>3 DEF Journal
    <2>2. CASE payment[op] \in InFlight
      <3>1. request' = [request EXCEPT ![op].status = "pending"]
        BY <2>1, <2>2 DEF ReceiptTrigger
      <3>2. PaymentRows' /\ WorkRows'
        BY <2>1, <3>1, RequestWritten DEF PaymentRows
      <3>3. QED BY <2>1, <3>2, OpenKept DEF SubmitRows
    <2>3. CASE payment[op] \notin InFlight
      BY <2>1, <2>3, Untouched DEF ReceiptTrigger, SubmitRows
    <2>4. QED BY <2>2, <2>3
  <1>4. QED BY <1>1, <1>2, <1>3

\* A run takes a request, after the requests that were missing are inserted.
LEMMA ClaimRequestKeeps ==
    ASSUME Rows, WorkInv, NEW op \in Ops, ClaimRequest(op)
    PROVE  Rows' /\ WorkInv'
  <1> USE DEF Rows, WorkInv
  <1>1. UNCHANGED <<payment, submit>> /\ ReconAt("read", op)
    BY DEF ClaimRequest
  <1>2. Enqueued \in [Ops -> Request]
    BY ConstantsAssumption DEF Enqueued, PaymentRows, Request
  <1>3. \A o \in Ops : Enqueued[o].status = "completed" => request[o].status = "completed"
    BY DEF Enqueued
  <1>4. \A o \in Ops : Enqueued[o].status = "none" => payment[o] \notin InFlight
    BY DEF Enqueued
  <1>5. PICK n \in 0..MaxErrorAttempts :
          request' = [Enqueued EXCEPT ![op] = [status |-> "processing", attempts |-> n]]
    <2>1. Enqueued[op].attempts \in 0..MaxErrorAttempts BY <1>2 DEF Request
    <2> DEFINE n == IF Enqueued[op].attempts < MaxErrorAttempts
                    THEN Enqueued[op].attempts + 1 ELSE Enqueued[op].attempts
    <2>2. n \in 0..MaxErrorAttempts BY <2>1, ConstantsAssumption
    <2>3. request' = [Enqueued EXCEPT ![op] = [status |-> "processing", attempts |-> n]]
      BY DEF ClaimRequest
    <2> HIDE DEF n
    <2>4. QED BY <2>2, <2>3
  <1>6. PaymentRows' /\ WorkRows'
    BY <1>1, <1>2, <1>3, <1>4, <1>5 DEF PaymentRows, WorkRows, CompletedIsClosed, InFlightHasWork,
       Request
  <1>7. ReconRow' /\ ReconIsOpen'
    BY <1>1, ReconAtRow DEF ReconIsOpen
  <1>8. QED BY <1>1, <1>6, <1>7 DEF SubmitRows

\* The verdict of the reconciler is one of three.
LEMMA VerdictCases ==
    ASSUME NEW op PROVE Verdict(op) \in {"ledger", "fail", "discover"}
  BY DEF Verdict

\* The steps of the reconciler
LEMMA ReconStepsKeep ==
    ASSUME Rows, WorkInv, ReconStep \/ ReconFails \/ ReconDies
    PROVE  Rows' /\ WorkInv'
  <1> USE DEF Rows, WorkInv
  <1> DEFINE op == recon.op
  <1>0. op \in Ops /\ recon.pc # "idle" /\ UNCHANGED submit
    BY DEF ReconStep, ReconFails, ReconDies, Read, Discover, Wait, WriteLedger, SettleLink, Confirm,
       Fail, Unlink, ReconRow
  <1>1. SubmitRows' BY <1>0 DEF SubmitRows
  <1> HIDE DEF op
  <1>2. CASE Read
    <2>1. UNCHANGED payment BY <1>2 DEF Read
    <2>2. CASE payment[op] \in Terminal \cup {"gone"}
      <3>1. Finish(op, "completed") /\ ReconAt("idle", op) BY <1>2, <2>2 DEF Read, op
      <3>2. PaymentRows' /\ WorkRows' BY <1>0, <2>1, <2>2, <3>1, FinishKept
      <3>3. QED BY <1>0, <1>1, <3>1, <3>2, ReconAtRow DEF ReconIsOpen
    <2>3. CASE payment[op] \notin Terminal \cup {"gone"}
      <3>1. recon'.pc = Verdict(op) /\ recon'.op = op /\ request' = request
        BY <1>2, <2>3 DEF Read, op
      <3>2. QED BY <1>0, <1>1, <2>1, <2>3, <3>1, VerdictCases DEF PaymentRows, WorkRows,
              CompletedIsClosed, InFlightHasWork, ReconRow, ReconIsOpen
    <2>4. QED BY <2>2, <2>3
  <1>3. CASE Discover
    <2>1. ReconAt("wait", op) BY <1>3 DEF Discover, op
    <2>2. payment[op] \notin Terminal BY <1>0, <1>3 DEF Discover, ReconIsOpen, op
    <2>3. CASE payment[op] = "gone"
      <3>1. payment' = payment /\ request' = request
        BY <1>0, <1>3, <2>3 DEF Discover, PaymentRows, op
      <3>2. QED BY <1>0, <1>1, <2>1, <2>2, <3>1, ReconAtRow DEF PaymentRows, WorkRows,
              CompletedIsClosed, InFlightHasWork, ReconIsOpen
    <2>4. CASE payment[op] # "gone"
      <3>1. payment' = [payment EXCEPT ![op] = "submitted"] /\ SubmittedTrigger(op)
        BY <1>0, <1>3, <2>4 DEF Discover, PaymentRows, op
      <3>2. PaymentRows' /\ WorkRows' BY <1>0, <2>2, <2>4, <3>1, SubmittedKept
      <3>3. payment'[op] \notin Terminal BY <1>0, <3>1 DEF PaymentRows, Terminal
      <3>4. QED BY <1>0, <1>1, <2>1, <3>2, <3>3, ReconAtRow DEF ReconIsOpen
    <2>5. QED BY <2>3, <2>4
  <1>4. CASE Wait
    <2>1. Finish(op, "pending") /\ ReconAt("idle", op) /\ UNCHANGED payment BY <1>4 DEF Wait, op
    <2>2. PaymentRows' /\ WorkRows' BY <1>0, <2>1, FinishKept
    <2>3. QED BY <1>0, <1>1, <2>1, <2>2, ReconAtRow DEF ReconIsOpen
  <1>5. CASE WriteLedger \/ SettleLink
    <2>1. /\ UNCHANGED <<payment, request>>
          /\ recon.pc \notin {"idle", "read", "unlink"}
          /\ \E pc \in {"confirm", "link"} : ReconAt(pc, op)
      BY <1>5 DEF WriteLedger, SettleLink, rows, op
    <2>2. ReconRow' /\ recon'.op = op
      BY <1>0, <2>1, ReconAtRow
    <2>3. QED BY <1>0, <1>1, <2>1, <2>2 DEF PaymentRows, WorkRows, CompletedIsClosed,
            InFlightHasWork, ReconIsOpen, op
  <1>6. CASE Confirm \/ Fail
    <2>1. /\ \E st \in Terminal : Conclude(op, st)
          /\ \E pc \in {"idle", "unlink"} : ReconAt(pc, op)
          /\ payment[op] \notin Terminal
      BY <1>6 DEF Confirm, Fail, Terminal, ReconIsOpen, op
    <2>2. PaymentRows' /\ WorkRows' BY <1>0, <2>1, ConcludeKept
    <2>3. ReconRow' /\ ReconIsOpen' BY <1>0, <2>1, ReconAtRow DEF ReconIsOpen
    <2>4. QED BY <1>1, <2>2, <2>3
  <1>7. CASE Unlink \/ ReconDies
    <2>1. UNCHANGED <<payment, request>> /\ ReconAt("idle", op)
      BY <1>7 DEF Unlink, ReconDies, rows, op
    <2>2. QED BY <1>0, <1>1, <2>1, ReconAtRow DEF PaymentRows, WorkRows, CompletedIsClosed,
            InFlightHasWork, ReconIsOpen
  <1>8. CASE ReconFails
    <2>1. /\ \E st \in {"dead", "failed"} : Finish(op, st)
          /\ ReconAt("idle", op) /\ UNCHANGED payment
      BY <1>8 DEF ReconFails, op
    <2>2. PaymentRows' /\ WorkRows' BY <1>0, <2>1, FinishKept
    <2>3. QED BY <1>0, <1>1, <2>1, <2>2, ReconAtRow DEF ReconIsOpen
  <1>9. QED BY <1>2, <1>3, <1>4, <1>5, <1>6, <1>7, <1>8 DEF ReconStep

\* Every step keeps rows and work.
LEMMA StepWork == Rows /\ WorkInv /\ [Next]_vars => Rows' /\ WorkInv'
  <1> SUFFICES ASSUME Rows, WorkInv, [Next]_vars PROVE Rows' /\ WorkInv'
    OBVIOUS
  <1>1. CASE \E op \in Ops : Prepare(op) \/ ExpirePrepared(op) \/ SweepTerminal(op) \/ Tick(op)
    BY <1>1, RowStepsKeep
  <1>2. CASE \E l \in Links : CancelIntent(l)
    BY <1>2, Untouched DEF CancelIntent, rows, Rows, SubmitRows
  <1>3. CASE \E s \in Submits, op \in Ops : ClaimPending(s, op)
    BY <1>3, ClaimPendingKeeps
  <1>4. CASE \E s \in Submits : SubmitStep(s) \/ PersistFails(s) \/ SubmitDies(s)
    BY <1>4, SubmitStepsKeep
  <1>5. CASE Recover \/ \E op \in Ops : Land(op) \/ Reorg(op) \/ Journal(op)
    BY <1>5, ChainStepsKeep
  <1>6. CASE \E op \in Ops : ClaimRequest(op)
    BY <1>6, ClaimRequestKeeps
  <1>7. CASE ReconStep \/ ReconFails \/ ReconDies
    BY <1>7, ReconStepsKeep
  <1>8. CASE UNCHANGED vars
    BY <1>8, Untouched DEF vars, rows, Rows, SubmitRows
  <1>9. QED BY <1>1, <1>2, <1>3, <1>4, <1>5, <1>6, <1>7, <1>8 DEF Next

\* A payment in flight always has a reconcile request that is neither missing
\* nor completed (claimPendingForSubmit, the triggers of migration 0021 and the
\* reconciler), for any number of operations, requests, reorgs and faults.
THEOREM WorkIsNeverLost == Spec => []InFlightHasWork
  <1>1. Init => Rows /\ WorkInv BY InitRows
  <1>2. Rows /\ WorkInv /\ [Next]_vars => (Rows /\ WorkInv)' BY StepWork
  <1>3. Rows /\ WorkInv => InFlightHasWork BY DEF WorkInv, WorkRows
  <1>4. QED BY <1>1, <1>2, <1>3, PTL DEF Spec

-----------------------------------------------------------------------------
(* Closed payments and paid links                                          *)

LinkRows ==
    /\ link \in [Links -> Link]
    /\ \A s \in Submits : submit[s].pc \in {"claimed", "mark", "unlink"} => LinkOf[submit[s].op] \in Links
    /\ recon.pc \in {"link", "unlink"} => LinkOf[recon.op] \in Links

\* Releasing a claim does not touch a link that is paid.
LEMMA ReleasedKeeps ==
    ASSUME link \in [Links -> Link], NEW l \in Links, NEW op, NEW b \in BOOLEAN,
           link' = Released(l, op, b)
    PROVE  /\ link' \in [Links -> Link]
           /\ PayerIsKept
  BY DEF Released, Link, Unclaimed, PayerIsKept

\* Claim and mark write other columns than the payer's.
LEMMA ColumnsKeep ==
    ASSUME link \in [Links -> Link], NEW l \in Links, NEW op \in Ops,
           \/ link' = [link EXCEPT ![l].claim = op, ![l].broadcast = FALSE]
           \/ link' = [link EXCEPT ![l].broadcast = TRUE]
           \/ link' = link
    PROVE  /\ link' \in [Links -> Link]
           /\ PayerIsKept
  <1>1. CASE link' = [link EXCEPT ![l].claim = op, ![l].broadcast = FALSE]
    BY <1>1 DEF Link, PayerIsKept
  <1>2. CASE link' = [link EXCEPT ![l].broadcast = TRUE]
    BY <1>2 DEF Link, PayerIsKept
  <1>3. QED BY <1>1, <1>2 DEF Link, PayerIsKept

\* Requests and the reconciler reach a link only through an operation that has one.
LEMMA SubmitLinks ==
    ASSUME Rows, LinkRows, NEW s \in Submits,
           SubmitStep(s) \/ PersistFails(s) \/ SubmitDies(s)
    PROVE  LinkRows' /\ PayerIsKept
  <1> DEFINE op == submit[s].op
  <1>1. op \in Ops /\ submit[s].pc # "idle" /\ UNCHANGED recon
    BY DEF SubmitStep, ClaimLink, Send, PersistSubmitted, MarkBroadcast, ReleasePending, ReleaseLink,
       PersistFails, SubmitDies, Rows, SubmitRows
  <1>2. LinkOf[op] # None => LinkOf[op] \in Links
    BY <1>1, ConstantsAssumption
  <1>3. \A r \in Submits : submit'[r].pc \in {"claimed", "mark", "unlink"} =>
                               LinkOf[submit'[r].op] \in Links
    <2>1. PICK pc \in {"idle", "linkTaken", "send", "accepted", "ambiguous", "mark", "refused",
                       "unlink"} :
              Goto(s, pc) /\ (pc \in {"mark", "unlink"} => LinkOf[op] # None)
      BY <1>1 DEF SubmitStep, ClaimLink, Send, PersistSubmitted, MarkBroadcast, ReleasePending,
         ReleaseLink, PersistFails, SubmitDies
    <2>2. /\ \A r \in Submits \ {s} : submit'[r] = submit[r]
          /\ submit'[s].pc = pc
          /\ pc # "idle" => submit'[s].op = op
      BY <1>1, <2>1, GotoRows DEF Rows
    <2>3. QED BY <1>2, <2>1, <2>2 DEF LinkRows
  <1>4. link' \in [Links -> Link] /\ PayerIsKept
    <2>1. CASE ClaimLink(s)
      <3>1. LinkOf[op] \in Links BY <2>1 DEF ClaimLink, LinkRows
      <3>2. QED BY <1>1, <2>1, <3>1, ColumnsKeep DEF ClaimLink, LinkRows
    <2>2. CASE MarkBroadcast(s)
      <3>1. LinkOf[op] \in Links BY <2>2 DEF MarkBroadcast, LinkRows
      <3>2. QED BY <1>1, <2>2, <3>1, ColumnsKeep DEF MarkBroadcast, LinkRows
    <2>3. CASE ReleaseLink(s)
      <3>1. LinkOf[op] \in Links BY <2>3 DEF ReleaseLink, LinkRows
      <3>2. QED BY <2>3, <3>1, ReleasedKeeps DEF ReleaseLink, LinkRows
    <2>4. CASE Send(s) \/ PersistSubmitted(s) \/ ReleasePending(s) \/ PersistFails(s) \/ SubmitDies(s)
      BY <2>4 DEF Send, PersistSubmitted, ReleasePending, PersistFails, SubmitDies, links, LinkRows,
         PayerIsKept
    <2>5. QED BY <2>1, <2>2, <2>3, <2>4 DEF SubmitStep
  <1>5. QED BY <1>1, <1>3, <1>4 DEF LinkRows

\* The reconciler writes a payer only on a link without one.
LEMMA ReconLinks ==
    ASSUME Rows, LinkRows, ReconStep \/ ReconFails \/ ReconDies
    PROVE  LinkRows' /\ PayerIsKept
  <1> DEFINE op == recon.op
  <1>1. op \in Ops /\ recon.pc # "idle" /\ UNCHANGED submit
    BY DEF ReconStep, ReconFails, ReconDies, Read, Discover, Wait, WriteLedger, SettleLink, Confirm,
       Fail, Unlink, Rows, ReconRow
  <1>2. LinkOf[op] # None => LinkOf[op] \in Links
    BY <1>1, ConstantsAssumption
  <1> HIDE DEF op
  <1>3. recon'.pc \in {"link", "unlink"} => LinkOf[recon'.op] \in Links
    <2>1. CASE Read
      BY <2>1, VerdictCases DEF Read, ReconAt, IdleRecon
    <2>2. CASE ~Read
      <3>1. PICK pc \in {"idle", "wait", "confirm", "link", "unlink"} :
              ReconAt(pc, op) /\ (pc \in {"link", "unlink"} => LinkOf[op] # None)
        BY <2>2 DEF ReconStep, ReconFails, ReconDies, Discover, Wait, WriteLedger, SettleLink,
           Confirm, Fail, Unlink, op
      <3>2. QED BY <1>1, <1>2, <3>1, ReconAtRow
    <2>3. QED BY <2>1, <2>2
  <1>4. link' \in [Links -> Link] /\ PayerIsKept
    <2>1. CASE SettleLink
      <3>1. LinkOf[op] \in Links BY <2>1 DEF SettleLink, LinkRows, op
      <3>2. link' = link \/ (/\ link[LinkOf[op]].paidBy = None
                             /\ link' = [link EXCEPT ![LinkOf[op]] = [Unclaimed EXCEPT !.paidBy = op]])
        BY <2>1 DEF SettleLink, op
      <3>3. [Unclaimed EXCEPT !.paidBy = op] \in Link BY <1>1 DEF Unclaimed, Link
      <3>4. QED BY <3>1, <3>2, <3>3 DEF LinkRows, PayerIsKept
    <2>2. CASE Unlink
      <3>1. LinkOf[op] \in Links BY <2>2 DEF Unlink, LinkRows, op
      <3>2. QED BY <2>2, <3>1, ReleasedKeeps DEF Unlink, LinkRows, op
    <2>3. CASE ~SettleLink /\ ~Unlink
      BY <2>3 DEF ReconStep, ReconFails, ReconDies, Read, Discover, Wait, WriteLedger, Confirm, Fail,
         links, LinkRows, PayerIsKept
    <2>4. QED BY <2>1, <2>2, <2>3
  <1>5. QED BY <1>1, <1>3, <1>4 DEF LinkRows

\* Every step keeps the links' rows and payers.
LEMMA StepLinks == Rows /\ LinkRows /\ [Next]_vars => LinkRows' /\ PayerIsKept
  <1> SUFFICES ASSUME Rows, LinkRows, [Next]_vars PROVE LinkRows' /\ PayerIsKept
    OBVIOUS
  <1>1. CASE \E op \in Ops : Prepare(op) \/ ExpirePrepared(op) \/ SweepTerminal(op) \/ Tick(op)
    BY <1>1 DEF Prepare, ExpirePrepared, SweepTerminal, Tick, links, LinkRows, PayerIsKept
  <1>2. CASE \E l \in Links : CancelIntent(l)
    BY <1>2 DEF CancelIntent, LinkRows, PayerIsKept
  <1>3. ASSUME NEW s \in Submits, NEW op \in Ops, ClaimPending(s, op) PROVE LinkRows' /\ PayerIsKept
    <2>1. UNCHANGED <<link, recon>> BY <1>3 DEF ClaimPending, links
    <2>2. LinkOf[op] # None => LinkOf[op] \in Links BY ConstantsAssumption
    <2>3. QED BY <1>3, <2>1, <2>2 DEF ClaimPending, Rows, SubmitRows, LinkRows, PayerIsKept
  <1>4. CASE \E s \in Submits : SubmitStep(s) \/ PersistFails(s) \/ SubmitDies(s)
    BY <1>4, SubmitLinks
  <1>5. CASE Recover \/ \E op \in Ops : Land(op) \/ Reorg(op) \/ Journal(op)
    BY <1>5 DEF Recover, Land, Reorg, Journal, links, LinkRows, PayerIsKept
  <1>6. CASE \E op \in Ops : ClaimRequest(op)
    BY <1>6, ReconAtRow DEF ClaimRequest, links, LinkRows, PayerIsKept
  <1>7. CASE ReconStep \/ ReconFails \/ ReconDies
    BY <1>7, ReconLinks
  <1>8. CASE UNCHANGED vars
    BY <1>8 DEF vars, links, LinkRows, PayerIsKept
  <1>9. QED BY <1>1, <1>2, <1>3, <1>4, <1>5, <1>6, <1>7, <1>8 DEF Next

\* No step reopens a closed payment.
LEMMA StepClosed == Rows /\ WorkInv /\ [Next]_vars => ClosedIsKept
  <1> SUFFICES ASSUME Rows, WorkInv, [Next]_vars PROVE ClosedIsKept
    OBVIOUS
  <1> USE DEF ClosedIsKept, Rows, PaymentRows, Terminal
  <1>1. CASE \E op \in Ops : Prepare(op) \/ ExpirePrepared(op) \/ SweepTerminal(op) \/ Tick(op)
    BY <1>1 DEF Prepare, ExpirePrepared, SweepTerminal, Tick, Delete
  <1>2. CASE \E l \in Links : CancelIntent(l)
    BY <1>2 DEF CancelIntent, rows
  <1>3. CASE \E s \in Submits, op \in Ops : ClaimPending(s, op)
    BY <1>3 DEF ClaimPending
  <1>4. CASE \E s \in Submits : SubmitStep(s) \/ PersistFails(s) \/ SubmitDies(s)
    BY <1>4 DEF SubmitStep, ClaimLink, Send, PersistSubmitted, MarkBroadcast, ReleasePending,
       ReleaseLink, PersistFails, SubmitDies, rows, InFlight
  <1>5. CASE Recover \/ \E op \in Ops : Land(op) \/ Reorg(op) \/ Journal(op)
    BY <1>5 DEF Recover, Land, Reorg, Journal, rows
  <1>6. CASE \E op \in Ops : ClaimRequest(op)
    BY <1>6 DEF ClaimRequest
  <1>7. CASE ReconStep \/ ReconFails \/ ReconDies
    BY <1>7 DEF ReconStep, ReconFails, ReconDies, Read, Discover, Wait, WriteLedger, SettleLink,
       Confirm, Fail, Unlink, Conclude, rows, WorkInv, ReconIsOpen
  <1>8. CASE UNCHANGED vars
    BY <1>8 DEF vars, rows
  <1>9. QED BY <1>1, <1>2, <1>3, <1>4, <1>5, <1>6, <1>7, <1>8 DEF Next

\* A confirmed or failed payment is never reopened and a paid link never
\* changes its payer, although setPendingPaymentStatus and the reconciler's
\* discovery write without a condition on the status.
THEOREM ClosedStaysClosed == Spec => TerminalStays
  <1> DEFINE Inv == Rows /\ WorkInv /\ LinkRows
  <1>1. Init => Inv
    <2>1. Init => LinkRows
      BY DEF Init, LinkRows, Link, Unclaimed, IdleSubmit, IdleRecon
    <2>2. QED BY <2>1, InitRows
  <1>2. Inv /\ [Next]_vars => Inv' BY StepWork, StepLinks
  <1>3. Inv /\ [Next]_vars => [ClosedIsKept /\ PayerIsKept]_vars BY StepClosed, StepLinks
  <1>4. QED BY <1>1, <1>2, <1>3, PTL DEF Spec, TerminalStays

-----------------------------------------------------------------------------
(* What may be at the transport                                            *)

\* A request that has not handed its operation over, and one that has not yet
\* written what became of it
Before == {"claimed", "linkTaken", "send", "refused"}
Owning == Before \cup {"accepted", "ambiguous"}

\* Evidence of an operation comes from the transport.
EvidenceIsSent ==
    /\ \A op \in Ops : chain[op] # None \/ receipt[op] # None => op \in sent
    /\ recon.pc \in {"ledger", "link", "confirm", "fail"} => recon.op \in sent

\* The request that owns an operation is alone; before the hand-over the row
\* is submitting and the operation is nowhere else.
OwnerIsAlone ==
    /\ \A s \in Submits : submit[s].pc \in Owning =>
          payment[submit[s].op] \notin {"none", "prepared"}
    /\ \A s \in Submits : submit[s].pc \in Before =>
          payment[submit[s].op] = "submitting" /\ submit[s].op \notin sent
    /\ \A r, s \in Submits :
          submit[r].pc \in Owning /\ submit[s].pc \in Owning /\ submit[r].op = submit[s].op => r = s

\* What may be at the transport has left /pay/prepare for good.
SentIsTaken == \A op \in Ops : op \in sent => payment[op] \notin {"none", "prepared"}

SentInv == SentIsTaken /\ OwnerIsAlone /\ EvidenceIsSent

\* Steps of payments nobody owns or sent
LEMMA PaymentsMovedApart ==
    ASSUME SentInv, UNCHANGED <<submit, sent>>,
           \A op \in Ops : payment'[op] # payment[op] =>
               /\ payment'[op] \notin {"none", "prepared"} \/ op \notin sent
               /\ \A s \in Submits : submit[s].op = op =>
                     /\ submit[s].pc \notin Before
                     /\ submit[s].pc \in Owning => payment'[op] \notin {"none", "prepared"},
           Rows
    PROVE  SentIsTaken' /\ OwnerIsAlone'
  BY DEF SentInv, SentIsTaken, OwnerIsAlone, Rows, SubmitRows, Before, Owning

\* Steps that leave the transport, the chain and the journal alone
LEMMA EvidenceUntouched ==
    ASSUME EvidenceIsSent, UNCHANGED <<sent, chain, receipt, recon>>
    PROVE  EvidenceIsSent'
  BY DEF EvidenceIsSent

\* The steps of the table itself move no payment that a request owns or sent.
LEMMA RowStepsSent ==
    ASSUME Rows, SentInv, NEW op \in Ops,
           Prepare(op) \/ ExpirePrepared(op) \/ SweepTerminal(op) \/ Tick(op)
    PROVE  SentInv'
  <1>1. UNCHANGED <<submit, sent, chain, receipt, recon>>
    BY DEF Prepare, ExpirePrepared, SweepTerminal, Tick, network
  <1>2. EvidenceIsSent' BY <1>1, EvidenceUntouched DEF SentInv
  <1>3. /\ payment' \in [Ops -> Statuses]
        /\ \A o \in Ops : payment'[o] # payment[o] =>
              \/ payment[o] = "none"
              \/ payment[o] \in {"prepared", "confirmed", "failed"} /\ payment'[o] = "gone"
    BY DEF Prepare, ExpirePrepared, SweepTerminal, Tick, Delete, Rows, PaymentRows, Statuses, Terminal
  <1>4. QED
    BY <1>1, <1>2, <1>3, PaymentsMovedApart DEF SentInv, SentIsTaken, OwnerIsAlone, Before, Owning

\* The conditional claim makes one request the owner of an unsent operation.
LEMMA ClaimPendingSent ==
    ASSUME Rows, SentInv, NEW s \in Submits, NEW op \in Ops, ClaimPending(s, op)
    PROVE  SentInv'
  <1>1. UNCHANGED <<sent, chain, receipt, recon>> BY DEF ClaimPending, network
  <1>2. EvidenceIsSent' BY <1>1, EvidenceUntouched DEF SentInv
  <1>3. CASE payment[op] = "prepared"
    <2>1. payment' = [payment EXCEPT ![op] = "submitting"]
      BY <1>3 DEF ClaimPending
    <2>2. /\ \A r \in Submits \ {s} : submit'[r] = submit[r]
          /\ submit'[s].op = op /\ submit'[s].pc \in {"send", "claimed"}
      BY <1>3 DEF ClaimPending, Rows, SubmitRows
    <2>3. op \notin sent /\ \A r \in Submits : submit[r].pc \in Owning => submit[r].op # op
      BY <1>3 DEF SentInv, SentIsTaken, OwnerIsAlone
    <2>4. \A r \in Submits : submit[r].pc \in Owning => submit[r].op \in Ops
      BY DEF Rows, SubmitRows, Owning, Before
    <2>5. SentIsTaken' BY <1>1, <2>1 DEF SentInv, SentIsTaken, Rows, PaymentRows
    <2>6. OwnerIsAlone'
      BY <1>1, <2>1, <2>2, <2>3, <2>4 DEF SentInv, OwnerIsAlone, Rows, PaymentRows, Owning, Before
    <2>7. QED BY <1>2, <2>5, <2>6 DEF SentInv
  <1>4. CASE payment[op] # "prepared"
    <2>1. payment' = payment /\ submit' = submit
      BY <1>4 DEF ClaimPending, Rows, PaymentRows
    <2>2. QED BY <1>1, <1>2, <2>1 DEF SentInv, SentIsTaken, OwnerIsAlone
  <1>5. QED BY <1>3, <1>4

\* A request that goes on within what it owns, or lets it go
LEMMA OwnerMoved ==
    ASSUME Rows, SentInv, NEW s \in Submits, submit[s].pc # "idle",
           NEW pc \in {"idle", "linkTaken", "send", "accepted", "ambiguous", "mark", "refused",
                       "unlink"},
           Goto(s, pc),
           pc \in Owning => submit[s].pc \in Owning,
           pc \in Before => submit[s].pc \in Before,
           UNCHANGED payment,
           sent' = sent \/ (/\ sent' = sent \cup {submit[s].op} /\ submit[s].pc \in Before
                            /\ pc \notin Before)
    PROVE  SentIsTaken' /\ OwnerIsAlone'
  <1>1. /\ \A r \in Submits \ {s} : submit'[r] = submit[r]
        /\ submit'[s].pc = pc
        /\ pc # "idle" => submit'[s].op = submit[s].op
    BY GotoRows DEF Rows
  <1>2. \A r \in Submits : submit[r].pc \in Owning => submit[r].op \in Ops
    BY DEF Rows, SubmitRows, Owning, Before
  <1>3. SentIsTaken' BY DEF SentInv, SentIsTaken, OwnerIsAlone
  <1>4. OwnerIsAlone'
    BY <1>1, <1>2 DEF SentInv, OwnerIsAlone, Owning, Before
  <1>5. QED BY <1>3, <1>4

\* A request hands over only what it owns and releases only what it has not sent.
LEMMA SubmitStepsSent ==
    ASSUME Rows, SentInv, NEW s \in Submits,
           SubmitStep(s) \/ PersistFails(s) \/ SubmitDies(s)
    PROVE  SentInv'
  <1> DEFINE op == submit[s].op
  <1>1. op \in Ops /\ submit[s].pc # "idle" /\ UNCHANGED <<chain, receipt, recon>>
    BY DEF SubmitStep, ClaimLink, Send, PersistSubmitted, MarkBroadcast, ReleasePending, ReleaseLink,
       PersistFails, SubmitDies, Rows, SubmitRows, network
  <1>2. sent \subseteq sent'
    BY DEF SubmitStep, ClaimLink, Send, PersistSubmitted, MarkBroadcast, ReleasePending, ReleaseLink,
       PersistFails, SubmitDies, network
  <1>3. EvidenceIsSent' BY <1>1, <1>2 DEF SentInv, EvidenceIsSent
  <1>4. CASE ClaimLink(s) \/ MarkBroadcast(s) \/ ReleaseLink(s) \/ PersistFails(s) \/ SubmitDies(s)
    <2>1. PICK pc \in {"idle", "linkTaken", "send", "mark"} :
            Goto(s, pc) /\ (pc \in {"linkTaken", "send"} => submit[s].pc = "claimed")
      BY <1>4 DEF ClaimLink, MarkBroadcast, ReleaseLink, PersistFails, SubmitDies
    <2>2. UNCHANGED <<payment, sent>>
      BY <1>4 DEF ClaimLink, MarkBroadcast, ReleaseLink, PersistFails, SubmitDies, rows, network
    <2>3. SentIsTaken' /\ OwnerIsAlone'
      BY <1>1, <2>1, <2>2, OwnerMoved DEF Owning, Before
    <2>4. QED BY <1>3, <2>3 DEF SentInv
  <1>5. CASE Send(s)
    <2>1. PICK pc \in {"accepted", "ambiguous", "refused"} :
            /\ Goto(s, pc)
            /\ sent' = sent \/ (sent' = sent \cup {op} /\ pc # "refused")
      BY <1>5 DEF Send
    <2>2. UNCHANGED payment /\ submit[s].pc = "send" BY <1>5 DEF Send, rows
    <2>3. SentIsTaken' /\ OwnerIsAlone'
      BY <1>1, <2>1, <2>2, OwnerMoved DEF Owning, Before
    <2>4. QED BY <1>3, <2>3 DEF SentInv
  <1>6. CASE PersistSubmitted(s) \/ ReleasePending(s)
    <2>1. PICK pc \in {"idle", "mark", "unlink"} : Goto(s, pc)
      BY <1>6 DEF PersistSubmitted, ReleasePending
    <2>2. /\ \A r \in Submits \ {s} : submit'[r] = submit[r]
          /\ submit'[s].pc = pc
      BY <1>1, <2>1, GotoRows DEF Rows
    <2>3. UNCHANGED sent /\ submit[s].pc \in Owning
      BY <1>6 DEF PersistSubmitted, ReleasePending, network, Owning, Before
    <2>4. /\ payment' \in [Ops -> Statuses]
          /\ \A o \in Ops \ {op} : payment'[o] = payment[o]
          /\ payment'[op] \in {"none", "prepared"} => payment'[op] = payment[op] \/ op \notin sent
      BY <1>1, <1>6 DEF PersistSubmitted, ReleasePending, Rows, PaymentRows, Statuses, InFlight,
         SentInv, OwnerIsAlone, Before
    <2>5. \A r \in Submits : submit[r].pc \in Owning /\ r # s => submit[r].op \in Ops \ {op}
      BY <2>3 DEF Rows, SubmitRows, Owning, Before, SentInv, OwnerIsAlone
    <2>6. SentIsTaken' BY <2>3, <2>4 DEF SentInv, SentIsTaken
    <2>7. OwnerIsAlone'
      BY <2>2, <2>3, <2>4, <2>5 DEF SentInv, OwnerIsAlone, Owning, Before
    <2>8. QED BY <1>3, <2>6, <2>7 DEF SentInv
  <1>7. QED BY <1>4, <1>5, <1>6 DEF SubmitStep

\* The chain and its journal know only of operations that were sent.
LEMMA ChainStepsSent ==
    ASSUME Rows, SentInv,
           Recover \/ \E op \in Ops : Land(op) \/ Reorg(op) \/ Journal(op)
    PROVE  SentInv'
  <1>1. UNCHANGED <<payment, submit, recon, sent>>
    BY DEF Recover, Land, Reorg, Journal, rows, network
  <1>2. SentIsTaken' /\ OwnerIsAlone' BY <1>1 DEF SentInv, SentIsTaken, OwnerIsAlone
  <1>3. \A op \in Ops : chain'[op] # None \/ receipt'[op] # None => op \in sent
    <2>1. CASE Recover
      BY <2>1 DEF Recover, Demoted, Orphan, network, SentInv, EvidenceIsSent
    <2>2. ASSUME NEW op \in Ops, Land(op)
          PROVE  \A o \in Ops : chain'[o] # None \/ receipt'[o] # None => o \in sent
      <3>1. op \in sent /\ UNCHANGED receipt /\ \A o \in Ops \ {op} : chain'[o] = chain[o]
        BY <2>2 DEF Land
      <3>2. QED BY <3>1 DEF SentInv, EvidenceIsSent
    <2>3. ASSUME NEW op \in Ops, Reorg(op)
          PROVE  \A o \in Ops : chain'[o] # None \/ receipt'[o] # None => o \in sent
      <3>1. chain[op] # None /\ UNCHANGED receipt /\ \A o \in Ops \ {op} : chain'[o] = chain[o]
        BY <2>3 DEF Reorg
      <3>2. QED BY <3>1 DEF SentInv, EvidenceIsSent
    <2>4. ASSUME NEW op \in Ops, Journal(op)
          PROVE  \A o \in Ops : chain'[o] # None \/ receipt'[o] # None => o \in sent
      <3>1. chain[op] # None /\ UNCHANGED chain /\ \A o \in Ops \ {op} : receipt'[o] = receipt[o]
        BY <2>4 DEF Journal, network
      <3>2. QED BY <3>1 DEF SentInv, EvidenceIsSent
    <2>5. QED BY <2>1, <2>2, <2>3, <2>4
  <1>4. QED BY <1>1, <1>2, <1>3 DEF SentInv, EvidenceIsSent

\* The stream the reconciler asks for has no checkpoint, so that it only
\* decides on evidence.
LEMMA VerdictHasEvidence ==
    ASSUME NEW op, Verdict(op) \in {"ledger", "fail"}
    PROVE  receipt[op] # None
  BY DEF Verdict, CoveredPast, Covers, Streams, Canonical

\* The reconciler moves payments on evidence, never back to prepared.
LEMMA ReconStepsSent ==
    ASSUME Rows, SentInv, ReconStep \/ ReconFails \/ ReconDies
    PROVE  SentInv'
  <1> DEFINE op == recon.op
  <1>1. op \in Ops /\ recon.pc # "idle" /\ UNCHANGED <<submit, sent, chain, receipt>>
    BY DEF ReconStep, ReconFails, ReconDies, Read, Discover, Wait, WriteLedger, SettleLink, Confirm,
       Fail, Unlink, Rows, ReconRow, network
  <1> HIDE DEF op
  <1>2. CASE Read
    <2>1. recon'.pc \in {"ledger", "link", "confirm", "fail"} =>
            Verdict(op) \in {"ledger", "fail"} /\ recon'.op = op
      BY <1>2, VerdictCases DEF Read, ReconAt, IdleRecon, op
    <2>2. EvidenceIsSent' BY <1>1, <2>1, VerdictHasEvidence DEF SentInv, EvidenceIsSent
    <2>3. UNCHANGED payment BY <1>2 DEF Read
    <2>4. QED BY <1>1, <2>2, <2>3 DEF SentInv, SentIsTaken, OwnerIsAlone
  <1>3. CASE ~Read
    <2>1. PICK pc \in {"idle", "wait", "confirm", "link", "unlink"} :
            /\ ReconAt(pc, op)
            /\ pc \in {"link", "confirm"} => recon.pc \in {"ledger", "link"}
      BY <1>3 DEF ReconStep, ReconFails, ReconDies, Discover, Wait, WriteLedger, SettleLink,
         Confirm, Fail, Unlink, op
    <2>2. recon'.pc = pc /\ (pc # "idle" => recon'.op = op)
      BY <1>1, <2>1, ReconAtRow
    <2>3. EvidenceIsSent'
      BY <1>1, <2>1, <2>2 DEF SentInv, EvidenceIsSent, op
    <2>4. CASE Discover \/ Confirm \/ Fail
      <3>1. op \in sent
        BY <1>1, <2>4 DEF Discover, Confirm, Fail, SentInv, EvidenceIsSent, op
      <3>2. /\ \A o \in Ops \ {op} : payment'[o] = payment[o]
            /\ payment'[op] = payment[op] \/ payment'[op] \notin {"none", "prepared"}
        BY <1>1, <2>4 DEF Discover, Confirm, Fail, Conclude, Rows, PaymentRows, op
      <3>3. \A s \in Submits : submit[s].op = op => submit[s].pc \notin Before
        BY <3>1 DEF SentInv, OwnerIsAlone
      <3>4. SentIsTaken' /\ OwnerIsAlone'
        BY <1>1, <3>1, <3>2, <3>3, PaymentsMovedApart
      <3>5. QED BY <2>3, <3>4 DEF SentInv
    <2>5. CASE ~(Discover \/ Confirm \/ Fail)
      <3>1. UNCHANGED payment
        BY <1>3, <2>5 DEF ReconStep, ReconFails, ReconDies, Wait, WriteLedger, SettleLink, Unlink, rows
      <3>2. QED BY <1>1, <2>3, <3>1 DEF SentInv, SentIsTaken, OwnerIsAlone
    <2>6. QED BY <2>4, <2>5
  <1>4. QED BY <1>2, <1>3

\* Every step keeps what is known of the operations at the transport.
LEMMA StepSent == Rows /\ SentInv /\ [Next]_vars => SentInv'
  <1> SUFFICES ASSUME Rows, SentInv, [Next]_vars PROVE SentInv'
    OBVIOUS
  <1>1. CASE \E op \in Ops : Prepare(op) \/ ExpirePrepared(op) \/ SweepTerminal(op) \/ Tick(op)
    BY <1>1, RowStepsSent
  <1>2. CASE \E l \in Links : CancelIntent(l)
    BY <1>2 DEF CancelIntent, rows, network, SentInv, SentIsTaken, OwnerIsAlone, EvidenceIsSent
  <1>3. CASE \E s \in Submits, op \in Ops : ClaimPending(s, op)
    BY <1>3, ClaimPendingSent
  <1>4. CASE \E s \in Submits : SubmitStep(s) \/ PersistFails(s) \/ SubmitDies(s)
    BY <1>4, SubmitStepsSent
  <1>5. CASE Recover \/ \E op \in Ops : Land(op) \/ Reorg(op) \/ Journal(op)
    BY <1>5, ChainStepsSent
  <1>6. CASE \E op \in Ops : ClaimRequest(op)
    BY <1>6, ReconAtRow DEF ClaimRequest, network, SentInv, SentIsTaken, OwnerIsAlone, EvidenceIsSent
  <1>7. CASE ReconStep \/ ReconFails \/ ReconDies
    BY <1>7, ReconStepsSent
  <1>8. CASE UNCHANGED vars
    BY <1>8 DEF vars, rows, network, SentInv, SentIsTaken, OwnerIsAlone, EvidenceIsSent
  <1>9. QED BY <1>1, <1>2, <1>3, <1>4, <1>5, <1>6, <1>7, <1>8 DEF Next

\* An operation the relayer or a bundler may hold is never offered for signing
\* again by releasePendingClaim, whatever answers were lost, and however many
\* requests, operations and faults there are.
THEOREM SentIsNeverReleased == Spec => []SentIsNotReleased
  <1> DEFINE Inv == Rows /\ WorkInv /\ SentInv
  <1>1. Init => Inv
    <2>1. Init => SentInv
      BY DEF Init, SentInv, SentIsTaken, OwnerIsAlone, EvidenceIsSent, Owning, Before, IdleSubmit,
         IdleRecon
    <2>2. QED BY <2>1, InitRows
  <1>2. Inv /\ [Next]_vars => Inv' BY StepWork, StepSent
  <1>3. Inv => SentIsNotReleased BY DEF SentInv, SentIsTaken, SentIsNotReleased
  <1>4. QED BY <1>1, <1>2, <1>3, PTL DEF Spec

-----------------------------------------------------------------------------
(* Types                                                                   *)

\* Age, intent, chain, journal, ledger and the reconciler's own row.
EvidenceRows ==
    /\ age \in [Ops -> Ages]
    /\ intent \in [Links -> {"awaiting_payment", "paid", "canceled"}]
    /\ sent \subseteq Ops
    /\ chain \in [Ops -> Landing \cup {None}]
    /\ receipt \in [Ops -> Receipt \cup {None}]
    /\ ledger \in [Ops -> Entry \cup {None}]
    /\ recon \in Recon /\ (recon.pc = "ledger" => recon.block \in Blocks)
    /\ reorged \subseteq Ops /\ astray \subseteq Ops /\ raced \subseteq Ops
    /\ faults \in 0..MaxFaults

TypeInv == Rows /\ LinkRows /\ EvidenceRows

\* The reconciler's row keeps its type, and its block, when it moves.
LEMMA ReconAtType ==
    ASSUME recon \in Recon, NEW op \in Ops,
           NEW pc \in {"idle", "read", "discover", "link", "confirm", "fail", "unlink", "wait"},
           ReconAt(pc, op)
    PROVE  recon' \in Recon /\ recon'.pc # "ledger"
BY DEF ReconAt, Recon, IdleRecon

\* Steps of the table and of the merchant.
LEMMA RowStepsType ==
    ASSUME TypeInv,
           \/ \E op \in Ops : Prepare(op) \/ ExpirePrepared(op) \/ SweepTerminal(op) \/ Tick(op)
           \/ \E l \in Links : CancelIntent(l)
           \/ \E s \in Submits, op \in Ops : ClaimPending(s, op)
    PROVE  EvidenceRows'
<1>1. /\ UNCHANGED <<sent, chain, receipt, ledger, recon, reorged, astray, raced, faults>>
      /\ age' \in [Ops -> Ages]
      /\ intent' \in [Links -> {"awaiting_payment", "paid", "canceled"}]
  BY DEF TypeInv, EvidenceRows, Prepare, ExpirePrepared, SweepTerminal, Tick, CancelIntent,
     ClaimPending, Ages, rows, links, network, ghosts
<1>2. QED
  BY <1>1 DEF TypeInv, EvidenceRows

\* Steps of a request.
LEMMA SubmitStepsType ==
    ASSUME TypeInv, NEW s \in Submits, SubmitStep(s) \/ PersistFails(s) \/ SubmitDies(s)
    PROVE  EvidenceRows'
<1>1. submit[s].op \in Ops
  BY DEF SubmitStep, ClaimLink, Send, PersistSubmitted, MarkBroadcast, ReleasePending,
     ReleaseLink, PersistFails, SubmitDies, TypeInv, Rows, SubmitRows
<1>2. /\ UNCHANGED <<age, intent, chain, receipt, ledger, recon, reorged, raced>>
      /\ sent' \subseteq sent \cup {submit[s].op} /\ astray' \subseteq astray \cup {submit[s].op}
      /\ faults' = faults \/ (faults < MaxFaults /\ faults' = faults + 1)
  BY DEF SubmitStep, ClaimLink, Send, PersistSubmitted, MarkBroadcast, ReleasePending,
     ReleaseLink, PersistFails, SubmitDies, rows, links, network, ghosts
<1>3. faults' \in 0..MaxFaults
  BY <1>2, ConstantsAssumption DEF TypeInv, EvidenceRows
<1>4. QED
  BY <1>1, <1>2, <1>3 DEF TypeInv, EvidenceRows

\* Evidence that is demoted stays evidence of the same block and result.
LEMMA DemotedRows ==
    ASSUME NEW Row, Row = Receipt \/ Row = Entry, NEW f \in [Ops -> Row \cup {None}],
           NEW op \in Ops, f[op] # None
    PROVE  /\ Demoted(f)[op] \in Row /\ Demoted(f)[op] # None
           /\ Demoted(f)[op].block = f[op].block
           /\ Row = Receipt => Demoted(f)[op].ok = f[op].ok
           /\ Demoted(f)[op].canonical => f[op].canonical /\ ~Orphan(op, f[op])
           /\ ~Orphan(op, f[op]) => Demoted(f)[op] = f[op]
<1>1. f[op] \in Row
  OBVIOUS
<1>2. Demoted(f)[op] = IF Orphan(op, f[op]) THEN [f[op] EXCEPT !.canonical = FALSE] ELSE f[op]
  BY DEF Demoted
<1>3. Row = Receipt => Demoted(f)[op].ok = f[op].ok
  BY <1>1, <1>2 DEF Receipt
<1>4. CASE Row = Receipt
  BY <1>1, <1>2, <1>3, <1>4, NoneAssumption DEF Receipt
<1>5. CASE Row = Entry
  <2>1. /\ Demoted(f)[op] \in Row /\ Demoted(f)[op] # None
        /\ Demoted(f)[op].block = f[op].block
    BY <1>1, <1>2, <1>5, NoneAssumption DEF Entry
  <2>2. /\ Demoted(f)[op].canonical => f[op].canonical /\ ~Orphan(op, f[op])
        /\ ~Orphan(op, f[op]) => Demoted(f)[op] = f[op]
    BY <1>1, <1>2, <1>5 DEF Entry
  <2>3. QED
    BY <1>3, <2>1, <2>2
<1>6. QED
  BY <1>4, <1>5

\* What was never there is not demoted.
LEMMA DemotedNone ==
    ASSUME NEW f, NEW op \in Ops, f[op] = None
    PROVE  Demoted(f)[op] = None
BY DEF Demoted, Orphan

\* Demoted rows have the type they had.
LEMMA DemotedType ==
    ASSUME NEW Row, Row = Receipt \/ Row = Entry, NEW f \in [Ops -> Row \cup {None}]
    PROVE  Demoted(f) \in [Ops -> Row \cup {None}]
<1>1. \A op \in Ops : Demoted(f)[op] \in Row \cup {None}
  <2>1. SUFFICES ASSUME NEW op \in Ops PROVE Demoted(f)[op] \in Row \cup {None}
    OBVIOUS
  <2>2. QED
    BY <2>1, DemotedRows, DemotedNone
<1>2. Demoted(f) = [op \in Ops |-> Demoted(f)[op]]
  BY DEF Demoted
<1>3. QED
  BY <1>1, <1>2

\* Steps of the chain and of the watcher.
LEMMA ChainStepsType ==
    ASSUME TypeInv, Recover \/ \E op \in Ops : Land(op) \/ Reorg(op) \/ Journal(op)
    PROVE  EvidenceRows'
<1>1. CASE Recover
  <2>1. receipt' \in [Ops -> Receipt \cup {None}] /\ ledger' \in [Ops -> Entry \cup {None}]
    BY <1>1, DemotedType DEF Recover, TypeInv, EvidenceRows
  <2>2. raced' \subseteq Ops
    BY <1>1 DEF Recover, Overtaken, OrphanReceipts, TypeInv, EvidenceRows
  <2>3. UNCHANGED <<age, intent, sent, chain, recon, reorged, astray, faults>>
    BY <1>1 DEF Recover, rows, links, network
  <2>4. QED
    BY <2>1, <2>2, <2>3 DEF TypeInv, EvidenceRows
<1>2. ASSUME NEW op \in Ops, Land(op) PROVE EvidenceRows'
  <2>1. PICK e \in Landing : chain' = [chain EXCEPT ![op] = e]
    BY <1>2 DEF Land, Landing, Blocks
  <2>2. UNCHANGED <<age, intent, sent, receipt, ledger, recon, reorged, astray, raced, faults>>
    BY <1>2 DEF Land, rows, links, ghosts
  <2>3. QED
    BY <2>1, <2>2 DEF TypeInv, EvidenceRows
<1>3. ASSUME NEW op \in Ops, Reorg(op) PROVE EvidenceRows'
  BY <1>3 DEF Reorg, TypeInv, EvidenceRows, rows, links
<1>4. ASSUME NEW op \in Ops, Journal(op) PROVE EvidenceRows'
  <2>1. chain[op] \in Landing
    BY <1>4 DEF Journal, TypeInv, EvidenceRows
  <2>2. PICK e \in Receipt : receipt' = [receipt EXCEPT ![op] = e]
    BY <1>4, <2>1 DEF Journal, Landing, Receipt
  <2>3. UNCHANGED <<age, intent, sent, chain, ledger, recon, reorged, astray, raced, faults>>
    BY <1>4 DEF Journal, links, network, ghosts
  <2>4. QED
    BY <2>2, <2>3 DEF TypeInv, EvidenceRows
<1>5. QED
  BY <1>1, <1>2, <1>3, <1>4

\* Steps of the reconciler.
LEMMA ReconStepsType ==
    ASSUME TypeInv, ReconStep \/ ReconFails \/ ReconDies \/ \E op \in Ops : ClaimRequest(op)
    PROVE  EvidenceRows'
<1>1. CASE \E op \in Ops : ClaimRequest(op)
  BY <1>1, ReconAtType DEF ClaimRequest, TypeInv, EvidenceRows, links, network, ghosts
<1>2. CASE ReconStep \/ ReconFails \/ ReconDies
  <2>1. recon.op \in Ops /\ recon.pc # "idle"
    BY <1>2 DEF ReconStep, ReconFails, ReconDies, Read, Discover, Wait, WriteLedger,
       SettleLink, Confirm, Fail, Unlink, TypeInv, Rows, ReconRow
  <2>2. UNCHANGED <<age, sent, chain, receipt, reorged, raced>>
    BY <1>2 DEF ReconStep, ReconFails, ReconDies, Read, Discover, Wait, WriteLedger,
       SettleLink, Confirm, Fail, Unlink, rows, network, ghosts
  <2>3. /\ intent' \in [Links -> {"awaiting_payment", "paid", "canceled"}]
        /\ astray' \subseteq Ops
        /\ faults' = faults \/ (faults < MaxFaults /\ faults' = faults + 1)
    BY <1>2, <2>1 DEF ReconStep, ReconFails, ReconDies, Read, Discover, Wait, WriteLedger,
       SettleLink, Confirm, Fail, Unlink, TypeInv, EvidenceRows, links, ghosts
  <2>4. ledger' \in [Ops -> Entry \cup {None}]
    <3>1. CASE WriteLedger
      <4>1. [block |-> recon.block, canonical |-> TRUE] \in Entry
        BY <3>1 DEF WriteLedger, TypeInv, EvidenceRows, Entry
      <4>2. QED
        BY <3>1, <4>1 DEF WriteLedger, TypeInv, EvidenceRows
    <3>2. CASE ~WriteLedger
      BY <1>2, <3>2 DEF ReconStep, ReconFails, ReconDies, Read, Discover, Wait,
         SettleLink, Confirm, Fail, Unlink, TypeInv, EvidenceRows
    <3>3. QED
      BY <3>1, <3>2
  <2>5. recon' \in Recon /\ (recon'.pc = "ledger" => recon'.block \in Blocks)
    <3>1. CASE Read /\ payment[recon.op] \notin Terminal \cup {"gone"}
      <4>1. recon' = [pc |-> Verdict(recon.op), op |-> recon.op,
                      block |-> IF Canonical(recon.op) THEN receipt[recon.op].block ELSE None]
        BY <3>1 DEF Read
      <4>2. Canonical(recon.op) => receipt[recon.op].block \in Blocks
        BY <2>1 DEF Canonical, TypeInv, EvidenceRows, Receipt
      <4>3. Verdict(recon.op) = "ledger" => Canonical(recon.op)
        BY DEF Verdict
      <4>4. QED
        BY <2>1, <4>1, <4>2, <4>3, VerdictCases DEF Recon
    <3>2. CASE ~(Read /\ payment[recon.op] \notin Terminal \cup {"gone"})
      <4>1. PICK pc \in {"idle", "link", "confirm", "unlink", "wait"} : ReconAt(pc, recon.op)
        BY <1>2, <3>2 DEF ReconStep, ReconFails, ReconDies, Read, Discover, Wait,
           WriteLedger, SettleLink, Confirm, Fail, Unlink
      <4>2. QED
        BY <2>1, <4>1, ReconAtType DEF TypeInv, EvidenceRows
    <3>3. QED
      BY <3>1, <3>2
  <2>6. faults' \in 0..MaxFaults
    BY <2>3, ConstantsAssumption DEF TypeInv, EvidenceRows
  <2>7. QED
    BY <2>2, <2>3, <2>4, <2>5, <2>6 DEF TypeInv, EvidenceRows
<1>3. QED
  BY <1>1, <1>2

\* Every step keeps the types, given the rows of the proofs before.
LEMMA StepType == TypeInv /\ WorkInv /\ [Next]_vars => TypeInv'
<1> SUFFICES ASSUME TypeInv, WorkInv, [Next]_vars PROVE EvidenceRows'
  BY StepWork, StepLinks DEF TypeInv
<1>1. CASE \/ \E op \in Ops : Prepare(op) \/ ExpirePrepared(op) \/ SweepTerminal(op) \/ Tick(op)
           \/ \E l \in Links : CancelIntent(l)
           \/ \E s \in Submits, op \in Ops : ClaimPending(s, op)
  BY <1>1, RowStepsType
<1>2. CASE \E s \in Submits : SubmitStep(s) \/ PersistFails(s) \/ SubmitDies(s)
  BY <1>2, SubmitStepsType
<1>3. CASE Recover \/ \E op \in Ops : Land(op) \/ Reorg(op) \/ Journal(op)
  BY <1>3, ChainStepsType
<1>4. CASE ReconStep \/ ReconFails \/ ReconDies \/ \E op \in Ops : ClaimRequest(op)
  BY <1>4, ReconStepsType
<1>5. CASE UNCHANGED vars
  BY <1>5 DEF vars, rows, links, network, ghosts, TypeInv, EvidenceRows
<1>6. QED
  BY <1>1, <1>2, <1>3, <1>4, <1>5 DEF Next

\* What the database holds at the start.
LEMMA InitType == Init => TypeInv /\ WorkInv /\ SentInv
<1>1. Init => LinkRows
  BY DEF Init, LinkRows, Link, Unclaimed, IdleSubmit, IdleRecon
<1>2. Init => EvidenceRows
  BY ConstantsAssumption DEF Init, EvidenceRows, Ages, Recon, IdleRecon
<1>3. Init => SentInv
  BY DEF Init, SentInv, SentIsTaken, OwnerIsAlone, EvidenceIsSent, Owning, Before, IdleSubmit,
     IdleRecon
<1>4. QED
  BY <1>1, <1>2, <1>3, InitRows DEF TypeInv

-----------------------------------------------------------------------------
(* What a step may do: the facts the invariants below are built on.        *)

\* What landed stays where it is, unless a reorg removes it.
LEMMA ChainStays ==
    ASSUME [Next]_vars, NEW op \in Ops, chain[op] # None, op \notin reorged'
    PROVE  chain'[op] = chain[op] /\ op \notin reorged
<1>1. CASE \E o \in Ops : Land(o)
  BY <1>1 DEF Land, ghosts
<1>2. CASE \E o \in Ops : Reorg(o)
  BY <1>2 DEF Reorg
<1>3. CASE UNCHANGED chain /\ (UNCHANGED reorged)
  BY <1>3
<1>4. QED
  BY ZenonT(60), <1>1, <1>2, <1>3 DEF Next, Prepare, ExpirePrepared, SweepTerminal, Tick,
     CancelIntent, ClaimPending, SubmitStep, ClaimLink, Send, PersistSubmitted,
     MarkBroadcast, ReleasePending, ReleaseLink, PersistFails, SubmitDies, Journal, Recover,
     ClaimRequest, ReconStep, Read, Discover, Wait, WriteLedger, SettleLink, Confirm, Fail,
     Unlink, ReconFails, ReconDies, vars, network, ghosts

\* What went wrong with an operation is not forgotten.
LEMMA GhostsGrow == [Next]_vars => reorged \subseteq reorged' /\ astray \subseteq astray'
BY ZenonT(60) DEF Next, Prepare, ExpirePrepared, SweepTerminal, Tick, CancelIntent,
   ClaimPending, SubmitStep, ClaimLink, Send, PersistSubmitted, MarkBroadcast,
   ReleasePending, ReleaseLink, PersistFails, SubmitDies, Land, Reorg, Journal, Recover,
   ClaimRequest, ReconStep, Read, Discover, Wait, WriteLedger, SettleLink, Confirm, Fail,
   Unlink, ReconFails, ReconDies, vars, ghosts

\* Only the reconciler closes a payment, and on what it decided.
LEMMA OnlyReconCloses ==
    ASSUME TypeInv, [Next]_vars, NEW op \in Ops, payment'[op] \in Terminal
    PROVE  \/ payment'[op] = payment[op]
           \/ recon.op = op /\ recon.pc = "confirm" /\ payment'[op] = "confirmed"
           \/ recon.op = op /\ recon.pc = "fail" /\ payment'[op] = "failed"
<1>0. payment \in [Ops -> Statuses]
  BY DEF TypeInv, Rows, PaymentRows
<1>1. CASE \E o \in Ops : Prepare(o) \/ ExpirePrepared(o) \/ SweepTerminal(o)
  BY <1>0, <1>1 DEF Prepare, ExpirePrepared, SweepTerminal, Delete, Terminal
<1>2. CASE \E s \in Submits, o \in Ops : ClaimPending(s, o)
  BY <1>0, <1>2 DEF ClaimPending, Terminal
<1>3. CASE \E s \in Submits : PersistSubmitted(s) \/ ReleasePending(s)
  BY <1>0, <1>3 DEF PersistSubmitted, ReleasePending, Terminal
<1>4. CASE Discover
  BY <1>0, <1>4 DEF Discover, Terminal
<1>5. CASE Confirm
  BY <1>0, <1>5 DEF Confirm, Conclude
<1>6. CASE Fail
  BY <1>0, <1>6 DEF Fail, Conclude
<1>7. CASE UNCHANGED payment
  BY <1>7
<1>8. QED
  BY ZenonT(60), <1>1, <1>2, <1>3, <1>4, <1>5, <1>6, <1>7 DEF Next, Tick,
     CancelIntent, SubmitStep, ClaimLink, Send, MarkBroadcast, ReleaseLink, PersistFails,
     SubmitDies, Land, Reorg, Journal, Recover, ClaimRequest, ReconStep, Read, Wait,
     WriteLedger, SettleLink, Unlink, ReconFails, ReconDies, vars, rows

\* The reconciler decides in Read, writes the ledger, pays the link and closes.
LEMMA ReconMoves ==
    ASSUME TypeInv, [Next]_vars,
           recon'.pc \in {"ledger", "link", "confirm", "fail", "unlink"}
    PROVE  \/ UNCHANGED recon
           \/ /\ recon'.op = recon.op /\ recon.op \in Ops
              /\ \/ /\ Read /\ recon'.pc = Verdict(recon.op)
                    /\ recon'.block = IF Canonical(recon.op) THEN receipt[recon.op].block
                                                             ELSE None
                 \/ WriteLedger /\ recon'.pc \in {"link", "confirm"}
                 \/ SettleLink /\ recon'.pc = "confirm"
                 \/ Fail /\ recon'.pc = "unlink"
<1>1. CASE \E op \in Ops : ClaimRequest(op)
  BY <1>1, ReconAtRow DEF ClaimRequest
<1>2. CASE ReconStep \/ ReconFails \/ ReconDies
  <2>0. recon.op \in Ops /\ recon.pc # "idle"
    BY <1>2 DEF ReconStep, ReconFails, ReconDies, Read, Discover, Wait, WriteLedger,
       SettleLink, Confirm, Fail, Unlink, TypeInv, Rows, ReconRow
  <2>1. CASE Read
    <3>1. ~ReconAt("idle", recon.op)
      BY <2>0, ReconAtRow
    <3>2. QED
      BY <2>0, <2>1, <3>1 DEF Read
  <2>2. CASE Discover \/ Wait \/ Confirm \/ Unlink \/ ReconFails \/ ReconDies
    <3>1. PICK pc \in {"idle", "wait"} : ReconAt(pc, recon.op)
      BY <2>2 DEF Discover, Wait, Confirm, Unlink, ReconFails, ReconDies
    <3>2. QED
      BY <2>0, <3>1, ReconAtRow
  <2>3. CASE WriteLedger
    <3>1. PICK pc \in {"link", "confirm"} : ReconAt(pc, recon.op)
      BY <2>3 DEF WriteLedger
    <3>2. QED
      BY <2>0, <2>3, <3>1, ReconAtRow
  <2>4. CASE SettleLink
    BY <2>0, <2>4, ReconAtRow DEF SettleLink
  <2>5. CASE Fail
    <3>1. PICK pc \in {"idle", "unlink"} : ReconAt(pc, recon.op)
      BY <2>5 DEF Fail
    <3>2. QED
      BY <2>0, <2>5, <3>1, ReconAtRow
  <2>6. QED
    BY <1>2, <2>1, <2>2, <2>3, <2>4, <2>5 DEF ReconStep
<1>3. CASE UNCHANGED recon
  BY <1>3
<1>4. QED
  BY ZenonT(60), <1>1, <1>2, <1>3 DEF Next, Prepare, ExpirePrepared, SweepTerminal, Tick,
     CancelIntent, ClaimPending, SubmitStep, ClaimLink, Send, PersistSubmitted,
     MarkBroadcast, ReleasePending, ReleaseLink, PersistFails, SubmitDies, Land, Reorg,
     Journal, Recover, vars

\* The ledger and the journal are written by the reconciler, the watcher and
\* its recovery.
LEMMA JournalSteps ==
    ASSUME [Next]_vars
    PROVE  \/ UNCHANGED <<receipt, ledger>> /\ raced \subseteq raced'
           \/ Recover
           \/ \E op \in Ops : Journal(op)
           \/ WriteLedger
BY ZenonT(60) DEF Next, Prepare, ExpirePrepared, SweepTerminal, Tick,
   CancelIntent, ClaimPending, SubmitStep, ClaimLink, Send, PersistSubmitted,
   MarkBroadcast, ReleasePending, ReleaseLink, PersistFails, SubmitDies, Land, Reorg,
   ClaimRequest, ReconStep, Read, Discover, Wait, SettleLink, Confirm, Fail,
   Unlink, ReconFails, ReconDies, vars, ghosts

-----------------------------------------------------------------------------
(* Closing on evidence                                                     *)

\* An operation that landed and was reverted
Reverted(op) == chain[op] # None /\ ~chain[op].ok

\* The journal has the result of the chain, until a reorg.
ReceiptAgrees ==
    \A op \in Ops \ reorged : receipt[op] # None =>
        chain[op] # None /\ receipt[op].ok = chain[op].ok

\* The reconciler is about to do what the chain says.
DecidedOnChain ==
    recon.pc # "idle" /\ recon.op \notin reorged =>
        /\ recon.pc \in {"ledger", "link", "confirm"} => Funded(recon.op)
        /\ recon.pc \in {"fail", "unlink"} => Reverted(recon.op)

\* A payment was closed with what the chain says.
ClosedOnChain ==
    \A op \in Ops \ reorged :
        /\ payment[op] = "confirmed" => Funded(op)
        /\ payment[op] = "failed" => Reverted(op)

\* The ledger is written before the status.
LedgerFirst ==
    /\ recon.pc \in {"link", "confirm"} => ledger[recon.op] # None
    /\ \A op \in Ops : payment[op] = "confirmed" => ledger[op] # None

EvidenceInv == ReceiptAgrees /\ DecidedOnChain /\ ClosedOnChain /\ LedgerFirst

\* The journal keeps to the chain.
LEMMA ReceiptAgreesStep == TypeInv /\ EvidenceInv /\ [Next]_vars => ReceiptAgrees'
<1> SUFFICES ASSUME TypeInv, EvidenceInv, [Next]_vars,
                    NEW op \in Ops, op \notin reorged', receipt'[op] # None
             PROVE  chain'[op] # None /\ receipt'[op].ok = chain'[op].ok
  BY DEF ReceiptAgrees
<1>1. CASE receipt[op] # None /\ receipt'[op].ok = receipt[op].ok
  <2>1. op \notin reorged
    BY GhostsGrow
  <2>2. chain[op] # None /\ receipt[op].ok = chain[op].ok
    BY <1>1, <2>1 DEF EvidenceInv, ReceiptAgrees
  <2>3. QED
    BY <1>1, <2>2, ChainStays
<1>2. CASE Recover
  <2>1. receipt' = Demoted(receipt) /\ receipt \in [Ops -> Receipt \cup {None}]
    BY <1>2 DEF Recover, TypeInv, EvidenceRows
  <2>2. receipt[op] # None
    BY <2>1, DemotedNone
  <2>3. receipt'[op].ok = receipt[op].ok
    BY <2>1, <2>2, DemotedRows
  <2>4. QED
    BY <1>1, <2>2, <2>3
<1>3. ASSUME NEW o \in Ops, Journal(o)
      PROVE  chain'[op] # None /\ receipt'[op].ok = chain'[op].ok
  <2>1. /\ chain[o] # None /\ UNCHANGED chain
        /\ receipt' = [receipt EXCEPT ![o] = [block |-> chain[o].block, ok |-> chain[o].ok,
                                              canonical |-> TRUE]]
    BY <1>3 DEF Journal, network
  <2>2. receipt \in [Ops -> Receipt \cup {None}]
    BY DEF TypeInv, EvidenceRows
  <2>3. CASE o = op
    BY <2>1, <2>2, <2>3
  <2>4. CASE o # op
    BY <1>1, <2>1, <2>2, <2>4
  <2>5. QED
    BY <2>3, <2>4
<1>4. CASE UNCHANGED receipt
  BY <1>1, <1>4
<1>5. QED
  BY <1>2, <1>3, <1>4, JournalSteps DEF WriteLedger

\* The reconciler decides on the journal, and the chain stays with it.
LEMMA DecidedOnChainStep == TypeInv /\ EvidenceInv /\ [Next]_vars => DecidedOnChain'
<1> SUFFICES ASSUME TypeInv, EvidenceInv, [Next]_vars, recon'.op \notin reorged',
                    recon'.pc \in {"ledger", "link", "confirm", "fail", "unlink"}
             PROVE  /\ recon'.pc \in {"ledger", "link", "confirm"} => Funded(recon.op)'
                    /\ recon'.pc \in {"fail", "unlink"} => Reverted(recon.op)'
  BY DEF DecidedOnChain
<1>1. PICK op \in Ops : op = recon'.op /\ op = recon.op
  BY ReconMoves DEF TypeInv, Rows, ReconRow
<1>2. op \notin reorged
  BY <1>1, GhostsGrow
<1>3. /\ recon'.pc \in {"ledger", "link", "confirm"} => Funded(op)
      /\ recon'.pc \in {"fail", "unlink"} => Reverted(op)
  <2>1. CASE Read /\ recon'.pc = Verdict(op)
    <3>1. receipt[op] # None => chain[op] # None /\ receipt[op].ok = chain[op].ok
      BY <1>2 DEF EvidenceInv, ReceiptAgrees
    <3>2. /\ Verdict(op) = "ledger" => Canonical(op) /\ receipt[op].ok
          /\ Verdict(op) = "fail" => Canonical(op) /\ ~receipt[op].ok
      BY DEF Verdict, CoveredPast, Covers, Streams
    <3>3. QED
      BY <2>1, <3>1, <3>2, VerdictCases DEF Canonical, Funded, Reverted
  <2>2. CASE UNCHANGED recon
    BY <1>1, <1>2, <2>2 DEF EvidenceInv, DecidedOnChain
  <2>3. CASE ~(Read /\ recon'.pc = Verdict(op)) /\ recon' # recon
    BY <1>1, <1>2, <2>3, ReconMoves DEF WriteLedger, SettleLink, Fail, EvidenceInv,
       DecidedOnChain
  <2>4. QED
    BY <2>1, <2>2, <2>3
<1>4. chain[op] # None => chain'[op] = chain[op]
  BY <1>1, ChainStays
<1>5. QED
  BY <1>1, <1>3, <1>4 DEF Funded, Reverted

\* A closed payment has the result of the chain.
LEMMA ClosedOnChainStep == TypeInv /\ EvidenceInv /\ [Next]_vars => ClosedOnChain'
<1> SUFFICES ASSUME TypeInv, EvidenceInv, [Next]_vars, NEW op \in Ops, op \notin reorged',
                    payment'[op] \in Terminal
             PROVE  /\ payment'[op] = "confirmed" => Funded(op)'
                    /\ payment'[op] = "failed" => Reverted(op)'
  BY DEF ClosedOnChain, Terminal
<1>1. op \notin reorged
  BY GhostsGrow
<1>2. /\ payment'[op] = "confirmed" => Funded(op)
      /\ payment'[op] = "failed" => Reverted(op)
  BY <1>1, OnlyReconCloses DEF EvidenceInv, ClosedOnChain, DecidedOnChain
<1>3. chain[op] # None => chain'[op] = chain[op]
  BY ChainStays
<1>4. QED
  BY <1>2, <1>3 DEF Funded, Reverted

\* Rows of the ledger are never taken out.
LEMMA LedgerStays ==
    ASSUME TypeInv, [Next]_vars, NEW op \in Ops, ledger[op] # None
    PROVE  ledger'[op] # None
<1>0. ledger \in [Ops -> Entry \cup {None}]
  BY DEF TypeInv, EvidenceRows
<1>1. CASE Recover
  <2>1. ledger' = Demoted(ledger)
    BY <1>1 DEF Recover
  <2>2. QED
    BY <1>0, <2>1, DemotedRows
<1>2. CASE WriteLedger
  <2>1. PICK e \in Entry : e = [block |-> recon.block, canonical |-> TRUE]
    BY <1>2 DEF WriteLedger, TypeInv, EvidenceRows, Entry
  <2>2. ledger' = ledger \/ ledger' = [ledger EXCEPT ![recon.op] = e]
    BY <1>2, <2>1 DEF WriteLedger
  <2>3. QED
    BY <1>0, <2>1, <2>2, NoneAssumption
<1>3. QED
  BY <1>1, <1>2, JournalSteps DEF Journal

\* WriteLedger comes before the link is paid and the payment confirmed.
LEMMA LedgerFirstStep == TypeInv /\ EvidenceInv /\ [Next]_vars => LedgerFirst'
<1> SUFFICES ASSUME TypeInv, EvidenceInv, [Next]_vars PROVE LedgerFirst'
  OBVIOUS
<1>1. ASSUME recon'.pc \in {"link", "confirm"} PROVE ledger'[recon'.op] # None
  <2>1. PICK op \in Ops : op = recon'.op /\ op = recon.op
    BY <1>1, ReconMoves DEF TypeInv, Rows, ReconRow
  <2>2. CASE ledger[op] # None
    BY <2>1, <2>2, LedgerStays
  <2>3. CASE WriteLedger
    <3>1. PICK e \in Entry : e = [block |-> recon.block, canonical |-> TRUE]
      BY <2>3 DEF WriteLedger, TypeInv, EvidenceRows, Entry
    <3>2. ledger[op] # None \/ ledger' = [ledger EXCEPT ![op] = e]
      BY <2>1, <2>3, <3>1 DEF WriteLedger
    <3>3. QED
      BY <2>1, <2>2, <3>1, <3>2, NoneAssumption DEF TypeInv, EvidenceRows
  <2>4. CASE ~WriteLedger /\ ledger[op] = None
    BY <1>1, <2>1, <2>4, ReconMoves, VerdictCases DEF SettleLink, EvidenceInv, LedgerFirst
  <2>5. QED
    BY <2>2, <2>3, <2>4
<1>2. ASSUME NEW op \in Ops, payment'[op] = "confirmed" PROVE ledger'[op] # None
  BY <1>2, OnlyReconCloses, LedgerStays DEF EvidenceInv, LedgerFirst, Terminal
<1>3. QED
  BY <1>1, <1>2 DEF LedgerFirst

\* Each kind of step keeps the evidence.
LEMMA StepEvidence == TypeInv /\ EvidenceInv /\ [Next]_vars => EvidenceInv'
BY ReceiptAgreesStep, DecidedOnChainStep, ClosedOnChainStep, LedgerFirstStep
   DEF EvidenceInv

\* What the proofs below build on.
BaseInv == TypeInv /\ WorkInv /\ SentInv /\ EvidenceInv

\* It holds of the empty tables, and every step preserves it.
LEMMA BaseInvHolds == (Init => BaseInv) /\ (BaseInv /\ [Next]_vars => BaseInv')
<1>1. Init => EvidenceInv
  BY DEF Init, EvidenceInv, ReceiptAgrees, DecidedOnChain, ClosedOnChain, LedgerFirst,
     IdleRecon
<1>2. QED
  BY <1>1, InitType, StepType, StepWork, StepSent, StepEvidence DEF BaseInv, TypeInv

\* Every row and local state has the values its columns and code allow.
THEOREM TypeCorrect == Spec => []TypeOK
<1>1. BaseInv => TypeOK
  BY DEF BaseInv, TypeInv, Rows, PaymentRows, SubmitRows, LinkRows, EvidenceRows, TypeOK
<1>2. QED
  BY <1>1, BaseInvHolds, PTL DEF Spec

\* A payment is only closed as failed when its operation moved no money, unless
\* a reorg replaced the block the reconciler decided on, for any number of
\* operations, requests, lost answers and faults.
THEOREM FailedIsReverted == Spec => []FailedMovedNothing
<1>1. BaseInv => FailedMovedNothing
  BY DEF BaseInv, EvidenceInv, ClosedOnChain, FailedMovedNothing, Reverted
<1>2. QED
  BY <1>1, BaseInvHolds, PTL DEF Spec

-----------------------------------------------------------------------------
(* Journal and ledger through a reorg                                      *)

\* What the reconciler is about to write is what the journal says, unless a
\* recovery came in between.
ReadIsJournal ==
    recon.pc = "ledger" /\ recon.op \notin raced =>
        Canonical(recon.op) /\ receipt[recon.op].block = recon.block

JournalInv == LedgerFollowsJournal /\ ReadIsJournal

\* A recovery leaves the evidence of the chain's own block alone.
LEMMA RecoverKeeps ==
    ASSUME TypeInv, Recover, NEW op \in Ops, Canonical(op), ~Orphan(op, receipt[op])
    PROVE  Canonical(op)' /\ receipt'[op] = receipt[op]
<1>1. receipt' = Demoted(receipt) /\ receipt \in [Ops -> Receipt \cup {None}]
  BY DEF Recover, TypeInv, EvidenceRows
<1>2. receipt[op] # None
  BY DEF Canonical
<1>3. receipt'[op] = receipt[op]
  BY <1>1, <1>2, DemotedRows
<1>4. QED
  BY <1>3 DEF Canonical

\* Rows of the ledger follow the journal.
LEMMA LedgerFollowsStep == TypeInv /\ JournalInv /\ [Next]_vars => LedgerFollowsJournal'
<1> SUFFICES ASSUME TypeInv, JournalInv, [Next]_vars, NEW op \in Ops,
                    ledger'[op] # None, ledger'[op].canonical, op \notin raced'
             PROVE  Canonical(op)' /\ receipt'[op].block = ledger'[op].block
  BY DEF LedgerFollowsJournal
<1>0. /\ ledger \in [Ops -> Entry \cup {None}] /\ receipt \in [Ops -> Receipt \cup {None}]
      /\ recon.block \in Blocks \/ recon.pc # "ledger"
  BY DEF TypeInv, EvidenceRows
<1>1. ASSUME op \notin raced, ledger[op] # None, ledger[op].canonical
      PROVE  Canonical(op) /\ receipt[op].block = ledger[op].block
  BY <1>1 DEF JournalInv, LedgerFollowsJournal
<1>2. CASE UNCHANGED <<receipt, ledger>> /\ raced \subseteq raced'
  BY <1>1, <1>2 DEF Canonical
<1>3. CASE Recover
  <2>1. ledger' = Demoted(ledger) /\ raced \subseteq raced'
    BY <1>3 DEF Recover
  <2>2. ledger[op] # None
    BY <2>1, DemotedNone
  <2>3. /\ ledger[op].canonical /\ ~Orphan(op, ledger[op]) /\ ledger'[op] = ledger[op]
    BY <1>0, <2>1, <2>2, DemotedRows
  <2>4. Canonical(op) /\ receipt[op].block = ledger[op].block
    BY <1>1, <2>1, <2>2, <2>3
  <2>5. ~Orphan(op, receipt[op])
    BY <2>2, <2>3, <2>4 DEF Orphan
  <2>6. QED
    BY <1>3, <2>3, <2>4, <2>5, RecoverKeeps
<1>4. ASSUME NEW o \in Ops, Journal(o)
      PROVE  Canonical(op)' /\ receipt'[op].block = ledger'[op].block
  <2>1. UNCHANGED <<ledger, raced>> /\ ~Canonical(o)
    BY <1>4 DEF Journal, ghosts
  <2>2. Canonical(op) /\ receipt[op].block = ledger[op].block
    BY <1>1, <2>1
  <2>3. receipt'[op] = receipt[op]
    BY <1>0, <1>4, <2>1, <2>2 DEF Journal
  <2>4. QED
    BY <2>1, <2>2, <2>3 DEF Canonical
<1>5. CASE WriteLedger
  <2>1. UNCHANGED <<receipt, raced>> /\ recon.pc = "ledger"
    BY <1>5 DEF WriteLedger, ghosts
  <2>2. CASE ledger'[op] = ledger[op]
    BY <1>1, <2>1, <2>2 DEF Canonical
  <2>3. CASE ledger'[op] # ledger[op]
    <3>1. /\ recon.op = op
          /\ ledger'[op] = [block |-> recon.block, canonical |-> TRUE]
      BY <1>0, <1>5, <2>3 DEF WriteLedger
    <3>2. QED
      BY <2>1, <3>1 DEF JournalInv, ReadIsJournal, Canonical
  <2>4. QED
    BY <2>2, <2>3
<1>6. QED
  BY <1>2, <1>3, <1>4, <1>5, JournalSteps

\* The reconciler reads the journal, and a recovery that overtakes it is seen.
LEMMA ReadIsJournalStep == TypeInv /\ JournalInv /\ [Next]_vars => ReadIsJournal'
<1> SUFFICES ASSUME TypeInv, JournalInv, [Next]_vars,
                    recon'.pc = "ledger", recon'.op \notin raced'
             PROVE  Canonical(recon.op)' /\ receipt'[recon'.op].block = recon'.block
  BY DEF ReadIsJournal
<1>0. PICK op \in Ops : op = recon'.op /\ op = recon.op
  BY ReconMoves DEF TypeInv, Rows, ReconRow
<1>1. CASE Read /\ recon'.pc = Verdict(op)
           /\ recon'.block = IF Canonical(op) THEN receipt[op].block ELSE None
  <2>1. Canonical(op) /\ UNCHANGED receipt
    BY <1>1 DEF Verdict, Read
  <2>2. QED
    BY <1>0, <1>1, <2>1 DEF Canonical
<1>2. CASE UNCHANGED recon
  <2>1. op \notin raced => Canonical(op) /\ receipt[op].block = recon.block
    BY <1>0, <1>2 DEF JournalInv, ReadIsJournal
  <2>2. CASE UNCHANGED receipt /\ raced \subseteq raced'
    BY <1>0, <1>2, <2>1, <2>2 DEF Canonical
  <2>3. CASE Recover
    <3>1. /\ op \notin raced /\ ~Orphan(op, receipt[op])
      BY <1>0, <1>2, <2>3 DEF Recover, Overtaken, OrphanReceipts
    <3>2. QED
      BY <1>0, <1>2, <2>1, <2>3, <3>1, RecoverKeeps
  <2>4. ASSUME NEW o \in Ops, Journal(o)
        PROVE  Canonical(op)' /\ receipt'[op].block = recon'.block
    <3>1. UNCHANGED raced /\ ~Canonical(o)
      BY <2>4 DEF Journal, ghosts
    <3>2. Canonical(op) /\ receipt[op].block = recon.block
      BY <1>0, <2>1, <3>1
    <3>3. receipt'[op] = receipt[op]
      BY <2>4, <3>1, <3>2 DEF Journal, TypeInv, EvidenceRows
    <3>4. QED
      BY <1>2, <3>2, <3>3 DEF Canonical
  <2>5. CASE WriteLedger
    BY <2>2, <2>5 DEF WriteLedger, ghosts
  <2>6. QED
    BY <1>0, <2>2, <2>3, <2>4, <2>5, JournalSteps
<1>3. QED
  BY <1>0, <1>1, <1>2, ReconMoves

\* A canonical row of the ledger is in the block of the canonical receipt, for
\* any number of reorgs, unless a recovery came between the reconciler's read
\* and its write.
THEOREM LedgerFollows == Spec => []LedgerFollowsJournal
<1>1. Init => JournalInv
  BY DEF Init, JournalInv, LedgerFollowsJournal, ReadIsJournal, IdleRecon
<1>2. TypeInv /\ JournalInv /\ [Next]_vars => JournalInv'
  BY LedgerFollowsStep, ReadIsJournalStep DEF JournalInv
<1>3. JournalInv => LedgerFollowsJournal
  BY DEF JournalInv
<1>4. QED
  BY <1>1, <1>2, <1>3, BaseInvHolds, PTL DEF Spec, BaseInv
-----------------------------------------------------------------------------
(* The claim of a link                                                     *)

\* A request carries an operation that is, or may be, at the transport and is
\* not marked on the claim of its link yet.
Carries(op) ==
    \E s \in Submits : submit[s].op = op /\ submit[s].pc \in {"send", "accepted", "ambiguous", "mark"}

\* What the claim of a link has to guard: an operation that may still move
\* money, unless its request died, its claim was released by another request,
\* or a reorg replaced it.
Guarded(op) ==
    /\ LinkOf[op] # None
    /\ op \notin reorged \cup astray
    /\ op \in sent \/ Carries(op)
    /\ ~Reverted(op)

\* The operation has paid its link, or it has claimed it for good: the claim
\* is marked as broadcast, or the request that will mark it is alive.
HoldsLink(op) ==
    LET l == LinkOf[op] IN
    \/ link[l].paidBy = op /\ intent[l] = "paid"
    \/ /\ link[l].paidBy = None /\ link[l].claim = op
       /\ intent[l] = "awaiting_payment"
       /\ link[l].broadcast \/ Carries(op)

\* No request outlives the margin of its operation.
LiveIsYoung == \A s \in Submits : submit[s].pc # "idle" => age[submit[s].op] # "over"

\* The row of what was sent is only swept.
GoneIsOver ==
    \A op \in Ops : payment[op] = "gone" /\ (op \in sent \/ Carries(op)) => age[op] = "over"

\* A request that has written the hand-off has the operation for itself.
MarkIsAlone ==
    \A s \in Submits : submit[s].pc = "mark" =>
        /\ payment[submit[s].op] \notin {"none", "prepared"}
        /\ \A r \in Submits : submit[r].pc \in Before => submit[r].op # submit[s].op

ClaimsHold == \A op \in Ops : Guarded(op) => HoldsLink(op)

\* What is confirmed, or about to be, has paid its link.
ConfirmedHasPaid ==
    \A op \in Ops :
        /\ payment[op] = "confirmed" \/ (recon.pc = "confirm" /\ recon.op = op)
        /\ LinkOf[op] # None /\ op \notin reorged \cup astray
        => link[LinkOf[op]].paidBy = op

RequestsInv == LiveIsYoung /\ GoneIsOver /\ MarkIsAlone
ClaimsInv == ClaimsHold /\ ConfirmedHasPaid

\* How a request goes on: within its operation, and in the order of its awaits.
LEMMA SubmitMoves ==
    ASSUME TypeInv, NEW s \in Submits, SubmitStep(s) \/ PersistFails(s) \/ SubmitDies(s),
           NEW op \in Ops, op = submit[s].op
    PROVE  /\ submit[s].pc # "idle" /\ UNCHANGED <<age, recon, chain, reorged, intent>>
           /\ \A r \in Submits \ {s} : submit'[r] = submit[r]
           /\ submit'[s].pc # "idle" => submit'[s].op = op
           /\ submit'[s].pc \in Before => submit[s].pc \in {"claimed", "send"} /\ sent' = sent
           /\ submit'[s].pc = "send" => ClaimLink(s)
           /\ submit'[s].pc \in {"accepted", "ambiguous"} => submit[s].pc = "send"
           /\ submit'[s].pc = "mark" => submit[s].pc \in {"accepted", "ambiguous"}
           /\ \/ sent' = sent
              \/ sent' = sent \cup {op} /\ submit[s].pc = "send"
                 /\ submit'[s].pc \in {"accepted", "ambiguous"}
           /\ \A o \in Ops \ {op} : payment'[o] = payment[o]
           /\ \/ payment'[op] = payment[op]
              \/ payment'[op] = "prepared" /\ submit[s].pc \in {"linkTaken", "refused"}
              \/ payment'[op] = "submitted" /\ payment[op] # "gone"
<1>1. submit[s].pc # "idle" /\ UNCHANGED <<age, recon, chain, reorged, intent>>
  BY ZenonT(60) DEF SubmitStep, ClaimLink, Send, PersistSubmitted, MarkBroadcast, ReleasePending,
     ReleaseLink, PersistFails, SubmitDies, rows, links, network, ghosts
<1>2. PICK pc \in {"idle", "linkTaken", "send", "accepted", "ambiguous", "mark", "refused",
                   "unlink"} :
        /\ Goto(s, pc)
        /\ pc \in Before => submit[s].pc \in {"claimed", "send"} /\ sent' = sent
        /\ pc = "send" => ClaimLink(s)
        /\ pc \in {"accepted", "ambiguous"} => submit[s].pc = "send"
        /\ pc = "mark" => submit[s].pc \in {"accepted", "ambiguous"}
        /\ \/ sent' = sent
           \/ sent' = sent \cup {op} /\ submit[s].pc = "send" /\ pc \in {"accepted", "ambiguous"}
  BY ZenonT(60) DEF SubmitStep, ClaimLink, Send, PersistSubmitted, MarkBroadcast, ReleasePending,
     ReleaseLink, PersistFails, SubmitDies, network, Before
<1>3. /\ \A r \in Submits \ {s} : submit'[r] = submit[r]
      /\ submit'[s].pc = pc
      /\ pc # "idle" => submit'[s].op = op
  BY <1>1, <1>2, GotoRows DEF TypeInv, Rows
<1>4. payment \in [Ops -> Statuses]
  BY DEF TypeInv, Rows, PaymentRows
<1>5. /\ \A o \in Ops \ {op} : payment'[o] = payment[o]
      /\ \/ payment'[op] = payment[op]
         \/ payment'[op] = "prepared" /\ submit[s].pc \in {"linkTaken", "refused"}
         \/ payment'[op] = "submitted" /\ payment[op] # "gone"
  BY ZenonT(60), <1>4 DEF SubmitStep, ClaimLink, Send, PersistSubmitted, MarkBroadcast, ReleasePending,
     ReleaseLink, PersistFails, SubmitDies, rows, InFlight
<1>6. QED
  BY <1>1, <1>2, <1>3, <1>5

\* What is at the transport, or carried there, is past /pay/prepare, and no
\* other request is on its way there with it.
LEMMA TakenIsAlone ==
    ASSUME TypeInv, SentInv, RequestsInv, NEW op \in Ops, op \in sent \/ Carries(op)
    PROVE  /\ payment[op] \notin {"none", "prepared"}
           /\ \A r \in Submits : submit[r].op = op /\ submit[r].pc \in Before =>
                 submit[r].pc = "send" /\ op \notin sent
           /\ \A r, s \in Submits :
                 /\ submit[r].op = op /\ submit[r].pc \in Before
                 /\ submit[s].op = op /\ submit[s].pc \in Owning \cup {"mark"}
                 => r = s
BY DEF SentInv, SentIsTaken, OwnerIsAlone, RequestsInv, MarkIsAlone, Carries, Owning, Before

\* Steps that touch no request: rows are prepared, expire, are swept and closed.
LEMMA RequestsQuiet ==
    ASSUME TypeInv, SentInv, RequestsInv, UNCHANGED <<submit, sent>>,
           \A op \in Ops : payment'[op] # payment[op] =>
               /\ payment'[op] \in {"none", "prepared"} => payment[op] = "none"
               /\ payment'[op] = "gone" => payment[op] = "prepared" \/ age[op] = "over",
           \A op \in Ops : age'[op] # age[op] =>
               /\ age[op] # "over"
               /\ age'[op] = "over" => \A s \in Submits : submit[s].op # op
    PROVE  RequestsInv'
<1>1. \A s \in Submits : submit[s].pc # "idle" => submit[s].op \in Ops
  BY DEF TypeInv, Rows, SubmitRows
<1>2. \A op : Carries(op)' <=> Carries(op)
  BY DEF Carries
<1>3. LiveIsYoung'
  BY <1>1 DEF RequestsInv, LiveIsYoung
<1>4. ASSUME NEW op \in Ops, payment'[op] = "gone", op \in sent' \/ Carries(op)'
      PROVE  age'[op] = "over"
  <2>1. payment[op] # "prepared"
    BY <1>2, <1>4, TakenIsAlone
  <2>2. age[op] = "over"
    BY <1>2, <1>4, <2>1 DEF RequestsInv, GoneIsOver
  <2>3. QED
    BY <2>2
<1>5. MarkIsAlone'
  BY <1>1 DEF RequestsInv, MarkIsAlone, Before
<1>6. QED
  BY <1>3, <1>4, <1>5 DEF RequestsInv, GoneIsOver

\* A request that claims a prepared row is alone with it.
LEMMA RequestsClaim ==
    ASSUME TypeInv, SentInv, RequestsInv, NEW s \in Submits, NEW op \in Ops, ClaimPending(s, op)
    PROVE  RequestsInv'
<1>1. UNCHANGED <<age, sent>> /\ age[op] = "fresh" /\ payment \in [Ops -> Statuses]
  BY DEF ClaimPending, network, TypeInv, Rows, PaymentRows
<1>2. CASE payment[op] # "prepared"
  <2>1. UNCHANGED <<payment, submit>>
    BY <1>1, <1>2 DEF ClaimPending
  <2>2. QED
    BY <1>1, <2>1, RequestsQuiet
<1>3. CASE payment[op] = "prepared"
  <2>1. payment' = [payment EXCEPT ![op] = "submitting"] /\ submit[s].pc = "idle"
    BY <1>3 DEF ClaimPending
  <2>2. /\ \A r \in Submits \ {s} : submit'[r] = submit[r]
        /\ submit'[s].op = op /\ submit'[s].pc \in {"send", "claimed"}
    BY <1>3 DEF ClaimPending, TypeInv, Rows, SubmitRows
  <2>3. \A r \in Submits : submit[r].pc # "idle" => submit[r].op \in Ops
    BY DEF TypeInv, Rows, SubmitRows
  <2>4. LiveIsYoung'
    BY <1>1, <2>2 DEF RequestsInv, LiveIsYoung
  <2>5. GoneIsOver'
    BY <1>1, <2>1, <2>2 DEF RequestsInv, GoneIsOver, Carries
  <2>6. MarkIsAlone'
    BY <1>1, <1>3, <2>1, <2>2, <2>3 DEF RequestsInv, MarkIsAlone, Before
  <2>7. QED
    BY <2>4, <2>5, <2>6 DEF RequestsInv
<1>4. QED
  BY <1>2, <1>3

\* A request that goes on keeps to what it has for itself.
LEMMA RequestsGoOn ==
    ASSUME TypeInv, SentInv, RequestsInv, NEW s \in Submits,
           SubmitStep(s) \/ PersistFails(s) \/ SubmitDies(s)
    PROVE  RequestsInv'
<1>1. PICK op \in Ops : op = submit[s].op
  BY DEF SubmitStep, ClaimLink, Send, PersistSubmitted, MarkBroadcast, ReleasePending,
     ReleaseLink, PersistFails, SubmitDies, TypeInv, Rows, SubmitRows
<1>2. /\ submit[s].pc # "idle" /\ UNCHANGED age
      /\ \A r \in Submits \ {s} : submit'[r] = submit[r]
      /\ submit'[s].pc # "idle" => submit'[s].op = op
      /\ submit'[s].pc \in Before => submit[s].pc \in {"claimed", "send"} /\ sent' = sent
      /\ submit'[s].pc = "send" => ClaimLink(s)
      /\ submit'[s].pc \in {"accepted", "ambiguous"} => submit[s].pc = "send"
      /\ submit'[s].pc = "mark" => submit[s].pc \in {"accepted", "ambiguous"}
      /\ sent' = sent \/ sent' = sent \cup {op}
      /\ \A o \in Ops \ {op} : payment'[o] = payment[o]
      /\ \/ payment'[op] = payment[op]
         \/ payment'[op] = "prepared" /\ submit[s].pc \in {"linkTaken", "refused"}
         \/ payment'[op] = "submitted" /\ payment[op] # "gone"
  BY <1>1, SubmitMoves
<1>3. \A r \in Submits : submit[r].pc # "idle" => submit[r].op \in Ops
  BY DEF TypeInv, Rows, SubmitRows
<1>4. LiveIsYoung'
  BY <1>1, <1>2 DEF RequestsInv, LiveIsYoung
<1>5. ASSUME NEW o \in Ops, payment'[o] = "gone", o \in sent' \/ Carries(o)'
      PROVE  age'[o] = "over"
  <2>1. payment[o] = "gone"
    BY <1>2, <1>5
  <2>2. CASE o \in sent \/ Carries(o)
    BY <1>2, <2>1, <2>2 DEF RequestsInv, GoneIsOver
  <2>3. CASE o \notin sent /\ ~Carries(o)
    <3>1. o = op /\ (Carries(o)' => submit[s].pc = "claimed")
      BY <1>1, <1>2, <1>5, <2>3 DEF Carries, ClaimLink
    <3>2. Carries(o)'
      BY <1>1, <1>5, <2>3, <3>1, SubmitMoves DEF Carries
    <3>3. QED
      BY <1>1, <2>1, <3>1, <3>2 DEF SentInv, OwnerIsAlone, Before
  <2>4. QED
    BY <2>2, <2>3
<1>6. ASSUME NEW m \in Submits, submit'[m].pc = "mark"
      PROVE  /\ payment'[submit'[m].op] \notin {"none", "prepared"}
             /\ \A r \in Submits : submit'[r].pc \in Before => submit'[r].op # submit'[m].op
  <2>1. PICK o \in Ops : o = submit'[m].op /\ o = submit[m].op
    BY <1>1, <1>2, <1>3, <1>6
  <2>2. submit[m].pc \in {"mark", "accepted", "ambiguous"}
    BY <1>2, <1>6
  <2>3. Carries(o)
    BY <2>1, <2>2 DEF Carries
  <2>4. payment[o] \notin {"none", "prepared"}
    BY <2>3, TakenIsAlone
  <2>5. \A r \in Submits : submit[r].op = o => submit[r].pc \notin Before
    BY <2>1, <2>2, <2>3, TakenIsAlone DEF Owning, Before
  <2>6. payment'[o] \notin {"none", "prepared"}
    BY <1>1, <1>2, <2>4, <2>5 DEF Before
  <2>7. \A r \in Submits : submit'[r].op = o => submit'[r].pc \notin Before
    BY <1>1, <1>2, <2>5 DEF Before
  <2>8. QED
    BY <2>1, <2>6, <2>7
<1>7. QED
  BY <1>4, <1>5, <1>6 DEF RequestsInv, GoneIsOver, MarkIsAlone

\* Each kind of step keeps what is known of the requests.
LEMMA StepRequests == TypeInv /\ SentInv /\ RequestsInv /\ [Next]_vars => RequestsInv'
<1> SUFFICES ASSUME TypeInv, SentInv, RequestsInv, [Next]_vars PROVE RequestsInv'
  OBVIOUS
<1>0. payment \in [Ops -> Statuses] /\ age \in [Ops -> Ages]
  BY DEF TypeInv, Rows, PaymentRows, EvidenceRows
<1>1. ASSUME NEW op \in Ops, Prepare(op) \/ ExpirePrepared(op) \/ SweepTerminal(op)
      PROVE  RequestsInv'
  BY <1>0, <1>1, RequestsQuiet DEF Prepare, ExpirePrepared, SweepTerminal, Delete, network
<1>2. ASSUME NEW op \in Ops, Tick(op) PROVE RequestsInv'
  <2>1. /\ UNCHANGED <<payment, submit, sent>> /\ age[op] # "over"
        /\ \A o \in Ops \ {op} : age'[o] = age[o]
    BY <1>0, <1>2 DEF Tick, network
  <2>2. age'[op] = "over" => \A s \in Submits : submit[s].op # op
    BY <1>0, <1>2 DEF Tick, Ages
  <2>3. QED
    BY <2>1, <2>2, RequestsQuiet
<1>3. CASE \E s \in Submits, op \in Ops : ClaimPending(s, op)
  BY <1>3, RequestsClaim
<1>4. CASE \E s \in Submits : SubmitStep(s) \/ PersistFails(s) \/ SubmitDies(s)
  BY <1>4, RequestsGoOn
<1>5. CASE Discover \/ Confirm \/ Fail
  BY <1>0, <1>5, RequestsQuiet DEF Discover, Confirm, Fail, Conclude, network
<1>6. CASE UNCHANGED <<payment, age, submit, sent>>
  BY <1>6, RequestsQuiet
<1>7. QED
  BY ZenonT(60), <1>1, <1>2, <1>3, <1>4, <1>5, <1>6 DEF Next, CancelIntent, Land, Reorg,
     Journal, Recover, ClaimRequest, ReconStep, Read, Wait, WriteLedger, SettleLink, Unlink,
     ReconFails, ReconDies, vars, rows, network

\* The transport and the requests are moved by requests alone.
LEMMA TransportSteps ==
    ASSUME [Next]_vars
    PROVE  \/ UNCHANGED <<submit, sent>>
           \/ \E s \in Submits, op \in Ops : ClaimPending(s, op)
           \/ \E s \in Submits : SubmitStep(s) \/ PersistFails(s) \/ SubmitDies(s)
BY ZenonT(60) DEF Next, Prepare, ExpirePrepared, SweepTerminal, Tick, CancelIntent, Land, Reorg,
   Journal, Recover, ClaimRequest, ReconStep, Read, Discover, Wait, WriteLedger, SettleLink,
   Confirm, Fail, Unlink, ReconFails, ReconDies, vars, rows, network

\* The steps that write a link or the intent behind it.
LEMMA LinkSteps ==
    ASSUME [Next]_vars
    PROVE  \/ UNCHANGED links
           \/ \E l \in Links : CancelIntent(l)
           \/ \E s \in Submits : ClaimLink(s) \/ MarkBroadcast(s) \/ ReleaseLink(s)
           \/ SettleLink \/ Unlink
BY ZenonT(60) DEF Next, Prepare, ExpirePrepared, SweepTerminal, Tick, ClaimPending, SubmitStep,
   Send, PersistSubmitted, ReleasePending, PersistFails, SubmitDies, Land, Reorg,
   Journal, Recover, ClaimRequest, ReconStep, Read, Discover, Wait, WriteLedger, Confirm, Fail,
   ReconFails, ReconDies, vars, links

\* An operation comes under guard when its request claims the link, and it was
\* on its way before in every other step.
LEMMA GuardedBefore ==
    ASSUME TypeInv, SentInv, [Next]_vars, NEW op \in Ops, Guarded(op)'
    PROVE  /\ LinkOf[op] \in Links /\ op \notin reorged \cup astray \cup astray'
           /\ ~Reverted(op)
           /\ \/ op \in sent \/ Carries(op)
              \/ \E s \in Submits : ClaimLink(s) /\ submit[s].op = op /\ submit'[s].pc = "send"
<1>1. LinkOf[op] \in Links /\ op \notin reorged' \cup reorged \cup astray \cup astray'
  BY GhostsGrow, ConstantsAssumption DEF Guarded
<1>2. ~Reverted(op)
  BY <1>1, ChainStays DEF Reverted, Guarded
<1>3. CASE UNCHANGED <<submit, sent>>
  BY <1>1, <1>2, <1>3 DEF Guarded, Carries
<1>4. ASSUME NEW s \in Submits, NEW o \in Ops, ClaimPending(s, o)
      PROVE  op \in sent \/ Carries(op)
  <2>1. UNCHANGED sent /\ submit \in [Submits -> Submit]
    BY <1>4 DEF ClaimPending, network, TypeInv, Rows, SubmitRows
  <2>2. \A r \in Submits : submit'[r] # submit[r] => submit'[r].op = o /\ (o = op => submit'[r].pc = "claimed")
    BY <1>1, <1>4, <2>1, ConstantsAssumption DEF ClaimPending
  <2>3. QED
    BY <2>1, <2>2 DEF Guarded, Carries
<1>5. ASSUME NEW s \in Submits, SubmitStep(s) \/ PersistFails(s) \/ SubmitDies(s)
      PROVE  \/ op \in sent \/ Carries(op)
             \/ ClaimLink(s) /\ submit[s].op = op /\ submit'[s].pc = "send"
  <2>1. PICK o \in Ops : o = submit[s].op
    BY <1>5 DEF SubmitStep, ClaimLink, Send, PersistSubmitted, MarkBroadcast, ReleasePending,
       ReleaseLink, PersistFails, SubmitDies, TypeInv, Rows, SubmitRows
  <2>2. /\ \A r \in Submits \ {s} : submit'[r] = submit[r]
        /\ submit'[s].pc # "idle" => submit'[s].op = o
        /\ submit'[s].pc = "send" => ClaimLink(s)
        /\ submit'[s].pc \in {"accepted", "ambiguous"} => submit[s].pc = "send"
        /\ submit'[s].pc = "mark" => submit[s].pc \in {"accepted", "ambiguous"}
        /\ sent' = sent \/ (sent' = sent \cup {o} /\ submit[s].pc = "send")
    BY <1>5, <2>1, SubmitMoves
  <2>3. CASE op \in sent'
    BY <2>1, <2>2, <2>3 DEF Carries
  <2>4. CASE Carries(op)'
    BY <2>1, <2>2, <2>4 DEF Carries
  <2>5. QED
    BY <2>3, <2>4 DEF Guarded
<1>6. QED
  BY <1>1, <1>2, <1>3, <1>4, <1>5, TransportSteps

\* A request that carries an operation under guard lets go of it only when it
\* marks the claim.
LEMMA CarriesOn ==
    ASSUME TypeInv, SentInv, [Next]_vars, NEW op \in Ops, Guarded(op)', Carries(op)
    PROVE  Carries(op)' \/ \E s \in Submits : MarkBroadcast(s) /\ submit[s].op = op
<1>1. PICK s \in Submits :
        submit[s].op = op /\ submit[s].pc \in {"send", "accepted", "ambiguous", "mark"}
  BY DEF Carries
<1>2. CASE submit'[s] = submit[s]
  BY <1>1, <1>2 DEF Carries
<1>3. ASSUME NEW r \in Submits, NEW o \in Ops, ClaimPending(r, o) PROVE submit'[s] = submit[s]
  BY <1>1, <1>3 DEF ClaimPending, TypeInv, Rows, SubmitRows
<1>4. ASSUME NEW r \in Submits \ {s}, SubmitStep(r) \/ PersistFails(r) \/ SubmitDies(r)
      PROVE  submit'[s] = submit[s]
  <2>1. PICK o \in Ops : o = submit[r].op
    BY <1>4 DEF SubmitStep, ClaimLink, Send, PersistSubmitted, MarkBroadcast, ReleasePending,
       ReleaseLink, PersistFails, SubmitDies, TypeInv, Rows, SubmitRows
  <2>2. QED
    BY <1>4, <2>1, SubmitMoves
<1>5. ASSUME SubmitStep(s) \/ PersistFails(s) \/ SubmitDies(s), ~MarkBroadcast(s)
      PROVE  Carries(op)'
  <2>1. LinkOf[op] # None /\ op \notin astray'
    BY GuardedBefore, ConstantsAssumption
  <2>2. CASE Send(s)
    <3>1. PICK pc \in {"accepted", "ambiguous", "refused"} :
            Goto(s, pc) /\ (pc = "refused" => sent' = sent)
      BY <2>2 DEF Send
    <3>2. submit'[s].pc = pc /\ submit'[s].op = op
      BY <1>1, <3>1, GotoRows DEF TypeInv, Rows
    <3>3. op \notin sent
      BY <1>1, <2>2 DEF Send, SentInv, OwnerIsAlone, Before
    <3>4. QED
      BY <3>1, <3>2, <3>3 DEF Guarded, Carries
  <2>3. CASE PersistSubmitted(s) \/ PersistFails(s)
    <3>1. Goto(s, "mark")
      BY <1>1, <2>1, <2>3 DEF PersistSubmitted, PersistFails
    <3>2. submit'[s].pc = "mark" /\ submit'[s].op = op
      BY <1>1, <3>1, GotoRows DEF TypeInv, Rows
    <3>3. QED
      BY <3>2 DEF Carries
  <2>4. ~SubmitDies(s)
    BY <1>1, <2>1 DEF SubmitDies
  <2>5. ~(ClaimLink(s) \/ ReleasePending(s) \/ ReleaseLink(s))
    BY <1>1 DEF ClaimLink, ReleasePending, ReleaseLink
  <2>6. QED
    BY <1>5, <2>2, <2>3, <2>4, <2>5 DEF SubmitStep
<1>6. QED
  BY <1>1, <1>2, <1>3, <1>4, <1>5, TransportSteps

\* What the proofs of the claim build on.
ClaimBase == BaseInv /\ RequestsInv /\ ClaimsInv

\* A guarded operation whose link a step leaves alone holds it after the step.
LEMMA HoldsOn ==
    ASSUME TypeInv, SentInv, [Next]_vars, NEW op \in Ops, Guarded(op)', HoldsLink(op),
           UNCHANGED <<link[LinkOf[op]], intent[LinkOf[op]]>>
    PROVE  HoldsLink(op)'
<1>1. CASE \E s \in Submits : MarkBroadcast(s) /\ submit[s].op = op
  <2>1. LinkOf[op] \in Links /\ link \in [Links -> Link]
    BY GuardedBefore DEF TypeInv, LinkRows
  <2>2. link[LinkOf[op]].claim = op /\ link[LinkOf[op]].paidBy = None =>
          link'[LinkOf[op]].broadcast
    BY <1>1, <2>1 DEF MarkBroadcast, Link
  <2>3. QED
    BY <2>2 DEF HoldsLink
<1>2. CASE Carries(op) => Carries(op)'
  BY <1>2 DEF HoldsLink
<1>3. QED
  BY <1>1, <1>2, CarriesOn

\* Claiming a link: nobody takes it from an operation under guard.
LEMMA HoldsClaimLink ==
    ASSUME ClaimBase, [Next]_vars, NEW op \in Ops, Guarded(op)',
           NEW s \in Submits, ClaimLink(s)
    PROVE  HoldsLink(op)'
<1>1. PICK l \in Links : l = LinkOf[op]
  BY GuardedBefore DEF ClaimBase, BaseInv
<1>2. PICK o \in Ops : o = submit[s].op
  BY DEF ClaimLink, ClaimBase, BaseInv, TypeInv, Rows, SubmitRows
<1>3. LinkOf[o] \in Links /\ link \in [Links -> Link] /\ UNCHANGED intent
  BY <1>2 DEF ClaimLink, ClaimBase, BaseInv, TypeInv, LinkRows
<1>4. CASE o = op /\ submit'[s].pc = "send"
  <2>1. Claimable(l, op) /\ link' = [link EXCEPT ![l].claim = op, ![l].broadcast = FALSE]
    <3>1. ~(Goto(s, "linkTaken"))
      BY <1>4, GotoRows DEF ClaimLink, ClaimBase, BaseInv, TypeInv, Rows
    <3>2. QED
      BY <1>1, <1>2, <1>4, <3>1 DEF ClaimLink
  <2>2. submit'[s].op = op
    <3>1. Goto(s, "send")
      BY <1>1, <1>2, <1>4, <2>1 DEF ClaimLink
    <3>2. QED
      BY <1>2, <1>4, <3>1, GotoRows DEF ClaimLink, ClaimBase, BaseInv, TypeInv, Rows
  <2>3. Carries(op)'
    BY <1>4, <2>2 DEF Carries
  <2>4. link'[l].paidBy = None /\ link'[l].claim = op /\ intent'[l] = "awaiting_payment"
    BY <1>3, <2>1 DEF Claimable, Link
  <2>5. QED
    BY <1>1, <2>3, <2>4 DEF HoldsLink
<1>5. CASE ~(o = op /\ submit'[s].pc = "send")
  <2>1. op \in sent \/ Carries(op)
    <3>1. \A r \in Submits : ClaimLink(r) /\ submit'[r].pc = "send" => r = s
      BY GotoRows DEF ClaimLink, ClaimBase, BaseInv, TypeInv, Rows
    <3>2. QED
      BY <1>2, <1>5, <3>1, GuardedBefore DEF ClaimBase, BaseInv
  <2>2. HoldsLink(op)
    BY <1>1, <2>1, GuardedBefore, ConstantsAssumption DEF ClaimBase, BaseInv, ClaimsInv, ClaimsHold, Guarded
  <2>3. link'[l] = link[l]
    <3>1. CASE ~Claimable(l, o) \/ LinkOf[o] # l
      BY <1>2, <1>3, <3>1 DEF ClaimLink
    <3>2. CASE o = op
      <4>1. link' = link
        BY <1>2, <1>5, <3>2, GotoRows DEF ClaimLink, ClaimBase, BaseInv, TypeInv, Rows
      <4>2. QED
        BY <4>1
    <3>3. CASE o # op /\ Claimable(l, o)
      <4>1. link[l].claim = op /\ (link[l].broadcast \/ Carries(op))
        BY <1>1, <2>2, <3>3, ConstantsAssumption DEF HoldsLink, Claimable
      <4>2. age[op] # "over" \/ link[l].broadcast
        BY <4>1 DEF Carries, ClaimBase, RequestsInv, LiveIsYoung
      <4>3. QED
        BY <3>3, <4>1, <4>2, ConstantsAssumption DEF Claimable, Lapsed
    <3>4. QED
      BY <3>1, <3>2, <3>3
  <2>4. QED
    BY <1>1, <1>3, <2>2, <2>3, HoldsOn DEF ClaimBase, BaseInv
<1>6. QED
  BY <1>4, <1>5

\* Marking a claim, one's own or not.
LEMMA HoldsMark ==
    ASSUME ClaimBase, [Next]_vars, NEW op \in Ops, Guarded(op)', HoldsLink(op),
           NEW s \in Submits, MarkBroadcast(s)
    PROVE  HoldsLink(op)'
<1>1. PICK l \in Links : l = LinkOf[op]
  BY GuardedBefore DEF ClaimBase, BaseInv
<1>2. PICK o \in Ops : o = submit[s].op
  BY DEF MarkBroadcast, ClaimBase, BaseInv, TypeInv, Rows, SubmitRows
<1>3. LinkOf[o] \in Links /\ link \in [Links -> Link] /\ UNCHANGED intent
  BY <1>2 DEF MarkBroadcast, ClaimBase, BaseInv, TypeInv, LinkRows
<1>4. CASE LinkOf[o] = l /\ link[l].paidBy = None /\ link[l].claim = o
  <2>1. link' = [link EXCEPT ![l].broadcast = TRUE]
    BY <1>2, <1>4 DEF MarkBroadcast
  <2>2. link'[l].paidBy = None /\ link'[l].claim = link[l].claim /\ link'[l].broadcast
    BY <1>3, <1>4, <2>1 DEF Link
  <2>3. QED
    BY <1>1, <1>3, <1>4, <2>2, ConstantsAssumption DEF HoldsLink
<1>5. CASE ~(LinkOf[o] = l /\ link[l].paidBy = None /\ link[l].claim = o)
  <2>1. link'[l] = link[l]
    BY <1>2, <1>3, <1>5 DEF MarkBroadcast
  <2>2. QED
    BY <1>1, <1>3, <2>1, HoldsOn DEF ClaimBase, BaseInv
<1>6. QED
  BY <1>4, <1>5

\* A release takes a claim from its own operation only, and a request that
\* releases an operation under guard would have outlived it.
LEMMA HoldsRelease ==
    ASSUME ClaimBase, [Next]_vars, NEW op \in Ops, Guarded(op)', HoldsLink(op),
           op \in sent \/ Carries(op),
           Unlink \/ \E s \in Submits : ReleaseLink(s)
    PROVE  HoldsLink(op)'
<1>1. PICK l \in Links : l = LinkOf[op]
  BY GuardedBefore DEF ClaimBase, BaseInv
<1>2. link \in [Links -> Link] /\ UNCHANGED intent
  BY DEF ReleaseLink, Unlink, ClaimBase, BaseInv, TypeInv, LinkRows
<1>3. ASSUME NEW o \in Ops, NEW b \in BOOLEAN, o # op, LinkOf[o] \in Links,
             link' = Released(LinkOf[o], o, b)
      PROVE  HoldsLink(op)'
  <2>1. CASE LinkOf[o] = l /\ link[l].paidBy = None /\ link[l].claim = o
    BY <1>1, <1>3, <2>1, ConstantsAssumption DEF HoldsLink
  <2>2. CASE ~(LinkOf[o] = l /\ link[l].paidBy = None /\ link[l].claim = o)
    <3>1. link'[l] = link[l]
      BY <1>2, <1>3, <2>2 DEF Released
    <3>2. QED
      BY <1>1, <1>2, <3>1, HoldsOn DEF ClaimBase, BaseInv
  <2>3. QED
    BY <2>1, <2>2
<1>4. CASE Unlink
  <2>1. recon.op \in Ops /\ LinkOf[recon.op] \in Links /\ link' = Released(LinkOf[recon.op], recon.op, TRUE)
    BY <1>4 DEF Unlink, ClaimBase, BaseInv, TypeInv, Rows, ReconRow, LinkRows
  <2>2. recon.op # op
    BY <1>4, GuardedBefore DEF Unlink, ClaimBase, BaseInv, EvidenceInv, DecidedOnChain
  <2>3. QED
    BY <1>3, <2>1, <2>2
<1>5. ASSUME NEW s \in Submits, ReleaseLink(s) PROVE HoldsLink(op)'
  <2>1. PICK o \in Ops : o = submit[s].op
    BY <1>5 DEF ReleaseLink, ClaimBase, BaseInv, TypeInv, Rows, SubmitRows
  <2>2. LinkOf[o] \in Links /\ link' = Released(LinkOf[o], o, FALSE)
    BY <1>5, <2>1 DEF ReleaseLink, ClaimBase, BaseInv, TypeInv, LinkRows
  <2>3. o # op
    <3>1. SUFFICES ASSUME o = op PROVE FALSE
      OBVIOUS
    <3>2. payment[op] \in {"prepared", "gone"}
      BY <1>5, <2>1, <3>1, GuardedBefore DEF ReleaseLink, Retaken, ClaimBase, BaseInv
    <3>3. payment[op] = "gone"
      BY <3>2, TakenIsAlone DEF ClaimBase, BaseInv
    <3>4. age[op] = "over"
      BY <3>3 DEF ClaimBase, RequestsInv, GoneIsOver
    <3>5. QED
      BY <1>5, <2>1, <3>1, <3>4 DEF ReleaseLink, ClaimBase, RequestsInv, LiveIsYoung
  <2>4. QED
    BY <1>3, <2>1, <2>2, <2>3
<1>6. QED
  BY <1>4, <1>5

\* The settlement pays the link for the operation that holds it, and for no other.
LEMMA HoldsSettle ==
    ASSUME ClaimBase, [Next]_vars, NEW op \in Ops, Guarded(op)', HoldsLink(op), SettleLink
    PROVE  HoldsLink(op)' /\ (recon.op = op => link'[LinkOf[op]].paidBy = op)
<1>1. PICK l \in Links : l = LinkOf[op]
  BY GuardedBefore DEF ClaimBase, BaseInv
<1>2. PICK o \in Ops : o = recon.op
  BY DEF SettleLink, ClaimBase, BaseInv, TypeInv, Rows, ReconRow
<1>3. /\ LinkOf[o] \in Links /\ link \in [Links -> Link]
      /\ intent \in [Links -> {"awaiting_payment", "paid", "canceled"}]
  BY <1>2 DEF SettleLink, ClaimBase, BaseInv, TypeInv, LinkRows, EvidenceRows
<1>4. [Unclaimed EXCEPT !.paidBy = o] \in Link /\ [Unclaimed EXCEPT !.paidBy = o].paidBy = o
  BY DEF Unclaimed, Link
<1> DEFINE flips == link[LinkOf[o]].paidBy = None /\ link[LinkOf[o]].claim \in {None, o}
<1>5. /\ link' = IF flips THEN [link EXCEPT ![LinkOf[o]] = [Unclaimed EXCEPT !.paidBy = o]]
                 ELSE link
      /\ intent' = IF link'[LinkOf[o]].paidBy = o /\ intent[LinkOf[o]] = "awaiting_payment"
                   THEN [intent EXCEPT ![LinkOf[o]] = "paid"] ELSE intent
  BY <1>2 DEF SettleLink
<1>6. CASE o = op
  <2>1. CASE link[l].paidBy = op /\ intent[l] = "paid"
    <3>1. link' = link /\ intent' = intent
      BY <1>1, <1>5, <1>6, <2>1, ConstantsAssumption
    <3>2. QED
      BY <1>1, <2>1, <3>1 DEF HoldsLink
  <2>2. CASE link[l].paidBy = None /\ link[l].claim = op /\ intent[l] = "awaiting_payment"
    <3>1. link'[l] = [Unclaimed EXCEPT !.paidBy = op]
      BY <1>1, <1>3, <1>5, <1>6, <2>2
    <3>2. link'[l].paidBy = op
      BY <1>4, <1>6, <3>1
    <3>3. intent'[l] = "paid"
      BY <1>1, <1>3, <1>5, <1>6, <2>2, <3>2
    <3>4. QED
      BY <1>1, <3>2, <3>3 DEF HoldsLink
  <2>3. QED
    BY <1>1, <2>1, <2>2 DEF HoldsLink
<1>7. CASE o # op
  <2>1. CASE LinkOf[o] # l
    <3>1. link'[l] = link[l] /\ intent'[l] = intent[l]
      BY <1>3, <1>5, <2>1
    <3>2. QED
      BY <1>1, <1>2, <1>7, <3>1, HoldsOn DEF ClaimBase, BaseInv
  <2>2. CASE LinkOf[o] = l
    <3>1. ~flips /\ link[l].paidBy # o
      BY <1>1, <1>7, <2>2, ConstantsAssumption DEF HoldsLink
    <3>2. link' = link /\ intent' = intent
      BY <1>5, <2>2, <3>1
    <3>3. QED
      BY <1>1, <1>2, <1>7, <3>2, HoldsOn DEF ClaimBase, BaseInv
  <2>3. QED
    BY <2>1, <2>2
<1>8. QED
  BY <1>6, <1>7

\* Whatever happens, an operation under guard holds its link.
LEMMA ClaimsHoldStep == ClaimBase /\ [Next]_vars => ClaimsHold'
<1> SUFFICES ASSUME ClaimBase, [Next]_vars, NEW op \in Ops, Guarded(op)'
             PROVE  HoldsLink(op)'
  BY DEF ClaimsHold
<1>1. CASE \E s \in Submits : ClaimLink(s)
  BY <1>1, HoldsClaimLink
<1>2. CASE ~\E s \in Submits : ClaimLink(s)
  <2>1. op \in sent \/ Carries(op)
    BY <1>2, GuardedBefore DEF ClaimBase, BaseInv
  <2>2. HoldsLink(op)
    BY <2>1, GuardedBefore, ConstantsAssumption DEF ClaimBase, BaseInv, ClaimsInv, ClaimsHold,
       Guarded
  <2>3. CASE UNCHANGED links
    BY <2>2, <2>3, HoldsOn DEF links, ClaimBase, BaseInv
  <2>4. ASSUME NEW l \in Links, CancelIntent(l) PROVE HoldsLink(op)'
    <3>1. /\ UNCHANGED link /\ intent' = [intent EXCEPT ![l] = "canceled"]
          /\ link[l].claim = None /\ intent[l] = "awaiting_payment"
      BY <2>4 DEF CancelIntent
    <3>2. l # LinkOf[op]
      BY <2>2, <3>1, ConstantsAssumption DEF HoldsLink
    <3>3. intent'[LinkOf[op]] = intent[LinkOf[op]]
      BY <3>1, <3>2, GuardedBefore DEF ClaimBase, BaseInv, TypeInv, EvidenceRows
    <3>4. QED
      BY <2>2, <3>1, <3>3, HoldsOn DEF ClaimBase, BaseInv
  <2>5. CASE \E s \in Submits : MarkBroadcast(s)
    BY <2>2, <2>5, HoldsMark
  <2>6. CASE Unlink \/ \E s \in Submits : ReleaseLink(s)
    BY <2>1, <2>2, <2>6, HoldsRelease
  <2>7. CASE SettleLink
    BY <2>2, <2>7, HoldsSettle
  <2>8. QED
    BY <1>2, <2>3, <2>4, <2>5, <2>6, <2>7, LinkSteps
<1>3. QED
  BY <1>1, <1>2

\* The reconciler confirms after it has paid the link.
LEMMA ConfirmedHasPaidStep == ClaimBase /\ [Next]_vars => ConfirmedHasPaid'
<1> SUFFICES ASSUME ClaimBase, [Next]_vars, NEW op \in Ops,
                    payment'[op] = "confirmed" \/ (recon'.pc = "confirm" /\ recon'.op = op),
                    LinkOf[op] # None, op \notin reorged' \cup astray'
             PROVE  link'[LinkOf[op]].paidBy = op
  BY DEF ConfirmedHasPaid
<1>1. op \notin reorged \cup astray /\ LinkOf[op] \in Links
  BY GhostsGrow, ConstantsAssumption
<1>2. CASE payment[op] = "confirmed" \/ (recon.pc = "confirm" /\ recon.op = op)
  <2>1. link[LinkOf[op]].paidBy = op
    BY <1>1, <1>2 DEF ClaimBase, ClaimsInv, ConfirmedHasPaid
  <2>2. PayerIsKept
    BY StepLinks DEF ClaimBase, BaseInv, TypeInv
  <2>3. QED
    BY <1>1, <2>1, <2>2, ConstantsAssumption DEF PayerIsKept
<1>3. CASE ~(payment[op] = "confirmed" \/ (recon.pc = "confirm" /\ recon.op = op))
  <2>1. recon'.pc = "confirm" /\ recon'.op = op
    BY <1>3, OnlyReconCloses DEF ClaimBase, BaseInv, Terminal
  <2>2. SettleLink /\ recon.op = op
    <3>1. ~Read \/ recon'.pc # Verdict(recon.op)
      BY <2>1, VerdictCases
    <3>2. ~(WriteLedger /\ recon.op = op)
      <4>1. SUFFICES ASSUME WriteLedger, recon.op = op PROVE FALSE
        OBVIOUS
      <4>2. ReconAt("link", op)
        BY <1>1, <4>1, ConstantsAssumption DEF WriteLedger
      <4>3. QED
        BY <2>1, <4>2, ReconAtRow
    <3>3. QED
      BY <1>3, <2>1, <3>1, <3>2, ReconMoves DEF ClaimBase, BaseInv
  <2>3. op \in sent /\ Funded(op)
    BY <1>1, <2>2 DEF SettleLink, ClaimBase, BaseInv, SentInv, EvidenceIsSent, EvidenceInv,
       DecidedOnChain
  <2>4. UNCHANGED <<sent, chain, submit>>
    BY <2>2 DEF SettleLink, network
  <2>5. Guarded(op) /\ Guarded(op)'
    BY <1>1, <2>3, <2>4 DEF Guarded, Funded, Reverted
  <2>6. HoldsLink(op)
    BY <2>5 DEF ClaimBase, ClaimsInv, ClaimsHold
  <2>7. QED
    BY <2>2, <2>5, <2>6, HoldsSettle
<1>4. QED
  BY <1>2, <1>3

\* The claims at the start, and what a step makes of them.
LEMMA ClaimBaseHolds == (Init => ClaimBase) /\ (ClaimBase /\ [Next]_vars => ClaimBase')
<1>1. Init => RequestsInv
  BY DEF Init, RequestsInv, LiveIsYoung, GoneIsOver, MarkIsAlone, IdleSubmit
<1>2. Init => ClaimsInv
  BY DEF Init, ClaimsInv, ClaimsHold, ConfirmedHasPaid, Guarded, Carries, IdleSubmit, IdleRecon
<1>3. ClaimBase /\ [Next]_vars => ClaimBase'
  BY BaseInvHolds, StepRequests, ClaimsHoldStep, ConfirmedHasPaidStep
     DEF ClaimBase, BaseInv, ClaimsInv
<1>4. QED
  BY <1>1, <1>2, <1>3, BaseInvHolds DEF ClaimBase

\* Two operations that moved money do not hold one link.
LEMMA ClaimsGuard == ClaimBase => ClaimGuardsFunds
<1> SUFFICES ASSUME ClaimBase PROVE ClaimGuardsFunds
  OBVIOUS
<1>1. ASSUME NEW op \in Ops, op \notin reorged \cup astray, LinkOf[op] # None, Funded(op)
      PROVE  HoldsLink(op)
  <2>1. op \in sent /\ ~Reverted(op)
    BY <1>1 DEF Funded, Reverted, ClaimBase, BaseInv, SentInv, EvidenceIsSent
  <2>2. QED
    BY <1>1, <2>1 DEF Guarded, ClaimBase, ClaimsInv, ClaimsHold
<1>2. ASSUME NEW op1 \in Ops, NEW op2 \in Ops, HoldsLink(op1), HoldsLink(op2),
             LinkOf[op1] = LinkOf[op2]
      PROVE  op1 = op2
  BY <1>2, ConstantsAssumption DEF HoldsLink
<1>3. ASSUME NEW op \in Ops, HoldsLink(op) PROVE intent[LinkOf[op]] # "canceled"
  BY <1>3 DEF HoldsLink
<1>4. QED
  BY <1>1, <1>2, <1>3 DEF ClaimGuardsFunds

\* A confirmed payment is in the ledger and has paid its link, two operations
\* that moved money never count for one link and none for a canceled intent, for
\* any number of operations, links and concurrent requests, of faults and
\* reorgs: except for an operation whose request died, or lost its claim to
\* another request's release, or was reorganised.
THEOREM AccountedFor == Spec => []PaymentsAreAccounted
<1>1. ClaimBase => ConfirmedIsAccounted
  BY DEF ClaimBase, BaseInv, EvidenceInv, LedgerFirst, ClaimsInv, ConfirmedHasPaid,
     ConfirmedIsAccounted
<1>2. ClaimBase => PaymentsAreAccounted
  BY <1>1, ClaimsGuard DEF PaymentsAreAccounted
<1>3. QED
  BY <1>2, ClaimBaseHolds, PTL DEF Spec

\* A payment in flight has work that will find it, and what may be at the
\* transport is not offered for signing again.
THEOREM NeverLostSightOf == Spec => []OperationIsTracked
<1>1. BaseInv => OperationIsTracked
  BY DEF BaseInv, WorkInv, WorkRows, SentInv, SentIsTaken, OperationIsTracked,
     SentIsNotReleased
<1>2. QED
  BY <1>1, BaseInvHolds, PTL DEF Spec

=============================================================================
