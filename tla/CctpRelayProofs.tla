--------------------------- MODULE CctpRelayProofs ---------------------------
(***************************************************************************)
(* Proofs about the CCTP relayer for every set of operations and           *)
(* consumers and every bound: no burn ever has two mints in flight, none   *)
(* counts as settled without a confirmed mint, and none gets more signed   *)
(* mints than the limit.                                                   *)
(*                                                                         *)
(* The signer's lease carries no fence and may expire while its holder     *)
(* works, so the argument cannot rest on it.  It rests on the claim of the *)
(* mint job, which outlives every execution: the row an execution read is  *)
(* the row of the database until the execution itself changes it.          *)
(***************************************************************************)
EXTENDS CctpRelay, TLAPS, FiniteSetTheorems, WellFoundedInduction

-----------------------------------------------------------------------------
(* The inductive invariant                                                 *)

\* Where an execution of the mint job stands.
MintPcs == {"nonce", "recover", "settle", "finish", "unused", "lease", "reread", "prepare",
            "record", "broadcast", "release"}
\* Where it relies on the row it read.
ReliesOnRow == {"nonce", "recover", "unused", "lease", "reread", "prepare", "record"}
\* Where it may still sign.
MaySign == {"lease", "reread", "prepare", "record"}

Minting(w) == worker[w].pc \in MintPcs

\* The rows, the jobs and the chain keep their shape, and what waits at the
\* node is finite.
Tables ==
    /\ op \in [Ops -> Op]
    /\ attested \subseteq Ops
    /\ mintJob \in [Ops -> {"none", "queued", "processing", "completed"}]
    /\ lease \in Workers \cup {None}
    /\ settled \subseteq Ops
    /\ pool \subseteq Tx /\ outbid \subseteq Tx /\ IsFiniteSet(pool)
    /\ chain \in Seq([op: Ops, ok: BOOLEAN])
    /\ used \subseteq Ops /\ confirmed \subseteq used
    /\ faults \in 0..MaxFaults /\ reverts \in 0..MaxReverts
    /\ expiries \in 0..MaxExpiries

\* A consumer at work has an operation, and the transactions it read, stores or
\* sends are of that operation.
Executions ==
    /\ worker \in [Workers -> Worker]
    /\ \A w \in Workers : LET k == worker[w] IN
          /\ k.pc # "idle" => k.op \in Ops /\ (k.row.tx # None => k.row.tx.op = k.op)
          /\ k.pc \in {"record", "broadcast"} => k.tx \in Tx /\ k.tx.op = k.op

\* A stored transaction mints the operation that stores it.
OwnTransaction == \A o \in Ops : op[o].tx # None => op[o].tx.op = o

TypeInv == Tables /\ Executions /\ OwnTransaction

\* An operation's mint job has one execution, which holds its claim.
OneExecution ==
    \A w \in Workers : Minting(w) =>
        /\ mintJob[worker[w].op] = "processing"
        /\ \A v \in Workers : Minting(v) /\ worker[v].op = worker[w].op => v = w

\* Nobody else changes the count or the transaction of the row it read, and
\* what it sends is what the row stores.
RowIsCurrent ==
    \A w \in Workers :
        LET k == worker[w] IN
        /\ k.pc \in ReliesOnRow => k.row.tx = op[k.op].tx /\ k.row.count = op[k.op].count
        /\ k.pc \in MaySign => k.row.tx = None /\ k.row.count < MaxMintAttempts
        /\ k.pc = "broadcast" => k.tx = op[k.op].tx

\* An execution settles only a confirmed mint, and finishes only what it settled.
SettlesConfirmed ==
    \A w \in Workers : /\ worker[w].pc = "settle" => worker[w].op \in confirmed
                       /\ worker[w].pc = "finish" => worker[w].op \in settled

\* What the node holds of our signer: one transaction per nonce, none behind
\* the chain, one per operation, and each the one its row stores, unless the
\* operation was minted by somebody else and its job is over.
NonceOrder ==
    /\ \A t \in pool : t.nonce >= Len(chain)
    /\ \A s, t \in pool : s.nonce = t.nonce => s = t
PoolIsStored ==
    /\ \A s, t \in pool : s.op = t.op => s = t
    /\ \A t \in pool : \/ t = op[t.op].tx
                       \/ t.op \in used /\ mintJob[t.op] = "completed"

RelayInv ==
    /\ TypeInv /\ OneExecution /\ RowIsCurrent /\ SettlesConfirmed
    /\ NonceOrder /\ PoolIsStored /\ SettledRowIsBacked /\ AttemptsAreBounded

-----------------------------------------------------------------------------
(* Steps                                                                   *)

\* What the chain, the clock, Circle and the indexer do.
Outside ==
    \/ \E o \in Ops : RecordBurn(o) \/ CircleAttests(o) \/ OutsiderMints(o)
                      \/ Confirm(o) \/ DeadClaimExpires(o)
    \/ \E ok \in BOOLEAN : Mine(ok)
    \/ LeaseExpires \/ DeadLeaseExpires

\* What a consumer does.
Attests(w) == (\E o \in Ops : AttestStart(w, o))
              \/ AttestPending(w) \/ AttestWrite(w) \/ AttestEnqueue(w)
Starts(w) == \E o \in Ops : MintStart(w, o)
Mints(w) == MintStep(w) \/ BroadcastFails(w)

\* Every step is of one of these kinds.
LEMMA StepCases ==
    ASSUME [Next]_vars
    PROVE  \/ Outside \/ UNCHANGED vars
           \/ \E w \in Workers : Attests(w) \/ Starts(w) \/ Mints(w) \/ Crash(w)
BY ZenonT(60) DEF Next, Outside, Attests, Starts, Mints, WorkerStep

\* eth_getTransactionCount(pending) is a nonce: of the nonces from the next of
\* the chain on, one more than there are transactions waiting, one is free,
\* and all before the least free one are taken.
LEMMA PendingNonceIsNonce ==
    ASSUME TypeInv
    PROVE  PendingNonce \in Nat
<1> DEFINE I == Len(chain)..(Len(chain) + Cardinality(pool))
           Free == {n \in I : \A t \in pool : t.nonce # n}
           Less == OpToRel(<, Nat)
<1>1. IsFiniteSet(pool) /\ Cardinality(pool) \in Nat /\ Len(chain) \in Nat
  BY FS_CardinalityType DEF TypeInv, Tables
<1>2. IsFiniteSet(I) /\ Cardinality(I) = Cardinality(pool) + 1 /\ I \subseteq Nat
  <2>1. PICK a \in Int, b \in Int : a = Len(chain) /\ b = Len(chain) + Cardinality(pool)
    BY <1>1
  <2>2. IsFiniteSet(a..b) /\ Cardinality(a..b) = IF a > b THEN 0 ELSE b - a + 1
    BY FS_Interval
  <2>3. I = a..b
    BY <2>1
  <2>4. Cardinality(a..b) = Cardinality(pool) + 1
    BY <1>1, <2>1, <2>2
  <2>5. I \subseteq Nat
    BY <1>1
  <2>6. QED
    BY <2>2, <2>3, <2>4, <2>5
<1>3. Free # {}
  <2>1. SUFFICES ASSUME Free = {} PROVE FALSE
    OBVIOUS
  <2> DEFINE at == [n \in I |-> CHOOSE t \in pool : t.nonce = n]
  <2>2. ASSUME NEW n \in I PROVE at[n] \in pool /\ at[n].nonce = n
    BY <2>1
  <2>3. at \in [I -> pool]
    BY <2>2
  <2>4. \E x, y \in I : x # y /\ at[x] = at[y]
    <3> HIDE DEF at, I
    <3>1. Cardinality(pool) < Cardinality(I)
      BY <1>1, <1>2
    <3>2. QED
      BY <1>1, <1>2, <2>3, <3>1, FS_PigeonHole
  <2>5. QED
    BY <2>2, <2>4
<1>4. \E n \in Free : \A k \in Free : <<k, n>> \notin Less
  <2>1. Free \subseteq Nat
    BY <1>2
  <2> HIDE DEF Free, Less
  <2>2. IsWellFoundedOn(Less, Nat)
    BY NatLessThanWellFounded DEF Less
  <2>3. QED
    BY <1>3, <2>1, <2>2, WFMin
<1>5. PICK n \in Free : \A k \in Free : <<k, n>> \notin Less
  BY <1>4
<1>6. ASSUME NEW k \in Free PROVE k >= n
  <2>1. k \in Nat /\ n \in Nat
    BY <1>2
  <2>2. Less = {pair \in Nat \X Nat : pair[1] < pair[2]}
    BY DEF OpToRel
  <2>3. <<k, n>> \notin Less
    BY <1>5
  <2> HIDE DEF Less, Free
  <2>4. <<k, n>> \in Nat \X Nat
    BY <2>1
  <2>5. ~(k < n)
    BY <2>2, <2>3, <2>4
  <2>6. QED
    BY <2>1, <2>5
<1>7. \A k \in Len(chain)..(n - 1) : \E t \in pool : t.nonce = k
  BY <1>1, <1>2, <1>6
<1>8. n \in I /\ \A t \in pool : t.nonce # n
  OBVIOUS
<1>9. PendingNonce \in I
  BY <1>7, <1>8 DEF PendingNonce
<1>10. QED
  BY <1>2, <1>9

-----------------------------------------------------------------------------
(* Types                                                                   *)

\* Outside the consumers, the state keeps its type.
LEMMA OutsideType ==
    ASSUME TypeInv, Outside
    PROVE  TypeInv'
<1>0. Executions'
  BY DEF Outside, RecordBurn, CircleAttests, OutsiderMints, Confirm, DeadClaimExpires, Mine,
     LeaseExpires, DeadLeaseExpires, TypeInv, Executions, rowVars, jobVars
<1>1. ASSUME NEW o \in Ops, RecordBurn(o) PROVE TypeInv'
  <2>1. op' \in [Ops -> Op] /\ OwnTransaction'
    BY <1>1 DEF RecordBurn, TypeInv, Tables, OwnTransaction, Op
  <2>2. QED
    BY <1>0, <1>1, <2>1 DEF RecordBurn, TypeInv, Tables, jobVars, chainVars, boundVars
<1>2. ASSUME NEW o \in Ops,
             CircleAttests(o) \/ OutsiderMints(o) \/ Confirm(o) \/ DeadClaimExpires(o)
      PROVE  TypeInv'
  BY <1>0, <1>2 DEF CircleAttests, OutsiderMints, Confirm, DeadClaimExpires, TypeInv, Tables,
     OwnTransaction, rowVars, jobVars, chainVars, boundVars
<1>3. ASSUME NEW ok \in BOOLEAN, Mine(ok) PROVE TypeInv'
  <2>1. PICK tx \in pool :
          /\ reverts' = reverts \/ reverts' = reverts + (IF ok THEN 0 ELSE 1)
          /\ reverts' <= MaxReverts
          /\ chain' = Append(chain, [op |-> tx.op, ok |-> ok])
          /\ used' = (IF ok THEN used \cup {tx.op} ELSE used)
          /\ pool' = pool \ {tx}
          /\ UNCHANGED <<rowVars, attested, jobVars, worker, outbid, confirmed, faults, expiries>>
    BY <1>3 DEF Mine
  <2>2. tx \in Tx /\ tx.op \in Ops
    BY DEF TypeInv, Tables, Tx
  <2>3. pool' \subseteq Tx /\ IsFiniteSet(pool')
    BY <2>1, FS_RemoveElement DEF TypeInv, Tables
  <2>4. chain' \in Seq([op: Ops, ok: BOOLEAN])
    BY <2>1, <2>2 DEF TypeInv, Tables
  <2>5. reverts' \in 0..MaxReverts
    BY <2>1, ConstantsAssumption DEF TypeInv, Tables
  <2>6. QED
    BY <1>0, <2>1, <2>2, <2>3, <2>4, <2>5 DEF TypeInv, Tables, OwnTransaction, rowVars, jobVars
<1>4. CASE LeaseExpires \/ DeadLeaseExpires
  <2>1. expiries' = expiries \/ (expiries < MaxExpiries /\ expiries' = expiries + 1)
    BY <1>4 DEF LeaseExpires, DeadLeaseExpires, boundVars
  <2>2. expiries' \in 0..MaxExpiries
    BY <2>1, ConstantsAssumption DEF TypeInv, Tables
  <2>3. QED
    BY <1>0, <1>4, <2>2 DEF LeaseExpires, DeadLeaseExpires, TypeInv, Tables, OwnTransaction, rowVars,
       chainVars, boundVars
<1>5. QED
  BY <1>1, <1>2, <1>3, <1>4 DEF Outside

\* A consumer's own row keeps its type, and no other row changes.
LEMMA ConsumerType ==
    ASSUME TypeInv, NEW w \in Workers, Attests(w) \/ Starts(w) \/ Mints(w) \/ Crash(w)
    PROVE  Executions' /\ \A v \in Workers \ {w} : worker'[v] = worker[v]
<1>0. worker \in [Workers -> Worker] /\ worker[w] \in Worker /\ Idle \in Worker
  BY DEF TypeInv, Executions, Idle, NoOp, Worker, Op, Pcs
<1>1. SUFFICES
        \E k \in Worker :
           /\ worker' = [worker EXCEPT ![w] = k]
           /\ k.pc # "idle" => k.op \in Ops /\ (k.row.tx # None => k.row.tx.op = k.op)
           /\ k.pc \in {"record", "broadcast"} => k.tx \in Tx /\ k.tx.op = k.op
  BY <1>0 DEF TypeInv, Executions
<1> DEFINE Fine(k) == /\ k \in Worker
                      /\ k.pc # "idle" => k.op \in Ops /\ (k.row.tx # None => k.row.tx.op = k.op)
                      /\ k.pc \in {"record", "broadcast"} => k.tx \in Tx /\ k.tx.op = k.op
           Becomes(k) == worker' = [worker EXCEPT ![w] = k]
<1>a. Fine(Idle)
  BY <1>0 DEF Idle
<1>b. Fine(worker[w]) /\ worker = [worker EXCEPT ![w] = worker[w]]
  BY <1>0 DEF TypeInv, Executions
<1>c. ASSUME NEW p \in Pcs \ {"record", "broadcast"}, Goto(w, p), worker[w].pc # "idle"
      PROVE  \E k \in Worker : Becomes(k) /\ Fine(k)
  <2>1. PICK k \in Worker : k = [worker[w] EXCEPT !.pc = p]
    BY <1>0 DEF Worker
  <2>2. Fine(k) /\ Becomes(k)
    BY <1>0, <1>b, <1>c, <2>1 DEF Goto, Worker
  <2>3. QED
    BY <2>2
<1>2. SUFFICES \E k \in Worker : Becomes(k) /\ Fine(k)
  OBVIOUS
<1>3. CASE \/ AttestPending(w) \/ AttestEnqueue(w) \/ Finish(w) \/ ExistingReverted(w)
           \/ ExistingMined(w) \/ AttemptsExhausted(w) \/ LeaseBusy(w) \/ Release(w) \/ Crash(w)
  <2>1. Becomes(Idle)
    BY <1>3 DEF AttestPending, AttestEnqueue, Finish, ExistingReverted, ExistingMined,
       AttemptsExhausted, LeaseBusy, Release, Crash, Retried, Completed, Ends
  <2>2. QED
    BY <1>0, <1>a, <2>1
<1>4. CASE \/ AttestWrite(w) \/ NonceWasUsed(w) \/ Settle(w) \/ WantLease(w)
           \/ BroadcastRefused(w) \/ BroadcastFails(w) \/ Broadcast(w) \/ BroadcastReplaces(w)
  <2>1. PICK p \in Pcs \ {"record", "broadcast"} : Goto(w, p) /\ worker[w].pc # "idle"
    BY <1>4 DEF AttestWrite, NonceWasUsed, Settle, WantLease, BroadcastRefused, BroadcastFails,
       Broadcast, BroadcastReplaces, Pcs
  <2>2. QED
    BY <1>c, <2>1
<1>5. CASE Recover(w)
  <2>1. Goto(w, "settle") \/ Becomes(Idle)
    BY <1>5 DEF Recover, Retried, Ends
  <2>2. QED
    BY <1>0, <1>5, <1>a, <1>c, <2>1 DEF Recover, Pcs
<1>6. ASSUME NEW o \in Ops, NEW p \in {"attest", "nonce"},
             worker' = [worker EXCEPT ![w] = [Idle EXCEPT !.pc = p, !.op = o, !.row = op[o]]]
      PROVE  \E k \in Worker : Becomes(k) /\ Fine(k)
  <2>1. PICK k \in Worker : k = [Idle EXCEPT !.pc = p, !.op = o, !.row = op[o]]
    BY <1>0 DEF Worker, Pcs, TypeInv, Tables
  <2>2. k.pc = p /\ k.op = o /\ k.row = op[o] /\ Becomes(k)
    BY <1>0, <1>6, <2>1 DEF Worker
  <2>3. Fine(k)
    BY <2>1, <2>2 DEF TypeInv, OwnTransaction
  <2>4. QED
    BY <2>2, <2>3
<1>7. CASE Starts(w) \/ \E o \in Ops : AttestStart(w, o)
  <2>1. UNCHANGED worker
        \/ \E o \in Ops, p \in {"attest", "nonce"} :
              worker' = [worker EXCEPT ![w] = [Idle EXCEPT !.pc = p, !.op = o, !.row = op[o]]]
    BY <1>7 DEF Starts, MintStart, AttestStart
  <2>2. QED
    BY <1>0, <1>6, <1>b, <2>1
<1>8. CASE ExistingUnseen(w)
  <2>1. worker[w].pc = "unused" /\ worker[w].row.tx # None
    BY <1>8 DEF ExistingUnseen
  <2>2. worker[w].row.tx \in Tx /\ worker[w].row.tx.op = worker[w].op
    BY <1>0, <1>b, <2>1 DEF Worker, Op
  <2>3. PICK k \in Worker : k = [worker[w] EXCEPT !.pc = "broadcast", !.tx = worker[w].row.tx]
    BY <1>0, <2>2 DEF Worker, Pcs
  <2>4. Fine(k) /\ Becomes(k)
    BY <1>0, <1>8, <1>b, <2>1, <2>2, <2>3 DEF ExistingUnseen, Worker
  <2>5. QED
    BY <2>4
<1>9. CASE AcquireLease(w)
  <2>1. PICK k \in Worker : k = [worker[w] EXCEPT !.pc = "reread", !.locked = TRUE]
    BY <1>0 DEF Worker, Pcs
  <2>2. Fine(k) /\ Becomes(k)
    BY <1>0, <1>9, <1>b, <2>1 DEF AcquireLease, Worker
  <2>3. QED
    BY <2>2
<1>10. CASE Reread(w)
  <2>1. worker[w].op \in Ops /\ worker[w].pc = "reread"
    BY <1>10, <1>b DEF Reread
  <2>2. PICK row \in Op : row = op[worker[w].op] /\ (row.tx # None => row.tx.op = worker[w].op)
    BY <2>1 DEF TypeInv, Tables, OwnTransaction
  <2>3. PICK p \in {"prepare", "release"} : worker' = [worker EXCEPT ![w].row = row, ![w].pc = p]
    BY <1>10, <2>2 DEF Reread
  <2>4. PICK k \in Worker : k = [worker[w] EXCEPT !.row = row, !.pc = p]
    BY <1>0 DEF Worker, Pcs
  <2>5. Fine(k) /\ Becomes(k)
    BY <1>0, <1>b, <2>1, <2>2, <2>3, <2>4 DEF Worker
  <2>6. QED
    BY <2>5
<1>11. CASE Prepare(w)
  <2>1. worker[w].op \in Ops /\ worker[w].pc = "prepare"
    BY <1>11, <1>b DEF Prepare
  <2>2. PICK tx \in Tx : tx = [op |-> worker[w].op, nonce |-> PendingNonce]
    BY <2>1, PendingNonceIsNonce DEF Tx
  <2>3. Goto(w, "release") \/ worker' = [worker EXCEPT ![w].pc = "record", ![w].tx = tx]
    BY <1>11, <2>2 DEF Prepare
  <2>4. CASE Goto(w, "release")
    BY <1>c, <2>1, <2>4 DEF Pcs
  <2>5. CASE worker' = [worker EXCEPT ![w].pc = "record", ![w].tx = tx]
    <3>1. PICK k \in Worker : k = [worker[w] EXCEPT !.pc = "record", !.tx = tx]
      BY <1>0 DEF Worker, Pcs
    <3>2. Fine(k) /\ Becomes(k)
      BY <1>0, <1>b, <2>1, <2>2, <2>5, <3>1 DEF Worker
    <3>3. QED
      BY <3>2
  <2>6. QED
    BY <2>3, <2>4, <2>5
<1>12. CASE RecordPrepared(w)
  <2>1. worker[w].pc = "record" /\ (Goto(w, "release") \/ Goto(w, "broadcast"))
    BY <1>12 DEF RecordPrepared
  <2>2. CASE Goto(w, "release")
    BY <1>c, <2>1, <2>2 DEF Pcs
  <2>3. CASE Goto(w, "broadcast")
    <3>1. PICK k \in Worker : k = [worker[w] EXCEPT !.pc = "broadcast"]
      BY <1>0 DEF Worker, Pcs
    <3>2. Fine(k) /\ Becomes(k)
      BY <1>0, <1>b, <2>1, <2>3, <3>1 DEF Goto, Worker
    <3>3. QED
      BY <3>2
  <2>4. QED
    BY <2>1, <2>2, <2>3
<1>13. QED
  BY <1>3, <1>4, <1>5, <1>7, <1>8, <1>9, <1>10, <1>11, <1>12 DEF Attests, Starts, Mints, MintStep

\* The mint the chain shows of an operation is a transaction of that operation.
LEMMA MintOfIsOwn ==
    ASSUME TypeInv, NEW o \in Ops
    PROVE  MintOf(o) \in Tx \cup {None} /\ (MintOf(o) # None => MintOf(o).op = o)
<1>1. CASE \E n \in 1..Len(chain) : chain[n] = [op |-> o, ok |-> TRUE]
  <2>1. PICK n \in 1..Len(chain) :
          n = CHOOSE i \in 1..Len(chain) : chain[i] = [op |-> o, ok |-> TRUE]
    BY <1>1
  <2>2. MintOf(o) = [op |-> o, nonce |-> n - 1]
    BY <1>1, <2>1 DEF MintOf
  <2>3. n - 1 \in Nat
    BY DEF TypeInv, Tables
  <2>4. QED
    BY <2>2, <2>3 DEF Tx
<1>2. CASE ~\E n \in 1..Len(chain) : chain[n] = [op |-> o, ok |-> TRUE]
  BY <1>2 DEF MintOf
<1>3. QED
  BY <1>1, <1>2

\* What a consumer's step does to the rows of the operations: it changes at most
\* the row of its own operation, and the row's shape stays.
LEMMA RowsType ==
    ASSUME TypeInv, NEW w \in Workers, Attests(w) \/ Starts(w) \/ Mints(w) \/ Crash(w)
    PROVE  /\ op' \in [Ops -> Op] /\ OwnTransaction'
           /\ \A o \in Ops : o # worker[w].op => op'[o] = op[o]
<1>0. op \in [Ops -> Op] /\ worker[w] \in Worker /\ OwnTransaction
  BY DEF TypeInv, Tables, Executions
<1>1. CASE UNCHANGED op
  BY <1>0, <1>1 DEF OwnTransaction
<1>2. ASSUME NEW o \in Ops, o = worker[w].op,
             \E row \in Op : op' = [op EXCEPT ![o] = row] /\ (row.tx # None => row.tx.op = o)
      PROVE  /\ op' \in [Ops -> Op] /\ OwnTransaction'
             /\ \A i \in Ops : i # worker[w].op => op'[i] = op[i]
  BY <1>0, <1>2 DEF OwnTransaction
<1> DEFINE o == worker[w].op
           Becomes(row) == op' = [op EXCEPT ![o] = row] /\ (row.tx # None => row.tx.op = o)
<1>3. SUFFICES ASSUME worker[w].pc # "idle", o \in Ops, op[o] \in Op,
                      op[o].tx # None => op[o].tx.op = o, ~UNCHANGED op
               PROVE  \E row \in Op : Becomes(row)
  <2>1. worker[w].pc # "idle" \/ UNCHANGED op
    BY DEF Attests, Starts, Mints, MintStep, Crash, AttestStart, AttestPending, AttestWrite,
       AttestEnqueue, MintStart, NonceWasUsed, Recover, Settle, Finish, ExistingReverted,
       ExistingMined, ExistingUnseen, AttemptsExhausted, WantLease, AcquireLease, LeaseBusy,
       Reread, Prepare, RecordPrepared, Broadcast, BroadcastReplaces, BroadcastRefused,
       BroadcastFails, Release, rowVars
  <2>2. worker[w].pc # "idle" => o \in Ops
    BY DEF TypeInv, Executions
  <2>3. QED
    BY <1>0, <1>1, <1>2, <2>1, <2>2 DEF OwnTransaction
<1>4. CASE AttestWrite(w)
  <2>1. PICK row \in Op : row = [op[o] EXCEPT !.status = "minting", !.attestation = TRUE]
    BY <1>3 DEF Op
  <2>2. Becomes(row)
    BY <1>0, <1>3, <1>4, <2>1 DEF AttestWrite, AttestedStatus, Op
  <2>3. QED
    BY <2>2
<1>5. CASE Finish(w)
  <2>1. PICK tx \in Tx \cup {None} : tx = MintOf(o) /\ (tx # None => tx.op = o)
    BY <1>3, MintOfIsOwn
  <2>2. PICK row \in Op : row = [op[o] EXCEPT !.status = "settled", !.tx = tx]
    BY <1>3 DEF Op
  <2>3. Becomes(row)
    BY <1>0, <1>3, <1>5, <2>1, <2>2 DEF Finish, Op
  <2>4. QED
    BY <2>3
<1>6. CASE ExistingReverted(w)
  <2>1. PICK tx \in {None, op[o].tx} : tx = AfterRevert(op[o], worker[w].row.tx)
    BY DEF AfterRevert
  <2>2. PICK row \in Op : row = [op[o] EXCEPT !.tx = tx]
    BY <1>3 DEF Op
  <2>3. Becomes(row)
    BY <1>0, <1>3, <1>6, <2>1, <2>2 DEF ExistingReverted, Op
  <2>4. QED
    BY <2>3
<1>7. CASE AttemptsExhausted(w)
  <2>1. PICK row \in Op : row = [op[o] EXCEPT !.status = "needs_support"]
    BY <1>3 DEF Op
  <2>2. Becomes(row)
    BY <1>0, <1>3, <1>7, <2>1 DEF AttemptsExhausted, Op
  <2>3. QED
    BY <2>2
<1>8. CASE RecordPrepared(w)
  <2>1. PICK tx \in Tx : tx = worker[w].tx /\ tx.op = o
    BY <1>8 DEF RecordPrepared, TypeInv, Executions
  <2>2. PICK n \in Nat : n = op[o].count + 1
    BY <1>3 DEF Op
  <2>3. PICK row \in Op : row = [op[o] EXCEPT !.tx = tx, !.count = n]
    BY <1>3 DEF Op
  <2>4. op' = [op EXCEPT ![o].tx = tx, ![o].count = op[o].count + 1]
    BY <1>3, <1>8, <2>1 DEF RecordPrepared
  <2>5. Becomes(row)
    BY <1>0, <1>3, <2>1, <2>2, <2>3, <2>4 DEF Op
  <2>6. QED
    BY <2>5
<1>9. QED
  BY <1>3, <1>4, <1>5, <1>6, <1>7, <1>8 DEF Attests, Starts, Mints, MintStep, Crash, AttestStart,
     AttestPending, AttestEnqueue, MintStart, NonceWasUsed, Recover, Settle, ExistingMined,
     ExistingUnseen, WantLease, AcquireLease, LeaseBusy, Reread, Prepare, Broadcast,
     BroadcastReplaces, BroadcastRefused, BroadcastFails, Release, rowVars

\* The tables keep their types when a consumer goes on.
LEMMA ConsumerTables ==
    ASSUME TypeInv, NEW w \in Workers, Attests(w) \/ Starts(w) \/ Mints(w) \/ Crash(w)
    PROVE  Tables'
<1>1. op' \in [Ops -> Op]
  BY RowsType
<1>2. UNCHANGED <<attested, chain, used, confirmed, reverts, expiries>>
  BY DEF Attests, Starts, Mints, MintStep, Crash, AttestStart, AttestPending, AttestWrite,
     AttestEnqueue, MintStart, NonceWasUsed, Recover, Settle, Finish, ExistingReverted,
     ExistingMined, ExistingUnseen, AttemptsExhausted, WantLease, AcquireLease, LeaseBusy,
     Reread, Prepare, RecordPrepared, Broadcast, BroadcastReplaces, BroadcastRefused,
     BroadcastFails, Release, chainVars, boundVars
<1>3. mintJob' \in [Ops -> {"none", "queued", "processing", "completed"}]
  <2>1. \/ UNCHANGED mintJob
        \/ \E o \in Ops, st \in {"queued", "processing", "completed"} :
               mintJob' = [mintJob EXCEPT ![o] = st]
        \/ \E st \in {"queued", "completed"} :
               worker[w].pc # "idle" /\ mintJob' = [mintJob EXCEPT ![worker[w].op] = st]
        \/ \E st \in {"queued", mintJob[worker[w].op]} :
               worker[w].pc # "idle" /\ mintJob' = [mintJob EXCEPT ![worker[w].op] = st]
    BY DEF Attests, Starts, Mints, MintStep, Crash, AttestStart, AttestPending, AttestWrite,
     AttestEnqueue, MintStart, NonceWasUsed, Recover, Settle, Finish, ExistingReverted,
     ExistingMined, ExistingUnseen, AttemptsExhausted, WantLease, AcquireLease, LeaseBusy,
     Reread, Prepare, RecordPrepared, Broadcast, BroadcastReplaces, BroadcastRefused,
     BroadcastFails, Release, jobVars, Retried, Completed
  <2>2. worker[w].pc # "idle" => worker[w].op \in Ops
    BY DEF TypeInv, Executions
  <2>3. QED
    BY <2>1, <2>2 DEF TypeInv, Tables
<1>4. lease' \in Workers \cup {None}
  <2>1. lease' \in {lease, w, None}
    BY DEF Attests, Starts, Mints, MintStep, Crash, AttestStart, AttestPending, AttestWrite,
     AttestEnqueue, MintStart, NonceWasUsed, Recover, Settle, Finish, ExistingReverted,
     ExistingMined, ExistingUnseen, AttemptsExhausted, WantLease, AcquireLease, LeaseBusy,
     Reread, Prepare, RecordPrepared, Broadcast, BroadcastReplaces, BroadcastRefused,
     BroadcastFails, Release, jobVars
  <2>2. QED
    BY <2>1 DEF TypeInv, Tables
<1>5. settled' \subseteq Ops
  <2>1. CASE Settle(w)
    BY <2>1 DEF Settle, TypeInv, Tables, Executions
  <2>2. CASE ~Settle(w)
    BY <2>2 DEF Attests, Starts, Mints, MintStep, Crash, AttestStart, AttestPending, AttestWrite,
     AttestEnqueue, MintStart, NonceWasUsed, Recover, Finish, ExistingReverted,
     ExistingMined, ExistingUnseen, AttemptsExhausted, WantLease, AcquireLease, LeaseBusy,
     Reread, Prepare, RecordPrepared, Broadcast, BroadcastReplaces, BroadcastRefused,
     BroadcastFails, Release, rowVars, TypeInv, Tables
  <2>3. QED
    BY <2>1, <2>2
<1>6. pool' \subseteq Tx /\ outbid' \subseteq Tx /\ IsFiniteSet(pool')
  <2>1. pool \subseteq Tx /\ outbid \subseteq Tx /\ IsFiniteSet(pool)
    BY DEF TypeInv, Tables
  <2>2. CASE Broadcast(w) \/ BroadcastReplaces(w)
    <3>1. worker[w].tx \in Tx
      BY <2>2 DEF Broadcast, BroadcastReplaces, TypeInv, Executions
    <3>2. PICK held \in SUBSET pool :
            /\ pool' = pool \/ pool' = held \cup {worker[w].tx}
            /\ outbid' \subseteq outbid \cup pool
      <4>1. CASE Broadcast(w)
        BY <4>1 DEF Broadcast
      <4>2. CASE BroadcastReplaces(w)
        BY <4>2 DEF BroadcastReplaces
      <4>3. QED
        BY <2>2, <4>1, <4>2
    <3>3. IsFiniteSet(held)
      BY <2>1, FS_Subset
    <3>4. IsFiniteSet(held \cup {worker[w].tx})
      BY <3>3, FS_AddElement
    <3>5. QED
      BY <2>1, <3>1, <3>2, <3>4
  <2>3. CASE UNCHANGED <<pool, outbid>>
    BY <2>1, <2>3
  <2>4. QED
    BY <2>2, <2>3 DEF Attests, Starts, Mints, MintStep, Crash, AttestStart, AttestPending,
     AttestWrite, AttestEnqueue, MintStart, NonceWasUsed, Recover, Settle, Finish,
     ExistingReverted, ExistingMined, ExistingUnseen, AttemptsExhausted, WantLease, AcquireLease,
     LeaseBusy, Reread, Prepare, RecordPrepared, BroadcastRefused, BroadcastFails, Release,
     chainVars
<1>7. faults' \in 0..MaxFaults
  <2>1. faults' = faults \/ (faults < MaxFaults /\ faults' = faults + 1)
    BY DEF Attests, Starts, Mints, MintStep, Crash, AttestStart, AttestPending, AttestWrite,
     AttestEnqueue, MintStart, NonceWasUsed, Recover, Settle, Finish, ExistingReverted,
     ExistingMined, ExistingUnseen, AttemptsExhausted, WantLease, AcquireLease, LeaseBusy,
     Reread, Prepare, RecordPrepared, Broadcast, BroadcastReplaces, BroadcastRefused,
     BroadcastFails, Release, boundVars
  <2>2. QED
    BY <2>1, ConstantsAssumption DEF TypeInv, Tables
<1>8. QED
  BY <1>1, <1>2, <1>3, <1>4, <1>5, <1>6, <1>7 DEF TypeInv, Tables

\* The inductive step of the types.
LEMMA TypeStep ==
    ASSUME TypeInv, [Next]_vars
    PROVE  TypeInv'
<1>1. CASE UNCHANGED vars
  BY <1>1 DEF vars, rowVars, jobVars, chainVars, boundVars, TypeInv, Tables, Executions,
     OwnTransaction
<1>2. CASE \E w \in Workers : Attests(w) \/ Starts(w) \/ Mints(w) \/ Crash(w)
  BY <1>2, ConsumerTables, ConsumerType, RowsType DEF TypeInv
<1>3. QED
  BY <1>1, <1>2, StepCases, OutsideType

-----------------------------------------------------------------------------
(* One execution per mint job                                              *)

\* An execution of the mint job goes on with its operation, or ends and gives
\* its claim up.
LEMMA MintsMove ==
    ASSUME TypeInv, NEW w \in Workers, Mints(w)
    PROVE  /\ Minting(w)
           /\ \/ /\ worker'[w].pc = "idle"
                 /\ \E st \in {"queued", "completed"} :
                       mintJob' = [mintJob EXCEPT ![worker[w].op] = st]
              \/ /\ worker'[w].pc \in MintPcs /\ worker'[w].op = worker[w].op
                 /\ UNCHANGED mintJob
<1>0. worker \in [Workers -> Worker] /\ worker[w] \in Worker
  BY DEF TypeInv, Executions
<1>1. CASE \/ Finish(w) \/ ExistingReverted(w) \/ ExistingMined(w) \/ AttemptsExhausted(w)
           \/ LeaseBusy(w) \/ Release(w)
  BY <1>0, <1>1 DEF Finish, ExistingReverted, ExistingMined, AttemptsExhausted, LeaseBusy,
     Release, Retried, Completed, Ends, Idle, Minting, MintPcs
<1>2. CASE \/ NonceWasUsed(w) \/ Settle(w) \/ WantLease(w)
           \/ BroadcastRefused(w) \/ BroadcastFails(w) \/ Broadcast(w) \/ BroadcastReplaces(w)
  BY <1>0, <1>2 DEF NonceWasUsed, Settle, WantLease, BroadcastRefused, BroadcastFails, Broadcast,
     BroadcastReplaces, Goto, jobVars, Minting, MintPcs, Worker
<1>3. CASE Recover(w)
  BY <1>0, <1>3 DEF Recover, Goto, Retried, Ends, Idle, Minting, MintPcs, Worker
<1>4. CASE ExistingUnseen(w) \/ AcquireLease(w)
  BY <1>0, <1>4 DEF ExistingUnseen, AcquireLease, jobVars, Minting, MintPcs, Worker
<1>5. CASE Reread(w) \/ Prepare(w) \/ RecordPrepared(w)
  BY <1>0, <1>5 DEF Reread, Prepare, RecordPrepared, Goto, jobVars, Minting, MintPcs, Worker
<1>6. QED
  BY <1>1, <1>2, <1>3, <1>4, <1>5 DEF Mints, MintStep

\* Only a queued job is started.
LEMMA StartsMove ==
    ASSUME TypeInv, NEW w \in Workers, NEW o \in Ops, MintStart(w, o)
    PROVE  /\ worker[w].pc = "idle" /\ mintJob[o] = "queued"
           /\ \/ UNCHANGED worker /\ mintJob' = [mintJob EXCEPT ![o] = "completed"]
              \/ /\ worker'[w].pc = "nonce" /\ worker'[w].op = o /\ worker'[w].row = op[o]
                 /\ mintJob' = [mintJob EXCEPT ![o] = "processing"]
<1>1. worker \in [Workers -> Worker] /\ op[o] \in Op
  BY DEF TypeInv, Executions, Tables
<1>2. QED
  BY <1>1 DEF MintStart, Idle

\* The attestation job never touches a claim.
LEMMA AttestsMove ==
    ASSUME TypeInv, NEW w \in Workers, Attests(w)
    PROVE  /\ ~Minting(w) /\ worker'[w].pc \notin MintPcs
           /\ \A o \in Ops : mintJob'[o] = mintJob[o]
                             \/ (mintJob[o] = "none" /\ mintJob'[o] = "queued")
<1>0. worker \in [Workers -> Worker] /\ worker[w] \in Worker
  BY DEF TypeInv, Executions
<1>1. CASE AttestPending(w) \/ AttestWrite(w)
  BY <1>0, <1>1 DEF AttestPending, AttestWrite, Goto, Ends, Idle, jobVars, Minting, MintPcs, Worker
<1>2. CASE AttestEnqueue(w)
  BY <1>0, <1>2 DEF AttestEnqueue, Ends, Idle, Minting, MintPcs, TypeInv, Tables, Executions
<1>3. ASSUME NEW o \in Ops, AttestStart(w, o)
      PROVE  ~Minting(w) /\ worker'[w].pc \notin MintPcs /\ UNCHANGED mintJob
  BY <1>0, <1>3 DEF AttestStart, Idle, jobVars, Minting, MintPcs
<1>4. QED
  BY <1>1, <1>2, <1>3 DEF Attests

\* A crash leaves the claim behind.
LEMMA CrashMove ==
    ASSUME TypeInv, NEW w \in Workers, Crash(w)
    PROVE  worker'[w].pc = "idle" /\ UNCHANGED <<op, settled, mintJob, pool, chain, used, confirmed>>
BY DEF Crash, Ends, Idle, rowVars, jobVars, chainVars, TypeInv, Executions

\* Outside the consumers, a claim changes only when nobody executes the job.
LEMMA OutsideMove ==
    ASSUME TypeInv, Outside
    PROVE  /\ UNCHANGED <<worker, settled>>
           /\ \A o \in Ops :
                 \/ mintJob'[o] = mintJob[o]
                 \/ /\ mintJob[o] = "processing" /\ mintJob'[o] = "queued"
                    /\ \A v \in Workers : Minting(v) => worker[v].op # o
<1>1. ASSUME NEW o \in Ops, DeadClaimExpires(o)
      PROVE  /\ UNCHANGED <<worker, settled>>
             /\ \A i \in Ops :
                   \/ mintJob'[i] = mintJob[i]
                   \/ /\ mintJob[i] = "processing" /\ mintJob'[i] = "queued"
                      /\ \A v \in Workers : Minting(v) => worker[v].op # i
  BY <1>1 DEF DeadClaimExpires, Minting, MintPcs, TypeInv, Tables, rowVars
<1>2. CASE ~\E o \in Ops : DeadClaimExpires(o)
  <2>1. UNCHANGED <<worker, settled, mintJob>>
    BY <1>2 DEF Outside, RecordBurn, CircleAttests, OutsiderMints, Confirm, Mine, LeaseExpires,
       DeadLeaseExpires, rowVars, jobVars
  <2>2. QED
    BY <2>1
<1>3. QED
  BY <1>1, <1>2

\* The inductive step: an operation's mint job has one execution.
LEMMA OneExecutionStep ==
    ASSUME TypeInv, OneExecution, [Next]_vars
    PROVE  OneExecution'
<1>0. mintJob \in [Ops -> {"none", "queued", "processing", "completed"}]
      /\ \A w \in Workers : Minting(w) => worker[w].op \in Ops
  BY DEF TypeInv, Tables, Executions, Minting, MintPcs
<1>a. MintPcs \subseteq Pcs \ {"idle"} /\ "nonce" \in MintPcs
  BY DEF MintPcs, Pcs
<1>1. CASE UNCHANGED vars
  BY <1>1 DEF vars, jobVars, OneExecution, Minting
<1>2. CASE Outside
  BY <1>0, <1>2, OutsideMove DEF OneExecution, Minting
<1>3. ASSUME NEW w \in Workers, Mints(w) PROVE OneExecution'
  <2>1. \A v \in Workers \ {w} : worker'[v] = worker[v]
    BY <1>3, ConsumerType
  <2>2. QED
    BY <1>0, <1>a, <1>3, <2>1, MintsMove DEF OneExecution, Minting
<1>4. ASSUME NEW w \in Workers, NEW o \in Ops, MintStart(w, o) PROVE OneExecution'
  <2>1. \A v \in Workers \ {w} : worker'[v] = worker[v]
    BY <1>4, ConsumerType DEF Starts
  <2>2. QED
    BY <1>0, <1>a, <1>4, <2>1, StartsMove DEF OneExecution, Minting
<1>5. ASSUME NEW w \in Workers, Attests(w) PROVE OneExecution'
  <2>1. \A v \in Workers \ {w} : worker'[v] = worker[v]
    BY <1>5, ConsumerType
  <2>2. QED
    BY <1>0, <1>a, <1>5, <2>1, AttestsMove DEF OneExecution, Minting
<1>6. ASSUME NEW w \in Workers, Crash(w) PROVE OneExecution'
  <2>1. \A v \in Workers \ {w} : worker'[v] = worker[v]
    BY <1>6, ConsumerType
  <2>2. QED
    BY <1>0, <1>a, <1>6, <2>1, CrashMove DEF OneExecution, Minting
<1>7. QED
  BY <1>1, <1>2, <1>3, <1>4, <1>5, <1>6, StepCases DEF Starts

-----------------------------------------------------------------------------
(* The row an execution read is the row                                    *)

KeepsMint(o) == op'[o].tx = op[o].tx /\ op'[o].count = op[o].count

\* Only an execution of the mint job changes a transaction or a count: an
\* attestation job that is late or runs twice, and an expired lease, do not.
LEMMA MintsAreKept ==
    ASSUME TypeInv, NEW o \in Ops,
           \/ Outside
           \/ \E w \in Workers : Attests(w) \/ Starts(w) \/ Crash(w)
           \/ \E w \in Workers : Mints(w) /\ worker[w].op # o
    PROVE  KeepsMint(o)
<1>0. op \in [Ops -> Op] /\ op[o] \in Op
  BY DEF TypeInv, Tables
<1>1. CASE Outside
  <2>1. UNCHANGED op \/ \E i \in Ops : op' = [op EXCEPT ![i].status = "burned"]
    BY <1>1 DEF Outside, RecordBurn, CircleAttests, OutsiderMints, Confirm, DeadClaimExpires,
       Mine, LeaseExpires, DeadLeaseExpires, rowVars
  <2>2. QED
    BY <1>0, <2>1 DEF KeepsMint, Op
<1>2. ASSUME NEW w \in Workers, Attests(w) \/ Starts(w) \/ Crash(w) PROVE KeepsMint(o)
  <2>1. CASE AttestWrite(w)
    <3>1. worker[w].op \in Ops /\ op[worker[w].op] \in Op
      BY <1>0, <2>1 DEF AttestWrite, TypeInv, Tables, Executions
    <3>2. QED
      BY <1>0, <2>1, <3>1 DEF AttestWrite, KeepsMint, Op
  <2>2. CASE ~AttestWrite(w)
    BY <1>2, <2>2 DEF Attests, Starts, Crash, AttestStart, AttestPending, AttestEnqueue, MintStart,
       rowVars, KeepsMint
  <2>3. QED
    BY <2>1, <2>2
<1>3. CASE \E w \in Workers : Mints(w) /\ worker[w].op # o
  BY <1>3, RowsType DEF KeepsMint
<1>4. QED
  BY <1>1, <1>2, <1>3

\* An execution's row is current, and what it sends is stored.
Current(k) ==
    /\ k.pc \in ReliesOnRow => k.row.tx = op[k.op].tx /\ k.row.count = op[k.op].count
    /\ k.pc \in MaySign => k.row.tx = None /\ k.row.count < MaxMintAttempts
    /\ k.pc = "broadcast" => k.tx = op[k.op].tx

\* It stays so in each of its own steps.
LEMMA MintsCurrent ==
    ASSUME TypeInv, RowIsCurrent, NEW w \in Workers, Mints(w)
    PROVE  LET k == worker'[w] IN
           /\ k.pc \in ReliesOnRow => k.row.tx = op'[k.op].tx /\ k.row.count = op'[k.op].count
           /\ k.pc \in MaySign => k.row.tx = None /\ k.row.count < MaxMintAttempts
           /\ k.pc = "broadcast" => k.tx = op'[k.op].tx
<1>0. worker \in [Workers -> Worker] /\ worker[w] \in Worker /\ op \in [Ops -> Op]
  BY DEF TypeInv, Executions, Tables
<1>a. Current(worker[w])
  BY DEF RowIsCurrent, Current
<1>1. CASE NonceWasUsed(w) \/ Recover(w) \/ WantLease(w)
  <2>1. UNCHANGED op
    BY <1>1 DEF NonceWasUsed, Recover, WantLease, rowVars
  <2>2. CASE Retried(w)
    BY <1>0, <2>2 DEF Retried, Ends, Idle, ReliesOnRow, MaySign
  <2>3. ASSUME NEW p \in {"recover", "unused", "settle", "lease"}, Goto(w, p),
               worker[w].pc \in {"nonce", "recover", "unused"},
               p = "lease" => worker[w].row.tx = None /\ worker[w].row.count < MaxMintAttempts
        PROVE  LET k == worker'[w] IN
           /\ k.pc \in ReliesOnRow => k.row.tx = op'[k.op].tx /\ k.row.count = op'[k.op].count
           /\ k.pc \in MaySign => k.row.tx = None /\ k.row.count < MaxMintAttempts
           /\ k.pc = "broadcast" => k.tx = op'[k.op].tx
    <3>1. /\ worker'[w].pc = p /\ worker'[w].op = worker[w].op
          /\ worker'[w].row = worker[w].row /\ worker'[w].tx = worker[w].tx
      BY <1>0, <2>3 DEF Goto, Worker
    <3>2. QED
      BY <1>a, <2>1, <2>3, <3>1 DEF Current, ReliesOnRow, MaySign
  <2>4. CASE Recover(w) /\ ~Retried(w)
    BY <2>3, <2>4 DEF Recover
  <2>5. CASE WantLease(w)
    BY <2>3, <2>5 DEF WantLease, MayPrepare
  <2>6. CASE NonceWasUsed(w)
    BY <2>3, <2>6 DEF NonceWasUsed
  <2>7. QED
    BY <1>1, <2>2, <2>4, <2>5, <2>6
<1>2. CASE \/ Settle(w) \/ Finish(w) \/ ExistingReverted(w) \/ ExistingMined(w)
           \/ AttemptsExhausted(w) \/ LeaseBusy(w) \/ Release(w) \/ Broadcast(w)
           \/ BroadcastReplaces(w) \/ BroadcastRefused(w) \/ BroadcastFails(w)
  <2>1. worker'[w].pc \in {"idle", "finish", "release"}
    BY <1>0, <1>2 DEF Settle, Finish, ExistingReverted, ExistingMined, AttemptsExhausted, LeaseBusy,
       Release, Broadcast, BroadcastReplaces, BroadcastRefused, BroadcastFails, Retried, Completed,
       Ends, Idle, Goto, Worker
  <2>2. QED
    BY <2>1 DEF ReliesOnRow, MaySign
<1>3. CASE ExistingUnseen(w)
  <2>1. /\ worker[w].pc = "unused" /\ UNCHANGED op
        /\ worker'[w].pc = "broadcast" /\ worker'[w].tx = worker[w].row.tx
        /\ worker'[w].op = worker[w].op
    BY <1>0, <1>3 DEF ExistingUnseen, rowVars, Worker
  <2>2. QED
    BY <1>a, <2>1 DEF Current, ReliesOnRow, MaySign
<1>4. CASE AcquireLease(w)
  <2>1. /\ worker[w].pc = "lease" /\ UNCHANGED op
        /\ worker'[w].pc = "reread" /\ worker'[w].row = worker[w].row
        /\ worker'[w].op = worker[w].op
    BY <1>0, <1>4 DEF AcquireLease, rowVars, Worker
  <2>2. QED
    BY <1>a, <2>1 DEF Current, ReliesOnRow, MaySign
<1>5. CASE Reread(w)
  <2>1. /\ worker[w].pc = "reread" /\ UNCHANGED op
        /\ worker'[w].pc \in {"prepare", "release"} /\ worker'[w].row = op[worker[w].op]
        /\ worker'[w].op = worker[w].op
    BY <1>0, <1>5 DEF Reread, rowVars, Worker
  <2>2. QED
    BY <1>a, <2>1 DEF Current, ReliesOnRow, MaySign
<1>6. CASE Prepare(w)
  <2>1. /\ worker[w].pc = "prepare" /\ UNCHANGED op
        /\ worker'[w].pc \in {"record", "release"} /\ worker'[w].row = worker[w].row
        /\ worker'[w].op = worker[w].op
    BY <1>0, <1>6 DEF Prepare, Goto, rowVars, Worker
  <2>2. QED
    BY <1>a, <2>1 DEF Current, ReliesOnRow, MaySign
<1>7. CASE RecordPrepared(w)
  <2>1. worker[w].pc = "record" /\ worker[w].op \in Ops /\ worker'[w].op = worker[w].op
        /\ worker'[w].pc \in {"broadcast", "release"} /\ worker'[w].tx = worker[w].tx
    BY <1>0, <1>7 DEF RecordPrepared, Goto, Worker, TypeInv, Executions
  <2>2. worker'[w].pc = "broadcast" => op'[worker[w].op].tx = worker[w].tx
    BY <1>0, <1>7, <2>1 DEF RecordPrepared, Goto, Op, Worker
  <2>3. QED
    BY <2>1, <2>2 DEF ReliesOnRow, MaySign
<1>8. QED
  BY <1>1, <1>2, <1>3, <1>4, <1>5, <1>6, <1>7 DEF Mints, MintStep

\* The inductive step: the row an execution read is the row.
LEMMA RowIsCurrentStep ==
    ASSUME TypeInv, OneExecution, RowIsCurrent, [Next]_vars
    PROVE  RowIsCurrent'
<1>0. ReliesOnRow \cup MaySign \cup {"broadcast"} \subseteq MintPcs /\ MaySign \subseteq ReliesOnRow
  BY DEF ReliesOnRow, MaySign, MintPcs
<1>a. \A w \in Workers : Minting(w) => worker[w].op \in Ops
  BY DEF TypeInv, Executions, Minting, MintPcs
<1>1. SUFFICES ASSUME NEW v \in Workers, worker'[v].pc \in MintPcs
               PROVE  LET k == worker'[v] IN
           /\ k.pc \in ReliesOnRow => k.row.tx = op'[k.op].tx /\ k.row.count = op'[k.op].count
           /\ k.pc \in MaySign => k.row.tx = None /\ k.row.count < MaxMintAttempts
           /\ k.pc = "broadcast" => k.tx = op'[k.op].tx
  BY <1>0 DEF RowIsCurrent
<1>b. Current(worker[v])
  BY DEF RowIsCurrent, Current
<1>2. ASSUME worker'[v] = worker[v], worker[v].op \in Ops => KeepsMint(worker[v].op)
      PROVE  LET k == worker'[v] IN
           /\ k.pc \in ReliesOnRow => k.row.tx = op'[k.op].tx /\ k.row.count = op'[k.op].count
           /\ k.pc \in MaySign => k.row.tx = None /\ k.row.count < MaxMintAttempts
           /\ k.pc = "broadcast" => k.tx = op'[k.op].tx
  <2>1. worker[v].op \in Ops
    BY <1>1, <1>2, <1>a DEF Minting
  <2>2. QED
    BY <1>2, <1>b, <2>1 DEF Current, KeepsMint
<1>3. CASE UNCHANGED vars
  BY <1>2, <1>3 DEF vars, rowVars, KeepsMint
<1>4. CASE Outside
  BY <1>2, <1>4, OutsideMove, MintsAreKept
<1>5. ASSUME NEW w \in Workers, Attests(w) \/ Starts(w) \/ Crash(w), w # v
      PROVE  LET k == worker'[v] IN
           /\ k.pc \in ReliesOnRow => k.row.tx = op'[k.op].tx /\ k.row.count = op'[k.op].count
           /\ k.pc \in MaySign => k.row.tx = None /\ k.row.count < MaxMintAttempts
           /\ k.pc = "broadcast" => k.tx = op'[k.op].tx
  BY <1>2, <1>5, ConsumerType, MintsAreKept
<1>6. ASSUME NEW w \in Workers, Mints(w), w # v
      PROVE  LET k == worker'[v] IN
           /\ k.pc \in ReliesOnRow => k.row.tx = op'[k.op].tx /\ k.row.count = op'[k.op].count
           /\ k.pc \in MaySign => k.row.tx = None /\ k.row.count < MaxMintAttempts
           /\ k.pc = "broadcast" => k.tx = op'[k.op].tx
  <2>1. worker'[v] = worker[v]
    BY <1>6, ConsumerType
  <2>2. Minting(v) /\ Minting(w)
    BY <1>1, <1>6, <2>1, MintsMove DEF Minting
  <2>3. worker[v].op # worker[w].op
    BY <1>6, <2>2 DEF OneExecution
  <2>4. QED
    BY <1>2, <1>6, <2>1, <2>3, MintsAreKept
<1>7. CASE Mints(v)
  BY <1>7, MintsCurrent
<1>8. CASE Attests(v) \/ Crash(v)
  BY <1>1, <1>8, AttestsMove, CrashMove DEF MintPcs
<1>9. ASSUME NEW o \in Ops, MintStart(v, o)
      PROVE  LET k == worker'[v] IN
           /\ k.pc \in ReliesOnRow => k.row.tx = op'[k.op].tx /\ k.row.count = op'[k.op].count
           /\ k.pc \in MaySign => k.row.tx = None /\ k.row.count < MaxMintAttempts
           /\ k.pc = "broadcast" => k.tx = op'[k.op].tx
  <2>1. KeepsMint(o)
    BY <1>9, MintsAreKept DEF Starts
  <2>2. /\ worker'[v].pc = "nonce" /\ worker'[v].op = o /\ worker'[v].row = op[o]
    BY <1>1, <1>9, StartsMove DEF MintPcs
  <2>3. QED
    BY <2>1, <2>2 DEF KeepsMint, MaySign
<1>10. QED
  BY <1>3, <1>4, <1>5, <1>6, <1>7, <1>8, <1>9, StepCases DEF Starts

-----------------------------------------------------------------------------
(* Attempts and settlements                                                *)

\* The limit is checked on the row read before the lease: it is the row still.
LEMMA AttemptsStep ==
    ASSUME TypeInv, RowIsCurrent, AttemptsAreBounded, [Next]_vars
    PROVE  AttemptsAreBounded'
<1>1. SUFFICES ASSUME NEW o \in Ops PROVE op'[o].count <= MaxMintAttempts
  BY DEF AttemptsAreBounded
<1>0. op \in [Ops -> Op] /\ op[o] \in Op /\ op[o].count <= MaxMintAttempts
  BY DEF TypeInv, Tables, AttemptsAreBounded
<1>2. CASE KeepsMint(o)
  BY <1>0, <1>2 DEF KeepsMint
<1>3. ASSUME NEW w \in Workers, Mints(w), worker[w].op = o, ~KeepsMint(o)
      PROVE  op'[o].count <= MaxMintAttempts
  <2>1. CASE RecordPrepared(w)
    <3>1. worker[w].pc = "record" /\ op[o].count < MaxMintAttempts
      BY <1>3, <2>1 DEF RecordPrepared, RowIsCurrent, MaySign, ReliesOnRow
    <3>2. op'[o].count = op[o].count + 1 \/ op'[o].count = op[o].count
      BY <1>0, <1>3, <2>1 DEF RecordPrepared, Op
    <3>3. QED
      BY <1>0, <3>1, <3>2, ConstantsAssumption DEF Op
  <2>2. CASE Finish(w) \/ ExistingReverted(w) \/ AttemptsExhausted(w)
    <3>1. op'[o].count = op[o].count
      BY <1>0, <1>3, <2>2 DEF Finish, ExistingReverted, AttemptsExhausted, Op
    <3>2. QED
      BY <1>0, <3>1
  <2>3. CASE UNCHANGED op
    BY <1>0, <2>3
  <2>4. QED
    BY <1>3, <2>1, <2>2, <2>3 DEF Mints, MintStep, NonceWasUsed, Recover, Settle, ExistingMined,
       ExistingUnseen, WantLease, AcquireLease, LeaseBusy, Reread, Prepare, Broadcast,
       BroadcastReplaces, BroadcastRefused, BroadcastFails, Release, rowVars
<1>4. CASE UNCHANGED vars
  BY <1>0, <1>4 DEF vars, rowVars
<1>5. QED
  BY <1>2, <1>3, <1>4, StepCases, MintsAreKept

\* What a step of a consumer does to the settlements: one is added, by the
\* execution that saw its mint confirmed.
LEMMA SettlesStep ==
    ASSUME TypeInv, NEW w \in Workers, Mints(w)
    PROVE  /\ UNCHANGED confirmed
           /\ \/ UNCHANGED settled
              \/ worker[w].pc = "settle" /\ settled' = settled \cup {worker[w].op}
           /\ worker'[w].pc = "settle" => worker'[w].op \in confirmed
           /\ worker'[w].pc = "finish" => worker'[w].op \in settled'
           /\ \A o \in Ops : op'[o].status = "settled" =>
                 op[o].status = "settled" \/ (worker[w].pc = "finish" /\ o = worker[w].op)
<1>0. worker \in [Workers -> Worker] /\ worker[w] \in Worker /\ op \in [Ops -> Op]
  BY DEF TypeInv, Executions, Tables
<1>1. UNCHANGED confirmed
  BY DEF Mints, MintStep, NonceWasUsed, Recover, Settle, Finish, ExistingReverted,
     ExistingMined, ExistingUnseen, AttemptsExhausted, WantLease, AcquireLease, LeaseBusy,
     Reread, Prepare, RecordPrepared, Broadcast, BroadcastReplaces, BroadcastRefused,
     BroadcastFails, Release, chainVars
<1>2. CASE Settle(w)
  <2>1. worker'[w].pc = "finish" /\ worker'[w].op = worker[w].op
    BY <1>0, <1>2 DEF Settle, Goto, Worker
  <2>2. QED
    BY <1>1, <1>2, <2>1 DEF Settle
<1>3. CASE ~Settle(w)
  <2>1. UNCHANGED settled
    BY <1>3 DEF Mints, MintStep, NonceWasUsed, Recover, Finish, ExistingReverted,
     ExistingMined, ExistingUnseen, AttemptsExhausted, WantLease, AcquireLease, LeaseBusy,
     Reread, Prepare, RecordPrepared, Broadcast, BroadcastReplaces, BroadcastRefused,
     BroadcastFails, Release, rowVars
  <2>2. worker'[w].pc # "finish"
    BY <1>0, <1>3 DEF Mints, MintStep, NonceWasUsed, Recover, Finish, ExistingReverted,
     ExistingMined, ExistingUnseen, AttemptsExhausted, WantLease, AcquireLease, LeaseBusy,
     Reread, Prepare, RecordPrepared, Broadcast, BroadcastReplaces, BroadcastRefused,
     BroadcastFails, Release, Goto, Retried, Completed, Ends, Idle, Worker
  <2>3. worker'[w].pc = "settle" => worker'[w].op \in confirmed
    <3>1. CASE Recover(w)
      BY <1>0, <3>1 DEF Recover, MintConfirmed, Goto, Retried, Ends, Idle, Worker
    <3>2. CASE ~Recover(w)
      <4>1. worker'[w].pc # "settle"
        BY <1>0, <1>3, <3>2 DEF Mints, MintStep, NonceWasUsed, Finish, ExistingReverted,
     ExistingMined, ExistingUnseen, AttemptsExhausted, WantLease, AcquireLease, LeaseBusy,
     Reread, Prepare, RecordPrepared, Broadcast, BroadcastReplaces, BroadcastRefused,
     BroadcastFails, Release, Goto, Retried, Completed, Ends, Idle, Worker
      <4>2. QED
        BY <4>1
    <3>3. QED
      BY <3>1, <3>2
  <2>4. ASSUME NEW o \in Ops, op'[o].status = "settled", op[o].status # "settled"
        PROVE  worker[w].pc = "finish" /\ o = worker[w].op
    <3>1. op[o] \in Op /\ o = worker[w].op /\ ~UNCHANGED op
      BY <1>0, <2>4, RowsType
    <3>2. ~ExistingReverted(w) /\ ~AttemptsExhausted(w) /\ ~RecordPrepared(w)
      BY <1>0, <2>4, <3>1 DEF ExistingReverted, AttemptsExhausted, RecordPrepared, Op
    <3>3. QED
      BY <1>3, <3>1, <3>2 DEF Mints, MintStep, NonceWasUsed, Recover, Finish, ExistingMined,
       ExistingUnseen, WantLease, AcquireLease, LeaseBusy, Reread, Prepare, Broadcast,
       BroadcastReplaces, BroadcastRefused, BroadcastFails, Release, rowVars
  <2>5. QED
    BY <1>1, <2>1, <2>2, <2>3, <2>4
<1>4. QED
  BY <1>2, <1>3

\* No other step settles, confirms less, or marks a row settled.
LEMMA NobodyElseSettles ==
    ASSUME TypeInv,
           \/ Outside \/ UNCHANGED vars
           \/ \E w \in Workers : Attests(w) \/ Starts(w) \/ Crash(w)
    PROVE  /\ UNCHANGED settled /\ confirmed \subseteq confirmed'
           /\ \A o \in Ops : op'[o].status = "settled" => op[o].status = "settled"
<1>0. op \in [Ops -> Op] /\ worker \in [Workers -> Worker]
  BY DEF TypeInv, Tables, Executions
<1>1. CASE UNCHANGED vars
  BY <1>1 DEF vars, rowVars, chainVars
<1>2. CASE Outside
  <2>1. UNCHANGED settled /\ confirmed \subseteq confirmed'
    BY <1>2 DEF Outside, RecordBurn, CircleAttests, OutsiderMints, Confirm, DeadClaimExpires,
       Mine, LeaseExpires, DeadLeaseExpires, rowVars, chainVars
  <2>2. UNCHANGED op \/ \E i \in Ops : op' = [op EXCEPT ![i].status = "burned"]
    BY <1>2 DEF Outside, RecordBurn, CircleAttests, OutsiderMints, Confirm, DeadClaimExpires,
       Mine, LeaseExpires, DeadLeaseExpires, rowVars
  <2>3. QED
    BY <1>0, <2>1, <2>2 DEF Op
<1>3. ASSUME NEW w \in Workers, Attests(w) \/ Starts(w) \/ Crash(w)
      PROVE  /\ UNCHANGED <<settled, confirmed>>
             /\ \A o \in Ops : op'[o].status = "settled" => op[o].status = "settled"
  <2>1. UNCHANGED <<settled, confirmed>>
    BY <1>3 DEF Attests, Starts, Crash, AttestStart, AttestPending, AttestWrite, AttestEnqueue,
       MintStart, rowVars, chainVars
  <2>2. CASE AttestWrite(w)
    <3>1. worker[w].op \in Ops
      BY <2>2 DEF AttestWrite, TypeInv, Executions
    <3>2. QED
      BY <1>0, <2>1, <2>2, <3>1 DEF AttestWrite, AttestedStatus, Op
  <2>3. CASE UNCHANGED op
    BY <2>1, <2>3
  <2>4. QED
    BY <1>3, <2>2, <2>3 DEF Attests, Starts, Crash, AttestStart, AttestPending, AttestEnqueue,
       MintStart, rowVars
<1>4. QED
  BY <1>1, <1>2, <1>3

\* The inductive step: settlements rest on confirmed mints.
LEMMA BackedStep ==
    ASSUME TypeInv, SettlesConfirmed, SettledRowIsBacked, [Next]_vars
    PROVE  SettlesConfirmed' /\ SettledRowIsBacked'
<1>1. CASE \E w \in Workers : Mints(w)
  <2>1. PICK w \in Workers : Mints(w)
    BY <1>1
  <2>2. \A v \in Workers \ {w} : worker'[v] = worker[v]
    BY <2>1, ConsumerType
  <2>3. settled \subseteq settled' /\ UNCHANGED confirmed
    BY <2>1, SettlesStep
  <2>4. SettlesConfirmed'
    BY <2>1, <2>2, <2>3, SettlesStep DEF SettlesConfirmed
  <2>5. settled' \subseteq confirmed'
    BY <2>1, <2>3, SettlesStep DEF SettlesConfirmed, SettledRowIsBacked
  <2>6. \A o \in Ops : op'[o].status = "settled" => o \in settled'
    BY <2>1, <2>3, SettlesStep DEF SettlesConfirmed, SettledRowIsBacked
  <2>7. QED
    BY <2>4, <2>5, <2>6 DEF SettledRowIsBacked
<1>2. CASE \/ Outside \/ UNCHANGED vars
           \/ \E w \in Workers : Attests(w) \/ Starts(w) \/ Crash(w)
  <2>1. SettledRowIsBacked'
    BY <1>2, NobodyElseSettles DEF SettledRowIsBacked
  <2>2. \A v \in Workers : worker'[v] = worker[v] \/ worker'[v].pc \notin {"settle", "finish"}
    <3>1. CASE Outside \/ UNCHANGED vars
      BY <3>1, OutsideMove DEF vars
    <3>2. ASSUME NEW w \in Workers, Attests(w) \/ Starts(w) \/ Crash(w)
          PROVE  \A v \in Workers : worker'[v] = worker[v] \/ worker'[v].pc \notin {"settle", "finish"}
      <4>1. worker'[w] = worker[w] \/ worker'[w].pc \notin {"settle", "finish"}
        BY <3>2, AttestsMove, StartsMove, CrashMove DEF Starts, MintPcs
      <4>2. QED
        BY <3>2, <4>1, ConsumerType
    <3>3. QED
      BY <1>2, <3>1, <3>2
  <2>3. QED
    BY <1>2, <2>1, <2>2, NobodyElseSettles DEF SettlesConfirmed
<1>3. QED
  BY <1>1, <1>2, StepCases

-----------------------------------------------------------------------------
(* What the node holds                                                     *)

\* A block takes the signer's next transaction, and leaves none behind it.
LEMMA MineStep ==
    ASSUME TypeInv, NonceOrder, NEW ok \in BOOLEAN, Mine(ok)
    PROVE  NonceOrder' /\ pool' \subseteq pool /\ used \subseteq used'
           /\ UNCHANGED <<op, mintJob>>
<1>1. PICK tx \in pool :
          /\ tx.nonce = Len(chain)
          /\ chain' = Append(chain, [op |-> tx.op, ok |-> ok])
          /\ used' = (IF ok THEN used \cup {tx.op} ELSE used)
          /\ pool' = pool \ {tx}
          /\ UNCHANGED <<rowVars, jobVars>>
  BY DEF Mine
<1>2. Len(chain) \in Nat /\ Len(chain') = Len(chain) + 1
  BY <1>1 DEF TypeInv, Tables
<1>3. \A t \in pool' : t.nonce \in Nat /\ t.nonce >= Len(chain) /\ t.nonce # Len(chain)
  BY <1>1 DEF NonceOrder, TypeInv, Tables, Tx
<1>4. NonceOrder'
  BY <1>1, <1>2, <1>3 DEF NonceOrder
<1>5. QED
  BY <1>1, <1>4 DEF rowVars, jobVars

\* What a broadcast leaves in the pool: its transaction replaces one of the
\* same nonce, or joins the others, or is there or mined already.
LEMMA BroadcastStep ==
    ASSUME TypeInv, NEW w \in Workers, Broadcast(w) \/ BroadcastReplaces(w)
    PROVE  /\ UNCHANGED <<op, mintJob, chain, used>>
           /\ \/ UNCHANGED pool
              \/ /\ worker[w].tx \in pool' /\ worker[w].tx.nonce >= Len(chain)
                 /\ pool' \subseteq pool \cup {worker[w].tx}
                 /\ \A t \in pool' : t.nonce = worker[w].tx.nonce => t = worker[w].tx
<1> DEFINE tx == worker[w].tx
<1>0. tx \in Tx
  BY DEF Broadcast, BroadcastReplaces, TypeInv, Executions
<1>1. CASE Broadcast(w)
  <2>1. CASE Mined(tx)
    BY <1>1, <2>1 DEF Broadcast, rowVars, jobVars
  <2>2. CASE ~Mined(tx)
    <3>1. Accepts(tx) /\ pool' = pool \cup {tx}
      BY <1>1, <2>2 DEF Broadcast
    <3>2. tx.nonce >= Len(chain) /\ \A t \in pool : t.nonce = tx.nonce => t = tx
      BY <3>1 DEF Accepts
    <3>3. UNCHANGED <<op, mintJob, chain, used>>
      BY <1>1 DEF Broadcast, rowVars, jobVars
    <3>4. QED
      BY <3>1, <3>2, <3>3
  <2>3. QED
    BY <2>1, <2>2
<1>2. CASE BroadcastReplaces(w)
  <2>1. /\ tx.nonce >= Len(chain)
        /\ pool' = {t \in pool : t.nonce # tx.nonce} \cup {tx}
        /\ UNCHANGED <<op, mintJob, chain, used>>
    BY <1>2 DEF BroadcastReplaces, rowVars, jobVars
  <2>2. QED
    BY <2>1
<1>3. QED
  BY <1>1, <1>2

\* No other step touches the pool or shortens the chain.
LEMMA PoolIsKept ==
    ASSUME TypeInv,
           \/ UNCHANGED vars
           \/ Outside /\ ~\E ok \in BOOLEAN : Mine(ok)
           \/ \E w \in Workers : \/ Attests(w) \/ Starts(w) \/ Crash(w)
                                 \/ Mints(w) /\ ~Broadcast(w) /\ ~BroadcastReplaces(w)
    PROVE  UNCHANGED <<pool, chain>> /\ used \subseteq used'
<1>1. CASE UNCHANGED vars
  BY <1>1 DEF vars, chainVars
<1>2. CASE Outside /\ ~\E ok \in BOOLEAN : Mine(ok)
  BY <1>2 DEF Outside, RecordBurn, CircleAttests, OutsiderMints, Confirm, DeadClaimExpires,
     LeaseExpires, DeadLeaseExpires, chainVars
<1>3. ASSUME NEW w \in Workers, \/ Attests(w) \/ Starts(w) \/ Crash(w)
                                \/ Mints(w) /\ ~Broadcast(w) /\ ~BroadcastReplaces(w)
      PROVE  UNCHANGED <<pool, chain, used>>
  BY <1>3 DEF Attests, Starts, Crash, Mints, MintStep, AttestStart, AttestPending, AttestWrite,
     AttestEnqueue, MintStart, NonceWasUsed, Recover, Settle, Finish, ExistingReverted,
     ExistingMined, ExistingUnseen, AttemptsExhausted, WantLease, AcquireLease, LeaseBusy,
     Reread, Prepare, RecordPrepared, BroadcastRefused, BroadcastFails, Release, chainVars
<1>4. QED
  BY <1>1, <1>2, <1>3

\* The inductive step: the pool is ordered by nonce, ahead of the chain.
LEMMA NonceOrderStep ==
    ASSUME TypeInv, NonceOrder, [Next]_vars
    PROVE  NonceOrder'
<1>1. CASE UNCHANGED <<pool, chain>>
  BY <1>1 DEF NonceOrder
<1>2. CASE \E ok \in BOOLEAN : Mine(ok)
  BY <1>2, MineStep
<1>3. ASSUME NEW w \in Workers, Broadcast(w) \/ BroadcastReplaces(w) PROVE NonceOrder'
  BY <1>3, BroadcastStep DEF NonceOrder
<1>4. QED
  BY <1>1, <1>2, <1>3, StepCases, PoolIsKept

\* A transaction leaves its row only when no transaction of the operation
\* waits, and a mint job ends by completion only when the mint is known.
LEMMA LeavesRow ==
    ASSUME TypeInv, OneExecution, RowIsCurrent, SettlesConfirmed, SettledRowIsBacked, NonceOrder,
           PoolIsStored, NEW w \in Workers, Mints(w), NEW t \in pool
    PROVE  t = op'[t.op].tx \/ (t.op \in used /\ mintJob'[t.op] = "completed")
<1>0. /\ op \in [Ops -> Op] /\ worker \in [Workers -> Worker] /\ t \in Tx /\ t.op \in Ops
      /\ mintJob \in [Ops -> {"none", "queued", "processing", "completed"}]
  BY DEF TypeInv, Tables, Executions, Tx
<1>1. Minting(w) /\ worker[w].op \in Ops /\ mintJob[worker[w].op] = "processing"
  BY MintsMove DEF OneExecution, TypeInv, Executions, Minting, MintPcs
<1>2. CASE t.op # worker[w].op
  <2>1. op'[t.op] = op[t.op]
    BY <1>0, <1>2, RowsType
  <2>2. mintJob'[t.op] = mintJob[t.op]
    BY <1>0, <1>1, <1>2, MintsMove
  <2>3. QED
    BY <2>1, <2>2 DEF PoolIsStored
<1>3. CASE t.op = worker[w].op
  <2>1. t = op[t.op].tx
    BY <1>1, <1>3 DEF PoolIsStored
  <2>2. CASE Finish(w)
    <3>1. t.op \in used
      BY <1>3, <2>2 DEF Finish, SettlesConfirmed, SettledRowIsBacked, TypeInv, Tables
    <3>2. mintJob'[t.op] = "completed"
      BY <1>0, <1>3, <2>2 DEF Finish, Completed
    <3>3. QED
      BY <3>1, <3>2
  <2>3. CASE ExistingReverted(w)
    <3>1. worker[w].pc = "unused" /\ Mined(worker[w].row.tx)
      BY <2>3 DEF ExistingReverted, Reverted
    <3>2. worker[w].row.tx = t
      BY <1>3, <2>1, <3>1 DEF RowIsCurrent, ReliesOnRow
    <3>3. FALSE
      BY <1>0, <3>1, <3>2 DEF Mined, NonceOrder, TypeInv, Tables, Tx
    <3>4. QED
      BY <3>3
  <2>4. CASE AttemptsExhausted(w)
    BY <1>0, <1>3, <2>1, <2>4 DEF AttemptsExhausted, Op
  <2>5. CASE RecordPrepared(w)
    <3>1. worker[w].pc = "record"
      BY <2>5 DEF RecordPrepared
    <3>2. op[t.op].tx = None
      BY <1>3, <3>1 DEF RowIsCurrent, ReliesOnRow, MaySign
    <3>3. FALSE
      BY <1>0, <2>1, <3>2, ConstantsAssumption DEF Tx
    <3>4. QED
      BY <3>3
  <2>6. CASE UNCHANGED op
    BY <2>1, <2>6
  <2>7. QED
    BY <2>2, <2>3, <2>4, <2>5, <2>6 DEF Mints, MintStep, NonceWasUsed, Recover, Settle,
       ExistingMined, ExistingUnseen, WantLease, AcquireLease, LeaseBusy, Reread, Prepare,
       Broadcast, BroadcastReplaces, BroadcastRefused, BroadcastFails, Release, rowVars
<1>4. QED
  BY <1>2, <1>3

\* The inductive step: what waits at the node is what the rows store.
LEMMA PoolIsStoredStep ==
    ASSUME TypeInv, OneExecution, RowIsCurrent, SettlesConfirmed, SettledRowIsBacked, NonceOrder,
           PoolIsStored, [Next]_vars
    PROVE  PoolIsStored'
<1>0. /\ op \in [Ops -> Op] /\ worker \in [Workers -> Worker]
      /\ \A t \in pool : t \in Tx /\ t.op \in Ops
  BY DEF TypeInv, Tables, Executions, Tx
<1>1. ASSUME NEW w \in Workers, Mints(w), ~Broadcast(w), ~BroadcastReplaces(w)
      PROVE  PoolIsStored'
  <2>1. UNCHANGED pool /\ used \subseteq used'
    BY <1>1, PoolIsKept
  <2>2. QED
    BY <1>1, <2>1, LeavesRow DEF PoolIsStored
<1>2. ASSUME NEW w \in Workers, Broadcast(w) \/ BroadcastReplaces(w) PROVE PoolIsStored'
  <2>1. worker[w].pc = "broadcast" /\ Mints(w)
    BY <1>2 DEF Broadcast, BroadcastReplaces, Mints, MintStep
  <2>2. worker[w].tx.op = worker[w].op /\ worker[w].tx = op[worker[w].op].tx
    BY <2>1 DEF TypeInv, Executions, RowIsCurrent
  <2>3. mintJob[worker[w].op] = "processing"
    BY <2>1 DEF OneExecution, Minting, MintPcs
  <2>4. \A t \in pool : t.op = worker[w].op => t = worker[w].tx
    BY <2>2, <2>3 DEF PoolIsStored
  <2>5. \A t \in pool' : t \in pool \/ t = worker[w].tx
    BY <1>2, BroadcastStep
  <2>6. UNCHANGED <<op, mintJob, used>>
    BY <1>2, BroadcastStep
  <2>7. QED
    BY <2>2, <2>4, <2>5, <2>6 DEF PoolIsStored
<1>3. ASSUME \A o \in Ops : KeepsMint(o), pool' \subseteq pool, used \subseteq used',
             \A o \in Ops : mintJob[o] = "completed" => mintJob'[o] = "completed"
      PROVE  PoolIsStored'
  BY <1>0, <1>3 DEF PoolIsStored, KeepsMint
<1>4. CASE UNCHANGED vars
  BY <1>3, <1>4 DEF vars, rowVars, jobVars, chainVars, KeepsMint
<1>5. CASE Outside
  <2>1. \A o \in Ops : mintJob[o] = "completed" => mintJob'[o] = "completed"
    BY <1>5, OutsideMove
  <2>2. pool' \subseteq pool /\ used \subseteq used'
    BY <1>5, MineStep, PoolIsKept
  <2>3. QED
    BY <1>3, <1>5, <2>1, <2>2, MintsAreKept
<1>6. ASSUME NEW w \in Workers, Attests(w) \/ Starts(w) \/ Crash(w) PROVE PoolIsStored'
  <2>1. \A o \in Ops : mintJob[o] = "completed" => mintJob'[o] = "completed"
    BY <1>6, AttestsMove, StartsMove, CrashMove DEF Starts, TypeInv, Tables
  <2>2. pool' \subseteq pool /\ used \subseteq used'
    BY <1>6, PoolIsKept
  <2>3. QED
    BY <1>3, <1>6, <2>1, <2>2, MintsAreKept
<1>7. QED
  BY <1>1, <1>2, <1>4, <1>5, <1>6, StepCases DEF Mints, MintStep

-----------------------------------------------------------------------------
(* Theorems                                                                *)

\* The inductive invariant holds initially.
LEMMA RelayInit == Init => RelayInv
<1> SUFFICES ASSUME Init PROVE RelayInv
  OBVIOUS
<1>1. NoOp \in Op /\ Idle \in Worker
  BY DEF NoOp, Op, Idle, Worker, Pcs
<1>2. IsFiniteSet({})
  BY FS_EmptySet
<1>3. chain \in Seq([op: Ops, ok: BOOLEAN]) /\ Len(chain) = 0
  BY DEF Init
<1>4. TypeInv
  BY <1>1, <1>2, <1>3, ConstantsAssumption DEF Init, TypeInv, Tables, Executions, OwnTransaction,
     NoOp, Idle
<1>5. OneExecution /\ RowIsCurrent /\ SettlesConfirmed
  BY DEF Init, OneExecution, RowIsCurrent, SettlesConfirmed, Minting, MintPcs, ReliesOnRow, MaySign,
     Idle
<1>6. NonceOrder /\ PoolIsStored /\ SettledRowIsBacked /\ AttemptsAreBounded
  BY ConstantsAssumption DEF Init, NonceOrder, PoolIsStored, SettledRowIsBacked, AttemptsAreBounded,
     NoOp
<1>7. QED
  BY <1>4, <1>5, <1>6 DEF RelayInv

\* It is inductive, so it holds in every reachable state.
LEMMA RelayInvariant == Spec => []RelayInv
<1>1. ASSUME RelayInv, [Next]_vars PROVE RelayInv'
  BY <1>1, TypeStep, OneExecutionStep, RowIsCurrentStep, BackedStep, AttemptsStep, NonceOrderStep,
     PoolIsStoredStep DEF RelayInv
<1>2. QED
  BY <1>1, RelayInit, PTL DEF Spec

\* Rows, jobs, executions and the chain keep their shape.
THEOREM TypeCorrect == Spec => []TypeOK
<1>1. RelayInv => TypeOK
  BY DEF RelayInv, TypeInv, Tables, Executions, TypeOK
<1>2. QED
  BY <1>1, RelayInvariant, PTL

\* Whatever crashes, reverts, expires or is minted by others, a burn never has
\* two mints of ours in flight, is never counted as settled without a confirmed
\* mint, and never gets more signed mints than MAX_CCTP_MINT_ATTEMPTS.
THEOREM MintsCorrect == Spec => []MintsAreSingleAndBacked
<1>1. ASSUME RelayInv PROVE OneMintInFlight
  <2>1. SUFFICES ASSUME NEW o \in Ops
                 PROVE  /\ Cardinality({t \in pool : t.op = o}) <= 1
                        /\ \A t \in pool : t.op = o => t = op[o].tx \/ o \in used
    BY DEF OneMintInFlight
  <2>2. \A t \in pool : t.op = o => t = op[o].tx \/ o \in used
    BY <1>1 DEF RelayInv, PoolIsStored
  <2>3. CASE {t \in pool : t.op = o} = {}
    BY <2>2, <2>3, FS_EmptySet
  <2>4. CASE \E s \in pool : s.op = o
    <3>1. PICK s \in pool : s.op = o
      BY <2>4
    <3>2. {t \in pool : t.op = o} = {s}
      BY <1>1, <3>1 DEF RelayInv, PoolIsStored
    <3>3. Cardinality({s}) = 1
      BY FS_Singleton
    <3>4. QED
      BY <2>2, <3>2, <3>3
  <2>5. QED
    BY <2>3, <2>4
<1>2. RelayInv => MintsAreSingleAndBacked
  BY <1>1 DEF RelayInv, MintsAreSingleAndBacked
<1>3. QED
  BY <1>2, RelayInvariant, PTL
=============================================================================
