----------------------------- MODULE CctpRelay -----------------------------
(***************************************************************************)
(* The recoverable CCTP relayer of the Payments Worker.  A burn recorded   *)
(* from the source chain becomes a crosschain_operations row; an           *)
(* attestation job fetches Circle's attestation; a mint job submits        *)
(* receiveMessage on the destination chain with the relayer's key and,     *)
(* once the mint is confirmed, settles the payment attempt.                *)
(*                                                                         *)
(* A signed mint transaction is stored before it is sent, and the signer   *)
(* is protected by a lease that expires and carries no fence.  Every await *)
(* that reads or writes shared state (D1, the destination chain) is a step *)
(* of its own.  The settlement itself is module PaymentSettlement; here it *)
(* is the set of operations whose settleAttempt has been applied.          *)
(***************************************************************************)
EXTENDS Integers, Sequences, FiniteSets

CONSTANTS Ops,              \* CCTP operations, one per attempt
          Workers,          \* concurrent queue consumers
          None,
          MaxMintAttempts,  \* MAX_CCTP_MINT_ATTEMPTS
          Outsiders,        \* operations a third party may mint
          MaxFaults,        \* bound on crashes and failed broadcasts
          MaxReverts,       \* bound on our mints that revert
          MaxExpiries       \* bound on signer leases that expire while held

ASSUME ConstantsAssumption ==
    /\ MaxMintAttempts \in Nat \ {0}
    /\ Outsiders \subseteq Ops
    /\ MaxFaults \in Nat /\ MaxReverts \in Nat /\ MaxExpiries \in Nat
    /\ None \notin Ops \cup Workers \cup [op: Ops, nonce: Nat]

VARIABLES
    op,         \* crosschain_operations
    attested,   \* operations whose attestation Circle has completed
    mintJob,    \* payment_job_runs of `cctp-mint:<op>`
    lease,      \* payment_signer_leases: the owner, or None
    settled,    \* operations whose attempt settleAttempt has settled
    worker,     \* local state of each consumer
    pool,       \* transactions of our signer the node holds
    outbid,     \* transactions a better paid one pushed out of the pool
    chain,      \* transactions of our signer in blocks; position = nonce + 1
    used,       \* usedNonces of the destination MessageTransmitter
    confirmed,  \* operations whose mint has enough confirmations
    faults, reverts, expiries

rowVars == <<op, settled>>
jobVars == <<mintJob, lease>>
chainVars == <<pool, outbid, chain, used, confirmed>>
boundVars == <<faults, reverts, expiries>>
vars == <<rowVars, attested, jobVars, worker, chainVars, boundVars>>

\* A signed receiveMessage: two preparations of one operation that differ
\* at all differ in the signer's nonce.
Tx == [op: Ops, nonce: Nat]

\* `tx` stands for destination_tx_hash with mint_raw_transaction.
Op == [status: {"none", "burned", "minting", "settled", "needs_support"},
       attestation: BOOLEAN, tx: Tx \cup {None}, count: Nat]

Pcs == {"idle", "attest", "enqueue", "nonce", "recover", "settle", "finish",
        "unused", "lease", "reread", "prepare", "record", "broadcast",
        "release"}
\* `row` is the operation as getCrosschainOperation returned it.
Worker == [pc: Pcs, op: Ops \cup {None}, row: Op, tx: Tx \cup {None},
           locked: BOOLEAN]

TypeOK ==
    /\ op \in [Ops -> Op]
    /\ attested \subseteq Ops
    /\ mintJob \in [Ops -> {"none", "queued", "processing", "completed"}]
    /\ lease \in Workers \cup {None}
    /\ settled \subseteq Ops
    /\ worker \in [Workers -> Worker]
    /\ pool \subseteq Tx /\ outbid \subseteq Tx
    /\ chain \in Seq([op: Ops, ok: BOOLEAN])
    /\ used \subseteq Ops /\ confirmed \subseteq used
    /\ faults \in 0..MaxFaults /\ reverts \in 0..MaxReverts
    /\ expiries \in 0..MaxExpiries

NoOp == [status |-> "none", attestation |-> FALSE, tx |-> None, count |-> 0]
Idle == [pc |-> "idle", op |-> None, row |-> NoOp, tx |-> None,
         locked |-> FALSE]

Init ==
    /\ op = [o \in Ops |-> NoOp]
    /\ attested = {} /\ settled = {} /\ used = {} /\ confirmed = {}
    /\ mintJob = [o \in Ops |-> "none"]
    /\ lease = None
    /\ worker = [w \in Workers |-> Idle]
    /\ pool = {} /\ outbid = {} /\ chain = <<>>
    /\ faults = 0 /\ reverts = 0 /\ expiries = 0

\* The consumer moves on with what it has just read.
Goto(w, pc) == worker' = [worker EXCEPT ![w].pc = pc]
Ends(w) == worker' = [worker EXCEPT ![w] = Idle]
\* consumePaymentQueue: a job that returned false or threw is retried, one
\* that returned true is completed and never runs again.
Retried(w) == Ends(w) /\ mintJob' = [mintJob EXCEPT ![worker[w].op] = "queued"]
Completed(w) ==
    Ends(w) /\ mintJob' = [mintJob EXCEPT ![worker[w].op] = "completed"]

-----------------------------------------------------------------------------
(* The burn and its attestation.                                           *)

\* reconcileBurn -> upsertCrosschainOperation: a second record changes nothing
\* that is not NULL.
RecordBurn(o) ==
    /\ op[o].status = "none"
    /\ op' = [op EXCEPT ![o].status = "burned"]
    /\ UNCHANGED <<settled, attested, jobVars, worker, chainVars, boundVars>>

\* Circle completes the attestation of the burn.
CircleAttests(o) ==
    /\ op[o].status # "none" /\ o \notin attested
    /\ attested' = attested \cup {o}
    /\ UNCHANGED <<rowVars, jobVars, worker, chainVars, boundVars>>

\* Scheduler generations give one operation several attestation jobs, so two
\* may be in progress; a settled operation returns at once.
AttestStart(w, o) ==
    /\ worker[w].pc = "idle"
    /\ op[o].status \in {"burned", "minting", "needs_support"}
    /\ worker' = [worker EXCEPT ![w] =
                     [Idle EXCEPT !.pc = "attest", !.op = o, !.row = op[o]]]
    /\ UNCHANGED <<rowVars, attested, jobVars, chainVars, boundVars>>

\* getCctpMessages finds no complete message: the job is retried.
AttestPending(w) ==
    /\ worker[w].pc = "attest" /\ worker[w].op \notin attested
    /\ Ends(w)
    /\ UNCHANGED <<rowVars, attested, jobVars, chainVars, boundVars>>

\* The status an attested message gives the row it finds.
AttestedStatus(row) == "minting"

\* recordAttemptFeeEvidence is idempotent and modelled in PaymentSettlement;
\* updateCrosschainOperation writes without looking at the row again.
AttestWrite(w) ==
    LET o == worker[w].op IN
    /\ worker[w].pc = "attest" /\ o \in attested
    /\ op' = [op EXCEPT ![o].status = AttestedStatus(op[o]),
                        ![o].attestation = TRUE]
    /\ Goto(w, "enqueue")
    /\ UNCHANGED <<settled, attested, jobVars, chainVars, boundVars>>

\* The mint job's dedupe key is the message, so a completed run is not run
\* again and a running one is not run twice.
AttestEnqueue(w) ==
    LET o == worker[w].op IN
    /\ worker[w].pc = "enqueue"
    /\ mintJob' = [mintJob EXCEPT ![o] = IF @ = "none" THEN "queued" ELSE @]
    /\ Ends(w)
    /\ UNCHANGED <<rowVars, attested, lease, chainVars, boundVars>>

-----------------------------------------------------------------------------
(* The mint job.                                                           *)

\* The run is claimed for longer than an execution may last, so only a dead
\* execution's claim is ever taken over.
MintStart(w, o) ==
    /\ worker[w].pc = "idle" /\ mintJob[o] = "queued"
    /\ IF op[o].status = "settled"
       THEN /\ mintJob' = [mintJob EXCEPT ![o] = "completed"]
            /\ UNCHANGED worker
       ELSE /\ mintJob' = [mintJob EXCEPT ![o] = "processing"]
            /\ worker' = [worker EXCEPT ![w] = [Idle EXCEPT
                             !.pc = "nonce", !.op = o, !.row = op[o]]]
    /\ UNCHANGED <<rowVars, attested, lease, chainVars, boundVars>>

NonceWasUsed(w) ==
    /\ worker[w].pc = "nonce"
    /\ Goto(w, IF worker[w].op \in used THEN "recover" ELSE "unused")
    /\ UNCHANGED <<rowVars, attested, jobVars, chainVars, boundVars>>

\* Variant: a mint without its confirmations.
MintConfirmedEarly(o) == o \in used

\* confirmedMintTransaction
MintConfirmed(o) == o \in confirmed

\* recoverMintTransactionHash: the stored hash or, when it is not the mint,
\* the indexed log.  Either way the mint must be confirmed.
Recover(w) ==
    /\ worker[w].pc = "recover"
    /\ IF MintConfirmed(worker[w].op)
       THEN Goto(w, "settle") /\ UNCHANGED mintJob
       ELSE Retried(w)
    /\ UNCHANGED <<rowVars, attested, lease, chainVars, boundVars>>

\* finalizeCctpSettlement: settleAttempt first ...
Settle(w) ==
    /\ worker[w].pc = "settle"
    /\ settled' = settled \cup {worker[w].op}
    /\ Goto(w, "finish")
    /\ UNCHANGED <<op, attested, jobVars, chainVars, boundVars>>

\* The mint of o the chain shows: ours, or None for a third party's.
MintOf(o) ==
    IF \E n \in 1..Len(chain) : chain[n] = [op |-> o, ok |-> TRUE]
    THEN [op |-> o, nonce |-> (CHOOSE n \in 1..Len(chain) :
                                  chain[n] = [op |-> o, ok |-> TRUE]) - 1]
    ELSE None

\* ... then the row becomes settled, with the hash that minted.
Finish(w) ==
    LET o == worker[w].op IN
    /\ worker[w].pc = "finish"
    /\ op' = [op EXCEPT ![o].status = "settled", ![o].tx = MintOf(o)]
    /\ Completed(w)
    /\ UNCHANGED <<settled, attested, lease, chainVars, boundVars>>

Mined(tx) == tx.nonce < Len(chain) /\ chain[tx.nonce + 1].op = tx.op

\* receipt.status === "reverted"
Reverted(tx) == Mined(tx) /\ ~chain[tx.nonce + 1].ok

\* Variant: the reverted transaction is marked but stays in the row.
AfterRevertKept(row, tx) == row.tx

\* clearRevertedCrosschainMint: a compare-and-set on the hash that was read.
AfterRevert(row, tx) ==
    IF row.status = "minting" /\ row.tx = tx THEN None ELSE row.tx

\* A stored transaction is looked up.
ExistingReverted(w) ==
    LET o == worker[w].op IN
    /\ worker[w].pc = "unused" /\ worker[w].row.tx # None
    /\ Reverted(worker[w].row.tx)
    /\ op' = [op EXCEPT ![o].tx = AfterRevert(op[o], worker[w].row.tx)]
    /\ Retried(w)
    /\ UNCHANGED <<settled, attested, lease, chainVars, boundVars>>

ExistingMined(w) ==
    /\ worker[w].pc = "unused" /\ worker[w].row.tx # None
    /\ Mined(worker[w].row.tx) /\ ~Reverted(worker[w].row.tx)
    /\ Retried(w)
    /\ UNCHANGED <<rowVars, attested, lease, chainVars, boundVars>>

\* No receipt: the stored bytes are sent again, outside the signer's lease.
ExistingUnseen(w) ==
    /\ worker[w].pc = "unused" /\ worker[w].row.tx # None
    /\ ~Mined(worker[w].row.tx)
    /\ worker' = [worker EXCEPT ![w].pc = "broadcast",
                                ![w].tx = worker[w].row.tx]
    /\ UNCHANGED <<rowVars, attested, jobVars, chainVars, boundVars>>

MayPrepare(row) == row.count < MaxMintAttempts

AttemptsExhausted(w) ==
    LET o == worker[w].op IN
    /\ worker[w].pc = "unused" /\ worker[w].row.tx = None
    /\ ~MayPrepare(worker[w].row)
    /\ op' = [op EXCEPT ![o].status = "needs_support"]
    /\ Completed(w)
    /\ UNCHANGED <<settled, attested, lease, chainVars, boundVars>>

-----------------------------------------------------------------------------
(* Under the signer's lease.                                               *)

WantLease(w) ==
    /\ worker[w].pc = "unused" /\ worker[w].row.tx = None
    /\ MayPrepare(worker[w].row)
    /\ Goto(w, "lease")
    /\ UNCHANGED <<rowVars, attested, jobVars, chainVars, boundVars>>

LeaseFree(w) == lease = None

\* acquirePaymentSignerLease: an expired row is taken, an absent one inserted.
AcquireLease(w) ==
    /\ worker[w].pc = "lease" /\ LeaseFree(w)
    /\ lease' = w
    /\ worker' = [worker EXCEPT ![w].pc = "reread", ![w].locked = TRUE]
    /\ UNCHANGED <<rowVars, attested, mintJob, chainVars, boundVars>>

\* PaymentSignerLeaseBusyError
LeaseBusy(w) ==
    /\ worker[w].pc = "lease" /\ ~LeaseFree(w)
    /\ Retried(w)
    /\ UNCHANGED <<rowVars, attested, lease, chainVars, boundVars>>

Reread(w) ==
    LET row == op[worker[w].op] IN
    /\ worker[w].pc = "reread"
    /\ worker' = [worker EXCEPT ![w].row = row,
                     ![w].pc = IF row.tx = None THEN "prepare" ELSE "release"]
    /\ UNCHANGED <<rowVars, attested, jobVars, chainVars, boundVars>>

\* Variant: the nonce of the last transaction, not of the next.
\* eth_getTransactionCount(pending) of the signer.
PendingNonce ==
    CHOOSE n \in Len(chain)..(Len(chain) + Cardinality(pool)) :
        /\ \A tx \in pool : tx.nonce # n
        /\ \A k \in Len(chain)..(n - 1) : \E tx \in pool : tx.nonce = k

\* usedNonces again, the simulation, then the nonce and the signature.
Prepare(w) ==
    /\ worker[w].pc = "prepare"
    /\ IF worker[w].op \in used
       THEN Goto(w, "release")
       ELSE worker' = [worker EXCEPT ![w].pc = "record", ![w].tx =
                          [op |-> worker[w].op, nonce |-> PendingNonce]]
    /\ UNCHANGED <<rowVars, attested, jobVars, chainVars, boundVars>>

MayRecord(row) == row.status = "minting" /\ row.tx = None

\* recordCrosschainMintPrepared
RecordPrepared(w) ==
    LET o == worker[w].op IN
    /\ worker[w].pc = "record"
    /\ IF MayRecord(op[o])
       THEN /\ op' = [op EXCEPT ![o].tx = worker[w].tx, ![o].count = @ + 1]
            /\ Goto(w, "broadcast")
       ELSE Goto(w, "release") /\ UNCHANGED op
    /\ UNCHANGED <<settled, attested, jobVars, chainVars, boundVars>>

\* The node already holds the transaction or its nonce is the signer's turn.
Accepts(tx) ==
    /\ tx.nonce >= Len(chain)
    /\ \A t \in pool : t.nonce = tx.nonce => t = tx

\* sendRawTransaction and recordCrosschainMintBroadcast; an error for a
\* transaction the node knows is not an error.
Broadcast(w) ==
    LET tx == worker[w].tx IN
    /\ worker[w].pc = "broadcast"
    /\ Accepts(tx) \/ Mined(tx)
    /\ pool' = IF Mined(tx) THEN pool ELSE pool \cup {tx}
    /\ Goto(w, "release")
    /\ UNCHANGED <<rowVars, attested, jobVars, outbid, chain, used, confirmed,
                   boundVars>>

\* Another transaction of the signer waits at this nonce and pays less.
BroadcastReplaces(w) ==
    LET tx == worker[w].tx IN
    /\ worker[w].pc = "broadcast"
    /\ ~Accepts(tx) /\ tx.nonce >= Len(chain) /\ tx \notin outbid
    /\ pool' = {t \in pool : t.nonce # tx.nonce} \cup {tx}
    /\ outbid' = outbid \cup {t \in pool : t.nonce = tx.nonce}
    /\ Goto(w, "release")
    /\ UNCHANGED <<rowVars, attested, jobVars, chain, used, confirmed,
                   boundVars>>

\* The nonce is used, or the waiting transaction pays more: the job throws.
BroadcastRefused(w) ==
    /\ worker[w].pc = "broadcast"
    /\ ~Accepts(worker[w].tx) /\ ~Mined(worker[w].tx)
    /\ Goto(w, "release")
    /\ UNCHANGED <<rowVars, attested, jobVars, chainVars, boundVars>>

\* The RPC fails before the node takes the transaction: the job throws.
BroadcastFails(w) ==
    /\ worker[w].pc = "broadcast" /\ faults < MaxFaults
    /\ faults' = faults + 1
    /\ Goto(w, "release")
    /\ UNCHANGED <<rowVars, attested, jobVars, chainVars, reverts, expiries>>

\* withPaymentSignerLease's finally, deleting only the row of this owner; the
\* job is retried until the mint shows.
Release(w) ==
    /\ worker[w].pc = "release"
    /\ lease' = IF worker[w].locked /\ lease = w THEN None ELSE lease
    /\ Retried(w)
    /\ UNCHANGED <<rowVars, attested, chainVars, boundVars>>

-----------------------------------------------------------------------------
(* The chain, the clock and failures.                                      *)

\* A block takes the signer's next transaction.  A message mints once.
Mine(ok) ==
    \E tx \in pool :
        /\ tx.nonce = Len(chain)
        /\ IF tx.op \in used THEN ~ok /\ UNCHANGED reverts
           ELSE reverts' = reverts + (IF ok THEN 0 ELSE 1)
        /\ reverts' <= MaxReverts
        /\ chain' = Append(chain, [op |-> tx.op, ok |-> ok])
        /\ used' = IF ok THEN used \cup {tx.op} ELSE used
        /\ pool' = pool \ {tx}
        /\ UNCHANGED <<rowVars, attested, jobVars, worker, outbid, confirmed,
                       faults, expiries>>

\* receiveMessage is permissionless: anyone may submit an attested message.
OutsiderMints(o) ==
    /\ o \in (attested \cap Outsiders) \ used
    /\ used' = used \cup {o}
    /\ UNCHANGED <<rowVars, attested, jobVars, worker, pool, outbid, chain,
                   confirmed, boundVars>>

Confirm(o) ==
    /\ o \in used \ confirmed
    /\ confirmed' = confirmed \cup {o}
    /\ UNCHANGED <<rowVars, attested, jobVars, worker, pool, outbid, chain, used,
                   boundVars>>

\* The lease of a consumer that is still at work runs out after 120 s.
LeaseExpires ==
    /\ lease # None /\ worker[lease].locked /\ expiries < MaxExpiries
    /\ expiries' = expiries + 1
    /\ lease' = None
    /\ UNCHANGED <<rowVars, attested, mintJob, worker, chainVars, faults,
                   reverts>>

\* The lease of a dead consumer runs out.
DeadLeaseExpires ==
    /\ lease # None /\ ~worker[lease].locked
    /\ lease' = None
    /\ UNCHANGED <<rowVars, attested, mintJob, worker, chainVars, boundVars>>

\* So does its claim on the mint job.
DeadClaimExpires(o) ==
    /\ mintJob[o] = "processing"
    /\ \A w \in Workers : worker[w].op # o
           \/ worker[w].pc \in {"idle", "attest", "enqueue"}
    /\ mintJob' = [mintJob EXCEPT ![o] = "queued"]
    /\ UNCHANGED <<rowVars, attested, lease, worker, chainVars, boundVars>>

Crash(w) ==
    /\ worker[w].pc # "idle" /\ faults < MaxFaults
    /\ faults' = faults + 1
    /\ Ends(w)
    /\ UNCHANGED <<rowVars, attested, jobVars, chainVars, reverts, expiries>>

MintStep(w) ==
    \/ NonceWasUsed(w) \/ Recover(w) \/ Settle(w) \/ Finish(w)
    \/ ExistingReverted(w) \/ ExistingMined(w) \/ ExistingUnseen(w)
    \/ AttemptsExhausted(w) \/ WantLease(w) \/ AcquireLease(w) \/ LeaseBusy(w)
    \/ Reread(w) \/ Prepare(w) \/ RecordPrepared(w) \/ Broadcast(w)
    \/ BroadcastReplaces(w) \/ BroadcastRefused(w) \/ Release(w)

WorkerStep(w) ==
    MintStep(w) \/ AttestPending(w) \/ AttestWrite(w) \/ AttestEnqueue(w)

Next ==
    \/ \E o \in Ops : RecordBurn(o) \/ CircleAttests(o) \/ OutsiderMints(o)
                      \/ Confirm(o) \/ DeadClaimExpires(o)
    \/ \E w \in Workers : WorkerStep(w) \/ BroadcastFails(w) \/ Crash(w)
    \/ \E w \in Workers, o \in Ops : AttestStart(w, o) \/ MintStart(w, o)
    \/ \E ok \in BOOLEAN : Mine(ok)
    \/ LeaseExpires \/ DeadLeaseExpires

Spec == Init /\ [][Next]_vars

\* Jobs are retried, executions end, Circle attests, the chain includes and
\* confirms, and dead leases expire.  A busy lease may be busy for a while:
\* an execution that keeps meeting a free lease in time gets it.  Nothing
\* makes a transaction revert or a third party mint.
Fairness ==
    /\ \A o \in Ops :
        /\ WF_vars(CircleAttests(o)) /\ WF_vars(Confirm(o))
        /\ WF_vars(DeadClaimExpires(o))
        /\ SF_vars(\E w \in Workers : AttestStart(w, o)
                                      /\ mintJob[o] = "none")
        /\ SF_vars(\E w \in Workers : MintStart(w, o))
        /\ SF_vars(\E w \in Workers : worker[w].op = o /\ AcquireLease(w))
    /\ \A w \in Workers : WF_vars(WorkerStep(w))
    /\ WF_vars(Mine(TRUE) \/ Mine(FALSE)) /\ WF_vars(DeadLeaseExpires)

FairSpec == Spec /\ Fairness

-----------------------------------------------------------------------------
(* Properties.                                                             *)

\* finalizeCctpSettlement: "Economic settlement wins before the transport row
\* becomes terminal".  A row that says settled belongs to a settled attempt,
\* and an attempt is settled only for a mint with enough confirmations,
\* whoever submitted it, and whatever crashed, reverted or was minted by a
\* third party on the way.
SettledRowIsBacked ==
    /\ \A o \in Ops : op[o].status = "settled" => o \in settled
    /\ settled \subseteq confirmed

\* recordCrosschainMintPrepared and clearRevertedCrosschainMint: two mint
\* transactions of one operation are never in flight together, so the relayer
\* never pays for a second mint while the first can still succeed.
OneMintInFlight ==
    \A o \in Ops :
        /\ Cardinality({tx \in pool : tx.op = o}) <= 1
        /\ \A tx \in pool : tx.op = o => tx = op[o].tx \/ o \in used

\* The relayer signs at most MAX_CCTP_MINT_ATTEMPTS transactions for an
\* operation, although the count is checked on a row read before the lease.
AttemptsAreBounded == \A o \in Ops : op[o].count <= MaxMintAttempts

\* The relayer never has two mints of one burn in flight, a burn counts as
\* settled only for a mint with enough confirmations, whoever submitted it, and
\* no more transactions are signed for it than the limit.
MintsAreSingleAndBacked ==
    OneMintInFlight /\ SettledRowIsBacked /\ AttemptsAreBounded

\* Every recorded burn ends: its payment is settled, or it is handed to
\* support after the last mint attempt.
EveryBurnEnds ==
    \A o \in Ops :
        op[o].status = "burned"
            ~> (o \in settled \/ op[o].status = "needs_support")

\* The transport row is terminal once it says settled.
SettledRowIsFinal ==
    [][\A o \in Ops : op[o].status = "settled" => op'[o].status = "settled"]_vars
=============================================================================
