---------------------------- MODULE AppCrosschain ----------------------------
(***************************************************************************)
(* The CCTP transfers of the App Worker: outbound operations burn through  *)
(* a UserOperation of the user's account, inbound ones through a wallet    *)
(* outside the system that reports its burn; a relayer polls Circle for    *)
(* the attestation and mints on the destination chain.                     *)
(*                                                                         *)
(* Passes of the relayer may overlap (a job lease can expire under one),   *)
(* and every pass works from the row it read when it started.  A burn      *)
(* carries the name of the operation whose calldata it executes.  The      *)
(* scheduling of the passes is the subject of EventJobs.                   *)
(***************************************************************************)
EXTENDS Naturals, FiniteSets

CONSTANTS Ops,         \* operations; each also names its burn
          Strangers,   \* burns made for no operation of these
          Passes,      \* relayer passes that may overlap
          Quotes,      \* amounts and modes asked for: <<amount, mode>>
          FeeBps,      \* GATOPAGO_CROSSCHAIN_FEE_BPS of the deployment
          MaxAttempts, \* MAX_MINT_ATTEMPTS
          MaxTx,       \* bound: mint transactions
          MaxFaults,   \* bound: passes that die, calls that throw
          None

(* SQL NULL names nothing, and amounts are cents. *)
TransfersAssumption ==
  /\ None \notin Ops \cup Strangers /\ MaxTx \in Nat
  /\ FeeBps \in Nat /\ \A q \in Quotes : q[1] \in Nat

Txs == 1..MaxTx
InFlight == {"submitted", "waiting_attestation", "minting", "recoverable"}
Statuses == InFlight \cup {"none", "quoted", "pending_signature", "completed",
                           "failed", "expired", "needs_support"}
NoRow == [status |-> "none", dir |-> None, amountIn |-> 0, fee |-> 0, maxFee |-> 0,
          src |-> None, msg |-> FALSE, dst |-> 0, attempts |-> 0]
NoPass == [pc |-> "idle", o |-> None, row |-> NoRow, tx |-> 0]

VARIABLES row,      \* crosschain_operations
          age,      \* 0: fresh, 1: over 24 hours, 2: over 7 days
          fate,     \* what became of the burn transaction
          attested, \* burns Circle has attested
          minted,   \* burns whose nonce is used on the destination
          tx,       \* mint transactions: [burn, st]
          pass,     \* relayer passes
          lease,    \* the signer lease
          faults,
          pushes    \* notifications sent for each operation

vars == <<row, age, fate, attested, minted, tx, pass, lease, faults, pushes>>
chain == <<fate, attested, minted, tx>>

Init ==
  /\ row = [o \in Ops |-> NoRow] /\ age = [o \in Ops |-> 0]
  /\ fate = [o \in Ops |-> "none"] /\ attested = Strangers /\ minted = {}
  /\ tx = [t \in Txs |-> [burn |-> None, st |-> "none"]]
  /\ pass = [p \in Passes |-> NoPass] /\ lease = None
  /\ faults = 0 /\ pushes = [o \in Ops |-> 0]

----------------------------------------------------------------------------
(* Amounts. *)

CeilDiv(a, b) == IF b = 0 THEN 0 ELSE (a + b - 1) \div b

ComputeAmounts(bps, amount, mode) ==
  LET fee == (amount * bps) \div 10000
      net == amount - fee
      cctp == IF mode = "fast" THEN (net * 13) \div 100000 ELSE 0
  IN  [fee |-> fee, net |-> net,
       maxFee |-> IF mode = "fast" THEN CeilDiv(net * 10, 10000) ELSE 0,
       out |-> IF net > cctp THEN net - cctp ELSE 0]

(* What the burn of operation b carries: the router takes its fee first. *)
MessageOf(b) == IF b \in Strangers THEN [amount |-> 1, maxFee |-> 1]
                ELSE [amount |-> row[b].amountIn - row[b].fee, maxFee |-> row[b].maxFee]

(* Whether the message of burn b is the one operation r stands for. *)
ValidateCctpMessage(r, b) ==
  /\ MessageOf(b).amount = IF r.dir = "outbound" THEN r.amountIn - r.fee ELSE r.amountIn
  /\ MessageOf(b).maxFee = r.maxFee

----------------------------------------------------------------------------
(* Every write of a row. *)

VariantLeaveCompleted(o, status, from) == row[o].status \in from
(* An update may never take a row out of completed. *)
MayUpdate(o, status, from) ==
  /\ row[o].status \in from
  /\ status # "completed" => row[o].status # "completed"

UpdateCrosschainOp(o, status, from) ==
  row' = IF MayUpdate(o, status, from) THEN [row EXCEPT ![o].status = status] ELSE row

----------------------------------------------------------------------------
(* The routes. *)

CreateCrosschainOp(o, dir, bps, amount, mode, status) ==
  LET a == ComputeAmounts(bps, amount, mode) IN
  /\ row[o].status = "none" /\ a.out > 0
  /\ row' = [row EXCEPT ![o] = [NoRow EXCEPT !.status = status, !.dir = dir,
                !.amountIn = amount, !.fee = a.fee, !.maxFee = a.maxFee]]
  /\ UNCHANGED <<age, chain, pass, lease, faults, pushes>>

Prepare(o) == \E q \in Quotes : CreateCrosschainOp(o, "outbound", FeeBps, q[1], q[2], "quoted")

InboundPrepare(o) ==
  \E q \in Quotes : CreateCrosschainOp(o, "inbound", 0, q[1], q[2], "pending_signature")

(* One operation per burn: the index on source_tx_hash is unique. *)
Unregistered(b) == \A o \in Ops : row[o].src # b

(* The checkout reports a burn, perhaps one made for another operation. *)
InboundRegister(o, b) ==
  /\ row[o].dir = "inbound" /\ Unregistered(b)
  /\ b \in Ops => fate[b] = "burned"
  /\ row[o].status = "pending_signature"
  /\ row' = [row EXCEPT ![o].status = "submitted", ![o].src = b]
  /\ UNCHANGED <<age, chain, pass, lease, faults, pushes>>

(* The settlement of the UserOperation hands the burn to the relayer. *)
SettleBurn(o) ==
  /\ row[o].dir = "outbound" /\ fate[o] = "burned"
  /\ row[o].status \in {"quoted", "submitted"} /\ Unregistered(o)
  /\ row' = [row EXCEPT ![o].status = "submitted", ![o].src = o]
  /\ UNCHANGED <<age, chain, pass, lease, faults, pushes>>

(* A UserOperation that failed, or that can no longer land. *)
FailLinkedCrosschainOp(o) ==
  /\ row[o].dir = "outbound" /\ fate[o] = "failed" /\ row[o].status # "failed"
  /\ UpdateCrosschainOp(o, "failed", Statuses)
  /\ UNCHANGED <<age, chain, pass, lease, faults, pushes>>

----------------------------------------------------------------------------
(* A pass of the relayer. *)

ExpireStaleCrosschainOps ==
  [o \in Ops |->
     IF row[o].status \in {"quoted", "pending_signature"} /\ age[o] >= 1
     THEN [row[o] EXCEPT !.status = "expired"]
     ELSE IF row[o].status \in InFlight /\ age[o] = 2
     THEN [row[o] EXCEPT !.status = "needs_support"] ELSE row[o]]

(* The sweep, and the rows in flight that are left: the pass takes up one. *)
RunCrosschainRelayer(p) ==
  /\ pass[p].pc = "idle" /\ row' = ExpireStaleCrosschainOps
  /\ \/ \E o \in Ops :
          /\ row'[o].status \in InFlight
          /\ pass' = [pass EXCEPT ![p] = [pc |-> "attest", o |-> o, row |-> row'[o], tx |-> 0]]
     \/ row' # row /\ UNCHANGED pass
  /\ UNCHANGED <<age, chain, lease, faults, pushes>>

Goto(p, pc) == pass' = [pass EXCEPT ![p].pc = pc]
Done(p) == pass' = [pass EXCEPT ![p] = NoPass]

(* Nothing attested yet, as far as Circle answers. *)
StillWaiting(p) ==
  LET o == pass[p].o IN
  /\ pass[p].pc = "attest" /\ ~ pass[p].row.msg /\ Done(p)
  /\ IF pass[p].row.status # "waiting_attestation"
     THEN UpdateCrosschainOp(o, "waiting_attestation", Statuses) ELSE UNCHANGED row
  /\ UNCHANGED <<age, chain, lease, faults, pushes>>

FetchAttestation(p) ==
  LET o == pass[p].o b == pass[p].row.src IN
  /\ pass[p].pc = "attest" /\ ~ pass[p].row.msg /\ b \in attested
  /\ IF ValidateCctpMessage(pass[p].row, b)
     THEN /\ row' = IF MayUpdate(o, "minting", Statuses)
                    THEN [row EXCEPT ![o].status = "minting", ![o].msg = TRUE] ELSE row
          /\ pass' = [pass EXCEPT ![p].pc = "mint", ![p].row.msg = TRUE]
     ELSE UpdateCrosschainOp(o, "needs_support", Statuses) /\ Done(p)
  /\ UNCHANGED <<age, chain, lease, faults, pushes>>

(* The message is on the row already. *)
StoredMessage(p) ==
  /\ pass[p].pc = "attest" /\ pass[p].row.msg /\ Goto(p, "mint")
  /\ UNCHANGED <<row, age, chain, lease, faults, pushes>>

(* Only the pass that moves the row to completed notifies the sender. *)
MarkCompleted(p) ==
  LET o == pass[p].o IN
  /\ Done(p) /\ UpdateCrosschainOp(o, "completed", InFlight)
  /\ pushes' = IF row[o].status \in InFlight /\ row[o].dir = "outbound"
               THEN [pushes EXCEPT ![o] = @ + 1] ELSE pushes

NonceWasUsed(p) == pass[p].row.src \in minted

(* The receipt of the transaction the row names. *)
ReceiptSucceeded(p) == tx[pass[p].row.dst].st = "success"

(* Minted already, whoever did it. *)
AlreadyMinted(p) ==
  /\ pass[p].pc = "mint"
  /\ NonceWasUsed(p) \/ (pass[p].row.dst # 0 /\ ReceiptSucceeded(p))
  /\ MarkCompleted(p)
  /\ UNCHANGED <<age, chain, lease, faults>>

(* An earlier transaction is still pending, or lost for less than the grace *)
(* period: the pass leaves the row for later.                               *)
LeavePending(p) ==
  /\ pass[p].pc = "mint" /\ ~ NonceWasUsed(p)
  /\ pass[p].row.dst # 0 /\ tx[pass[p].row.dst].st \in {"pending", "dropped"}
  /\ Done(p)
  /\ UNCHANGED <<row, age, chain, lease, faults, pushes>>

MayMint(p) ==
  /\ pass[p].pc = "mint" /\ ~ NonceWasUsed(p)
  /\ pass[p].row.dst # 0 => tx[pass[p].row.dst].st \in {"reverted", "dropped"}

GiveUp(p) ==
  /\ MayMint(p) /\ pass[p].row.attempts + 1 > MaxAttempts
  /\ UpdateCrosschainOp(pass[p].o, "needs_support", Statuses) /\ Done(p)
  /\ UNCHANGED <<age, chain, lease, faults, pushes>>

(* The attempt is counted once the signer is held; a busy signer costs none. *)
WithSignerLease(p) ==
  /\ MayMint(p) /\ pass[p].row.attempts + 1 <= MaxAttempts
  /\ IF lease = None
     THEN /\ lease' = p /\ Goto(p, "send")
          /\ row' = [row EXCEPT ![pass[p].o].attempts = pass[p].row.attempts + 1]
     ELSE Done(p) /\ UNCHANGED <<lease, row>>
  /\ UNCHANGED <<age, chain, faults, pushes>>

Release(p) == lease' = IF lease = p THEN None ELSE lease
IsNewTx(t) == tx[t].st = "none" /\ \A u \in Txs : tx[u].st = "none" => t <= u

(* receiveMessage is broadcast and the signer released; the response may be *)
(* lost with the transaction on its way.                                    *)
Broadcast(p) ==
  /\ pass[p].pc = "send" /\ Release(p)
  /\ \E t \in Txs :
       /\ IsNewTx(t) /\ tx' = [tx EXCEPT ![t] = [burn |-> pass[p].row.src, st |-> "pending"]]
       /\ \/ pass' = [pass EXCEPT ![p].pc = "record", ![p].tx = t] /\ UNCHANGED faults
          \/ faults < MaxFaults /\ faults' = faults + 1 /\ Goto(p, "thrown")
  /\ UNCHANGED <<row, age, fate, attested, minted, pushes>>

(* The simulation of the call reverts, or there is no gas. *)
BroadcastFails(p) ==
  /\ pass[p].pc = "send" /\ Release(p)
  /\ \/ NonceWasUsed(p) /\ UNCHANGED faults
     \/ faults < MaxFaults /\ faults' = faults + 1
  /\ Goto(p, "thrown")
  /\ UNCHANGED <<row, age, chain, pushes>>

RecordCrosschainMintBroadcast(p) ==
  /\ pass[p].pc = "record" /\ Goto(p, "wait")
  /\ row' = IF row[pass[p].o].status = "completed" THEN row
            ELSE [row EXCEPT ![pass[p].o].dst = pass[p].tx]
  /\ UNCHANGED <<age, chain, lease, faults, pushes>>

Confirmed(p) == pass[p].pc = "wait" /\ (tx[pass[p].tx].st = "success"
                                        \/ (tx[pass[p].tx].st = "reverted" /\ NonceWasUsed(p)))

WaitForTx(p) ==
  /\ pass[p].pc = "wait" /\ tx[pass[p].tx].st \in {"success", "reverted"}
  /\ IF Confirmed(p) THEN MarkCompleted(p)
     ELSE UpdateCrosschainOp(pass[p].o, "recoverable", Statuses) /\ Done(p) /\ UNCHANGED pushes
  /\ UNCHANGED <<age, chain, lease, faults>>

(* The wait times out. *)
WaitTimesOut(p) ==
  /\ pass[p].pc = "wait" /\ faults < MaxFaults /\ faults' = faults + 1
  /\ Goto(p, "failed")
  /\ UNCHANGED <<row, age, chain, lease, pushes>>

(* A call that threw while the signer was held: the nonce decides. *)
Thrown(p) ==
  /\ pass[p].pc = "thrown"
  /\ IF NonceWasUsed(p) THEN MarkCompleted(p)
     ELSE Goto(p, "failed") /\ UNCHANGED <<row, pushes>>
  /\ UNCHANGED <<age, chain, lease, faults>>

(* The catch of the loop counts from the row the pass read. *)
OpFailed(p) ==
  LET o == pass[p].o n == pass[p].row.attempts + 1 IN
  /\ pass[p].pc = "failed" /\ Done(p)
  /\ row' = IF n < MaxAttempts THEN [row EXCEPT ![o].attempts = n]
            ELSE IF MayUpdate(o, "needs_support", Statuses)
            THEN [row EXCEPT ![o].attempts = n, ![o].status = "needs_support"] ELSE row
  /\ UNCHANGED <<age, chain, lease, faults, pushes>>

----------------------------------------------------------------------------
(* The environment. *)

Crash(p) ==
  /\ pass[p].pc # "idle" /\ faults < MaxFaults /\ faults' = faults + 1 /\ Done(p)
  /\ UNCHANGED <<row, age, chain, lease, pushes>>

ExpireLease ==
  /\ lease # None /\ lease' = None
  /\ UNCHANGED <<row, age, chain, pass, faults, pushes>>

Age(o) ==
  /\ row[o].status # "none" /\ age[o] < 2 /\ age' = [age EXCEPT ![o] = @ + 1]
  /\ UNCHANGED <<row, chain, pass, lease, faults, pushes>>

(* The burn lands, or its UserOperation fails for good. *)
Burn(o) ==
  /\ row[o].status # "none" /\ fate[o] = "none"
  /\ fate' = [fate EXCEPT ![o] = "burned"]
  /\ UNCHANGED <<row, age, attested, minted, tx, pass, lease, faults, pushes>>

BurnFails(o) ==
  /\ row[o].dir = "outbound" /\ fate[o] = "none"
  /\ fate' = [fate EXCEPT ![o] = "failed"]
  /\ UNCHANGED <<row, age, attested, minted, tx, pass, lease, faults, pushes>>

Attest(b) ==
  /\ fate[b] = "burned" /\ b \notin attested /\ attested' = attested \cup {b}
  /\ UNCHANGED <<row, age, fate, minted, tx, pass, lease, faults, pushes>>

(* A mint transaction is mined: receiveMessage uses a nonce once. *)
Mine(t) ==
  /\ tx[t].st = "pending"
  /\ \/ /\ tx[t].burn \notin minted
        /\ minted' = minted \cup {tx[t].burn}
        /\ tx' = [tx EXCEPT ![t].st = "success"]
     \/ UNCHANGED minted /\ tx' = [tx EXCEPT ![t].st = "reverted"]
     \/ UNCHANGED minted /\ tx' = [tx EXCEPT ![t].st = "dropped"]
  /\ UNCHANGED <<row, age, fate, attested, pass, lease, faults, pushes>>

(* receiveMessage is permissionless. *)
MintedByOthers(b) ==
  /\ b \in attested \ minted /\ minted' = minted \cup {b}
  /\ UNCHANGED <<row, age, fate, attested, tx, pass, lease, faults, pushes>>

Next ==
  \/ \E o \in Ops : Prepare(o) \/ InboundPrepare(o) \/ SettleBurn(o)
                    \/ FailLinkedCrosschainOp(o) \/ Age(o) \/ Burn(o) \/ BurnFails(o)
                    \/ Attest(o) \/ MintedByOthers(o)
  \/ \E o \in Ops, b \in Ops \cup Strangers : InboundRegister(o, b)
  \/ \E p \in Passes : RunCrosschainRelayer(p) \/ StillWaiting(p) \/ FetchAttestation(p)
                       \/ StoredMessage(p) \/ AlreadyMinted(p) \/ LeavePending(p) \/ GiveUp(p)
                       \/ WithSignerLease(p) \/ Broadcast(p) \/ BroadcastFails(p)
                       \/ RecordCrosschainMintBroadcast(p) \/ WaitForTx(p) \/ WaitTimesOut(p)
                       \/ Thrown(p) \/ OpFailed(p) \/ Crash(p)
  \/ \E t \in Txs : Mine(t)
  \/ ExpireLease

Spec == Init /\ [][Next]_vars

----------------------------------------------------------------------------
(* Properties *)

(* The columns of a row and the local state of a pass keep their domains. *)
TypeOK ==
  /\ \A o \in Ops : row[o].status \in Statuses /\ row[o].src \in Ops \cup Strangers \cup {None}
                    /\ row[o].dst \in 0..MaxTx
  /\ \A p \in Passes : pass[p].o \in Ops \cup {None}

(* A completed operation has had its own burn minted, and that burn is one the *)
(* operation stands for, whichever pass, stale row or receipt completed it     *)
(* (markCompleted, mintOnDestination, validateCctpMessage).                    *)
CompletedIsMinted ==
  \A o \in Ops : row[o].status = "completed" =>
     row[o].src \in minted /\ ValidateCctpMessage(row[o], row[o].src)

(* The sender hears of a transfer's arrival at most once, however many passes *)
(* overlap or retry ("the push below fires exactly once").                    *)
NotifiedOnce == \A o \in Ops : pushes[o] <= 1

(* A transfer counts as completed only for a mint of its own burn, and its *)
(* sender is told once (crosschainRelayer.ts).                             *)
BurnsAreMintedOnce == CompletedIsMinted /\ NotifiedOnce
=============================================================================
