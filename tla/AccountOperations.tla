------------------------- MODULE AccountOperations -------------------------
(***************************************************************************)
(* The durable account operations of the App Worker: transactions that the *)
(* service signs itself, to deploy the home account of a user ("home") and *)
(* to send the welcome funds ("faucet").  An operation is signed under a   *)
(* D1 lease of its signer, stored, broadcast, and reconciled with its      *)
(* receipt by a background job and by whoever polls it.  What the          *)
(* operations of the other kinds change is modelled in AccountSecurity.    *)
(*                                                                         *)
(* Each kind has a signer and a network of its own, hence a lease and a    *)
(* nonce of its own: its lane is named after the kind.                     *)
(***************************************************************************)
EXTENDS Naturals, FiniteSets

CONSTANTS Users,         \* the users
          Procs,         \* Worker invocations: requests, polls and the reconciler
          Registered,    \* the users who have their home account at the start
          MaxOps,        \* bound: operations ever stored
          DailyClaims,   \* the daily budget of the faucet, in claims
          FaultKinds,    \* the faults of this instance, out of AllFaults
          MaxFaults      \* bound: how many of them happen, each at most once

(* crash: an invocation dies; drop: a node forgets a transaction; early: a D1 *)
(* or RPC call fails; late: one fails once the row is stored; expiry: a lease *)
(* runs out under its holder.                                                 *)
AllFaults == {"crash", "drop", "early", "late", "expiry"}

Free == "free"
Lanes == {"home", "faucet"}
OpIds == 1..MaxOps
Active == {"prepared", "submitted", "needs_review"}
NoRow == [uid |-> Free, kind |-> Free, nonce |-> 0, st |-> "none"]
IdleProc == [pc |-> "idle", uid |-> Free, kind |-> Free, op |-> 0, nonce |-> 0, rec |-> 0]

VARIABLES op,        \* account_operations
          tx,        \* what the chain made of the signed transaction of a row
          mined,     \* nonces used up on the chain, by lane
          lease,     \* cron_leases: who holds the signer of a lane
          aged,      \* rows older than OPERATION_TTL_MS
          funded,    \* users.funded_at
          budget,    \* rate_limits: claims of the day
          wallet,    \* users.wallet_address and the passkey of the onboarding
          ledger,    \* faucet rows that have their ledger entry
          p,         \* the Worker invocations
          faults     \* ghost: the faults that have happened

vars == <<op, tx, mined, lease, aged, funded, budget, wallet, ledger, p, faults>>
rows == <<op, tx, mined, aged>>
users == <<funded, budget, wallet, ledger>>

Init ==
  /\ op = [o \in OpIds |-> NoRow]
  /\ tx = [o \in OpIds |-> "unsent"]
  /\ mined = [k \in Lanes |-> 0]
  /\ lease = [k \in Lanes |-> Free]
  /\ aged = {}
  /\ funded = [u \in Users |-> FALSE]
  /\ budget = 0
  /\ wallet = [u \in Users |-> u \in Registered]
  /\ ledger = {}
  /\ p = [w \in Procs |-> IdleProc]
  /\ faults = {}

Fault(f) ==
  /\ f \in FaultKinds \ faults /\ Cardinality(faults) < MaxFaults
  /\ faults' = faults \cup {f}
NoFault == UNCHANGED faults

----------------------------------------------------------------------------
(* What the code reads. *)

ActiveOps(u, k) == {o \in OpIds : op[o].uid = u /\ op[o].kind = k /\ op[o].st \in Active}

(* A row that keeps its signer: only its own rebroadcast may take the lease. *)
Blockers(k) == {o \in OpIds : op[o].kind = k /\ op[o].st \in {"prepared", "needs_review"}}

(* The nonce a node proposes: the first one neither mined nor in its pool. *)
PendingNonce(k) ==
  CHOOSE n \in mined[k]..(mined[k] + MaxOps) :
    /\ ~ \E o \in OpIds : op[o].kind = k /\ tx[o] = "pool" /\ op[o].nonce = n
    /\ \A m \in mined[k]..(n - 1) :
          \E o \in OpIds : op[o].kind = k /\ tx[o] = "pool" /\ op[o].nonce = m

----------------------------------------------------------------------------
(* How a call of submitAccountOperation or startFaucetOperation returns.  A *)
(* request ends; the reconciler goes on with the row it works for (rec).    *)

Goto(w, pc) == p' = [p EXCEPT ![w].pc = pc]
End(w) == p' = [p EXCEPT ![w] = IdleProc]

Release(w) ==
  lease' = IF lease[p[w].kind] = w THEN [lease EXCEPT ![p[w].kind] = Free] ELSE lease

(* startFaucetOperation returns, or throws to a caller that logs it. *)
EndFaucet(w) ==
  IF p[w].rec = 0 THEN End(w)
  ELSE p' = [p EXCEPT ![w] = [@ EXCEPT !.pc = "finish", !.op = p[w].rec, !.kind = "home"]]

Return(w) ==
  IF p[w].rec # 0 /\ p[w].rec = p[w].op THEN Goto(w, "receipt")
  ELSE IF p[w].kind = "faucet" THEN EndFaucet(w)
  ELSE End(w)

Throw(w) ==
  IF p[w].rec # 0 /\ p[w].rec = p[w].op THEN End(w)
  ELSE IF p[w].kind = "faucet" THEN Goto(w, "caught")
  ELSE End(w)

----------------------------------------------------------------------------
(* The requests. *)

(* claimFaucet: whoever sets funded_at goes on to the budget. *)
Claim(w, u, rec) ==
  /\ ~ funded[u]
  /\ funded' = [funded EXCEPT ![u] = TRUE]
  /\ p' = [p EXCEPT ![w] = [IdleProc EXCEPT !.pc = "budget", !.uid = u,
                                            !.kind = "faucet", !.rec = rec]]

Fund(w, u) ==
  /\ p[w].pc = "idle"
  /\ wallet[u]
  /\ ActiveOps(u, "faucet") = {}
  /\ Claim(w, u, 0)
  /\ UNCHANGED <<rows, lease, budget, wallet, ledger, faults>>

Create(w, u) ==
  /\ p[w].pc = "idle"
  /\ ~ wallet[u] /\ ActiveOps(u, "home") = {}
  /\ p' = [p EXCEPT ![w] = [IdleProc EXCEPT !.pc = "lease", !.uid = u, !.kind = "home"]]
  /\ UNCHANGED <<rows, lease, users, faults>>

(* claimDailyFaucetBudget; when the day is spent the claim is given back,    *)
(* and if that fails too the user keeps a claim without a transfer.          *)
Budget(w) ==
  /\ p[w].pc = "budget"
  /\ \/ /\ budget < DailyClaims
        /\ budget' = budget + 1
        /\ Goto(w, "lease")
        /\ NoFault /\ UNCHANGED funded
     \/ /\ budget >= DailyClaims
        /\ \/ NoFault /\ funded' = [funded EXCEPT ![p[w].uid] = FALSE]
           \/ Fault("early") /\ UNCHANGED funded
        /\ EndFaucet(w)
        /\ UNCHANGED budget
  /\ UNCHANGED <<rows, lease, wallet, ledger>>

----------------------------------------------------------------------------
(* submitAccountOperation: sign under the lease, store, broadcast. *)

(* The rows that keep w from using the signer it has just leased. *)
SignerBlocked(w) == Blockers(p[w].kind)

AcquireLease(w) ==
  LET k == p[w].kind
      raced == ActiveOps(p[w].uid, k)
  IN /\ p[w].pc = "lease"
     /\ \/ /\ lease[k] # Free \/ SignerBlocked(w) # {}
           /\ Throw(w)
           /\ UNCHANGED lease
        \/ /\ lease[k] = Free /\ SignerBlocked(w) = {} /\ raced # {}
           /\ Return(w)
           /\ UNCHANGED lease
        \/ /\ lease[k] = Free /\ SignerBlocked(w) = {} /\ raced = {}
           /\ lease' = [lease EXCEPT ![k] = w]
           /\ Goto(w, "sign")
     /\ UNCHANGED <<rows, users, faults>>

(* prepareTransactionRequest and signTransaction. *)
Sign(w) ==
  /\ p[w].pc = "sign"
  /\ \/ /\ p' = [p EXCEPT ![w].nonce = PendingNonce(p[w].kind), ![w].pc = "insert"]
        /\ NoFault /\ UNCHANGED lease
     \/ Fault("early") /\ Throw(w) /\ Release(w)
  /\ UNCHANGED <<rows, users>>

(* INSERT OR IGNORE under the index of active rows per user and kind.  The   *)
(* call may fail without having written (so it does at MaxOps), or after it. *)
CreateRow(w, o) ==
  op' = [op EXCEPT ![o] = [uid |-> p[w].uid, kind |-> p[w].kind,
                           nonce |-> p[w].nonce, st |-> "prepared"]]

Insert(w) ==
  LET o == Cardinality({x \in OpIds : op[x].st # "none"}) + 1
  IN /\ p[w].pc = "insert"
     /\ \/ /\ ActiveOps(p[w].uid, p[w].kind) # {}
           /\ Return(w) /\ Release(w) /\ NoFault /\ UNCHANGED op
        \/ /\ ActiveOps(p[w].uid, p[w].kind) = {} /\ o \in OpIds
           /\ CreateRow(w, o)
           /\ \/ /\ p' = [p EXCEPT ![w].op = o, ![w].pc = "send"]
                 /\ NoFault /\ UNCHANGED lease
              \/ Fault("late") /\ Throw(w) /\ Release(w)
        \/ /\ Fault("early") \/ (o \notin OpIds /\ NoFault)
           /\ Throw(w) /\ Release(w) /\ UNCHANGED op
     /\ UNCHANGED <<tx, mined, aged, users>>

(* sendRawTransaction: the node accepts it and says so, accepts it and the   *)
(* answer is lost, or refuses it.  An error leaves the row prepared.         *)
Send(w) ==
  LET o == p[w].op
      fits == tx[o] \in {"unsent", "dropped"} /\ op[o].nonce >= mined[op[o].kind]
  IN /\ p[w].pc = "send"
     /\ \/ /\ fits
           /\ tx' = [tx EXCEPT ![o] = "pool"]
           /\ \/ Goto(w, "mark") /\ NoFault /\ UNCHANGED lease
              \/ Fault("early") /\ Return(w) /\ Release(w)
        \/ /\ ~ fits
           /\ Return(w) /\ Release(w) /\ NoFault /\ UNCHANGED tx
        \/ /\ fits
           /\ Fault("early") /\ Return(w) /\ Release(w) /\ UNCHANGED tx
     /\ UNCHANGED <<op, mined, aged, users>>

(* recordAccountOperationAttempt and markAccountOperationSubmitted.  If they *)
(* fail the error is recorded on the row; if that fails too, it is thrown.   *)
Mark(w) ==
  LET o == p[w].op
  IN /\ p[w].pc = "mark"
     /\ Release(w)
     /\ \/ /\ op' = IF op[o].st = "prepared" THEN [op EXCEPT ![o].st = "submitted"] ELSE op
           /\ Return(w) /\ NoFault
        \/ Fault("late") /\ (Return(w) \/ Throw(w)) /\ UNCHANGED op
     /\ UNCHANGED <<tx, mined, aged, users>>

(* The handler of startFaucetOperation: an operation that is active keeps    *)
(* the claim, and so does a lookup that fails.                               *)
Durable(w) == ActiveOps(p[w].uid, "faucet")

Caught(w) ==
  /\ p[w].pc = "caught"
  /\ \/ Durable(w) # {} /\ EndFaucet(w) /\ NoFault
     \/ Durable(w) = {} /\ Goto(w, "compensate") /\ NoFault
     \/ Fault("early") /\ EndFaucet(w)
  /\ UNCHANGED <<rows, lease, users>>

(* releaseFaucetClaim and refundDailyFaucetBudget, whose errors are dropped. *)
Refund(u) ==
  \/ /\ funded' = [funded EXCEPT ![u] = FALSE]
     /\ budget' = IF budget > 0 THEN budget - 1 ELSE 0
     /\ NoFault
  \/ /\ Fault("early")
     /\ \/ funded' = [funded EXCEPT ![u] = FALSE] /\ UNCHANGED budget
        \/ budget' = (IF budget > 0 THEN budget - 1 ELSE 0) /\ UNCHANGED funded

Compensate(w) ==
  /\ p[w].pc = "compensate"
  /\ Refund(p[w].uid)
  /\ EndFaucet(w)
  /\ UNCHANGED <<rows, lease, wallet, ledger>>

----------------------------------------------------------------------------
(* reconcileAccountOperation, called by the reconciler and by the poll. *)

Reconcile(w, o) ==
  /\ p[w].pc = "idle" /\ op[o].st \in {"prepared", "submitted"}
  /\ p' = [p EXCEPT ![w] = [IdleProc EXCEPT
              !.pc = IF op[o].st = "prepared" THEN "relock" ELSE "receipt",
              !.uid = op[o].uid, !.kind = op[o].kind, !.op = o, !.rec = o]]
  /\ UNCHANGED <<rows, lease, users, faults>>

(* Only the row that blocks the signer may be broadcast again; with several, *)
(* the least recently updated one decides.                                   *)
MayRelock(w) == Blockers(p[w].kind) = {} \/ p[w].op \in Blockers(p[w].kind)

Relock(w) ==
  LET k == p[w].kind
  IN /\ p[w].pc = "relock"
     /\ \/ /\ lease[k] # Free \/ Blockers(k) \ {p[w].op} # {} \/ ~ MayRelock(w)
           /\ End(w)
           /\ UNCHANGED lease
        \/ /\ lease[k] = Free /\ MayRelock(w)
           /\ lease' = [lease EXCEPT ![k] = w]
           /\ Goto(w, "send")
     /\ UNCHANGED <<rows, users, faults>>

(* finishAccountOperation: only a row that is still open is closed. *)
FinishRow(o, st) ==
  op' = IF op[o].st \in {"prepared", "submitted"} THEN [op EXCEPT ![o].st = st] ELSE op

(* The receipt: reverted closes the row and the winner compensates, success  *)
(* goes on to the effects, none is retried until the row is too old.         *)
Receipt(w) ==
  LET o == p[w].op
  IN /\ p[w].pc = "receipt"
     /\ \/ /\ tx[o] = "ok" /\ Goto(w, "apply") /\ UNCHANGED op
        \/ /\ tx[o] = "reverted" /\ FinishRow(o, "failed")
           /\ IF op[o].st \in {"prepared", "submitted"} THEN Goto(w, "undo") ELSE End(w)
        \/ /\ tx[o] \notin {"ok", "reverted"} /\ UNCHANGED op
           /\ IF o \in aged THEN Goto(w, "review") ELSE End(w)
     /\ UNCHANGED <<tx, mined, aged, lease, users, faults>>

(* A row whose transaction is nowhere after its time is left to an operator: *)
(* the transaction may still be mined.                                       *)
Review(w) ==
  /\ p[w].pc = "review"
  /\ FinishRow(p[w].op, "needs_review")
  /\ End(w)
  /\ UNCHANGED <<tx, mined, aged, lease, users, faults>>

VariantKeepClaim(w) == UNCHANGED <<funded, budget, faults>>
(* compensateFailedOperation: only the faucet has something to give back. *)
Undone(w) ==
  IF p[w].kind = "faucet" THEN Refund(p[w].uid) ELSE UNCHANGED <<funded, budget, faults>>

Undo(w) ==
  /\ p[w].pc = "undo" /\ Undone(w) /\ End(w)
  /\ UNCHANGED <<rows, lease, wallet, ledger>>

(* finalizeAccountOperation, repeated until the row is closed.  The home     *)
(* account goes on to the welcome funds, whose failure does not stop it.     *)
Effects(w) ==
  LET o == p[w].op
      u == p[w].uid
  IN \/ /\ p[w].kind = "faucet"
        /\ ledger' = ledger \cup {o}
        /\ Goto(w, "finish")
        /\ UNCHANGED <<wallet, funded, budget>>
     \/ /\ p[w].kind = "home"
        /\ wallet' = [wallet EXCEPT ![u] = TRUE]
        /\ \/ Claim(w, u, o)
           \/ funded[u] /\ Goto(w, "finish") /\ UNCHANGED funded
        /\ UNCHANGED <<ledger, budget>>

Apply(w) ==
  /\ p[w].pc = "apply"
  /\ \/ Effects(w) /\ NoFault
     \/ Fault("late") /\ End(w) /\ UNCHANGED users
  /\ UNCHANGED <<rows, lease>>

Finish(w) ==
  /\ p[w].pc = "finish"
  /\ FinishRow(p[w].op, "confirmed")
  /\ End(w)
  /\ UNCHANGED <<tx, mined, aged, lease, users, faults>>

(* sweepAccountOperations *)
Sweep(o) ==
  /\ op[o].st \in {"confirmed", "failed"}
  /\ op' = [op EXCEPT ![o].st = "swept"]
  /\ UNCHANGED <<tx, mined, aged, lease, users, p, faults>>

----------------------------------------------------------------------------
(* The chain, the clock and the failures. *)

MineTx(o) ==
  LET k == op[o].kind
  IN /\ tx[o] = "pool" /\ op[o].nonce = mined[k]
     /\ \E r \in {"ok", "reverted"} :
          tx' = [x \in OpIds |->
                   IF x = o THEN r
                   ELSE IF op[x].kind = k /\ op[x].nonce = op[o].nonce /\ op[x].st # "none"
                   THEN "dead" ELSE tx[x]]
     /\ mined' = [mined EXCEPT ![k] = @ + 1]
     /\ UNCHANGED <<op, aged, lease, users, p, faults>>

Drop(o) ==
  /\ tx[o] = "pool" /\ Fault("drop")
  /\ tx' = [tx EXCEPT ![o] = "dropped"]
  /\ UNCHANGED <<op, mined, aged, lease, users, p>>

Age(o) ==
  /\ op[o].st \in {"prepared", "submitted"} /\ o \notin aged
  /\ aged' = aged \cup {o}
  /\ UNCHANGED <<op, tx, mined, lease, users, p, faults>>

Holding(w, k) == p[w].pc \in {"sign", "insert", "send", "mark"} /\ p[w].kind = k

LeaseExpires(k) ==
  /\ lease[k] # Free
  /\ IF Holding(lease[k], k) THEN Fault("expiry") ELSE NoFault
  /\ lease' = [lease EXCEPT ![k] = Free]
  /\ UNCHANGED <<rows, users, p>>

Crash(w) ==
  /\ p[w].pc # "idle" /\ Fault("crash") /\ End(w)
  /\ UNCHANGED <<rows, lease, users>>

Step(w) ==
  \/ Budget(w) \/ AcquireLease(w) \/ Sign(w) \/ Insert(w) \/ Send(w) \/ Mark(w)
  \/ Caught(w) \/ Compensate(w)
  \/ Relock(w) \/ Receipt(w) \/ Review(w) \/ Undo(w) \/ Apply(w) \/ Finish(w)

Next ==
  \/ \E w \in Procs :
       \/ \E u \in Users : Fund(w, u) \/ Create(w, u)
       \/ \E o \in OpIds : Reconcile(w, o)
       \/ Step(w) \/ Crash(w)
  \/ \E o \in OpIds : MineTx(o) \/ Drop(o) \/ Age(o) \/ Sweep(o)
  \/ \E k \in Lanes : LeaseExpires(k)

Spec == Init /\ [][Next]_vars

----------------------------------------------------------------------------
PCs == {"idle", "budget", "lease", "sign", "insert", "send", "mark", "caught", "compensate",
        "relock", "receipt", "review", "apply", "finish", "undo"}

(* The state keeps its types. *)
TypeOK ==
  /\ \A o \in OpIds :
        /\ op[o].st \in Active \cup {"none", "confirmed", "failed", "swept"}
        /\ op[o].st # "none" => op[o].uid \in Users /\ op[o].kind \in Lanes /\ op[o].nonce \in Nat
  /\ tx \in [OpIds -> {"unsent", "pool", "dropped", "ok", "reverted", "dead"}]
  /\ mined \in [Lanes -> Nat] /\ lease \in [Lanes -> Procs \cup {Free}]
  /\ aged \subseteq OpIds /\ ledger \subseteq OpIds
  /\ funded \in [Users -> BOOLEAN] /\ wallet \in [Users -> BOOLEAN]
  /\ budget \in 0..DailyClaims
  /\ \A w \in Procs : p[w].pc \in PCs /\ p[w].rec \in 0..MaxOps /\ p[w].op \in 0..MaxOps

FaucetOps(u) == {o \in OpIds : op[o].kind = "faucet" /\ op[o].uid = u /\ op[o].st # "none"}

(* A faucet row whose transfer has reached the user or still may. *)
Pays(o) ==
  \/ tx[o] \in {"ok", "pool"}
  \/ op[o].st \in {"prepared", "submitted"} /\ tx[o] \in {"unsent", "dropped"}

(* The faucet never pays a user twice, nor has two transfers under way to    *)
(* one user: the claim is opened again only when the transfer cannot happen  *)
(* (startFaucetOperation, compensateFailedOperation).                        *)
FaucetPaysOnce == \A u \in Users : Cardinality({o \in FaucetOps(u) : Pays(o)}) <= 1

(* The claims counted against the day are at least the transfers that were   *)
(* made or are under way: no refund is given for a transfer that pays.       *)
BudgetCoversTransfers ==
  budget >= Cardinality({o \in OpIds : op[o].kind = "faucet" /\ op[o].st # "none" /\ Pays(o)})

(* Without a crash or a failed call nobody loses the claim: a user marked as *)
(* funded has a transfer made, open or under review, or a request at work.   *)
ClaimHasReason ==
  faults \cap {"crash", "early", "late"} = {} =>
    \A u \in Users : funded[u] =>
      \/ \E o \in FaucetOps(u) : tx[o] = "ok" \/ op[o].st \in Active
      \/ \E w \in Procs : p[w].uid = u /\ p[w].kind = "faucet"

(* Two open rows of one signer have one nonce only if a lease ran out under  *)
(* its holder or a node forgot a transaction: the lease and the rows that    *)
(* block the signer keep the second from being signed too early, also after  *)
(* a crash between storing and broadcasting.                                 *)
NoncesAreDistinct ==
  faults \cap {"expiry", "drop"} = {} =>
    \A a, b \in OpIds :
      (a # b /\ op[a].st \in Active /\ op[b].st \in Active /\ op[a].kind = op[b].kind)
        => op[a].nonce # op[b].nonce

=============================================================================
