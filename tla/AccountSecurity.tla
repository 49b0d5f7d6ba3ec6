-------------------------- MODULE AccountSecurity --------------------------
(***************************************************************************)
(* The keys of one user: the passkeys of the database, the signer sets of  *)
(* the user's smart accounts (AccountWebAuthnV2) on the home network and on *)
(* the satellite networks, and the version counter that ties them together. *)
(* A satellite is activated with the keys of the home account, follows its  *)
(* changes through synchronisations, and takes part in the guardian's       *)
(* recovery, which replaces the keys of every active account after a delay. *)
(*                                                                         *)
(* An account operation is one record per network and kind: signing, nonces *)
(* and rebroadcasts are AccountOperations' matter.  The threshold of every  *)
(* account is 1, as the App sets it.                                        *)
(***************************************************************************)
EXTENDS Naturals, FiniteSets, TLC

CONSTANTS Satellites,   \* the networks other than the home network
          Web,          \* Worker invocations that serve requests
          Cron,         \* Worker invocations that reconcile operations
          FirstKeys,    \* the passkeys of the home account at the start
          BackupKeys,   \* passkeys the user may add
          RecoveryKeys, \* passkeys a recovery may be asked for
          MaxVersion,   \* bound: the version up to which keys are changed by hand
          Crashes,      \* whether an invocation may die
          NoKey

ASSUME KeysAssumption ==
  /\ NoKey \notin FirstKeys \cup BackupKeys \cup RecoveryKeys
  /\ FirstKeys # {} /\ FirstKeys \cap (BackupKeys \cup RecoveryKeys) = {}
  \* Each registration ceremony creates a passkey of its own.
  /\ BackupKeys \cap RecoveryKeys = {}
ASSUME VersionAssumption == MaxVersion \in Nat

Procs == Web \cup Cron
Home == "home"
Chains == Satellites \cup {Home}
\* The passkeys an account starts with are alike.
Symmetry == Permutations(FirstKeys)
Keys == FirstKeys \cup BackupKeys \cup RecoveryKeys
OpKinds == {"create", "propose", "execute", "cancel"}
NoOp == [st |-> "none", key |-> NoKey, keys |-> {}, ver |-> 0]
NoUserOp == [st |-> "none", by |-> NoKey, adds |-> {}, drops |-> {}, ver |-> 0]
IdleProc == [pc |-> "idle", kind |-> "none", c |-> Home, key |-> NoKey, ver |-> 0, todo |-> {}]

VARIABLES signers,  \* the signer set of each account; {} where there is none
          pending,  \* the key of the pending recovery of each account
          ripe,     \* the accounts whose RECOVERY_DELAY has passed
          passkeys, \* the passkeys rows that are not revoked
          desired,  \* account_security_versions.desired_version
          row,      \* user_chain_accounts of the satellites
          op,       \* account_operations: the latest of each network and kind
          userOp,   \* pending_payments: PASSKEY_ADD and PASSKEY_REMOVE (home), PASSKEY_SYNC
          p         \* the Worker invocations

vars == <<signers, pending, ripe, passkeys, desired, row, op, userOp, p>>
chain == <<signers, pending, ripe>>
db == <<passkeys, desired, row>>

Init ==
  /\ signers = [c \in Chains |-> IF c = Home THEN FirstKeys ELSE {}]
  /\ pending = [c \in Chains |-> NoKey]
  /\ ripe = {}
  /\ passkeys = FirstKeys
  /\ desired = 1
  /\ row = [c \in Satellites |-> [st |-> "none", sec |-> "none", ver |-> 0]]
  /\ op = [c \in Chains |-> [k \in OpKinds |-> NoOp]]
  /\ userOp = [c \in Chains |-> NoUserOp]
  /\ p = [w \in Procs |-> IdleProc]

----------------------------------------------------------------------------
Open(c, k) == op[c][k].st \in {"sent", "mined", "reverted"}

(* activeRecoveryTargets, and the accounts of the barrier. *)
Targets == {Home} \cup {c \in Satellites : row[c].st = "active"}

Recovered(c, k) == pending[c] = NoKey /\ signers[c] = {k}

Start(w, r) == p[w].pc = "idle" /\ p' = [p EXCEPT ![w] = r]
Goto(w, pc) == p' = [p EXCEPT ![w].pc = pc]
End(w) == p' = [p EXCEPT ![w] = IdleProc]

(* submitAccountOperation: an open operation is returned, else one is sent.  *)
Sent(c, k, r) == IF Open(c, k) THEN op ELSE [op EXCEPT ![c][k] = [r EXCEPT !.st = "sent"]]

(* The triggers on passkeys: a change of the keys is a new version, and      *)
(* every active satellite has to follow it.                                  *)
SetPasskeys(keys) ==
  /\ passkeys' = keys
  /\ IF keys = passkeys THEN UNCHANGED <<desired, row>>
     ELSE /\ desired' = desired + 1
          /\ row' = [c \in Satellites |-> IF row[c].st = "active"
                                          THEN [row[c] EXCEPT !.sec = "needs_sync"] ELSE row[c]]

----------------------------------------------------------------------------
(* Passkeys of the home account: prepared, signed and mined as a             *)
(* UserOperation, then written when it settles.  The client signs with the   *)
(* passkey the server names, one of the database.                            *)

PrepareAdd(k) ==
  /\ userOp[Home].st = "none" /\ desired < MaxVersion
  /\ k \in BackupKeys \ signers[Home]
  /\ \E by \in signers[Home] \cap passkeys :
       userOp' = [userOp EXCEPT ![Home] = [NoUserOp EXCEPT !.st = "sent", !.by = by, !.adds = {k}]]
  /\ UNCHANGED <<chain, db, op, p>>

PrepareRemove(k) ==
  /\ userOp[Home].st = "none" /\ desired < MaxVersion
  /\ k \in passkeys \cap signers[Home] /\ Cardinality(signers[Home]) > 1
  /\ \E by \in signers[Home] \cap passkeys :
       userOp' = [userOp EXCEPT ![Home] = [NoUserOp EXCEPT !.st = "sent", !.by = by, !.drops = {k}]]
  /\ UNCHANGED <<chain, db, op, p>>

SettleHome ==
  /\ userOp[Home].st = "mined"
  /\ SetPasskeys((passkeys \cup userOp[Home].adds) \ userOp[Home].drops)
  /\ userOp' = [userOp EXCEPT ![Home] = NoUserOp]
  /\ UNCHANGED <<chain, op, p>>

----------------------------------------------------------------------------
(* /chains/:chainKey/activate: the version is read before the keys. *)

Activate(w, c) ==
  /\ c \in Satellites /\ row[c].st # "active" /\ ~ Open(c, "create")
  /\ Start(w, [IdleProc EXCEPT !.pc = "activate", !.kind = "create", !.c = c, !.ver = desired])
  /\ UNCHANGED <<chain, db, op, userOp>>

Deploy(w) ==
  LET keys == passkeys \cap signers[Home]
  IN /\ p[w].pc = "activate"
     /\ IF pending[Home] # NoKey \/ keys = {} \/ signers[p[w].c] # {}
        THEN End(w) /\ UNCHANGED op
        ELSE /\ op' = Sent(p[w].c, "create", [NoOp EXCEPT !.keys = keys, !.ver = p[w].ver])
             /\ Goto(w, "upsert")
     /\ UNCHANGED <<chain, db, userOp>>

(* The row is written once the operation was sent, whatever has become of it. *)
UpsertDeploying(w) ==
  LET c == p[w].c
  IN /\ p[w].pc = "upsert"
     /\ row' = [row EXCEPT ![c] = [st |-> "deploying", sec |-> "syncing",
                                   ver |-> IF row[c].st = "none" THEN p[w].ver ELSE row[c].ver]]
     /\ End(w)
     /\ UNCHANGED <<chain, passkeys, desired, op, userOp>>

----------------------------------------------------------------------------
(* /chains/:chainKey/security/prepare and the settlement of what it signs. *)

StartSync(w, c) ==
  /\ c \in Satellites /\ row[c].st = "active"
  /\ ~ (row[c].sec = "current" /\ row[c].ver = desired)
  /\ userOp[c].st = "none"
  /\ Start(w, [IdleProc EXCEPT !.pc = "sync", !.c = c, !.ver = desired])
  /\ UNCHANGED <<chain, db, op, userOp>>

(* completeUserChainSecuritySync: only if the version is still the one the   *)
(* keys were taken for.                                                      *)
CompleteSync(c, v) ==
  row' = IF row[c].st = "active" /\ desired = v
         THEN [row EXCEPT ![c].sec = "current", ![c].ver = v] ELSE row

PrepareSync(w) ==
  LET c == p[w].c
  IN /\ p[w].pc = "sync"
     /\ End(w)
     /\ \/ /\ passkeys # signers[Home] \/ passkeys \cap signers[c] = {} \/ userOp[c].st # "none"
           /\ UNCHANGED <<row, userOp>>
        \/ /\ passkeys = signers[Home] /\ passkeys = signers[c]
           /\ CompleteSync(c, p[w].ver) /\ UNCHANGED userOp
        \/ /\ passkeys = signers[Home] /\ passkeys # signers[c] /\ userOp[c].st = "none"
           /\ \E by \in passkeys \cap signers[c] :
                userOp' = [userOp EXCEPT ![c] = [st |-> "sent", by |-> by,
                              adds |-> passkeys \ signers[c], drops |-> signers[c] \ passkeys,
                              ver |-> p[w].ver]]
           /\ UNCHANGED row
     /\ UNCHANGED <<chain, passkeys, desired, op>>

SettleSync(c) ==
  /\ c \in Satellites /\ userOp[c].st = "mined"
  /\ CompleteSync(c, userOp[c].ver)
  /\ userOp' = [userOp EXCEPT ![c] = NoUserOp]
  /\ UNCHANGED <<chain, passkeys, desired, op, p>>

----------------------------------------------------------------------------
(* The guardian's recovery: each request reads every active account, then    *)
(* sends one operation per account, the satellites first.                    *)

Begin(w, k, key, todo) ==
  /\ todo # {}
  /\ Start(w, [IdleProc EXCEPT !.pc = "loop", !.kind = k, !.key = key, !.todo = todo])
  /\ UNCHANGED <<chain, db, op, userOp>>

Propose(w, k) ==
  /\ \A c \in Targets : /\ pending[c] \in {NoKey, k}
                        /\ Open(c, "propose") => op[c]["propose"].key = k
  /\ Begin(w, "propose", k, {c \in Targets : pending[c] = NoKey /\ ~ Open(c, "propose")})

Execute(w, k) ==
  /\ \A c \in Targets :
       /\ pending[c] \in {NoKey, k}
       /\ pending[c] = NoKey => Recovered(c, k) \/ Open(c, "execute")
       /\ Open(c, "execute") => op[c]["execute"].key = k
       /\ pending[c] # NoKey => c \in ripe
  /\ Begin(w, "execute", k, {c \in Targets : ~ Recovered(c, k) /\ ~ Open(c, "execute")})

Cancel(w) ==
  /\ \E c \in Targets : pending[c] # NoKey \/ Open(c, "cancel")
  /\ Begin(w, "cancel", NoKey, {c \in Targets : pending[c] # NoKey /\ ~ Open(c, "cancel")})

(* One submission of the loop; a signer that is busy ends the request. *)
SendNext(w) ==
  /\ p[w].pc = "loop"
  /\ \/ End(w) /\ UNCHANGED op
     \/ \E c \in p[w].todo :
          /\ c = Home => p[w].todo = {Home}
          /\ op' = Sent(c, p[w].kind, [NoOp EXCEPT !.key = p[w].key])
          /\ IF p[w].todo = {c} THEN End(w) ELSE p' = [p EXCEPT ![w].todo = @ \ {c}]
  /\ UNCHANGED <<chain, db, userOp>>

----------------------------------------------------------------------------
(* reconcileAccountOperation on an operation that was mined. *)

(* A closed operation is not looked at again. *)
Close(c, k) == op' = [op EXCEPT ![c][k] = NoOp]

(* proposals and cancellations change nothing here; a failed deployment      *)
(* marks its row.                                                            *)
Reconcile(c, k) ==
  /\ \/ op[c][k].st = "reverted"
     \/ op[c][k].st = "mined" /\ k \in {"propose", "cancel"}
  /\ Close(c, k)
  /\ row' = IF k = "create" THEN [row EXCEPT ![c].st = "failed", ![c].sec = "failed"] ELSE row
  /\ UNCHANGED <<chain, passkeys, desired, userOp, p>>

VariantLateVersion(c) == desired
(* The version the keys of the new account were taken for. *)
CapturedVersion(c) == op[c]["create"].ver

(* A deployment: the row becomes active under the captured version, then its *)
(* security status is compared with the version that is desired by now.      *)
FinalizeCreate(w, c) ==
  /\ op[c]["create"].st = "mined"
  /\ Start(w, [IdleProc EXCEPT !.pc = "correct", !.kind = "create", !.c = c])
  /\ row' = [row EXCEPT ![c] = [st |-> "active", sec |-> "current", ver |-> CapturedVersion(c)]]
  /\ UNCHANGED <<chain, passkeys, desired, op, userOp>>

CorrectStatus(w) ==
  LET c == p[w].c
  IN /\ p[w].pc = "correct"
     /\ row' = IF row[c].st = "active"
               THEN [row EXCEPT ![c].sec = IF row[c].ver = desired THEN "current" ELSE "needs_sync"]
               ELSE row
     /\ Goto(w, "finish")
     /\ UNCHANGED <<chain, passkeys, desired, op, userOp>>

VariantNoBarrier(k) == TRUE
(* assertRecoveryAppliedOnEveryActiveChain *)
Barrier(k) == \A c \in Targets : Recovered(c, k)

(* An executed recovery: behind the barrier the old passkeys are revoked,    *)
(* the new one is saved, every active row is marked current.                 *)
FinalizeExecute(w, c) ==
  /\ op[c]["execute"].st = "mined" /\ Barrier(op[c]["execute"].key)
  /\ Start(w, [IdleProc EXCEPT !.pc = "revoke", !.kind = "execute", !.c = c,
                               !.key = op[c]["execute"].key])
  /\ UNCHANGED <<chain, db, op, userOp>>

Revoke(w) ==
  /\ p[w].pc = "revoke"
  /\ SetPasskeys(passkeys \cap {p[w].key})
  /\ Goto(w, "save")
  /\ UNCHANGED <<chain, op, userOp>>

Save(w) ==
  /\ p[w].pc = "save"
  /\ SetPasskeys(passkeys \cup {p[w].key})
  /\ Goto(w, "complete")
  /\ UNCHANGED <<chain, op, userOp>>

CompleteRecovered(w) ==
  /\ p[w].pc = "complete"
  /\ row' = [c \in Satellites |-> IF row[c].st = "active"
                                  THEN [row[c] EXCEPT !.sec = "current", !.ver = desired] ELSE row[c]]
  /\ Goto(w, "finish")
  /\ UNCHANGED <<chain, passkeys, desired, op, userOp>>

Finish(w) ==
  /\ p[w].pc = "finish"
  /\ IF Open(p[w].c, p[w].kind) THEN Close(p[w].c, p[w].kind) ELSE UNCHANGED op
  /\ End(w)
  /\ UNCHANGED <<chain, db, userOp>>

Crash(w) == Crashes /\ p[w].pc # "idle" /\ End(w) /\ UNCHANGED <<chain, db, op, userOp>>

----------------------------------------------------------------------------
(* The chains: the factory and AccountWebAuthnV2. *)

CreateAccount(c) ==
  /\ signers[c] = {} /\ signers' = [signers EXCEPT ![c] = op[c]["create"].keys]
  /\ UNCHANGED <<pending, ripe>>

ProposeRecovery(c) ==
  /\ pending[c] = NoKey /\ pending' = [pending EXCEPT ![c] = op[c]["propose"].key]
  /\ UNCHANGED <<signers, ripe>>

ClearRecovery(c) == pending' = [pending EXCEPT ![c] = NoKey] /\ ripe' = ripe \ {c}

GuardianCancelRecovery(c) == pending[c] # NoKey /\ ClearRecovery(c) /\ UNCHANGED signers

(* The new signers are added before the old ones are removed: a key that is  *)
(* a signer already makes it revert.                                         *)
ExecuteRecovery(c) ==
  /\ pending[c] # NoKey /\ c \in ripe /\ pending[c] \notin signers[c]
  /\ signers' = [signers EXCEPT ![c] = {pending[c]}]
  /\ ClearRecovery(c)

Effect(c, k) ==
  \/ k = "create" /\ CreateAccount(c)
  \/ k = "propose" /\ ProposeRecovery(c)
  \/ k = "execute" /\ ExecuteRecovery(c)
  \/ k = "cancel" /\ GuardianCancelRecovery(c)

Reverts(c, k) ==
  \/ k = "create" /\ signers[c] # {}
  \/ k = "propose" /\ pending[c] # NoKey
  \/ k = "execute" /\ (pending[c] = NoKey \/ c \notin ripe \/ pending[c] \in signers[c])
  \/ k = "cancel" /\ pending[c] = NoKey

MineOp(c, k) ==
  /\ op[c][k].st = "sent"
  /\ \/ Effect(c, k) /\ op' = [op EXCEPT ![c][k].st = "mined"]
     \/ Reverts(c, k) /\ op' = [op EXCEPT ![c][k].st = "reverted"] /\ UNCHANGED chain
  /\ UNCHANGED <<db, userOp, p>>

(* A UserOperation fails if its signer was replaced or its call reverts; the *)
(* last signer cannot be removed.                                            *)
MineUserOp(c) ==
  LET u == userOp[c]
      valid == u.by \in signers[c] /\ u.adds \cap signers[c] = {} /\ u.drops \subseteq signers[c]
               /\ (signers[c] \cup u.adds) \ u.drops # {}
  IN /\ u.st = "sent"
     /\ userOp' = [userOp EXCEPT ![c] = IF valid THEN [u EXCEPT !.st = "mined"] ELSE NoUserOp]
     /\ signers' = IF valid THEN [signers EXCEPT ![c] = (@ \cup u.adds) \ u.drops] ELSE signers
     /\ UNCHANGED <<pending, ripe, db, op, p>>

(* The delay of 48 hours outlasts every request and UserOperation, and the   *)
(* 24 hours after which an operation that was not mined is given up.         *)
Ripen(c) ==
  /\ pending[c] # NoKey /\ c \notin ripe
  /\ \A s \in Chains : ~ Open(s, "create") /\ userOp[s].st = "none"
  /\ \A w \in Procs : p[w].pc = "idle"
  /\ ripe' = ripe \cup {c}
  /\ UNCHANGED <<signers, pending, db, op, userOp, p>>

Step(w) ==
  \/ Deploy(w) \/ UpsertDeploying(w) \/ PrepareSync(w) \/ SendNext(w)
  \/ CorrectStatus(w) \/ Revoke(w) \/ Save(w) \/ CompleteRecovered(w) \/ Finish(w)

Next ==
  \/ \E k \in Keys : PrepareAdd(k) \/ PrepareRemove(k)
  \/ SettleHome
  \/ \E c \in Chains :
       \/ SettleSync(c) \/ MineUserOp(c) \/ Ripen(c)
       \/ \E k \in OpKinds : MineOp(c, k) \/ Reconcile(c, k)
       \/ \E w \in Web : Activate(w, c) \/ StartSync(w, c)
       \/ \E w \in Cron : FinalizeCreate(w, c) \/ FinalizeExecute(w, c)
  \/ \E w \in Web : Cancel(w) \/ \E k \in RecoveryKeys : Propose(w, k) \/ Execute(w, k)
  \/ \E w \in Procs : Step(w) \/ Crash(w)

Spec == Init /\ [][Next]_vars

----------------------------------------------------------------------------
(* The state keeps its types. *)
TypeOK ==
  /\ signers \in [Chains -> SUBSET Keys] /\ pending \in [Chains -> RecoveryKeys \cup {NoKey}]
  /\ ripe \subseteq Chains /\ passkeys \subseteq Keys /\ desired \in Nat
  /\ \A c \in Satellites : row[c].st \in {"none", "deploying", "active", "failed"}
  /\ \A c \in Chains, k \in OpKinds :
       op[c][k].st \in {"none", "sent", "mined", "reverted"}
  /\ \A w \in Procs : p[w].todo \subseteq Chains

(* The keys of recoveries that were executed and not yet taken over. *)
RecoveringKeys ==
  {op[c]["execute"].key : c \in {x \in Chains : op[x]["execute"].st \in {"sent", "mined"}}}

(* The user is never locked out by the bookkeeping: the home account, and    *)
(* every satellite shown as synchronised, has a signer that the database     *)
(* offers for signing, or will take over when the recovery is finalized.     *)
NobodyIsLockedOut ==
  \A c \in Targets :
    c = Home \/ (row[c].sec = "current" /\ row[c].ver = desired)
      => signers[c] \cap (passkeys \cup RecoveringKeys) # {}

(* The same for every active account.  A satellite that was activated before *)
(* its first key was removed at home, and not synchronised in between, has   *)
(* no signer left that the database offers.                                  *)
SatellitesCanFollow ==
  \A c \in Targets : signers[c] \cap (passkeys \cup RecoveringKeys) # {}

(* Passkeys are replaced only behind the barrier: while the rows are being   *)
(* written, every active account has the recovered key, and no account has   *)
(* kept an old one.                                                          *)
ReplacedOnlyWhenUniform ==
  \A w \in Procs : p[w].pc \in {"revoke", "save", "complete"} =>
    \A c \in Targets : p[w].key \in signers[c] /\ FirstKeys \cap signers[c] = {}

(* A recovery never costs its owner an account: no key is replaced before     *)
(* every active account has the new one, and each keeps a key the database    *)
(* offers.                                                                    *)
RecoveryKeepsAccess == NobodyIsLockedOut /\ ReplacedOnlyWhenUniform

(* An account shown as synchronised has every key that signs for the home    *)
(* account and none the database does not list, unless a recovery has been   *)
(* executed on it and is not finalized yet.                                  *)
CurrentMeansSameKeys ==
  \A c \in Satellites :
    ( /\ row[c].st = "active" /\ row[c].sec = "current" /\ row[c].ver = desired
      /\ \A x \in Chains : op[x]["execute"].st \notin {"sent", "mined"} )
    => passkeys \cap signers[Home] \subseteq signers[c] /\ signers[c] \subseteq passkeys

(* Once nothing is under way the passkeys of the database are the signers of *)
(* the home account.                                                         *)
PasskeysAreSigners ==
  ( /\ userOp[Home].st = "none" /\ op[Home]["execute"].st \notin {"sent", "mined"}
    /\ \A w \in Procs : p[w].pc = "idle" )
  => passkeys = signers[Home]

=============================================================================
