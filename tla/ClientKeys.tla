----------------------------- MODULE ClientKeys -----------------------------
(***************************************************************************)
(* The pages that manage the account's passkeys (client/src pages Recover  *)
(* and Security, lib webauthn, passkeySignals and accountOperations) on    *)
(* the devices of one user: the recovery pointer a device keeps for the    *)
(* days a proposal waits, the keys it creates before the server knows      *)
(* them, and the signals by which a password manager is told which of its  *)
(* credentials the account accepts.                                        *)
(*                                                                         *)
(* A key is a number.  The server's operations and the account contract    *)
(* are modelled by their outcome (AccountSecurity and SmartAccount have    *)
(* them whole); proving control of the e-mail address is not modelled.     *)
(***************************************************************************)
EXTENDS Naturals, Sequences, FiniteSets

CONSTANTS Devices,
          MaxKeys,     \* keys created, the first one included
          MaxOps,      \* operations the server accepts
          MaxReloads,  \* reloads of a page, lost answers and waits that give up
          None

VARIABLES manager,   \* per device: the keys of its password manager
          hidden,    \* per device: the keys the manager was told to hide
          pointer,   \* per device: the key it keeps for its recovery, or None
          view,      \* per device: what Recover last read of the account
          flow,      \* per device: the running handler
          pendingPasskey, \* per device: Security's key that is not added yet
          ops,       \* operations the server accepted
          signers, proposal, mature,   \* the account contract
          stored,    \* the server's inventory of passkeys
          keys,      \* keys created so far
          proposed,  \* keys ever proposed on chain
          forgotten, \* keys a manager was told to forget
          reloads

vars == <<manager, hidden, pointer, view, flow, pendingPasskey, ops, signers, proposal, mature,
          stored, keys, proposed, forgotten, reloads>>
chain == <<signers, proposal, mature, stored, proposed>>
-----------------------------------------------------------------------------
Idle == [at |-> "idle", key |-> None, op |-> None]
Recoveries == {"propose", "execute", "cancel"}

\* The first key is on one of the devices, or on a phone that was lost.
Init ==
    /\ \E d \in Devices \cup {None} : manager = [x \in Devices |-> IF x = d THEN {1} ELSE {}]
    /\ hidden = [d \in Devices |-> {}]
    /\ pointer = [d \in Devices |-> None]
    /\ view = [d \in Devices |-> None]
    /\ flow = [d \in Devices |-> Idle]
    /\ pendingPasskey = [d \in Devices |-> None]
    /\ ops = <<>>
    /\ signers = {1} /\ stored = {1}
    /\ proposal = None /\ mature = FALSE /\ proposed = {}
    /\ keys = 1 /\ forgotten = {}
    /\ reloads = 0

\* A recovery is pending from its accepted operation until the chain has none.
RecoveryPending ==
    proposal # None \/ \E o \in DOMAIN ops : ops[o].kind \in Recoveries /\ ops[o].status # "ended"

Status == [pending |-> RecoveryPending, ready |-> proposal # None /\ mature]

PhaseFromStatus(d) ==
    CASE view[d] = None -> "loading"
      [] ~ view[d].pending -> "intro"
      [] view[d].ready -> IF pointer[d] # None THEN "ready" ELSE "ready-elsewhere"
      [] OTHER -> IF pointer[d] # None THEN "pending" ELSE "pending-elsewhere"

Usable(d) == (manager[d] \ hidden[d]) \cap signers
To(d, at, key, op) == flow' = [flow EXCEPT ![d] = [at |-> at, key |-> key, op |-> op]]
Stop(d) == flow' = [flow EXCEPT ![d] = Idle]
Lost == reloads < MaxReloads /\ reloads' = reloads + 1
Refreshed(d) == view' = [view EXCEPT ![d] = Status]

\* The account's nonce: its executed user operations.  An operation prepared
\* with an older one fails.
Nonce == Cardinality({o \in DOMAIN ops : ops[o].kind \in {"add", "remove"} /\ ops[o].done})

Accept(kind, key) == /\ Len(ops) < MaxOps
                     /\ ops' = Append(ops, [kind |-> kind, key |-> key, status |-> "sent", done |-> FALSE,
                                             nonce |-> Nonce])
-----------------------------------------------------------------------------
\* The authenticator makes a key the account does not know yet.
CreatePasskey(d) ==
    /\ keys < MaxKeys /\ keys' = keys + 1
    /\ manager' = [manager EXCEPT ![d] = @ \cup {keys + 1}]

Refresh(d) ==
    /\ flow[d].at = "idle"
    /\ Refreshed(d)
    /\ UNCHANGED <<manager, hidden, pointer, flow, pendingPasskey, ops, chain, keys, reloads, forgotten>>

\* The preflight refuses a second recovery; then the device creates its key,
\* unless the user dismisses the prompt.
HandleStart(d) ==
    /\ flow[d].at = "idle" /\ PhaseFromStatus(d) = "intro"
    /\ \/ RecoveryPending /\ Refreshed(d) /\ UNCHANGED <<manager, keys, flow>>
       \/ /\ ~ RecoveryPending
          /\ CreatePasskey(d)
          /\ To(d, "proposing", keys + 1, None)
          /\ UNCHANGED view
    /\ UNCHANGED <<hidden, pointer, pendingPasskey, ops, chain, reloads, forgotten>>

\* Somebody proposed first: the key just created is not the proposed one.
ProposedElsewhere(d) == UNCHANGED pointer

ProposeRecovery(d) ==
    /\ flow[d].at = "proposing"
    /\ \/ RecoveryPending /\ ProposedElsewhere(d) /\ Refreshed(d) /\ Stop(d) /\ UNCHANGED <<ops, reloads>>
       \/ /\ ~ RecoveryPending /\ Accept("propose", flow[d].key)
          /\ \/ To(d, "waiting", flow[d].key, Len(ops) + 1) /\ UNCHANGED reloads
             \/ Lost /\ Stop(d)
          /\ UNCHANGED <<pointer, view>>
    /\ UNCHANGED <<manager, hidden, pendingPasskey, chain, keys, forgotten>>

\* Only a confirmed proposal makes the key the recovery's.
Promote(d) ==
    /\ flow[d].at = "waiting" /\ ops[flow[d].op].kind = "propose"
    /\ ops[flow[d].op].status = "ended"
    /\ pointer' = IF ops[flow[d].op].done THEN [pointer EXCEPT ![d] = flow[d].key] ELSE pointer
    /\ view' = IF ops[flow[d].op].done THEN [view EXCEPT ![d] = Status] ELSE [view EXCEPT ![d] = None]
    /\ Stop(d)
    /\ UNCHANGED <<manager, hidden, pendingPasskey, ops, chain, keys, reloads, forgotten>>

\* The server compares the pointer with the proposal before it accepts.
HandleExecute(d) ==
    /\ flow[d].at = "idle" /\ PhaseFromStatus(d) = "ready"
    /\ \/ /\ proposal = None \/ proposal # pointer[d]
          /\ pointer' = [pointer EXCEPT ![d] = None]
          /\ view' = IF proposal = None THEN [view EXCEPT ![d] = None] ELSE [view EXCEPT ![d] = Status]
          /\ UNCHANGED <<ops, flow>>
       \/ /\ proposal = pointer[d] /\ ~ mature
          /\ Refreshed(d)
          /\ UNCHANGED <<pointer, ops, flow>>
       \/ /\ proposal = pointer[d] /\ mature
          /\ Accept("execute", pointer[d])
          /\ To(d, "waiting", pointer[d], Len(ops) + 1)
          /\ UNCHANGED <<pointer, view>>
    /\ UNCHANGED <<manager, hidden, pendingPasskey, chain, keys, reloads, forgotten>>

HandleCancel(d) ==
    /\ flow[d].at = "idle"
    /\ PhaseFromStatus(d) \in {"ready", "ready-elsewhere", "pending", "pending-elsewhere"}
    /\ \/ /\ proposal = None
          /\ pointer' = [pointer EXCEPT ![d] = None]
          /\ view' = [view EXCEPT ![d] = None]
          /\ UNCHANGED <<ops, flow>>
       \/ /\ proposal # None /\ Accept("cancel", None)
          /\ To(d, "waiting", None, Len(ops) + 1)
          /\ UNCHANGED <<pointer, view>>
    /\ UNCHANGED <<manager, hidden, pendingPasskey, chain, keys, reloads, forgotten>>

\* The wait for an execution or a cancellation ends: done drops the pointer.
WaitForAccountOperation(d) ==
    /\ flow[d].at = "waiting" /\ ops[flow[d].op].kind \in {"execute", "cancel"}
    /\ ops[flow[d].op].status = "ended"
    /\ pointer' = IF ops[flow[d].op].done THEN [pointer EXCEPT ![d] = None] ELSE pointer
    /\ view' = [view EXCEPT ![d] = None]
    /\ Stop(d)
    /\ UNCHANGED <<manager, hidden, pendingPasskey, ops, chain, keys, reloads, forgotten>>

\* A page is loaded again, or its wait of two minutes gives up.
Reload(d) ==
    /\ Lost
    /\ Stop(d)
    /\ view' = [view EXCEPT ![d] = None]
    /\ pendingPasskey' = [pendingPasskey EXCEPT ![d] = None]
    /\ UNCHANGED <<manager, hidden, pointer, ops, chain, keys, forgotten>>
-----------------------------------------------------------------------------
\* The server's inventory is complete when it lists the contract's signers.
InventoryComplete == stored = signers

\* Security tells the manager of every complete inventory it reads.
SignalCompletePasskeyInventory(d) ==
    hidden' = IF InventoryComplete THEN [hidden EXCEPT ![d] = manager[d] \ stored] ELSE hidden

RefreshSecurity(d) ==
    /\ flow[d].at = "idle"
    /\ SignalCompletePasskeyInventory(d)
    /\ UNCHANGED <<manager, pointer, view, flow, pendingPasskey, ops, chain, keys, reloads, forgotten>>

\* A key that could not be added is kept in the page and offered again.
HandleAddPasskey(d) ==
    /\ flow[d].at = "idle" /\ Usable(d) # {}
    /\ \/ /\ pendingPasskey[d] = None
          /\ CreatePasskey(d)
          /\ pendingPasskey' = [pendingPasskey EXCEPT ![d] = keys + 1]
          /\ UNCHANGED <<ops, hidden, reloads>>
       \/ /\ pendingPasskey[d] # None
          /\ pendingPasskey[d] \notin signers
          /\ Accept("add", pendingPasskey[d])
          /\ \/ /\ pendingPasskey' = [pendingPasskey EXCEPT ![d] = None]
                /\ SignalCompletePasskeyInventory(d)
                /\ UNCHANGED reloads
             \/ Lost /\ UNCHANGED <<pendingPasskey, hidden>>
          /\ UNCHANGED <<manager, keys>>
    /\ UNCHANGED <<pointer, view, flow, chain, forgotten>>

HandleRemovePasskey(d) ==
    /\ flow[d].at = "idle" /\ Usable(d) # {}
    /\ \E k \in stored :
         /\ Accept("remove", k)
         /\ To(d, "removing", k, Len(ops) + 1)
    /\ UNCHANGED <<manager, hidden, pointer, view, pendingPasskey, chain, keys, reloads, forgotten>>

\* The answer of the submit call: settled, or only on its way.
SubmitConfirmed(o) == ops[o].status = "ended" /\ ops[o].done

\* A manager forgets a key only once its removal is confirmed.
SignalRemovedPasskey(d) ==
    /\ flow[d].at = "removing"
    /\ manager' = IF SubmitConfirmed(flow[d].op) THEN [manager EXCEPT ![d] = @ \ {flow[d].key}] ELSE manager
    /\ forgotten' = IF SubmitConfirmed(flow[d].op) THEN forgotten \cup {flow[d].key} ELSE forgotten
    /\ Stop(d)
    /\ UNCHANGED <<hidden, pointer, view, pendingPasskey, ops, chain, keys, reloads>>
-----------------------------------------------------------------------------
\* The account contract executes an operation, or it fails.
Executes(op) ==
    /\ signers' = CASE op.kind = "add" -> signers \cup {op.key}
                    [] op.kind = "remove" -> signers \ {op.key}
                    [] op.kind = "execute" -> {op.key}
                    [] OTHER -> signers
    /\ proposal' = CASE op.kind = "propose" -> op.key
                     [] op.kind \in {"execute", "cancel"} -> None
                     [] OTHER -> proposal
    /\ proposed' = IF op.kind = "propose" THEN proposed \cup {op.key} ELSE proposed
    /\ mature' = IF op.kind \in Recoveries THEN FALSE ELSE mature

Executable(op) ==
    CASE op.kind = "add" -> op.nonce = Nonce /\ op.key \notin signers
      [] op.kind = "remove" -> op.nonce = Nonce /\ op.key \in signers /\ Cardinality(signers) > 1
      [] op.kind = "propose" -> proposal = None
      [] op.kind = "execute" -> proposal = op.key /\ mature
      [] op.kind = "cancel" -> proposal # None

Land ==
    /\ \E o \in DOMAIN ops :
         /\ ops[o].status = "sent"
         /\ \/ /\ Executable(ops[o]) /\ Executes(ops[o])
               /\ ops' = [ops EXCEPT ![o].status = "landed", ![o].done = TRUE]
            \/ /\ ~ Executable(ops[o])
               /\ ops' = [ops EXCEPT ![o].status = "ended"]
               /\ UNCHANGED <<signers, proposal, mature, proposed>>
    /\ UNCHANGED <<manager, hidden, pointer, view, flow, pendingPasskey, stored, keys, reloads, forgotten>>

\* The server settles what landed and updates its inventory.
Settle ==
    /\ \E o \in DOMAIN ops :
         /\ ops[o].status = "landed"
         /\ ops' = [ops EXCEPT ![o].status = "ended"]
         /\ stored' = CASE ops[o].kind = "add" -> stored \cup {ops[o].key}
                        [] ops[o].kind = "remove" -> stored \ {ops[o].key}
                        [] ops[o].kind = "execute" -> {ops[o].key}
                        [] OTHER -> stored
    /\ UNCHANGED <<manager, hidden, pointer, view, flow, pendingPasskey, signers, proposal, mature,
                   keys, proposed, reloads, forgotten>>

DelayPasses ==
    /\ proposal # None /\ ~ mature
    /\ mature' = TRUE
    /\ UNCHANGED <<manager, hidden, pointer, view, flow, pendingPasskey, ops, signers, proposal,
                   stored, keys, proposed, reloads, forgotten>>

Next == \/ \E d \in Devices :
             \/ Refresh(d) \/ HandleStart(d) \/ ProposeRecovery(d) \/ Promote(d)
             \/ HandleExecute(d) \/ HandleCancel(d) \/ WaitForAccountOperation(d) \/ Reload(d)
             \/ RefreshSecurity(d)
             \/ HandleAddPasskey(d) \/ HandleRemovePasskey(d) \/ SignalRemovedPasskey(d)
        \/ Land \/ Settle \/ DelayPasses

Spec == Init /\ [][Next]_vars
-----------------------------------------------------------------------------
\* Keys are numbers created so far and the pages are in a known place.
TypeOK ==
    /\ \A d \in Devices : manager[d] \subseteq 1..keys /\ pointer[d] \in 1..keys \cup {None}
    /\ signers \subseteq 1..keys /\ stored \subseteq 1..keys
    /\ proposal \in 1..keys \cup {None}

\* A device never keeps, for its recovery, a key that was not proposed on chain,
\* whoever else proposes, cancels or executes meanwhile ("NEVER promote the key
\* we just created: the on-chain proposal is for a DIFFERENT qx/qy").
PointerWasProposed == \A d \in Devices : pointer[d] # None => pointer[d] \in proposed

\* No signer of the account is a key that its manager was told to forget.
SignersAreHeld == forgotten \cap signers = {}

\* A password manager is never told to hide a key that the account accepts.
SignersAreOffered == \A d \in Devices : hidden[d] \cap signers = {}
=============================================================================
