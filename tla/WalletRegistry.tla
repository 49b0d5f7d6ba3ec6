--------------------------- MODULE WalletRegistry ---------------------------
(***************************************************************************)
(* How a wallet comes to be watched.  A change of a user's wallet leaves a *)
(* row in the registry outbox; the registry job assigns the wallet to a    *)
(* shard and wakes the readers of that shard; the address job of a webhook *)
(* slot brings the provider's subscription in line with the shards it      *)
(* covers; and the provider's deliveries wake readers by wallet.           *)
(*                                                                         *)
(* The three streams of a wallet are assigned alike and at once: one       *)
(* stands for them.  Jobs are durable and run alone per partition, which   *)
(* is what EventJobs shows.                                                *)
(***************************************************************************)
EXTENDS Naturals, FiniteSets

CONSTANTS Users, Addresses,
          ShardSize,     \* max_wallets of a shard
          ShardsPerSlot, \* ALCHEMY_SHARDS_PER_WEBHOOK
          Chunk,         \* PATCH_CHUNK_SIZE and the size of a remote page
          MaxShards,     \* bound: shards
          MaxChanges,    \* bound: changes of wallets
          MaxFaults,     \* bound: calls that fail, jobs that die
          Leftover,      \* addresses the subscription had before
          Hooks,         \* attempts of the provider to deliver one event
          None

Shards == 0..(MaxShards - 1)
Slot(k) == k \div ShardsPerSlot
Slots == {Slot(k) : k \in Shards}
NoAssignment == [uid |-> None, shard |-> 0]
NoRow == [on |-> FALSE, w |-> None]
IdleReg == [pc |-> "idle", u |-> None, w |-> None]
IdleRun == [pc |-> "idle", add |-> {}, remove |-> {}]

VARIABLES wallet,    \* users.wallet_address, or None
          box,       \* the registry outbox: the wallet to assign
          shards,    \* number of indexer_shards
          asg,       \* the active assignment of an address
          woken,     \* addresses whose readers were scheduled since assigned
          reg,       \* the registry job
          due,       \* slots whose address job is scheduled
          remote,    \* the provider's subscription, by slot
          mirror,    \* provider_subscription_items
          scanned,   \* provider_subscription_sync_state: addresses listed
          ready,     \*   ... and whether the listing is over
          run,       \* the address job, by slot
          torn,      \* a patch the mirror did not follow
          delivery,  \* chain_source_deliveries of the event
          hook, answered, signalled,
          changes, faults

registry == <<wallet, box, shards, asg, woken, reg>>
provider == <<remote, mirror, scanned, ready, run, torn>>
hooks == <<delivery, hook, answered, signalled>>
vars == <<registry, due, provider, hooks, changes, faults>>

Init ==
  /\ wallet = [u \in Users |-> None] /\ box = [u \in Users |-> [on |-> TRUE, w |-> None]]
  /\ shards = 0 /\ asg = [a \in Addresses |-> NoAssignment] /\ woken = {} /\ reg = IdleReg
  /\ due = {} /\ remote = [s \in Slots |-> IF s = 0 THEN Leftover ELSE {}]
  /\ mirror = [s \in Slots |-> {}] /\ scanned = [s \in Slots |-> {}]
  /\ ready = [s \in Slots |-> FALSE] /\ run = [s \in Slots |-> IdleRun] /\ torn = FALSE
  /\ delivery = "none" /\ hook = [h \in Hooks |-> "idle"] /\ answered = FALSE /\ signalled = FALSE
  /\ changes = 0 /\ faults = 0

----------------------------------------------------------------------------
(* A wallet is set or taken away: the trigger replaces the user's row. *)

ReplaceRow(u, w) ==
  /\ changes < MaxChanges /\ changes' = changes + 1
  /\ w # wallet[u] /\ (w # None => \A v \in Users : wallet[v] # w)
  /\ wallet' = [wallet EXCEPT ![u] = w] /\ box' = [box EXCEPT ![u] = [on |-> TRUE, w |-> w]]
  /\ UNCHANGED <<shards, asg, woken, reg, due, provider, hooks, faults>>

UserWalletChanges(u, w) == w # None /\ ReplaceRow(u, w)
(* The account of another chain becomes active, or stops being so. *)
ChainAccountChanges(u, w) == (w = None \/ wallet[u] = None) /\ ReplaceRow(u, w)

----------------------------------------------------------------------------
(* The registry job, one row at a time. *)

Owned(u) == {a \in Addresses : asg[a].uid = u}

ListRow(u) ==
  /\ reg.pc = "idle" /\ box[u].on
  /\ reg' = [pc |-> "prior", u |-> u, w |-> box[u].w]
  /\ UNCHANGED <<wallet, box, shards, asg, woken, due, provider, hooks, changes, faults>>

(* The slot that is about to lose the wallet is scheduled first. *)
SchedulePriorSlot ==
  /\ reg.pc = "prior" /\ reg' = [reg EXCEPT !.pc = "deactivate"]
  /\ due' = due \cup {Slot(asg[a].shard) : a \in Owned(reg.u)}
  /\ UNCHANGED <<wallet, box, shards, asg, woken, provider, hooks, changes, faults>>

Deactivate ==
  LET gone == Owned(reg.u) \ {reg.w} IN
  /\ reg.pc = "deactivate"
  /\ asg' = [a \in Addresses |-> IF a \in gone THEN NoAssignment ELSE asg[a]]
  /\ woken' = woken \ gone
  /\ reg' = [reg EXCEPT !.pc = IF reg.w = None THEN "delete" ELSE "assign"]
  /\ UNCHANGED <<wallet, box, shards, due, provider, hooks, changes, faults>>

Load(k) == Cardinality({a \in Addresses \ {reg.w} : asg[a].uid # None /\ asg[a].shard = k})
HasRoom(k) == Load(k) < ShardSize
(* The first shard with room, or a new one. *)
FreeShards == {k \in Shards : k < shards /\ HasRoom(k)}
NewShard == IF FreeShards = {} THEN shards
            ELSE CHOOSE k \in FreeShards : \A j \in FreeShards : k <= j

(* An assignment the user has is kept; anyone else's is replaced. *)
AssignWallet ==
  /\ reg.pc = "assign" /\ reg' = [reg EXCEPT !.pc = "schedule"]
  /\ IF asg[reg.w].uid = reg.u THEN UNCHANGED <<asg, shards, woken>>
     ELSE /\ NewShard \in Shards
          /\ asg' = [asg EXCEPT ![reg.w] = [uid |-> reg.u, shard |-> NewShard]]
          /\ shards' = IF NewShard = shards THEN shards + 1 ELSE shards
          /\ woken' = woken \ {reg.w}
  /\ UNCHANGED <<wallet, box, due, provider, hooks, changes, faults>>

ScheduleAssignmentPartitions ==
  /\ reg.pc = "schedule" /\ reg' = [reg EXCEPT !.pc = "delete"]
  /\ woken' = woken \cup {reg.w} /\ due' = due \cup {Slot(asg[reg.w].shard)}
  /\ UNCHANGED <<wallet, box, shards, asg, provider, hooks, changes, faults>>

(* The row is deleted only while it still names the wallet that was assigned. *)
SameWallet == box[reg.u].w = reg.w

DeleteRow ==
  /\ reg.pc = "delete" /\ reg' = IdleReg
  /\ box' = IF SameWallet THEN [box EXCEPT ![reg.u] = NoRow] ELSE box
  /\ UNCHANGED <<wallet, shards, asg, woken, due, provider, hooks, changes, faults>>

(* A statement or a schedule fails, or the job dies: the row stays. *)
RowFailed ==
  /\ reg.pc # "idle" /\ faults < MaxFaults /\ faults' = faults + 1 /\ reg' = IdleReg
  /\ UNCHANGED <<wallet, box, shards, asg, woken, due, provider, hooks, changes>>

----------------------------------------------------------------------------
(* The address job of a slot. *)

Go(s, pc) == run' = [run EXCEPT ![s].pc = pc]
InSlot(s) == {a \in Addresses : asg[a].uid # None /\ Slot(asg[a].shard) = s}
Chunks(S) == {C \in SUBSET S : Cardinality(C) = IF Cardinality(S) < Chunk THEN Cardinality(S) ELSE Chunk}

SyncAlchemyWebhookAddresses(s) ==
  /\ s \in due /\ run[s].pc = "idle" /\ due' = due \ {s}
  /\ Go(s, IF ready[s] THEN "list" ELSE "scan")
  /\ UNCHANGED <<registry, torn, remote, mirror, scanned, ready, hooks, changes, faults>>

(* A page of the subscription goes to the mirror together with the cursor; *)
(* a listing that is not over continues in another job.                    *)
BootstrapRemoteMirror(s) ==
  /\ run[s].pc = "scan"
  /\ \E page \in Chunks(remote[s] \ scanned[s]) :
       /\ scanned' = [scanned EXCEPT ![s] = @ \cup page]
       /\ mirror' = [mirror EXCEPT ![s] = @ \cup page]
       /\ ready' = [ready EXCEPT ![s] = remote[s] \subseteq scanned[s] \cup page]
       /\ IF ready'[s] THEN Go(s, "list") /\ UNCHANGED due
          ELSE run' = [run EXCEPT ![s] = IdleRun] /\ due' = due \cup {s}
  /\ UNCHANGED <<registry, torn, remote, hooks, changes, faults>>

ListAddressMutations(s) ==
  /\ run[s].pc = "list"
  /\ \E add \in Chunks(InSlot(s) \ mirror[s]) : \E remove \in Chunks(mirror[s] \ InSlot(s)) :
       run' = [run EXCEPT ![s] = [pc |-> "patch", add |-> add, remove |-> remove]]
  /\ UNCHANGED <<registry, due, torn, remote, mirror, scanned, ready, hooks, changes, faults>>

Patched(S, s) == (S \cup run[s].add) \ run[s].remove

PatchRemoteAddresses(s) ==
  /\ run[s].pc = "patch" /\ Go(s, "mirror") /\ remote' = [remote EXCEPT ![s] = Patched(@, s)]
  /\ UNCHANGED <<registry, due, torn, mirror, scanned, ready, hooks, changes, faults>>

(* A full chunk means that more may wait. *)
Remaining(s) == Cardinality(run[s].add) = Chunk \/ Cardinality(run[s].remove) = Chunk

UpdateLocalMirror(s) ==
  /\ run[s].pc = "mirror" /\ run' = [run EXCEPT ![s] = IdleRun]
  /\ mirror' = [mirror EXCEPT ![s] = Patched(@, s)]
  /\ due' = IF Remaining(s) THEN due \cup {s} ELSE due
  /\ UNCHANGED <<registry, torn, remote, scanned, ready, hooks, changes, faults>>

(* The provider refuses, its answer is lost, or the job dies: it runs again. *)
SyncFailed(s) ==
  /\ run[s].pc # "idle" /\ faults < MaxFaults /\ faults' = faults + 1
  /\ run' = [run EXCEPT ![s] = IdleRun] /\ due' = due \cup {s}
  /\ \/ UNCHANGED remote /\ torn' = (torn \/ run[s].pc = "mirror")
     \/ /\ run[s].pc = "patch" /\ torn' = TRUE
        /\ remote' = [remote EXCEPT ![s] = Patched(@, s)]
  /\ UNCHANGED <<registry, mirror, scanned, ready, hooks, changes>>

----------------------------------------------------------------------------
(* A delivery of the provider, which is sent again until it is answered. *)

VariantSeen == delivery # "none"
Seen == delivery = "processed"

RecordSourceDelivery(h) ==
  /\ hook[h] = "idle" /\ ~ answered
  /\ IF Seen THEN answered' = TRUE /\ UNCHANGED <<delivery, hook>>
     ELSE /\ delivery' = "received" /\ hook' = [hook EXCEPT ![h] = "schedule"]
          /\ UNCHANGED answered
  /\ UNCHANGED <<registry, due, provider, signalled, changes, faults>>

(* The partitions of the wallets, and the balances, are scheduled; a wallet *)
(* without an assignment wakes the registry instead.                        *)
Signal(h) ==
  /\ hook[h] = "schedule" /\ hook' = [hook EXCEPT ![h] = "finish"] /\ signalled' = TRUE
  /\ UNCHANGED <<registry, due, provider, delivery, answered, changes, faults>>
ScheduleTransferIndexerPartitions(h) == Signal(h)
(* The custom webhook wakes the recovery readers, all of them if it names none. *)
ScheduleWalletWatcherPartitions(h) == Signal(h)

FinishSourceDelivery(h) ==
  /\ hook[h] = "finish" /\ hook' = [hook EXCEPT ![h] = "idle"]
  /\ delivery' = "processed" /\ answered' = TRUE
  /\ UNCHANGED <<registry, due, provider, signalled, changes, faults>>

HookDies(h) ==
  /\ hook[h] # "idle" /\ faults < MaxFaults /\ faults' = faults + 1
  /\ hook' = [hook EXCEPT ![h] = "idle"]
  /\ UNCHANGED <<registry, due, provider, delivery, answered, signalled, changes>>

----------------------------------------------------------------------------
Next ==
  \/ \E u \in Users : ListRow(u) \/ \E w \in Addresses \cup {None} :
                                   UserWalletChanges(u, w) \/ ChainAccountChanges(u, w)
  \/ SchedulePriorSlot \/ Deactivate \/ AssignWallet \/ ScheduleAssignmentPartitions
  \/ DeleteRow \/ RowFailed
  \/ \E s \in Slots : SyncAlchemyWebhookAddresses(s) \/ BootstrapRemoteMirror(s)
        \/ ListAddressMutations(s) \/ PatchRemoteAddresses(s) \/ UpdateLocalMirror(s) \/ SyncFailed(s)
  \/ \E h \in Hooks : RecordSourceDelivery(h) \/ ScheduleTransferIndexerPartitions(h)
        \/ ScheduleWalletWatcherPartitions(h)
        \/ FinishSourceDelivery(h) \/ HookDies(h)

Spec == Init /\ [][Next]_vars

----------------------------------------------------------------------------
(* Properties *)

(* The registry, the jobs and the subscriptions keep their domains. *)
TypeOK ==
  /\ shards \in 0..MaxShards /\ due \subseteq Slots /\ woken \subseteq Addresses
  /\ \A a \in Addresses : asg[a].uid \in Users \cup {None} /\ asg[a].shard \in Shards
  /\ \A s \in Slots : run[s].add \subseteq Addresses /\ remote[s] \subseteq Addresses

(* No row waits, and no job is due or at work. *)
Quiet ==
  /\ \A u \in Users : ~ box[u].on
  /\ reg.pc = "idle" /\ due = {} /\ \A s \in Slots : run[s].pc = "idle"

(* Once the jobs are quiet, every wallet is assigned to its user, the readers *)
(* of its shard were woken after that, and the provider reports on it:        *)
(* whatever died, changed or was reassigned while the jobs were at work       *)
(* (drainIndexerWalletRegistry, syncAlchemyWebhookAddresses).  A patch that   *)
(* took effect without its mirror is the one exception.                       *)
EveryWalletIsWatched ==
  Quiet => \A u \in Users : wallet[u] # None =>
     LET s == Slot(asg[wallet[u]].shard) IN
     /\ asg[wallet[u]].uid = u /\ wallet[u] \in woken /\ wallet[u] \in mirror[s]
     /\ torn \/ wallet[u] \in remote[s]

(* The same without the exception: a patch that removed a wallet, lost before *)
(* the mirror followed, is never undone when the wallet comes back.           *)
ProviderFollows ==
  Quiet => \A u \in Users : wallet[u] # None =>
     wallet[u] \in remote[Slot(asg[wallet[u]].shard)]

(* A delivery the provider will not send again has scheduled its work, though *)
(* an attempt may have died between its record and its end.                   *)
AnsweredWasScheduled == answered => signalled

(* Once the jobs are quiet the provider reports on nobody else. *)
NobodyElseIsWatched ==
  Quiet => \A s \in Slots : ready[s] => remote[s] = InSlot(s)
=============================================================================
