------------------------------ MODULE Balances ------------------------------
(***************************************************************************)
(* The balance the App shows: one wallet and one asset.  Its snapshot is   *)
(* written by reconciliations at the safe head (the queue of refresh       *)
(* requests, one row per wallet), by interactive reads of the latest       *)
(* block, and by the projection of the transfers the indexer journals, one *)
(* stream for each direction.  The audit that compares projection and      *)
(* chain may degrade the policy of the asset.                              *)
(* The chain is external: blocks above the safe head may be replaced.      *)
(* Reorganisations the indexer sees are in ChainJournal.                   *)
(***************************************************************************)
EXTENDS Integers, Sequences, FiniteSets

CONSTANTS MaxBlock,    \* bound: height of the chain
          Start,       \* blocks the chain has at first
          Kinds,       \* what a block may hold: directions of a transfer, or "none"
          Passes,      \* reconciliations that may overlap
          Readers,     \* interactive refreshes
          Strategies,  \* what asset_indexing_policies says at first
          MaxRequests, \* bound: requests and interactive refreshes
          MaxFaults,   \* bound: blocks replaced, indexer and reconciler runs that die
          None

Directions == {"from", "to"}
Projecting == {"events", "events_plus_rpc"}
Funds == 5   \* what the wallet holds before the first block

VARIABLES
  chain, safe, fresh,   \* blocks, safe head, the next block hash
  truth,                \* ghost: what the wallet holds at a block hash
  req,                  \* balance_refresh_requests
  snap, baseline, policy, \* balance_snapshots, balance_projection_baselines, asset_indexing_policies
  deltas, cp, cursor,   \* balance_projection_deltas, chain_stream_checkpoints, sync cursors
  ix, run, reader,      \* the streams' runs, reconciliations, interactive refreshes
  asked, faults,
  missed                \* ghost: a request was dropped although the run in flight had read an older head

vars == <<chain, safe, fresh, truth, req, snap, baseline, policy, deltas, cp, cursor,
          ix, run, reader, asked, faults, missed>>
world == <<chain, safe, fresh, truth>>
journal == <<deltas, cp, cursor, ix>>
counts == <<asked, faults>>

Move(b) == CASE b.dir = "to" -> 1 [] b.dir = "from" -> -1 [] OTHER -> 0
HoldsAt(n) == Funds + Cardinality({k \in 1..n : chain[k].dir = "to"})
                    - Cardinality({k \in 1..n : chain[k].dir = "from"})

NoReq == [st |-> "none", prio |-> 9, need |-> None, owner |-> None, live |-> FALSE]
IdleRun == [pc |-> "idle", need |-> None, at |-> 0, read |-> None, base |-> None]
IdleReader == [pc |-> "idle", at |-> 0, id |-> 0, read |-> 0]
IdleIx == [pc |-> "idle", state |-> None, satisfied |-> FALSE]

Init ==
  /\ chain = [n \in 1..Start |-> [id |-> n, dir |-> "none"]] /\ safe = Start /\ fresh = Start + 1
  /\ truth = [i \in 1..Start |-> Funds]
  /\ req = NoReq /\ snap = None /\ baseline = None /\ policy \in Strategies
  /\ deltas = {} /\ cp = [d \in Directions |-> Start] /\ cursor = cp
  /\ ix = [d \in Directions |-> IdleIx]
  /\ run = [p \in Passes |-> IdleRun] /\ reader = [r \in Readers |-> IdleReader]
  /\ asked = 0 /\ faults = 0 /\ missed = FALSE

----------------------------------------------------------------------------
(* The chain. *)

Mine(dir) ==
  /\ Len(chain) < MaxBlock
  /\ chain' = Append(chain, [id |-> fresh, dir |-> dir]) /\ fresh' = fresh + 1
  /\ truth' = [i \in 1..fresh |-> IF i = fresh THEN HoldsAt(Len(chain)) + Move([dir |-> dir])
                                  ELSE truth[i]]
  /\ UNCHANGED <<safe, req, snap, baseline, policy, journal, run, reader, counts, missed>>

SafeHead ==
  /\ safe < Len(chain) /\ safe' = safe + 1
  /\ UNCHANGED <<chain, fresh, truth, req, snap, baseline, policy, journal, run, reader,
                 counts, missed>>

(* The last block is replaced by one with another transfer. *)
Fork(dir) ==
  /\ safe < Len(chain) /\ faults < MaxFaults /\ faults' = faults + 1
  /\ chain' = [chain EXCEPT ![Len(chain)] = [id |-> fresh, dir |-> dir]] /\ fresh' = fresh + 1
  /\ truth' = [i \in 1..fresh |-> IF i = fresh THEN HoldsAt(Len(chain) - 1) + Move([dir |-> dir])
                                  ELSE truth[i]]
  /\ UNCHANGED <<safe, req, snap, baseline, policy, journal, run, reader, asked, missed>>

----------------------------------------------------------------------------
(* Refresh requests.  The row of the wallet takes the more urgent request  *)
(* and, of two as urgent, the later block; a change takes the row away     *)
(* from the run that holds it.                                             *)

Ended == {"none", "completed", "failed"}
Higher(a, b) == a # None /\ (b = None \/ a > b)

Takes(m) ==
  \/ req.st \in Ended
  \/ req.st = "processing" /\ ~ req.live
  \/ m.prio < req.prio
  \/ m.prio = req.prio /\ Higher(m.need, req.need)

Upserted(m) ==
  [st |-> "pending", prio |-> IF m.prio < req.prio THEN m.prio ELSE req.prio,
   need |-> IF req.st \in Ended \/ m.prio < req.prio THEN m.need
            ELSE IF m.prio > req.prio \/ ~ Higher(m.need, req.need) THEN req.need ELSE m.need,
   owner |-> None, live |-> FALSE]

(* A run in flight that looked at the chain before the request was made. *)
ReadBefore == \E p \in Passes : run[p].pc \in {"publish", "audit", "adjust", "finish"} /\ run[p].at < safe

RequestBalanceRefresh(m) ==
  IF Takes(m) THEN req' = Upserted(m) /\ UNCHANGED missed
  ELSE UNCHANGED req /\ missed' = (missed \/ ReadBefore)

(* Of several messages for one wallet in a batch, the one the row would take. *)
Coalesce(prior, next) ==
  IF next.prio < prior.prio \/ (next.prio = prior.prio /\ Higher(next.need, prior.need))
  THEN next ELSE prior

RequestBalanceRefreshBatch(m1, m2) ==
  /\ asked < MaxRequests /\ asked' = asked + 1
  /\ RequestBalanceRefresh(Coalesce(m1, m2))
  /\ UNCHANGED <<world, snap, baseline, policy, journal, run, reader, faults>>

Unsafe == safe + 1   \* a block the sender has seen and the safe head has not reached

(* A confirmed operation, whose wallets could not be read at the latest     *)
(* block, asks for the block of its receipt.                                *)
RefreshAfterSettlement ==
  /\ Unsafe <= Len(chain)
  /\ \E need \in {Unsafe, None} :
       RequestBalanceRefreshBatch([prio |-> 0, need |-> need], [prio |-> 0, need |-> Unsafe])

(* The provider reports a transfer of the wallet. *)
AddressActivity ==
  /\ Unsafe <= Len(chain)
  /\ RequestBalanceRefreshBatch([prio |-> 1, need |-> safe], [prio |-> 1, need |-> Unsafe])

(* The safety sweep, and a portfolio that shows an old snapshot. *)
BalanceSafetyRefresh == RequestBalanceRefreshBatch([prio |-> 3, need |-> safe], [prio |-> 3, need |-> safe])
ReadPortfolio == RequestBalanceRefreshBatch([prio |-> 3, need |-> None], [prio |-> 3, need |-> None])

(* What the home and the balance endpoint read. *)
Refreshing == req.st \in {"pending", "processing"}
Bootstrap == snap = None
HomeModel == [needsRefresh |-> Bootstrap, refreshing |-> Refreshing]
BalanceModel == [needsRefresh |-> Bootstrap]

(* A missing snapshot, or one that has grown old while nothing refreshes   *)
(* it, asks for a refresh.                                                 *)
ReadHome ==
  /\ asked < MaxRequests /\ asked' = asked + 1
  /\ HomeModel.needsRefresh \/ ~ HomeModel.refreshing
  /\ RequestBalanceRefresh([prio |-> IF Bootstrap THEN 1 ELSE 2, need |-> None])
  /\ UNCHANGED <<world, snap, baseline, policy, journal, run, reader, faults>>

ReadBalance ==
  /\ BalanceModel.needsRefresh /\ asked < MaxRequests /\ asked' = asked + 1
  /\ RequestBalanceRefresh([prio |-> 1, need |-> None])
  /\ UNCHANGED <<world, snap, baseline, policy, journal, run, reader, faults>>

----------------------------------------------------------------------------
(* Snapshots move forward: to a later block, or again to the same one. *)

Supersedes(s) == snap = None \/ s.block > snap.block \/ (s.block = snap.block /\ s.id = snap.id)

UpsertBalanceSnapshots(s) == snap' = IF Supersedes(s) THEN s ELSE snap

RunGoto(p, pc) == run' = [run EXCEPT ![p].pc = pc]
Due == req.st \in {"pending", "failed"} \/ (req.st = "processing" /\ ~ req.live)
Owns(p) == req.st = "processing" /\ req.owner = p

ListDue(p) ==
  /\ run[p].pc = "idle" /\ Due
  /\ run' = [run EXCEPT ![p] = [IdleRun EXCEPT !.pc = "claim", !.need = req.need]]
  /\ UNCHANGED <<world, req, snap, baseline, policy, journal, reader, counts, missed>>

Claim(p) ==
  /\ run[p].pc = "claim"
  /\ IF Due THEN /\ req' = [req EXCEPT !.st = "processing", !.owner = p, !.live = TRUE]
                 /\ RunGoto(p, "head")
     ELSE UNCHANGED req /\ run' = [run EXCEPT ![p] = IdleRun]
  /\ UNCHANGED <<world, snap, baseline, policy, journal, reader, counts, missed>>

(* The block the request names, as it was listed, must be below the head.  *)
(* A failed call fails the whole batch.                                    *)
ReadAtSafeHead(p) ==
  /\ run[p].pc = "head"
  /\ \/ /\ ~ Higher(run[p].need, safe)
        /\ run' = [run EXCEPT ![p].pc = "publish", ![p].at = safe, ![p].read = HoldsAt(safe)]
     \/ RunGoto(p, "fail")
  /\ UNCHANGED <<world, req, snap, baseline, policy, journal, reader, counts, missed>>

Publish(p) ==
  /\ run[p].pc = "publish" /\ RunGoto(p, "audit")
  /\ UpsertBalanceSnapshots([block |-> run[p].at, id |-> chain[run[p].at].id,
                             value |-> run[p].read, source |-> "rpc"])
  /\ UNCHANGED <<world, req, baseline, policy, journal, reader, counts, missed>>

Projected(base, n) ==
  LET Since(k) == {e \in deltas : e[1] > base.block /\ e[1] <= n /\ e[2] = k} IN
  base.value + Cardinality(Since("to")) - Cardinality(Since("from"))

Covered(n) == \A d \in Directions : cp[d] >= n
AsBaseline(p) == [block |-> run[p].at, id |-> chain[run[p].at].id, value |-> run[p].read]

(* The audit looks only where both streams have passed the block. *)
Audit(p) ==
  /\ run[p].pc = "audit"
  /\ \/ policy \notin Projecting /\ RunGoto(p, "finish")
     \/ policy \in Projecting /\ baseline = None
          /\ run' = [run EXCEPT ![p].pc = "adjust", ![p].base = "baseline"]
     \/ /\ policy \in Projecting /\ baseline # None
        /\ IF baseline.block > run[p].at \/ ~ Covered(run[p].at) THEN RunGoto(p, "finish")
           ELSE run' = [run EXCEPT ![p].pc = "adjust",
                  ![p].base = IF Projected(baseline, run[p].at) = run[p].read THEN "match" ELSE "drift"]
  /\ UNCHANGED <<world, req, snap, baseline, policy, journal, reader, counts, missed>>

Adjust(p) ==
  /\ run[p].pc = "adjust" /\ RunGoto(p, "finish")
  /\ baseline' = IF baseline = None \/ AsBaseline(p).block > baseline.block \/ AsBaseline(p).id = baseline.id
                 THEN AsBaseline(p) ELSE baseline
  /\ policy' = IF run[p].base = "drift" THEN "rpc_only" ELSE policy
  /\ UNCHANGED <<world, req, snap, journal, reader, counts, missed>>

Finish(p) ==
  /\ run[p].pc \in {"finish", "fail"} /\ run' = [run EXCEPT ![p] = IdleRun]
  /\ req' = IF ~ Owns(p) THEN req
            ELSE [req EXCEPT !.st = IF run[p].pc = "finish" THEN "completed" ELSE "failed",
                             !.owner = None, !.live = FALSE]
  /\ UNCHANGED <<world, snap, baseline, policy, journal, reader, counts, missed>>

LeaseExpires ==
  /\ req.live /\ req' = [req EXCEPT !.live = FALSE]
  /\ UNCHANGED <<world, snap, baseline, policy, journal, run, reader, counts, missed>>

RunDies(p) ==
  /\ run[p].pc # "idle" /\ faults < MaxFaults /\ faults' = faults + 1
  /\ run' = [run EXCEPT ![p] = IdleRun]
  /\ UNCHANGED <<world, req, snap, baseline, policy, journal, reader, asked, missed>>

----------------------------------------------------------------------------
(* An interactive refresh asks for the latest block, then for the balances *)
(* at its number, and publishes them if the number still has that hash.    *)

ReadLatest(r) ==
  /\ reader[r].pc = "idle" /\ asked < MaxRequests /\ asked' = asked + 1
  /\ reader' = [reader EXCEPT ![r] = [IdleReader EXCEPT !.pc = "call", !.at = Len(chain),
                                                        !.id = chain[Len(chain)].id]]
  /\ UNCHANGED <<world, req, snap, baseline, policy, journal, run, faults, missed>>

Multicall(r) ==
  /\ reader[r].pc = "call"
  /\ reader' = [reader EXCEPT ![r].pc = "verify", ![r].read = HoldsAt(reader[r].at)]
  /\ UNCHANGED <<world, req, snap, baseline, policy, journal, run, counts, missed>>

VariantUnverified(r) == TRUE
SameBlock(r) == chain[reader[r].at].id = reader[r].id

PublishLatest(r) ==
  /\ reader[r].pc = "verify" /\ reader' = [reader EXCEPT ![r] = IdleReader]
  /\ IF SameBlock(r)
     THEN UpsertBalanceSnapshots([block |-> reader[r].at, id |-> reader[r].id,
                                  value |-> reader[r].read, source |-> "rpc"])
     ELSE UNCHANGED snap
  /\ UNCHANGED <<world, req, baseline, policy, journal, run, counts, missed>>

----------------------------------------------------------------------------
(* The indexer, one stream per direction, block by block. *)

Next1(d) == cursor[d] + 1
HasEvent(d) == chain[Next1(d)].dir = d

JournalBlock(d) ==
  /\ ix[d].pc = "idle" /\ cursor[d] < safe
  /\ cp' = [cp EXCEPT ![d] = IF Next1(d) > @ THEN Next1(d) ELSE @]
  /\ IF HasEvent(d) THEN ix' = [ix EXCEPT ![d].pc = "project"] /\ UNCHANGED cursor
     ELSE cursor' = [cursor EXCEPT ![d] = Next1(d)] /\ UNCHANGED ix
  /\ UNCHANGED <<world, req, snap, baseline, policy, deltas, run, reader, counts, missed>>

ProjectBalanceDeltas(d) ==
  /\ ix[d].pc = "project" /\ deltas' = deltas \cup {<<Next1(d), d>>}
  /\ ix' = [ix EXCEPT ![d].pc = "state"]
  /\ UNCHANGED <<world, req, snap, baseline, policy, cp, cursor, run, reader, counts, missed>>

(* The first projection takes the snapshot it finds as its baseline. *)
ReadProjectionState(d) ==
  LET base == IF baseline = None THEN [block |-> snap.block, id |-> snap.id, value |-> snap.value]
              ELSE baseline IN
  /\ ix[d].pc = "state"
  /\ IF snap = None \/ policy \notin Projecting
     THEN ix' = [ix EXCEPT ![d].pc = "request"] /\ UNCHANGED baseline
     ELSE /\ baseline' = base
          /\ ix' = [ix EXCEPT ![d] =
               IF base.block >= Next1(d)
               THEN [pc |-> "request", state |-> None, satisfied |-> policy = "events"]
               ELSE [pc |-> "update", state |-> [base |-> base, policy |-> policy], satisfied |-> FALSE]]
  /\ UNCHANGED <<world, req, snap, policy, deltas, cp, cursor, run, reader, counts, missed>>

RefreshProjectedSnapshot(d) ==
  LET s == [block |-> Next1(d), id |-> chain[Next1(d)].id,
            value |-> Projected(ix[d].state.base, Next1(d)), source |-> "event_projection"]
      moves == snap.block < s.block \/ (snap.id = s.id /\ snap.source = "event_projection") IN
  /\ ix[d].pc = "update"
  /\ snap' = IF moves THEN s ELSE snap
  /\ ix' = [ix EXCEPT ![d] = [pc |-> "request", state |-> None,
                              satisfied |-> moves /\ ix[d].state.policy = "events"]]
  /\ UNCHANGED <<world, req, baseline, policy, deltas, cp, cursor, run, reader, counts, missed>>

Satisfied(d) == ix[d].satisfied

(* A wallet the projection does not satisfy is refreshed; the cursor follows. *)
RequestForTransfer(d) ==
  /\ ix[d].pc = "request" /\ ix' = [ix EXCEPT ![d] = IdleIx]
  /\ IF Satisfied(d) THEN UNCHANGED <<req, missed>>
     ELSE RequestBalanceRefresh([prio |-> 1, need |-> Next1(d)])
  /\ cursor' = [cursor EXCEPT ![d] = Next1(d)]
  /\ UNCHANGED <<world, snap, baseline, policy, deltas, cp, run, reader, counts>>

IndexerDies(d) ==
  /\ ix[d].pc # "idle" /\ faults < MaxFaults /\ faults' = faults + 1
  /\ ix' = [ix EXCEPT ![d] = IdleIx]
  /\ UNCHANGED <<world, req, snap, baseline, policy, deltas, cp, cursor, run, reader, asked, missed>>

Next ==
  \/ SafeHead \/ LeaseExpires \/ ReadHome \/ ReadBalance \/ ReadPortfolio
  \/ RefreshAfterSettlement \/ AddressActivity \/ BalanceSafetyRefresh
  \/ \E dir \in Kinds : Mine(dir) \/ Fork(dir)
  \/ \E p \in Passes : \/ ListDue(p) \/ Claim(p) \/ ReadAtSafeHead(p) \/ Publish(p) \/ Audit(p)
                       \/ Adjust(p) \/ Finish(p) \/ RunDies(p)
  \/ \E r \in Readers : ReadLatest(r) \/ Multicall(r) \/ PublishLatest(r)
  \/ \E d \in Directions : \/ JournalBlock(d) \/ ProjectBalanceDeltas(d) \/ ReadProjectionState(d)
                           \/ RefreshProjectedSnapshot(d) \/ RequestForTransfer(d) \/ IndexerDies(d)

Spec == Init /\ [][Next]_vars

----------------------------------------------------------------------------

(* What a read of the chain put in the snapshot is what the wallet holds at *)
(* the block it names, although blocks are replaced between the calls of a  *)
(* read and slower reads write after faster ones.                           *)
ReadIsExact == snap # None /\ snap.source = "rpc" => snap.value = truth[snap.id]

NothingWaits ==
  /\ req.st \in {"none", "completed"} /\ \A p \in Passes : run[p].pc = "idle"
  /\ \A d \in Directions : ix[d].pc = "idle" /\ cursor[d] = safe
OnChain(s) == s.block <= Len(chain) /\ chain[s.block].id = s.id

Exact(s) == s.value = truth[s.id] /\ (s.block < safe => truth[chain[safe].id] = s.value)

(* Once the streams are at the head and no refresh is wanted, the balance   *)
(* shown is what the wallet holds at its block, and no transfer the indexer *)
(* has passed is missing from it: each was projected in full or a refresh   *)
(* followed it.  Left out are a snapshot or a baseline whose block was      *)
(* replaced, which nothing detects below the safe head, and a request       *)
(* dropped for a run that had read the chain before it.                     *)
SettledIsExact ==
  /\ NothingWaits /\ snap # None /\ OnChain(snap) /\ ~ missed
  /\ baseline # None => OnChain(baseline)
  => Exact(snap)

(* "A no-op conflict means an equivalent request is already queued or       *)
(* processing": dropping a request loses nothing.                           *)
DroppedRequestIsServed == NothingWaits /\ snap # None /\ OnChain(snap) => Exact(snap)

=============================================================================
