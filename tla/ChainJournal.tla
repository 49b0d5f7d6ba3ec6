---------------------------- MODULE ChainJournal ----------------------------
(***************************************************************************)
(* The App Worker's chain journal: the log pollers that read one EVM chain *)
(* and journal it in D1, and the recovery from a reorganisation of that    *)
(* chain (server/src/services/indexer.ts, indexer/*Watcher.ts,             *)
(* chainJournal.ts, chainEpoch.ts, balanceProjector.ts, storage/ledger.ts, *)
(* storage/syncState.ts and reorg.ts).                                     *)
(*                                                                         *)
(* A stream is one shard of wallets read by one poller.  Its run is a      *)
(* Queue delivery: it compares the stored checkpoint with the chain, reads *)
(* the reorg epoch, the cursor and the logs of a bounded window, journals  *)
(* every block that holds an event, then the block the window ends at, and *)
(* moves the cursor.  Every write is a D1 batch that aborts when the epoch *)
(* has moved since it was read.                                            *)
(*                                                                         *)
(* A block's hash is the block itself (height, branch, the events in it).  *)
(***************************************************************************)
EXTENDS Integers, Sequences, FiniteSets, FiniteSetsExt

CONSTANTS
    Streams,        \* the polled streams of one chain
    Transfers,      \* the streams of runIndexer: they project balances too
    UserOps,        \* the streams runUserOperationWatcher may read, and not
                    \* runRecoveryWatcher
    Fresh,          \* streams that never ran: no checkpoint and no cursor
    Events,         \* the logs the wallets of the streams may produce
    SeenBy,         \* SeenBy[s]: the events the filter of stream s returns
    Deposits,       \* the events that become an external deposit in the ledger
    Base,           \* height of the last block that no reorg reaches
    StartLength,    \* blocks above it at the start
    MaxHeight,      \* bound: height at which the chain stops growing
    MaxReorgs,      \* bound: reorganisations of the chain
    MaxDepth,       \* bound: blocks one of them replaces
    MaxAborts,      \* bound: runs that die or lose their RPC provider
    WindowBlocks,   \* blocks scanned by one run
    EventBlocks,    \* blocks with events journaled by one run
    None

ASSUME StreamsAssumption == /\ Transfers \cup Fresh \subseteq Streams
                            /\ UserOps \subseteq Streams \ Transfers
ASSUME HeightAssumption == MaxHeight < 100   \* two digits: see TextGreater

VARIABLES
    userOps,     \* the ones it does read
    chain,       \* the blocks above Base, in order
    reorgs,      \* reorganisations so far
    known,       \* chain_blocks, the canonical rows
    events,      \* chain_events: the block of the canonical occurrence
    deltas,      \* balance_projection_deltas: <<event, block>> of every row
    reverted,    \* ... of the rows with canonical = 0
    ledger,      \* ledger: [block, canonical] of the deposit's one row
    checkpoint,  \* chain_stream_checkpoints
    cursor,      \* sync_state.last_block
    epoch,       \* chain_reorg_state.epoch
    replay,      \* chain_reorg_replay_requests: the epoch of the row
    outside,     \* streams with an incident 'outside_window'
    job,         \* streams with a poller job scheduled or being retried
    drainJob,    \* the reorg_replay job is scheduled
    drain,       \* the replay row the drain is at
    run,         \* the run of each stream
    aborts,      \* runs that died
    split,       \* history: streams with a window that a reorg split in two
    misled       \* history: streams rolled back to a block of a branch they
                 \* have never read

vars == <<userOps, chain, reorgs, known, events, deltas, reverted, ledger, checkpoint,
          cursor, epoch, replay, outside, job, drainJob, drain, run, aborts,
          split, misled>>

journal == <<known, events, checkpoint>>
projections == <<deltas, reverted, ledger>>
queue == <<job, drainJob, drain, replay>>
world == <<userOps, chain, reorgs, aborts, split, misled>>

-----------------------------------------------------------------------------
\* The chain

Recovery == Streams \ (Transfers \cup userOps)

BaseBlock == [height |-> Base, fork |-> 0, ev |-> {}]
Block == [height : Base..MaxHeight, fork : 0..MaxReorgs, ev : SUBSET Events]
Height == Base + Len(chain)
BlockAt(h) == IF h = Base THEN BaseBlock ELSE chain[h - Base]
OnChain(b) == b.height \in Base..Height /\ BlockAt(b.height) = b
ChainBlocks == {BlockAt(h) : h \in Base..Height}
ChainEvents == UNION {b.ev : b \in ChainBlocks}

Idle == [pc |-> "idle", epoch |-> 0, head |-> Base, end |-> Base,
         todo |-> {}, block |-> BaseBlock]

Init ==
    /\ userOps \in SUBSET UserOps
    /\ \E at \in [Events -> 0..StartLength] :
         chain = [i \in 1..StartLength |->
                    [height |-> Base + i, fork |-> 0, ev |-> {e \in Events : at[e] = i}]]
    /\ reorgs = 0
    /\ known = {BaseBlock}
    /\ events = [e \in Events |-> None]
    /\ deltas = {}
    /\ reverted = {}
    /\ ledger = [e \in Events |-> None]
    /\ checkpoint = [s \in Streams |-> IF s \in Fresh THEN None ELSE BaseBlock]
    /\ cursor = [s \in Streams |-> IF s \in Fresh THEN None ELSE Base]
    /\ epoch = 0
    /\ replay = [s \in Streams |-> None]
    /\ outside = {}
    /\ job = Streams
    /\ drainJob = FALSE
    /\ drain = None
    /\ run = [s \in Streams |-> Idle]
    /\ aborts = 0
    /\ split = {}
    /\ misled = {}

\* One more block; its transactions were not in the chain before.
Mine ==
    /\ Height < MaxHeight
    /\ \E ev \in SUBSET (Events \ ChainEvents) :
         chain' = Append(chain, [height |-> Height + 1, fork |-> reorgs, ev |-> ev])
    /\ UNCHANGED <<userOps, reorgs, journal, projections, cursor, epoch, outside, queue,
                   run, aborts, split, misled>>

\* The time between the comparison of a run's checkpoint with the chain and
\* the read of the block its window ends at.
WindowOpen(s) == run[s].pc \in {"recover", "scan", "block", "project", "ledger", "endread"}

\* The last d blocks give way to a branch that is one block longer; a
\* transaction they held may come back at another height or not at all.
Reorg ==
    /\ reorgs < MaxReorgs
    /\ Height < MaxHeight
    /\ \E d \in 1..MaxDepth :
         /\ d =< Len(chain)
         /\ LET keep == Len(chain) - d
                lost == UNION {chain[i].ev : i \in (keep + 1)..Len(chain)}
            IN \E at \in [lost -> keep..(Len(chain) + 1)] :
                 chain' = [i \in 1..(Len(chain) + 1) |->
                             IF i =< keep THEN chain[i]
                             ELSE [height |-> Base + i, fork |-> reorgs + 1,
                                   ev |-> {e \in lost : at[e] = i}]]
    /\ reorgs' = reorgs + 1
    /\ split' = split \cup {s \in Streams : WindowOpen(s)}
    /\ UNCHANGED <<userOps, journal, projections, cursor, epoch, outside, queue,
                   run, aborts, misled>>

-----------------------------------------------------------------------------
\* A run of a stream, up to its window

\* An exception, an exhausted wall time: the run ends, the Queue redelivers.
Throw(s) == run' = [run EXCEPT ![s] = Idle]

At(s, pc) == run[s].pc = pc
Goto(s, pc) == run' = [run EXCEPT ![s].pc = pc]

\* The epoch guard row: the batch that inserts it aborts when the epoch of the
\* chain is no longer the one the run read.
EpochGuard(s) == run[s].epoch = epoch

\* The known canonical blocks below the checkpoint that are still on chain.
\* The reach of the search (4096 heights, 128 rows) is beyond these chains.
Ancestors(s) == {b \in known : b.height < checkpoint[s].height /\ OnChain(b)}

\* The head of the scan and verifyAndRecoverStream up to its batch.  What a
\* reorg changes between the two reads it may as well change after both.
Verify(s) ==
    LET opened == [Idle EXCEPT !.head = Height]
        to(r) == run' = [run EXCEPT ![s] = r]
    IN /\ At(s, "idle") /\ s \in job
       /\ \/ /\ checkpoint[s] # None => OnChain(checkpoint[s])
             /\ to([opened EXCEPT !.pc = "scan"])
             /\ UNCHANGED outside
          \/ /\ checkpoint[s] # None /\ ~OnChain(checkpoint[s])
             /\ Ancestors(s) = {}
             /\ outside' = outside \cup {s}
             /\ Throw(s)
          \/ /\ checkpoint[s] # None /\ ~OnChain(checkpoint[s])
             /\ \E b \in Ancestors(s) :
                  /\ \A c \in Ancestors(s) : c.height =< b.height
                  /\ to([opened EXCEPT !.pc = "recover", !.block = b])
             /\ UNCHANGED outside
       /\ UNCHANGED <<world, journal, projections, cursor, epoch, queue>>

OpenIndexer(s) == s \in Transfers /\ Verify(s)
OpenUserOperationWatcher(s) == s \in userOps /\ Verify(s)
OpenRecoveryWatcher(s) == s \in Recovery /\ Verify(s)

\* sync_state.last_block is TEXT and its bound value a string: '>' compares
\* them character by character.
TextGreater(a, b) ==
    LET first(n) == IF n < 10 THEN n ELSE n \div 10
        second(n) == IF n < 10 THEN -1 ELSE n % 10
    IN \/ first(a) > first(b)
       \/ first(a) = first(b) /\ second(a) > second(b)

Above(s, h) == checkpoint[s] # None /\ checkpoint[s].height > h

Affected(h) == {t \in Streams : Above(t, h)}

VariantOwnCheckpointOnly(s, h) == [checkpoint EXCEPT ![s] = run[s].block]

\* Every checkpoint above the ancestor becomes the ancestor.
RolledBackCheckpoints(s, h) ==
    [t \in Streams |-> IF t \in Affected(h) THEN run[s].block ELSE checkpoint[t]]

\* Every cursor above the ancestor goes back to it.
RolledBackCursors(s, h) ==
    [t \in Streams |->
       IF cursor[t] # None /\ TextGreater(cursor[t], h) THEN h ELSE cursor[t]]

\* What was journaled above the ancestor is no longer canonical.
RevertedEvents(h) ==
    [e \in Events |->
       IF events[e] # None /\ events[e].height > h THEN None ELSE events[e]]

RevertedLedger(h) ==
    [e \in Events |->
       IF ledger[e] # None /\ ledger[e].block.height > h
       THEN [ledger[e] EXCEPT !.canonical = FALSE] ELSE ledger[e]]

\* The recovery batch: it moves the epoch, files a replay request for every
\* stream whose checkpoint is above the ancestor, takes back what was derived
\* from the blocks above it and rolls the checkpoints and the cursors back.
\* The wakeup of the replay drain that follows may be refused, which is only
\* logged; a run that dies before it is a refused wakeup.
Recover(s) ==
    LET h == run[s].block.height
    IN /\ At(s, "recover")
       /\ epoch' = epoch + 1
       /\ replay' = [t \in Streams |-> IF t \in Affected(h) THEN epoch + 1 ELSE replay[t]]
       /\ reverted' = reverted \cup {d \in deltas : events[d[1]] = d[2] /\ d[2].height > h}
       /\ events' = RevertedEvents(h)
       /\ known' = {b \in known : b.height =< h}
       /\ ledger' = RevertedLedger(h)
       /\ checkpoint' = RolledBackCheckpoints(s, h)
       /\ cursor' = RolledBackCursors(s, h)
       /\ \E accepted \in BOOLEAN :
            drainJob' = (drainJob \/ (accepted /\ Affected(h) # {}))
       /\ misled' = misled \cup {t \in Affected(h) : run[s].block.fork > checkpoint[t].fork}
       /\ Goto(s, "scan")
       /\ UNCHANGED <<userOps, chain, reorgs, aborts, split, deltas, outside, job,
                      drain>>

-----------------------------------------------------------------------------
\* The window of a run

\* The first block of the window; a stream without a cursor starts at the
\* backfill depth, which is Base here.
FromBlock(s) == IF cursor[s] = None THEN Base + 1 ELSE cursor[s] + 1

\* boundedScanWindowEnd
ScanWindowEnd(s) == Min({run[s].head, FromBlock(s) + WindowBlocks - 1})

\* boundedEvidenceWindowEnd: at most EventBlocks blocks with events, and the
\* window then ends at the last of them.
EvidenceWindowEnd(end, blocks) ==
    IF Cardinality(blocks) > EventBlocks
    THEN CHOOSE h \in {b.height : b \in blocks} :
           Cardinality({b \in blocks : b.height =< h}) = EventBlocks
    ELSE end

AfterBlock(todo) == IF todo = {} THEN "endread" ELSE "block"

\* getChainReorgEpoch, getSyncCursor and scanLogsAdaptive: the epoch, then the
\* cursor, then the logs of the window from the chain as it is now.  A recovery
\* between these reads moves the epoch, so that the run writes nothing.
Scan(s) ==
    LET logged == {b \in ChainBlocks : /\ b.height \in FromBlock(s)..ScanWindowEnd(s)
                                       /\ b.ev \cap SeenBy[s] # {}}
        end == EvidenceWindowEnd(ScanWindowEnd(s), logged)
        todo == {b \in logged : b.height =< end}
    IN /\ At(s, "scan")
       /\ \/ /\ FromBlock(s) > run[s].head
             /\ job' = job \ {s}
             /\ Throw(s)
          \/ /\ FromBlock(s) =< run[s].head
             /\ run' = [run EXCEPT ![s].pc = AfterBlock(todo), ![s].end = end,
                                   ![s].todo = todo, ![s].epoch = epoch]
             /\ UNCHANGED job
       /\ UNCHANGED <<world, journal, projections, cursor, epoch, outside,
                      drainJob, drain, replay>>

ScanTransfers(s) == s \in Transfers /\ Scan(s)
ScanUserOperations(s) == s \in userOps /\ Scan(s)
ScanRecoveryLogs(s) == s \in Recovery /\ Scan(s)

\* The checkpoint only moves up, or is written again with the same hash.
CheckpointMoves(s, b) ==
    checkpoint[s] = None \/ b.height > checkpoint[s].height \/ b = checkpoint[s]

\* The batch of journalBlockEvents: the block becomes the canonical one of its
\* height, each event's canonical occurrence is the one in this block, and the
\* stream's checkpoint follows.
JournalBlock(s, b, ev) ==
    /\ known' = {k \in known : k.height # b.height} \cup {b}
    /\ events' = [e \in Events |-> IF e \in ev THEN b ELSE events[e]]
    /\ checkpoint' = IF CheckpointMoves(s, b) THEN [checkpoint EXCEPT ![s] = b]
                     ELSE checkpoint

LowestBlock(s) == CHOOSE b \in run[s].todo : \A c \in run[s].todo : b.height =< c.height

\* The header is fetched by the hash of the log.  A provider may or may not
\* still serve a block that left the chain; without it the run throws.
JournalEvents(s, next(_)) ==
    LET b == LowestBlock(s) IN
    /\ At(s, "block")
    /\ \/ /\ EpochGuard(s)
          /\ JournalBlock(s, b, b.ev \cap SeenBy[s])
          /\ next(b)
       \/ /\ ~EpochGuard(s) \/ ~OnChain(b)
          /\ Throw(s)
          /\ UNCHANGED journal
    /\ UNCHANGED <<world, projections, cursor, epoch, outside, queue>>

JournalTransfers(s) ==
    LET next(b) == run' = [run EXCEPT ![s].pc = "project", ![s].block = b]
    IN s \in Transfers /\ JournalEvents(s, next)

Done(s, b) ==
    run' = [run EXCEPT ![s].todo = @ \ {b}, ![s].pc = AfterBlock(run[s].todo \ {b})]

JournalUserOperations(s) ==
    LET next(b) == Done(s, b) IN s \in userOps /\ JournalEvents(s, next)

JournalRecoveries(s) ==
    LET next(b) == Done(s, b) IN s \in Recovery /\ JournalEvents(s, next)

\* projectBalanceDeltas: INSERT OR IGNORE, so a row that was reverted stays so.
ProjectDeltas(s) ==
    LET b == run[s].block IN
    /\ At(s, "project")
    /\ \/ /\ EpochGuard(s)
          /\ deltas' = deltas \cup {<<e, b>> : e \in b.ev \cap SeenBy[s]}
          /\ Goto(s, "ledger")
       \/ /\ ~EpochGuard(s)
          /\ Throw(s)
          /\ UNCHANGED deltas
    /\ UNCHANGED <<world, journal, reverted, ledger, cursor, epoch, outside, queue>>

\* writeLedgerEntries: the deposit's row is inserted, or written again when it
\* had been taken back.
WriteLedger(s) ==
    LET b == run[s].block
        ev == b.ev \cap SeenBy[s] \cap Deposits
    IN /\ At(s, "ledger")
       /\ \/ /\ ev = {} \/ EpochGuard(s)
             /\ ledger' = [e \in Events |->
                  IF e \in ev /\ (ledger[e] = None \/ ~ledger[e].canonical)
                  THEN [block |-> b, canonical |-> TRUE] ELSE ledger[e]]
             /\ Done(s, b)
          \/ /\ ev # {} /\ ~EpochGuard(s)
             /\ Throw(s)
             /\ UNCHANGED ledger
       /\ UNCHANGED <<world, journal, deltas, reverted, cursor, epoch, outside,
                      queue>>

\* The block the window ends at, read by its number.
EndRead(s) ==
    /\ At(s, "endread")
    /\ run' = [run EXCEPT ![s].pc = "endwrite", ![s].block = BlockAt(run[s].end)]
    /\ UNCHANGED <<world, journal, projections, cursor, epoch, outside, queue>>

\* ... and journaled without events, so that the next run can compare it.
EndWrite(s) ==
    /\ At(s, "endwrite")
    /\ \/ /\ EpochGuard(s)
          /\ JournalBlock(s, run[s].block, {})
          /\ Goto(s, "cursor")
       \/ /\ ~EpochGuard(s)
          /\ Throw(s)
          /\ UNCHANGED journal
    /\ UNCHANGED <<world, projections, cursor, epoch, outside, queue>>

EndTransfers(s) == s \in Transfers /\ (EndRead(s) \/ EndWrite(s))
EndUserOperations(s) == s \in userOps /\ (EndRead(s) \/ EndWrite(s))
EndRecoveries(s) == s \in Recovery /\ (EndRead(s) \/ EndWrite(s))

\* setSyncCursor ends the run; the job goes on until the head it read.
SetCursor(s) ==
    /\ At(s, "cursor")
    /\ \/ /\ EpochGuard(s)
          /\ cursor' = [cursor EXCEPT ![s] = run[s].end]
          /\ job' = IF run[s].end < run[s].head THEN job ELSE job \ {s}
       \/ /\ ~EpochGuard(s)
          /\ UNCHANGED <<cursor, job>>
    /\ Throw(s)
    /\ UNCHANGED <<world, journal, projections, epoch, outside, drainJob, drain,
                   replay>>

\* A run dies, or its provider fails, between two of its writes: nothing of it
\* is kept but what its batches wrote.  One that dies before its first write
\* is one that has not started.
Abort(s) ==
    /\ run[s].pc \in {"project", "ledger", "endread", "cursor"}
    /\ aborts < MaxAborts
    /\ aborts' = aborts + 1
    /\ Throw(s)
    /\ UNCHANGED <<userOps, chain, reorgs, split, misled, journal, projections, cursor, epoch,
                   outside, queue>>

-----------------------------------------------------------------------------
\* The wakeups

\* The safety sweep schedules a stream whose checkpoint is behind the head.
SafetySweep(s) ==
    /\ s \notin job
    /\ checkpoint[s] = None \/ checkpoint[s].height < Height
    /\ job' = job \cup {s}
    /\ UNCHANGED <<world, journal, projections, cursor, epoch, outside, drainJob,
                   drain, replay, run>>

\* drainChainReorgReplayRequests: the due rows are read, each is scheduled and
\* then deleted if it is still of the epoch that was read; a row the scheduler
\* refuses stays.
ScheduleReplayStream ==
    /\ drainJob /\ drain = None
    /\ \E s \in Streams :
         /\ replay[s] # None
         /\ \/ /\ job' = job \cup {s}
               /\ drain' = [stream |-> s, epoch |-> replay[s]]
            \/ UNCHANGED <<job, drain>>
    /\ UNCHANGED <<world, journal, projections, cursor, epoch, outside, replay,
                   drainJob, run>>

DrainEnd ==
    /\ drainJob /\ drain = None
    /\ \A s \in Streams : replay[s] = None
    /\ drainJob' = FALSE
    /\ UNCHANGED <<world, journal, projections, cursor, epoch, outside, replay,
                   job, drain, run>>

DrainDelete ==
    /\ drain # None
    /\ replay' = [replay EXCEPT ![drain.stream] = IF @ = drain.epoch THEN None ELSE @]
    /\ drain' = None
    /\ UNCHANGED <<world, journal, projections, cursor, epoch, outside, job,
                   drainJob, run>>

-----------------------------------------------------------------------------
RunStep(s) ==
    \/ OpenIndexer(s) \/ OpenUserOperationWatcher(s) \/ OpenRecoveryWatcher(s)
    \/ Recover(s)
    \/ ScanTransfers(s) \/ ScanUserOperations(s) \/ ScanRecoveryLogs(s)
    \/ JournalTransfers(s) \/ JournalUserOperations(s) \/ JournalRecoveries(s)
    \/ ProjectDeltas(s) \/ WriteLedger(s)
    \/ EndTransfers(s) \/ EndUserOperations(s) \/ EndRecoveries(s)
    \/ SetCursor(s)

Drain == ScheduleReplayStream \/ DrainDelete \/ DrainEnd

Next ==
    \/ Mine \/ Reorg
    \/ \E s \in Streams : RunStep(s) \/ Abort(s) \/ SafetySweep(s)
    \/ Drain

Spec == Init /\ [][Next]_vars

-----------------------------------------------------------------------------
\* Properties

\* Every record is of its kind.
TypeOK ==
    /\ known \subseteq Block
    /\ \A e \in Events : events[e] = None \/ events[e] \in Block
    /\ reverted \subseteq deltas
    /\ \A s \in Streams : checkpoint[s] = None \/ checkpoint[s] \in Block
    /\ \A s \in Streams : run[s].todo \subseteq Block /\ run[s].epoch \in 0..epoch
    /\ job \subseteq Streams /\ outside \subseteq Streams

\* A stream stands on the chain when its checkpoint is a block of it.
OnCheckpoint(s) == checkpoint[s] # None /\ OnChain(checkpoint[s])

\* The events that no stream can have missed.
Steady == Events \ UNION {SeenBy[s] : s \in split \cup misled}

\* A checkpoint that is on the chain vouches for everything of its stream at or
\* below it: each such event of the chain is canonical in the journal at the
\* block the chain has it in.
CheckpointIsComplete ==
    \A s \in Streams : OnCheckpoint(s) =>
      \A b \in ChainBlocks : b.height =< checkpoint[s].height =>
        \A e \in b.ev \cap SeenBy[s] \cap Steady : events[e] = b

\* The same of the streams a recovery rolled back to a block of a branch they
\* had not read: docs/runbooks/reorg.md has the recovery find the common
\* ancestor and journal the new branch again from it.
RecoveryRescansTheBranch ==
    \A s \in Streams : OnCheckpoint(s) =>
      \A b \in ChainBlocks : b.height =< checkpoint[s].height =>
        \A e \in b.ev \cap SeenBy[s] :
          e \notin UNION {SeenBy[t] : t \in split} => events[e] # None

\* ... and against orphans: an event at or below the checkpoints of all the
\* streams that read it, all of them on the chain, is an event of the chain.
NoOrphanBelowCheckpoint ==
    \A e \in Steady :
      /\ events[e] # None
      /\ \A s \in Streams : e \in SeenBy[s] =>
           OnCheckpoint(s) /\ events[e].height =< checkpoint[s].height
      => OnChain(events[e])

\* The cursor, from which the next window starts, is never above the
\* checkpoint that the next run compares with the chain: what a reorg takes
\* back is scanned again.
CursorIsCovered ==
    \A s \in Streams : cursor[s] # None =>
      checkpoint[s] # None /\ cursor[s] =< checkpoint[s].height

\* A deposit shown in the ledger is backed by the journal once the streams that
\* read it stand on the chain: until then the row of an abandoned block waits for
\* the recovery of its own stream.
LedgerIsJournaled ==
    \A e \in Steady :
      /\ ledger[e] # None /\ ledger[e].canonical
      /\ \A s \in Transfers : e \in SeenBy[s] => OnCheckpoint(s)
      => events[e] # None

\* The journal of a stream is what the chain it stands on says: complete below
\* its checkpoint, without an event of an abandoned block, with a cursor that
\* passed nothing unread and a ledger it backs (indexer.ts, reorg.ts).
JournalIsTheChain ==
    /\ CheckpointIsComplete /\ NoOrphanBelowCheckpoint
    /\ CursorIsCovered /\ LedgerIsJournaled

\* The balance deltas that count are those of the canonical occurrences that
\* were projected: a replayed event counts again.
DeltaFollowsJournal ==
    \A d \in deltas : (events[d[1]] = d[2]) => d \notin reverted

=============================================================================
