---------------------------- MODULE RouterWatch ----------------------------
(***************************************************************************)
(* The watch of the payment routers of one source chain                    *)
(* (scanPaymentRouters in reconciliation.ts, chainJournalStore.ts) and its *)
(* reorg recovery.  Scans of one chain overlap: the cron, a registration   *)
(* and the App each enqueue one under another dedupe key.                  *)
(* A block is its id; an attempt's payment is one router event.  `app`     *)
(* attempts are executed by a UserOperation: their transaction is sent by  *)
(* a bundler to the EntryPoint, which validatePaymentSourceReceipt refuses.*)
(***************************************************************************)
EXTENDS Integers, Sequences, FiniteSets, SequencesExt

CONSTANTS
    Attempts,   \* payment_attempts of the chain, reserved before they land
    AppAttempts,
    Scans,      \* executions of scanPaymentRouters
    Window,     \* blocks of one scan (2_000)
    Confirmations,
    MaxHeight, MaxReorgs, MaxDepth, MaxFaults,
    None

VARIABLES
    chain,      \* blocks of the current branch: id and the events in it
    fresh,      \* next block id
    reorgs,
    blocks,     \* payment_chain_blocks: canonical rows
    events,     \* payment_chain_events: per attempt, its row
    checkpoint, \* payment_stream_checkpoints
    status,     \* payment_attempts.status
    scan, faults,
    split       \* ghost: heights replaced, or rolled back, while a scan was
                \* under way

vars == <<chain, fresh, reorgs, blocks, events, checkpoint, status, scan, faults,
          split>>

Idle == [pc |-> "idle"]
NoRow == [height |-> 0, id |-> 0, canonical |-> FALSE]

TypeOK ==
    /\ \A h \in DOMAIN chain : chain[h].id < fresh /\ chain[h].events \subseteq Attempts
    /\ checkpoint = None \/ checkpoint.height \in 0..MaxHeight
    /\ status \in [Attempts -> {"reserved", "processing", "paid"}]
    /\ \A s \in Scans : scan[s].pc \in
         {"idle", "verify", "rollback", "fetch", "process"}

Init ==
    /\ chain = <<>> /\ fresh = 1 /\ reorgs = 0 /\ blocks = {} /\ checkpoint = None
    /\ events = [a \in Attempts |-> NoRow]
    /\ status = [a \in Attempts |-> "reserved"]
    /\ scan = [s \in Scans |-> Idle] /\ faults = 0 /\ split = {}

-----------------------------------------------------------------------------
(* The chain.                                                              *)

Landed == UNION {chain[h].events : h \in DOMAIN chain}
HeightOf(a) == CHOOSE h \in DOMAIN chain : a \in chain[h].events
IdAt(h) == IF h = 0 THEN 0 ELSE chain[h].id
OnChain(b) == b.height <= Len(chain) /\ IdAt(b.height) = b.id
Tip == Len(chain) - (Confirmations - 1)

\* The first scan starts a window behind the head: it is assumed to run within
\* a window of the first attempt.
Mine(es) ==
    /\ checkpoint # None \/ Len(chain) <= Window
    /\ Len(chain) < MaxHeight /\ es \subseteq Attempts \ Landed
    /\ chain' = Append(chain, [id |-> fresh, events |-> es]) /\ fresh' = fresh + 1
    /\ UNCHANGED <<reorgs, blocks, events, checkpoint, status, scan, faults, split>>

\* A scan that runs keeps the head, the checkpoint and the logs it has read.
Reorg(depth) ==
    /\ reorgs < MaxReorgs /\ depth <= Len(chain) /\ reorgs' = reorgs + 1
    /\ chain' = SubSeq(chain, 1, Len(chain) - depth)
    /\ split' = IF \A s \in Scans : scan[s] = Idle THEN split
                ELSE split \cup (Len(chain) - depth + 1)..MaxHeight
    /\ UNCHANGED <<fresh, blocks, events, checkpoint, status, scan, faults>>

-----------------------------------------------------------------------------
(* scanPaymentRouters.                                                     *)

\* The head and the checkpoint are read first.
StartScan(s) ==
    /\ scan[s].pc = "idle"
    /\ scan' = [scan EXCEPT ![s] =
         [pc |-> "verify", tip |-> Tip, base |-> checkpoint]]
    /\ UNCHANGED <<chain, fresh, reorgs, blocks, events, checkpoint, status,
                   faults, split>>

\* verifyRouterCheckpoint: the newest journaled block that is still there, or
\* a window back when there is none.
Candidates(b) == {c \in blocks : c.height < b.height /\ OnChain(c)}
Back(b) == LET h == IF b.height > Window THEN b.height - Window ELSE 0
           IN [height |-> h, id |-> IdAt(h)]
Ancestor(b) ==
    IF Candidates(b) = {} THEN Back(b)
    ELSE CHOOSE c \in Candidates(b) : \A d \in Candidates(b) : d.height <= c.height
VariantTrustCheckpoint(b) == TRUE
StillThere(b) == b = None \/ OnChain(b)
Verify(s) ==
    /\ scan[s].pc = "verify"
    /\ scan' = [scan EXCEPT ![s] =
         IF StillThere(@.base) THEN [@ EXCEPT !.pc = "fetch"]
         ELSE IF Candidates(@.base) = {} /\ @.base.height - Window > Len(chain)
         THEN Idle  \* the block a window back cannot be read
         ELSE [@ EXCEPT !.pc = "rollback", !.base = Ancestor(@)]]
    /\ UNCHANGED <<chain, fresh, reorgs, blocks, events, checkpoint, status,
                   faults, split>>

\* rollbackRouterJournal, one batch.
Rollback(s) ==
    LET h == scan[s].base.height
    IN /\ scan[s].pc = "rollback" /\ scan' = [scan EXCEPT ![s].pc = "fetch"]
       /\ events' = [a \in Attempts |->
                       [events[a] EXCEPT !.canonical = @ /\ events[a].height <= h]]
       /\ blocks' = {b \in blocks : b.height <= h}
       /\ checkpoint' = scan[s].base
       /\ split' = IF \A t \in Scans \ {s} : scan[t] = Idle THEN split
                   ELSE split \cup (h + 1)..MaxHeight
       /\ UNCHANGED <<chain, fresh, reorgs, status, faults>>

\* Only routers of active attempts are asked; every attempt here has the same.
Active == {a \in Attempts : status[a] \in {"reserved", "processing"}}
From(s) == IF scan[s].base # None THEN scan[s].base.height + 1
           ELSE IF scan[s].tip > Window THEN scan[s].tip - Window ELSE 0
To(s) == LET end == From(s) + Window - 1
         IN IF end < scan[s].tip THEN end ELSE scan[s].tip
LogsIn(from, to) ==
    {[attempt |-> a, height |-> h, id |-> chain[h].id] :
     <<a, h>> \in {p \in Attempts \X (DOMAIN chain) :
                     /\ p[2] >= from /\ p[2] <= to
                     /\ p[1] \in chain[p[2]].events}}
FetchLogs(s) ==
    /\ scan[s].pc = "fetch"
    /\ scan' = [scan EXCEPT ![s] =
         IF Active = {} \/ From(s) > @.tip THEN Idle
         ELSE [pc |-> "process", from |-> From(s), to |-> To(s),
               logs |-> LogsIn(From(s), To(s))]]
    /\ UNCHANGED <<chain, fresh, reorgs, blocks, events, checkpoint, status,
                   faults, split>>

\* One log, in chain order: journaled, the attempt marked, then reconciled.
\* A missing receipt and a refused evidence throw: the scan ends before its
\* commit.
FirstLogs(logs) == {l \in logs : \A k \in logs : l.height <= k.height}
Confirmed(a) == a \in Landed /\ Len(chain) - HeightOf(a) + 1 >= Confirmations
Refused(a) == a \in AppAttempts /\ Confirmed(a)
Throws(a) == status[a] # "paid" /\ (a \notin Landed \/ Refused(a))
VariantMarkOnly(l) == status[l.attempt]
Reconciled(l) ==
    IF status[l.attempt] = "paid" \/ (Confirmed(l.attempt) /\ ~Refused(l.attempt))
    THEN "paid" ELSE "processing"
ProcessLog(s, l) ==
    /\ scan[s].pc = "process" /\ l \in FirstLogs(scan[s].logs)
    /\ events' = [events EXCEPT ![l.attempt] =
         [height |-> l.height, id |-> l.id, canonical |-> TRUE]]
    /\ status' = [status EXCEPT ![l.attempt] = Reconciled(l)]
    /\ scan' = [scan EXCEPT ![s] =
         IF Throws(l.attempt) THEN Idle ELSE [@ EXCEPT !.logs = @ \ {l}]]
    /\ UNCHANGED <<chain, fresh, reorgs, blocks, checkpoint, faults, split>>

\* commitRouterCheckpoint: the block is read after the logs, and the
\* checkpoint is written whatever it is now.
Commit(s) ==
    /\ scan[s].pc = "process" /\ scan[s].logs = {} /\ scan[s].to <= Len(chain)
    /\ LET b == [height |-> scan[s].to, id |-> IdAt(scan[s].to)]
       IN /\ blocks' = {c \in blocks : c.height # b.height} \cup {b}
          /\ checkpoint' = b
    /\ scan' = [scan EXCEPT ![s] = Idle]
    /\ UNCHANGED <<chain, fresh, reorgs, events, status, faults, split>>

\* A crash, a timeout or an RPC error; and the block of the commit is gone.
ScanFails(s) ==
    /\ faults < MaxFaults /\ scan[s] # Idle
    /\ faults' = faults + 1 /\ scan' = [scan EXCEPT ![s] = Idle]
    /\ UNCHANGED <<chain, fresh, reorgs, blocks, events, checkpoint, status, split>>
BlockIsGone(s) ==
    /\ scan[s].pc = "process" /\ scan[s].logs = {} /\ scan[s].to > Len(chain)
    /\ scan' = [scan EXCEPT ![s] = Idle]
    /\ UNCHANGED <<chain, fresh, reorgs, blocks, events, checkpoint, status,
                   faults, split>>

Step(s) ==
    \/ StartScan(s) \/ Verify(s) \/ Rollback(s) \/ FetchLogs(s) \/ Commit(s)
    \/ BlockIsGone(s)
    \/ \E l \in (IF scan[s].pc = "process" THEN scan[s].logs ELSE {}) :
         ProcessLog(s, l)

Next ==
    \/ \E es \in SUBSET Attempts : Mine(es)
    \/ \E d \in 1..MaxDepth : Reorg(d)
    \/ \E s \in Scans : Step(s) \/ ScanFails(s)

Spec == Init /\ [][Next]_vars

\* Blocks keep coming, and the cron enqueues a scan every minute.
Fairness ==
    /\ WF_vars(\E es \in SUBSET Attempts : Mine(es))
    /\ \A s \in Scans : WF_vars(Step(s))
LiveSpec == Spec /\ Fairness

-----------------------------------------------------------------------------
\* A checkpoint that is on the chain covers it: every router event at or below
\* it is journaled as canonical, so no later scan has to come back.  Exempt
\* are heights replaced while a scan was reading them, and heights one of two
\* overlapping scans rolled back while the other was under way.
CheckpointIsCovered ==
    checkpoint # None /\ OnChain(checkpoint) =>
      \A a \in Landed :
        HeightOf(a) <= checkpoint.height /\ HeightOf(a) \notin split =>
          events[a].canonical /\ events[a].id = chain[HeightOf(a)].id

\* A payment that lands and stays is found and paid by the watch alone, even
\* when nobody registers its transaction.
PaymentIsFound ==
    \A a \in Attempts \ AppAttempts :
      <>[](/\ a \in Landed /\ HeightOf(a) \notin split
           /\ HeightOf(a) <= MaxHeight - Confirmations) =>
        <>(status[a] = "paid")
=============================================================================
