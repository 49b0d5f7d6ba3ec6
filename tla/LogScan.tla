------------------------------ MODULE LogScan ------------------------------
(***************************************************************************)
(* How a poller of the chain reads its backlog: a job opens a window above *)
(* its cursor, the adaptive scanner cuts it into ranges, each range goes   *)
(* to the pool of providers, and the job commits the part of the window it *)
(* can prove.  A job that throws is delivered again by the queue.          *)
(*                                                                         *)
(* Providers fail and recover at will.  An error is known by what the code *)
(* makes of its text: a complaint about the range, a transient failure, or *)
(* neither.                                                                *)
(***************************************************************************)
EXTENDS Integers, Sequences, FiniteSets, FiniteSetsExt, Functions

CONSTANTS Providers,    \* names of RPC_INDEXER_URLS, in configured order
          Configured,   \* RPC_PROVIDER_CAPABILITIES: range and priority, or none
          LargestRange, \* MAX_CONFIGURED_LOG_RANGE
          LegacyRange,  \* RPC_INDEXER_MAX_BLOCK_RANGE
          MinRange,     \* RPC_INDEXER_MIN_BLOCK_RANGE
          MaxCalls,     \* INDEXER_MAX_RPC_CALLS_PER_JOB
          MaxBlocks,    \* INDEXER_MAX_BLOCKS_PER_JOB
          MaxEvents,    \* INDEXER_MAX_EVENT_BLOCKS_PER_JOB
          MaxRetries,   \* maxTransientRetries
          ScanHead,     \* bound: the scan head
          MaxErrors     \* bound: errors of providers that are up

Names == Range(Providers)

\* The code replaces or clamps a setting that is not of its range.  A range of 0
\* or a negative priority stands for one the document does not give.
ASSUME ConfigurationAssumption ==
  /\ Len(Providers) \in Nat \ {0} /\ DOMAIN Providers = 1..Len(Providers)
  /\ LargestRange \in Nat /\ \A p \in Names : Configured[p].range \in 0..LargestRange
  /\ LegacyRange \in 1..LargestRange /\ MinRange \in Nat \ {0}
  /\ MaxCalls \in Nat \ {0} /\ MaxBlocks \in Nat \ {0} /\ MaxEvents \in Nat \ {0}
  /\ ScanHead \in Nat

Blocks == 1..ScanHead
Slot(p) == CHOOSE k \in 1..Len(Providers) : Providers[k] = p
NoScan == [pc |-> "idle", at |-> 0, end |-> 0, span |-> 0, calls |-> 0, attempt |-> 0]

VARIABLES cursor,    \* sync_state.last_block of the stream
          scan,      \* the job's scanLogsAdaptive
          got,       \* event blocks among the logs of this job
          journaled, \* event blocks the stream has journaled
          events,    \* blocks with logs of the stream
          down,      \* providers that do not answer
          refused,   \* providers that failed the last range
          errors

vars == <<cursor, scan, got, journaled, events, down, refused, errors>>

Init ==
  /\ cursor = 0 /\ scan = NoScan /\ got = {} /\ journaled = {}
  /\ events \in {E \in SUBSET Blocks : ScanHead \in E} /\ down = {} /\ refused = {} /\ errors = 0

(* --------------------------- The provider pool ------------------------- *)

\* normalizeCapability: what the document does not say has a default.
Capability(p) ==
  [range |-> IF Configured[p].range > 0 THEN Configured[p].range ELSE LegacyRange,
   priority |-> IF Configured[p].priority >= 0 THEN Configured[p].priority ELSE Slot(p) - 1]

\* requestLogs asks by priority, then by name.
AskedBefore(a, b) ==
  \/ Capability(a).priority < Capability(b).priority
  \/ Capability(a).priority = Capability(b).priority /\ Slot(a) < Slot(b)

Widest == Max({Capability(p).range : p \in Names})

Eligible(span) == {p \in Names : Capability(p).range >= span}

Ok == [tag |-> "ok", cap |-> FALSE, trans |-> FALSE]
Failure(cap, trans) == [tag |-> "error", cap |-> cap, trans |-> trans]

\* What a provider may answer; a range of one block is never too large.
Answers(p, span) ==
  IF p \in down THEN {Failure(FALSE, TRUE)}
  ELSE {Ok} \cup (IF errors < MaxErrors
                    THEN {Failure(FALSE, FALSE), Failure(FALSE, TRUE)} \cup
                         (IF span > 1 THEN {Failure(TRUE, FALSE)} ELSE {})
                    ELSE {})

\* A smaller range may be served when this one is not.
SmallerMayServe(span, last) ==
  last.cap \/ \E p \in Names : Capability(p).range < span

\* An answer, and an error that no other provider would mend, end the request.
Settles(answer) == answer = Ok \/ ~ (answer.cap \/ answer.trans)

Earlier(span, p) == {q \in Eligible(span) : AskedBefore(q, p)}

\* The first provider that settles a request: those before it failed.
Settled(span, ans) ==
  {[result |-> ans[p], failed |-> Earlier(span, p) \cup (IF ans[p] = Ok THEN {} ELSE {p})] :
     p \in {q \in Eligible(span) :
              Settles(ans[q]) /\ \A r \in Earlier(span, q) : ~ Settles(ans[r])}}

\* None does: what the last one said counts.
Exhausted(span, ans) ==
  {[result |-> IF SmallerMayServe(span, ans[p]) THEN Failure(TRUE, ans[p].trans) ELSE ans[p],
    failed |-> Eligible(span)] :
     p \in {q \in Eligible(span) : /\ \A r \in Eligible(span) : ~ Settles(ans[r])
                                   /\ Eligible(span) = Earlier(span, q) \cup {q}}}

\* requestLogs: the outcome, and the providers that failed on the way to it.
RequestLogs(span) ==
  LET pool == Eligible(span) IN
  IF pool = {} THEN {[result |-> Failure(TRUE, FALSE), failed |-> {}]}
  ELSE UNION {Settled(span, ans) \cup Exhausted(span, ans) :
                ans \in {f \in [pool -> UNION {Answers(p, span) : p \in pool}] :
                           \A p \in pool : f[p] \in Answers(p, span)}}

(* ------------------------------- The scan ------------------------------ *)

Clamp(n, low, high) == IF n < low THEN low ELSE IF n > high THEN high ELSE n
Lowest(a, b) == IF a < b THEN a ELSE b

\* logRangeConfig.
MaxSpan == IF Widest > 0 THEN Widest ELSE 1
MinSpan == Lowest(MinRange, MaxSpan)

VariantUnbudgetedWindow(from) == Lowest(from + MaxBlocks - 1, ScanHead)

\* boundedScanWindowEnd, with one filter to a job.
ScanWindowEnd(from) == Lowest(from + Lowest(MaxSpan * MaxCalls, MaxBlocks) - 1, ScanHead)

OpenJob ==
  /\ scan.pc = "idle" /\ cursor < ScanHead
  /\ scan' = [pc |-> "scan", at |-> cursor + 1, end |-> ScanWindowEnd(cursor + 1),
              span |-> MaxSpan, calls |-> 0, attempt |-> 0]
  /\ got' = {} /\ refused' = {}
  /\ UNCHANGED <<cursor, journaled, events, down, errors>>

RangeEnd == Lowest(scan.at + scan.span - 1, scan.end)
Answered == scan.at..RangeEnd

\* A range was delivered: a sparse one earns a larger span.
Delivered ==
  /\ got' = got \cup (events \cap Answered)
  /\ \E sparse \in BOOLEAN :
       scan' = [scan EXCEPT !.at = RangeEnd + 1, !.calls = @ + 1, !.attempt = 0,
                  !.span = IF sparse /\ @ < MaxSpan THEN Clamp(@ * 2, MinSpan, MaxSpan) ELSE @]

\* An error about the range is an order to shrink, down to the minimum.
Shrinks(e) == e.cap /\ scan.span > MinSpan
Retries(e) == e.trans /\ scan.attempt < MaxRetries

NotDelivered(e) ==
  /\ scan' = IF Shrinks(e) THEN [scan EXCEPT !.calls = @ + 1, !.attempt = 0,
                                   !.span = Clamp((@ + 1) \div 2, MinSpan, MaxSpan)]
             ELSE IF Retries(e) THEN [scan EXCEPT !.calls = @ + 1, !.attempt = @ + 1]
             ELSE [NoScan EXCEPT !.pc = IF e.cap \/ e.trans THEN "failed" ELSE "rejected"]
  /\ UNCHANGED got

FetchRange ==
  /\ scan.pc = "scan" /\ scan.at <= scan.end /\ scan.calls < MaxCalls
  /\ \E o \in RequestLogs(RangeEnd - scan.at + 1) :
       /\ refused' = o.failed
       /\ errors' = errors + Cardinality(o.failed \ down)
       /\ IF o.result = Ok THEN Delivered ELSE NotDelivered(o.result)
  /\ UNCHANGED <<cursor, journaled, events, down>>

\* AdaptiveLogScanBudgetExceededError.
BudgetExceeded ==
  /\ scan.pc = "scan" /\ scan.at <= scan.end /\ scan.calls >= MaxCalls
  /\ scan' = NoScan /\ got' = {} /\ refused' = {}
  /\ UNCHANGED <<cursor, journaled, events, down, errors>>

\* The queue delivers the job that threw once more.
JobRetried ==
  /\ scan.pc \in {"failed", "rejected"} /\ scan' = NoScan /\ got' = {} /\ refused' = {}
  /\ UNCHANGED <<cursor, journaled, events, down, errors>>

\* The first MaxEvents of the blocks can be proved: only they are read and
\* journaled.
Provable(blocks) == {b \in blocks : Cardinality({c \in blocks : c <= b}) <= MaxEvents}

VariantWholeWindow(end, blocks) == end

\* boundedEvidenceWindowEnd: up to the last block that can be proved.
EvidenceWindowEnd(end, blocks) ==
  IF Cardinality(blocks) > MaxEvents THEN Max(Provable(blocks)) ELSE end

CommitWindow ==
  /\ scan.pc = "scan" /\ scan.at > scan.end
  /\ journaled' = journaled \cup Provable(got)
  /\ cursor' = EvidenceWindowEnd(scan.end, got)
  /\ scan' = NoScan /\ got' = {} /\ refused' = {}
  /\ UNCHANGED <<events, down, errors>>

GoDown(p) ==
  /\ p \notin down /\ down' = down \cup {p}
  /\ UNCHANGED <<cursor, scan, got, journaled, events, refused, errors>>

ComeUp(p) ==
  /\ p \in down /\ down' = down \ {p}
  /\ UNCHANGED <<cursor, scan, got, journaled, events, refused, errors>>

Job == OpenJob \/ FetchRange \/ BudgetExceeded \/ JobRetried \/ CommitWindow
Done == cursor = ScanHead /\ UNCHANGED vars
Next == Job \/ (\E p \in Names : GoDown(p) \/ ComeUp(p)) \/ Done

Spec == Init /\ [][Next]_vars

\* The queue keeps delivering and a job runs to its end.
LiveSpec == Spec /\ WF_vars(Job)

(* ------------------------------ Properties ----------------------------- *)

\* The cursor never passes an event that was not journaled, however the
\* window was cut, answered and truncated (runIndexer commits
\* committedScanEnd).
CursorIsJournaled == \A b \in events : b <= cursor => b \in journaled

\* A job gives up for want of providers only when every one of them failed
\* its last range: as long as one could serve a smaller range, the scan
\* shrinks to it (requestLogs, scanLogsAdaptive).
EveryProviderWasAsked == scan.pc = "failed" => refused = Names

\* A scan loses nothing: its cursor passes no event that was not journaled, and
\* it gives up only when every provider failed its last range.
ScanIsComplete == CursorIsJournaled /\ EveryProviderWasAsked

\* While the provider of the widest range answers, the backlog drains: a job
\* never opens a window its calls cannot cover (boundedScanWindowEnd).
BacklogDrains ==
  (\E p \in Names : Capability(p).range = Widest /\ <>[](p \notin down)) => <>(cursor = ScanHead)

\* While any provider answers the backlog drains: with only a smaller range
\* left the scanner divides the window and goes on
\* (docs/runbooks/rpc-operations.md).
BacklogDrainsOverAny == (\E p \in Names : <>[](p \notin down)) => <>(cursor = ScanHead)
=============================================================================
