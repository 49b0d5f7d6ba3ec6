---------------------------- MODULE LogScanProofs ----------------------------
(***************************************************************************)
(* A scan of the chain loses no event and gives up only for want of        *)
(* providers: proofs about LogScan for every pool, budget and backlog.     *)
(***************************************************************************)
EXTENDS LogScan, TLAPS, FiniteSetTheorems, WellFoundedInduction

-----------------------------------------------------------------------------
(* Numbers                                                                 *)

\* A set of naturals that is not empty has a least element.
LEMMA LeastExists ==
    ASSUME NEW S \in SUBSET Nat, S # {}
    PROVE  \E k \in S : \A j \in S : k <= j
<1> DEFINE Less == OpToRel(<, Nat)
<1>1. \E k \in S : \A j \in S : <<j, k>> \notin Less
  <2>1. IsWellFoundedOn(Less, Nat)
    BY NatLessThanWellFounded DEF Less
  <2> HIDE DEF Less
  <2> QED BY <2>1, WFMin
<1>2. PICK k \in S : \A j \in S : <<j, k>> \notin Less
  BY <1>1
<1>3. ASSUME NEW j \in S PROVE k <= j
  <2>1. Less = {pair \in Nat \X Nat : pair[1] < pair[2]}
    BY DEF OpToRel
  <2>2. <<j, k>> \in Nat \X Nat /\ <<j, k>> \notin Less
    BY <1>2
  <2> HIDE DEF Less
  <2> QED BY <2>1, <2>2
<1> QED BY <1>3

\* A set of naturals that is not empty and has a bound has a largest element.
LEMMA MaxOfBounded ==
    ASSUME NEW S \in SUBSET Nat, S # {}, NEW n \in Nat, \A x \in S : x <= n
    PROVE  Max(S) \in S /\ \A x \in S : x <= Max(S)
<1> DEFINE Above == {k \in Nat : \A x \in S : x <= k}
<1>1. Above # {} /\ Above \in SUBSET Nat
  OBVIOUS
<1>2. \E k \in Above : \A j \in Above : k <= j
  <2> HIDE DEF Above
  <2> QED BY <1>1, LeastExists
<1>3. PICK k \in Above : \A j \in Above : k <= j
  BY <1>2
<1>4. k \in S
  <2>1. SUFFICES ASSUME k \notin S PROVE FALSE
    OBVIOUS
  <2>2. PICK x \in S : TRUE
    OBVIOUS
  <2>3. k \in Nat /\ x \in Nat /\ x < k
    BY <2>1
  <2>4. k - 1 \in Above
    BY <2>1, <2>3
  <2> QED BY <1>3, <2>3, <2>4
<1>5. \A y \in S : k >= y
  OBVIOUS
<1>6. Max(S) \in S /\ \A y \in S : Max(S) >= y
  BY <1>4, <1>5 DEF Max
<1> QED BY <1>6

\* A product of positive numbers is positive.
LEMMA ProductIsPositive ==
    ASSUME NEW a \in Nat \ {0}, NEW b \in Nat \ {0}
    PROVE  a * b \in Nat \ {0}
OBVIOUS

\* A set of naturals that has a bound is finite.
LEMMA BoundedIsFinite ==
    ASSUME NEW S \in SUBSET Nat, NEW n \in Nat, \A x \in S : x <= n
    PROVE  IsFiniteSet(S) /\ Cardinality(S) \in Nat
<1>1. IsFiniteSet(0..n) /\ S \in SUBSET (0..n)
  BY FS_Interval
<1> QED BY <1>1, FS_Subset, FS_CardinalityType

-----------------------------------------------------------------------------
(* The settings                                                            *)

\* Every provider has a range, and the widest of them bounds the span of a
\* scan from above, the minimum from below.
LEMMA SpansAreOrdered ==
    /\ \A p \in Names : Capability(p).range \in 1..LargestRange
    /\ MaxSpan \in Nat \ {0} /\ MinSpan \in 1..MaxSpan /\ MinSpan <= MinRange
<1>1. \A p \in Names : Capability(p).range \in 1..LargestRange
  BY ConfigurationAssumption DEF Capability
<1>2. Names # {}
  <2>1. 1 \in DOMAIN Providers
    BY ConfigurationAssumption
  <2> QED BY <2>1 DEF Names, Range
<1> DEFINE ranges == {Capability(p).range : p \in Names}
<1>3. Max(ranges) \in ranges
  <2>1. ranges \in SUBSET Nat /\ ranges # {} /\ \A x \in ranges : x <= LargestRange
    BY <1>1, <1>2, ConfigurationAssumption
  <2> HIDE DEF ranges
  <2> QED BY <2>1, MaxOfBounded, ConfigurationAssumption
<1>4. MaxSpan \in Nat \ {0}
  BY <1>1, <1>3, ConfigurationAssumption DEF MaxSpan, Widest
<1> QED BY <1>1, <1>4, ConfigurationAssumption DEF MinSpan, Lowest

-----------------------------------------------------------------------------
(* The cursor                                                              *)

Scans == [pc : {"idle", "scan", "failed", "rejected"}, at : Nat, end : Nat, span : Nat,
          calls : Nat, attempt : Nat]

TypeInv == cursor \in Nat /\ events \subseteq Nat /\ scan \in Scans

\* While a job scans, its logs are all those between its cursor and the block
\* it has come to.
LogsAreComplete ==
    scan.pc = "scan" =>
        /\ scan.at \in (cursor + 1)..(scan.end + 1) /\ scan.span > 0
        /\ got = events \cap ((cursor + 1)..(scan.at - 1))

CursorInv == TypeInv /\ LogsAreComplete /\ CursorIsJournaled

\* The first job starts at nothing.
LEMMA InitCursor == Init => CursorInv
BY ConfigurationAssumption DEF Init, CursorInv, TypeInv, LogsAreComplete, CursorIsJournaled, NoScan,
    Scans, Blocks

\* A window starts above the cursor and is not empty.
LEMMA OpenKeeps ==
    ASSUME CursorInv, OpenJob
    PROVE  CursorInv'
<1> DEFINE from == cursor + 1
           end == ScanWindowEnd(cursor + 1)
<1>1. MaxSpan * MaxCalls \in Nat \ {0}
  BY SpansAreOrdered, ConfigurationAssumption, ProductIsPositive
<1>2. PICK n \in Nat \ {0} : n = MaxSpan * MaxCalls
  BY <1>1
<1>3. cursor \in Nat /\ cursor < ScanHead
  BY DEF OpenJob, CursorInv, TypeInv
<1>4. end \in Nat /\ end >= from
  BY <1>2, <1>3, ConfigurationAssumption DEF ScanWindowEnd, Lowest
<1>5. /\ scan' = [pc |-> "scan", at |-> from, end |-> end, span |-> MaxSpan, calls |-> 0, attempt |-> 0]
      /\ got' = {} /\ UNCHANGED <<cursor, journaled, events>>
  BY DEF OpenJob
<1>6. scan' \in Scans
  BY <1>3, <1>4, <1>5, SpansAreOrdered DEF Scans
<1> HIDE DEF end
<1> QED BY <1>3, <1>4, <1>5, <1>6, SpansAreOrdered DEF CursorInv, TypeInv, LogsAreComplete, CursorIsJournaled

\* The span stays a span however it is doubled or halved.
LEMMA ClampIsSpan ==
    ASSUME NEW n \in Int
    PROVE  Clamp(n, MinSpan, MaxSpan) \in 1..MaxSpan
BY SpansAreOrdered DEF Clamp

\* The logs of a range that was delivered close the gap up to the next one.
LEMMA DeliveredKeeps ==
    ASSUME CursorInv, scan.pc = "scan", scan.at <= scan.end, Delivered,
           UNCHANGED <<cursor, journaled, events>>
    PROVE  CursorInv'
<1>1. /\ scan \in Scans /\ scan.at \in Nat /\ scan.end \in Nat /\ scan.span \in Nat \ {0}
      /\ scan.calls \in Nat /\ cursor \in Nat /\ events \subseteq Nat
      /\ scan.at \in (cursor + 1)..(scan.end + 1) /\ got = events \cap ((cursor + 1)..(scan.at - 1))
  BY DEF CursorInv, TypeInv, LogsAreComplete, Scans
<1>2. RangeEnd \in Nat /\ RangeEnd >= scan.at /\ RangeEnd <= scan.end
  BY <1>1 DEF RangeEnd, Lowest
<1>3. PICK span \in Nat \ {0} :
        scan' = [scan EXCEPT !.at = RangeEnd + 1, !.calls = scan.calls + 1, !.attempt = 0, !.span = span]
  <2>1. Clamp(scan.span * 2, MinSpan, MaxSpan) \in Nat \ {0}
    BY <1>1, ClampIsSpan, SpansAreOrdered
  <2>2. PICK sparse \in BOOLEAN :
          scan' = [scan EXCEPT !.at = RangeEnd + 1, !.calls = scan.calls + 1, !.attempt = 0,
                     !.span = IF sparse /\ scan.span < MaxSpan
                              THEN Clamp(scan.span * 2, MinSpan, MaxSpan) ELSE scan.span]
    BY <1>1 DEF Delivered
  <2>3. CASE sparse /\ scan.span < MaxSpan
    <3>1. scan' = [scan EXCEPT !.at = RangeEnd + 1, !.calls = scan.calls + 1, !.attempt = 0,
                     !.span = Clamp(scan.span * 2, MinSpan, MaxSpan)]
      BY <2>2, <2>3
    <3> QED BY <2>1, <3>1
  <2>4. CASE ~ (sparse /\ scan.span < MaxSpan)
    <3>1. scan' = [scan EXCEPT !.at = RangeEnd + 1, !.calls = scan.calls + 1, !.attempt = 0,
                     !.span = scan.span]
      BY <2>2, <2>4
    <3> QED BY <1>1, <3>1
  <2> QED BY <2>3, <2>4
<1>4. scan' \in Scans
  <2>1. PICK at \in Nat, calls \in Nat : at = RangeEnd + 1 /\ calls = scan.calls + 1
    BY <1>1, <1>2
  <2>2. scan' = [scan EXCEPT !.at = at, !.calls = calls, !.attempt = 0, !.span = span]
    BY <1>3, <2>1
  <2>3. scan \in Scans
    BY <1>1
  <2> QED BY <2>2, <2>3 DEF Scans
<1>5. /\ scan'.at = RangeEnd + 1 /\ scan'.end = scan.end /\ scan'.span = span
  BY <1>1, <1>3 DEF Scans
<1>6. got' = events \cap ((cursor + 1)..RangeEnd)
  BY <1>1, <1>2 DEF Delivered, Answered
<1> HIDE DEF RangeEnd
<1> QED BY <1>1, <1>2, <1>4, <1>5, <1>6 DEF CursorInv, TypeInv, LogsAreComplete, CursorIsJournaled

\* A job that ends leaves nothing to account for.
LEMMA EndKeeps ==
    ASSUME CursorInv, NEW pc \in {"idle", "failed", "rejected"}, scan' = [NoScan EXCEPT !.pc = pc],
           UNCHANGED <<cursor, journaled, events>>
    PROVE  CursorInv'
<1>1. scan' \in Scans /\ scan'.pc # "scan"
  BY DEF NoScan, Scans
<1> QED BY <1>1 DEF CursorInv, TypeInv, LogsAreComplete, CursorIsJournaled

\* An error changes the span, or ends the job.
LEMMA NotDeliveredKeeps ==
    ASSUME CursorInv, scan.pc = "scan", NEW e, NotDelivered(e), UNCHANGED <<cursor, journaled, events>>
    PROVE  CursorInv'
<1>1. /\ scan \in Scans /\ scan.span \in Nat \ {0} /\ scan.calls \in Nat /\ scan.attempt \in Nat
      /\ UNCHANGED got
  BY DEF CursorInv, TypeInv, LogsAreComplete, Scans, NotDelivered
<1>2. ASSUME NEW calls \in Nat, NEW attempt \in Nat, NEW span \in Nat \ {0},
             scan' = [scan EXCEPT !.calls = calls, !.attempt = attempt, !.span = span]
      PROVE  CursorInv'
  <2>1. /\ scan' \in Scans /\ scan'.pc = "scan" /\ scan'.at = scan.at /\ scan'.end = scan.end
        /\ scan'.span = span
    BY <1>1, <1>2 DEF Scans
  <2> QED BY <1>1, <2>1 DEF CursorInv, TypeInv, LogsAreComplete, CursorIsJournaled
<1>3. CASE Shrinks(e)
  <2>1. (scan.span + 1) \div 2 \in Int
    BY <1>1
  <2>2. Clamp((scan.span + 1) \div 2, MinSpan, MaxSpan) \in Nat \ {0}
    BY <2>1, ClampIsSpan, SpansAreOrdered
  <2>3. PICK calls \in Nat, span \in Nat \ {0} :
          calls = scan.calls + 1 /\ span = Clamp((scan.span + 1) \div 2, MinSpan, MaxSpan)
    BY <1>1, <2>2
  <2>4. scan' = [scan EXCEPT !.calls = scan.calls + 1, !.attempt = 0,
                             !.span = Clamp((scan.span + 1) \div 2, MinSpan, MaxSpan)]
    BY <1>3 DEF NotDelivered
  <2>5. scan' = [scan EXCEPT !.calls = calls, !.attempt = 0, !.span = span]
    BY <2>3, <2>4
  <2> QED BY <1>2, <2>5
<1>4. CASE ~ Shrinks(e) /\ Retries(e)
  <2>1. scan' = [scan EXCEPT !.calls = scan.calls + 1, !.attempt = scan.attempt + 1]
    BY <1>4 DEF NotDelivered
  <2>2. PICK calls \in Nat, attempt \in Nat, span \in Nat \ {0} :
          calls = scan.calls + 1 /\ attempt = scan.attempt + 1 /\ span = scan.span
    BY <1>1
  <2>3. scan' = [scan EXCEPT !.calls = calls, !.attempt = attempt, !.span = span]
    BY <1>1, <2>1, <2>2 DEF Scans
  <2> QED BY <1>2, <2>3
<1>5. CASE ~ Shrinks(e) /\ ~ Retries(e)
  <2>1. PICK pc \in {"failed", "rejected"} : scan' = [NoScan EXCEPT !.pc = pc]
    BY <1>5 DEF NotDelivered
  <2> QED BY <2>1, EndKeeps
<1> QED BY <1>3, <1>4, <1>5

\* Of a finite set of blocks, those up to the end of the evidence window are
\* the ones that can be proved.
LEMMA WindowIsProvable ==
    ASSUME NEW end \in Nat, NEW blocks \in SUBSET Nat, \A b \in blocks : b <= end
    PROVE  /\ EvidenceWindowEnd(end, blocks) \in Nat /\ EvidenceWindowEnd(end, blocks) <= end
           /\ \A b \in blocks : b <= EvidenceWindowEnd(end, blocks) => b \in Provable(blocks)
<1> DEFINE upTo(b) == {c \in blocks : c <= b}
<1>1. IsFiniteSet(blocks) /\ Cardinality(blocks) \in Nat
  BY BoundedIsFinite
<1>2. ASSUME NEW b \in blocks
      PROVE  IsFiniteSet(upTo(b)) /\ Cardinality(upTo(b)) \in Nat
             /\ Cardinality(upTo(b)) <= Cardinality(blocks)
  BY <1>1, FS_Subset, FS_CardinalityType
<1>0. \A b : b \in Provable(blocks) <=> b \in blocks /\ Cardinality(upTo(b)) <= MaxEvents
  BY DEF Provable
<1> HIDE DEF upTo
<1>3. CASE Cardinality(blocks) <= MaxEvents
  <2>1. EvidenceWindowEnd(end, blocks) = end
    BY <1>1, <1>3, ConfigurationAssumption DEF EvidenceWindowEnd
  <2>2. ASSUME NEW b \in blocks PROVE b \in Provable(blocks)
    BY <1>0, <1>1, <1>2, <1>3, ConfigurationAssumption
  <2> QED BY <2>1, <2>2
<1>4. CASE Cardinality(blocks) > MaxEvents
  <2>1. EvidenceWindowEnd(end, blocks) = Max(Provable(blocks))
    BY <1>4 DEF EvidenceWindowEnd
  <2>2. Provable(blocks) # {}
    <3>1. blocks # {}
      BY <1>1, <1>4, ConfigurationAssumption, FS_EmptySet
    <3>2. PICK m \in blocks : \A c \in blocks : m <= c
      BY <3>1, LeastExists
    <3>3. upTo(m) = {m}
      <4>1. m \in upTo(m)
        BY DEF upTo
      <4>2. ASSUME NEW c \in upTo(m) PROVE c = m
        BY <3>2 DEF upTo
      <4> QED BY <4>1, <4>2
    <3>4. Cardinality(upTo(m)) = 1
      BY <3>3, FS_Singleton
    <3> QED BY <1>0, <3>2, <3>4, ConfigurationAssumption
  <2>3. Provable(blocks) \in SUBSET Nat /\ \A b \in Provable(blocks) : b <= end
    BY DEF Provable
  <2>4. Max(Provable(blocks)) \in Provable(blocks)
    BY <2>2, <2>3, MaxOfBounded
  <2>5. ASSUME NEW b \in blocks, b <= Max(Provable(blocks)) PROVE b \in Provable(blocks)
    <3>1. PICK m \in blocks : m = Max(Provable(blocks)) /\ Cardinality(upTo(m)) <= MaxEvents
      BY <1>0, <2>4
    <3>2. upTo(b) \in SUBSET upTo(m)
      <4>1. b \in Nat /\ m \in Nat /\ b <= m
        BY <2>5, <3>1
      <4>2. ASSUME NEW c \in upTo(b) PROVE c \in upTo(m)
        <5>1. c \in blocks /\ c \in Nat /\ c <= b
          BY DEF upTo
        <5>2. c <= m
          BY <4>1, <5>1
        <5> QED BY <5>1, <5>2 DEF upTo
      <4> QED BY <4>2
    <3>3. Cardinality(upTo(b)) <= Cardinality(upTo(m))
      BY <1>2, <3>2, FS_Subset
    <3>4. Cardinality(upTo(b)) <= MaxEvents
      BY <1>2, <3>1, <3>3, ConfigurationAssumption
    <3> QED BY <1>0, <3>4
  <2> QED BY <2>1, <2>3, <2>4, <2>5
<1> QED BY <1>1, <1>3, <1>4, ConfigurationAssumption

\* A job that commits has journaled every event up to its new cursor.
LEMMA CommitKeeps ==
    ASSUME CursorInv, CommitWindow
    PROVE  CursorInv'
<1>1. /\ scan.pc = "scan" /\ scan.at = scan.end + 1 /\ scan.end \in Nat /\ cursor \in Nat
      /\ events \subseteq Nat /\ got = events \cap ((cursor + 1)..scan.end)
  BY DEF CommitWindow, CursorInv, TypeInv, LogsAreComplete, Scans
<1>2. got \in SUBSET Nat /\ \A b \in got : b <= scan.end
  BY <1>1
<1>3. /\ cursor' \in Nat /\ cursor' <= scan.end
      /\ \A b \in got : b <= cursor' => b \in Provable(got)
  BY <1>1, <1>2, WindowIsProvable DEF CommitWindow
<1>4. CursorIsJournaled'
  BY <1>1, <1>3 DEF CommitWindow, CursorInv, CursorIsJournaled
<1> QED BY <1>3, <1>4 DEF CommitWindow, CursorInv, TypeInv, LogsAreComplete, NoScan, Scans

\* Every step of a job or a provider keeps the cursor behind the journal.
LEMMA NextCursor == CursorInv /\ [Next]_vars => CursorInv'
<1> SUFFICES ASSUME CursorInv, [Next]_vars PROVE CursorInv'
  OBVIOUS
<1>1. CASE FetchRange
  BY <1>1, DeliveredKeeps, NotDeliveredKeeps DEF FetchRange
<1>2. CASE BudgetExceeded \/ JobRetried
  <2>1. scan' = [NoScan EXCEPT !.pc = "idle"]
    BY <1>2 DEF BudgetExceeded, JobRetried, NoScan
  <2> QED BY <1>2, <2>1, EndKeeps DEF BudgetExceeded, JobRetried
<1>3. CASE (\E p \in Names : GoDown(p) \/ ComeUp(p)) \/ UNCHANGED vars
  BY <1>3 DEF GoDown, ComeUp, vars, CursorInv, TypeInv, LogsAreComplete, CursorIsJournaled
<1> QED BY <1>1, <1>2, <1>3, OpenKeeps, CommitKeeps DEF Next, Job, Done

\* The cursor never passes an event that was not journaled, however the window
\* was cut, answered and truncated (runIndexer commits committedScanEnd).
THEOREM CursorCorrect == Spec => []CursorIsJournaled
<1>1. CursorInv => CursorIsJournaled
  BY DEF CursorInv
<1> QED BY InitCursor, NextCursor, <1>1, PTL DEF Spec

-----------------------------------------------------------------------------
(* The providers                                                           *)

\* No endpoint is limited to less than RPC_INDEXER_MIN_BLOCK_RANGE blocks.  The
\* Worker compares that minimum with RPC_INDEXER_MAX_BLOCK_RANGE only
\* (runtimeConfig.ts), not with the ranges of RPC_PROVIDER_CAPABILITIES: with a
\* smaller endpoint a scan that may not shrink any further gives up without
\* having asked it.
MinimumIsServed == \A p \in Names : MinRange <= Capability(p).range

\* A range that all can serve is asked of all.
LEMMA AllAreEligible ==
    ASSUME NEW span \in Nat, \A p \in Names : span <= Capability(p).range
    PROVE  Eligible(span) = Names
BY SpansAreOrdered DEF Eligible

\* A request fails, for want of providers, on all that can serve it.
LEMMA FailedOnEligible ==
    ASSUME NEW span \in Nat, NEW o \in RequestLogs(span), o.result # Ok, o.result.cap \/ o.result.trans
    PROVE  /\ o.failed = Eligible(span)
           /\ o.result.cap \/ \A p \in Names : ~ (Capability(p).range < span)
<1>1. CASE Eligible(span) = {}
  BY <1>1 DEF RequestLogs, Failure
<1>2. CASE Eligible(span) # {}
  <2>1. PICK ans, p :
          \/ o.result = ans[p] /\ Settles(ans[p])
          \/ /\ o.failed = Eligible(span)
             /\ o.result = IF SmallerMayServe(span, ans[p]) THEN Failure(TRUE, ans[p].trans) ELSE ans[p]
    <3>1. PICK ans : o \in Settled(span, ans) \cup Exhausted(span, ans)
      BY <1>2 DEF RequestLogs
    <3>2. CASE o \in Settled(span, ans)
      <4>1. PICK p \in Eligible(span), failed \in SUBSET Names :
              Settles(ans[p]) /\ o = [result |-> ans[p], failed |-> failed]
        BY <3>2 DEF Settled, Earlier, Eligible
      <4>2. o.result = ans[p]
        BY <4>1
      <4> QED BY <4>1, <4>2
    <3>3. CASE o \in Exhausted(span, ans)
      <4>1. PICK p \in Eligible(span) :
              o = [result |-> IF SmallerMayServe(span, ans[p]) THEN Failure(TRUE, ans[p].trans)
                              ELSE ans[p],
                   failed |-> Eligible(span)]
        BY <3>3 DEF Exhausted
      <4>2. /\ o.failed = Eligible(span)
            /\ o.result = IF SmallerMayServe(span, ans[p]) THEN Failure(TRUE, ans[p].trans) ELSE ans[p]
        BY <4>1
      <4> QED BY <4>2
    <3> QED BY <3>1, <3>2, <3>3
  <2>2. CASE o.result = ans[p] /\ Settles(ans[p])
    BY <2>2 DEF Settles
  <2>3. CASE SmallerMayServe(span, ans[p]) /\ o.failed = Eligible(span) /\ o.result = Failure(TRUE, ans[p].trans)
    BY <2>3 DEF Failure
  <2>4. CASE ~ SmallerMayServe(span, ans[p]) /\ o.failed = Eligible(span)
    BY <2>4 DEF SmallerMayServe
  <2> QED BY <2>1, <2>2, <2>3, <2>4
<1> QED BY <1>1, <1>2

\* The scan ends for want of providers only at the smallest span it may use.
LEMMA FailedWasAsked ==
    ASSUME MinimumIsServed, CursorInv, FetchRange, scan'.pc = "failed"
    PROVE  refused' = Names
<1> DEFINE length == RangeEnd - scan.at + 1
<1>1. /\ scan.at \in Nat /\ scan.end \in Nat /\ scan.span \in Nat \ {0} /\ scan.at <= scan.end
      /\ scan.pc = "scan" /\ scan \in Scans
  BY DEF CursorInv, TypeInv, LogsAreComplete, Scans, FetchRange
<1>2. length \in Nat /\ length <= scan.span
  BY <1>1 DEF RangeEnd, Lowest
<1>3. PICK o \in RequestLogs(length) :
        /\ refused' = o.failed
        /\ IF o.result = Ok THEN Delivered ELSE NotDelivered(o.result)
  BY DEF FetchRange
<1>4. o.result # Ok
  <2>1. Delivered => scan'.pc = scan.pc
    BY <1>1 DEF Delivered, Scans
  <2> QED BY <1>1, <1>3, <2>1
<1>5. /\ ~ Shrinks(o.result) /\ (o.result.cap \/ o.result.trans)
  <2>1. NotDelivered(o.result)
    BY <1>3, <1>4
  <2> QED BY <1>1, <2>1 DEF NotDelivered, NoScan, Scans
<1> HIDE DEF length
<1>6. /\ o.failed = Eligible(length)
      /\ o.result.cap \/ \A p \in Names : ~ (Capability(p).range < length)
  BY <1>2, <1>3, <1>4, <1>5, FailedOnEligible
<1>7. \A p \in Names : length <= Capability(p).range
  <2>1. CASE o.result.cap
    BY <1>1, <1>2, <1>5, <2>1, SpansAreOrdered, ConfigurationAssumption DEF Shrinks, MinimumIsServed
  <2>2. CASE \A p \in Names : ~ (Capability(p).range < length)
    BY <1>2, <2>2, SpansAreOrdered
  <2> QED BY <1>6, <2>1, <2>2
<1> QED BY <1>2, <1>3, <1>6, <1>7, AllAreEligible

\* Where every endpoint serves at least the minimum range, a scan loses nothing:
\* its cursor passes no event that was not journaled, and it gives up only when
\* every provider failed its last range (requestLogs, scanLogsAdaptive,
\* boundedEvidenceWindowEnd).
THEOREM ScanCorrect ==
    ASSUME MinimumIsServed
    PROVE  Spec => []ScanIsComplete
<1> DEFINE ScanInv == CursorInv /\ EveryProviderWasAsked
<1>1. Init => ScanInv
  BY InitCursor DEF Init, EveryProviderWasAsked, NoScan
<1>2. ScanInv /\ [Next]_vars => ScanInv'
  <2> SUFFICES ASSUME ScanInv, [Next]_vars PROVE EveryProviderWasAsked'
    BY NextCursor
  <2>1. CASE FetchRange
    BY <2>1, FailedWasAsked DEF EveryProviderWasAsked
  <2>2. CASE OpenJob \/ BudgetExceeded \/ JobRetried \/ CommitWindow
    BY <2>2 DEF OpenJob, BudgetExceeded, JobRetried, CommitWindow, EveryProviderWasAsked, NoScan
  <2>3. CASE (\E p \in Names : GoDown(p) \/ ComeUp(p)) \/ UNCHANGED vars
    BY <2>3 DEF GoDown, ComeUp, vars, EveryProviderWasAsked
  <2> QED BY <2>1, <2>2, <2>3 DEF Next, Job, Done
<1>3. ScanInv => ScanIsComplete
  BY DEF CursorInv, ScanIsComplete
<1> QED BY <1>1, <1>2, <1>3, PTL DEF Spec

=============================================================================
