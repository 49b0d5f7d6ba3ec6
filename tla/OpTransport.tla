---------------------------- MODULE OpTransport ----------------------------
(***************************************************************************)
(* How the App Worker hands one signed UserOperation to the network        *)
(* (userOperationTransport.ts) and what POST /pay/submit concludes from    *)
(* the answer: the bundlers are tried in order, each after its capability  *)
(* check, the Worker's own handleOps transaction is the other transport    *)
(* and, when configured, the fallback of the first.                        *)
(* A bundler or a node that took the operation may still fail to say so.   *)
(* Left out: gas packing, the codes of the errors shown to the user.       *)
(***************************************************************************)
EXTENDS Naturals

CONSTANTS
    BundlerCount,  \* configured bundler endpoints, in order
    WriteCount,    \* configured write endpoints, in order
    SelfFallback,  \* BUNDLER_SELF_FALLBACK
    HashMismatch,  \* a bundler may take the operation and name another hash
    MaxSubmits,    \* bound on submits of the operation
    MaxExpiries    \* bound on expiries of cached capabilities

VARIABLES
    supports,  \* per bundler: it serves this chain and EntryPoint
    cache,     \* per bundler: bundler_capabilities
    mode,      \* submissionTransport of the row, chosen when it was prepared
    row,       \* status of the pending payment
    txHash,    \* the row has a transaction hash
    call,      \* the running estimate or submit
    held,      \* endpoints that hold the operation or its transaction
    landed,    \* the operation was executed
    shown,     \* what the last status poll answered
    submits, expiries

vars == <<supports, cache, mode, row, txHash, call, held, landed, shown,
          submits, expiries>>

Bundlers   == 1..BundlerCount
WriteNodes == 1..WriteCount
Holders    == ({"bundler"} \X Bundlers) \cup ({"node"} \X WriteNodes)

\* error: none, transient (retryable), rejected.
NoCall == [pc |-> "none", kind |-> "none", via |-> "bundler", slot |-> 1, compatible |-> FALSE,
           error |-> "none", possibly |-> FALSE]
Pcs == {"none", "check", "request", "simulate", "lease", "write", "answer"}

TypeOK ==
    /\ supports \in [Bundlers -> BOOLEAN]
    /\ cache \in [Bundlers -> {"none", "yes", "no"}]
    /\ mode \in {"self", "bundler"}
    /\ row \in {"prepared", "submitting", "submitted"}
    /\ txHash \in BOOLEAN /\ landed \in BOOLEAN
    /\ held \subseteq Holders
    /\ call.pc \in Pcs /\ call.kind \in {"none", "estimate", "send"}
    /\ shown \in {"none", "included", "row"}

\* selectUserOperationTransport: the rollout percentage of a subject may name
\* either transport when bundlers are configured.
Init ==
    /\ supports \in [Bundlers -> BOOLEAN]
    /\ cache = [b \in Bundlers |-> "none"]
    /\ mode \in {"self", "bundler"}
    /\ row = "prepared" /\ txHash = FALSE /\ call = NoCall
    /\ held = {} /\ landed = FALSE /\ shown = "none"
    /\ submits = 0 /\ expiries = 0

-----------------------------------------------------------------------------
(* The bundlers.                                                           *)

\* BundlerTransport.estimate, when the operation is prepared.
Estimate ==
    /\ mode = "bundler" /\ row = "prepared" /\ call.pc = "none" /\ submits = 0
    /\ call' = [NoCall EXCEPT !.pc = "check", !.kind = "estimate"]
    /\ UNCHANGED <<supports, cache, mode, row, txHash, held, landed, shown,
                   submits, expiries>>

\* claimPendingForSubmit lets one submit through; SelfHandleOpsTransport.send
\* simulates first.
Submit ==
    /\ row = "prepared" /\ call.pc = "none" /\ submits < MaxSubmits
    /\ submits' = submits + 1 /\ row' = "submitting"
    /\ call' = [NoCall EXCEPT !.kind = "send", !.via = mode,
                 !.pc = IF mode = "bundler" THEN "check" ELSE "simulate"]
    /\ UNCHANGED <<supports, cache, mode, txHash, held, landed, shown,
                   expiries>>

\* The loop over the endpoints goes on with the next one; after the last one
\* the call ends with the transient error seen, or with "unsupported".
Onward(c) == IF c.slot < BundlerCount
             THEN [c EXCEPT !.slot = @ + 1, !.pc = "check"]
             ELSE [c EXCEPT !.pc = "answer",
                            !.error = IF c.error = "none" THEN "rejected"
                                      ELSE c.error]

\* A retryable error: remember whether a request was made.
Retryable(c, attempted) ==
    Onward([c EXCEPT !.error = "transient",
                     !.possibly = c.possibly \/ attempted])

\* An error that is not retryable ends the loop; after an earlier request with
\* an unknown result it does not decide.
Rejected(c) ==
    IF c.possibly THEN [c EXCEPT !.pc = "answer", !.error = "transient"]
    ELSE [c EXCEPT !.pc = "answer", !.error = "rejected"]

\* endpointSupports: the cached answer, else the endpoint's own, which is
\* stored (a failed store is only logged).
CheckEndpoint ==
    /\ call.pc = "check"
    /\ LET b == call.slot
           go(ok) == IF ok THEN [call EXCEPT !.pc = "request",
                                             !.compatible = TRUE]
                     ELSE Onward(call)
       IN \/ /\ cache[b] # "none" /\ call' = go(cache[b] = "yes")
             /\ UNCHANGED cache
          \/ /\ cache[b] = "none"
             /\ call' = go(supports[b])
             /\ \/ cache' = [cache EXCEPT ![b] =
                               IF supports[b] THEN "yes" ELSE "no"]
                \/ UNCHANGED cache
          \/ /\ cache[b] = "none" /\ UNCHANGED cache
             /\ \/ call' = Retryable(call, FALSE)
                \/ call' = Rejected(call)
    /\ UNCHANGED <<supports, mode, row, txHash, held, landed, shown, submits,
                   expiries>>

\* CAPABILITY_CACHE_MS has passed.
CapabilityExpires(b) ==
    /\ cache[b] # "none" /\ expiries < MaxExpiries
    /\ expiries' = expiries + 1 /\ cache' = [cache EXCEPT ![b] = "none"]
    /\ UNCHANGED <<supports, mode, row, txHash, call, held, landed, shown,
                   submits>>

\* eth_estimateUserOperationGas
EstimateRequest ==
    /\ call.pc = "request" /\ call.kind = "estimate"
    /\ \/ call' = [call EXCEPT !.pc = "answer", !.error = "none"]
       \/ call' = Retryable(call, FALSE)
       \/ call' = Rejected(call)
    /\ UNCHANGED <<supports, cache, mode, row, txHash, held, landed, shown,
                   submits, expiries>>

\* eth_sendUserOperation: the bundler takes the operation and answers with its
\* hash; takes it and the answer is lost; is not reached; or refuses it, as
\* one does that knows it already or sees its nonce used.
SendRequest ==
    /\ call.pc = "request" /\ call.kind = "send"
    /\ LET take == held' = held \cup {<<"bundler", call.slot>>}
       IN \/ /\ supports[call.slot] /\ ~landed /\ take
             /\ call' \in {[call EXCEPT !.pc = "answer", !.error = "none"],
                           Retryable(call, TRUE)}
                          \cup (IF HashMismatch THEN {Rejected(call)} ELSE {})
          \/ UNCHANGED held /\ call' = Retryable(call, TRUE)
          \/ UNCHANGED held /\ call' = Rejected(call)
    /\ UNCHANGED <<supports, cache, mode, row, txHash, landed, shown, submits,
                   expiries>>

-----------------------------------------------------------------------------
(* The Worker's own transaction.                                           *)

\* A simulation that fails says that nothing was sent.
Simulate ==
    /\ call.pc = "simulate"
    /\ \/ ~landed /\ call' = [call EXCEPT !.pc = "lease"]
       \/ call' = [call EXCEPT !.pc = "answer", !.error = "rejected"]
    /\ UNCHANGED <<supports, cache, mode, row, txHash, held, landed, shown,
                   submits, expiries>>

\* withSignerLease: busy, or a signer blocked by another operation.
SignerLease ==
    /\ call.pc = "lease"
    /\ \/ call' = [call EXCEPT !.pc = "write", !.slot = 1, !.error = "none"]
       \/ call' = [call EXCEPT !.pc = "answer", !.error = "rejected"]
    /\ UNCHANGED <<supports, cache, mode, row, txHash, held, landed, shown,
                   submits, expiries>>

\* writeContract over viem's fallback transport: the endpoints are tried in
\* order and the error of the last one is thrown.  Only a transient one is
\* reported as an unknown result.
WriteFailed(c, e) ==
    IF c.slot < WriteCount THEN [c EXCEPT !.slot = @ + 1]
    ELSE [c EXCEPT !.pc = "answer", !.error = e,
                   !.possibly = c.possibly \/ e = "transient"]
WriteTransaction ==
    /\ call.pc = "write"
    /\ \/ /\ ~landed /\ \A h \in held : h[1] # "node"
          /\ held' = held \cup {<<"node", call.slot>>}
          /\ \/ call' = [call EXCEPT !.pc = "answer", !.error = "none"]
             \/ call' = WriteFailed(call, "transient")
       \/ UNCHANGED held /\ call' = WriteFailed(call, "transient")
       \/ UNCHANGED held /\ call' = WriteFailed(call, "rejected")
    /\ UNCHANGED <<supports, cache, mode, row, txHash, landed, shown, submits,
                   expiries>>

-----------------------------------------------------------------------------
(* sendUserOperation and the answer of POST /pay/submit.                   *)

FallsBack ==
    /\ call.kind = "send" /\ call.via = "bundler" /\ SelfFallback
    /\ call.error = "transient" /\ ~call.possibly

\* The fallback's own error is what the caller sees: a second rejection is
\* final because the first transport sent nothing.
FallBackToSelf ==
    /\ call.pc = "answer" /\ FallsBack
    /\ call' = [call EXCEPT !.pc = "simulate", !.via = "self", !.slot = 1,
                           !.error = "none"]
    /\ UNCHANGED <<supports, cache, mode, row, txHash, held, landed, shown, submits,
                   expiries>>

EstimateEnds ==
    /\ call.pc = "answer" /\ call.kind = "estimate" /\ call' = NoCall
    /\ UNCHANGED <<supports, cache, mode, row, txHash, held, landed, shown,
                   submits, expiries>>

\* Accepted, or perhaps accepted: the row is handed to the watcher (the write
\* may fail, the row then stays submitting).  Otherwise the claim is given
\* back so that the user can try again.
SubmitEnds ==
    /\ call.pc = "answer" /\ call.kind = "send" /\ ~FallsBack
    /\ LET sent == call.error = "none"
       IN \/ /\ sent \/ call.possibly
             /\ \/ /\ row' = "submitted" /\ mode' = call.via
                   /\ txHash' = (sent /\ call.via = "self")
                \/ UNCHANGED <<row, mode, txHash>>
          \/ /\ ~sent /\ ~call.possibly /\ UNCHANGED <<mode, txHash>>
             /\ row' \in {"prepared", "submitting"}
    /\ call' = NoCall
    /\ UNCHANGED <<supports, cache, held, landed, shown, submits,
                   expiries>>

-----------------------------------------------------------------------------
\* A bundler bundles the operation, or the transaction is mined.
Lands ==
    /\ held # {} /\ ~landed /\ landed' = TRUE
    /\ UNCHANGED <<supports, cache, mode, row, txHash, call, held, shown,
                   submits, expiries>>

\* GET /pay/status: the receipt of the row's transport, else the row.
Receipt == IF mode = "self" THEN txHash /\ landed
           ELSE landed /\ \E b \in Bundlers : <<"bundler", b>> \in held
PollStatus ==
    /\ row = "submitted" /\ call.pc = "none"
    /\ shown' \in (IF Receipt THEN {"included", "row"} ELSE {"row"})
    /\ shown' # shown
    /\ UNCHANGED <<supports, cache, mode, row, txHash, call, held, landed,
                   submits, expiries>>

Next ==
    \/ Estimate \/ Submit \/ CheckEndpoint \/ EstimateRequest \/ SendRequest
    \/ \E b \in Bundlers : CapabilityExpires(b)
    \/ Simulate \/ SignerLease \/ WriteTransaction
    \/ FallBackToSelf \/ EstimateEnds \/ SubmitEnds \/ Lands \/ PollStatus

Spec == Init /\ [][Next]_vars

-----------------------------------------------------------------------------
\* A claim is given back only when nobody holds the operation: whatever was
\* lost on the way, a payment the user may sign again was not sent.  This is
\* what possiblySubmitted is for ("Callers must reconcile, not release money
\* claims").  It holds while one write endpoint is configured (the error of a
\* second one hides that the first took the transaction) and bundlers answer
\* with the hash they were given.
ReleasedWasNotSent == row = "prepared" => held = {}

\* The two transports never hold the operation at the same time: the fallback
\* to the Worker's own transaction is taken only when no bundler has it.
OneTransportHolds ==
    ~\E h, g \in held : h[1] # g[1]
=============================================================================
