---------------------------- MODULE WalletClient ----------------------------
(***************************************************************************)
(* The App's pages that move money from the user's account (client/src     *)
(* pages PayPage, Swap, Earn, CrosschainSend, PaymentStatus, and           *)
(* CrosschainReceive for an external wallet): a form whose quote is asked  *)
(* for after a pause, a prepared operation shown for review, the passkey,  *)
(* the submit call, and the screen that polls the outcome.  Answers come   *)
(* late, out of order or not at all while the form goes on changing.       *)
(*                                                                         *)
(* The server is modelled by what an operation may become (UserOpPayments  *)
(* and WalletActions have it whole).                                       *)
(***************************************************************************)
EXTENDS Naturals, Sequences, FiniteSets

CONSTANTS Kinds,      \* subset of {"pay", "swap", "earn", "crosschain", "inbound"}
          Tokens,     \* the token, action or network the form is about
          Inputs,     \* amounts the form may hold (positive numbers)
          MaxEdits,   \* changes of the form
          MaxOps,     \* operations the server prepares
          MaxFaults,  \* failed calls and lost answers
          None

VARIABLES kind,      \* which page this is
          form,      \* token, amount (0: empty) and "use all"
          refresh,   \* the token a balance refresh was asked for, or None
          seq, timer, requests, quoteState,   \* the debounced quote
          stage, prepared, signing,           \* the operation under way
          result, poll, polls,                \* the outcome screen
          failed,    \* the operation an error message was shown for, or None
          ops,       \* the server's operations
          landed,    \* operations ever included in a block
          inbound,   \* the external wallet's transfer
          edits, faults

vars == <<kind, form, refresh, seq, timer, requests, quoteState, stage, prepared, signing,
          result, poll, polls, failed, ops, landed, inbound, edits, faults>>
formVars == <<form, refresh, seq, timer, requests, quoteState>>
runVars == <<stage, prepared, signing, result, failed>>
pollVars == <<poll, polls>>
-----------------------------------------------------------------------------
NoPoll == [key |-> None, status |-> None]
NoQuote == [key |-> None, quote |-> None, loading |-> FALSE]
Quoted == kind \in {"swap", "crosschain"}
KeyOf(f) == IF Quoted /\ f.amount # 0 THEN <<f.token, f.amount, f.max>> ELSE None
Key == KeyOf(form)

Init ==
    /\ kind \in Kinds
    /\ \E t \in Tokens : form = [token |-> t, amount |-> 0, max |-> FALSE]
    /\ refresh = None
    /\ seq = 0 /\ timer = None /\ requests = {} /\ quoteState = NoQuote
    /\ stage = "idle" /\ prepared = None /\ signing = None
    /\ result = None /\ poll = NoPoll /\ polls = {} /\ failed = None
    /\ ops = <<>> /\ landed = {} /\ inbound = "idle"
    /\ edits = 0 /\ faults = 0

Fault == faults < MaxFaults /\ faults' = faults + 1

\* The quoting effect runs when the key changes: a new sequence number, and
\* the pause starts over.
SetForm(f) ==
    /\ form' = f
    /\ IF KeyOf(f) = Key THEN UNCHANGED <<seq, timer>>
       ELSE seq' = seq + 1 /\ timer' = KeyOf(f)
-----------------------------------------------------------------------------
\* Typing, flipping the tokens, choosing an action or a network.
EditForm ==
    /\ kind # "inbound" /\ stage = "idle" /\ prepared = None /\ result = None
    /\ edits < MaxEdits /\ edits' = edits + 1
    /\ \E t \in Tokens, a \in Inputs : SetForm([token |-> t, amount |-> a, max |-> FALSE])
    /\ form' # form
    /\ UNCHANGED <<kind, refresh, requests, quoteState, runVars, pollVars, ops, landed, inbound, faults>>

\* "Use all" answers with the balance it has and refreshes it meanwhile.
HandleUseAll ==
    /\ kind \in {"swap", "earn"} /\ stage = "idle" /\ prepared = None /\ result = None
    /\ edits < MaxEdits /\ edits' = edits + 1
    /\ \E a \in Inputs : SetForm([form EXCEPT !.amount = a, !.max = TRUE])
    /\ refresh' = form.token
    /\ UNCHANGED <<kind, requests, quoteState, runVars, pollVars, ops, landed, inbound, faults>>

\* The refreshed balance is dropped if the form is about something else by now.
BalanceAnswered ==
    /\ refresh # None
    /\ refresh' = None
    /\ \/ /\ form.token = refresh
          /\ \E a \in Inputs : SetForm([form EXCEPT !.amount = a, !.max = TRUE])
       \/ UNCHANGED <<form, seq, timer>>
    /\ UNCHANGED <<kind, requests, quoteState, runVars, pollVars, ops, landed, inbound, edits, faults>>

FireQuote ==
    /\ timer # None
    /\ requests' = requests \cup {[seq |-> seq, key |-> timer]}
    /\ quoteState' = [key |-> timer, quote |-> None, loading |-> TRUE]
    /\ timer' = None
    /\ UNCHANGED <<kind, form, refresh, seq, runVars, pollVars, ops, landed, inbound, edits, faults>>

VariantAnyAnswer(r) == r \in requests

\* Only the answer to the latest request counts.
Latest(r) == r.seq = seq

\* The quote of "use all" names the amount the server resolved.
Resolved ==
    \/ UNCHANGED <<form, seq, timer, edits>>
    \/ /\ kind = "swap" /\ form.max
       /\ edits < MaxEdits /\ edits' = edits + 1
       /\ \E a \in Inputs : SetForm([form EXCEPT !.amount = a])

QuoteAnswered ==
    /\ \E r \in requests :
         /\ requests' = requests \ {r}
         /\ \/ /\ Latest(r)
               /\ \E q \in {"quote", "error"} :
                    quoteState' = [key |-> r.key, quote |-> q, loading |-> FALSE]
               /\ Resolved
            \/ ~ Latest(r) /\ UNCHANGED <<quoteState, form, seq, timer, edits>>
    /\ UNCHANGED <<kind, refresh, runVars, pollVars, ops, landed, inbound, faults>>

Quote == Key # None /\ quoteState.key = Key /\ quoteState.quote = "quote"
Quoting == Key # None /\ (quoteState.key # Key \/ quoteState.loading)
-----------------------------------------------------------------------------
\* What each page needs before it asks for an operation to review.
PayPrepares == kind = "pay" /\ form.amount # 0
SwapPrepares == kind = "swap" /\ Quote /\ ~ Quoting
EarnPrepares == kind = "earn" /\ form.amount # 0
SendPrepares == kind = "crosschain" /\ Quote /\ ~ Quoting

\* POST prepare with the form (or its quote), and the check that the typed
\* data hashes to the operation it names.
PrepareForReview ==
    /\ stage = "idle" /\ prepared = None /\ result = None
    /\ PayPrepares \/ SwapPrepares \/ EarnPrepares \/ SendPrepares
    /\ stage' = "preparing"
    /\ signing' = form
    /\ failed' = None
    /\ UNCHANGED <<kind, formVars, prepared, result, pollVars, ops, landed, inbound, edits, faults>>

PrepareAnswered ==
    /\ stage = "preparing"
    /\ stage' = "idle"
    /\ signing' = None
    /\ \/ /\ Len(ops) < MaxOps
          /\ ops' = Append(ops, [of |-> signing, status |-> "prepared"])
          /\ prepared' = Len(ops) + 1
       \/ UNCHANGED <<ops, prepared>>
    /\ UNCHANGED <<kind, formVars, result, failed, pollVars, landed, inbound, edits, faults>>

\* The swap's sheet needs the live quote beside the prepared operation.
SheetIsUp == prepared # None /\ (kind = "swap" => Quote)

DismissSheet ==
    /\ SheetIsUp /\ stage = "idle"
    /\ prepared' = None
    /\ UNCHANGED <<kind, formVars, stage, signing, result, failed, pollVars, ops, landed, inbound,
                   edits, faults>>

ConfirmAndRun ==
    /\ SheetIsUp /\ stage = "idle"
    /\ stage' = "signing" /\ signing' = prepared /\ prepared' = None
    /\ UNCHANGED <<kind, formVars, result, failed, pollVars, ops, landed, inbound, edits, faults>>

\* The passkey signs, or the user dismisses it.
SignWithPasskey ==
    /\ stage = "signing"
    /\ \/ stage' = "sending" /\ UNCHANGED signing
       \/ stage' = "idle" /\ signing' = None
    /\ UNCHANGED <<kind, formVars, prepared, result, failed, pollVars, ops, landed, inbound,
                   edits, faults>>

\* The call reaches the server once per signature; its answer may be lost.
SubmitArrives ==
    /\ stage = "sending" /\ ops[signing].status = "prepared"
    /\ ops' = [ops EXCEPT ![signing].status = "submitted"]
    /\ UNCHANGED <<kind, formVars, runVars, pollVars, landed, inbound, edits, faults>>

\* 200 success, 202 accepted or 409 in progress: the operation is on its way.
SubmitUserOp == {[pending |-> TRUE]} \cup
    (IF ops[signing].status \in {"included", "confirmed"} THEN {[pending |-> FALSE]} ELSE {})

Shown(pending) ==
    /\ result' = [op |-> signing, pending |-> pending]
    /\ SetForm([form EXCEPT !.amount = 0, !.max = FALSE])

\* The outcome screens: the status page of a payment, the result of a swap or
\* of a saving, and the tracker of a transfer, which polls whatever the answer.
PayOutcome(s) == kind = "pay" /\ Shown(s.pending) /\ UNCHANGED poll
SwapOutcome(s) == kind = "swap" /\ Shown(s.pending) /\ UNCHANGED poll
EarnOutcome(s) == kind = "earn" /\ Shown(s.pending) /\ UNCHANGED poll
SendOutcome == kind = "crosschain" /\ Shown(TRUE) /\ poll' = NoPoll

\* A lost answer ends in an error; the payment page's offers to prepare again.
SubmitAnswered ==
    /\ stage = "sending"
    /\ stage' = "idle" /\ signing' = None
    /\ \/ /\ ops[signing].status # "prepared"
          /\ \E s \in SubmitUserOp : \/ PayOutcome(s) \/ SwapOutcome(s) \/ EarnOutcome(s) \/ SendOutcome
          /\ UNCHANGED <<failed, faults>>
       \/ /\ Fault
          /\ failed' = signing
          /\ UNCHANGED <<result, poll, form, seq, timer>>
    /\ UNCHANGED <<kind, refresh, requests, quoteState, prepared, polls, ops, landed, inbound, edits>>
-----------------------------------------------------------------------------
Polled == result # None /\ result.pending

\* One poll under way: the server is read now, the page hears of it later.
PollStatus ==
    /\ Polled /\ polls = {}
    /\ polls' = {[op |-> result.op, status |-> ops[result.op].status]}
    /\ UNCHANGED <<kind, formVars, runVars, poll, ops, landed, inbound, edits, faults>>

\* An answer that outlives its screen is dropped by the effect's cleanup.
PollAnswered ==
    /\ \E p \in polls :
         /\ polls' = polls \ {p}
         /\ poll' = IF Polled /\ p.op = result.op THEN [key |-> p.op, status |-> p.status] ELSE poll
    /\ UNCHANGED <<kind, formVars, runVars, ops, landed, inbound, edits, faults>>

DoAnother ==
    /\ result # None
    /\ result' = None
    /\ UNCHANGED <<kind, formVars, stage, prepared, signing, failed, pollVars, ops, landed, inbound,
                   edits, faults>>

\* The hook shows the state of its own operation only; the cross-chain page
\* has no key and starts from an empty state instead.
CurrentPoll == IF (result # None /\ poll.key = result.op) \/ kind = "crosschain" THEN poll ELSE NoPoll

\* A payment, swap or saving succeeds once included; a transfer once it has arrived.
Settled == IF kind = "crosschain" THEN {"confirmed"} ELSE {"included", "confirmed"}

ShownSuccess == result # None /\ (~ result.pending \/ CurrentPoll.status \in Settled)
-----------------------------------------------------------------------------
\* The server and the chain: an operation is included or fails, and a
\* reorganisation may take an included one back.
ServerStep ==
    /\ \E o \in DOMAIN ops :
         \E s \in CASE ops[o].status = "submitted" -> {"included", "failed"}
                    [] ops[o].status = "included" -> {"submitted", "confirmed"}
                    [] OTHER -> {} :
           /\ ops' = [ops EXCEPT ![o].status = s]
           /\ landed' = IF s = "included" THEN landed \cup {o} ELSE landed
           /\ s = "submitted" => faults < MaxFaults
           /\ faults' = IF s = "submitted" THEN faults + 1 ELSE faults
    /\ UNCHANGED <<kind, formVars, runVars, pollVars, inbound, edits>>

\* The external wallet approves and burns, and the page tells the server which
\* transaction to relay: once, from memory.
InboundPay ==
    /\ kind = "inbound"
    /\ inbound' \in CASE inbound \in {"idle", "error"} -> {"approved", "error"}
                      [] inbound = "approved" -> {"burned", "error"}
                      [] OTHER -> {}
    /\ UNCHANGED <<kind, formVars, runVars, pollVars, ops, landed, edits, faults>>

InboundRegister ==
    /\ inbound = "burned"
    /\ \/ inbound' = "registered" /\ UNCHANGED faults
       \/ inbound' = "unregistered" /\ Fault
    /\ UNCHANGED <<kind, formVars, runVars, pollVars, ops, landed, edits>>

Next == \/ EditForm \/ HandleUseAll \/ BalanceAnswered \/ FireQuote \/ QuoteAnswered
        \/ PrepareForReview \/ PrepareAnswered \/ DismissSheet \/ ConfirmAndRun
        \/ SignWithPasskey \/ SubmitArrives \/ SubmitAnswered
        \/ PollStatus \/ PollAnswered \/ DoAnother \/ ServerStep
        \/ InboundPay \/ InboundRegister

Spec == Init /\ [][Next]_vars

\* Timers fire and calls are answered; the user owes nothing.
LiveSpec == /\ Spec
            /\ WF_vars(FireQuote) /\ WF_vars(QuoteAnswered) /\ WF_vars(BalanceAnswered)
            /\ WF_vars(PrepareAnswered) /\ WF_vars(InboundRegister)
-----------------------------------------------------------------------------
\* The page is in one of its stages and its operations have a known status.
TypeOK ==
    /\ stage \in {"idle", "preparing", "signing", "sending"}
    /\ prepared \in DOMAIN ops \cup {None}
    /\ \A o \in DOMAIN ops :
         ops[o].status \in {"prepared", "submitted", "included", "confirmed", "failed"}
    /\ landed \subseteq DOMAIN ops

\* The success screen is never shown for an operation that did not land, whatever
\* an earlier operation's polls answer and whenever they do.
SuccessIsReal == ShownSuccess => result.op \in landed

\* Whatever the form holds is quoted: answers that arrive out of order, a
\* refreshed balance or a resolved maximum never leave the page asking.
EveryInputIsQuoted ==
    \A t \in Tokens, a \in Inputs, m \in BOOLEAN :
      (Key = <<t, a, m>>) ~> (Key # <<t, a, m>> \/ ~ Quoting)

\* What the passkey signs is what the sheet described.
ReviewedIsSigned ==
    (SheetIsUp /\ kind = "swap") => KeyOf(ops[prepared].of) = Key

\* The user is not told that a payment failed while it is in flight.
ErrorMeansNotSent == failed # None => ops[failed].status \in {"prepared", "failed"}

\* A burn of an external wallet comes to be registered for its mint.
BurnIsRegistered == (inbound = "burned") ~> (inbound = "registered")
=============================================================================
