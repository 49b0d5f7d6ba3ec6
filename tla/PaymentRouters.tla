--------------------------- MODULE PaymentRouters ---------------------------
(***************************************************************************)
(* The contracts that move a payer's USDC: the invoice router, its second  *)
(* version, the CCTP checkout router and the router of outgoing transfers. *)
(* Each call is a transaction: it checks the authorization the backend     *)
(* signed, marks it used, splits the amount, or reverts and changes        *)
(* nothing.  Around it the owner rotates keys, pauses and rescues, payers  *)
(* approve and permit, third parties submit a payer's permit first, and    *)
(* Circle mints what was burned less its fee.                              *)
(***************************************************************************)
EXTENDS Naturals, FiniteSets, FiniteSetsExt

CONSTANTS Auths,      \* authorizations a payer may present (see Authorization)
          Deployments,\* sets of routers that a chain has
          Payer, Merchant, Treasury,
          Funds,      \* what the payer has at first
          MaxFeeBps,  \* MAX_FEE_BPS, MAX_PLATFORM_FEE_BPS
          Denominator,\* BPS_DENOMINATOR
          MaxTime,    \* bound: chain time
          MaxAdmin    \* bound: calls of the owner

Routers == {"v1", "v2", "cctp", "bridge"}

\* amount is what the payment is for, fee the platform's, cctpFee the most
\* Circle may keep; by the key that signed it, valid from..until.  A transfer
\* of the bridge is not signed.
Authorization ==
  [r : Routers, intent : Nat, attempt : Nat, amount : Nat, gross : Nat, fee : Nat,
   cctpFee : Nat, by : Nat, from : Nat, until : Nat]

VARIABLES deployed,   \* the routers of the payer's chain
          bal,        \* USDC: payer, merchant, treasury, each router
          allowance,  \* what the payer lets each router take
          permits,    \* permits the payer signed and nobody submitted yet
          paused, signer,
          used,       \* usedAttempt, usedOpId
          paid,       \* invoicePaid, paidIntent
          settled,    \* the events
          burned,     \* burns Circle has not minted yet
          stray,      \* USDC sent to a router by mistake and still there
          now, admin

money == <<bal, allowance, permits, stray>>
marks == <<used, paid, settled, burned>>
vars == <<deployed, money, marks, paused, signer, now, admin>>

Init ==
  /\ deployed \in Deployments
  /\ bal = [h \in {Payer, Merchant, Treasury} \cup Routers |-> IF h = Payer THEN Funds ELSE 0]
  /\ allowance = [r \in Routers |-> 0] /\ permits = {}
  /\ paused = [r \in Routers |-> FALSE] /\ signer = [r \in Routers |-> 1]
  /\ used = {} /\ paid = {} /\ settled = {} /\ burned = {}
  /\ stray = [r \in Routers |-> 0] /\ now = 0 /\ admin = 0

(* ----------------------- What a payment consists of -------------------- *)

FeeCap(amount) == (amount * MaxFeeBps) \div Denominator

\* What the merchant is promised: the first router takes its fee from the
\* amount, the others add it.
Promised(a) == IF a.r = "v1" THEN a.amount - a.fee ELSE a.amount

\* burnAmount of the CCTP router, net of the bridge.
BurnAmount(a) == a.gross - a.fee

\* The parts a router moves out of the payer's account.
ToMerchant(a) == IF a.r \in {"v1", "v2"} THEN Promised(a) ELSE 0
ToMessenger(a) == IF a.r \in {"cctp", "bridge"} THEN BurnAmount(a) ELSE 0
Debit(a) == ToMerchant(a) + a.fee + ToMessenger(a)

VariantAnyRest(a) == a.cctpFee < BurnAmount(a)

\* Circle may keep up to maxFee: what is left must cover the settlement.
Guaranteed(a) == a.cctpFee < BurnAmount(a) /\ BurnAmount(a) - a.cctpFee >= a.amount

(* ------------------------------ The routers ---------------------------- *)

\* An attempt is used once, and an intent is paid once, at each router.
Unused(a) == <<a.r, a.attempt>> \notin used /\ (a.r = "bridge" \/ <<a.r, a.intent>> \notin paid)

InWindow(a) == a.from <= now /\ now <= a.until
Signed(a) == a.by = signer[a.r]

\* _settle of the invoice router.
ValidInvoice(a) == a.r = "v1" /\ now <= a.until /\ a.amount > 0 /\ a.fee <= FeeCap(a.amount) /\ Signed(a)

\* _validateAuthorization of the second router.
ValidPayment(a) == a.r = "v2" /\ a.amount > 0 /\ InWindow(a) /\ a.fee <= FeeCap(a.amount) /\ Signed(a)

\* _validateAuthorization of the CCTP router.
ValidBurn(a) ==
  /\ a.r = "cctp" /\ a.amount > 0 /\ a.gross > 0 /\ InWindow(a)
  /\ a.fee <= FeeCap(a.amount) /\ a.fee < a.gross /\ Guaranteed(a) /\ Signed(a)

\* bridgeUSDC.
ValidTransfer(a) ==
  a.r = "bridge" /\ a.gross > 0 /\ a.fee <= FeeCap(a.gross) /\ a.cctpFee < BurnAmount(a)

Valid(a) == ValidInvoice(a) \/ ValidPayment(a) \/ ValidBurn(a) \/ ValidTransfer(a)

\* Marks first, transfers after; a transfer that fails reverts the marks.
Settle(a, allowed) ==
  /\ ~paused[a.r] /\ Valid(a) /\ Unused(a)
  /\ Debit(a) <= allowed /\ Debit(a) <= bal[Payer]
  /\ used' = used \cup {<<a.r, a.attempt>>}
  /\ paid' = IF a.r = "bridge" THEN paid ELSE paid \cup {<<a.r, a.intent>>}
  /\ bal' = [bal EXCEPT ![Payer] = @ - Debit(a), ![Merchant] = @ + ToMerchant(a), ![Treasury] = @ + a.fee]
  /\ allowance' = [allowance EXCEPT ![a.r] = allowed - Debit(a)]
  /\ settled' = settled \cup {a}
  /\ burned' = IF ToMessenger(a) > 0 THEN burned \cup {a} ELSE burned
  /\ UNCHANGED <<deployed, paused, signer, stray, now, admin>>

\* pay, payInvoice, bridgeUSDC.
Pay(a) == Settle(a, allowance[a.r]) /\ UNCHANGED permits

\* payWithPermit: a permit somebody else submitted first is not an error.
PayWithPermit(a) ==
  /\ a.r # "bridge"
  /\ IF <<a.r, a.gross>> \in permits
     THEN Settle(a, a.gross) /\ permits' = permits \ {<<a.r, a.gross>>}
     ELSE Settle(a, allowance[a.r]) /\ UNCHANGED permits

(* --------------------------- Payers and Circle ------------------------- *)

Approve(a) ==
  /\ allowance' = [allowance EXCEPT ![a.r] = a.gross] /\ allowance' # allowance
  /\ UNCHANGED <<deployed, bal, permits, stray, marks, paused, signer, now, admin>>

SignPermit(a) ==
  /\ a.r # "bridge" /\ permits = {} /\ permits' = {<<a.r, a.gross>>}
  /\ UNCHANGED <<deployed, bal, allowance, stray, marks, paused, signer, now, admin>>

\* Anyone may submit a signed permit.
SubmitPermit(p) ==
  /\ p \in permits /\ permits' = permits \ {p} /\ allowance' = [allowance EXCEPT ![p[1]] = p[2]]
  /\ UNCHANGED <<deployed, bal, stray, marks, paused, signer, now, admin>>

\* Circle mints to the merchant; the bridge's recipient is elsewhere.
Mint(a, fee) ==
  /\ a \in burned /\ burned' = burned \ {a} /\ fee \in {0, a.cctpFee}
  /\ bal' = IF a.r = "cctp" THEN [bal EXCEPT ![Merchant] = @ + BurnAmount(a) - fee] ELSE bal
  /\ UNCHANGED <<deployed, allowance, permits, stray, used, paid, settled, paused, signer, now, admin>>

SendByMistake(r) ==
  /\ admin < MaxAdmin /\ admin' = admin + 1 /\ bal[Payer] > 0
  /\ bal' = [bal EXCEPT ![Payer] = @ - 1, ![r] = @ + 1] /\ stray' = [stray EXCEPT ![r] = @ + 1]
  /\ UNCHANGED <<deployed, allowance, permits, marks, paused, signer, now>>

Tick ==
  /\ now < MaxTime /\ now' = now + 1
  /\ UNCHANGED <<deployed, money, marks, paused, signer, admin>>

(* ----------------------------- Administration -------------------------- *)

Admin == admin < MaxAdmin /\ admin' = admin + 1

\* setInvoiceSigner, setAuthorizationSigner.
SetSigner(r) ==
  /\ r # "bridge" /\ Admin /\ signer' = [signer EXCEPT ![r] = 3 - @]
  /\ UNCHANGED <<deployed, money, marks, paused, now>>

\* pause by owner or guardian, unpause by the owner.
SetPaused(r) ==
  /\ Admin /\ paused' = [paused EXCEPT ![r] = ~@]
  /\ UNCHANGED <<deployed, money, marks, signer, now>>

\* rescueToken, emergencyWithdraw.
Rescue(r) ==
  /\ bal[r] > 0 /\ bal' = [bal EXCEPT ![r] = 0, ![Treasury] = @ + bal[r]]
  /\ stray' = [stray EXCEPT ![r] = 0]
  /\ UNCHANGED <<deployed, allowance, permits, marks, paused, signer, now, admin>>

Next ==
  \/ \E a \in {b \in Auths : b.r \in deployed} : Pay(a) \/ PayWithPermit(a) \/ Approve(a) \/ SignPermit(a)
  \/ \E a \in burned : \E fee \in {0, a.cctpFee} : Mint(a, fee)
  \/ \E p \in permits : SubmitPermit(p)
  \/ \E r \in deployed : SendByMistake(r) \/ SetSigner(r) \/ SetPaused(r) \/ Rescue(r)
  \/ Tick

Spec == Init /\ [][Next]_vars

(* ------------------------------ Properties ----------------------------- *)

\* What merchants must have received when everything burned is minted, fees
\* taken to the full.
Owed == {a \in settled : a.r # "bridge" /\ a \notin burned}

\* Payments add up: the merchant has at least what every settled intent was
\* for, each intent is settled once at a router, the payer gave at most the
\* gross amounts signed (and what was sent by mistake), and no router keeps
\* any of it, whatever is replayed, permitted, rotated or paused between
\* (_settle, _burnForSettlement, bridgeUSDC).
PaymentsAddUp ==
  /\ \A a, b \in settled : a # b /\ a.r = b.r /\ a.r # "bridge" => a.intent # b.intent
  /\ bal[Merchant] >= MapThenSumSet(Promised, Owed)
  /\ Funds - bal[Payer] <= MapThenSumSet(LAMBDA a : a.gross, settled) + MaxAdmin
  /\ \A r \in Routers : bal[r] = stray[r]
=============================================================================
