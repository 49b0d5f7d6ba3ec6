--------------------------- MODULE WalletActions ---------------------------
(***************************************************************************)
(* What a user does with the own balance besides paying a link: swaps      *)
(* (swap.routes.ts, swap.ts, uniswap.ts), savings (earn.routes.ts,         *)
(* earn.ts) and direct transfers (POST /pay/prepare).  Each one is         *)
(* prepared from what the chain says now, signed, executed later by the    *)
(* EntryPoint as one atomic batch, and entered in the statement when it is *)
(* settled (settlement.ts).                                                *)
(* One account, token "in" (USDC, also the savings token) and token "out". *)
(* Amounts are small integers; Bps stands for BPS_DENOMINATOR.             *)
(* Left out: formatting, APY, calldata bytes.                              *)
(***************************************************************************)
EXTENDS Integers, Sequences, FiniteSets, SequencesExt

CONSTANTS
    Bps,         \* BPS_DENOMINATOR
    SwapFeeBps,  \* GATOPAGO_SWAP_FEE_BPS when fees are enabled
    SlippageBps,
    Amounts,     \* amounts a user may ask for
    Prices,      \* output of a pool for one unit of input; 0: no such pool
    QuoteTTL, Window,
    Bundled,     \* a bundle may also carry a transfer to the account
    MaxQuotes, MaxOps, MaxEvents

Routes == <<"v4", "v3">>  \* on a tie v4 is preferred

VARIABLES
    now, price, fee,
    wallet,    \* the account's balance of in, out and of the savings token
    nonce,     \* of the account at the EntryPoint
    reserve,   \* the savings reserve: open, frozen or paused
    quotes,    \* swap_quotes
    request,   \* the running POST /swap/prepare
    ops,       \* pending_payments
    ledger,    \* entries written at settlement
    events     \* changes of the environment so far

vars == <<now, price, fee, wallet, nonce, reserve, quotes, request, ops,
          ledger, events>>

NoRequest == [quote |-> 0]
Zero == [in |-> 0, out |-> 0, saved |-> 0]
Kinds == {"swap", "deposit", "withdraw", "pay"}

TypeOK ==
    /\ wallet \in [{"in", "out", "saved"} -> Nat] /\ nonce \in Nat
    /\ fee \in {0, SwapFeeBps} /\ reserve \in {"open", "frozen", "paused"}
    /\ \A q \in DOMAIN quotes : quotes[q].status \in
         {"quoted", "prepared", "expired", "executed"}
    /\ \A i \in DOMAIN ops : ops[i].kind \in Kinds /\ ops[i].status \in
         {"prepared", "executed", "reverted", "settled"}

Init ==
    /\ now = 0 /\ price \in [Range(Routes) -> Prices] /\ fee \in {0, SwapFeeBps}
    /\ wallet = [in |-> 3, out |-> 0, saved |-> 1] /\ nonce = 0
    /\ reserve = "open" /\ quotes = <<>> /\ request = NoRequest /\ ops = <<>>
    /\ ledger = {} /\ events = 0

-----------------------------------------------------------------------------
(* Quotes.                                                                 *)

\* quoteBestRoute: the pool with the best output, v4 on a tie.
HasRoute == \E r \in Range(Routes) : price[r] > 0
BestRoute ==
    IF price["v4"] >= price["v3"] THEN "v4" ELSE "v3"

FeeOf(gross, feeBps) == (gross * feeBps) \div Bps
NetOf(gross, feeBps) == gross - FeeOf(gross, feeBps)
ApplySlippage(net)   == (net * (Bps - SlippageBps)) \div Bps
GrossMinForNet(min, feeBps) ==
    IF feeBps = 0 THEN min ELSE (min * Bps) \div (Bps - feeBps)

\* POST /swap/quote; asking for the maximum takes the live balance.
Quote(amount) ==
    /\ Len(quotes) < MaxQuotes
    /\ amount > 0 /\ amount <= wallet.in /\ HasRoute
    /\ LET net == NetOf(amount * price[BestRoute], fee)
       IN quotes' = Append(quotes,
            [amount |-> amount, estimated |-> net, min |-> ApplySlippage(net),
             fee |-> fee, route |-> BestRoute, status |-> "quoted",
             expires |-> now + QuoteTTL])
    /\ UNCHANGED <<now, price, fee, wallet, nonce, reserve, request, ops,
                   ledger, events>>

\* POST /swap/prepare, the checks: a quote that is too old, or whose route,
\* fee or price no longer holds, is closed.
StillHolds(q) ==
    /\ now < q.expires /\ HasRoute /\ BestRoute = q.route /\ fee = q.fee
    /\ NetOf(q.amount * price[q.route], fee) >= q.min
PrepareSwap(i) ==
    /\ request = NoRequest /\ Len(ops) < MaxOps /\ quotes[i].status = "quoted"
    /\ IF StillHolds(quotes[i])
       THEN request' = [quote |-> i] /\ UNCHANGED quotes
       ELSE /\ quotes' = [quotes EXCEPT ![i].status = "expired"]
            /\ UNCHANGED request
    /\ UNCHANGED <<now, price, fee, wallet, nonce, reserve, ops, ledger, events>>

\* ... and the rest: the router's minimum is the one of the quote; the
\* operation carries the nonce of the moment it is built.
VariantMinimumOfNow(q) == ApplySlippage(NetOf(q.amount * price[q.route], fee))
RouterMinimum(q) == q.min
Operation(kind, amount, shown) ==
    [kind |-> kind, amount |-> amount, shown |-> shown, min |-> 0, fee |-> 0,
     route |-> "none", quote |-> 0, all |-> FALSE, nonce |-> nonce,
     deadline |-> now + Window, status |-> "prepared", moved |-> Zero,
     logs |-> Zero]
FinishSwap ==
    /\ request # NoRequest /\ request' = NoRequest
    /\ LET q == quotes[request.quote]
       IN ops' = Append(ops,
            [Operation("swap", q.amount, q.min) EXCEPT !.min = RouterMinimum(q),
               !.fee = q.fee, !.route = q.route, !.quote = request.quote])
    /\ quotes' = [quotes EXCEPT ![request.quote].status = "prepared"]
    /\ UNCHANGED <<now, price, fee, wallet, nonce, reserve, ledger, events>>

-----------------------------------------------------------------------------
(* Savings and transfers.                                                  *)

\* POST /earn/prepare: a deposit needs an open reserve and the balance.
CanDeposit == reserve = "open"
PrepareDeposit(amount) ==
    /\ Len(ops) < MaxOps /\ CanDeposit /\ amount > 0 /\ amount <= wallet.in
    /\ ops' = Append(ops, Operation("deposit", amount, amount))
    /\ UNCHANGED <<now, price, fee, wallet, nonce, reserve, quotes, request,
                   ledger, events>>

\* A withdrawal of everything shows the savings of the moment.
CanWithdraw == reserve # "paused"
PrepareWithdraw(amount, all) ==
    /\ Len(ops) < MaxOps /\ CanWithdraw /\ wallet.saved > 0
    /\ all \/ (amount > 0 /\ amount <= wallet.saved)
    /\ LET shown == IF all THEN wallet.saved ELSE amount
       IN ops' = Append(ops, [Operation("withdraw", shown, shown)
                                EXCEPT !.all = all])
    /\ UNCHANGED <<now, price, fee, wallet, nonce, reserve, quotes, request,
                   ledger, events>>

\* POST /pay/prepare without a link.
PreparePay(amount) ==
    /\ Len(ops) < MaxOps /\ amount > 0 /\ amount <= wallet.in
    /\ ops' = Append(ops, Operation("pay", amount, amount))
    /\ UNCHANGED <<now, price, fee, wallet, nonce, reserve, quotes, request,
                   ledger, events>>

-----------------------------------------------------------------------------
(* Execution and settlement.                                               *)

\* What the batch of an operation moves, or that it reverts: approvals are
\* exact, the pool enforces the gross minimum, and the last command of the
\* router the net one (TAKE_ALL, SWEEP, UNWRAP_WETH).
Moves(op) ==
    LET gross == op.amount * price[op.route]
        all   == IF op.all THEN wallet.saved ELSE op.amount
    IN CASE op.kind = "swap"     -> [in |-> -op.amount,
                                     out |-> NetOf(gross, op.fee), saved |-> 0]
         [] op.kind = "deposit"  -> [in |-> -op.amount, out |-> 0,
                                     saved |-> op.amount]
         [] op.kind = "withdraw" -> [in |-> all, out |-> 0, saved |-> -all]
         [] op.kind = "pay"      -> [in |-> -op.amount, out |-> 0, saved |-> 0]
Succeeds(op) ==
    LET gross == op.amount * price[op.route]
    IN CASE op.kind = "swap" ->
              /\ now <= op.deadline /\ op.amount <= wallet.in
              /\ gross >= GrossMinForNet(op.min, op.fee)
              /\ NetOf(gross, op.fee) >= op.min
         [] op.kind = "deposit"  -> reserve = "open" /\ op.amount <= wallet.in
         [] op.kind = "withdraw" -> /\ reserve # "paused" /\ wallet.saved > 0
                                    /\ op.all \/ op.amount <= wallet.saved
         [] op.kind = "pay"      -> op.amount <= wallet.in

\* The EntryPoint takes an operation only at its nonce, reverted or not.  The
\* logs of the transaction are those of the whole bundle.
Execute(i) ==
    /\ ops[i].status = "prepared" /\ ops[i].nonce = nonce /\ nonce' = nonce + 1
    /\ IF Succeeds(ops[i])
       THEN LET d == Moves(ops[i])
            IN \E extra \in {0} \cup (IF Bundled THEN {1} ELSE {}) :
                 /\ wallet' = [t \in DOMAIN wallet |-> wallet[t] + d[t] +
                                 (IF t = "out" THEN extra ELSE 0)]
                 /\ ops' = [ops EXCEPT ![i].status = "executed",
                              ![i].moved = d,
                              ![i].logs = [d EXCEPT !.out = @ + extra]]
       ELSE /\ ops' = [ops EXCEPT ![i].status = "reverted"]
            /\ UNCHANGED wallet
    /\ UNCHANGED <<now, price, fee, reserve, quotes, request, ledger, events>>

\* transferredAmount: the transfers of a token to or from the account, null
\* when there are none.
TransferredAmount(op, token, direction) ==
    LET n == op.logs[token]
    IN IF direction = "in" THEN (IF n > 0 THEN n ELSE 0)
       ELSE (IF n < 0 THEN -n ELSE 0)

Entry(i, receipt, token, direction, stored) ==
    LET n == IF receipt THEN TransferredAmount(ops[i], token, direction) ELSE 0
    IN [op |-> i, token |-> token, direction |-> direction,
        amount |-> IF n > 0 THEN n ELSE stored,
        source |-> IF n > 0 THEN "executed" ELSE "estimated"]

\* settlePayment, once the operation was found on chain.  The receipt may not
\* be had, and the stored estimate is entered instead.
SwapEntries(i, receipt) ==
    {Entry(i, receipt, "in", "out", ops[i].amount),
     Entry(i, receipt, "out", "in", quotes[ops[i].quote].estimated)}
EarnEntries(i, receipt) ==
    {Entry(i, receipt, "in", IF ops[i].kind = "deposit" THEN "out" ELSE "in",
           ops[i].amount)}
\* A transfer is entered with the amount it was prepared for, as executed.
PayEntries(i) ==
    {[Entry(i, FALSE, "in", "out", ops[i].amount) EXCEPT !.source = "executed"]}
SettledEntries(i, receipt) ==
    CASE ops[i].kind = "swap"                   -> SwapEntries(i, receipt)
      [] ops[i].kind \in {"deposit", "withdraw"} -> EarnEntries(i, receipt)
      [] ops[i].kind = "pay"                    -> PayEntries(i)
Settle(i) ==
    /\ ops[i].status = "executed"
    /\ \E receipt \in BOOLEAN : ledger' = ledger \cup SettledEntries(i, receipt)
    /\ ops' = [ops EXCEPT ![i].status = "settled"]
    /\ quotes' = IF ops[i].kind = "swap"
                 THEN [quotes EXCEPT ![ops[i].quote].status = "executed"]
                 ELSE quotes
    /\ UNCHANGED <<now, price, fee, wallet, nonce, reserve, request, events>>

-----------------------------------------------------------------------------
(* The environment.                                                        *)

Happens == events < MaxEvents /\ events' = events + 1

PriceMoves(r, p) ==
    /\ Happens /\ price[r] # p /\ price' = [price EXCEPT ![r] = p]
    /\ UNCHANGED <<now, fee, wallet, nonce, reserve, quotes, request, ops,
                   ledger>>
FeePolicyChanges ==
    /\ Happens /\ fee' = SwapFeeBps - fee
    /\ UNCHANGED <<now, price, wallet, nonce, reserve, quotes, request, ops,
                   ledger>>
SavingsAccrue ==
    /\ Happens /\ wallet.saved > 0 /\ wallet' = [wallet EXCEPT !.saved = @ + 1]
    /\ UNCHANGED <<now, price, fee, nonce, reserve, quotes, request, ops,
                   ledger>>
ReserveChanges(s) ==
    /\ Happens /\ s # reserve /\ reserve' = s
    /\ UNCHANGED <<now, price, fee, wallet, nonce, quotes, request, ops, ledger>>
Tick ==
    /\ Happens /\ now' = now + 1
    /\ UNCHANGED <<price, fee, wallet, nonce, reserve, quotes, request, ops,
                   ledger>>

Next ==
    \/ \E a \in Amounts : Quote(a) \/ PrepareDeposit(a) \/ PreparePay(a)
    \/ \E a \in Amounts, all \in BOOLEAN : PrepareWithdraw(a, all)
    \/ \E i \in DOMAIN quotes : PrepareSwap(i)
    \/ FinishSwap
    \/ \E i \in DOMAIN ops : Execute(i) \/ Settle(i)
    \/ \E r \in Range(Routes), p \in Prices : PriceMoves(r, p)
    \/ \E s \in {"open", "frozen", "paused"} : ReserveChanges(s)
    \/ FeePolicyChanges \/ SavingsAccrue \/ Tick

Spec == Init /\ [][Next]_vars

-----------------------------------------------------------------------------
\* An executed operation did what the user was shown when signing, however
\* prices, fees and balances moved since: a swap took exactly its input and
\* paid at least the minimum of the quote, a deposit or a transfer moved
\* exactly its amount, and a withdrawal at least what was shown.
ExecutedAsShown ==
    \A i \in DOMAIN ops :
      LET op == ops[i]
      IN op.status \in {"executed", "settled"} =>
           CASE op.kind = "swap"     -> /\ op.moved.in = -op.amount
                                        /\ op.moved.out >= quotes[op.quote].min
             [] op.kind = "withdraw" -> op.moved.in >= op.shown
             [] OTHER                -> op.moved.in = -op.shown

\* An entry of the statement that says "executed" is exactly what its
\* operation moved.  It holds when a bundle carries one operation that touches
\* the account; the logs read are those of the whole transaction, so a
\* transfer to the account in the same bundle is counted with the swap.
StatementIsTrue ==
    \A e \in ledger : e.source = "executed" =>
      LET d == ops[e.op].moved[e.token]
      IN e.amount = (IF e.direction = "in" THEN d ELSE -d)
=============================================================================
