---------------------------- MODULE Sponsorship ----------------------------
(***************************************************************************)
(* How the App Worker builds a sponsored UserOperation (userOp.ts,         *)
(* sponsorship.ts, paymaster.ts), what ParmeliaPaymaster then accepts, and *)
(* the rotation of one paymaster contract to another that DEPLOY.md        *)
(* prescribes, with the drain count of sponsorshipHealth.ts.               *)
(* A sponsorship is the tuple of fields its signature covers.  Gas values  *)
(* are named by where they come from: the Worker's defaults, the paymaster *)
(* service, or the bundler's estimate.                                     *)
(* Left out: bytes and hashes, the EntryPoint's own accounting of deposits.*)
(***************************************************************************)
EXTENDS Naturals, Sequences

CONSTANTS
    Paymasters,     \* own paymaster contracts; each has a signer key of its own
    Service,        \* the contract of the ERC-7677 service
    Orders,         \* configured provider sequences (primary, fallback)
    TTL,            \* DEFAULT_SPONSOR_TTL_SECONDS and the life of a row, in ticks
    MaxTime, MaxBuilds

Nothing == "none"

VARIABLES
    now,
    order,     \* sponsorshipProviderNames(env)
    config,    \* SPONSORSHIP_PAYMASTER_ADDRESS, its key deployed with it
    previous,  \* the configuration replaced last
    deployed,  \* when config was deployed
    signerSet, \* per paymaster: sponsorSigner is the key deployed with it
    funded,    \* per paymaster: deposit at the EntryPoint
    cap,       \* per paymaster: maxSponsoredGasCost is below what an op costs
    build,     \* the running buildSponsoredUserOp
    rows,      \* pending_payments
    builds

vars == <<now, order, config, previous, deployed, signerSet, funded, cap,
          build, rows, builds>>

\* The fields of an operation that a sponsorship covers.
NoOp == [gas |-> "default", paymaster |-> Nothing, pmGas |-> Nothing, until |-> 0,
         covers |-> <<Nothing, Nothing, Nothing, 0>>]
Covered(op) == <<op.paymaster, op.gas, op.pmGas, op.until>>

NoBuild == [pc |-> Nothing, slot |-> 1, env |-> Nothing, transport |-> "self",
            op |-> NoOp, stub |-> NoOp, final |-> FALSE, limits |-> Nothing,
            begun |-> 0]

TypeOK ==
    /\ now \in 0..MaxTime /\ order \in Orders
    /\ config \in Paymasters /\ previous \in Paymasters \cup {Nothing}
    /\ signerSet \in [Paymasters -> BOOLEAN]
    /\ funded \in [Paymasters -> BOOLEAN] /\ cap \in [Paymasters -> BOOLEAN]
    /\ build.pc \in {Nothing, "prepare", "estimate", "finalize", "fund", "hash"}
    /\ \A i \in DOMAIN rows :
         rows[i].status \in {"prepared", "submitted", "done"}

Init ==
    /\ now = 0 /\ order \in Orders
    /\ config \in Paymasters /\ previous = Nothing /\ deployed = 0
    /\ signerSet = [p \in Paymasters |-> p = config]
    /\ funded = [p \in Paymasters |-> p = config]
    /\ cap = [p \in Paymasters |-> FALSE]
    /\ build = NoBuild /\ rows = <<>> /\ builds = 0

Provider == order[build.slot]

-----------------------------------------------------------------------------
(* buildSponsoredUserOp.                                                   *)

\* The nonce, the gas price and the chain id are read first; a failed read
\* ends the request.  A request served by a Worker not yet replaced sees the
\* previous configuration.
StartBuild ==
    /\ build.pc = Nothing /\ builds < MaxBuilds
    /\ \E transport \in {"self", "bundler"},
          env \in {config} \cup
                  (IF previous # Nothing /\ now = deployed THEN {previous} ELSE {}) :
         build' = [NoBuild EXCEPT !.pc = "prepare", !.transport = transport,
                                  !.env = env, !.begun = now]
    /\ builds' = builds + 1
    /\ UNCHANGED <<now, order, config, previous, deployed, signerSet, funded,
                   cap, rows>>

\* withSponsorshipProviderFallback: any error of a provider leads to the next
\* one, which starts from the clean base operation; after the last one the
\* request fails.
NextProvider ==
    IF build.slot < Len(order)
    THEN [NoBuild EXCEPT !.pc = "prepare", !.slot = build.slot + 1,
            !.transport = build.transport, !.env = build.env,
            !.begun = build.begun]
    ELSE NoBuild

ProviderFails ==
    /\ build.pc \in {"prepare", "estimate", "finalize", "fund"}
    /\ build' = NextProvider
    /\ UNCHANGED <<now, order, config, previous, deployed, signerSet, funded,
                   cap, rows, builds>>

\* buildSignedPaymasterAndData: the header carries the limits given, else the
\* defaults; the signature covers the operation's gas, that header and the
\* window.
Signed(op, limits) ==
    LET o == [op EXCEPT !.paymaster = build.env, !.until = now + TTL,
                        !.pmGas = IF limits = Nothing THEN "default" ELSE limits]
    IN [o EXCEPT !.covers = Covered(o)]

\* packServiceResult: the service answers for the operation it was sent.  Its
\* limits are taken from the stub only; a final answer that names limits is
\* refused (ProviderFails).  A stub that is not final covers nothing.
Packed(op, stub, gasLimit, signs) ==
    LET seen == [op EXCEPT !.paymaster = Service, !.until = now + TTL,
                           !.pmGas = IF stub THEN gasLimit ELSE op.pmGas]
        packed == [seen EXCEPT !.pmGas = gasLimit]
    IN [packed EXCEPT !.covers = IF signs THEN Covered(seen)
                                 ELSE NoOp.covers]

\* provider.prepare: the data the gas estimate is made with.
Prepare ==
    /\ build.pc = "prepare"
    /\ LET next == IF build.transport = "bundler" THEN "estimate" ELSE "finalize"
           go(op, final) == [build EXCEPT !.pc = next, !.op = op, !.stub = op,
                                          !.final = final]
       IN \/ /\ Provider = "parmelia"
             /\ build' = go(Signed(NoOp, Nothing), FALSE)
          \/ /\ Provider = "self-funded" /\ build' = go(NoOp, TRUE)
          \/ /\ Provider = "erc7677"
             /\ \E gasLimit \in {"default", "service"}, final \in BOOLEAN :
                  build' = go(Packed(NoOp, TRUE, gasLimit, final), final)
    /\ UNCHANGED <<now, order, config, previous, deployed, signerSet, funded,
                   cap, rows, builds>>

\* The bundler's estimate, buffered; withSponsorshipGasLimits rewrites the two
\* limits of the header and keeps the rest.  An estimate out of range fails.
Estimate ==
    /\ build.pc = "estimate"
    /\ build' = [build EXCEPT !.pc = "finalize", !.limits = "estimate",
                   !.op.gas = "estimate",
                   !.op.pmGas = IF build.op.paymaster = Nothing THEN Nothing
                                ELSE "estimate"]
    /\ UNCHANGED <<now, order, config, previous, deployed, signerSet, funded,
                   cap, rows, builds>>

\* provider.finalize: our own paymaster signs again over the final gas; the
\* service signs again unless its stub was final, and must name the same
\* contract (a different one, or data of another length, fails).
Finalized ==
    CASE Provider = "parmelia"    -> Signed(build.op, build.limits)
      [] Provider = "self-funded" -> build.op
      [] build.final              -> [build.op EXCEPT
                                        !.pmGas = build.stub.pmGas,
                                        !.until = build.stub.until,
                                        !.covers = build.stub.covers]
      [] OTHER -> Packed(build.op, FALSE,
                         IF build.limits = Nothing THEN "default"
                         ELSE build.limits, TRUE)
Finalize ==
    /\ build.pc = "finalize"
    /\ build' = [build EXCEPT !.op = Finalized,
                   !.pc = IF Provider = "self-funded" THEN "fund" ELSE "hash"]
    /\ UNCHANGED <<now, order, config, previous, deployed, signerSet, funded,
                   cap, rows, builds>>

\* maximumSelfFundedUserOpCost against the account's deposit and balance; too
\* little of them is an error of this provider.
SelfFundedCheck ==
    /\ build.pc = "fund" /\ build' = [build EXCEPT !.pc = "hash"]
    /\ UNCHANGED <<now, order, config, previous, deployed, signerSet, funded,
                   cap, rows, builds>>

\* The EntryPoint's hash equals the digest of the payload, or the request
\* fails; the row is stored with the provider and the exact paymaster, and
\* the operation is handed to the client.
HandOut ==
    /\ build.pc = "hash" /\ build' = NoBuild
    /\ \/ rows' = Append(rows, [op |-> build.op, status |-> "prepared",
                                provider |-> Provider,
                                exempt |-> Provider = "erc7677" /\
                                  (IF build.final THEN build.transport = "bundler"
                                   ELSE build.transport = "self"
                                        /\ build.stub.pmGas = "service"),
                                expires |-> now + TTL])
       \/ UNCHANGED rows
    /\ UNCHANGED <<now, order, config, previous, deployed, signerSet, funded,
                   cap, builds>>

-----------------------------------------------------------------------------
(* The paymaster contract and the rows.                                    *)

\* validatePaymasterUserOp, with the window and the deposit the EntryPoint
\* enforces.
Accepts(op) ==
    /\ now <= op.until /\ op.covers = Covered(op)
    /\ op.paymaster \in Paymasters =>
         signerSet[op.paymaster] /\ funded[op.paymaster] /\ ~cap[op.paymaster]

\* A signed operation is submitted while its row has not expired, and lands
\* when its paymaster accepts it.
SubmitRow(i) ==
    /\ rows[i].status = "prepared" /\ now <= rows[i].expires
    /\ rows' = [rows EXCEPT ![i].status = "submitted"]
    /\ UNCHANGED <<now, order, config, previous, deployed, signerSet, funded,
                   cap, build, builds>>

Land(i) ==
    /\ rows[i].status = "submitted"
    /\ rows[i].op.paymaster = Nothing \/ Accepts(rows[i].op)
    /\ rows' = [rows EXCEPT ![i].status = "done"]
    /\ UNCHANGED <<now, order, config, previous, deployed, signerSet, funded,
                   cap, build, builds>>

\* A row whose time is over is closed.
CloseRow(i) ==
    /\ rows[i].status # "done" /\ now > rows[i].expires
    /\ rows' = [rows EXCEPT ![i].status = "done"]
    /\ UNCHANGED <<now, order, config, previous, deployed, signerSet, funded,
                   cap, build, builds>>

-----------------------------------------------------------------------------
(* The rotation of DEPLOY.md.                                              *)

\* The new contract is deployed, funded and given the signer of the new key.
SetSponsorSigner(p) ==
    /\ ~signerSet[p] /\ signerSet' = [signerSet EXCEPT ![p] = TRUE]
    /\ UNCHANGED <<now, order, config, previous, deployed, funded, cap, build,
                   rows, builds>>

Deposit(p) ==
    /\ ~funded[p] /\ funded' = [funded EXCEPT ![p] = TRUE]
    /\ UNCHANGED <<now, order, config, previous, deployed, signerSet, cap,
                   build, rows, builds>>

\* The owner lowers the cap (raising it again only allows more).
SetMaxSponsoredGasCost(p) ==
    /\ ~cap[p] /\ cap' = [cap EXCEPT ![p] = TRUE]
    /\ UNCHANGED <<now, order, config, previous, deployed, signerSet, funded,
                   build, rows, builds>>

\* collectSponsorshipHealth reports no issue for p: its signer and its deposit.
Healthy(p) == signerSet[p] /\ funded[p]

\* The App is deployed with the other paymaster and its key.
DeployConfig(p) ==
    /\ p # config /\ Healthy(p)
    /\ config' = p /\ previous' = config /\ deployed' = now
    /\ UNCHANGED <<now, order, signerSet, funded, cap, build, rows, builds>>

\* activeOperations of the health report for the exact address.
ActiveOperations(p) ==
    {i \in DOMAIN rows : rows[i].status \in {"prepared", "submitted"}
                         /\ rows[i].op.paymaster = p}

\* The old deposit is withdrawn once the sponsorship window has passed since
\* the deploy and no active row names the contract.
WithdrawTo(p) ==
    /\ p # config /\ funded[p]
    /\ p = previous => now >= deployed + TTL
    /\ ActiveOperations(p) = {}
    /\ funded' = [funded EXCEPT ![p] = FALSE]
    /\ UNCHANGED <<now, order, config, previous, deployed, signerSet, cap,
                   build, rows, builds>>

\* A request does not outlive the sponsorship window.
Tick ==
    /\ now < MaxTime /\ now' = now + 1
    /\ build.pc # Nothing => now < build.begun + TTL - 1
    /\ UNCHANGED <<order, config, previous, deployed, signerSet, funded, cap,
                   build, rows, builds>>

Next ==
    \/ StartBuild \/ ProviderFails \/ Prepare \/ Estimate \/ Finalize
    \/ SelfFundedCheck \/ HandOut \/ Tick
    \/ \E i \in DOMAIN rows : SubmitRow(i) \/ Land(i) \/ CloseRow(i)
    \/ \E p \in Paymasters :
         \/ SetSponsorSigner(p) \/ Deposit(p) \/ SetMaxSponsoredGasCost(p)
         \/ DeployConfig(p) \/ WithdrawTo(p)

Spec == Init /\ [][Next]_vars

-----------------------------------------------------------------------------
\* Every operation handed out is honoured as long as its row is active and its
\* window open, through any provider fallback and across a rotation: the
\* sponsorship covers exactly the gas and the limits it was handed out with,
\* and its own paymaster still has the signer and the deposit (only a lowered
\* cap refuses it).  Two answers of an ERC-7677 service are exempt: a final
\* stub, whose signature covers the gas before the bundler's estimate, and
\* limits named by the stub when no bundler estimates, which the final data
\* replaces by the defaults.
HandedOutIsHonoured ==
    \A i \in DOMAIN rows :
      LET r == rows[i] op == rows[i].op
      IN (r.status # "done" /\ op.paymaster # Nothing /\ now <= op.until) =>
           /\ ~r.exempt => op.covers = Covered(op)
           /\ op.paymaster \in Paymasters => Healthy(op.paymaster)
=============================================================================
