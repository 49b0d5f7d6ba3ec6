--------------------------- MODULE MCChainReading ---------------------------
\* How the App Worker reads its chains and writes to them: two streams journal
\* one chain, the provider registry follows the wallets, the pool of RPC
\* endpoints serves the calls, and the service's signers send the operations
\* of accounts. Only the component that part names runs in a behaviour, so
\* the state spaces add up.
EXTENDS ChainJournal, TLC

CONSTANTS s1, s2, e1, u1, u2, a1, a2, h1, i1, i2, r1, r2

SeenByAll == [s \in Streams |-> Events]
HomeOf == r1 :> i1 @@ r2 :> i1

VARIABLES part,
          wallet, box, shards, asg, woken, reg, due, remote, mirror, scanned,
          ready, registryRun, torn, delivery, hook, answered, signalled,
          changes, faults, row, cache, active, waiters, held, orphans, req,
          up, poolFaults, op, tx, mined, lease, aged, funded, budget,
          operationsWallet, operationsLedger, p,
          operationsFaults

Registry == INSTANCE WalletRegistry WITH
    Users <- {u1, u2}, Addresses <- {a1, a2}, ShardSize <- 1,
    ShardsPerSlot <- 1, Chunk <- 1, MaxShards <- 2, MaxChanges <- 2,
    MaxFaults <- 1, Leftover <- {a1, a2}, Hooks <- {h1}, run <- registryRun

Pool == INSTANCE RpcPool WITH
    Isolates <- {i1, i2}, Requests <- {r1, r2}, Home <- HomeOf,
    MaxConcurrent <- 1, Threshold <- 2, MaxFaults <- 1, faults <- poolFaults

Accounts == INSTANCE AccountOperations WITH
    Users <- {u1, u2}, Procs <- {a1, a2}, Registered <- {u1, u2}, MaxOps <- 2,
    DailyClaims <- 2, FaultKinds <- {"crash", "drop", "early", "expiry"},
    MaxFaults <- 1, wallet <- operationsWallet, ledger <- operationsLedger,
    faults <- operationsFaults

registryState ==
    <<wallet, box, shards, asg, woken, reg, due, remote, mirror, scanned,
      ready, registryRun, torn, delivery, hook, answered, signalled, changes,
      faults>>
RegistryOff ==
    wallet = 0 /\ box = 0 /\ shards = 0 /\ asg = 0 /\ woken = 0 /\ reg = 0
    /\ due = 0 /\ remote = 0 /\ mirror = 0 /\ scanned = 0 /\ ready = 0
    /\ registryRun = 0 /\ torn = 0 /\ delivery = 0 /\ hook = 0 /\ answered = 0
    /\ signalled = 0 /\ changes = 0 /\ faults = 0
poolState ==
    <<row, cache, active, waiters, held, orphans, req, up, poolFaults>>
PoolOff ==
    row = 0 /\ cache = 0 /\ active = 0 /\ waiters = 0 /\ held = 0
    /\ orphans = 0 /\ req = 0 /\ up = 0 /\ poolFaults = 0
operationsState ==
    <<op, tx, mined, lease, aged, funded, budget, operationsWallet,
      operationsLedger, p, operationsFaults>>
AccountsOff ==
    op = 0 /\ tx = 0 /\ mined = 0 /\ lease = 0 /\ aged = 0 /\ funded = 0
    /\ budget = 0 /\ operationsWallet = 0 /\ operationsLedger = 0 /\ p = 0
    /\ operationsFaults = 0

MCInit ==
    /\ part \in {"journal", "registry", "pool", "operations"}
    /\ Init
    \* The two watchers take the same steps: of the recovery watcher one chain does.
    /\ (part = "journal" /\ userOps = UserOps) \/ (userOps = {} /\ chain[1].ev = Events)
    /\ IF part = "registry" THEN Registry!Init ELSE RegistryOff
    /\ IF part = "pool" THEN Pool!Init ELSE PoolOff
    /\ IF part = "operations" THEN Accounts!Init ELSE AccountsOff

MCNext ==
    \/ /\ part = "journal" /\ Next
       /\ UNCHANGED <<part, registryState, poolState, operationsState>>
    \/ /\ part = "registry" /\ Registry!Next
       /\ UNCHANGED <<part, vars, poolState, operationsState>>
    \/ /\ part = "pool" /\ Pool!Next
       /\ UNCHANGED <<part, vars, registryState, operationsState>>
    \/ /\ part = "operations" /\ Accounts!Next
       /\ UNCHANGED <<part, vars, registryState, poolState>>

MCVars == <<part, vars, registryState, poolState, operationsState>>

MCSpec == MCInit /\ [][MCNext]_MCVars

-----------------------------------------------------------------------------
\* Users are alike, and so are the addresses, which stand for the invocations
\* of account operations too.
Symmetry == {f @@ g : f \in Permutations({u1, u2}), g \in Permutations({a1, a2})}

\* Every wallet of a user is watched by the provider once its shards are in
\* step, and a request that was answered has scheduled the work it promised.
EveryWalletIsWatched ==
    part = "registry" => Registry!EveryWalletIsWatched /\ Registry!AnsweredWasScheduled

\* An isolate never has more calls to an endpoint in flight than allowed, and no
\* slot is lost or given back twice, by timeouts, waiters and aborted requests.
SlotsAreKept == part = "pool" => Pool!InFlightIsBounded /\ Pool!SlotsAreAccounted

\* The faucet pays a user once and within the day's budget, nobody loses the
\* claim without a transfer, and two open operations of one signer have different
\* nonces, whatever call is repeated, fails or dies.
FundingIsExact ==
    part = "operations" =>
        /\ Accounts!FaucetPaysOnce /\ Accounts!BudgetCoversTransfers
        /\ Accounts!ClaimHasReason /\ Accounts!NoncesAreDistinct
=============================================================================
