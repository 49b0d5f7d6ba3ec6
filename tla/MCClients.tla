------------------------------ MODULE MCClients ------------------------------
\* What the web client and the smart account come to: the home screen, the
\* forms that ask for quotes and the recovery of an account. Only the
\* component that part names runs in a behaviour, under the fairness its own
\* module states.
EXTENDS HomeClient, TLC

CONSTANTS k1, k2, k3, k4, g1, g2, t1, t2

FormKinds == {"swap", "crosschain"}

VARIABLES part,
          deployed, signers, threshold, guardian, recovery, held, made,
          losses, mistakes, rotations, kind, form, refresh, seq, timer,
          requests, quoteState, stage, prepared, signing, result, poll, polls,
          failed, ops, landed, inbound, edits, formFaults

Account == INSTANCE SmartAccount WITH
    Keys <- {k1, k2, k3, k4}, FirstSigners <- {k1}, FirstGuardian <- g1,
    Guardians <- {g1, g2}, MaxThreshold <- 2, Delay <- 1, MaxLosses <- 2,
    MaxMistakes <- 1, MaxRotations <- 1

Form == INSTANCE WalletClient WITH
    Kinds <- FormKinds, Tokens <- {t1, t2}, Inputs <- {1, 2}, MaxEdits <- 3,
    MaxOps <- 0, MaxFaults <- 1, faults <- formFaults

accountState ==
    <<deployed, signers, threshold, guardian, recovery, held, made, losses,
      mistakes, rotations>>
AccountOff ==
    deployed = 0 /\ signers = 0 /\ threshold = 0 /\ guardian = 0
    /\ recovery = 0 /\ held = 0 /\ made = 0 /\ losses = 0 /\ mistakes = 0
    /\ rotations = 0
formState ==
    <<kind, form, refresh, seq, timer, requests, quoteState, stage, prepared,
      signing, result, poll, polls, failed, ops, landed, inbound, edits,
      formFaults>>
FormOff ==
    kind = 0 /\ form = 0 /\ refresh = 0 /\ seq = 0 /\ timer = 0
    /\ requests = 0 /\ quoteState = 0 /\ stage = 0 /\ prepared = 0
    /\ signing = 0 /\ result = 0 /\ poll = 0 /\ polls = 0 /\ failed = 0
    /\ ops = 0 /\ landed = 0 /\ inbound = 0 /\ edits = 0 /\ formFaults = 0

MCInit ==
    /\ part \in {"home", "account", "form"}
    /\ Init
    /\ IF part = "account" THEN Account!Init ELSE AccountOff
    /\ IF part = "form" THEN Form!Init ELSE FormOff

MCNext ==
    \/ /\ part = "home" /\ Next
       /\ UNCHANGED <<part, accountState, formState>>
    \/ /\ part = "account" /\ Account!Next
       /\ UNCHANGED <<part, homeVars, formState>>
    \/ /\ part = "form" /\ Form!Next
       /\ UNCHANGED <<part, homeVars, accountState>>

MCVars == <<part, homeVars, accountState, formState>>

MCSpec == MCInit /\ [][MCNext]_MCVars

\* The fairness of each module, while its component is the one that runs.
Fair ==
    /\ WF_homeVars(part = "home" /\ Refresh)
    /\ WF_homeVars(part = "home" /\ Retry)
    /\ WF_homeVars(part = "home" /\ LoadHomeCache)
    /\ \A i \in Ids : WF_homeVars(part = "home" /\ Step(i))
    /\ WF_accountState(part = "account" /\ \E k \in {k1, k2, k3, k4} : Account!Helpful(k))
    /\ WF_accountState(part = "account" /\ Account!GuardianCancelRecovery)
    /\ WF_accountState(part = "account" /\ Account!ExecuteRecovery)
    /\ WF_accountState(part = "account" /\ Account!Tick)
    /\ WF_accountState(part = "account" /\ ~Account!Control /\ held \subseteq signers
                       /\ \E k \in {k1, k2, k3, k4} : Account!NewPasskey(k))
    /\ WF_formState(part = "form" /\ Form!FireQuote)
    /\ WF_formState(part = "form" /\ Form!QuoteAnswered)
    /\ WF_formState(part = "form" /\ Form!BalanceAnswered)
    /\ WF_formState(part = "form" /\ Form!PrepareAnswered)
    /\ WF_formState(part = "form" /\ Form!InboundRegister)

MCLiveSpec == MCSpec /\ Fair

-----------------------------------------------------------------------------
\* A tab that stays with its user comes to show the version that is stored and
\* keeps it, whatever answers come late and whatever the cache held.
HomeIsCurrent ==
    \A u \in Users :
        <>[](part = "home" /\ auth = u) => <>[](Mounted /\ entry.ver = version[u])

\* An owner who has lost too many keys gets the account back while it has a
\* guardian, whatever mistaken proposals stand in the way.
LostOwnerRecovers ==
    []<>(part = "account" => ~deployed \/ guardian = None \/ Account!Control)

\* No input of the form waits for its quote for ever: answers that arrive out of
\* order or a refreshed balance never leave the page asking.
EveryInputIsQuoted == []<>(part = "form" => ~Form!Quoting)
=============================================================================
