---------------------------- MODULE SmartAccount ----------------------------
(***************************************************************************)
(* One GatoPago smart account (AccountWebAuthnV2 behind the proxy that     *)
(* AccountFactoryV2 deploys): passkeys added and removed by operations its *)
(* own signers authorize, a threshold, and the guardian's recovery behind  *)
(* a timelock, while the owner loses keys and makes new ones and the       *)
(* guardian proposes by mistake.                                           *)
(*                                                                         *)
(* Every function is one transaction: it happens entirely or reverts.  The *)
(* timelock is what is left of it, in ticks.                               *)
(***************************************************************************)
EXTENDS Naturals, FiniteSets

CONSTANTS Keys,          \* passkeys
          FirstSigners,  \* signers and guardian of the initialization payload
          FirstGuardian,
          Guardians,
          MaxThreshold,  \* bound: thresholds asked for
          Delay,         \* RECOVERY_DELAY in ticks
          MaxLosses,     \* bound: keys the owner loses
          MaxMistakes,   \* bound: recoveries not proposed for keys the owner has
          MaxRotations,  \* bound: guardians set by the owner
          None

NoRecovery == [signers |-> {}, threshold |-> 0, wait |-> 0, by |-> None]

VARIABLES deployed,
          signers, threshold,
          guardian,
          recovery,   \* pending signers and threshold; wait: time left; by: who proposed
          held,       \* keys the owner can sign with
          made,       \* keys ever made
          losses, mistakes, rotations

account == <<deployed, signers, threshold, guardian, recovery>>
outside == <<held, made, losses, mistakes, rotations>>
vars == <<account, outside>>

Init ==
  /\ deployed = FALSE /\ signers = {} /\ threshold = 0 /\ guardian = None
  /\ recovery = NoRecovery
  /\ held = FirstSigners /\ made = FirstSigners
  /\ losses = 0 /\ mistakes = 0 /\ rotations = 0

Pending == recovery.signers # {}

\* onlyEntryPointOrSelf: an operation the account's own signers authorized.
Control == deployed /\ Cardinality(held \cap signers) >= threshold

\* The checks of MultiSignerERC7913; a failing one reverts the call.
ValidThreshold(n, set) == n > 0 /\ n <= Cardinality(set)
CanAdd(new, set) == new \cap set = {}
CanRemove(old, set, n) == old \subseteq set /\ n <= Cardinality(set \ old)

(* ------------------------ Deployment and signers ----------------------- *)

\* createAccount deploys the proxy whose address the payload determines and
\* runs initialize; once the code is there it only returns the address.
CreateAccount ==
  /\ ~deployed /\ CanAdd(FirstSigners, signers) /\ ValidThreshold(1, FirstSigners)
  /\ deployed' = TRUE /\ signers' = FirstSigners /\ threshold' = 1
  /\ guardian' = FirstGuardian
  /\ UNCHANGED <<recovery, outside>>

AddSigners(k) ==
  /\ Control /\ k \in held /\ CanAdd({k}, signers)
  /\ signers' = signers \cup {k}
  /\ UNCHANGED <<deployed, threshold, guardian, recovery, outside>>

RemoveSigners(k) ==
  /\ Control /\ CanRemove({k}, signers, threshold)
  /\ signers' = signers \ {k}
  /\ UNCHANGED <<deployed, threshold, guardian, recovery, outside>>

SetThreshold(n) ==
  /\ Control /\ n # threshold /\ ValidThreshold(n, signers) /\ threshold' = n
  /\ UNCHANGED <<deployed, signers, guardian, recovery, outside>>

\* setGuardian: a recovery proposed under the former guardian does not survive.
RecoveryUnder(g) == NoRecovery

SetGuardian(g) ==
  /\ Control /\ rotations < MaxRotations /\ rotations' = rotations + 1
  /\ guardian' = g /\ recovery' = RecoveryUnder(g)
  /\ UNCHANGED <<deployed, signers, threshold, held, made, losses, mistakes>>

(* ------------------------------- Recovery ------------------------------ *)

\* proposeRecovery and its checks of the proposal itself.
ProposeRecovery(new, n) ==
  /\ deployed /\ guardian # None /\ ~Pending /\ new # {} /\ ValidThreshold(n, new)
  /\ \/ new \subseteq held /\ CanAdd(new, signers) /\ UNCHANGED mistakes
     \/ mistakes < MaxMistakes /\ mistakes' = mistakes + 1
  /\ recovery' = [signers |-> new, threshold |-> n, wait |-> Delay, by |-> guardian]
  /\ UNCHANGED <<deployed, signers, threshold, guardian, held, made, losses, rotations>>

CancelRecovery ==
  /\ Control /\ Pending /\ recovery' = NoRecovery
  /\ UNCHANGED <<deployed, signers, threshold, guardian, outside>>

\* The guardian takes back a proposal that does not help the owner.
GuardianCancelRecovery ==
  /\ Pending /\ guardian # None
  /\ ~(recovery.signers \subseteq held /\ CanAdd(recovery.signers, signers))
  /\ recovery' = NoRecovery
  /\ UNCHANGED <<deployed, signers, threshold, guardian, outside>>

VariantRemoveFirst(new, n) == CanRemove(signers, signers, threshold) /\ CanAdd(new, {})

\* executeRecovery adds the new signers, then sets the threshold, then removes
\* the old ones: every intermediate state must pass the checks.
Replaceable(new, n) ==
  /\ CanAdd(new, signers)
  /\ ValidThreshold(n, signers \cup new)
  /\ CanRemove(signers, signers \cup new, n)

\* Anyone may call it once the timelock is over.
ExecuteRecovery ==
  /\ Pending /\ recovery.wait = 0 /\ Replaceable(recovery.signers, recovery.threshold)
  /\ signers' = recovery.signers /\ threshold' = recovery.threshold /\ recovery' = NoRecovery
  /\ UNCHANGED <<deployed, guardian, outside>>

Tick ==
  /\ recovery.wait > 0 /\ recovery' = [recovery EXCEPT !.wait = @ - 1]
  /\ UNCHANGED <<deployed, signers, threshold, guardian, outside>>

(* ------------------------------- The owner ----------------------------- *)

NewPasskey(k) ==
  /\ k \notin made /\ made' = made \cup {k} /\ held' = held \cup {k}
  /\ UNCHANGED <<account, losses, mistakes, rotations>>

LoseKey(k) ==
  /\ k \in held /\ losses < MaxLosses /\ losses' = losses + 1 /\ held' = held \ {k}
  /\ UNCHANGED <<account, made, mistakes, rotations>>

Next ==
  \/ CreateAccount
  \/ \E k \in Keys : AddSigners(k) \/ RemoveSigners(k) \/ NewPasskey(k) \/ LoseKey(k)
  \/ \E n \in 1..MaxThreshold : SetThreshold(n)
  \/ \E g \in Guardians \cup {None} : SetGuardian(g)
  \/ \E n \in 1..MaxThreshold : \E new \in SUBSET Keys : ProposeRecovery(new, n)
  \/ CancelRecovery \/ GuardianCancelRecovery \/ ExecuteRecovery \/ Tick

Spec == Init /\ [][Next]_vars

\* The guardian acts, blocks are mined, someone calls executeRecovery, and an
\* owner who lost the account makes a new passkey.  The owner does not act.
Helpful(k) == k \in held /\ CanAdd({k}, signers) /\ ProposeRecovery({k}, 1)
LiveSpec ==
  /\ Spec
  /\ WF_vars(\E k \in Keys : Helpful(k)) /\ WF_vars(GuardianCancelRecovery)
  /\ WF_vars(ExecuteRecovery) /\ WF_vars(Tick)
  /\ WF_vars(~Control /\ held \subseteq signers /\ \E k \in Keys : NewPasskey(k))

(* ------------------------------ Properties ----------------------------- *)

\* An owner who has lost too many keys gets the account back, as long as it
\* has a guardian: a proposal that names a signer the account already has
\* would revert for ever in executeRecovery, but can be taken back and made
\* again (guardianCancelRecovery).
LostOwnerRecovers == (deployed /\ ~Control /\ guardian # None) ~> Control
=============================================================================
