------------------------------- MODULE SignIn -------------------------------
(***************************************************************************)
(* The one-time challenges of the App Worker: six-digit codes (sign-in and *)
(* step-up), recovery links, and the WebAuthn challenges of registrations  *)
(* and assertions.  All are rows that are issued, perhaps mailed, claimed, *)
(* and consumed by whoever answers them.  Rows of two kinds never meet, so *)
(* a behaviour is about the rows of one kind and one user.                 *)
(*                                                                         *)
(* A row's id stands for its created_at: both are fixed before the INSERT. *)
(* A request that a rate limit, Turnstile or the format of its input       *)
(* refuses changes nothing here and is not a step.                         *)
(***************************************************************************)
EXTENDS Naturals, FiniteSets

CONSTANTS MaxRows,     \* bound: challenges issued
          Requests,    \* concurrent requests
          MaxTries,    \* MAX_ATTEMPTS, MAX_VERIFICATION_ATTEMPTS
          Credentials, \* credentials a browser may answer a registration with
          MaxFaults,   \* bound: invocations that die, clean-ups that fail
          None, Lost

Rows == 1..MaxRows
Mailed == {"signin", "step_up", "link"}
Kinds == Mailed \cup {"register", "assert"}
NoRow == [st |-> "none", claim |-> None, tries |-> 0, expired |-> FALSE, cred |-> None]
Idle == [pc |-> "idle", id |-> 0, right |-> FALSE, cred |-> None]

VARIABLES kind,     \* the kind of the rows of this behaviour
          last,     \* created_at of the last challenge
          row,      \* auth_email_codes, auth_email_link_challenges, webauthn_*_challenges
          mail,     \* challenges whose mail the provider acknowledged
          session,  \* auth_step_up_sessions, by the challenge they come from
          p,        \* the requests
          faults,
          granted,  \* how often each challenge was accepted
          guesses   \* how many answers were compared with each code

vars == <<kind, last, row, mail, session, p, faults, granted, guesses>>
ghosts == <<granted, guesses>>

Init ==
  /\ kind \in Kinds
  /\ last = 0 /\ row = [i \in Rows |-> NoRow] /\ mail = {}
  /\ session = [i \in Rows |-> "none"]
  /\ p = [w \in Requests |-> Idle] /\ faults = 0
  /\ granted = [i \in Rows |-> 0] /\ guesses = [i \in Rows |-> 0]

Open(i) == row[i].st = "open"
Goto(w, pc) == p' = [p EXCEPT ![w].pc = pc]
End(w) == p' = [p EXCEPT ![w] = Idle]
Begin(w, r) == p[w].pc = "idle" /\ p' = [p EXCEPT ![w] = r]

----------------------------------------------------------------------------
(* Issuing. *)

(* A challenge gets its id and creation time; the row comes later. *)
Issue(w, k) ==
  /\ kind = k /\ last < MaxRows /\ last' = last + 1
  /\ Begin(w, [Idle EXCEPT !.pc = "insert", !.id = last + 1])
  /\ UNCHANGED <<kind, row, mail, session, faults, ghosts>>

RequestEmailCode(w) == Issue(w, "signin")
RequestStepUpCode(w) == Issue(w, "step_up")
RequestStepUpLink(w) == Issue(w, "link")
RegistrationPreflight(w) == Issue(w, "register")
AvailabilityPreflight(w) == Issue(w, "assert")

(* The open rows that are older than i, closed. *)
Retired(i) == [j \in Rows |-> IF j < i /\ row[j].st = "open"
                              THEN [row[j] EXCEPT !.st = "consumed"] ELSE row[j]]

(* A code or a link is stored before it is mailed. *)
InsertMailed(w) ==
  /\ kind \in Mailed /\ p[w].pc = "insert"
  /\ row' = [row EXCEPT ![p[w].id].st = "open"] /\ Goto(w, "send")
  /\ UNCHANGED <<kind, last, mail, session, faults, ghosts>>

(* A registration closes every open one of its purpose in the same batch. *)
InsertRegistration(w) ==
  /\ kind = "register" /\ p[w].pc = "insert"
  /\ row' = [j \in Rows |-> IF j = p[w].id THEN [NoRow EXCEPT !.st = "open"]
                             ELSE IF Open(j) THEN [row[j] EXCEPT !.st = "consumed"] ELSE row[j]]
  /\ End(w)
  /\ UNCHANGED <<kind, last, mail, session, faults, ghosts>>

InsertAssertion(w) ==
  /\ kind = "assert" /\ p[w].pc = "insert"
  /\ row' = [row EXCEPT ![p[w].id].st = "open"] /\ End(w)
  /\ UNCHANGED <<kind, last, mail, session, faults, ghosts>>

Send(w) ==
  /\ p[w].pc = "send"
  /\ \/ mail' = mail \cup {p[w].id} /\ Goto(w, "retire")
     \/ UNCHANGED mail /\ Goto(w, "undo")
  /\ UNCHANGED <<kind, last, row, session, faults, ghosts>>

(* The row of a mail that was not sent is deleted, if the DELETE succeeds. *)
Undo(w) ==
  /\ p[w].pc = "undo" /\ End(w)
  /\ \/ /\ row' = IF kind = "link" /\ ~ Open(p[w].id) THEN row
                  ELSE [row EXCEPT ![p[w].id].st = "deleted"]
        /\ UNCHANGED faults
     \/ faults < MaxFaults /\ faults' = faults + 1 /\ UNCHANGED row
  /\ UNCHANGED <<kind, last, mail, session, ghosts>>

Retire(w) ==
  /\ p[w].pc = "retire" /\ row' = Retired(p[w].id) /\ End(w)
  /\ UNCHANGED <<kind, last, mail, session, faults, ghosts>>

----------------------------------------------------------------------------
(* Answering a code: it is compared with the newest open row, whichever mail *)
(* it came from.  An attempt is reserved before the comparison.              *)

Newest(i) == Open(i) /\ \A j \in Rows : Open(j) => j <= i

ReadCode(w, k, right) ==
  \E i \in Rows :
    /\ kind = k /\ Newest(i)
    /\ ~ row[i].expired /\ row[i].tries < MaxTries /\ row[i].claim = None
    /\ right => i \in mail
    /\ Begin(w, [Idle EXCEPT !.pc = "reserve", !.id = i, !.right = right])
    /\ UNCHANGED <<kind, last, row, mail, session, faults, ghosts>>

VerifyEmailCode(w, right) == ReadCode(w, "signin", right)
VerifyStepUpCode(w, right) == ReadCode(w, "step_up", right)

VariantUncheckedAttempt(i) == Open(i)
(* The WHERE of the UPDATE that reserves an attempt. *)
MayTry(i) == Open(i) /\ row[i].claim = None /\ row[i].tries < MaxTries

Reserve(w) ==
  LET i == p[w].id
  IN /\ p[w].pc = "reserve"
     /\ IF MayTry(i)
        THEN /\ row' = [row EXCEPT ![i].tries = @ + 1]
             /\ guesses' = [guesses EXCEPT ![i] = @ + 1]
             /\ IF p[w].right THEN Goto(w, "claim") ELSE End(w)
        ELSE End(w) /\ UNCHANGED <<row, guesses>>
     /\ UNCHANGED <<kind, last, mail, session, faults, granted>>

ClaimCode(w) ==
  LET i == p[w].id
  IN /\ p[w].pc = "claim"
     /\ IF Open(i) /\ row[i].claim = None
        THEN row' = [row EXCEPT ![i].claim = w] /\ Goto(w, "grant")
        ELSE End(w) /\ UNCHANGED row
     /\ UNCHANGED <<kind, last, mail, session, faults, ghosts>>

(* Firebase finds or creates the user and signs a token, or fails. *)
Firebase(w) ==
  /\ kind = "signin" /\ p[w].pc = "grant"
  /\ \E pc \in {"consume", "release"} : Goto(w, pc)
  /\ UNCHANGED <<kind, last, row, mail, session, faults, ghosts>>

(* The WHERE of the UPDATE that consumes a claimed row. *)
StillMine(w) == Open(p[w].id) /\ row[p[w].id].claim = w

Granted(i) == granted' = [granted EXCEPT ![i] = @ + 1]

(* The token is handed out only by the request that consumed the code. *)
ConsumeCode(w) ==
  LET i == p[w].id
  IN /\ p[w].pc = "consume"
     /\ IF StillMine(w)
        THEN row' = [row EXCEPT ![i].st = "consumed"] /\ Granted(i) /\ End(w)
        ELSE Goto(w, "release") /\ UNCHANGED <<row, granted>>
     /\ UNCHANGED <<kind, last, mail, session, faults, guesses>>

(* The batch inserts the session in any case and consumes the code if it     *)
(* still can; a session whose code it could not consume is deleted.          *)
StepUp(w) ==
  LET i == p[w].id
  IN /\ kind = "step_up" /\ p[w].pc = "grant"
     /\ \/ /\ StillMine(w)
           /\ row' = [row EXCEPT ![i].st = "consumed"]
           /\ session' = [session EXCEPT ![i] = "live"]
           /\ Granted(i) /\ End(w)
        \/ Goto(w, "release") /\ UNCHANGED <<row, session, granted>>
     /\ UNCHANGED <<kind, last, mail, faults, guesses>>

Release(w) ==
  /\ p[w].pc = "release" /\ End(w)
  /\ row' = IF StillMine(w) THEN [row EXCEPT ![p[w].id].claim = None] ELSE row
  /\ UNCHANGED <<kind, last, mail, session, faults, ghosts>>

----------------------------------------------------------------------------
(* A recovery link names its challenge; consuming it and opening the session *)
(* are one batch.                                                            *)

ReadLink(w, i) ==
  /\ kind = "link" /\ i \in mail /\ Open(i) /\ ~ row[i].expired
  /\ Begin(w, [Idle EXCEPT !.pc = "exchange", !.id = i])
  /\ UNCHANGED <<kind, last, row, mail, session, faults, ghosts>>

LinkOpen(i) == Open(i)

ExchangeLink(w) ==
  LET i == p[w].id
  IN /\ p[w].pc = "exchange" /\ End(w)
     /\ IF LinkOpen(i)
        THEN /\ row' = [row EXCEPT ![i].st = "consumed"]
             /\ session' = [session EXCEPT ![i] = "live"] /\ Granted(i)
        ELSE UNCHANGED <<row, session, granted>>
     /\ UNCHANGED <<kind, last, mail, faults, guesses>>

(* consumeRecoveryStepUp: a session lets one recovery request pass. *)
UseSession(i) ==
  /\ session[i] = "live" /\ session' = [session EXCEPT ![i] = "used"]
  /\ UNCHANGED <<kind, last, row, mail, p, faults, ghosts>>

----------------------------------------------------------------------------
(* A registration is finalized with the credential the browser created.      *)
(* Repeating the finalization with the same credential returns the row.      *)

ReadRegistration(w, i, c) ==
  /\ kind = "register" /\ Open(i) /\ row[i].claim = None
  /\ ~ row[i].expired /\ row[i].tries < MaxTries
  /\ Begin(w, [Idle EXCEPT !.pc = "regclaim", !.id = i, !.cred = c])
  /\ UNCHANGED <<kind, last, row, mail, session, faults, ghosts>>

ClaimRegistration(w) ==
  LET i == p[w].id
  IN /\ p[w].pc = "regclaim"
     /\ IF MayTry(i)
        THEN /\ row' = [row EXCEPT ![i].claim = w, ![i].tries = @ + 1]
             /\ guesses' = [guesses EXCEPT ![i] = @ + 1]
             /\ Goto(w, "verify")
        ELSE End(w) /\ UNCHANGED <<row, guesses>>
     /\ UNCHANGED <<kind, last, mail, session, faults, granted>>

(* verifyCredentialResponse: the attestation holds for this challenge or not. *)
FinalizeRegistration(w) ==
  LET i == p[w].id
  IN /\ p[w].pc = "verify"
     /\ \/ /\ StillMine(w)
           /\ row' = [row EXCEPT ![i].st = "consumed", ![i].cred = p[w].cred]
           /\ Granted(i) /\ End(w)
        \/ Goto(w, "release") /\ UNCHANGED <<row, granted>>
     /\ UNCHANGED <<kind, last, mail, session, faults, guesses>>

----------------------------------------------------------------------------
(* An assertion consumes its challenge before it is verified. *)

ReadAssertion(w, i) ==
  /\ kind = "assert" /\ Open(i) /\ ~ row[i].expired
  /\ Begin(w, [Idle EXCEPT !.pc = "assert", !.id = i])
  /\ UNCHANGED <<kind, last, row, mail, session, faults, ghosts>>

(* The passkey may be revoked, of another user, or the signature wrong. *)
VerifyAssertion(w) ==
  LET i == p[w].id
  IN /\ p[w].pc = "assert" /\ End(w)
     /\ IF Open(i)
        THEN /\ row' = [row EXCEPT ![i].st = "consumed"]
             /\ Granted(i) \/ UNCHANGED granted
        ELSE UNCHANGED <<row, granted>>
     /\ UNCHANGED <<kind, last, mail, session, faults, guesses>>

----------------------------------------------------------------------------
Expire(i) ==
  /\ Open(i) /\ ~ row[i].expired /\ row' = [row EXCEPT ![i].expired = TRUE]
  /\ UNCHANGED <<kind, last, mail, session, p, faults, ghosts>>

(* deleteExpiredEmailCodes and its likes, a day after a row expired. *)
DeleteExpired(i) ==
  /\ row[i].expired /\ row[i].st \in {"open", "consumed"}
  /\ \A w \in Requests : p[w].id # i
  /\ row' = [row EXCEPT ![i].st = "deleted"]
  /\ UNCHANGED <<kind, last, mail, session, p, faults, ghosts>>

(* A claim of a dead invocation belongs to nobody. *)
Crash(w) ==
  /\ p[w].pc # "idle" /\ faults < MaxFaults /\ faults' = faults + 1 /\ End(w)
  /\ row' = [i \in Rows |-> IF row[i].claim = w THEN [row[i] EXCEPT !.claim = Lost] ELSE row[i]]
  /\ UNCHANGED <<kind, last, mail, session, ghosts>>

Next ==
  \/ \E w \in Requests :
       \/ RequestEmailCode(w) \/ RequestStepUpCode(w) \/ RequestStepUpLink(w)
       \/ RegistrationPreflight(w) \/ AvailabilityPreflight(w)
       \/ InsertMailed(w) \/ InsertRegistration(w) \/ InsertAssertion(w) \/ Send(w) \/ Undo(w) \/ Retire(w)
       \/ \E right \in BOOLEAN : VerifyEmailCode(w, right) \/ VerifyStepUpCode(w, right)
       \/ Reserve(w) \/ ClaimCode(w) \/ Firebase(w) \/ ConsumeCode(w) \/ StepUp(w) \/ Release(w)
       \/ ExchangeLink(w) \/ ClaimRegistration(w) \/ FinalizeRegistration(w) \/ VerifyAssertion(w)
       \/ \E i \in Rows : ReadLink(w, i) \/ ReadAssertion(w, i)
                           \/ \E c \in Credentials : ReadRegistration(w, i, c)
       \/ Crash(w)
  \/ \E i \in Rows : UseSession(i) \/ Expire(i) \/ DeleteExpired(i)

Spec == Init /\ [][Next]_vars

----------------------------------------------------------------------------
(* The state keeps its types. *)
TypeOK ==
  /\ kind \in Kinds /\ last \in 0..MaxRows /\ mail \subseteq Rows /\ faults \in 0..MaxFaults
  /\ \A i \in Rows : /\ row[i].st \in {"none", "open", "consumed", "deleted"}
                     /\ row[i].claim \in Requests \cup {None, Lost}
                     /\ row[i].cred \in Credentials \cup {None}

(* A challenge is answered once: however many requests carry the same code,  *)
(* link, attestation or assertion, and whatever dies or is released and      *)
(* tried again, one of them signs in, opens a session or is accepted.        *)
AnsweredOnce == \A i \in Rows : granted[i] <= 1

(* A code can be guessed MAX_ATTEMPTS times and no more, even by requests    *)
(* that all read the row before any of them wrote it.                        *)
GuessesAreBounded == \A i \in Rows : guesses[i] <= MaxTries

(* "deleting the new row leaves the previous code usable instead of locking  *)
(* the user out": with no request under way the last mail that was sent is   *)
(* answerable until it expires, runs out of tries or was answered, whatever  *)
(* other deliveries failed or overtook it.  A failed clean-up or a dead      *)
(* invocation breaks it: the row nobody was sent hides the one that was.     *)
LastMailWorks ==
  (kind \in Mailed /\ faults = 0 /\ \A w \in Requests : p[w].pc = "idle") =>
    \A i \in mail : (\A j \in mail : j <= i) =>
       Newest(i) \/ (row[i].st = "deleted" /\ row[i].expired) \/ granted[i] = 1
=============================================================================
