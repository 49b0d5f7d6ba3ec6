----------------------------- MODULE HomeClient -----------------------------
(***************************************************************************)
(* The home of one browser tab: the account gate of App.tsx, the record of *)
(* each user in IndexedDB, the one SWR entry that every page reads, and    *)
(* the conditional request GET /home answers from the version of a user's  *)
(* state.  Requests of the gate and of the page overlap, the user of the   *)
(* tab changes under them, and a version is raised at any time.            *)
(*                                                                         *)
(* A model is its owner and the version it was read at; an ETag is the     *)
(* version it was computed from.                                           *)
(***************************************************************************)
EXTENDS Naturals, FiniteSets

CONSTANTS Users,
          Ids,         \* requests the tab may have at once
          MaxVersion,  \* bound: changes of one user's state
          MaxAuth,     \* bound: changes of the signed-in user
          MaxFaults,   \* bound: requests that fail
          None

\* Nobody is no user, no request, and no model or record of a user.
ASSUME ConstantsAssumption ==
  None \notin Users \cup Ids \cup [uid : Users, ver : Nat] \cup [uid : Users, ver : Nat, etag : Nat]

VARIABLES version,   \* home_state_versions, by user
          auth,      \* the user of the tab, or None
          gate,      \* "launch", "open" or "failed": loading and hasWallet
          current,   \* walletCheckRunRef: the request of the running check
          entry,     \* the SWR entry: a model, or None
          latest,    \* the SWR request whose answer is still wanted
          db,        \* IndexedDB, by user: model and ETag, or None
          ref,       \* cacheRef of the mounted Home
          req,       \* the requests under way
          leaving,   \* logOut cleared the record and signs out
          auths, faults

tab == <<auth, gate, current, entry, latest, ref, leaving>>
homeVars == <<version, tab, db, req, auths, faults>>

Idle == [pc |-> "idle", kind |-> "swr", uid |-> None, cached |-> None, etag |-> 0, ver |-> 0]
Record(u, v, e) == [uid |-> u, ver |-> v, etag |-> e]
Model(r) == [uid |-> r.uid, ver |-> r.ver]

Init ==
  /\ version = [u \in Users |-> 1] /\ auth = None /\ gate = "launch" /\ current = None
  /\ entry = None /\ latest = None /\ db = [u \in Users |-> None] /\ ref = None
  /\ req = [i \in Ids |-> Idle] /\ leaving = FALSE /\ auths = 0 /\ faults = 0

----------------------------------------------------------------------------
(* The server *)

\* A trigger raises the version of a user's state.
StateChanges(u) ==
  /\ version[u] < MaxVersion /\ version' = [version EXCEPT ![u] = @ + 1]
  /\ UNCHANGED <<tab, db, req, auths, faults>>

\* GET /home computes the ETag first.
TagHome(i) ==
  /\ req[i].pc = "sent"
  /\ req' = [req EXCEPT ![i].pc = "tagged", ![i].etag = version[req[i].uid]]
  /\ UNCHANGED <<version, tab, db, auths, faults>>

\* If-None-Match names the ETag and the balances are fresh.
NotModified(i) == req[i].cached # None /\ req[i].cached.etag = req[i].etag

VariantTagLast(i) ==
  /\ req[i].pc = "tagged"
  /\ \/ /\ NotModified(i)
        /\ req' = [req EXCEPT ![i].pc = "answered", ![i].ver = req[i].cached.ver]
     \/ req' = [req EXCEPT ![i].pc = "answered", ![i].ver = req[i].etag,
                                    ![i].etag = version[req[i].uid]]
  /\ UNCHANGED <<version, tab, db, auths, faults>>

\* 304, or the model as it is by now: it may be newer than the ETag.
ReadHomeModel(i) ==
  /\ req[i].pc = "tagged"
  /\ \/ /\ NotModified(i)
        /\ req' = [req EXCEPT ![i].pc = "answered", ![i].ver = req[i].cached.ver]
     \/ req' = [req EXCEPT ![i].pc = "answered", ![i].ver = version[req[i].uid]]
  /\ UNCHANGED <<version, tab, db, auths, faults>>

----------------------------------------------------------------------------
(* The account gate *)

StartCheck(i, u) == req' = [req EXCEPT ![i] = [Idle EXCEPT !.pc = "load", !.kind = "check", !.uid = u]]

\* onAuthChange: whoever was signed in, the running check is abandoned.
OnAuthChange(u) ==
  /\ u # auth /\ auths < MaxAuth /\ auths' = auths + 1
  /\ auth' = u /\ gate' = "launch" /\ ref' = None /\ leaving' = FALSE
  /\ IF u = None THEN current' = None /\ UNCHANGED req
     ELSE \E i \in Ids : req[i].pc = "idle" /\ StartCheck(i, u) /\ current' = i
  /\ UNCHANGED <<version, entry, latest, db, faults>>

\* The launch screen's retry.
RetryCheck(i) ==
  /\ gate = "failed" /\ auth # None /\ req[i].pc = "idle"
  /\ StartCheck(i, auth) /\ current' = i /\ gate' = "launch"
  /\ UNCHANGED <<version, auth, entry, latest, db, ref, leaving, auths, faults>>

VariantAnyRun(i) == TRUE
\* A check that is no longer the last one leaves the tab alone.
RunIsCurrent(i) == current = i

\* A record of the user opens the gate at once, and the request follows.
CheckLoadsCache(i) ==
  LET record == db[req[i].uid] IN
  /\ req[i].pc = "load"
  /\ IF ~ RunIsCurrent(i) THEN req' = [req EXCEPT ![i] = Idle] /\ UNCHANGED <<gate, entry, latest>>
     ELSE /\ req' = [req EXCEPT ![i].pc = "sent", ![i].cached = record]
          /\ IF record = None THEN UNCHANGED <<gate, entry, latest>>
             ELSE gate' = "open" /\ entry' = Model(record) /\ latest' = None
  /\ UNCHANGED <<version, auth, current, db, ref, leaving, auths, faults>>

\* The answer is saved and seeds the entry; a model of somebody else is refused.
CheckAnswered(i) ==
  /\ req[i].pc = "answered" /\ req[i].kind = "check" /\ req' = [req EXCEPT ![i] = Idle]
  /\ IF ~ RunIsCurrent(i) THEN UNCHANGED <<gate, entry, latest, db>>
     ELSE /\ db' = [db EXCEPT ![req[i].uid] = Record(req[i].uid, req[i].ver, req[i].etag)]
          /\ entry' = Model(req[i]) /\ latest' = None /\ gate' = "open"
  /\ UNCHANGED <<version, auth, current, ref, leaving, auths, faults>>

\* A failed check keeps a tab that a record opened; Home refreshes later.
RequestFails(i) ==
  /\ req[i].pc \in {"sent", "tagged"} /\ faults < MaxFaults /\ faults' = faults + 1
  /\ req' = [req EXCEPT ![i] = Idle]
  /\ gate' = IF req[i].kind = "check" /\ RunIsCurrent(i) /\ req[i].cached = None THEN "failed" ELSE gate
  /\ UNCHANGED <<version, auth, current, entry, latest, db, ref, leaving, auths>>

\* logOut deletes the user's record before Firebase signs out.
LogOut ==
  /\ auth # None /\ ~ leaving /\ auths < MaxAuth /\ leaving' = TRUE
  /\ db' = [db EXCEPT ![auth] = None]
  /\ UNCHANGED <<version, auth, gate, current, entry, latest, ref, req, auths, faults>>

----------------------------------------------------------------------------
(* Home *)

Mounted == gate = "open" /\ auth # None

\* The effect of a mounted Home reads the record.
LoadHomeCache ==
  /\ Mounted /\ db[auth] # None /\ ref # db[auth] /\ ref' = db[auth]
  /\ UNCHANGED <<version, auth, gate, current, entry, latest, db, req, leaving, auths, faults>>

\* An invalidation or the timer: a request with the ETag Home holds.
RefreshHome(i) ==
  /\ Mounted /\ req[i].pc = "idle" /\ \A j \in Ids : req[j].kind = "swr" => req[j].pc = "idle"
  /\ req' = [req EXCEPT ![i] = [Idle EXCEPT !.pc = "sent", !.uid = auth, !.cached = ref]]
  /\ latest' = i
  /\ UNCHANGED <<version, auth, gate, current, entry, db, ref, leaving, auths, faults>>

\* A push reaches the service worker, which tells every window.
Invalidated(i) == RefreshHome(i)

\* The record is kept whatever happens; SWR drops an answer whose request was
\* overtaken by a later one or by a seed.
HomeAnswered(i) ==
  LET record == Record(req[i].uid, req[i].ver, req[i].etag) IN
  /\ req[i].pc = "answered" /\ req[i].kind = "swr" /\ req' = [req EXCEPT ![i] = Idle]
  /\ db' = [db EXCEPT ![req[i].uid] = record]
  /\ ref' = IF Mounted /\ req[i].uid = auth THEN record ELSE ref
  /\ IF latest = i THEN entry' = Model(record) /\ latest' = None ELSE UNCHANGED <<entry, latest>>
  /\ UNCHANGED <<version, auth, gate, current, leaving, auths, faults>>

----------------------------------------------------------------------------
Step(i) == CheckLoadsCache(i) \/ TagHome(i) \/ ReadHomeModel(i) \/ CheckAnswered(i) \/ HomeAnswered(i)
Refresh == \E i \in Ids : RefreshHome(i)
Retry == \E i \in Ids : RetryCheck(i)

Next ==
  \/ \E u \in Users : StateChanges(u)
  \/ \E u \in Users \cup {None} : OnAuthChange(u)
  \/ LogOut \/ LoadHomeCache \/ Retry
  \/ \E i \in Ids : Step(i) \/ RequestFails(i) \/ Invalidated(i)

Spec == Init /\ [][Next]_homeVars

\* Requests are answered or fail, the timer of a visible tab goes off and its
\* user presses retry.
LiveSpec ==
  /\ Spec /\ WF_homeVars(Refresh) /\ WF_homeVars(Retry) /\ WF_homeVars(LoadHomeCache)
  /\ \A i \in Ids : WF_homeVars(Step(i))

----------------------------------------------------------------------------
\* A tab that shows its pages shows them the model of the user who is signed
\* in, though a request of an earlier user is answered late and all users share
\* one SWR entry (checkWallet, useHomeModel).
ShownIsOwn == Mounted => entry # None /\ entry.uid = auth

\* A tab that stays with its user comes to show the version that is stored and
\* keeps it: no ETag it holds lets the server answer "not modified" to a model
\* that is older (GET /home, fetchHomeModel).
HomeCatchesUp ==
  \A u \in Users : <>[](auth = u) => <>[](Mounted /\ entry.ver = version[u])

\* After a user logs out nothing of theirs is left in the browser.
LoggedOutIsForgotten ==
  \A u \in Users : auth # u /\ (\A i \in Ids : req[i].uid # u) /\ auths > 0 => db[u] = None
=============================================================================
