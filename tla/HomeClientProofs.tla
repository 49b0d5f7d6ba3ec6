-------------------------- MODULE HomeClientProofs --------------------------
(***************************************************************************)
(* A tab never shows a model that is not its user's: proofs about          *)
(* HomeClient for every set of users and of requests and every bound.      *)
(***************************************************************************)
EXTENDS HomeClient, TLAPS

Models == [uid : Users, ver : Nat]
Records == [uid : Users, ver : Nat, etag : Nat]
Request == [pc : {"idle", "load", "sent", "tagged", "answered"}, kind : {"swr", "check"},
            uid : Users \cup {None}, cached : Records \cup {None}, etag : Nat, ver : Nat]

TypeInv ==
    /\ version \in [Users -> Nat] /\ auth \in Users \cup {None}
    /\ gate \in {"launch", "open", "failed"}
    /\ current \in Ids \cup {None} /\ latest \in Ids \cup {None}
    /\ entry \in Models \cup {None}
    /\ db \in [Users -> Records \cup {None}] /\ ref \in Records \cup {None}
    /\ req \in [Ids -> Request]

\* A request under way is somebody's, and a record is kept under its owner.
RequestsHaveOwners == \A i \in Ids : req[i].pc # "idle" => req[i].uid \in Users
RecordsAreOwn == \A u \in Users : db[u] # None => db[u].uid = u

\* Only a check loads the record of its user.
ChecksLoad == \A i \in Ids : req[i].pc = "load" => req[i].kind = "check"

\* The check whose answer is wanted is of the user of the tab, though the slot
\* may be an SWR request's by now.
CheckIsOwn ==
    \A i \in Ids : current = i /\ req[i].pc # "idle" /\ req[i].kind = "check" => req[i].uid = auth

\* Behind an open gate the answer SWR waits for is the user's: an earlier
\* user's request was overtaken by the seed that opened the gate.
LatestIsOwn ==
    \A i \in Ids : Mounted /\ latest = i /\ req[i].pc # "idle" /\ req[i].kind = "swr"
                   => req[i].uid = auth

HomeInv ==
    /\ TypeInv /\ RequestsHaveOwners /\ RecordsAreOwn /\ ChecksLoad
    /\ CheckIsOwn /\ LatestIsOwn /\ ShownIsOwn

\* What an operation may do to its request: it starts, advances or ends, and
\* the owner and the kind of one that goes on are what they were.
Advances(i) ==
    /\ req[i].pc # "idle" /\ req' = [req EXCEPT ![i] = req'[i]]
    /\ req'[i] \in Request /\ req'[i].pc \notin {"idle", "load"}
    /\ req'[i].uid = req[i].uid /\ req'[i].kind = req[i].kind
Ends(i) == req' = [req EXCEPT ![i] = Idle]

\* Nobody is told from users, models and records.
LEMMA NoneIsNobody == None \notin Users /\ None \notin Ids /\ None \notin Models /\ None \notin Records
BY ConstantsAssumption DEF Models, Records

\* The first state is typed and shows nothing.
LEMMA InitHome == Init => HomeInv
BY NoneIsNobody DEF Init, HomeInv, TypeInv, RequestsHaveOwners, RecordsAreOwn, ChecksLoad,
    CheckIsOwn, LatestIsOwn, ShownIsOwn, Mounted, Idle, Request, Models, Records

\* The server's answer keeps the request, its owner and its kind.
LEMMA ServerAdvances ==
    ASSUME HomeInv, NEW i \in Ids, TagHome(i) \/ ReadHomeModel(i)
    PROVE  Advances(i) /\ UNCHANGED <<version, tab, db>>
<1>1. req[i] \in Request /\ req[i].pc # "idle" /\ req[i].uid \in Users
  BY DEF HomeInv, TypeInv, RequestsHaveOwners, TagHome, ReadHomeModel
<1>2. version[req[i].uid] \in Nat
  BY <1>1 DEF HomeInv, TypeInv
<1>3. CASE TagHome(i)
  <2>1. req' = [req EXCEPT ![i] = [req[i] EXCEPT !.pc = "tagged", !.etag = version[req[i].uid]]]
    BY <1>3 DEF TagHome
  <2>2. [req[i] EXCEPT !.pc = "tagged", !.etag = version[req[i].uid]] \in Request
    BY <1>1, <1>2 DEF Request
  <2> QED BY <2>1, <2>2, <1>1, <1>3 DEF TagHome, Advances, Request, HomeInv, TypeInv
<1>4. CASE ReadHomeModel(i)
  <2>1. PICK v \in Nat : req' = [req EXCEPT ![i] = [req[i] EXCEPT !.pc = "answered", !.ver = v]]
    <3>1. CASE NotModified(i) /\ req' = [req EXCEPT ![i].pc = "answered", ![i].ver = req[i].cached.ver]
      <4>1. req[i].cached.ver \in Nat
        BY <1>1, <3>1 DEF NotModified, Request, Records
      <4> QED BY <4>1, <3>1
    <3>2. CASE req' = [req EXCEPT ![i].pc = "answered", ![i].ver = version[req[i].uid]]
      BY <1>2, <3>2
    <3> QED BY <3>1, <3>2, <1>4 DEF ReadHomeModel
  <2>2. [req[i] EXCEPT !.pc = "answered", !.ver = v] \in Request
    BY <1>1 DEF Request
  <2> QED BY <2>1, <2>2, <1>1, <1>4 DEF ReadHomeModel, Advances, Request, HomeInv, TypeInv
<1> QED BY <1>3, <1>4

\* Model and record of an answered request are of its user, and are something.
LEMMA AnswerIsOwners ==
    ASSUME HomeInv, NEW i \in Ids, req[i].pc # "idle"
    PROVE  /\ req[i] \in Request /\ req[i].uid \in Users
           /\ Model(req[i]) \in Models /\ Model(req[i]) # None /\ Model(req[i]).uid = req[i].uid
           /\ Record(req[i].uid, req[i].ver, req[i].etag) \in Records
           /\ Record(req[i].uid, req[i].ver, req[i].etag) # None
           /\ Record(req[i].uid, req[i].ver, req[i].etag).uid = req[i].uid
           /\ Model(Record(req[i].uid, req[i].ver, req[i].etag)) = Model(req[i])
<1>1. req[i] \in Request /\ req[i].uid \in Users
  BY DEF HomeInv, TypeInv, RequestsHaveOwners
<1>2. req[i].ver \in Nat /\ req[i].etag \in Nat
  BY <1>1 DEF Request
<1> QED BY <1>1, <1>2, NoneIsNobody DEF Models, Records, Model, Record

\* A new request is typed.
LEMMA StartIsTyped ==
    ASSUME NEW u \in Users, NEW r \in Records \cup {None}
    PROVE  /\ [Idle EXCEPT !.pc = "load", !.kind = "check", !.uid = u] \in Request
           /\ [Idle EXCEPT !.pc = "sent", !.uid = u, !.cached = r] \in Request
           /\ Idle \in Request /\ Idle.pc = "idle"
BY DEF Idle, Request

\* Answers of the server leave the tab as it is.
LEMMA AdvanceKeeps ==
    ASSUME HomeInv, NEW i \in Ids, Advances(i), UNCHANGED <<version, tab, db>>
    PROVE  HomeInv'
BY DEF HomeInv, TypeInv, RequestsHaveOwners, RecordsAreOwn, ChecksLoad, CheckIsOwn, LatestIsOwn,
    ShownIsOwn, Mounted, Advances, tab

\* A request that ends leaves nothing to answer; the tab may be closed by it.
LEMMA EndKeeps ==
    ASSUME HomeInv, NEW i \in Ids, Ends(i), gate' \in {gate, "failed"},
           UNCHANGED <<version, auth, current, entry, latest, db, ref>>
    PROVE  HomeInv'
<1>1. Idle \in Request /\ Idle.pc = "idle"
  BY DEF Idle, Request
<1> QED BY <1>1 DEF HomeInv, TypeInv, RequestsHaveOwners, RecordsAreOwn, ChecksLoad, CheckIsOwn,
    LatestIsOwn, ShownIsOwn, Mounted, Ends

\* Steps that touch neither a request nor what is shown.
LEMMA RecordsKeep ==
    ASSUME HomeInv, \/ \E u \in Users : StateChanges(u)
                    \/ LogOut \/ LoadHomeCache
    PROVE  HomeInv'
<1>1. ASSUME NEW u \in Users, StateChanges(u) PROVE HomeInv'
  <2>1. version' \in [Users -> Nat]
    BY <1>1 DEF StateChanges, HomeInv, TypeInv
  <2> QED BY <1>1, <2>1 DEF StateChanges, HomeInv, TypeInv, RequestsHaveOwners, RecordsAreOwn,
        ChecksLoad, CheckIsOwn, LatestIsOwn, ShownIsOwn, Mounted, tab
<1>2. CASE LogOut
  <2>1. db' \in [Users -> Records \cup {None}] /\ RecordsAreOwn'
    BY <1>2 DEF LogOut, HomeInv, TypeInv, RecordsAreOwn
  <2> QED BY <1>2, <2>1 DEF LogOut, HomeInv, TypeInv, RequestsHaveOwners, ChecksLoad, CheckIsOwn,
        LatestIsOwn, ShownIsOwn, Mounted
<1>3. CASE LoadHomeCache
  <2>1. ref' \in Records \cup {None}
    BY <1>3 DEF LoadHomeCache, Mounted, HomeInv, TypeInv
  <2> QED BY <1>3, <2>1 DEF LoadHomeCache, HomeInv, TypeInv, RequestsHaveOwners, RecordsAreOwn,
        ChecksLoad, CheckIsOwn, LatestIsOwn, ShownIsOwn, Mounted
<1> QED BY <1>1, <1>2, <1>3

\* Another user signs in, or presses retry: the gate shuts, and the new check
\* is of that user.
LEMMA GateShuts ==
    ASSUME HomeInv, NEW i \in Ids,
           \/ \E u \in Users : OnAuthChange(u) /\ StartCheck(i, u) /\ current' = i
           \/ RetryCheck(i)
    PROVE  HomeInv'
<1>1. PICK u \in Users :
        /\ auth' = u /\ gate' = "launch" /\ current' = i /\ StartCheck(i, u)
        /\ ref' \in {ref, None} /\ UNCHANGED <<version, entry, latest, db>>
  BY DEF RetryCheck, OnAuthChange, HomeInv, TypeInv
<1>2. /\ req' \in [Ids -> Request] /\ req'[i].uid = u /\ req'[i].pc = "load"
      /\ req'[i].kind = "check" /\ \A j \in Ids : j # i => req'[j] = req[j]
  <2>1. req' = [req EXCEPT ![i] = [Idle EXCEPT !.pc = "load", !.kind = "check", !.uid = u]]
    BY <1>1 DEF StartCheck
  <2>2. [Idle EXCEPT !.pc = "load", !.kind = "check", !.uid = u] \in Request
    BY DEF Idle, Request
  <2> QED BY <2>1, <2>2 DEF HomeInv, TypeInv, Idle
<1> QED BY <1>1, <1>2 DEF HomeInv, TypeInv, RequestsHaveOwners, RecordsAreOwn, ChecksLoad,
      CheckIsOwn, LatestIsOwn, ShownIsOwn, Mounted

\* The user signs out: nothing is shown and no check is wanted.
LEMMA SignOutKeeps ==
    ASSUME HomeInv, OnAuthChange(None)
    PROVE  HomeInv'
BY NoneIsNobody DEF OnAuthChange, HomeInv, TypeInv, RequestsHaveOwners, RecordsAreOwn,
    ChecksLoad, CheckIsOwn, LatestIsOwn, ShownIsOwn, Mounted

\* The record a check loads is of the user of the tab, and the gate it opens
\* shows it.
LEMMA CacheOpens ==
    ASSUME HomeInv, NEW i \in Ids, CheckLoadsCache(i)
    PROVE  HomeInv'
<1> DEFINE record == db[req[i].uid]
<1>1. /\ req[i] \in Request /\ req[i].pc = "load" /\ req[i].kind = "check" /\ req[i].uid \in Users
  BY DEF HomeInv, TypeInv, RequestsHaveOwners, ChecksLoad, CheckLoadsCache
<1>2. record \in Records \cup {None} /\ (record # None => record.uid = req[i].uid)
  BY <1>1 DEF HomeInv, TypeInv, RecordsAreOwn
<1>3. CASE ~ RunIsCurrent(i)
  BY <1>3, EndKeeps DEF CheckLoadsCache, Ends
<1>4. CASE RunIsCurrent(i)
  <2>1. req' = [req EXCEPT ![i] = [req[i] EXCEPT !.pc = "sent", !.cached = record]]
    BY <1>4 DEF CheckLoadsCache
  <2>2. [req[i] EXCEPT !.pc = "sent", !.cached = record] \in Request
    BY <1>1, <1>2 DEF Request
  <2>3. Advances(i)
    BY <2>1, <2>2, <1>1 DEF Advances, Request, HomeInv, TypeInv
  <2>4. CASE record = None
    BY <2>3, <2>4, <1>4, AdvanceKeeps DEF CheckLoadsCache, tab
  <2>5. CASE record # None
    <3>1. Model(record) \in Models /\ Model(record) # None /\ Model(record).uid = req[i].uid
      BY <1>2, <2>5, NoneIsNobody DEF Model, Models, Records
    <3>2. req[i].uid = auth
      BY <1>1, <1>4 DEF HomeInv, CheckIsOwn, RunIsCurrent
    <3>3. gate' = "open" /\ entry' = Model(record) /\ latest' = None
      BY <1>4, <2>5 DEF CheckLoadsCache
    <3> QED BY <3>1, <3>2, <3>3, <2>3, NoneIsNobody DEF CheckLoadsCache, HomeInv, TypeInv,
          RequestsHaveOwners, RecordsAreOwn, ChecksLoad, CheckIsOwn, LatestIsOwn, ShownIsOwn,
          Mounted, Advances
  <2> QED BY <2>4, <2>5
<1> QED BY <1>3, <1>4

\* The answer of the running check is of the user of the tab.
LEMMA CheckOpens ==
    ASSUME HomeInv, NEW i \in Ids, CheckAnswered(i)
    PROVE  HomeInv'
<1>1. req[i].pc # "idle" /\ req[i].kind = "check" /\ Ends(i)
  BY DEF CheckAnswered, Ends
<1>2. CASE ~ RunIsCurrent(i)
  BY <1>1, <1>2, EndKeeps DEF CheckAnswered
<1>3. CASE RunIsCurrent(i)
  <2> DEFINE record == Record(req[i].uid, req[i].ver, req[i].etag)
  <2>1. /\ req[i].uid \in Users /\ Model(req[i]) \in Models /\ Model(req[i]) # None
        /\ Model(req[i]).uid = req[i].uid
        /\ record \in Records /\ record.uid = req[i].uid
    BY <1>1, AnswerIsOwners
  <2>2. req[i].uid = auth
    BY <1>1, <1>3 DEF HomeInv, CheckIsOwn, RunIsCurrent
  <2>3. /\ db' = [db EXCEPT ![req[i].uid] = record]
        /\ entry' = Model(req[i]) /\ latest' = None /\ gate' = "open"
    BY <1>3 DEF CheckAnswered
  <2>4. db' \in [Users -> Records \cup {None}] /\ RecordsAreOwn'
    BY <2>1, <2>3 DEF HomeInv, TypeInv, RecordsAreOwn
  <2>5. Idle \in Request /\ Idle.pc = "idle"
    BY DEF Idle, Request
  <2> HIDE DEF record
  <2> QED BY <2>1, <2>2, <2>3, <2>4, <2>5, <1>1, NoneIsNobody DEF CheckAnswered, HomeInv, TypeInv,
        RequestsHaveOwners, ChecksLoad, CheckIsOwn, LatestIsOwn, ShownIsOwn, Mounted, Ends
<1> QED BY <1>2, <1>3

\* A mounted Home asks for its own user.
LEMMA RefreshKeeps ==
    ASSUME HomeInv, NEW i \in Ids, RefreshHome(i)
    PROVE  HomeInv'
<1>1. auth \in Users /\ ref \in Records \cup {None}
  BY DEF RefreshHome, Mounted, HomeInv, TypeInv
<1>2. /\ req' \in [Ids -> Request] /\ req'[i].uid = auth /\ req'[i].pc = "sent"
      /\ req'[i].kind = "swr" /\ \A j \in Ids : j # i => req'[j] = req[j]
  <2>1. req' = [req EXCEPT ![i] = [Idle EXCEPT !.pc = "sent", !.uid = auth, !.cached = ref]]
    BY DEF RefreshHome
  <2>2. [Idle EXCEPT !.pc = "sent", !.uid = auth, !.cached = ref] \in Request
    BY <1>1 DEF Idle, Request
  <2> QED BY <2>1, <2>2 DEF HomeInv, TypeInv, Idle
<1> QED BY <1>1, <1>2 DEF RefreshHome, HomeInv, TypeInv, RequestsHaveOwners, RecordsAreOwn,
      ChecksLoad, CheckIsOwn, LatestIsOwn, ShownIsOwn, Mounted

\* An answer SWR still waits for is of the user whose Home is mounted; one of
\* an earlier user only changes that user's record.
LEMMA AnswerKeeps ==
    ASSUME HomeInv, NEW i \in Ids, HomeAnswered(i)
    PROVE  HomeInv'
<1> DEFINE record == Record(req[i].uid, req[i].ver, req[i].etag)
<1>1. req[i].pc # "idle" /\ req[i].kind = "swr" /\ Ends(i)
  BY DEF HomeAnswered, Ends
<1>2. /\ req[i].uid \in Users /\ Model(record) \in Models /\ Model(record) # None
      /\ Model(record).uid = req[i].uid
      /\ record \in Records /\ record.uid = req[i].uid
  BY <1>1, AnswerIsOwners
<1>3. /\ db' = [db EXCEPT ![req[i].uid] = record]
      /\ ref' \in {ref, record}
      /\ \/ latest = i /\ entry' = Model(record) /\ latest' = None
         \/ latest # i /\ UNCHANGED <<entry, latest>>
      /\ UNCHANGED <<version, auth, gate, current>>
  BY DEF HomeAnswered
<1>4. db' \in [Users -> Records \cup {None}] /\ RecordsAreOwn' /\ ref' \in Records \cup {None}
  BY <1>2, <1>3 DEF HomeInv, TypeInv, RecordsAreOwn
<1>5. Idle \in Request /\ Idle.pc = "idle"
  BY DEF Idle, Request
<1>6. Mounted /\ latest = i => req[i].uid = auth
  BY <1>1 DEF HomeInv, LatestIsOwn
<1> HIDE DEF record
<1> QED BY <1>1, <1>2, <1>3, <1>4, <1>5, <1>6, NoneIsNobody DEF HomeInv, TypeInv,
      RequestsHaveOwners, ChecksLoad, CheckIsOwn, LatestIsOwn, ShownIsOwn, Mounted, Ends

\* Every step of the tab, the server and the users keeps the invariant.
LEMMA NextHome == HomeInv /\ [Next]_homeVars => HomeInv'
<1> SUFFICES ASSUME HomeInv, [Next]_homeVars PROVE HomeInv'
  OBVIOUS
<1>1. CASE (\E u \in Users : StateChanges(u)) \/ LogOut \/ LoadHomeCache
  BY <1>1, RecordsKeep
<1>2. ASSUME NEW u \in Users \cup {None}, OnAuthChange(u) PROVE HomeInv'
  <2>1. CASE u = None
    BY <1>2, <2>1, SignOutKeeps
  <2>2. CASE u # None
    BY <1>2, <2>2, GateShuts DEF OnAuthChange
  <2> QED BY <2>1, <2>2
<1>3. ASSUME NEW i \in Ids, RetryCheck(i) PROVE HomeInv'
  BY <1>3, GateShuts
<1>4. ASSUME NEW i \in Ids, Step(i) \/ RequestFails(i) \/ Invalidated(i) PROVE HomeInv'
  <2>1. CASE TagHome(i) \/ ReadHomeModel(i)
    BY <2>1, ServerAdvances, AdvanceKeeps
  <2>2. CASE RequestFails(i)
    BY <2>2, EndKeeps DEF RequestFails, Ends
  <2> QED BY <1>4, <2>1, <2>2, CacheOpens, CheckOpens, AnswerKeeps, RefreshKeeps DEF Step, Invalidated
<1>5. CASE UNCHANGED homeVars
  BY <1>5 DEF homeVars, tab, HomeInv, TypeInv, RequestsHaveOwners, RecordsAreOwn, ChecksLoad,
    CheckIsOwn, LatestIsOwn, ShownIsOwn, Mounted
<1> QED BY <1>1, <1>2, <1>3, <1>4, <1>5 DEF Next, Retry

\* A tab that shows its pages shows them the model of the user who is signed
\* in, however many users and requests share the one SWR entry and whichever of
\* them is answered late (checkWallet, useHomeModel).
THEOREM ShownCorrect == Spec => []ShownIsOwn
<1>1. HomeInv => ShownIsOwn
  BY DEF HomeInv
<1> QED BY InitHome, NextHome, <1>1, PTL DEF Spec

=============================================================================
