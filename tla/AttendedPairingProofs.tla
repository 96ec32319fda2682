----------------------- MODULE AttendedPairingProofs -----------------------
(***************************************************************************)
(* Consent, authorization and access of the pairing handshake, for every   *)
(* set of requests, unique ids, certificates and adapters, any number of   *)
(* acts of consent and any interleaving of the three servers.              *)
(*                                                                         *)
(* ConsentInv charges a PIN with the authorizations it gave, the sessions  *)
(* whose cipher key it made and the one-time PIN that is still out: never  *)
(* more than were handed over.  ReviewInv ties a request to what was       *)
(* reviewed and to the devices authorized through it.                      *)
(***************************************************************************)
EXTENDS AttendedPairing, PairingServiceProofs

Inflight == [uid : Uids, request : Requests, gen : Nat]

SessionsInv ==
  /\ sessions \in [Uids -> Session]
  /\ \A u \in Uids : Exists(u) => sessions[u].cert \in Certs

AdapterInv ==
  /\ owned \in [Uids -> Adapters \cup {None}]
  /\ heap \in [Adapters -> Uids]

InflightInv == inflight \in [Servers -> Inflight \cup {None}]

ClientsInv == clients \subseteq Certs \X Permissions

\* Sessions whose cipher key was made from the PIN k
Keyed(k) == {u \in Uids : sessions[u].key = k}

Outstanding(k) == Cardinality(Keyed(k)) + (IF k = "otp" /\ otp THEN 1 ELSE 0)

CountersInv == grants \in [Keys -> Nat] /\ consents \in [Keys -> Nat] /\ through \in [Requests -> Nat]

ConsentInv ==
  /\ grants["wrong"] = 0
  /\ \A k \in Pins : grants[k] + Outstanding(k) <= consents[k]

ReviewInv ==
  /\ \A r \in Requests :
       /\ records[r].state = "approved" => reviewed[r] = records[r].access
       /\ records[r].state = "paired" => through[r] > 0
  /\ reviewed \in [Requests -> AccessModes \cup {None}]
  /\ \A t \in Servers : inflight[t] # None => through[inflight[t].request] > 0

ServiceInv == IndInv /\ BucketsOK

-----------------------------------------------------------------------------
(* Sessions *)

LEMMA KeyNames ==
  /\ Pins \subseteq Keys /\ "wrong" \in Keys /\ "wrong" \notin Pins /\ "otp" \in Pins
  /\ Requests \subseteq Pins /\ Uids \subseteq Pins
  BY PairingNames DEF Pins, Keys

\* The absent session is well formed and has no key.
LEMMA NoSessionType == NoSession \in Session /\ NoSession.key = None /\ NoSession.phase = "absent"
  BY DEF NoSession, Session

\* getservercert creates a session with the certificate of its device, or
\* overwrites only the salt of an existing one.
LEMMA EmplaceType ==
  ASSUME SessionsInv, NEW u \in Uids, NEW c \in Certs, NEW pin \in Pins \cup {"short"}
  PROVE  LET s == Emplace(u, c, pin)
         IN  /\ s \in Session /\ s.cert \in Certs /\ s.phase # "absent"
             /\ s.key \in {sessions[u].key, None}
<1>1. CASE Exists(u)
  <2> DEFINE e == IF pin # "short" /\ c # sessions[u].cert THEN "foreign" ELSE pin
  <2>1. Emplace(u, c, pin) = [sessions[u] EXCEPT !.expects = e]
    BY <1>1 DEF Emplace
  <2>2. e \in Pins \cup {"foreign", "short", None} /\ sessions[u] \in Session
    BY DEF SessionsInv
  <2> HIDE DEF e
  <2> QED BY <1>1, <2>1, <2>2 DEF Session, SessionsInv, Exists
<1>2. CASE ~Exists(u)
  <2>1. Emplace(u, c, pin) = [phase |-> "NONE", cert |-> c, request |-> None, gen |-> 0,
                              held |-> "none", expects |-> pin, key |-> None]
    BY <1>2 DEF Emplace, NoSession
  <2>2. "NONE" \in {Phases[i] : i \in 1..Len(Phases)}
    BY DEF Phases
  <2> QED BY <2>1, <2>2 DEF Session
<1> QED BY <1>1, <1>2

\* A PIN either ends the session or gives it a key.
LEMMA InsertPinType ==
  ASSUME NEW s \in Session, NEW pin \in Pins \cup {"wrong"}
  PROVE  LET w == InsertPin(s, pin)
         IN  /\ w \in Session /\ w.key \in {None, "wrong", pin}
             /\ w.phase # "absent" => w.cert = s.cert /\ s.phase # "absent"
<1>1. CASE s.phase # "NONE" \/ s.expects = "short"
  BY <1>1, NoSessionType DEF InsertPin
<1>2. CASE ~(s.phase # "NONE" \/ s.expects = "short")
  <2> DEFINE k == IF s.expects = pin THEN pin ELSE "wrong"
  <2>1. InsertPin(s, pin) = [s EXCEPT !.phase = "GETSERVERCERT", !.key = k]
    BY <1>2 DEF InsertPin
  <2>2. k \in Keys \cup {None} /\ k \in {"wrong", pin}
    BY KeyNames
  <2>3. "GETSERVERCERT" \in {Phases[i] : i \in 1..Len(Phases)}
    BY DEF Phases
  <2> HIDE DEF k
  <2> QED BY <1>2, <2>1, <2>2, <2>3 DEF Session
<1> QED BY <1>1, <1>2

-----------------------------------------------------------------------------
(* The service under the handshake *)

\* Calls that neither approve nor commit a request.
QuietCall ==
  \/ CreateRoute \/ RequestRoute \/ AccessRoute \/ Tick \/ UNCHANGED vars
  \/ \E r \in Requests, c \in Certs, src \in Sources, a \in Adapters :
       BindHeldGetservercert(r, c, src, a)
  \/ \E r \in Requests, g \in Nat : FailPairing(r, g)

\* What the transformers of a quiet call do to the state of a record.
LEMMA QuietTransformers ==
  ASSUME NEW v \in Record
  PROVE  /\ Materialize(v) \in Record /\ Materialize(v).state \in {v.state, "expired"}
         /\ \A e \in Envelopes : Upload(v, e).state = v.state
         /\ CancelLive(v).state \in {v.state, "cancelled"}
         /\ RejectLive(v).state \in {v.state, "rejected"}
         /\ \A m : SelectAccess(v, m).state = v.state
         /\ \A a : BindSession(v, a).state = v.state
         /\ \A why \in Failures : Fail(v, why).state = "failed"
         /\ Older(v).state = v.state
<1>0. {"expired", "cancelled", "rejected", "failed", "paired"} \subseteq TerminalStates
  BY DEF TerminalStates
<1>1. \A t \in TerminalStates : Terminate(v, t) \in Record /\ Terminate(v, t).state = t
  BY TerminateFields
<1>2. Materialize(v) \in Record /\ Materialize(v).state \in {v.state, "expired"}
  BY <1>0, <1>1 DEF Materialize
<1>3. /\ CancelLive(v).state \in {v.state, "cancelled"}
      /\ RejectLive(v).state \in {v.state, "rejected"}
  BY <1>0, <1>1 DEF CancelLive, RejectLive
<1>4. ASSUME NEW why \in Failures PROVE Fail(v, why).state = "failed"
  <2>1. Terminate(v, "failed") \in Record /\ Terminate(v, "failed").state = "failed"
    BY <1>0, <1>1
  <2> QED BY <2>1 DEF Fail, Record
<1>5. ASSUME NEW e \in Envelopes PROVE Upload(v, e).state = v.state
  <2> DEFINE n == IF v.bound THEN v.ready + 1 ELSE v.ready
             s == v.secrets \cup {"envelope"}
  <2>1. \/ Upload(v, e) = v
        \/ Upload(v, e) = [v EXCEPT !.replay = e, !.pin = e, !.verified = TRUE,
                                    !.secrets = s, !.ready = n]
    BY DEF Upload
  <2> HIDE DEF n, s
  <2> QED BY <2>1 DEF Record
<1>6. ASSUME NEW m PROVE SelectAccess(v, m).state = v.state
  BY DEF SelectAccess, Record
<1>7. ASSUME NEW a PROVE BindSession(v, a).state = v.state
  BY BindSessionStory
<1>8. Older(v).state = v.state
  <2> DEFINE t == IF v.ttl > 0 THEN v.ttl - 1 ELSE 0
             a == IF v.stamped /\ v.age < CacheLifetime THEN v.age + 1 ELSE v.age
  <2>1. Older(v) = [v EXCEPT !.ttl = t, !.age = a]
    BY DEF Older
  <2> HIDE DEF t, a
  <2> QED BY <2>1 DEF Record
<1> QED BY <1>2, <1>3, <1>4, <1>5, <1>6, <1>7, <1>8

\* A quiet call is a call of the service.
LEMMA QuietIsCall == QuietCall => ServiceCall
  BY DEF QuietCall, ServiceCall, Next, CreateRoute, RequestRoute, AccessRoute

\* After a quiet call, a request is approved or paired only if it was before.
LEMMA QuietStates ==
  ASSUME IndInv, QuietCall, NEW q \in Requests, records'[q].state \in {"approved", "paired"}
  PROVE  records'[q].state = records[q].state
<1> DEFINE Goal == records'[q].state = records[q].state
           Settled == {"approved", "paired"}
<1>0. /\ records \in [Requests -> Record]
      /\ Evict(records) \in [Requests -> Record]
      /\ \A r \in Requests : Evict(records)[r].state \in {records[r].state, "absent"}
  <2>1. NoRecord \in Record /\ NoRecord.state = "absent"
    BY NoRecordInv DEF RecordInv, NoRecord
  <2> QED BY <2>1 DEF IndInv, Evict
<1>m. \A v \in Record : Materialize(v) \in Record /\ Materialize(v).state \in {v.state, "expired"}
  BY QuietTransformers
<1>1. ASSUME NEW r \in Requests, NEW w, w.state \in Settled => w.state = records[r].state,
             \/ records' = [records EXCEPT ![r] = w]
             \/ records' = [Evict(records) EXCEPT ![r] = w]
      PROVE  Goal
  BY <1>0, <1>1
<1>2. CASE records' = Evict(records)
  BY <1>0, <1>2
<1>3. ASSUME NEW r \in Requests, NEW src \in Sources, NEW b \in Bodies, Create(r, src, b)
      PROVE  Goal
  <2>1. CASE CreateExisting(r)
    BY <2>1, <1>0, <1>1, <1>m DEF CreateExisting
  <2>2. CASE CreateBusy(r, b)
    BY <2>2, <1>2 DEF CreateBusy
  <2>3. CASE CreateNew(r, src, b)
    <3>1. NewRecord(src, b).state = "pending"
      BY NewRecordInv
    <3>2. \/ records' = Evict(records)
          \/ records' = [Evict(records) EXCEPT ![r] = NewRecord(src, b)]
      BY <2>3 DEF CreateNew
    <3> QED BY <3>1, <3>2, <1>1, <1>2
  <2> QED BY <1>3, <2>1, <2>2, <2>3 DEF Create
<1>4. ASSUME NEW r \in Requests, NEW src, NEW t, NEW e \in Envelopes, UploadEnvelope(r, src, t, e)
      PROVE  Goal
  <2> DEFINE x == Materialize(records[r])
  <2>1. x \in Record /\ x.state \in {records[r].state, "expired"}
    BY <1>0, <1>m
  <2>2. Upload(x, e).state = x.state
    BY <2>1, QuietTransformers
  <2> QED BY <1>4, <1>0, <1>1, <2>1, <2>2 DEF UploadEnvelope
<1>5. ASSUME NEW r \in Requests, Touch(r) PROVE Goal
  BY <1>5, <1>0, <1>1, <1>m DEF Touch
<1>6. ASSUME NEW r \in Requests, NEW src, NEW t, Cancel(r, src, t) PROVE Goal
  BY <1>6, <1>0, <1>1, <1>m, QuietTransformers DEF Cancel
<1>7. CASE Pending
  BY <1>7, <1>0, <1>m DEF Pending
<1>8. ASSUME NEW r \in Requests, Reject(r) PROVE Goal
  BY <1>8, <1>0, <1>1, <1>m, QuietTransformers DEF Reject
<1>9. ASSUME NEW r \in Requests, NEW m, SetAccessMode(r, m) PROVE Goal
  <2> DEFINE x == Materialize(records[r])
  <2>1. x \in Record /\ x.state \in {records[r].state, "expired"}
    BY <1>0, <1>m
  <2>2. SelectAccess(x, m).state = x.state
    BY <2>1, QuietTransformers
  <2> QED BY <1>9, <1>0, <1>1, <2>1, <2>2 DEF SetAccessMode
<1>10. ASSUME NEW r \in Requests, NEW c, NEW src, NEW a, BindHeldGetservercert(r, c, src, a)
       PROVE  Goal
  <2> DEFINE x == Materialize(records[r])
  <2>1. x \in Record /\ x.state \in {records[r].state, "expired"}
    BY <1>0, <1>m
  <2>2. BindRecord(x, c, src, a).state \in {x.state, "failed"}
    BY <2>1, QuietTransformers DEF BindRecord, Mismatch, Failures
  <2> QED BY <1>10, <1>0, <1>1, <2>1, <2>2 DEF BindHeldGetservercert
<1>11. ASSUME NEW r \in Requests, NEW g, FailPairing(r, g) PROVE Goal
  BY <1>11, <1>0, <1>1, QuietTransformers DEF FailPairing, Failures
<1>12. CASE Tick
  BY <1>12, <1>0, QuietTransformers DEF Tick
<1>13. CASE UNCHANGED vars
  BY <1>13 DEF vars
<1> QED
  BY <1>3, <1>4, <1>5, <1>6, <1>7, <1>8, <1>9, <1>10, <1>11, <1>12, <1>13
  DEF QuietCall, CreateRoute, RequestRoute, AccessRoute

\* ... and an approved one keeps the access mode it was approved with.
LEMMA QuietAccess ==
  ASSUME IndInv, QuietCall, NEW q \in Requests, records'[q].state = "approved"
  PROVE  records[q].state = "approved" /\ records'[q].access = records[q].access
<1>1. records[q].state = "approved"
  BY QuietStates
<1>2. Survives(q)
  <2>1. Present(records[q]) /\ ~Terminal(records[q])
    BY <1>1 DEF Present, Terminal, TerminalStates
  <2>2. ~Evictable(records[q])
    BY <2>1 DEF IndInv, RecordInv, Evictable
  <2>3. records' # [s \in Requests |-> NoRecord]
    BY DEF NoRecord
  <2> QED BY <2>1, <2>2, <2>3 DEF Survives
<1>3. Story(records[q], records'[q])
  BY <1>2, QuietIsCall, CallStory DEF IndInv
<1> QED BY <1>1, <1>3 DEF Story

-----------------------------------------------------------------------------
(* Keys *)

\* No session gets a key it did not have, except w one from the PIN k.
Carried == \A u \in Uids : sessions'[u].key \in {sessions[u].key, None, "wrong"}

CarriedBut(w, k) ==
  \A u \in Uids :
    \/ sessions'[u].key \in {sessions[u].key, None, "wrong"}
    \/ u = w /\ sessions'[u].key = k

LEMMA KeyedFinite ==
  ASSUME NEW k
  PROVE  /\ IsFiniteSet(Keyed(k)) /\ Cardinality(Keyed(k)) \in Nat
         /\ IsFiniteSet(Keyed(k)') /\ Cardinality(Keyed(k)') \in Nat
<1>1. Keyed(k) \subseteq Uids /\ Keyed(k)' \subseteq Uids
  BY DEF Keyed
<1>2. IsFiniteSet(Keyed(k)) /\ IsFiniteSet(Keyed(k)')
  BY <1>1, PairingNames, FS_Subset
<1> QED BY <1>2, FS_CardinalityType

LEMMA CarriedKeyed ==
  ASSUME Carried, NEW k \in Pins
  PROVE  Cardinality(Keyed(k)') <= Cardinality(Keyed(k))
<1>1. Keyed(k)' \subseteq Keyed(k)
  BY PairingNames, KeyNames DEF Keyed, Carried
<1> QED BY <1>1, KeyedFinite, FS_Subset

LEMMA CarriedButKeyed ==
  ASSUME NEW w \in Uids, NEW p, CarriedBut(w, p), NEW k \in Pins
  PROVE  Cardinality(Keyed(k)') <= Cardinality(Keyed(k)) + (IF k = p THEN 1 ELSE 0)
<1>1. CASE k # p
  <2>1. Keyed(k)' \subseteq Keyed(k)
    BY <1>1, PairingNames, KeyNames DEF Keyed, CarriedBut
  <2>2. Cardinality(Keyed(k)') <= Cardinality(Keyed(k))
    BY <2>1, KeyedFinite, FS_Subset
  <2> QED BY <1>1, <2>2, KeyedFinite
<1>2. CASE k = p
  <2>1. Keyed(k)' \subseteq Keyed(k) \cup {w}
    BY <1>2, PairingNames, KeyNames DEF Keyed, CarriedBut
  <2>2. /\ IsFiniteSet(Keyed(k) \cup {w})
        /\ Cardinality(Keyed(k) \cup {w}) =
             IF w \in Keyed(k) THEN Cardinality(Keyed(k)) ELSE Cardinality(Keyed(k)) + 1
    BY KeyedFinite, FS_AddElement
  <2>3. Cardinality(Keyed(k)') <= Cardinality(Keyed(k) \cup {w})
    BY <2>1, <2>2, FS_Subset
  <2> QED BY <1>2, <2>2, <2>3, KeyedFinite
<1> QED BY <1>1, <1>2

\* At most one more session has a key from the PIN p, and none from another.
Adds(p) ==
  \A k \in Pins :
    Cardinality(Keyed(k)') <= Cardinality(Keyed(k)) + (IF k = p THEN 1 ELSE 0)

LEMMA CarriedAdds ==
  ASSUME NEW p, Carried \/ \E w \in Uids : CarriedBut(w, p)
  PROVE  Adds(p)
  BY CarriedKeyed, CarriedButKeyed, KeyedFinite DEF Adds

LEMMA OutstandingType ==
  ASSUME NEW k
  PROVE  Outstanding(k) \in Nat /\ Outstanding(k)' \in Nat
  BY KeyedFinite DEF Outstanding

\* A step that makes no key and no one-time PIN needs no consent.
LEMMA CarriedConsent ==
  ASSUME CountersInv, ConsentInv, Carried, otp' => otp, UNCHANGED <<consents, grants>>
  PROVE  ConsentInv'
<1>1. ASSUME NEW k \in Pins PROVE grants'[k] + Outstanding(k)' <= consents'[k]
  <2>1. Outstanding(k)' <= Outstanding(k)
    BY CarriedKeyed, KeyedFinite DEF Outstanding
  <2>2. grants[k] + Outstanding(k) <= consents[k] /\ grants[k] \in Nat /\ consents[k] \in Nat
    BY KeyNames DEF ConsentInv, CountersInv
  <2>3. grants'[k] = grants[k] /\ consents'[k] = consents[k]
    OBVIOUS
  <2> QED BY <2>1, <2>2, <2>3, OutstandingType
<1> QED BY <1>1 DEF ConsentInv

\* A key made by the person who hands over its PIN has its consent.
LEMMA GivenConsent ==
  ASSUME CountersInv, ConsentInv, NEW p \in Pins, Adds(p),
         otp' = otp, grants' = grants, Consent(p)
  PROVE  ConsentInv' /\ consents' \in [Keys -> Nat]
<1>0. /\ consents' \in [Keys -> Nat]
      /\ \A k \in Pins : consents'[k] = IF k = p THEN consents[k] + 1 ELSE consents[k]
  BY KeyNames DEF Consent, CountersInv
<1>1. ASSUME NEW k \in Pins PROVE grants'[k] + Outstanding(k)' <= consents'[k]
  <2>1. Outstanding(k)' <= Outstanding(k) + (IF k = p THEN 1 ELSE 0)
    BY KeyedFinite DEF Outstanding, Adds
  <2>2. grants[k] + Outstanding(k) <= consents[k] /\ grants[k] \in Nat /\ consents[k] \in Nat
    BY KeyNames DEF ConsentInv, CountersInv
  <2> QED BY <1>0, <2>1, <2>2, OutstandingType
<1> QED BY <1>0, <1>1 DEF ConsentInv

\* The one-time PIN is spent on the one key it makes.
LEMMA OtpConsent ==
  ASSUME CountersInv, ConsentInv, NEW w \in Uids, CarriedBut(w, "otp"), otp, ~otp',
         UNCHANGED <<consents, grants>>
  PROVE  ConsentInv'
<1>1. ASSUME NEW k \in Pins PROVE grants'[k] + Outstanding(k)' <= consents'[k]
  <2>1. Outstanding(k)' <= Outstanding(k)
    BY CarriedButKeyed, KeyedFinite DEF Outstanding
  <2>2. grants[k] + Outstanding(k) <= consents[k] /\ grants[k] \in Nat /\ consents[k] \in Nat
    BY KeyNames DEF ConsentInv, CountersInv
  <2> QED BY <2>1, <2>2, OutstandingType
<1> QED BY <1>1 DEF ConsentInv

\* request_otp.
LEMMA OtpRequested ==
  ASSUME CountersInv, ConsentInv, Consent("otp"), UNCHANGED <<sessions, grants>>
  PROVE  ConsentInv' /\ consents' \in [Keys -> Nat]
<1>0. /\ consents' \in [Keys -> Nat]
      /\ \A k \in Pins : consents'[k] = IF k = "otp" THEN consents[k] + 1 ELSE consents[k]
  BY KeyNames DEF Consent, CountersInv
<1>1. ASSUME NEW k \in Pins PROVE grants'[k] + Outstanding(k)' <= consents'[k]
  <2>0. Carried BY DEF Carried
  <2>1. Outstanding(k)' <= Outstanding(k) + (IF k = "otp" THEN 1 ELSE 0)
    BY <2>0, CarriedKeyed, KeyedFinite DEF Outstanding
  <2>2. grants[k] + Outstanding(k) <= consents[k] /\ grants[k] \in Nat /\ consents[k] \in Nat
    BY KeyNames DEF ConsentInv, CountersInv
  <2> QED BY <1>0, <2>1, <2>2, OutstandingType
<1> QED BY <1>0, <1>1 DEF ConsentInv

\* An authorization uses up the key of its session.
LEMMA GrantedConsent ==
  ASSUME CountersInv, ConsentInv, NEW w \in Uids, SecretProven(sessions[w]),
         SessionsInv, sessions' = [sessions EXCEPT ![w] = NoSession],
         grants' = [grants EXCEPT ![sessions[w].key] = @ + 1], UNCHANGED <<consents, otp>>
  PROVE  ConsentInv' /\ grants' \in [Keys -> Nat]
<1>0. PICK p \in Pins : p = sessions[w].key
  BY KeyNames DEF SecretProven, SessionsInv, Session, Keys
<1>1. /\ grants' \in [Keys -> Nat] /\ grants'["wrong"] = grants["wrong"]
      /\ \A k \in Pins : grants'[k] = IF k = p THEN grants[k] + 1 ELSE grants[k]
  BY <1>0, KeyNames DEF CountersInv
<1>2. Carried
  BY NoSessionType DEF Carried, SessionsInv
<1>3. Cardinality(Keyed(p)') = Cardinality(Keyed(p)) - 1
  <2>1. w \in Keyed(p) /\ Keyed(p)' = Keyed(p) \ {w}
    <3>1. p # None BY PairingNames
    <3> QED BY <1>0, <3>1, NoSessionType DEF Keyed, SessionsInv
  <2> QED BY <2>1, KeyedFinite, FS_RemoveElement
<1>4. ASSUME NEW k \in Pins PROVE grants'[k] + Outstanding(k)' <= consents'[k]
  <2>1. Outstanding(k)' <= Outstanding(k) - (IF k = p THEN 1 ELSE 0)
    BY <1>2, <1>3, CarriedKeyed, KeyedFinite DEF Outstanding
  <2>2. grants[k] + Outstanding(k) <= consents[k] /\ grants[k] \in Nat /\ consents[k] \in Nat
    BY KeyNames DEF ConsentInv, CountersInv
  <2> QED BY <1>1, <2>1, <2>2, OutstandingType
<1> QED BY <1>1, <1>4 DEF ConsentInv

-----------------------------------------------------------------------------
(* What a step does to the sessions *)

LEMMA WithoutSessions ==
  ASSUME SessionsInv, NEW us, sessions' = Without(us)
  PROVE  SessionsInv' /\ Carried
  BY NoSessionType DEF SessionsInv, Carried, Without, Exists

LEMMA OneSession ==
  ASSUME SessionsInv, NEW u \in Uids, NEW w \in Session, w.phase # "absent" => w.cert \in Certs,
         sessions' = [sessions EXCEPT ![u] = w]
  PROVE  SessionsInv' /\ (w.key \in {sessions[u].key, None, "wrong"} => Carried)
  BY DEF SessionsInv, Carried, Exists

LEMMA EndedSession ==
  ASSUME SessionsInv, NEW u \in Uids, sessions' = [sessions EXCEPT ![u] = NoSession]
  PROVE  SessionsInv' /\ Carried
  BY OneSession, NoSessionType

LEMMA SameSessions ==
  ASSUME SessionsInv, sessions' = sessions
  PROVE  SessionsInv' /\ Carried
  BY DEF SessionsInv, Carried, Exists

\* Allow injects the PIN of the request into the session of the adapter.
LEMMA AllowIntoSessions ==
  ASSUME SessionsInv, IndInv, NEW r \in Requests, NEW u \in Uids, AllowInto(r, u),
         Approvable(Materialize(records[r]))
  PROVE  /\ SessionsInv' /\ CarriedBut(u, r)
         /\ ~Injectable(sessions[u]) => Carried
<1>1. CASE Injectable(sessions[u])
  <2> DEFINE x == InsertPin(sessions[u], r)
             g == records[r].gen + 1
             w == [x EXCEPT !.gen = g, !.held = "none"]
  <2>0. records[r].gen \in Nat /\ sessions[u] \in Session /\ r \in Pins \cup {"wrong"}
    BY KeyNames DEF IndInv, Record, SessionsInv
  <2>1. /\ x \in Session /\ x.key \in {None, "wrong", r}
        /\ x.phase # "absent" => x.cert = sessions[u].cert /\ sessions[u].phase # "absent"
    BY <2>0, InsertPinType
  <2>2. sessions' = [sessions EXCEPT ![u] = w]
    BY <1>1 DEF AllowInto, SessionsInv
  <2>3. g \in Nat BY <2>0
  <2> HIDE DEF x, g
  <2>4. w \in Session /\ w.key = x.key /\ w.phase = x.phase /\ w.cert = x.cert
    BY <2>1, <2>3 DEF Session
  <2> HIDE DEF w
  <2>5. w.phase # "absent" => w.cert \in Certs
    BY <2>1, <2>4 DEF SessionsInv, Exists
  <2>6. SessionsInv' BY <2>2, <2>4, <2>5, OneSession
  <2>7. CarriedBut(u, r) BY <2>1, <2>2, <2>4 DEF SessionsInv, CarriedBut
  <2> QED BY <1>1, <2>6, <2>7
<1>2. CASE ~Injectable(sessions[u])
  <2>1. sessions' = [sessions EXCEPT ![u] = NoSession]
    BY <1>2 DEF AllowInto, SessionsInv
  <2> QED BY <2>1, EndedSession DEF Carried, CarriedBut
<1> QED BY <1>1, <1>2

LEMMA AttendedSessions ==
  ASSUME SessionsInv, NEW u \in Uids, NEW c \in Certs, NEW r \in Requests, NEW src, NEW a,
         NEW pin \in {r, "short"}, GetservercertAttended(u, c, r, src, a, pin)
  PROVE  SessionsInv' /\ Carried
<1> DEFINE x == Emplace(u, c, pin)
           s == [x EXCEPT !.request = r]
           w == [s EXCEPT !.held = "left"]
<1>1. /\ x \in Session /\ x.cert \in Certs /\ x.phase # "absent"
      /\ x.key \in {sessions[u].key, None}
  BY EmplaceType, KeyNames
<1>2. \/ sessions' = [sessions EXCEPT ![u] = w]
      \/ \E us \in SUBSET Uids : sessions' = Without(us \cup {u})
  BY DEF GetservercertAttended
<1> HIDE DEF x
<1>3. w \in Session /\ w.key = x.key /\ w.phase = x.phase /\ w.cert = x.cert
  BY <1>1 DEF Session
<1> HIDE DEF w
<1> QED BY <1>1, <1>2, <1>3, OneSession, WithoutSessions

LEMMA GetservercertSessions ==
  ASSUME SessionsInv, NEW t \in Servers, NEW u \in Uids, NEW c \in Certs, Getservercert(t, u, c)
  PROVE  /\ SessionsInv'
         /\ \/ Carried /\ otp' \in {otp, FALSE}
            \/ CarriedBut(u, "otp") /\ otp /\ otp' = FALSE
         /\ UNCHANGED <<vars, owned, heap, inflight, clients, historyVars>>
<1>0. "otp" \in Pins /\ u \in Pins BY KeyNames
<1>1. CASE GetservercertRefused(u)
  <2>1. sessions' = [sessions EXCEPT ![u] = NoSession] /\ otp' = otp
    BY <1>1 DEF GetservercertRefused
  <2>2. SessionsInv' /\ Carried BY <2>1, EndedSession
  <2> QED BY <1>1, <2>1, <2>2 DEF GetservercertRefused
<1>2. CASE GetservercertOtp(u, c)
  <2> DEFINE x == Emplace(u, c, "otp")
  <2>1. x \in Session /\ x.cert \in Certs
    BY <1>0, EmplaceType
  <2>2. ASSUME NEW p \in {"otp", "wrong"}, sessions' = [sessions EXCEPT ![u] = InsertPin(x, p)]
        PROVE  SessionsInv' /\ CarriedBut(u, p) /\ (p = "wrong" => Carried)
    <3>1. /\ InsertPin(x, p) \in Session /\ InsertPin(x, p).key \in {None, "wrong", p}
          /\ InsertPin(x, p).phase # "absent" => InsertPin(x, p).cert \in Certs
      BY <1>0, <2>1, InsertPinType
    <3>2. SessionsInv' /\ (p = "wrong" => Carried) BY <2>2, <3>1, OneSession
    <3>3. CarriedBut(u, p) BY <2>2, <3>1 DEF SessionsInv, CarriedBut
    <3> QED BY <3>2, <3>3
  <2>3. \/ sessions' = [sessions EXCEPT ![u] = InsertPin(x, "otp")] /\ otp /\ otp' = FALSE
        \/ sessions' = [sessions EXCEPT ![u] = InsertPin(x, "wrong")] /\ otp' \in {otp, FALSE}
    BY <1>2 DEF GetservercertOtp, OtpMatches
  <2>4. UNCHANGED <<vars, owned, heap, inflight, clients, historyVars>>
    BY <1>2 DEF GetservercertOtp
  <2> HIDE DEF x
  <2> QED BY <2>2, <2>3, <2>4
<1>3. ASSUME NEW pin \in {u, "short"}, GetservercertHeld(t, u, c, pin)
      PROVE  /\ SessionsInv' /\ Carried /\ otp' = otp
             /\ UNCHANGED <<vars, owned, heap, inflight, clients, historyVars>>
  <2> DEFINE x == Emplace(u, c, pin)
             h == IF t = "http" THEN "left" ELSE "right"
             w == [x EXCEPT !.held = h]
  <2>1. x \in Session /\ x.cert \in Certs /\ x.key \in {sessions[u].key, None}
    BY <1>0, EmplaceType
  <2>2. sessions' = [sessions EXCEPT ![u] = w]
    BY <1>3 DEF GetservercertHeld
  <2>3. h \in {"none", "left", "right"} OBVIOUS
  <2> HIDE DEF x, h
  <2>4. w \in Session /\ w.key = x.key /\ w.cert = x.cert
    BY <2>1, <2>3 DEF Session
  <2> HIDE DEF w
  <2>5. SessionsInv' /\ Carried BY <2>1, <2>2, <2>4, OneSession
  <2> QED BY <1>3, <2>5 DEF GetservercertHeld
<1> QED BY <1>1, <1>2, <1>3 DEF Getservercert

-----------------------------------------------------------------------------
(* Steps *)

PairInv ==
  /\ ServiceInv /\ SessionsInv /\ AdapterInv /\ InflightInv /\ ClientsInv
  /\ CountersInv /\ ConsentInv /\ ReviewInv

LEMMA ServiceKept ==
  ASSUME ServiceInv, ServiceCall
  PROVE  ServiceInv'
  BY IndInvStep, BucketsStep DEF ServiceInv

\* A quiet call fits the reviews and authorizations there are.
LEMMA QuietReview ==
  ASSUME ServiceInv, ReviewInv, CountersInv, QuietCall, UNCHANGED <<reviewed, through, inflight>>
  PROVE  ReviewInv'
<1>1. ASSUME NEW q \in Requests, records'[q].state = "approved"
      PROVE  reviewed'[q] = records'[q].access
  BY <1>1, QuietAccess DEF ServiceInv, ReviewInv
<1>2. ASSUME NEW q \in Requests, records'[q].state = "paired"
      PROVE  through'[q] > 0
  BY <1>2, QuietStates DEF ServiceInv, ReviewInv
<1> QED BY <1>1, <1>2 DEF ReviewInv

\* A step that neither approves, commits nor authorizes, and needs no consent.
Plain ==
  /\ QuietCall /\ Carried /\ otp' \in {otp, FALSE}
  /\ SessionsInv' /\ AdapterInv' /\ ClientsInv'
  /\ UNCHANGED <<inflight, historyVars>>

LEMMA PlainKeeps ==
  ASSUME PairInv, Plain
  PROVE  PairInv'
<1>1. otp' => otp BY Zenon DEF Plain
<1>2. UNCHANGED <<consents, grants, through, reviewed, inflight>> BY DEF Plain, historyVars
<1>3. ConsentInv' BY <1>1, <1>2, CarriedConsent DEF PairInv, Plain
<1>4. ServiceInv' /\ ReviewInv'
  BY <1>2, QuietIsCall, ServiceKept, QuietReview DEF PairInv, Plain
<1> QED BY <1>2, <1>3, <1>4 DEF PairInv, Plain, InflightInv, CountersInv

LEMMA AttendedRouteKeeps ==
  ASSUME PairInv, AttendedRoute
  PROVE  PairInv'
<1>1. SessionsInv' /\ Carried
  BY WithoutSessions DEF AttendedRoute, PairInv
<1>2. otp' \in {otp, FALSE} BY DEF AttendedRoute
<1> QED BY <1>1, <1>2, PlainKeeps
  DEF Plain, AttendedRoute, QuietCall, PairInv, AdapterInv, ClientsInv

LEMMA GetservercertAttendedKeeps ==
  ASSUME PairInv, NEW u \in Uids, NEW c \in Certs, NEW r \in Requests, NEW src \in Sources,
         NEW a \in Adapters, NEW pin \in {r, "short"}, GetservercertAttended(u, c, r, src, a, pin)
  PROVE  PairInv'
<1>1. SessionsInv' /\ Carried
  BY AttendedSessions DEF PairInv
<1>2. QuietCall
  <2> DEFINE x == Emplace(u, c, pin)
             s == [x EXCEPT !.request = r]
  <2>1. x \in Session /\ x.cert \in Certs
    BY EmplaceType, KeyNames DEF PairInv
  <2>2. BindHeldGetservercert(r, s.cert, src, a) \/ UNCHANGED vars
    BY DEF GetservercertAttended
  <2> HIDE DEF x
  <2>3. s.cert \in Certs BY <2>1 DEF Session
  <2> HIDE DEF s
  <2> QED BY <2>2, <2>3 DEF QuietCall
<1>3. AdapterInv'
  <2>1. heap' = [heap EXCEPT ![a] = u] /\ \E b \in {a, None} : owned' = [owned EXCEPT ![u] = b]
    BY DEF GetservercertAttended
  <2> QED BY <2>1 DEF PairInv, AdapterInv
<1>4. otp' \in {otp, FALSE} /\ UNCHANGED <<inflight, clients, historyVars>>
  BY DEF GetservercertAttended
<1> QED BY <1>1, <1>2, <1>3, <1>4, PlainKeeps DEF Plain, PairInv, ClientsInv

LEMMA GetservercertKeeps ==
  ASSUME PairInv, NEW t \in Servers, NEW u \in Uids, NEW c \in Certs, Getservercert(t, u, c)
  PROVE  PairInv'
<1>0. /\ SessionsInv' /\ UNCHANGED <<vars, owned, heap, inflight, clients, historyVars>>
      /\ \/ Carried /\ otp' \in {otp, FALSE}
         \/ CarriedBut(u, "otp") /\ otp /\ otp' = FALSE
  BY GetservercertSessions DEF PairInv
<1>1. QuietCall /\ AdapterInv' /\ ClientsInv'
  BY <1>0 DEF QuietCall, PairInv, AdapterInv, ClientsInv
<1>2. CASE Carried /\ otp' \in {otp, FALSE}
  BY <1>0, <1>1, <1>2, PlainKeeps DEF Plain
<1>3. CASE CarriedBut(u, "otp") /\ otp /\ otp' = FALSE
  <2>1. UNCHANGED <<consents, grants, through, reviewed, inflight>> BY <1>0 DEF historyVars
  <2>2. ~otp' BY <1>3
  <2>3. ConsentInv' BY <1>3, <2>1, <2>2, OtpConsent DEF PairInv
  <2>4. ServiceInv' /\ ReviewInv'
    BY <1>1, <2>1, QuietIsCall, ServiceKept, QuietReview DEF PairInv
  <2> QED BY <1>0, <1>1, <2>1, <2>3, <2>4 DEF PairInv, InflightInv, CountersInv
<1> QED BY <1>0, <1>2, <1>3

\* fail_attended.
LEMMA FailAttendedQuiet ==
  ASSUME SessionsInv, AdapterInv, NEW u \in Uids, FailAttended(u), heap' = heap
  PROVE  QuietCall /\ AdapterInv'
<1>1. sessions[u] \in Session BY DEF SessionsInv
<1>2. CASE sessions[u].request # None /\ Present(records[sessions[u].request])
  <2>1. sessions[u].request \in Requests /\ sessions[u].gen \in Nat
    BY <1>1, <1>2 DEF Session
  <2> QED BY <1>2, <2>1 DEF FailAttended, QuietCall, AdapterInv
<1>3. CASE ~(sessions[u].request # None /\ Present(records[sessions[u].request]))
  BY <1>3 DEF FailAttended, QuietCall, AdapterInv
<1> QED BY <1>2, <1>3

LEMMA PhaseSessions ==
  ASSUME SessionsInv, NEW u \in Uids, NEW i \in 1..5,
         sessions' = [sessions EXCEPT ![u].phase = Phases[i]], Exists(u)
  PROVE  SessionsInv' /\ Carried
<1> DEFINE w == [sessions[u] EXCEPT !.phase = Phases[i]]
<1>1. Phases[i] \in {Phases[j] : j \in 1..Len(Phases)} /\ sessions[u] \in Session
  BY DEF Phases, SessionsInv
<1>2. w \in Session /\ w.cert = sessions[u].cert /\ w.key = sessions[u].key
  BY <1>1 DEF Session
<1>3. sessions' = [sessions EXCEPT ![u] = w]
  BY DEF SessionsInv
<1>4. w.cert \in Certs BY <1>2 DEF SessionsInv
<1> HIDE DEF w
<1> QED BY <1>2, <1>3, <1>4, OneSession

\* A later phase that does not authorize.
LEMMA LaterPhasePlain ==
  ASSUME PairInv, NEW u \in Uids, Exists(u),
         \/ UnexpectedCall(u) \/ FailPair(u) \/ AuthorizeThrows(u)
         \/ \E i \in {2, 3} : Challenge(u, i)
  PROVE  PairInv'
<1> USE DEF PairInv
<1>1. CASE UnexpectedCall(u)
  <2>1. SessionsInv' /\ Carried BY <1>1, SameSessions DEF UnexpectedCall
  <2>2. QuietCall /\ AdapterInv' BY <1>1, FailAttendedQuiet DEF UnexpectedCall
  <2>3. otp' \in {otp, FALSE} /\ UNCHANGED <<inflight, clients, historyVars>>
    BY <1>1 DEF UnexpectedCall
  <2> QED BY <2>1, <2>2, <2>3, PlainKeeps DEF Plain, ClientsInv
<1>2. ASSUME FailPair(u) PROVE PairInv'
  <2>1. SessionsInv' /\ Carried BY <1>2, EndedSession DEF FailPair
  <2>2. QuietCall /\ AdapterInv' BY <1>2, FailAttendedQuiet DEF FailPair
  <2>3. otp' \in {otp, FALSE} /\ UNCHANGED <<inflight, clients, historyVars>>
    BY <1>2 DEF FailPair
  <2> QED BY <2>1, <2>2, <2>3, PlainKeeps DEF Plain, ClientsInv
<1>3. ASSUME NEW i \in 1..5, sessions' = [sessions EXCEPT ![u].phase = Phases[i]],
             UNCHANGED <<vars, owned, heap, inflight, otp, clients, historyVars>>
      PROVE  PairInv'
  <2>1. SessionsInv' /\ Carried BY <1>3, PhaseSessions
  <2>2. QuietCall /\ AdapterInv' /\ ClientsInv'
    BY <1>3 DEF QuietCall, AdapterInv, ClientsInv
  <2>3. otp' \in {otp, FALSE} BY <1>3
  <2> QED BY <1>3, <2>1, <2>2, <2>3, PlainKeeps DEF Plain
<1>4. CASE AuthorizeThrows(u)
  <2>1. Phases[5] = "CLIENTPAIRINGSECRET" BY DEF Phases
  <2>2. PICK j \in 1..5 : j = 5 OBVIOUS
  <2>3. /\ sessions' = [sessions EXCEPT ![u].phase = Phases[j]]
        /\ UNCHANGED <<vars, owned, heap, inflight, otp, clients, historyVars>>
    BY <1>4, <2>1, <2>2 DEF AuthorizeThrows
  <2> QED BY <1>3, <2>3
<1>5. ASSUME NEW i \in {2, 3}, Challenge(u, i) PROVE PairInv'
  <2>1. PICK j \in 1..5 : j = i + 1 OBVIOUS
  <2>2. CASE FailPair(u) BY <1>2, <2>2
  <2>3. CASE /\ sessions' = [sessions EXCEPT ![u].phase = Phases[j]]
             /\ UNCHANGED <<vars, owned, heap, inflight, otp, clients, historyVars>>
    BY <1>3, <2>3
  <2> QED BY <1>5, <2>1, <2>2, <2>3 DEF Challenge
<1> QED BY <1>1, <1>2, <1>4, <1>5

\* clientpairingsecret authorizes the device of the session.
LEMMA AuthorizeKeeps ==
  ASSUME PairInv, NEW t \in Servers, NEW u \in Uids, Exists(u), Authorize(t, u)
  PROVE  PairInv'
<1> DEFINE s == sessions[u]
<1>0. /\ s \in Session /\ s.cert \in Certs /\ s.gen \in Nat /\ s.request \in Requests \cup {None}
      /\ Permission(s) \in Permissions
  <2>1. s \in Session /\ s.cert \in Certs BY DEF PairInv, SessionsInv
  <2>2. Permission(s) \in Permissions BY DEF Permission, PermOf, Permissions
  <2> QED BY <2>1, <2>2 DEF Session
<1>1. SessionsInv' BY EndedSession DEF Authorize, PairInv
<1>2. /\ grants' = [grants EXCEPT ![s.key] = @ + 1] /\ SecretProven(s)
      /\ through' = [r \in Requests |-> IF r = s.request THEN through[r] + 1 ELSE through[r]]
      /\ clients' = clients \cup {<<s.cert, Permission(s)>>}
      /\ UNCHANGED <<vars, owned, heap, otp, consents, reviewed>>
      /\ inflight' = [inflight EXCEPT ![t] =
           IF s.request = None THEN None ELSE [uid |-> u, request |-> s.request, gen |-> s.gen]]
      /\ sessions' = [sessions EXCEPT ![u] = NoSession]
  BY DEF Authorize, AddAuthorizedClient
<1>3. ConsentInv' /\ grants' \in [Keys -> Nat]
  BY <1>2, GrantedConsent DEF PairInv
<1>4. /\ through' \in [Requests -> Nat]
      /\ \A r \in Requests : through'[r] >= through[r] /\ (r = s.request => through'[r] > 0)
  BY <1>2 DEF PairInv, CountersInv
<1>5. ClientsInv' BY <1>0, <1>2 DEF PairInv, ClientsInv
<1>6. InflightInv' BY <1>0, <1>2 DEF PairInv, InflightInv, Inflight
<1>7. ASSUME NEW q \in Servers, inflight'[q] # None PROVE through'[inflight'[q].request] > 0
  <2>1. CASE q = t
    BY <1>0, <1>2, <1>4, <1>7, <2>1 DEF PairInv, InflightInv
  <2>2. CASE q # t
    <3>1. inflight'[q] = inflight[q] /\ inflight[q] \in Inflight
      BY <1>2, <1>7, <2>2 DEF PairInv, InflightInv
    <3>2. through[inflight[q].request] > 0 /\ inflight[q].request \in Requests
      BY <1>7, <3>1 DEF PairInv, ReviewInv, Inflight
    <3> QED BY <1>4, <3>1, <3>2 DEF PairInv, CountersInv
  <2> QED BY <2>1, <2>2
<1>8. records' = records /\ reviewed' = reviewed BY <1>2 DEF vars
<1>9. ReviewInv'
  <2>1. ASSUME NEW r \in Requests, records'[r].state = "paired" PROVE through'[r] > 0
    BY <1>4, <1>8, <2>1 DEF PairInv, ReviewInv, CountersInv
  <2> QED BY <1>7, <1>8, <2>1 DEF PairInv, ReviewInv
<1>10. ServiceInv' BY <1>2, ServiceKept DEF ServiceCall, PairInv
<1>11. AdapterInv' /\ CountersInv'
  BY <1>2, <1>3, <1>4 DEF PairInv, AdapterInv, CountersInv
<1> QED BY <1>1, <1>3, <1>5, <1>6, <1>9, <1>10, <1>11 DEF PairInv

\* commit_paired reports a request paired after its device was authorized.
LEMMA CommitKeeps ==
  ASSUME PairInv, NEW t \in Servers, CommitPairing(t)
  PROVE  PairInv'
<1> DEFINE r == inflight[t].request
           g == inflight[t].gen
<1>0. /\ inflight[t] \in Inflight /\ r \in Requests /\ g \in Nat /\ inflight[t].uid \in Uids
      /\ through[r] > 0
  BY DEF CommitPairing, Idle, PairInv, InflightInv, Inflight, ReviewInv
<1>1. ServiceCall
  BY <1>0 DEF CommitPairing, ServiceCall
<1>2. /\ sessions' = sessions /\ otp' = otp
      /\ UNCHANGED <<heap, clients, consents, grants, through, reviewed>>
      /\ inflight' = [inflight EXCEPT ![t] = None]
      /\ owned' \in {owned, [owned EXCEPT ![inflight[t].uid] = None]}
  BY DEF CommitPairing, historyVars, PairInv, AdapterInv
<1>3. \A q \in Requests :
        \/ records'[q] = records[q]
        \/ q = r /\ records'[q].state = "paired"
  <2>1. CASE Present(records[r])
    <3>1. records' = [records EXCEPT ![r] = IF Commits(records[r], g)
                        THEN Terminate(records[r], "paired") ELSE records[r]]
      BY <2>1 DEF CommitPairing, CommitPaired
    <3>2. records \in [Requests -> Record] /\ "paired" \in TerminalStates
      BY DEF PairInv, ServiceInv, IndInv, TerminalStates
    <3>3. Terminate(records[r], "paired").state = "paired"
      BY <1>0, <3>2, TerminateFields
    <3> QED BY <1>0, <3>1, <3>2, <3>3
  <2>2. CASE ~Present(records[r])
    BY <2>2 DEF CommitPairing, vars
  <2> QED BY <2>1, <2>2
<1>4. SessionsInv' /\ Carried BY <1>2, SameSessions DEF PairInv
<1>5. ConsentInv' BY <1>2, <1>4, CarriedConsent DEF PairInv
<1>6. ServiceInv' BY <1>1, ServiceKept DEF PairInv
<1>7. AdapterInv' /\ ClientsInv' /\ CountersInv' /\ InflightInv'
  BY <1>0, <1>2 DEF PairInv, AdapterInv, ClientsInv, CountersInv, InflightInv
<1>8. ReviewInv'
  <2>1. ASSUME NEW q \in Servers, inflight'[q] # None PROVE through'[inflight'[q].request] > 0
    BY <1>2, <2>1 DEF PairInv, ReviewInv, InflightInv
  <2>2. ASSUME NEW q \in Requests
        PROVE  /\ records'[q].state = "approved" => reviewed'[q] = records'[q].access
               /\ records'[q].state = "paired" => through'[q] > 0
    <3>1. CASE records'[q] = records[q]
      BY <1>2, <3>1 DEF PairInv, ReviewInv
    <3>2. CASE q = r /\ records'[q].state = "paired"
      BY <1>0, <1>2, <3>2
    <3> QED BY <1>3, <3>1, <3>2
  <2> QED BY <1>2, <2>1, <2>2 DEF PairInv, ReviewInv
<1> QED BY <1>4, <1>5, <1>6, <1>7, <1>8 DEF PairInv

\* The PIN page and request_otp.
LEMMA UiKeeps ==
  ASSUME PairInv, RequestOtp \/ \E u, w \in Uids : Pin(u, w)
  PROVE  PairInv'
<1>0. /\ UNCHANGED <<vars, owned, heap, inflight, clients, grants, through, reviewed>>
  BY DEF RequestOtp, Pin, sessionVars
<1>1. /\ QuietCall /\ AdapterInv' /\ ClientsInv' /\ InflightInv'
      /\ through' \in [Requests -> Nat] /\ grants' \in [Keys -> Nat]
  BY <1>0 DEF QuietCall, PairInv, AdapterInv, ClientsInv, InflightInv, CountersInv
<1>2. ServiceInv' /\ ReviewInv'
  BY <1>0, <1>1, QuietIsCall, ServiceKept, QuietReview DEF PairInv
<1>3. CASE RequestOtp
  <2>1. Consent("otp") /\ sessions' = sessions BY <1>3 DEF RequestOtp, sessionVars
  <2>2. SessionsInv' BY <2>1, SameSessions DEF PairInv
  <2>3. ConsentInv' /\ consents' \in [Keys -> Nat] BY <1>0, <2>1, OtpRequested DEF PairInv
  <2> QED BY <1>1, <1>2, <2>2, <2>3 DEF PairInv, CountersInv
<1>4. ASSUME NEW u \in Uids, NEW w \in Uids, Pin(u, w) PROVE PairInv'
  <2> DEFINE y == InsertPin(sessions[u], w)
             z == [y EXCEPT !.held = "none"]
  <2>1. sessions' = [sessions EXCEPT ![u] = IF y = NoSession THEN NoSession ELSE z]
    BY <1>4 DEF Pin, PairInv, SessionsInv
  <2>2. /\ y \in Session /\ y.key \in {None, "wrong", w}
        /\ y.phase # "absent" => y.cert \in Certs
    BY KeyNames, InsertPinType DEF PairInv, SessionsInv, Exists
  <2> HIDE DEF y
  <2>3. z \in Session /\ z.key = y.key /\ z.phase = y.phase /\ z.cert = y.cert
    BY <2>2 DEF Session
  <2> HIDE DEF z
  <2>4. SessionsInv'
    BY <2>1, <2>2, <2>3, OneSession, NoSessionType DEF PairInv
  <2>5. CarriedBut(u, w)
    BY <2>1, <2>2, <2>3, NoSessionType DEF CarriedBut, PairInv, SessionsInv
  <2>6. Adds(w) /\ w \in Pins /\ Consent(w) /\ otp' = otp
    BY <1>4, <2>5, CarriedAdds, KeyNames DEF Pin
  <2>7. ConsentInv' /\ consents' \in [Keys -> Nat] BY <1>0, <2>6, GivenConsent DEF PairInv
  <2> QED BY <1>1, <1>2, <2>4, <2>7 DEF PairInv, CountersInv
<1> QED BY <1>3, <1>4

\* The devices, the clock, and steps that change nothing.
LEMMA OtherPairingKeeps ==
  ASSUME PairInv,
         \/ \E d \in clients, m \in AccessModes : SetDeviceAccess(d, m)
         \/ \E ds \in SUBSET clients : Unpair(ds)
         \/ TickPairing \/ UNCHANGED allVars
  PROVE  PairInv'
<1>1. /\ UNCHANGED <<sessions, owned, heap, inflight, otp, historyVars>> /\ QuietCall
  BY DEF SetDeviceAccess, Unpair, TickPairing, allVars, sessionVars, QuietCall
<1>2. ClientsInv'
  <2>1. ASSUME NEW d \in clients, NEW m \in AccessModes, SetDeviceAccess(d, m) PROVE ClientsInv'
    <3>1. d[1] \in Certs /\ PermOf(m) \in Permissions
      BY DEF PermOf, Permissions, PairInv, ClientsInv
    <3> QED BY <2>1, <3>1 DEF SetDeviceAccess, PairInv, ClientsInv
  <2>2. ASSUME NEW ds \in SUBSET clients, Unpair(ds) PROVE ClientsInv'
    BY <2>2 DEF Unpair, PairInv, ClientsInv
  <2>3. CASE TickPairing \/ UNCHANGED allVars
    BY <2>3 DEF TickPairing, allVars, PairInv, ClientsInv
  <2> QED BY <2>1, <2>2, <2>3
<1>3. SessionsInv' /\ Carried BY <1>1, SameSessions DEF PairInv
<1>4. AdapterInv' BY <1>1 DEF PairInv, AdapterInv
<1>5. otp' \in {otp, FALSE} BY <1>1
<1> QED BY <1>1, <1>2, <1>3, <1>4, <1>5, PlainKeeps DEF Plain

\* What allow() does to its request.
LEMMA AllowReview ==
  ASSUME ServiceInv, NEW r \in Requests, NEW ok \in BOOLEAN, Allow(r, ok)
  PROVE  /\ \A q \in Requests \ {r} : records'[q] = records[q]
         /\ records'[r].state = "approved" => records'[r].access = records[r].access
         /\ records'[r].state = "paired" => records[r].state = "paired"
         /\ (Approvable(Materialize(records[r])) /\ ok) =>
              records'[r].state = "approved" /\ records[r].state = "pending"
<1> DEFINE v == records[r]
           w == IF Approvable(Materialize(v)) THEN Approve(v, ok) ELSE Materialize(v)
<1>0. records \in [Requests -> Record] /\ RecordInv(v) /\ v \in Record
  BY DEF ServiceInv, IndInv
<1>1. records' = [records EXCEPT ![r] = w]
  BY DEF Allow
<1>2. records'[r] = w /\ \A q \in Requests \ {r} : records'[q] = records[q]
  BY <1>0, <1>1
<1>3. w.state = "approved" => w.access = v.access
  BY <1>0, AllowStory
<1>4. CASE Approvable(Materialize(v))
  <2>1. Materialize(v) = v /\ v.state = "pending"
    BY <1>0, <1>4, MaterializeLive DEF Approvable, Live, LiveStates
  <2>2. w.state = IF ok THEN "approved" ELSE "failed"
    <3>1. CASE ok
      <4> DEFINE g == v.gen + 1
                 s == v.secrets \ {"envelope", "hostKey", "pairingKey"}
      <4>1. w = [v EXCEPT !.state = "approved", !.gen = g, !.pin = None, !.secrets = s]
        BY <1>4, <3>1 DEF Approve
      <4> HIDE DEF g, s
      <4> QED BY <1>0, <3>1, <4>1 DEF Record
    <3>2. CASE ~ok
      <4>1. w = Fail([v EXCEPT !.gen = v.gen + 1], "legacyPairingFailed")
        BY <1>4, <3>2 DEF Approve
      <4>2. [v EXCEPT !.gen = v.gen + 1] \in Record
        BY <1>0 DEF Record
      <4> QED BY <3>2, <4>1, <4>2, QuietTransformers DEF Failures
    <3> QED BY <3>1, <3>2
  <2> QED BY <1>2, <1>3, <2>1, <2>2
<1>5. CASE ~Approvable(Materialize(v))
  <2>1. w.state \in {v.state, "expired"}
    BY <1>0, <1>5, QuietTransformers
  <2> QED BY <1>2, <1>3, <1>5, <2>1
<1> QED BY <1>4, <1>5

\* The allow route.
LEMMA AllowRouteKeeps ==
  ASSUME PairInv, NEW r \in Requests, AllowRoute(r)
  PROVE  PairInv'
<1> DEFINE a == records[r].adapter
           Fires == records'[r].state = "approved" /\ records[r].state # "approved"
<1>0. /\ UNCHANGED <<owned, heap, inflight, clients, grants, through>> /\ otp' = otp
      /\ Fires => Consent(r) /\ reviewed' = [reviewed EXCEPT ![r] = records[r].access]
      /\ ~Fires => UNCHANGED <<consents, reviewed>>
  BY DEF AllowRoute
<1>1. \E ok \in BOOLEAN :
        /\ Allow(r, ok) /\ SessionsInv'
        /\ Carried \/ (Adds(r) /\ ok /\ Approvable(Materialize(records[r])))
  <2>1. CASE /\ Allow(r, FALSE)
             /\ \E us \in SUBSET Uids : MayErase(us) /\ sessions' = Without(us)
    BY <2>1, WithoutSessions DEF PairInv
  <2>2. CASE Approvable(Materialize(records[r])) /\ AllowInto(r, heap[a])
    <3>1. heap[a] \in Uids
      <4>1. Materialize(records[r]) = records[r]
        BY <2>2, MaterializeLive DEF Approvable, Live, LiveStates, PairInv, ServiceInv, IndInv
      <4>2. a \in Adapters
        BY <2>2, <4>1 DEF Approvable, PairInv, ServiceInv, IndInv, Record
      <4> QED BY <4>2 DEF PairInv, AdapterInv
    <3>2. PICK u \in Uids : u = heap[a] BY <3>1
    <3>3. u # None BY PairingNames, KeyNames
    <3>4. SessionsInv' /\ CarriedBut(u, r) /\ (~Injectable(sessions[u]) => Carried)
      BY <2>2, <3>2, AllowIntoSessions DEF PairInv, ServiceInv
    <3>5. CASE Injectable(sessions[u])
      <4>1. Allow(r, TRUE) BY <2>2, <3>2, <3>3, <3>5, Zenon DEF AllowInto
      <4>2. Adds(r) BY <3>4, CarriedAdds
      <4> QED BY <2>2, <3>4, <4>1, <4>2
    <3>6. CASE ~Injectable(sessions[u])
      <4>1. Allow(r, FALSE) BY <2>2, <3>2, <3>6, Zenon DEF AllowInto
      <4> QED BY <3>4, <3>6, <4>1
    <3> QED BY <3>5, <3>6
  <2>3. CASE (\E approves \in BOOLEAN : Allow(r, approves)) /\ UNCHANGED sessions
    BY <2>3, SameSessions DEF PairInv
  <2> QED BY <2>1, <2>2, <2>3 DEF AllowRoute
<1>2. PICK ok \in BOOLEAN :
        /\ Allow(r, ok) /\ SessionsInv'
        /\ Carried \/ (Adds(r) /\ ok /\ Approvable(Materialize(records[r])))
  BY <1>1
<1>3. /\ \A q \in Requests \ {r} : records'[q] = records[q]
      /\ records'[r].state = "approved" => records'[r].access = records[r].access
      /\ records'[r].state = "paired" => records[r].state = "paired"
      /\ (Approvable(Materialize(records[r])) /\ ok) => Fires
  BY <1>2, AllowReview DEF PairInv
<1>4. ConsentInv' /\ consents' \in [Keys -> Nat]
  <2>1. CASE Fires
    <3>1. Adds(r) /\ r \in Pins BY <1>2, CarriedAdds, KeyNames
    <3> QED BY <1>0, <2>1, <3>1, GivenConsent DEF PairInv
  <2>2. CASE ~Fires
    <3>1. Carried BY <1>2, <1>3, <2>2
    <3> QED BY <1>0, <2>2, <3>1, CarriedConsent DEF PairInv, CountersInv
  <2> QED BY <2>1, <2>2
<1>5. ServiceInv'
  BY <1>2, ServiceKept DEF ServiceCall, Next, PairInv
<1>6. ReviewInv'
  <2>1. /\ reviewed' \in [Requests -> AccessModes \cup {None}]
        /\ \A q \in Requests \ {r} : reviewed'[q] = reviewed[q]
        /\ reviewed'[r] = IF Fires THEN records[r].access ELSE reviewed[r]
    BY <1>0 DEF PairInv, ReviewInv, ServiceInv, IndInv, Record
  <2>2. ASSUME NEW q \in Requests
        PROVE  /\ records'[q].state = "approved" => reviewed'[q] = records'[q].access
               /\ records'[q].state = "paired" => through'[q] > 0
    <3>1. CASE q # r BY <1>0, <1>3, <2>1, <3>1 DEF PairInv, ReviewInv
    <3>2. CASE q = r BY <1>0, <1>3, <2>1, <3>2 DEF PairInv, ReviewInv
    <3> QED BY <3>1, <3>2
  <2> QED BY <1>0, <2>1, <2>2 DEF PairInv, ReviewInv
<1> QED BY <1>0, <1>2, <1>4, <1>5, <1>6
        DEF PairInv, AdapterInv, ClientsInv, CountersInv, InflightInv

\* The process starts again.
LEMMA RestartKeeps ==
  ASSUME PairInv, Restart
  PROVE  PairInv'
<1>1. ServiceInv'
  <2>1. ~Live(NoRecord) BY DEF Live, LiveStates, NoRecord
  <2>2. IndInv'
    BY <2>1, NoRecordInv DEF Restart, IndInv, OneLiveRequestPerCertificate, RecordInv
  <2>3. BucketsOK' BY ServiceConfig DEF Restart, BucketsOK, BucketOK
  <2> QED BY <2>2, <2>3 DEF ServiceInv
<1>2. SessionsInv' /\ Carried
  BY NoSessionType DEF Restart, SessionsInv, Carried, Exists
<1>3. ~otp' /\ UNCHANGED <<clients, consents, grants, through, reviewed>>
  BY DEF Restart, historyVars
<1>4. ConsentInv' BY <1>2, <1>3, CarriedConsent DEF PairInv
<1>5. ReviewInv'
  BY <1>3 DEF Restart, PairInv, ReviewInv, NoRecord
<1> QED BY <1>1, <1>2, <1>3, <1>4, <1>5
        DEF Restart, PairInv, AdapterInv, InflightInv, ClientsInv, CountersInv

\* PairInv is inductive.
LEMMA PairInvNext == PairInv /\ [NextPairing]_allVars => PairInv'
<1> SUFFICES ASSUME PairInv, [NextPairing]_allVars
             PROVE  PairInv'
  OBVIOUS
<1>1. ASSUME NEW t \in Servers, NEW u \in Uids, LaterPhase(t, u) PROVE PairInv'
  BY <1>1, LaterPhasePlain, AuthorizeKeeps DEF LaterPhase, ClientPairingSecret
<1> QED BY <1>1, AttendedRouteKeeps, AllowRouteKeeps, GetservercertAttendedKeeps, GetservercertKeeps,
           CommitKeeps, UiKeeps, OtherPairingKeeps, RestartKeeps
        DEF NextPairing

LEMMA PairInvInit == InitPairing => PairInv
<1> SUFFICES ASSUME InitPairing PROVE PairInv
  OBVIOUS
<1>1. ServiceInv
  <2>1. ~Live(NoRecord) BY DEF Live, LiveStates, NoRecord
  <2>2. IndInv
    BY <2>1, NoRecordInv DEF InitPairing, Init, IndInv, OneLiveRequestPerCertificate, RecordInv
  <2>3. BucketsOK BY ServiceConfig DEF InitPairing, Init, BucketsOK, BucketOK
  <2> QED BY <2>2, <2>3 DEF ServiceInv
<1>2. SessionsInv BY NoSessionType DEF InitPairing, SessionsInv, Exists
<1>3. CountersInv BY DEF InitPairing, CountersInv
<1>4. ConsentInv
  <2>1. ASSUME NEW k \in Pins PROVE grants[k] = 0 /\ consents[k] = 0 /\ Outstanding(k) = 0
    <3>1. Keyed(k) = {}
      BY NoSessionType, PairingNames DEF InitPairing, Keyed
    <3>2. ~otp BY DEF InitPairing
    <3> QED BY <3>1, <3>2, FS_EmptySet, KeyNames DEF InitPairing, Outstanding
  <2> QED BY <2>1, KeyNames DEF InitPairing, ConsentInv
<1>5. ReviewInv BY DEF InitPairing, Init, ReviewInv, NoRecord
<1> QED BY <1>1, <1>2, <1>3, <1>4, <1>5
        DEF PairInv, InitPairing, AdapterInv, InflightInv, ClientsInv

-----------------------------------------------------------------------------
\* Pairing is never automatic: whatever sessions, retries and threads
\* interleave, no PIN authorizes more devices than it was handed over.
THEOREM ConsentPrecedesGrant == SpecPairing => []ConsentPerGrant
<1>1. PairInv => ConsentPerGrant
  <2> SUFFICES ASSUME PairInv, NEW k \in Keys PROVE grants[k] <= consents[k]
    BY DEF ConsentPerGrant
  <2>1. grants[k] \in Nat /\ consents[k] \in Nat BY DEF PairInv, CountersInv
  <2>2. CASE k \in Pins
    BY <2>1, <2>2, OutstandingType DEF PairInv, ConsentInv
  <2>3. CASE k = "wrong"
    BY <2>1, <2>3 DEF PairInv, ConsentInv
  <2> QED BY <2>2, <2>3 DEF Keys
<1> QED BY <1>1, PairInvInit, PairInvNext, PTL DEF SpecPairing

\* Sessions, adapters and clients are well formed, and a request is reported
\* paired only after a device was authorized through it.
THEOREM PairingSafe == SpecPairing => []PairingConsistent
<1>1. PairInv => PairingConsistent
  BY DEF PairInv, ServiceInv, IndInv, BucketsOK, SessionsInv, AdapterInv, InflightInv, Inflight,
         ClientsInv, ReviewInv, PairingConsistent, PairingTypeOK, TypeOK, PairedMeansAuthorized
<1> QED BY <1>1, PairInvInit, PairInvNext, PTL DEF SpecPairing

\* A device authorized through an approved request gets the permission that
\* was selected when the request was allowed.
THEOREM ReviewedAccessGranted == SpecPairing => AccessAsReviewed
<1> DEFINE Granted ==
      \A r \in Requests :
        (through'[r] > through[r] /\ records[r].state = "approved") =>
          \A d \in clients' \ clients : d[2] = PermOf(reviewed[r])
<1>1. ASSUME PairInv, [NextPairing]_allVars PROVE Granted
  <2> SUFFICES ASSUME NEW r \in Requests, through'[r] > through[r], records[r].state = "approved",
                      NEW d \in clients' \ clients
               PROVE  d[2] = PermOf(reviewed[r])
    OBVIOUS
  <2>0. through[r] \in Nat BY <1>1 DEF PairInv, CountersInv
  <2>1. ~UNCHANGED through BY <2>0
  <2>2. PICK t \in Servers, u \in Uids : Authorize(t, u)
    <3>1. AttendedRoute => UNCHANGED through
      BY DEF AttendedRoute, historyVars
    <3>5. (\E q \in Requests : AllowRoute(q)) => UNCHANGED through
      BY DEF AllowRoute
    <3>6. ASSUME NEW v, NEW c, NEW q, NEW src, NEW a, NEW pin,
                 GetservercertAttended(v, c, q, src, a, pin)
          PROVE  UNCHANGED through
      BY <3>6 DEF GetservercertAttended, historyVars
    <3>2. (\E v \in Servers, w \in Uids, c \in Certs : Getservercert(v, w, c)) => UNCHANGED through
      BY DEF Getservercert, GetservercertRefused, GetservercertOtp, GetservercertHeld, historyVars
    <3>3. ASSUME NEW v \in Servers, NEW w \in Uids, LaterPhase(v, w)
          PROVE  UNCHANGED through \/ Authorize(v, w)
      BY <3>3 DEF LaterPhase, UnexpectedCall, FailPair, Challenge, ClientPairingSecret,
                  AuthorizeThrows, historyVars
    <3>4. \/ (\E v \in Servers : CommitPairing(v)) \/ (\E v, w \in Uids : Pin(v, w)) \/ RequestOtp
          \/ (\E v \in clients, m \in AccessModes : SetDeviceAccess(v, m))
          \/ (\E ds \in SUBSET clients : Unpair(ds)) \/ Restart \/ TickPairing
          \/ UNCHANGED allVars
          => UNCHANGED through
      BY DEF CommitPairing, Pin, RequestOtp, SetDeviceAccess, Unpair, Restart, TickPairing,
             historyVars, allVars
    <3> QED BY <1>1, <2>1, <3>1, <3>2, <3>3, <3>4, <3>5, <3>6 DEF NextPairing
  <2>3. /\ clients' = clients \cup {<<sessions[u].cert, Permission(sessions[u])>>}
        /\ through' = [q \in Requests |-> IF q = sessions[u].request THEN through[q] + 1 ELSE through[q]]
    BY <2>2 DEF Authorize, AddAuthorizedClient
  <2>4. sessions[u].request = r BY <2>0, <2>3
  <2>5. r # None BY PairingNames, KeyNames
  <2>6. Permission(sessions[u]) = PermOf(records[r].access)
    BY <2>4, <2>5 DEF Permission
  <2>7. reviewed[r] = records[r].access BY <1>1 DEF PairInv, ReviewInv
  <2> QED BY <2>3, <2>6, <2>7
<1>2. PairInv /\ [NextPairing]_allVars => [Granted]_allVars
  BY <1>1
<1> QED BY <1>2, PairInvInit, PairInvNext, PTL DEF SpecPairing, AccessAsReviewed
=============================================================================
