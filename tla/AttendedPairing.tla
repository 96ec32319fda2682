-------------------------- MODULE AttendedPairing --------------------------
(***************************************************************************)
(* The GameStream pairing handshake of nvhttp.cpp, driven by the attended  *)
(* pairing service, by the PIN page and by one-time PINs.                  *)
(*                                                                         *)
(* The HTTP server (attended routes and /pair), the HTTPS server (/pair of *)
(* already authorized clients) and the configuration UI (PIN, OTP) run on  *)
(* one thread each and share map_id_sess without a lock.  A handler is one *)
(* step, except the last phase: it authorizes the client first and commits *)
(* the request with the service in a second step.                          *)
(*                                                                         *)
(* Cryptography is modelled by who knows which PIN.  A session expects the *)
(* PIN its device used in the last getservercert; its cipher key comes from*)
(* the PIN the host was given; the final hash matches when they are equal. *)
(* The PIN of a request is named by the request, a PIN shown by a device   *)
(* by the unique id of its session, and the one-time PIN is "otp".         *)
(***************************************************************************)
EXTENDS PairingService, FiniteSetsExt

CONSTANTS
  Uids,         \* uniqueid parameters of /pair
  MaxConsents   \* bound on the acts of consent

VARIABLES
  sessions,   \* map_id_sess
  owned,      \* attended_legacy_adapters: unique id -> address of its adapter
  heap,       \* the unique_id_ stored (or left behind) at each address
  inflight,   \* requests to commit, between the two steps of the last phase
  otp,        \* one_time_pin is set
  clients,    \* named_devices: certificates with their permission
  consents,   \* history: PINs accepted by a person, by PIN
  grants,     \* history: authorizations, by PIN
  through,    \* history: authorizations, by the request of the session
  reviewed    \* history: access mode of a request when it was allowed

sessionVars == <<sessions, owned, heap, inflight>>
historyVars == <<consents, grants, through, reviewed>>
allVars == <<vars, sessionVars, otp, clients, historyVars>>

-----------------------------------------------------------------------------
Servers == {"http", "https"}

\* Every PIN a person can hand over.
Pins == Requests \cup Uids \cup {"otp"}
Keys == Pins \cup {"wrong"}

ASSUME PairingNames ==
  /\ {"otp", "wrong", "foreign", "short"} \cap (Requests \cup Uids) = {}
  /\ Requests \cap Uids = {} /\ None \notin Pins
  /\ IsFiniteSet(Uids)
  /\ MaxConsents \in Nat

Permissions == {"all", "default"}

Phases == <<"NONE", "GETSERVERCERT", "CLIENTCHALLENGE",
            "SERVERCHALLENGERESP", "CLIENTPAIRINGSECRET">>

NoSession == [phase |-> "absent", cert |-> None, request |-> None, gen |-> 0,
              held |-> "none", expects |-> None, key |-> None]

Exists(u) == sessions[u].phase # "absent"

\* pair_session_t of a getservercert by the device of certificate c.  An
\* existing session is kept (emplace) with its certificate, but its salt is
\* overwritten: "foreign" when another device did it, "short" when unusable.
Emplace(u, c, pin) ==
  IF Exists(u)
  THEN [sessions[u] EXCEPT !.expects =
          IF pin # "short" /\ c # sessions[u].cert THEN "foreign" ELSE pin]
  ELSE [NoSession EXCEPT !.phase = "NONE", !.cert = c, !.expects = pin]

\* getservercert(): what a session becomes when the host is given a PIN.
InsertPin(s, pin) ==
  IF s.phase # "NONE" \/ s.expects = "short" THEN NoSession
  ELSE [s EXCEPT !.phase = "GETSERVERCERT",
                 !.key = IF s.expects = pin THEN pin ELSE "wrong"]

Owned(a) == \E u \in Uids : owned[u] = a

-----------------------------------------------------------------------------
InitPairing ==
  /\ Init
  /\ sessions = [u \in Uids |-> NoSession]
  /\ owned = [u \in Uids |-> None]
  /\ heap \in [Adapters -> Uids]
  /\ inflight = [t \in Servers |-> None]
  /\ otp = FALSE
  /\ clients \in SUBSET (Certs \X Permissions)
  /\ consents = [k \in Keys |-> 0]
  /\ grants = [k \in Keys |-> 0]
  /\ through = [r \in Requests |-> 0]
  /\ reviewed = [r \in Requests |-> None]

Idle(t) == inflight[t] = None

\* PINs handed over so far; MaxConsents bounds them.
Consents == MapThenSumSet(LAMBDA j : consents[j], Keys)

\* A person hands over the PIN k.
Consent(k) ==
  /\ Consents < MaxConsents
  /\ consents' = [consents EXCEPT ![k] = @ + 1]

(* adapter.cancel for the requests this step ends: the sessions of their
   adapters are answered 409 and erased.  A request may still point to an
   adapter that nvhttp has freed; what is read there may or may not be the
   old unique id. *)
EndedAdapters ==
  {records[r].adapter :
     r \in {q \in Requests : /\ Live(records[q])
                             /\ records'[q].state \in {"expired", "cancelled", "rejected"}}}
  \ {None}

MayErase(us) ==
  /\ us \subseteq {heap[a] : a \in EndedAdapters}
  /\ {heap[a] : a \in {b \in EndedAdapters : Owned(b)}} \subseteq us

Without(us) == [u \in Uids |-> IF u \in us THEN NoSession ELSE sessions[u]]

(* router::handle and ligase_pairing_access_local: requests that pass the
   syntax checks; a request that does not changes nothing *)
CreateRoute ==
  \E r \in Requests, src \in Sources, b \in Bodies : Create(r, src, b)

RequestRoute ==
  \/ Pending
  \/ \E r \in Requests : Touch(r) \/ Reject(r)
  \/ \E r \in Requests, src \in Sources, tokenMatches \in BOOLEAN :
       \/ Cancel(r, src, tokenMatches)
       \/ \E e \in Envelopes : UploadEnvelope(r, src, tokenMatches, e)

AccessRoute == \E r \in Requests, m \in AccessModes : SetAccessMode(r, m)

(* attended_route: the routes that do not approve *)
AttendedRoute ==
  /\ Idle("http")
  /\ CreateRoute \/ RequestRoute \/ AccessRoute
  /\ \E us \in SUBSET Uids : MayErase(us) /\ sessions' = Without(us)
  /\ UNCHANGED <<owned, heap, inflight, otp, clients, historyVars>>

(* the allow route: adapter.approve injects the PIN into the held session,
   or throws, and then adapter.cancel erases the session *)
Injectable(s) == s.phase = "NONE" /\ s.expects # "short" /\ s.held = "left"

AllowInto(r, u) ==
  /\ Allow(r, u # None /\ Injectable(sessions[u]))
  /\ sessions' = [w \in Uids |->
       IF w # u THEN sessions[w]
       ELSE IF Injectable(sessions[w])
       THEN [InsertPin(sessions[w], r) EXCEPT !.gen = records[r].gen + 1,
                                              !.held = "none"]
       ELSE NoSession]

AllowRoute(r) ==
  LET a == records[r].adapter
  IN  /\ Idle("http")
      /\ Present(records[r])
      /\ \/ /\ ~Approvable(Materialize(records[r]))
            /\ Allow(r, FALSE)
            /\ \E us \in SUBSET Uids : MayErase(us) /\ sessions' = Without(us)
         \/ /\ Approvable(Materialize(records[r]))
            /\ AllowInto(r, heap[a])
         \/ /\ Approvable(Materialize(records[r])) /\ ~Owned(a)
            /\ \E approves \in BOOLEAN : Allow(r, approves)
            /\ UNCHANGED sessions
      /\ IF records'[r].state = "approved" /\ records[r].state # "approved"
         THEN /\ Consent(r)
              /\ reviewed' = [reviewed EXCEPT ![r] = records[r].access]
         ELSE UNCHANGED <<consents, reviewed>>
      /\ UNCHANGED <<owned, heap, inflight, otp, clients, grants, through>>

-----------------------------------------------------------------------------
(* pair(), phrase=getservercert *)

(* with a request id: an adapter is allocated before the one it replaces is
   freed, the service binds it, and a refusal drops adapter and session *)
BindSucceeds(r, cert, src, a) ==
  LET v == Materialize(records[r])
  IN  /\ v.state = "pending"
      /\ BindMatches(v, cert, src)
      /\ ~BindBusy(v, a)

GetservercertAttended(u, c, r, src, a, pin) ==
  LET s == [Emplace(u, c, pin) EXCEPT !.request = r]
  IN  /\ Idle("http")
      /\ ~Owned(a)
      /\ IF Present(records[r]) THEN BindHeldGetservercert(r, s.cert, src, a)
                                ELSE UNCHANGED vars
      /\ heap' = [heap EXCEPT ![a] = u]
      /\ \/ /\ BindSucceeds(r, s.cert, src, a)
            /\ owned' = [owned EXCEPT ![u] = a]
            /\ sessions' = [sessions EXCEPT ![u] = [s EXCEPT !.held = "left"]]
         \/ /\ ~BindSucceeds(r, s.cert, src, a)
            /\ owned' = [owned EXCEPT ![u] = None]
            /\ \E us \in SUBSET Uids :
                 MayErase(us) /\ sessions' = Without(us \cup {u})
      /\ UNCHANGED <<inflight, otp, clients, historyVars>>

(* with a repeated request id, or a request id over HTTPS *)
GetservercertRefused(u) ==
  /\ Exists(u)
  /\ sessions' = [sessions EXCEPT ![u] = NoSession]
  /\ UNCHANGED <<vars, owned, heap, inflight, otp, clients, historyVars>>

(* with otpauth: a match consumes the one-time PIN; a mismatch or an expired
   PIN goes on with a random one *)
OtpMatchesAgain(u, c) ==
  /\ otp
  /\ sessions' = [sessions EXCEPT ![u] = InsertPin(Emplace(u, c, "otp"), "otp")]
  /\ UNCHANGED otp
OtpMatches(u, c) ==
  /\ otp
  /\ sessions' = [sessions EXCEPT ![u] = InsertPin(Emplace(u, c, "otp"), "otp")]
  /\ otp' = FALSE

GetservercertOtp(u, c) ==
  /\ \/ OtpMatches(u, c)
     \/ /\ sessions' = [sessions EXCEPT ![u] = InsertPin(Emplace(u, c, "otp"), "wrong")]
        /\ otp' \in {otp, FALSE}
  /\ UNCHANGED <<vars, owned, heap, inflight, clients, historyVars>>

(* otherwise the response is held until a PIN is typed *)
GetservercertHeld(t, u, c, pin) ==
  /\ sessions' = [sessions EXCEPT ![u] =
       [Emplace(u, c, pin) EXCEPT !.held = IF t = "http" THEN "left" ELSE "right"]]
  /\ UNCHANGED <<vars, owned, heap, inflight, otp, clients, historyVars>>

Getservercert(t, u, c) ==
  /\ Idle(t)
  /\ t = "https" => clients # {}
  /\ \/ GetservercertRefused(u)
     \/ GetservercertOtp(u, c)
     \/ \E pin \in {u, "short"} : GetservercertHeld(t, u, c, pin)

-----------------------------------------------------------------------------
(* pair(), the later phases *)

(* fail_attended: the request fails if the generation is still current, and
   the adapter is freed; a request already evicted makes it throw *)
FailAttended(u) ==
  LET s == sessions[u]
  IN  IF s.request # None /\ Present(records[s.request])
      THEN /\ FailPairing(s.request, s.gen)
           /\ owned' = [owned EXCEPT ![u] = None]
      ELSE UNCHANGED <<vars, owned>>

(* a request id after getservercert, or a call without any phase parameter:
   the session stays *)
UnexpectedCall(u) ==
  /\ FailAttended(u)
  /\ UNCHANGED <<sessions, heap, inflight, otp, clients, historyVars>>

(* fail_pair *)
FailPair(u) ==
  /\ FailAttended(u)
  /\ sessions' = [sessions EXCEPT ![u] = NoSession]
  /\ UNCHANGED <<heap, inflight, otp, clients, historyVars>>

(* clientchallenge and serverchallengeresp *)
Challenge(u, i) ==
  \/ /\ sessions[u].phase = Phases[i]
     /\ sessions' = [sessions EXCEPT ![u].phase = Phases[i + 1]]
     /\ UNCHANGED <<vars, owned, heap, inflight, otp, clients, historyVars>>
  \/ /\ sessions[u].phase # Phases[i]
     /\ FailPair(u)

(* clientpairingsecret: hash and signature prove the PIN *)
SecretProven(s) == s.key \notin {None, "wrong"}

PermOf(mode) == IF mode = "observe" THEN "default" ELSE "all"

Permission(s) ==
  IF s.request # None THEN PermOf(records[s.request].access)
  ELSE IF clients = {} THEN "all" ELSE "default"

AddAuthorizedClient(s) ==
  /\ clients' = clients \cup {<<s.cert, Permission(s)>>}
  /\ grants' = [grants EXCEPT ![s.key] = @ + 1]
  /\ through' = [r \in Requests |-> IF r = s.request THEN through[r] + 1 ELSE through[r]]

AuthorizeAfterCommit(t, u) ==
  LET s == sessions[u]
  IN  /\ SecretProven(s)
      /\ s.request # None /\ Present(records[s.request])
      /\ sessions' = [sessions EXCEPT ![u] = NoSession]
      /\ inflight' = [inflight EXCEPT ![t] =
           [uid |-> u, request |-> s.request, gen |-> s.gen]]
      /\ UNCHANGED <<vars, owned, heap, otp, clients, historyVars>>
Authorize(t, u) ==
  LET s == sessions[u]
  IN  /\ SecretProven(s)
      /\ s.request # None => Present(records[s.request])
      /\ AddAuthorizedClient(s)
      /\ sessions' = [sessions EXCEPT ![u] = NoSession]
      /\ inflight' = [inflight EXCEPT ![t] =
           IF s.request = None THEN None
           ELSE [uid |-> u, request |-> s.request, gen |-> s.gen]]
      /\ UNCHANGED <<vars, owned, heap, otp, consents, reviewed>>

(* access_mode_for_pairing throws for an evicted request *)
AuthorizeThrows(u) ==
  /\ SecretProven(sessions[u])
  /\ sessions[u].request # None /\ ~Present(records[sessions[u].request])
  /\ sessions' = [sessions EXCEPT ![u].phase = "CLIENTPAIRINGSECRET"]
  /\ UNCHANGED <<vars, owned, heap, inflight, otp, clients, historyVars>>

ClientPairingSecret(t, u) ==
  \/ FailPair(u)
  \/ /\ sessions[u].phase = "SERVERCHALLENGERESP"
     /\ Authorize(t, u) \/ AuthorizeThrows(u)

LaterPhase(t, u) ==
  /\ Idle(t)
  /\ t = "https" => clients # {}
  /\ Exists(u)
  /\ \/ UnexpectedCall(u)
     \/ \E i \in {2, 3} : Challenge(u, i)
     \/ ClientPairingSecret(t, u)

(* commit_paired, after the client was authorized *)
CommitPairing(t) ==
  LET r == inflight[t].request
  IN  /\ ~Idle(t)
      /\ IF Present(records[r]) THEN CommitPaired(r, inflight[t].gen)
                                ELSE UNCHANGED vars
      /\ owned' = [owned EXCEPT ![inflight[t].uid] =
           IF Commits(records[r], inflight[t].gen) THEN None ELSE @]
      /\ inflight' = [inflight EXCEPT ![t] = None]
      /\ UNCHANGED <<sessions, heap, otp, clients, historyVars>>

-----------------------------------------------------------------------------
(* The configuration UI *)

(* pin(): the PIN shown by the device of session w, given to whichever
   session is first in the map *)
Pin(u, w) ==
  /\ Exists(u)
  /\ sessions' = [sessions EXCEPT ![u] =
       IF InsertPin(@, w) = NoSession THEN NoSession
       ELSE [InsertPin(@, w) EXCEPT !.held = "none"]]
  /\ Consent(w)
  /\ UNCHANGED <<vars, owned, heap, inflight, otp, clients, grants, through, reviewed>>

(* request_otp *)
RequestOtp ==
  /\ otp' = TRUE
  /\ Consent("otp")
  /\ UNCHANGED <<vars, sessionVars, clients, grants, through, reviewed>>

-----------------------------------------------------------------------------
(* The devices: ligase_device_access_local, unpair_client, erase_all_clients *)
SetDeviceAccess(d, mode) ==
  /\ Idle("http")
  /\ clients' = (clients \ {d}) \cup {<<d[1], PermOf(mode)>>}
  /\ UNCHANGED <<vars, sessionVars, otp, historyVars>>

Unpair(ds) ==
  /\ clients' = clients \ ds
  /\ UNCHANGED <<vars, sessionVars, otp, historyVars>>

-----------------------------------------------------------------------------
(* nvhttp::start returns, or the process ends in any other way; the devices
   are on disk since add_authorized_client *)
Restart ==
  /\ records' = [r \in Requests |-> NoRecord]
  /\ buckets' = [k \in RateKeys |-> <<>>]
  /\ sessions' = [u \in Uids |-> NoSession]
  /\ owned' = [u \in Uids |-> None]
  /\ heap' \in [Adapters -> Uids]
  /\ inflight' = [t \in Servers |-> None]
  /\ otp' = FALSE
  /\ UNCHANGED <<clients, historyVars>>

TickPairing == Tick /\ UNCHANGED <<sessionVars, otp, clients, historyVars>>

NextPairing ==
  \/ AttendedRoute
  \/ \E r \in Requests : AllowRoute(r)
  \/ \E u \in Uids, c \in Certs, r \in Requests, src \in Sources, a \in Adapters :
       \E pin \in {r, "short"} : GetservercertAttended(u, c, r, src, a, pin)
  \/ \E t \in Servers, u \in Uids, c \in Certs : Getservercert(t, u, c)
  \/ \E t \in Servers, u \in Uids : LaterPhase(t, u)
  \/ \E t \in Servers : CommitPairing(t)
  \/ \E u, w \in Uids : Pin(u, w)
  \/ RequestOtp
  \/ \E d \in clients, m \in AccessModes : SetDeviceAccess(d, m)
  \/ \E ds \in SUBSET clients : Unpair(ds)
  \/ Restart
  \/ TickPairing

SpecPairing == InitPairing /\ [][NextPairing]_allVars

-----------------------------------------------------------------------------
(* Properties *)

Session ==
  [phase   : {Phases[i] : i \in 1..Len(Phases)} \cup {"absent"},
   cert    : Certs \cup {None},
   request : Requests \cup {None},           \* attended_request_id
   gen     : Nat,                            \* attended_generation
   held    : {"none", "left", "right"},      \* async_insert_pin.response
   expects : Pins \cup {"foreign", "short", None},
   key     : Keys \cup {None}]               \* cipher_key

\* Sessions, adapters and clients are well formed.
PairingTypeOK ==
  /\ TypeOK
  /\ sessions \in [Uids -> Session]
  /\ owned \in [Uids -> Adapters \cup {None}]
  /\ heap \in [Adapters -> Uids]
  /\ \A t \in Servers :
       inflight[t] \in [uid : Uids, request : Requests, gen : Nat] \cup {None}
  /\ clients \subseteq Certs \X Permissions

\* Pairing is never automatic: every client added to named_devices answers to
\* one act of consent of its own (an Allow, a typed PIN or a one-time PIN),
\* whatever sessions, retries and threads interleave in between.
ConsentPerGrant == \A k \in Keys : grants[k] <= consents[k]

\* A request is reported paired only when a device was authorized through it.
PairedMeansAuthorized ==
  \A r \in Requests : records[r].state = "paired" => through[r] > 0

\* The sessions, the adapters and the authorized clients fit the requests.
PairingConsistent == PairingTypeOK /\ PairedMeansAuthorized

\* A device authorized through an approved request gets the permission that
\* was selected when the request was allowed: no later selection, retry or
\* second session can change it on the way to clientpairingsecret.
AccessAsReviewed ==
  [][\A r \in Requests :
       (through'[r] > through[r] /\ records[r].state = "approved") =>
         \A d \in clients' \ clients : d[2] = PermOf(reviewed[r])]_allVars

\* The contract's "Pairing commits only from approved": a device is authorized
\* through a request only while that request is approved.
AuthorizedOnlyWhenApproved ==
  [][\A r \in Requests :
       through'[r] > through[r] => records[r].state = "approved"]_allVars
=============================================================================
