--------------------------- MODULE PairingService ---------------------------
(***************************************************************************)
(* The attended-pairing service: request_lifetime (domain/) inside         *)
(* pairing_service (service/).  Every public method of pairing_service     *)
(* runs under its one mutex, so it is one action here.  A method that      *)
(* throws has still done what it did before the throw (evictions,          *)
(* materialized expiries, a spent rate token); those effects are kept.     *)
(*                                                                         *)
(* Time is relative: a record counts down to its deadline and counts up    *)
(* from its terminal stamp, a rate bucket holds the ages of its entries,   *)
(* and each count saturates at the bound the code compares it with.        *)
(* Key material is the set of secrets a record holds, an envelope is an    *)
(* atom, and a PIN is the envelope it was decrypted from.                  *)
(***************************************************************************)
EXTENDS Integers, Sequences, FiniteSets

CONSTANTS
  Requests,        \* request ids
  Certs,           \* client certificates (by SHA-256)
  Sources,         \* source_identity values
  RateKeys,        \* rate bucket keys
  RateKeyOf,       \* rate_key(): Sources -> RateKeys
  Bodies,          \* canonical JCS bodies of create requests
  CertOf,          \* the client certificate a body names
  Envelopes,       \* uploaded envelopes (canonical JCS, by nonce and hash)
  ValidEnvelopes,  \* envelopes that decrypt to a well-formed PIN
  Adapters,        \* addresses of legacy_pairing_adapter objects
  None,            \* null pointer / empty optional
  Generations,     \* generation numbers a pair session may present
  RequestLifetime, \* service_config::request_lifetime, in ticks
  CacheLifetime,   \* service_config::terminal_cache_lifetime
  RateLimit,       \* service_config::rate_limit
  RateWindow       \* service_config::rate_window

VARIABLES
  records,      \* records_: request id -> record (NoRecord when absent)
  buckets       \* rate_buckets_: rate key -> ages of accepted creates, oldest first

vars == <<records, buckets>>

-----------------------------------------------------------------------------
LiveStates == {"pending", "approved"}

TerminalStates == {"paired", "rejected", "cancelled", "expired", "failed"}

Secrets == {"token", "hostKey", "pairingKey", "envelope"}

AccessModes == {"operate", "observe"}

Failures == {"legacyPairingFailed", "pairSessionMissing", "certificateMismatch"}

ASSUME ServiceConfig ==
  /\ RateKeyOf \in [Sources -> RateKeys]
  /\ CertOf \in [Bodies -> Certs]
  /\ ValidEnvelopes \subseteq Envelopes
  /\ None \notin Envelopes \cup Adapters \cup Sources \cup Bodies \cup Certs
  /\ None \notin Failures
  /\ Generations \subseteq Nat
  /\ RequestLifetime \in Nat \ {0}
  /\ CacheLifetime \in Nat \ {0}
  /\ RateLimit \in Nat
  /\ RateWindow \in Nat \ {0}

Ttls == 0..RequestLifetime
Ages == 0..CacheLifetime

Record ==
  [state    : LiveStates \cup TerminalStates \cup {"absent"},
   gen      : Nat,                      \* generation_
   ttl      : Ttls,                     \* deadline_ - now
   source   : Sources \cup {None},
   body     : Bodies \cup {None},
   verified : BOOLEAN,                  \* envelope_verified_
   bound    : BOOLEAN,                  \* held_session_bound_
   ready    : Nat,                      \* ready_event_count_
   replay   : Envelopes \cup {None},    \* envelope_replay_guard
   pin      : Envelopes \cup {None},
   secrets  : SUBSET Secrets,
   adapter  : Adapters \cup {None},
   failure  : Failures \cup {None},
   access   : AccessModes,
   stamped  : BOOLEAN,                  \* terminal_timestamped
   age      : Ages]                     \* now - terminal_at

NoRecord ==
  [state |-> "absent", gen |-> 0, ttl |-> 0, source |-> None, body |-> None,
   verified |-> FALSE, bound |-> FALSE, ready |-> 0, replay |-> None,
   pin |-> None, secrets |-> {}, adapter |-> None, failure |-> None,
   access |-> "operate", stamped |-> FALSE, age |-> 0]

NewRecord(src, b) ==
  [NoRecord EXCEPT !.state = "pending", !.gen = 1, !.ttl = RequestLifetime,
                   !.source = src, !.body = b,
                   !.secrets = {"token", "hostKey", "pairingKey"}]

Present(v) == v.state # "absent"
Live(v) == v.state \in LiveStates
Terminal(v) == v.state \in TerminalStates
Cert(v) == CertOf[v.body]

-----------------------------------------------------------------------------
CleanupTerminal(v) == [v EXCEPT !.secrets = {}, !.pin = None]

Terminate(v, target) ==
  CleanupTerminal([v EXCEPT !.state = target, !.gen = @ + 1,
                            !.stamped = TRUE, !.age = 0])

Fail(v, why) == [Terminate(v, "failed") EXCEPT !.failure = why]

\* materialize_expiry
ExpiringPendingOnly(v) == v.state = "pending" /\ v.ttl = 0
Expiring(v) == Live(v) /\ v.ttl = 0
Materialize(v) == IF Expiring(v) THEN Terminate(v, "expired") ELSE v

Evictable(v) == v.stamped /\ v.age >= CacheLifetime
Evict(recs) == [r \in Requests |-> IF Evictable(recs[r]) THEN NoRecord ELSE recs[r]]

\* authenticate: source equality and token hash (cleanup keeps the hash)
Authentic(v, src, tokenMatches) == Present(v) /\ v.source = src /\ tokenMatches

Outdated(bucket, k) ==
  /\ \A j \in 1..k : bucket[j] >= RateWindow
  /\ k < Len(bucket) => bucket[k + 1] < RateWindow

AtLimit(bucket) == Len(bucket) >= RateLimit

-----------------------------------------------------------------------------
Init ==
  /\ records = [r \in Requests |-> NoRecord]
  /\ buckets = [k \in RateKeys |-> <<>>]

(* create: an id in the cache is answered from its record ... *)
CreateExisting(r) ==
  /\ Present(Evict(records)[r])
  /\ records' = [Evict(records) EXCEPT ![r] = Materialize(@)]
  /\ UNCHANGED buckets

(* ... a certificate with a live request is busy (its expiry is not
   materialized first) ... *)
BusyPendingOnly(recs, b) ==
  \E s \in Requests : recs[s].state = "pending" /\ Cert(recs[s]) = CertOf[b]
Busy(recs, b) == \E s \in Requests : Live(recs[s]) /\ Cert(recs[s]) = CertOf[b]

CreateBusy(r, b) ==
  /\ ~Present(Evict(records)[r])
  /\ Busy(Evict(records), b)
  /\ records' = Evict(records)
  /\ UNCHANGED buckets

(* ... and a new request first spends a rate token, which a failing key
   agreement does not give back. *)
CreateNew(r, src, b) ==
  LET recs == Evict(records)
      key  == RateKeyOf[src]
  IN  /\ ~Present(recs[r])
      /\ ~Busy(recs, b)
      /\ \E k \in 0..Len(buckets[key]) :
           LET bucket == SubSeq(buckets[key], k + 1, Len(buckets[key]))
           IN  /\ Outdated(buckets[key], k)
               /\ \/ /\ AtLimit(bucket)
                     /\ buckets' = [buckets EXCEPT ![key] = bucket]
                     /\ records' = recs
                  \/ /\ ~AtLimit(bucket)
                     /\ buckets' = [buckets EXCEPT ![key] = Append(bucket, 0)]
                     /\ \/ records' = [recs EXCEPT ![r] = NewRecord(src, b)]
                        \/ records' = recs

Create(r, src, b) == CreateExisting(r) \/ CreateBusy(r, b) \/ CreateNew(r, src, b)

(* upload_envelope: only the first envelope that decrypts is stored *)
UploadAgain(v, e) ==
  IF v.state = "pending" /\ e \in ValidEnvelopes
  THEN [v EXCEPT !.replay = e, !.pin = e, !.verified = TRUE,
                 !.secrets = @ \cup {"envelope"},
                 !.ready = IF v.bound /\ v.replay = None THEN @ + 1 ELSE @]
  ELSE v
Upload(v, e) ==
  IF v.state = "pending" /\ v.replay = None /\ e \in ValidEnvelopes
  THEN [v EXCEPT !.replay = e, !.pin = e, !.verified = TRUE,
                 !.secrets = @ \cup {"envelope"},
                 !.ready = IF v.bound THEN @ + 1 ELSE @]
  ELSE v

UploadEnvelope(r, src, tokenMatches, e) ==
  /\ Authentic(records[r], src, tokenMatches)
  /\ records' = [records EXCEPT ![r] = Upload(Materialize(@), e)]
  /\ UNCHANGED buckets

(* status, and exists (which authenticates nobody) *)
Touch(r) ==
  /\ records' = [Evict(records) EXCEPT ![r] = Materialize(@)]
  /\ UNCHANGED buckets

(* cancel *)
CancelLive(v) == IF Live(v) THEN Terminate(v, "cancelled") ELSE v

Cancel(r, src, tokenMatches) ==
  /\ Authentic(Evict(records)[r], src, tokenMatches)
  /\ records' = [Evict(records) EXCEPT ![r] = CancelLive(Materialize(@))]
  /\ UNCHANGED buckets

(* pending: the desktop's poll *)
Pending ==
  /\ records' = [r \in Requests |-> Materialize(Evict(records)[r])]
  /\ UNCHANGED buckets

(* allow: approves says whether adapter.approve returns or throws *)
ApprovableUnverified(v) == v.state = "pending" /\ v.adapter # None /\ v.bound
Approvable(v) == /\ v.state = "pending" /\ v.adapter # None
                 /\ v.verified /\ v.bound

Approve(v, approves) ==
  IF approves
  THEN [v EXCEPT !.state = "approved", !.gen = @ + 1, !.pin = None,
                 !.secrets = @ \ {"envelope", "hostKey", "pairingKey"}]
  ELSE Fail([v EXCEPT !.gen = @ + 1], "legacyPairingFailed")

Allow(r, approves) ==
  /\ Present(records[r])
  /\ records' = [records EXCEPT ![r] =
       IF Approvable(Materialize(@)) THEN Approve(@, approves) ELSE Materialize(@)]
  /\ UNCHANGED buckets

(* reject *)
RejectLive(v) == IF Live(v) THEN Terminate(v, "rejected") ELSE v

Reject(r) ==
  /\ Present(records[r])
  /\ records' = [records EXCEPT ![r] = RejectLive(Materialize(@))]
  /\ UNCHANGED buckets

(* set_access_mode *)
SelectAccessLive(v, mode) == IF Live(v) THEN [v EXCEPT !.access = mode] ELSE v
SelectAccess(v, mode) ==
  IF v.state = "pending" THEN [v EXCEPT !.access = mode] ELSE v

SetAccessMode(r, mode) ==
  /\ Present(records[r])
  /\ records' = [records EXCEPT ![r] = SelectAccess(Materialize(@), mode)]
  /\ UNCHANGED buckets

(* bind_held_getservercert: a request whose source or certificate differs
   fails; another adapter in place is busy; the adapter is stored even when
   the lifetime then refuses to bind. *)
BindMatches(v, cert, src) == v.source = src /\ Cert(v) = cert
BindBusy(v, a) == v.adapter \notin {None, a}

Mismatch(v, cert) ==
  IF Live(v)
  THEN Fail(v, IF Cert(v) = cert THEN "pairSessionMissing" ELSE "certificateMismatch")
  ELSE v

BindSession(v, a) ==
  IF v.state = "pending"
  THEN [v EXCEPT !.adapter = a, !.bound = TRUE,
                 !.ready = IF v.verified /\ ~v.bound THEN @ + 1 ELSE @]
  ELSE [v EXCEPT !.adapter = a]

BindRecord(v, cert, src, a) ==
  IF ~BindMatches(v, cert, src) THEN Mismatch(v, cert)
  ELSE IF BindBusy(v, a) THEN v
  ELSE BindSession(v, a)

BindHeldGetservercert(r, cert, src, a) ==
  /\ Present(records[r])
  /\ records' = [records EXCEPT ![r] = BindRecord(Materialize(@), cert, src, a)]
  /\ UNCHANGED buckets

(* commit_paired *)
CommitsByGeneration(v, gen) == v.gen = gen
Commits(v, gen) == v.state = "approved" /\ v.gen = gen

CommitPaired(r, gen) ==
  /\ Present(records[r])
  /\ records' = [records EXCEPT ![r] =
                   IF Commits(@, gen) THEN Terminate(@, "paired") ELSE @]
  /\ UNCHANGED buckets

(* fail_pairing *)
FailPairing(r, gen) ==
  /\ Present(records[r])
  /\ records' = [records EXCEPT ![r] =
                   IF Live(@) /\ @.gen = gen THEN Fail(@, "legacyPairingFailed") ELSE @]
  /\ UNCHANGED buckets

(* clear_for_restart *)
ClearForRestart ==
  /\ records' = [r \in Requests |-> NoRecord]
  /\ UNCHANGED buckets

(* The steady clock advances. *)
Older(v) ==
  [v EXCEPT !.ttl = IF @ > 0 THEN @ - 1 ELSE 0,
            !.age = IF v.stamped /\ @ < CacheLifetime THEN @ + 1 ELSE @]

Tick ==
  /\ records' = [r \in Requests |-> Older(records[r])]
  /\ buckets' = [k \in RateKeys |->
       [i \in 1..Len(buckets[k]) |->
          IF buckets[k][i] < RateWindow THEN buckets[k][i] + 1 ELSE RateWindow]]

Next ==
  \/ \E r \in Requests, src \in Sources, b \in Bodies : Create(r, src, b)
  \/ \E r \in Requests, src \in Sources, t \in BOOLEAN, e \in Envelopes :
       UploadEnvelope(r, src, t, e)
  \/ \E r \in Requests : Touch(r)
  \/ \E r \in Requests, src \in Sources, t \in BOOLEAN : Cancel(r, src, t)
  \/ Pending
  \/ \E r \in Requests, ok \in BOOLEAN : Allow(r, ok)
  \/ \E r \in Requests : Reject(r)
  \/ \E r \in Requests, m \in AccessModes : SetAccessMode(r, m)
  \/ \E r \in Requests, c \in Certs, src \in Sources, a \in Adapters :
       BindHeldGetservercert(r, c, src, a)
  \/ \E r \in Requests, g \in Generations : CommitPaired(r, g)
  \/ \E r \in Requests, g \in Generations : FailPairing(r, g)
  \/ ClearForRestart
  \/ Tick

Spec == Init /\ [][Next]_vars

(* Time passes, and the desktop keeps polling the pending list. *)
FairSpec == Spec /\ WF_vars(Pending) /\ WF_vars(Tick)

-----------------------------------------------------------------------------
(* Properties *)

\* Every record and bucket is well formed.
TypeOK ==
  /\ records \in [Requests -> Record]
  /\ buckets \in [RateKeys -> Seq(0..RateWindow)]

\* create() never opens a second request for a certificate that still has a
\* pending or approved one, although it judges the others by their recorded
\* state without materializing their expiry.
OneLiveRequestPerCertificate ==
  \A r, s \in Requests :
    (Live(records[r]) /\ Live(records[s]) /\ Cert(records[r]) = Cert(records[s]))
      => r = s

\* A request reaches approved or paired only with a verified envelope and a
\* held pair session, and readiness was announced exactly once, whichever of
\* the two arrived last and however often each was repeated.
ApprovalFollowsReadiness ==
  \A r \in Requests :
    LET v == records[r]
    IN  /\ v.state \in {"approved", "paired"} =>
             v.verified /\ v.bound /\ v.adapter # None
        /\ v.ready = IF v.verified /\ v.bound THEN 1 ELSE 0

\* Key material lives exactly as long as it is needed: all of it while the
\* request is pending, only the bearer token once the PIN was handed over, and
\* nothing in the terminal cache, whichever of the terminal paths was taken.
\* The PIN held is always the one of the envelope the replay guard remembers.
SecretsFollowState ==
  \A r \in Requests :
    LET v == records[r]
    IN  /\ v.state = "pending" => {"token", "hostKey", "pairingKey"} \subseteq v.secrets
        /\ v.state = "approved" => v.secrets = {"token"}
        /\ v.state = "pending" => v.pin = v.replay
        /\ v.state # "pending" => v.pin = None
        /\ (Terminal(v) \/ ~Present(v)) => v.secrets = {}
        /\ v.verified <=> v.replay # None

\* The status projection carries a failure code exactly in state failed, and
\* every terminal record is stamped, so that evict() can find it.
FailureOnlyWhenFailed ==
  \A r \in Requests :
    LET v == records[r]
    IN  /\ (v.failure # None) <=> (v.state = "failed")
        /\ v.stamped <=> Terminal(v)

\* No bucket holds more creates than the limit, and its oldest entry is first,
\* which pruning from the front relies on.
RateBucketBounded ==
  \A k \in RateKeys :
    /\ Len(buckets[k]) <= RateLimit
    /\ \A i, j \in 1..Len(buckets[k]) : i <= j => buckets[k][j] <= buckets[k][i]

\* The record of r is neither replaced nor dropped by this step.
Survives(r) ==
  /\ Present(records[r]) /\ ~Evictable(records[r])
  /\ records' # [s \in Requests |-> NoRecord]

\* Once terminal, a request keeps its outcome, generation and readiness until
\* its cache time is over or the service restarts: late envelopes, binds,
\* approvals, commits and failures find it closed.
TerminalIsFinal ==
  \A r \in Requests :
    (Terminal(records[r]) /\ Survives(r)) =>
      /\ records'[r].state = records[r].state
      /\ records'[r].gen = records[r].gen
      /\ records'[r].ready = records[r].ready
      /\ records'[r].failure = records[r].failure

\* The monotonic deadline decides: nothing is approved, rejected or cancelled
\* once it has passed, and nothing expires before.
DeadlineDecides ==
  \A r \in Requests :
    (Survives(r) /\ records'[r].state # records[r].state) =>
      /\ records'[r].state \in {"approved", "rejected", "cancelled"} =>
           records[r].ttl > 0
      /\ records'[r].state = "expired" => records[r].ttl = 0

\* What the person at the host reviews is what is used: after the first valid
\* envelope no other one replaces it, the deadline never moves out, and
\* neither the identity of the request nor, once approved, the access mode
\* changes.
ReviewedRequestIsFixed ==
  \A r \in Requests :
    Survives(r) =>
      /\ records[r].replay # None => records'[r].replay = records[r].replay
      /\ records'[r].source = records[r].source
      /\ records'[r].body = records[r].body
      /\ records'[r].ttl <= records[r].ttl
      /\ records[r].state # "pending" => records'[r].access = records[r].access

\* The generation only grows, and it grows exactly when the state changes, so
\* a continuation holding an old generation can always be told apart.
GenerationTracksState ==
  \A r \in Requests :
    Survives(r) =>
      /\ records'[r].gen >= records[r].gen
      /\ records'[r].gen = records[r].gen <=> records'[r].state = records[r].state

Count(bucket, a) == Cardinality({i \in 1..Len(bucket) : bucket[i] = a})

\* A create that was charged stays charged for a whole rate window: except by
\* growing older, no entry younger than the window leaves its bucket.
RateTokensAgeOut ==
  \A k \in RateKeys :
    \/ \A a \in 0..(RateWindow - 1) :
         Count(buckets'[k], a) >= Count(buckets[k], a)
    \/ \A i \in 1..Len(buckets[k]) :
         buckets'[k][i] > buckets[k][i] \/ buckets[k][i] = RateWindow

\* The records and buckets of the service are consistent after every call: all
\* of the state invariants above.
ServiceConsistent ==
  /\ TypeOK
  /\ ApprovalFollowsReadiness
  /\ SecretsFollowState
  /\ FailureOnlyWhenFailed
  /\ RateBucketBounded

\* No call of the service rewrites what an earlier one has decided: all of the
\* step properties above.
HistoryHolds ==
  [][/\ TerminalIsFinal
     /\ DeadlineDecides
     /\ ReviewedRequestIsFixed
     /\ GenerationTracksState
     /\ RateTokensAgeOut]_vars

\* The service implements the ledger of requests it promises.
LedgerStatus == [r \in Requests |-> records[r].state]
LedgerCert == [r \in Requests |-> IF Present(records[r]) THEN Cert(records[r]) ELSE None]
Ledger == INSTANCE PairingLedger WITH status <- LedgerStatus, cert <- LedgerCert
ImplementsLedger == Ledger!Spec

\* While the desktop polls, every request comes to an end ...
LiveRequestEnds ==
  \A r \in Requests : Live(records[r]) ~> ~Live(records[r])

\* ... and every ended request leaves the cache.
TerminalRequestForgotten ==
  \A r \in Requests : Terminal(records[r]) ~> ~Terminal(records[r])

\* No request and no cached outcome stays for ever.
RequestsRunOut == LiveRequestEnds /\ TerminalRequestForgotten
=============================================================================
