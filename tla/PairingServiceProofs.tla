------------------------ MODULE PairingServiceProofs ------------------------
(***************************************************************************)
(* Proofs about PairingService, for every set of requests, certificates,   *)
(* sources and envelopes and every service_config.                         *)
(*                                                                         *)
(* RecordInv is what each record satisfies on its own; Moves relates a     *)
(* record before and after a call.  One lemma per record transformer of    *)
(* the service shows Moves; StepSummary lifts them to the actions and says *)
(* that a step moves every record, opens one request, or restarts.  The    *)
(* theorems follow from that summary.                                      *)
(***************************************************************************)
EXTENDS PairingService, FiniteSetTheorems, SequenceTheorems, TLAPS

RecordInv(v) ==
  /\ v \in Record
  /\ ~Present(v) => v = NoRecord
  /\ Present(v) => v.source \in Sources /\ v.body \in Bodies
  /\ v.state = "pending" =>
       /\ {"token", "hostKey", "pairingKey"} \subseteq v.secrets
       /\ v.pin = v.replay
  /\ v.state = "approved" => v.secrets = {"token"}
  /\ v.state # "pending" => v.pin = None
  /\ ~Live(v) => v.secrets = {}
  /\ v.verified <=> v.replay # None
  /\ v.bound => v.adapter # None
  /\ v.state \in {"approved", "paired"} => v.verified /\ v.bound
  /\ v.ready = IF v.verified /\ v.bound THEN 1 ELSE 0
  /\ (v.failure # None) <=> (v.state = "failed")
  /\ v.stamped <=> Terminal(v)

Moves(v, w) ==
  /\ RecordInv(w)
  /\ \/ w.state = v.state /\ w.body = v.body
     \/ <<v.state, w.state>> \in Ledger!Forward /\ w.body = v.body
     \/ Terminal(v) /\ w = NoRecord

\* Every record is consistent, and no certificate has two live requests.
IndInv ==
  /\ records \in [Requests -> Record]
  /\ \A r \in Requests : RecordInv(records[r])
  /\ OneLiveRequestPerCertificate

-----------------------------------------------------------------------------
(* Record transformers *)

\* Terminating a record overwrites its secrets and leaves the rest.
LEMMA TerminateFields ==
  ASSUME NEW v \in Record, NEW t \in TerminalStates
  PROVE  /\ Terminate(v, t) \in Record
         /\ Terminate(v, t).state = t
         /\ Terminate(v, t).secrets = {} /\ Terminate(v, t).pin = None
         /\ Terminate(v, t).stamped
         /\ \A f \in {"ttl", "source", "body", "verified", "bound", "ready",
                      "replay", "adapter", "failure", "access"} :
               Terminate(v, t)[f] = v[f]
<1>1. v.gen + 1 \in Nat
  BY DEF Record
<1>2. 0 \in Ages
  BY ServiceConfig DEF Ages
<1> QED
  BY <1>1, <1>2 DEF Record, Terminate, CleanupTerminal

\* A live record may end in any outcome but paired and failed, and an approved
\* one may be paired.
LEMMA TerminateMoves ==
  ASSUME NEW v, RecordInv(v), Live(v), NEW t \in TerminalStates \ {"failed"},
         t = "paired" => v.state = "approved"
  PROVE  Moves(v, Terminate(v, t))
<1>1. v \in Record /\ t \in TerminalStates
  BY DEF RecordInv
<1>2. RecordInv(Terminate(v, t))
  BY <1>1, TerminateFields
  DEF RecordInv, Live, LiveStates, Present, Terminal, TerminalStates
<1>3. <<v.state, t>> \in Ledger!Forward
  BY DEF Ledger!Forward, Ledger!LiveStatus, Ledger!Outcomes, Live, LiveStates,
         TerminalStates
<1> QED
  BY <1>1, <1>2, <1>3, TerminateFields DEF Moves

\* A live record may fail.
LEMMA FailMoves ==
  ASSUME NEW v, RecordInv(v), Live(v), NEW why \in Failures
  PROVE  Moves(v, Fail(v, why))
<1> DEFINE u == Terminate(v, "failed")
           w == Fail(v, why)
<1>1. v \in Record /\ "failed" \in TerminalStates
  BY DEF RecordInv, TerminalStates
<1>2. /\ u \in Record /\ u.state = "failed" /\ u.secrets = {} /\ u.pin = None
      /\ u.stamped
      /\ u.source = v.source /\ u.body = v.body /\ u.verified = v.verified
      /\ u.bound = v.bound /\ u.ready = v.ready /\ u.replay = v.replay
      /\ u.adapter = v.adapter
  BY <1>1, TerminateFields
<1>3. w = [u EXCEPT !.failure = why]
  BY DEF Fail
<1> HIDE DEF u, w
<1>4. /\ w \in Record /\ w.failure = why
      /\ \A f \in {"state", "secrets", "pin", "stamped", "source", "body", "verified",
                    "bound", "ready", "replay", "adapter"} : w[f] = u[f]
  BY <1>2, <1>3 DEF Record
<1>5. /\ w.state = "failed" /\ w.secrets = {} /\ w.pin = None /\ w.stamped
      /\ w.source = v.source /\ w.body = v.body /\ w.verified = v.verified
      /\ w.bound = v.bound /\ w.ready = v.ready /\ w.replay = v.replay
      /\ w.adapter = v.adapter
  BY <1>2, <1>4
<1>6. why # None
  BY ServiceConfig DEF Failures
<1>7. RecordInv(w)
  BY <1>4, <1>5, <1>6 DEF RecordInv, Live, LiveStates, Present, Terminal, TerminalStates
<1>8. <<v.state, "failed">> \in Ledger!Forward
  BY DEF Ledger!Forward, Ledger!LiveStatus, Ledger!Outcomes, Live, LiveStates
<1> QED
  BY <1>5, <1>7, <1>8 DEF Moves, w

\* A record may stay as it is.
LEMMA StayMoves ==
  ASSUME NEW v, RecordInv(v)
  PROVE  Moves(v, v)
  BY DEF Moves

\* The absent record is consistent.
LEMMA NoRecordInv == RecordInv(NoRecord)
<1>1. 0 \in Ttls /\ 0 \in Ages
  BY ServiceConfig DEF Ttls, Ages
<1>2. NoRecord \in Record
  BY <1>1 DEF NoRecord, Record, AccessModes
<1> QED
  BY <1>2 DEF RecordInv, NoRecord, Present, Live, LiveStates, Terminal, TerminalStates

\* A new request is consistent.
LEMMA NewRecordInv ==
  ASSUME NEW src \in Sources, NEW b \in Bodies
  PROVE  /\ RecordInv(NewRecord(src, b))
         /\ NewRecord(src, b).state = "pending"
         /\ NewRecord(src, b).body = b
<1>1. 0 \in Ages /\ RequestLifetime \in Ttls
  BY ServiceConfig DEF Ttls, Ages
<1>2. NewRecord(src, b) \in Record
  BY <1>1 DEF NewRecord, NoRecord, Record, AccessModes, LiveStates, Secrets
<1> QED
  BY <1>2 DEF RecordInv, NewRecord, NoRecord, Present, Live, LiveStates, Terminal,
              TerminalStates

\* materialize_expiry and evict.
LEMMA MaterializeMoves ==
  ASSUME NEW v, RecordInv(v)
  PROVE  Moves(v, Materialize(v))
<1>1. "expired" \in TerminalStates \ {"failed"}
  BY DEF TerminalStates
<1> QED
  BY <1>1, TerminateMoves, StayMoves DEF Materialize, Expiring

LEMMA EvictMoves ==
  ASSUME NEW v, RecordInv(v)
  PROVE  Moves(v, IF Evictable(v) THEN NoRecord ELSE v)
  BY NoRecordInv, StayMoves DEF Moves, Evictable, RecordInv

\* evict then materialize_expiry.
LEMMA EvictMaterializeMoves ==
  ASSUME NEW v, RecordInv(v)
  PROVE  Moves(v, Materialize(IF Evictable(v) THEN NoRecord ELSE v))
<1>1. Materialize(NoRecord) = NoRecord
  BY DEF Materialize, Expiring, Live, LiveStates, NoRecord
<1> QED
  BY <1>1, EvictMoves, MaterializeMoves

\* A materialized record is live only if it was not touched.
LEMMA MaterializeLive ==
  ASSUME NEW v, RecordInv(v), Live(Materialize(v))
  PROVE  Materialize(v) = v
<1>1. SUFFICES ASSUME Expiring(v) PROVE FALSE
  BY DEF Materialize
<1>2. v \in Record /\ "expired" \in TerminalStates
  BY DEF RecordInv, TerminalStates
<1>3. Materialize(v).state = "expired"
  BY <1>1, <1>2, TerminateFields DEF Materialize
<1> QED
  BY <1>3 DEF Live, LiveStates

\* upload_envelope.
LEMMA UploadMoves ==
  ASSUME NEW v, RecordInv(v), NEW e \in Envelopes
  PROVE  Moves(v, Upload(Materialize(v), e))
<1>0. v \in Record
  BY DEF RecordInv
<1>1. CASE ~(Materialize(v).state = "pending" /\ Materialize(v).replay = None
             /\ e \in ValidEnvelopes)
  BY <1>1, MaterializeMoves DEF Upload
<1>2. CASE Materialize(v).state = "pending" /\ Materialize(v).replay = None
           /\ e \in ValidEnvelopes
  <2> DEFINE n == IF v.bound THEN v.ready + 1 ELSE v.ready
             s == v.secrets \cup {"envelope"}
             w == [v EXCEPT !.replay = e, !.pin = e, !.verified = TRUE,
                            !.secrets = s, !.ready = n]
  <2>1. Materialize(v) = v
    BY <1>2, MaterializeLive DEF Live, LiveStates
  <2>2. Upload(Materialize(v), e) = w
    BY <1>2, <2>1 DEF Upload
  <2>3. v.verified = FALSE /\ v.ready = 0
    BY <1>2, <2>1 DEF RecordInv, Record
  <2>4. n \in Nat /\ n = IF v.bound THEN 1 ELSE 0
    BY <2>3
  <2>5. s \in SUBSET Secrets /\ {"token", "hostKey", "pairingKey"} \subseteq s
    BY <1>2, <2>1 DEF RecordInv, Record, Secrets
  <2> HIDE DEF n, s
  <2>6. w \in Record
    BY <1>0, <2>4, <2>5, ZenonT(40) DEF Record
  <2>7. /\ w.replay = e /\ w.pin = e /\ w.verified /\ w.secrets = s /\ w.ready = n
        /\ \A f \in {"state", "source", "body", "bound", "adapter", "failure",
                      "stamped"} : w[f] = v[f]
    BY <1>0 DEF Record
  <2> HIDE DEF w
  <2>8. e # None
    BY ServiceConfig
  <2>9. RecordInv(w)
    BY <1>2, <2>1, <2>4, <2>5, <2>6, <2>8, <2>7
    DEF RecordInv, Live, LiveStates, Present, Terminal, TerminalStates
  <2> QED
    BY <2>2, <2>9, <2>7 DEF Moves
<1> QED
  BY <1>1, <1>2

\* cancel and reject.
LEMMA CancelMoves ==
  ASSUME NEW v, RecordInv(v)
  PROVE  Moves(v, CancelLive(Materialize(v)))
<1>1. "cancelled" \in TerminalStates \ {"failed"}
  BY DEF TerminalStates
<1> QED
  BY <1>1, MaterializeMoves, MaterializeLive, TerminateMoves DEF CancelLive

LEMMA RejectMoves ==
  ASSUME NEW v, RecordInv(v)
  PROVE  Moves(v, RejectLive(Materialize(v)))
<1>1. "rejected" \in TerminalStates \ {"failed"}
  BY DEF TerminalStates
<1> QED
  BY <1>1, MaterializeMoves, MaterializeLive, TerminateMoves DEF RejectLive

\* set_access_mode.
LEMMA SelectAccessMoves ==
  ASSUME NEW v, RecordInv(v), NEW m \in AccessModes
  PROVE  Moves(v, SelectAccess(Materialize(v), m))
<1>0. v \in Record
  BY DEF RecordInv
<1>1. CASE Materialize(v).state # "pending"
  BY <1>1, MaterializeMoves DEF SelectAccess
<1>2. CASE Materialize(v).state = "pending"
  <2> DEFINE w == [v EXCEPT !.access = m]
  <2>1. Materialize(v) = v
    BY <1>2, MaterializeLive DEF Live, LiveStates
  <2>2. SelectAccess(Materialize(v), m) = w
    BY <1>2, <2>1 DEF SelectAccess
  <2>3. /\ w \in Record
        /\ \A f \in {"state", "source", "body", "verified", "bound", "ready",
                      "replay", "pin", "secrets", "adapter", "failure", "stamped"} :
              w[f] = v[f]
    BY <1>0 DEF Record
  <2> HIDE DEF w
  <2>4. RecordInv(w)
    BY <1>2, <2>1, <2>3 DEF RecordInv, Live, LiveStates, Present, Terminal, TerminalStates
  <2> QED
    BY <2>2, <2>3, <2>4 DEF Moves
<1> QED
  BY <1>1, <1>2

\* allow, with an adapter that returns or throws.
LEMMA ApproveMoves ==
  ASSUME NEW v, RecordInv(v), Approvable(v), NEW ok \in BOOLEAN
  PROVE  Moves(v, Approve(v, ok))
<1>0. v \in Record
  BY DEF RecordInv
<1>1. CASE ok
  <2> DEFINE g == v.gen + 1
             s == v.secrets \ {"envelope", "hostKey", "pairingKey"}
             w == [v EXCEPT !.state = "approved", !.gen = g, !.pin = None,
                            !.secrets = s]
  <2>1. Approve(v, ok) = w
    BY <1>1 DEF Approve
  <2>2. g \in Nat
    BY DEF RecordInv, Record
  <2>3. s = {"token"} /\ s \in SUBSET Secrets
    BY DEF RecordInv, Record, Secrets, Approvable
  <2> HIDE DEF g, s
  <2>4. /\ w \in Record /\ w.state = "approved" /\ w.pin = None /\ w.secrets = s
        /\ w.source = v.source /\ w.body = v.body /\ w.verified = v.verified
        /\ w.bound = v.bound /\ w.ready = v.ready /\ w.replay = v.replay
        /\ w.adapter = v.adapter /\ w.failure = v.failure /\ w.stamped = v.stamped
    BY <1>0, <2>2, <2>3, ZenonT(40) DEF Record, LiveStates
  <2> HIDE DEF w
  <2>5. RecordInv(w)
    BY <2>3, <2>4
    DEF RecordInv, Approvable, Live, LiveStates, Present, Terminal, TerminalStates
  <2>6. <<v.state, w.state>> \in Ledger!Forward
    BY <2>4 DEF Approvable, Ledger!Forward
  <2> QED
    BY <2>1, <2>4, <2>5, <2>6 DEF Moves
<1>2. CASE ~ok
  <2> DEFINE g == v.gen + 1
             u == [v EXCEPT !.gen = g]
  <2>1. Approve(v, ok) = Fail(u, "legacyPairingFailed")
    BY <1>2 DEF Approve
  <2>2. g \in Nat
    BY DEF RecordInv, Record
  <2> HIDE DEF g
  <2>3. /\ u \in Record
        /\ \A f \in {"state", "source", "body", "verified", "bound", "ready",
                      "replay", "pin", "secrets", "adapter", "failure", "stamped"} :
              u[f] = v[f]
    BY <1>0, <2>2 DEF Record
  <2> HIDE DEF u
  <2>4. RecordInv(u) /\ Live(u) /\ u.state = v.state /\ u.body = v.body
    BY <2>3
    DEF RecordInv, Approvable, Live, LiveStates, Present, Terminal, TerminalStates
  <2>5. Moves(u, Fail(u, "legacyPairingFailed"))
    BY <2>4, FailMoves DEF Failures
  <2> QED
    BY <2>1, <2>4, <2>5 DEF Moves, Live, LiveStates, Terminal, TerminalStates
<1> QED
  BY <1>1, <1>2

\* bind_held_getservercert.
LEMMA BindSessionMoves ==
  ASSUME NEW v, RecordInv(v), Present(v), NEW a \in Adapters
  PROVE  Moves(v, BindSession(v, a))
<1>0. v \in Record
  BY DEF RecordInv
<1>1. a # None
  BY ServiceConfig
<1>2. CASE v.state = "pending"
  <2> DEFINE n == IF v.verified /\ ~v.bound THEN v.ready + 1 ELSE v.ready
             w == [v EXCEPT !.adapter = a, !.bound = TRUE, !.ready = n]
  <2>1. BindSession(v, a) = w
    BY <1>2 DEF BindSession
  <2>2. n \in Nat
    BY DEF RecordInv, Record
  <2>3. n = IF v.verified THEN 1 ELSE 0
    BY DEF RecordInv, Record
  <2> HIDE DEF n
  <2>4. w \in Record
    BY <1>0, <2>2 DEF Record
  <2>5. /\ w.adapter = a /\ w.bound /\ w.ready = n
        /\ \A f \in {"state", "source", "body", "verified", "replay", "pin",
                      "secrets", "failure", "stamped"} : w[f] = v[f]
    BY <1>0 DEF Record
  <2> HIDE DEF w
  <2>6. RecordInv(w)
    BY <1>1, <1>2, <2>3, <2>4, <2>5
    DEF RecordInv, Live, LiveStates, Present, Terminal, TerminalStates
  <2> QED
    BY <2>1, <2>5, <2>6 DEF Moves
<1>3. CASE v.state # "pending"
  <2> DEFINE w == [v EXCEPT !.adapter = a]
  <2>1. BindSession(v, a) = w
    BY <1>3 DEF BindSession
  <2>2. /\ w \in Record /\ w.adapter = a
        /\ \A f \in {"state", "source", "body", "verified", "bound", "ready",
                      "replay", "pin", "secrets", "failure", "stamped"} : w[f] = v[f]
    BY <1>0 DEF Record
  <2> HIDE DEF w
  <2>3. RecordInv(w)
    BY <1>1, <1>3, <2>2
    DEF RecordInv, Live, LiveStates, Present, Terminal, TerminalStates
  <2> QED
    BY <2>1, <2>2, <2>3 DEF Moves
<1> QED
  BY <1>2, <1>3

LEMMA BindMoves ==
  ASSUME NEW v, RecordInv(v), Present(v), NEW c \in Certs, NEW src \in Sources,
         NEW a \in Adapters
  PROVE  Moves(v, BindRecord(Materialize(v), c, src, a))
<1> DEFINE m == Materialize(v)
<1>1. Moves(v, m) /\ RecordInv(m)
  BY MaterializeMoves DEF Moves
<1>2. Live(m) => m = v
  BY MaterializeLive
<1>3. Moves(v, Mismatch(m, c))
  <2>1. CASE Live(m)
    BY <2>1, <1>2, FailMoves DEF Mismatch, Failures
  <2>2. CASE ~Live(m)
    BY <2>2, <1>1 DEF Mismatch
  <2> QED
    BY <2>1, <2>2
<1>4. Moves(v, BindSession(m, a))
  <2>1. CASE Live(v) /\ ~Live(m)
    <3>1. Expiring(v) /\ m.state = "expired" /\ m.body = v.body
      BY <2>1, TerminateFields DEF Materialize, RecordInv, TerminalStates
    <3>2. Moves(m, BindSession(m, a))
      BY <1>1, <3>1, BindSessionMoves DEF Present
    <3>3. BindSession(m, a).state = "expired" /\ BindSession(m, a).body = v.body
      BY <1>1, <3>1 DEF BindSession, RecordInv, Record
    <3>4. <<v.state, "expired">> \in Ledger!Forward
      BY <2>1 DEF Ledger!Forward, Ledger!LiveStatus, Ledger!Outcomes, Live, LiveStates
    <3> QED
      BY <3>2, <3>3, <3>4 DEF Moves
  <2>2. CASE ~(Live(v) /\ ~Live(m))
    <3>1. m = v
      BY <1>2, <2>2 DEF Materialize, Expiring
    <3> QED
      BY <3>1, BindSessionMoves
  <2> QED
    BY <2>1, <2>2
<1> QED
  BY <1>1, <1>3, <1>4 DEF BindRecord

\* The clock.
LEMMA OlderMoves ==
  ASSUME NEW v, RecordInv(v)
  PROVE  Moves(v, Older(v))
<1>0. v \in Record
  BY DEF RecordInv
<1> DEFINE t == IF v.ttl > 0 THEN v.ttl - 1 ELSE 0
           a == IF v.stamped /\ v.age < CacheLifetime THEN v.age + 1 ELSE v.age
           w == [v EXCEPT !.ttl = t, !.age = a]
<1>1. Older(v) = w
  BY DEF Older
<1>2. t \in Ttls
  BY ServiceConfig DEF RecordInv, Record, Ttls
<1>3. a \in Ages
  BY ServiceConfig DEF RecordInv, Record, Ages
<1>4. ~Present(v) => t = v.ttl /\ a = v.age
  BY DEF RecordInv, NoRecord
<1> HIDE DEF t, a
<1>5. /\ w \in Record
      /\ \A f \in {"state", "source", "body", "verified", "bound", "ready",
                    "replay", "pin", "secrets", "adapter", "failure", "stamped"} :
            w[f] = v[f]
  BY <1>0, <1>2, <1>3 DEF Record
<1>6. ~Present(v) => w = v
  BY <1>4 DEF RecordInv, Record
<1> HIDE DEF w
<1>7. RecordInv(w)
  BY <1>5, <1>6 DEF RecordInv, Live, LiveStates, Present, Terminal, TerminalStates
<1> QED
  BY <1>1, <1>5, <1>7 DEF Moves

-----------------------------------------------------------------------------
(* Steps *)

\* What one step of the service does to its records.
AllMove == \A r \in Requests : Moves(records[r], records'[r])

Opens(r, src, b) ==
  /\ ~Live(records[r])
  /\ \A s \in Requests : Live(records[s]) => Cert(records[s]) # CertOf[b]
  /\ records'[r] = NewRecord(src, b)
  /\ \A s \in Requests \ {r} :
       records'[s] = IF Evictable(records[s]) THEN NoRecord ELSE records[s]

\* A call of the service, or none.  A pair session may present any generation
\* when it commits or fails.
ServiceCall ==
  \/ Next \/ UNCHANGED vars
  \/ \E r \in Requests, g \in Nat : CommitPaired(r, g) \/ FailPairing(r, g)

\* A step moves every record on its own, opens one request, or restarts.
LEMMA StepSummary ==
  ASSUME records \in [Requests -> Record], \A r \in Requests : RecordInv(records[r]),
         ServiceCall
  PROVE  /\ records' \in [Requests -> Record]
         /\ \/ AllMove
            \/ \E r \in Requests, src \in Sources, b \in Bodies : Opens(r, src, b)
            \/ records' = [r \in Requests |-> NoRecord]
<1> DEFINE Summary == /\ records' \in [Requests -> Record]
                      /\ \/ AllMove
                         \/ \E r \in Requests, src \in Sources, b \in Bodies :
                              Opens(r, src, b)
                         \/ records' = [r \in Requests |-> NoRecord]
<1>type. \A v, w : Moves(v, w) => w \in Record
  BY DEF Moves, RecordInv
<1>stay. \A v : RecordInv(v) => Moves(v, v)
  BY StayMoves
<1>evict. \A v : RecordInv(v) => Moves(v, IF Evictable(v) THEN NoRecord ELSE v)
  BY EvictMoves
<1>1. ASSUME NEW r \in Requests, NEW w, Moves(records[r], w),
             records' = [records EXCEPT ![r] = w]
      PROVE  Summary
  BY <1>1, <1>type, <1>stay DEF AllMove
<1>2. ASSUME NEW r \in Requests, NEW w, Moves(records[r], w),
             records' = [Evict(records) EXCEPT ![r] = w]
      PROVE  Summary
  BY <1>2, <1>type, <1>evict DEF AllMove, Evict
<1>3. ASSUME records' = Evict(records)
      PROVE  Summary
  BY <1>3, <1>type, <1>evict DEF AllMove, Evict
<1>4. ASSUME NEW r \in Requests, NEW src \in Sources, NEW b \in Bodies,
             Create(r, src, b)
      PROVE  Summary
  <2>1. CASE CreateExisting(r)
    BY <2>1, <1>2, EvictMaterializeMoves DEF CreateExisting, Evict
  <2>2. CASE CreateBusy(r, b)
    BY <2>2, <1>3 DEF CreateBusy
  <2>3. CASE CreateNew(r, src, b)
    <3>1. CASE records' = Evict(records)
      BY <3>1, <1>3
    <3>2. CASE records' = [Evict(records) EXCEPT ![r] = NewRecord(src, b)]
      <4>1. ~Present(Evict(records)[r]) /\ ~Busy(Evict(records), b)
        BY <2>3 DEF CreateNew
      <4>2. \A s \in Requests : Live(records[s]) => Evict(records)[s] = records[s]
        BY DEF Evict, Evictable, RecordInv, Live, LiveStates, Terminal, TerminalStates
      <4>3. ~Live(records[r])
        BY <4>1, <4>2 DEF Present, Live, LiveStates
      <4>4. \A s \in Requests : Live(records[s]) => Cert(records[s]) # CertOf[b]
        BY <4>1, <4>2 DEF Busy
      <4>5. Opens(r, src, b)
        BY <3>2, <4>3, <4>4 DEF Opens, Evict
      <4> QED
        BY <3>2, <4>5, <1>type, <1>evict, NewRecordInv DEF Evict, RecordInv
    <3> QED
      BY <2>3, <3>1, <3>2 DEF CreateNew
  <2> QED
    BY <1>4, <2>1, <2>2, <2>3 DEF Create
<1>5. ASSUME NEW r \in Requests, NEW src \in Sources, NEW t \in BOOLEAN,
             NEW e \in Envelopes, UploadEnvelope(r, src, t, e)
      PROVE  Summary
  BY <1>5, <1>1, UploadMoves DEF UploadEnvelope
<1>6. ASSUME NEW r \in Requests, Touch(r)
      PROVE  Summary
  BY <1>6, <1>2, EvictMaterializeMoves DEF Touch, Evict
<1>7. ASSUME NEW r \in Requests, NEW src \in Sources, NEW t \in BOOLEAN,
             Cancel(r, src, t)
      PROVE  Summary
  <2>1. Evict(records)[r] = records[r]
    BY <1>7 DEF Cancel, Authentic, Present, Evict, NoRecord
  <2> QED
    BY <1>7, <1>2, <2>1, CancelMoves DEF Cancel, Evict
<1>8. ASSUME Pending
      PROVE  Summary
  BY <1>8, <1>type, EvictMaterializeMoves DEF Pending, AllMove, Evict
<1>9. ASSUME NEW r \in Requests, NEW ok \in BOOLEAN, Allow(r, ok)
      PROVE  Summary
  <2>1. CASE Approvable(Materialize(records[r]))
    <3>1. Materialize(records[r]) = records[r]
      BY <2>1, MaterializeLive DEF Approvable, Live, LiveStates
    <3> QED
      BY <1>9, <2>1, <3>1, <1>1, ApproveMoves DEF Allow
  <2>2. CASE ~Approvable(Materialize(records[r]))
    BY <1>9, <2>2, <1>1, MaterializeMoves DEF Allow
  <2> QED
    BY <2>1, <2>2
<1>10. ASSUME NEW r \in Requests, Reject(r)
       PROVE  Summary
  BY <1>10, <1>1, RejectMoves DEF Reject
<1>11. ASSUME NEW r \in Requests, NEW m \in AccessModes, SetAccessMode(r, m)
       PROVE  Summary
  BY <1>11, <1>1, SelectAccessMoves DEF SetAccessMode
<1>12. ASSUME NEW r \in Requests, NEW c \in Certs, NEW src \in Sources,
              NEW a \in Adapters, BindHeldGetservercert(r, c, src, a)
       PROVE  Summary
  BY <1>12, <1>1, BindMoves DEF BindHeldGetservercert
<1>13. ASSUME NEW r \in Requests, NEW g, CommitPaired(r, g)
       PROVE  Summary
  <2>1. Commits(records[r], g) => Moves(records[r], Terminate(records[r], "paired"))
    BY TerminateMoves DEF Commits, Live, LiveStates, TerminalStates
  <2> QED
    BY <1>13, <2>1, <1>1, StayMoves DEF CommitPaired
<1>14. ASSUME NEW r \in Requests, NEW g, FailPairing(r, g)
       PROVE  Summary
  <2>1. Live(records[r]) => Moves(records[r], Fail(records[r], "legacyPairingFailed"))
    BY FailMoves DEF Failures
  <2> QED
    BY <1>14, <2>1, <1>1, StayMoves DEF FailPairing
<1>15. ASSUME ClearForRestart
       PROVE  Summary
  BY <1>15, NoRecordInv DEF ClearForRestart, RecordInv
<1>16. ASSUME Tick
       PROVE  Summary
  BY <1>16, <1>type, OlderMoves DEF Tick, AllMove
<1>17. ASSUME UNCHANGED vars
       PROVE  Summary
  BY <1>17, StayMoves DEF vars, AllMove
<1> QED
  BY <1>4, <1>5, <1>6, <1>7, <1>8, <1>9, <1>10, <1>11, <1>12, <1>13, <1>14, <1>15,
     <1>16, <1>17
  DEF Next, ServiceCall

-----------------------------------------------------------------------------
(* The records *)

\* A record that moves and is live was live before, for the same certificate.
LEMMA MovesLive ==
  ASSUME NEW v, NEW w, Moves(v, w), Live(w)
  PROVE  Live(v) /\ w.body = v.body
<1>1. w # NoRecord
  BY DEF Live, LiveStates, NoRecord
<1> QED
  BY <1>1 DEF Moves, Live, LiveStates, Ledger!Forward, Ledger!LiveStatus, Ledger!Outcomes

\* IndInv is inductive.
LEMMA IndInvStep ==
  ASSUME IndInv, ServiceCall
  PROVE  IndInv'
<1>1. /\ records' \in [Requests -> Record]
      /\ \/ AllMove
         \/ \E r \in Requests, src \in Sources, b \in Bodies : Opens(r, src, b)
         \/ records' = [r \in Requests |-> NoRecord]
  BY StepSummary DEF IndInv
<1>2. CASE AllMove
  <2>1. \A r \in Requests : RecordInv(records'[r])
    BY <1>2 DEF AllMove, Moves
  <2>2. ASSUME NEW r \in Requests, NEW s \in Requests, Live(records'[r]),
               Live(records'[s]), Cert(records'[r]) = Cert(records'[s])
        PROVE  r = s
    <3>1. Live(records[r]) /\ records'[r].body = records[r].body
      BY <1>2, <2>2, MovesLive DEF AllMove
    <3>2. Live(records[s]) /\ records'[s].body = records[s].body
      BY <1>2, <2>2, MovesLive DEF AllMove
    <3> QED
      BY <2>2, <3>1, <3>2 DEF IndInv, OneLiveRequestPerCertificate, Cert
  <2> QED
    BY <1>1, <2>1, <2>2 DEF IndInv, OneLiveRequestPerCertificate
<1>3. ASSUME NEW q \in Requests, NEW src \in Sources, NEW b \in Bodies,
             Opens(q, src, b)
      PROVE  IndInv'
  <2>1. \A s \in Requests \ {q} : Moves(records[s], records'[s])
    BY <1>3, EvictMoves DEF Opens, IndInv
  <2>2. /\ RecordInv(records'[q]) /\ records'[q].body = b
    BY <1>3, NewRecordInv DEF Opens
  <2>3. \A r \in Requests : RecordInv(records'[r])
    BY <2>1, <2>2 DEF Moves
  <2>4. \A s \in Requests \ {q} :
          Live(records'[s]) => Live(records[s]) /\ Cert(records'[s]) = Cert(records[s])
    BY <2>1, MovesLive DEF Cert
  <2>5. Cert(records'[q]) = CertOf[b]
    BY <2>2 DEF Cert
  <2>6. \A s \in Requests \ {q} : Live(records'[s]) => Cert(records'[s]) # CertOf[b]
    BY <1>3, <2>4 DEF Opens
  <2>7. ASSUME NEW r \in Requests, NEW s \in Requests, Live(records'[r]),
               Live(records'[s]), Cert(records'[r]) = Cert(records'[s])
        PROVE  r = s
    <3>1. CASE r = q \/ s = q
      BY <2>5, <2>6, <2>7, <3>1
    <3>2. CASE r # q /\ s # q
      BY <2>4, <2>7, <3>2 DEF IndInv, OneLiveRequestPerCertificate
    <3> QED
      BY <3>1, <3>2
  <2> QED
    BY <1>1, <2>3, <2>7 DEF IndInv, OneLiveRequestPerCertificate
<1>4. CASE records' = [r \in Requests |-> NoRecord]
  <2>1. ~Live(NoRecord)
    BY DEF Live, LiveStates, NoRecord
  <2> QED
    BY <1>1, <1>4, <2>1, NoRecordInv DEF IndInv, OneLiveRequestPerCertificate
<1> QED
  BY <1>1, <1>2, <1>3, <1>4

\* The invariant of the records holds in every state of the service.
THEOREM RecordsConsistent == Spec => []IndInv
<1>1. Init => IndInv
  <2>1. ~Live(NoRecord)
    BY DEF Live, LiveStates, NoRecord
  <2> QED
    BY <2>1, NoRecordInv DEF Init, IndInv, OneLiveRequestPerCertificate, RecordInv
<1>2. IndInv /\ [Next]_vars => IndInv'
  BY IndInvStep DEF ServiceCall
<1> QED
  BY <1>1, <1>2, PTL DEF Spec

\* create() never gives a certificate two live requests.
THEOREM OneLiveRequest == Spec => []OneLiveRequestPerCertificate
<1>1. IndInv => OneLiveRequestPerCertificate
  BY DEF IndInv
<1> QED
  BY <1>1, RecordsConsistent, PTL

\* allow() approves only a request whose envelope was verified and whose pair
\* session is held, and readiness is announced once.
THEOREM ApprovalSafe == Spec => []ApprovalFollowsReadiness
<1>1. IndInv => ApprovalFollowsReadiness
  BY DEF IndInv, ApprovalFollowsReadiness, RecordInv
<1> QED
  BY <1>1, RecordsConsistent, PTL

\* Every terminal path of the service overwrites the request's key material.
THEOREM SecretsErased == Spec => []SecretsFollowState
<1>1. IndInv => SecretsFollowState
  BY DEF IndInv, SecretsFollowState, RecordInv, Present, Live, LiveStates, Terminal,
         TerminalStates
<1> QED
  BY <1>1, RecordsConsistent, PTL

\* The projected failure is set exactly for failed requests, and exactly the
\* terminal records carry the stamp that evict() looks at.
THEOREM FailureProjection == Spec => []FailureOnlyWhenFailed
<1>1. IndInv => FailureOnlyWhenFailed
  BY DEF IndInv, FailureOnlyWhenFailed, RecordInv
<1> QED
  BY <1>1, RecordsConsistent, PTL

-----------------------------------------------------------------------------
(* The rate buckets *)

BucketOK(b) ==
  /\ b \in Seq(0..RateWindow)
  /\ Len(b) <= RateLimit
  /\ \A i, j \in 1..Len(b) : i <= j => b[j] <= b[i]

BucketsOK ==
  /\ buckets \in [RateKeys -> Seq(0..RateWindow)]
  /\ \A k \in RateKeys : BucketOK(buckets[k])

\* Dropping a prefix keeps a bucket in order.
LEMMA PruneOK ==
  ASSUME NEW b, BucketOK(b), NEW k \in 0..Len(b)
  PROVE  BucketOK(SubSeq(b, k + 1, Len(b)))
<1> DEFINE c == SubSeq(b, k + 1, Len(b))
<1>1. /\ b \in Seq(0..RateWindow) /\ Len(b) \in Nat /\ Len(b) <= RateLimit
      /\ k \in Nat /\ k <= Len(b)
  BY DEF BucketOK
<1>2. /\ c \in Seq(0..RateWindow) /\ Len(c) = Len(b) - k
      /\ \A i \in 1..(Len(b) - k) : c[i] = b[k + i]
  <2>1. b \in [1..Len(b) -> 0..RateWindow]
    BY <1>1, LenProperties
  <2>2. \A i \in (k + 1)..Len(b) : b[i] \in 0..RateWindow
    BY <1>1, <2>1
  <2>3. /\ c \in Seq(0..RateWindow)
        /\ Len(c) = IF k + 1 <= Len(b) THEN Len(b) - (k + 1) + 1 ELSE 0
        /\ \A i \in 1..(Len(b) - (k + 1) + 1) : c[i] = b[(k + 1) + i - 1]
    BY <1>1, <2>2, SubSeqProperties
  <2> HIDE DEF c
  <2>4. \A i \in Int : (k + 1) + i - 1 = k + i
    BY <1>1
  <2> QED
    BY <1>1, <2>3, <2>4
<1> HIDE DEF c
<1>3. ASSUME NEW i \in 1..Len(c), NEW j \in 1..Len(c), i <= j
      PROVE  c[j] <= c[i]
  <2>1. k + i \in 1..Len(b) /\ k + j \in 1..Len(b) /\ k + i <= k + j
    BY <1>1, <1>2, <1>3
  <2>2. b[k + j] <= b[k + i]
    BY <2>1 DEF BucketOK
  <2> QED
    BY <1>2, <1>3, <2>2
<1>4. Len(c) <= RateLimit
  BY <1>1, <1>2, ServiceConfig
<1>5. BucketOK(c)
  BY <1>2, <1>3, <1>4 DEF BucketOK
<1> QED
  BY <1>5 DEF c

\* Charging a create keeps a bucket within the limit.
LEMMA ChargeOK ==
  ASSUME NEW b, BucketOK(b), Len(b) < RateLimit
  PROVE  BucketOK(Append(b, 0))
<1> DEFINE c == Append(b, 0)
<1>1. b \in Seq(0..RateWindow) /\ Len(b) \in Nat /\ 0 \in 0..RateWindow
  BY ServiceConfig DEF BucketOK
<1>2. /\ c \in Seq(0..RateWindow) /\ Len(c) = Len(b) + 1 /\ c[Len(b) + 1] = 0
      /\ \A i \in 1..Len(b) : c[i] = b[i]
  BY <1>1
<1> HIDE DEF c
<1>3. ASSUME NEW i \in 1..Len(c), NEW j \in 1..Len(c), i <= j
      PROVE  c[j] <= c[i]
  <2>1. c[i] \in 0..RateWindow /\ c[j] \in 0..RateWindow
    BY <1>2, LenProperties
  <2>2. CASE j = Len(b) + 1
    BY <1>2, <2>1, <2>2, ServiceConfig
  <2>3. CASE j # Len(b) + 1
    <3>1. i \in 1..Len(b) /\ j \in 1..Len(b)
      BY <1>1, <1>2, <1>3, <2>3
    <3> QED
      BY <1>2, <1>3, <3>1 DEF BucketOK
  <2> QED
    BY <2>2, <2>3
<1>4. Len(c) <= RateLimit
  BY <1>1, <1>2, ServiceConfig
<1>5. BucketOK(c)
  BY <1>2, <1>3, <1>4 DEF BucketOK
<1> QED
  BY <1>5 DEF c

\* Ageing keeps a bucket in order.
LEMMA AgeOK ==
  ASSUME NEW b, BucketOK(b)
  PROVE  BucketOK([i \in 1..Len(b) |-> IF b[i] < RateWindow THEN b[i] + 1 ELSE RateWindow])
<1> DEFINE c == [i \in 1..Len(b) |-> IF b[i] < RateWindow THEN b[i] + 1 ELSE RateWindow]
<1>1. /\ b \in Seq(0..RateWindow) /\ Len(b) \in Nat
      /\ \A i \in 1..Len(b) : b[i] \in 0..RateWindow
  BY LenProperties DEF BucketOK
<1>2. \A i \in 1..Len(b) :
        (IF b[i] < RateWindow THEN b[i] + 1 ELSE RateWindow) \in 0..RateWindow
  BY <1>1, ServiceConfig
<1>3. c \in [1..Len(b) -> 0..RateWindow]
  BY <1>2
<1>4. c \in Seq(0..RateWindow) /\ Len(c) = Len(b)
  BY <1>1, <1>3, IsASeq, LenProperties
<1>5. ASSUME NEW i \in 1..Len(b), NEW j \in 1..Len(b), i <= j
      PROVE  c[j] <= c[i]
  <2>1. b[j] <= b[i]
    BY <1>5 DEF BucketOK
  <2> QED
    BY <1>1, <2>1, ServiceConfig
<1> HIDE DEF c
<1>6. BucketOK(c)
  BY <1>4, <1>5 DEF BucketOK
<1> QED
  BY <1>6 DEF c

LEMMA BucketsStep ==
  ASSUME BucketsOK, ServiceCall
  PROVE  BucketsOK'
<1>1. ASSUME NEW k \in RateKeys, NEW b, BucketOK(b), buckets' = [buckets EXCEPT ![k] = b]
      PROVE  BucketsOK'
  BY <1>1 DEF BucketsOK, BucketOK
<1>2. ASSUME NEW r \in Requests, NEW src \in Sources, NEW b \in Bodies,
             CreateNew(r, src, b)
      PROVE  BucketsOK'
  <2> DEFINE key == RateKeyOf[src]
             Rest(k) == SubSeq(buckets[key], k + 1, Len(buckets[key]))
  <2>1. key \in RateKeys
    BY ServiceConfig
  <2>2. PICK k \in 0..Len(buckets[key]) :
          \/ buckets' = [buckets EXCEPT ![key] = Rest(k)]
          \/ Len(Rest(k)) < RateLimit /\ buckets' = [buckets EXCEPT ![key] = Append(Rest(k), 0)]
    <3>1. \A b1 \in Seq(0..RateWindow) : ~AtLimit(b1) => Len(b1) < RateLimit
      BY ServiceConfig DEF AtLimit
    <3>2. \A k \in 0..Len(buckets[key]) : Rest(k) \in Seq(0..RateWindow)
      BY <2>1, PruneOK DEF BucketsOK, BucketOK
    <3> QED
      BY <1>2, <3>1, <3>2 DEF CreateNew
  <2>3. BucketOK(Rest(k))
    BY <2>1, <2>2, PruneOK DEF BucketsOK
  <2> HIDE DEF key, Rest
  <2> QED
    BY <1>1, <2>1, <2>2, <2>3, ChargeOK
<1>3. CASE Tick
  <2>1. \A k \in RateKeys :
          /\ buckets'[k] = [i \in 1..Len(buckets[k]) |->
                IF buckets[k][i] < RateWindow THEN buckets[k][i] + 1 ELSE RateWindow]
          /\ BucketOK(buckets'[k])
    BY <1>3, AgeOK DEF Tick, BucketsOK
  <2> QED
    BY <1>3, <2>1 DEF Tick, BucketsOK, BucketOK
<1>4. CASE UNCHANGED buckets
  BY <1>4 DEF BucketsOK, BucketOK
<1> QED
  BY <1>2, <1>3, <1>4
  DEF ServiceCall, Next, vars, Create, CreateExisting, CreateBusy, UploadEnvelope, Touch, Cancel,
      Pending, Allow, Reject, SetAccessMode, BindHeldGetservercert, CommitPaired,
      FailPairing, ClearForRestart

\* Records and rate buckets are always well formed.
THEOREM TypeCorrect == Spec => []TypeOK
<1>1. Init => BucketsOK
  BY ServiceConfig DEF Init, BucketsOK, BucketOK
<1>2. BucketsOK /\ [Next]_vars => BucketsOK'
  BY BucketsStep DEF ServiceCall
<1>3. IndInv /\ BucketsOK => TypeOK
  BY DEF IndInv, BucketsOK, TypeOK
<1> QED
  BY <1>1, <1>2, <1>3, RecordsConsistent, PTL DEF Spec

\* No rate bucket exceeds the configured limit, and its oldest entry is first.
THEOREM RateLimitHolds == Spec => []RateBucketBounded
<1>1. Init => BucketsOK
  BY ServiceConfig DEF Init, BucketsOK, BucketOK
<1>2. BucketsOK /\ [Next]_vars => BucketsOK'
  BY BucketsStep DEF ServiceCall
<1>3. BucketsOK => RateBucketBounded
  BY DEF BucketsOK, BucketOK, RateBucketBounded
<1> QED
  BY <1>1, <1>2, <1>3, PTL DEF Spec

-----------------------------------------------------------------------------
(* Refinement *)

\* All the state invariants of the service at once, for every set of requests,
\* sources, envelopes and adapters and every limit and lifetime.
THEOREM ServiceSafe == Spec => []ServiceConsistent
<1>1. /\ TypeOK /\ ApprovalFollowsReadiness /\ SecretsFollowState
      /\ FailureOnlyWhenFailed /\ RateBucketBounded
      => ServiceConsistent
  BY DEF ServiceConsistent
<1> QED
  BY <1>1, TypeCorrect, ApprovalSafe, SecretsErased, FailureProjection, RateLimitHolds, PTL

\* A record that moves is kept, forgotten or advanced in the ledger.
LEMMA MovesLedger ==
  ASSUME NEW r \in Requests, Moves(records[r], records'[r]), RecordInv(records[r]),
         records \in [Requests -> Record], records' \in [Requests -> Record]
  PROVE  Ledger!Kept(r) \/ Ledger!Forgotten(r) \/ Ledger!Advances(r)
<1>1. /\ LedgerStatus[r] = records[r].state
      /\ LedgerStatus'[r] = records'[r].state
  BY DEF LedgerStatus
<1>2. /\ LedgerCert[r] = IF Present(records[r]) THEN Cert(records[r]) ELSE None
      /\ LedgerCert'[r] = IF Present(records'[r]) THEN Cert(records'[r]) ELSE None
  BY DEF LedgerCert
<1>3. CASE records'[r].state = records[r].state /\ records'[r].body = records[r].body
  BY <1>1, <1>2, <1>3 DEF Ledger!Kept, Present, Cert
<1>4. CASE /\ <<records[r].state, records'[r].state>> \in Ledger!Forward
           /\ records'[r].body = records[r].body
  <2>1. Present(records[r]) /\ Present(records'[r])
    BY <1>4 DEF Present, Ledger!Forward, Ledger!LiveStatus, Ledger!Outcomes
  <2> QED
    BY <1>1, <1>2, <1>4, <2>1 DEF Ledger!Advances, Cert
<1>5. CASE Terminal(records[r]) /\ records'[r] = NoRecord
  BY <1>1, <1>2, <1>5
  DEF Ledger!Forgotten, Ledger!Outcomes, Terminal, TerminalStates, NoRecord, Present
<1> QED
  BY <1>3, <1>4, <1>5 DEF Moves

\* Every call of the service is a step of the ledger it promises, or leaves
\* the ledger unchanged.
THEOREM Refinement == Spec => ImplementsLedger
<1>1. Init => Ledger!Init
  BY DEF Init, Ledger!Init, LedgerStatus, LedgerCert, NoRecord, Present
<1>2. ASSUME IndInv, [Next]_vars
      PROVE  [Ledger!Next]_Ledger!ledger
  <2>1. /\ records \in [Requests -> Record]
        /\ \A r \in Requests : RecordInv(records[r])
        /\ records' \in [Requests -> Record]
        /\ \/ AllMove
           \/ \E r \in Requests, src \in Sources, b \in Bodies : Opens(r, src, b)
           \/ records' = [r \in Requests |-> NoRecord]
    BY <1>2, StepSummary DEF IndInv, ServiceCall
  <2>2. CASE AllMove
    BY <2>1, <2>2, MovesLedger DEF AllMove, Ledger!Next, Ledger!Settle
  <2>3. ASSUME NEW q \in Requests, NEW src \in Sources, NEW b \in Bodies,
               Opens(q, src, b)
        PROVE  Ledger!Next
    <3>1. CertOf[b] \in Certs
      BY ServiceConfig
    <3>2. LedgerStatus[q] \notin Ledger!LiveStatus
      BY <2>3 DEF Opens, LedgerStatus, Live, LiveStates, Ledger!LiveStatus
    <3>3. \A s \in Requests : LedgerStatus[s] \in Ledger!LiveStatus =>
             LedgerCert[s] # CertOf[b]
      BY <2>3 DEF Opens, LedgerStatus, LedgerCert, Live, LiveStates, Present,
                  Ledger!LiveStatus
    <3>4. LedgerStatus'[q] = "pending" /\ LedgerCert'[q] = CertOf[b]
      BY <2>3, NewRecordInv DEF Opens, LedgerStatus, LedgerCert, Present, Cert
    <3>5. ASSUME NEW s \in Requests \ {q}
          PROVE  Ledger!Kept(s) \/ Ledger!Forgotten(s)
      <4>1. CASE ~Evictable(records[s])
        <5>1. records'[s] = records[s]
          BY <2>3, <4>1 DEF Opens
        <5> QED
          BY <5>1 DEF Ledger!Kept, LedgerStatus, LedgerCert
      <4>2. CASE Evictable(records[s])
        <5>1. records'[s] = NoRecord /\ Terminal(records[s])
          BY <2>1, <2>3, <4>2 DEF Opens, RecordInv, Evictable
        <5> QED
          BY <5>1 DEF Ledger!Forgotten, Ledger!Outcomes, LedgerStatus, LedgerCert,
                      NoRecord, Present, Terminal, TerminalStates
      <4> QED
        BY <4>1, <4>2
    <3>6. Ledger!Open(q, CertOf[b])
      BY <3>2, <3>3, <3>4, <3>5 DEF Ledger!Open
    <3> QED
      BY <3>1, <3>6 DEF Ledger!Next
  <2>4. CASE records' = [r \in Requests |-> NoRecord]
    BY <2>4 DEF Ledger!Next, Ledger!Restart, LedgerStatus, LedgerCert, NoRecord, Present
  <2> QED
    BY <2>1, <2>2, <2>3, <2>4
<1> QED
  BY <1>1, <1>2, RecordsConsistent, PTL DEF Spec, ImplementsLedger, Ledger!Spec

-----------------------------------------------------------------------------
(* History: what a call may not rewrite *)

\* The state of a record changes with its generation, from a live state only,
\* and as the deadline allows.
Turns(v, w) ==
  /\ Live(v) /\ w.state # v.state /\ w.gen > v.gen
  /\ w.state \in {"approved", "rejected", "cancelled"} => v.ttl > 0
  /\ w.state = "expired" => v.ttl = 0

Stays(v, w) ==
  /\ w.state = v.state /\ w.gen = v.gen
  /\ Terminal(v) => w.ready = v.ready /\ w.failure = v.failure

\* What a call leaves of a record it does not drop.
Story(v, w) ==
  /\ w.source = v.source /\ w.body = v.body /\ w.ttl <= v.ttl
  /\ v.replay # None => w.replay = v.replay
  /\ v.state # "pending" => w.access = v.access
  /\ Stays(v, w) \/ Turns(v, w)

\* A record that is not touched keeps its story.
LEMMA StayStory ==
  ASSUME NEW v, RecordInv(v)
  PROVE  Story(v, v)
  BY ServiceConfig DEF Story, Stays, RecordInv, Record, Ttls

\* Terminating a live record advances the generation by one.
LEMMA TerminateStory ==
  ASSUME NEW v, RecordInv(v), Live(v), NEW t \in TerminalStates,
         t \in {"rejected", "cancelled"} => v.ttl > 0, t = "expired" => v.ttl = 0
  PROVE  Story(v, Terminate(v, t))
<1> DEFINE w == Terminate(v, t)
<1>1. v \in Record /\ v.gen \in Nat /\ v.ttl \in Nat
  BY ServiceConfig DEF RecordInv, Record, Ttls
<1>2. w.gen = v.gen + 1
  BY <1>1 DEF Record, Terminate, CleanupTerminal
<1>3. /\ w.state = t /\ w.source = v.source /\ w.body = v.body /\ w.ttl = v.ttl
      /\ w.replay = v.replay /\ w.access = v.access
  BY <1>1, TerminateFields
<1> HIDE DEF w
<1>4. Turns(v, w)
  BY <1>1, <1>2, <1>3 DEF Turns, Live, LiveStates, TerminalStates
<1>5. Story(v, w)
  BY <1>1, <1>3, <1>4 DEF Story
<1> QED BY <1>5 DEF w

\* So does failing it, also after allow() has advanced the generation.
LEMMA FailStory ==
  ASSUME NEW v, RecordInv(v), Live(v), NEW g \in Nat, g >= v.gen, NEW why \in Failures
  PROVE  Story(v, Fail([v EXCEPT !.gen = g], why))
<1> DEFINE u == [v EXCEPT !.gen = g]
           x == Terminate(u, "failed")
           w == [x EXCEPT !.failure = why]
<1>1. v \in Record /\ v.gen \in Nat /\ v.ttl \in Nat /\ "failed" \in TerminalStates
  BY ServiceConfig DEF RecordInv, Record, Ttls, TerminalStates
<1>2. /\ u \in Record /\ u.gen = g /\ u.source = v.source /\ u.body = v.body /\ u.ttl = v.ttl
      /\ u.replay = v.replay /\ u.access = v.access
  BY <1>1 DEF Record
<1>a. Fail([v EXCEPT !.gen = g], why) = w
  BY DEF Fail
<1> HIDE DEF u
<1>3. x.gen = g + 1
  BY <1>2 DEF Record, Terminate, CleanupTerminal
<1>4. /\ x \in Record /\ x.state = "failed" /\ x.source = v.source /\ x.body = v.body /\ x.ttl = v.ttl
      /\ x.replay = v.replay /\ x.access = v.access
  BY <1>1, <1>2, TerminateFields
<1> HIDE DEF x
<1>5. /\ w.gen = x.gen /\ w.state = x.state /\ w.source = x.source /\ w.body = x.body
      /\ w.ttl = x.ttl /\ w.replay = x.replay /\ w.access = x.access
  BY <1>4 DEF Record
<1> HIDE DEF w
<1>6. Turns(v, w)
  BY <1>1, <1>3, <1>4, <1>5 DEF Turns, Live, LiveStates
<1>7. Story(v, w)
  BY <1>1, <1>4, <1>5, <1>6 DEF Story
<1> QED BY <1>7, <1>a

LEMMA FailStoryNow ==
  ASSUME NEW v, RecordInv(v), Live(v), NEW why \in Failures
  PROVE  Story(v, Fail(v, why))
<1>1. v \in Record /\ v.gen \in Nat /\ v.gen >= v.gen
  BY DEF RecordInv, Record
<1>2. [v EXCEPT !.gen = v.gen] = v
  BY <1>1 DEF Record
<1> QED BY <1>1, <1>2, FailStory

\* materialize_expiry either closes an overdue record or finds the deadline
\* of a live one ahead.
LEMMA MaterializeStory ==
  ASSUME NEW v, RecordInv(v)
  PROVE  /\ Story(v, Materialize(v))
         /\ Materialize(v) # v => ~Live(Materialize(v)) /\ Live(v)
         /\ (Materialize(v) = v /\ Live(v)) => v.ttl > 0
<1>1. CASE Expiring(v)
  <2>1. Materialize(v) = Terminate(v, "expired") /\ v.ttl = 0 /\ Live(v) /\ "expired" \in TerminalStates
    BY <1>1 DEF Materialize, Expiring, TerminalStates
  <2>2. Materialize(v).state = "expired"
    BY <2>1, TerminateFields DEF RecordInv
  <2> QED BY <2>1, <2>2, TerminateStory DEF Live, LiveStates
<1>2. CASE ~Expiring(v)
  BY <1>2, StayStory, ServiceConfig DEF Materialize, Expiring, RecordInv, Record, Ttls
<1> QED BY <1>1, <1>2

LEMMA UploadStory ==
  ASSUME NEW v, RecordInv(v), NEW e \in Envelopes
  PROVE  Story(v, Upload(Materialize(v), e))
<1>1. CASE ~(Materialize(v).state = "pending" /\ Materialize(v).replay = None /\ e \in ValidEnvelopes)
  BY <1>1, MaterializeStory DEF Upload
<1>2. CASE Materialize(v).state = "pending" /\ Materialize(v).replay = None /\ e \in ValidEnvelopes
  <2>1. Materialize(v) = v
    BY <1>2, MaterializeLive DEF Live, LiveStates
  <2> DEFINE n == IF v.bound THEN v.ready + 1 ELSE v.ready
             s == v.secrets \cup {"envelope"}
             w == [v EXCEPT !.replay = e, !.pin = e, !.verified = TRUE,
                            !.secrets = s, !.ready = n]
  <2>2. Upload(Materialize(v), e) = w
    BY <1>2, <2>1 DEF Upload
  <2>3. v \in Record /\ v.ttl \in Nat
    BY ServiceConfig DEF RecordInv, Record, Ttls
  <2> HIDE DEF n, s
  <2>4. /\ w.state = v.state /\ w.gen = v.gen /\ w.source = v.source /\ w.body = v.body
        /\ w.ttl = v.ttl /\ w.access = v.access
    BY <2>3 DEF Record
  <2> HIDE DEF w
  <2> QED BY <1>2, <2>1, <2>2, <2>3, <2>4 DEF Story, Stays, Terminal, TerminalStates
<1> QED BY <1>1, <1>2

LEMMA SelectAccessStory ==
  ASSUME NEW v, RecordInv(v), NEW m
  PROVE  Story(v, SelectAccess(Materialize(v), m))
<1>1. CASE Materialize(v).state # "pending"
  BY <1>1, MaterializeStory DEF SelectAccess
<1>2. CASE Materialize(v).state = "pending"
  <2>1. Materialize(v) = v
    BY <1>2, MaterializeLive DEF Live, LiveStates
  <2> DEFINE w == [v EXCEPT !.access = m]
  <2>2. SelectAccess(Materialize(v), m) = w
    BY <1>2, <2>1 DEF SelectAccess
  <2>3. v \in Record /\ v.ttl \in Nat
    BY ServiceConfig DEF RecordInv, Record, Ttls
  <2>4. /\ w.state = v.state /\ w.gen = v.gen /\ w.source = v.source /\ w.body = v.body
        /\ w.ttl = v.ttl /\ w.replay = v.replay
    BY <2>3 DEF Record
  <2> HIDE DEF w
  <2> QED BY <1>2, <2>1, <2>2, <2>3, <2>4 DEF Story, Stays, Terminal, TerminalStates
<1> QED BY <1>1, <1>2

\* cancel and reject find the deadline ahead.
LEMMA EndStory ==
  ASSUME NEW v, RecordInv(v)
  PROVE  /\ Story(v, CancelLive(Materialize(v)))
         /\ Story(v, RejectLive(Materialize(v)))
<1>1. CASE Live(Materialize(v))
  <2>1. Materialize(v) = v /\ v.ttl > 0 /\ {"cancelled", "rejected"} \subseteq TerminalStates
    BY <1>1, MaterializeLive, MaterializeStory DEF TerminalStates
  <2> QED BY <1>1, <2>1, TerminateStory DEF CancelLive, RejectLive
<1>2. CASE ~Live(Materialize(v))
  BY <1>2, MaterializeStory DEF CancelLive, RejectLive
<1> QED BY <1>1, <1>2

\* allow.
LEMMA ApproveStory ==
  ASSUME NEW v, RecordInv(v), Approvable(v), v.ttl > 0, NEW ok \in BOOLEAN
  PROVE  /\ Story(v, Approve(v, ok))
         /\ Approve(v, ok).state = "approved" => Approve(v, ok).access = v.access
<1>0. v \in Record /\ v.ttl \in Nat /\ v.gen \in Nat /\ v.state = "pending" /\ Live(v)
  BY ServiceConfig DEF RecordInv, Record, Ttls, Approvable, Live, LiveStates
<1>1. CASE ok
  <2> DEFINE g == v.gen + 1
             s == v.secrets \ {"envelope", "hostKey", "pairingKey"}
             w == [v EXCEPT !.state = "approved", !.gen = g, !.pin = None, !.secrets = s]
  <2>1. Approve(v, ok) = w
    BY <1>1 DEF Approve
  <2>2. g > v.gen BY <1>0
  <2> HIDE DEF g, s
  <2>3. /\ w.state = "approved" /\ w.gen = g /\ w.source = v.source /\ w.body = v.body
        /\ w.ttl = v.ttl /\ w.replay = v.replay /\ w.access = v.access
    BY <1>0 DEF Record
  <2> HIDE DEF w
  <2> QED BY <1>0, <2>1, <2>2, <2>3 DEF Story, Turns
<1>2. CASE ~ok
  <2>1. v.gen + 1 \in Nat /\ v.gen + 1 >= v.gen /\ "legacyPairingFailed" \in Failures
    BY <1>0 DEF Failures
  <2>2. Approve(v, ok) = Fail([v EXCEPT !.gen = v.gen + 1], "legacyPairingFailed")
    BY <1>2 DEF Approve
  <2>3. Story(v, Fail([v EXCEPT !.gen = v.gen + 1], "legacyPairingFailed"))
    BY <1>0, <2>1, FailStory
  <2>4. Approve(v, ok).state = "failed"
    <3>1. [v EXCEPT !.gen = v.gen + 1] \in Record /\ "failed" \in TerminalStates
      BY <1>0, <2>1 DEF Record, TerminalStates
    <3> QED BY <2>2, <3>1, TerminateFields DEF Fail, Record
  <2> QED BY <2>2, <2>3, <2>4
<1> QED BY <1>1, <1>2

LEMMA AllowStory ==
  ASSUME NEW v, RecordInv(v), NEW ok \in BOOLEAN
  PROVE  LET m == Materialize(v)
             w == IF Approvable(m) THEN Approve(v, ok) ELSE m
         IN  Story(v, w) /\ (w.state = "approved" => w.access = v.access)
<1>1. CASE Approvable(Materialize(v))
  <2>1. Materialize(v) = v /\ v.ttl > 0
    BY <1>1, MaterializeLive, MaterializeStory DEF Approvable, Live, LiveStates
  <2> QED BY <1>1, <2>1, ApproveStory
<1>2. CASE ~Approvable(Materialize(v))
  <2>1. Materialize(v).state = "approved" => Materialize(v) = v
    BY MaterializeLive DEF Live, LiveStates
  <2> QED BY <1>2, <2>1, MaterializeStory
<1> QED BY <1>1, <1>2

\* bind_held_getservercert.
LEMMA BindSessionStory ==
  ASSUME NEW v, v \in Record, NEW a
  PROVE  LET w == BindSession(v, a)
         IN  /\ w.source = v.source /\ w.body = v.body /\ w.ttl = v.ttl
             /\ w.replay = v.replay /\ w.access = v.access
             /\ w.state = v.state /\ w.gen = v.gen /\ w.failure = v.failure
             /\ Terminal(v) => w.ready = v.ready
<1> DEFINE n == IF v.verified /\ ~v.bound THEN v.ready + 1 ELSE v.ready
<1>1. BindSession(v, a) \in {[v EXCEPT !.adapter = a, !.bound = TRUE, !.ready = n], [v EXCEPT !.adapter = a]}
  BY DEF BindSession
<1>2. Terminal(v) => BindSession(v, a) = [v EXCEPT !.adapter = a]
  BY DEF BindSession, Terminal, TerminalStates
<1> HIDE DEF n
<1> QED BY <1>1, <1>2 DEF Record

LEMMA BindStory ==
  ASSUME NEW v, RecordInv(v), NEW c, NEW src, NEW a
  PROVE  Story(v, BindRecord(Materialize(v), c, src, a))
<1> DEFINE m == Materialize(v)
<1>1. CASE ~BindMatches(m, c, src)
  <2>1. CASE Live(m)
    <3>1. m = v BY <2>1, MaterializeLive
    <3> QED BY <1>1, <2>1, <3>1, FailStoryNow DEF BindRecord, Mismatch, Failures
  <2>2. CASE ~Live(m)
    BY <1>1, <2>2, MaterializeStory DEF BindRecord, Mismatch
  <2> QED BY <2>1, <2>2
<1>2. CASE BindMatches(m, c, src) /\ BindBusy(m, a)
  BY <1>2, MaterializeStory DEF BindRecord
<1>3. CASE BindMatches(m, c, src) /\ ~BindBusy(m, a)
  <2> DEFINE w == BindSession(m, a)
  <2>1. BindRecord(m, c, src, a) = w
    BY <1>3 DEF BindRecord
  <2>2. m \in Record
    BY MaterializeMoves DEF Moves, RecordInv
  <2>3. Story(v, m)
    BY MaterializeStory
  <2>4. /\ w.source = m.source /\ w.body = m.body /\ w.ttl = m.ttl
        /\ w.replay = m.replay /\ w.access = m.access
        /\ w.state = m.state /\ w.gen = m.gen /\ w.failure = m.failure
        /\ Terminal(m) => w.ready = m.ready
    BY <2>2, BindSessionStory
  <2> HIDE DEF m, w
  <2>5. Story(v, w)
    BY <2>3, <2>4 DEF Story, Stays, Turns, Terminal
  <2> QED BY <2>1, <2>5 DEF w, m
<1> QED BY <1>1, <1>2, <1>3

\* The clock only brings the deadline nearer.
LEMMA OlderStory ==
  ASSUME NEW v, RecordInv(v)
  PROVE  Story(v, Older(v))
<1> DEFINE t == IF v.ttl > 0 THEN v.ttl - 1 ELSE 0
           a == IF v.stamped /\ v.age < CacheLifetime THEN v.age + 1 ELSE v.age
           w == [v EXCEPT !.ttl = t, !.age = a]
<1>1. Older(v) = w
  BY DEF Older
<1>2. v \in Record /\ t <= v.ttl
  BY ServiceConfig DEF RecordInv, Record, Ttls
<1> HIDE DEF t, a
<1>3. /\ w.ttl = t
      /\ w.state = v.state /\ w.gen = v.gen /\ w.source = v.source /\ w.body = v.body
      /\ w.replay = v.replay /\ w.access = v.access /\ w.ready = v.ready /\ w.failure = v.failure
  BY <1>2 DEF Record
<1> HIDE DEF w
<1> QED BY <1>1, <1>2, <1>3 DEF Story, Stays

\* A call keeps the story of every record that survives it.
LEMMA CallStory ==
  ASSUME records \in [Requests -> Record], \A r \in Requests : RecordInv(records[r]),
         ServiceCall, NEW q \in Requests, Survives(q)
  PROVE  Story(records[q], records'[q])
<1> DEFINE Goal == Story(records[q], records'[q])
<1>keep. \A r \in Requests : Story(records[r], records[r])
  BY StayStory
<1>evict. Evict(records)[q] = records[q] /\ Evict(records) \in [Requests -> Record]
  <2>1. NoRecord \in Record BY NoRecordInv DEF RecordInv
  <2> QED BY <2>1 DEF Survives, Evict
<1>1. ASSUME NEW r \in Requests, NEW w, r = q => Story(records[q], w),
             \/ records' = [records EXCEPT ![r] = w]
             \/ records' = [Evict(records) EXCEPT ![r] = w]
      PROVE  Goal
  BY <1>1, <1>keep, <1>evict
<1>2. CASE records' = Evict(records)
  BY <1>2, <1>keep, <1>evict
<1>3. ASSUME NEW r \in Requests, NEW src \in Sources, NEW b \in Bodies, Create(r, src, b)
      PROVE  Goal
  <2>1. CASE CreateExisting(r)
    BY <2>1, <1>1, <1>evict, MaterializeStory DEF CreateExisting
  <2>2. CASE CreateBusy(r, b)
    BY <2>2, <1>2 DEF CreateBusy
  <2>3. CASE CreateNew(r, src, b)
    <3>1. r # q
      BY <2>3, <1>evict DEF CreateNew, Survives
    <3>2. \/ records' = Evict(records)
          \/ records' = [Evict(records) EXCEPT ![r] = NewRecord(src, b)]
      BY <2>3 DEF CreateNew
    <3> QED BY <3>1, <3>2, <1>1, <1>2
  <2> QED BY <1>3, <2>1, <2>2, <2>3 DEF Create
<1>4. ASSUME NEW r \in Requests, NEW src, NEW t, NEW e \in Envelopes, UploadEnvelope(r, src, t, e)
      PROVE  Goal
  BY <1>4, <1>1, UploadStory DEF UploadEnvelope
<1>5. ASSUME NEW r \in Requests, Touch(r) PROVE Goal
  BY <1>5, <1>1, <1>evict, MaterializeStory DEF Touch
<1>6. ASSUME NEW r \in Requests, NEW src, NEW t, Cancel(r, src, t) PROVE Goal
  BY <1>6, <1>1, <1>evict, EndStory DEF Cancel
<1>7. CASE Pending
  BY <1>7, <1>evict, MaterializeStory DEF Pending
<1>8. ASSUME NEW r \in Requests, NEW ok \in BOOLEAN, Allow(r, ok) PROVE Goal
  BY <1>8, <1>1, AllowStory DEF Allow
<1>9. ASSUME NEW r \in Requests, Reject(r) PROVE Goal
  BY <1>9, <1>1, EndStory DEF Reject
<1>10. ASSUME NEW r \in Requests, NEW m, SetAccessMode(r, m) PROVE Goal
  BY <1>10, <1>1, SelectAccessStory DEF SetAccessMode
<1>11. ASSUME NEW r \in Requests, NEW c, NEW src, NEW a, BindHeldGetservercert(r, c, src, a)
       PROVE  Goal
  BY <1>11, <1>1, BindStory DEF BindHeldGetservercert
<1>12. ASSUME NEW r \in Requests, NEW g, CommitPaired(r, g) PROVE Goal
  <2>1. Commits(records[r], g) => Story(records[r], Terminate(records[r], "paired"))
    BY TerminateStory DEF Commits, Live, LiveStates, TerminalStates
  <2> QED BY <1>12, <2>1, <1>1, <1>keep DEF CommitPaired
<1>13. ASSUME NEW r \in Requests, NEW g, FailPairing(r, g) PROVE Goal
  <2>1. Live(records[r]) => Story(records[r], Fail(records[r], "legacyPairingFailed"))
    BY FailStoryNow DEF Failures
  <2> QED BY <1>13, <2>1, <1>1, <1>keep DEF FailPairing
<1>14. CASE ClearForRestart
  BY <1>14 DEF ClearForRestart, Survives
<1>15. CASE Tick
  BY <1>15, OlderStory DEF Tick
<1>16. CASE UNCHANGED vars
  BY <1>16, <1>keep DEF vars
<1> QED
  BY <1>3, <1>4, <1>5, <1>6, <1>7, <1>8, <1>9, <1>10, <1>11, <1>12, <1>13, <1>14, <1>15, <1>16
  DEF ServiceCall, Next

\* Entries of a sequence that is charged or pruned of old ones only.
LEMMA CountSubset ==
  ASSUME NEW b \in Seq(0..RateWindow), NEW c \in Seq(0..RateWindow), NEW a, NEW k \in Nat,
         \A i \in 1..Len(b) : b[i] = a => i > k /\ i - k \in 1..Len(c) /\ c[i - k] = a
  PROVE  Count(c, a) >= Count(b, a)
<1> DEFINE B == {i \in 1..Len(b) : b[i] = a}
           C == {i \in 1..Len(c) : c[i] = a}
           f == [i \in B |-> i - k]
<1>1. Len(b) \in Nat /\ Len(c) \in Nat OBVIOUS
<1>2. IsFiniteSet(1..Len(b)) /\ IsFiniteSet(1..Len(c))
  BY <1>1, FS_Interval
<1>3. IsFiniteSet(B) /\ IsFiniteSet(C)
  BY <1>2, FS_Subset
<1>4. f \in Injection(B, C)
  BY <1>1 DEF Injection, IsInjective
<1>5. Cardinality(B) <= Cardinality(C)
  BY <1>3, <1>4, FS_Injection
<1> QED BY <1>3, <1>5, FS_CardinalityType DEF Count

\* Pruning drops entries as old as the window, and charging adds one.
LEMMA ChargedKept ==
  ASSUME NEW b, BucketOK(b), NEW k \in 0..Len(b), Outdated(b, k), NEW a \in 0..(RateWindow - 1)
  PROVE  LET rest == SubSeq(b, k + 1, Len(b))
         IN  Count(rest, a) >= Count(b, a) /\ Count(Append(rest, 0), a) >= Count(b, a)
<1> DEFINE c == SubSeq(b, k + 1, Len(b))
<1>1. b \in Seq(0..RateWindow) /\ c \in Seq(0..RateWindow) /\ Len(b) \in Nat /\ k \in Nat /\ a < RateWindow
  BY PruneOK, ServiceConfig DEF BucketOK
<1>2. Len(c) = Len(b) - k /\ \A i \in 1..(Len(b) - k) : c[i] = b[k + i]
  BY <1>1
<1>3. ASSUME NEW i \in 1..Len(b), b[i] = a PROVE i > k
  <2>1. i <= k => b[i] >= RateWindow BY <1>1 DEF Outdated
  <2> QED BY <1>1, <1>3, <2>1, ServiceConfig
<1> HIDE DEF c
<1>4. \A i \in 1..Len(b) : b[i] = a => i > k /\ i - k \in 1..Len(c) /\ c[i - k] = a
  <2> SUFFICES ASSUME NEW i \in 1..Len(b), b[i] = a
               PROVE  i > k /\ i - k \in 1..Len(c) /\ c[i - k] = a
    OBVIOUS
  <2>1. i > k BY <1>3
  <2>2. i - k \in 1..(Len(b) - k) /\ k + (i - k) = i BY <1>1, <2>1
  <2> QED BY <1>2, <2>1, <2>2
<1>5. /\ Append(c, 0) \in Seq(0..RateWindow) /\ Len(Append(c, 0)) = Len(c) + 1
      /\ \A i \in 1..Len(c) : Append(c, 0)[i] = c[i]
  BY <1>1, ServiceConfig
<1>6. Count(c, a) >= Count(b, a)
  BY <1>1, <1>4, CountSubset
<1>7. Count(Append(c, 0), a) >= Count(b, a)
  <2>1. \A i \in 1..Len(b) :
          b[i] = a => i > k /\ i - k \in 1..Len(Append(c, 0)) /\ Append(c, 0)[i - k] = a
    BY <1>1, <1>4, <1>5
  <2> QED BY <1>1, <1>5, <2>1, CountSubset
<1> QED BY <1>6, <1>7 DEF c

LEMMA CountSame ==
  ASSUME NEW b, BucketOK(b), NEW a
  PROVE  Count(b, a) >= Count(b, a)
<1>1. b \in Seq(0..RateWindow) /\ Len(b) \in Nat
  BY DEF BucketOK
<1>2. \A i \in 1..Len(b) : b[i] = a => i > 0 /\ i - 0 \in 1..Len(b) /\ b[i - 0] = a
  BY <1>1
<1> QED BY <1>1, <1>2, CountSubset

LEMMA TokensStep ==
  ASSUME BucketsOK, ServiceCall
  PROVE  RateTokensAgeOut
<1>1. ASSUME NEW r \in Requests, NEW src \in Sources, NEW b \in Bodies, CreateNew(r, src, b)
      PROVE  RateTokensAgeOut
  <2> DEFINE key == RateKeyOf[src]
             Rest(k) == SubSeq(buckets[key], k + 1, Len(buckets[key]))
  <2>1. key \in RateKeys
    BY ServiceConfig
  <2>2. PICK k \in 0..Len(buckets[key]) :
          /\ Outdated(buckets[key], k)
          /\ \/ buckets' = [buckets EXCEPT ![key] = Rest(k)]
             \/ buckets' = [buckets EXCEPT ![key] = Append(Rest(k), 0)]
    BY <1>1 DEF CreateNew
  <2>3. ASSUME NEW a \in 0..(RateWindow - 1)
        PROVE  /\ Count(Rest(k), a) >= Count(buckets[key], a)
               /\ Count(Append(Rest(k), 0), a) >= Count(buckets[key], a)
    BY <2>1, <2>2, ChargedKept DEF BucketsOK
  <2> HIDE DEF key, Rest
  <2>4. \A j \in RateKeys : buckets'[j] = IF j = key THEN buckets'[key] ELSE buckets[j]
    BY <2>1, <2>2 DEF BucketsOK
  <2>5. buckets'[key] \in {Rest(k), Append(Rest(k), 0)}
    BY <2>1, <2>2 DEF BucketsOK
  <2>6. ASSUME NEW j \in RateKeys, NEW a \in 0..(RateWindow - 1)
        PROVE  Count(buckets'[j], a) >= Count(buckets[j], a)
    BY <2>3, <2>4, <2>5, CountSame DEF BucketsOK
  <2> QED BY <2>6 DEF RateTokensAgeOut
<1>2. CASE Tick
  <2> SUFFICES ASSUME NEW k \in RateKeys, NEW i \in 1..Len(buckets[k])
               PROVE  buckets'[k][i] > buckets[k][i] \/ buckets[k][i] = RateWindow
    BY DEF RateTokensAgeOut
  <2>1. buckets'[k][i] = IF buckets[k][i] < RateWindow THEN buckets[k][i] + 1 ELSE RateWindow
    BY <1>2 DEF Tick
  <2>2. buckets[k][i] \in 0..RateWindow
    BY LenProperties DEF BucketsOK, BucketOK
  <2> QED BY <2>1, <2>2, ServiceConfig
<1>3. CASE UNCHANGED buckets
  BY <1>3, CountSame DEF RateTokensAgeOut, BucketsOK
<1> QED
  BY <1>1, <1>2, <1>3
  DEF ServiceCall, Next, vars, Create, CreateExisting, CreateBusy, UploadEnvelope, Touch, Cancel,
      Pending, Allow, Reject, SetAccessMode, BindHeldGetservercert, CommitPaired,
      FailPairing, ClearForRestart

\* No call rewrites what an earlier one has decided: an outcome is final, the
\* deadline decides, what was reviewed is fixed, the generation follows the
\* state, and a charged create stays charged for a whole window.
THEOREM HistoryKept == Spec => HistoryHolds
<1> DEFINE Holds == /\ TerminalIsFinal /\ DeadlineDecides /\ ReviewedRequestIsFixed
                    /\ GenerationTracksState /\ RateTokensAgeOut
<1>1. ASSUME IndInv, BucketsOK, [Next]_vars
      PROVE  Holds
  <2>1. ServiceCall BY <1>1 DEF ServiceCall
  <2>2. ASSUME NEW r \in Requests, Survives(r)
        PROVE  /\ Story(records[r], records'[r])
               /\ records[r].gen \in Nat /\ records'[r].gen \in Nat
    BY <1>1, <2>1, <2>2, CallStory, StepSummary DEF IndInv, Record
  <2>3. TerminalIsFinal
    BY <2>2 DEF TerminalIsFinal, Story, Stays, Turns, Live, LiveStates, Terminal, TerminalStates
  <2>4. DeadlineDecides
    BY <2>2 DEF DeadlineDecides, Story, Stays, Turns
  <2>5. ReviewedRequestIsFixed
    BY <2>2 DEF ReviewedRequestIsFixed, Story
  <2>6. GenerationTracksState
    BY <2>2 DEF GenerationTracksState, Story, Stays, Turns
  <2>7. RateTokensAgeOut BY <1>1, <2>1, TokensStep
  <2> QED BY <2>3, <2>4, <2>5, <2>6, <2>7
<1>2. Init => BucketsOK
  BY ServiceConfig DEF Init, BucketsOK, BucketOK
<1>3. BucketsOK /\ [Next]_vars => BucketsOK'
  BY BucketsStep DEF ServiceCall
<1>4. IndInv /\ BucketsOK /\ [Next]_vars => [Holds]_vars
  BY <1>1
<1> QED BY <1>2, <1>3, <1>4, RecordsConsistent, PTL DEF Spec, HistoryHolds
=============================================================================
