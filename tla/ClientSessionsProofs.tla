------------------------ MODULE ClientSessionsProofs ------------------------
(* Proofs for the parts of MCClientSessions.  Each part has an inductive    *)
(* invariant of its own, proved for the part's specification.               *)
EXTENDS MCClientSessions, FiniteSetTheorems, SequenceTheorems,
        WellFoundedInduction, TLAPS


\* The waits that may still queue a handler leave room for it.
Room == Handlers <= MaxQueued

SlotInv == LaunchTypeOK /\ Room /\ TimerCoversLaunch

\* The server starts with an empty slot.
LEMMA SlotInit == LaunchInit => SlotInv
  BY LaunchSlotAssumption
  DEF LaunchInit, SlotInv, LaunchTypeOK, Room, Handlers, TimerCoversLaunch, ControlIdle

\* A step of any of the three threads preserves the invariant.
LEMMA SlotNext == SlotInv /\ [LaunchNext]_launchVars => SlotInv'
<1> SUFFICES ASSUME SlotInv, [LaunchNext]_launchVars
             PROVE  SlotInv'
  OBVIOUS
<1> USE LaunchSlotAssumption DEF SlotInv, LaunchTypeOK, Room, Handlers, TimerCoversLaunch, ControlIdle
<1>1. CASE Arm BY <1>1 DEF Arm
<1>2. CASE Expire BY <1>2 DEF Expire, TimerAfterExpiry
<1>3. CASE Discard BY <1>3 DEF Discard
<1>4. CASE Accept BY <1>4 DEF Accept
<1>5. CASE Cancel BY <1>5 DEF Cancel
<1>6. CASE Pop BY <1>6 DEF Pop
<1>7. ASSUME NEW l \in Launches, Raise(l) PROVE SlotInv'
  BY <1>7 DEF Raise
<1>8. ASSUME NEW l \in Launches, CloseSocket(l) \/ Announce(l) \/ Expired(l) \/ Connect(l)
      PROVE  SlotInv'
  BY <1>8 DEF CloseSocket, Announce, Expired, Connect
<1>9. CASE UNCHANGED launchVars BY <1>9 DEF launchVars
<1> QED BY <1>1, <1>2, <1>3, <1>4, <1>5, <1>6, <1>7, <1>8, <1>9 DEF LaunchNext

\* The variables keep their types, and no more handlers wait than the bound on
\* raised launches allows.
THEOREM LaunchSlotTypes == LaunchSpec => []LaunchTypeOK
<1>1. SlotInv => LaunchTypeOK BY DEF SlotInv
<1> QED BY SlotInit, SlotNext, <1>1, PTL DEF LaunchSpec

\* session_raise, the timer's handler and session_clear interleave in any way:
\* a pending launch always has something that will take it out of the slot.
THEOREM PendingLaunchIsCovered == LaunchSpec => []TimerCoversLaunch
<1>1. SlotInv => TimerCoversLaunch BY DEF SlotInv
<1> QED BY SlotInit, SlotNext, <1>1, PTL DEF LaunchSpec

\* Both together, as the run checks them.
THEOREM LaunchSlotSafe == LaunchSpec => []LaunchSlotInvariant
<1>1. SlotInv => LaunchSlotInvariant BY DEF SlotInv, LaunchSlotInvariant
<1> QED BY SlotInit, SlotNext, <1>1, PTL DEF LaunchSpec
-----------------------------------------------------------------------------
(* The control stream (ControlChannel) *)

CcCounts == [feedback : Nat, hdr : Nat]

CcTypes0 ==
  /\ ccFeedback \in Seq(Nat) /\ Len(ccFeedback) <= CcMaxFeedback
  /\ ccRaised \in CcCounts /\ ccSent \in CcCounts /\ ccHdr \in Nat
  /\ ccAllowed \subseteq {"input", "command"}

\* What is sent was raised, and what was raised last is sent or waits.
CcNewest ==
  /\ ccHdr <= ccRaised.hdr /\ ccRaised.hdr <= CcMaxRaised
  /\ ccSent.feedback <= ccRaised.feedback /\ ccSent.hdr <= ccRaised.hdr
  /\ \A i \in 1 .. Len(ccFeedback) : ccFeedback[i] <= ccRaised.feedback
  /\ ccFeedback # << >> => ccFeedback[Len(ccFeedback)] = ccRaised.feedback
  /\ NewestFeedbackKept

CcInv == CcTypes0 /\ CcNewest /\ OnlyAuthenticatedActs

LEMMA CcFields == \A r \in CcCounts : r.feedback \in Nat /\ r.hdr \in Nat
BY DEF CcCounts

LEMMA CcInvInit == CcInit => CcInv
<1> SUFFICES ASSUME CcInit PROVE CcInv OBVIOUS
<1>1. ccRaised = [feedback |-> 0, hdr |-> 0] /\ ccSent = [feedback |-> 0, hdr |-> 0] BY DEF CcInit
<1>2. ccRaised \in CcCounts /\ ccSent \in CcCounts BY <1>1 DEF CcCounts
<1>3. ccRaised.feedback = 0 /\ ccRaised.hdr = 0 /\ ccSent.feedback = 0 /\ ccSent.hdr = 0 BY <1>1
<1>4. CcTypes0 BY <1>2, CcAssumption DEF CcInit, CcTypes0
<1>5. CcNewest BY <1>3, CcAssumption DEF CcInit, CcNewest, NewestFeedbackKept
<1> QED BY <1>4, <1>5 DEF CcInit, CcInv, OnlyAuthenticatedActs

\* Acts(): what happens was allowed, and is as authentic as its message.
LEMMA ActsAllowed ==
  ASSUME NEW act, NEW authentic, Acts(act, authentic), ccEncrypted \/ act = "input" => authentic
  PROVE  \A d \in ccDone' : (ccEncrypted \/ d.act = "input" => d.authentic) /\ (NeedsPermission(d.act) => d.allowed)
<1>1. CASE act \in CcActs /\ (NeedsPermission(act) => act \in ccAllowed)
  <2> DEFINE d == [act |-> act, authentic |-> authentic, allowed |-> act \in ccAllowed]
  <2>1. ccDone' = {d} BY <1>1 DEF Acts
  <2>2. d.act = act /\ d.authentic = authentic /\ d.allowed = (act \in ccAllowed) OBVIOUS
  <2> HIDE DEF d
  <2> QED BY <1>1, <2>1, <2>2
<1>2. CASE ~(act \in CcActs /\ (NeedsPermission(act) => act \in ccAllowed)) BY <1>2 DEF Acts
<1> QED BY <1>1, <1>2

LEMMA ReceivedIsAuthentic ==
  ASSUME NEW type \in CcTypes, NEW tagOk \in BOOLEAN, NEW runt \in BOOLEAN,
         Call(type, tagOk) \/ Encrypted(type, tagOk, runt)
  PROVE  \A d \in ccDone' : (ccEncrypted \/ d.act = "input" => d.authentic) /\ (NeedsPermission(d.act) => d.allowed)
<1>1. CASE ccDone' = {} BY <1>1
<1>2. CASE Acts(type, TRUE) BY <1>2, ActsAllowed
<1>3. CASE ~ccEncrypted /\ type # "input" /\ Acts(type, FALSE) BY <1>3, ActsAllowed
<1>4. CASE ~ccEncrypted /\ type = "input" /\ Acts("input", TRUE) BY <1>4, ActsAllowed
<1> QED BY <1>1, <1>2, <1>3, <1>4 DEF Call, Encrypted, InputData

LEMMA CcInvStep == CcInv /\ [CcNext]_ccVars => CcInv'
<1> SUFFICES ASSUME CcInv, [CcNext]_ccVars PROVE CcInv' OBVIOUS
<1>1. ASSUME NEW type \in CcTypes, NEW tagOk \in BOOLEAN, NEW runt \in BOOLEAN,
             ReceivePlain(type, tagOk) \/ ReceiveEncrypted(type, tagOk, runt)
      PROVE  CcInv'
  <2>1. \A d \in ccDone' : (ccEncrypted \/ d.act = "input" => d.authentic) /\ (NeedsPermission(d.act) => d.allowed)
    BY <1>1, ReceivedIsAuthentic DEF ReceivePlain, ReceiveEncrypted
  <2>2. UNCHANGED <<ccEncrypted, ccPeer, ccLoop, ccAllowed, ccFeedback, ccHdr, ccRaised, ccSent>>
    BY <1>1 DEF ReceivePlain, ReceiveEncrypted, ReceiveKeepsPeer
  <2> QED BY <2>1, <2>2 DEF CcInv, CcTypes0, CcNewest, NewestFeedbackKept, OnlyAuthenticatedActs
<1>2. ASSUME NEW acts \in SUBSET {"input", "command"}, PermissionChanges(acts) PROVE CcInv'
  BY <1>2 DEF PermissionChanges, CcInv, CcTypes0, CcNewest, NewestFeedbackKept, OnlyAuthenticatedActs
<1>3. CASE RaiseFeedback
  <2> DEFINE n == ccRaised.feedback + 1
  <2>1. /\ ccRaised' = [ccRaised EXCEPT !.feedback = n] /\ ccFeedback' = FeedbackQueued(ccFeedback, ccRaised'.feedback)
        /\ UNCHANGED <<ccEncrypted, ccPeer, ccStopped, ccLoop, ccAllowed, ccDone, ccHdr, ccSent>>
    BY <1>3 DEF RaiseFeedback
  <2>2. n \in Nat /\ ccRaised.feedback \in Nat /\ ccSent.feedback \in Nat /\ ccRaised.hdr \in Nat
    BY CcFields DEF CcInv, CcTypes0
  <2>3. ccRaised' \in CcCounts /\ ccRaised'.feedback = n /\ ccRaised'.hdr = ccRaised.hdr
    BY <2>1, <2>2 DEF CcInv, CcTypes0, CcCounts
  <2>4. ccFeedback' = IF Len(ccFeedback) = CcMaxFeedback THEN <<n>> ELSE Append(ccFeedback, n)
    BY <2>1, <2>3 DEF FeedbackQueued
  <2> HIDE DEF n
  <2>5. /\ ccFeedback' \in Seq(Nat) /\ Len(ccFeedback') <= CcMaxFeedback /\ ccFeedback' # << >>
        /\ ccFeedback'[Len(ccFeedback')] = n
        /\ \A i \in 1 .. Len(ccFeedback') : ccFeedback'[i] <= n
    <3>1. CASE Len(ccFeedback) = CcMaxFeedback
      <4>1. ccFeedback' = <<n>> BY <2>4, <3>1
      <4> QED BY <4>1, <2>2, CcAssumption
    <3>2. CASE Len(ccFeedback) # CcMaxFeedback
      <4>1. ccFeedback' = Append(ccFeedback, n) BY <2>4, <3>2
      <4>2. \A i \in 1 .. Len(ccFeedback) : ccFeedback[i] \in Nat /\ ccFeedback[i] <= n
        BY <2>2 DEF CcInv, CcTypes0, CcNewest, n
      <4> QED BY <4>1, <4>2, <2>2, <3>2, CcAssumption DEF CcInv, CcTypes0
    <3> QED BY <3>1, <3>2
  <2>6. CcTypes0' BY <2>1, <2>3, <2>5 DEF CcInv, CcTypes0
  <2>7. CcNewest' BY <2>1, <2>2, <2>3, <2>5 DEF CcInv, CcNewest, NewestFeedbackKept, n
  <2> QED BY <2>1, <2>6, <2>7 DEF CcInv, OnlyAuthenticatedActs
<1>4. CASE RaiseHdr
  <2> DEFINE n == ccRaised.hdr + 1
  <2>1. /\ ccRaised.hdr < CcMaxRaised /\ ccRaised' = [ccRaised EXCEPT !.hdr = n] /\ ccHdr' = ccRaised'.hdr
        /\ UNCHANGED <<ccEncrypted, ccPeer, ccStopped, ccLoop, ccAllowed, ccDone, ccFeedback, ccSent>>
    BY <1>4 DEF RaiseHdr
  <2>2. n \in Nat /\ ccRaised.hdr \in Nat /\ ccSent.hdr \in Nat /\ ccRaised.feedback \in Nat
    BY CcFields DEF CcInv, CcTypes0
  <2>3. ccRaised' \in CcCounts /\ ccRaised'.hdr = n /\ ccRaised'.feedback = ccRaised.feedback
    BY <2>1, <2>2 DEF CcInv, CcTypes0, CcCounts
  <2>4. CcTypes0' BY <2>1, <2>2, <2>3 DEF CcInv, CcTypes0
  <2>5. CcNewest' BY <2>1, <2>2, <2>3, CcAssumption DEF CcInv, CcNewest, NewestFeedbackKept
  <2> QED BY <2>1, <2>4, <2>5 DEF CcInv, OnlyAuthenticatedActs
<1>5. CASE LoopSendsMessages
  <2> DEFINE f == IF ccFeedback # << >> THEN ccFeedback[Len(ccFeedback)] ELSE ccSent.feedback
             h == IF ccHdr # 0 THEN ccHdr ELSE ccSent.hdr
  <2>1. /\ ccFeedback' = << >> /\ ccHdr' = 0 /\ ccSent' = [feedback |-> f, hdr |-> h]
        /\ UNCHANGED <<ccEncrypted, ccPeer, ccStopped, ccLoop, ccAllowed, ccDone, ccRaised>>
    BY <1>5 DEF LoopSendsMessages
  <2>2. ccRaised.hdr \in Nat /\ ccSent.hdr \in Nat /\ ccRaised.feedback \in Nat /\ ccSent.feedback \in Nat
    BY CcFields DEF CcInv, CcTypes0
  <2>3. f \in Nat /\ f <= ccRaised.feedback /\ ~(ccRaised.feedback > f)
    <3>1. CASE ccFeedback = << >>
      <4>1. f = ccSent.feedback BY <3>1
      <4> QED BY <3>1, <4>1, <2>2 DEF CcInv, CcNewest, NewestFeedbackKept
    <3>2. CASE ccFeedback # << >>
      <4>1. f = ccFeedback[Len(ccFeedback)] BY <3>2
      <4>2. Len(ccFeedback) \in 1 .. Len(ccFeedback) BY <3>2 DEF CcInv, CcTypes0
      <4>3. f \in Nat /\ f <= ccRaised.feedback BY <4>1, <4>2 DEF CcInv, CcTypes0, CcNewest
      <4>4. f = ccRaised.feedback BY <4>1, <3>2 DEF CcInv, CcNewest
      <4> QED BY <4>3, <4>4, <2>2
    <3> QED BY <3>1, <3>2
  <2>4. h \in Nat /\ h <= ccRaised.hdr BY <2>2 DEF CcInv, CcTypes0, CcNewest
  <2> HIDE DEF f, h
  <2>5. ccSent' \in CcCounts /\ ccSent'.feedback = f /\ ccSent'.hdr = h BY <2>1, <2>3, <2>4 DEF CcCounts
  <2>6. CcTypes0' BY <2>1, <2>5, CcAssumption DEF CcInv, CcTypes0
  <2>7. CcNewest' BY <2>1, <2>2, <2>3, <2>4, <2>5, CcAssumption DEF CcInv, CcNewest, NewestFeedbackKept
  <2> QED BY <2>1, <2>6, <2>7 DEF CcInv, OnlyAuthenticatedActs
<1>6. CASE PeerConnects \/ LoopWaits \/ LoopGoesOn \/ SessionStops
  <2>1. UNCHANGED <<ccEncrypted, ccAllowed, ccDone, ccFeedback, ccHdr, ccRaised, ccSent>>
    BY <1>6 DEF PeerConnects, LoopWaits, LoopGoesOn, SessionStops
  <2> QED BY <2>1 DEF CcInv, CcTypes0, CcNewest, NewestFeedbackKept, OnlyAuthenticatedActs
<1>7. CASE UNCHANGED ccVars
  BY <1>7 DEF ccVars, CcInv, CcTypes0, CcNewest, NewestFeedbackKept, OnlyAuthenticatedActs
<1> QED BY <1>1, <1>2, <1>3, <1>4, <1>5, <1>6, <1>7 DEF CcNext

LEMMA CcInvHolds == CcInv => ControlChannelSound
<1> SUFFICES ASSUME CcInv PROVE ControlChannelSound OBVIOUS
<1>1. ccRaised.hdr \in Nat BY CcFields DEF CcInv, CcTypes0
<1>2. CcTypeOK BY <1>1, CcAssumption DEF CcInv, CcTypes0, CcNewest, CcTypeOK, CcActs
<1> QED BY <1>2 DEF CcInv, CcNewest, ControlChannelSound

\* stream.cpp, control_server_t and controlBroadcastThread, for any length of
\* the feedback queue: only authenticated and permitted messages act, and the
\* newest feedback is never lost on its way to the client.
THEOREM ControlStaysSound == CcSpec => []ControlChannelSound
<1>1. CcSpec => []CcInv BY CcInvInit, CcInvStep, PTL DEF CcSpec
<1> QED BY <1>1, CcInvHolds, PTL

-----------------------------------------------------------------------------
(* The RTSP server's connections (RtspServer) *)

RsFields == {"step", "launch", "msg", "got", "begin", "crlf", "split", "by"}

RsShape(k) == DOMAIN k = RsFields /\ k = [x \in RsFields |-> k[x]]

\* A connection has taken one launch or none, and counts bytes.
RsTyped(k) ==
  /\ RsShape(k)
  /\ k.launch = {} \/ \E l \in 1 .. RsLaunches : k.launch = {l}
  /\ k.got \in Nat /\ k.begin \in Nat /\ k.msg.key \in Nat /\ k.msg.content \in Nat

\* Plaintext is read for launches without a key only; the header's end is
\* overlooked only where it was split, and the payload is not yet whole.
RsConnInv(k) ==
  /\ RsTyped(k)
  /\ k.step \in {"header", "payload"} => k.launch \cap RsEncrypted = {} /\ k.begin = k.got
  /\ k.step = "header" => (k.got >= RsHeader => k.split)
  /\ k.step = "payload" => k.got < Whole(k.msg) /\ k.crlf = RsHeader
  /\ k.step = "answered" => /\ k.got >= Whole(k.msg)
                            /\ k.launch \cap RsEncrypted # {} => k.by = CHOOSE l \in k.launch : TRUE

\* The counter of a launch is at least every IV its answers used.
RsReplyInv ==
  /\ rsIv \in [1 .. RsLaunches -> Nat]
  /\ \A r \in rsReplies : r.launch \in 1 .. RsLaunches /\ r.iv \in Nat /\ r.iv <= rsIv[r.launch]
  /\ RsReplyIvFresh

RsPendingInv == rsPending = {} \/ \E l \in 1 .. RsLaunches : rsPending = {l}

RsConnsInv == rsConn = [c \in RsConns |-> rsConn[c]] /\ \A c \in RsConns : RsConnInv(rsConn[c])

RsInv == RsPendingInv /\ RsConnsInv /\ RsReplyInv

\* What assigning one field leaves alone.
LEMMA RsAssigned ==
  ASSUME NEW k, RsShape(k), NEW f \in RsFields, NEW v, NEW j, j = [k EXCEPT ![f] = v]
  PROVE  RsShape(j) /\ j[f] = v /\ \A g \in RsFields : g # f => j[g] = k[g]
BY DEF RsShape

LEMMA RsClosed ==
  ASSUME NEW k, RsTyped(k), NEW j, j = [k EXCEPT !.step = "closed"]
  PROVE  RsConnInv(j)
<1>1. RsShape(j) /\ j.step = "closed" /\ j.launch = k.launch /\ j.got = k.got /\ j.begin = k.begin /\ j.msg = k.msg
  BY RsAssigned DEF RsTyped, RsFields
<1>2. RsTyped(j) BY <1>1 DEF RsTyped
<1> QED BY <1>1, <1>2 DEF RsConnInv

LEMMA RsNewConn == RsConnInv(NewConn) /\ RsShape(NewConn) /\ NewConn.got = 0 /\ NewConn.begin = 0
<1> DEFINE m == [key |-> 0, content |-> 0, sound |-> TRUE]
<1>1. m.key = 0 /\ m.content = 0 OBVIOUS
<1> HIDE DEF m
<1>2. NewConn = [step |-> "new", launch |-> {}, msg |-> m, got |-> 0, begin |-> 0, crlf |-> 0, split |-> FALSE, by |-> 0]
  BY DEF NewConn, m
<1>3. RsShape(NewConn) BY <1>2 DEF RsShape, RsFields
<1>4. NewConn.step = "new" /\ NewConn.launch = {} /\ NewConn.got = 0 /\ NewConn.begin = 0 /\ NewConn.msg = m BY <1>2
<1> HIDE DEF NewConn
<1> QED BY <1>1, <1>3, <1>4 DEF RsConnInv, RsTyped

LEMMA RsInitInv == RsInit => RsInv
<1> SUFFICES ASSUME RsInit PROVE RsInv OBVIOUS
<1>1. RsPendingInv BY DEF RsInit, RsPendingInv
<1>2. RsReplyInv BY DEF RsInit, RsReplyInv, RsReplyIvFresh
<1>4. rsConn = [c \in RsConns |-> NewConn] BY DEF RsInit
<1>5. RsConnsInv BY <1>4, RsNewConn DEF RsConnsInv
<1> QED BY <1>1, <1>2, <1>5 DEF RsInv

\* One connection changes to a sound state.
LEMMA RsOneChanges ==
  ASSUME RsInv, NEW c \in RsConns, NEW k, RsConnInv(k), Becomes(c, k) PROVE RsConnsInv'
<1>1. rsConn' = [rsConn EXCEPT ![c] = k] BY DEF Becomes
<1>2. rsConn = [d \in RsConns |-> rsConn[d]] /\ \A d \in RsConns : RsConnInv(rsConn[d]) BY DEF RsInv, RsConnsInv
<1>3. rsConn' = [d \in RsConns |-> rsConn'[d]] BY <1>1, <1>2
<1>4. \A d \in RsConns : rsConn'[d] = IF d = c THEN k ELSE rsConn[d] BY <1>1, <1>2
<1> QED BY <1>2, <1>3, <1>4 DEF RsConnsInv

LEMMA RsLaunchNumber ==
  ASSUME RsInv, NEW c \in RsConns, IsEncrypted(c)
  PROVE  Launch(c) \in 1 .. RsLaunches /\ rsConn[c].launch = {Launch(c)}
<1>1. rsConn[c].launch = {} \/ \E l \in 1 .. RsLaunches : rsConn[c].launch = {l}
  BY DEF RsInv, RsConnsInv, RsConnInv, RsTyped
<1>2. rsConn[c].launch # {} BY DEF IsEncrypted
<1>3. PICK l \in 1 .. RsLaunches : rsConn[c].launch = {l} BY <1>1, <1>2
<1>4. Launch(c) = l BY <1>3 DEF Launch
<1> QED BY <1>3, <1>4

LEMMA RsResponds == ASSUME RsInv, NEW c \in RsConns, Respond(c) PROVE RsReplyInv'
<1>1. CASE IsEncrypted(c)
  <2> DEFINE l == Launch(c)
             n == rsIv[l] + 1
             r == [launch |-> l, iv |-> n, conn |-> c]
  <2>1. rsIv' = [rsIv EXCEPT ![l] = n] /\ rsReplies' = rsReplies \cup {r} BY <1>1 DEF Respond, NextIv
  <2>2. l \in 1 .. RsLaunches BY <1>1, RsLaunchNumber
  <2>3. r.launch = l /\ r.iv = n OBVIOUS
  <2> HIDE DEF l, r
  <2>4. rsIv[l] \in Nat /\ n \in Nat BY <2>2 DEF RsInv, RsReplyInv
  <2>5. rsIv' \in [1 .. RsLaunches -> Nat] BY <2>1, <2>2, <2>4 DEF RsInv, RsReplyInv
  <2>6. \A i \in 1 .. RsLaunches : rsIv[i] <= rsIv'[i] BY <2>1, <2>2, <2>4 DEF RsInv, RsReplyInv
  <2>7. rsIv'[l] = n BY <2>1, <2>2 DEF RsInv, RsReplyInv
  <2>8. \A s \in rsReplies : s.launch \in 1 .. RsLaunches /\ s.iv \in Nat /\ s.iv <= rsIv[s.launch] BY DEF RsInv, RsReplyInv
  <2>9. \A s \in rsReplies : s.launch = l => s.iv # n BY <2>2, <2>4, <2>8
  <2>10. \A s \in rsReplies' : s.launch \in 1 .. RsLaunches /\ s.iv \in Nat /\ s.iv <= rsIv'[s.launch]
    <3> TAKE s \in rsReplies'
    <3>1. CASE s = r BY <3>1, <2>2, <2>3, <2>4, <2>7
    <3>2. CASE s \in rsReplies
      <4>1. s.launch \in 1 .. RsLaunches /\ s.iv \in Nat /\ s.iv <= rsIv[s.launch] BY <3>2, <2>8
      <4>2. rsIv[s.launch] \in Nat /\ rsIv'[s.launch] \in Nat BY <4>1, <2>5 DEF RsInv, RsReplyInv
      <4> QED BY <4>1, <4>2, <2>6
    <3> QED BY <3>1, <3>2, <2>1
  <2>11. RsReplyIvFresh'
    <3> HIDE DEF n
    <3>1. \A s, t \in rsReplies : s.launch = t.launch /\ s.iv = t.iv => s = t BY DEF RsInv, RsReplyInv, RsReplyIvFresh
    <3> QED BY <3>1, <2>1, <2>3, <2>9 DEF RsReplyIvFresh
  <2> QED BY <2>5, <2>10, <2>11 DEF RsReplyInv
<1>2. CASE ~IsEncrypted(c) BY <1>2 DEF Respond, RsInv, RsReplyInv, RsReplyIvFresh
<1> QED BY <1>1, <1>2

LEMMA RsRefused ==
  ASSUME RsInv, NEW c \in RsConns, NEW k, RsTyped(k), Refused(c, k) \/ Quietly(c, k)
  PROVE  RsConnsInv' /\ RsReplyInv'
<1> DEFINE j == [k EXCEPT !.step = "closed"]
<1>1. RsConnInv(j) BY RsClosed
<1> HIDE DEF j
<1>2. Becomes(c, j) /\ (Respond(c) \/ UNCHANGED <<rsIv, rsReplies>>) BY DEF Refused, Quietly, j
<1>3. RsConnsInv' BY <1>1, <1>2, RsOneChanges
<1>4. RsReplyInv' BY <1>2, RsResponds DEF RsInv, RsReplyInv, RsReplyIvFresh
<1> QED BY <1>3, <1>4

\* handle_msg acts on a whole message, of the holder of the launch's key.
LEMMA RsHandled ==
  ASSUME RsInv, NEW c \in RsConns, NEW k, RsTyped(k), HandleMsg(c, k), k.got >= Whole(k.msg),
         k.launch \cap RsEncrypted # {} => k.msg.key = CHOOSE l \in k.launch : TRUE
  PROVE  RsConnsInv' /\ RsReplyInv'
<1> DEFINE i == [k EXCEPT !.step = "answered"]
           j == [i EXCEPT !.by = k.msg.key]
<1>1. RsShape(i) /\ i.step = "answered" /\ i.launch = k.launch /\ i.got = k.got /\ i.begin = k.begin /\ i.msg = k.msg
  BY RsAssigned DEF RsTyped, RsFields
<1>2. j = [k EXCEPT !.step = "answered", !.by = k.msg.key] OBVIOUS
<1> HIDE DEF i
<1>3. RsShape(j) /\ j.step = i.step /\ j.launch = i.launch /\ j.got = i.got /\ j.begin = i.begin /\ j.msg = i.msg
  BY <1>1, RsAssigned DEF RsFields
<1>4. j.by = k.msg.key BY <1>1, RsAssigned DEF RsFields
<1>5. Becomes(c, j) /\ Respond(c) BY <1>2 DEF HandleMsg
<1> HIDE DEF j
<1>6. RsTyped(j) BY <1>1, <1>3 DEF RsTyped
<1>7. RsConnInv(j) BY <1>1, <1>3, <1>4, <1>6 DEF RsConnInv
<1> QED BY <1>5, <1>7, RsOneChanges, RsResponds

LEMMA RsReadsOn ==
  ASSUME RsInv, NEW c \in RsConns, NEW k, RsConnInv(k), ReadOn(c, k)
  PROVE  RsConnsInv' /\ RsReplyInv'
<1>1. CASE Refused(c, k) BY <1>1, RsRefused DEF RsConnInv
<1>2. CASE Becomes(c, k) /\ UNCHANGED <<rsIv, rsReplies>>
  BY <1>2, RsOneChanges DEF RsInv, RsReplyInv, RsReplyIvFresh
<1> QED BY <1>1, <1>2 DEF ReadOn

\* handle_plaintext_payload: what is not whole waits for more.
LEMMA RsPayload ==
  ASSUME RsInv, NEW c \in RsConns, NEW k, RsTyped(k), NEW bytes \in Nat, k.launch \cap RsEncrypted = {},
         k.crlf = RsHeader, k.begin + bytes = k.got, HandlePlaintextPayload(c, k, bytes)
  PROVE  RsConnsInv' /\ RsReplyInv'
<1> DEFINE i == [k EXCEPT !.begin = k.begin + bytes]
           j == [i EXCEPT !.step = "payload"]
<1>1. k.got \in Nat /\ k.begin \in Nat /\ k.msg.content \in Nat BY DEF RsTyped
<1>2. /\ RsShape(i) /\ i.begin = k.got /\ i.got = k.got /\ i.launch = k.launch /\ i.msg = k.msg /\ i.crlf = k.crlf
  BY RsAssigned DEF RsTyped, RsFields
<1>3. RsTyped(i) BY <1>1, <1>2 DEF RsTyped
<1>4. j = [k EXCEPT !.begin = k.begin + bytes, !.step = "payload"] OBVIOUS
<1>5. \/ Refused(c, k)
      \/ ContentArrived(k.begin + bytes, k) /\ HandleMsg(c, i)
      \/ ~ContentArrived(k.begin + bytes, k) /\ ReadOn(c, j)
      \/ k.msg.sound /\ ContentArrived(k.begin + bytes, k) /\ HandleMsg(c, i)
  BY <1>4 DEF HandlePlaintextPayload
<1> HIDE DEF i
<1>6. /\ RsShape(j) /\ j.begin = i.begin /\ j.got = i.got /\ j.launch = i.launch /\ j.msg = i.msg /\ j.crlf = i.crlf
      /\ j.step = "payload"
  BY <1>2, RsAssigned DEF RsFields
<1> HIDE DEF j
<1>7. ContentArrived(k.begin + bytes, k) <=> k.got >= Whole(k.msg)
  BY <1>1, RsAssumption DEF ContentArrived, Whole
<1>8. CASE Refused(c, k) BY <1>8, RsRefused
<1>9. CASE k.got >= Whole(k.msg) /\ HandleMsg(c, i) BY <1>9, <1>2, <1>3, RsHandled
<1>10. CASE ~(k.got >= Whole(k.msg)) /\ ReadOn(c, j)
  <2>1. RsTyped(j) BY <1>1, <1>2, <1>6 DEF RsTyped
  <2>2. Whole(k.msg) \in Nat BY <1>1, RsAssumption DEF Whole
  <2>3. j.got < Whole(j.msg) BY <1>1, <1>2, <1>6, <1>10, <2>2
  <2>4. RsConnInv(j) BY <1>2, <1>6, <2>1, <2>3 DEF RsConnInv
  <2> QED BY <1>10, <2>4, RsReadsOn
<1> QED BY <1>5, <1>7, <1>8, <1>9, <1>10

LEMMA RsAccepts ==
  ASSUME RsInv, NEW c \in RsConns, NEW m \in RsMessages, HandleAccept(c, m) PROVE RsInv'
<1> DEFINE s == IF rsPending = {} THEN "closed" ELSE IF rsPending \subseteq RsEncrypted THEN "enc_header" ELSE "header"
           j == [NewConn EXCEPT !.step = s, !.launch = rsPending, !.msg = m]
           n1 == [NewConn EXCEPT !.step = s]
           n2 == [n1 EXCEPT !.launch = rsPending]
<1>1. Becomes(c, j) /\ UNCHANGED <<rsPending, rsIv, rsReplies>> BY DEF HandleAccept
<1>2. j = [n2 EXCEPT !.msg = m] OBVIOUS
<1>3. s \in {"closed", "enc_header", "header"} /\ (s = "header" => rsPending # {} /\ ~(rsPending \subseteq RsEncrypted)) OBVIOUS
<1> HIDE DEF j, s
<1>a. RsShape(n1) /\ n1.step = s /\ n1.got = 0 /\ n1.begin = 0 BY RsNewConn, RsAssigned DEF RsFields
<1> HIDE DEF n1
<1>b. RsShape(n2) /\ n2.step = s /\ n2.launch = rsPending /\ n2.got = 0 /\ n2.begin = 0 BY <1>a, RsAssigned DEF RsFields
<1> HIDE DEF n2
<1>4. RsShape(j) /\ j.msg = m BY <1>2, <1>b, RsAssigned DEF RsFields
<1>5. j.step = s /\ j.launch = rsPending /\ j.got = 0 /\ j.begin = 0 BY <1>2, <1>b, RsAssigned DEF RsFields
<1>6. rsPending = {} \/ \E l \in 1 .. RsLaunches : rsPending = {l} BY DEF RsInv, RsPendingInv
<1>7. m.key \in Nat /\ m.content \in Nat BY RsAssumption
<1>8. RsTyped(j) BY <1>4, <1>5, <1>6, <1>7 DEF RsTyped
<1>9. s = "header" => rsPending \cap RsEncrypted = {} BY <1>3, <1>6
<1>10. RsConnInv(j) BY <1>3, <1>5, <1>8, <1>9, RsAssumption DEF RsConnInv
<1>11. RsConnsInv' BY <1>1, <1>10, RsOneChanges
<1> QED BY <1>1, <1>11 DEF RsInv, RsPendingInv, RsReplyInv, RsReplyIvFresh

LEMMA RsConnTyped == ASSUME RsInv, NEW c \in RsConns PROVE RsConnInv(rsConn[c]) /\ RsTyped(rsConn[c])
BY DEF RsInv, RsConnsInv, RsConnInv

LEMMA RsReadCounts ==
  ASSUME NEW k, RsTyped(k), NEW bytes \in Reads(k) PROVE bytes \in Nat \ {0} /\ k.got + bytes <= Whole(k.msg)
<1>1. k.got \in Nat /\ k.begin \in Nat /\ k.msg.content \in Nat BY DEF RsTyped
<1>2. Whole(k.msg) \in Nat BY <1>1, RsAssumption DEF Whole
<1> QED BY <1>1, <1>2, RsAssumption DEF Reads

LEMMA RsReadsHeader ==
  ASSUME RsInv, NEW c \in RsConns, HandleReadPlaintext(c) PROVE RsConnsInv' /\ RsReplyInv'
<1> DEFINE k == rsConn[c]
           S == (RsHeader - RsNeedle + 1) .. (RsHeader - 1)
<1>1. k.step = "header" BY DEF HandleReadPlaintext
<1>2. RsConnInv(k) /\ RsTyped(k) BY RsConnTyped
<1>3. PICK bytes \in Reads(k) :
        LET conn == [k EXCEPT !.got = k.got + bytes, !.split = k.split \/ (k.got \in S)]
            end == conn.begin + bytes
            found == RsHeader - RsNeedle >= conn.begin /\ RsHeader <= end
        IN IF ~found THEN ReadOn(c, [conn EXCEPT !.begin = end])
           ELSE HandlePlaintextPayload(c, [conn EXCEPT !.begin = RsHeader, !.crlf = RsHeader], end - RsHeader)
  BY DEF HandleReadPlaintext
<1> DEFINE split == k.split \/ (k.got \in S)
           i == [k EXCEPT !.got = k.got + bytes]
           conn == [i EXCEPT !.split = split]
           end == conn.begin + bytes
           more == [conn EXCEPT !.begin = end]
           head == [conn EXCEPT !.begin = RsHeader]
           pay == [head EXCEPT !.crlf = RsHeader]
           found == RsHeader - RsNeedle >= conn.begin /\ RsHeader <= end
<1>4. conn = [k EXCEPT !.got = k.got + bytes, !.split = split] OBVIOUS
<1>5. pay = [conn EXCEPT !.begin = RsHeader, !.crlf = RsHeader] OBVIOUS
<1>6. (~found /\ ReadOn(c, more)) \/ (found /\ HandlePlaintextPayload(c, pay, end - RsHeader)) BY <1>3, <1>4, <1>5
<1>7. bytes \in Nat \ {0} /\ k.got + bytes <= Whole(k.msg) BY <1>2, <1>3, RsReadCounts
<1>8. k.got \in Nat /\ k.begin = k.got /\ k.launch \cap RsEncrypted = {} /\ (k.got >= RsHeader => k.split)
  BY <1>1, <1>2 DEF RsConnInv, RsTyped
<1>9. RsShape(i) /\ i.got = k.got + bytes /\ i.begin = k.begin /\ i.launch = k.launch /\ i.msg = k.msg /\ i.step = k.step
  BY <1>2, RsAssigned DEF RsTyped, RsFields
<1> HIDE DEF i
<1>10. /\ RsShape(conn) /\ conn.got = i.got /\ conn.begin = i.begin /\ conn.launch = i.launch /\ conn.msg = i.msg
       /\ conn.step = i.step /\ conn.split = split
  BY <1>9, RsAssigned DEF RsFields
<1> HIDE DEF conn
<1>11. /\ RsShape(more) /\ more.got = conn.got /\ more.begin = end /\ more.launch = conn.launch /\ more.msg = conn.msg
       /\ more.step = conn.step /\ more.split = conn.split
  BY <1>10, RsAssigned DEF RsFields
<1>12. /\ RsShape(head) /\ head.got = conn.got /\ head.begin = RsHeader /\ head.launch = conn.launch /\ head.msg = conn.msg
  BY <1>10, RsAssigned DEF RsFields
<1> HIDE DEF head
<1>13. /\ RsShape(pay) /\ pay.got = head.got /\ pay.begin = head.begin /\ pay.launch = head.launch /\ pay.msg = head.msg
       /\ pay.crlf = RsHeader
  BY <1>12, RsAssigned DEF RsFields
<1> HIDE DEF pay, more
<1>14. end = k.got + bytes /\ end \in Nat BY <1>7, <1>8, <1>9, <1>10
<1>15. CASE ~found /\ ReadOn(c, more)
  <2>1. RsTyped(more) BY <1>2, <1>9, <1>10, <1>11, <1>14 DEF RsTyped
  <2>2. end >= RsHeader => k.got > RsHeader - RsNeedle BY <1>15, <1>8, <1>9, <1>10, <1>14, RsAssumption
  <2>3. end >= RsHeader => k.got >= RsHeader \/ k.got \in S BY <2>2, <1>8, RsAssumption
  <2> HIDE DEF S
  <2>4. end >= RsHeader => more.split BY <2>3, <1>8, <1>10, <1>11
  <2>5. more.got = end /\ more.begin = end /\ more.step = "header" BY <1>1, <1>9, <1>10, <1>11, <1>14
  <2>6. more.launch \cap RsEncrypted = {} BY <1>8, <1>9, <1>10, <1>11
  <2> HIDE DEF end
  <2>7. RsConnInv(more) BY <2>1, <2>4, <2>5, <2>6 DEF RsConnInv
  <2> QED BY <1>15, <2>7, RsReadsOn
<1>16. CASE found /\ HandlePlaintextPayload(c, pay, end - RsHeader)
  <2>1. end - RsHeader \in Nat /\ pay.begin + (end - RsHeader) = pay.got
    BY <1>16, <1>9, <1>10, <1>12, <1>13, <1>14, RsAssumption
  <2>2. RsTyped(pay) BY <1>2, <1>8, <1>9, <1>10, <1>12, <1>13, <1>7, RsAssumption DEF RsTyped
  <2>3. pay.launch \cap RsEncrypted = {} BY <1>8, <1>9, <1>10, <1>12, <1>13
  <2> QED BY <1>13, <1>16, <2>1, <2>2, <2>3, RsPayload
<1> QED BY <1>6, <1>15, <1>16

LEMMA RsReadsPayload ==
  ASSUME RsInv, NEW c \in RsConns, ReadPayload(c) PROVE RsConnsInv' /\ RsReplyInv'
<1> DEFINE k == rsConn[c]
<1>1. k.step = "payload" BY DEF ReadPayload
<1>2. RsConnInv(k) /\ RsTyped(k) BY RsConnTyped
<1>3. PICK bytes \in Reads(k) : HandlePlaintextPayload(c, [k EXCEPT !.got = k.got + bytes], bytes) BY DEF ReadPayload
<1> DEFINE i == [k EXCEPT !.got = k.got + bytes]
<1>4. bytes \in Nat BY <1>2, <1>3, RsReadCounts
<1>5. k.got \in Nat /\ k.begin = k.got /\ k.launch \cap RsEncrypted = {} /\ k.crlf = RsHeader
  BY <1>1, <1>2 DEF RsConnInv, RsTyped
<1>6. RsShape(i) /\ i.got = k.got + bytes /\ i.begin = k.begin /\ i.launch = k.launch /\ i.msg = k.msg /\ i.crlf = k.crlf
  BY <1>2, RsAssigned DEF RsTyped, RsFields
<1>7. HandlePlaintextPayload(c, i, bytes) BY <1>3
<1> HIDE DEF i
<1>8. RsTyped(i) BY <1>2, <1>4, <1>5, <1>6 DEF RsTyped
<1>9. i.begin + bytes = i.got /\ i.launch \cap RsEncrypted = {} /\ i.crlf = RsHeader BY <1>5, <1>6
<1> QED BY <1>4, <1>7, <1>8, <1>9, RsPayload

LEMMA RsReadsEncryptedHeader ==
  ASSUME RsInv, NEW c \in RsConns, HandleReadEncryptedHeader(c) PROVE RsConnsInv' /\ RsReplyInv'
<1> DEFINE k == rsConn[c]
           i == [k EXCEPT !.step = "enc_payload"]
           j == [i EXCEPT !.got = RsHeader]
<1>1. RsConnInv(k) /\ RsTyped(k) BY RsConnTyped
<1>2. j = [k EXCEPT !.step = "enc_payload", !.got = RsHeader] OBVIOUS
<1>3. (Becomes(c, j) /\ UNCHANGED <<rsIv, rsReplies>>) \/ Refused(c, k) BY <1>2 DEF HandleReadEncryptedHeader
<1>4. RsShape(i) /\ i.step = "enc_payload" /\ i.begin = k.begin /\ i.launch = k.launch /\ i.msg = k.msg
  BY <1>1, RsAssigned DEF RsTyped, RsFields
<1> HIDE DEF i
<1>5. RsShape(j) /\ j.step = i.step /\ j.begin = i.begin /\ j.launch = i.launch /\ j.msg = i.msg /\ j.got = RsHeader
  BY <1>4, RsAssigned DEF RsFields
<1> HIDE DEF j
<1>6. RsTyped(j) BY <1>1, <1>4, <1>5, RsAssumption DEF RsTyped
<1>7. RsConnInv(j) BY <1>4, <1>5, <1>6 DEF RsConnInv
<1>8. CASE Becomes(c, j) /\ UNCHANGED <<rsIv, rsReplies>>
  BY <1>7, <1>8, RsOneChanges DEF RsInv, RsReplyInv, RsReplyIvFresh
<1>9. CASE Refused(c, k) BY <1>1, <1>9, RsRefused
<1> QED BY <1>3, <1>8, <1>9

LEMMA RsReadsEncryptedMessage ==
  ASSUME RsInv, NEW c \in RsConns, HandleReadEncryptedMessage(c) PROVE RsConnsInv' /\ RsReplyInv'
<1> DEFINE k == rsConn[c]
           j == [k EXCEPT !.got = Whole(k.msg)]
<1>1. RsConnInv(k) /\ RsTyped(k) BY RsConnTyped
<1>2. (Verified(c) /\ HandleMsg(c, j)) \/ Refused(c, j) BY DEF HandleReadEncryptedMessage
<1>3. RsShape(j) /\ j.got = Whole(k.msg) /\ j.begin = k.begin /\ j.launch = k.launch /\ j.msg = k.msg
  BY <1>1, RsAssigned DEF RsTyped, RsFields
<1> HIDE DEF j
<1>4. Whole(k.msg) \in Nat BY <1>1, RsAssumption DEF RsTyped, Whole
<1>5. RsTyped(j) BY <1>1, <1>3, <1>4 DEF RsTyped
<1>6. j.got >= Whole(j.msg) BY <1>3, <1>4
<1>7. Verified(c) => j.msg.key = CHOOSE l \in j.launch : TRUE BY <1>3 DEF Verified, Launch
<1>8. CASE Verified(c) /\ HandleMsg(c, j) BY <1>5, <1>6, <1>7, <1>8, RsHandled
<1>9. CASE Refused(c, j) BY <1>5, <1>9, RsRefused
<1> QED BY <1>2, <1>8, <1>9

LEMMA RsInvStep == RsInv /\ [RsNext]_rsVars => RsInv'
<1> SUFFICES ASSUME RsInv, [RsNext]_rsVars PROVE RsInv' OBVIOUS
<1>1. CASE PendingChanges
  <2>1. rsPending' = {} \/ \E l \in 1 .. RsLaunches : rsPending' = {l} BY <1>1 DEF PendingChanges
  <2>2. UNCHANGED <<rsConn, rsIv, rsReplies>> BY <1>1 DEF PendingChanges
  <2> QED BY <2>1, <2>2 DEF RsInv, RsPendingInv, RsConnsInv, RsReplyInv, RsReplyIvFresh
<1>2. ASSUME NEW c \in RsConns,
             \/ HandleReadPlaintext(c) \/ ReadPayload(c) \/ HandleReadEncryptedHeader(c)
             \/ HandleReadEncryptedMessage(c) \/ ReadFails(c)
      PROVE  RsInv'
  <2>1. UNCHANGED rsPending
    BY <1>2 DEF HandleReadPlaintext, ReadPayload, HandleReadEncryptedHeader, HandleReadEncryptedMessage, ReadFails
  <2>2. CASE ReadFails(c)
    <3>1. Refused(c, rsConn[c]) \/ Quietly(c, rsConn[c]) BY <2>2 DEF ReadFails
    <3>2. RsConnsInv' /\ RsReplyInv' BY <3>1, RsConnTyped, RsRefused
    <3> QED BY <2>1, <3>2 DEF RsInv, RsPendingInv
  <2>3. (RsConnsInv' /\ RsReplyInv') \/ ReadFails(c)
    BY <1>2, RsReadsHeader, RsReadsPayload, RsReadsEncryptedHeader, RsReadsEncryptedMessage
  <2> QED BY <2>1, <2>2, <2>3 DEF RsInv, RsPendingInv
<1>3. CASE UNCHANGED rsVars
  BY <1>3 DEF rsVars, RsInv, RsPendingInv, RsConnsInv, RsReplyInv, RsReplyIvFresh
<1> QED BY <1>1, <1>2, <1>3, RsAccepts DEF RsNext

LEMMA RsInvSound == RsInv => RtspSound
<1> SUFFICES ASSUME RsInv PROVE RtspSound OBVIOUS
<1>1. \A c \in RsConns : RsConnInv(rsConn[c]) BY DEF RsInv, RsConnsInv
<1>2. RsWholeMessages BY <1>1 DEF RsConnInv, RsWholeMessages
<1>3. RsStalledOnlyBySplit
  <2> SUFFICES ASSUME NEW c \in RsConns, rsConn[c].step \in {"header", "payload"}, rsConn[c].got = Whole(rsConn[c].msg)
               PROVE  rsConn[c].split
    BY DEF RsStalledOnlyBySplit
  <2>1. rsConn[c].got \in Nat /\ rsConn[c].msg.content \in Nat BY <1>1 DEF RsConnInv, RsTyped
  <2>2. rsConn[c].got >= RsHeader BY <2>1, RsAssumption DEF Whole
  <2>3. ~(rsConn[c].got < Whole(rsConn[c].msg)) BY <2>1
  <2> QED BY <1>1, <2>2, <2>3 DEF RsConnInv
<1>4. RsOnlyKeyHolder BY <1>1 DEF RsConnInv, RsOnlyKeyHolder, IsEncrypted, Launch
<1>5. RsReplyIvFresh BY DEF RsInv, RsReplyInv
<1> QED BY <1>2, <1>3, <1>4, <1>5 DEF RtspSound

\* rtsp.cpp, socket_t and rtsp_server_t, for any number of connections and
\* launches and any sizes: commands run on whole messages of the key's holder,
\* a message that arrived waits only where its header's end was split, and
\* no IV is used twice under one launch's key.
THEOREM RtspStaysSound == RsSpec => []RtspSound
<1>1. RsSpec => []RsInv BY RsInitInv, RsInvStep, PTL DEF RsSpec
<1> QED BY <1>1, RsInvSound, PTL

-----------------------------------------------------------------------------
(* The negotiation of a stream (StreamNegotiation) *)

\* What the settled configuration of request r is made of.
SnSettled(r, c) ==
  \E warp \in Int :
    /\ c.host = HostBitrate(r, warp) /\ c.bitrate = VideoBitrate(HostBitrate(r, warp), r)
    /\ c.framerate = Framerate(r) /\ c.encoding = EncodingFramerate(r)

\* A request is answered once; what was asked for is what DESCRIBE wrote.
SnInv ==
  /\ snHost \in SnHosts
  /\ snLaunch.fps \in Nat
  /\ snStep = "described" => snOffer.requested = Requested
  /\ snAsked # {} => snStep \notin {"new", "launched", "described"}
  /\ snAsked \subseteq SnRequests
  /\ \A r \in snAsked, c \in snConfig : SnSettled(r, c)
  /\ snStep \in {"new", "launched", "described"} => snConfig = {}
  /\ OfferHonoured

LEMMA NatProduct == \A a, b \in Nat : a * b \in Nat
OBVIOUS

LEMMA SnWarp == ASSUME SnInv, NEW r \in SnRequests, NEW warp \in WarpFactors(r) PROVE warp \in Int
<1>1. snLaunch.fps \in Nat /\ r.fps \in Nat BY SnAssumption DEF SnInv
<1>2. Framerate(r) \in Nat BY <1>1 DEF Framerate
<1>3. CASE snLaunch.fps = 0 BY <1>3 DEF WarpFactors
<1>4. CASE snLaunch.fps # 0
  <2> DEFINE n == 2 * Framerate(r) * 1000 + snLaunch.fps
             d == 2 * snLaunch.fps
  <2>1. n \in Nat /\ d \in Nat \ {0} BY <1>1, <1>2, <1>4
  <2>2. warp = n \div d BY <1>4 DEF WarpFactors
  <2> HIDE DEF n, d
  <2> QED BY <2>1, <2>2
<1> QED BY <1>3, <1>4

LEMMA SnHostNat == ASSUME SnInv, NEW r \in SnRequests, NEW warp \in Int PROVE HostBitrate(r, warp) \in Nat
<1> DEFINE asked == IF r.configured = 0 THEN r.bitrate ELSE r.configured
           capped == IF snHost.maxBitrate > 0 /\ snHost.maxBitrate < asked THEN snHost.maxBitrate ELSE asked
<1>1. r.bitrate \in Nat /\ r.configured \in Nat /\ snHost.maxBitrate \in Int BY SnAssumption DEF SnInv
<1>2. asked \in Nat BY <1>1
<1>3. capped \in Nat BY <1>1, <1>2
<1>4. HostBitrate(r, warp) = IF snHost.limit /\ warp >= 2 THEN capped * warp ELSE capped BY DEF HostBitrate
<1> HIDE DEF capped
<1>5. warp >= 2 => capped * warp \in Nat BY <1>3, NatProduct
<1> QED BY <1>3, <1>4, <1>5

LEMMA SnBudget == ASSUME SnInv, NEW kbps \in Nat PROVE AfterFec(kbps) \in Nat /\ (kbps = 0 => AfterFec(kbps) = 0)
<1>1. snHost.fec \in Nat BY SnAssumption DEF SnInv
<1>2. CASE snHost.fec <= 80
  <2> DEFINE n == kbps * (100 - snHost.fec)
  <2>1. n \in Nat BY <1>1, <1>2, NatProduct
  <2>2. AfterFec(kbps) = n \div 100 BY <1>2 DEF AfterFec
  <2>3. kbps = 0 => n = 0 BY <1>1
  <2> HIDE DEF n
  <2> QED BY <2>1, <2>2, <2>3
<1>3. CASE ~(snHost.fec <= 80) BY <1>3 DEF AfterFec
<1> QED BY <1>2, <1>3

\* The reductions for audio and overhead, above the caps and in general.
LEMMA SnReductions ==
  ASSUME NEW r, r.channels \in {2, 6, 8}, NEW b \in Nat
  PROVE  LET v == AfterOverhead(AfterAudio(b, r))
             audio == (IF HighQuality(r) THEN 256 ELSE 96) * r.channels
         IN v \in Int /\ 10 * v >= 7 * b /\ (b >= 20740 => v + audio + 500 <= b)
<1> DEFINE q == IF HighQuality(r) THEN 256 ELSE 96
           a == q * r.channels
           k == b - Least(a, b \div 5)
           v == k - Least(500, k \div 10)
<1>1. q \in {256, 96} OBVIOUS
<1> HIDE DEF q
<1>2. a \in Nat /\ a <= 2048 BY <1>1
<1>3. AfterAudio(b, r) = k BY DEF AfterAudio, q
<1> HIDE DEF a
<1>4. k \in Nat /\ 5 * k >= 4 * b /\ (b >= 20740 => k + a = b) BY <1>2 DEF Least
<1>5. AfterOverhead(AfterAudio(b, r)) = v BY <1>3 DEF AfterOverhead
<1> HIDE DEF k
<1>6. v \in Nat /\ 10 * v >= 9 * k /\ (k >= 18692 => v + 500 = k) BY <1>4 DEF Least
<1> HIDE DEF v
<1>7. v \in Int /\ 10 * v >= 7 * b /\ (b >= 20740 => v + a + 500 <= b) BY <1>2, <1>4, <1>6
<1> QED BY <1>5, <1>7 DEF a, q

LEMMA SnTraffic == SnInv => TrafficWithinChoice /\ VideoNotStarved
<1> SUFFICES ASSUME SnInv, NEW r \in snAsked, NEW c \in snConfig
             PROVE  LET budget == IF snHost.fec <= 80 THEN (c.host * (100 - snHost.fec)) \div 100 ELSE c.host
                        i == IF r.channels = 2 THEN 1 ELSE IF r.channels = 6 THEN 2 ELSE 3
                        audio == IF HighQuality(r) THEN AudioKbps.high[i] ELSE AudioKbps.normal[i]
                    IN /\ budget >= 10500 + 5 * 2048 => c.bitrate + audio + 500 <= budget
                       /\ snHost.fec <= 80 => 10 * c.bitrate >= 7 * ((c.host * (100 - snHost.fec)) \div 100)
  BY DEF TrafficWithinChoice, VideoNotStarved
<1> DEFINE i == IF r.channels = 2 THEN 1 ELSE IF r.channels = 6 THEN 2 ELSE 3
           audio == IF HighQuality(r) THEN AudioKbps.high[i] ELSE AudioKbps.normal[i]
           share == (IF HighQuality(r) THEN 256 ELSE 96) * r.channels
           b == AfterFec(c.host)
           v == AfterOverhead(AfterAudio(b, r))
<1>1. r \in SnRequests /\ r.channels \in {2, 6, 8} /\ r.bitrate \in Nat BY SnAssumption DEF SnInv
<1>2. PICK warp \in Int : c.host = HostBitrate(r, warp) /\ c.bitrate = VideoBitrate(HostBitrate(r, warp), r)
  BY DEF SnInv, SnSettled
<1>3. c.host \in Nat BY <1>1, <1>2, SnHostNat
<1>4. b \in Nat /\ (c.host = 0 => b = 0) BY <1>3, SnBudget
<1>5. c.bitrate = IF c.host = 0 THEN r.bitrate ELSE v BY <1>2 DEF VideoBitrate
<1>6. b = IF snHost.fec <= 80 THEN (c.host * (100 - snHost.fec)) \div 100 ELSE c.host BY DEF AfterFec
<1>7. audio \in Nat /\ share \in Nat /\ audio <= share
  <2>1. AudioKbps.high = <<512, 1536, 2048>> /\ AudioKbps.normal = <<96, 256, 450>> BY DEF AudioKbps
  <2>2. CASE HighQuality(r)
    <3>1. audio = AudioKbps.high[i] /\ share = 256 * r.channels BY <2>2
    <3> QED BY <1>1, <2>1, <3>1
  <2>3. CASE ~HighQuality(r)
    <3>1. audio = AudioKbps.normal[i] /\ share = 96 * r.channels BY <2>3
    <3> QED BY <1>1, <2>1, <3>1
  <2> QED BY <2>2, <2>3
<1>8. v \in Int /\ 10 * v >= 7 * b /\ (b >= 20740 => v + share + 500 <= b) BY <1>1, <1>4, SnReductions
<1> HIDE DEF b, v, audio, share
<1>9. b >= 20740 => c.bitrate + audio + 500 <= b BY <1>3, <1>4, <1>5, <1>7, <1>8
<1>10. 10 * c.bitrate >= 7 * b BY <1>1, <1>3, <1>4, <1>5, <1>8
<1>11. 10500 + 5 * 2048 = 20740 OBVIOUS
<1> QED BY <1>6, <1>9, <1>10, <1>11 DEF audio

LEMMA SnRate == SnInv => EncodingRateMatches
<1> SUFFICES ASSUME SnInv, NEW r \in snAsked, NEW c \in snConfig
             PROVE  ~snHost.limit /\ r.fps \notin 1001 .. 4000 =>
                      c.encoding \in (c.framerate * 1000 - 500) .. (c.framerate * 1000 + 500)
  BY DEF EncodingRateMatches
<1> DEFINE e == IF r.fps > 1000 THEN r.fps ELSE r.fps * 1000
           f == c.framerate
           n == r.fps
<1>1. n \in Nat BY SnAssumption DEF SnInv
<1>2. f = Framerate(r) /\ c.encoding = EncodingFramerate(r) BY DEF SnInv, SnSettled
<1>3. ~snHost.limit => c.encoding = e BY <1>2 DEF EncodingFramerate
<1>4. f = IF r.fps > 4000 THEN (r.fps + 500) \div 1000 ELSE r.fps BY <1>2 DEF Framerate
<1> HIDE DEF f
<1>5. r.fps \notin 1001 .. 4000 => e \in (f * 1000 - 500) .. (f * 1000 + 500)
  <2>1. e = (IF n > 1000 THEN n ELSE n * 1000) /\ f = (IF n > 4000 THEN (n + 500) \div 1000 ELSE n) BY <1>4
  <2> HIDE DEF n, e
  <2>2. n > 4000 => e \in (f * 1000 - 500) .. (f * 1000 + 500) BY <1>1, <2>1
  <2>3. n <= 1000 => e \in (f * 1000 - 500) .. (f * 1000 + 500) BY <1>1, <2>1
  <2>4. n \notin 1001 .. 4000 => n > 4000 \/ n <= 1000 BY <1>1
  <2>5. n \notin 1001 .. 4000 => e \in (f * 1000 - 500) .. (f * 1000 + 500) BY <2>2, <2>3, <2>4
  <2> QED BY <2>5 DEF n
<1> HIDE DEF e
<1> QED BY <1>3, <1>5 DEF f

LEMMA SnInvInit == SnInit => SnInv
<1> SUFFICES ASSUME SnInit PROVE SnInv OBVIOUS
<1>1. snLaunch.fps = 0 BY DEF SnInit
<1> QED BY <1>1 DEF SnInit, SnInv, OfferHonoured

\* cmd_announce accepts what DESCRIBE offered.
LEMMA SnOffered ==
  ASSUME SnInv, NEW r \in SnRequests, NEW starts \in BOOLEAN, CmdAnnounce(r, starts) PROVE OfferHonoured'
<1>1. snAsked' = {r} /\ snProbed' = snProbed /\ snOffer' = snOffer BY DEF CmdAnnounce
<1> SUFFICES ASSUME r.complete, r.codec \in snOffer.codecs \cup {"h264"}, snOffer.requested \subseteq r.encryption,
                    snProbed = snOffer.codecs
             PROVE  snStep' \in {"streaming", "500"}
  BY <1>1 DEF OfferHonoured
<1>2. snOffer.requested = Requested BY DEF SnInv, CmdAnnounce
<1>3. EncryptionMode = "mandatory" => {"video", "audio"} \subseteq EncryptionOf(r) BY <1>2 DEF Requested, EncryptionOf
<1>4. r.codec = "h264" \/ r.codec \in snProbed OBVIOUS
<1>5. Status(r) = "streaming" BY <1>3, <1>4 DEF Status
<1> QED BY <1>5 DEF CmdAnnounce

LEMMA SnAnnounces ==
  ASSUME SnInv, NEW r \in SnRequests, NEW starts \in BOOLEAN, CmdAnnounce(r, starts) PROVE SnInv'
<1>1. OfferHonoured' BY SnOffered
<1>2. snAsked' = {r} /\ UNCHANGED <<snHost, snProbed, snLaunch, snOffer>> BY DEF CmdAnnounce
<1>3. snStep' \notin {"new", "launched", "described"}
  <2>1. Status(r) \in {"400", "403", "streaming"} BY DEF Status
  <2> QED BY <2>1 DEF CmdAnnounce
<1>4. ASSUME NEW c \in snConfig' PROVE SnSettled(r, c)'
  <2>1. PICK warp \in WarpFactors(r) :
          snConfig' \subseteq {[framerate |-> Framerate(r), encoding |-> EncodingFramerate(r), host |-> HostBitrate(r, warp),
                               bitrate |-> VideoBitrate(HostBitrate(r, warp), r), encryption |-> EncryptionOf(r),
                               custom |-> CustomSurround(r)]}
    BY DEF CmdAnnounce
  <2>2. warp \in Int BY <2>1, SnWarp
  <2> DEFINE h == HostBitrate(r, warp)
             v == VideoBitrate(h, r)
             f == Framerate(r)
             e == EncodingFramerate(r)
             x == EncryptionOf(r)
             y == CustomSurround(r)
  <2>3. c = [framerate |-> f, encoding |-> e, host |-> h, bitrate |-> v, encryption |-> x, custom |-> y] BY <2>1
  <2> HIDE DEF h, v, f, e, x, y
  <2>4. c.host = h /\ c.bitrate = v /\ c.framerate = f /\ c.encoding = e BY <2>3
  <2>5. HostBitrate(r, warp)' = h BY <1>2 DEF HostBitrate, h
  <2>6. VideoBitrate(HostBitrate(r, warp), r)' = v BY <1>2 DEF VideoBitrate, AfterOverhead, AfterAudio, AfterFec, v, HighQuality, h, HostBitrate
  <2>7. Framerate(r)' = f /\ EncodingFramerate(r)' = e BY <1>2 DEF Framerate, EncodingFramerate, f, e
  <2> QED BY <2>2, <2>4, <2>5, <2>6, <2>7 DEF SnSettled
<1>5. \A q \in snAsked', c \in snConfig' : SnSettled(q, c)' BY <1>2, <1>4
<1> QED BY <1>1, <1>2, <1>3, <1>5 DEF SnInv

LEMMA SnInvStep == SnInv /\ [SnNext]_snVars => SnInv'
<1> SUFFICES ASSUME SnInv, [SnNext]_snVars PROVE SnInv' OBVIOUS
<1>1. ASSUME NEW mode \in SnModes, NEW s \in SnSurround, MakeLaunchSession(mode, s) PROVE SnInv'
  <2>1. /\ snStep = "new" /\ snStep' = "launched" /\ snLaunch' = [fps |-> LaunchFps(mode), surround |-> s]
        /\ UNCHANGED <<snHost, snProbed, snOffer, snAsked, snConfig>>
    BY <1>1 DEF MakeLaunchSession
  <2>2. mode \in Seq(Nat) BY SnAssumption
  <2>3. LaunchFps(mode) \in Nat BY <2>2 DEF LaunchFps
  <2>4. snLaunch'.fps \in Nat BY <2>1, <2>3
  <2>5. snAsked = {} /\ snConfig = {} BY <2>1 DEF SnInv
  <2> QED BY <2>1, <2>4, <2>5 DEF SnInv, OfferHonoured
<1>2. CASE Reprobe
  <2>1. /\ snStep \in {"launched", "described"} /\ UNCHANGED <<snHost, snStep, snLaunch, snOffer, snAsked, snConfig>>
    BY <1>2 DEF Reprobe
  <2>2. snAsked = {} /\ snConfig = {} BY <2>1 DEF SnInv
  <2>3. Requested' = Requested BY <2>1 DEF Requested, EncryptionMode
  <2> QED BY <2>1, <2>2, <2>3 DEF SnInv, OfferHonoured
<1>3. CASE CmdDescribe
  <2> DEFINE m == [x \in 1 .. Len(Channels) |-> Advertised(x)]
             p == Supported
             q == Requested
  <2>1. /\ snStep = "launched" /\ snStep' = "described" /\ UNCHANGED <<snHost, snProbed, snLaunch, snAsked, snConfig>>
        /\ snOffer' = [supported |-> p, requested |-> q, codecs |-> snProbed, mapping |-> m]
    BY <1>3 DEF CmdDescribe
  <2>2. snAsked = {} /\ snConfig = {} BY <2>1 DEF SnInv
  <2>3. Requested' = q BY <2>1 DEF Requested, EncryptionMode
  <2> HIDE DEF m, p, q
  <2>4. snOffer'.requested = q BY <2>1
  <2> QED BY <2>1, <2>2, <2>3, <2>4 DEF SnInv, OfferHonoured
<1>4. CASE UNCHANGED snVars
  <2>1. UNCHANGED <<snHost, snProbed, snStep, snLaunch, snOffer, snAsked, snConfig>> BY <1>4 DEF snVars
  <2>2. Requested' = Requested BY <2>1 DEF Requested, EncryptionMode
  <2>3. \A r \in snAsked, c \in snConfig : SnSettled(r, c)'
    BY <2>1 DEF SnInv, SnSettled, HostBitrate, VideoBitrate, AfterOverhead, AfterAudio, AfterFec, HighQuality, Framerate, EncodingFramerate
  <2> QED BY <2>1, <2>2, <2>3 DEF SnInv, OfferHonoured
<1> QED BY <1>1, <1>2, <1>3, <1>4, SnAnnounces DEF SnNext

\* nvhttp.cpp, make_launch_session, and rtsp.cpp, cmd_describe and
\* cmd_announce, for any host settings and requests: an offer that is taken is
\* honoured, and video, audio and overhead share the bitrate that was chosen.
THEOREM NegotiationStaysHonoured == SnSpec => []NegotiationHonoured
<1>1. SnSpec => []SnInv BY SnInvInit, SnInvStep, PTL DEF SnSpec
<1>2. SnInv => NegotiationHonoured BY SnTraffic, SnRate DEF SnInv, NegotiationHonoured
<1> QED BY <1>1, <1>2, PTL

-----------------------------------------------------------------------------
(* The samples of a session's audio (AudioSamples) *)

FollowsIn(lost, a, b) == a < b /\ \A x \in a + 1 .. b - 1 : x \in lost

Chain(lost, s) ==
  /\ \A j \in 1 .. Len(s) - 1 : FollowsIn(lost, s[j], s[j + 1])
  /\ \A i, j \in 1 .. Len(s) : i < j => s[i] < s[j]

\* What comes after the buffer, and after what the device holds.
AuAhead == IF auHeld # << >> THEN auHeld[1] ELSE auNext + 1

AuBuffers ==
  /\ auNext \in Nat /\ auBuf \in Seq(Nat) /\ auHeld \in Seq(Nat)
  /\ Len(auHeld) <= AuDevice
  /\ Chain(auLost, auBuf) /\ Chain(auLost, auHeld)
  /\ auHeld # << >> => FollowsIn(auLost, auHeld[Len(auHeld)], auNext + 1)
  /\ auBuf # << >> => FollowsIn(auLost, auBuf[Len(auBuf)], AuAhead)
  /\ auOverflow = 0

AuFrames ==
  /\ auQueue \in Seq(Seq(Nat))
  /\ \A k \in 1 .. Len(auQueue) : Len(auQueue[k]) = AuFrame /\ Chain(auLost, auQueue[k])
  /\ FramesInOrder

\* The frames lie before the samples that are still to become frames.
AuBefore ==
  auQueue # << >> =>
    /\ auQueue[Len(auQueue)][AuFrame] <= auNext
    /\ auHeld # << >> => auQueue[Len(auQueue)][AuFrame] < auHeld[1]
    /\ auBuf # << >> => auQueue[Len(auQueue)][AuFrame] < auBuf[1]

AuInv == AuBuffers /\ AuFrames /\ AuBefore

LEMMA AuInvInit == AuInit => AuInv
BY AuAssumption DEF AuInit, AuInv, AuBuffers, AuFrames, AuBefore, Chain, FramesInOrder

\* What the device has lost stays lost.
LEMMA AuStillFollows ==
  ASSUME NEW lost, NEW more, lost \subseteq more, NEW a, NEW b, FollowsIn(lost, a, b) PROVE FollowsIn(more, a, b)
BY DEF FollowsIn

LEMMA AuStillChain == ASSUME NEW lost, NEW more, lost \subseteq more, NEW s, Chain(lost, s) PROVE Chain(more, s)
BY AuStillFollows DEF Chain

\* A piece of a chain is a chain.
LEMMA PieceChain ==
  ASSUME NEW lost, NEW s \in Seq(Nat), Chain(lost, s), NEW m \in 1 .. Len(s) + 1, NEW n \in m - 1 .. Len(s)
  PROVE  /\ SubSeq(s, m, n) \in Seq(Nat) /\ Len(SubSeq(s, m, n)) = n - m + 1
         /\ Chain(lost, SubSeq(s, m, n))
         /\ n >= m => SubSeq(s, m, n)[n - m + 1] = s[n] /\ SubSeq(s, m, n)[1] = s[m]
<1> DEFINE t == SubSeq(s, m, n)
<1>1. t \in Seq(Nat) /\ Len(t) = n - m + 1 /\ \A j \in 1 .. n - m + 1 : t[j] = s[m + j - 1]
  <2>1. m \in Int /\ n \in Int /\ \A i \in m .. n : s[i] \in Nat OBVIOUS
  <2>2. /\ t \in Seq(Nat) /\ Len(t) = (IF m <= n THEN n - m + 1 ELSE 0)
        /\ \A j \in 1 .. n - m + 1 : t[j] = s[m + j - 1]
    BY <2>1, SubSeqProperties
  <2> HIDE DEF t
  <2> QED BY <2>1, <2>2
<1> HIDE DEF t
<1>2. Chain(lost, t)
  <2>0. m \in Nat \ {0} /\ n \in Nat /\ n <= Len(s) /\ Len(s) \in Nat OBVIOUS
  <2>1. ASSUME NEW j \in 1 .. Len(t) - 1 PROVE FollowsIn(lost, t[j], t[j + 1])
    <3>0. j \in 1 .. n - m + 1 /\ j + 1 \in 1 .. n - m + 1 /\ m + (j + 1) - 1 = m + j BY <1>1, <2>0
    <3>1. t[j] = s[m + j - 1] /\ t[j + 1] = s[m + j]
      <4>1. \A k \in 1 .. n - m + 1 : t[k] = s[m + k - 1] BY <1>1
      <4>2. t[j] = s[m + j - 1] /\ t[j + 1] = s[m + (j + 1) - 1] BY <3>0, <4>1, Zenon
      <4> QED BY <3>0, <4>2
    <3>2. m + j - 1 \in 1 .. Len(s) - 1 BY <1>1, <2>0
    <3>3. FollowsIn(lost, s[m + j - 1], s[(m + j - 1) + 1]) BY <3>2 DEF Chain
    <3>4. (m + j - 1) + 1 = m + j BY <2>0
    <3> QED BY <3>1, <3>3, <3>4
  <2>2. ASSUME NEW i \in 1 .. Len(t), NEW j \in 1 .. Len(t), i < j PROVE t[i] < t[j]
    <3>1. t[i] = s[m + i - 1] /\ t[j] = s[m + j - 1] BY <1>1
    <3>2. m + i - 1 \in 1 .. Len(s) /\ m + j - 1 \in 1 .. Len(s) /\ m + i - 1 < m + j - 1
      <4>1. i \in 1 .. n - m + 1 /\ j \in 1 .. n - m + 1 BY <1>1
      <4> QED BY <4>1, <2>0, <2>2
    <3> QED BY <3>1, <3>2 DEF Chain
  <2> QED BY <2>1, <2>2 DEF Chain
<1>3. ASSUME n >= m PROVE t[n - m + 1] = s[n] /\ t[1] = s[m]
  <2>1. \A k \in 1 .. n - m + 1 : t[k] = s[m + k - 1] BY <1>1
  <2>2. /\ n - m + 1 \in 1 .. n - m + 1 /\ 1 \in 1 .. n - m + 1
        /\ m + (n - m + 1) - 1 = n /\ m + 1 - 1 = m
    BY <1>3
  <2>3. t[n - m + 1] = s[m + (n - m + 1) - 1] /\ t[1] = s[m + 1 - 1] BY <2>1, <2>2, Zenon
  <2> QED BY <2>2, <2>3
<1> QED BY <1>1, <1>2, <1>3 DEF t

\* Two chains that meet are one.
LEMMA JoinedChain ==
  ASSUME NEW lost, NEW s \in Seq(Nat), NEW t \in Seq(Nat), t # << >>, Chain(lost, s), Chain(lost, t),
         s # << >> => FollowsIn(lost, s[Len(s)], t[1])
  PROVE  /\ s \o t \in Seq(Nat) /\ Len(s \o t) = Len(s) + Len(t)
         /\ Chain(lost, s \o t)
         /\ (s \o t)[Len(s \o t)] = t[Len(t)]
         /\ (s \o t)[1] = IF s # << >> THEN s[1] ELSE t[1]
<1> DEFINE u == s \o t
           l == Len(s)
           p == Len(t)
<1>1. l \in Nat /\ p \in Nat \ {0} /\ (s # << >> => l # 0) /\ (s = << >> => l = 0) OBVIOUS
<1>2. u \in Seq(Nat) /\ Len(u) = l + p /\ \A i \in 1 .. l + p : u[i] = IF i <= l THEN s[i] ELSE t[i - l] BY ConcatProperties
<1>3. l # 0 => FollowsIn(lost, s[l], t[1]) BY <1>1
<1>4. /\ \A i \in 1 .. l - 1 : FollowsIn(lost, s[i], s[i + 1])
      /\ \A i \in 1 .. p - 1 : FollowsIn(lost, t[i], t[i + 1])
      /\ \A i, j \in 1 .. l : i < j => s[i] < s[j]
      /\ \A i, j \in 1 .. p : i < j => t[i] < t[j]
  BY DEF Chain
<1>0. (\A i \in 1 .. l : s[i] \in Nat) /\ (\A i \in 1 .. p : t[i] \in Nat) OBVIOUS
<1> HIDE DEF u, l, p
<1>a. ASSUME NEW j \in 1 .. l + p - 1 PROVE FollowsIn(lost, u[j], u[j + 1])
  <2>1. CASE j < l
    <3>1. j \in 1 .. l - 1 /\ j \in 1 .. l + p /\ j + 1 \in 1 .. l + p /\ j <= l /\ j + 1 <= l BY <1>a, <2>1, <1>1
    <3>2. u[j] = s[j] /\ u[j + 1] = s[j + 1] BY <3>1, <1>2
    <3> QED BY <3>1, <3>2, <1>4
  <2>2. CASE j = l
    <3>1. l # 0 /\ l \in 1 .. l + p /\ l + 1 \in 1 .. l + p /\ l <= l /\ ~(l + 1 <= l) /\ (l + 1) - l = 1 BY <1>a, <2>2, <1>1
    <3>2. u[l] = s[l] /\ u[l + 1] = t[1] BY <3>1, <1>2
    <3> QED BY <2>2, <3>1, <3>2, <1>3
  <2>3. CASE j > l
    <3>1. /\ j \in 1 .. l + p /\ j + 1 \in 1 .. l + p /\ ~(j <= l) /\ ~(j + 1 <= l)
          /\ (j + 1) - l = (j - l) + 1 /\ j - l \in 1 .. p - 1
      BY <1>a, <2>3, <1>1
    <3>2. u[j] = t[j - l] /\ u[j + 1] = t[(j - l) + 1] BY <3>1, <1>2, SMTT(30)
    <3> QED BY <3>1, <3>2, <1>4
  <2> QED BY <2>1, <2>2, <2>3, <1>1
<1>b. ASSUME NEW i \in 1 .. l + p, NEW j \in 1 .. l + p, i < j PROVE u[i] < u[j]
  <2>1. CASE j <= l
    <3>1. i \in 1 .. l /\ j \in 1 .. l /\ i <= l BY <1>b, <2>1, <1>1
    <3> QED BY <3>1, <2>1, <1>b, <1>2, <1>4
  <2>2. CASE i <= l /\ ~(j <= l)
    <3>1. i \in 1 .. l /\ l \in 1 .. l /\ j - l \in 1 .. p /\ 1 \in 1 .. p /\ l # 0 BY <1>b, <2>2, <1>1
    <3>2. u[i] = s[i] /\ u[j] = t[j - l] BY <2>2, <1>2
    <3>3. s[i] = s[l] \/ s[i] < s[l]
      <4>1. i = l \/ i < l BY <3>1
      <4> QED BY <4>1, <3>1, <1>4
    <3>4. s[l] < t[1] BY <3>1, <1>3 DEF FollowsIn
    <3>5. t[1] = t[j - l] \/ t[1] < t[j - l]
      <4>1. j - l = 1 \/ 1 < j - l BY <3>1
      <4> QED BY <4>1, <3>1, <1>4
    <3>6. s[i] \in Nat /\ s[l] \in Nat /\ t[1] \in Nat /\ t[j - l] \in Nat BY <3>1, <1>0
    <3> QED BY <3>2, <3>3, <3>4, <3>5, <3>6, SMTT(30)
  <2>3. CASE ~(i <= l)
    <3>1. i - l \in 1 .. p /\ j - l \in 1 .. p /\ i - l < j - l /\ ~(j <= l) BY <1>b, <2>3, <1>1
    <3> QED BY <3>1, <2>3, <1>2, <1>4
  <2> QED BY <2>1, <2>2, <2>3
<1>5. Chain(lost, u)
  <2>1. Len(u) = l + p BY <1>2
  <2>2. \A j \in 1 .. Len(u) - 1 : FollowsIn(lost, u[j], u[j + 1])
    <3>1. \A j \in 1 .. l + p - 1 : FollowsIn(lost, u[j], u[j + 1]) BY <1>a
    <3>2. 1 .. Len(u) - 1 = 1 .. l + p - 1 BY <1>1, <1>2, <2>1
    <3> QED BY <3>1, <3>2, Zenon
  <2>3. \A i, j \in 1 .. Len(u) : i < j => u[i] < u[j] BY <2>1, <1>b
  <2> QED BY <2>2, <2>3 DEF Chain
<1>6. u[Len(u)] = t[p]
  <2>1. l + p \in 1 .. l + p /\ ~(l + p <= l) /\ (l + p) - l = p BY <1>1
  <2> QED BY <2>1, <1>2
<1>7. u[1] = IF s # << >> THEN s[1] ELSE t[1]
  <2>1. 1 \in 1 .. l + p /\ (s # << >> => 1 <= l) /\ (s = << >> => ~(1 <= l) /\ 1 - l = 1) BY <1>1
  <2> QED BY <2>1, <1>2
<1> QED BY <1>2, <1>5, <1>6, <1>7 DEF u, l, p

\* The frames in the queue do not change.
LEMMA AuSameFrames == ASSUME AuFrames, UNCHANGED auQueue, auLost \subseteq auLost' PROVE AuFrames'
<1>1. \A k \in 1 .. Len(auQueue) : Len(auQueue[k]) = AuFrame /\ Chain(auLost', auQueue[k]) BY AuStillChain DEF AuFrames
<1> QED BY <1>1 DEF AuFrames, FramesInOrder

\* The last sample of the last frame.
LEMMA AuLastIsNat == ASSUME AuFrames, auQueue # << >> PROVE auQueue[Len(auQueue)][AuFrame] \in Nat
<1>1. auQueue \in Seq(Seq(Nat)) /\ Len(auQueue) \in 1 .. Len(auQueue) BY DEF AuFrames
<1>2. auQueue[Len(auQueue)] \in Seq(Nat) /\ Len(auQueue[Len(auQueue)]) = AuFrame BY <1>1 DEF AuFrames
<1> QED BY <1>2, AuAssumption

LEMMA AuRecords == ASSUME AuInv, NEW n \in 1 .. AuDevice, AuRecord(n) PROVE AuInv'
<1> DEFINE new == [k \in 1 .. n |-> auNext + k]
<1>1. /\ Len(auHeld) + n <= AuDevice /\ auNext' = auNext + n /\ auHeld' = auHeld \o new
      /\ UNCHANGED <<auLost, auBuf, auOverflow, auQueue>>
  BY DEF AuRecord
<1>2. auNext \in Nat /\ n \in Nat \ {0} /\ auHeld \in Seq(Nat) /\ Len(auHeld) \in Nat BY AuAssumption DEF AuInv, AuBuffers
<1>3. new \in Seq(Nat) /\ Len(new) = n /\ \A k \in 1 .. n : new[k] = auNext + k
  <2>1. new \in [1 .. n -> Nat] BY <1>2
  <2> QED BY <2>1, <1>2
<1> HIDE DEF new
<1>4. new # << >> /\ new[1] = auNext + 1 /\ new[n] = auNext + n BY <1>2, <1>3
<1>5. Chain(auLost, new)
  <2>1. ASSUME NEW j \in 1 .. n - 1 PROVE FollowsIn(auLost, new[j], new[j + 1])
    <3>1. new[j] = auNext + j /\ new[j + 1] = auNext + (j + 1) BY <1>2, <1>3
    <3> QED BY <3>1, <1>2 DEF FollowsIn
  <2>2. \A i, j \in 1 .. n : i < j => new[i] < new[j] BY <1>2, <1>3
  <2> QED BY <2>1, <2>2, <1>3 DEF Chain
<1>6. /\ auHeld' \in Seq(Nat) /\ Len(auHeld') = Len(auHeld) + n /\ Chain(auLost, auHeld')
      /\ auHeld'[Len(auHeld')] = auNext + n
      /\ auHeld'[1] = AuAhead
  <2>1. auHeld # << >> => FollowsIn(auLost, auHeld[Len(auHeld)], new[1]) BY <1>4 DEF AuInv, AuBuffers
  <2>2. Chain(auLost, auHeld) BY DEF AuInv, AuBuffers
  <2>3. /\ auHeld' \in Seq(Nat) /\ Len(auHeld') = Len(auHeld) + Len(new) /\ Chain(auLost, auHeld')
        /\ auHeld'[Len(auHeld')] = new[Len(new)]
        /\ auHeld'[1] = IF auHeld # << >> THEN auHeld[1] ELSE new[1]
    <3>1. PICK h \in Seq(Nat) : h = auHeld BY <1>2
    <3>2. /\ h \o new \in Seq(Nat) /\ Len(h \o new) = Len(h) + Len(new) /\ Chain(auLost, h \o new)
          /\ (h \o new)[Len(h \o new)] = new[Len(new)]
          /\ (h \o new)[1] = IF h # << >> THEN h[1] ELSE new[1]
      BY <1>3, <1>4, <1>5, <2>1, <2>2, <3>1, JoinedChain
    <3> QED BY <1>1, <3>1, <3>2, Zenon
  <2> QED BY <1>3, <1>4, <2>3 DEF AuAhead
<1>7. AuBuffers'
  <2>1. auHeld' # << >> BY <1>2, <1>6
  <2>2. FollowsIn(auLost', auHeld'[Len(auHeld')], auNext' + 1) BY <1>1, <1>2, <1>6 DEF FollowsIn
  <2>3. AuAhead' = AuAhead BY <1>6, <2>1 DEF AuAhead
  <2>4. auBuf' # << >> => FollowsIn(auLost', auBuf'[Len(auBuf')], AuAhead') BY <1>1, <2>3 DEF AuInv, AuBuffers
  <2>5. Chain(auLost', auBuf') /\ Chain(auLost', auHeld') BY <1>1, <1>6 DEF AuInv, AuBuffers
  <2>6. auNext' \in Nat /\ Len(auHeld') <= AuDevice BY <1>1, <1>2, <1>6
  <2>7. auBuf' \in Seq(Nat) /\ auOverflow' = 0 BY <1>1 DEF AuInv, AuBuffers
  <2> QED BY <1>6, <2>2, <2>4, <2>5, <2>6, <2>7 DEF AuBuffers
<1>8. AuFrames' BY <1>1, AuSameFrames DEF AuInv
<1>9. AuBefore'
  <2> SUFFICES ASSUME auQueue # << >>
               PROVE  /\ auQueue[Len(auQueue)][AuFrame] <= auNext'
                      /\ auQueue[Len(auQueue)][AuFrame] < auHeld'[1]
                      /\ auBuf # << >> => auQueue[Len(auQueue)][AuFrame] < auBuf[1]
    BY <1>1 DEF AuBefore
  <2>1. PICK l \in Nat : l = auQueue[Len(auQueue)][AuFrame] BY AuLastIsNat DEF AuInv
  <2>2. l <= auNext /\ (auHeld # << >> => l < auHeld[1]) /\ (auBuf # << >> => l < auBuf[1]) BY <2>1 DEF AuInv, AuBefore
  <2>3. l <= auNext' BY <1>1, <1>2, <2>2
  <2>4. l < AuAhead BY <1>2, <2>2 DEF AuAhead
  <2> QED BY <1>6, <2>1, <2>2, <2>3, <2>4
<1> QED BY <1>7, <1>8, <1>9 DEF AuInv

LEMMA AuLoses == ASSUME AuInv, NEW n \in 1 .. AuDevice, DeviceLoses(n) PROVE AuInv'
<1>1. /\ auNext' = auNext + n /\ auLost' = auLost \cup auNext + 1 .. auNext + n
      /\ UNCHANGED <<auHeld, auBuf, auOverflow, auQueue>>
  BY DEF DeviceLoses
<1>2. auNext \in Nat /\ n \in Nat \ {0} BY AuAssumption DEF AuInv, AuBuffers
<1>3. auLost \subseteq auLost' BY <1>1
<1>4. ASSUME NEW a \in Nat, FollowsIn(auLost, a, auNext + 1) PROVE FollowsIn(auLost', a, auNext' + 1)
  <2>0. auNext' \in Nat /\ auNext' = auNext + n BY <1>1, <1>2
  <2>1. a < auNext' + 1 BY <2>0, <1>2, <1>4 DEF FollowsIn
  <2>2. ASSUME NEW x \in a + 1 .. (auNext' + 1) - 1 PROVE x \in auLost'
    <3>1. CASE x <= auNext
      <4>1. x \in a + 1 .. (auNext + 1) - 1 BY <1>2, <2>0, <2>2, <3>1
      <4> QED BY <4>1, <1>3, <1>4 DEF FollowsIn
    <3>2. CASE ~(x <= auNext)
      <4>1. x \in auNext + 1 .. auNext + n BY <1>2, <2>0, <2>2, <3>2
      <4> QED BY <4>1, <1>1
    <3> QED BY <3>1, <3>2
  <2> QED BY <2>1, <2>2 DEF FollowsIn
<1>5. auBuf \in Seq(Nat) /\ auHeld \in Seq(Nat) BY DEF AuInv, AuBuffers
<1>6. AuBuffers'
  <2>1. Chain(auLost', auBuf') /\ Chain(auLost', auHeld') BY <1>1, <1>3, AuStillChain DEF AuInv, AuBuffers
  <2>2. auHeld # << >> => FollowsIn(auLost', auHeld[Len(auHeld)], auNext' + 1)
    <3> SUFFICES ASSUME auHeld # << >> PROVE FollowsIn(auLost', auHeld[Len(auHeld)], auNext' + 1) OBVIOUS
    <3>1. auHeld[Len(auHeld)] \in Nat BY <1>5
    <3>2. FollowsIn(auLost, auHeld[Len(auHeld)], auNext + 1) BY DEF AuInv, AuBuffers
    <3> QED BY <3>1, <3>2, <1>4
  <2>3. auBuf # << >> => FollowsIn(auLost', auBuf[Len(auBuf)], AuAhead')
    <3> SUFFICES ASSUME auBuf # << >> PROVE FollowsIn(auLost', auBuf[Len(auBuf)], AuAhead') OBVIOUS
    <3>1. auBuf[Len(auBuf)] \in Nat BY <1>5
    <3>2. FollowsIn(auLost, auBuf[Len(auBuf)], AuAhead) BY DEF AuInv, AuBuffers
    <3>3. CASE auHeld # << >>
      <4>1. AuAhead' = AuAhead BY <3>3, <1>1 DEF AuAhead
      <4> QED BY <3>2, <4>1, <1>3, AuStillFollows
    <3>4. CASE auHeld = << >>
      <4>1. AuAhead = auNext + 1 /\ AuAhead' = auNext' + 1 BY <3>4, <1>1 DEF AuAhead
      <4> QED BY <3>1, <3>2, <4>1, <1>4
    <3> QED BY <3>3, <3>4
  <2>4. auNext' \in Nat BY <1>1, <1>2
  <2>5. auBuf' \in Seq(Nat) /\ auHeld' \in Seq(Nat) /\ Len(auHeld') <= AuDevice /\ auOverflow' = 0
    BY <1>1 DEF AuInv, AuBuffers
  <2> QED BY <1>1, <2>1, <2>2, <2>3, <2>4, <2>5 DEF AuBuffers
<1>7. AuFrames' BY <1>1, <1>3, AuSameFrames DEF AuInv
<1>8. AuBefore'
  <2> SUFFICES ASSUME auQueue # << >>
               PROVE  /\ auQueue[Len(auQueue)][AuFrame] <= auNext'
                      /\ auHeld # << >> => auQueue[Len(auQueue)][AuFrame] < auHeld[1]
                      /\ auBuf # << >> => auQueue[Len(auQueue)][AuFrame] < auBuf[1]
    BY <1>1 DEF AuBefore
  <2>1. PICK l \in Nat : l = auQueue[Len(auQueue)][AuFrame] BY AuLastIsNat DEF AuInv
  <2>2. l <= auNext /\ (auHeld # << >> => l < auHeld[1]) /\ (auBuf # << >> => l < auBuf[1]) BY <2>1 DEF AuInv, AuBefore
  <2>3. l <= auNext' BY <1>1, <1>2, <2>2
  <2> QED BY <2>1, <2>2, <2>3
<1> QED BY <1>6, <1>7, <1>8 DEF AuInv

\* All the device holds fits behind an incomplete frame, and goes on from it.
LEMMA AuFills == ASSUME AuInv, FillBuffer PROVE AuInv'
<1> DEFINE room == Capacity - Len(auBuf)
           h == Len(auHeld)
           n == IF h < room THEN h ELSE room
<1>1. /\ Len(auBuf) < AuFrame /\ auHeld # << >> /\ auBuf' = auBuf \o SubSeq(auHeld, 1, n) /\ auOverflow' = auOverflow + (h - n)
      /\ auHeld' = << >> /\ UNCHANGED <<auNext, auLost, auQueue>>
  BY DEF FillBuffer
<1>2. /\ auNext \in Nat /\ auHeld \in Seq(Nat) /\ h \in 1 .. AuDevice /\ Len(auBuf) \in Nat /\ auBuf \in Seq(Nat)
      /\ Chain(auLost, auBuf) /\ Chain(auLost, auHeld)
  BY <1>1, AuAssumption DEF AuInv, AuBuffers
<1>3. Capacity \in Nat /\ Capacity >= AuFrame + AuDevice BY AuAssumption DEF Capacity, Bigger
<1>4. h <= room /\ room \in Int BY <1>1, <1>2, <1>3, AuAssumption
<1>5. n = h
  <2> HIDE DEF room, h
  <2>1. CASE h < room BY <2>1
  <2>2. CASE ~(h < room) BY <2>2, <1>2, <1>4
  <2> QED BY <2>1, <2>2
<1>6. SubSeq(auHeld, 1, h) = auHeld BY <1>2
<1> HIDE DEF n
<1>7. auBuf' = auBuf \o auHeld BY <1>1, <1>5, <1>6
<1>8. auOverflow' = 0
  <2>1. auOverflow = 0 BY DEF AuInv, AuBuffers
  <2> HIDE DEF h
  <2> QED BY <2>1, <1>1, <1>2, <1>5
<1>9. auBuf # << >> => FollowsIn(auLost, auBuf[Len(auBuf)], auHeld[1]) BY <1>1 DEF AuInv, AuBuffers, AuAhead
<1>10. /\ auBuf' \in Seq(Nat) /\ auBuf' # << >> /\ auBuf'[Len(auBuf')] = auHeld[h]
       /\ auBuf'[1] = IF auBuf # << >> THEN auBuf[1] ELSE auHeld[1]
  <2>1. /\ auBuf' \in Seq(Nat) /\ Len(auBuf') = Len(auBuf) + h
        /\ auBuf'[Len(auBuf')] = auHeld[h] /\ auBuf'[1] = IF auBuf # << >> THEN auBuf[1] ELSE auHeld[1]
    <3>1. PICK b \in Seq(Nat) : b = auBuf BY <1>2
    <3>2. PICK e \in Seq(Nat) : e = auHeld BY <1>2
    <3>3. /\ b \o e \in Seq(Nat) /\ Len(b \o e) = Len(b) + Len(e)
          /\ (b \o e)[Len(b \o e)] = e[Len(e)] /\ (b \o e)[1] = IF b # << >> THEN b[1] ELSE e[1]
      BY <1>1, <1>2, <1>9, <3>1, <3>2, JoinedChain, ZenonT(40)
    <3> QED BY <1>7, <3>1, <3>2, <3>3, Zenon
  <2> QED BY <2>1, <1>2
<1>11. Chain(auLost', auBuf') BY <1>1, <1>2, <1>7, <1>9, JoinedChain
<1>12. AuBuffers'
  <2>1. FollowsIn(auLost, auHeld[h], auNext + 1) BY <1>1 DEF AuInv, AuBuffers
  <2>2. AuAhead' = auNext + 1 BY <1>1 DEF AuAhead
  <2>3. FollowsIn(auLost', auBuf'[Len(auBuf')], AuAhead') BY <2>1, <2>2, <1>1, <1>10
  <2>4. Chain(auLost', auHeld') /\ Len(auHeld') = 0 /\ auHeld' \in Seq(Nat) BY <1>1 DEF Chain
  <2> QED BY <2>3, <2>4, <1>1, <1>2, <1>8, <1>10, <1>11, AuAssumption DEF AuBuffers
<1>13. AuFrames' BY <1>1, AuSameFrames DEF AuInv
<1>14. AuBefore'
  <2> SUFFICES ASSUME auQueue # << >>
               PROVE  auQueue[Len(auQueue)][AuFrame] <= auNext /\ auQueue[Len(auQueue)][AuFrame] < auBuf'[1]
    BY <1>1 DEF AuBefore
  <2> QED BY <1>1, <1>10 DEF AuInv, AuBefore
<1> QED BY <1>12, <1>13, <1>14 DEF AuInv

LEMMA AuSamples == ASSUME AuInv, Sample PROVE AuInv'
<1> DEFINE frame == SubSeq(auBuf, 1, AuFrame)
<1>1. /\ Len(auBuf) >= AuFrame /\ auBuf' = Excess /\ auQueue' = (IF auRunning THEN Raised(auQueue, frame) ELSE auQueue)
      /\ UNCHANGED <<auNext, auLost, auHeld, auOverflow>>
  BY DEF Sample
<1>2. auBuf \in Seq(Nat) /\ Chain(auLost, auBuf) /\ Len(auBuf) \in Nat /\ auNext \in Nat /\ auHeld \in Seq(Nat) BY DEF AuInv, AuBuffers
<1>3. frame \in Seq(Nat) /\ Len(frame) = AuFrame /\ Chain(auLost, frame) /\ frame[1] = auBuf[1] /\ frame[AuFrame] = auBuf[AuFrame]
  <2>1. 1 \in 1 .. Len(auBuf) + 1 /\ AuFrame \in 1 - 1 .. Len(auBuf) /\ AuFrame >= 1 BY <1>1, <1>2, AuAssumption
  <2>2. AuFrame - 1 + 1 = AuFrame BY AuAssumption
  <2> QED BY <1>2, <2>1, <2>2, PieceChain
<1> HIDE DEF frame
<1> DEFINE m == AuFrame + 1
           n == Len(auBuf)
<1>a. m \in 1 .. Len(auBuf) + 1 /\ n \in m - 1 .. Len(auBuf) /\ m \in Nat /\ n \in Nat BY <1>1, <1>2, AuAssumption
<1>b. auBuf' = SubSeq(auBuf, m, n) BY <1>1 DEF Excess
<1>c. n = Len(auBuf) /\ m = AuFrame + 1 OBVIOUS
<1> HIDE DEF m, n
<1>4. /\ auBuf' \in Seq(Nat) /\ Chain(auLost, auBuf') /\ Len(auBuf') = n - m + 1
      /\ n >= m => auBuf'[n - m + 1] = auBuf[n] /\ auBuf'[1] = auBuf[m]
  BY <1>2, <1>a, <1>b, PieceChain
<1>d. auBuf' # << >> => n >= m /\ auBuf'[Len(auBuf')] = auBuf[n] /\ auBuf'[1] = auBuf[m] /\ auBuf # << >>
  BY <1>4, <1>a, <1>c, <1>2, AuAssumption
<1>e. auBuf' # << >> => FollowsIn(auLost, auBuf[AuFrame], auBuf[m])
  <2> SUFFICES ASSUME n >= m PROVE FollowsIn(auLost, auBuf[AuFrame], auBuf[AuFrame + 1]) BY <1>c, <1>d
  <2>1. AuFrame \in 1 .. Len(auBuf) - 1 BY <1>a, <1>c, AuAssumption
  <2> QED BY <2>1, <1>2 DEF Chain
<1>f. auBuf # << >> /\ auBuf[n] \in Nat /\ auBuf[AuFrame] \in Nat /\ auBuf[AuFrame] <= auBuf[n]
  <2>0. AuFrame \in 1 .. n /\ n \in 1 .. n BY <1>1, <1>a, <1>c, AuAssumption
  <2>1. auBuf # << >> /\ auBuf[n] \in Nat /\ auBuf[AuFrame] \in Nat BY <2>0, <1>2, <1>c
  <2> QED
    <3>1. AuFrame = n \/ AuFrame < n BY <2>0
    <3>2. AuFrame < n => auBuf[AuFrame] < auBuf[n] BY <2>0, <1>2, <1>c DEF Chain
    <3> QED BY <2>1, <3>1, <3>2
<1>g. FollowsIn(auLost, auBuf[n], AuAhead) BY <1>f, <1>c DEF AuInv, AuBuffers
<1>5. AuBuffers'
  <2>1. AuAhead' = AuAhead BY <1>1 DEF AuAhead
  <2>2. auBuf' # << >> => FollowsIn(auLost', auBuf'[Len(auBuf')], AuAhead') BY <2>1, <1>1, <1>d, <1>g
  <2>3. Chain(auLost', auBuf') /\ Chain(auLost', auHeld') BY <1>1, <1>4 DEF AuInv, AuBuffers
  <2>4. auHeld' # << >> => FollowsIn(auLost', auHeld'[Len(auHeld')], auNext' + 1) BY <1>1 DEF AuInv, AuBuffers
  <2>5. auNext' \in Nat /\ auHeld' \in Seq(Nat) /\ Len(auHeld') <= AuDevice /\ auOverflow' = 0 BY <1>1 DEF AuInv, AuBuffers
  <2> QED BY <1>4, <2>2, <2>3, <2>4, <2>5 DEF AuBuffers
<1>6. \/ auQueue' = auQueue \/ auQueue' = <<frame>> \/ auQueue' = Append(auQueue, frame)
  BY <1>1 DEF Raised
<1>7. Len(frame) = AuFrame /\ Chain(auLost', frame) BY <1>1, <1>3
<1>8. /\ auQueue \in Seq(Seq(Nat)) /\ FramesInOrder
      /\ \A k \in 1 .. Len(auQueue) : Len(auQueue[k]) = AuFrame /\ Chain(auLost', auQueue[k])
  BY <1>1 DEF AuInv, AuFrames
<1>9. AuFrames'
  <2>1. CASE auQueue' = auQueue BY <2>1, <1>8 DEF AuFrames, FramesInOrder
  <2>2. CASE auQueue' = <<frame>>
    <3>1. /\ auQueue' \in Seq(Seq(Nat)) /\ Len(auQueue') = 1 /\ auQueue'[1] = frame
          /\ \A k \in 1 .. Len(auQueue') : auQueue'[k] = frame
      BY <1>3, <2>2
    <3> QED BY <3>1, <1>7 DEF AuFrames, FramesInOrder
  <2>3. CASE auQueue' = Append(auQueue, frame)
    <3> DEFINE c == Len(auQueue)
    <3>1. /\ auQueue' \in Seq(Seq(Nat)) /\ Len(auQueue') = c + 1 /\ c \in Nat
          /\ \A k \in 1 .. c + 1 : auQueue'[k] = IF k = c + 1 THEN frame ELSE auQueue[k]
      BY <1>3, <1>8, <2>3
    <3>2. ASSUME NEW k \in 1 .. c + 1 PROVE Len(auQueue'[k]) = AuFrame /\ Chain(auLost', auQueue'[k])
      <4>1. CASE k = c + 1 BY <4>1, <3>1, <1>7
      <4>2. CASE k # c + 1
        <5>1. k \in 1 .. c /\ auQueue'[k] = auQueue[k] BY <4>2, <3>1
        <5> QED BY <5>1, <1>8
      <4> QED BY <4>1, <4>2
    <3>3. ASSUME NEW k \in 1 .. Len(auQueue') - 1 PROVE auQueue'[k][AuFrame] < auQueue'[k + 1][1]
      <4>1. CASE k = c
        <5>1. auQueue'[k] = auQueue[c] /\ auQueue'[k + 1] = frame /\ auQueue # << >> BY <3>1, <3>3, <4>1
        <5>2. auQueue[c][AuFrame] < auBuf[1] BY <5>1, <1>f DEF AuInv, AuBefore
        <5> QED BY <5>1, <5>2, <1>3
      <4>2. CASE k # c
        <5>1. k \in 1 .. c - 1 /\ auQueue'[k] = auQueue[k] /\ auQueue'[k + 1] = auQueue[k + 1] BY <3>1, <3>3, <4>2
        <5> QED BY <5>1, <1>8 DEF FramesInOrder
      <4> QED BY <4>1, <4>2
    <3> HIDE DEF c
    <3>4. FramesInOrder' BY <3>3 DEF FramesInOrder
    <3>5. \A k \in 1 .. Len(auQueue') : Len(auQueue'[k]) = AuFrame /\ Chain(auLost', auQueue'[k]) BY <3>1, <3>2
    <3> QED BY <3>1, <3>4, <3>5 DEF AuFrames
  <2> QED BY <1>6, <2>1, <2>2, <2>3
<1>10. AuBefore'
  <2>0. /\ auBuf' # << >> => auBuf[AuFrame] < auBuf'[1]
        /\ auBuf[AuFrame] <= auNext
        /\ auHeld # << >> => auBuf[AuFrame] < auHeld[1]
    <3>1. auBuf' # << >> => auBuf[AuFrame] < auBuf'[1] BY <1>d, <1>e DEF FollowsIn
    <3>2. auBuf[n] < AuAhead BY <1>g DEF FollowsIn
    <3>3. auHeld # << >> => auHeld[1] \in Nat BY <1>2
    <3>4. auHeld # << >> => auBuf[AuFrame] < auHeld[1] BY <3>2, <3>3, <1>f DEF AuAhead
    <3>5. CASE auHeld = << >>
      <4>1. auBuf[n] < auNext + 1 BY <3>2, <3>5 DEF AuAhead
      <4> QED BY <4>1, <3>1, <3>4, <1>2, <1>f
    <3>6. CASE auHeld # << >>
      <4>0. Len(auHeld) \in Nat \ {0} /\ Len(auHeld) \in 1 .. Len(auHeld) /\ 1 \in 1 .. Len(auHeld) BY <3>6, <1>2
      <4>1. 1 = Len(auHeld) \/ 1 < Len(auHeld) BY <4>0
      <4>5. auHeld[1] = auHeld[Len(auHeld)] \/ auHeld[1] < auHeld[Len(auHeld)] BY <4>0, <4>1 DEF AuInv, AuBuffers, Chain
      <4>3. auHeld[Len(auHeld)] < auNext + 1 BY <3>6 DEF AuInv, AuBuffers, FollowsIn
      <4>4. auHeld[Len(auHeld)] \in Nat BY <4>0, <1>2
      <4> QED BY <4>5, <4>3, <4>4, <3>1, <3>3, <3>4, <3>6, <1>2, <1>f
    <3> QED BY <3>5, <3>6
  <2>1. CASE auQueue' = auQueue
    <3> SUFFICES ASSUME auQueue # << >>
                 PROVE  /\ auQueue[Len(auQueue)][AuFrame] <= auNext
                        /\ auHeld # << >> => auQueue[Len(auQueue)][AuFrame] < auHeld[1]
                        /\ auBuf' # << >> => auQueue[Len(auQueue)][AuFrame] < auBuf'[1]
      BY <1>1, <2>1 DEF AuBefore
    <3>1. PICK l \in Nat : l = auQueue[Len(auQueue)][AuFrame] BY AuLastIsNat DEF AuInv
    <3>2. l <= auNext /\ (auHeld # << >> => l < auHeld[1]) /\ l < auBuf[1] BY <3>1, <1>f DEF AuInv, AuBefore
    <3>3. auBuf[1] \in Nat /\ auBuf[1] <= auBuf[AuFrame]
      <4>1. AuFrame \in 1 .. Len(auBuf) /\ 1 \in 1 .. Len(auBuf) BY <1>1, <1>2, AuAssumption
      <4>2. 1 = AuFrame \/ 1 < AuFrame BY <4>1
      <4>3. auBuf[1] = auBuf[AuFrame] \/ auBuf[1] < auBuf[AuFrame] BY <4>1, <4>2, <1>2 DEF Chain
      <4> QED BY <4>1, <4>3, <1>2, <1>f
    <3>4. auBuf' # << >> => l < auBuf'[1]
      <4> SUFFICES ASSUME auBuf' # << >> PROVE l < auBuf'[1] OBVIOUS
      <4>1. auBuf'[1] \in Nat BY <1>4
      <4> QED BY <4>1, <2>0, <3>2, <3>3, <1>f
    <3> QED BY <3>1, <3>2, <3>4
  <2>2. CASE auQueue' # auQueue
    <3>1. auQueue'[Len(auQueue')] = frame
      <4>1. CASE auQueue' = <<frame>> BY <4>1
      <4>2. CASE auQueue' = Append(auQueue, frame) BY <4>2, <1>3, <1>8
      <4> QED BY <4>1, <4>2, <1>6, <2>2
    <3> QED BY <3>1, <2>0, <1>1, <1>3 DEF AuBefore
  <2> QED BY <2>1, <2>2
<1> QED BY <1>5, <1>9, <1>10 DEF AuInv

LEMMA AuEncodes == ASSUME AuInv, NEW works \in BOOLEAN, EncodeFrame(works) PROVE AuInv'
<1>1. auQueue # << >> /\ auQueue' = Tail(auQueue) /\ UNCHANGED <<auNext, auLost, auHeld, auBuf, auOverflow>>
  BY DEF EncodeFrame
<1>2. AuBuffers' BY <1>1 DEF AuInv, AuBuffers, AuAhead
<1>3. /\ auQueue \in Seq(Seq(Nat)) /\ FramesInOrder
      /\ \A k \in 1 .. Len(auQueue) : Len(auQueue[k]) = AuFrame /\ Chain(auLost', auQueue[k])
  BY <1>1 DEF AuInv, AuFrames
<1>4. /\ auQueue' \in Seq(Seq(Nat)) /\ Len(auQueue') = Len(auQueue) - 1
      /\ \A k \in 1 .. Len(auQueue') : k + 1 \in 1 .. Len(auQueue) /\ auQueue'[k] = auQueue[k + 1]
  BY <1>1, <1>3
<1>5. FramesInOrder'
  <2> SUFFICES ASSUME NEW k \in 1 .. Len(auQueue') - 1 PROVE auQueue'[k][AuFrame] < auQueue'[k + 1][1] BY DEF FramesInOrder
  <2>1. /\ Len(auQueue) \in Nat /\ k \in 1 .. Len(auQueue') /\ k + 1 \in 1 .. Len(auQueue') /\ k + 1 \in 1 .. Len(auQueue) - 1
    BY <1>3, <1>4
  <2>2. auQueue'[k] = auQueue[k + 1] /\ auQueue'[k + 1] = auQueue[(k + 1) + 1] BY <2>1, <1>4
  <2> QED BY <2>1, <2>2, <1>3 DEF FramesInOrder
<1>6. \A k \in 1 .. Len(auQueue') : Len(auQueue'[k]) = AuFrame /\ Chain(auLost', auQueue'[k]) BY <1>3, <1>4
<1>7. AuFrames' BY <1>4, <1>5, <1>6 DEF AuFrames
<1>8. AuBefore'
  <2>1. auQueue' # << >> => auQueue'[Len(auQueue')] = auQueue[Len(auQueue)]
    <3> SUFFICES ASSUME auQueue' # << >> PROVE auQueue'[Len(auQueue')] = auQueue[Len(auQueue)] OBVIOUS
    <3>1. Len(auQueue') \in 1 .. Len(auQueue') /\ Len(auQueue') + 1 = Len(auQueue) BY <1>3, <1>4
    <3> QED BY <3>1, <1>4
  <2> QED BY <2>1, <1>1 DEF AuInv, AuBefore
<1> QED BY <1>2, <1>7, <1>8 DEF AuInv

LEMMA AuInvStep == AuInv /\ [AuNext]_auVars => AuInv'
<1> SUFFICES ASSUME AuInv, [AuNext]_auVars PROVE AuInv' OBVIOUS
<1>1. CASE Reinitialized
  <2>1. auHeld' = << >> /\ auBuf' = << >> /\ UNCHANGED <<auNext, auLost, auOverflow, auQueue>> BY <1>1 DEF Reinitialized
  <2>2. Chain(auLost', auBuf') /\ Chain(auLost', auHeld') /\ auBuf' \in Seq(Nat) /\ auHeld' \in Seq(Nat) /\ Len(auHeld') = 0 BY <2>1 DEF Chain
  <2>3. AuBuffers' BY <2>1, <2>2, AuAssumption DEF AuInv, AuBuffers
  <2>4. AuFrames' BY <2>1, AuSameFrames DEF AuInv
  <2>5. AuBefore' BY <2>1 DEF AuInv, AuBefore
  <2> QED BY <2>3, <2>4, <2>5 DEF AuInv
<1>2. CASE PopStopped \/ CaptureEnds \/ EncoderJoined \/ UNCHANGED auVars
  <2>1. UNCHANGED <<auNext, auLost, auHeld, auBuf, auOverflow, auQueue>>
    BY <1>2 DEF PopStopped, CaptureEnds, EncoderJoined, auVars
  <2>2. AuBuffers' BY <2>1 DEF AuInv, AuBuffers, AuAhead
  <2>3. AuFrames' BY <2>1, AuSameFrames DEF AuInv
  <2>4. AuBefore' BY <2>1 DEF AuInv, AuBefore
  <2> QED BY <2>2, <2>3, <2>4 DEF AuInv
<1> QED BY <1>1, <1>2, AuRecords, AuLoses, AuFills, AuSamples, AuEncodes DEF AuNext

LEMMA AuInvSound == AuInv => NothingOverflows /\ FrameWithoutGap /\ FramesInOrder
<1> SUFFICES ASSUME AuInv PROVE FrameWithoutGap BY DEF AuInv, AuBuffers, AuFrames, NothingOverflows
<1>1. auQueue \in Seq(Seq(Nat)) BY DEF AuInv, AuFrames
<1>2. DOMAIN auQueue = 1 .. Len(auQueue) BY <1>1
<1> QED BY <1>2 DEF AuInv, AuFrames, Chain, FrameWithoutGap, Follows, FollowsIn

\* audio.cpp, capture and encodeThread, and mic_wasapi_t, for any sizes of
\* frames, device buffer and queue: the microphone's buffer does not overflow,
\* no frame has a gap but the device's own, and the frames stay in order.
THEOREM SamplesWhole == AuSpec => [](NothingOverflows /\ FrameWithoutGap /\ FramesInOrder)
<1>1. AuSpec => []AuInv BY AuInvInit, AuInvStep, PTL DEF AuSpec
<1> QED BY <1>1, AuInvSound, PTL

-----------------------------------------------------------------------------
(* The devices of audio capture (AudioSink) *)

AsMicFields == {"dev", "changed", "guards"}
AsCtxFields == {"host", "flag", "restore"}

AsShapes ==
  /\ asStep = [s \in AsSessions |-> asStep[s]]
  /\ asMic = [s \in AsSessions |-> asMic[s]]
  /\ \A s \in AsSessions : \A m \in asMic[s] : DOMAIN m = AsMicFields /\ m = [x \in AsMicFields |-> m[x]]
  /\ \A c \in asCtx : DOMAIN c = AsCtxFields /\ c = [x \in AsCtxFields |-> c[x]]
  /\ \A c, d \in asCtx : c = d

\* The context is there while a session uses it.
AsContext ==
  /\ (asCtx = {}) <=> \A s \in AsSessions : asStep[s] = "idle"
  /\ ~asUp => asCtx = {}

\* A device that may be left as the default, and where one is put back.
AsFine(d) == d \notin Virtual \/ d \in asChosen
AsExcused == asFailed \/ AsDevices \ Virtual = {}

AsPutBack ==
  /\ AsExcused \/ (asUp /\ asCtx = {} => AsFine(asDefault))
  /\ \A c \in asCtx :
       /\ AsExcused \/ AsFine(c.host)
       /\ ~c.restore => (AsExcused \/ AsFine(asDefault)) /\ asAssigned = {} /\ \A s \in AsSessions : asStep[s] # "sink"
       /\ ~c.flag => ~c.restore

AsInv == AsShapes /\ AsContext /\ AsPutBack /\ CaptureNotStale

LEMMA AsInvInit == AsInit => AsInv
BY DEF AsInit, AsInv, AsShapes, AsContext, AsPutBack, CaptureNotStale, AsFine

LEMMA AsInvSound == AsInv => VirtualSinkReleased
BY DEF AsInv, AsContext, AsPutBack, AsFine, AsExcused, VirtualSinkReleased, Users

\* What a microphone's record keeps when one of its fields is assigned.
LEMMA AsAssigned ==
  ASSUME NEW m, DOMAIN m = AsMicFields, m = [x \in AsMicFields |-> m[x]], NEW f \in AsMicFields, NEW v,
         NEW n, n = [m EXCEPT ![f] = v]
  PROVE  /\ DOMAIN n = AsMicFields /\ n = [x \in AsMicFields |-> n[x]]
         /\ n[f] = v /\ \A g \in AsMicFields : g # f => n[g] = m[g]
OBVIOUS

\* SetDefaultEndpoint tells every microphone of a new default device.
LEMMA AsSetDefault ==
  ASSUME AsShapes, NEW d, NEW mics, mics = [s \in AsSessions |-> mics[s]], \A s \in AsSessions : mics[s] \subseteq asMic[s],
         SetDefault(d, mics)
  PROVE  /\ asDefault' = d
         /\ asMic' = [s \in AsSessions |-> asMic'[s]]
         /\ \A s \in AsSessions : \A m \in asMic'[s] : DOMAIN m = AsMicFields /\ m = [x \in AsMicFields |-> m[x]]
         /\ \A s \in AsSessions : \A m \in asMic'[s] : m.changed = TRUE \/ (asDefault' = asDefault /\ m \in asMic[s])
<1>1. CASE d = asDefault BY <1>1 DEF SetDefault, AsShapes
<1>2. CASE d # asDefault
  <2>1. asDefault' = d /\ asMic' = Notified(mics) BY <1>2 DEF SetDefault
  <2>2. asMic' = [s \in AsSessions |-> {[m EXCEPT !.changed = TRUE] : m \in mics[s]}] BY <2>1 DEF Notified
  <2>3. ASSUME NEW s \in AsSessions, NEW n \in asMic'[s]
        PROVE  DOMAIN n = AsMicFields /\ n = [x \in AsMicFields |-> n[x]] /\ n.changed = TRUE
    <3>1. PICK m \in mics[s] : n = [m EXCEPT !.changed = TRUE] BY <2>2, <2>3
    <3>2. DOMAIN m = AsMicFields /\ m = [x \in AsMicFields |-> m[x]] BY <3>1 DEF AsShapes
    <3> QED BY <3>1, <3>2, AsAssigned DEF AsMicFields
  <2>4. asMic' = [s \in AsSessions |-> asMic'[s]] BY <2>2
  <2> QED BY <2>1, <2>3, <2>4
<1> QED BY <1>1, <1>2

\* No thread starts to capture: what was not stale is not stale now.
LEMMA AsNotStale ==
  ASSUME AsInv, asAuto' = asAuto, \A s \in AsSessions : asStep'[s] = "capture" => asStep[s] = "capture",
         \A s \in AsSessions : \A m \in asMic'[s] : m.changed = TRUE \/ (asDefault' = asDefault /\ m \in asMic[s])
  PROVE  CaptureNotStale'
<1> SUFFICES ASSUME asAuto, NEW s \in AsSessions, asStep'[s] = "capture", NEW m \in asMic'[s] PROVE m.dev = {asDefault'} \/ m.changed
  BY DEF CaptureNotStale
<1>1. asStep[s] = "capture" OBVIOUS
<1>2. CASE m.changed = TRUE BY <1>2
<1>3. CASE asDefault' = asDefault /\ m \in asMic[s] BY <1>1, <1>3 DEF AsInv, CaptureNotStale
<1> QED BY <1>2, <1>3

LEMMA AsUnnotified ==
  ASSUME AsInv, UNCHANGED asDefault, asMic' = asMic \/ (\E s \in AsSessions : asMic' = [asMic EXCEPT ![s] = {}])
  PROVE  /\ asMic' = [s \in AsSessions |-> asMic'[s]]
         /\ \A s \in AsSessions : \A m \in asMic'[s] : DOMAIN m = AsMicFields /\ m = [x \in AsMicFields |-> m[x]]
         /\ \A s \in AsSessions : \A m \in asMic'[s] : m.changed = TRUE \/ (asDefault' = asDefault /\ m \in asMic[s])
<1>0. asMic = [s \in AsSessions |-> asMic[s]] BY DEF AsInv, AsShapes
<1>1. asMic' = [s \in AsSessions |-> asMic'[s]] /\ \A s \in AsSessions : asMic'[s] \subseteq asMic[s] BY <1>0
<1> QED BY <1>1 DEF AsInv, AsShapes

\* The step of one thread changes.
LEMMA AsOneStep ==
  ASSUME AsShapes, NEW s \in AsSessions, NEW v, asStep' = [asStep EXCEPT ![s] = v]
  PROVE  /\ asStep' = [r \in AsSessions |-> asStep'[r]]
         /\ \A r \in AsSessions : asStep'[r] = IF r = s THEN v ELSE asStep[r]
BY DEF AsShapes

LEMMA AsStarts == ASSUME AsInv, ProcessStarts PROVE AsInv'
<1>1. PICK d \in ResetDevice : SetDefault(d, asMic) BY DEF ProcessStarts
<1>2. ~asUp /\ UNCHANGED <<asAuto, asChosen, asCtx, asAssigned, asStep, asShut, asFailed, asEvents>> BY DEF ProcessStarts
<1>3. asMic = [s \in AsSessions |-> asMic[s]] BY DEF AsInv, AsShapes
<1>4. /\ asDefault' = d
      /\ asMic' = [s \in AsSessions |-> asMic'[s]]
      /\ \A s \in AsSessions : \A m \in asMic'[s] : DOMAIN m = AsMicFields /\ m = [x \in AsMicFields |-> m[x]]
      /\ \A s \in AsSessions : \A m \in asMic'[s] : m.changed = TRUE \/ (asDefault' = asDefault /\ m \in asMic[s])
  BY <1>1, <1>3, AsSetDefault DEF AsInv
<1>5. AsShapes' BY <1>2, <1>4 DEF AsInv, AsShapes
<1>6. CaptureNotStale' BY <1>2, <1>4, AsNotStale
<1>7. asCtx = {} BY <1>2 DEF AsInv, AsContext
<1>8. AsContext' BY <1>2, <1>7 DEF AsInv, AsContext
<1>9. AsExcused \/ d \notin Virtual BY <1>1 DEF ResetDevice, FirstOf, AsExcused
<1>10. AsPutBack' BY <1>2, <1>4, <1>7, <1>9 DEF AsPutBack, AsFine, AsExcused
<1> QED BY <1>5, <1>6, <1>8, <1>10 DEF AsInv

LEMMA AsCrashes == ASSUME AsInv, AudioCrash PROVE AsInv'
<1>1. /\ asUp' = FALSE /\ asCtx' = {} /\ asStep' = [s \in AsSessions |-> "idle"] /\ asMic' = [s \in AsSessions |-> {}]
  BY DEF AudioCrash
<1> QED BY <1>1 DEF AsInv, AsShapes, AsContext, AsPutBack, CaptureNotStale

LEMMA AsUser == ASSUME AsInv, NEW d \in AsDevices, UserChanges(d) PROVE AsInv'
<1>1. SetDefault(d, asMic) /\ asChosen' = asChosen \cup {d} /\ UNCHANGED <<asAuto, asUp, asCtx, asAssigned, asStep, asShut, asFailed>>
  BY DEF UserChanges
<1>3. asMic = [s \in AsSessions |-> asMic[s]] BY DEF AsInv, AsShapes
<1>4. /\ asDefault' = d
      /\ asMic' = [s \in AsSessions |-> asMic'[s]]
      /\ \A s \in AsSessions : \A m \in asMic'[s] : DOMAIN m = AsMicFields /\ m = [x \in AsMicFields |-> m[x]]
      /\ \A s \in AsSessions : \A m \in asMic'[s] : m.changed = TRUE \/ (asDefault' = asDefault /\ m \in asMic[s])
  BY <1>1, <1>3, AsSetDefault DEF AsInv
<1>5. AsShapes' BY <1>1, <1>4 DEF AsInv, AsShapes
<1>6. CaptureNotStale' BY <1>1, <1>4, AsNotStale
<1>8. AsContext' BY <1>1 DEF AsInv, AsContext
<1>10. AsPutBack'
  <2>1. AsFine(asDefault)' BY <1>1, <1>4 DEF AsFine
  <2>2. \A e : AsFine(e) => AsFine(e)' BY <1>1 DEF AsFine
  <2>3. AsExcused' <=> AsExcused BY <1>1 DEF AsExcused
  <2>4. ASSUME NEW c \in asCtx
        PROVE  /\ AsExcused' \/ AsFine(c.host)'
               /\ ~c.restore => asAssigned' = {} /\ \A s \in AsSessions : asStep'[s] # "sink"
               /\ ~c.flag => ~c.restore
    BY <1>1, <2>2, <2>3 DEF AsInv, AsPutBack
  <2> QED BY <1>1, <2>1, <2>4 DEF AsPutBack
<1> QED BY <1>5, <1>6, <1>8, <1>10 DEF AsInv

LEMMA AsControl == ASSUME AsInv, NEW s \in AsSessions, StartAudioControl(s) PROVE AsInv'
<1> DEFINE c0 == [host |-> asDefault, flag |-> FALSE, restore |-> FALSE]
<1>1. /\ asUp /\ asStep' = [asStep EXCEPT ![s] = "ref"]
      /\ asCtx' = (IF asCtx = {} THEN {c0} ELSE asCtx) /\ asAssigned' = (IF asCtx = {} THEN {} ELSE asAssigned)
      /\ UNCHANGED <<asAuto, asUp, asDefault, asChosen, asMic, asShut, asFailed, asEvents>>
  BY DEF StartAudioControl
<1>2. DOMAIN c0 = AsCtxFields /\ c0 = [x \in AsCtxFields |-> c0[x]] /\ c0.host = asDefault /\ c0.flag = FALSE /\ c0.restore = FALSE
  BY DEF AsCtxFields
<1>0. PICK k : k = c0 OBVIOUS
<1>a. DOMAIN k = AsCtxFields /\ k = [x \in AsCtxFields |-> k[x]] /\ k.host = asDefault /\ k.flag = FALSE /\ k.restore = FALSE
  BY <1>0, <1>2
<1>b. asCtx' = IF asCtx = {} THEN {k} ELSE asCtx BY <1>0, <1>1
<1> HIDE DEF c0
<1>3. /\ asStep' = [r \in AsSessions |-> asStep'[r]] /\ \A r \in AsSessions : asStep'[r] = IF r = s THEN "ref" ELSE asStep[r]
  BY <1>1, AsOneStep DEF AsInv
<1>4. AsShapes' BY <1>1, <1>a, <1>b, <1>3 DEF AsInv, AsShapes
<1>5. CaptureNotStale' BY <1>1, <1>3 DEF AsInv, CaptureNotStale
<1>6. AsContext' BY <1>1, <1>3 DEF AsInv, AsContext
<1>7. AsPutBack'
  <2>1. CASE asCtx = {}
    <3>1. \A r \in AsSessions : asStep'[r] # "sink" BY <2>1, <1>3 DEF AsInv, AsContext
    <3>2. AsExcused \/ AsFine(asDefault) BY <1>1, <2>1 DEF AsInv, AsPutBack
    <3>3. asCtx' = {k} /\ asAssigned' = {} BY <1>1, <1>b, <2>1
    <3>4. (AsExcused \/ AsFine(asDefault))' BY <1>1, <3>2 DEF AsExcused, AsFine
    <3>5. (AsExcused \/ AsFine(k.host))' BY <1>1, <1>a, <3>2 DEF AsExcused, AsFine
    <3> QED BY <3>1, <3>3, <3>4, <3>5, <1>a DEF AsPutBack
  <2>2. CASE asCtx # {}
    <3>1. asCtx' = asCtx /\ asAssigned' = asAssigned BY <1>1, <2>2
    <3> QED BY <1>1, <1>3, <2>2, <3>1 DEF AsInv, AsPutBack, AsExcused, AsFine
  <2> QED BY <2>1, <2>2
<1> QED BY <1>4, <1>5, <1>6, <1>7 DEF AsInv

LEMMA AsTakes == ASSUME AsInv, NEW s \in AsSessions, TakeFlag(s) PROVE AsInv'
<1> DEFINE restore == VirtualPreferred(s) \/ AsConfigured # {}
<1>1. PICK c \in asCtx :
        /\ asCtx' = IF MayChangeSink(c) THEN {[c EXCEPT !.flag = TRUE, !.restore = restore]} ELSE asCtx
        /\ asStep' = [asStep EXCEPT ![s] = IF MayChangeSink(c) /\ restore THEN "sink" ELSE "listen"]
  BY DEF TakeFlag
<1>2. UNCHANGED <<asAuto, asUp, asDefault, asChosen, asAssigned, asMic, asShut, asFailed, asEvents>> /\ asStep[s] = "ref" BY DEF TakeFlag
<1> DEFINE v == IF MayChangeSink(c) /\ restore THEN "sink" ELSE "listen"
<1>3. restore \in BOOLEAN OBVIOUS
<1>4. v # "idle" /\ v # "capture" /\ (v = "sink" => MayChangeSink(c) /\ restore) OBVIOUS
<1>5. asCtx = {c} BY DEF AsInv, AsShapes
<1> HIDE DEF restore
<1>6. asStep' = [asStep EXCEPT ![s] = v] BY <1>1
<1> HIDE DEF v
<1>7. /\ asStep' = [r \in AsSessions |-> asStep'[r]] /\ \A r \in AsSessions : asStep'[r] = IF r = s THEN v ELSE asStep[r]
  BY <1>6, AsOneStep DEF AsInv
<1>8. CaptureNotStale' BY <1>2, <1>4, <1>7 DEF AsInv, CaptureNotStale
<1>9. AsContext'
  <2>1. asCtx' # {} BY <1>1, <1>5
  <2>2. ~\A r \in AsSessions : asStep'[r] = "idle" BY <1>4, <1>7
  <2> QED BY <1>2, <1>5, <2>1, <2>2 DEF AsInv, AsContext
<1>10. CASE MayChangeSink(c)
  <2> DEFINE d0 == [c EXCEPT !.flag = TRUE]
             d == [d0 EXCEPT !.restore = restore]
  <2>1. asCtx' = {d} BY <1>1, <1>10
  <2>2. DOMAIN c = AsCtxFields /\ c = [x \in AsCtxFields |-> c[x]] BY DEF AsInv, AsShapes
  <2>3. DOMAIN d0 = AsCtxFields /\ d0 = [x \in AsCtxFields |-> d0[x]] /\ d0.host = c.host /\ d0.flag = TRUE BY <2>2 DEF AsCtxFields
  <2> HIDE DEF d0
  <2>4. /\ DOMAIN d = AsCtxFields /\ d = [x \in AsCtxFields |-> d[x]] /\ d.host = c.host /\ d.flag = TRUE /\ d.restore = restore
    BY <2>3 DEF AsCtxFields
  <2> HIDE DEF d
  <2>5. AsShapes' BY <1>2, <1>7, <2>1, <2>4 DEF AsInv, AsShapes
  <2>6. ~c.restore BY <1>10 DEF AsInv, AsPutBack, MayChangeSink
  <2>8. asAssigned = {} /\ \A r \in AsSessions : asStep[r] # "sink" BY <2>6 DEF AsInv, AsPutBack
  <2>9. ~restore => \A r \in AsSessions : asStep'[r] # "sink" BY <1>4, <1>7, <2>8
  <2>10. (AsExcused \/ AsFine(asDefault))' /\ (AsExcused \/ AsFine(d.host))'
    BY <1>2, <2>4, <2>6 DEF AsInv, AsPutBack, AsExcused, AsFine
  <2>11. AsPutBack' BY <1>2, <2>1, <2>4, <2>8, <2>9, <2>10 DEF AsPutBack
  <2> QED BY <1>8, <1>9, <2>5, <2>11 DEF AsInv
<1>11. CASE ~MayChangeSink(c)
  <2>1. asCtx' = asCtx /\ v # "sink" BY <1>1, <1>4, <1>11
  <2>2. AsShapes' BY <1>2, <1>7, <2>1 DEF AsInv, AsShapes
  <2>3. AsPutBack' BY <1>2, <1>7, <2>1 DEF AsInv, AsPutBack, AsExcused, AsFine
  <2> QED BY <1>8, <1>9, <2>2, <2>3 DEF AsInv
<1> QED BY <1>10, <1>11

LEMMA AsSets == ASSUME AsInv, NEW s \in AsSessions, NEW works \in BOOLEAN, SetSink(s, works) PROVE AsInv'
<1>1. asStep[s] = "sink" /\ UNCHANGED <<asAuto, asUp, asChosen, asCtx, asShut, asFailed, asEvents>> BY DEF SetSink
<1>2. PICK c \in asCtx : LET found == IF works THEN SelectedSink(s, c) ELSE {}
        IN /\ asStep' = [asStep EXCEPT ![s] = IF found = {} THEN "failed" ELSE "listen"]
           /\ IF found = {} THEN UNCHANGED <<asDefault, asMic, asAssigned>>
              ELSE \E d \in found : SetDefault(d, asMic) /\ asAssigned' = {d}
  BY DEF SetSink
<1> DEFINE found == IF works THEN SelectedSink(s, c) ELSE {}
           v == IF found = {} THEN "failed" ELSE "listen"
<1>3. v \in {"failed", "listen"} /\ asStep' = [asStep EXCEPT ![s] = v] BY <1>2
<1>4. UNCHANGED <<asDefault, asMic, asAssigned>> \/ \E d : SetDefault(d, asMic) BY <1>2
<1> HIDE DEF v, found
<1>5. /\ asStep' = [r \in AsSessions |-> asStep'[r]] /\ \A r \in AsSessions : asStep'[r] = IF r = s THEN v ELSE asStep[r]
  BY <1>3, AsOneStep DEF AsInv
<1>6. asMic = [r \in AsSessions |-> asMic[r]] BY DEF AsInv, AsShapes
<1>7. /\ asMic' = [r \in AsSessions |-> asMic'[r]]
      /\ \A r \in AsSessions : \A m \in asMic'[r] : DOMAIN m = AsMicFields /\ m = [x \in AsMicFields |-> m[x]]
      /\ \A r \in AsSessions : \A m \in asMic'[r] : m.changed = TRUE \/ (asDefault' = asDefault /\ m \in asMic[r])
  <2>1. CASE UNCHANGED <<asDefault, asMic, asAssigned>> BY <2>1, AsUnnotified
  <2>2. CASE \E d : SetDefault(d, asMic) BY <2>2, <1>6, AsSetDefault DEF AsInv
  <2> QED BY <1>4, <2>1, <2>2
<1>8. AsShapes' BY <1>1, <1>5, <1>7 DEF AsInv, AsShapes
<1>9. CaptureNotStale' BY <1>1, <1>3, <1>5, <1>7, AsNotStale
<1>10. AsContext' BY <1>1, <1>3, <1>5 DEF AsInv, AsContext
<1>11. \A k \in asCtx : k.restore BY <1>1 DEF AsInv, AsPutBack
<1>12. asCtx # {} BY <1>2
<1>13. AsPutBack'
  <2>1. \A k \in asCtx : (AsExcused \/ AsFine(k.host))' /\ (~k.flag => ~k.restore)
    BY <1>1 DEF AsInv, AsPutBack, AsExcused, AsFine
  <2> QED BY <1>1, <1>11, <1>12, <2>1 DEF AsPutBack
<1> QED BY <1>8, <1>9, <1>10, <1>13 DEF AsInv

LEMMA AsListens == ASSUME AsInv, NEW s \in AsSessions, MicListens(s) PROVE AsInv'
<1> DEFINE n == [dev |-> {}, changed |-> FALSE, guards |-> FALSE]
<1>1. /\ asStep[s] \in {"listen", "again", "lost"} /\ asMic' = [asMic EXCEPT ![s] = {n}]
      /\ UNCHANGED <<asAuto, asUp, asDefault, asChosen, asCtx, asAssigned, asStep, asShut, asFailed, asEvents>>
  BY DEF MicListens
<1>2. DOMAIN n = AsMicFields /\ n = [x \in AsMicFields |-> n[x]] BY DEF AsMicFields
<1> HIDE DEF n
<1>3. asMic = [r \in AsSessions |-> asMic[r]] BY DEF AsInv, AsShapes
<1>4. asMic' = [r \in AsSessions |-> asMic'[r]] /\ \A r \in AsSessions : asMic'[r] = IF r = s THEN {n} ELSE asMic[r] BY <1>1, <1>3
<1>5. AsShapes' BY <1>1, <1>2, <1>4 DEF AsInv, AsShapes
<1>6. CaptureNotStale' BY <1>1, <1>4 DEF AsInv, CaptureNotStale
<1>7. AsContext' /\ AsPutBack' BY <1>1 DEF AsInv, AsContext, AsPutBack, AsExcused, AsFine
<1> QED BY <1>5, <1>6, <1>7 DEF AsInv

LEMMA AsOpens == ASSUME AsInv, NEW s \in AsSessions, NEW works \in BOOLEAN, MicOpens(s, works) PROVE AsInv'
<1> DEFINE v == IF works THEN "capture" ELSE IF asStep[s] = "listen" THEN "failed" ELSE "retry"
           S == IF works THEN {[m EXCEPT !.dev = {asDefault}, !.guards = Guards] : m \in asMic[s]} ELSE {}
<1>1. /\ asStep[s] \in {"listen", "again", "lost"} /\ asMic' = [asMic EXCEPT ![s] = S] /\ asStep' = [asStep EXCEPT ![s] = v]
      /\ UNCHANGED <<asAuto, asUp, asDefault, asChosen, asCtx, asAssigned, asShut, asFailed, asEvents>>
  BY DEF MicOpens
<1>2. v \in {"capture", "failed", "retry"} OBVIOUS
<1>3. \A n \in S : DOMAIN n = AsMicFields /\ n = [x \in AsMicFields |-> n[x]] /\ n.dev = {asDefault}
  <2> SUFFICES ASSUME NEW n \in S PROVE DOMAIN n = AsMicFields /\ n = [x \in AsMicFields |-> n[x]] /\ n.dev = {asDefault} OBVIOUS
  <2>1. PICK m \in asMic[s] : n = [m EXCEPT !.dev = {asDefault}, !.guards = Guards] OBVIOUS
  <2> DEFINE i == [m EXCEPT !.dev = {asDefault}]
             g == Guards
  <2>2. n = [i EXCEPT !.guards = g] BY <2>1
  <2>3. DOMAIN m = AsMicFields /\ m = [x \in AsMicFields |-> m[x]] BY DEF AsInv, AsShapes
  <2>4. DOMAIN i = AsMicFields /\ i = [x \in AsMicFields |-> i[x]] /\ i.dev = {asDefault} BY <2>3, AsAssigned DEF AsMicFields
  <2> HIDE DEF i, g
  <2> QED BY <2>2, <2>4, AsAssigned DEF AsMicFields
<1> HIDE DEF v, S
<1>4. asMic = [r \in AsSessions |-> asMic[r]] BY DEF AsInv, AsShapes
<1>5. asMic' = [r \in AsSessions |-> asMic'[r]] /\ \A r \in AsSessions : asMic'[r] = IF r = s THEN S ELSE asMic[r] BY <1>1, <1>4
<1>6. /\ asStep' = [r \in AsSessions |-> asStep'[r]] /\ \A r \in AsSessions : asStep'[r] = IF r = s THEN v ELSE asStep[r]
  BY <1>1, AsOneStep DEF AsInv
<1>7. AsShapes' BY <1>1, <1>3, <1>5, <1>6 DEF AsInv, AsShapes
<1>8. CaptureNotStale'
  <2> SUFFICES ASSUME asAuto, NEW r \in AsSessions, asStep'[r] = "capture", NEW m \in asMic'[r] PROVE m.dev = {asDefault} \/ m.changed
    BY <1>1 DEF CaptureNotStale
  <2>1. CASE r = s BY <2>1, <1>3, <1>5
  <2>2. CASE r # s BY <2>2, <1>5, <1>6 DEF AsInv, CaptureNotStale
  <2> QED BY <2>1, <2>2
<1>9. AsContext' BY <1>1, <1>2, <1>6 DEF AsInv, AsContext
<1>10. AsPutBack' BY <1>1, <1>2, <1>6 DEF AsInv, AsPutBack, AsExcused, AsFine
<1> QED BY <1>7, <1>8, <1>9, <1>10 DEF AsInv

LEMMA AsSmallSteps ==
  ASSUME AsInv, NEW s \in AsSessions, TryAgain(s) \/ CaptureFails(s) \/ Shutdown(s) \/ Invalidated(s) PROVE AsInv'
<1>1. /\ UNCHANGED <<asAuto, asUp, asDefault, asChosen, asCtx, asAssigned, asFailed, asEvents>>
      /\ asMic' = asMic \/ \E r \in AsSessions : asMic' = [asMic EXCEPT ![r] = {}]
  BY DEF TryAgain, CaptureFails, Shutdown, Invalidated
<1>2. \/ asStep' = asStep
      \/ asStep[s] # "idle" /\ \E v \in {"again", "failed", "lost"} : asStep' = [asStep EXCEPT ![s] = v]
  BY DEF TryAgain, CaptureFails, Shutdown, Invalidated
<1>3. /\ asStep' = [r \in AsSessions |-> asStep'[r]]
      /\ \A r \in AsSessions : asStep'[r] = asStep[r] \/ (asStep'[r] \in {"again", "failed", "lost"} /\ asStep[r] # "idle")
  BY <1>2 DEF AsInv, AsShapes
<1>a. /\ asMic' = [r \in AsSessions |-> asMic'[r]]
      /\ \A r \in AsSessions : \A m \in asMic'[r] : DOMAIN m = AsMicFields /\ m = [x \in AsMicFields |-> m[x]]
      /\ \A r \in AsSessions : \A m \in asMic'[r] : m.changed = TRUE \/ (asDefault' = asDefault /\ m \in asMic[r])
  BY <1>1, AsUnnotified
<1>4. AsShapes' BY <1>1, <1>3, <1>a DEF AsInv, AsShapes
<1>5. CaptureNotStale' BY <1>1, <1>3, <1>a, AsNotStale
<1>6. AsContext' BY <1>1, <1>3 DEF AsInv, AsContext
<1>7. AsPutBack' BY <1>1, <1>3 DEF AsInv, AsPutBack, AsExcused, AsFine
<1> QED BY <1>4, <1>5, <1>6, <1>7 DEF AsInv

LEMMA AsReinit == ASSUME AsInv, NEW s \in AsSessions, NEW works \in BOOLEAN, Reinit(s, works) PROVE AsInv'
<1> DEFINE Mics(m) == [asMic EXCEPT ![s] = IF asAuto THEN {} ELSE {[m EXCEPT !.changed = FALSE]}]
<1>1. /\ asStep[s] = "capture" /\ asStep' = (IF asAuto THEN [asStep EXCEPT ![s] = "again"] ELSE asStep)
      /\ UNCHANGED <<asAuto, asUp, asChosen, asCtx, asAssigned, asShut, asEvents>>
  BY DEF Reinit
<1>2. PICK m \in asMic[s] :
        /\ asFailed' = (asFailed \/ (CallbackSink(m) # {} /\ ~works))
        /\ IF CallbackSink(m) # {} /\ works THEN \E d \in CallbackSink(m) : SetDefault(d, Mics(m))
           ELSE asMic' = Mics(m) /\ UNCHANGED asDefault
  BY DEF Reinit
<1>3. /\ asStep' = [r \in AsSessions |-> asStep'[r]]
      /\ \A r \in AsSessions : asStep'[r] = asStep[r] \/ (r = s /\ asStep'[r] = "again")
  BY <1>1 DEF AsInv, AsShapes
<1>4. asMic = [r \in AsSessions |-> asMic[r]] BY DEF AsInv, AsShapes
<1> DEFINE mics == Mics(m)
<1>6. (asMic' = mics /\ UNCHANGED asDefault) \/ (asAssigned # {} /\ \E d : SetDefault(d, mics)) BY <1>2 DEF CallbackSink
<1>7. /\ asMic' = [r \in AsSessions |-> asMic'[r]]
      /\ \A r \in AsSessions : \A n \in asMic'[r] : DOMAIN n = AsMicFields /\ n = [x \in AsMicFields |-> n[x]]
      /\ asAuto => \A r \in AsSessions : \A n \in asMic'[r] : n.changed = TRUE \/ (asDefault' = asDefault /\ n \in asMic[r])
  <2>1. CASE asAuto
    <3>1. mics = [asMic EXCEPT ![s] = {}] BY <2>1
    <3> HIDE DEF mics
    <3>2. mics = [r \in AsSessions |-> mics[r]] /\ \A r \in AsSessions : mics[r] \subseteq asMic[r] BY <3>1, <1>4
    <3>3. CASE asMic' = mics /\ UNCHANGED asDefault BY <3>1, <3>3, AsUnnotified
    <3>4. CASE \E d : SetDefault(d, mics) BY <3>4, <3>2, AsSetDefault DEF AsInv
    <3> QED BY <1>6, <3>3, <3>4
  <2>2. CASE ~asAuto
    <3>1. PICK k : k = [m EXCEPT !.changed = FALSE] OBVIOUS
    <3>2. DOMAIN m = AsMicFields /\ m = [x \in AsMicFields |-> m[x]] BY DEF AsInv, AsShapes
    <3>3. DOMAIN k = AsMicFields /\ k = [x \in AsMicFields |-> k[x]] BY <3>1, <3>2, AsAssigned DEF AsMicFields
    <3>4. mics = [asMic EXCEPT ![s] = {k}] BY <2>2, <3>1
    <3> HIDE DEF mics
    <3>5. /\ mics = [r \in AsSessions |-> mics[r]]
          /\ \A r \in AsSessions : \A n \in mics[r] : DOMAIN n = AsMicFields /\ n = [x \in AsMicFields |-> n[x]]
      BY <3>3, <3>4, <1>4, ZenonT(40) DEF AsInv, AsShapes
    <3>6. CASE asMic' = mics BY <3>5, <3>6, <2>2
    <3>7. CASE asMic' = Notified(mics)
      <4>1. asMic' = [r \in AsSessions |-> {[n EXCEPT !.changed = TRUE] : n \in mics[r]}] BY <3>7 DEF Notified
      <4>2. ASSUME NEW r \in AsSessions, NEW n \in asMic'[r] PROVE DOMAIN n = AsMicFields /\ n = [x \in AsMicFields |-> n[x]]
        <5>1. PICK q \in mics[r] : n = [q EXCEPT !.changed = TRUE] BY <4>1, <4>2
        <5>2. DOMAIN q = AsMicFields /\ q = [x \in AsMicFields |-> q[x]] BY <3>5
        <5> QED BY <5>1, <5>2, AsAssigned DEF AsMicFields
      <4>3. asMic' = [r \in AsSessions |-> asMic'[r]] BY <4>1
      <4> QED BY <4>2, <4>3, <2>2
    <3> QED BY <1>6, <3>6, <3>7 DEF SetDefault
  <2> QED BY <2>1, <2>2
<1>8. AsShapes' BY <1>1, <1>3, <1>7 DEF AsInv, AsShapes
<1>9. CaptureNotStale'
  <2>1. CASE asAuto BY <1>1, <1>3, <1>7, <2>1, AsNotStale
  <2>2. CASE ~asAuto BY <1>1, <2>2 DEF CaptureNotStale
  <2> QED BY <2>1, <2>2
<1>10. AsContext' BY <1>1, <1>3 DEF AsInv, AsContext
<1>11. asCtx # {} BY <1>1 DEF AsInv, AsContext
<1>12. AsExcused => AsExcused' BY <1>2 DEF AsExcused
<1>13. \A e : AsFine(e) => AsFine(e)' BY <1>1 DEF AsFine
<1>14. asDefault' = asDefault \/ asAssigned # {} BY <1>6
<1>15. ASSUME NEW k \in asCtx
       PROVE  /\ AsExcused' \/ AsFine(k.host)'
              /\ ~k.flag => ~k.restore
              /\ ~k.restore => (AsExcused' \/ AsFine(asDefault)') /\ asAssigned' = {} /\ \A r \in AsSessions : asStep'[r] # "sink"
  <2>1. AsExcused' \/ AsFine(k.host)' BY <1>12, <1>13 DEF AsInv, AsPutBack
  <2>2. ~k.flag => ~k.restore BY DEF AsInv, AsPutBack
  <2>3. ~k.restore => asAssigned' = {} /\ \A r \in AsSessions : asStep'[r] # "sink" BY <1>1, <1>3 DEF AsInv, AsPutBack
  <2>4. ~k.restore => AsExcused' \/ AsFine(asDefault)' BY <1>1, <1>12, <1>14 DEF AsInv, AsPutBack, AsFine
  <2> QED BY <2>1, <2>2, <2>3, <2>4
<1>16. AsPutBack' BY <1>1, <1>11, <1>15 DEF AsPutBack
<1> QED BY <1>8, <1>9, <1>10, <1>16 DEF AsInv

LEMMA AsStops == ASSUME AsInv, NEW s \in AsSessions, NEW works \in BOOLEAN, StopAudioControl(s, works) PROVE AsInv'
<1> DEFINE mics == [asMic EXCEPT ![s] = {}]
           last == Users = {s}
           puts == last /\ \E c \in asCtx : c.restore
<1>1. /\ SeesShutdown(s) /\ asStep' = [asStep EXCEPT ![s] = "idle"]
      /\ asCtx' = (IF last THEN {} ELSE asCtx) /\ asAssigned' = (IF last THEN {} ELSE asAssigned)
      /\ asFailed' = (asFailed \/ (puts /\ ~works))
      /\ IF puts /\ works THEN \E c \in asCtx : SetDefault(c.host, mics) ELSE asMic' = mics /\ UNCHANGED asDefault
      /\ UNCHANGED <<asAuto, asUp, asChosen, asEvents>>
  BY DEF StopAudioControl
<1>2. asStep[s] # "idle" BY <1>1 DEF SeesShutdown
<1>3. /\ asStep' = [r \in AsSessions |-> asStep'[r]] /\ \A r \in AsSessions : asStep'[r] = IF r = s THEN "idle" ELSE asStep[r]
  BY <1>1, AsOneStep DEF AsInv
<1>4. asMic = [r \in AsSessions |-> asMic[r]] BY DEF AsInv, AsShapes
<1>5. mics = [r \in AsSessions |-> mics[r]] /\ \A r \in AsSessions : mics[r] \subseteq asMic[r] BY <1>4
<1>6. (asMic' = mics /\ UNCHANGED asDefault) \/ (last /\ \E c \in asCtx : SetDefault(c.host, mics)) BY <1>1
<1>7. /\ asMic' = [r \in AsSessions |-> asMic'[r]]
      /\ \A r \in AsSessions : \A n \in asMic'[r] : DOMAIN n = AsMicFields /\ n = [x \in AsMicFields |-> n[x]]
      /\ \A r \in AsSessions : \A n \in asMic'[r] : n.changed = TRUE \/ (asDefault' = asDefault /\ n \in asMic[r])
  <2>1. CASE asMic' = mics /\ UNCHANGED asDefault BY <2>1, AsUnnotified
  <2>2. CASE \E c \in asCtx : SetDefault(c.host, mics)
    <3> HIDE DEF mics
    <3> QED BY <2>2, <1>5, AsSetDefault DEF AsInv
  <2> QED BY <1>6, <2>1, <2>2
<1>8. AsShapes' BY <1>1, <1>3, <1>7 DEF AsInv, AsShapes
<1>9. CaptureNotStale' BY <1>1, <1>3, <1>7, AsNotStale
<1>10. last <=> \A r \in AsSessions : asStep'[r] = "idle" BY <1>2, <1>3 DEF Users
<1>11. asCtx # {} BY <1>2 DEF AsInv, AsContext
<1> HIDE DEF last
<1>12. AsContext' BY <1>1, <1>10, <1>11 DEF AsInv, AsContext
<1>13. AsExcused => AsExcused' BY <1>1 DEF AsExcused
<1>14. \A e : AsFine(e) => AsFine(e)' BY <1>1 DEF AsFine
<1>15. CASE last
  <2>1. asCtx' = {} BY <1>1, <1>15
  <2>5. AsPutBack'
    <3>2. CASE puts /\ works
      <4>1. PICK c \in asCtx : SetDefault(c.host, mics) BY <1>1, <3>2
      <4>2. asDefault' = c.host BY <4>1 DEF SetDefault
      <4>3. AsExcused' \/ AsFine(c.host)' BY <1>13, <1>14 DEF AsInv, AsPutBack
      <4>4. AsExcused' \/ AsFine(asDefault)' BY <4>2, <4>3 DEF AsFine
      <4> QED BY <2>1, <4>4 DEF AsPutBack
    <3>3. CASE puts /\ ~works
      <4>1. asFailed' = TRUE BY <1>1, <3>3
      <4> QED BY <2>1, <4>1 DEF AsPutBack, AsExcused
    <3>4. CASE ~puts
      <4>1. asDefault' = asDefault BY <1>1, <3>4
      <4>2. PICK c \in asCtx : TRUE BY <1>11
      <4>3. ~c.restore BY <1>15, <3>4
      <4>4. AsExcused \/ AsFine(asDefault) BY <4>3 DEF AsInv, AsPutBack
      <4>5. AsExcused' \/ AsFine(asDefault)' BY <4>1, <4>4, <1>1, <1>13 DEF AsFine
      <4> QED BY <2>1, <4>5 DEF AsPutBack
    <3> QED BY <3>2, <3>3, <3>4
  <2> QED BY <1>8, <1>9, <1>12, <2>5 DEF AsInv
<1>16. CASE ~last
  <2>1. asCtx' = asCtx /\ asAssigned' = asAssigned /\ asDefault' = asDefault BY <1>1, <1>6, <1>16
  <2>2. ASSUME NEW k \in asCtx
        PROVE  /\ AsExcused' \/ AsFine(k.host)'
               /\ ~k.flag => ~k.restore
               /\ ~k.restore => (AsExcused' \/ AsFine(asDefault)') /\ asAssigned' = {} /\ \A r \in AsSessions : asStep'[r] # "sink"
    <3>1. AsExcused' \/ AsFine(k.host)' BY <1>13, <1>14 DEF AsInv, AsPutBack
    <3>2. ~k.flag => ~k.restore BY DEF AsInv, AsPutBack
    <3>3. ~k.restore => asAssigned' = {} /\ \A r \in AsSessions : asStep'[r] # "sink" BY <1>3, <2>1 DEF AsInv, AsPutBack
    <3>4. ~k.restore => AsExcused' \/ AsFine(asDefault)' BY <1>1, <1>13, <2>1 DEF AsInv, AsPutBack, AsFine
    <3> QED BY <3>1, <3>2, <3>3, <3>4
  <2>3. AsPutBack' BY <1>11, <2>1, <2>2 DEF AsPutBack
  <2> QED BY <1>8, <1>9, <1>12, <2>3 DEF AsInv
<1> QED BY <1>15, <1>16

LEMMA AsInvStep == AsInv /\ [AsNext]_asVars => AsInv'
<1> SUFFICES ASSUME AsInv, [AsNext]_asVars PROVE AsInv' OBVIOUS
<1>1. CASE UNCHANGED asVars
  BY <1>1 DEF asVars, AsInv, AsShapes, AsContext, AsPutBack, AsExcused, AsFine, CaptureNotStale
<1>2. ASSUME NEW s \in AsSessions, AsThread(s) PROVE AsInv'
  BY <1>2, AsTakes, AsSets, AsListens, AsOpens, AsSmallSteps, AsReinit, AsStops DEF AsThread
<1> QED BY <1>1, <1>2, AsStarts, AsCrashes, AsUser, AsControl, AsSmallSteps DEF AsNext

\* audio.cpp, start_audio_control to stop_audio_control, and the Windows sink
\* handling, for any sessions, devices and configuration: nobody records a
\* device that is no longer the default without knowing, and a virtual sink
\* is not left behind.
THEOREM SinkReleased == AsSpec => [](CaptureNotStale /\ VirtualSinkReleased)
<1>1. AsSpec => []AsInv BY AsInvInit, AsInvStep, PTL DEF AsSpec
<1>2. AsInv => CaptureNotStale /\ VirtualSinkReleased BY AsInvSound DEF AsInv
<1> QED BY <1>1, <1>2, PTL

\* The audio of a client, of which the run moves one part at a time: the
\* right device, and what it delivers in order and without gaps of its own making.
THEOREM AudioStaysSound == MCSpec => []AudioSound
<1>1. MCInit => AuInv /\ AsInv BY AuInvInit, AsInvInit DEF MCInit
<1>2. MCNext => [AuNext]_auVars /\ [AsNext]_asVars
  <2>1. MCNext => AuNext \/ UNCHANGED auVars BY DEF MCNext, Rest
  <2>2. MCNext => AsNext \/ UNCHANGED asVars BY DEF MCNext, Rest
  <2> QED BY <2>1, <2>2
<1>3. UNCHANGED mcVars => UNCHANGED auVars /\ UNCHANGED asVars BY DEF mcVars
<1>4. (AuInv /\ AsInv) /\ [MCNext]_mcVars => (AuInv /\ AsInv)' BY <1>2, <1>3, AuInvStep, AsInvStep
<1>5. AuInv /\ AsInv => AudioSound BY AuInvSound, AsInvSound DEF AsInv, AudioSound
<1> QED BY <1>1, <1>4, <1>5, PTL DEF MCSpec

-----------------------------------------------------------------------------
(* Mouse buttons (InputMouse) *)

ImDelayed == \E s \in ImSessions : imTimer[s] > 0

ImShapes ==
  /\ imPress = [b \in ImButtons |-> imPress[b]] /\ imOs = [b \in ImButtons |-> imOs[b]]
  /\ \A b \in ImButtons : imPress[b] \in BOOLEAN /\ imOs[b] \in BOOLEAN

ImHeld ==
  /\ ImShapes /\ HeldButtonsStay
  /\ \A b \in ImButtons : imOs[b] => imPress[b] \/ (b = "left" /\ (ImDelayed \/ imStuck # {}))

ImLeft == \A s \in imStuck : s \in ImSessions /\ imState[s] # "on" /\ imOs["left"]

ImInv == ImTypeOK /\ ImHeld /\ ImLeft

LEMMA ImInvInit == ImInit => ImInv
<1> SUFFICES ASSUME ImInit PROVE ImInv OBVIOUS
<1>1. ImTypeOK BY ImAssumption DEF ImInit, ImTypeOK
<1>2. ImHeld BY DEF ImInit, ImHeld, ImShapes, HeldButtonsStay
<1>3. ImLeft BY DEF ImInit, ImLeft
<1> QED BY <1>1, <1>2, <1>3 DEF ImInv

LEMMA ImInvSound == ImInv => ImTypeOK /\ ButtonsFollowClients /\ HeldButtonsStay
BY DEF ImInv, ImHeld, ImLeft, ButtonsFollowClients, ImDelayed

\* One button changes for the sessions and the operating system.
LEMMA ImButton ==
  ASSUME ImHeld, NEW b \in ImButtons, NEW v \in BOOLEAN, NEW w \in BOOLEAN,
         imPress' = [imPress EXCEPT ![b] = v], imOs' = [imOs EXCEPT ![b] = w], v => w,
         w => v \/ (b = "left" /\ (ImDelayed' \/ imStuck' # {})),
         b = "left" \/ ((ImDelayed => ImDelayed') /\ imStuck' = imStuck)
  PROVE  ImHeld'
<1>1. /\ imPress' = [c \in ImButtons |-> imPress'[c]] /\ imOs' = [c \in ImButtons |-> imOs'[c]]
      /\ \A c \in ImButtons : imPress'[c] = (IF c = b THEN v ELSE imPress[c]) /\ imOs'[c] = (IF c = b THEN w ELSE imOs[c])
  BY DEF ImHeld, ImShapes
<1>2. \A c \in ImButtons : imPress'[c] \in BOOLEAN /\ imOs'[c] \in BOOLEAN BY <1>1 DEF ImHeld, ImShapes
<1>3. HeldButtonsStay' BY <1>1 DEF ImHeld, HeldButtonsStay
<1>4. \A c \in ImButtons : imOs'[c] => imPress'[c] \/ (c = "left" /\ (ImDelayed' \/ imStuck' # {})) BY <1>1 DEF ImHeld
<1> QED BY <1>1, <1>2, <1>3, <1>4 DEF ImHeld, ImShapes

\* A session's timeout and its timers change.
LEMMA ImTypes ==
  ASSUME ImTypeOK, NEW s \in ImSessions, NEW t \in {"none", "off", "set"}, NEW n \in 0 .. ImMaxTimers,
         imTimeout' = [imTimeout EXCEPT ![s] = t], imTimer' = [imTimer EXCEPT ![s] = n],
         NEW u \in {"on", "ending", "over"}, imState' = [imState EXCEPT ![s] = u]
  PROVE  ImTypeOK'
BY DEF ImTypeOK

\* What is told of a button.
LEMMA ImTold ==
  ASSUME ImHeld, ImLeft, NEW b \in ImButtons, NEW down \in BOOLEAN, Told(b, down),
         imPress' = [imPress EXCEPT ![b] = down], \A s \in ImSessions : imState[s] # "on" => imState'[s] # "on",
         b = "left" \/ (ImDelayed => ImDelayed')
  PROVE  ImHeld' /\ ImLeft'
<1>1. imOs' = [imOs EXCEPT ![b] = down] /\ imStuck' = (IF b = "left" THEN {} ELSE imStuck) BY DEF Told
<1>a. b = "left" \/ ((ImDelayed => ImDelayed') /\ imStuck' = imStuck) BY <1>1
<1>2. ImHeld' BY <1>1, <1>a, ImButton
<1>3. b # "left" => imOs'["left"] = imOs["left"] BY <1>1 DEF ImHeld, ImShapes, ImButtons
<1>4. ImLeft' BY <1>1, <1>3 DEF ImLeft
<1> QED BY <1>2, <1>4

\* Nothing is told, and no release is lost.
LEMMA ImSilent ==
  ASSUME ImHeld, ImLeft, UNCHANGED <<imPress, imOs, imStuck>>, ImDelayed => ImDelayed' \/ imPress["left"] \/ imStuck # {} \/ ~imOs["left"],
         \A s \in ImSessions : imState[s] # "on" => imState'[s] # "on"
  PROVE  ImHeld' /\ ImLeft'
<1>1. ImShapes' /\ HeldButtonsStay' BY DEF ImHeld, ImShapes, HeldButtonsStay
<1>2. \A c \in ImButtons : imOs'[c] => imPress'[c] \/ (c = "left" /\ (ImDelayed' \/ imStuck' # {})) BY DEF ImHeld
<1>3. ImLeft' BY DEF ImLeft
<1> QED BY <1>1, <1>2, <1>3 DEF ImHeld

LEMMA ImInvStep == ImInv /\ [ImNext]_imVars => ImInv'
<1> SUFFICES ASSUME ImInv, [ImNext]_imVars PROVE ImInv' OBVIOUS
<1> USE DEF ImInv
<1>0. \A s \in ImSessions : imTimer[s] \in 0 .. ImMaxTimers /\ imTimer[s] \in Int /\ imTimeout[s] \in {"none", "off", "set"}
                            /\ imState[s] \in {"on", "ending", "over"}
  BY ImAssumption DEF ImTypeOK
<1>a. imPress["left"] \in BOOLEAN /\ imPress["right"] \in BOOLEAN /\ imOs["left"] \in BOOLEAN /\ imOs["right"] \in BOOLEAN
  BY DEF ImHeld, ImShapes, ImButtons
<1>b. /\ imTimer = [s \in ImSessions |-> imTimer[s]] /\ imTimeout = [s \in ImSessions |-> imTimeout[s]]
      /\ imState = [s \in ImSessions |-> imState[s]]
  BY DEF ImTypeOK
<1>c. \A s \in ImSessions : /\ imTimer = [imTimer EXCEPT ![s] = imTimer[s]] /\ imTimeout = [imTimeout EXCEPT ![s] = imTimeout[s]]
                            /\ imState = [imState EXCEPT ![s] = imState[s]]
  BY <1>b
<1>1. CASE UNCHANGED imVars
  BY <1>1 DEF imVars, ImTypeOK, ImHeld, ImShapes, HeldButtonsStay, ImLeft, ImDelayed
<1>2. ASSUME NEW s \in ImSessions, RelMouseMove(s) \/ AbsMouseMove(s) PROVE ImInv'
  <2>1. PICK t \in {"none", "off"} : imTimeout' = [imTimeout EXCEPT ![s] = t] BY <1>2 DEF RelMouseMove, AbsMouseMove
  <2>2. UNCHANGED <<imPress, imOs, imTimer, imState, imStuck>> BY <1>2 DEF RelMouseMove, AbsMouseMove, Message
  <2>3. ImTypeOK' BY <1>0, <1>c, <2>1, <2>2, ImTypes
  <2>4. ImHeld' /\ ImLeft' BY <2>2, ImSilent DEF ImDelayed
  <2> QED BY <2>3, <2>4
<1>3. ASSUME NEW s \in ImSessions, LeftReleaseDelayed(s) PROVE ImInv'
  <2>1. /\ imPress' = [imPress EXCEPT !["left"] = FALSE] /\ imTimer[s] < ImMaxTimers
        /\ imTimer' = [imTimer EXCEPT ![s] = imTimer[s] + 1] /\ imTimeout' = [imTimeout EXCEPT ![s] = "set"]
        /\ UNCHANGED <<imOs, imStuck, imState>>
    BY <1>3 DEF LeftReleaseDelayed, Message
  <2>2. imTimer[s] + 1 \in 0 .. ImMaxTimers BY <1>0, <2>1, ImAssumption
  <2>3. ImTypeOK' BY <1>0, <1>c, <2>1, <2>2, ImTypes
  <2>4. imTimer'[s] = imTimer[s] + 1 BY <1>b, <2>1
  <2>5. ImDelayed' BY <1>0, <2>4 DEF ImDelayed
  <2>6. imOs' = [imOs EXCEPT !["left"] = imOs["left"]] BY <2>1 DEF ImHeld, ImShapes
  <2>7. ImHeld' BY <1>a, <2>1, <2>5, <2>6, ImButton DEF ImButtons
  <2>8. ImLeft' BY <2>1 DEF ImLeft
  <2> QED BY <2>3, <2>7, <2>8
<1>4. ASSUME NEW s \in ImSessions, RightClick(s) PROVE ImInv'
  <2>1. /\ imPress' = [imPress EXCEPT !["right"] = FALSE] /\ Told("right", FALSE) /\ UNCHANGED <<imTimeout, imTimer, imState>>
    BY <1>4 DEF RightClick, Message
  <2>2. ImTypeOK' BY <2>1 DEF ImTypeOK
  <2>3. ImHeld' /\ ImLeft' BY <2>1, ImTold DEF ImButtons, ImDelayed
  <2> QED BY <2>2, <2>3
<1>5. ASSUME NEW s \in ImSessions, NEW b \in ImButtons, NEW release \in BOOLEAN, MouseButton(s, b, release) PROVE ImInv'
  <2>1. imPress' = [imPress EXCEPT ![b] = ~release] /\ Told(b, ~release) /\ UNCHANGED <<imTimeout, imTimer, imState>>
    BY <1>5 DEF MouseButton, Message
  <2>2. ImTypeOK' BY <2>1 DEF ImTypeOK
  <2>3. ImHeld' /\ ImLeft' BY <2>1, ImTold DEF ImDelayed
  <2> QED BY <2>2, <2>3
<1>6. ASSUME NEW s \in ImSessions, TimerFires(s) PROVE ImInv'
  <2>1. imTimer[s] > 0 /\ imTimer' = [imTimer EXCEPT ![s] = imTimer[s] - 1] /\ UNCHANGED <<imPress, imState>>
    BY <1>6 DEF TimerFires
  <2>2. imTimer[s] - 1 \in 0 .. ImMaxTimers BY <1>0, <2>1, ImAssumption
  <2>3. CASE imPress["left"]
    <3>1. UNCHANGED <<imOs, imStuck, imTimeout>> BY <1>6, <2>3 DEF TimerFires
    <3>2. ImTypeOK' BY <1>0, <1>c, <2>1, <2>2, <3>1, ImTypes
    <3>3. ImHeld' /\ ImLeft' BY <2>1, <2>3, <3>1, ImSilent
    <3> QED BY <3>2, <3>3
  <2>4. CASE ~imPress["left"]
    <3>1. Told("left", FALSE) /\ imTimeout' = [imTimeout EXCEPT ![s] = "none"] BY <1>6, <2>4 DEF TimerFires
    <3>2. ImTypeOK' BY <1>0, <1>c, <2>1, <2>2, <3>1, ImTypes
    <3>3. imPress' = [imPress EXCEPT !["left"] = FALSE] BY <1>a, <2>1, <2>4 DEF ImHeld, ImShapes
    <3>4. ImHeld' /\ ImLeft' BY <2>1, <3>1, <3>3, ImTold DEF ImButtons
    <3> QED BY <3>2, <3>4
  <2> QED BY <2>3, <2>4
<1>7. ASSUME NEW s \in ImSessions, Reset(s) PROVE ImInv'
  <2>1. /\ imState[s] = "on" /\ imState' = [imState EXCEPT ![s] = "ending"]
        /\ imTimer' = (IF Cancels(s) THEN [imTimer EXCEPT ![s] = imTimer[s] - 1] ELSE imTimer)
        /\ imStuck' = (IF Cancels(s) /\ ~imPress["left"] /\ imOs["left"] THEN imStuck \cup {s} ELSE imStuck)
        /\ UNCHANGED <<imPress, imOs, imTimeout>>
    BY <1>7 DEF Reset
  <2>2. imState'[s] = "ending" /\ \A t \in ImSessions : imState[t] # "on" => imState'[t] # "on" BY <1>b, <2>1
  <2>3. CASE Cancels(s)
    <3>1. imTimer[s] > 0 BY <2>3 DEF Cancels
    <3>2. imTimer[s] - 1 \in 0 .. ImMaxTimers BY <1>0, <3>1, ImAssumption
    <3>3. imTimer' = [imTimer EXCEPT ![s] = imTimer[s] - 1] BY <2>1, <2>3
    <3>4. ImTypeOK' BY <1>0, <1>c, <2>1, <3>2, <3>3, ImTypes
    <3>5. CASE ~imPress["left"] /\ imOs["left"]
      <4>1. imStuck' = imStuck \cup {s} BY <2>1, <2>3, <3>5
      <4>2. ImShapes' /\ HeldButtonsStay' BY <2>1 DEF ImHeld, ImShapes, HeldButtonsStay
      <4>3. \A c \in ImButtons : imOs'[c] => imPress'[c] \/ (c = "left" /\ (ImDelayed' \/ imStuck' # {})) BY <2>1, <4>1 DEF ImHeld
      <4>4. ImHeld' BY <4>2, <4>3 DEF ImHeld
      <4>5. ImLeft' BY <2>1, <2>2, <3>5, <4>1 DEF ImLeft
      <4> QED BY <3>4, <4>4, <4>5
    <3>6. CASE ~(~imPress["left"] /\ imOs["left"])
      <4>1. imStuck' = imStuck BY <2>1, <3>6
      <4>2. ImHeld' /\ ImLeft' BY <2>1, <2>2, <3>6, <4>1, ImSilent
      <4> QED BY <3>4, <4>2
    <3> QED BY <3>5, <3>6
  <2>4. CASE ~Cancels(s)
    <3>1. imTimer' = imTimer /\ imStuck' = imStuck BY <2>1, <2>4
    <3>2. ImTypeOK' BY <1>0, <1>c, <2>1, <3>1, ImTypes
    <3>3. ImHeld' /\ ImLeft' BY <2>1, <2>2, <3>1, ImSilent DEF ImDelayed
    <3> QED BY <3>2, <3>3
  <2> QED BY <2>3, <2>4
<1>8. ASSUME NEW s \in ImSessions, ResetTask(s) PROVE ImInv'
  <2>1. /\ imOs' = [b \in ImButtons |-> imOs[b] /\ ~imPress[b]] /\ imPress' = [b \in ImButtons |-> FALSE]
        /\ imStuck' = (IF imPress["left"] THEN {} ELSE imStuck) /\ imState' = [imState EXCEPT ![s] = "over"]
        /\ UNCHANGED <<imTimeout, imTimer>>
    BY <1>8 DEF ResetTask
  <2>2. ImTypeOK' BY <1>0, <1>c, <2>1, ImTypes
  <2>3. ImShapes' /\ HeldButtonsStay' BY <2>1 DEF ImHeld, ImShapes, HeldButtonsStay
  <2>4. ASSUME NEW c \in ImButtons, imOs'[c] PROVE c = "left" /\ (ImDelayed' \/ imStuck' # {})
    <3>1. imOs[c] /\ ~imPress[c] BY <2>1, <2>4
    <3>2. c = "left" /\ (ImDelayed \/ imStuck # {}) BY <3>1 DEF ImHeld
    <3> QED BY <2>1, <3>1, <3>2 DEF ImDelayed
  <2>5. ImHeld' BY <2>3, <2>4 DEF ImHeld
  <2>6. ASSUME NEW t \in imStuck' PROVE t \in ImSessions /\ imState'[t] # "on" /\ imOs'["left"]
    <3>1. t \in imStuck /\ ~imPress["left"] BY <2>1, <2>6
    <3>2. t \in ImSessions /\ imState[t] # "on" /\ imOs["left"] BY <3>1 DEF ImLeft
    <3>3. imState'[t] # "on" BY <1>b, <2>1, <3>2
    <3> QED BY <2>1, <3>1, <3>2, <3>3 DEF ImButtons
  <2>7. ImLeft' BY <2>6 DEF ImLeft
  <2> QED BY <2>2, <2>5, <2>7
<1> QED BY <1>1, <1>2, <1>3, <1>4, <1>5, <1>6, <1>7, <1>8 DEF ImNext

-----------------------------------------------------------------------------
(* The keyboard (InputKeys) *)

IkTasks == [key : IkKeys, synthetic : SUBSET IkModifiers]

\* What waits or runs is the task the id names; while it runs nothing waits.
IkRepeats ==
  /\ ikTimers \cup ikId \cup ikRunning \subseteq IkTasks
  /\ ikTimers \subseteq ikId /\ (ikRunning # {} => ikTimers = {})
  /\ \A t, u \in ikId : t = u
  /\ \A t, u \in ikRunning : t = u

IkInv == IkTypeOK /\ IkRepeats /\ KeysFollowClients

LEMMA IkInvInit == IkInit => IkInv
<1> SUFFICES ASSUME IkInit PROVE IkInv OBVIOUS
<1>1. IkTypeOK BY IkAssumption DEF IkInit, IkTypeOK
<1>2. IkRepeats BY DEF IkInit, IkRepeats
<1>3. KeysFollowClients BY DEF IkInit, KeysFollowClients
<1> QED BY <1>1, <1>2, <1>3 DEF IkInv

LEMMA AtMostOne == ASSUME NEW S, \A t, u \in S : t = u PROVE Cardinality(S) <= 1
<1>1. CASE S = {} BY <1>1, FS_EmptySet
<1>2. CASE S # {}
  <2>1. PICK t : t \in S BY <1>2
  <2>2. S = {t} BY <2>1
  <2>3. Cardinality(S) = 1 BY <2>2, FS_Singleton, Zenon
  <2> QED BY <2>3
<1> QED BY <1>1, <1>2

LEMMA IkOneRepeat == IkInv => OneRepeat
<1> SUFFICES ASSUME IkInv PROVE OneRepeat OBVIOUS
<1>1. \A t, u \in ikTimers \cup ikRunning : t = u BY DEF IkInv, IkRepeats
<1> QED BY <1>1, AtMostOne DEF OneRepeat

\* A key that is sent: what it does to flags, keys held and keys down.
LEMMA IkSends ==
  ASSUME IkInv, NEW s \in IkSessions, NEW k \in IkKeys, NEW release \in BOOLEAN, NEW synthetic, SendsKey(s, k, release, synthetic)
  PROVE  IkTypeOK' /\ KeysFollowClients'
<1>1. /\ ikPress' = (IF release THEN ikPress \ {k} ELSE ikPress \cup {k}) /\ ikOs' = SendKey(ikOs, k, release, synthetic)
      /\ ikFlags' = [ikFlags EXCEPT ![s] = UpdateShortcutFlags(ikFlags[s], IkBinding[k], release)]
      /\ UNCHANGED <<ikRunning, ikResets, ikEnded>>
  BY DEF SendsKey
<1>2. IkBinding[k] \in DOMAIN IkModifierOf BY IkAssumption
<1>3. UpdateShortcutFlags(ikFlags[s], IkBinding[k], release) \in SUBSET IkModifiers
  BY <1>2 DEF UpdateShortcutFlags, IkModifiers, IkInv, IkTypeOK
<1>4. ikFlags' \in [IkSessions -> SUBSET IkModifiers] BY <1>1, <1>3 DEF IkInv, IkTypeOK
<1>5. ikPress' \subseteq IkKeys /\ ikOs' \subseteq DOMAIN IkModifierOf BY <1>1, <1>2 DEF SendKey, IkInv, IkTypeOK
<1>6. IkTypeOK' BY <1>1, <1>4, <1>5 DEF IkInv, IkTypeOK
<1>7. CASE release
  <2>1. ikPress' = ikPress \ {k} /\ ikOs' = ikOs \ {IkBinding[k]} BY <1>1, <1>7 DEF SendKey
  <2>2. KeysFollowClients' BY <2>1 DEF IkInv, KeysFollowClients
  <2> QED BY <1>6, <2>2
<1>8. CASE ~release
  <2>1. ikPress' = ikPress \cup {k} /\ ikOs' \subseteq ikOs \cup {IkBinding[k]} BY <1>1, <1>8 DEF SendKey
  <2>2. KeysFollowClients' BY <2>1 DEF IkInv, KeysFollowClients
  <2> QED BY <1>6, <2>2
<1> QED BY <1>7, <1>8

LEMMA IkInvStep == IkInv /\ [IkNext]_ikVars => IkInv'
<1> SUFFICES ASSUME IkInv, [IkNext]_ikVars PROVE IkInv' OBVIOUS
<1>1. ASSUME NEW s \in IkSessions, NEW k \in IkKeys, NEW mods \in SUBSET IkModifiers, KeyDown(s, k, mods) PROVE IkInv'
  <2> DEFINE syn == Synthetic(s, k, mods)
             task == [key |-> k, synthetic |-> syn]
  <2>1. /\ ikRunning = {} /\ ikTimers' = (ikTimers \ ikId) \cup {task} /\ ikId' = {task}
        /\ SendsKey(s, k, FALSE, task.synthetic)
    BY <1>1 DEF KeyDown
  <2>2. syn \in SUBSET IkModifiers BY DEF Synthetic
  <2> HIDE DEF syn
  <2>3. task \in IkTasks BY <2>2 DEF IkTasks
  <2> HIDE DEF task
  <2>4. ikRunning' = ikRunning BY <2>1 DEF SendsKey
  <2>5. ikTimers' = {task} BY <2>1 DEF IkInv, IkRepeats
  <2>6. IkRepeats' BY <2>1, <2>3, <2>4, <2>5 DEF IkRepeats
  <2>7. IkTypeOK' /\ KeysFollowClients' BY <2>1, IkSends
  <2> QED BY <2>6, <2>7 DEF IkInv
<1>2. ASSUME NEW s \in IkSessions, NEW k \in IkKeys, KeyUp(s, k) PROVE IkInv'
  <2>1. SendsKey(s, k, TRUE, {}) /\ UNCHANGED <<ikTimers, ikId>> BY <1>2 DEF KeyUp
  <2>2. ikRunning' = ikRunning BY <2>1 DEF SendsKey
  <2>3. IkTypeOK' /\ KeysFollowClients' BY <2>1, IkSends
  <2> QED BY <2>1, <2>2, <2>3 DEF IkInv, IkRepeats
<1>3. ASSUME NEW task \in ikTimers, RepeatKey(task) PROVE IkInv'
  <2>1. /\ ikRunning = {} /\ ikTimers' = ikTimers \ {task} /\ UNCHANGED <<ikPress, ikFlags, ikResets, ikEnded>>
    BY <1>3 DEF RepeatKey
  <2>2. task \in IkTasks BY DEF IkInv, IkRepeats
  <2>3. task.key \in IkKeys BY <2>2 DEF IkTasks
  <2>4. ikTimers' = {} BY <2>1 DEF IkInv, IkRepeats
  <2>5. CASE task.key \in ikPress
    <3>1. ikRunning' = {task} /\ ikOs' = SendKey(ikOs, task.key, FALSE, task.synthetic) /\ UNCHANGED ikId
      BY <1>3, <2>5 DEF RepeatKey
    <3>2. ikOs' \subseteq ikOs \cup {IkBinding[task.key]} BY <3>1 DEF SendKey
    <3>3. IkBinding[task.key] \in DOMAIN IkModifierOf BY <2>3, IkAssumption
    <3>4. IkTypeOK' BY <2>1, <3>2, <3>3 DEF IkInv, IkTypeOK
    <3>5. IkRepeats' BY <2>2, <2>4, <3>1 DEF IkInv, IkRepeats
    <3>6. KeysFollowClients' BY <2>1, <2>5, <3>2 DEF IkInv, KeysFollowClients
    <3> QED BY <3>4, <3>5, <3>6 DEF IkInv
  <2>6. CASE task.key \notin ikPress
    <3>1. ikId' = {} /\ UNCHANGED <<ikOs, ikRunning>> BY <1>3, <2>6 DEF RepeatKey
    <3>2. IkRepeats' BY <2>4, <3>1 DEF IkInv, IkRepeats
    <3> QED BY <2>1, <3>1, <3>2 DEF IkInv, IkTypeOK, KeysFollowClients
  <2> QED BY <2>5, <2>6
<1>4. CASE RepeatAgain
  <2>1. /\ ikRunning # {} /\ ikTimers' = ikTimers \cup ikRunning /\ ikId' = ikRunning /\ ikRunning' = {}
        /\ UNCHANGED <<ikPress, ikOs, ikFlags, ikResets, ikEnded>>
    BY <1>4 DEF RepeatAgain
  <2>2. IkRepeats' BY <2>1 DEF IkInv, IkRepeats
  <2> QED BY <2>1, <2>2 DEF IkInv, IkTypeOK, KeysFollowClients
<1>5. CASE KeysReset
  <2>1. /\ ikEnded < IkMaxResets /\ ikEnded' = ikEnded + 1 /\ ikTimers' = ikTimers \ ikId /\ ikResets' = ikResets + 1
        /\ UNCHANGED <<ikPress, ikOs, ikFlags, ikId, ikRunning>>
    BY <1>5 DEF KeysReset
  <2>2. IkRepeats' BY <2>1 DEF IkInv, IkRepeats
  <2>3. ikResets' \in 0 .. ikEnded' /\ ikEnded' \in 0 .. IkMaxResets BY <2>1, IkAssumption DEF IkInv, IkTypeOK
  <2> QED BY <2>1, <2>2, <2>3 DEF IkInv, IkTypeOK, KeysFollowClients
<1>6. CASE KeysReleased
  <2>1. /\ ikResets > 0 /\ ikResets' = ikResets - 1 /\ ikOs' = ikOs \ ikPress /\ ikPress' = {}
        /\ UNCHANGED <<ikFlags, ikTimers, ikId, ikRunning, ikEnded>>
    BY <1>6 DEF KeysReleased
  <2>2. IkRepeats' BY <2>1 DEF IkInv, IkRepeats
  <2>3. ikResets' \in 0 .. ikEnded' BY <2>1, IkAssumption DEF IkInv, IkTypeOK
  <2>4. IkTypeOK' BY <2>1, <2>3 DEF IkInv, IkTypeOK
  <2>5. KeysFollowClients' BY <2>1 DEF IkInv, IkTypeOK, KeysFollowClients
  <2> QED BY <2>2, <2>4, <2>5 DEF IkInv
<1>7. CASE UNCHANGED ikVars BY <1>7 DEF ikVars, IkInv, IkTypeOK, IkRepeats, KeysFollowClients
<1> QED BY <1>1, <1>2, <1>3, <1>4, <1>5, <1>6, <1>7 DEF IkNext

-----------------------------------------------------------------------------
(* Gamepads (InputPads) *)

IpIdSet == 0 .. (IpIds - 1)

IpShapes ==
  /\ ipForced \in [IpPads -> BOOLEAN] /\ ipBack \in [IpPads -> BOOLEAN] /\ ipClient \in [IpPads -> BOOLEAN]
  /\ ipOs \in [IpIdSet -> BOOLEAN]

\* A timer waits only for a button that is down.
IpTimed == \A p \in ipTimers : ipBack[p] /\ ipClient[p]

IpInv == IpTypeOK /\ IpShapes /\ IdsAccountedFor /\ BackForcedUntilReleased /\ IpTimed

LEMMA IpInvInit == IpInit => IpInv
<1> SUFFICES ASSUME IpInit PROVE IpInv OBVIOUS
<1> USE DEF IpInit
<1>1. IpTypeOK BY IpAssumption DEF IpTypeOK
<1>2. IpShapes BY DEF IpShapes, IpIdSet
<1>3. IdsAccountedFor BY DEF IdsAccountedFor
<1>4. BackForcedUntilReleased BY DEF BackForcedUntilReleased
<1>5. IpTimed BY DEF IpTimed
<1> QED BY <1>1, <1>2, <1>3, <1>4, <1>5 DEF IpInv

\* The facts about one pad that the steps use.
LEMMA IpPad ==
  ASSUME IpInv, NEW p \in IpPads
  PROVE  /\ ipId[p] = -1 \/ (ipId[p] \in IpIdSet /\ ipId[p] \in ipMask)
         /\ ipForced[p] \in BOOLEAN /\ ipBack[p] \in BOOLEAN /\ ipClient[p] \in BOOLEAN
<1>1. ipId[p] \in -1 .. (IpIds - 1) BY DEF IpInv, IpTypeOK
<1>2. ipId[p] = -1 \/ ipId[p] \in IpIdSet BY <1>1, IpAssumption DEF IpIdSet
<1>3. ipId[p] # -1 => ipId[p] \in ipMask BY DEF IpInv, IdsAccountedFor
<1>4. ipForced[p] \in BOOLEAN /\ ipBack[p] \in BOOLEAN /\ ipClient[p] \in BOOLEAN BY DEF IpInv, IpShapes
<1> QED BY <1>2, <1>3, <1>4

\* A pad takes a free id.
LEMMA IpTakesId ==
  ASSUME IpInv, NEW p \in IpPads, NEW i \in IpIdSet \ ipMask, ipId[p] < 0,
         ipMask' = ipMask \cup {i}, ipId' = [ipId EXCEPT ![p] = i], UNCHANGED ipFree, ipTimers' \subseteq IpPads
  PROVE  IpTypeOK' /\ IdsAccountedFor'
<1>1. ipId[p] = -1 BY IpPad DEF IpIdSet
<1>2. ipId \in [IpPads -> -1 .. (IpIds - 1)] /\ ipMask \subseteq IpIdSet /\ ipFree \subseteq ipMask
  BY DEF IpInv, IpTypeOK, IpIdSet
<1>3. i \in -1 .. (IpIds - 1) /\ i >= 0 /\ i # -1 /\ i \notin ipMask BY IpAssumption DEF IpIdSet
<1>4. \A q \in IpPads : ipId'[q] = (IF q = p THEN i ELSE ipId[q]) BY <1>2
<1>5. ipId' \in [IpPads -> -1 .. (IpIds - 1)] BY <1>2, <1>3
<1>6. IpTypeOK' BY <1>2, <1>5 DEF IpTypeOK, IpIdSet
<1>7. {ipId'[q] : q \in IpPads} \ {-1} = ({ipId[q] : q \in IpPads} \ {-1}) \cup {i} BY <1>1, <1>3, <1>4
<1>8. ipMask' = ({ipId'[q] : q \in IpPads} \ {-1}) \cup ipFree' BY <1>7 DEF IpInv, IdsAccountedFor
<1>9. \A q \in IpPads : ipId'[q] \notin ipFree' BY <1>2, <1>3, <1>4 DEF IpInv, IdsAccountedFor
<1>10. \A q \in IpPads : ipId[q] # i BY <1>3, IpPad
<1>11. ASSUME NEW q \in IpPads, NEW r \in IpPads, q # r, ipId'[q] >= 0 PROVE ipId'[q] # ipId'[r]
  BY <1>4, <1>10, <1>11 DEF IpInv, IdsAccountedFor
<1> QED BY <1>6, <1>8, <1>9, <1>11 DEF IdsAccountedFor

\* What a state does to the buttons of a pad whose id is i.
LEMMA IpStates ==
  ASSUME IpInv, NEW p \in IpPads, NEW back \in BOOLEAN, NEW i \in IpIdSet, State(p, back, i),
         ipId' = [ipId EXCEPT ![p] = i], \A q \in IpPads : q # p => ipId[q] # i
  PROVE  IpShapes' /\ BackForcedUntilReleased' /\ IpTimed' /\ ipTimers' \subseteq IpPads
<1> DEFINE sent == BackToSend(p, back)
<1>1. sent = (back /\ ~ipForced[p]) /\ sent \in BOOLEAN BY DEF BackToSend
<1>2. /\ ipForced' = [ipForced EXCEPT ![p] = ipForced[p] /\ back]
      /\ ipTimers' = (IF sent /\ ~ipBack[p] THEN ipTimers \cup {p} ELSE IF ~sent /\ ipBack[p] THEN ipTimers \ {p} ELSE ipTimers)
      /\ ipBack' = [ipBack EXCEPT ![p] = sent] /\ ipClient' = [ipClient EXCEPT ![p] = back]
      /\ ipOs' = [ipOs EXCEPT ![i] = sent]
  BY DEF State
<1> HIDE DEF sent
<1>3. /\ ipForced[p] \in BOOLEAN /\ ipBack[p] \in BOOLEAN /\ ipClient[p] \in BOOLEAN BY IpPad
<1>4. IpShapes' BY <1>1, <1>2, <1>3 DEF IpInv, IpShapes
<1>5. /\ \A q \in IpPads : ipForced'[q] = (IF q = p THEN ipForced[p] /\ back ELSE ipForced[q])
      /\ \A q \in IpPads : ipBack'[q] = (IF q = p THEN sent ELSE ipBack[q])
      /\ \A q \in IpPads : ipClient'[q] = (IF q = p THEN back ELSE ipClient[q])
      /\ \A j \in IpIdSet : ipOs'[j] = (IF j = i THEN sent ELSE ipOs[j])
  BY <1>2 DEF IpInv, IpShapes
<1>6. \A q \in IpPads : ipId'[q] = (IF q = p THEN i ELSE ipId[q]) BY DEF IpInv, IpTypeOK
<1>7. ASSUME NEW q \in IpPads
      PROVE  (ipForced'[q] => ipClient'[q]) /\ (ipId'[q] >= 0 /\ ipOs'[ipId'[q]] => ipClient'[q] /\ ~ipForced'[q])
  <2>1. CASE q = p
    <3>1. ipForced'[q] => ipClient'[q] BY <2>1, <1>5
    <3>2. ipOs'[i] => back /\ ~ipForced[p] BY <1>1, <1>5
    <3> QED BY <2>1, <1>5, <1>6, <3>1, <3>2
  <2>2. CASE q # p
    <3>1. ipForced'[q] = ipForced[q] /\ ipClient'[q] = ipClient[q] /\ ipId'[q] = ipId[q] BY <2>2, <1>5, <1>6
    <3>2. ipId[q] # -1 => ipOs'[ipId[q]] = ipOs[ipId[q]] BY <2>2, <1>5, IpPad
    <3>3. ipId[q] >= 0 => ipId[q] # -1 OBVIOUS
    <3> QED BY <3>1, <3>2, <3>3 DEF IpInv, BackForcedUntilReleased
  <2> QED BY <2>1, <2>2
<1>8. BackForcedUntilReleased' BY <1>7 DEF BackForcedUntilReleased
<1>9. ipTimers \subseteq IpPads BY DEF IpInv, IpTypeOK
<1>10. ipTimers' \subseteq IpPads BY <1>2, <1>9
<1>11. ASSUME NEW q \in ipTimers' PROVE ipBack'[q] /\ ipClient'[q]
  <2>1. CASE q = p
    <3>1. p \in ipTimers => ipBack[p] BY DEF IpInv, IpTimed
    <3>2. sent BY <1>2, <1>1, <1>3, <2>1, <3>1, <1>11
    <3> QED BY <1>1, <1>5, <2>1, <3>2
  <2>2. CASE q # p
    <3>1. q \in ipTimers BY <1>2, <2>2, <1>11
    <3> QED BY <1>5, <1>9, <2>2, <3>1 DEF IpInv, IpTimed
  <2> QED BY <2>1, <2>2
<1> QED BY <1>4, <1>8, <1>10, <1>11 DEF IpTimed

\* A report with BACK up for some ids, and ids that only pads which keep
\* theirs still have.
LEMMA IpCleared ==
  ASSUME IpInv, NEW up \in SUBSET IpIdSet, ipOs' = [j \in IpIdSet |-> ipOs[j] /\ j \notin up],
         \A q \in IpPads : ipId'[q] = ipId[q] \/ ipId'[q] = -1 \/ ipId'[q] \in up,
         UNCHANGED <<ipForced, ipBack, ipTimers, ipClient>>
  PROVE  IpShapes' /\ BackForcedUntilReleased' /\ IpTimed'
<1>1. IpShapes' BY DEF IpInv, IpShapes
<1>2. ASSUME NEW q \in IpPads
      PROVE  (ipForced'[q] => ipClient'[q]) /\ (ipId'[q] >= 0 /\ ipOs'[ipId'[q]] => ipClient'[q] /\ ~ipForced'[q])
  <2>1. ipForced'[q] => ipClient'[q] BY DEF IpInv, BackForcedUntilReleased
  <2>2. CASE ipId'[q] = ipId[q]
    <3>1. ipId[q] # -1 => (ipOs'[ipId[q]] => ipOs[ipId[q]]) BY IpPad
    <3>2. ipId[q] >= 0 => ipId[q] # -1 OBVIOUS
    <3> QED BY <2>1, <2>2, <3>1, <3>2 DEF IpInv, BackForcedUntilReleased
  <2>3. CASE ipId'[q] = -1 BY <2>1, <2>3
  <2>4. CASE ipId'[q] \in up
    <3>1. ~ipOs'[ipId'[q]] BY <2>4
    <3> QED BY <2>1, <3>1
  <2> QED BY <2>2, <2>3, <2>4
<1>3. BackForcedUntilReleased' BY <1>2 DEF BackForcedUntilReleased
<1> QED BY <1>1, <1>3 DEF IpInv, IpTimed

LEMMA IpInvStep == IpInv /\ [IpNext]_ipVars => IpInv'
<1> SUFFICES ASSUME IpInv, [IpNext]_ipVars PROVE IpInv' OBVIOUS
<1>a. ipOs = [j \in IpIdSet |-> ipOs[j]] /\ DOMAIN ipOs = IpIdSet BY DEF IpInv, IpShapes
<1>b. \A j \in IpIdSet : ipOs[j] \in BOOLEAN BY DEF IpInv, IpShapes
<1>c. ipId \in [IpPads -> -1 .. (IpIds - 1)] /\ ipMask \subseteq IpIdSet /\ ipFree \subseteq ipMask /\ ipTimers \subseteq IpPads
  BY DEF IpInv, IpTypeOK, IpIdSet
<1>1. ASSUME NEW p \in IpPads, Arrival(p) PROVE IpInv'
  <2>1. UNCHANGED <<ipForced, ipBack, ipTimers, ipEnded, ipGone, ipFree, ipClient>> /\ ipId[p] < 0 BY <1>1 DEF Arrival
  <2>2. PICK id \in AllocId : NewPad(p, id) \/ FailedPad(p) BY <1>1 DEF Arrival
  <2>3. id \in IpIdSet \ ipMask BY DEF AllocId, IpIdSet
  <2>4. CASE NewPad(p, id)
    <3>1. ipMask' = ipMask \cup {id} /\ ipId' = [ipId EXCEPT ![p] = id] /\ ipOs' = [ipOs EXCEPT ![id] = FALSE]
      BY <2>4 DEF NewPad
    <3>2. IpTypeOK' /\ IdsAccountedFor' BY <1>c, <2>1, <2>3, <3>1, IpTakesId
    <3>3. ipOs' = [j \in IpIdSet |-> ipOs[j] /\ j \notin {id}] BY <1>a, <1>b, <3>1
    <3>4. \A q \in IpPads : ipId'[q] = ipId[q] \/ ipId'[q] = -1 \/ ipId'[q] \in {id} BY <1>c, <3>1
    <3>5. {id} \in SUBSET IpIdSet BY <2>3
    <3>6. IpShapes' /\ BackForcedUntilReleased' /\ IpTimed' BY <2>1, <3>3, <3>4, <3>5, IpCleared
    <3> QED BY <3>2, <3>6 DEF IpInv
  <2>5. CASE FailedPad(p)
    BY <2>1, <2>5 DEF FailedPad, IpInv, IpTypeOK, IpShapes, IdsAccountedFor, BackForcedUntilReleased, IpTimed
  <2> QED BY <2>2, <2>4, <2>5
<1>2. ASSUME NEW p \in IpPads, Removal(p) PROVE IpInv'
  <2>1. /\ ipId[p] >= 0 /\ ipMask' = ipMask \ {ipId[p]} /\ ipOs' = [ipOs EXCEPT ![ipId[p]] = FALSE]
        /\ ipId' = [ipId EXCEPT ![p] = -1]
        /\ UNCHANGED <<ipForced, ipBack, ipTimers, ipEnded, ipGone, ipFree, ipClient>>
    BY <1>2 DEF Removal
  <2>2. PICK i \in IpIdSet : i = ipId[p] BY <2>1, IpPad
  <2>3. ipOs' = [j \in IpIdSet |-> ipOs[j] /\ j \notin {i}] BY <1>a, <1>b, <2>1, <2>2
  <2>4. \A q \in IpPads : ipId'[q] = (IF q = p THEN -1 ELSE ipId[q]) BY <1>c, <2>1
  <2>5. \A q \in IpPads : ipId'[q] = ipId[q] \/ ipId'[q] = -1 \/ ipId'[q] \in {i} BY <2>4
  <2>6. IpShapes' /\ BackForcedUntilReleased' /\ IpTimed' BY <2>1, <2>3, <2>5, IpCleared
  <2>7. \A q \in IpPads : ipId[q] # -1 => ipId[q] >= 0 BY IpPad DEF IpIdSet
  <2>8. \A q \in IpPads : q # p => ipId[q] # i BY <2>1, <2>2 DEF IpInv, IdsAccountedFor
  <2>9. i \notin ipFree /\ i # -1 BY <2>1, <2>2 DEF IpInv, IdsAccountedFor
  <2>10. {ipId'[q] : q \in IpPads} \ {-1} = ({ipId[q] : q \in IpPads} \ {-1}) \ {i} BY <2>2, <2>4, <2>8
  <2>11. ipMask' = ({ipId'[q] : q \in IpPads} \ {-1}) \cup ipFree' BY <2>1, <2>2, <2>9, <2>10 DEF IpInv, IdsAccountedFor
  <2>12. ipFree \subseteq ipMask \ {i} BY <1>c, <2>9
  <2>13. -1 \notin ipFree BY <1>c DEF IpIdSet
  <2>14. \A q \in IpPads : ipId'[q] \notin ipFree' BY <2>1, <2>4, <2>13 DEF IpInv, IdsAccountedFor
  <2>15. ASSUME NEW q \in IpPads, NEW r \in IpPads, q # r, ipId'[q] >= 0 PROVE ipId'[q] # ipId'[r]
    <3>1. q # p /\ ipId'[q] = ipId[q] BY <2>4, <2>15
    <3> QED BY <2>4, <2>15, <3>1 DEF IpInv, IdsAccountedFor
  <2>16. IdsAccountedFor' BY <2>11, <2>14, <2>15 DEF IdsAccountedFor
  <2>17. -1 \in -1 .. (IpIds - 1) BY IpAssumption
  <2>18. ipId' \in [IpPads -> -1 .. (IpIds - 1)] BY <1>c, <2>1, <2>17
  <2>19. IpTypeOK' BY <1>c, <2>1, <2>2, <2>12, <2>18 DEF IpTypeOK, IpIdSet
  <2> QED BY <2>6, <2>16, <2>19 DEF IpInv
<1>3. ASSUME NEW p \in IpPads, BackTimer(p) PROVE IpInv'
  <2>1. /\ p \in ipTimers /\ ipTimers' = ipTimers \ {p}
        /\ ipForced' = [ipForced EXCEPT ![p] = TRUE] /\ ipBack' = [ipBack EXCEPT ![p] = FALSE]
        /\ ipOs' = [i \in IpIdSet |-> ipOs[i] /\ i # ipId[p]]
        /\ UNCHANGED <<ipMask, ipId, ipEnded, ipGone, ipFree, ipClient>>
    BY <1>3, <1>a DEF BackTimer
  <2>2. IpTypeOK' /\ IdsAccountedFor' BY <2>1 DEF IpInv, IpTypeOK, IdsAccountedFor
  <2>3. IpShapes' BY <2>1 DEF IpInv, IpShapes
  <2>4. /\ \A q \in IpPads : ipForced'[q] = (IF q = p THEN TRUE ELSE ipForced[q])
        /\ \A q \in IpPads : ipBack'[q] = (IF q = p THEN FALSE ELSE ipBack[q])
    BY <2>1 DEF IpInv, IpShapes
  <2>5. ipClient[p] BY <2>1 DEF IpInv, IpTimed
  <2>6. ASSUME NEW q \in IpPads
        PROVE  (ipForced'[q] => ipClient'[q]) /\ (ipId'[q] >= 0 /\ ipOs'[ipId'[q]] => ipClient'[q] /\ ~ipForced'[q])
    <3>1. ipForced'[q] => ipClient'[q] BY <2>1, <2>4, <2>5 DEF IpInv, BackForcedUntilReleased
    <3>2. ipId[q] >= 0 => ipId[q] \in IpIdSet BY IpPad
    <3>3. ipId[q] \in IpIdSet => (ipOs'[ipId[q]] => ipOs[ipId[q]] /\ ipId[q] # ipId[p]) BY <2>1
    <3>4. ipOs[ipId[q]] /\ ipId[q] >= 0 => ipClient[q] /\ ~ipForced[q] BY DEF IpInv, BackForcedUntilReleased
    <3>5. ipId[q] # ipId[p] => ipForced'[q] = ipForced[q] BY <2>4
    <3>6. ipId' = ipId /\ ipClient' = ipClient BY <2>1
    <3> QED BY <3>1, <3>2, <3>3, <3>4, <3>5, <3>6
  <2>7. BackForcedUntilReleased' BY <2>6 DEF BackForcedUntilReleased
  <2>8. IpTimed' BY <1>c, <2>1, <2>4 DEF IpInv, IpTimed
  <2> QED BY <2>2, <2>3, <2>7, <2>8 DEF IpInv
<1>4. ASSUME NEW p \in IpPads, NEW back \in BOOLEAN, MultiController(p, back) PROVE IpInv'
  <2>1. ipId[p] >= 0 /\ State(p, back, ipId[p]) /\ UNCHANGED <<ipMask, ipId>> BY <1>4 DEF MultiController
  <2>2. PICK i \in IpIdSet : i = ipId[p] BY <2>1, IpPad
  <2>3. ipId' = [ipId EXCEPT ![p] = i] BY <1>c, <2>1, <2>2
  <2>4. \A q \in IpPads : q # p => ipId[q] # i BY <2>1, <2>2 DEF IpInv, IdsAccountedFor
  <2>5. State(p, back, i) BY <2>1, <2>2
  <2>6. IpShapes' /\ BackForcedUntilReleased' /\ IpTimed' /\ ipTimers' \subseteq IpPads BY <2>3, <2>4, <2>5, IpStates
  <2>7. UNCHANGED ipFree BY <2>5 DEF State
  <2>8. IpTypeOK' /\ IdsAccountedFor' BY <2>1, <2>6, <2>7 DEF IpInv, IpTypeOK, IdsAccountedFor
  <2> QED BY <2>6, <2>8 DEF IpInv
<1>5. ASSUME NEW p \in IpPads, NEW back \in BOOLEAN, FirstState(p, back) PROVE IpInv'
  <2>1. ipId[p] < 0 BY <1>5 DEF FirstState
  <2>2. PICK id \in AllocId : ipMask' = ipMask \cup {id} /\ ipId' = [ipId EXCEPT ![p] = id] /\ State(p, back, id)
    BY <1>5 DEF FirstState
  <2>3. id \in IpIdSet \ ipMask BY DEF AllocId, IpIdSet
  <2>4. \A q \in IpPads : q # p => ipId[q] # id
    <3>1. id # -1 BY <2>3 DEF IpIdSet
    <3> QED BY <2>3, <3>1, IpPad
  <2>5. IpShapes' /\ BackForcedUntilReleased' /\ IpTimed' /\ ipTimers' \subseteq IpPads BY <2>2, <2>3, <2>4, IpStates
  <2>6. UNCHANGED ipFree BY <2>2 DEF State
  <2>7. IpTypeOK' /\ IdsAccountedFor' BY <2>1, <2>2, <2>3, <2>5, <2>6, IpTakesId
  <2> QED BY <2>5, <2>7 DEF IpInv
<1>6. ASSUME NEW s \in IpSessions, SessionEnds(s) PROVE IpInv'
  BY <1>6 DEF SessionEnds, IpInv, IpTypeOK, IpShapes, IdsAccountedFor, BackForcedUntilReleased, IpTimed
<1>7. ASSUME NEW s \in IpSessions, Destroyed(s) PROVE IpInv'
  <2> DEFINE freed == {ipId[p] : p \in {q \in IpPads : q[1] = s}} \ {-1}
  <2>1. /\ ipFree' = ipFree \cup freed /\ ipId' = [p \in IpPads |-> IF p[1] = s THEN -1 ELSE ipId[p]]
        /\ UNCHANGED <<ipMask, ipForced, ipBack, ipTimers, ipOs, ipClient>>
    BY <1>7 DEF Destroyed
  <2>2. {ipId[q] : q \in IpPads} \ {-1} = ({ipId'[q] : q \in IpPads} \ {-1}) \cup freed BY <2>1
  <2>3. freed \subseteq ipMask /\ -1 \notin freed BY IpPad
  <2>4. \A i \in freed : \E q \in IpPads : q[1] = s /\ i = ipId[q] /\ i # -1 OBVIOUS
  <2> HIDE DEF freed
  <2>5. \A q \in IpPads : ipId[q] # -1 => ipId[q] >= 0 BY IpPad DEF IpIdSet
  <2>6. -1 \notin ipFree BY <1>c DEF IpIdSet
  <2>7. ASSUME NEW q \in IpPads PROVE ipId'[q] \notin ipFree'
    <3>1. CASE q[1] = s BY <2>1, <2>3, <2>6, <3>1
    <3>2. CASE q[1] # s
      <4>1. ipId'[q] = ipId[q] BY <2>1, <3>2
      <4>2. ipId[q] \notin freed BY <2>4, <2>5, <3>2 DEF IpInv, IdsAccountedFor
      <4> QED BY <2>1, <4>1, <4>2 DEF IpInv, IdsAccountedFor
    <3> QED BY <3>1, <3>2
  <2>8. \A q, r \in IpPads : q # r /\ ipId'[q] >= 0 => ipId'[q] # ipId'[r] BY <2>1 DEF IpInv, IdsAccountedFor
  <2>9. ipMask' = ({ipId'[q] : q \in IpPads} \ {-1}) \cup ipFree' BY <2>1, <2>2 DEF IpInv, IdsAccountedFor
  <2>10. IdsAccountedFor' BY <2>7, <2>8, <2>9 DEF IdsAccountedFor
  <2>11. -1 \in -1 .. (IpIds - 1) BY IpAssumption
  <2>12. ipId' \in [IpPads -> -1 .. (IpIds - 1)] BY <1>c, <2>1, <2>11
  <2>13. IpTypeOK' BY <1>c, <2>1, <2>3, <2>12 DEF IpTypeOK, IpIdSet
  <2>14. ipOs' = [j \in IpIdSet |-> ipOs[j] /\ j \notin {}] BY <1>a, <1>b, <2>1
  <2>15. \A q \in IpPads : ipId'[q] = ipId[q] \/ ipId'[q] = -1 \/ ipId'[q] \in {} BY <2>1
  <2>16. {} \in SUBSET IpIdSet OBVIOUS
  <2>17. IpShapes' /\ BackForcedUntilReleased' /\ IpTimed' BY <2>1, <2>14, <2>15, <2>16, IpCleared
  <2> QED BY <2>10, <2>13, <2>17 DEF IpInv
<1>8. ASSUME NEW i \in ipFree, FreeGamepad(i) PROVE IpInv'
  <2>1. /\ ipFree' = ipFree \ {i} /\ ipMask' = ipMask \ {i} /\ ipOs' = [ipOs EXCEPT ![i] = FALSE]
        /\ UNCHANGED <<ipId, ipForced, ipBack, ipTimers, ipEnded, ipGone, ipClient>>
    BY <1>8 DEF FreeGamepad
  <2>2. i \in IpIdSet BY <1>c
  <2>3. \A q \in IpPads : ipId[q] # i BY DEF IpInv, IdsAccountedFor
  <2>4. IdsAccountedFor' BY <2>1, <2>3 DEF IpInv, IdsAccountedFor
  <2>5. IpTypeOK' BY <2>1 DEF IpInv, IpTypeOK
  <2>6. ipOs' = [j \in IpIdSet |-> ipOs[j] /\ j \notin {i}] BY <1>a, <1>b, <2>1
  <2>7. {i} \in SUBSET IpIdSet BY <2>2
  <2>8. IpShapes' /\ BackForcedUntilReleased' /\ IpTimed' BY <2>1, <2>6, <2>7, IpCleared
  <2> QED BY <2>4, <2>5, <2>8 DEF IpInv
<1>9. CASE UNCHANGED ipVars
  BY <1>9 DEF ipVars, IpInv, IpTypeOK, IpShapes, IdsAccountedFor, BackForcedUntilReleased, IpTimed
<1> QED BY <1>1, <1>2, <1>3, <1>4, <1>5, <1>6, <1>7, <1>8, <1>9 DEF IpNext

\* Only a removal leaves a pending timer without its pad.
LEMMA IpFindsStep == IpInv /\ TimersFindPads /\ [IpNext]_ipVars => TimersFindPads'
<1> SUFFICES ASSUME IpInv, TimersFindPads, [IpNext]_ipVars PROVE TimersFindPads' OBVIOUS
<1>c. ipId \in [IpPads -> -1 .. (IpIds - 1)] /\ ipTimers \subseteq IpPads BY DEF IpInv, IpTypeOK
<1>1. ASSUME ipTimers' = ipTimers, ipDropped' = ipDropped, ipWild' = ipWild, \A p \in ipTimers : ipId'[p] = ipId[p] \/ ipId'[p] >= 0
      PROVE  TimersFindPads'
  BY <1>1 DEF TimersFindPads
<1>2. ASSUME NEW p \in IpPads, NEW i \in IpIdSet, ipId' = [ipId EXCEPT ![p] = i] PROVE ipId'[p] >= 0 /\ \A q \in IpPads : ipId'[q] = ipId[q] \/ ipId'[q] >= 0
  BY <1>c, <1>2 DEF IpIdSet
<1>3. ASSUME NEW p \in IpPads, Arrival(p) PROVE TimersFindPads'
  <2>1. UNCHANGED <<ipTimers, ipDropped, ipWild>> BY <1>3 DEF Arrival, Defined
  <2>2. PICK id \in IpIdSet : ipId' = [ipId EXCEPT ![p] = id] \/ ipId' = ipId
    BY <1>3 DEF Arrival, NewPad, FailedPad, AllocId, IpIdSet
  <2> QED BY <1>c, <1>1, <1>2, <2>1, <2>2
<1>4. ASSUME NEW p \in IpPads, Removal(p) PROVE TimersFindPads'
  <2>1. /\ ipId' = [ipId EXCEPT ![p] = -1] /\ UNCHANGED <<ipTimers, ipWild>>
        /\ ipDropped' = (IF p \in ipTimers THEN ipDropped \cup {p} ELSE ipDropped)
    BY <1>4 DEF Removal, Defined
  <2>2. \A q \in ipTimers : ipId'[q] = ipId[q] \/ (q = p /\ q \in ipDropped') BY <1>c, <2>1
  <2> QED BY <2>1, <2>2 DEF TimersFindPads
<1>5. ASSUME NEW p \in IpPads, BackTimer(p) PROVE TimersFindPads'
  <2>1. /\ ~ipWild /\ p \in ipTimers /\ ipTimers' = ipTimers \ {p} /\ ipWild' \in (IF ipId[p] >= 0 THEN {FALSE} ELSE BOOLEAN)
        /\ UNCHANGED <<ipId, ipDropped>>
    BY <1>5 DEF BackTimer
  <2>2. ipWild' => p \in ipDropped BY <2>1 DEF TimersFindPads
  <2> QED BY <2>1, <2>2 DEF TimersFindPads
<1>6. ASSUME NEW p \in IpPads, NEW back \in BOOLEAN, NEW i \in IpIdSet, State(p, back, i), ipId' = [ipId EXCEPT ![p] = i], ipWild' = ipWild
      PROVE  TimersFindPads'
  <2>1. ipTimers' \subseteq ipTimers \cup {p} /\ ipDropped' = ipDropped BY <1>6 DEF State
  <2>2. ipId'[p] >= 0 /\ \A q \in IpPads : ipId'[q] = ipId[q] \/ ipId'[q] >= 0 BY <1>2, <1>6
  <2> QED BY <1>c, <1>6, <2>1, <2>2 DEF TimersFindPads
<1>7. ASSUME NEW p \in IpPads, NEW back \in BOOLEAN, MultiController(p, back) PROVE TimersFindPads'
  <2>1. ipId[p] >= 0 /\ State(p, back, ipId[p]) /\ UNCHANGED <<ipId, ipWild>> BY <1>7 DEF MultiController, Defined
  <2>2. PICK i \in IpIdSet : i = ipId[p] BY <2>1, IpPad
  <2>3. ipId' = [ipId EXCEPT ![p] = i] BY <1>c, <2>1, <2>2
  <2> QED BY <1>6, <2>1, <2>2, <2>3
<1>8. ASSUME NEW p \in IpPads, NEW back \in BOOLEAN, FirstState(p, back) PROVE TimersFindPads'
  <2>1. PICK id \in AllocId : ipId' = [ipId EXCEPT ![p] = id] /\ State(p, back, id) BY <1>8 DEF FirstState
  <2>2. id \in IpIdSet /\ ipWild' = ipWild BY <1>8 DEF AllocId, IpIdSet, FirstState, Defined
  <2> QED BY <1>6, <2>1, <2>2
<1>9. ASSUME NEW s \in IpSessions, SessionEnds(s) PROVE TimersFindPads'
  BY <1>1, <1>9 DEF SessionEnds, Defined
<1>10. ASSUME NEW s \in IpSessions, Destroyed(s) PROVE TimersFindPads'
  <2>1. /\ \A p \in ipTimers : p[1] # s
        /\ ipId' = [p \in IpPads |-> IF p[1] = s THEN -1 ELSE ipId[p]] /\ UNCHANGED <<ipTimers, ipDropped, ipWild>>
    BY <1>10 DEF Destroyed, Defined
  <2>2. \A p \in ipTimers : ipId'[p] = ipId[p] BY <1>c, <2>1
  <2> QED BY <1>1, <2>1, <2>2
<1>11. ASSUME NEW i \in ipFree, FreeGamepad(i) PROVE TimersFindPads'
  BY <1>1, <1>11 DEF FreeGamepad, Defined
<1>12. CASE UNCHANGED ipVars BY <1>1, <1>12 DEF ipVars
<1> QED BY <1>3, <1>4, <1>5, <1>7, <1>8, <1>9, <1>10, <1>11, <1>12 DEF IpNext

-----------------------------------------------------------------------------
(* Touch and pen on Windows (WindowsTouch) *)

WtAt == 1 .. WtSlots

WtSlotShapes(info) ==
  /\ info = [i \in WtAt |-> info[i]]
  /\ \A i \in WtAt : info[i] = [id |-> info[i].id, flags |-> info[i].flags]

\* Each pointer has one slot.
WtApart(info) == \A i, j \in WtAt : i # j /\ InUse(info[i]) /\ InUse(info[j]) => info[i].id # info[j].id

\* The slots in use are below n.
WtBelow(info, n) == \A i \in WtAt : InUse(info[i]) => i <= n

WtInv ==
  /\ WtSlotShapes(wtInfo) /\ WtBelow(wtInfo, wtActive) /\ WtApart(wtInfo)
  /\ InteractionRefreshed

\* Where the destructor is, and what it has cancelled.
WtDevices == {"touch", "pen"}

WtKept ==
  /\ wtTimers \subseteq WtDevices /\ wtRunning \subseteq WtDevices
  /\ wtGone => wtCancelled = WtDevices
  /\ NoRefreshAfterClient

LEMMA WtNoneUsed == ASSUME NEW n PROVE LET info == [i \in WtAt |-> Free] IN WtSlotShapes(info) /\ WtBelow(info, n) /\ WtApart(info)
  BY DEF WtSlotShapes, WtBelow, WtApart, Free, InUse

LEMMA WtInvInit == WtInit => WtInv
<1> SUFFICES ASSUME WtInit PROVE WtInv OBVIOUS
<1>1. wtInfo = [i \in WtAt |-> Free] /\ wtPen = {} BY DEF WtInit, WtAt
<1>2. WtSlotShapes(wtInfo) /\ WtBelow(wtInfo, wtActive) /\ WtApart(wtInfo) BY <1>1, WtNoneUsed
<1>3. InteractionRefreshed BY <1>1 DEF InteractionRefreshed, InUse, Free, WtAt
<1> QED BY <1>1, <1>2, <1>3 DEF WtInv

LEMMA WtKeptInit == WtInit => WtKept
  BY DEF WtInit, WtKept, NoRefreshAfterClient

LEMMA WtInvSound == WtInv => SlotsCoverTouches /\ InteractionRefreshed
  BY DEF WtInv, SlotsCoverTouches, WtBelow, WtApart, WtAt

\* The count of slots in use grows with the slots looked at.
LEMMA WtCounted ==
  ASSUME NEW info, NEW j \in WtAt
  PROVE  UsedUpTo(info, j) \in Nat /\ ActiveCount(info) \in Nat /\ UsedUpTo(info, j) <= ActiveCount(info)
<1> DEFINE all == {k \in 1 .. WtSlots : InUse(info[k])}
           some == {k \in 1 .. j : InUse(info[k])}
<1>1. IsFiniteSet(1 .. WtSlots) BY WtAssumption, FS_Interval
<1>2. all \subseteq 1 .. WtSlots /\ some \subseteq all BY WtAssumption DEF WtAt
<1> HIDE DEF all, some
<1>3. IsFiniteSet(all) BY <1>1, <1>2, FS_Subset
<1>4. IsFiniteSet(some) /\ Cardinality(some) <= Cardinality(all) BY <1>2, <1>3, FS_Subset
<1>5. Cardinality(some) \in Nat /\ Cardinality(all) \in Nat BY <1>3, <1>4, FS_CardinalityType
<1> QED BY <1>4, <1>5 DEF UsedUpTo, ActiveCount, all, some

\* Compaction keeps each pointer in one slot, and leaves no gap.
LEMMA WtCompacted ==
  ASSUME NEW info, WtSlotShapes(info), WtApart(info)
  PROVE  WtSlotShapes(Compact(info)) /\ WtApart(Compact(info)) /\ WtBelow(Compact(info), ActiveCount(info))
<1> DEFINE source(i) == {j \in 1 .. WtSlots : InUse(info[j]) /\ UsedUpTo(info, j) = i}
           c == Compact(info)
<1>1. c = [i \in WtAt |-> IF source(i) = {} THEN Free ELSE info[CHOOSE j \in source(i) : TRUE]] BY DEF Compact, WtAt
<1>2. \A i \in WtAt : c[i] = Free \/ \E j \in WtAt : InUse(info[j]) /\ UsedUpTo(info, j) = i /\ c[i] = info[j]
  <2> SUFFICES ASSUME NEW i \in WtAt
               PROVE  c[i] = Free \/ \E j \in WtAt : InUse(info[j]) /\ UsedUpTo(info, j) = i /\ c[i] = info[j]
    OBVIOUS
  <2>1. CASE source(i) = {} BY <1>1, <2>1
  <2>2. CASE source(i) # {}
    <3>1. PICK j \in source(i) : j = CHOOSE k \in source(i) : TRUE BY <2>2
    <3>2. c[i] = info[j] BY <1>1, <2>2, <3>1
    <3>3. j \in WtAt /\ InUse(info[j]) /\ UsedUpTo(info, j) = i BY DEF WtAt
    <3> QED BY <3>2, <3>3
  <2> QED BY <2>1, <2>2
<1>3. c = [i \in WtAt |-> c[i]] BY <1>1
<1> HIDE DEF c, source
<1>4. ~InUse(Free) /\ Free = [id |-> Free.id, flags |-> Free.flags] BY DEF InUse, Free
<1>5. WtSlotShapes(c) BY <1>2, <1>3, <1>4 DEF WtSlotShapes
<1>6. WtApart(c)
  <2> SUFFICES ASSUME NEW i \in WtAt, NEW k \in WtAt, i # k, InUse(c[i]), InUse(c[k]) PROVE c[i].id # c[k].id
    BY DEF WtApart
  <2>1. PICK j \in WtAt : InUse(info[j]) /\ UsedUpTo(info, j) = i /\ c[i] = info[j] BY <1>2, <1>4
  <2>2. PICK m \in WtAt : InUse(info[m]) /\ UsedUpTo(info, m) = k /\ c[k] = info[m] BY <1>2, <1>4
  <2>3. j # m BY <2>1, <2>2
  <2> QED BY <2>1, <2>2, <2>3 DEF WtApart
<1>7. WtBelow(c, ActiveCount(info))
  <2> SUFFICES ASSUME NEW i \in WtAt, InUse(c[i]) PROVE i <= ActiveCount(info) BY DEF WtBelow
  <2>1. PICK j \in WtAt : InUse(info[j]) /\ UsedUpTo(info, j) = i /\ c[i] = info[j] BY <1>2, <1>4
  <2> QED BY <2>1, WtCounted
<1> QED BY <1>5, <1>6, <1>7 DEF c

\* A pointer's own slot is below the count; a new pointer takes the next one.
LEMMA WtPointer ==
  ASSUME NEW info, WtApart(info), NEW n \in Nat, WtBelow(info, n), NEW id
  PROVE  LET slot == PointerById(info, n, id) IN
         \/ slot \in WtAt /\ InUse(info[slot]) /\ info[slot].id = id /\ slot <= n
         \/ slot = n + 1 /\ \A i \in WtAt : InUse(info[i]) => info[i].id # id
<1> DEFINE own == {i \in 1 .. WtSlots : info[i].id = id /\ InUse(info[i])}
           slot == PointerById(info, n, id)
<1>1. CASE own = {}
  <2>1. slot = n + 1 BY <1>1 DEF PointerById
  <2>2. \A i \in WtAt : InUse(info[i]) => info[i].id # id BY <1>1 DEF WtAt
  <2> QED BY <2>1, <2>2
<1>2. CASE own # {}
  <2>1. PICK k : k \in own BY <1>2
  <2>2. \A j \in own : j = k BY <2>1 DEF WtApart, WtAt
  <2>3. k \in Nat BY <2>1
  <2>4. \E i \in own : \A j \in own : i <= j BY <2>1, <2>2, <2>3
  <2>5. slot = CHOOSE i \in own : \A j \in own : i <= j BY <1>2 DEF PointerById
  <2>6. slot \in own BY <2>4, <2>5
  <2>7. slot \in WtAt /\ InUse(info[slot]) /\ info[slot].id = id BY <2>6 DEF WtAt
  <2>8. slot <= n BY <2>7 DEF WtBelow
  <2> QED BY <2>7, <2>8
<1> QED BY <1>1, <1>2

\* What is injected once the slot is known.
LEMMA WtSends ==
  ASSUME WtInv, NEW info, WtSlotShapes(info), WtApart(info), NEW active \in Nat, WtBelow(info, active),
         NEW slot \in WtAt, slot <= active, active <= 1 => slot = active, NEW ok \in BOOLEAN, TouchSent(info, slot, active, ok),
         wtCancelled = {}, UNCHANGED <<wtRunning, wtPen, wtCancelled>>
  PROVE  WtInv'
<1> DEFINE sent == [info EXCEPT ![slot].flags = @ \ Edge]
<1>1. /\ wtInfo' = (IF ok THEN sent ELSE info) /\ wtActive' = active
      /\ wtFailed' = (IF ok THEN wtFailed \ {"touch"} ELSE wtFailed \cup {"touch"})
      /\ wtTimers' = (IF ok /\ (active > 1 \/ sent[slot].flags # {}) THEN wtTimers \cup {"touch"} ELSE wtTimers \ {"touch"})
  BY DEF TouchSent
<1>2. DOMAIN info = WtAt BY DEF WtSlotShapes
<1>3. info[slot] = [id |-> info[slot].id, flags |-> info[slot].flags] BY DEF WtSlotShapes
<1>4. [info[slot] EXCEPT !.flags = @ \ Edge] = [id |-> info[slot].id, flags |-> info[slot].flags \ Edge] BY <1>3
<1>5. sent = [i \in WtAt |-> IF i = slot THEN [id |-> info[slot].id, flags |-> info[slot].flags \ Edge] ELSE info[i]]
  BY <1>2, <1>4
<1> HIDE DEF sent
<1>6. sent[slot] = [id |-> info[slot].id, flags |-> info[slot].flags \ Edge] /\ \A i \in WtAt : i # slot => sent[i] = info[i]
  BY <1>5
<1>7. \A i \in WtAt : sent[i].id = info[i].id /\ (InUse(sent[i]) => InUse(info[i])) BY <1>6 DEF InUse
<1>8. WtSlotShapes(sent)
  <2>1. sent = [i \in WtAt |-> sent[i]] BY <1>5
  <2>2. \A i \in WtAt : sent[i] = [id |-> sent[i].id, flags |-> sent[i].flags] BY <1>6 DEF WtSlotShapes
  <2> QED BY <2>1, <2>2 DEF WtSlotShapes
<1>9. WtApart(sent) /\ WtBelow(sent, active) BY <1>7 DEF WtApart, WtBelow
<1>10. WtSlotShapes(wtInfo') /\ WtBelow(wtInfo', wtActive') /\ WtApart(wtInfo') BY <1>1, <1>8, <1>9
<1>11. WtSlotShapes(wtInfo)' /\ WtBelow(wtInfo, wtActive)' /\ WtApart(wtInfo)' BY <1>10 DEF WtSlotShapes, WtBelow, WtApart, InUse
<1>12. ("touch" \notin wtFailed /\ (\E i \in 1 .. WtSlots : InUse(wtInfo[i])) => "touch" \in wtTimers \cup wtRunning)'
  <2> SUFFICES ASSUME "touch" \notin wtFailed', NEW i \in WtAt, InUse(wtInfo'[i]) PROVE "touch" \in wtTimers'
    BY DEF WtAt, InUse
  <2>1. ok BY <1>1
  <2>2. InUse(sent[i]) BY <1>1, <2>1
  <2>3. i <= active BY <1>9, <2>2 DEF WtBelow
  <2>4. active > 1 \/ i = slot BY <2>3, WtAssumption DEF WtAt
  <2>5. i = slot => sent[slot].flags # {} BY <2>2 DEF InUse
  <2> QED BY <1>1, <2>1, <2>4, <2>5
<1>13. ("pen" \notin wtFailed /\ wtPen # {} => "pen" \in wtTimers \cup wtRunning)' BY <1>1 DEF WtInv, InteractionRefreshed
<1>14. InteractionRefreshed' BY <1>12, <1>13 DEF InteractionRefreshed
<1> QED BY <1>11, <1>14 DEF WtInv

LEMMA WtTouches ==
  ASSUME WtInv, NEW id \in WtPointers, NEW event \in WtEvents, NEW ok \in BOOLEAN, TouchUpdate(id, event, ok)
  PROVE  WtInv'
<1> DEFINE info == Compact(wtInfo)
           active == ActiveCount(wtInfo)
           slot == PointerById(info, active, id)
           full == slot > WtSlots
           at == IF full THEN 1 ELSE slot
           base == IF full THEN [i \in 1 .. WtSlots |-> Free] ELSE info
           old == base[at]
           flags == Flags(old.flags, event)
           new == [base EXCEPT ![at] = [id |-> id, flags |-> flags]]
           count == IF InUse(old) THEN active ELSE at
<1>1. TouchSent(new, at, count, ok) /\ wtCancelled = {} /\ UNCHANGED <<wtRunning, wtPen, wtPenDevice, wtCancelled>>
  BY DEF TouchUpdate, Client
<1>2. WtSlotShapes(info) /\ WtApart(info) /\ WtBelow(info, active) BY WtCompacted DEF WtInv
<1>3. active \in Nat
  <2>1. 1 \in WtAt BY WtAssumption DEF WtAt
  <2> QED BY <2>1, WtCounted
<1> HIDE DEF info, active
<1>4. \/ slot \in WtAt /\ InUse(info[slot]) /\ info[slot].id = id /\ slot <= active
      \/ slot = active + 1 /\ \A i \in WtAt : InUse(info[i]) => info[i].id # id
  BY <1>2, <1>3, WtPointer
<1> HIDE DEF slot
<1>5. slot \in Nat /\ slot > 0 BY <1>3, <1>4 DEF WtAt
<1>6. WtSlotShapes(base) /\ WtApart(base) /\ DOMAIN base = WtAt
  <2>1. CASE full BY <2>1, WtNoneUsed DEF WtAt, WtSlotShapes
  <2>2. CASE ~full BY <2>2, <1>2 DEF WtAt, WtSlotShapes
  <2> QED BY <2>1, <2>2
<1>7. at \in WtAt BY <1>5, WtAssumption DEF WtAt
<1>8. /\ \A i \in WtAt : i # at /\ InUse(base[i]) => base[i].id # id
      /\ \A i \in WtAt : i # at /\ InUse(base[i]) => i <= count
      /\ count \in Nat /\ at <= count /\ (count <= 1 => at = count)
  <2>1. CASE full
    <3>1. \A i \in WtAt : ~InUse(base[i]) BY <2>1 DEF InUse, Free, WtAt
    <3>2. count = 1 /\ at = 1 BY <2>1, <3>1, <1>7
    <3>3. count \in Nat /\ at <= count /\ (count <= 1 => at = count) BY <3>2
    <3> HIDE DEF full, at, base, count
    <3> QED BY <3>1, <3>3
  <2>2. CASE ~full /\ slot \in WtAt /\ InUse(info[slot]) /\ info[slot].id = id /\ slot <= active
    <3>1. at = slot /\ base = info /\ InUse(old) /\ count = active BY <2>2
    <3>2. \A i \in WtAt : InUse(info[i]) => i <= active BY <1>2 DEF WtBelow
    <3>3. \A i \in WtAt : i # slot /\ InUse(info[i]) => info[i].id # id BY <1>2, <2>2 DEF WtApart
    <3>4. active <= 1 => slot = active BY <1>3, <1>5, <2>2
    <3> QED BY <3>1, <3>2, <3>3, <3>4, <1>2, <1>3, <2>2
  <2>3. CASE ~full /\ slot = active + 1 /\ \A i \in WtAt : InUse(info[i]) => info[i].id # id
    <3>1. at = slot /\ base = info BY <2>3
    <3>2. \A i \in WtAt : InUse(info[i]) => i <= active BY <1>2 DEF WtBelow
    <3>3. ~InUse(old) BY <1>3, <1>7, <2>3, <3>1, <3>2
    <3>4. count = at BY <3>3
    <3>5. \A i \in WtAt : i <= active => i <= slot BY <1>3, <2>3 DEF WtAt
    <3> QED BY <3>1, <3>2, <3>3, <3>4, <3>5, <2>3, <1>5
  <2> QED BY <1>4, <2>1, <2>2, <2>3
<1> HIDE DEF full, at, base, count, flags
<1>9. new = [i \in WtAt |-> IF i = at THEN [id |-> id, flags |-> flags] ELSE base[i]] BY <1>6
<1> HIDE DEF new
<1>10. new[at] = [id |-> id, flags |-> flags] /\ \A i \in WtAt : i # at => new[i] = base[i] BY <1>7, <1>9
<1>11. WtSlotShapes(new)
  <2>1. new = [i \in WtAt |-> new[i]] BY <1>9
  <2>2. \A i \in WtAt : new[i] = [id |-> new[i].id, flags |-> new[i].flags] BY <1>6, <1>10 DEF WtSlotShapes
  <2> QED BY <2>1, <2>2 DEF WtSlotShapes
<1>12. WtBelow(new, count)
  <2>1. \A i \in WtAt : InUse(new[i]) => i <= count BY <1>8, <1>10
  <2> QED BY <2>1 DEF WtBelow
<1>13. WtApart(new)
  <2> SUFFICES ASSUME NEW i \in WtAt, NEW j \in WtAt, i # j, InUse(new[i]), InUse(new[j]) PROVE new[i].id # new[j].id
    BY DEF WtApart
  <2>1. CASE i = at BY <1>8, <1>10, <2>1
  <2>2. CASE j = at BY <1>8, <1>10, <2>2
  <2>3. CASE i # at /\ j # at BY <1>6, <1>10, <2>3 DEF WtApart
  <2> QED BY <2>1, <2>2, <2>3
<1> QED BY <1>1, <1>7, <1>8, <1>11, <1>12, <1>13, WtSends

LEMMA WtInvStep == WtInv /\ [WtNext]_wtVars => WtInv'
<1> SUFFICES ASSUME WtInv, [WtNext]_wtVars PROVE WtInv' OBVIOUS
<1> USE DEF WtInv
<1>1. ASSUME NEW event \in WtEvents, NEW ok \in BOOLEAN, PenUpdate(event, ok) PROVE WtInv'
  <2> DEFINE flags == Flags(wtPen, event)
             sent == IF ok THEN flags \ Edge ELSE flags
  <2>1. /\ wtCancelled = {} /\ wtPen' = sent /\ wtFailed' = (IF ok THEN wtFailed \ {"pen"} ELSE wtFailed \cup {"pen"})
        /\ wtTimers' = (IF ok /\ sent # {} THEN wtTimers \cup {"pen"} ELSE wtTimers \ {"pen"})
        /\ UNCHANGED <<wtInfo, wtActive, wtRunning, wtCancelled>>
    BY <1>1 DEF PenUpdate, Client
  <2> HIDE DEF sent
  <2>2. InteractionRefreshed' BY <2>1 DEF InteractionRefreshed, InUse
  <2> QED BY <2>1, <2>2 DEF WtSlotShapes, WtBelow, WtApart, InUse
<1>2. CASE CancelAll
  <2>1. /\ wtInfo' = [i \in WtAt |-> Free] /\ wtActive' = 0 /\ wtTimers' = wtTimers \ {"touch"}
        /\ wtFailed' = wtFailed \ {"touch"} /\ UNCHANGED <<wtRunning, wtPen, wtCancelled>>
    BY <1>2 DEF CancelAll, WtAt, Client
  <2>2. WtSlotShapes(wtInfo') /\ WtBelow(wtInfo', wtActive') /\ WtApart(wtInfo') BY <2>1, WtNoneUsed
  <2>3. WtSlotShapes(wtInfo)' /\ WtBelow(wtInfo, wtActive)' /\ WtApart(wtInfo)' BY <2>2 DEF WtSlotShapes, WtBelow, WtApart, InUse
  <2>4. \A i \in 1 .. WtSlots : ~InUse(wtInfo'[i]) BY <2>1 DEF InUse, Free, WtAt
  <2>5. InteractionRefreshed' BY <2>1, <2>4 DEF InteractionRefreshed, InUse
  <2> QED BY <2>1, <2>3, <2>5
<1>3. ASSUME NEW dev \in WtDevices, RefreshStarts(dev) PROVE WtInv'
  <2>1. /\ wtRunning = {} /\ dev \in wtTimers /\ wtTimers' = wtTimers \ {dev} /\ wtRunning' = {dev}
        /\ UNCHANGED <<wtInfo, wtActive, wtPen, wtFailed, wtCancelled>>
    BY <1>3 DEF RefreshStarts, RefreshKeeps
  <2>2. InteractionRefreshed' BY <2>1 DEF InteractionRefreshed, InUse, WtDevices
  <2> QED BY <2>1, <2>2 DEF WtSlotShapes, WtBelow, WtApart, InUse
<1>4. CASE RefreshEnds
  <2>1. /\ wtTimers' = wtTimers \cup wtRunning /\ wtRunning' = {}
        /\ UNCHANGED <<wtInfo, wtActive, wtPen, wtFailed, wtCancelled>>
    BY <1>4 DEF RefreshEnds, RefreshKeeps
  <2>2. InteractionRefreshed' BY <2>1 DEF InteractionRefreshed, InUse
  <2> QED BY <2>1, <2>2 DEF WtSlotShapes, WtBelow, WtApart, InUse
<1>5. ASSUME NEW dev \in WtDevices, CancelRefresh(dev) \/ ClientDestroyed PROVE WtInv'
  <2>1. wtCancelled' # {} /\ UNCHANGED <<wtInfo, wtActive>> BY <1>5 DEF CancelRefresh, ClientDestroyed
  <2>2. InteractionRefreshed' BY <2>1 DEF InteractionRefreshed
  <2> QED BY <2>1, <2>2 DEF WtSlotShapes, WtBelow, WtApart, InUse
<1>6. CASE UNCHANGED wtVars
  BY <1>6 DEF wtVars, WtSlotShapes, WtBelow, WtApart, InUse, InteractionRefreshed
<1>7. ASSUME NEW id \in WtPointers, NEW event \in WtEvents \ {"button"}, NEW ok \in BOOLEAN, TouchUpdate(id, event, ok)
      PROVE  WtInv'
  BY <1>7, WtTouches
<1> QED BY <1>1, <1>2, <1>3, <1>4, <1>5, <1>6, <1>7 DEF WtNext, WtDevices

\* The destructor against the refreshes of the task pool.
LEMMA WtKeptStep == WtKept /\ [WtNext]_wtVars => WtKept'
<1> SUFFICES ASSUME WtKept, [WtNext]_wtVars PROVE WtKept' OBVIOUS
<1> USE DEF WtKept
<1>1. ASSUME NEW dev \in WtDevices, wtTimers' \in {wtTimers \cup {dev}, wtTimers \ {dev}}, wtCancelled = {},
             UNCHANGED <<wtRunning, wtCancelled, wtLate, wtGone>>,
             IF dev = "pen" THEN wtPenDevice' = TRUE /\ wtDevice' = wtDevice ELSE wtDevice' = TRUE /\ wtPenDevice' = wtPenDevice
      PROVE  WtKept'
  <2>1. ~wtGone BY <1>1 DEF WtDevices
  <2>2. ASSUME NEW d \in (wtTimers' \cup wtRunning') \ wtLate' PROVE IF d = "pen" THEN wtPenDevice' ELSE wtDevice'
    <3>1. CASE d = dev BY <1>1, <3>1
    <3>2. CASE d # dev
      <4>1. d \in (wtTimers \cup wtRunning) \ wtLate BY <1>1, <2>2, <3>2
      <4>2. IF d = "pen" THEN wtPenDevice ELSE wtDevice BY <4>1 DEF NoRefreshAfterClient
      <4> QED BY <1>1, <3>2, <4>2
    <3> QED BY <3>1, <3>2
  <2>3. NoRefreshAfterClient' BY <1>1, <2>1, <2>2 DEF NoRefreshAfterClient
  <2> QED BY <1>1, <2>1, <2>3
<1>2. ASSUME NEW event \in WtEvents, NEW ok \in BOOLEAN, PenUpdate(event, ok) PROVE WtKept'
  <2>1. wtTimers' \in {wtTimers \cup {"pen"}, wtTimers \ {"pen"}} BY <1>2 DEF PenUpdate
  <2>2. wtCancelled = {} /\ UNCHANGED <<wtRunning, wtCancelled, wtLate, wtGone>> /\ wtPenDevice' = TRUE /\ wtDevice' = wtDevice
    BY <1>2 DEF PenUpdate, Client
  <2> QED BY <1>1, <2>1, <2>2 DEF WtDevices
<1>3. ASSUME NEW id \in WtPointers, NEW event \in WtEvents, NEW ok \in BOOLEAN, TouchUpdate(id, event, ok) PROVE WtKept'
  <2>1. wtTimers' \in {wtTimers \cup {"touch"}, wtTimers \ {"touch"}} BY <1>3 DEF TouchUpdate, TouchSent
  <2>2. wtCancelled = {} /\ UNCHANGED <<wtRunning, wtCancelled, wtLate, wtGone>> /\ wtDevice' = TRUE /\ wtPenDevice' = wtPenDevice
    BY <1>3 DEF TouchUpdate, Client
  <2> QED BY <1>1, <2>1, <2>2 DEF WtDevices
<1>4. CASE CancelAll
  <2>1. /\ wtTimers' = wtTimers \ {"touch"} /\ UNCHANGED <<wtRunning, wtCancelled, wtLate, wtGone, wtDevice, wtPenDevice>>
    BY <1>4 DEF CancelAll, Client
  <2> QED BY <2>1 DEF NoRefreshAfterClient
<1>5. ASSUME NEW dev \in WtDevices, RefreshStarts(dev) PROVE WtKept'
  <2>1. /\ dev \in wtTimers /\ wtTimers' = wtTimers \ {dev} /\ wtRunning = {} /\ wtRunning' = {dev}
        /\ UNCHANGED <<wtCancelled, wtLate, wtGone, wtDevice, wtPenDevice>>
    BY <1>5 DEF RefreshStarts, RefreshKeeps
  <2>2. wtTimers' \cup wtRunning' = wtTimers \cup wtRunning BY <2>1
  <2>3. NoRefreshAfterClient' BY <2>1, <2>2 DEF NoRefreshAfterClient
  <2> QED BY <2>1, <2>3
<1>6. CASE RefreshEnds
  <2>1. /\ wtTimers' = wtTimers \cup wtRunning /\ wtRunning' = {}
        /\ UNCHANGED <<wtCancelled, wtLate, wtGone, wtDevice, wtPenDevice>>
    BY <1>6 DEF RefreshEnds, RefreshKeeps
  <2>2. wtTimers' \cup wtRunning' = wtTimers \cup wtRunning BY <2>1
  <2>3. NoRefreshAfterClient' BY <2>1, <2>2 DEF NoRefreshAfterClient
  <2> QED BY <2>1, <2>3
<1>7. ASSUME NEW dev \in WtDevices, CancelRefresh(dev) PROVE WtKept'
  <2>1. /\ wtCancelled = (IF dev = "pen" THEN {} ELSE {"pen"}) /\ wtCancelled' = wtCancelled \cup {dev}
        /\ wtTimers' = wtTimers \ {dev} /\ wtLate' = wtLate \cup (wtRunning \cap {dev})
        /\ UNCHANGED <<wtRunning, wtGone, wtDevice, wtPenDevice>>
    BY <1>7 DEF CancelRefresh
  <2>2. ~wtGone BY <1>7, <2>1 DEF WtDevices
  <2>3. ASSUME NEW d \in (wtTimers' \cup wtRunning') \ wtLate' PROVE d \notin wtCancelled' /\ (IF d = "pen" THEN wtPenDevice' ELSE wtDevice')
    <3>1. d # dev /\ d \in (wtTimers \cup wtRunning) \ wtLate BY <2>1, <2>3
    <3>2. d \notin wtCancelled /\ (IF d = "pen" THEN wtPenDevice ELSE wtDevice) BY <3>1 DEF NoRefreshAfterClient
    <3> QED BY <2>1, <3>1, <3>2
  <2>4. NoRefreshAfterClient' BY <2>1, <2>2, <2>3 DEF NoRefreshAfterClient
  <2> QED BY <2>1, <2>2, <2>4
<1>8. CASE ClientDestroyed
  <2>1. wtCancelled = WtDevices /\ UNCHANGED <<wtTimers, wtRunning, wtLate, wtCancelled>> BY <1>8 DEF ClientDestroyed, WtDevices
  <2>2. wtTimers \cup wtRunning \subseteq wtLate BY <2>1 DEF NoRefreshAfterClient
  <2>3. NoRefreshAfterClient' BY <2>1, <2>2 DEF NoRefreshAfterClient
  <2> QED BY <2>1, <2>3
<1>9. CASE UNCHANGED wtVars BY <1>9 DEF wtVars, NoRefreshAfterClient
<1> QED BY <1>2, <1>3, <1>4, <1>5, <1>6, <1>7, <1>8, <1>9 DEF WtNext, WtDevices

-----------------------------------------------------------------------------
(* Gamepads on Windows (WindowsPads) *)

WpShapes ==
  /\ wpClient \in BOOLEAN /\ wpAttached \subseteq WpPads
  /\ wpGp \in [WpPads -> {"none", "x360", "ds4"}]
  /\ wpMap \in [WpPads -> [WpFingers -> -1 .. 1]] /\ wpAvail \in [WpPads -> SUBSET {0, 1}]

\* The pointers of one gamepad: no index is used twice, or used and free.
WpApart(map, avail) ==
  /\ \A f \in WpFingers : map[f] >= 0 => map[f] \notin avail
  /\ \A f, g \in WpFingers : f # g /\ map[f] >= 0 => map[f] # map[g]

\* Until a gamepad is attached nothing touches its pointers.
WpPointers ==
  /\ \A nr \in wpAttached \ wpReused : WpApart(wpMap[nr], wpAvail[nr])
  /\ \A nr \in WpPads \ (wpAttached \cup wpReused) : \A f \in WpFingers : wpMap[nr][f] = -1

WpInv == WpShapes /\ ConnectedWhileAttached /\ ReportsRepeated /\ WpPointers

LEMMA WpInvInit == WpInit => WpInv
<1> SUFFICES ASSUME WpInit PROVE WpInv OBVIOUS
<1> USE DEF WpInit
<1>1. WpShapes
  <2>1. wpClient \in BOOLEAN /\ wpAttached \subseteq WpPads /\ wpGp \in [WpPads -> {"none", "x360", "ds4"}] OBVIOUS
  <2>2. [f \in WpFingers |-> -1] \in [WpFingers -> -1 .. 1] OBVIOUS
  <2>3. wpMap \in [WpPads -> [WpFingers -> -1 .. 1]] BY <2>2
  <2>4. wpAvail \in [WpPads -> SUBSET {0, 1}] OBVIOUS
  <2> QED BY <2>1, <2>3, <2>4 DEF WpShapes
<1>2. ConnectedWhileAttached /\ ReportsRepeated BY DEF ConnectedWhileAttached, ReportsRepeated
<1>3. WpPointers BY DEF WpPointers
<1> QED BY <1>1, <1>2, <1>3 DEF WpInv

LEMMA WpInvSound == WpInv => ConnectedWhileAttached /\ ReportsRepeated /\ FingersApart
<1> SUFFICES ASSUME WpInv PROVE ConnectedWhileAttached /\ ReportsRepeated /\ FingersApart OBVIOUS
<1>1. FingersApart BY DEF WpInv, WpPointers, WpApart, FingersApart
<1> QED BY <1>1 DEF WpInv

\* A report is sent for an attached DualShock 4, and repeated if that worked.
LEMMA WpReports ==
  ASSUME WpInv, NEW nr \in WpPads, nr \in wpAttached, wpGp[nr] = "ds4", NEW ok \in BOOLEAN, SendReport(nr, ok),
         UNCHANGED <<wpClient, wpGp, wpAttached>>
  PROVE  ConnectedWhileAttached' /\ ReportsRepeated'
<1>1. /\ wpTimers' = (IF ok THEN wpTimers \cup {nr} ELSE wpTimers \ {nr})
      /\ wpSilent' = (IF ok THEN wpSilent \ {nr} ELSE wpSilent \cup {nr})
  BY DEF SendReport
<1>2. ReportsRepeated' BY <1>1 DEF WpInv, ReportsRepeated
<1> QED BY <1>2 DEF WpInv, ConnectedWhileAttached

LEMMA WpTouchpad ==
  ASSUME WpInv, NEW nr \in WpPads, nr \in wpAttached, NEW f \in WpFingers,
         TouchDown(nr, f) \/ TouchUp(nr, f) \/ TouchCancelAll(nr), UNCHANGED <<wpClient, wpGp, wpAttached, wpReused>>
  PROVE  WpShapes' /\ WpPointers'
<1> USE DEF WpInv
<1>a. /\ wpMap \in [WpPads -> [WpFingers -> -1 .. 1]] /\ wpAvail \in [WpPads -> SUBSET {0, 1}] BY DEF WpShapes
<1>1. ASSUME NEW map \in [WpFingers -> -1 .. 1], NEW avail \in SUBSET {0, 1},
             wpMap' = [wpMap EXCEPT ![nr] = map], wpAvail' = [wpAvail EXCEPT ![nr] = avail],
             nr \notin wpReused => WpApart(map, avail)
      PROVE  WpShapes' /\ WpPointers'
  <2>1. WpShapes' BY <1>1 DEF WpShapes
  <2>2. \A m \in WpPads : wpMap'[m] = (IF m = nr THEN map ELSE wpMap[m]) /\ wpAvail'[m] = (IF m = nr THEN avail ELSE wpAvail[m])
    BY <1>a, <1>1
  <2>3. wpAttached' = wpAttached /\ wpReused' = wpReused /\ wpAttached \subseteq WpPads BY DEF WpShapes
  <2>4. \A m \in wpAttached' \ wpReused' : WpApart(wpMap'[m], wpAvail'[m])
    BY <1>1, <2>2, <2>3 DEF WpPointers
  <2>5. \A m \in WpPads \ (wpAttached' \cup wpReused') : \A g \in WpFingers : wpMap'[m][g] = -1 BY <2>2, <2>3 DEF WpPointers
  <2> QED BY <2>1, <2>4, <2>5 DEF WpPointers, WpApart
<1>2. nr \notin wpReused => WpApart(wpMap[nr], wpAvail[nr]) BY DEF WpPointers
<1>3. wpMap[nr] \in [WpFingers -> -1 .. 1] /\ wpAvail[nr] \in SUBSET {0, 1} BY <1>a
<1>4. CASE TouchDown(nr, f)
  <2>1. wpAvail[nr] # {} BY <1>4 DEF TouchDown
  <2>2. \E i \in wpAvail[nr] : \A j \in wpAvail[nr] : i <= j
    <3>1. CASE 0 \in wpAvail[nr] BY <1>3, <3>1
    <3>2. CASE 0 \notin wpAvail[nr] BY <1>3, <2>1, <3>2
    <3> QED BY <3>1, <3>2
  <2>3. PICK k \in wpAvail[nr] : k = NextIndex(nr) BY <2>2 DEF NextIndex
  <2>4. k \in {0, 1} BY <1>3
  <2>5. PICK map : map = [wpMap[nr] EXCEPT ![f] = k] OBVIOUS
  <2>6. PICK avail : avail = wpAvail[nr] \ {k} OBVIOUS
  <2>7. wpMap' = [wpMap EXCEPT ![nr] = map] BY <1>4, <2>3, <2>5 DEF TouchDown
  <2>8. wpAvail' = [wpAvail EXCEPT ![nr] = avail] BY <1>4, <2>3, <2>6 DEF TouchDown
  <2>9. map \in [WpFingers -> -1 .. 1] /\ avail \in SUBSET {0, 1} BY <1>3, <2>4, <2>5, <2>6
  <2>10. \A g \in WpFingers : map[g] = (IF g = f THEN k ELSE wpMap[nr][g]) BY <1>3, <2>5
  <2>11. WpApart(wpMap[nr], wpAvail[nr]) => WpApart(map, avail)
    <3> SUFFICES ASSUME WpApart(wpMap[nr], wpAvail[nr]) PROVE WpApart(map, avail) OBVIOUS
    <3>1. \A g \in WpFingers : map[g] >= 0 => map[g] \notin avail BY <2>6, <2>10 DEF WpApart
    <3>2. \A g \in WpFingers : wpMap[nr][g] # k BY <2>4 DEF WpApart
    <3>3. \A g, h \in WpFingers : g # h /\ map[g] >= 0 => map[g] # map[h] BY <2>10, <3>2 DEF WpApart
    <3> QED BY <3>1, <3>3 DEF WpApart
  <2> QED BY <1>1, <1>2, <2>7, <2>8, <2>9, <2>11
<1>5. CASE TouchUp(nr, f)
  <2>1. PICK k : k = wpMap[nr][f] OBVIOUS
  <2>2. k \in {0, 1} BY <1>3, <1>5, <2>1 DEF TouchUp
  <2>3. PICK map : map = [wpMap[nr] EXCEPT ![f] = -1] OBVIOUS
  <2>4. PICK avail : avail = wpAvail[nr] \cup {k} OBVIOUS
  <2>5. wpMap' = [wpMap EXCEPT ![nr] = map] BY <1>5, <2>3 DEF TouchUp
  <2>6. wpAvail' = [wpAvail EXCEPT ![nr] = avail] BY <1>5, <2>1, <2>4 DEF TouchUp
  <2>7. map \in [WpFingers -> -1 .. 1] /\ avail \in SUBSET {0, 1} BY <1>3, <2>2, <2>3, <2>4
  <2>8. \A g \in WpFingers : map[g] = (IF g = f THEN -1 ELSE wpMap[nr][g]) BY <1>3, <2>3
  <2>9. WpApart(wpMap[nr], wpAvail[nr]) => WpApart(map, avail)
    <3> SUFFICES ASSUME WpApart(wpMap[nr], wpAvail[nr]) PROVE WpApart(map, avail) OBVIOUS
    <3>1. \A g \in WpFingers : g # f => wpMap[nr][g] # k BY <2>1, <2>2 DEF WpApart
    <3>2. \A g \in WpFingers : map[g] >= 0 => map[g] \notin avail BY <2>4, <2>8, <3>1 DEF WpApart
    <3>3. \A g, h \in WpFingers : g # h /\ map[g] >= 0 => map[g] # map[h] BY <2>8 DEF WpApart
    <3> QED BY <3>2, <3>3 DEF WpApart
  <2> QED BY <1>1, <1>2, <2>5, <2>6, <2>7, <2>9
<1>6. CASE TouchCancelAll(nr)
  <2>1. PICK map : map = [g \in WpFingers |-> -1] OBVIOUS
  <2>2. PICK avail : avail = {0, 1} OBVIOUS
  <2>3. wpMap' = [wpMap EXCEPT ![nr] = map] /\ wpAvail' = [wpAvail EXCEPT ![nr] = avail]
    BY <1>6, <2>1, <2>2 DEF TouchCancelAll
  <2>4. map \in [WpFingers -> -1 .. 1] /\ avail \in SUBSET {0, 1} BY <2>1, <2>2
  <2>5. WpApart(map, avail) BY <2>1 DEF WpApart
  <2> QED BY <1>1, <2>3, <2>4, <2>5
<1> QED BY <1>4, <1>5, <1>6

LEMMA WpInvStep == WpInv /\ [WpNext]_wpVars => WpInv'
<1> SUFFICES ASSUME WpInv, [WpNext]_wpVars PROVE WpInv' OBVIOUS
<1> USE DEF WpInv
<1>1. ASSUME NEW nr \in WpPads, NEW type \in {"x360", "ds4"}, NEW outcome \in {"no_driver", "no_target", "ok"},
             AllocGamepad(nr, type, outcome)
      PROVE  WpInv'
  <2>1. /\ nr \notin wpAttached /\ wpClient' = (wpClient \/ outcome # "no_driver")
        /\ UNCHANGED <<wpTimers, wpMap, wpRumble, wpTasks, wpReused>>
    BY <1>1 DEF AllocGamepad
  <2>2. nr \notin wpTimers BY <2>1 DEF ReportsRepeated
  <2>3. CASE outcome = "no_driver"
    <3>1. UNCHANGED <<wpGp, wpAttached, wpAvail, wpSilent, wpHeard>> BY <1>1, <2>3 DEF AllocGamepad
    <3>2. wpClient' = wpClient BY <2>1, <2>3 DEF WpShapes
    <3>3. WpPointers' BY <2>1, <3>1 DEF WpPointers, WpApart
    <3> QED BY <2>1, <3>1, <3>2, <3>3 DEF WpShapes, ConnectedWhileAttached, ReportsRepeated
  <2>4. CASE outcome = "no_target"
    <3>1. /\ wpGp' = [wpGp EXCEPT ![nr] = type]
          /\ wpAvail' = [wpAvail EXCEPT ![nr] = IF type = "ds4" THEN {0, 1} ELSE wpAvail[nr]]
          /\ UNCHANGED <<wpAttached, wpSilent, wpHeard>>
      BY <1>1, <2>4 DEF AllocGamepad
    <3>2. wpClient' BY <2>1, <2>4
    <3>3. wpClient' \in BOOLEAN BY <2>1
    <3>4. WpShapes' BY <2>1, <3>1, <3>3 DEF WpShapes
    <3>5. \A m \in wpAttached : wpGp'[m] = wpGp[m] /\ wpAvail'[m] = wpAvail[m] BY <2>1, <3>1 DEF WpShapes
    <3>6. ReportsRepeated' BY <2>1, <3>1, <3>5 DEF ReportsRepeated
    <3>7. WpPointers' BY <2>1, <3>1, <3>5 DEF WpPointers, WpApart
    <3> QED BY <3>2, <3>4, <3>6, <3>7 DEF ConnectedWhileAttached
  <2>5. CASE outcome = "ok"
    <3>1. /\ wpGp' = [wpGp EXCEPT ![nr] = type] /\ wpAttached' = wpAttached \cup {nr}
          /\ wpAvail' = [wpAvail EXCEPT ![nr] = IF type = "ds4" THEN {0, 1} ELSE wpAvail[nr]]
          /\ wpSilent' = wpSilent \cup {nr}
      BY <1>1, <2>5 DEF AllocGamepad
    <3>2. wpClient' BY <2>1, <2>5
    <3>3. wpClient' \in BOOLEAN BY <2>1
    <3>4. WpShapes' BY <2>1, <3>1, <3>3 DEF WpShapes
    <3>5. \A m \in wpAttached : wpGp'[m] = wpGp[m] /\ wpAvail'[m] = wpAvail[m] BY <2>1, <3>1 DEF WpShapes
    <3>6. ReportsRepeated' BY <2>1, <2>2, <3>1, <3>5 DEF ReportsRepeated
    <3>7. nr \notin wpReused => WpApart(wpMap[nr], wpAvail'[nr]) BY <2>1 DEF WpPointers, WpApart
    <3>8. \A m \in wpAttached' \ wpReused' : WpApart(wpMap'[m], wpAvail'[m]) BY <2>1, <3>1, <3>5, <3>7 DEF WpPointers
    <3>9. WpPointers' BY <2>1, <3>1, <3>8 DEF WpPointers, WpApart
    <3> QED BY <3>2, <3>4, <3>6, <3>9 DEF ConnectedWhileAttached
  <2> QED BY <2>3, <2>4, <2>5
<1>2. ASSUME NEW nr \in WpPads, FreeTarget(nr) PROVE WpInv'
  <2>1. /\ nr \in wpAttached /\ wpTimers' = wpTimers \ {nr} /\ wpGp' = [wpGp EXCEPT ![nr] = "none"]
        /\ wpAttached' = wpAttached \ {nr} /\ wpClient' = (wpAttached' # {}) /\ wpReused' = wpReused \cup {nr}
        /\ UNCHANGED <<wpSilent, wpMap, wpAvail, wpRumble, wpHeard>>
    BY <1>2 DEF FreeTarget
  <2>2. wpClient' \in BOOLEAN BY <2>1
  <2>3. WpShapes' BY <2>1, <2>2 DEF WpShapes
  <2>4. \A m \in WpPads : m # nr => wpGp'[m] = wpGp[m] BY <2>1 DEF WpShapes
  <2>5. ReportsRepeated' BY <2>1, <2>4 DEF ReportsRepeated, WpShapes
  <2>6. WpPointers' BY <2>1 DEF WpPointers, WpApart
  <2> QED BY <2>1, <2>3, <2>5, <2>6 DEF ConnectedWhileAttached
<1>3. ASSUME NEW nr \in WpPads, NEW ok \in BOOLEAN, GamepadUpdate(nr, ok) \/ SensorUpdate(nr, ok) \/ Repeat(nr, ok)
      PROVE  WpInv'
  <2>1. UNCHANGED <<wpClient, wpGp, wpAttached, wpMap, wpAvail, wpReused>> BY <1>3 DEF GamepadUpdate, SensorUpdate, Repeat
  <2>2. WpShapes' /\ WpPointers' BY <2>1 DEF WpShapes, WpPointers, WpApart
  <2>3. \/ nr \in wpAttached /\ wpGp[nr] = "ds4" /\ SendReport(nr, ok)
        \/ UNCHANGED <<wpTimers, wpSilent>>
    BY <1>3 DEF GamepadUpdate, SensorUpdate, Repeat, ReportsRepeated
  <2>4. ConnectedWhileAttached' /\ ReportsRepeated'
    <3>1. CASE nr \in wpAttached /\ wpGp[nr] = "ds4" /\ SendReport(nr, ok) BY <2>1, <3>1, WpReports
    <3>2. CASE UNCHANGED <<wpTimers, wpSilent>> BY <2>1, <3>2 DEF ConnectedWhileAttached, ReportsRepeated
    <3> QED BY <2>3, <3>1, <3>2
  <2> QED BY <2>2, <2>4
<1>4. ASSUME NEW nr \in WpPads, NEW ok \in BOOLEAN, NEW f \in WpFingers, GamepadTouch(nr, f, ok) PROVE WpInv'
  <2>1. /\ nr \in wpAttached /\ wpGp[nr] = "ds4" /\ SendReport(nr, ok)
        /\ UNCHANGED <<wpClient, wpGp, wpAttached, wpReused>>
    BY <1>4 DEF GamepadTouch
  <2>2. TouchDown(nr, f) \/ TouchUp(nr, f) \/ TouchCancelAll(nr) BY <1>4 DEF GamepadTouch
  <2>3. WpShapes' /\ WpPointers' BY <2>1, <2>2, WpTouchpad
  <2>4. ConnectedWhileAttached' /\ ReportsRepeated' BY <2>1, WpReports
  <2> QED BY <2>3, <2>4
<1>5. ASSUME UNCHANGED <<wpClient, wpGp, wpAttached, wpTimers, wpSilent, wpMap, wpAvail, wpReused>> PROVE WpInv'
  BY <1>5 DEF WpShapes, WpPointers, WpApart, ConnectedWhileAttached, ReportsRepeated
<1>6. ASSUME NEW nr \in WpPads, NEW motor \in WpMotors, Notify(nr, motor) \/ Rumble(nr, motor) PROVE WpInv'
  BY <1>5, <1>6 DEF Notify, Rumble
<1>7. CASE UNCHANGED wpVars BY <1>5, <1>7 DEF wpVars
<1> QED BY <1>1, <1>2, <1>3, <1>4, <1>6, <1>7 DEF WpNext
LEMMA LeastNumber ==
  ASSUME NEW T, T \subseteq Nat, T # {}
  PROVE  \E n \in T : \A m \in T : n <= m
<1> DEFINE R == OpToRel(<, Nat)
<1>1. IsWellFoundedOn(R, Nat) BY NatLessThanWellFounded
<1>2. \A a, b \in Nat : a < b => <<a, b>> \in R BY DEF OpToRel
<1> HIDE DEF R
<1>3. PICK n \in T : \A m \in T : ~(<<m, n>> \in R) BY <1>1, WFMin
<1>4. ASSUME NEW m \in T PROVE n <= m
  <2>1. n \in Nat /\ m \in Nat /\ ~(<<m, n>> \in R) BY <1>3
  <2>2. ~(m < n) BY <2>1, <1>2
  <2> QED BY <2>1, <2>2
<1> QED BY <1>4

\* Induction over the numbers up to n.
LEMMA UpTo ==
  ASSUME NEW n \in Nat, NEW Q, 0 \in Q, \A k \in 1 .. n : k - 1 \in Q => k \in Q
  PROVE  \A k \in 0 .. n : k \in Q
<1> DEFINE T == {k \in 0 .. n : k \notin Q}
<1>1. SUFFICES ASSUME T # {} PROVE FALSE OBVIOUS
<1>2. PICK k \in T : \A i \in T : k <= i
  <2>1. T \subseteq Nat OBVIOUS
  <2> HIDE DEF T
  <2> QED BY <1>1, <2>1, LeastNumber
<1>3. k \in 0 .. n /\ k \notin Q BY <1>2
<1>4. k # 0 BY <1>3
<1>5. k \in 1 .. n /\ k - 1 \in 0 .. n BY <1>3, <1>4
<1>6. k - 1 \notin T
  <2>1. ~(k <= k - 1) BY <1>5
  <2> HIDE DEF T
  <2> QED BY <1>2, <2>1
<1>7. k - 1 \in Q BY <1>5, <1>6
<1> QED BY <1>3, <1>5, <1>7

\* A loop of n steps over values of S has a result.
StepsOf(S, n) == [S \X (1 .. n) -> S]
LoopOf(f, n, a, step) == f[0] = a /\ \A k \in 1 .. n : f[k] = step[<<f[k - 1], k>>]

LEMMA Loops ==
  ASSUME NEW n \in Nat, NEW S, NEW a \in S, NEW step \in StepsOf(S, n)
  PROVE  \E f \in [0 .. n -> S] : LoopOf(f, n, a, step)
<1>0. step \in [S \X (1 .. n) -> S] BY DEF StepsOf
<1> DEFINE Does(f, m) == f[0] = a /\ \A k \in 1 .. m : f[k] = step[<<f[k - 1], k>>]
           Q == {m \in 0 .. n : \E f \in [0 .. m -> S] : Does(f, m)}
<1>1. 0 \in Q
  <2> DEFINE f == [k \in 0 .. 0 |-> a]
  <2>1. f \in [0 .. 0 -> S] /\ f[0] = a /\ 1 .. 0 = {} OBVIOUS
  <2> HIDE DEF f
  <2>2. Does(f, 0) BY <2>1
  <2> QED BY <2>1, <2>2
<1>2. ASSUME NEW m \in 1 .. n, m - 1 \in Q PROVE m \in Q
  <2>1. PICK f \in [0 .. (m - 1) -> S] : Does(f, m - 1) BY <1>2
  <2> DEFINE g == [k \in 0 .. m |-> IF k = m THEN step[<<f[m - 1], m>>] ELSE f[k]]
  <2>2. f[m - 1] \in S BY <2>1
  <2>3. step[<<f[m - 1], m>>] \in S BY <2>2, <1>0
  <2>4. g \in [0 .. m -> S]
    <3>1. \A k \in 0 .. m : k # m => k \in 0 .. (m - 1) OBVIOUS
    <3> QED BY <2>1, <2>3, <3>1
  <2>5. g[0] = a BY <2>1
  <2>6. \A k \in 1 .. m : g[k] = step[<<g[k - 1], k>>]
    <3> SUFFICES ASSUME NEW k \in 1 .. m PROVE g[k] = step[<<g[k - 1], k>>]
      OBVIOUS
    <3>1. k - 1 \in 0 .. m /\ k - 1 # m /\ g[k - 1] = f[k - 1] OBVIOUS
    <3>2. CASE k = m BY <3>1, <3>2
    <3>3. CASE k # m
      <4>1. k \in 1 .. (m - 1) /\ g[k] = f[k] BY <3>3
      <4> QED BY <2>1, <3>1, <4>1
    <3> QED BY <3>2, <3>3
  <2> HIDE DEF g
  <2> QED BY <2>4, <2>5, <2>6
<1> HIDE DEF Q
<1>3. \A k \in 0 .. n : k \in Q BY <1>1, <1>2, UpTo
<1>4. n \in Q BY <1>3
<1> QED BY <1>4 DEF Q, LoopOf

-----------------------------------------------------------------------------
(* The input queue (InputQueue) *)

\* A message somebody sent, with its number and any amount.
IqMsg ==
  {[kind |-> m.kind, dev |-> m.dev, event |-> m.event, x |-> x, n |-> n] : m \in IqMessages, x \in Int, n \in Nat}

IqScan == {[msg |-> a, kept |-> k, open |-> o] : a \in IqMsg, k \in Seq(IqMsg), o \in BOOLEAN}

Like(a, b) == SameDevice(a, b) /\ Says(a) = Says(b)

LEMMA IqMsgParts ==
  ASSUME NEW a \in IqMsg
  PROVE  /\ \E m \in IqMessages : a.kind = m.kind /\ a.dev = m.dev /\ a.event = m.event
         /\ a.x \in Int /\ a.n \in Nat
         /\ a = [kind |-> a.kind, dev |-> a.dev, event |-> a.event, x |-> a.x, n |-> a.n]
<1>1. PICK m \in IqMessages, x \in Int, n \in Nat :
        a = [kind |-> m.kind, dev |-> m.dev, event |-> m.event, x |-> x, n |-> n]
  BY DEF IqMsg
<1> QED BY <1>1

LEMMA WrapIsInt == ASSUME NEW x \in Int PROVE Wrap(x) \in Int
<1>1. IqShort \in Nat \ {0} BY IqAssumption
<1>2. (x + IqShort) % (2 * IqShort) \in Int BY <1>1
<1> QED BY <1>1, <1>2 DEF Wrap

LEMMA MergedMade ==
  ASSUME NEW a \in IqMsg, NEW b \in IqMsg
  PROVE  Merged(a, b) \in IqMsg /\ (SameDevice(a, b) => Like(Merged(a, b), b)) /\ Merged(a, b).n = b.n
<1> DEFINE y == IF a.kind \in Sums THEN Wrap(a.x + b.x) ELSE b.x
<1>1. PICK m \in IqMessages, x \in Int, n \in Nat :
        b = [kind |-> m.kind, dev |-> m.dev, event |-> m.event, x |-> x, n |-> n]
  BY DEF IqMsg
<1>2. Merged(a, b) = [b EXCEPT !.x = y] BY DEF Merged
<1>3. y \in Int
  <2>1. a.x \in Int /\ b.x \in Int BY IqMsgParts
  <2>2. a.x + b.x \in Int BY <2>1
  <2>3. Wrap(a.x + b.x) \in Int BY <2>2, WrapIsInt
  <2> QED BY <2>1, <2>3
<1>3a. SameDevice(a, b) /\ b.kind = "pad" => y = b.x BY DEF Sums, SameDevice
<1> HIDE DEF y
<1>4. Merged(a, b) = [kind |-> m.kind, dev |-> m.dev, event |-> m.event, x |-> y, n |-> n] BY <1>1, <1>2
<1>5. Merged(a, b) \in IqMsg BY <1>3, <1>4 DEF IqMsg
<1>6. b.kind = m.kind /\ b.dev = m.dev /\ b.event = m.event /\ b.x = x BY <1>1
<1>7. /\ Merged(a, b).kind = m.kind /\ Merged(a, b).dev = m.dev
      /\ Merged(a, b).event = m.event /\ Merged(a, b).x = y /\ Merged(a, b).n = n
  BY <1>4
<1>8. SameDevice(a, b) => Says(Merged(a, b)) = Says(b) BY <1>3a, <1>6, <1>7 DEF Says
<1>9. SameDevice(Merged(a, b), b) BY <1>6, <1>7 DEF SameDevice
<1>10. b.n = n BY <1>1
<1> QED BY <1>5, <1>7, <1>8, <1>9, <1>10 DEF Like

\* Only messages for the same device that say the same are merged, none that
\* stands alone, and those passed over are for another device.
LEMMA BatchMeans ==
  ASSUME NEW a \in IqMsg, NEW b \in IqMsg
  PROVE  /\ Batch(a, b) = "batched" => Like(a, b) /\ ~Alone(b)
         /\ Batch(a, b) \in {"batched", "terminate"} \/ ~SameDevice(a, b)
<1>1. PICK m \in IqMessages : a.kind = m.kind /\ a.dev = m.dev /\ a.event = m.event BY IqMsgParts
<1>2. PICK o \in IqMessages : b.kind = o.kind /\ b.dev = o.dev /\ b.event = o.event BY IqMsgParts
<1>3. b.kind \in Sums \cup {"abs", "motion", "pad"} => b.event \notin Contacts BY <1>2, IqAssumption
<1>4. a.kind = b.kind => /\ a.kind \in Sums \cup {"pen"} => a.dev = b.dev
                         /\ a.kind \in Sums \cup {"abs", "motion"} => a.event = b.event
  BY <1>1, <1>2, IqAssumption
<1>5. CASE a.kind # b.kind BY <1>5 DEF Batch, SameDevice
<1>6. CASE a.kind = b.kind /\ a.kind \in Sums
  <2>1. Batch(a, b) = BatchAmount(a, b) BY <1>6 DEF Batch, Sums
  <2>2. BatchAmount(a, b) \in {"batched", "terminate"} BY DEF BatchAmount
  <2>3. Like(a, b) BY <1>4, <1>6 DEF Like, SameDevice, Says, Sums
  <2>4. ~Alone(b) BY <1>3, <1>6 DEF Alone, Sums
  <2> QED BY <2>1, <2>2, <2>3, <2>4
<1>7. CASE a.kind = b.kind /\ a.kind = "abs"
  <2>1. Batch(a, b) = BatchAbsolute(a, b) BY <1>7 DEF Batch, Sums
  <2> QED BY <2>1, <1>3, <1>4, <1>7 DEF BatchAbsolute, Like, SameDevice, Says, Alone
<1>8. CASE a.kind = b.kind /\ a.kind = "pad"
  <2>1. Batch(a, b) = BatchController(a, b) BY <1>8 DEF Batch, Sums
  <2> QED BY <2>1, <1>3, <1>4, <1>8 DEF BatchController, Like, SameDevice, Says, Alone
<1>9. CASE a.kind = b.kind /\ a.kind = "touch"
  <2>1. Batch(a, b) = BatchTouch(a, b) BY <1>9 DEF Batch, Sums
  <2> QED BY <2>1, <1>9 DEF BatchTouch, Like, SameDevice, Says, Alone, Moves, Contacts
<1>10. CASE a.kind = b.kind /\ a.kind = "pen"
  <2>1. Batch(a, b) = BatchPen(a, b) BY <1>10 DEF Batch, Sums
  <2> QED BY <2>1, <1>4, <1>10 DEF BatchPen, Like, SameDevice, Says, Alone, Moves, Contacts
<1>11. CASE a.kind = b.kind /\ a.kind = "padtouch"
  <2>1. Batch(a, b) = BatchControllerTouch(a, b) BY <1>11 DEF Batch, Sums
  <2> QED BY <2>1, <1>11 DEF BatchControllerTouch, Like, SameDevice, Says, Alone, Moves, Contacts
<1>12. CASE a.kind = b.kind /\ a.kind = "motion"
  <2>1. Batch(a, b) = BatchMotion(a, b) BY <1>12 DEF Batch, Sums
  <2> QED BY <2>1, <1>3, <1>4, <1>12 DEF BatchMotion, Like, SameDevice, Says, Alone
<1>13. CASE a.kind \notin Sums \cup {"abs", "pad", "touch", "pen", "padtouch", "motion"}
  <2>1. Batch(a, b) = "terminate" BY <1>13 DEF Batch
  <2> QED BY <2>1
<1> QED BY <1>5, <1>6, <1>7, <1>8, <1>9, <1>10, <1>11, <1>12, <1>13

\* What a step of the scan does with the next message of the queue.
PassesOver(acc, m, r) ==
  r.msg = acc.msg /\ r.kept = Append(acc.kept, m) /\ (r.open => acc.open /\ ~SameDevice(acc.msg, m))
MergesIn(acc, m, r) ==
  /\ acc.open /\ r.open /\ r.kept = acc.kept /\ r.msg = Merged(acc.msg, m)
  /\ Like(acc.msg, m) /\ ~Alone(m)

LEMMA ScanToDoes ==
  ASSUME NEW acc \in IqScan, NEW m \in IqMsg
  PROVE  ScanTo(acc, m) \in IqScan /\ (PassesOver(acc, m, ScanTo(acc, m)) \/ MergesIn(acc, m, ScanTo(acc, m)))
<1> DEFINE r == ScanTo(acc, m)
           d == Batch(acc.msg, m)
           t == Merged(acc.msg, m)
<1>1. PICK a \in IqMsg, k \in Seq(IqMsg), o \in BOOLEAN : acc = [msg |-> a, kept |-> k, open |-> o] BY DEF IqScan
<1>2. acc.msg = a /\ acc.kept = k /\ acc.open = o BY <1>1
<1>3. t \in IqMsg BY <1>2, MergedMade
<1>4. d = "batched" => Like(a, m) /\ ~Alone(m) BY <1>2, BatchMeans
<1>5. d \in {"batched", "terminate"} \/ ~SameDevice(a, m) BY <1>2, BatchMeans
<1>6. r = CASE ~acc.open \/ d = "terminate" -> [acc EXCEPT !.kept = Append(@, m), !.open = FALSE]
            [] acc.open /\ d = "batched" -> [acc EXCEPT !.msg = t]
            [] OTHER -> [acc EXCEPT !.kept = Append(@, m)]
  BY Zenon DEF ScanTo
<1>7. PICK l \in Seq(IqMsg) : l = Append(k, m)
  <2>1. Append(k, m) \in Seq(IqMsg) BY AppendProperties
  <2> QED BY <2>1
<1> HIDE DEF d, t, r
<1>8. CASE ~o \/ d = "terminate"
  <2>1. r = [acc EXCEPT !.kept = Append(@, m), !.open = FALSE] BY <1>2, <1>6, <1>8
  <2>2. r = [msg |-> a, kept |-> l, open |-> FALSE] BY <1>1, <1>7, <2>1
  <2>3. PICK c \in BOOLEAN : r = [msg |-> a, kept |-> l, open |-> c] BY <2>2
  <2>5. r \in IqScan BY <2>3 DEF IqScan
  <2>4. r.msg = a /\ r.kept = Append(k, m) /\ ~r.open BY <2>2, <1>7
  <2> QED BY <2>5, <2>4, <1>2 DEF PassesOver, r
<1>9. CASE o /\ d = "batched"
  <2>1. r = [acc EXCEPT !.msg = t] BY <1>2, <1>6, <1>9
  <2>2. r = [msg |-> t, kept |-> k, open |-> o] BY <1>1, <2>1
  <2>3. r \in IqScan BY <1>3, <2>2 DEF IqScan
  <2>4. r.msg = t /\ r.kept = k /\ r.open = o BY <2>2
  <2> QED BY <2>3, <2>4, <1>2, <1>4, <1>9 DEF MergesIn, r, t
<1>10. CASE o /\ d \notin {"batched", "terminate"}
  <2>1. r = [acc EXCEPT !.kept = Append(@, m)] BY <1>2, <1>6, <1>10
  <2>2. r = [msg |-> a, kept |-> l, open |-> o] BY <1>1, <1>7, <2>1
  <2>3. r \in IqScan BY <2>2 DEF IqScan
  <2>4. r.msg = a /\ r.kept = Append(k, m) /\ r.open = o BY <2>2, <1>7
  <2> QED BY <2>3, <2>4, <1>2, <1>5, <1>10 DEF PassesOver, r
<1> QED BY <1>8, <1>9, <1>10

\* Messages in the order they were queued in.
Ordered(q) == q \in Seq(IqMsg) /\ \A i, j \in 1 .. Len(q) : i < j => q[i].n < q[j].n

\* A message says all that another says.
Takes(a, b) == Like(b, a) /\ b.n <= a.n /\ (Alone(b) => b.n = a.n)

Kept(k, b) == \E j \in 1 .. Len(k) : k[j] = b

\* The scan of the first n messages of the queue: those kept are in order, and
\* those for the same device come later; the others are taken care of.
ScanOK(acc, q, n) ==
  /\ acc \in IqScan /\ Ordered(acc.kept) /\ Len(acc.kept) < n
  /\ \A j \in 1 .. Len(acc.kept) : \E i \in 1 .. n : acc.kept[j] = q[i]
  /\ \E i \in 1 .. n : acc.msg.n = q[i].n /\ Like(acc.msg, q[i])
  /\ \A j \in 1 .. Len(acc.kept) : SameDevice(acc.kept[j], acc.msg) => acc.msg.n < acc.kept[j].n /\ ~acc.open
  /\ \A i \in 1 .. n : Takes(acc.msg, q[i]) \/ Kept(acc.kept, q[i])

LEMMA IqScanParts == ASSUME NEW acc \in IqScan PROVE acc.msg \in IqMsg /\ acc.kept \in Seq(IqMsg) /\ acc.open \in BOOLEAN
<1>1. PICK a \in IqMsg, k \in Seq(IqMsg), o \in BOOLEAN : acc = [msg |-> a, kept |-> k, open |-> o] BY DEF IqScan
<1> QED BY <1>1

LEMMA AppendedAt ==
  ASSUME NEW S, NEW s \in Seq(S), NEW e \in S
  PROVE  /\ Append(s, e) \in Seq(S) /\ Len(Append(s, e)) = Len(s) + 1 /\ Len(s) \in Nat
         /\ \A j \in 1 .. Len(s) : j \in 1 .. (Len(s) + 1) /\ Append(s, e)[j] = s[j]
         /\ Append(s, e)[Len(s) + 1] = e
         /\ \A j \in 1 .. (Len(s) + 1) : j \in 1 .. Len(s) \/ j = Len(s) + 1
BY AppendProperties

LEMMA LikeIsEquivalence ==
  /\ \A a, b : Like(a, b) => Like(b, a)
  /\ \A a, b, c : Like(a, b) /\ Like(b, c) => Like(a, c)
  /\ \A a, b, c : Like(a, b) => (SameDevice(c, a) <=> SameDevice(c, b)) /\ (Alone(a) <=> Alone(b))
BY DEF Like, SameDevice, Alone, Says

LEMMA NumbersOf ==
  ASSUME NEW q, Ordered(q)
  PROVE  Len(q) \in Nat /\ \A i \in 1 .. Len(q) : q[i] \in IqMsg /\ q[i].n \in Nat
<1>1. q \in Seq(IqMsg) BY DEF Ordered
<1>2. Len(q) \in Nat /\ \A i \in 1 .. Len(q) : q[i] \in IqMsg BY <1>1
<1> QED BY <1>2, IqMsgParts

LEMMA ScanPassesOver ==
  ASSUME NEW q, Ordered(q), NEW n \in Nat, n + 1 \in 1 .. Len(q), NEW acc, ScanOK(acc, q, n),
         NEW r \in IqScan, PassesOver(acc, q[n + 1], r)
  PROVE  ScanOK(r, q, n + 1)
<1> DEFINE m == q[n + 1]
           k == acc.kept
           N == Len(acc.kept)
<1>1. acc \in IqScan /\ Ordered(k) /\ N < n BY DEF ScanOK
<1>2. acc.msg \in IqMsg /\ k \in Seq(IqMsg) /\ acc.open \in BOOLEAN BY <1>1, IqScanParts
<1>3. m \in IqMsg /\ m.n \in Nat /\ Len(q) \in Nat BY NumbersOf
<1>4. r.msg = acc.msg /\ r.kept = Append(k, m) /\ (r.open => acc.open /\ ~SameDevice(acc.msg, m)) BY DEF PassesOver
<1>5. \A i \in 1 .. n : i \in 1 .. Len(q) /\ i \in 1 .. (n + 1) /\ i < n + 1 BY <1>3
<1>6. \A i \in 1 .. n : q[i].n < m.n /\ q[i].n \in Nat /\ q[i] \in IqMsg BY <1>5, NumbersOf DEF Ordered
<1>7. /\ N \in Nat /\ Len(r.kept) = N + 1 /\ r.kept \in Seq(IqMsg)
      /\ \A j \in 1 .. N : j \in 1 .. (N + 1) /\ r.kept[j] = k[j]
      /\ r.kept[N + 1] = m
      /\ \A j \in 1 .. (N + 1) : j \in 1 .. N \/ j = N + 1
  BY <1>2, <1>3, <1>4, AppendedAt
<1> HIDE DEF m, k, N
<1>8. \A j \in 1 .. N : \E i \in 1 .. n : k[j] = q[i] BY DEF ScanOK, k, N
<1>9. acc.msg.n < m.n
  <2>1. PICK i \in 1 .. n : acc.msg.n = q[i].n BY DEF ScanOK
  <2> QED BY <2>1, <1>6
<1>10. Ordered(r.kept)
  <2> SUFFICES ASSUME NEW i \in 1 .. (N + 1), NEW j \in 1 .. (N + 1), i < j PROVE r.kept[i].n < r.kept[j].n
    BY <1>7 DEF Ordered
  <2>1. i \in 1 .. N BY <1>7
  <2>2. CASE j \in 1 .. N
    <3>1. k[i].n < k[j].n BY <1>1, <2>1, <2>2 DEF Ordered, N, k
    <3> QED BY <3>1, <1>7, <2>1, <2>2
  <2>3. CASE j = N + 1
    <3>1. PICK p \in 1 .. n : k[i] = q[p] BY <1>8, <2>1
    <3>2. r.kept[i] = k[i] /\ r.kept[j] = m BY <1>7, <2>1, <2>3
    <3> QED BY <3>1, <3>2, <1>6
  <2> QED BY <1>7, <2>2, <2>3
<1>11. \A j \in 1 .. (N + 1) : \E i \in 1 .. (n + 1) : r.kept[j] = q[i]
  <2> SUFFICES ASSUME NEW j \in 1 .. (N + 1) PROVE \E i \in 1 .. (n + 1) : r.kept[j] = q[i]
    OBVIOUS
  <2>1. CASE j \in 1 .. N BY <2>1, <1>5, <1>7, <1>8
  <2>2. CASE j = N + 1
    <3>1. n + 1 \in 1 .. (n + 1) OBVIOUS
    <3> QED BY <2>2, <3>1, <1>7 DEF m
  <2> QED BY <1>7, <2>1, <2>2
<1>12. \E i \in 1 .. (n + 1) : r.msg.n = q[i].n /\ Like(r.msg, q[i])
  <2>1. PICK i \in 1 .. n : acc.msg.n = q[i].n /\ Like(acc.msg, q[i]) BY DEF ScanOK
  <2> QED BY <2>1, <1>4, <1>5
<1>13. \A j \in 1 .. (N + 1) : SameDevice(r.kept[j], r.msg) => r.msg.n < r.kept[j].n /\ ~r.open
  <2> SUFFICES ASSUME NEW j \in 1 .. (N + 1), SameDevice(r.kept[j], r.msg) PROVE r.msg.n < r.kept[j].n /\ ~r.open
    OBVIOUS
  <2>1. CASE j \in 1 .. N
    <3>1. SameDevice(k[j], acc.msg) => acc.msg.n < k[j].n /\ ~acc.open BY <2>1 DEF ScanOK, k, N
    <3> QED BY <3>1, <2>1, <1>4, <1>7
  <2>2. CASE j = N + 1
    <3>1. SameDevice(acc.msg, m) BY <2>2, <1>4, <1>7 DEF SameDevice
    <3> QED BY <3>1, <2>2, <1>4, <1>7, <1>9
  <2> QED BY <1>7, <2>1, <2>2
<1>14. \A i \in 1 .. (n + 1) : Takes(r.msg, q[i]) \/ Kept(r.kept, q[i])
  <2> SUFFICES ASSUME NEW i \in 1 .. (n + 1) PROVE Takes(r.msg, q[i]) \/ Kept(r.kept, q[i])
    OBVIOUS
  <2>1. CASE i \in 1 .. n
    <3>1. CASE Takes(acc.msg, q[i]) BY <3>1, <1>4
    <3>2. CASE Kept(k, q[i])
      <4>1. PICK j \in 1 .. N : k[j] = q[i] BY <3>2 DEF Kept, N, k
      <4>2. j \in 1 .. Len(r.kept) /\ r.kept[j] = q[i] BY <4>1, <1>7
      <4> QED BY <4>2 DEF Kept
    <3> QED BY <3>1, <3>2, <2>1 DEF ScanOK, k
  <2>2. CASE i = n + 1
    <3>1. N + 1 \in 1 .. Len(r.kept) /\ r.kept[N + 1] = q[i] BY <2>2, <1>7 DEF m
    <3> QED BY <3>1 DEF Kept
  <2> QED BY <2>1, <2>2
<1>15. Len(r.kept) < n + 1 BY <1>1, <1>7
<1> QED BY <1>7, <1>10, <1>11, <1>12, <1>13, <1>14, <1>15 DEF ScanOK

LEMMA ScanMergesIn ==
  ASSUME NEW q, Ordered(q), NEW n \in Nat, n + 1 \in 1 .. Len(q), NEW acc, ScanOK(acc, q, n),
         NEW r \in IqScan, MergesIn(acc, q[n + 1], r)
  PROVE  ScanOK(r, q, n + 1)
<1> DEFINE m == q[n + 1]
           k == acc.kept
           N == Len(acc.kept)
<1>1. acc \in IqScan /\ Ordered(k) /\ N < n /\ N \in Nat BY NumbersOf DEF ScanOK
<1>2. acc.msg \in IqMsg BY <1>1, IqScanParts
<1>3. m \in IqMsg /\ m.n \in Nat /\ Len(q) \in Nat BY NumbersOf
<1>4. acc.open /\ r.open /\ r.kept = k /\ r.msg = Merged(acc.msg, m) /\ Like(acc.msg, m) /\ ~Alone(m) BY DEF MergesIn
<1>5. \A i \in 1 .. n : i \in 1 .. Len(q) /\ i \in 1 .. (n + 1) /\ i < n + 1 BY <1>3
<1>6. \A i \in 1 .. n : q[i].n < m.n /\ q[i].n \in Nat BY <1>5, NumbersOf DEF Ordered
<1>7. Like(r.msg, m) /\ r.msg.n = m.n BY <1>2, <1>3, <1>4, MergedMade DEF Like
<1>8. n + 1 \in 1 .. (n + 1) OBVIOUS
<1>9. \E i \in 1 .. (n + 1) : r.msg.n = q[i].n /\ Like(r.msg, q[i]) BY <1>7, <1>8
<1> HIDE DEF m, k, N
<1>10. Like(acc.msg, r.msg) BY <1>4, <1>7, LikeIsEquivalence
<1>11. \A j \in 1 .. N : ~SameDevice(k[j], r.msg)
  <2> SUFFICES ASSUME NEW j \in 1 .. N PROVE ~SameDevice(k[j], r.msg)
    OBVIOUS
  <2>1. ~SameDevice(k[j], acc.msg) BY <1>4 DEF ScanOK, N, k
  <2> QED BY <2>1, <1>10, LikeIsEquivalence
<1>12. \A i \in 1 .. (n + 1) : Takes(r.msg, q[i]) \/ Kept(r.kept, q[i])
  <2> SUFFICES ASSUME NEW i \in 1 .. (n + 1) PROVE Takes(r.msg, q[i]) \/ Kept(r.kept, q[i])
    OBVIOUS
  <2>1. CASE i \in 1 .. n
    <3>1. CASE Kept(k, q[i]) BY <3>1, <1>4
    <3>2. CASE Takes(acc.msg, q[i])
      <4>1. Like(q[i], acc.msg) BY <3>2 DEF Takes
      <4>2. Like(q[i], r.msg) BY <4>1, <1>10, LikeIsEquivalence
      <4>3. ~Alone(q[i]) BY <4>2, <1>4, <1>7, LikeIsEquivalence
      <4>4. q[i].n <= r.msg.n BY <2>1, <1>3, <1>6, <1>7
      <4> QED BY <4>2, <4>3, <4>4 DEF Takes
    <3> QED BY <3>1, <3>2, <2>1 DEF ScanOK, k
  <2>2. CASE i = n + 1
    <3>1. q[i] = m BY <2>2 DEF m
    <3>2. Like(m, r.msg) BY <1>7, LikeIsEquivalence
    <3>3. m.n <= r.msg.n BY <1>3, <1>7
    <3> QED BY <3>1, <3>2, <3>3, <1>4 DEF Takes
  <2> QED BY <2>1, <2>2
<1>13. \A j \in 1 .. N : \E i \in 1 .. (n + 1) : k[j] = q[i]
  <2>1. \A j \in 1 .. N : \E i \in 1 .. n : k[j] = q[i] BY DEF ScanOK, k, N
  <2> QED BY <2>1, <1>5
<1>14. N < n + 1 BY <1>1
<1>15. r.kept = k /\ Len(r.kept) = N BY <1>4 DEF N, k
<1> QED BY <1>1, <1>9, <1>11, <1>12, <1>13, <1>14, <1>15 DEF ScanOK

\* What the whole queue makes of its first message.
LEMMA ScannedOK ==
  ASSUME NEW q, Ordered(q), q # << >>
  PROVE  ScanOK(Scanned(Head(q), Tail(q)), q, Len(q))
<1> DEFINE N == Len(q) - 1
           rest == Tail(q)
           first == [msg |-> Head(q), kept |-> << >>, open |-> TRUE]
           P(f) == f = [n \in 0 .. N |-> IF n = 0 THEN first ELSE ScanTo(f[n - 1], rest[n])]
           step == [x \in IqScan \X (1 .. N) |-> ScanTo(x[1], rest[x[2]])]
           scan == CHOOSE f : P(f)
<1>1. q \in Seq(IqMsg) BY DEF Ordered
<1>2. /\ Len(q) \in Nat /\ N \in Nat /\ N + 1 = Len(q) /\ rest \in Seq(IqMsg) /\ Len(rest) = N
      /\ Head(q) = q[1] /\ q[1] \in IqMsg
      /\ \A k \in 1 .. N : rest[k] = q[k + 1] /\ rest[k] \in IqMsg /\ k + 1 \in 1 .. Len(q)
  BY <1>1, HeadTailProperties
<1>3. /\ \A n \in 0 .. N : n = 0 \/ n \in 1 .. N
      /\ \A n \in 1 .. N : n \in 0 .. N /\ n - 1 \in 0 .. N /\ n # 0
      /\ 0 \in 0 .. N
  BY <1>2
<1>4. Scanned(Head(q), Tail(q)) = scan[N]
  <2>1. Scanned(Head(q), rest) = LET s == CHOOSE f : f = [n \in 0 .. Len(rest) |-> IF n = 0 THEN first ELSE ScanTo(f[n - 1], rest[n])]
                                 IN  s[Len(rest)]
    BY Zenon DEF Scanned
  <2>2. Len(rest) = N BY <1>2
  <2> QED BY Zenon, <2>1, <2>2
<1> HIDE DEF N, rest
<1>5. first \in IqScan
  <2>1. << >> \in Seq(IqMsg) OBVIOUS
  <2>2. PICK e \in Seq(IqMsg) : e = << >> BY <2>1
  <2>3. PICK a \in IqMsg : a = Head(q) BY <1>2
  <2>4. first = [msg |-> a, kept |-> e, open |-> TRUE] BY <2>2, <2>3
  <2>5. PICK o \in BOOLEAN : first = [msg |-> a, kept |-> e, open |-> o] BY <2>4
  <2> QED BY <2>5 DEF IqScan
<1> HIDE DEF first
<1>6. \A acc \in IqScan, k \in 1 .. N : ScanTo(acc, rest[k]) \in IqScan BY <1>2, ScanToDoes
<1>7. \E f : P(f)
  <2>1. step \in StepsOf(IqScan, N)
    <3>1. \A x \in IqScan \X (1 .. N) : x[1] \in IqScan /\ x[2] \in 1 .. N OBVIOUS
    <3>2. \A x \in IqScan \X (1 .. N) : ScanTo(x[1], rest[x[2]]) \in IqScan BY <1>6, <3>1
    <3> QED BY <3>2 DEF StepsOf
  <2>2. \A s \in IqScan, k \in 1 .. N : step[<<s, k>>] = ScanTo(s, rest[k]) OBVIOUS
  <2> HIDE DEF step
  <2>3. PICK f \in [0 .. N -> IqScan] : LoopOf(f, N, first, step) BY <1>2, <1>5, <2>1, Loops
  <2>4. f[0] = first /\ \A k \in 1 .. N : f[k] = step[<<f[k - 1], k>>] BY <2>3 DEF LoopOf
  <2>5. \A k \in 1 .. N : f[k] = ScanTo(f[k - 1], rest[k]) BY <1>3, <2>2, <2>3, <2>4
  <2>6. f = [n \in 0 .. N |-> f[n]] BY <2>3
  <2>7. P(f) BY <1>3, <2>4, <2>5, <2>6
  <2> QED BY <2>7
<1>8. P(scan) BY <1>7, Zenon
<1> HIDE DEF scan
<1>9. scan[0] = first /\ \A n \in 1 .. N : scan[n] = ScanTo(scan[n - 1], rest[n]) BY <1>3, <1>8
<1> DEFINE Q == {n \in 0 .. N : ScanOK(scan[n], q, n + 1)}
<1>10. 0 \in Q
  <2> DEFINE none == first.kept
  <2>1. first.msg = q[1] /\ none = << >> BY <1>2 DEF first
  <2>2. Ordered(none) /\ Len(none) = 0
    <3>1. Ordered(<< >>) BY DEF Ordered
    <3> QED BY <2>1, <3>1
  <2> HIDE DEF none
  <2>3. 1 .. Len(none) = {} /\ 1 .. 1 = {1} BY <2>2
  <2>4. Like(q[1], q[1]) /\ Takes(q[1], q[1])
    <3>1. Like(q[1], q[1]) BY DEF Like, SameDevice
    <3>2. q[1].n \in Nat BY <1>2, IqMsgParts
    <3> QED BY <3>1, <3>2 DEF Takes
  <2>5. ScanOK(first, q, 1) BY <1>5, <2>1, <2>2, <2>3, <2>4 DEF ScanOK, none
  <2>6. ScanOK(scan[0], q, 0 + 1) BY <1>9, <2>5
  <2> QED BY <2>6, <1>3
<1>11. ASSUME NEW n \in 1 .. N, n - 1 \in Q PROVE n \in Q
  <2>1. n \in Nat /\ (n - 1) + 1 = n /\ n + 1 \in 1 .. Len(q) /\ rest[n] = q[n + 1] /\ rest[n] \in IqMsg BY <1>2
  <2>2. ScanOK(scan[n - 1], q, n) BY <1>11, <2>1
  <2> DEFINE acc == scan[n - 1]
             r == scan[n]
  <2>3. acc \in IqScan BY <2>2 DEF ScanOK
  <2>4. r = ScanTo(acc, q[n + 1]) BY <1>9, <2>1
  <2> HIDE DEF acc, r
  <2>5. r \in IqScan /\ (PassesOver(acc, q[n + 1], r) \/ MergesIn(acc, q[n + 1], r)) BY <2>1, <2>3, <2>4, ScanToDoes
  <2>6. ScanOK(acc, q, n) BY <2>2 DEF acc
  <2>7. ScanOK(r, q, n + 1) BY <2>1, <2>5, <2>6, ScanPassesOver, ScanMergesIn
  <2> QED BY <1>3, <2>7 DEF r
<1> HIDE DEF Q
<1>12. \A n \in 0 .. N : n \in Q BY <1>2, <1>10, <1>11, UpTo
<1>13. N \in 0 .. N BY <1>2
<1>14. N \in Q BY <1>12, <1>13
<1> QED BY <1>2, <1>4, <1>14 DEF Q, rest

\* What was said by a is said by a message passed on, with nothing else from
\* that device in between.
Covered(a, s, i) ==
  \E j \in 1 .. Len(s) :
    /\ Like(a[i], s[j]) /\ i <= s[j].n /\ (Alone(a[i]) => s[j].n = i)
    /\ \A k \in i .. s[j].n : SameDevice(a[i], a[k]) => Says(a[k]) = Says(a[i])

\* The messages accepted (a), queued (q) and passed on (s): what is queued is
\* what was accepted, in its order; what was passed on says what its last
\* message said and stands before what is queued for the device; and every
\* message is still queued or taken care of.
Numbered(a) == a \in Seq(IqMsg) /\ \A i \in 1 .. Len(a) : a[i].n = i
QueuedFrom(a, q) == Ordered(q) /\ \A j \in 1 .. Len(q) : q[j].n \in 1 .. Len(a) /\ q[j] = a[q[j].n]
SentFrom(a, s) == s \in Seq(IqMsg) /\ \A j \in 1 .. Len(s) : s[j].n \in 1 .. Len(a) /\ Like(s[j], a[s[j].n])
SentInOrder(s) == \A i, j \in 1 .. Len(s) : i < j /\ SameDevice(s[i], s[j]) => s[i].n < s[j].n
SentBefore(s, q) == \A i \in 1 .. Len(s), j \in 1 .. Len(q) : SameDevice(s[i], q[j]) => s[i].n < q[j].n
NothingLost(a, q, s) == \A i \in 1 .. Len(a) : Kept(q, a[i]) \/ Covered(a, s, i)

Books(a, q, s) ==
  /\ Numbered(a) /\ QueuedFrom(a, q) /\ SentFrom(a, s)
  /\ SentInOrder(s) /\ SentBefore(s, q) /\ NothingLost(a, q, s)

LEMMA BooksLengths ==
  ASSUME NEW a, NEW q, NEW s, Books(a, q, s)
  PROVE  /\ Len(a) \in Nat /\ Len(q) \in Nat /\ Len(s) \in Nat
         /\ DOMAIN a = 1 .. Len(a) /\ DOMAIN q = 1 .. Len(q) /\ DOMAIN s = 1 .. Len(s)
         /\ a \in Seq(IqMsg) /\ q \in Seq(IqMsg) /\ s \in Seq(IqMsg)
<1>1. a \in Seq(IqMsg) /\ q \in Seq(IqMsg) /\ s \in Seq(IqMsg) BY DEF Books, Numbered, QueuedFrom, SentFrom, Ordered
<1> QED BY <1>1

\* A message arrives.
LEMMA BooksQueued ==
  ASSUME NEW a, NEW q, NEW s, Books(a, q, s), NEW m \in IqMsg, m.n = Len(a) + 1
  PROVE  Books(Append(a, m), Append(q, m), s)
<1> DEFINE b == Append(a, m)
           r == Append(q, m)
           N == Len(a)
           K == Len(q)
<1>1. N \in Nat /\ K \in Nat /\ Len(s) \in Nat /\ a \in Seq(IqMsg) /\ q \in Seq(IqMsg) BY BooksLengths
<1>2. /\ b \in Seq(IqMsg) /\ Len(b) = N + 1 /\ b[N + 1] = m
      /\ \A j \in 1 .. N : j \in 1 .. (N + 1) /\ b[j] = a[j]
      /\ \A j \in 1 .. (N + 1) : j \in 1 .. N \/ j = N + 1
  BY <1>1, AppendedAt
<1>3. /\ r \in Seq(IqMsg) /\ Len(r) = K + 1 /\ r[K + 1] = m
      /\ \A j \in 1 .. K : j \in 1 .. (K + 1) /\ r[j] = q[j]
      /\ \A j \in 1 .. (K + 1) : j \in 1 .. K \/ j = K + 1
  BY <1>1, AppendedAt
<1>4. \A j \in 1 .. K : q[j].n \in 1 .. N /\ q[j] = a[q[j].n] BY DEF Books, QueuedFrom
<1>5. \A j \in 1 .. Len(s) : s[j].n \in 1 .. N /\ Like(s[j], a[s[j].n]) BY DEF Books, SentFrom
<1> HIDE DEF b, r, N, K
<1>6. m.n = N + 1 /\ \A n \in 1 .. N : n < N + 1 BY <1>1 DEF N
<1>7. Numbered(b)
  <2> SUFFICES ASSUME NEW i \in 1 .. (N + 1) PROVE b[i].n = i
    BY <1>2 DEF Numbered
  <2>1. CASE i \in 1 .. N BY <2>1, <1>2 DEF Books, Numbered, N
  <2>2. CASE i = N + 1 BY <2>2, <1>2, <1>6
  <2> QED BY <1>2, <2>1, <2>2
<1>8. Ordered(r)
  <2> SUFFICES ASSUME NEW i \in 1 .. (K + 1), NEW j \in 1 .. (K + 1), i < j PROVE r[i].n < r[j].n
    BY <1>3 DEF Ordered
  <2>1. i \in 1 .. K BY <1>1, <1>3
  <2>2. CASE j \in 1 .. K
    <3>1. q[i].n < q[j].n BY <2>1, <2>2 DEF Books, QueuedFrom, Ordered, K
    <3> QED BY <3>1, <1>3, <2>1, <2>2
  <2>3. CASE j = K + 1 BY <2>1, <2>3, <1>3, <1>4, <1>6
  <2> QED BY <1>3, <2>2, <2>3
<1>9. QueuedFrom(b, r)
  <2> SUFFICES ASSUME NEW j \in 1 .. (K + 1) PROVE r[j].n \in 1 .. (N + 1) /\ r[j] = b[r[j].n]
    BY <1>2, <1>3, <1>8 DEF QueuedFrom
  <2>1. CASE j \in 1 .. K BY <2>1, <1>2, <1>3, <1>4
  <2>2. CASE j = K + 1
    <3>1. N + 1 \in 1 .. (N + 1) BY <1>1
    <3> QED BY <3>1, <2>2, <1>2, <1>3, <1>6
  <2> QED BY <1>3, <2>1, <2>2
<1>10. SentFrom(b, s)
  <2>1. s \in Seq(IqMsg) BY BooksLengths
  <2> QED BY <2>1, <1>2, <1>5 DEF SentFrom
<1>11. SentInOrder(s) BY DEF Books
<1>12. SentBefore(s, r)
  <2> SUFFICES ASSUME NEW i \in 1 .. Len(s), NEW j \in 1 .. (K + 1), SameDevice(s[i], r[j]) PROVE s[i].n < r[j].n
    BY <1>3 DEF SentBefore
  <2>1. CASE j \in 1 .. K
    <3>1. SameDevice(s[i], q[j]) BY <2>1, <1>3
    <3>2. s[i].n < q[j].n BY <3>1, <2>1 DEF Books, SentBefore, K
    <3> QED BY <3>2, <2>1, <1>3
  <2>2. CASE j = K + 1 BY <2>2, <1>3, <1>5, <1>6
  <2> QED BY <1>3, <2>1, <2>2
<1>13. NothingLost(b, r, s)
  <2> SUFFICES ASSUME NEW i \in 1 .. (N + 1) PROVE Kept(r, b[i]) \/ Covered(b, s, i)
    BY <1>2 DEF NothingLost
  <2>1. CASE i \in 1 .. N
    <3>1. CASE Kept(q, a[i])
      <4>1. PICK j \in 1 .. K : q[j] = a[i] BY <3>1 DEF Kept, K
      <4>2. j \in 1 .. Len(r) /\ r[j] = b[i] BY <4>1, <2>1, <1>2, <1>3
      <4> QED BY <4>2 DEF Kept
    <3>2. CASE Covered(a, s, i)
      <4>1. PICK j \in 1 .. Len(s) :
              /\ Like(a[i], s[j]) /\ i <= s[j].n /\ (Alone(a[i]) => s[j].n = i)
              /\ \A k \in i .. s[j].n : SameDevice(a[i], a[k]) => Says(a[k]) = Says(a[i])
        BY <3>2 DEF Covered
      <4>2. s[j].n \in 1 .. N BY <1>5
      <4>3. \A k \in i .. s[j].n : k \in 1 .. N /\ b[k] = a[k] BY <2>1, <4>2, <1>1, <1>2
      <4>4. b[i] = a[i] BY <2>1, <1>2
      <4>5. \A k \in i .. s[j].n : SameDevice(b[i], b[k]) => Says(b[k]) = Says(b[i]) BY <4>1, <4>3, <4>4
      <4> QED BY <4>1, <4>4, <4>5 DEF Covered
    <3>3. Kept(q, a[i]) \/ Covered(a, s, i) BY <2>1 DEF Books, NothingLost, N
    <3> QED BY <3>1, <3>2, <3>3
  <2>2. CASE i = N + 1
    <3>1. K + 1 \in 1 .. Len(r) BY <1>1, <1>3
    <3>2. r[K + 1] = b[i] BY <2>2, <1>2, <1>3
    <3> QED BY <3>1, <3>2 DEF Kept
  <2> QED BY <1>2, <2>1, <2>2
<1> QED BY <1>7, <1>9, <1>10, <1>11, <1>12, <1>13 DEF Books, b, r

\* A turn of the pool: acc is what the scan of the queue ends with.
LEMMA BooksPassed ==
  ASSUME NEW a, NEW q, NEW s, Books(a, q, s), NEW acc, ScanOK(acc, q, Len(q))
  PROVE  Books(a, acc.kept, Append(s, acc.msg))
<1> DEFINE k == acc.kept
           M == acc.msg
           t == Append(s, M)
           N == Len(a)
           K == Len(q)
           L == Len(s)
<1>1. N \in Nat /\ K \in Nat /\ L \in Nat /\ a \in Seq(IqMsg) /\ q \in Seq(IqMsg) /\ s \in Seq(IqMsg) BY BooksLengths
<1>2. M \in IqMsg /\ k \in Seq(IqMsg) /\ Ordered(k) BY IqScanParts DEF ScanOK
<1>3. /\ t \in Seq(IqMsg) /\ Len(t) = L + 1 /\ t[L + 1] = M
      /\ \A j \in 1 .. L : j \in 1 .. (L + 1) /\ t[j] = s[j]
      /\ \A j \in 1 .. (L + 1) : j \in 1 .. L \/ j = L + 1
  BY <1>1, <1>2, AppendedAt
<1>4. \A j \in 1 .. Len(k) : \E i \in 1 .. K : k[j] = q[i] BY DEF ScanOK
<1>5. PICK last \in 1 .. K : M.n = q[last].n /\ Like(M, q[last]) BY DEF ScanOK
<1>6. \A j \in 1 .. Len(k) : SameDevice(k[j], M) => M.n < k[j].n BY DEF ScanOK
<1>7. \A i \in 1 .. K : Takes(M, q[i]) \/ Kept(k, q[i]) BY DEF ScanOK
<1>8. \A j \in 1 .. K : q[j].n \in 1 .. N /\ q[j] = a[q[j].n] BY DEF Books, QueuedFrom
<1>9. \A j \in 1 .. L : s[j].n \in 1 .. N /\ Like(s[j], a[s[j].n]) BY DEF Books, SentFrom
<1>10. \A i \in 1 .. L, j \in 1 .. K : SameDevice(s[i], q[j]) => s[i].n < q[j].n BY DEF Books, SentBefore
<1>11. \A i \in 1 .. N : a[i].n = i BY DEF Books, Numbered
<1>12. \A i \in 1 .. N : Kept(q, a[i]) \/ Covered(a, s, i) BY DEF Books, NothingLost
<1>13. Numbered(a) BY DEF Books
<1> HIDE DEF k, M, t, N, K, L
<1>14. QueuedFrom(a, k)
  <2> SUFFICES ASSUME NEW j \in 1 .. Len(k) PROVE k[j].n \in 1 .. N /\ k[j] = a[k[j].n]
    BY <1>2 DEF QueuedFrom, N
  <2> QED BY <1>4, <1>8
<1>15. SentFrom(a, t)
  <2> SUFFICES ASSUME NEW j \in 1 .. (L + 1) PROVE t[j].n \in 1 .. N /\ Like(t[j], a[t[j].n])
    BY <1>3 DEF SentFrom, N
  <2>1. CASE j \in 1 .. L BY <2>1, <1>3, <1>9
  <2>2. CASE j = L + 1
    <3>1. M.n \in 1 .. N /\ Like(M, a[M.n]) BY <1>5, <1>8
    <3> QED BY <3>1, <2>2, <1>3
  <2> QED BY <1>3, <2>1, <2>2
<1>16. SentInOrder(t)
  <2> SUFFICES ASSUME NEW i \in 1 .. (L + 1), NEW j \in 1 .. (L + 1), i < j, SameDevice(t[i], t[j]) PROVE t[i].n < t[j].n
    BY <1>3 DEF SentInOrder
  <2>1. i \in 1 .. L BY <1>1, <1>3
  <2>2. CASE j \in 1 .. L
    <3>1. SameDevice(s[i], s[j]) BY <2>1, <2>2, <1>3
    <3>2. s[i].n < s[j].n BY <2>1, <2>2, <3>1 DEF Books, SentInOrder, L
    <3> QED BY <3>2, <2>1, <2>2, <1>3
  <2>3. CASE j = L + 1
    <3>1. SameDevice(s[i], M) BY <2>1, <2>3, <1>3
    <3>2. SameDevice(s[i], q[last]) BY <3>1, <1>5, LikeIsEquivalence
    <3>3. s[i].n < M.n BY <3>2, <2>1, <1>5, <1>10
    <3> QED BY <3>3, <2>1, <2>3, <1>3
  <2> QED BY <1>3, <2>2, <2>3
<1>17. SentBefore(t, k)
  <2> SUFFICES ASSUME NEW i \in 1 .. (L + 1), NEW j \in 1 .. Len(k), SameDevice(t[i], k[j]) PROVE t[i].n < k[j].n
    BY <1>3 DEF SentBefore
  <2>1. CASE i \in 1 .. L
    <3>1. PICK p \in 1 .. K : k[j] = q[p] BY <1>4
    <3>2. SameDevice(s[i], q[p]) BY <3>1, <2>1, <1>3
    <3> QED BY <3>1, <3>2, <2>1, <1>3, <1>10
  <2>2. CASE i = L + 1
    <3>1. SameDevice(k[j], M) BY <2>2, <1>3 DEF SameDevice
    <3> QED BY <3>1, <2>2, <1>3, <1>6
  <2> QED BY <1>3, <2>1, <2>2
<1>18. NothingLost(a, k, t)
  <2> SUFFICES ASSUME NEW i \in 1 .. N PROVE Kept(k, a[i]) \/ Covered(a, t, i)
    BY DEF NothingLost, N
  <2>1. CASE Covered(a, s, i)
    <3>1. PICK j \in 1 .. L :
            /\ Like(a[i], s[j]) /\ i <= s[j].n /\ (Alone(a[i]) => s[j].n = i)
            /\ \A n \in i .. s[j].n : SameDevice(a[i], a[n]) => Says(a[n]) = Says(a[i])
      BY <2>1 DEF Covered, L
    <3>2. j \in 1 .. Len(t) /\ t[j] = s[j] BY <3>1, <1>3
    <3> QED BY <3>1, <3>2 DEF Covered
  <2>2. CASE Kept(q, a[i])
    <3>1. PICK p \in 1 .. K : q[p] = a[i] BY <2>2 DEF Kept, K
    <3>2. CASE Kept(k, a[i]) BY <3>2
    <3>3. CASE Takes(M, a[i])
      <4>1. Like(a[i], M) /\ i <= M.n /\ (Alone(a[i]) => M.n = i) BY <3>3, <1>11 DEF Takes
      <4>2. M.n \in 1 .. N BY <1>5, <1>8
      <4>3. ASSUME NEW n \in i .. M.n, SameDevice(a[i], a[n]) PROVE Says(a[n]) = Says(a[i])
        <5>1. n \in 1 .. N /\ n <= M.n /\ i <= n BY <4>2, <1>1
        <5>2. CASE Covered(a, s, n)
          <6>1. PICK j \in 1 .. L : Like(a[n], s[j]) /\ n <= s[j].n BY <5>2 DEF Covered, L
          <6>2. SameDevice(s[j], q[p]) BY <4>3, <6>1, <3>1 DEF Like, SameDevice
          <6>3. s[j].n < i BY <6>2, <3>1, <1>10, <1>11
          <6>4. s[j].n \in 1 .. N BY <1>9
          <6> QED BY <5>1, <6>1, <6>3, <6>4, <1>1
        <5>3. CASE Kept(q, a[n])
          <6>1. PICK r \in 1 .. K : q[r] = a[n] BY <5>3 DEF Kept, K
          <6>2. SameDevice(a[n], M) BY <4>1, <4>3 DEF Like, SameDevice
          <6>3. ~Kept(k, a[n])
            <7> SUFFICES ASSUME NEW j \in 1 .. Len(k), k[j] = a[n] PROVE FALSE
              BY DEF Kept
            <7>1. M.n < n BY <6>2, <5>1, <1>6, <1>11
            <7> QED BY <7>1, <5>1, <4>2, <1>1
          <6>4. Takes(M, a[n]) BY <6>1, <6>3, <1>7
          <6> QED BY <6>4, <4>1 DEF Takes, Like
        <5> QED BY <5>1, <5>2, <5>3, <1>12
      <4>4. L + 1 \in 1 .. Len(t) /\ t[L + 1] = M BY <1>1, <1>3
      <4> QED BY <4>1, <4>3, <4>4 DEF Covered
    <3> QED BY <3>1, <3>2, <3>3, <1>7
  <2> QED BY <2>1, <2>2, <1>12
<1> QED BY <1>13, <1>14, <1>15, <1>16, <1>17, <1>18 DEF Books, k, t, M

IqCounts ==
  /\ iqTasks \in Nat /\ Len(iqQueue) <= iqTasks /\ iqTasks <= Len(iqAccepted)
  /\ Len(iqAccepted) <= IqMaxMessages /\ Len(iqSent) + Len(iqQueue) <= Len(iqAccepted)

MouseKinds == {"rel", "abs", "button", "scroll", "hscroll"}

IqInv ==
  /\ Books(iqAccepted, iqQueue, iqSent)
  /\ IqCounts
  /\ iqGrant = "mouse" => \A i \in 1 .. Len(iqAccepted) : iqAccepted[i].kind \in MouseKinds

LEMMA IqInvInit == IqInit => IqInv
<1> SUFFICES ASSUME IqInit PROVE IqInv OBVIOUS
<1> DEFINE e == << >>
<1>1. iqQueue = e /\ iqSent = e /\ iqAccepted = e /\ iqTasks = 0 BY DEF IqInit
<1>2. e \in Seq(IqMsg) /\ Len(e) = 0 /\ 1 .. 0 = {} OBVIOUS
<1> HIDE DEF e
<1>3. 1 .. Len(e) = {} BY <1>2
<1>4. Books(e, e, e)
  BY <1>2, <1>3 DEF Books, Numbered, QueuedFrom, SentFrom, SentInOrder, SentBefore, NothingLost, Ordered
<1>5. IqCounts BY <1>1, <1>2, IqAssumption DEF IqCounts
<1> QED BY <1>1, <1>3, <1>4, <1>5 DEF IqInv

LEMMA PassthroughKeeps == ASSUME IqInv, NEW m \in IqMessages, Passthrough(m) PROVE IqInv'
<1> DEFINE N == Len(iqAccepted)
           msg == [kind |-> m.kind, dev |-> m.dev, event |-> m.event, x |-> m.x, n |-> N + 1]
<1>1. /\ N < IqMaxMessages /\ Permitted(m.kind) /\ iqTasks' = iqTasks + 1
      /\ iqQueue' = Append(iqQueue, msg) /\ iqAccepted' = Append(iqAccepted, msg)
      /\ iqGrant' = iqGrant /\ iqSent' = iqSent
  BY DEF Passthrough, TaskPushed
<1>2. Books(iqAccepted, iqQueue, iqSent) /\ IqCounts BY DEF IqInv
<1>3. /\ N \in Nat /\ Len(iqQueue) \in Nat /\ Len(iqSent) \in Nat
      /\ iqAccepted \in Seq(IqMsg) /\ iqQueue \in Seq(IqMsg)
  BY <1>2, BooksLengths
<1>4. msg \in IqMsg
  <2>1. m.x \in Int /\ N + 1 \in Nat BY <1>3, IqAssumption
  <2> HIDE DEF N
  <2>2. PICK x \in Int, n \in Nat : x = m.x /\ n = N + 1 BY <2>1
  <2>3. msg = [kind |-> m.kind, dev |-> m.dev, event |-> m.event, x |-> x, n |-> n] BY <2>2
  <2> QED BY <2>3 DEF IqMsg
<1>5. msg.n = N + 1 /\ msg.kind = m.kind OBVIOUS
<1> HIDE DEF msg
<1>6. Books(iqAccepted', iqQueue', iqSent') BY <1>1, <1>2, <1>4, <1>5, BooksQueued
<1>7. /\ Len(iqAccepted') = N + 1 /\ Len(iqQueue') = Len(iqQueue) + 1
      /\ iqAccepted'[N + 1] = msg
      /\ \A j \in 1 .. N : iqAccepted'[j] = iqAccepted[j]
      /\ \A j \in 1 .. (N + 1) : j \in 1 .. N \/ j = N + 1
  BY <1>1, <1>3, <1>4, AppendedAt
<1>8. IqCounts'
  <2>1. /\ iqTasks \in Nat /\ Len(iqQueue) <= iqTasks /\ iqTasks <= N
        /\ N <= IqMaxMessages /\ Len(iqSent) + Len(iqQueue) <= N /\ IqMaxMessages \in Nat
    BY <1>2, IqAssumption DEF IqCounts
  <2> HIDE DEF N
  <2>2. N < IqMaxMessages /\ iqTasks' = iqTasks + 1 /\ iqSent' = iqSent BY <1>1
  <2> QED BY <1>3, <1>7, <2>1, <2>2 DEF IqCounts
<1>9. iqGrant' = "mouse" => \A i \in 1 .. Len(iqAccepted') : iqAccepted'[i].kind \in MouseKinds
  <2> SUFFICES ASSUME iqGrant = "mouse", NEW i \in 1 .. (N + 1) PROVE iqAccepted'[i].kind \in MouseKinds
    BY <1>1, <1>7
  <2>1. m.kind \in MouseKinds
    <3> HIDE DEF N
    <3> QED BY <1>1 DEF Permitted, MouseKinds
  <2>2. CASE i \in 1 .. N BY <2>2, <1>7 DEF IqInv
  <2>3. CASE i = N + 1 BY <2>1, <2>3, <1>5, <1>7
  <2> QED BY <1>7, <2>2, <2>3
<1> QED BY <1>6, <1>8, <1>9 DEF IqInv

LEMMA NextMessageKeeps == ASSUME IqInv, PassthroughNextMessage PROVE IqInv'
<1>1. Books(iqAccepted, iqQueue, iqSent) /\ IqCounts BY DEF IqInv
<1>2. iqTasks > 0 /\ iqTasks' = iqTasks - 1 /\ iqGrant' = iqGrant /\ iqAccepted' = iqAccepted
  BY DEF PassthroughNextMessage
<1>3. Len(iqAccepted) \in Nat /\ Len(iqQueue) \in Nat /\ Len(iqSent) \in Nat /\ iqSent \in Seq(IqMsg)
      /\ iqQueue \in Seq(IqMsg)
  BY <1>1, BooksLengths
<1>4. /\ iqTasks \in Nat /\ Len(iqQueue) <= iqTasks /\ iqTasks <= Len(iqAccepted)
      /\ Len(iqAccepted) <= IqMaxMessages /\ Len(iqSent) + Len(iqQueue) <= Len(iqAccepted)
  BY <1>1 DEF IqCounts
<1>5. Books(iqAccepted', iqQueue', iqSent') /\ IqCounts'
  <2>1. CASE iqQueue = << >>
    <3>1. iqQueue' = iqQueue /\ iqSent' = iqSent BY <2>1 DEF PassthroughNextMessage
    <3>2. Len(iqQueue) = 0 BY <2>1
    <3> QED BY <1>1, <1>2, <1>3, <1>4, <3>1, <3>2 DEF IqCounts
  <2>2. CASE iqQueue # << >>
    <3> DEFINE acc == Scanned(Head(iqQueue), Tail(iqQueue))
    <3>1. iqQueue' = acc.kept /\ iqSent' = Append(iqSent, acc.msg) BY <2>2 DEF PassthroughNextMessage
    <3>2. Ordered(iqQueue) BY <1>1 DEF Books, QueuedFrom
    <3>3. ScanOK(acc, iqQueue, Len(iqQueue)) BY <2>2, <3>2, ScannedOK
    <3> HIDE DEF acc
    <3>4. Books(iqAccepted', iqQueue', iqSent') BY <1>1, <1>2, <3>1, <3>3, BooksPassed
    <3>5. acc.msg \in IqMsg /\ acc.kept \in Seq(IqMsg) /\ Len(acc.kept) < Len(iqQueue) BY <3>3, IqScanParts DEF ScanOK
    <3>6. Len(iqQueue') \in Nat /\ Len(iqQueue') < Len(iqQueue) /\ Len(iqSent') = Len(iqSent) + 1
      <4>1. Len(Append(iqSent, acc.msg)) = Len(iqSent) + 1 BY <1>3, <3>5, AppendedAt
      <4>2. Len(acc.kept) \in Nat BY <3>5
      <4> QED BY <3>1, <3>5, <4>1, <4>2
    <3>7. IqCounts' BY <1>2, <1>3, <1>4, <3>6 DEF IqCounts
    <3> QED BY <3>4, <3>7
  <2> QED BY <2>1, <2>2
<1> QED BY <1>2, <1>5 DEF IqInv

LEMMA IqInvStep == IqInv /\ [IqNext]_iqVars => IqInv'
<1> SUFFICES ASSUME IqInv, [IqNext]_iqVars PROVE IqInv' OBVIOUS
<1>1. CASE UNCHANGED iqVars BY <1>1 DEF IqInv, IqCounts, iqVars
<1>2. ASSUME NEW m \in IqMessages, Passthrough(m) PROVE IqInv' BY <1>2, PassthroughKeeps
<1>3. CASE PassthroughNextMessage BY <1>3, NextMessageKeeps
<1> QED BY <1>1, <1>2, <1>3 DEF IqNext

LEMMA IqInvMeans == IqInv => IqTypeOK /\ TurnForEveryMessage /\ DeviceOrderKept /\ StateChangesArrive
<1> SUFFICES ASSUME IqInv PROVE IqTypeOK /\ TurnForEveryMessage /\ DeviceOrderKept /\ StateChangesArrive OBVIOUS
<1> DEFINE a == iqAccepted
           q == iqQueue
           s == iqSent
<1>1. Books(a, q, s) /\ IqCounts BY DEF IqInv
<1>2. Len(a) \in Nat /\ Len(q) \in Nat /\ Len(s) \in Nat /\ DOMAIN a = 1 .. Len(a) /\ DOMAIN q = 1 .. Len(q) /\ DOMAIN s = 1 .. Len(s)
  BY <1>1, BooksLengths
<1>3. TurnForEveryMessage BY <1>1 DEF IqCounts, TurnForEveryMessage
<1>4. IqTypeOK
  <2>1. iqTasks \in 0 .. IqMaxMessages /\ Len(q) <= Len(a) /\ Len(s) <= Len(a)
    BY <1>1, <1>2, IqAssumption DEF IqCounts
  <2>2. iqGrant = "mouse" => \A i \in DOMAIN s : s[i].kind \in MouseKinds
    <3> SUFFICES ASSUME iqGrant = "mouse", NEW i \in 1 .. Len(s) PROVE s[i].kind \in MouseKinds
      BY <1>2
    <3>1. s[i].n \in 1 .. Len(a) /\ Like(s[i], a[s[i].n]) BY <1>1 DEF Books, SentFrom
    <3>2. a[s[i].n].kind \in MouseKinds BY <3>1 DEF IqInv
    <3> QED BY <3>1, <3>2 DEF Like, SameDevice
  <2> QED BY <2>1, <2>2 DEF IqTypeOK, MouseKinds
<1>5. DeviceOrderKept
  <2>1. SentInOrder(s) /\ SentBefore(s, q) BY <1>1 DEF Books
  <2> QED BY <1>2, <2>1 DEF SentInOrder, SentBefore, DeviceOrderKept
<1>6. StateChangesArrive
  <2> SUFFICES ASSUME q = << >>, NEW i \in 1 .. Len(a)
               PROVE  \E j \in DOMAIN s :
                        /\ SameDevice(a[i], s[j]) /\ Says(s[j]) = Says(a[i])
                        /\ s[j].n >= a[i].n /\ (Alone(a[i]) => s[j].n = a[i].n)
                        /\ \A k \in i..s[j].n : SameDevice(a[i], a[k]) => Says(a[k]) = Says(a[i])
    BY <1>2 DEF StateChangesArrive
  <2>1. ~Kept(q, a[i]) BY DEF Kept
  <2>2. Covered(a, s, i) BY <1>1, <2>1 DEF Books, NothingLost
  <2>3. PICK j \in 1 .. Len(s) :
          /\ Like(a[i], s[j]) /\ i <= s[j].n /\ (Alone(a[i]) => s[j].n = i)
          /\ \A k \in i .. s[j].n : SameDevice(a[i], a[k]) => Says(a[k]) = Says(a[i])
    BY <2>2 DEF Covered
  <2>4. a[i].n = i BY <1>1 DEF Books, Numbered
  <2>5. s[j].n \in Nat /\ i \in Nat
    <3>1. s[j].n \in 1 .. Len(a) BY <1>1 DEF Books, SentFrom
    <3> QED BY <3>1, <1>2
  <2> HIDE DEF a, s, q
  <2>6. s[j].n >= a[i].n BY <2>3, <2>4, <2>5
  <2> QED BY <1>2, <2>3, <2>4, <2>6 DEF Like
<1> QED BY <1>3, <1>4, <1>5, <1>6
LEMMA MulMono ==
  ASSUME NEW a \in Int, NEW b \in Int, NEW c \in Nat, a <= b
  PROVE  a * c <= b * c /\ c * a <= c * b
<1>1. (b - a) * c >= 0 OBVIOUS
<1>2. (b - a) * c = b * c - a * c OBVIOUS
<1> QED BY <1>1, <1>2

LEMMA Distributes ==
  ASSUME NEW a \in Int, NEW b \in Int, NEW c \in Int
  PROVE  a * (b + c) = a * b + a * c /\ (b + c) * a = b * a + c * a
  OBVIOUS

LEMMA DivRest ==
  ASSUME NEW a \in Int, NEW b \in Nat \ {0}
  PROVE  /\ a \div b \in Int /\ a % b \in Int /\ a = b * (a \div b) + (a % b) /\ 0 <= a % b /\ a % b < b
<1>1. a \div b \in Int OBVIOUS
<1>2. a % b \in 0 .. b - 1 OBVIOUS
<1>3. PICK q \in Int, r \in Int : q = a \div b /\ r = a % b BY <1>1, <1>2
<1>4. a = b * q + r BY <1>3
<1>5. a = b * (a \div b) + (a % b) BY <1>3, <1>4, Zenon
<1>6. a % b \in Int /\ 0 <= a % b /\ a % b < b BY <1>2
<1> QED BY <1>1, <1>5, <1>6, Zenon


-----------------------------------------------------------------------------
(* Pointing and scrolling (InputMouse) *)

\* What a full tick leaves is less than one.
LEMMA TicksAndRest ==
  ASSUME NEW acc \in Int
  PROVE  /\ Truncate(acc, PtWheel) \in Int /\ RestAfter(acc) \in Int
         /\ acc = Truncate(acc, PtWheel) * PtWheel + RestAfter(acc)
         /\ RestAfter(acc) < PtWheel /\ -RestAfter(acc) < PtWheel
<1> DEFINE W == PtWheel
           t == Truncate(acc, W)
<1>1. W \in Nat \ {0} BY PtAssumption
<1> HIDE DEF W
<1>2. \E r \in Int : t \in Int /\ acc = t * W + r /\ r < W /\ -r < W
  <2>1. CASE acc >= 0
    <3>1. acc \div W \in Int /\ acc % W \in Int /\ acc = W * (acc \div W) + (acc % W) /\ 0 <= acc % W /\ acc % W < W
      BY <1>1, DivRest
    <3>2. PICK q \in Int, r \in Int : q = acc \div W /\ r = acc % W BY <3>1
    <3>3. t = q BY <2>1, <3>2 DEF Truncate
    <3>4. acc = W * q + r /\ 0 <= r /\ r < W BY <3>1, <3>2
    <3>5. W * q = q * W /\ W * q \in Int BY <1>1
    <3>6. acc = q * W + r /\ -r < W BY <3>4, <3>5, <1>1
    <3> QED BY <3>3, <3>4, <3>6
  <2>2. CASE acc < 0
    <3> DEFINE b == -acc
    <3>1. b \in Int OBVIOUS
    <3>0. b = -acc /\ ~(acc >= 0) BY <2>2
    <3> HIDE DEF b
    <3>2. b \div W \in Int /\ b % W \in Int /\ b = W * (b \div W) + (b % W) /\ 0 <= b % W /\ b % W < W
      BY <1>1, <3>1, DivRest
    <3>3. PICK q \in Int, r \in Int : q = b \div W /\ r = b % W BY <3>2
    <3>4. t = -(b \div W) BY <3>0 DEF Truncate
    <3>5. t = -q BY <3>3, <3>4
    <3>6. b = W * q + r /\ 0 <= r /\ r < W BY <3>2, <3>3
    <3>7. W * q \in Int /\ (-q) * W = -(W * q) BY <1>1
    <3>8. acc = (-q) * W + (-r) /\ -r < W /\ -(-r) < W BY <3>0, <3>6, <3>7, <1>1
    <3>9. -r \in Int /\ -q \in Int OBVIOUS
    <3> QED BY <3>5, <3>8, <3>9
  <2> QED BY <2>1, <2>2
<1>3. RestAfter(acc) = acc - t * W BY DEF RestAfter, W
<1> HIDE DEF t
<1>4. PICK r \in Int : t \in Int /\ acc = t * W + r /\ r < W /\ -r < W BY <1>2
<1>5. PICK p \in Int : p = t * W BY <1>1, <1>4
<1>6. RestAfter(acc) = r BY <1>3, <1>4, <1>5
<1> QED BY <1>4, <1>6 DEF t, W

LEMMA ScrollKeeps ==
  ASSUME NEW delta \in PtDeltas, Scroll(delta), ptAcc \in Int, ptTicks \in Int, ptScrolled \in Int, ScrollConserved
  PROVE  ptAcc' \in Int /\ ptTicks' \in Int /\ ptScrolled' \in Int /\ ScrollConserved'
<1> DEFINE acc == ptAcc + delta
           W == PtWheel
           t == Truncate(acc, W)
           r == RestAfter(acc)
<1>1. W \in Nat \ {0} /\ delta \in Int BY PtAssumption
<1>2. acc \in Int BY <1>1
<1>3. ptTicks' = ptTicks + t /\ ptAcc' = r /\ ptScrolled' = ptScrolled + delta BY DEF Scroll
<1> HIDE DEF acc
<1>4. t \in Int /\ r \in Int /\ acc = t * W + r /\ r < W /\ -r < W BY <1>2, TicksAndRest
<1>5. ptScrolled = ptTicks * W + ptAcc BY DEF ScrollConserved
<1> HIDE DEF W, t, r
<1>6. (ptTicks + t) * W = ptTicks * W + t * W BY <1>1, <1>4, Distributes
<1>7. PICK p \in Int, s \in Int : p = ptTicks * W /\ s = t * W BY <1>1, <1>4
<1>8. acc = ptAcc + delta BY DEF acc
<1>9. (ptTicks + t) * W = p + s BY <1>6, <1>7
<1>10. acc = s + r /\ ptScrolled = p + ptAcc BY <1>4, <1>5, <1>7
<1>11. ptScrolled' = p + s + r BY <1>1, <1>3, <1>4, <1>8, <1>10
<1>12. ptScrolled' = ptTicks' * W + ptAcc' BY <1>3, <1>9, <1>11
<1>13. ptTicks' \in Int /\ ptAcc' \in Int /\ ptScrolled' \in Int BY <1>1, <1>3, <1>4
<1> QED BY <1>3, <1>4, <1>12, <1>13 DEF ScrollConserved, W

\* On an axis of a picture c wide, scaled by den to what the display of width
\* w takes with off on both sides, positions stay on the display.
LEMMA AxisFits ==
  ASSUME NEW den \in Nat, NEW c \in Nat, NEW off \in Nat, NEW w \in Nat, off + w = den * c, NEW x \in Int
  PROVE  /\ Clamp(2 * den * Clamp(x, 0, c), off, 2 * den * c - off) - off \in 0 .. (2 * w)
         /\ Clamp(2 * den * Clamp(0, 0, c), off, 2 * den * c - off) - off = 0
         /\ Clamp(2 * den * Clamp(c, 0, c), off, 2 * den * c - off) - off = 2 * w
<1>1. Clamp(x, 0, c) \in 0 .. c /\ Clamp(0, 0, c) = 0 /\ Clamp(c, 0, c) = c BY DEF Clamp
<1>2. PICK y \in 0 .. c : y = Clamp(x, 0, c) BY <1>1
<1>3. PICK T \in Int : T = 2 * den * c /\ T = 2 * (den * c) OBVIOUS
<1>4. PICK v \in Int : v = 2 * den * y OBVIOUS
<1>5. T = 2 * (off + w) BY <1>3
<1>6. 2 * den * 0 = 0 OBVIOUS
<1>7. Clamp(v, off, T - off) - off \in 0 .. (2 * w) BY <1>5 DEF Clamp
<1>8. Clamp(0, off, T - off) - off = 0 BY <1>5 DEF Clamp
<1>9. Clamp(T, off, T - off) - off = 2 * w BY <1>5 DEF Clamp
<1> QED BY <1>1, <1>2, <1>3, <1>4, <1>6, <1>7, <1>8, <1>9

\* make_port leaves as much on both sides as the scaled display does not take.
LEMMA PortFits ==
  ASSUME NEW d \in PtDisplays, NEW axis \in {1, 2}
  PROVE  LET p == MakePort(d) IN
         /\ p.display = d /\ p.num \in Nat /\ p.den \in Nat /\ d[axis] \in Nat /\ PtClient[axis] \in Nat
         /\ p.offset[axis] \in Nat /\ p.offset[axis] + p.num * d[axis] = p.den * PtClient[axis]
<1> DEFINE p == MakePort(d)
           wide == PtClient[1] * d[2] < PtClient[2] * d[1]
           num == IF wide THEN PtClient[1] ELSE PtClient[2]
           den == IF wide THEN d[1] ELSE d[2]
           off == <<PtClient[1] * den - num * d[1], PtClient[2] * den - num * d[2]>>
<1>1. p = [display |-> d, num |-> num, den |-> den, offset |-> off] BY DEF MakePort
<1>2. PICK a \in Nat, b \in Nat : a = PtClient[1] /\ b = PtClient[2] BY PtAssumption
<1>3. PICK e \in Nat, f \in Nat : e = d[1] /\ f = d[2] BY PtAssumption
<1>4. PICK af \in Nat, be \in Nat, ae \in Nat, bf \in Nat : af = a * f /\ be = b * e /\ ae = a * e /\ bf = b * f OBVIOUS
<1>5. a * e = ae /\ e * a = ae /\ b * e = be /\ e * b = be /\ a * f = af /\ f * a = af /\ b * f = bf /\ f * b = bf BY <1>4
<1>6. p.display = d /\ p.num = num /\ p.den = den /\ p.offset = off BY <1>1
<1>7. off[1] = PtClient[1] * den - num * d[1] /\ off[2] = PtClient[2] * den - num * d[2] OBVIOUS
<1> HIDE DEF off
<1>8. CASE wide
  <2>1. num = a /\ den = e /\ af < be BY <1>2, <1>3, <1>4, <1>8
  <2>2. off[1] = ae - ae /\ off[2] = be - af BY <1>2, <1>3, <1>5, <1>7, <2>1
  <2>3. off[1] \in Nat /\ off[2] \in Nat /\ off[1] + ae = ae /\ off[2] + af = be BY <2>1, <2>2
  <2>4. num * d[1] = ae /\ num * d[2] = af /\ den * PtClient[1] = ae /\ den * PtClient[2] = be BY <1>2, <1>3, <1>5, <2>1
  <2> QED BY <1>2, <1>3, <1>6, <2>1, <2>3, <2>4
<1>9. CASE ~wide
  <2>1. num = b /\ den = f /\ be <= af BY <1>2, <1>3, <1>4, <1>9
  <2>2. off[1] = af - be /\ off[2] = bf - bf BY <1>2, <1>3, <1>5, <1>7, <2>1
  <2>3. off[1] \in Nat /\ off[2] \in Nat /\ off[1] + be = af /\ off[2] + bf = bf BY <2>1, <2>2
  <2>4. num * d[1] = be /\ num * d[2] = bf /\ den * PtClient[1] = af /\ den * PtClient[2] = bf BY <1>2, <1>3, <1>5, <2>1
  <2> QED BY <1>2, <1>3, <1>6, <2>1, <2>3, <2>4
<1> QED BY <1>8, <1>9

LEMMA MapAxisFits ==
  ASSUME NEW d \in PtDisplays, NEW axis \in {1, 2}, NEW x \in Int
  PROVE  LET p == MakePort(d) IN
         /\ MapAxis(p, axis, x) \in 0 .. (2 * p.num * p.display[axis])
         /\ MapAxis(p, axis, 0) = 0 /\ MapAxis(p, axis, PtClient[axis]) = 2 * p.num * p.display[axis]
<1> DEFINE p == MakePort(d)
<1>1. /\ p.display = d /\ p.num \in Nat /\ p.den \in Nat /\ d[axis] \in Nat /\ PtClient[axis] \in Nat
      /\ p.offset[axis] \in Nat /\ p.offset[axis] + p.num * d[axis] = p.den * PtClient[axis]
  BY PortFits
<1> HIDE DEF p
<1>2. PICK w \in Nat : w = p.num * d[axis] BY <1>1
<1>3. 2 * p.num * p.display[axis] = 2 * w BY <1>1, <1>2
<1>4. PICK den \in Nat, c \in Nat, off \in Nat : den = p.den /\ c = PtClient[axis] /\ off = p.offset[axis] BY <1>1
<1>5. off + w = den * c BY <1>1, <1>2, <1>4
<1>6. \A y : MapAxis(p, axis, y) = Clamp(2 * den * Clamp(y, 0, c), off, 2 * den * c - off) - off BY <1>4 DEF MapAxis
<1>8. /\ Clamp(2 * den * Clamp(x, 0, c), off, 2 * den * c - off) - off \in 0 .. (2 * w)
      /\ Clamp(2 * den * Clamp(0, 0, c), off, 2 * den * c - off) - off = 0
      /\ Clamp(2 * den * Clamp(c, 0, c), off, 2 * den * c - off) - off = 2 * w
  BY <1>5, AxisFits
<1>7. /\ MapAxis(p, axis, x) \in 0 .. (2 * w) /\ MapAxis(p, axis, 0) = 0 /\ MapAxis(p, axis, c) = 2 * w
  BY <1>6, <1>8, Zenon
<1> QED BY <1>3, <1>4, <1>7 DEF p

PtInv ==
  /\ ptAcc \in Int /\ ptTicks \in Int /\ ptScrolled \in Int /\ ScrollConserved
  /\ \A p \in ptEvent \cup ptPort : \E d \in PtDisplays : p = MakePort(d)
  /\ PointerOnDisplay

LEMMA PtInvInit == PtInit => PtInv
<1> SUFFICES ASSUME PtInit PROVE PtInv OBVIOUS
<1>1. PtWheel \in Nat \ {0} BY PtAssumption
<1>2. 0 * PtWheel = 0 BY <1>1
<1> QED BY <1>1, <1>2 DEF PtInit, PtInv, ScrollConserved, PointerOnDisplay

LEMMA PointKeeps == ASSUME PtInv, NEW x \in PtPoints, NEW y \in PtPoints, Point(x, y) PROVE PtInv'
<1>1. /\ ptPort' = PortToUse /\ ptEvent' = {} /\ UNCHANGED <<ptAcc, ptTicks, ptScrolled>>
      /\ ptPos' = {[port |-> p, at |-> <<MapAxis(p, 1, x), MapAxis(p, 2, y)>>] : p \in ptPort'}
  BY DEF Point
<1>2. x \in Int /\ y \in Int /\ 0 \in Int BY PtAssumption
<1>3. ptPort' \subseteq ptEvent \cup ptPort BY <1>1 DEF PortToUse
<1>4. \A p \in ptEvent' \cup ptPort' : \E d \in PtDisplays : p = MakePort(d) BY <1>1, <1>3 DEF PtInv
<1>5. ASSUME NEW p \in ptPort', NEW axis \in {1, 2}, NEW v \in Int
      PROVE  /\ MapAxis(p, axis, v) \in 0 .. (2 * p.num * p.display[axis])
             /\ MapAxis(p, axis, 0) = 0 /\ MapAxis(p, axis, PtClient[axis]) = 2 * p.num * p.display[axis]
  <2>1. PICK d \in PtDisplays : p = MakePort(d) BY <1>4
  <2> QED BY <2>1, MapAxisFits
<1>6. ASSUME NEW r \in ptPos', NEW axis \in {1, 2} PROVE r.at[axis] \in 0 .. (2 * r.port.num * r.port.display[axis])
  <2>1. PICK p \in ptPort' : r = [port |-> p, at |-> <<MapAxis(p, 1, x), MapAxis(p, 2, y)>>] BY <1>1
  <2>2. r.port = p /\ r.at[1] = MapAxis(p, 1, x) /\ r.at[2] = MapAxis(p, 2, y) BY <2>1
  <2>3. CASE axis = 1 BY <2>2, <2>3, <1>2, <1>5
  <2>4. CASE axis = 2 BY <2>2, <2>4, <1>2, <1>5
  <2> QED BY <2>3, <2>4
<1>7. PointerOnDisplay' BY <1>2, <1>5, <1>6 DEF PointerOnDisplay
<1>8. ptAcc' \in Int /\ ptTicks' \in Int /\ ptScrolled' \in Int /\ ScrollConserved' BY <1>1 DEF PtInv, ScrollConserved
<1> QED BY <1>4, <1>7, <1>8 DEF PtInv

LEMMA PtInvStep == PtInv /\ [PtNext]_ptVars => PtInv'
<1> SUFFICES ASSUME PtInv, [PtNext]_ptVars PROVE PtInv' OBVIOUS
<1>1. CASE UNCHANGED ptVars BY <1>1 DEF PtInv, ptVars, ScrollConserved, PointerOnDisplay
<1>2. ASSUME NEW d \in PtDisplays, RaisePort(d) PROVE PtInv'
  BY <1>2 DEF RaisePort, PtInv, ScrollConserved, PointerOnDisplay
<1>3. ASSUME NEW x \in PtPoints, NEW y \in PtPoints, Point(x, y) PROVE PtInv' BY <1>3, PointKeeps
<1>4. ASSUME NEW delta \in PtDeltas, Scroll(delta) PROVE PtInv'
  <2>1. ptAcc' \in Int /\ ptTicks' \in Int /\ ptScrolled' \in Int /\ ScrollConserved' BY <1>4, ScrollKeeps DEF PtInv
  <2>2. UNCHANGED <<ptEvent, ptPort, ptPos>> BY <1>4 DEF Scroll
  <2> QED BY <2>1, <2>2 DEF PtInv, PointerOnDisplay
<1> QED BY <1>1, <1>2, <1>3, <1>4 DEF PtNext

\* What the operating system is told of held input, for any clients, keys,
\* pads, pointers and slots, the run moving one part at a time: buttons, keys,
\* gamepads, touches and the pen are down only as input.cpp and the Windows
\* back end's timers and slots account for.
THEOREM HeldInputStaysWithClients == MCSpec => []HeldInputFollowsClients
<1> DEFINE Inv == ImInv /\ IkInv /\ IpInv /\ TimersFindPads /\ WtInv /\ WtKept /\ WpInv
<1>0. IpInit => TimersFindPads BY DEF IpInit, TimersFindPads
<1>1. MCInit => Inv BY <1>0, ImInvInit, IkInvInit, IpInvInit, WtInvInit, WtKeptInit, WpInvInit DEF MCInit
<1>2. MCNext => [ImNext]_imVars /\ [IkNext]_ikVars /\ [IpNext]_ipVars /\ [WtNext]_wtVars /\ [WpNext]_wpVars
  <2>1. MCNext => ImNext \/ UNCHANGED imVars BY DEF MCNext, Rest
  <2>2. MCNext => IkNext \/ UNCHANGED ikVars BY DEF MCNext, Rest
  <2>3. MCNext => IpNext \/ UNCHANGED ipVars BY DEF MCNext, Rest
  <2>4. MCNext => WtNext \/ UNCHANGED wtVars BY DEF MCNext, Rest
  <2>5. MCNext => WpNext \/ UNCHANGED wpVars BY DEF MCNext, Rest
  <2> QED BY <2>1, <2>2, <2>3, <2>4, <2>5
<1>3. UNCHANGED mcVars => UNCHANGED imVars /\ UNCHANGED ikVars /\ UNCHANGED ipVars /\ UNCHANGED wtVars /\ UNCHANGED wpVars
  BY DEF mcVars
<1>4. Inv /\ [MCNext]_mcVars => Inv' BY <1>2, <1>3, ImInvStep, IkInvStep, IpInvStep, IpFindsStep, WtInvStep, WtKeptStep, WpInvStep
<1>5. Inv => HeldInputFollowsClients
  <2> SUFFICES ASSUME Inv PROVE HeldInputFollowsClients OBVIOUS
  <2>1. ImTypeOK /\ ButtonsFollowClients /\ HeldButtonsStay BY ImInvSound
  <2>2. IkTypeOK /\ OneRepeat /\ KeysFollowClients BY IkOneRepeat DEF IkInv
  <2>3. IpTypeOK /\ IdsAccountedFor /\ BackForcedUntilReleased BY DEF IpInv
  <2>4. SlotsCoverTouches /\ InteractionRefreshed /\ NoRefreshAfterClient BY WtInvSound DEF WtKept
  <2>5. ConnectedWhileAttached /\ ReportsRepeated /\ FingersApart BY WpInvSound
  <2> QED BY <2>1, <2>2, <2>3, <2>4, <2>5 DEF HeldInputFollowsClients
<1> QED BY <1>1, <1>4, <1>5, PTL DEF MCSpec

\* For any messages, permissions and displays, the run moving one part at a
\* time: every queued message keeps a turn of the pool coming, one device's
\* messages are passed on in their order, changes of state are never merged
\* away, positions fall on the display and scrolling is neither lost nor made.
THEOREM InputArrivesInOrder == MCSpec => []InputArrives
<1> DEFINE Inv == IqInv /\ PtInv
<1>1. MCInit => Inv BY IqInvInit, PtInvInit DEF MCInit
<1>2. MCNext => [IqNext]_iqVars /\ [PtNext]_ptVars
  <2>1. MCNext => IqNext \/ UNCHANGED iqVars BY DEF MCNext, Rest
  <2>2. MCNext => PtNext \/ UNCHANGED ptVars BY DEF MCNext, Rest
  <2> QED BY <2>1, <2>2
<1>3. UNCHANGED mcVars => UNCHANGED iqVars /\ UNCHANGED ptVars BY DEF mcVars
<1>4. Inv /\ [MCNext]_mcVars => Inv' BY <1>2, <1>3, IqInvStep, PtInvStep
<1>5. Inv => InputArrives
  <2> SUFFICES ASSUME Inv PROVE InputArrives OBVIOUS
  <2>1. IqTypeOK /\ TurnForEveryMessage /\ DeviceOrderKept /\ StateChangesArrive BY IqInvMeans
  <2>2. PointerOnDisplay /\ ScrollConserved BY DEF PtInv
  <2> QED BY <2>1, <2>2 DEF InputArrives
<1> QED BY <1>1, <1>4, <1>5, PTL DEF MCSpec
=============================================================================
