--------------------------- MODULE ControlChannel ---------------------------
(***************************************************************************)
(* The control stream of a session (stream.cpp): which messages of the     *)
(* client take effect, and how feedback for gamepads and the HDR mode find *)
(* their way back to it.  The session's life is StreamLifecycle's.         *)
(***************************************************************************)
EXTENDS Naturals, Sequences, FiniteSets

CONSTANTS CcMaxFeedback, \* queue_t's max_elements
          CcMaxRaised    \* bound: feedback messages and HDR modes raised

ASSUME CcAssumption == CcMaxFeedback \in Nat \ {0} /\ CcMaxRaised \in Nat

CcActs == {"idr", "invalidate", "input", "command"}
CcInfo == {"ping", "start", "loss", "clipboard", "nonce"}
CcTypes == CcActs \cup CcInfo \cup {"encrypted", "unknown"}

VARIABLES
  ccEncrypted, \* controlProtocolType = 13
  ccPeer,      \* session->control.peer
  ccStopped,   \* session::stop was called
  ccLoop,      \* the control thread goes round its loop; it does not while
               \* launch_session_clear waits in launch_event.pop()
  ccAllowed,   \* the session's permission, as the acts it allows
  ccDone,      \* what the last message did: the act, if its message was authentic
               \* and whether it was allowed then
  ccFeedback,  \* feedback_queue
  ccHdr,       \* hdr_queue, an event: 0 for none
  ccRaised,    \* last feedback message and last HDR mode raised
  ccSent       \* last feedback message and last HDR mode handed to the peer

ccVars == <<ccEncrypted, ccPeer, ccStopped, ccLoop, ccAllowed, ccDone, ccFeedback, ccHdr, ccRaised, ccSent>>

-----------------------------------------------------------------------------
(* Messages of the client *)

\* A client whose permission is missing is heard and ignored.
NeedsPermission(act) == act \in {"input", "command"}
Acts(act, authentic) ==
  IF act \in CcActs /\ (NeedsPermission(act) => act \in ccAllowed)
  THEN ccDone' = {[act |-> act, authentic |-> authentic, allowed |-> act \in ccAllowed]}
  ELSE ccDone' = {}

\* IDX_INPUT_DATA is encrypted by itself: a bad tag stops the session.
InputData(tagOk) ==
  IF tagOk THEN Acts("input", TRUE) /\ UNCHANGED ccStopped
  ELSE ccStopped' = TRUE /\ ccDone' = {}

\* control_server_t::call for a message that came off the wire.
Call(type, tagOk) ==
  IF ccEncrypted \/ type \in {"unknown", "encrypted"} THEN ccDone' = {} /\ UNCHANGED ccStopped
  ELSE IF type = "input" THEN InputData(tagOk) ELSE Acts(type, FALSE) /\ UNCHANGED ccStopped

\* IDX_ENCRYPTED: too short is ignored, a bad tag or an encrypted message
\* inside stops the session; the rest is called again as reinjected, except
\* input, which is passed on at once.
Encrypted(inner, tagOk, runt) ==
  IF runt THEN ccDone' = {} /\ UNCHANGED ccStopped
  ELSE IF ~tagOk \/ inner = "encrypted" THEN ccStopped' = TRUE /\ ccDone' = {}
  ELSE Acts(inner, TRUE) /\ UNCHANGED ccStopped

ReceiveKeepsPeer == UNCHANGED <<ccEncrypted, ccPeer, ccLoop, ccAllowed, ccFeedback, ccHdr, ccRaised, ccSent>>

ReceivePlain(type, tagOk) ==
  /\ ccLoop /\ ccPeer /\ ~ccStopped
  /\ Call(type, tagOk) /\ ReceiveKeepsPeer

\* The handler of IDX_ENCRYPTED runs whatever the protocol.
ReceiveEncrypted(inner, tagOk, runt) ==
  /\ ccLoop /\ ccPeer /\ ~ccStopped
  /\ Encrypted(inner, tagOk, runt) /\ ReceiveKeepsPeer

\* update_device_info changes the permission while the stream runs.
PermissionChanges(acts) ==
  /\ ~ccStopped /\ ccAllowed' = acts /\ ccDone' = {}
  /\ UNCHANGED <<ccEncrypted, ccPeer, ccStopped, ccLoop, ccFeedback, ccHdr, ccRaised, ccSent>>

-----------------------------------------------------------------------------
(* Messages to the client *)

FeedbackRefused(queue, msg) == IF Len(queue) = CcMaxFeedback THEN queue ELSE Append(queue, msg)

\* queue_t::raise forgets what it holds when it is full.
FeedbackQueued(queue, msg) == IF Len(queue) = CcMaxFeedback THEN <<msg>> ELSE Append(queue, msg)

RaiseFeedback ==
  /\ ~ccStopped /\ ccRaised.feedback < CcMaxRaised
  /\ ccRaised' = [ccRaised EXCEPT !.feedback = @ + 1]
  /\ ccFeedback' = FeedbackQueued(ccFeedback, ccRaised'.feedback)
  /\ UNCHANGED <<ccEncrypted, ccPeer, ccStopped, ccLoop, ccAllowed, ccDone, ccHdr, ccSent>>

\* An event keeps the newest value.
RaiseHdr ==
  /\ ~ccStopped /\ ccRaised.hdr < CcMaxRaised
  /\ ccRaised' = [ccRaised EXCEPT !.hdr = @ + 1]
  /\ ccHdr' = ccRaised'.hdr
  /\ UNCHANGED <<ccEncrypted, ccPeer, ccStopped, ccLoop, ccAllowed, ccDone, ccFeedback, ccSent>>

\* One turn of controlBroadcastThread: the queues wait for the peer, then are
\* emptied through send_feedback_msg and send_hdr_mode.
LoopSendsMessages ==
  /\ ccLoop /\ ~ccStopped /\ ccPeer /\ (ccFeedback # << >> \/ ccHdr # 0)
  /\ ccFeedback' = << >> /\ ccHdr' = 0
  /\ ccSent' = [feedback |-> IF ccFeedback # << >> THEN ccFeedback[Len(ccFeedback)] ELSE ccSent.feedback,
                hdr |-> IF ccHdr # 0 THEN ccHdr ELSE ccSent.hdr]
  /\ UNCHANGED <<ccEncrypted, ccPeer, ccStopped, ccLoop, ccAllowed, ccDone, ccRaised>>

-----------------------------------------------------------------------------
(* The connection *)

\* get_session: the peer is set when launch_session_clear has returned.
PeerConnects ==
  /\ ccLoop /\ ~ccStopped /\ ~ccPeer /\ ccPeer' = TRUE
  /\ UNCHANGED <<ccEncrypted, ccStopped, ccLoop, ccAllowed, ccDone, ccFeedback, ccHdr, ccRaised, ccSent>>

\* For this peer or another, launch_session_clear finds its launch discarded
\* after it has seen it, and waits for the next one (LaunchSlot's Pop).
LoopWaits ==
  /\ ccLoop /\ ccLoop' = FALSE
  /\ UNCHANGED <<ccEncrypted, ccPeer, ccStopped, ccAllowed, ccDone, ccFeedback, ccHdr, ccRaised, ccSent>>

LoopGoesOn ==
  /\ ~ccLoop /\ ccLoop' = TRUE
  /\ UNCHANGED <<ccEncrypted, ccPeer, ccStopped, ccAllowed, ccDone, ccFeedback, ccHdr, ccRaised, ccSent>>

\* The loop's ping timeout, with or without a peer, or another thread's stop.
SessionStops ==
  /\ ~ccStopped /\ ccStopped' = TRUE
  /\ UNCHANGED <<ccEncrypted, ccPeer, ccLoop, ccAllowed, ccDone, ccFeedback, ccHdr, ccRaised, ccSent>>

CcInit ==
  /\ ccEncrypted \in BOOLEAN /\ ccPeer = FALSE /\ ccStopped = FALSE /\ ccLoop = TRUE
  /\ ccAllowed \in SUBSET {"input", "command"} /\ ccDone = {}
  /\ ccFeedback = << >> /\ ccHdr = 0
  /\ ccRaised = [feedback |-> 0, hdr |-> 0] /\ ccSent = [feedback |-> 0, hdr |-> 0]

CcNext ==
  \/ \E type \in CcTypes, tagOk \in BOOLEAN :
       \/ ReceivePlain(type, tagOk)
       \/ \E runt \in BOOLEAN : ReceiveEncrypted(type, tagOk, runt)
  \/ \E acts \in SUBSET {"input", "command"} : PermissionChanges(acts)
  \/ RaiseFeedback \/ RaiseHdr \/ LoopSendsMessages
  \/ PeerConnects \/ LoopWaits \/ LoopGoesOn \/ SessionStops

\* While it is not held up, the control thread goes around its loop; the
\* network may never connect, and nobody need launch anything.
CcFairness == WF_ccVars(LoopSendsMessages)

CcSpec == CcInit /\ [][CcNext]_ccVars /\ CcFairness

-----------------------------------------------------------------------------
(* Properties *)

CcTypeOK ==
  /\ Len(ccFeedback) <= CcMaxFeedback /\ ccHdr \in 0..CcMaxRaised
  /\ ccSent.feedback <= ccRaised.feedback /\ ccSent.hdr <= ccRaised.hdr
  /\ ccAllowed \subseteq CcActs

\* On an encrypted control stream nothing happens but for a message that was
\* authenticated; and input takes an authentic message on any stream.
OnlyAuthenticatedActs ==
  \A d \in ccDone : (ccEncrypted \/ d.act = "input" => d.authentic) /\ (NeedsPermission(d.act) => d.allowed)

\* The newest feedback for the client's gamepads is never lost on the way to
\* its connection, not by a full queue and not for want of a peer.
NewestFeedbackKept ==
  ccRaised.feedback > ccSent.feedback => ccFeedback # << >> /\ ccFeedback[Len(ccFeedback)] = ccRaised.feedback

\* Once its peer is connected the client learns the newest HDR mode and the
\* newest feedback, unless the session ends or the loop is held up by a peer
\* whose launch was discarded as it connected.
ClientLearnsNewest ==
  /\ (ccPeer /\ ccSent.hdr < ccRaised.hdr) ~> (ccSent.hdr = ccRaised.hdr \/ ccStopped \/ ~ccLoop)
  /\ (ccPeer /\ ccSent.feedback < ccRaised.feedback) ~> (ccSent.feedback = ccRaised.feedback \/ ccStopped \/ ~ccLoop)

\* Only authenticated, permitted messages act, and the client's newest
\* feedback waits for it.
ControlChannelSound == CcTypeOK /\ OnlyAuthenticatedActs /\ NewestFeedbackKept
=============================================================================
