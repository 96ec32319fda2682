------------------------------ MODULE RtspServer ------------------------------
(***************************************************************************)
(* The RTSP server's connections (rtsp.cpp, socket_t): a connection takes  *)
(* the launch that is pending when it is accepted, reads one message, in   *)
(* the clear or encrypted with that launch's key, answers it and is shut   *)
(* down.  A message is measured in units: a header that ends in RsNeedle   *)
(* units of "\r\n\r\n", then its content.                                  *)
(***************************************************************************)
EXTENDS Naturals, FiniteSets

CONSTANTS
  RsConns,    \* connections
  RsLaunches, \* the launches, in the order they become pending
  RsEncrypted,\* the launches whose client asked for encrypted RTSP
  RsBuffer,   \* size of msg_buf
  RsHeader,   \* length of a message's header
  RsNeedle,   \* length of the needle that ends it
  RsMessages  \* what clients send: [key, content, sound]; key is the launch it is encrypted for, or 0

ASSUME RsAssumption ==
  /\ RsLaunches \in Nat /\ RsBuffer \in Nat \ {0}
  /\ RsHeader \in Nat /\ RsNeedle \in 1 .. RsHeader
  /\ \A m \in RsMessages : m.key \in Nat /\ m.content \in Nat

VARIABLES
  rsPending, \* launch_event, as a set
  rsConn,    \* the connections
  rsIv,      \* rtsp_iv_counter of each launch
  rsReplies  \* encrypted replies: [launch, iv, conn]

rsVars == <<rsPending, rsConn, rsIv, rsReplies>>

Whole(m) == RsHeader + m.content
IsEncrypted(c) == rsConn[c].launch \cap RsEncrypted # {}
Launch(c) == CHOOSE l \in rsConn[c].launch : TRUE

NewConn == [step |-> "new", launch |-> {}, msg |-> [key |-> 0, content |-> 0, sound |-> TRUE],
            got |-> 0, begin |-> 0, crlf |-> 0, split |-> FALSE, by |-> 0]

RsInit == rsPending = {} /\ rsConn = [c \in RsConns |-> NewConn] /\ rsIv = [l \in 1 .. RsLaunches |-> 0] /\ rsReplies = {}

PendingChanges ==
  /\ rsPending' \in {{}} \cup {{l} : l \in 1 .. RsLaunches} /\ rsPending' # rsPending
  /\ \A l \in rsPending' : \A k \in rsPending \cup UNION {rsConn[c].launch : c \in RsConns} : k <= l
  /\ UNCHANGED <<rsConn, rsIv, rsReplies>>

IvOfConnection(c, l) == rsIv[l] + 1 - Cardinality({r \in rsReplies : r.launch = l /\ r.conn # c})

\* respond counts the answer for every use of the launch's key.
NextIv(c, l) == rsIv[l] + 1

Respond(c) ==
  IF IsEncrypted(c)
  THEN LET l == Launch(c) IN
       /\ rsIv' = [rsIv EXCEPT ![l] = @ + 1]
       /\ rsReplies' = rsReplies \cup {[launch |-> l, iv |-> NextIv(c, l), conn |-> c]}
  ELSE UNCHANGED <<rsIv, rsReplies>>

Becomes(c, fields) == rsConn' = [rsConn EXCEPT ![c] = fields]

\* Every failed read or parse answers 400 and closes, except a failed read
\* of plaintext, which only closes.
Refused(c, conn) == Becomes(c, [conn EXCEPT !.step = "closed"]) /\ Respond(c)

Quietly(c, conn) == Becomes(c, [conn EXCEPT !.step = "closed"]) /\ UNCHANGED <<rsIv, rsReplies>>

\* handle_msg: the command, its answer, and the shutdown of the socket.
HandleMsg(c, conn) == Becomes(c, [conn EXCEPT !.step = "answered", !.by = conn.msg.key]) /\ Respond(c)

HandleAccept(c, m) ==
  /\ rsConn[c].step = "new"
  /\ Becomes(c, [NewConn EXCEPT !.step = IF rsPending = {} THEN "closed"
                                         ELSE IF rsPending \subseteq RsEncrypted THEN "enc_header" ELSE "header",
                                !.launch = rsPending, !.msg = m])
  /\ UNCHANGED <<rsPending, rsIv, rsReplies>>

\* read and read_plaintext_payload: the buffer must have room for more.
ReadOn(c, conn) ==
  IF conn.begin = RsBuffer THEN Refused(c, conn) ELSE Becomes(c, conn) /\ UNCHANGED <<rsIv, rsReplies>>

\* The content has arrived when Content-length units follow the header.
ContentArrived(end, conn) == end - conn.crlf >= conn.msg.content

HandlePlaintextPayload(c, conn, bytes) ==
  LET end == conn.begin + bytes
  IN CASE ~conn.msg.sound -> Refused(c, conn)
       [] conn.msg.sound /\ ContentArrived(end, conn) -> HandleMsg(c, [conn EXCEPT !.begin = end])
       [] OTHER -> ReadOn(c, [conn EXCEPT !.begin = end, !.step = "payload"])

\* The bytes of one read: what the client has sent, up to the buffer's end.
Reads(conn) == 1 .. (IF Whole(conn.msg) - conn.got < RsBuffer - conn.begin THEN Whole(conn.msg) - conn.got ELSE RsBuffer - conn.begin)

\* handle_read_plaintext searches the units of this read only: begin is
\* never moved back, std::max(begin - 4, begin) being begin.
HandleReadPlaintext(c) ==
  /\ rsConn[c].step = "header"
  /\ \E bytes \in Reads(rsConn[c]) :
       LET conn == [rsConn[c] EXCEPT !.got = @ + bytes,
                                     !.split = @ \/ (rsConn[c].got \in (RsHeader - RsNeedle + 1) .. (RsHeader - 1))]
           end == conn.begin + bytes
           found == RsHeader - RsNeedle >= conn.begin /\ RsHeader <= end
       IN IF ~found THEN ReadOn(c, [conn EXCEPT !.begin = end])
          ELSE HandlePlaintextPayload(c, [conn EXCEPT !.begin = RsHeader, !.crlf = RsHeader], end - RsHeader)
  /\ UNCHANGED rsPending

ReadPayload(c) ==
  /\ rsConn[c].step = "payload"
  /\ \E bytes \in Reads(rsConn[c]) : HandlePlaintextPayload(c, [rsConn[c] EXCEPT !.got = @ + bytes], bytes)
  /\ UNCHANGED rsPending

\* handle_read_encrypted_header: the type bit, and room for the payload.
HeaderAccepted(c) == rsConn[c].msg.key # 0 /\ Whole(rsConn[c].msg) < RsBuffer

HandleReadEncryptedHeader(c) ==
  /\ rsConn[c].step = "enc_header"
  /\ IF HeaderAccepted(c) THEN Becomes(c, [rsConn[c] EXCEPT !.step = "enc_payload", !.got = RsHeader]) /\ UNCHANGED <<rsIv, rsReplies>>
     ELSE Refused(c, rsConn[c])
  /\ UNCHANGED rsPending

\* handle_read_encrypted_message: the tag verifies under the key of the
\* connection's launch, and the plaintext parses.
Verified(c) == rsConn[c].msg.sound /\ rsConn[c].msg.key = Launch(c)

HandleReadEncryptedMessage(c) ==
  /\ rsConn[c].step = "enc_payload"
  /\ LET conn == [rsConn[c] EXCEPT !.got = Whole(rsConn[c].msg)]
     IN IF Verified(c) THEN HandleMsg(c, conn) ELSE Refused(c, conn)
  /\ UNCHANGED rsPending

\* The peer closes, or its read fails.
ReadFails(c) ==
  /\ rsConn[c].step \in {"header", "payload", "enc_header", "enc_payload"}
  /\ IF IsEncrypted(c) THEN Refused(c, rsConn[c]) ELSE Quietly(c, rsConn[c])
  /\ UNCHANGED rsPending

RsNext ==
  \/ PendingChanges
  \/ \E c \in RsConns :
       \/ \E m \in RsMessages : HandleAccept(c, m)
       \/ HandleReadPlaintext(c) \/ ReadPayload(c)
       \/ HandleReadEncryptedHeader(c) \/ HandleReadEncryptedMessage(c)
       \/ ReadFails(c)

RsSpec == RsInit /\ [][RsNext]_rsVars

-----------------------------------------------------------------------------
\* A command runs only when the whole of its message has arrived, whatever
\* the reads it arrived in.
RsWholeMessages == \A c \in RsConns : rsConn[c].step = "answered" => rsConn[c].got >= Whole(rsConn[c].msg)

\* A sound message that fits the buffer and has arrived is never left
\* waiting for more, unless the end of its header was split by two reads.
RsStalledOnlyBySplit ==
  \A c \in RsConns : LET conn == rsConn[c] IN
    /\ conn.step \in {"header", "payload"} /\ conn.msg.sound
    /\ conn.got = Whole(conn.msg)
    => conn.split

\* A launch whose client asked for encryption is acted on only by messages
\* under its own key: neither plaintext nor another launch's client.
RsOnlyKeyHolder ==
  \A c \in RsConns : rsConn[c].step = "answered" /\ IsEncrypted(c) => rsConn[c].by = Launch(c)

\* No two answers under one launch's key use the same IV, although several
\* connections answer for the launch.
RsReplyIvFresh == \A r, s \in rsReplies : r.launch = s.launch /\ r.iv = s.iv => r = s

\* Messages are acted on whole, by those who hold the key, and are answered
\* under fresh IVs.
RtspSound ==
  /\ RsWholeMessages
  /\ RsStalledOnlyBySplit
  /\ RsOnlyKeyHolder
  /\ RsReplyIvFresh
=============================================================================
