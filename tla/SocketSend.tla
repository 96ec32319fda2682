----------------------------- MODULE SocketSend -----------------------------
(***************************************************************************)
(* Handing a frame's shards to the network: the batches of the video       *)
(* broadcast thread (stream.cpp), platf::send_batch and platf::send of     *)
(* Linux (segmentation offload, then sendmmsg) and of Windows, and the     *)
(* packet by packet sending that takes over when a batch fails.            *)
(*                                                                         *)
(* Offsets and sizes of the payload buffers, which are aligned to the      *)
(* payload size, are counted in blocks.  A block is identified by where    *)
(* its bytes lie, its header by its index.                                 *)
(***************************************************************************)
EXTENDS Integers, Sequences

CONSTANTS SkFrames,  \* frames: [data |-> whole shards of the payload, rest |-> padded and parity shards]
          SkBatch,   \* send_batch_size
          SkSegMax   \* seg_max of the Linux offload

ASSUME SkAssumption ==
  /\ {SkBatch, SkSegMax} \subseteq Nat \ {0}
  /\ \A f \in SkFrames : {f.data, f.rest} \subseteq Nat /\ f.data + f.rest > 0

VARIABLES
  skEnv,     \* platform, whether it can offload segmentation, the frame
  skPc,      \* "next", "offload", "messages", "packets" or "done"
  skNext,    \* next_shard_to_send
  skSent,    \* seg_index, blocks_sent or y
  skWire,    \* how often each header and block went out together
  skGivenUp, \* shards given up after a failed poll or a failed send
  skBroken   \* first shards of the batches in which a call failed although it is supported

skVars == <<skEnv, skPc, skNext, skSent, skWire, skGivenUp, skBroken>>

SkTotal == skEnv.frame.data + skEnv.frame.rest
SkSmaller(a, b) == IF a < b THEN a ELSE b

\* fec_t.data: where a shard's bytes were put.
ShardData(x) ==
  IF x < skEnv.frame.data THEN <<"payload", x>> ELSE <<"shards", x - skEnv.frame.data>>

-----------------------------------------------------------------------------
(* Messages *)

\* buffer_for_payload_offset: where an offset falls in the two buffers.
BufferForPayloadOffset(offset) ==
  IF offset < skEnv.frame.data
  THEN [place |-> "payload", from |-> offset]
  ELSE [place |-> "shards", from |-> offset - skEnv.frame.data]

\* The blocks of a message that starts some blocks into the batch.  headers is
\* never null, not even when the headers are empty, so every block is looked
\* up on its own.
Blocks(offset, start, count) ==
  [i \in 1..count |-> LET desc == BufferForPayloadOffset(offset + start + i - 1)
                      IN  <<desc.place, desc.from>>]

\* The headers that are interleaved with them.
HeadersOf(offset, start, count) == [i \in 1..count |-> offset + start + i - 1]

\* Datagrams leave: segmentation cuts a message into its blocks.
Emit(offset, start, count) ==
  LET blocks == Blocks(offset, start, count)
      headers == HeadersOf(offset, start, count)
      sent == {<<headers[i], blocks[i]>> : i \in 1..count}
  IN  skWire' = [d \in DOMAIN skWire \cup sent |->
                   (IF d \in DOMAIN skWire THEN skWire[d] ELSE 0) + (IF d \in sent THEN 1 ELSE 0)]

-----------------------------------------------------------------------------
(* A batch *)

BatchCount == SkSmaller(SkTotal - skNext, SkBatch)

\* The batch is over: the next one starts after it.
BatchDone ==
  /\ skNext' = skNext + BatchCount /\ skSent' = 0
  /\ skPc' = IF skNext + BatchCount = SkTotal THEN "done" ELSE "next"

\* send_batch returned false: each packet is sent on its own.
FallBack == skPc' = "packets" /\ skSent' = 0 /\ UNCHANGED skNext

\* The thread has collected a batch and calls send_batch.
StartBatch ==
  /\ skPc = "next" /\ skPc' = "offload" /\ skSent' = 0
  /\ UNCHANGED <<skEnv, skNext, skWire, skGivenUp, skBroken>>

SegsInBatch == SkSmaller(BatchCount - skSent, IF skEnv.platform = "linux" THEN SkSegMax ELSE BatchCount)

\* A call that needs no offload, or has it.
OffloadSupported(segs) == segs = 1 \/ skEnv.offload

\* Everything was sent, so send_batch returns true.
OffloadComplete == BatchDone

OffloadSent ==
  /\ skPc = "offload" /\ OffloadSupported(SegsInBatch)
  /\ Emit(skNext, skSent, SegsInBatch)
  /\ IF skSent + SegsInBatch = BatchCount
     THEN OffloadComplete
     ELSE skSent' = skSent + SegsInBatch /\ UNCHANGED <<skPc, skNext>>
  /\ UNCHANGED <<skEnv, skGivenUp, skBroken>>

PartIsEnough ==
  CASE skEnv.platform = "linux" /\ skSent = 0 -> skPc' = "messages" /\ skSent' = 0 /\ UNCHANGED skNext
    [] skEnv.platform = "linux" /\ skSent # 0 -> BatchDone
    [] OTHER -> FallBack

\* After a failed call: Linux goes on with sendmmsg if nothing was sent, and
\* otherwise reports the failure, as Windows does.
OffloadGivesUp ==
  IF skEnv.platform = "linux" /\ skSent = 0
  THEN skPc' = "messages" /\ skSent' = 0 /\ UNCHANGED skNext
  ELSE FallBack

\* sendmsg or WSASendMsg fails, or on Linux the poll for buffer space does.
OffloadFails ==
  /\ skPc = "offload" /\ OffloadGivesUp
  /\ skBroken' = IF OffloadSupported(SegsInBatch) THEN skBroken \cup {skNext} ELSE skBroken
  /\ UNCHANGED <<skEnv, skWire, skGivenUp>>

\* sendmmsg takes some of the messages that are left.
SendMmsg(n) ==
  /\ skPc = "messages" /\ n \in 1..(BatchCount - skSent)
  /\ Emit(skNext, skSent, n)
  /\ IF skSent + n = BatchCount
     THEN BatchDone
     ELSE skSent' = skSent + n /\ UNCHANGED <<skPc, skNext>>
  /\ UNCHANGED <<skEnv, skGivenUp, skBroken>>

SendMmsgFails ==
  /\ skPc = "messages" /\ FallBack
  /\ skBroken' = skBroken \cup {skNext}
  /\ UNCHANGED <<skEnv, skWire, skGivenUp>>

\* A failed poll ends the loop, and send_batch reports success.
SendMmsgPollFails ==
  /\ skPc = "messages" /\ BatchDone
  /\ skGivenUp' = skGivenUp \cup (skNext + skSent)..(skNext + BatchCount - 1)
  /\ UNCHANGED <<skEnv, skWire, skBroken>>

-----------------------------------------------------------------------------
(* Packet by packet *)

NextPacket ==
  IF skSent + 1 = BatchCount THEN BatchDone ELSE skSent' = skSent + 1 /\ UNCHANGED <<skPc, skNext>>

\* platf::send: header and shards.data of one packet.
SendPacket ==
  LET x == skNext + skSent
      d == <<x, ShardData(x)>>
  IN
  /\ skPc = "packets"
  /\ skWire' = [e \in DOMAIN skWire \cup {d} |->
                  (IF e \in DOMAIN skWire THEN skWire[e] ELSE 0) + (IF e = d THEN 1 ELSE 0)]
  /\ NextPacket
  /\ UNCHANGED <<skEnv, skGivenUp, skBroken>>

\* The result of send is not looked at.
SendPacketFails ==
  /\ skPc = "packets"
  /\ skGivenUp' = skGivenUp \cup {skNext + skSent}
  /\ NextPacket
  /\ UNCHANGED <<skEnv, skWire, skBroken>>

SkEnvs == [platform : {"linux", "windows"}, offload : BOOLEAN, frame : SkFrames]

SkInit ==
  /\ skEnv \in SkEnvs
  /\ skPc = "next" /\ skNext = 0 /\ skSent = 0
  /\ skWire = [d \in {} |-> 0] /\ skGivenUp = {} /\ skBroken = {}

SkStep ==
  \/ StartBatch \/ OffloadSent \/ OffloadFails
  \/ \E n \in 1..SkBatch : SendMmsg(n)
  \/ SendMmsgFails \/ SendMmsgPollFails
  \/ SendPacket \/ SendPacketFails

SkSpec == SkInit /\ [][SkStep]_skVars

-----------------------------------------------------------------------------
(* Properties *)

\* Every datagram is a shard under its own header, whichever of the four ways
\* of sending it was taken and wherever a message crosses from the payload
\* into the buffer with the padded shard and the parity.
DatagramsWhole == \A d \in DOMAIN skWire : d[1] \in 0..(SkTotal - 1) /\ d[2] = ShardData(d[1])

\* When the frame is over, every shard went out unless a poll failed or the
\* last way of sending it did: the offload failing half way loses nothing.
EveryShardSent ==
  skPc = "done" => \A x \in 0..(SkTotal - 1) : x \in skGivenUp \/ \E d \in DOMAIN skWire : d[1] = x

\* A shard goes out twice only in a batch in which a supported call failed:
\* a platform without offload costs no duplicates.
NoNeedlessDuplicates ==
  \A d \in DOMAIN skWire :
    skWire[d] > 1 => \E first \in skBroken : d[1] \in first..(first + SkBatch - 1)
=============================================================================
