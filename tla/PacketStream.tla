---------------------------- MODULE PacketStream ----------------------------
(***************************************************************************)
(* Video and audio packets (stream.cpp): how the broadcast threads cut a   *)
(* frame into packets and forward error correction blocks, number and      *)
(* encrypt them, and how audio packets and their parity are numbered.      *)
(*                                                                         *)
(* Sizes are in bytes of a scaled down packet; numbers keep their width.   *)
(***************************************************************************)
EXTENDS FiniteSets, Integers, Sequences

CONSTANTS PkSlice,      \* payload_blocksize: payload bytes of a packet
          PkHeader,     \* sizeof(video_packet_raw_t)
          PkShort,      \* sizeof(video_short_frame_header_t)
          PkMaxShards,  \* DATA_SHARDS_MAX
          PkFec,        \* values of fec_percentage
          PkMinimum,    \* values of minRequiredFecPackets
          PkWidth,      \* sequence numbers are modulo this, a multiple of 4
          PkKeyIds,     \* values of avRiKeyId
          PkIvs,        \* the number of an audio IV is modulo this
          PkSizes,      \* sizes of encoded frames
          PkMaxFrames   \* bound: frames sent

\* A packet has at least as many bytes as a frame has blocks.
ASSUME PkAssumption ==
  /\ {PkSlice, PkHeader, PkShort, PkMaxShards, PkWidth, PkIvs} \subseteq Nat \ {0} /\ PkWidth % 4 = 0
  /\ PkWidth <= PkIvs /\ PkKeyIds \subseteq Nat
  /\ PkFec \cup PkMinimum \cup PkSizes \subseteq Nat /\ PkHeader + PkSlice >= 4

VARIABLES
  pkConfig,  \* settings, and which of the two threads, which share nothing, is followed
  pkLowseq,  \* session->video.lowseq, the part of it that is sent
  pkIv,      \* session->video.gcm_iv_counter
  pkUsedIvs, \* the counters used so far
  pkFrame,   \* what was sent of the last frame
  pkPrev,    \* lowseq before the last frame
  pkCount,   \* frames so far
  pkAudio,   \* the session's audio state
  pkAudioIvs \* the audio IVs used, how many packets took one, and whether one came again

pkVideoVars == <<pkLowseq, pkIv, pkUsedIvs, pkFrame, pkPrev, pkCount>>
pkVars == <<pkConfig, pkLowseq, pkIv, pkUsedIvs, pkFrame, pkPrev, pkCount, pkAudio, pkAudioIvs>>

CeilDiv(a, b) == (a + b - 1) \div b
PkLeast(a, b) == IF a < b THEN a ELSE b
PkBlocksize == PkHeader + PkSlice
MaxFecBlocks == 4

-----------------------------------------------------------------------------
(* A frame *)

\* replace: parameter sets of a key frame are exchanged for longer ones.
Replaced(size, idr, found) == IF idr /\ found THEN size + 1 ELSE size

\* lastPayloadLen, which tells the client where the frame ends.
LastPayloadLen(size) ==
  LET rest == (size + PkShort) % PkSlice IN IF rest = 0 THEN PkSlice ELSE rest

\* concat_and_insert: a header before every slice of frame header and frame.
ConcatAndInsert(size) ==
  LET data == size + PkShort IN CeilDiv(data, PkSlice) * PkHeader + data

\* D = 255 - P and P = D * F.
MaxDataShards(fec) == (PkMaxShards * 100) \div (100 + fec)

\* Split into blocks of whole packets; the last takes what is left.
Split(total, blocks) ==
  LET aligned == CeilDiv(total \div blocks, PkBlocksize) * PkBlocksize
  IN  [b \in 1..blocks |-> IF b = blocks THEN total - (b - 1) * aligned ELSE aligned]

\* fec::encode: data and parity shards of one block. The client's minimum is
\* taken as it is.
FecEncode(bytes, fec, minimum) ==
  LET data == CeilDiv(bytes, PkBlocksize)
      asked == CeilDiv(data * fec, 100)
      raise == asked < minimum /\ fec # 0
  IN  [data |-> data, parity |-> IF raise THEN minimum ELSE asked,
       percentage |-> IF raise THEN (100 * minimum) \div data ELSE fec]

\* The percentage is at most 255: a full block has room for a packet of every
\* block.
ASSUME PkBlockAssumption == \A fec \in PkFec : MaxDataShards(fec) >= MaxFecBlocks

\* The blocks of a frame; a frame that needs too many goes without parity.
FecBlocks(size, config) ==
  LET total == ConcatAndInsert(size)
      needed == CeilDiv(total, MaxDataShards(config.fec) * PkBlocksize)
      fec == IF needed > MaxFecBlocks THEN 0 ELSE config.fec
      sizes == Split(total, PkLeast(needed, MaxFecBlocks))
  IN  [b \in DOMAIN sizes |-> FecEncode(sizes[b], fec, config.minimum)]

Shards(block) == block.data + block.parity

\* reed_solomon_new gives no code for so many shards, which the caller does not
\* notice.
NoCodeFor(block) == block.parity > 0 /\ Shards(block) > PkMaxShards

ShardsBefore(blocks, b) ==
  LET before[i \in 0..Len(blocks)] == IF i = 0 THEN 0 ELSE before[i - 1] + Shards(blocks[i])
  IN  before[b - 1]

\* RTP sequence number of the first shard of a block: lowseq grows by the
\* shards of every block before.
BlockLowseq(blocks, b) == ShardsBefore(blocks, b)

\* One counter for every shard that is encrypted.
IvsOf(first, n) == first..(first + n - 1)

\* The sequence number after some shards: sixteen bits of it are sent.
NextLowseq(low, sent) == (low + sent) % PkWidth

\* A frame is sent; an exception after some of its blocks leaves lowseq as it
\* was, while the counter of the encrypted packets has moved on. A block that
\* has no code crashes the process unless its memory cannot be had.
SendFrame(size, idr, found, done, crashes) ==
  LET blocks == FecBlocks(Replaced(size, idr, found), pkConfig)
      sentBlocks == PkLeast(done, Len(blocks))
      sent == ShardsBefore(blocks, sentBlocks + 1)
  IN
  /\ pkConfig.media = "video" /\ pkCount < PkMaxFrames /\ ~pkFrame.crashed
  /\ \A b \in 1..sentBlocks : ~NoCodeFor(blocks[b])
  /\ crashes => sentBlocks < Len(blocks) /\ NoCodeFor(blocks[sentBlocks + 1])
  /\ pkCount' = pkCount + 1 /\ pkPrev' = pkLowseq
  /\ pkFrame' = [size |-> Replaced(size, idr, found), blocks |-> blocks, sent |-> sentBlocks, crashed |-> crashes,
                 lastLen |-> LastPayloadLen(Replaced(size, idr, found)),
                 seqs |-> [b \in 1..sentBlocks |-> NextLowseq(pkLowseq, BlockLowseq(blocks, b))]]
  /\ pkLowseq' = IF sentBlocks = Len(blocks) THEN NextLowseq(pkLowseq, sent) ELSE pkLowseq
  /\ pkIv' = IF pkConfig.encrypted THEN pkIv + sent ELSE pkIv
  /\ pkUsedIvs' = IF pkConfig.encrypted
                  THEN [ivs |-> pkUsedIvs.ivs \cup IvsOf(pkIv, sent), packets |-> pkUsedIvs.packets + sent]
                  ELSE pkUsedIvs
  /\ UNCHANGED <<pkConfig, pkAudio, pkAudioIvs>>

-----------------------------------------------------------------------------
(* Audio: four data packets, then two of parity *)

RtpaDataShards == 4

\* The parity is generated with the last packet of a block.
EndsFecBlock(seq) == (seq + 1) % RtpaDataShards = 0

\* The IV of a packet: avRiKeyId and the packet's number of sixteen bits.
AudioIv(seq) == (pkConfig.key + seq) % PkIvs

\* A packet is encoded into its shard and numbered, and sent unless that
\* throws; the block's base number is written after its first packet is sent.
SendAudio(throws) ==
  LET seq == pkAudio.seq
      shards == [pkAudio.shards EXCEPT ![seq % RtpaDataShards] = seq]
      base == IF ~throws /\ seq % RtpaDataShards = 0 THEN seq ELSE pkAudio.base
      failed == IF seq % RtpaDataShards = 0 THEN throws ELSE pkAudio.failed
  IN
  /\ pkConfig.media = "audio" /\ pkAudio.running
  /\ pkAudio' = [pkAudio EXCEPT !.seq = (seq + 1) % PkWidth, !.shards = shards, !.base = base,
                                !.failed = failed, !.sent = seq,
                                !.parity = IF ~throws /\ EndsFecBlock(seq)
                                           THEN [base |-> base, covers |-> {shards[i] : i \in 0..3}]
                                           ELSE [base |-> 0, covers |-> {}]]
  /\ pkAudioIvs' = IF pkConfig.encrypted
                   THEN [ivs |-> pkAudioIvs.ivs \cup {AudioIv(seq)},
                         packets |-> PkLeast(pkAudioIvs.packets + 1, PkWidth + 1),
                         again |-> pkAudioIvs.again \/ AudioIv(seq) \in pkAudioIvs.ivs]
                   ELSE pkAudioIvs
  /\ UNCHANGED <<pkConfig, pkVideoVars>>

\* A packet that cannot be encrypted ends the thread.
AudioEncodeFails ==
  /\ pkConfig.media = "audio" /\ pkAudio.running /\ pkConfig.encrypted
  /\ pkAudio' = [pkAudio EXCEPT !.running = FALSE]
  /\ UNCHANGED <<pkConfig, pkVideoVars, pkAudioIvs>>

PkNoFrame == [size |-> 0, blocks |-> << >>, sent |-> 0, crashed |-> FALSE, lastLen |-> PkSlice, seqs |-> << >>]

PkConfigs == [fec : PkFec, minimum : PkMinimum, encrypted : BOOLEAN, media : {"video", "audio"}, key : PkKeyIds]

\* alloc: the numbers start at zero.
PkInit ==
  /\ pkConfig \in PkConfigs
  /\ pkLowseq = 0 /\ pkIv = 0 /\ pkPrev = 0 /\ pkCount = 0 /\ pkFrame = PkNoFrame
  /\ pkUsedIvs = [ivs |-> {}, packets |-> 0]
  /\ pkAudio = [seq |-> 0, sent |-> 0, base |-> 0, failed |-> FALSE, running |-> TRUE,
                shards |-> [i \in 0..3 |-> 0], parity |-> [base |-> 0, covers |-> {}]]
  /\ pkAudioIvs = [ivs |-> {}, packets |-> 0, again |-> FALSE]

PkNext ==
  \/ \E size \in PkSizes, idr, found, crashes \in BOOLEAN, done \in 0..MaxFecBlocks :
       SendFrame(size, idr, found, done, crashes)
  \/ \E throws \in BOOLEAN : SendAudio(throws)
  \/ AudioEncodeFails

PkSpec == PkInit /\ [][PkNext]_pkVars

-----------------------------------------------------------------------------
(* Properties *)

PkTypeOK ==
  /\ pkLowseq \in 0..(PkWidth - 1) /\ pkIv \in Nat /\ pkAudio.seq \in 0..(PkWidth - 1)
  /\ \A b \in DOMAIN pkFrame.blocks : Shards(pkFrame.blocks[b]) >= 1

\* The packets of some blocks, without parity.
PacketsOf(blocks) ==
  LET packets[i \in 0..Len(blocks)] == IF i = 0 THEN 0 ELSE packets[i - 1] + blocks[i].data
  IN  packets[Len(blocks)]

\* Every packet of the frame is in one block and there are at most four. A
\* block has more shards than the Reed-Solomon code can have, and ends the
\* process, only if the client wants more packets of parity than a full block
\* of data leaves room for.
BlocksCoverFrame ==
  /\ Len(pkFrame.blocks) <= MaxFecBlocks
  /\ pkCount > 0 => PacketsOf(pkFrame.blocks) = CeilDiv(pkFrame.size + PkShort, PkSlice)
  /\ pkFrame.crashed => pkConfig.minimum > PkMaxShards - MaxDataShards(pkConfig.fec)

\* The client finds the frame's length from the packets and lastPayloadLen.
FrameLengthRecoverable ==
  pkCount > 0 =>
    (CeilDiv(pkFrame.size + PkShort, PkSlice) - 1) * PkSlice + pkFrame.lastLen = pkFrame.size + PkShort

\* The shards of a frame's blocks, parity included, take consecutive sequence
\* numbers, and a frame that was sent is followed by the next number.
SequenceContiguous ==
  LET blocks == pkFrame.blocks IN
  /\ \A b \in 1..(pkFrame.sent - 1) :
       pkFrame.seqs[b + 1] = (pkFrame.seqs[b] + Shards(blocks[b])) % PkWidth
  /\ pkFrame.sent > 0 => pkFrame.seqs[1] = pkPrev
  /\ pkFrame.sent > 0 /\ pkFrame.sent = Len(blocks)
       => pkLowseq = (pkFrame.seqs[pkFrame.sent] + Shards(blocks[pkFrame.sent])) % PkWidth

\* Encrypted packets of video never share an IV, even after a frame that
\* failed; of audio only when the sequence number has come around.
IvNotReusedEarly ==
  /\ Cardinality(pkUsedIvs.ivs) = pkUsedIvs.packets
  /\ pkAudioIvs.again => pkAudioIvs.packets > PkWidth

\* Audio parity is computed from the four packets that end with the last one,
\* and says so, unless sending the first of them failed.
AudioParityCovers ==
  pkAudio.parity.covers # {} =>
    /\ pkAudio.parity.covers = {(pkAudio.sent - i) % PkWidth : i \in 0..3}
    /\ pkAudio.parity.base = (pkAudio.sent - 3) % PkWidth \/ pkAudio.failed
=============================================================================
