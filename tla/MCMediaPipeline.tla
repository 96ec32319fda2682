--------------------------- MODULE MCMediaPipeline --------------------------
(* Displays, capture, the choice of an encoder, encoding and sending.  The *)
(* parts are checked in one run but do not interact: `part' says which of  *)
(* them moves, and the others stay where they start.                       *)
EXTENDS VideoCapture, EncoderProbe, DuplicationCapture, SharedImages,
        WgcCapture, KmsCapture, DisplayLayout, EncodeLoop, NvEnc,
        PacketStream, SocketSend

VARIABLE part  \* the part that moves

MCEpKinds ==
  LET all == {"supported", "autoselect", "maxRefFrames", "hdr", "yuv444"}
      kind(h, e, a) == [h264 |-> h, hevc |-> e, av1 |-> a, display |-> {"sdr", "hdr"}]
  IN  {kind({}, {}, {}), kind(all, all, {}), kind({"supported", "autoselect"}, {"supported", "autoselect"}, all),
       kind(all, {"supported"}, {"supported"})}
MCEpConfigs == {[encoder |-> "auto", hevc |-> h, av1 |-> 0] : h \in {0, 3}} \cup {[encoder |-> "vaapi", hevc |-> 2, av1 |-> 1]}

MCKmPlanes == <<"cursor", "display", "display">>

Box(p, w, h) == [x |-> p[1], y |-> p[2], w |-> w, h |-> h]
\* Desktops of a virtual display and two or three real ones, the first the primary
\* one: none overlap and each shares an edge with another.
Apart(l) == \A i, j \in DOMAIN l : i # j => ~Overlap(l[i], l[j])
OnePiece(l) == \A S \in (SUBSET DOMAIN l) \ {{}, DOMAIN l} : \E i \in S, j \in DOMAIN l \ S : ShareEdge(l[i], l[j])
Two == {l \in {<<Box(v, 8, 6), Box(<<0, 0>>, 12, 8), Box(b, 10, 12)>> :
            v \in {<<12, 2>>, <<-8, 0>>, <<0, 8>>, <<2, -6>>}, b \in {-18, -10, 0, 2, 4, 12, 20} \X {-12, -6, 0, 8, 14}} : Apart(l)}
Three == {l \in {Append(l, Box(b, 12, 8)) : l \in Two, b \in {-12, 0, 12, 14} \X {-20, -8, 0, 8, 14}} : Apart(l)}
MCDlLayouts == {l \in Two \cup Three : OnePiece(l)}

Codec(hardware, fallback, vui, single, unlimited) ==
  [passed |-> TRUE, hdr |-> hardware, yuv444 |-> ~hardware, found |-> TRUE, hardware |-> hardware,
   fallback |-> fallback, vui |-> vui, singleSlice |-> single, unlimited |-> unlimited]
MCElCodecs == {Codec(TRUE, TRUE, TRUE, FALSE, FALSE), Codec(FALSE, FALSE, FALSE, FALSE, FALSE)}
MCElConfigs == {[format |-> 1, hdr |-> FALSE, yuv444 |-> FALSE, slices |-> 1, framerate |-> 30, bitrate |-> 600], [format |-> 0, hdr |-> TRUE, yuv444 |-> FALSE, slices |-> 2, framerate |-> 2, bitrate |-> 600],
                [format |-> 1, hdr |-> FALSE, yuv444 |-> FALSE, slices |-> 1, framerate |-> 1, bitrate |-> 600]}

Gpu(rfi, many) == [formats |-> {"h264", "hevc"}, tenBit |-> many, yuv444 |-> FALSE, async |-> rfi, rfi |-> rfi, manyRefs |-> many]
MCNeGpus == {Gpu(TRUE, TRUE), Gpu(TRUE, FALSE)}
MCNeConfigs == {[format |-> "hevc", tenBit |-> FALSE, yuv444 |-> FALSE, refs |-> 3]}

MCSkFrames == {[data |-> 1, rest |-> 1], [data |-> 2, rest |-> 3]}

\* A part that does not move starts in one of its initial states.
MCInit ==
  /\ part \in {"vc", "ep", "dc", "ig", "wg", "km", "dl", "el", "ne", "pk", "sk"}
  /\ IF part = "ep" THEN epHw \in [EpNames -> EpKinds] ELSE epHw = CHOOSE v \in [EpNames -> EpKinds] : TRUE
  /\ IF part = "ep" THEN epConfig \in EpConfigs ELSE epConfig = CHOOSE v \in EpConfigs : TRUE
  /\ IF part = "dc" THEN dcBackend \in {"vram", "ram"} ELSE dcBackend = CHOOSE v \in {"vram", "ram"} : TRUE
  /\ IF part = "dc" THEN dcCursor \in BOOLEAN ELSE dcCursor = CHOOSE v \in BOOLEAN : TRUE
  /\ IF part = "dl" THEN dlStart \in DlLayouts ELSE dlStart = CHOOSE v \in DlLayouts : TRUE
  /\ IF part = "el" THEN elCodec \in ElCodecs ELSE elCodec = CHOOSE v \in ElCodecs : TRUE
  /\ IF part = "el" THEN elConfig \in ElConfigs ELSE elConfig = CHOOSE v \in ElConfigs : TRUE
  /\ IF part = "ne" THEN neGpu \in NeGpus ELSE neGpu = CHOOSE v \in NeGpus : TRUE
  /\ IF part = "ne" THEN neConfig \in NeConfigs ELSE neConfig = CHOOSE v \in NeConfigs : TRUE
  /\ IF part = "pk" THEN pkConfig \in PkConfigs ELSE pkConfig = CHOOSE v \in PkConfigs : TRUE
  /\ IF part = "sk" THEN skEnv \in SkEnvs ELSE skEnv = CHOOSE v \in SkEnvs : TRUE
  /\ VcInit /\ EpInit /\ DcInit /\ IgInit /\ WgInit /\ KmInit
  /\ DlInit /\ ElInit /\ NeInit /\ PkInit /\ SkInit

\* Everything but the part that moves stays as it is.
Rest(moving) ==
  /\ UNCHANGED part
  /\ IF moving = "vc" THEN TRUE ELSE UNCHANGED vcVars
  /\ IF moving = "ep" THEN TRUE ELSE UNCHANGED epVars
  /\ IF moving = "dc" THEN TRUE ELSE UNCHANGED dcVars
  /\ IF moving = "ig" THEN TRUE ELSE UNCHANGED igVars
  /\ IF moving = "wg" THEN TRUE ELSE UNCHANGED wgVars
  /\ IF moving = "km" THEN TRUE ELSE UNCHANGED kmVars
  /\ IF moving = "dl" THEN TRUE ELSE UNCHANGED dlVars
  /\ IF moving = "el" THEN TRUE ELSE UNCHANGED elVars
  /\ IF moving = "ne" THEN TRUE ELSE UNCHANGED neVars
  /\ IF moving = "pk" THEN TRUE ELSE UNCHANGED pkVars
  /\ IF moving = "sk" THEN TRUE ELSE UNCHANGED skVars

MCNext ==
  \/ part = "vc" /\ VcNext /\ Rest("vc")
  \/ part = "ep" /\ EpNext /\ Rest("ep")
  \/ part = "dc" /\ DcNext /\ Rest("dc")
  \/ part = "ig" /\ IgNext /\ Rest("ig")
  \/ part = "wg" /\ WgNext /\ Rest("wg")
  \/ part = "km" /\ KmNext /\ Rest("km")
  \/ part = "dl" /\ DlNext /\ Rest("dl")
  \/ part = "el" /\ ElNext /\ Rest("el")
  \/ part = "ne" /\ NeNext /\ Rest("ne")
  \/ part = "pk" /\ PkNext /\ Rest("pk")
  \/ part = "sk" /\ SkStep /\ Rest("sk")

mcVars == <<part, vcVars, epVars, dcVars, igVars, wgVars, kmVars, dlVars, elVars, neVars, pkVars, skVars>>

MCSpec ==
  /\ MCInit /\ [][MCNext]_mcVars
  /\ WF_vcVars(part = "vc" /\ VcThreadStep /\ ~Crashed)
  /\ \A s \in VcSessions : WF_vcVars(part = "vc" /\ VcSessionStep(s) /\ ~Crashed)
  /\ WF_wgVars(part = "wg" /\ TryGetNextFrame) /\ WF_wgVars(part = "wg" /\ FrameProduced) /\ WF_wgVars(part = "wg" /\ WakeReader)
  /\ WF_wgVars(part = "wg" /\ NextFrame) /\ WF_wgVars(part = "wg" /\ WaitForFrame) /\ WF_wgVars(part = "wg" /\ ReleaseSnapshot)
  /\ WF_dlVars(part = "dl" /\ DlNext)
  /\ WF_elVars(part = "el" /\ LoopStep)

-----------------------------------------------------------------------------
\* An image that goes to an encoder shows what the display showed, under every
\* capture back end: duplication, Windows.Graphics.Capture, KMS, and the image
\* pool they share.
CapturedImagesSound ==
  /\ ImageShowsDesktop
  /\ FrameNotHeldWhileWaiting
  /\ EncoderDrawsImage
  /\ PoolKeepsPeak
  /\ BuffersAccountedFor
  /\ NamedDisplayOpened
  /\ CursorImageCurrent
  /\ HdrChangeNoticed

\* Frames are paced, fit the rate control buffer and do not refer to frames
\* the client reported as lost, and a failed creation leaves nothing behind.
EncoderSound ==
  /\ PacedByFramerate
  /\ BufferHoldsFrame
  /\ ToldFramesAvoided
  /\ NothingLeftInDriver

\* A frame leaves as whole shards in consecutive packets that the client can
\* put together again, whichever system call sends them.
FramesSentWhole ==
  /\ PkTypeOK
  /\ BlocksCoverFrame
  /\ FrameLengthRecoverable
  /\ SequenceContiguous
  /\ IvNotReusedEarly
  /\ AudioParityCovers
  /\ DatagramsWhole
  /\ EveryShardSent
  /\ NoNeedlessDuplicates

\* Sessions end and a changed display is opened again, unless the capture thread
\* is stuck; a reader asleep is woken for its frame, and the layout search ends.
CaptureProgress ==
  /\ ShutdownEndsSession
  /\ ReinitEnds
  /\ SleeperWoken
  /\ LayoutEnds
=============================================================================
