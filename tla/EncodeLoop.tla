----------------------------- MODULE EncodeLoop -----------------------------
(***************************************************************************)
(* One encoding session of the host (video.cpp): opening the codec, with   *)
(* fallback options after a failure, then the loop that takes requests of  *)
(* the client and captured images, paces them and encodes.  Time counts in *)
(* steps of the capture clock; an image is known by its capture time.      *)
(***************************************************************************)
EXTENDS Integers, Sequences

CONSTANTS
  ElCodecs,    \* [passed, hdr, yuv444, found, hardware, fallback, vui, singleSlice, unlimited]
  ElConfigs,   \* what the client asked for: [format, hdr, yuv444, slices, framerate, bitrate]
  ElThreads,   \* config::video.min_threads
  ElThreshold, \* encode_frame_threshold
  ElVariation, \* frame_variation_threshold
  ElMaxTime    \* bound: the capture clock

ASSUME ElAssumption ==
  /\ {ElThreshold, ElVariation} \subseteq Nat
  /\ \A c \in ElConfigs : {c.framerate, c.bitrate} \subseteq Nat

VARIABLES
  elPc,       \* "new", "open", "options", "frame" (codec open), "loop", "image", "encode", "ended" or "trapped"
  elCodec, elConfig,
  elRetries,  \* attempts to open the codec that failed
  elBuffer,   \* ctx->rc_buffer_size, 0 for no limit
  elInject,   \* parameter sets are still to be patched
  elIdr,      \* idr_events
  elLost,     \* invalidate_ref_frames_events
  elForce,    \* the frame's picture type asks for a key frame
  elClock,    \* capture clock
  elImage,    \* images: at most one, by capture time
  elExpected, \* encode_frame_timestamp
  elStamp,    \* frame_timestamp of the frame to encode
  elSent,     \* last two stamps of frames with one
  elWanted    \* the client asked for a key frame and none was encoded since

elVars == <<elPc, elCodec, elConfig, elRetries, elBuffer, elInject, elIdr, elLost, elForce, elClock, elImage,
            elExpected, elStamp, elSent, elWanted>>
elSetup == <<elCodec, elConfig, elRetries, elBuffer>>
elClient == <<elIdr, elLost, elWanted>>
elPace == <<elExpected, elStamp, elSent>>

-----------------------------------------------------------------------------
\* make_avcodec_encode_session, before the codec is opened.
CodecFits ==
  /\ elCodec.passed /\ elCodec.found
  /\ elConfig.hdr => elCodec.hdr
  /\ elConfig.yuv444 => elCodec.yuv444

\* Software encoding gets threads of its own; some encoders take one slice.
SlicesUsed ==
  CASE elCodec.singleSlice -> 1
    [] elCodec.hardware -> elConfig.slices
    [] OTHER -> IF elConfig.slices > ElThreads THEN elConfig.slices ELSE ElThreads

\* rc_buffer_size: a frame's share, half as much again for software encoding
\* in slices and for software HEVC.
RcDivisor ==
  IF ~elCodec.hardware /\ (SlicesUsed > 1 \/ elConfig.format = 1)
  THEN (elConfig.framerate * 10) \div 15 ELSE elConfig.framerate
RcBufferSize == IF elCodec.unlimited THEN 0 ELSE elConfig.bitrate \div RcDivisor

ChooseEncoder ==
  /\ elPc = "new" /\ elPc' = (IF CodecFits THEN "open" ELSE "ended")
  /\ UNCHANGED <<elSetup, elInject, elClient, elForce, elClock, elImage, elPace>>

\* An attempt begins with a fresh context; the device context of a hardware
\* encoder, what is derived from it and its frames may fail for good.
PrepareContext ==
  /\ elPc = "open"
  /\ \/ elPc' = "options"
     \/ elCodec.hardware /\ elPc' = "ended"
  /\ UNCHANGED <<elSetup, elInject, elClient, elForce, elClock, elImage, elPace>>

\* Options, rate control, avcodec_open2: a first failure is tried again with
\* the fallback options, if there are any.  A rate of one frame per second has
\* the software encoder's divisor at 0, and the process ends.
DivisionTraps ==
  /\ elPc = "options" /\ ~elCodec.unlimited /\ RcDivisor = 0 /\ elPc' = "trapped"
  /\ UNCHANGED <<elSetup, elInject, elClient, elForce, elClock, elImage, elPace>>

OpenCodec ==
  /\ elPc = "options" /\ (elCodec.unlimited \/ RcDivisor # 0)
  /\ elBuffer' = RcBufferSize
  /\ \/ elPc' = "frame" /\ UNCHANGED elRetries
     \/ elCodec.fallback /\ elRetries = 0 /\ elRetries' = 1 /\ elPc' = "open"
     \/ (elCodec.fallback => elRetries > 0) /\ elPc' = "ended" /\ UNCHANGED elRetries
  /\ UNCHANGED <<elCodec, elConfig, elInject, elClient, elForce, elClock, elImage, elPace>>

\* The frame with its metadata, the encode device and the session; then the
\* dummy image is converted.
MakeSession ==
  /\ elPc = "frame" /\ elPc' \in {"loop", "ended"}
  /\ elInject' = (elConfig.format <= 1 /\ ~elCodec.vui)
  /\ UNCHANGED <<elSetup, elClient, elForce, elClock, elImage, elPace>>

-----------------------------------------------------------------------------
\* request_idr_frame, which invalidate_ref_frames of this session calls too.
RequestIdrFrame(f) == f' = TRUE

\* The loop's checks: requests are taken, one of each kind.
TakeRequests ==
  /\ elPc = "loop"
  /\ elLost' = FALSE /\ elIdr' = FALSE
  /\ IF elIdr \/ elLost THEN RequestIdrFrame(elForce) ELSE UNCHANGED elForce
  /\ elPc' = (IF elIdr /\ elImage = {} THEN "encode" ELSE "image")
  /\ elStamp' = {}
  /\ UNCHANGED <<elSetup, elInject, elWanted, elClock, elImage, elExpected, elSent>>

\* An image well before its time is dropped, one about on time gets the time
\* expected, a late one starts a new rhythm.
Paced(t) ==
  LET diff == t - elExpected
  IN [drop |-> diff < -ElVariation,
      stamp |-> IF diff < ElVariation THEN elExpected ELSE t,
      next |-> (IF diff < ElVariation THEN elExpected ELSE t) + ElThreshold]

DropForgets ==
  /\ elPc = "image"
  /\ \/ \E t \in elImage :
          /\ elImage' = {}
          /\ IF Paced(t).drop
             THEN elPc' = "loop" /\ elForce' = FALSE /\ UNCHANGED <<elStamp, elExpected>>
             ELSE elPc' = "encode" /\ elStamp' = {Paced(t).stamp} /\ elExpected' = Paced(t).next /\ UNCHANGED elForce
     \/ elImage = {} /\ elPc' = "encode" /\ UNCHANGED <<elImage, elStamp, elExpected, elForce>>
  /\ UNCHANGED <<elSetup, elInject, elClient, elClock, elSent>>

\* images->pop with the longest time between frames; convert may fail.
TakePacedImage ==
  /\ elPc = "image"
  /\ \/ \E t \in elImage :
          /\ elImage' = {}
          /\ \/ Paced(t).drop /\ elPc' = "loop" /\ UNCHANGED <<elStamp, elExpected>>
             \/ ~Paced(t).drop /\ elPc' = "encode" /\ elStamp' = {Paced(t).stamp} /\ elExpected' = Paced(t).next
             \/ ~Paced(t).drop /\ elPc' = "ended" /\ UNCHANGED <<elStamp, elExpected>>
     \/ elImage = {} /\ elPc' = "encode" /\ UNCHANGED <<elImage, elStamp, elExpected>>
  /\ UNCHANGED <<elSetup, elInject, elClient, elForce, elClock, elSent>>

\* encode_avcodec and request_normal_frame: the first packet has its parameter
\* sets patched; an error ends the session.
EncodeImage ==
  /\ elPc = "encode"
  /\ \/ /\ elPc' = "loop" /\ elForce' = FALSE /\ elInject' = FALSE
        /\ elWanted' = (elWanted /\ ~elForce)
        /\ elSent' = IF elStamp = {} THEN elSent ELSE <<elSent[2], CHOOSE t \in elStamp : TRUE>>
     \/ elPc' = "ended" /\ UNCHANGED <<elForce, elInject, elWanted, elSent>>
  /\ UNCHANGED <<elSetup, elIdr, elLost, elClock, elImage, elExpected, elStamp>>

-----------------------------------------------------------------------------
\* The control thread raises what the client asks for.
RaiseIdr ==
  /\ elPc \in {"loop", "image", "encode"} /\ elIdr' = TRUE /\ elWanted' = TRUE
  /\ UNCHANGED <<elPc, elSetup, elInject, elLost, elForce, elClock, elImage, elPace>>

RaiseInvalidate ==
  /\ elPc \in {"loop", "image", "encode"} /\ elLost' = TRUE /\ elWanted' = TRUE
  /\ UNCHANGED <<elPc, elSetup, elInject, elIdr, elForce, elClock, elImage, elPace>>

\* The capture thread replaces the image that waits.
ImageArrives(d) ==
  /\ elPc \in {"loop", "image", "encode"} /\ elClock + d <= ElMaxTime
  /\ elClock' = elClock + d /\ elImage' = {elClock + d}
  /\ UNCHANGED <<elPc, elSetup, elInject, elClient, elForce, elPace>>

\* The stream ends, the images stop or the display is to be opened again.
LoopEnds ==
  /\ elPc = "loop" /\ elPc' = "ended"
  /\ UNCHANGED <<elSetup, elInject, elClient, elForce, elClock, elImage, elPace>>

ElInit ==
  /\ elPc = "new" /\ elCodec \in ElCodecs /\ elConfig \in ElConfigs /\ elRetries = 0 /\ elBuffer = 0
  /\ elInject = FALSE /\ elIdr = FALSE /\ elLost = FALSE /\ elForce = FALSE /\ elClock = ElThreshold /\ elImage = {}
  /\ elExpected = 0 /\ elStamp = {} /\ elSent = <<-ElThreshold, -ElThreshold>> /\ elWanted = FALSE

LoopStep == ChooseEncoder \/ PrepareContext \/ DivisionTraps \/ OpenCodec \/ MakeSession \/ TakeRequests \/ TakePacedImage \/ EncodeImage

ElNext ==
  \/ ChooseEncoder \/ PrepareContext \/ DivisionTraps \/ OpenCodec \/ MakeSession \/ TakeRequests \/ TakePacedImage \/ EncodeImage
  \/ RaiseIdr \/ RaiseInvalidate \/ (\E d \in {1, ElThreshold} : ImageArrives(d)) \/ LoopEnds

ElFairness == WF_elVars(LoopStep)

ElSpec == ElInit /\ [][ElNext]_elVars /\ ElFairness

-----------------------------------------------------------------------------
\* However irregularly images are captured, the stamps of the frames sent are
\* at least a frame of the client's rate apart.
PacedByFramerate == elSent[1] >= 0 => elSent[2] - elSent[1] >= ElThreshold

\* The rate control buffer holds the share of a frame at least.
BufferHoldsFrame ==
  elPc = "loop" /\ ~elCodec.unlimited => elBuffer >= elConfig.bitrate \div elConfig.framerate

\* A client that asked for a key frame, or said that frames were lost, gets a
\* key frame unless the session ends, although images may be dropped between
\* its request and the frame.
KeyFrameFollows == elWanted ~> (~elWanted \/ elPc = "ended")
=============================================================================
