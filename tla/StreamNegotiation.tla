-------------------------- MODULE StreamNegotiation --------------------------
(***************************************************************************)
(* What a launch and its RTSP commands settle about a stream (nvhttp.cpp,  *)
(* make_launch_session; rtsp.cpp, cmd_describe, cmd_setup, cmd_announce):  *)
(* the display mode, the encryption and codecs offered and taken, the      *)
(* surround mapping, the frame rate and the bitrate.  Another launch may   *)
(* probe the encoders again between the offer and its acceptance.          *)
(***************************************************************************)
EXTENDS Integers, Sequences

CONSTANTS
  SnHosts,    \* host settings: [limit, maxBitrate, fec, lan, wan], and net, the client's network
  SnModes,    \* the "mode" argument, split at "x" into numbers
  SnSurround, \* the "surroundParams" argument, as digits
  SnRequests  \* what clients announce

\* The numbers of the protocol are not negative, and a client asks for one of
\* the channel counts of audio::stream_configs.
ASSUME SnAssumption ==
  /\ \A h \in SnHosts : h.fec \in Nat /\ h.maxBitrate \in Int
  /\ SnModes \subseteq Seq(Nat)
  /\ \A r \in SnRequests : {r.fps, r.bitrate, r.configured} \subseteq Nat /\ r.channels \in {2, 6, 8}

VARIABLES
  snHost,   \* the host settings
  snProbed, \* the codecs the encoder probe leaves enabled beside H.264
  snStep,   \* "new", "launched", "described", "streaming", or the status refused with
  snLaunch, \* [fps, surround]
  snOffer,  \* [supported, requested, codecs, mapping]
  snAsked,  \* the announced request, as a set
  snConfig  \* the stream's configuration, as a set

snVars == <<snHost, snProbed, snStep, snLaunch, snOffer, snAsked, snConfig>>

\* encryption_mode_for_address.
EncryptionMode == IF snHost.net \in {"pc", "lan"} THEN snHost.lan ELSE snHost.wan

\* audio::stream_configs; the last entry is 7.1, the fifth 5.1 of normal quality.
Channels == <<2, 2, 6, 6, 8, 8>>
NormalSurround == {3, 5}
AudioKbps == [high |-> <<512, 1536, 2048>>, normal |-> <<96, 256, 450>>]
Mapping(x) == [i \in 1 .. Channels[x] |-> i - 1]

SnInit ==
  /\ snHost \in SnHosts /\ snProbed = {"hevc"} /\ snStep = "new"
  /\ snLaunch = [fps |-> 0, surround |-> <<>>]
  /\ snOffer = [supported |-> {}, requested |-> {}, codecs |-> {}, mapping |-> <<>>]
  /\ snAsked = {} /\ snConfig = {}

\* The frame rate is kept in thousandths; x counts the parts, and two parts
\* are enough for the defaults not to be used.
LaunchFps(mode) ==
  IF Len(mode) >= 3 THEN (IF mode[3] < 1000 THEN mode[3] * 1000 ELSE mode[3])
  ELSE IF Len(mode) = 2 THEN 0 ELSE 60000

MakeLaunchSession(mode, surround) ==
  /\ snStep = "new" /\ snStep' = "launched"
  /\ snLaunch' = [fps |-> LaunchFps(mode), surround |-> surround]
  /\ UNCHANGED <<snHost, snProbed, snOffer, snAsked, snConfig>>

\* Another launch probes the encoders: the enabled codecs may change.
Reprobe ==
  /\ snStep \in {"launched", "described"}
  /\ snProbed' \in SUBSET {"hevc", "av1"} /\ snProbed' # snProbed
  /\ UNCHANGED <<snHost, snStep, snLaunch, snOffer, snAsked, snConfig>>

RotateLeft(s, from, to) ==
  [i \in 1 .. Len(s) |-> IF i < from \/ i > to THEN s[i] ELSE IF i = to THEN s[from] ELSE s[i + 1]]

\* The rotation ends at MAX_STREAM_CONFIG, the number of configurations.
Advertised(x) == IF x \in NormalSurround THEN RotateLeft(Mapping(x), 4, Len(Channels)) ELSE Mapping(x)

Supported == {"control", "audio"} \cup IF EncryptionMode = "never" THEN {} ELSE {"video"}
Requested == {"control"} \cup IF EncryptionMode = "mandatory" THEN {"video", "audio"} ELSE {}

CmdDescribe ==
  /\ snStep = "launched" /\ snStep' = "described"
  /\ snOffer' = [supported |-> Supported, requested |-> Requested, codecs |-> snProbed,
                 mapping |-> [x \in 1 .. Len(Channels) |-> Advertised(x)]]
  /\ UNCHANGED <<snHost, snProbed, snLaunch, snAsked, snConfig>>

EncodingFramerate(r) ==
  IF snHost.limit THEN snLaunch.fps ELSE IF r.fps > 1000 THEN r.fps ELSE r.fps * 1000

Framerate(r) == IF r.fps > 4000 THEN (r.fps + 500) \div 1000 ELSE r.fps

\* std::round of a quotient; with a launch frame rate of zero the conversion
\* of the infinity to an integer is undefined, and any factor may result.
WarpFactors(r) ==
  IF snLaunch.fps = 0 THEN 0 .. 2
  ELSE {(2 * Framerate(r) * 1000 + snLaunch.fps) \div (2 * snLaunch.fps)}

\* Host settings cap what the client configured, before the warp factor.
HostBitrate(r, warp) ==
  LET asked == IF r.configured = 0 THEN r.bitrate ELSE r.configured
      capped == IF snHost.maxBitrate > 0 /\ snHost.maxBitrate < asked THEN snHost.maxBitrate ELSE asked
  IN IF snHost.limit /\ warp >= 2 THEN capped * warp ELSE capped

HighQuality(r) == IF r.channels = 2 THEN ~r.hostZero ELSE r.high

Least(a, b) == IF a < b THEN a ELSE b

\* The bitrate left for video: less FEC, less audio, less overhead.
AfterFec(kbps) == IF snHost.fec <= 80 THEN (kbps * (100 - snHost.fec)) \div 100 ELSE kbps
AfterAudio(kbps, r) == kbps - Least((IF HighQuality(r) THEN 256 ELSE 96) * r.channels, kbps \div 5)
AfterOverhead(kbps) == kbps - Least(500, kbps \div 10)

VideoBitrateBeforeFec(kbps, r) == AfterOverhead(AfterAudio(kbps, r))

VideoBitrate(kbps, r) == IF kbps = 0 THEN r.bitrate ELSE AfterOverhead(AfterAudio(AfterFec(kbps), r))

\* Custom surround parameters: channels, streams, coupled streams, mapping.
CustomSurround(r) ==
  LET p == snLaunch.surround
  IN /\ r.channels # 2 /\ Len(p) > 3
     /\ p[1] \in {6, 8} /\ p[1] = r.channels /\ p[2] + p[3] = p[1] /\ Len(p) = p[1] + 3
     /\ \A i \in 4 .. Len(p) : p[i] < p[1]

EncryptionOf(r) == r.encryption \cup IF r.legacy THEN {"audio"} ELSE {}

Status(r) ==
  CASE ~r.complete -> "400"
    [] r.complete /\ r.codec # "h264" /\ r.codec \notin snProbed -> "400"
    [] OTHER -> IF EncryptionMode = "mandatory" /\ ~({"video", "audio"} \subseteq EncryptionOf(r)) THEN "403" ELSE "streaming"

\* The session may also fail to start.
CmdAnnounce(r, starts) ==
  /\ snStep = "described" /\ snAsked' = {r}
  /\ snStep' = IF Status(r) = "streaming" /\ ~starts THEN "500" ELSE Status(r)
  /\ \E warp \in WarpFactors(r) :
       snConfig' = IF Status(r) # "streaming" \/ ~starts THEN {}
                   ELSE {[framerate |-> Framerate(r), encoding |-> EncodingFramerate(r), host |-> HostBitrate(r, warp),
                          bitrate |-> VideoBitrate(HostBitrate(r, warp), r), encryption |-> EncryptionOf(r),
                          custom |-> CustomSurround(r)]}
  /\ UNCHANGED <<snHost, snProbed, snLaunch, snOffer>>

SnNext ==
  \/ \E mode \in SnModes, s \in SnSurround : MakeLaunchSession(mode, s)
  \/ Reprobe \/ CmdDescribe
  \/ \E r \in SnRequests, starts \in BOOLEAN : CmdAnnounce(r, starts)

SnSpec == SnInit /\ [][SnNext]_snVars

-----------------------------------------------------------------------------
\* A client that announces everything required, takes a codec it was offered
\* and turns on the encryption it was asked for is not refused (the session
\* may still fail to start), unless the encoders were probed again meanwhile.
OfferHonoured ==
  \A r \in snAsked :
    /\ r.complete /\ r.codec \in snOffer.codecs \cup {"h264"} /\ snOffer.requested \subseteq r.encryption
    /\ snProbed = snOffer.codecs
    => snStep \in {"streaming", "500"}

\* Video with its FEC, audio and overhead stay within the bitrate the client
\* and the host chose, wherever the reductions are not capped.
TrafficWithinChoice ==
  \A r \in snAsked, c \in snConfig :
    LET budget == IF snHost.fec <= 80 THEN (c.host * (100 - snHost.fec)) \div 100 ELSE c.host
        i == IF r.channels = 2 THEN 1 ELSE IF r.channels = 6 THEN 2 ELSE 3
        audio == IF HighQuality(r) THEN AudioKbps.high[i] ELSE AudioKbps.normal[i]
    IN budget >= 10500 + 5 * 2048 => c.bitrate + audio + 500 <= budget

\* The reductions never leave the encoder less than seven tenths of what
\* remains after FEC.
VideoNotStarved ==
  \A r \in snAsked, c \in snConfig :
    snHost.fec <= 80 => 10 * c.bitrate >= 7 * ((c.host * (100 - snHost.fec)) \div 100)

\* Without the host's own limit the encoder runs at the rate the stream is
\* announced with, whether the client sent hertz or thousandths; between
\* 1000 and 4000 the two readings overlap.
EncodingRateMatches ==
  \A r \in snAsked, c \in snConfig :
    ~snHost.limit /\ r.fps \notin 1001 .. 4000 =>
      c.encoding \in (c.framerate * 1000 - 500) .. (c.framerate * 1000 + 500)

\* What DESCRIBE offered and what the client asked for is what is streamed.
NegotiationHonoured ==
  /\ OfferHonoured
  /\ TrafficWithinChoice
  /\ VideoNotStarved
  /\ EncodingRateMatches
=============================================================================
