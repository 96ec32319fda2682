---------------------------- MODULE EncoderProbe ----------------------------
(***************************************************************************)
(* Choosing an encoder (video.cpp): what each encoder of the platform's    *)
(* list is found to support on the hardware there is, which one is chosen, *)
(* and which codecs the host then offers to its clients.                   *)
(*                                                                         *)
(* Hardware is, per encoder, the set of things that work for each codec    *)
(* and for the display; active_*_mode is 0 automatic, 1 off, 2 offered,    *)
(* 3 offered with HDR.                                                     *)
(***************************************************************************)
EXTENDS Naturals, Sequences

CONSTANTS EpKinds,    \* what an encoder's hardware may be able to do
          EpConfigs,  \* the user's configuration: encoder, hevc, av1
          EpPlatform  \* "windows", "linux" or "macos"

\* apply_config keeps the modes within this range.
ASSUME EpAssumption ==
  /\ EpPlatform \in {"windows", "linux", "macos"}
  /\ \A config \in EpConfigs : config.hevc \in 0..3 /\ config.av1 \in 0..3

EpNone == "none"
EpCodecs == {"h264", "hevc", "av1"}
EpFlags == {"PASSED", "REF_FRAMES_RESTRICT", "DYNAMIC_RANGE", "YUV444"}

VARIABLES
  epHw,        \* the hardware behind each encoder
  epConfig,    \* the configuration
  epChosen,    \* chosen_encoder
  epMode,      \* active_hevc_mode and active_av1_mode
  epCaps,      \* the chosen encoder's capabilities, by codec
  epYuv444,    \* last_encoder_probe_supported_yuv444_for_codec
  epReprobe,   \* platf::needs_encoder_reenumeration would say yes
  epCall       \* how the last call went: "probed", "kept" or "refused"; "stale" after a change

epVars == <<epHw, epConfig, epChosen, epMode, epCaps, epYuv444, epReprobe, epCall>>

-----------------------------------------------------------------------------
(* The encoders and their flags *)

WindowsNvenc == [name |-> "nvenc", h264Only |-> FALSE, yuv444 |-> TRUE, reprobe |-> FALSE]
LinuxNvenc == [name |-> "nvenc", h264Only |-> FALSE, yuv444 |-> FALSE, reprobe |-> FALSE]
Quicksync == [name |-> "quicksync", h264Only |-> FALSE, yuv444 |-> TRUE, reprobe |-> FALSE]
Amdvce == [name |-> "amdvce", h264Only |-> FALSE, yuv444 |-> FALSE, reprobe |-> FALSE]
Software == [name |-> "software", h264Only |-> TRUE, yuv444 |-> TRUE, reprobe |-> TRUE]
Vaapi == [name |-> "vaapi", h264Only |-> FALSE, yuv444 |-> FALSE, reprobe |-> FALSE]
Videotoolbox == [name |-> "videotoolbox", h264Only |-> FALSE, yuv444 |-> FALSE, reprobe |-> FALSE]

Encoders ==
  CASE EpPlatform = "windows" -> <<WindowsNvenc, Quicksync, Amdvce, Software>>
    [] EpPlatform = "linux" -> <<LinuxNvenc, Vaapi, Software>>
    [] EpPlatform = "macos" -> <<Videotoolbox, Software>>

EpNames == {Encoders[i].name : i \in DOMAIN Encoders}
EncoderNamed(n) == Encoders[CHOOSE i \in DOMAIN Encoders : Encoders[i].name = n]

-----------------------------------------------------------------------------
(* validate_encoder *)

\* validate_config: the device, the session and a first frame.  4:4:4 needs
\* the encoder's flag, whatever the hardware.
ValidateConfig(e, hw, codec, want) ==
  /\ {"supported"} \cup want \subseteq hw[codec]
  /\ "yuv444" \in want => e.yuv444

\* Whether a codec is tried at all.
Tests(e, mode) == mode >= 2 \/ (mode = 0 /\ ~e.h264Only)

H264Validates(e, hw, expectFailure) ==
  \/ ~expectFailure /\ ValidateConfig(e, hw, "h264", {"maxRefFrames"})
  \/ ValidateConfig(e, hw, "h264", {"autoselect"})

H264Caps(e, hw) ==
  {"PASSED"} \cup {f \in {"REF_FRAMES_RESTRICT"} : ValidateConfig(e, hw, "h264", {"maxRefFrames"})}
             \cup {f \in {"YUV444"} : ValidateConfig(e, hw, "h264", {"autoselect", "yuv444"})}

\* test_hdr_and_yuv444, for a codec that passed.
HdrCaps(e, hw, codec) ==
  IF ValidateConfig(e, hw, codec, {"hdr", "yuv444"}) THEN {"DYNAMIC_RANGE", "YUV444"}
  ELSE {f \in {"DYNAMIC_RANGE"} : ValidateConfig(e, hw, codec, {"hdr"})}

\* HEVC and AV1: if H.264 could restrict reference frames, so must they.  A
\* codec that was tried in vain keeps the flags set before it was tried.
CodecCaps(e, hw, codec, mode) ==
  LET restrict == ValidateConfig(e, hw, codec, {"maxRefFrames"})
      h264Restrict == ValidateConfig(e, hw, "h264", {"maxRefFrames"})
      passes == restrict \/ (~h264Restrict /\ ValidateConfig(e, hw, codec, {"autoselect"}))
  IN  IF ~Tests(e, mode) \/ "supported" \notin hw[codec] THEN {}
      ELSE IF passes
           THEN {"PASSED"} \cup {f \in {"REF_FRAMES_RESTRICT"} : restrict} \cup HdrCaps(e, hw, codec)
           ELSE {"DYNAMIC_RANGE", "YUV444"}

CapsAfter(e, hw, mode) ==
  [c \in EpCodecs |-> IF c = "h264" THEN H264Caps(e, hw) ELSE CodecCaps(e, hw, c, mode[c])]

ValidateEncoder(e, hw, expectFailure) ==
  /\ {"sdr", "hdr"} \subseteq hw["display"]
  /\ H264Validates(e, hw, expectFailure)

-----------------------------------------------------------------------------
(* probe_encoders *)

\* Nothing is probed while displays exist and none is active, or while a
\* virtual display could be made for it.
AllowEncoderProbing(displays, driverOk) ==
  IF displays = "none" THEN ~driverOk ELSE displays = "active"

\* adjust_encoder_constraints: prefer the encoder over the codec.
Adjusted(mode, caps) ==
  IF (mode = 3 /\ "DYNAMIC_RANGE" \notin caps) \/ (mode = 2 /\ "PASSED" \notin caps) THEN 0 ELSE mode

\* An encoder that has what the user insists on.
MeetsCodecs(mode, caps) ==
  \A c \in {"hevc", "av1"} : (mode[c] >= 2 => "PASSED" \in caps[c]) /\ (mode[c] = 3 => "DYNAMIC_RANGE" \in caps[c])

\* Automatic becomes what was found.
Offered(mode, caps) ==
  IF mode # 0 THEN mode
  ELSE IF "PASSED" \notin caps THEN 1
  ELSE IF "DYNAMIC_RANGE" \in caps THEN 3 ELSE 2

\* The first of the list.
FirstOf(set) ==
  LET found == {i \in DOMAIN Encoders : Encoders[i] \in set}
  IN  IF found = {} THEN EpNone ELSE Encoders[CHOOSE i \in found : \A j \in found : i <= j].name

NamedIsUsed(named, works) == named \in EpNames /\ works

\* The encoder of the first round that finds one: the one asked for, the first
\* with the codecs asked for, the first that works.
Selected(valid, fitting) ==
  LET named == epConfig.encoder
      insists == epConfig.hevc >= 2 \/ epConfig.av1 >= 2
  IN  IF NamedIsUsed(named, named \in EpNames /\ EncoderNamed(named) \in valid) THEN named
      ELSE IF insists /\ valid \cap fitting # {} THEN FirstOf(valid \cap fitting)
      ELSE FirstOf(valid)

AnyEncoderKept == epChosen # EpNone /\ ~epReprobe

GoodEncoderKept ==
  epChosen # EpNone /\ ~EncoderNamed(epChosen).reprobe /\ ~epReprobe

Yuv444Supported(caps) == {c \in EpCodecs : {"PASSED", "YUV444"} \subseteq caps[c]}

ProbeEncoders(displays, driverOk) ==
  LET mode == [hevc |-> epConfig.hevc, av1 |-> epConfig.av1, h264 |-> 0]
      Expects(e) == epChosen \notin {EpNone, e.name}
      Valid(e) == ValidateEncoder(e, epHw[e.name], Expects(e))
      Caps(e) == CapsAfter(e, epHw[e.name], mode)
      Fits(e) == MeetsCodecs(mode, Caps(e))
      valid == {e \in {EncoderNamed(n) : n \in EpNames} : Valid(e)}
      chosen == Selected(valid, {e \in valid : Fits(e)})
  IN
  /\ AllowEncoderProbing(displays, driverOk) /\ ~GoodEncoderKept
  /\ epChosen' = chosen
  /\ epReprobe' = FALSE /\ epCall' = "probed"
  /\ IF chosen = EpNone
     THEN /\ epMode' = [hevc |-> mode.hevc, av1 |-> mode.av1]
          /\ epCaps' = [c \in EpCodecs |-> {}] /\ UNCHANGED epYuv444
     ELSE LET caps == Caps(EncoderNamed(chosen)) IN
          /\ epCaps' = caps
          /\ epMode' = [c \in {"hevc", "av1"} |-> Offered(Adjusted(mode[c], caps[c]), caps[c])]
          /\ epYuv444' = Yuv444Supported(caps)
  /\ UNCHANGED <<epHw, epConfig>>

\* A probe that is not allowed, or not needed.
ProbeReturns(displays, driverOk) ==
  /\ ~AllowEncoderProbing(displays, driverOk) \/ GoodEncoderKept
  /\ epCall' = IF AllowEncoderProbing(displays, driverOk) THEN "kept" ELSE "refused"
  /\ UNCHANGED <<epHw, epConfig, epChosen, epMode, epCaps, epYuv444, epReprobe>>

\* A driver is installed, a card is removed; the platform may not notice.
HardwareChanges(n, kind, noticed) ==
  /\ epHw' = [epHw EXCEPT ![n] = kind] /\ epReprobe' = (epReprobe \/ noticed)
  /\ epCall' = "stale"
  /\ UNCHANGED <<epConfig, epChosen, epMode, epCaps, epYuv444>>

EpInit ==
  /\ epHw \in [EpNames -> EpKinds] /\ epConfig \in EpConfigs
  /\ epChosen = EpNone /\ epMode = [hevc |-> 0, av1 |-> 0]
  /\ epCaps = [c \in EpCodecs |-> {}]
  /\ epYuv444 = EpCodecs /\ epReprobe = TRUE /\ epCall = "stale"

EpNext ==
  \/ \E displays \in {"none", "inactive", "active"}, driverOk \in BOOLEAN :
       ProbeEncoders(displays, driverOk) \/ ProbeReturns(displays, driverOk)
  \/ \E n \in EpNames, kind \in EpKinds, noticed \in BOOLEAN : HardwareChanges(n, kind, noticed)

EpSpec == EpInit /\ [][EpNext]_epVars

-----------------------------------------------------------------------------
(* Properties *)

EpTypeOK ==
  /\ epChosen \in EpNames \cup {EpNone} /\ epYuv444 \subseteq EpCodecs
  /\ \A c \in {"hevc", "av1"} : epMode[c] \in 0..3
  /\ \A c \in EpCodecs : epCaps[c] \subseteq EpFlags

\* With an encoder chosen, a codec that the user left to the host is offered
\* only if it was seen to work, and with HDR only if HDR was; and whatever the
\* user asked for, plain HEVC or AV1 is not offered if it failed.
OfferedCodecWorks ==
  \A c \in {"hevc", "av1"} :
    epChosen # EpNone /\ epMode[c] >= 2 /\ (epConfig[c] = 0 \/ epMode[c] = 2)
      => /\ "PASSED" \in epCaps[c]
         /\ epMode[c] = 3 => "DYNAMIC_RANGE" \in epCaps[c]

\* 4:4:4 is offered for codecs of the encoder that is in use.
Yuv444NeedsCodec ==
  epChosen # EpNone => \A c \in epYuv444 : {"PASSED", "YUV444"} \subseteq epCaps[c]

\* The encoder the user named is used whenever a probe finds that it works.
UserChoiceWins ==
  \A n \in EpNames :
    epCall = "probed" /\ epConfig.encoder = n /\ ValidateEncoder(EncoderNamed(n), epHw[n], TRUE)
      => epChosen = n

\* Software is left after a call only if nobody asked for more and nothing else
\* works, whether or not the platform noticed that the hardware has changed.
SoftwareIsLastResort ==
  epCall \in {"probed", "kept"} /\ epChosen = "software" /\ epConfig.encoder # "software"
      /\ epConfig.hevc < 2 /\ epConfig.av1 < 2
    => \A n \in EpNames \ {"software"} : ~ValidateEncoder(EncoderNamed(n), epHw[n], TRUE)

\* What the host offers is what the probes have seen to work, and what the
\* user chose comes first.
ProbeResultsHold ==
  /\ EpTypeOK
  /\ OfferedCodecWorks
  /\ Yuv444NeedsCodec
  /\ UserChoiceWins
  /\ SoftwareIsLastResort
=============================================================================
