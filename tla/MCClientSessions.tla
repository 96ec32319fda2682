-------------------------- MODULE MCClientSessions --------------------------
(* What a client does with its session: launch, negotiation, control,      *)
(* input and audio.  The parts are checked in one run but do not interact: *)
(* `part' says which of them moves, and the others stay where they start.  *)
EXTENDS LaunchSlot, RtspServer, StreamNegotiation, ControlChannel,
        InputQueue, InputMouse, InputKeys, InputPads, WindowsInput,
        AudioCapture

VARIABLE part  \* the part that moves

MCRsMessages == [key : {0}, content : {0, 2}, sound : {TRUE}] \cup
 {[key |-> 0, content |-> 5, sound |-> TRUE], [key |-> 0, content |-> 1, sound |-> FALSE],
  [key |-> 1, content |-> 2, sound |-> TRUE], [key |-> 2, content |-> 2, sound |-> TRUE]}

MCSnHosts == [limit : BOOLEAN, maxBitrate : {0, 15000}, fec : {20}, lan : {"never"}, wan : {"mandatory"}, net : {"lan", "wan"}]
  \cup [limit : {TRUE}, maxBitrate : {0}, fec : {90}, lan : {"never"}, wan : {"mandatory"}, net : {"wan"}]
MCSnModes == {<<1920, 1080, 60>>, <<1920>>}
MCSnSurround == {<<>>, <<6, 4, 2, 0, 1, 2, 3, 4, 5>>}
MCSnRequests ==
 [complete : {TRUE}, codec : {"hevc"}, encryption : {{"control", "video", "audio"}}, legacy : {FALSE},
  fps : {60, 240, 59940}, bitrate : {800, 60000}, configured : {0, 40000}, channels : {2, 6}, high : {TRUE}, hostZero : {FALSE}]
 \cup {[complete |-> co, codec |-> cd, encryption |-> {"control", "video"}, legacy |-> l, fps |-> 60, bitrate |-> 3000, configured |-> 0,
        channels |-> 6, high |-> FALSE, hostZero |-> TRUE] : co \in BOOLEAN, cd \in {"h264", "av1"}, l \in BOOLEAN}

MCAsOrder == <<"spk", "hdmi", "virt">>
MCAsNames == [spk |-> [id |-> "1", friendly |-> "Speakers (Card)", description |-> "Speakers", adapter |-> "Card"],
              hdmi |-> [id |-> "2", friendly |-> "Speakers", description |-> "HDMI", adapter |-> "Card"],
              virt |-> [id |-> "3", friendly |-> "Speakers (steam)", description |-> "Speakers", adapter |-> "steam"]]

Msg(k, d, e, x) == [kind |-> k, dev |-> d, event |-> e, x |-> x]
MCIqMessages ==
  {Msg("rel", 1, "move", 3), Msg("rel", 1, "move", -1), Msg("button", 1, "down", 0), Msg("key", 1, "up", 0), Msg("abs", 1, "move", 0),
   Msg("pad", 1, "none", 0), Msg("pad", 2, "none", 0), Msg("pad", 2, "none", 1), Msg("pad", 1, "held", 0),
   Msg("pen", 1, "hover", 0), Msg("motion", 1, "move", 0), Msg("motion", 2, "move", 0)}
  \cup {Msg(k, d, "move", 0) : k \in {"touch", "padtouch"}, d \in {1, 2}}
  \cup {Msg(k, 1, "down", 0) : k \in {"touch", "padtouch"}}

\* Scrolling that two messages add up beyond what IqShort bits hold.
MCIqOverflow == {Msg("scroll", 1, "move", x) : x \in {-1, 3}}

MCIkModifierOf == [k \in {"shift", "lshift", "a", "f1"} |-> IF k \in {"a", "f1"} THEN "none" ELSE "shift"]
MCIkBinding == [k \in {"shift", "a", "f1"} |-> IF k = "shift" THEN "lshift" ELSE k]

MCIpPads == {<<"s1", 0>>, <<"s1", 1>>, <<"s2", 0>>}

MCPtClient == <<16, 9>>
MCPtDisplays == {<<16, 10>>, <<32, 9>>}
MCPtDeltas == {-5, -2, 1, 9}

\* A part that does not move starts in one of its initial states.
MCInit ==
  /\ part \in {"slot", "rs", "sn", "cc", "iq", "im", "ik", "ip", "pt", "wt", "wp", "as", "au"}
  /\ IF part = "sn" THEN snHost \in SnHosts ELSE snHost = CHOOSE v \in SnHosts : TRUE
  /\ IF part = "cc" THEN ccEncrypted \in BOOLEAN ELSE ccEncrypted = CHOOSE v \in BOOLEAN : TRUE
  /\ IF part = "cc" THEN ccAllowed \in SUBSET {"input", "command"} ELSE ccAllowed = CHOOSE v \in SUBSET {"input", "command"} : TRUE
  /\ IF part = "iq" THEN iqGrant \in IqGranted ELSE iqGrant = CHOOSE v \in IqGranted : TRUE
  /\ IF part = "as" THEN asAuto \in BOOLEAN ELSE asAuto = CHOOSE v \in BOOLEAN : TRUE
  /\ LaunchInit /\ RsInit /\ SnInit /\ CcInit /\ IqInit /\ ImInit
  /\ IkInit /\ IpInit /\ PtInit /\ WtInit /\ WpInit /\ AsInit
  /\ AuInit

\* Everything but the part that moves stays as it is.
Rest(moving) ==
  /\ UNCHANGED part
  /\ IF moving = "slot" THEN TRUE ELSE UNCHANGED launchVars
  /\ IF moving = "rs" THEN TRUE ELSE UNCHANGED rsVars
  /\ IF moving = "sn" THEN TRUE ELSE UNCHANGED snVars
  /\ IF moving = "cc" THEN TRUE ELSE UNCHANGED ccVars
  /\ IF moving = "iq" THEN TRUE ELSE UNCHANGED iqVars
  /\ IF moving = "im" THEN TRUE ELSE UNCHANGED imVars
  /\ IF moving = "ik" THEN TRUE ELSE UNCHANGED ikVars
  /\ IF moving = "ip" THEN TRUE ELSE UNCHANGED ipVars
  /\ IF moving = "pt" THEN TRUE ELSE UNCHANGED ptVars
  /\ IF moving = "wt" THEN TRUE ELSE UNCHANGED wtVars
  /\ IF moving = "wp" THEN TRUE ELSE UNCHANGED wpVars
  /\ IF moving = "as" THEN TRUE ELSE UNCHANGED asVars
  /\ IF moving = "au" THEN TRUE ELSE UNCHANGED auVars

MCNext ==
  \/ part = "slot" /\ LaunchNext /\ Rest("slot")
  \/ part = "rs" /\ RsNext /\ Rest("rs")
  \/ part = "sn" /\ SnNext /\ Rest("sn")
  \/ part = "cc" /\ CcNext /\ Rest("cc")
  \/ part = "iq" /\ IqNext /\ Rest("iq")
  \/ part = "im" /\ ImNext /\ Rest("im")
  \/ part = "ik" /\ IkNext /\ Rest("ik")
  \/ part = "ip" /\ IpNext /\ Rest("ip")
  \/ part = "pt" /\ PtNext /\ Rest("pt")
  \/ part = "wt" /\ WtNext /\ Rest("wt")
  \/ part = "wp" /\ WpNext /\ Rest("wp")
  \/ part = "as" /\ AsNext /\ Rest("as")
  \/ part = "au" /\ AuNext /\ Rest("au")

mcVars == <<part, launchVars, rsVars, snVars, ccVars, iqVars, imVars, ikVars, ipVars, ptVars, wtVars, wpVars, asVars, auVars>>

MCSpec ==
  /\ MCInit /\ [][MCNext]_mcVars
  /\ WF_launchVars(part = "slot" /\ Arm) /\ WF_launchVars(part = "slot" /\ Expire) /\ WF_launchVars(part = "slot" /\ Discard)
  /\ WF_launchVars(part = "slot" /\ Cancel) /\ WF_launchVars(part = "slot" /\ Pop)
  /\ WF_ccVars(part = "cc" /\ LoopSendsMessages)
  /\ \A s \in ImSessions : WF_imVars(part = "im" /\ TimerFires(s)) /\ WF_imVars(part = "im" /\ ResetTask(s))
  /\ WF_ikVars(part = "ik" /\ ((\E task \in ikTimers : RepeatKey(task)) \/ RepeatAgain))
  /\ WF_ikVars(part = "ik" /\ KeysReleased)
  /\ \A p \in IpPads : WF_ipVars(part = "ip" /\ BackTimer(p))
  /\ WF_ipVars(part = "ip" /\ \E s \in IpSessions : Destroyed(s))
  /\ WF_ipVars(part = "ip" /\ \E i \in ipFree : FreeGamepad(i))
  /\ \A s \in AsSessions : WF_asVars(part = "as" /\ AsThread(s))
  /\ WF_auVars(part = "au" /\ PopStopped) /\ WF_auVars(part = "au" /\ EncoderJoined)

-----------------------------------------------------------------------------
\* Input messages reach the device in order, none that changes a state is lost
\* when messages are merged, and positions and scrolling keep their amount.
InputArrives ==
  /\ IqTypeOK
  /\ TurnForEveryMessage
  /\ DeviceOrderKept
  /\ StateChangesArrive
  /\ PointerOnDisplay
  /\ ScrollConserved

\* What is down for the operating system is what some client holds: buttons,
\* keys, gamepads, touches and the pen, with their timers and slots.
HeldInputFollowsClients ==
  /\ ImTypeOK
  /\ ButtonsFollowClients
  /\ HeldButtonsStay
  /\ IkTypeOK
  /\ OneRepeat
  /\ KeysFollowClients
  /\ IpTypeOK
  /\ IdsAccountedFor
  /\ TimersFindPads
  /\ BackForcedUntilReleased
  /\ SlotsCoverTouches
  /\ InteractionRefreshed
  /\ NoRefreshAfterClient
  /\ ConnectedWhileAttached
  /\ ReportsRepeated
  /\ FingersApart

\* The right device is recorded, what it delivers reaches the frames in order
\* and with no gap but the device's own, and the host's own device is the
\* default again afterwards.
AudioSound ==
  /\ CaptureNotStale
  /\ VirtualSinkReleased
  /\ NothingOverflows
  /\ FrameWithoutGap
  /\ FramesInOrder

\* What a client let go of, or left behind, is released.
InputReleased == ReleaseArrives /\ RepeatStops /\ PadsFreed

\* A launch leaves its slot, the control thread waits in it only for a launch
\* that was discarded, the client learns the newest state, its audio goes to
\* the sink it was assigned, and the audio threads end.
ClientServed ==
  /\ LaunchSlotFreed
  /\ ControlGoesOn
  /\ ClientLearnsNewest
  /\ AssignedSinkKept
  /\ AudioThreadEnds
  /\ EncoderEnds
=============================================================================
