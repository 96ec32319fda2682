---------------------------- MODULE AudioCapture ----------------------------
(* Audio capture (audio.cpp, platform/windows/audio.cpp): two machines that *)
(* share no state, the audio devices and the samples of a session.          *)
EXTENDS Naturals, Sequences, FiniteSets

-----------------------------------------------------------------------------
(***************************************************************************)
(* Audio capture on Windows (audio.cpp, platform/windows/audio.cpp): the   *)
(* sessions' capture threads share one audio context; the first of them    *)
(* may make another device, usually the virtual "Steam Streaming           *)
(* Speakers", the default one, and the last puts the host's device back.   *)
(* The user, another program or a crash of the process may come between.   *)
(***************************************************************************)

CONSTANTS
  AsSessions,
  AsHostAudio,   \* sessions that also play on the host
  AsOrder,       \* audio devices, as a sequence in the order they are enumerated
  AsNames,       \* their names: device -> [id, friendly, description, adapter]
  AsHost,        \* the default device at the start
  AsConfigured,  \* config::audio.sink, as a set of at most one name
  AsKeepDefault, \* config::audio.keep_default
  AsMaxEvents    \* bound on crashes and the user's changes of the default device

VARIABLES
  asAuto,    \* config::audio.auto_capture
  asUp,      \* the process runs
  asDefault, \* the default device
  asChosen,  \* the devices the user chose, and the first default
  asCtx,     \* audio_ctx_t: [host, flag, restore], as a set
  asAssigned,\* assigned_sink, as a set of at most one device
  asStep,    \* step of each session's thread
  asMic,     \* [dev, changed, guards] of each session's microphone, as a set; dev is a set
  asShut,    \* sessions whose shutdown event is raised
  asFailed,  \* set_sink failed when a device was to be put back
  asEvents

asVars == <<asAuto, asUp, asDefault, asChosen, asCtx, asAssigned, asStep, asMic, asShut, asFailed, asEvents>>

AsDevices == {AsOrder[i] : i \in 1 .. Len(AsOrder)}
Virtual == {d \in AsDevices : AsNames[d].adapter = "steam"}

\* Sessions that hold a reference on the context.
Users == {s \in AsSessions : asStep[s] # "idle"}

FirstOf(devs) == {AsOrder[i] : i \in {i \in 1 .. Len(AsOrder) : AsOrder[i] \in devs /\ \A j \in 1 .. i - 1 : AsOrder[j] \notin devs}}

\* match_all_fields and find_device_id: the fields in order of preference,
\* the first device for each.
FindDeviceId(name) ==
  LET by(field) == FirstOf({d \in AsDevices : AsNames[d][field] = name})
  IN IF by("id") # {} THEN by("id") ELSE IF by("friendly") # {} THEN by("friendly")
     ELSE IF by("description") # {} THEN by("description") ELSE by("adapter")

\* OnDefaultDeviceChanged reaches every registered microphone.
NotifiedWhenGuarding(mics) == [s \in AsSessions |-> {[m EXCEPT !.changed = @ \/ m.guards] : m \in mics[s]}]

Notified(mics) == [s \in AsSessions |-> {[m EXCEPT !.changed = TRUE] : m \in mics[s]}]

\* SetDefaultEndpoint: a new default device is announced.
SetDefault(d, mics) == asDefault' = d /\ asMic' = IF d = asDefault THEN mics ELSE Notified(mics)

AsInit ==
  /\ asAuto \in BOOLEAN /\ asUp = FALSE /\ asDefault = AsHost /\ asChosen = {AsHost} /\ asCtx = {} /\ asAssigned = {}
  /\ asStep = [s \in AsSessions |-> "idle"] /\ asMic = [s \in AsSessions |-> {}]
  /\ asShut = {} /\ asFailed = FALSE /\ asEvents = 0

\* reset_default_device: another device, if there is one, becomes the default.
ResetDevice == IF asDefault \in Virtual /\ AsDevices \ Virtual # {} THEN FirstOf(AsDevices \ Virtual) ELSE {asDefault}

ProcessStarts ==
  /\ ~asUp /\ asUp' = TRUE /\ \E d \in ResetDevice : SetDefault(d, asMic)
  /\ UNCHANGED <<asAuto, asChosen, asCtx, asAssigned, asStep, asShut, asFailed, asEvents>>

AudioCrash ==
  /\ asUp /\ asEvents < AsMaxEvents /\ asEvents' = asEvents + 1 /\ asUp' = FALSE
  /\ asCtx' = {} /\ asAssigned' = {} /\ asShut' = {}
  /\ asStep' = [s \in AsSessions |-> "idle"] /\ asMic' = [s \in AsSessions |-> {}]
  /\ UNCHANGED <<asAuto, asDefault, asChosen, asFailed>>

UserChanges(d) ==
  /\ asEvents < AsMaxEvents /\ asEvents' = asEvents + 1 /\ d # asDefault
  /\ asChosen' = asChosen \cup {d} /\ SetDefault(d, asMic)
  /\ UNCHANGED <<asAuto, asUp, asCtx, asAssigned, asStep, asShut, asFailed>>

\* The reference; the first one starts the audio control.
StartAudioControl(s) ==
  /\ asUp /\ asStep[s] = "idle" /\ s \notin asShut
  /\ asStep' = [asStep EXCEPT ![s] = "ref"]
  /\ asCtx' = IF asCtx = {} THEN {[host |-> asDefault, flag |-> FALSE, restore |-> FALSE]} ELSE asCtx
  /\ asAssigned' = IF asCtx = {} THEN {} ELSE asAssigned
  /\ UNCHANGED <<asAuto, asUp, asDefault, asChosen, asMic, asShut, asFailed, asEvents>>

\* The sink the session prefers, and whether it is the host's by name.
VirtualPreferred(s) == Virtual # {} /\ s \notin AsHostAudio

SelectedSink(s, ctx) ==
  IF VirtualPreferred(s) THEN FirstOf(Virtual)
  ELSE IF AsConfigured # {} THEN UNION {FindDeviceId(n) : n \in AsConfigured} ELSE {ctx.host}

\* Only the first session may change the default sink.
MayChangeSink(ctx) == ~ctx.flag

TakeFlag(s) ==
  /\ asStep[s] = "ref"
  /\ \E ctx \in asCtx :
       LET restore == VirtualPreferred(s) \/ AsConfigured # {}
       IN /\ asCtx' = IF MayChangeSink(ctx) THEN {[ctx EXCEPT !.flag = TRUE, !.restore = restore]} ELSE asCtx
          /\ asStep' = [asStep EXCEPT ![s] = IF MayChangeSink(ctx) /\ restore THEN "sink" ELSE "listen"]
  /\ UNCHANGED <<asAuto, asUp, asDefault, asChosen, asAssigned, asMic, asShut, asFailed, asEvents>>

\* set_sink: a device that is not found, or cannot be set, ends in no audio.
SetSink(s, works) ==
  /\ asStep[s] = "sink"
  /\ \E ctx \in asCtx :
       LET found == IF works THEN SelectedSink(s, ctx) ELSE {}
       IN /\ asStep' = [asStep EXCEPT ![s] = IF found = {} THEN "failed" ELSE "listen"]
          /\ IF found = {} THEN UNCHANGED <<asDefault, asMic, asAssigned>>
             ELSE \E d \in found : SetDefault(d, asMic) /\ asAssigned' = {d}
  /\ UNCHANGED <<asAuto, asUp, asChosen, asCtx, asShut, asFailed, asEvents>>

\* mic_wasapi_t::init registers for notifications, then opens the device.
MicListens(s) ==
  /\ asStep[s] \in {"listen", "again", "lost"} /\ asMic[s] = {}
  /\ asMic' = [asMic EXCEPT ![s] = {[dev |-> {}, changed |-> FALSE, guards |-> FALSE]}]
  /\ UNCHANGED <<asAuto, asUp, asDefault, asChosen, asCtx, asAssigned, asStep, asShut, asFailed, asEvents>>

\* With keep_default a microphone on a virtual sink guards that sink.
Guards == AsKeepDefault /\ asAssigned \cap Virtual # {}

\* The first attempt may fail for good; a later one is repeated until it
\* works or the session is shut down.
MicOpens(s, works) ==
  /\ asStep[s] \in {"listen", "again", "lost"} /\ asMic[s] # {}
  /\ asMic' = [asMic EXCEPT ![s] = IF works THEN {[m EXCEPT !.dev = {asDefault}, !.guards = Guards] : m \in @} ELSE {}]
  /\ asStep' = [asStep EXCEPT ![s] = IF works THEN "capture" ELSE IF @ = "listen" THEN "failed" ELSE "retry"]
  /\ UNCHANGED <<asAuto, asUp, asDefault, asChosen, asCtx, asAssigned, asShut, asFailed, asEvents>>

TryAgain(s) ==
  /\ asStep[s] = "retry" /\ s \notin asShut
  /\ asStep' = [asStep EXCEPT ![s] = "again"]
  /\ UNCHANGED <<asAuto, asUp, asDefault, asChosen, asCtx, asAssigned, asMic, asShut, asFailed, asEvents>>

SinkLeftChanged(m) == {}

\* default_endpt_changed_cb: the assigned sink is set again.
CallbackSink(m) == IF m.guards THEN asAssigned ELSE {}

\* _fill_buffer after the default changed: the flag is taken and the callback
\* called. With auto_capture a new microphone follows; without it the old one
\* goes on.
Reinit(s, works) ==
  /\ asStep[s] = "capture"
  /\ asStep' = IF asAuto THEN [asStep EXCEPT ![s] = "again"] ELSE asStep
  /\ \E m \in asMic[s] :
       LET mics == [asMic EXCEPT ![s] = IF asAuto THEN {} ELSE {[m EXCEPT !.changed = FALSE]}]
           sink == CallbackSink(m)
       IN /\ m.changed
          /\ asFailed' = (asFailed \/ (sink # {} /\ ~works))
          /\ IF sink # {} /\ works THEN \E d \in sink : SetDefault(d, mics) ELSE asMic' = mics /\ UNCHANGED asDefault
  /\ UNCHANGED <<asAuto, asUp, asChosen, asCtx, asAssigned, asShut, asEvents>>

\* AUDCLNT_E_DEVICE_INVALIDATED: a new microphone without the callback, and
\* with it a pending change is forgotten. Without auto_capture the microphone
\* goes on asking a device that is lost. (The loop looks at its shutdown event
\* before each sample.)
Invalidated(s) ==
  /\ asAuto /\ asStep[s] = "capture" /\ s \notin asShut
  /\ asStep' = [asStep EXCEPT ![s] = "lost"] /\ asMic' = [asMic EXCEPT ![s] = {}]
  /\ UNCHANGED <<asAuto, asUp, asDefault, asChosen, asCtx, asAssigned, asShut, asFailed, asEvents>>

\* A microphone that breaks leaves the stream without audio.
CaptureFails(s) ==
  /\ asStep[s] = "capture" /\ asStep' = [asStep EXCEPT ![s] = "failed"]
  /\ UNCHANGED <<asAuto, asUp, asDefault, asChosen, asCtx, asAssigned, asMic, asShut, asFailed, asEvents>>

Shutdown(s) ==
  /\ asStep[s] # "idle" /\ s \notin asShut /\ asShut' = asShut \cup {s}
  /\ UNCHANGED <<asAuto, asUp, asDefault, asChosen, asCtx, asAssigned, asStep, asMic, asFailed, asEvents>>

\* Where a thread looks at its shutdown event.
SeesShutdown(s) == asStep[s] \in {"capture", "failed", "retry"}

\* The thread ends, and the last reference stops the audio control.
StopAudioControl(s, works) ==
  /\ s \in asShut /\ SeesShutdown(s)
  /\ asStep' = [asStep EXCEPT ![s] = "idle"] /\ asShut' = asShut \ {s}
  /\ LET mics == [asMic EXCEPT ![s] = {}]
         last == Users = {s}
         puts == last /\ \E ctx \in asCtx : ctx.restore
     IN /\ asCtx' = IF last THEN {} ELSE asCtx
        /\ asAssigned' = IF last THEN {} ELSE asAssigned
        /\ asFailed' = (asFailed \/ (puts /\ ~works))
        /\ IF puts /\ works THEN \E ctx \in asCtx : SetDefault(ctx.host, mics)
           ELSE asMic' = mics /\ UNCHANGED asDefault
  /\ UNCHANGED <<asAuto, asUp, asChosen, asEvents>>

\* The capture threads run.
AsThread(s) ==
  \/ TakeFlag(s) \/ MicListens(s) \/ TryAgain(s)
  \/ \E works \in BOOLEAN : SetSink(s, works) \/ MicOpens(s, works) \/ Reinit(s, works) \/ StopAudioControl(s, works)

AsNext ==
  \/ ProcessStarts \/ AudioCrash \/ \E d \in AsDevices : UserChanges(d)
  \/ \E s \in AsSessions : StartAudioControl(s) \/ Invalidated(s) \/ CaptureFails(s) \/ Shutdown(s) \/ AsThread(s)

AsFairness == \A s \in AsSessions : WF_asVars(AsThread(s))

AsSpec == AsInit /\ [][AsNext]_asVars /\ AsFairness

-----------------------------------------------------------------------------
\* With auto_capture, a capturing thread never records a device that is no
\* longer the default without having been told so (audio_notification_t).
CaptureNotStale ==
  asAuto => \A s \in AsSessions : asStep[s] = "capture" => \A m \in asMic[s] : m.dev = {asDefault} \/ m.changed

\* When no session captures, a virtual device is not the default unless it is
\* one the user chose, putting the host's device back failed or there is no
\* other, also after a crash and a new start (stop_audio_control,
\* reset_default_device).
VirtualSinkReleased ==
  asUp /\ Users = {} /\ AsDevices \ Virtual # {} => asDefault \notin Virtual \/ asDefault \in asChosen \/ asFailed

\* With keep_default, a change of the default device that a guarding
\* microphone is told of is undone, unless its capture ends or its device is
\* lost before that, or setting the device fails (default_endpt_changed_cb).
AssignedSinkKept ==
  \A s \in AsSessions :
    asStep[s] = "capture" /\ (\E m \in asMic[s] : m.changed /\ m.guards) ~>
      asDefault \in asAssigned \/ asStep[s] \in {"idle", "failed", "lost"} \/ asFailed

\* A session's audio thread ends after its shutdown was signalled, whatever
\* failed before; the session's join waits for it.
AudioThreadEnds == \A s \in AsSessions : s \in asShut ~> s \notin asShut

-----------------------------------------------------------------------------
(***************************************************************************)
(* The way of the audio samples of one session (audio.cpp, and             *)
(* mic_wasapi_t in platform/windows/audio.cpp): the device's packets are   *)
(* copied into the microphone's buffer, frames of fixed size are cut from  *)
(* its front and queued, and the encoding thread makes packets of them.    *)
(* Samples are numbered as the device delivers them.                       *)
(***************************************************************************)

CONSTANTS
  AuFrame,      \* samples of a frame (frame_size * channels)
  AuDevice,     \* samples the device's own buffer holds (GetBufferSize)
  AuQueue,      \* capacity of the sample queue
  AuMaxSamples  \* bound on samples recorded

ASSUME AuAssumption == AuFrame \in Nat \ {0} /\ AuDevice \in Nat /\ AuQueue \in Nat \ {0} /\ AuMaxSamples \in Nat

VARIABLES
  auNext,     \* samples the device has seen
  auLost,     \* those it lost before they could be read (a discontinuity)
  auHeld,     \* those it holds
  auBuf,      \* sample_buf up to sample_buf_pos
  auOverflow, \* samples that did not fit
  auQueue,    \* sample_queue_t: frames, each by its samples
  auRunning,  \* the sample queue runs
  auEncoder,  \* encodeThread runs
  auState     \* the capture thread: "capture", "join" or "ended"

auVars == <<auNext, auLost, auHeld, auBuf, auOverflow, auQueue, auRunning, auEncoder, auState>>

Bigger == IF AuDevice > AuFrame THEN AuDevice ELSE AuFrame

\* sample_buf: *2, it needs to fit double.
Capacity == Bigger * 2

AuRecord(n) ==
  /\ auNext + n <= AuMaxSamples /\ Len(auHeld) + n <= AuDevice
  /\ auNext' = auNext + n /\ auHeld' = auHeld \o [k \in 1 .. n |-> auNext + k]
  /\ UNCHANGED <<auLost, auBuf, auOverflow, auQueue, auRunning, auEncoder, auState>>

\* AUDCLNT_BUFFERFLAGS_DATA_DISCONTINUITY is only logged.
DeviceLoses(n) ==
  /\ auNext + n <= AuMaxSamples
  /\ auNext' = auNext + n /\ auLost' = auLost \cup auNext + 1 .. auNext + n
  /\ UNCHANGED <<auHeld, auBuf, auOverflow, auQueue, auRunning, auEncoder, auState>>

\* _fill_buffer takes all packets the device holds; what does not fit is lost.
FillBuffer ==
  /\ auState = "capture" /\ Len(auBuf) < AuFrame /\ auHeld # <<>>
  /\ LET room == Capacity - Len(auBuf)
         n == IF Len(auHeld) < room THEN Len(auHeld) ELSE room
     IN /\ auBuf' = auBuf \o SubSeq(auHeld, 1, n)
        /\ auOverflow' = auOverflow + (Len(auHeld) - n)
  /\ auHeld' = <<>>
  /\ UNCHANGED <<auNext, auLost, auQueue, auRunning, auEncoder, auState>>

\* Excess samples move to the front of the buffer.
Excess == SubSeq(auBuf, AuFrame + 1, Len(auBuf))

\* queue_t::raise: a full queue loses all it holds.
Raised(q, frame) == IF Len(q) = AuQueue THEN <<frame>> ELSE Append(q, frame)

\* sample, and raise on the queue if that still runs.
Sample ==
  /\ auState = "capture" /\ Len(auBuf) >= AuFrame
  /\ auQueue' = IF auRunning THEN Raised(auQueue, SubSeq(auBuf, 1, AuFrame)) ELSE auQueue
  /\ auBuf' = Excess
  /\ UNCHANGED <<auNext, auLost, auHeld, auOverflow, auRunning, auEncoder, auState>>

\* The device is lost or the default changed: a new microphone with an empty
\* buffer; what the old one held is gone.
Reinitialized ==
  /\ auState = "capture" /\ auHeld' = <<>> /\ auHeld \o auBuf # <<>>
  /\ auBuf' = <<>>
  /\ UNCHANGED <<auNext, auLost, auOverflow, auQueue, auRunning, auEncoder, auState>>

\* encodeThread: a frame that cannot be encoded ends it, the queue runs on.
EncodeFrame(works) ==
  /\ auEncoder /\ auRunning /\ auQueue # <<>>
  /\ auQueue' = Tail(auQueue) /\ auEncoder' = works
  /\ UNCHANGED <<auNext, auLost, auHeld, auBuf, auOverflow, auRunning, auState>>

PopStopped ==
  /\ auEncoder /\ ~auRunning /\ auEncoder' = FALSE
  /\ UNCHANGED <<auNext, auLost, auHeld, auBuf, auOverflow, auQueue, auRunning, auState>>

\* queue_t::stop, which wakes a waiting pop.
StopSamples == FALSE

\* Shutdown, or an error of the microphone, then the fail guard.
CaptureEnds ==
  /\ auState = "capture" /\ auState' = "join" /\ auRunning' = StopSamples
  /\ UNCHANGED <<auNext, auLost, auHeld, auBuf, auOverflow, auQueue, auEncoder>>

EncoderJoined ==
  /\ auState = "join" /\ ~auEncoder /\ auState' = "ended"
  /\ UNCHANGED <<auNext, auLost, auHeld, auBuf, auOverflow, auQueue, auRunning, auEncoder>>

AuInit ==
  /\ auNext = 0 /\ auLost = {} /\ auHeld = <<>> /\ auBuf = <<>> /\ auOverflow = 0 /\ auQueue = <<>>
  /\ auRunning = TRUE /\ auEncoder = TRUE /\ auState = "capture"

AuNext ==
  \/ \E n \in 1 .. AuDevice : AuRecord(n) \/ DeviceLoses(n)
  \/ FillBuffer \/ Sample \/ Reinitialized \/ PopStopped \/ CaptureEnds \/ EncoderJoined
  \/ \E works \in BOOLEAN : EncodeFrame(works)

AuFairness ==
  /\ WF_auVars(PopStopped) /\ WF_auVars(EncoderJoined)

AuSpec == AuInit /\ [][AuNext]_auVars /\ AuFairness

-----------------------------------------------------------------------------
\* Nothing is lost between the device and the frames: the microphone's buffer
\* never overflows, whatever the device holds when it is read. (A full queue
\* does discard whole frames.)
NothingOverflows == auOverflow = 0

\* Two samples that follow each other: the device lost what lies between.
Follows(a, b) == a < b /\ \A x \in a + 1 .. b - 1 : x \in auLost

\* A frame that is encoded has no gap in it but one the device itself made,
\* also when the device was replaced while a frame was incomplete.
FrameWithoutGap ==
  \A k \in DOMAIN auQueue : \A j \in 1 .. AuFrame - 1 : Follows(auQueue[k][j], auQueue[k][j + 1])

\* The frames stay in order, however often a full queue discarded them.
FramesInOrder == \A k \in 1 .. Len(auQueue) - 1 : auQueue[k][AuFrame] < auQueue[k + 1][1]

\* The capture thread does not wait for ever to join the encoding thread.
EncoderEnds == auState = "join" ~> auState = "ended"
=============================================================================
