---------------------------- MODULE VideoCapture ----------------------------
(***************************************************************************)
(* Parallel capture and encoding (video.cpp): one capture thread, started  *)
(* by the first session and joined by the last, hands images to the        *)
(* sessions' encoding threads, and closes and opens the display again when *)
(* it changes.  peek, pop and raise of an event are steps of their own     *)
(* wherever two threads use the event, and so are a session's two looks at *)
(* the display, which the capture thread closes without the lock.          *)
(***************************************************************************)
EXTENDS FiniteSets, Naturals

CONSTANT VcSessions

VARIABLES
  vcThread,   \* where the capture thread is
  vcPops,     \* the session whose image it is about to pop
  vcQueue,    \* capture_ctx_queue
  vcRunning,  \* capture_ctx_queue->running()
  vcCtxs,     \* capture_ctxs
  vcDisp,     \* captureThread's disp is a display
  vcReinit,   \* reinit_event
  vcRefs,     \* sessions that hold capture_thread_async
  vcAt,       \* where each session's encoding thread is
  vcImages,   \* its image event: "empty", "full" or "stopped"
  vcShutdown, \* its shutdown event
  vcEncoded,  \* frame_nr > 1
  vcOld,      \* sessions that hold a display older than that of display_wp
  vcTearing   \* a detached thread tears an encoder down

vcThreadVars == <<vcThread, vcPops, vcQueue, vcRunning, vcCtxs, vcDisp, vcReinit>>
vcDisplayVars == <<vcOld, vcTearing>>
vcSessionVars == <<vcRefs, vcAt, vcImages, vcShutdown, vcEncoded>>
vcVars == <<vcThread, vcPops, vcQueue, vcRunning, vcCtxs, vcDisp, vcReinit,
            vcRefs, vcAt, vcImages, vcShutdown, vcEncoded, vcOld, vcTearing>>

VcNobody == "nobody"

ASSUME VcAssumption == VcNobody \notin VcSessions

VcInit ==
  /\ vcThread = "off" /\ vcPops = VcNobody /\ vcQueue = {} /\ vcRunning = FALSE /\ vcCtxs = {}
  /\ vcDisp = FALSE /\ vcReinit = FALSE /\ vcRefs = {}
  /\ vcAt = [s \in VcSessions |-> "idle"]
  /\ vcImages = [s \in VcSessions |-> "stopped"]
  /\ vcShutdown = [s \in VcSessions |-> TRUE]
  /\ vcEncoded = [s \in VcSessions |-> FALSE]
  /\ vcOld = {} /\ vcTearing = FALSE

Go(s, pc) == vcAt' = [vcAt EXCEPT ![s] = pc]
Ended(s) == vcImages[s] = "stopped"
HoldsDisplay(s) == vcAt[s] \in {"hold", "check", "pop"}
\* The use count of display_wp's display without the capture thread's own:
\* encoders, also those a detached thread tears down, and images nobody has
\* taken yet.
DisplayInUse ==
  vcTearing \/ \E s \in VcSessions : (HoldsDisplay(s) /\ s \notin vcOld) \/ vcImages[s] = "full"
DisplayOpen == vcDisp \/ DisplayInUse

\* A session dereferences a null display, which ends the process.
Crashed == \E s \in VcSessions : vcAt[s] = "null"

\* An encoder is let go: at once, or with ASYNC_TEARDOWN in a thread of its own,
\* which holds the display until it has ended.
LetsEncoderGo(s) ==
  /\ vcTearing' \in {vcTearing, vcTearing \/ s \notin vcOld}
  /\ vcOld' = vcOld \ {s}

-----------------------------------------------------------------------------
(* A session's thread: capture_async and encode_run *)

\* A new session: capture_thread_async.ref(), which waits for a thread that is
\* being joined and starts one for the first session.
Ref(s) ==
  /\ vcAt[s] = "idle" /\ s \notin vcCtxs \cup vcQueue
  /\ \A o \in VcSessions : vcAt[o] # "join"
  /\ IF vcRefs = {}
     THEN /\ vcThread' = "wait" /\ vcRunning' = TRUE /\ vcQueue' = {}
          /\ UNCHANGED <<vcPops, vcCtxs, vcDisp, vcReinit>>
     ELSE UNCHANGED vcThreadVars
  /\ vcRefs' = vcRefs \cup {s}
  /\ Go(s, "ref")
  /\ vcImages' = [vcImages EXCEPT ![s] = "empty"]
  /\ vcShutdown' = [vcShutdown EXCEPT ![s] = FALSE]
  /\ UNCHANGED <<vcEncoded, vcDisplayVars>>

\* A queue that has been stopped takes nothing.
RaiseContext(s) ==
  /\ vcAt[s] = "ref"
  /\ vcQueue' = IF vcRunning THEN vcQueue \cup {s} ELSE vcQueue
  /\ Go(s, IF vcRunning THEN "loop" ELSE "leave")
  /\ UNCHANGED <<vcThread, vcPops, vcRunning, vcCtxs, vcDisp, vcReinit,
                 vcRefs, vcImages, vcShutdown, vcEncoded, vcDisplayVars>>

LoopIgnoresImages(s) ==
  /\ vcAt[s] = "loop" /\ (vcShutdown[s] \/ ~vcReinit)
  /\ Go(s, IF vcShutdown[s] THEN "leave" ELSE "lock")
  /\ UNCHANGED <<vcThreadVars, vcRefs, vcImages, vcShutdown, vcEncoded, vcDisplayVars>>

\* The loop waits while the display is being changed ...
LoopChecks(s) ==
  /\ vcAt[s] = "loop"
  /\ vcShutdown[s] \/ Ended(s) \/ ~vcReinit
  /\ Go(s, IF vcShutdown[s] \/ Ended(s) THEN "leave" ELSE "lock")
  /\ UNCHANGED <<vcThreadVars, vcRefs, vcImages, vcShutdown, vcEncoded, vcDisplayVars>>

\* ... and until there is one: with the lock of display_wp, which only keeps the
\* thread from opening another, a session asks whether it has expired ...
LooksAtDisplay(s) ==
  /\ vcAt[s] = "lock"
  /\ Go(s, IF DisplayOpen THEN "take" ELSE "loop")
  /\ UNCHANGED <<vcThreadVars, vcRefs, vcImages, vcShutdown, vcEncoded, vcDisplayVars>>

\* ... and takes it, or null if the thread has let it go since.
LocksDisplay(s) ==
  /\ vcAt[s] = "take"
  /\ Go(s, IF DisplayOpen THEN "hold" ELSE "null")
  /\ UNCHANGED <<vcThreadVars, vcRefs, vcImages, vcShutdown, vcEncoded, vcDisplayVars>>

\* make_encode_device and make_encode_session: without a device the session
\* gives up, without an encoder or its dummy image it tries again.
MakesEncoder(s, outcome) ==
  /\ vcAt[s] = "hold"
  /\ Go(s, CASE outcome = "ok" -> "check" [] outcome = "noDevice" -> "leave" [] OTHER -> "loop")
  /\ CASE outcome = "ok" -> UNCHANGED vcDisplayVars
       [] outcome = "noDummy" -> LetsEncoderGo(s)
       [] OTHER -> vcOld' = vcOld \ {s} /\ UNCHANGED vcTearing
  /\ UNCHANGED <<vcThreadVars, vcRefs, vcImages, vcShutdown, vcEncoded>>

\* encode_run: a display change is heeded once a frame has been sent.
EncodeChecks(s) ==
  /\ vcAt[s] = "check"
  /\ IF vcShutdown[s] \/ Ended(s) \/ (vcReinit /\ vcEncoded[s])
     THEN Go(s, "loop") /\ LetsEncoderGo(s)
     ELSE Go(s, "pop") /\ UNCHANGED vcDisplayVars
  /\ UNCHANGED <<vcThreadVars, vcRefs, vcImages, vcShutdown, vcEncoded>>

\* images->pop(max_frametime): an image, or the last one again after a while;
\* a failure to convert or encode ends this encoder.
Encodes(s, fails) ==
  /\ vcAt[s] = "pop"
  /\ vcImages' = [vcImages EXCEPT ![s] = IF @ = "full" THEN "empty" ELSE @]
  /\ vcEncoded' = [vcEncoded EXCEPT ![s] = @ \/ ~Ended(s)]
  /\ IF fails \/ Ended(s) THEN Go(s, "loop") /\ LetsEncoderGo(s)
                           ELSE Go(s, "check") /\ UNCHANGED vcDisplayVars
  /\ UNCHANGED <<vcThreadVars, vcRefs, vcShutdown>>

\* The last teardown ends, unless it hangs in the driver.
TeardownEnds ==
  /\ vcTearing /\ vcTearing' = FALSE
  /\ UNCHANGED <<vcThreadVars, vcSessionVars, vcOld>>

\* The locals of capture_async are destroyed in reverse order: first the
\* reference, which for the last one stops the queue and joins the thread ...
Unref(s) ==
  /\ vcAt[s] = "leave"
  /\ vcRefs' = vcRefs \ {s}
  /\ vcRunning' = (vcRunning /\ vcRefs' # {})
  /\ Go(s, IF vcRefs' = {} THEN "join" ELSE "stop")
  /\ UNCHANGED <<vcThread, vcPops, vcQueue, vcCtxs, vcDisp, vcReinit,
                 vcImages, vcShutdown, vcEncoded, vcDisplayVars>>

\* ... and destroys its events and display_wp ...
Joined(s) ==
  /\ vcAt[s] = "join" /\ vcThread = "off"
  /\ Go(s, "stop")
  /\ vcReinit' = FALSE /\ vcTearing' = FALSE
  /\ UNCHANGED <<vcThread, vcPops, vcQueue, vcRunning, vcCtxs, vcDisp,
                 vcRefs, vcImages, vcShutdown, vcEncoded, vcOld>>

\* ... then the guard that stops the images and raises shutdown.
StopsImages(s) ==
  /\ vcAt[s] = "stop"
  /\ vcImages' = [vcImages EXCEPT ![s] = "stopped"]
  /\ vcShutdown' = [vcShutdown EXCEPT ![s] = TRUE]
  /\ vcEncoded' = [vcEncoded EXCEPT ![s] = FALSE]
  /\ Go(s, "idle")
  /\ UNCHANGED <<vcThreadVars, vcRefs, vcDisplayVars>>

\* Somebody ends the session.
ShutDownSession(s) ==
  /\ vcAt[s] # "idle" /\ ~vcShutdown[s]
  /\ vcShutdown' = [vcShutdown EXCEPT ![s] = TRUE]
  /\ UNCHANGED <<vcThreadVars, vcRefs, vcAt, vcImages, vcEncoded, vcDisplayVars>>

-----------------------------------------------------------------------------
(* captureThread *)

Stopping(ctxs) == [s \in VcSessions |-> IF s \in ctxs THEN "stopped" ELSE vcImages[s]]

StopsKnownContexts ==
  /\ vcThread' = "off" /\ vcRunning' = FALSE /\ vcDisp' = FALSE
  /\ vcImages' = Stopping(vcCtxs)
  /\ vcCtxs' = {} /\ vcQueue' = {}
  /\ UNCHANGED <<vcPops, vcReinit>>

\* The guard of captureThread: every session that was told about this thread,
\* also those still in the queue, is told that it has ended. The display goes
\* before that.
ThreadEnds ==
  /\ vcThread' = "off" /\ vcRunning' = FALSE /\ vcDisp' = FALSE
  /\ vcImages' = Stopping(vcCtxs \cup vcQueue)
  /\ vcCtxs' = {} /\ vcQueue' = {}
  /\ UNCHANGED <<vcPops, vcReinit>>

\* display_wp gets a new display, under its lock: what is held of the one before
\* does not count any more.
DisplayOpened ==
  /\ \A s \in VcSessions : vcAt[s] # "take"
  /\ vcDisp' = TRUE /\ vcTearing' = FALSE /\ vcOld' = {s \in VcSessions : HoldsDisplay(s)}

\* The first context, and a display for it.
FirstContext(opens) ==
  /\ vcThread = "wait"
  /\ \/ /\ vcRunning /\ opens
        /\ \E s \in vcQueue : vcCtxs' = {s} /\ vcQueue' = vcQueue \ {s}
        /\ vcThread' = "capture" /\ DisplayOpened
        /\ UNCHANGED <<vcPops, vcRunning, vcReinit, vcImages>>
     \/ /\ ~vcRunning \/ (vcQueue # {} /\ ~opens)
        /\ ThreadEnds /\ UNCHANGED vcDisplayVars
  /\ UNCHANGED <<vcRefs, vcAt, vcShutdown, vcEncoded>>

\* reinit_event.raise, and then the wait for the encoders.
Reinit == vcThread' = "drain" /\ vcReinit' = TRUE

\* push_captured_image_callback: drop contexts that have ended, hand out the
\* image, then look at the queue and whether a client or a shortcut asked for
\* another display: the display changes.
PushesImage(captured, switch) ==
  /\ vcThread = "capture" /\ vcRunning
  /\ LET live == {s \in vcCtxs : ~Ended(s)} IN
     /\ vcImages' = [s \in VcSessions |-> IF captured /\ s \in live THEN "full" ELSE vcImages[s]]
     /\ vcCtxs' = live \cup vcQueue
  /\ vcQueue' = {}
  /\ IF switch THEN Reinit ELSE UNCHANGED <<vcThread, vcReinit>>
  /\ UNCHANGED <<vcPops, vcRunning, vcDisp, vcRefs, vcAt, vcShutdown, vcEncoded, vcDisplayVars>>

\* disp->capture returns: the display changed, or there was an error, or the
\* queue was stopped.
CaptureReturns(status) ==
  /\ vcThread = "capture"
  /\ \/ status = "reinit" /\ vcRunning /\ Reinit
        /\ UNCHANGED <<vcPops, vcQueue, vcRunning, vcCtxs, vcDisp, vcImages>>
     \/ (status = "error" \/ ~vcRunning) /\ ThreadEnds
  /\ UNCHANGED <<vcRefs, vcAt, vcShutdown, vcEncoded, vcDisplayVars>>

\* Wait for the encoders to let the display go, taking back the images they
\* have not consumed: peek ...
DrainPeeks(s) ==
  /\ vcThread = "drain" /\ DisplayInUse /\ s \in vcCtxs
  /\ IF Ended(s) THEN vcCtxs' = vcCtxs \ {s} /\ UNCHANGED <<vcThread, vcPops>>
     ELSE /\ vcImages[s] = "full"
          /\ vcThread' = "pop" /\ vcPops' = s /\ UNCHANGED vcCtxs
  /\ UNCHANGED <<vcQueue, vcRunning, vcDisp, vcReinit, vcSessionVars, vcDisplayVars>>

\* ... and pop, which waits if the image has gone in between.
DrainPops ==
  /\ vcThread = "pop" /\ vcImages[vcPops] # "empty"
  /\ vcImages' = [vcImages EXCEPT ![vcPops] = IF @ = "full" THEN "empty" ELSE @]
  /\ vcThread' = "drain" /\ vcPops' = VcNobody
  /\ UNCHANGED <<vcQueue, vcRunning, vcCtxs, vcDisp, vcReinit, vcRefs, vcAt, vcShutdown, vcEncoded, vcDisplayVars>>

DisplayFree ==
  /\ vcThread = "drain" /\ ~DisplayInUse
  /\ vcThread' = "reopen"
  /\ UNCHANGED <<vcPops, vcQueue, vcRunning, vcCtxs, vcDisp, vcReinit, vcSessionVars, vcDisplayVars>>

\* disp.reset(), without the lock; a session may have taken the display since.
ClosesDisplay ==
  /\ vcThread = "reopen"
  /\ \/ /\ vcRunning /\ vcThread' = "opening" /\ vcDisp' = FALSE
        /\ UNCHANGED <<vcPops, vcQueue, vcRunning, vcCtxs, vcReinit, vcImages>>
     \/ ~vcRunning /\ ThreadEnds
  /\ UNCHANGED <<vcRefs, vcAt, vcShutdown, vcEncoded, vcDisplayVars>>

\* refresh_displays and reset_display, again and again while the queue runs.
Reopens(opens) ==
  /\ vcThread = "opening"
  /\ IF opens THEN vcThread' = "opened" /\ DisplayOpened
              ELSE vcThread' = "reopen" /\ UNCHANGED <<vcDisp, vcDisplayVars>>
  /\ UNCHANGED <<vcPops, vcQueue, vcRunning, vcCtxs, vcReinit, vcSessionVars>>

ReinitReset ==
  /\ vcThread = "opened"
  /\ vcReinit' = FALSE /\ vcThread' = "capture"
  /\ UNCHANGED <<vcPops, vcQueue, vcRunning, vcCtxs, vcDisp, vcSessionVars, vcDisplayVars>>

VcSessionStep(s) ==
  \/ RaiseContext(s) \/ LoopChecks(s) \/ LooksAtDisplay(s) \/ LocksDisplay(s) \/ EncodeChecks(s)
  \/ \E outcome \in {"ok", "noDevice", "noEncoder", "noDummy"} : MakesEncoder(s, outcome)
  \/ \E fails \in BOOLEAN : Encodes(s, fails)
  \/ Unref(s) \/ Joined(s) \/ StopsImages(s)

VcThreadStep ==
  \/ \E opens \in BOOLEAN : FirstContext(opens) \/ Reopens(opens)
  \/ \E captured, switch \in BOOLEAN : PushesImage(captured, switch)
  \/ \E status \in {"reinit", "error"} : CaptureReturns(status)
  \/ DrainPops \/ DisplayFree \/ ClosesDisplay \/ ReinitReset
  \/ \E s \in VcSessions : DrainPeeks(s)

VcNext ==
  /\ ~Crashed
  /\ \/ \E s \in VcSessions :
          VcSessionStep(s) \/ Ref(s) \/ ShutDownSession(s)
     \/ VcThreadStep \/ TeardownEnds

\* Threads are scheduled; nothing is known of a teardown.
VcFairness ==
  /\ WF_vcVars(VcThreadStep /\ ~Crashed)
  /\ \A s \in VcSessions : WF_vcVars(VcSessionStep(s) /\ ~Crashed)

VcSpec == VcInit /\ [][VcNext]_vcVars /\ VcFairness

-----------------------------------------------------------------------------
(* Properties *)

VcTypeOK ==
  /\ vcThread \in {"off", "wait", "capture", "drain", "pop", "reopen", "opening", "opened"}
  /\ vcCtxs \subseteq VcSessions /\ vcQueue \subseteq VcSessions /\ vcRefs \subseteq VcSessions
  /\ vcPops # VcNobody <=> vcThread = "pop"
  /\ \A s \in VcSessions : vcImages[s] \in {"empty", "full", "stopped"}

\* The thread never forgets a session: one that encodes is known to it, is in
\* its queue, or has been told that no more images will come.
SessionServed ==
  \A s \in VcSessions :
    vcAt[s] \in {"loop", "lock", "take", "hold", "check", "pop"} => s \in vcCtxs \cup vcQueue \/ Ended(s)

\* The thread runs only for somebody: it has no reader left when the last
\* session has let go of it and waited.
ThreadHasUser ==
  vcThread # "off" => vcRefs # {} \/ \E s \in VcSessions : vcAt[s] = "join"

\* The capture thread waits for an image that an encoder has taken since, or for
\* a teardown.
CaptureStuck ==
  \/ vcThread = "pop" /\ vcImages[vcPops] = "empty"
  \/ vcThread = "drain" /\ vcTearing

\* A session that is shut down, or was told that the capture thread has ended,
\* ends, unless the process crashes or, from some time on and for ever, the last
\* session waits for a capture thread that is stuck.
ShutdownEndsSession ==
  \A s \in VcSessions :
    \/ ((vcShutdown[s] \/ Ended(s)) /\ vcAt[s] # "idle") ~> (vcAt[s] = "idle" \/ Crashed)
    \/ <>[](CaptureStuck /\ \E o \in VcSessions : vcAt[o] = "join")

\* Every session lets a display that changes go, so that the capture thread
\* opens it again or ends, unless it is stuck for ever.
ReinitEnds ==
  \/ vcThread \in {"drain", "pop"} ~> (vcThread \in {"reopen", "off"} \/ Crashed)
  \/ <>[]CaptureStuck

\* The capture thread and its sessions know of each other.
CaptureThreadServes == VcTypeOK /\ SessionServed /\ ThreadHasUser
=============================================================================
