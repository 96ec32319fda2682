----------------------------- MODULE WgcCapture -----------------------------
(***************************************************************************)
(* Windows.Graphics.Capture (platform/windows/display_wgc.cpp and the      *)
(* wgc part of display_vram.cpp): a frame pool of two buffers, its         *)
(* callback on a thread of its own, and the capture thread that waits for  *)
(* the frame the callback leaves.  A buffer is filled again only after its *)
(* frame was closed.  The format and size are whether they still fit.      *)
(***************************************************************************)
EXTENDS Naturals, Sequences, FiniteSets

CONSTANTS
  WgBuffers,  \* the buffers of the frame pool
  WgMaxFrames \* bound on frames the compositor renders

VARIABLES
  wgFree,     \* buffers without an open frame
  wgArrived,  \* rendered frames not yet taken by TryGetNextFrame: [buf, n]
  wgCallback, \* the frame on_frame_arrived has taken, as a set
  wgWake,     \* WakeConditionVariable is still to be called
  wgProduced, \* produced_frame, as a set
  wgConsumed, \* consumed_frame, as a set
  wgReader,   \* capture thread: "loop", "next", "asleep", "woken", "use", "copied", or how it ended
  wgRendered  \* frames rendered

wgVars == <<wgFree, wgArrived, wgCallback, wgWake, wgProduced, wgConsumed, wgReader, wgRendered>>

WgRunning == wgReader \notin {"reinit", "error", "interrupted"}

\* Close gives the buffer of an open frame back to the pool.
Closed(frames) == wgFree \cup {f.buf : f \in frames}

WgRender ==
  /\ WgRunning /\ wgRendered < WgMaxFrames /\ wgRendered' = wgRendered + 1
  /\ \E b \in wgFree : wgFree' = wgFree \ {b} /\ wgArrived' = Append(wgArrived, [buf |-> b, n |-> wgRendered'])
  /\ UNCHANGED <<wgCallback, wgWake, wgProduced, wgConsumed, wgReader>>

TryGetNextFrame ==
  /\ WgRunning /\ wgArrived # <<>> /\ wgCallback = {} /\ ~wgWake
  /\ wgCallback' = {Head(wgArrived)} /\ wgArrived' = Tail(wgArrived)
  /\ UNCHANGED <<wgFree, wgWake, wgProduced, wgConsumed, wgReader, wgRendered>>

\* Under frame_lock: an older frame nobody took is closed.
FrameProduced ==
  /\ WgRunning /\ wgCallback # {}
  /\ wgFree' = Closed(wgProduced) /\ wgProduced' = wgCallback /\ wgCallback' = {} /\ wgWake' = TRUE
  /\ UNCHANGED <<wgArrived, wgConsumed, wgReader, wgRendered>>

\* WakeConditionVariable wakes the capture thread if it sleeps by now.
Woken == IF wgReader = "asleep" THEN "woken" ELSE wgReader

WakeReader ==
  /\ WgRunning /\ wgWake /\ wgWake' = FALSE /\ wgReader' = Woken
  /\ UNCHANGED <<wgFree, wgArrived, wgCallback, wgProduced, wgConsumed, wgRendered>>

\* next_frame first closes the frame of the time before.
NextFrame ==
  /\ wgReader = "loop" /\ wgReader' = "next"
  /\ wgFree' = Closed(wgConsumed) /\ wgConsumed' = {}
  /\ UNCHANGED <<wgArrived, wgCallback, wgWake, wgProduced, wgRendered>>

\* The produced frame becomes the consumed one.
TakeFrame == wgProduced' = {}

\* Under frame_lock: take the frame or sleep; after a wakeup without a frame
\* the capture times out.
WaitForFrame ==
  /\ wgReader \in {"next", "woken"}
  /\ IF wgProduced # {}
     THEN /\ wgConsumed' = wgProduced /\ TakeFrame /\ wgReader' = "use"
     ELSE /\ wgReader' = (IF wgReader = "next" THEN "asleep" ELSE "loop")
          /\ UNCHANGED <<wgConsumed, wgProduced>>
  /\ UNCHANGED <<wgFree, wgArrived, wgCallback, wgWake, wgRendered>>

\* The wait times out, fails, or ends by itself.
WaitEnds(how) ==
  /\ wgReader = "asleep" /\ wgReader' = how
  /\ UNCHANGED <<wgFree, wgArrived, wgCallback, wgWake, wgProduced, wgConsumed, wgRendered>>

\* snapshot copies the frame, unless its size or format is new, no image is
\* free or a call fails.
CopyFrame(how) ==
  /\ wgReader = "use" /\ wgReader' = how
  /\ UNCHANGED <<wgFree, wgArrived, wgCallback, wgWake, wgProduced, wgConsumed, wgRendered>>

ReleaseSnapshot ==
  /\ wgReader = "copied" /\ wgReader' = "loop"
  /\ wgFree' = Closed(wgConsumed) /\ wgConsumed' = {}
  /\ UNCHANGED <<wgArrived, wgCallback, wgWake, wgProduced, wgRendered>>

WgInit ==
  /\ wgFree = WgBuffers /\ wgArrived = <<>> /\ wgCallback = {} /\ wgWake = FALSE
  /\ wgProduced = {} /\ wgConsumed = {} /\ wgReader = "loop" /\ wgRendered = 0

WgNext ==
  \/ WgRender \/ TryGetNextFrame \/ FrameProduced \/ WakeReader \/ NextFrame \/ WaitForFrame \/ ReleaseSnapshot
  \/ \E how \in {"loop", "woken", "error"} : WaitEnds(how)
  \/ \E how \in {"copied", "reinit", "error", "interrupted"} : CopyFrame(how)

\* The callback's thread and the capture thread run.
WgFairness ==
  /\ WF_wgVars(TryGetNextFrame) /\ WF_wgVars(FrameProduced) /\ WF_wgVars(WakeReader)
  /\ WF_wgVars(NextFrame) /\ WF_wgVars(WaitForFrame) /\ WF_wgVars(ReleaseSnapshot)

WgSpec == WgInit /\ [][WgNext]_wgVars /\ WgFairness

-----------------------------------------------------------------------------
\* Every buffer of the pool is free, rendered, with the callback, produced or
\* consumed, and never two of these: a frame that is being copied is not
\* closed and filled again, and none is lost for good.
BuffersAccountedFor ==
  LET arrived == {wgArrived[k] : k \in DOMAIN wgArrived}
      owners == <<wgFree, {f.buf : f \in arrived}, {f.buf : f \in wgCallback}, {f.buf : f \in wgProduced}, {f.buf : f \in wgConsumed}>>
  IN /\ UNION {owners[k] : k \in 1 .. 5} = WgBuffers
     /\ \A j, k \in 1 .. 5 : j # k => owners[j] \cap owners[k] = {}

\* A capture thread that sleeps while a frame is ready gets that frame without
\* the help of its timeout.
SleeperWoken == wgReader = "asleep" /\ wgProduced # {} ~> wgReader # "asleep"
=============================================================================
