------------------------- MODULE DuplicationCapture -------------------------
(***************************************************************************)
(* Desktop duplication on Windows (platform/windows/display_base.cpp,      *)
(* display_vram.cpp, display_ram.cpp): the capture loop with its pacing    *)
(* group, the duplication frame it holds, and snapshot, which keeps the    *)
(* last desktop frame, as an image or as a surface, so that the cursor can *)
(* be drawn on it when nothing else changes.  Desktop frames are numbered; *)
(* 0 is the black image before the first.                                  *)
(***************************************************************************)
EXTENDS Naturals

CONSTANT DcMaxFrames \* bound on frames the desktop presents

VARIABLES
  dcBackend, \* "vram" or "ram"
  dcStep,    \* "top", "paced", "fresh", "push", "release", or how capture ended
  dcPaced,   \* frame_pacing_group_start is set
  dcHeld,    \* duplication_t::has_frame
  dcFormat,  \* capture_format
  dcLast,    \* last_frame_variant: [kind, frame]; the ram backend's staging texture
  dcOld,     \* old_surface_delayed_destruction is kept
  dcCursor,  \* the pointer is visible
  dcOut,     \* img_out: [frame, cursor, format], as a set
  dcDesktop, \* the desktop as last presented: [frame, format]
  dcWanted   \* display_cursor, toggled by a shortcut

dcVars == <<dcBackend, dcStep, dcPaced, dcHeld, dcFormat, dcLast, dcOld, dcCursor, dcOut, dcDesktop, dcWanted>>

DcEnded == {"reinit", "error", "interrupted", "done"}
Nothing == [kind |-> "none", frame |-> 0]

ToggleCursor ==
  /\ dcStep \notin DcEnded /\ dcWanted' = ~dcWanted
  /\ UNCHANGED <<dcBackend, dcStep, dcPaced, dcHeld, dcFormat, dcLast, dcOld, dcCursor, dcOut, dcDesktop>>

\* The top of the loop: the factory is no longer current, the pacing group
\* goes on, or its frame time was missed and a new one starts.
LoopTop(to) ==
  /\ dcStep = "top" /\ dcStep' = to
  /\ to \in {"reinit"} \cup (IF dcPaced THEN {"paced", "fresh"} ELSE {"fresh"})
  /\ dcPaced' = (dcPaced /\ to # "fresh")
  /\ UNCHANGED <<dcBackend, dcHeld, dcFormat, dcLast, dcOld, dcCursor, dcOut, dcDesktop, dcWanted>>

\* What snapshot does to the frame it keeps, given the new frame or 0 and
\* whether the cursor is to be drawn on it.
LastFrameAction(known, frame, blend) ==
  CASE ~known -> "nothing"
    [] known /\ frame > 0 /\ blend -> "copy_src_to_surface"
    [] known /\ frame > 0 /\ ~blend -> "copy_src_to_img"
    [] known /\ frame = 0 /\ blend /\ dcLast.kind = "img" -> "replace_img_with_surface"
    [] known /\ frame = 0 /\ ~blend /\ dcLast.kind = "surface" -> "replace_surface_with_img"
    [] OTHER -> "nothing"

\* What it makes the image from that goes out.
OutFrameAction(known, frame, blend) ==
  CASE ~known \/ (frame = 0 /\ dcLast.kind = "none") -> "dummy_fallback"
    [] known /\ ~(frame = 0 /\ dcLast.kind = "none") /\ blend -> "copy_last_surface_and_blend_cursor"
    [] OTHER -> "forward_last_img"

KeptSurfaceReused(action, frame) ==
  CASE action \in {"copy_src_to_surface", "replace_img_with_surface"} ->
         [kind |-> "surface", frame |-> IF frame = 0 \/ dcLast.kind = "surface" THEN dcLast.frame ELSE frame]
    [] action \in {"copy_src_to_img", "replace_surface_with_img"} ->
         [kind |-> "img", frame |-> IF frame = 0 THEN dcLast.frame ELSE frame]
    [] OTHER -> dcLast

\* What it keeps then: the new frame, or the frame it had.
Kept(action, frame) ==
  CASE action \in {"copy_src_to_surface", "replace_img_with_surface"} ->
         [kind |-> "surface", frame |-> IF frame = 0 THEN dcLast.frame ELSE frame]
    [] action \in {"copy_src_to_img", "replace_surface_with_img"} ->
         [kind |-> "img", frame |-> IF frame = 0 THEN dcLast.frame ELSE frame]
    [] OTHER -> dcLast

\* The surface is new, or the old one that is not destroyed yet.
NeedsSurface(action) ==
  action = "replace_img_with_surface" \/ (action = "copy_src_to_surface" /\ dcLast.kind # "surface")

\* An acquired frame brings a new desktop frame, a pointer update or nothing.
\* An image may not be pulled; textures may not be created or locked.
SnapshotVram(format, frame, visible, pulled, created) ==
  LET blend == visible /\ dcWanted
      last == LastFrameAction(format # "unknown", frame, blend)
      out == OutFrameAction(format # "unknown", frame, blend)
      kept == Kept(last, frame)
      pulls == last \in {"copy_src_to_img", "replace_surface_with_img"} \/ out # "forward_last_img"
  IN /\ dcLast' = kept
     /\ dcOld' = (~NeedsSurface(last) /\ (dcOld \/ last = "replace_surface_with_img"))
     /\ CASE pulls /\ ~pulled -> dcStep' = "interrupted" /\ dcOut' = {}
          [] ~created /\ (pulls \/ (NeedsSurface(last) /\ ~dcOld)) -> dcStep' = "error" /\ dcOut' = {}
          [] OTHER -> /\ dcStep' = "push"
                      /\ dcOut' = {[frame |-> IF out = "dummy_fallback" THEN 0 ELSE kept.frame, cursor |-> blend, format |-> format]}

\* The ram backend always copies through its staging texture.
SnapshotRam(format, frame, visible, pulled, created) ==
  LET kept == IF frame > 0 THEN [kind |-> "surface", frame |-> frame] ELSE dcLast
  IN /\ dcLast' = kept /\ UNCHANGED dcOld
     /\ CASE frame > 0 /\ dcFormat = "unknown" /\ ~created -> dcStep' = "error" /\ dcOut' = {}
          [] ~pulled -> dcStep' = "interrupted" /\ dcOut' = {}
          [] OTHER -> /\ dcStep' = "push"
                      /\ dcOut' = {[frame |-> kept.frame, cursor |-> visible /\ dcWanted, format |-> format]}

\* snapshot after AcquireNextFrame succeeded: a frame of another size or
\* format than the images asks for a new start.
Snapshot(update, format, fits, visible, pulled, created) ==
  /\ dcStep \in {"paced", "fresh"}
  /\ dcHeld' = TRUE /\ dcPaced' = TRUE
  /\ LET frame == IF update = "frame" THEN dcDesktop.frame + 1 ELSE 0
         known == IF update = "frame" /\ dcFormat = "unknown" THEN format ELSE dcFormat
     IN /\ dcDesktop' = IF frame > 0 THEN [frame |-> frame, format |-> format] ELSE dcDesktop
        /\ dcDesktop'.frame <= DcMaxFrames
        /\ dcCursor' = visible
        /\ IF frame > 0 /\ (~fits \/ known # format)
           THEN dcStep' = "reinit" /\ dcOut' = {} /\ UNCHANGED <<dcFormat, dcLast, dcOld>>
           ELSE /\ dcFormat' = known
                /\ IF dcBackend = "vram" THEN SnapshotVram(known, frame, visible, pulled, created)
                                         ELSE SnapshotRam(known, frame, visible, pulled, created)
  /\ UNCHANGED <<dcBackend, dcWanted>>

\* next_frame gets nothing, loses access or fails, or the frame acquired has
\* neither a picture nor a pointer update.
SnapshotFails(why) ==
  /\ dcStep \in {"paced", "fresh"}
  /\ dcHeld' = (why = "no_update") /\ dcOut' = {} /\ dcPaced' = FALSE
  /\ dcStep' = CASE why \in {"timeout", "no_update"} -> IF dcStep = "paced" THEN "fresh" ELSE "push"
                 [] why = "lost" -> "reinit" [] why = "failed" -> "error"
  /\ UNCHANGED <<dcBackend, dcFormat, dcLast, dcOld, dcCursor, dcDesktop, dcWanted>>

\* The image, or nothing, goes to the encoders; the callback may end capture.
Push(goOn) ==
  /\ dcStep = "push" /\ dcStep' = IF goOn THEN "release" ELSE "done"
  /\ UNCHANGED <<dcBackend, dcPaced, dcHeld, dcFormat, dcLast, dcOld, dcCursor, dcOut, dcDesktop, dcWanted>>

Release(to) ==
  /\ dcStep = "release" /\ dcStep' = to /\ to \in {"top"} \cup (IF dcHeld THEN {"reinit", "error"} ELSE {})
  /\ dcHeld' = FALSE /\ dcOut' = {}
  /\ UNCHANGED <<dcBackend, dcPaced, dcFormat, dcLast, dcOld, dcCursor, dcDesktop, dcWanted>>

\* The unused surface is destroyed after ten seconds.
OldSurfaceDestroyed ==
  /\ dcOld /\ dcStep = "push" /\ dcOld' = FALSE
  /\ UNCHANGED <<dcBackend, dcStep, dcPaced, dcHeld, dcFormat, dcLast, dcCursor, dcOut, dcDesktop, dcWanted>>

DcInit ==
  /\ dcBackend \in {"vram", "ram"} /\ dcStep = "top" /\ dcPaced = FALSE /\ dcHeld = FALSE
  /\ dcFormat = "unknown" /\ dcLast = Nothing /\ dcOld = FALSE /\ dcCursor \in BOOLEAN
  /\ dcOut = {} /\ dcDesktop = [frame |-> 0, format |-> "unknown"] /\ dcWanted = TRUE

DcNext ==
  \/ \E to \in {"reinit", "paced", "fresh"} : LoopTop(to)
  \/ \E format \in {"sdr", "hdr"}, fits, visible, pulled, created \in BOOLEAN :
       Snapshot("frame", format, fits, visible, pulled, created)
  \/ \E visible, pulled, created \in BOOLEAN : Snapshot("pointer", "sdr", TRUE, visible, pulled, created)
  \/ \E why \in {"timeout", "no_update", "lost", "failed"} : SnapshotFails(why)
  \/ \E goOn \in BOOLEAN : Push(goOn)
  \/ \E to \in {"top", "reinit", "error"} : Release(to)
  \/ ToggleCursor \/ OldSurfaceDestroyed

DcSpec == DcInit /\ [][DcNext]_dcVars

-----------------------------------------------------------------------------
(* Properties *)

\* An image that goes to the encoders shows the newest desktop frame, in the
\* format of the desktop, and a cursor only while the pointer is visible,
\* however frames, pointer updates and the cursor shortcut alternate.
ImageShowsDesktop ==
  \A img \in dcOut : img.frame = dcDesktop.frame /\ img.format = dcDesktop.format /\ (img.cursor => dcCursor)

\* The loop does not hold a duplication frame while it sleeps for the pacing
\* of the next: the desktop compositor would wait for it.
FrameNotHeldWhileWaiting == dcStep = "top" => ~dcHeld
=============================================================================
