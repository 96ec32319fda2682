------------------------------- MODULE NvEnc --------------------------------
(***************************************************************************)
(* The host's own NVENC encoder (nvenc_base.cpp) and its session (video.   *)
(* cpp).  What it acquires step by step while it is created it gives back  *)
(* on failure.  A client that lost frames asks that they not be referred   *)
(* to; the encoder then refers to an older frame, or a key frame is forced.*)
(* The request waits in an event, which keeps the newest one.              *)
(***************************************************************************)
EXTENDS Integers, FiniteSets

CONSTANTS
  NeGpus,      \* [formats, tenBit, yuv444, async, rfi, manyRefs]
  NeConfigs,   \* [format, tenBit, yuv444, refs]
  NeMaxFrames, \* bound: frames encoded
  NeMaxLost    \* bound: frames that do not reach the client

VARIABLES
  nePc,      \* next step of create_encoder, or "ready", "destroy", "none"
  neGpu, neConfig,
  neHeld,    \* what the driver holds for the encoder
  neParams,  \* encoder_params: [rfi, refs]
  neState,   \* encoder_state: [last, first, until, confirm], the last invalidated range first .. until
  neForce,   \* the session's force_idr
  neInvalid, \* frames the driver no longer refers to
  neFrames,  \* frames encoded: [needs, told, marked], needs with the frame itself
  neLost,    \* frames that did not reach the client
  neRequest, \* invalidate_ref_frames_events: at most one <<first, last>>
  neTold,    \* frames of requests the encoder has seen
  neAsked    \* frames of requests the client has made

neVars == <<nePc, neGpu, neConfig, neHeld, neParams, neState, neForce, neInvalid, neFrames, neLost, neRequest, neTold, neAsked>>
neStream == <<neState, neForce, neInvalid, neFrames, neLost, neRequest, neTold, neAsked>>
neWorld == <<neGpu, neConfig>>

NoState == [last |-> 0, first |-> 0, until |-> 0, confirm |-> FALSE]
NoParams == [rfi |-> FALSE, refs |-> 0]
Event == neGpu.async  \* the handle is dropped if the GPU cannot signal

-----------------------------------------------------------------------------
\* create_encoder: the session with the driver.
OpenEncodeSession ==
  /\ nePc = "open"
  /\ \/ nePc' = "query" /\ neHeld' = {"session"}
     \/ nePc' = "destroy" /\ UNCHANGED neHeld
  /\ UNCHANGED <<neWorld, neParams, neStream>>

FormatOffered == neConfig.format \in neGpu.formats

GpuCan ==
  /\ neConfig.tenBit => neGpu.tenBit
  /\ neConfig.yuv444 => neGpu.yuv444

DefaultRefFrames == IF neConfig.format = "av1" THEN 8 ELSE 5

\* set_ref_frames: the client's number, or the codec's; one if the GPU cannot
\* keep several, and then none can be invalidated.
RefFrames ==
  LET wanted == IF neConfig.refs > 0 THEN neConfig.refs ELSE DefaultRefFrames
  IN [rfi |-> neGpu.rfi /\ neGpu.manyRefs, refs |-> IF neGpu.manyRefs THEN wanted ELSE 1]

\* What the GPU offers is asked, the configuration filled in.
Configure ==
  /\ nePc = "query"
  /\ \/ FormatOffered /\ GpuCan /\ nePc' = "init" /\ neParams' = RefFrames
     \/ nePc' = "destroy" /\ UNCHANGED neParams
  /\ UNCHANGED <<neWorld, neHeld, neStream>>

InitializeEncoder ==
  /\ nePc = "init" /\ nePc' \in {IF Event THEN "event" ELSE "bitstream", "destroy"}
  /\ UNCHANGED <<neWorld, neHeld, neParams, neStream>>

RegisterAsyncEvent ==
  /\ nePc = "event"
  /\ \/ nePc' = "bitstream" /\ neHeld' = neHeld \cup {"event"}
     \/ nePc' = "destroy" /\ UNCHANGED neHeld
  /\ UNCHANGED <<neWorld, neParams, neStream>>

CreateBitstreamBuffer ==
  /\ nePc = "bitstream"
  /\ \/ nePc' = "input" /\ neHeld' = neHeld \cup {"bitstream"}
     \/ nePc' = "destroy" /\ UNCHANGED neHeld
  /\ UNCHANGED <<neWorld, neParams, neStream>>

\* create_and_register_input_buffer; then the state starts afresh.
RegisterInputBuffer ==
  /\ nePc = "input"
  /\ \/ nePc' = "ready" /\ neHeld' = neHeld \cup {"input"} /\ neState' = NoState
     \/ nePc' = "destroy" /\ UNCHANGED <<neHeld, neState>>
  /\ UNCHANGED <<neWorld, neParams, neForce, neInvalid, neFrames, neLost, neRequest, neTold, neAsked>>

\* destroy_encoder: buffers and event before the session they belong to.
Destroyed == {"session", "event", "bitstream", "input"}

DestroyEncoder ==
  /\ nePc = "destroy" /\ nePc' = "none" /\ neHeld' = neHeld \ Destroyed
  /\ neState' = NoState /\ neParams' = NoParams
  /\ UNCHANGED <<neWorld, neForce, neInvalid, neFrames, neLost, neRequest, neTold, neAsked>>

-----------------------------------------------------------------------------
Encoded == DOMAIN neFrames

\* The driver: a frame refers to one of the last frames, not before a key
\* frame, that was not invalidated; to none if a key frame is forced or there
\* is no such frame.
KeyFrames == {f \in Encoded : neFrames[f].needs = {f}}
References ==
  LET kept == {f \in Encoded : f > neState.last - neParams.refs /\ \A k \in KeyFrames : f >= k} \ neInvalid
  IN IF neForce \/ kept = {} THEN {0} ELSE kept

\* encode_frame of the next index; an error ends the session.
EncodePicture ==
  /\ nePc = "ready" /\ Cardinality(Encoded) < NeMaxFrames
  /\ \/ \E ref \in References :
          /\ neFrames' = [f \in Encoded \cup {neState.last + 1} |->
                            IF f \in Encoded THEN neFrames[f]
                            ELSE [needs |-> {f} \cup (IF ref = 0 THEN {} ELSE neFrames[ref].needs), told |-> neTold, marked |-> neState.confirm]]
          /\ neState' = [neState EXCEPT !.last = @ + 1, !.confirm = FALSE]
          /\ neForce' = FALSE
          /\ UNCHANGED <<nePc, neInvalid>>
     \/ nePc' = "destroy" /\ neForce' = FALSE /\ UNCHANGED <<neFrames, neState, neInvalid>>
  /\ UNCHANGED <<neWorld, neHeld, neParams, neLost, neRequest, neTold, neAsked>>

OnlyAsked(first, last) ==
  IF last < first \/ neState.last + 1 < first THEN [done |-> FALSE, frames |-> {}]
  ELSE [done |-> last - first + 1 < neParams.refs, frames |-> first .. last]

\* invalidate_ref_frames(first, last) and the session's force_idr.  Indices
\* are unsigned: a range from beyond the last frame is as good as endless.
InvalidRange(first, last) ==
  IF last < first \/ neState.last + 1 < first THEN [done |-> FALSE, frames |-> {}]
  ELSE [done |-> neState.last - first + 1 < neParams.refs, frames |-> first .. neState.last]

AlreadyDone(first, last) == first >= neState.first /\ last <= neState.until

\* The range is noted and the next frame is to be marked, unless the request
\* makes no sense; then it is only marked.
Noted(first, last) ==
  IF last < first THEN [neState EXCEPT !.confirm = TRUE]
  ELSE [neState EXCEPT !.confirm = TRUE, !.first = first, !.until = neState.last]

\* The driver may refuse a frame of the range after it took others.
TakeRequest ==
  /\ nePc = "ready"
  /\ \E r \in neRequest :
       LET first == r[1]
           last == r[2]
           range == InvalidRange(first, last)
       IN \/ ~neParams.rfi /\ neForce' = TRUE /\ UNCHANGED <<neState, neInvalid>>
          \/ neParams.rfi /\ AlreadyDone(first, last) /\ UNCHANGED <<neForce, neState, neInvalid>>
          \/ /\ neParams.rfi /\ ~AlreadyDone(first, last)
             /\ neState' = Noted(first, last)
             /\ \/ range.done /\ neInvalid' = neInvalid \cup range.frames /\ UNCHANGED neForce
                \/ range.done /\ range.frames # {}
                   /\ neInvalid' = neInvalid \cup {first} /\ neForce' = TRUE
                \/ ~range.done /\ neForce' = TRUE /\ UNCHANGED neInvalid
  /\ neTold' = neTold \cup UNION {r[1] .. r[2] : r \in neRequest} /\ neRequest' = {}
  /\ UNCHANGED <<nePc, neWorld, neHeld, neParams, neFrames, neLost, neAsked>>

-----------------------------------------------------------------------------
\* A frame is lost on the way.
Lose ==
  /\ Cardinality(neLost) < NeMaxLost
  /\ neState.last \in Encoded \ neLost /\ neLost' = neLost \cup {neState.last}
  /\ UNCHANGED <<nePc, neWorld, neHeld, neParams, neState, neForce, neInvalid, neFrames, neRequest, neTold, neAsked>>

\* The client reports a loss it has not reported yet, up to the newest frame
\* it then knows of.
Report ==
  /\ nePc = "ready"
  /\ \E first \in neLost \ neAsked : \E last \in Encoded :
       /\ \A l \in neLost \ neAsked : first <= l
       /\ last >= first
       /\ neRequest' = {<<first, last>>} /\ neAsked' = neAsked \cup (first .. last)
  /\ UNCHANGED <<nePc, neWorld, neHeld, neParams, neState, neForce, neInvalid, neFrames, neLost, neTold>>

\* The session ends.
EndSession ==
  /\ nePc = "ready" /\ nePc' = "destroy"
  /\ UNCHANGED <<neWorld, neHeld, neParams, neStream>>

NeInit ==
  /\ nePc = "open" /\ neGpu \in NeGpus /\ neConfig \in NeConfigs /\ neHeld = {} /\ neParams = NoParams
  /\ neState = NoState /\ neForce = FALSE /\ neInvalid = {} /\ neFrames = [f \in {} |-> 0]
  /\ neLost = {} /\ neRequest = {} /\ neTold = {} /\ neAsked = {}

NeNext ==
  \/ OpenEncodeSession \/ Configure \/ InitializeEncoder \/ RegisterAsyncEvent \/ CreateBitstreamBuffer \/ RegisterInputBuffer
  \/ DestroyEncoder \/ EncodePicture \/ TakeRequest \/ Lose \/ Report \/ EndSession

NeSpec == NeInit /\ [][NeNext]_neVars

-----------------------------------------------------------------------------
\* No frame needs, however indirectly, a frame that the encoder had been told
\* is lost when it encoded it: also when the frames after a lost one were
\* encoded before the request arrived, the range is too large for the buffer,
\* or the driver refuses.
ToldFramesAvoided == \A f \in Encoded : neFrames[f].needs \cap neFrames[f].told = {}

\* Whatever step of the creation fails, nothing stays with the driver.
NothingLeftInDriver == nePc = "none" => neHeld = {}
=============================================================================
