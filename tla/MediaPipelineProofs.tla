------------------------ MODULE MediaPipelineProofs -------------------------
(* Proofs for the parts of MCMediaPipeline.  Each part has an inductive     *)
(* invariant of its own, proved for the part's specification; a step of the *)
(* group is a step of the part or leaves it alone.                          *)
EXTENDS MCMediaPipeline, FiniteSetTheorems, NaturalsInduction, WellFoundedInduction, TLAPS

-----------------------------------------------------------------------------
(* The capture thread and its sessions (VideoCapture) *)

VcPlaces == {"idle", "ref", "loop", "lock", "take", "null", "hold", "check", "pop", "leave", "join", "stop"}

\* Who holds the thread: a session from ref() until it has let go.
VcHolders ==
  /\ \A s \in VcSessions : s \in vcRefs <=> vcAt[s] \in {"ref", "loop", "lock", "take", "null", "hold", "check", "pop", "leave"}
  /\ \A s \in VcSessions : vcAt[s] = "join" => vcRefs = {} /\ ~vcRunning

\* A queue runs only with its thread, and a thread that has not begun or has
\* ended knows no session.
VcThreadInv ==
  /\ vcRunning => vcThread # "off"
  /\ vcThread \in {"off", "wait"} => vcCtxs = {}
  /\ vcThread = "off" => vcQueue = {}

VcTyped ==
  /\ VcTypeOK /\ vcRunning \in BOOLEAN
  /\ vcAt \in [VcSessions -> VcPlaces] /\ vcImages \in [VcSessions -> {"empty", "full", "stopped"}]

VcInv == VcTyped /\ SessionServed /\ ThreadHasUser /\ VcHolders /\ VcThreadInv

LEMMA VcInvInit == VcInit => VcInv
  BY DEF VcInit, VcInv, VcTyped, VcTypeOK, VcNobody, VcPlaces, SessionServed, ThreadHasUser, VcHolders, VcThreadInv

\* A step of a session that changes nothing but the session's place.
LEMMA VcMoves ==
  ASSUME VcInv, NEW s \in VcSessions, NEW to \in {"loop", "lock", "take", "null", "hold", "check", "pop", "leave"},
         vcAt[s] \in {"loop", "lock", "take", "hold", "check", "pop"},
         Go(s, to), UNCHANGED <<vcThreadVars, vcRefs>>,
         vcImages' \in [VcSessions -> {"empty", "full", "stopped"}],
         \A o \in VcSessions : Ended(o) => vcImages'[o] = "stopped"
  PROVE  VcInv'
<1>1. VcTyped' BY DEF VcInv, VcTyped, VcTypeOK, VcPlaces, Go, vcThreadVars
<1>2. SessionServed' BY DEF VcInv, VcTyped, SessionServed, Ended, Go, vcThreadVars
<1>3. ThreadHasUser' BY DEF VcInv, VcTyped, ThreadHasUser, Go, vcThreadVars
<1>4. VcHolders' BY DEF VcInv, VcTyped, VcHolders, Go, vcThreadVars
<1>5. VcThreadInv' BY DEF VcInv, VcThreadInv, vcThreadVars
<1> QED BY <1>1, <1>2, <1>3, <1>4, <1>5 DEF VcInv

\* The thread ends: what it knew is told, and the queue stops.
LEMMA VcEnds ==
  ASSUME VcInv, ThreadEnds, vcThread \in {"wait", "capture", "reopen"}, UNCHANGED <<vcRefs, vcAt>>
  PROVE  VcInv'
<1>1. VcTyped' BY DEF VcInv, VcTyped, VcTypeOK, ThreadEnds, Stopping
<1>2. SessionServed' BY DEF VcInv, VcTyped, SessionServed, Ended, ThreadEnds, Stopping
<1>3. ThreadHasUser' BY DEF ThreadHasUser, ThreadEnds
<1>4. VcHolders' BY DEF VcInv, VcTyped, VcHolders, ThreadEnds
<1>5. VcThreadInv' BY DEF VcThreadInv, ThreadEnds
<1> QED BY <1>1, <1>2, <1>3, <1>4, <1>5 DEF VcInv

LEMMA VcRefKeeps == ASSUME VcInv, NEW s \in VcSessions, Ref(s) PROVE VcInv'
<1>1. /\ vcAt[s] = "idle" /\ \A o \in VcSessions : vcAt[o] # "join"
      /\ vcAt' = [vcAt EXCEPT ![s] = "ref"] /\ vcRefs' = vcRefs \cup {s}
      /\ vcImages' = [vcImages EXCEPT ![s] = "empty"]
  BY DEF Ref, Go
<1>2. \/ vcRefs # {} /\ UNCHANGED vcThreadVars
      \/ /\ vcRefs = {} /\ vcThread' = "wait" /\ vcRunning' = TRUE /\ vcQueue' = {}
         /\ UNCHANGED <<vcPops, vcCtxs>>
  BY DEF Ref
<1>3. vcRefs = {} => vcThread = "off" BY <1>1 DEF VcInv, ThreadHasUser
<1>4. VcTyped' BY <1>1, <1>2, <1>3 DEF VcInv, VcTyped, VcTypeOK, VcPlaces, vcThreadVars
<1>5. SessionServed'
  <2> SUFFICES ASSUME NEW o \in VcSessions, vcAt'[o] \in {"loop", "lock", "take", "hold", "check", "pop"}
               PROVE  o \in vcCtxs' \cup vcQueue' \/ Ended(o)'
    BY DEF SessionServed
  <2>1. o # s /\ vcAt'[o] = vcAt[o] /\ vcImages'[o] = vcImages[o] BY <1>1 DEF VcInv, VcTyped
  <2>2. vcRefs # {} BY <2>1 DEF VcInv, VcHolders
  <2> QED BY <1>2, <2>1, <2>2 DEF VcInv, SessionServed, Ended, vcThreadVars
<1>6. ThreadHasUser' BY <1>1 DEF ThreadHasUser
<1>7. VcHolders' BY <1>1 DEF VcInv, VcTyped, VcHolders
<1>8. VcThreadInv' BY <1>2, <1>3 DEF VcInv, VcThreadInv, vcThreadVars
<1> QED BY <1>4, <1>5, <1>6, <1>7, <1>8 DEF VcInv

LEMMA VcRaiseKeeps == ASSUME VcInv, NEW s \in VcSessions, RaiseContext(s) PROVE VcInv'
<1>1. /\ vcAt[s] = "ref" /\ UNCHANGED <<vcThread, vcPops, vcRunning, vcCtxs, vcRefs, vcImages>>
      /\ \/ vcRunning /\ vcQueue' = vcQueue \cup {s} /\ vcAt' = [vcAt EXCEPT ![s] = "loop"]
         \/ ~vcRunning /\ vcQueue' = vcQueue /\ vcAt' = [vcAt EXCEPT ![s] = "leave"]
  BY DEF RaiseContext, Go
<1>2. VcTyped' BY <1>1 DEF VcInv, VcTyped, VcTypeOK, VcPlaces
<1>3. SessionServed' BY <1>1 DEF VcInv, VcTyped, SessionServed, Ended
<1>4. ThreadHasUser' BY <1>1 DEF VcInv, VcTyped, VcHolders, ThreadHasUser
<1>5. VcHolders' BY <1>1 DEF VcInv, VcTyped, VcHolders
<1>6. VcThreadInv' BY <1>1 DEF VcInv, VcThreadInv
<1> QED BY <1>2, <1>3, <1>4, <1>5, <1>6 DEF VcInv

\* The last to let go stops the queue and waits, the others do not.
LEMMA VcUnrefKeeps == ASSUME VcInv, NEW s \in VcSessions, Unref(s) PROVE VcInv'
<1>1. /\ vcAt[s] = "leave" /\ UNCHANGED <<vcThread, vcPops, vcQueue, vcCtxs, vcImages>>
      /\ vcRefs' = vcRefs \ {s} /\ vcRunning' = (vcRunning /\ vcRefs' # {})
      /\ vcAt' = [vcAt EXCEPT ![s] = IF vcRefs' = {} THEN "join" ELSE "stop"]
  BY DEF Unref, Go
<1>2. vcAt'[s] = (IF vcRefs' = {} THEN "join" ELSE "stop") /\ \A o \in VcSessions : o # s => vcAt'[o] = vcAt[o]
  BY <1>1 DEF VcInv, VcTyped
<1>3. vcRunning' \in BOOLEAN /\ (vcRunning' => vcRunning) /\ (vcRefs' = {} => ~vcRunning')
  BY <1>1 DEF VcInv, VcTyped
<1>4. vcAt' \in [VcSessions -> VcPlaces] BY <1>1 DEF VcInv, VcTyped, VcPlaces
<1>5. VcTyped' BY <1>1, <1>3, <1>4 DEF VcInv, VcTyped, VcTypeOK
<1>6. SessionServed' BY <1>1, <1>2 DEF VcInv, SessionServed, Ended
<1>7. ThreadHasUser' BY <1>2 DEF ThreadHasUser
<1>8. VcHolders' BY <1>1, <1>2, <1>3 DEF VcInv, VcHolders
<1>9. VcThreadInv' BY <1>1, <1>3 DEF VcInv, VcThreadInv
<1> QED BY <1>5, <1>6, <1>7, <1>8, <1>9 DEF VcInv

\* The end of a session.
LEMMA VcLeaveKeeps ==
  ASSUME VcInv, NEW s \in VcSessions, Joined(s) \/ StopsImages(s) \/ ShutDownSession(s)
  PROVE  VcInv'
<1>1. /\ UNCHANGED <<vcThread, vcPops, vcQueue, vcRunning, vcCtxs, vcRefs>>
      /\ \/ vcAt[s] = "join" /\ vcThread = "off" /\ vcAt' = [vcAt EXCEPT ![s] = "stop"] /\ UNCHANGED vcImages
         \/ vcAt[s] = "stop" /\ vcAt' = [vcAt EXCEPT ![s] = "idle"] /\ vcImages' = [vcImages EXCEPT ![s] = "stopped"]
         \/ UNCHANGED <<vcAt, vcImages>>
  BY DEF Joined, StopsImages, ShutDownSession, Go, vcThreadVars
<1>2. VcTyped' BY <1>1 DEF VcInv, VcTyped, VcTypeOK, VcPlaces
<1>3. SessionServed' BY <1>1 DEF VcInv, VcTyped, SessionServed, Ended
<1>4. ThreadHasUser' BY <1>1 DEF VcInv, VcTyped, ThreadHasUser
<1>5. VcHolders' BY <1>1 DEF VcInv, VcTyped, VcHolders
<1>6. VcThreadInv' BY <1>1 DEF VcInv, VcThreadInv
<1> QED BY <1>2, <1>3, <1>4, <1>5, <1>6 DEF VcInv

\* A session's own loop.
LEMMA VcSessionKeeps == ASSUME VcInv, NEW s \in VcSessions, VcSessionStep(s) PROVE VcInv'
<1> USE DEF VcInv, VcTyped
<1>1. CASE RaiseContext(s) BY <1>1, VcRaiseKeeps
<1>2. CASE LoopChecks(s) BY <1>2, VcMoves DEF LoopChecks, Ended
<1>3. CASE LooksAtDisplay(s) \/ LocksDisplay(s)
  <2>1. PICK to \in {"loop", "take", "null", "hold"} : Go(s, to) BY <1>3 DEF LooksAtDisplay, LocksDisplay
  <2> QED BY <1>3, <2>1, VcMoves DEF LooksAtDisplay, LocksDisplay, Ended
<1>4. CASE EncodeChecks(s)
  <2>1. PICK to \in {"loop", "pop"} : Go(s, to) BY <1>4 DEF EncodeChecks
  <2> QED BY <1>4, <2>1, VcMoves DEF EncodeChecks, Ended
<1>5. ASSUME NEW outcome \in {"ok", "noDevice", "noEncoder", "noDummy"}, MakesEncoder(s, outcome) PROVE VcInv'
  <2>1. PICK to \in {"check", "leave", "loop"} : Go(s, to) BY <1>5 DEF MakesEncoder
  <2> QED BY <1>5, <2>1, VcMoves DEF MakesEncoder, Ended
<1>6. ASSUME NEW fails \in BOOLEAN, Encodes(s, fails) PROVE VcInv'
  <2>1. vcImages' = [vcImages EXCEPT ![s] = IF vcImages[s] = "full" THEN "empty" ELSE vcImages[s]]
    BY <1>6 DEF Encodes
  <2>2. /\ vcImages' \in [VcSessions -> {"empty", "full", "stopped"}]
        /\ \A o \in VcSessions : Ended(o) => vcImages'[o] = "stopped"
    BY <2>1 DEF Ended
  <2>3. PICK to \in {"loop", "check"} : Go(s, to) BY <1>6 DEF Encodes
  <2> QED BY <1>6, <2>2, <2>3, VcMoves DEF Encodes
<1>7. CASE Unref(s) BY <1>7, VcUnrefKeeps
<1>8. CASE Joined(s) \/ StopsImages(s) BY <1>8, VcLeaveKeeps
<1> QED BY <1>1, <1>2, <1>3, <1>4, <1>5, <1>6, <1>7, <1>8 DEF VcSessionStep

\* A step of the thread while it serves: what it drops has ended.
LEMMA VcServes ==
  ASSUME VcInv, UNCHANGED <<vcRunning, vcRefs, vcAt>>, vcThread # "off",
         vcThread' \in {"capture", "drain", "pop", "reopen", "opening", "opened"},
         vcCtxs' \subseteq VcSessions, vcQueue' \subseteq VcSessions,
         \A s \in vcCtxs \cup vcQueue : s \in vcCtxs' \cup vcQueue' \/ Ended(s),
         vcPops' # VcNobody <=> vcThread' = "pop",
         vcImages' \in [VcSessions -> {"empty", "full", "stopped"}],
         \A s \in VcSessions : Ended(s) => vcImages'[s] = "stopped"
  PROVE  VcInv'
<1>1. VcTyped' BY DEF VcInv, VcTyped, VcTypeOK
<1>2. SessionServed' BY DEF VcInv, SessionServed, Ended
<1>3. ThreadHasUser' BY DEF VcInv, ThreadHasUser
<1>4. VcHolders' BY DEF VcInv, VcHolders
<1>5. VcThreadInv' BY DEF VcInv, VcThreadInv
<1> QED BY <1>1, <1>2, <1>3, <1>4, <1>5 DEF VcInv

LEMMA VcThreadKeeps == ASSUME VcInv, VcThreadStep PROVE VcInv'
<1> USE VcAssumption DEF VcInv, VcTyped, VcTypeOK
<1>1. ASSUME NEW opens \in BOOLEAN, FirstContext(opens) PROVE VcInv'
  <2>1. vcThread = "wait" /\ UNCHANGED <<vcRefs, vcAt>> BY <1>1 DEF FirstContext
  <2>2. CASE ThreadEnds BY <2>1, <2>2, VcEnds
  <2>3. CASE ~ThreadEnds
    <3>1. PICK s \in vcQueue : vcCtxs' = {s} /\ vcQueue' = vcQueue \ {s} BY <1>1, <2>3 DEF FirstContext
    <3>2. vcThread' = "capture" /\ UNCHANGED <<vcPops, vcRunning, vcImages>> BY <1>1, <2>3 DEF FirstContext
    <3>3. vcCtxs = {} BY <2>1 DEF VcThreadInv
    <3> QED BY <2>1, <3>1, <3>2, <3>3, VcServes DEF Ended
  <2> QED BY <2>2, <2>3
<1>2. CASE ClosesDisplay
  <2>1. vcThread = "reopen" /\ UNCHANGED <<vcRefs, vcAt>> BY <1>2 DEF ClosesDisplay
  <2>2. CASE ThreadEnds BY <2>1, <2>2, VcEnds
  <2>3. CASE ~ThreadEnds
    <3>1. vcThread' = "opening" /\ UNCHANGED <<vcPops, vcQueue, vcRunning, vcCtxs, vcImages>>
      BY <1>2, <2>3 DEF ClosesDisplay
    <3> QED BY <2>1, <3>1, VcServes DEF Ended
  <2> QED BY <2>2, <2>3
<1>3. ASSUME NEW captured \in BOOLEAN, NEW switch \in BOOLEAN, PushesImage(captured, switch) PROVE VcInv'
  <2> DEFINE live == {s \in vcCtxs : ~Ended(s)}
  <2>1. /\ vcThread = "capture" /\ vcThread' \in {"drain", "capture"} /\ UNCHANGED <<vcPops, vcRunning, vcRefs, vcAt>>
        /\ vcCtxs' = live \cup vcQueue /\ vcQueue' = {}
        /\ vcImages' = [s \in VcSessions |-> IF captured /\ s \in live THEN "full" ELSE vcImages[s]]
    BY <1>3 DEF PushesImage, Reinit
  <2>2. /\ vcImages' \in [VcSessions -> {"empty", "full", "stopped"}]
        /\ \A s \in VcSessions : Ended(s) => vcImages'[s] = "stopped"
    BY <2>1 DEF Ended
  <2> QED BY <2>1, <2>2, VcServes
<1>4. ASSUME NEW status \in {"reinit", "error"}, CaptureReturns(status) PROVE VcInv'
  <2>1. vcThread = "capture" /\ UNCHANGED <<vcRefs, vcAt>> BY <1>4 DEF CaptureReturns
  <2>2. CASE ThreadEnds BY <2>1, <2>2, VcEnds
  <2>3. CASE ~ThreadEnds
    <3>1. vcThread' = "drain" /\ UNCHANGED <<vcPops, vcQueue, vcRunning, vcCtxs, vcImages>>
      BY <1>4, <2>3 DEF CaptureReturns, Reinit
    <3> QED BY <2>1, <3>1, VcServes DEF Ended
  <2> QED BY <2>2, <2>3
<1>5. CASE DisplayFree \/ ReinitReset \/ \E opens \in BOOLEAN : Reopens(opens)
  <2>1. vcThread # "pop" /\ vcThread # "off" /\ vcThread' \in {"reopen", "opened", "capture"}
        /\ UNCHANGED <<vcPops, vcQueue, vcRunning, vcCtxs, vcImages, vcRefs, vcAt>>
    BY <1>5 DEF DisplayFree, ReinitReset, Reopens, vcSessionVars
  <2> QED BY <2>1, VcServes DEF Ended
<1>6. CASE DrainPops
  <2>1. /\ vcThread = "pop" /\ vcThread' = "drain" /\ vcPops' = VcNobody
        /\ UNCHANGED <<vcQueue, vcRunning, vcCtxs, vcRefs, vcAt>>
        /\ vcImages' = [vcImages EXCEPT ![vcPops] = IF vcImages[vcPops] = "full" THEN "empty" ELSE vcImages[vcPops]]
    BY <1>6 DEF DrainPops
  <2>2. /\ vcImages' \in [VcSessions -> {"empty", "full", "stopped"}]
        /\ \A s \in VcSessions : Ended(s) => vcImages'[s] = "stopped"
    BY <2>1 DEF Ended
  <2> QED BY <2>1, <2>2, VcServes
<1>7. ASSUME NEW s \in VcSessions, DrainPeeks(s) PROVE VcInv'
  <2>1. vcThread = "drain" /\ s \in vcCtxs /\ UNCHANGED <<vcQueue, vcRunning, vcImages, vcRefs, vcAt>>
    BY <1>7 DEF DrainPeeks, vcSessionVars
  <2>2. CASE Ended(s)
    <3>1. vcCtxs' = vcCtxs \ {s} /\ UNCHANGED <<vcThread, vcPops>> BY <1>7, <2>2 DEF DrainPeeks
    <3> QED BY <2>1, <2>2, <3>1, VcServes DEF Ended
  <2>3. CASE ~Ended(s)
    <3>1. vcThread' = "pop" /\ vcPops' = s /\ UNCHANGED vcCtxs BY <1>7, <2>3 DEF DrainPeeks
    <3> QED BY <2>1, <3>1, VcServes DEF Ended
  <2> QED BY <2>2, <2>3
<1> QED BY <1>1, <1>2, <1>3, <1>4, <1>5, <1>6, <1>7 DEF VcThreadStep

LEMMA VcInvStep == VcInv /\ [VcNext]_vcVars => VcInv'
<1> SUFFICES ASSUME VcInv, [VcNext]_vcVars PROVE VcInv'
  OBVIOUS
<1>1. ASSUME NEW s \in VcSessions, VcSessionStep(s) \/ Ref(s) \/ ShutDownSession(s) PROVE VcInv'
  BY <1>1, VcSessionKeeps, VcRefKeeps, VcLeaveKeeps
<1>2. CASE VcThreadStep BY <1>2, VcThreadKeeps
<1>3. CASE TeardownEnds \/ UNCHANGED vcVars
  <2>1. UNCHANGED <<vcThread, vcPops, vcQueue, vcRunning, vcCtxs, vcRefs, vcAt, vcImages>>
    BY <1>3 DEF TeardownEnds, vcVars, vcThreadVars, vcSessionVars
  <2> QED BY <2>1 DEF VcInv, VcTyped, VcTypeOK, SessionServed, ThreadHasUser, VcHolders, VcThreadInv, Ended
<1> QED BY <1>1, <1>2, <1>3 DEF VcNext

\* video.cpp, capture_async and captureThread, for any number of sessions: a
\* session that encodes is known to the thread, waits in its queue or was told
\* that it ended, also when the thread fails, reinitializes or drops sessions,
\* and the thread runs only while somebody holds it or waits for its end.
THEOREM CaptureServes == VcSpec => []CaptureThreadServes
<1>1. VcInv => CaptureThreadServes BY DEF VcInv, VcTyped, CaptureThreadServes
<1>2. VcSpec => []VcInv BY VcInvInit, VcInvStep, PTL DEF VcSpec
<1> QED BY <1>1, <1>2, PTL

-----------------------------------------------------------------------------
(* The choice of an encoder (EncoderProbe) *)

\* On every platform names are unique and software encoding is the last of
\* the list.
LEMMA EpListed ==
  \E n \in {2, 3, 4} :
    /\ DOMAIN Encoders = 1 .. n
    /\ \A i, j \in 1 .. n : Encoders[i].name = Encoders[j].name => i = j
    /\ \A i \in 1 .. n : Encoders[i].name # EpNone
    /\ \A i \in 1 .. n : Encoders[i].name = "software" => i = n /\ Encoders[i].reprobe
<1> USE DEF WindowsNvenc, LinuxNvenc, Quicksync, Amdvce, Software, Vaapi, Videotoolbox, EpNone
<1>1. CASE EpPlatform = "windows"
  <2>1. Encoders = <<WindowsNvenc, Quicksync, Amdvce, Software>> BY <1>1 DEF Encoders
  <2>2. DOMAIN Encoders = 1 .. 4 BY <2>1
  <2>3. \A i \in 1 .. 4 : i = 1 \/ i = 2 \/ i = 3 \/ i = 4 OBVIOUS
  <2>4. /\ Encoders[1].name = "nvenc" /\ Encoders[2].name = "quicksync" /\ Encoders[3].name = "amdvce"
        /\ Encoders[4].name = "software" /\ Encoders[4].reprobe
    BY <2>1
  <2> HIDE DEF WindowsNvenc, LinuxNvenc, Quicksync, Amdvce, Software, Vaapi, Videotoolbox
  <2>5. /\ \A i, j \in 1 .. 4 : Encoders[i].name = Encoders[j].name => i = j
        /\ \A i \in 1 .. 4 : Encoders[i].name # EpNone
        /\ \A i \in 1 .. 4 : Encoders[i].name = "software" => i = 4 /\ Encoders[i].reprobe
    BY <2>3, <2>4
  <2> QED BY <2>2, <2>5
<1>2. CASE EpPlatform = "linux"
  <2>1. Encoders = <<LinuxNvenc, Vaapi, Software>> BY <1>2 DEF Encoders
  <2>2. DOMAIN Encoders = 1 .. 3 BY <2>1
  <2>3. \A i \in 1 .. 3 : i = 1 \/ i = 2 \/ i = 3 OBVIOUS
  <2>4. /\ Encoders[1].name = "nvenc" /\ Encoders[2].name = "vaapi"
        /\ Encoders[3].name = "software" /\ Encoders[3].reprobe
    BY <2>1
  <2> HIDE DEF WindowsNvenc, LinuxNvenc, Quicksync, Amdvce, Software, Vaapi, Videotoolbox
  <2>5. /\ \A i, j \in 1 .. 3 : Encoders[i].name = Encoders[j].name => i = j
        /\ \A i \in 1 .. 3 : Encoders[i].name # EpNone
        /\ \A i \in 1 .. 3 : Encoders[i].name = "software" => i = 3 /\ Encoders[i].reprobe
    BY <2>3, <2>4
  <2> QED BY <2>2, <2>5
<1>3. CASE EpPlatform = "macos"
  <2>1. Encoders = <<Videotoolbox, Software>> BY <1>3 DEF Encoders
  <2>2. DOMAIN Encoders = 1 .. 2 BY <2>1
  <2>3. \A i \in 1 .. 2 : i = 1 \/ i = 2 OBVIOUS
  <2>4. Encoders[1].name = "videotoolbox" /\ Encoders[2].name = "software" /\ Encoders[2].reprobe
    BY <2>1
  <2> HIDE DEF WindowsNvenc, LinuxNvenc, Quicksync, Amdvce, Software, Vaapi, Videotoolbox
  <2>5. /\ \A i, j \in 1 .. 2 : Encoders[i].name = Encoders[j].name => i = j
        /\ \A i \in 1 .. 2 : Encoders[i].name # EpNone
        /\ \A i \in 1 .. 2 : Encoders[i].name = "software" => i = 2 /\ Encoders[i].reprobe
    BY <2>3, <2>4
  <2> QED BY <2>2, <2>5
<1> QED BY <1>1, <1>2, <1>3, EpAssumption

\* The encoder of a name has that name, and is the only one.
LEMMA EpNamed ==
  ASSUME NEW n \in EpNames
  PROVE  /\ n # EpNone
         /\ \E i \in DOMAIN Encoders : EncoderNamed(n) = Encoders[i] /\ Encoders[i].name = n
         /\ n = "software" => EncoderNamed(n).reprobe
<1>1. PICK m \in {2, 3, 4} :
        /\ DOMAIN Encoders = 1 .. m
        /\ \A i, j \in 1 .. m : Encoders[i].name = Encoders[j].name => i = j
        /\ \A i \in 1 .. m : Encoders[i].name # EpNone
        /\ \A i \in 1 .. m : Encoders[i].name = "software" => i = m /\ Encoders[i].reprobe
  BY EpListed
<1>2. PICK i \in DOMAIN Encoders : Encoders[i].name = n BY DEF EpNames
<1> DEFINE k == CHOOSE j \in DOMAIN Encoders : Encoders[j].name = n
<1>3. k \in DOMAIN Encoders /\ Encoders[k].name = n BY <1>2
<1>4. EncoderNamed(n) = Encoders[k] BY DEF EncoderNamed
<1> HIDE DEF k
<1> QED BY <1>1, <1>3, <1>4

\* The first of a set is in it and nothing of the set is before it.
LEMMA EpFirst ==
  ASSUME NEW S
  PROVE  \/ FirstOf(S) = EpNone /\ \A i \in DOMAIN Encoders : Encoders[i] \notin S
         \/ \E i \in DOMAIN Encoders : /\ Encoders[i] \in S /\ FirstOf(S) = Encoders[i].name
                                       /\ \A j \in DOMAIN Encoders : Encoders[j] \in S => i <= j
<1> DEFINE found == {i \in DOMAIN Encoders : Encoders[i] \in S}
           k == CHOOSE i \in found : \A j \in found : i <= j
<1>1. FirstOf(S) = IF found = {} THEN EpNone ELSE Encoders[k].name BY DEF FirstOf
<1>2. CASE found = {} BY <1>1, <1>2
<1>3. CASE found # {}
  <2>1. found \subseteq {1, 2, 3, 4} BY EpListed
  <2>2. \E i \in found : \A j \in found : i <= j
    <3> HIDE DEF found
    <3>1. CASE 1 \in found BY <2>1, <3>1
    <3>2. CASE 1 \notin found /\ 2 \in found BY <2>1, <3>2
    <3>3. CASE 1 \notin found /\ 2 \notin found /\ 3 \in found BY <2>1, <3>3
    <3>4. CASE 1 \notin found /\ 2 \notin found /\ 3 \notin found
      <4>1. PICK i : i \in found BY <1>3
      <4>2. \A j \in found : j = 4 BY <2>1, <3>4
      <4>3. i <= i BY <4>1, <4>2
      <4> QED BY <4>1, <4>2, <4>3
    <3> QED BY <3>1, <3>2, <3>3, <3>4
  <2>3. k \in found /\ \A j \in found : k <= j BY <2>2
  <2>4. FirstOf(S) = Encoders[k].name BY <1>1, <1>3
  <2> HIDE DEF k
  <2> QED BY <2>3, <2>4
<1> QED BY <1>2, <1>3

\* What a validation leaves is a set of the flags.
LEMMA EpFlagged ==
  ASSUME NEW e, NEW hw, NEW mode, NEW c \in EpCodecs
  PROVE  CapsAfter(e, hw, mode)[c] \subseteq EpFlags
  BY DEF CapsAfter, H264Caps, CodecCaps, HdrCaps, EpFlags, EpCodecs

\* What becomes of a mode of the configuration is a mode; automatic or plain,
\* it is backed by what was found.
LEMMA EpOffered ==
  ASSUME NEW m \in 0..3, NEW caps
  PROVE  LET o == Offered(Adjusted(m, caps), caps)
         IN  /\ o \in 0..3
             /\ o >= 2 /\ (m = 0 \/ o = 2) => "PASSED" \in caps /\ (o = 3 => "DYNAMIC_RANGE" \in caps)
  BY DEF Offered, Adjusted

\* The encoder selected: the one named if it works; otherwise, when the user
\* insists on nothing, the first that works.
LEMMA EpSelects ==
  ASSUME NEW valid, NEW fitting
  PROVE  /\ Selected(valid, fitting) \in EpNames \cup {EpNone}
         /\ epConfig.encoder \in EpNames /\ EncoderNamed(epConfig.encoder) \in valid
              => Selected(valid, fitting) = epConfig.encoder
         /\ epConfig.hevc < 2 /\ epConfig.av1 < 2 /\ epConfig.hevc \in 0..3 /\ epConfig.av1 \in 0..3
              => Selected(valid, fitting) \in {epConfig.encoder, FirstOf(valid)}
<1>1. \A S : FirstOf(S) \in EpNames \cup {EpNone} BY EpFirst DEF EpNames
<1>2. epConfig.hevc < 2 /\ epConfig.av1 < 2 /\ epConfig.hevc \in 0..3 /\ epConfig.av1 \in 0..3
        => ~(epConfig.hevc >= 2 \/ epConfig.av1 >= 2)
  OBVIOUS
<1> QED BY <1>1, <1>2 DEF Selected, NamedIsUsed

EpInv ==
  /\ ProbeResultsHold
  /\ epConfig.hevc \in 0..3 /\ epConfig.av1 \in 0..3

LEMMA EpInvInit == EpInit => EpInv
<1> SUFFICES ASSUME EpInit PROVE EpInv
  OBVIOUS
<1>1. epConfig.hevc \in 0..3 /\ epConfig.av1 \in 0..3 BY EpAssumption DEF EpInit
<1>2. epChosen = EpNone /\ epYuv444 = EpCodecs /\ epCall = "stale" /\ epMode = [hevc |-> 0, av1 |-> 0]
      /\ epCaps = [c \in EpCodecs |-> {}]
  BY DEF EpInit
<1>3. EpTypeOK BY <1>2 DEF EpTypeOK, EpCodecs
<1>4. OfferedCodecWorks /\ Yuv444NeedsCodec /\ UserChoiceWins /\ SoftwareIsLastResort
  BY <1>2 DEF OfferedCodecWorks, Yuv444NeedsCodec, UserChoiceWins, SoftwareIsLastResort
<1> QED BY <1>1, <1>3, <1>4 DEF EpInv, ProbeResultsHold

LEMMA EpProbes ==
  ASSUME EpInv, NEW displays, NEW driverOk, ProbeEncoders(displays, driverOk)
  PROVE  EpInv'
<1> DEFINE mode == [hevc |-> epConfig.hevc, av1 |-> epConfig.av1, h264 |-> 0]
           Expects(e) == epChosen \notin {EpNone, e.name}
           Valid(e) == ValidateEncoder(e, epHw[e.name], Expects(e))
           Caps(e) == CapsAfter(e, epHw[e.name], mode)
           Fits(e) == MeetsCodecs(mode, Caps(e))
           valid == {e \in {EncoderNamed(n) : n \in EpNames} : Valid(e)}
           fitting == {e \in valid : Fits(e)}
           chosen == Selected(valid, fitting)
           caps == Caps(EncoderNamed(chosen))
<1>1. epChosen' = chosen /\ epCall' = "probed" /\ UNCHANGED <<epHw, epConfig>> BY DEF ProbeEncoders
<1>2. chosen = EpNone => /\ epMode' = [hevc |-> mode.hevc, av1 |-> mode.av1]
                         /\ epCaps' = [c \in EpCodecs |-> {}] /\ UNCHANGED epYuv444
  BY DEF ProbeEncoders
<1>3. chosen # EpNone => /\ epCaps' = caps
                         /\ epMode' = [c \in {"hevc", "av1"} |-> Offered(Adjusted(mode[c], caps[c]), caps[c])]
                         /\ epYuv444' = Yuv444Supported(caps)
  BY DEF ProbeEncoders
<1>4. \A c \in {"hevc", "av1"} : mode[c] = epConfig[c] /\ mode[c] \in 0..3 BY DEF EpInv
<1>5. \A c \in EpCodecs : caps[c] \subseteq EpFlags BY EpFlagged
<1>6. chosen \in EpNames \cup {EpNone} BY EpSelects
<1>7. \A n \in EpNames : ValidateEncoder(EncoderNamed(n), epHw[n], TRUE) => EncoderNamed(n) \in valid
  <2> SUFFICES ASSUME NEW n \in EpNames, ValidateEncoder(EncoderNamed(n), epHw[n], TRUE)
               PROVE  EncoderNamed(n) \in valid
    OBVIOUS
  <2>1. EncoderNamed(n).name = n BY EpNamed
  <2>2. Valid(EncoderNamed(n)) BY <2>1 DEF ValidateEncoder, H264Validates
  <2> QED BY <2>2
<1>8. /\ epConfig.encoder \in EpNames /\ EncoderNamed(epConfig.encoder) \in valid => chosen = epConfig.encoder
      /\ epConfig.hevc < 2 /\ epConfig.av1 < 2 => chosen \in {epConfig.encoder, FirstOf(valid)}
  BY EpSelects DEF EpInv
<1>9. epConfig'.hevc \in 0..3 /\ epConfig'.av1 \in 0..3 BY <1>1 DEF EpInv
<1> HIDE DEF mode, valid, fitting, chosen, caps
<1>10. \A c \in {"hevc", "av1"} :
         epMode'[c] \in 0..3 /\ (chosen # EpNone => epMode'[c] = Offered(Adjusted(mode[c], caps[c]), caps[c]))
  <2>1. CASE chosen = EpNone BY <1>2, <1>4, <2>1 DEF mode
  <2>2. CASE chosen # EpNone BY <1>3, <1>4, <2>2, EpOffered
  <2> QED BY <2>1, <2>2
<1>11. EpTypeOK'
  <2>1. \A c \in EpCodecs : epCaps'[c] \subseteq EpFlags BY <1>2, <1>3, <1>5
  <2>2. epYuv444' \subseteq EpCodecs BY <1>2, <1>3 DEF Yuv444Supported, EpInv, ProbeResultsHold, EpTypeOK
  <2> QED BY <1>1, <1>6, <1>10, <2>1, <2>2 DEF EpTypeOK
<1>12. OfferedCodecWorks'
  <2> SUFFICES ASSUME NEW c \in {"hevc", "av1"}, chosen # EpNone, epMode'[c] >= 2,
                      epConfig[c] = 0 \/ epMode'[c] = 2
               PROVE  "PASSED" \in epCaps'[c] /\ (epMode'[c] = 3 => "DYNAMIC_RANGE" \in epCaps'[c])
    BY <1>1 DEF OfferedCodecWorks
  <2> QED BY <1>3, <1>4, <1>10, EpOffered
<1>13. Yuv444NeedsCodec' BY <1>1, <1>3 DEF Yuv444NeedsCodec, Yuv444Supported
<1>14. UserChoiceWins' BY <1>1, <1>7, <1>8 DEF UserChoiceWins
<1>15. SoftwareIsLastResort'
  <2> SUFFICES ASSUME chosen = "software", epConfig.encoder # "software", epConfig.hevc < 2, epConfig.av1 < 2,
                      NEW n \in EpNames \ {"software"}, ValidateEncoder(EncoderNamed(n), epHw[n], TRUE)
               PROVE  FALSE
    BY <1>1 DEF SoftwareIsLastResort
  <2>1. FirstOf(valid) = "software" BY <1>8
  <2>2. EncoderNamed(n) \in valid BY <1>7
  <2>3. PICK j \in DOMAIN Encoders : EncoderNamed(n) = Encoders[j] /\ Encoders[j].name = n BY EpNamed
  <2>4. PICK i \in DOMAIN Encoders : /\ Encoders[i].name = "software"
                                     /\ \A k \in DOMAIN Encoders : Encoders[k] \in valid => i <= k
    BY <2>1, EpFirst DEF EpNone
  <2>5. i <= j BY <2>2, <2>3, <2>4
  <2>6. PICK m \in {2, 3, 4} : DOMAIN Encoders = 1 .. m
                               /\ \A k \in 1 .. m : Encoders[k].name = "software" => k = m
    BY EpListed
  <2>7. i = j BY <2>4, <2>5, <2>6
  <2> QED BY <2>3, <2>4, <2>7
<1> QED BY <1>9, <1>11, <1>12, <1>13, <1>14, <1>15 DEF EpInv, ProbeResultsHold

LEMMA EpInvStep == EpInv /\ [EpNext]_epVars => EpInv'
<1> SUFFICES ASSUME EpInv, [EpNext]_epVars PROVE EpInv'
  OBVIOUS
<1> USE DEF EpInv, ProbeResultsHold
<1>1. ASSUME NEW displays \in {"none", "inactive", "active"}, NEW driverOk \in BOOLEAN,
             ProbeEncoders(displays, driverOk)
      PROVE  EpInv'
  BY <1>1, EpProbes
<1>2. ASSUME NEW displays \in {"none", "inactive", "active"}, NEW driverOk \in BOOLEAN,
             ProbeReturns(displays, driverOk)
      PROVE  EpInv'
  <2>1. UNCHANGED <<epHw, epConfig, epChosen, epMode, epCaps, epYuv444>> /\ epCall' \in {"kept", "refused"}
        /\ (epCall' = "kept" => GoodEncoderKept)
    BY <1>2 DEF ProbeReturns
  <2>2. EpTypeOK' BY <2>1 DEF EpTypeOK
  <2>3. OfferedCodecWorks' BY <2>1 DEF OfferedCodecWorks
  <2>4. Yuv444NeedsCodec' BY <2>1 DEF Yuv444NeedsCodec
  <2>5. UserChoiceWins' BY <2>1 DEF UserChoiceWins
  <2>6. SoftwareIsLastResort'
    <3>1. epCall' = "kept" => epChosen # "software"
      BY <2>1, EpNamed DEF GoodEncoderKept, EpTypeOK, EpNone
    <3> QED BY <2>1, <3>1 DEF SoftwareIsLastResort
  <2> QED BY <2>1, <2>2, <2>3, <2>4, <2>5, <2>6
<1>3. ASSUME NEW n \in EpNames, NEW kind \in EpKinds, NEW noticed \in BOOLEAN, HardwareChanges(n, kind, noticed)
      PROVE  EpInv'
  <2>1. UNCHANGED <<epConfig, epChosen, epMode, epCaps, epYuv444>> /\ epCall' = "stale"
    BY <1>3 DEF HardwareChanges
  <2> QED BY <2>1 DEF EpTypeOK, OfferedCodecWorks, Yuv444NeedsCodec, UserChoiceWins, SoftwareIsLastResort
<1>4. CASE UNCHANGED epVars
  BY <1>4 DEF epVars, EpTypeOK, OfferedCodecWorks, Yuv444NeedsCodec, UserChoiceWins, SoftwareIsLastResort
<1> QED BY <1>1, <1>2, <1>3, <1>4 DEF EpNext

\* video.cpp, probe_encoders, on each platform and whatever its hardware can
\* do and however it changes: what the host offers was seen to work, 4:4:4
\* belongs to the encoder in use, the encoder the user named is used when it
\* works, and software encoding is left only when nothing else works.
THEOREM ProbeHolds == EpSpec => []ProbeResultsHold
<1>1. EpInv => ProbeResultsHold BY DEF EpInv
<1>2. EpSpec => []EpInv BY EpInvInit, EpInvStep, PTL DEF EpSpec
<1> QED BY <1>1, <1>2, PTL

-----------------------------------------------------------------------------
(* Desktop duplication (DuplicationCapture) *)

DcKinds == [kind : {"none", "img", "surface"}, frame : Nat]
DcLive == dcStep \notin DcEnded

\* While the loop runs, what it knows is what the desktop presented last: the
\* format, and the frame kept, if one is kept.
DcKnows ==
  /\ dcFormat = dcDesktop.format
  /\ dcDesktop.format = "unknown" => dcDesktop.frame = 0
  /\ dcBackend = "ram" \/ dcLast.kind # "none" => dcLast.frame = dcDesktop.frame
  /\ dcBackend = "vram" /\ dcLast.kind = "none" => dcDesktop.frame = 0

DcInv ==
  /\ dcBackend \in {"vram", "ram"} /\ dcLast \in DcKinds /\ dcDesktop.frame \in Nat
  /\ DcLive => DcKnows
  /\ ImageShowsDesktop /\ FrameNotHeldWhileWaiting

LEMMA DcInvInit == DcInit => DcInv
  BY DEF DcInit, DcInv, DcKinds, DcLive, DcEnded, DcKnows, Nothing, ImageShowsDesktop,
         FrameNotHeldWhileWaiting

\* A new frame is kept, in whatever form; otherwise the frame kept stays.
DcKeeps(kept, frame) ==
  /\ kept \in DcKinds
  /\ frame > 0 => kept.kind # "none" /\ kept.frame = frame
  /\ frame = 0 => kept.frame = dcLast.frame /\ (kept.kind = "none" <=> dcLast.kind = "none")

LEMMA DcKept ==
  ASSUME dcLast \in DcKinds, NEW frame \in Nat, NEW blend \in BOOLEAN
  PROVE  DcKeeps(Kept(LastFrameAction(TRUE, frame, blend), frame), frame)
<1> DEFINE action == LastFrameAction(TRUE, frame, blend)
           kept == Kept(action, frame)
<1>1. CASE frame > 0
  <2>1. action \in {"copy_src_to_surface", "copy_src_to_img"} BY <1>1 DEF LastFrameAction
  <2> HIDE DEF action
  <2>2. kept = [kind |-> "surface", frame |-> frame] \/ kept = [kind |-> "img", frame |-> frame]
    BY <1>1, <2>1 DEF Kept
  <2> HIDE DEF kept
  <2>3. DcKeeps(kept, frame) BY <1>1, <2>2 DEF DcKeeps, DcKinds
  <2> QED BY <2>3 DEF kept, action
<1>2. CASE frame = 0 /\ dcLast.kind = "none"
  <2>1. action = "nothing" BY <1>2 DEF LastFrameAction
  <2> HIDE DEF action
  <2>2. kept = dcLast BY <2>1 DEF Kept
  <2> HIDE DEF kept
  <2>3. DcKeeps(kept, frame) BY <1>2, <2>2 DEF DcKeeps, DcKinds
  <2> QED BY <2>3 DEF kept, action
<1>3. CASE frame = 0 /\ dcLast.kind # "none"
  <2>1. action \in {"replace_img_with_surface", "replace_surface_with_img", "nothing"} BY <1>3 DEF LastFrameAction
  <2> HIDE DEF action
  <2>2. \/ kept = [kind |-> "surface", frame |-> dcLast.frame] \/ kept = [kind |-> "img", frame |-> dcLast.frame]
        \/ kept = dcLast
    BY <1>3, <2>1 DEF Kept
  <2> HIDE DEF kept
  <2>3. DcKeeps(kept, frame) BY <1>3, <2>2 DEF DcKeeps, DcKinds
  <2> QED BY <2>3 DEF kept, action
<1>4. frame > 0 \/ (frame = 0 /\ dcLast.kind = "none") \/ (frame = 0 /\ dcLast.kind # "none") OBVIOUS
<1> QED BY ONLY <1>1, <1>2, <1>3, <1>4 DEF kept, action

\* A snapshot that sends an image or fails, given the desktop's frame and
\* format after it.
LEMMA DcSnapshotVram ==
  ASSUME DcInv, DcLive, dcBackend = "vram", NEW format, NEW frame \in Nat,
         NEW visible \in BOOLEAN, NEW pulled \in BOOLEAN, NEW created \in BOOLEAN,
         SnapshotVram(format, frame, visible, pulled, created), dcWanted \in BOOLEAN,
         dcDesktop' = (IF frame > 0 THEN [frame |-> frame, format |-> format] ELSE dcDesktop),
         frame > 0 => format # "unknown", frame = 0 => format = dcFormat,
         dcCursor' = visible, dcFormat' = format, UNCHANGED dcBackend
  PROVE  DcInv'
<1> DEFINE blend == visible /\ dcWanted
           known == format # "unknown"
           kept == Kept(LastFrameAction(known, frame, blend), frame)
           dummy == OutFrameAction(known, frame, blend) = "dummy_fallback"
           img == [frame |-> IF dummy THEN 0 ELSE kept.frame, cursor |-> blend, format |-> format]
<1>1. dcLast' = kept BY DEF SnapshotVram
<1>2. \/ dcOut' = {} /\ dcStep' \in {"error", "interrupted"}
      \/ dcOut' = {img} /\ dcStep' = "push"
  BY DEF SnapshotVram
<1>3. DcKnows /\ dcLast \in DcKinds BY DEF DcInv
<1>4. DcKeeps(kept, frame)
  <2>1. CASE known
    <3>1. kept = Kept(LastFrameAction(TRUE, frame, blend), frame) BY <2>1
    <3>2. blend \in BOOLEAN OBVIOUS
    <3> HIDE DEF kept, blend
    <3> QED BY <1>3, <3>1, <3>2, DcKept
  <2>2. CASE ~known
    <3>1. LastFrameAction(known, frame, blend) = "nothing" BY <2>2 DEF LastFrameAction
    <3>2. kept = dcLast BY <3>1 DEF Kept
    <3>3. ~(frame > 0) BY <2>2
    <3> HIDE DEF kept
    <3> QED BY <1>3, <3>2, <3>3 DEF DcKeeps
  <2> QED BY <2>1, <2>2
<1>5. dummy <=> ~known \/ (frame = 0 /\ dcLast.kind = "none") BY DEF OutFrameAction
<1>6. img.frame = (IF dummy THEN 0 ELSE kept.frame) /\ (img.cursor => visible) /\ img.format = format
  OBVIOUS
<1>7. dcDesktop'.format = format /\ dcDesktop'.frame = (IF frame > 0 THEN frame ELSE dcDesktop.frame) /\ dcDesktop'.frame \in Nat
  BY <1>3 DEF DcKnows, DcInv
<1> HIDE DEF img, kept, dummy
<1>8. img.frame = dcDesktop'.frame
  <2>1. CASE frame > 0 BY <1>4, <1>5, <1>6, <1>7, <2>1 DEF DcKeeps
  <2>2. CASE frame = 0 BY <1>3, <1>4, <1>5, <1>6, <1>7, <2>2 DEF DcKnows, DcKinds, DcKeeps
  <2> QED BY <2>1, <2>2
<1>9. DcKnows' /\ dcLast' \in DcKinds
  <2>1. CASE frame > 0 BY <1>1, <1>4, <1>7, <2>1 DEF DcKnows, DcKeeps
  <2>2. CASE frame = 0
    <3>1. dcDesktop' = dcDesktop /\ dcFormat' = dcFormat BY <2>2
    <3> QED BY <1>1, <1>3, <1>4, <2>2, <3>1 DEF DcKnows, DcKeeps
  <2> QED BY <2>1, <2>2
<1>10. dcStep' \in {"error", "interrupted", "push"} /\ (dcOut' = {} \/ dcOut' = {img}) BY <1>2
<1>11. ImageShowsDesktop' BY <1>6, <1>7, <1>8, <1>10 DEF ImageShowsDesktop
<1> QED BY <1>7, <1>9, <1>10, <1>11 DEF DcInv, FrameNotHeldWhileWaiting

LEMMA DcSnapshotRam ==
  ASSUME DcInv, DcLive, dcBackend = "ram", NEW format, NEW frame \in Nat,
         NEW visible \in BOOLEAN, NEW pulled \in BOOLEAN, NEW created \in BOOLEAN,
         SnapshotRam(format, frame, visible, pulled, created), dcWanted \in BOOLEAN,
         dcDesktop' = (IF frame > 0 THEN [frame |-> frame, format |-> format] ELSE dcDesktop),
         frame > 0 => format # "unknown", frame = 0 => format = dcFormat,
         dcCursor' = visible, dcFormat' = format, UNCHANGED dcBackend
  PROVE  DcInv'
<1> DEFINE kept == IF frame > 0 THEN [kind |-> "surface", frame |-> frame] ELSE dcLast
           img == [frame |-> kept.frame, cursor |-> visible /\ dcWanted, format |-> format]
<1>1. dcLast' = kept BY DEF SnapshotRam
<1>2. \/ dcOut' = {} /\ dcStep' \in {"error", "interrupted"}
      \/ dcOut' = {img} /\ dcStep' = "push"
  BY DEF SnapshotRam
<1>3. img.frame = kept.frame /\ (img.cursor => visible) /\ img.format = format OBVIOUS
<1>4. DcKnows /\ dcLast \in DcKinds BY DEF DcInv
<1>5. dcDesktop'.format = format /\ dcDesktop'.frame = (IF frame > 0 THEN frame ELSE dcDesktop.frame) /\ dcDesktop'.frame \in Nat
  BY <1>4 DEF DcKnows, DcInv
<1>6. kept \in DcKinds /\ kept.frame = dcDesktop'.frame BY <1>4, <1>5 DEF DcKnows, DcKinds
<1> HIDE DEF img, kept
<1>7. DcKnows'
  <2>1. dcDesktop'.format = "unknown" => dcDesktop'.frame = 0 BY <1>4, <1>5 DEF DcKnows
  <2> QED BY <1>1, <1>5, <1>6, <2>1 DEF DcKnows
<1>8. ImageShowsDesktop' BY <1>2, <1>3, <1>5, <1>6 DEF ImageShowsDesktop
<1> QED BY <1>1, <1>2, <1>5, <1>6, <1>7, <1>8 DEF DcInv, FrameNotHeldWhileWaiting

LEMMA DcSnapshots ==
  ASSUME DcInv, dcWanted \in BOOLEAN, NEW update \in {"frame", "pointer"}, NEW format \in {"sdr", "hdr"}, NEW fits \in BOOLEAN,
         NEW visible \in BOOLEAN, NEW pulled \in BOOLEAN, NEW created \in BOOLEAN,
         Snapshot(update, format, fits, visible, pulled, created)
  PROVE  DcInv'
<1> DEFINE frame == IF update = "frame" THEN dcDesktop.frame + 1 ELSE 0
           known == IF update = "frame" /\ dcFormat = "unknown" THEN format ELSE dcFormat
<1>1. /\ dcStep \in {"paced", "fresh"} /\ UNCHANGED <<dcBackend, dcWanted>> /\ dcCursor' = visible
      /\ dcDesktop' = IF frame > 0 THEN [frame |-> frame, format |-> format] ELSE dcDesktop
  BY DEF Snapshot
<1>2. \/ dcStep' = "reinit" /\ dcOut' = {} /\ UNCHANGED dcLast
      \/ /\ ~(frame > 0 /\ (~fits \/ known # format)) /\ dcFormat' = known
         /\ IF dcBackend = "vram" THEN SnapshotVram(known, frame, visible, pulled, created)
                                  ELSE SnapshotRam(known, frame, visible, pulled, created)
  BY DEF Snapshot
<1>3. DcLive BY <1>1 DEF DcLive, DcEnded
<1>4. frame \in Nat /\ (frame = 0 => known = dcFormat) BY DEF DcInv
<1> HIDE DEF frame, known
<1>5. CASE dcStep' = "reinit" /\ dcOut' = {} /\ UNCHANGED dcLast
  <2>1. dcDesktop'.frame \in Nat BY <1>1, <1>4 DEF DcInv
  <2> QED BY <1>1, <1>5, <2>1
      DEF DcInv, DcLive, DcEnded, ImageShowsDesktop, FrameNotHeldWhileWaiting
<1>6. CASE /\ ~(frame > 0 /\ (~fits \/ known # format)) /\ dcFormat' = known
           /\ IF dcBackend = "vram" THEN SnapshotVram(known, frame, visible, pulled, created)
                                    ELSE SnapshotRam(known, frame, visible, pulled, created)
  <2>1. frame > 0 => known = format /\ known # "unknown" BY <1>6
  <2>2. dcDesktop' = IF frame > 0 THEN [frame |-> frame, format |-> known] ELSE dcDesktop BY <1>1, <2>1
  <2>3. CASE dcBackend = "vram"
    <3>1. SnapshotVram(known, frame, visible, pulled, created) BY <1>6, <2>3
    <3> QED BY <1>1, <1>3, <1>4, <1>6, <2>1, <2>2, <2>3, <3>1, DcSnapshotVram
  <2>4. CASE dcBackend = "ram"
    <3>1. SnapshotRam(known, frame, visible, pulled, created) BY <1>6, <2>4
    <3> QED BY <1>1, <1>3, <1>4, <1>6, <2>1, <2>2, <2>4, <3>1, DcSnapshotRam
  <2> QED BY <2>3, <2>4 DEF DcInv
<1> QED BY <1>2, <1>5, <1>6

DcAll == DcInv /\ dcWanted \in BOOLEAN

LEMMA DcInvStep == DcAll /\ [DcNext]_dcVars => DcAll'
<1> SUFFICES ASSUME DcAll, [DcNext]_dcVars PROVE DcAll'
  OBVIOUS
<1> USE DEF DcAll, DcInv
<1> DEFINE Same == UNCHANGED <<dcBackend, dcFormat, dcLast, dcCursor, dcDesktop>>
<1>1. ASSUME NEW to \in {"reinit", "paced", "fresh"}, LoopTop(to) PROVE DcAll'
  <2>1. Same /\ UNCHANGED <<dcOut, dcWanted>> /\ dcStep = "top" /\ dcStep' = to BY <1>1 DEF LoopTop
  <2> QED BY <2>1 DEF DcLive, DcEnded, DcKnows, ImageShowsDesktop, FrameNotHeldWhileWaiting
<1>2. ASSUME NEW format \in {"sdr", "hdr"}, NEW fits \in BOOLEAN, NEW visible \in BOOLEAN,
             NEW pulled \in BOOLEAN, NEW created \in BOOLEAN,
             Snapshot("frame", format, fits, visible, pulled, created)
      PROVE  DcAll'
  <2>1. UNCHANGED dcWanted BY <1>2 DEF Snapshot
  <2>2. DcInv' BY <1>2, DcSnapshots
  <2> QED BY <2>1, <2>2
<1>3. ASSUME NEW visible \in BOOLEAN, NEW pulled \in BOOLEAN, NEW created \in BOOLEAN,
             Snapshot("pointer", "sdr", TRUE, visible, pulled, created)
      PROVE  DcAll'
  <2>1. UNCHANGED dcWanted BY <1>3 DEF Snapshot
  <2>2. DcInv' BY <1>3, DcSnapshots
  <2> QED BY <2>1, <2>2
<1>4. ASSUME NEW why \in {"timeout", "no_update", "lost", "failed"}, SnapshotFails(why) PROVE DcAll'
  <2>1. Same /\ UNCHANGED dcWanted /\ dcOut' = {} /\ dcStep \in {"paced", "fresh"}
        /\ dcStep' \in {"fresh", "push", "reinit", "error"}
    BY <1>4 DEF SnapshotFails
  <2> QED BY <2>1 DEF DcLive, DcEnded, DcKnows, ImageShowsDesktop, FrameNotHeldWhileWaiting
<1>5. ASSUME NEW goOn \in BOOLEAN, Push(goOn) PROVE DcAll'
  <2>1. Same /\ UNCHANGED <<dcOut, dcWanted>> /\ dcStep = "push" /\ dcStep' \in {"release", "done"} BY <1>5 DEF Push
  <2> QED BY <2>1 DEF DcLive, DcEnded, DcKnows, ImageShowsDesktop, FrameNotHeldWhileWaiting
<1>6. ASSUME NEW to \in {"top", "reinit", "error"}, Release(to) PROVE DcAll'
  <2>1. Same /\ UNCHANGED dcWanted /\ dcOut' = {} /\ dcHeld' = FALSE /\ dcStep = "release" /\ dcStep' = to
    BY <1>6 DEF Release
  <2> QED BY <2>1 DEF DcLive, DcEnded, DcKnows, ImageShowsDesktop, FrameNotHeldWhileWaiting
<1>7. CASE ToggleCursor \/ OldSurfaceDestroyed \/ UNCHANGED dcVars
  <2>1. Same /\ UNCHANGED <<dcOut, dcStep, dcHeld>> BY <1>7 DEF ToggleCursor, OldSurfaceDestroyed, dcVars
  <2>2. dcWanted' \in BOOLEAN BY <1>7 DEF ToggleCursor, OldSurfaceDestroyed, dcVars
  <2> QED BY <2>1, <2>2 DEF DcLive, DcKnows, ImageShowsDesktop, FrameNotHeldWhileWaiting
<1> QED BY <1>1, <1>2, <1>3, <1>4, <1>5, <1>6, <1>7 DEF DcNext

\* display_base.cpp, display_vram.cpp and display_ram.cpp, for any number of
\* frames: an image shows the newest desktop frame in its format, however
\* frames, pointer updates and the cursor shortcut alternate, and no frame is
\* held while the loop sleeps.
THEOREM DuplicationSound == DcSpec => [](ImageShowsDesktop /\ FrameNotHeldWhileWaiting)
<1>1. DcInit => DcAll
  <2>1. DcInit => dcWanted \in BOOLEAN BY DEF DcInit
  <2> QED BY <2>1, DcInvInit DEF DcAll
<1>2. DcAll => ImageShowsDesktop /\ FrameNotHeldWhileWaiting BY DEF DcAll, DcInv
<1>3. DcSpec => []DcAll BY <1>1, DcInvStep, PTL DEF DcSpec
<1> QED BY <1>2, <1>3, PTL

-----------------------------------------------------------------------------
(* Windows.Graphics.Capture (WgcCapture) *)

WgFrames == [buf : WgBuffers, n : Nat]
WgBufs(S) == {f.buf : f \in S}
WgQueued(arrived) == {arrived[k].buf : k \in 1 .. Len(arrived)}

\* Five sets share out the buffers.
WgShares(free, arrived, callback, produced, consumed) ==
  /\ free \cup arrived \cup callback \cup produced \cup consumed = WgBuffers
  /\ free \cap arrived = {} /\ free \cap callback = {} /\ free \cap produced = {} /\ free \cap consumed = {}
  /\ arrived \cap callback = {} /\ arrived \cap produced = {} /\ arrived \cap consumed = {}
  /\ callback \cap produced = {} /\ callback \cap consumed = {} /\ produced \cap consumed = {}

\* Each buffer has one place, no two frames that wait have the same one, and
\* the capture thread waits only when it has given its frame back.
WgInv ==
  /\ wgArrived \in Seq(WgFrames) /\ wgRendered \in Nat
  /\ WgShares(wgFree, WgQueued(wgArrived), WgBufs(wgCallback), WgBufs(wgProduced), WgBufs(wgConsumed))
  /\ \A j, k \in 1 .. Len(wgArrived) : wgArrived[j].buf = wgArrived[k].buf => j = k
  /\ wgReader \in {"next", "asleep", "woken"} => wgConsumed = {}

LEMMA WgNobody == WgBufs({}) = {} BY DEF WgBufs

LEMMA WgInvInit == WgInit => WgInv
<1> SUFFICES ASSUME WgInit PROVE WgInv
  OBVIOUS
<1>1. WgQueued(<< >>) = {} BY DEF WgQueued
<1>2. << >> \in Seq(WgFrames) /\ Len(<< >>) = 0 OBVIOUS
<1> QED BY <1>1, <1>2, WgNobody DEF WgInit, WgInv, WgShares

\* A rendered frame waits in a buffer that was free.
LEMMA WgRenders == ASSUME WgInv, WgRender PROVE WgInv'
<1>1. PICK b \in wgFree : wgFree' = wgFree \ {b} /\ wgArrived' = Append(wgArrived, [buf |-> b, n |-> wgRendered'])
  BY DEF WgRender
<1>2. UNCHANGED <<wgCallback, wgProduced, wgConsumed, wgReader>> /\ wgRendered' \in Nat BY DEF WgRender, WgInv
<1> DEFINE f == [buf |-> b, n |-> wgRendered']
<1>3. f \in WgFrames /\ f.buf = b BY <1>2 DEF WgInv, WgShares, WgFrames
<1>4. wgArrived' = Append(wgArrived, f) BY <1>1
<1> HIDE DEF f
<1>5. /\ wgArrived' \in Seq(WgFrames) /\ Len(wgArrived') = Len(wgArrived) + 1
      /\ \A k \in 1 .. Len(wgArrived) : wgArrived'[k] = wgArrived[k]
      /\ wgArrived'[Len(wgArrived) + 1] = f /\ Len(wgArrived) \in Nat
  BY <1>3, <1>4 DEF WgInv
<1>6. WgQueued(wgArrived') = WgQueued(wgArrived) \cup {b}
  BY <1>3, <1>5 DEF WgQueued
<1>7. b \notin WgQueued(wgArrived) BY <1>1 DEF WgInv, WgShares
<1>8. \A j, k \in 1 .. Len(wgArrived') : wgArrived'[j].buf = wgArrived'[k].buf => j = k
  <2> SUFFICES ASSUME NEW j \in 1 .. Len(wgArrived'), NEW k \in 1 .. Len(wgArrived'),
                      wgArrived'[j].buf = wgArrived'[k].buf
               PROVE  j = k
    OBVIOUS
  <2>1. \A i \in 1 .. Len(wgArrived) : wgArrived[i].buf # b BY <1>7 DEF WgQueued
  <2> QED BY <1>3, <1>5, <2>1 DEF WgInv
<1>9. WgShares(wgFree', WgQueued(wgArrived'), WgBufs(wgCallback'), WgBufs(wgProduced'), WgBufs(wgConsumed'))
  BY <1>1, <1>2, <1>6, <1>7 DEF WgInv, WgShares
<1> QED BY <1>2, <1>5, <1>8, <1>9 DEF WgInv

\* The callback takes the first of them.
LEMMA WgTakes == ASSUME WgInv, TryGetNextFrame PROVE WgInv'
<1>1. /\ wgArrived # << >> /\ wgCallback = {} /\ wgCallback' = {Head(wgArrived)} /\ wgArrived' = Tail(wgArrived)
      /\ UNCHANGED <<wgFree, wgProduced, wgConsumed, wgReader, wgRendered>>
  BY DEF TryGetNextFrame
<1>2. /\ wgArrived' \in Seq(WgFrames) /\ Len(wgArrived) \in Nat \ {0} /\ Len(wgArrived') = Len(wgArrived) - 1
      /\ \A k \in 1 .. Len(wgArrived') : wgArrived'[k] = wgArrived[k + 1]
      /\ Head(wgArrived) = wgArrived[1]
  BY <1>1 DEF WgInv
<1> DEFINE b == wgArrived[1].buf
<1>3. WgBufs(wgCallback') = {b} BY <1>1, <1>2 DEF WgBufs
<1>4. WgQueued(wgArrived) = WgQueued(wgArrived') \cup {b}
  <2>1. \A k \in 2 .. Len(wgArrived) : k - 1 \in 1 .. Len(wgArrived') /\ wgArrived'[k - 1] = wgArrived[k]
    BY <1>2
  <2>2. \A k \in 1 .. Len(wgArrived) : k = 1 \/ k \in 2 .. Len(wgArrived) BY <1>2
  <2>3. \A k \in 1 .. Len(wgArrived') : k + 1 \in 1 .. Len(wgArrived) BY <1>2
  <2>4. 1 \in 1 .. Len(wgArrived) BY <1>2
  <2>5. WgQueued(wgArrived) \subseteq WgQueued(wgArrived') \cup {b} BY <2>1, <2>2 DEF WgQueued
  <2>6. WgQueued(wgArrived') \cup {b} \subseteq WgQueued(wgArrived) BY <1>2, <2>3, <2>4 DEF WgQueued
  <2> QED BY <2>5, <2>6
<1>5. b \notin WgQueued(wgArrived')
  <2> SUFFICES ASSUME NEW k \in 1 .. Len(wgArrived'), wgArrived'[k].buf = b PROVE FALSE
    BY DEF WgQueued
  <2>1. k + 1 \in 1 .. Len(wgArrived) /\ k + 1 # 1 /\ wgArrived[k + 1].buf = b /\ 1 \in 1 .. Len(wgArrived)
    BY <1>2
  <2> QED BY <2>1 DEF WgInv
<1>6. \A j, k \in 1 .. Len(wgArrived') : wgArrived'[j].buf = wgArrived'[k].buf => j = k
  <2> SUFFICES ASSUME NEW j \in 1 .. Len(wgArrived'), NEW k \in 1 .. Len(wgArrived'),
                      wgArrived'[j].buf = wgArrived'[k].buf
               PROVE  j = k
    OBVIOUS
  <2>1. j + 1 \in 1 .. Len(wgArrived) /\ k + 1 \in 1 .. Len(wgArrived) /\ wgArrived[j + 1].buf = wgArrived[k + 1].buf
    BY <1>2
  <2>2. j + 1 = k + 1 BY <2>1 DEF WgInv
  <2> QED BY <2>2
<1> HIDE DEF b
<1>7. WgBufs(wgCallback) = {} BY <1>1, WgNobody
<1>8. WgShares(wgFree', WgQueued(wgArrived'), WgBufs(wgCallback'), WgBufs(wgProduced'), WgBufs(wgConsumed'))
  BY <1>1, <1>3, <1>4, <1>5, <1>7, ZenonT(60) DEF WgInv, WgShares
<1> QED BY <1>1, <1>2, <1>6, <1>8 DEF WgInv

\* Frames that change hands and frames that are closed.
LEMMA WgHands ==
  ASSUME WgInv, FrameProduced \/ NextFrame \/ WaitForFrame \/ ReleaseSnapshot
  PROVE  WgInv'
<1> USE DEF WgInv, WgShares
<1>0. UNCHANGED <<wgArrived, wgRendered>> BY DEF FrameProduced, NextFrame, WaitForFrame, ReleaseSnapshot
<1>1. CASE FrameProduced
  <2>1. wgFree' = wgFree \cup WgBufs(wgProduced) /\ wgProduced' = wgCallback /\ wgCallback' = {}
        /\ UNCHANGED <<wgConsumed, wgReader>>
    BY <1>1 DEF FrameProduced, Closed, WgBufs
  <2> QED BY <1>0, <2>1, WgNobody
<1>2. CASE NextFrame \/ ReleaseSnapshot
  <2>1. wgFree' = wgFree \cup WgBufs(wgConsumed) /\ wgConsumed' = {} /\ UNCHANGED <<wgCallback, wgProduced>>
    BY <1>2 DEF NextFrame, ReleaseSnapshot, Closed, WgBufs
  <2> QED BY <1>0, <2>1, WgNobody
<1>3. CASE WaitForFrame
  <2>1. wgConsumed = {} /\ UNCHANGED <<wgFree, wgCallback>> BY <1>3 DEF WaitForFrame
  <2>2. \/ wgConsumed' = wgProduced /\ wgProduced' = {} /\ wgReader' = "use"
        \/ UNCHANGED <<wgConsumed, wgProduced>>
    BY <1>3 DEF WaitForFrame, TakeFrame
  <2> QED BY <1>0, <2>1, <2>2, WgNobody
<1> QED BY <1>1, <1>2, <1>3

LEMMA WgInvStep == WgInv /\ [WgNext]_wgVars => WgInv'
<1> SUFFICES ASSUME WgInv, [WgNext]_wgVars PROVE WgInv'
  OBVIOUS
<1>1. CASE WgRender BY <1>1, WgRenders
<1>2. CASE TryGetNextFrame BY <1>2, WgTakes
<1>3. CASE FrameProduced \/ NextFrame \/ WaitForFrame \/ ReleaseSnapshot BY <1>3, WgHands
<1>4. CASE WakeReader BY <1>4 DEF WakeReader, Woken, WgInv
<1>5. ASSUME NEW how \in {"loop", "woken", "error"}, WaitEnds(how) PROVE WgInv'
  BY <1>5 DEF WaitEnds, WgInv
<1>6. ASSUME NEW how \in {"copied", "reinit", "error", "interrupted"}, CopyFrame(how) PROVE WgInv'
  BY <1>6 DEF CopyFrame, WgInv
<1>7. CASE UNCHANGED wgVars BY <1>7 DEF wgVars, WgInv
<1> QED BY <1>1, <1>2, <1>3, <1>4, <1>5, <1>6, <1>7 DEF WgNext

LEMMA WgInvHolds == WgInv => BuffersAccountedFor
<1> SUFFICES ASSUME WgInv PROVE BuffersAccountedFor
  OBVIOUS
<1> DEFINE a == {wgArrived[k] : k \in DOMAIN wgArrived}
           o1 == wgFree
           o2 == {f.buf : f \in a}
           o3 == {f.buf : f \in wgCallback}
           o4 == {f.buf : f \in wgProduced}
           o5 == {f.buf : f \in wgConsumed}
           owners == <<o1, o2, o3, o4, o5>>
<1>1. DOMAIN wgArrived = 1 .. Len(wgArrived) BY DEF WgInv
<1>2. o2 = WgQueued(wgArrived) BY <1>1 DEF WgQueued
<1>3. WgShares(o1, o2, o3, o4, o5) BY <1>2 DEF WgInv, WgBufs
<1> HIDE DEF o1, o2, o3, o4, o5
<1>4. owners[1] = o1 /\ owners[2] = o2 /\ owners[3] = o3 /\ owners[4] = o4 /\ owners[5] = o5 OBVIOUS
<1> HIDE DEF owners
<1>5. \A k \in 1 .. 5 : k = 1 \/ k = 2 \/ k = 3 \/ k = 4 \/ k = 5 OBVIOUS
<1>6. UNION {owners[k] : k \in 1 .. 5} = WgBuffers
  <2>1. UNION {owners[k] : k \in 1 .. 5} = o1 \cup o2 \cup o3 \cup o4 \cup o5 BY <1>4, <1>5
  <2> QED BY <1>3, <2>1 DEF WgShares
<1>7. \A j, k \in 1 .. 5 : j # k => owners[j] \cap owners[k] = {}
  <2> SUFFICES ASSUME NEW j \in 1 .. 5, NEW k \in 1 .. 5, j # k PROVE owners[j] \cap owners[k] = {}
    OBVIOUS
  <2>1. CASE j = 1 BY <1>3, <1>4, <1>5, <2>1 DEF WgShares
  <2>2. CASE j = 2 BY <1>3, <1>4, <1>5, <2>2 DEF WgShares
  <2>3. CASE j = 3 BY <1>3, <1>4, <1>5, <2>3 DEF WgShares
  <2>4. CASE j = 4 BY <1>3, <1>4, <1>5, <2>4 DEF WgShares
  <2>5. CASE j = 5 BY <1>3, <1>4, <1>5, <2>5 DEF WgShares
  <2> QED BY <1>5, <2>1, <2>2, <2>3, <2>4, <2>5
<1> QED BY <1>6, <1>7 DEF BuffersAccountedFor, owners, o1, o2, o3, o4, o5

\* display_wgc.cpp, for any number of buffers and frames: every buffer of the
\* frame pool has exactly one place, so that a frame being copied is not
\* filled again and none is lost.
THEOREM WgcBuffersKept == WgSpec => []BuffersAccountedFor
<1>1. WgSpec => []WgInv BY WgInvInit, WgInvStep, PTL DEF WgSpec
<1> QED BY <1>1, WgInvHolds, PTL

-----------------------------------------------------------------------------
(* Capture from the kernel's planes (KmsCapture) *)

KmPointers == ({0, 1} \cup KmFbs) \X {0, 1}
KmCursors == [fb : {0, 1} \cup KmFbs, part : {0, 1}, visible : BOOLEAN, pixels : KmPointers, serial : Nat]
KmPixels == [serial : Int, pixels : KmPointers]

KmTyped ==
  /\ kmPointer \in KmPointers /\ kmCursor \in KmCursors /\ kmImage \in [KmImages -> KmPixels] /\ kmLate \in Nat
  /\ kmPc = "closed" => kmOpened = {}

\* The names are those of the planes as they were listed, if any were.
KmListing == kmNames = << >> \/ kmNames = BeforeDenied(InUse(kmListed), kmListed)

\* A visible cursor is the one downloaded, and no image has a cursor that is
\* newer, or another of the same serial.
KmDrawn ==
  /\ kmCursor.visible => kmCursor.pixels = <<kmCursor.fb, kmCursor.part>>
  /\ \A i \in KmImages : /\ kmImage[i].serial <= kmCursor.serial
                         /\ kmImage[i].serial = kmCursor.serial => kmImage[i].pixels = kmCursor.pixels

\* Once the metadata was compared only a later change can make it differ.
KmCompared == kmLate <= 1 /\ (kmPc = "plane" /\ kmMode.hdr # kmInit.hdr => kmLate = 0)

KmInv == KmTyped /\ KmListing /\ KmDrawn /\ KmCompared /\ NamedDisplayOpened /\ CursorImageCurrent

LEMMA KmFresh ==
  ASSUME kmCursor' = NoCursor, kmImage' = [i \in KmImages |-> FreshImage]
  PROVE  kmCursor' \in KmCursors /\ kmImage' \in [KmImages -> KmPixels] /\ KmDrawn'
<1>1. <<0, 0>> \in KmPointers BY DEF KmPointers
<1>2. FreshImage \in KmPixels /\ FreshImage.serial = -1 BY <1>1 DEF FreshImage, KmPixels
<1>3. NoCursor \in KmCursors /\ NoCursor.serial = 0 /\ NoCursor.visible = FALSE BY <1>1 DEF NoCursor, KmCursors
<1> QED BY <1>2, <1>3 DEF KmDrawn

LEMMA KmInvInit == KmInit => KmInv
<1> SUFFICES ASSUME KmInit PROVE KmInv
  OBVIOUS
<1>1. <<0, 0>> \in KmPointers /\ <<1, 0>> \in KmPointers BY DEF KmPointers
<1>2. FreshImage \in KmPixels /\ FreshImage.serial = -1 BY <1>1 DEF FreshImage, KmPixels
<1>3. NoCursor \in KmCursors /\ NoCursor.serial = 0 /\ NoCursor.visible = FALSE BY <1>1 DEF NoCursor, KmCursors
<1>4. KmDrawn BY <1>2, <1>3 DEF KmInit, KmDrawn
<1>5. KmTyped BY <1>1, <1>2, <1>3 DEF KmInit, KmTyped
<1> QED BY <1>4, <1>5 DEF KmInit, KmInv, KmListing, KmCompared, NamedDisplayOpened, CursorImageCurrent

\* When the same planes are in use and all could be read, the plane opened
\* is the one that was listed.
LEMMA KmOpens == ASSUME KmInv, NEW n \in 1 .. Len(KmPlanes), OpenDisplay(n) PROVE KmInv'
<1>1. /\ n \in DOMAIN kmNames /\ kmPc' = "hdr" /\ kmWanted' = n
      /\ kmAgrees' = (kmListed = kmPlane /\ \A i \in DOMAIN InUse(kmPlane) : kmPlane[InUse(kmPlane)[i]] # "denied")
      /\ kmCursor' = NoCursor /\ kmImage' = [i \in KmImages |-> FreshImage] /\ kmShown' = {} /\ kmLate' = 0
      /\ UNCHANGED <<kmPlane, kmMode, kmPointer, kmNames, kmListed>>
  BY DEF OpenDisplay, kmWorld, kmList
<1>2. PICK p \in Monitor(n) : kmOpened' = {p} BY DEF OpenDisplay
<1>3. p = InUse(kmPlane)[n] BY DEF Monitor
<1>4. NamedDisplayOpened'
  <2> SUFFICES ASSUME kmAgrees' PROVE p = kmNames[n]
    BY <1>1, <1>2 DEF NamedDisplayOpened
  <2>1. kmListed = kmPlane /\ \A i \in DOMAIN InUse(kmPlane) : kmPlane[InUse(kmPlane)[i]] # "denied" BY <1>1
  <2>2. BeforeDenied(InUse(kmPlane), kmPlane) = InUse(kmPlane) BY <2>1 DEF BeforeDenied
  <2>3. kmNames # << >> BY <1>1
  <2> QED BY <1>3, <2>1, <2>2, <2>3 DEF KmInv, KmListing
<1>5. KmDrawn' /\ KmTyped' BY <1>1, KmFresh DEF KmInv, KmTyped
<1>6. KmListing' BY <1>1 DEF KmInv, KmListing
<1> QED BY <1>1, <1>4, <1>5, <1>6 DEF KmInv, KmCompared, CursorImageCurrent

\* What update_cursor leaves: the old cursor, perhaps hidden, or a new one
\* under a new serial; a visible one is what the plane shows.
LEMMA KmCursorRead ==
  ASSUME KmInv, NEW cursor \in Cursors
  PROVE  /\ cursor \in KmCursors
         /\ cursor.visible => cursor.pixels = kmPointer /\ cursor.pixels = <<cursor.fb, cursor.part>>
         /\ \/ cursor.serial = kmCursor.serial /\ cursor.pixels = kmCursor.pixels
            \/ cursor.serial = kmCursor.serial + 1
<1>1. /\ kmPointer \in KmPointers /\ kmPointer = <<kmPointer[1], kmPointer[2]>> /\ kmPointer[1] \in {0, 1} \cup KmFbs
      /\ kmPointer[2] \in {0, 1} /\ kmCursor \in KmCursors
  BY DEF KmInv, KmTyped, KmPointers
<1>2. CASE cursor = [kmCursor EXCEPT !.visible = FALSE, !.fb = 0]
  BY <1>1, <1>2 DEF KmCursors
<1>3. CASE cursor = kmCursor /\ ~Dirty
  <2>1. kmPointer[1] = kmCursor.fb /\ kmPointer[2] = kmCursor.part BY <1>3 DEF Dirty
  <2> QED BY <1>1, <1>3, <2>1 DEF KmInv, KmDrawn
<1>4. CASE cursor = [fb |-> kmPointer[1], part |-> kmPointer[2], visible |-> TRUE, pixels |-> kmPointer, serial |-> kmCursor.serial + 1]
  BY <1>1, <1>4 DEF KmCursors
<1>5. CASE cursor = [kmCursor EXCEPT !.visible = FALSE]
  BY <1>1, <1>5 DEF KmCursors
<1> QED BY <1>2, <1>3, <1>4, <1>5 DEF Cursors

\* A frame with its cursor.
LEMMA KmReads == ASSUME KmInv, ReadPlane PROVE KmInv'
<1>0. kmPc = "plane" /\ UNCHANGED <<kmPlane, kmMode, kmPointer, kmNames, kmListed>> BY DEF ReadPlane, kmWorld, kmList
<1>1. PICK p \in kmOpened :
       \/ kmPlane[p] = "none" /\ kmPc' = "hdr" /\ UNCHANGED <<kmOpen, kmDraw>>
       \/ kmPlane[p] = "denied" /\ Close /\ UNCHANGED kmDraw
       \/ kmPlane[p] = "ok" /\ kmMode.size # kmInit.size /\ Close /\ UNCHANGED kmDraw
       \/ /\ kmPlane[p] = "ok" /\ kmMode.size = kmInit.size /\ kmPc' = "hdr" /\ UNCHANGED kmOpen
          /\ kmFrames' = kmFrames + 1 /\ kmLate' = IF kmMode.hdr = kmInit.hdr THEN 0 ELSE kmLate + 1
          /\ kmMeant' = kmPointer
          /\ \E cursor \in Cursors, i \in KmImages :
               /\ kmCursor' = cursor
               /\ IF cursor.visible
                  THEN kmImage' = [kmImage EXCEPT ![i] = WithCursor(@, cursor)]
                       /\ kmShown' = {WithCursor(kmImage[i], cursor).pixels}
                  ELSE kmShown' = {} /\ UNCHANGED kmImage
  BY DEF ReadPlane
<1> USE DEF KmInv
<1>2. CASE /\ UNCHANGED kmDraw
           /\ (kmPc' = "hdr" /\ UNCHANGED kmOpen) \/ Close
  <2>1. UNCHANGED <<kmCursor, kmImage, kmShown, kmMeant, kmLate>> BY <1>2 DEF kmDraw
  <2>2. kmPc' \in {"hdr", "closed"} /\ UNCHANGED <<kmWanted, kmAgrees, kmInit>>
        /\ (kmOpened' = {} \/ (kmOpened' = kmOpened /\ kmPc' = "hdr"))
    BY <1>2 DEF Close, kmOpen
  <2> QED BY <1>0, <2>1, <2>2 DEF KmTyped, KmListing, KmDrawn, KmCompared, NamedDisplayOpened, CursorImageCurrent
<1>3. CASE /\ kmPc' = "hdr" /\ UNCHANGED kmOpen
           /\ kmLate' = IF kmMode.hdr = kmInit.hdr THEN 0 ELSE kmLate + 1
           /\ kmMeant' = kmPointer
           /\ \E cursor \in Cursors, i \in KmImages :
               /\ kmCursor' = cursor
               /\ IF cursor.visible
                  THEN kmImage' = [kmImage EXCEPT ![i] = WithCursor(@, cursor)]
                       /\ kmShown' = {WithCursor(kmImage[i], cursor).pixels}
                  ELSE kmShown' = {} /\ UNCHANGED kmImage
  <2>1. PICK cursor \in Cursors, i \in KmImages :
               /\ kmCursor' = cursor
               /\ IF cursor.visible
                  THEN kmImage' = [kmImage EXCEPT ![i] = WithCursor(@, cursor)]
                       /\ kmShown' = {WithCursor(kmImage[i], cursor).pixels}
                  ELSE kmShown' = {} /\ UNCHANGED kmImage
    BY <1>3
  <2>2. UNCHANGED <<kmOpened, kmWanted, kmAgrees, kmInit>> BY <1>3 DEF kmOpen
  <2>3. /\ cursor \in KmCursors
        /\ cursor.visible => cursor.pixels = kmPointer /\ cursor.pixels = <<cursor.fb, cursor.part>>
        /\ \/ cursor.serial = kmCursor.serial /\ cursor.pixels = kmCursor.pixels
           \/ cursor.serial = kmCursor.serial + 1
    BY KmCursorRead
  <2>4. kmCursor \in KmCursors /\ kmCursor.serial \in Nat /\ cursor.serial \in Nat /\ cursor.pixels \in KmPointers
    BY <2>3 DEF KmTyped, KmCursors
  <2>5. /\ \A j \in KmImages : kmImage[j] \in KmPixels /\ kmImage[j].serial \in Int /\ kmImage[j].serial <= kmCursor.serial
                               /\ (kmImage[j].serial = cursor.serial => kmImage[j].pixels = cursor.pixels)
    BY <2>3, <2>4 DEF KmTyped, KmPixels, KmDrawn
  <2> DEFINE w == WithCursor(kmImage[i], cursor)
  <2>6. w \in KmPixels /\ w.serial = cursor.serial /\ w.pixels = cursor.pixels
    BY <2>4, <2>5 DEF WithCursor, KmPixels
  <2> HIDE DEF w
  <2>7. CASE cursor.visible
    <3>1. kmImage' = [kmImage EXCEPT ![i] = w] /\ kmShown' = {w.pixels} BY <2>1, <2>7 DEF w
    <3>2. kmImage' \in [KmImages -> KmPixels] BY <2>6, <3>1 DEF KmTyped
    <3>3. \A j \in KmImages : kmImage'[j] = IF j = i THEN w ELSE kmImage[j] BY <3>1 DEF KmTyped
    <3>4. KmDrawn' BY <2>1, <2>3, <2>4, <2>5, <2>6, <3>3 DEF KmDrawn
    <3>5. CursorImageCurrent' BY <1>3, <2>3, <2>6, <2>7, <3>1 DEF CursorImageCurrent
    <3>6. KmTyped' BY <1>0, <1>3, <2>1, <2>2, <2>3, <3>2 DEF KmTyped
    <3>7. KmCompared' BY <1>0, <1>3, <2>2 DEF KmCompared, KmTyped
    <3> QED BY <1>0, <2>2, <3>4, <3>5, <3>6, <3>7 DEF KmListing, NamedDisplayOpened
  <2>8. CASE ~cursor.visible
    <3>1. kmShown' = {} /\ UNCHANGED kmImage BY <2>1, <2>8
    <3>2. KmDrawn' BY <2>1, <2>3, <2>4, <2>5, <2>8, <3>1 DEF KmDrawn
    <3>3. CursorImageCurrent' BY <3>1 DEF CursorImageCurrent
    <3>4. KmTyped' BY <1>0, <1>3, <2>1, <2>2, <2>3, <3>1 DEF KmTyped
    <3>5. KmCompared' BY <1>0, <1>3, <2>2 DEF KmCompared, KmTyped
    <3> QED BY <1>0, <2>2, <3>2, <3>3, <3>4, <3>5 DEF KmListing, NamedDisplayOpened
  <2> QED BY <2>7, <2>8
<1> QED BY <1>1, <1>2, <1>3

LEMMA KmInvStep == KmInv /\ [KmNext]_kmVars => KmInv'
<1> SUFFICES ASSUME KmInv, [KmNext]_kmVars PROVE KmInv'
  OBVIOUS
<1> USE DEF KmInv
<1>1. CASE ListNames
  <2>1. /\ kmPc = "closed" /\ kmNames' = BeforeDenied(InUse(kmPlane), kmPlane) /\ kmListed' = kmPlane
        /\ UNCHANGED <<kmMode, kmPointer, kmOpened, kmWanted, kmAgrees, kmInit, kmPc, kmCursor, kmImage, kmShown, kmMeant, kmLate>>
    BY <1>1 DEF ListNames, kmWorld, kmOpen, kmDraw
  <2>2. KmListing' BY <2>1 DEF KmListing
  <2>3. NamedDisplayOpened' BY <2>1 DEF NamedDisplayOpened, KmTyped
  <2> QED BY <2>1, <2>2, <2>3 DEF KmTyped, KmDrawn, KmCompared, CursorImageCurrent
<1>2. ASSUME NEW n \in 1 .. Len(KmPlanes), OpenDisplay(n) PROVE KmInv' BY <1>2, KmOpens
<1>3. CASE CompareHdr \/ StopCapture
  <2>1. UNCHANGED <<kmMode, kmPointer, kmNames, kmListed, kmCursor, kmImage, kmShown, kmMeant, kmLate, kmWanted, kmAgrees, kmInit>>
    BY <1>3 DEF CompareHdr, StopCapture, Close, kmWorld, kmList, kmDraw, kmOpen
  <2>2. \/ kmPc = "hdr" /\ kmPc' = "plane" /\ kmMode.hdr = kmInit.hdr /\ kmOpened' = kmOpened
        \/ kmPc' = "closed" /\ kmOpened' = {}
    BY <1>3 DEF CompareHdr, StopCapture, Close, kmOpen
  <2> QED BY <2>1, <2>2 DEF KmTyped, KmListing, KmDrawn, KmCompared, NamedDisplayOpened, CursorImageCurrent
<1>4. CASE ReadPlane BY <1>4, KmReads
<1>5. ASSUME NEW i \in DOMAIN KmPlanes, NEW s \in {"none", "ok", "denied"}, ChangePlane(i, s) PROVE KmInv'
  <2>1. UNCHANGED <<kmMode, kmPointer, kmNames, kmListed, kmOpened, kmWanted, kmAgrees, kmInit, kmPc, kmCursor, kmImage, kmShown,
                    kmMeant, kmLate>>
    BY <1>5 DEF ChangePlane, kmList, kmOpen, kmDraw
  <2> QED BY <2>1 DEF KmTyped, KmListing, KmDrawn, KmCompared, NamedDisplayOpened, CursorImageCurrent
<1>6. CASE ChangeMode
  <2>1. kmLate' = 0 /\ UNCHANGED <<kmPointer, kmNames, kmListed, kmOpened, kmWanted, kmAgrees, kmInit, kmPc, kmCursor, kmImage, kmShown, kmMeant>>
    BY <1>6 DEF ChangeMode, kmList, kmOpen
  <2> QED BY <2>1 DEF KmTyped, KmListing, KmDrawn, KmCompared, NamedDisplayOpened, CursorImageCurrent
<1>7. ASSUME NEW c \in ({0} \cup KmFbs) \X {0, 1}, ChangeCursor(c) PROVE KmInv'
  <2>1. kmPointer' = c /\ UNCHANGED <<kmMode, kmNames, kmListed, kmOpened, kmWanted, kmAgrees, kmInit, kmPc, kmCursor, kmImage, kmShown,
                    kmMeant, kmLate>>
    BY <1>7 DEF ChangeCursor, kmList, kmOpen, kmDraw
  <2>2. kmPointer' \in KmPointers BY <2>1 DEF KmPointers
  <2> QED BY <2>1, <2>2 DEF KmTyped, KmListing, KmDrawn, KmCompared, NamedDisplayOpened, CursorImageCurrent
<1>8. CASE UNCHANGED kmVars
  BY <1>8 DEF kmVars, KmTyped, KmListing, KmDrawn, KmCompared, NamedDisplayOpened, CursorImageCurrent
<1> QED BY <1>1, <1>2, <1>3, <1>4, <1>5, <1>6, <1>7, <1>8 DEF KmNext

\* kmsgrab.cpp, for any planes and however the compositor changes them: the
\* display opened is the one listed when the planes stayed the same, the
\* cursor drawn is the one the plane shows although images are reused, and a
\* lasting change of HDR metadata is noticed before a second frame.
THEOREM KmsSound == KmSpec => [](NamedDisplayOpened /\ CursorImageCurrent /\ HdrChangeNoticed)
<1>1. KmInv => NamedDisplayOpened /\ CursorImageCurrent /\ HdrChangeNoticed
  BY DEF KmInv, KmCompared, HdrChangeNoticed
<1>2. KmSpec => []KmInv BY KmInvInit, KmInvStep, PTL DEF KmSpec
<1> QED BY <1>1, <1>2, PTL

-----------------------------------------------------------------------------
(* The image pool and its textures (SharedImages) *)

LEMMA IgLeast ==
  ASSUME NEW T, T \subseteq Nat, T # {}
  PROVE  \E n \in T : \A m \in T : n <= m
<1> DEFINE R == OpToRel(<, Nat)
<1>1. IsWellFoundedOn(R, Nat) BY NatLessThanWellFounded
<1>2. \A a, b \in Nat : a < b => <<a, b>> \in R BY DEF OpToRel
<1> HIDE DEF R
<1>3. PICK n \in T : \A m \in T : ~(<<m, n>> \in R) BY <1>1, WFMin
<1>4. ASSUME NEW m \in T PROVE n <= m
  <2>1. n \in Nat /\ m \in Nat /\ ~(<<m, n>> \in R) BY <1>3
  <2> QED BY <2>1, <1>2
<1> QED BY <1>4

LEMMA IgGreatest ==
  ASSUME NEW n \in Nat, NEW S, S \subseteq 0 .. n, S # {}
  PROVE  Max(S) \in S /\ \A y \in S : Max(S) >= y
<1> DEFINE T == {n - x : x \in S}
<1>1. T \subseteq Nat /\ T # {}
  <2>1. \A x \in S : n - x \in Nat OBVIOUS
  <2>2. T \subseteq Nat BY <2>1
  <2>3. PICK x : x \in S OBVIOUS
  <2>4. n - x \in T BY <2>3
  <2> QED BY <2>2, <2>4
<1>2. PICK t \in T : \A u \in T : t <= u
  <2> HIDE DEF T
  <2> QED BY <1>1, IgLeast
<1>3. PICK x \in S : t = n - x BY <1>2
<1>4. \A y \in S : x >= y
  <2> SUFFICES ASSUME NEW y \in S PROVE x >= y OBVIOUS
  <2>1. n - y \in T OBVIOUS
  <2>2. n - x <= n - y BY <1>2, <1>3, <2>1
  <2>3. x \in 0 .. n /\ y \in 0 .. n OBVIOUS
  <2> QED BY <2>2, <2>3
<1> QED BY <1>4 DEF Max

IgTextured == [n : Nat, addr : Nat, dummy : BOOLEAN]
IgOpened == [n : Nat, addr : Nat]

IgTyped ==
  /\ igImages \in 0 .. IgMaxImages /\ igTextures \in Nat
  /\ igPool \in [1 .. IgSlots -> 0 .. igImages]
  /\ igStamps \in Seq(Nat) /\ igPeaks \in [0 .. IgSlots -> Nat]
  /\ igTex \in [IgIds -> IgTextured] /\ igWas \in [IgIds -> Nat] /\ igCtx \in [IgEncoders -> [IgIds -> IgOpened]]
  /\ igLast \in 0 .. igImages /\ igEvent \in [IgEncoders -> 0 .. igImages] /\ igConv \in [IgEncoders -> 0 .. igImages]

\* The timestamps remember what was in use as long as the timeout asks.
IgStamped ==
  \A c \in 0 .. IgSlots : igPeaks[c] < IgTimeout => c < Len(igStamps) /\ igStamps[c + 1] <= igPeaks[c]

\* What an encoder has open of an image is its texture, or the dummy it was.
IgOpenOf(c, i) ==
  \/ c.n = 0
  \/ c.n = igTex[i].n /\ c.addr = igTex[i].addr
  \/ igTex[i].n # 0 /\ ~igTex[i].dummy /\ (c.addr = igTex[i].addr => c.n = igWas[i])

\* And what is on its way to an encoder has a texture.
IgAddressed ==
  /\ \A e \in IgEncoders, i \in IgIds : IgOpenOf(igCtx[e][i], i)
  /\ igLast # 0 => igTex[igLast].n # 0
  /\ \A e \in IgEncoders : /\ igEvent[e] # 0 => igTex[igEvent[e]].n # 0
                           /\ igConv[e] # 0 => igTex[igConv[e]].n # 0

IgPoolInv == IgTyped /\ IgStamped /\ PoolKeepsPeak

LEMMA IgPoolInit == IgInit => IgPoolInv /\ IgAddressed
<1> SUFFICES ASSUME IgInit PROVE IgPoolInv /\ IgAddressed
  OBVIOUS
<1> USE IgAssumption DEF IgInit
<1>1. IgTyped
  <2>1. NoTexture \in IgTextured /\ [n |-> 0, addr |-> 0] \in IgOpened BY DEF NoTexture, IgTextured, IgOpened
  <2>2. << >> \in Seq(Nat) OBVIOUS
  <2> QED BY <2>1, <2>2 DEF IgTyped
<1>2. IgStamped /\ PoolKeepsPeak BY DEF IgStamped, PoolKeepsPeak
<1>3. IgAddressed BY DEF IgAddressed, IgOpenOf, NoTexture
<1> QED BY <1>1, <1>2, <1>3 DEF IgPoolInv

\* The pool's images are numbers in an interval.
LEMMA IgFinite ==
  ASSUME NEW m \in 0 .. IgMaxImages, NEW pool \in [1 .. IgSlots -> 0 .. m]
  PROVE  /\ IsFiniteSet(Allocated(pool)) /\ Cardinality(Allocated(pool)) \in Nat
         /\ \A A \in SUBSET Allocated(pool) : IsFiniteSet(A) /\ Cardinality(A) \in Nat /\ Cardinality(A) <= Cardinality(Allocated(pool))
<1>1. Allocated(pool) \subseteq 0 .. m BY DEF Allocated
<1>0. 0 \in Int /\ m \in Int /\ m \in Nat BY IgAssumption
<1>2. IsFiniteSet(0 .. m) BY <1>0, FS_Interval
<1>3. IsFiniteSet(Allocated(pool)) BY <1>1, <1>2, FS_Subset
<1> QED BY <1>3, FS_Subset, FS_CardinalityType

\* Trimming by n frees n images at most.
LEMMA IgTrims ==
  ASSUME NEW m \in 0 .. IgMaxImages, NEW pool \in [1 .. IgSlots -> 0 .. m], NEW out, NEW n \in Nat
  PROVE  /\ Trimmed(pool, out, n) \in [1 .. IgSlots -> 0 .. m]
         /\ Cardinality(Allocated(Trimmed(pool, out, n))) >= Cardinality(Allocated(pool)) - n
<1> DEFINE spare == {k \in DOMAIN pool : pool[k] # 0 /\ pool[k] # out /\ ~Used(pool[k])}
           last == {k \in spare : Cardinality({j \in spare : j >= k}) <= n}
           t == [k \in DOMAIN pool |-> IF k \in last THEN 0 ELSE pool[k]]
           freed == {pool[k] : k \in last}
<1>1. Trimmed(pool, out, n) = t BY DEF Trimmed
<1>2. spare \subseteq 1 .. IgSlots /\ last \subseteq spare OBVIOUS
<1>3. t \in [1 .. IgSlots -> 0 .. m] OBVIOUS
<1>0. 1 \in Int /\ IgSlots \in Int /\ IgSlots \in Nat BY IgAssumption
<1>4. IsFiniteSet(1 .. IgSlots) /\ IgSlots \in Nat BY <1>0, FS_Interval
<1>5. Allocated(pool) \ freed \subseteq Allocated(t) BY DEF Allocated
<1>6. IsFiniteSet(last) /\ Cardinality(last) \in Nat /\ Cardinality(last) <= n
  <2>1. IsFiniteSet(spare) /\ IsFiniteSet(last) BY <1>2, <1>4, FS_Subset
  <2>2. CASE last = {}
    <3>1. Cardinality(last) = 0
      <4> HIDE DEF last
      <4> QED BY <2>2, FS_EmptySet
    <3> HIDE DEF last
    <3> QED BY <2>1, <3>1
  <2>3. CASE last # {}
    <3>1. last \subseteq Nat BY <1>2, <1>4
    <3>2. PICK k \in last : \A j \in last : k <= j
      <4> HIDE DEF last
      <4> QED BY <2>3, <3>1, IgLeast
    <3> DEFINE above == {j \in spare : j >= k}
    <3>3. Cardinality(above) <= n BY <3>2
    <3>4. last \subseteq above BY <1>2, <3>1, <3>2
    <3>5. above \subseteq spare OBVIOUS
    <3> HIDE DEF above, last, spare
    <3>6. IsFiniteSet(above) /\ Cardinality(last) <= Cardinality(above) BY <2>1, <3>4, <3>5, FS_Subset
    <3>7. Cardinality(above) \in Nat /\ Cardinality(last) \in Nat BY <2>1, <3>6, FS_CardinalityType
    <3> QED BY <2>1, <3>3, <3>6, <3>7
  <2> QED BY <2>2, <2>3
<1>7. IsFiniteSet(freed) /\ Cardinality(freed) \in Nat /\ Cardinality(freed) <= n
  <2> DEFINE f == [k \in last |-> pool[k]]
  <2>1. f \in Surjection(last, freed) BY DEF Surjection
  <2> HIDE DEF f, last, freed
  <2>2. IsFiniteSet(freed) /\ Cardinality(freed) <= Cardinality(last) BY <1>6, <2>1, FS_Surjection
  <2> QED BY <1>6, <2>2, FS_CardinalityType
<1> HIDE DEF freed, t, last, spare
<1>8. /\ IsFiniteSet(Allocated(pool)) /\ Cardinality(Allocated(pool)) \in Nat
      /\ IsFiniteSet(Allocated(t)) /\ Cardinality(Allocated(t)) \in Nat
  BY <1>3, IgFinite
<1>9. IsFiniteSet(Allocated(pool) \ freed)
      /\ Cardinality(Allocated(pool) \ freed) = Cardinality(Allocated(pool)) - Cardinality(Allocated(pool) \cap freed)
  BY <1>8, FS_Difference
<1>10. Cardinality(Allocated(pool) \cap freed) \in Nat /\ Cardinality(Allocated(pool) \cap freed) <= Cardinality(freed)
  <2>1. Allocated(pool) \cap freed \in SUBSET freed OBVIOUS
  <2>2. IsFiniteSet(Allocated(pool) \cap freed) BY <1>7, <2>1, FS_Subset
  <2> QED BY <1>7, <2>1, <2>2, FS_Subset, FS_CardinalityType
<1>11. Cardinality(Allocated(pool) \ freed) <= Cardinality(Allocated(t)) /\ Cardinality(Allocated(pool) \ freed) \in Nat
  BY <1>5, <1>8, <1>9, FS_Subset, FS_CardinalityType
<1>12. Cardinality(Allocated(t)) >= Cardinality(Allocated(pool)) - n BY <1>7, <1>8, <1>9, <1>10, <1>11
<1> QED BY <1>1, <1>3, <1>12

\* A resized list of timestamps keeps those that fit.
LEMMA IgResized ==
  ASSUME NEW stamps \in Seq(Nat), NEW n \in Nat
  PROVE  /\ Resized(stamps, n) \in Seq(Nat) /\ Len(Resized(stamps, n)) = n
         /\ \A k \in 1 .. n : k <= Len(stamps) => Resized(stamps, n)[k] = stamps[k]
  BY IgAssumption DEF Resized

\* trim_imgs: what was in use within the timeout stays allocated.
LEMMA IgTrimKeeps ==
  ASSUME IgPoolInv, NEW m \in 0 .. IgMaxImages, NEW pool \in [1 .. IgSlots -> 0 .. m], NEW out,
         Allocated(igPool) \subseteq Allocated(pool), TrimImgs(pool, out)
  PROVE  /\ igPool' \in [1 .. IgSlots -> 0 .. m] /\ igStamps' \in Seq(Nat) /\ igPeaks' \in [0 .. IgSlots -> Nat]
         /\ IgStamped' /\ PoolKeepsPeak'
<1> DEFINE used == Cardinality({i \in Allocated(pool) : i = out \/ Used(i)})
           long == IF Len(igStamps) <= used THEN used + 1 ELSE Len(igStamps)
           resized == Resized(igStamps, long)
           stamps == [resized EXCEPT ![used + 1] = 0]
           candidates == {used} \cup {c \in Recent(stamps) : c >= used}
           target == Max(candidates)
           count == Cardinality(Allocated(pool))
<1>1. /\ igPeaks' = [igPeaks EXCEPT ![used] = 0]
      /\ igPool' = IF count > target THEN Trimmed(pool, out, count - target) ELSE pool
      /\ igStamps' = IF count > target THEN Resized(stamps, target + 1) ELSE stamps
  BY DEF TrimImgs
<1>2. count \in Nat /\ used \in Nat /\ used <= count
  <2>1. {i \in Allocated(pool) : i = out \/ Used(i)} \in SUBSET Allocated(pool) OBVIOUS
  <2> QED BY <2>1, IgFinite
<1> HIDE DEF used, count
<1>3. igStamps \in Seq(Nat) /\ Len(igStamps) \in Nat /\ igPeaks \in [0 .. IgSlots -> Nat] BY DEF IgPoolInv, IgTyped
<1>4. long \in Nat /\ long > used /\ long >= Len(igStamps) BY <1>2, <1>3
<1>5. resized \in Seq(Nat) /\ Len(resized) = long /\ \A k \in 1 .. long : k <= Len(igStamps) => resized[k] = igStamps[k]
  BY <1>3, <1>4, IgResized
<1> HIDE DEF resized, long
<1>6. /\ stamps \in Seq(Nat) /\ Len(stamps) = long /\ stamps[used + 1] = 0
      /\ \A k \in 1 .. long : k # used + 1 => stamps[k] = resized[k]
  BY <1>2, <1>4, <1>5
<1> HIDE DEF stamps
<1>7. candidates \subseteq 0 .. long /\ candidates # {} /\ used \in candidates BY <1>2, <1>4, <1>6 DEF Recent
<1> HIDE DEF candidates
<1>8. target \in candidates /\ \A c \in candidates : target >= c BY <1>4, <1>7, IgGreatest
<1> HIDE DEF target
<1>9. target \in Nat /\ target >= used /\ target <= long BY <1>2, <1>4, <1>7, <1>8
<1>10. target + 1 <= long
  <2>1. CASE target = used BY <1>2, <1>4, <2>1
  <2>2. CASE target # used
    <3>1. target \in Recent(stamps) BY <1>8, <2>2 DEF candidates
    <3> QED BY <1>4, <1>6, <1>9, <3>1 DEF Recent
  <2> QED BY <2>1, <2>2
<1>11. igPeaks' \in [0 .. IgSlots -> Nat] BY <1>1, <1>3
<1>12. igStamps' \in Seq(Nat) BY <1>1, <1>6, <1>9, IgResized
<1>13. igPool' \in [1 .. IgSlots -> 0 .. m] BY <1>1, <1>2, <1>9, IgTrims
\* The counts in use within the timeout, as the timestamps now have them.
<1>14. \A c \in 0 .. IgSlots : igPeaks'[c] < IgTimeout => c < long /\ stamps[c + 1] <= igPeaks'[c]
  <2> SUFFICES ASSUME NEW c \in 0 .. IgSlots, igPeaks'[c] < IgTimeout PROVE c < long /\ stamps[c + 1] <= igPeaks'[c]
    OBVIOUS
  <2>0. c \in Nat BY IgAssumption
  <2>1. CASE c = used
    <3>1. igPeaks'[c] = 0 BY <1>1, <1>3, <2>1
    <3> QED BY <1>2, <1>4, <1>6, <2>1, <3>1
  <2>2. CASE c # used
    <3>1. igPeaks'[c] = igPeaks[c] BY <1>1, <1>3, <2>2
    <3>2. c < Len(igStamps) /\ igStamps[c + 1] <= igPeaks[c] BY <3>1 DEF IgPoolInv, IgStamped
    <3>3. c + 1 \in 1 .. long /\ c + 1 <= Len(igStamps) /\ c + 1 # used + 1 BY <1>2, <1>3, <1>4, <2>0, <2>2, <3>2
    <3>4. stamps[c + 1] = igStamps[c + 1] BY <1>5, <1>6, <3>3
    <3> QED BY <1>3, <1>4, <3>1, <3>2, <3>4, <2>0
  <2> QED BY <2>1, <2>2
<1>15. \A c \in 0 .. IgSlots : igPeaks'[c] < IgTimeout => c <= target
  <2> SUFFICES ASSUME NEW c \in 0 .. IgSlots, igPeaks'[c] < IgTimeout PROVE c <= target
    OBVIOUS
  <2>1. c \in Nat /\ c < long /\ stamps[c + 1] <= igPeaks'[c] /\ igPeaks'[c] \in Nat /\ IgTimeout \in Nat
    BY <1>11, <1>14, IgAssumption
  <2>2. c + 1 \in 1 .. long /\ stamps[c + 1] \in Nat BY <1>4, <1>6, <2>1
  <2>3. c \in Recent(stamps) BY <1>4, <1>6, <2>1, <2>2 DEF Recent
  <2>4. CASE c >= used
    <3>1. c \in candidates BY <2>3, <2>4 DEF candidates
    <3> QED BY <1>8, <1>9, <2>1, <3>1
  <2>5. CASE ~(c >= used) BY <1>2, <1>9, <2>1, <2>5
  <2> QED BY <2>4, <2>5
<1>16. IgStamped'
  <2>1. CASE count > target
    <3>1. igStamps' = Resized(stamps, target + 1) BY <1>1, <2>1
    <3>2. Len(igStamps') = target + 1 /\ \A k \in 1 .. target + 1 : k <= long => igStamps'[k] = stamps[k]
      <4>1. target + 1 \in Nat BY <1>9
      <4> QED BY <1>6, <4>1, <3>1, IgResized
    <3> SUFFICES ASSUME NEW c \in 0 .. IgSlots, igPeaks'[c] < IgTimeout
                 PROVE  c < Len(igStamps') /\ igStamps'[c + 1] <= igPeaks'[c]
      BY DEF IgStamped
    <3>3. c \in Nat /\ c <= target /\ c < long /\ stamps[c + 1] <= igPeaks'[c] BY <1>14, <1>15, IgAssumption
    <3>4. c + 1 \in 1 .. target + 1 /\ c + 1 <= long BY <1>4, <1>9, <3>3
    <3> QED BY <1>9, <3>2, <3>3, <3>4
  <2>2. CASE ~(count > target)
    <3>1. igStamps' = stamps BY <1>1, <2>2
    <3> QED BY <1>6, <1>14, <3>1 DEF IgStamped
  <2> QED BY <2>1, <2>2
<1>17. PoolKeepsPeak'
  <2> SUFFICES ASSUME NEW c \in 0 .. IgSlots, igPeaks'[c] < IgTimeout
               PROVE  Cardinality(Allocated(igPool')) >= c
    BY <1>11 DEF PoolKeepsPeak
  <2>0. c \in Nat /\ c <= target BY <1>15, IgAssumption
  <2>1. CASE count > target
    <3>1. count - target \in Nat BY <1>2, <1>9, <2>1
    <3>2. Cardinality(Allocated(igPool')) >= count - (count - target) BY <1>1, <2>1, <3>1, IgTrims DEF count
    <3>3. Cardinality(Allocated(igPool')) \in Nat BY <1>13, IgFinite
    <3> QED BY <1>2, <1>9, <2>0, <3>2, <3>3
  <2>2. CASE ~(count > target)
    <3>1. igPool' = pool BY <1>1, <2>2
    <3>2. CASE c = used BY <1>2, <3>1, <3>2 DEF count
    <3>3. CASE c # used
      <4>1. igPeaks'[c] = igPeaks[c] BY <1>1, <1>3, <3>3
      <4>2. Cardinality(Allocated(igPool)) >= c BY <1>3, <4>1 DEF IgPoolInv, PoolKeepsPeak
      <4>3. Cardinality(Allocated(igPool)) \in Nat /\ Cardinality(Allocated(igPool)) <= count BY IgFinite DEF count
      <4> QED BY <1>2, <2>0, <3>1, <4>2, <4>3 DEF count
    <3> QED BY <3>2, <3>3
  <2> QED BY <2>1, <2>2
<1> QED BY <1>11, <1>12, <1>13, <1>16, <1>17

\* The image moved to the front is in the list, and nothing is lost from it
\* but what was at its place before.
LEMMA IgFront ==
  ASSUME NEW m \in Nat, NEW pool \in [1 .. IgSlots -> 0 .. m], NEW k \in 1 .. IgSlots, NEW i \in 1 .. m,
         pool[k] \in {0, i}
  PROVE  ToFront(pool, k, i) \in [1 .. IgSlots -> 0 .. m] /\ Allocated(pool) \subseteq Allocated(ToFront(pool, k, i))
<1> DEFINE t == ToFront(pool, k, i)
<1>0. IgSlots \in Nat /\ k \in Nat BY IgAssumption
<1>1. t = [j \in 1 .. IgSlots |-> IF j = 1 THEN i ELSE IF j <= k THEN pool[j - 1] ELSE pool[j]] BY DEF ToFront
<1>2. \A j \in 1 .. IgSlots : j # 1 => j - 1 \in 1 .. IgSlots BY <1>0
<1> HIDE DEF t
<1>3. t \in [1 .. IgSlots -> 0 .. m]
  <2>1. \A j \in 1 .. IgSlots : t[j] \in 0 .. m BY <1>1, <1>2
  <2> QED BY <1>1, <2>1
<1>4. Allocated(pool) \subseteq Allocated(t)
  <2> SUFFICES ASSUME NEW j \in 1 .. IgSlots, pool[j] # 0 PROVE pool[j] \in Allocated(t)
    BY DEF Allocated
  <2>1. 1 \in 1 .. IgSlots /\ t[1] = i BY <1>0, <1>1
  <2>2. CASE j = k BY <1>3, <2>1, <2>2 DEF Allocated
  <2>3. CASE j < k
    <3>1. j + 1 \in 1 .. IgSlots /\ t[j + 1] = pool[j] BY <1>0, <1>1, <2>3
    <3> QED BY <1>3, <3>1 DEF Allocated
  <2>4. CASE j > k
    <3>1. t[j] = pool[j] BY <1>0, <1>1, <2>4
    <3> QED BY <1>3, <3>1 DEF Allocated
  <2> QED BY <1>0, <2>2, <2>3, <2>4
<1> QED BY <1>3, <1>4 DEF t

\* The image pulled is one nobody uses, and is in the pool afterwards.
LEMMA IgPulls ==
  ASSUME IgPoolInv, NEW i \in IgIds, Pulled(i)
  PROVE  /\ igImages' \in 0 .. IgMaxImages /\ igImages' >= igImages /\ i \in 1 .. igImages' /\ ~Used(i)
         /\ igPool' \in [1 .. IgSlots -> 0 .. igImages'] /\ igStamps' \in Seq(Nat) /\ igPeaks' \in [0 .. IgSlots -> Nat]
         /\ IgStamped' /\ PoolKeepsPeak'
<1>0. igImages \in 0 .. IgMaxImages /\ igPool \in [1 .. IgSlots -> 0 .. igImages] /\ IgMaxImages \in Nat
  BY IgAssumption DEF IgPoolInv, IgTyped
<1>1. ASSUME NEW k \in FreeSlots, i = igPool[k], TrimImgs(ToFront(igPool, k, i), i), UNCHANGED igImages
      PROVE  /\ igImages' \in 0 .. IgMaxImages /\ igImages' >= igImages /\ i \in 1 .. igImages' /\ ~Used(i)
             /\ igPool' \in [1 .. IgSlots -> 0 .. igImages'] /\ igStamps' \in Seq(Nat) /\ igPeaks' \in [0 .. IgSlots -> Nat]
             /\ IgStamped' /\ PoolKeepsPeak'
  <2>1. k \in 1 .. IgSlots /\ igPool[k] # 0 /\ ~Used(i) BY <1>0, <1>1 DEF FreeSlots
  <2>2. i \in 1 .. igImages BY <1>0, <1>1, <2>1
  <2>3. /\ ToFront(igPool, k, i) \in [1 .. IgSlots -> 0 .. igImages]
        /\ Allocated(igPool) \subseteq Allocated(ToFront(igPool, k, i))
    <3>1. igImages \in Nat /\ igPool[k] \in {0, i} BY <1>0, <1>1
    <3> QED BY <1>0, <2>1, <2>2, <3>1, IgFront
  <2>4. /\ igPool' \in [1 .. IgSlots -> 0 .. igImages] /\ igStamps' \in Seq(Nat) /\ igPeaks' \in [0 .. IgSlots -> Nat]
        /\ IgStamped' /\ PoolKeepsPeak'
    BY <1>0, <1>1, <2>3, IgTrimKeeps
  <2> QED BY <1>0, <1>1, <2>1, <2>2, <2>4
<1>2. ASSUME NEW k \in DOMAIN igPool, igPool[k] = 0, i = igImages + 1, igImages' = i, TrimImgs(ToFront(igPool, k, i), i)
      PROVE  /\ igImages' \in 0 .. IgMaxImages /\ igImages' >= igImages /\ i \in 1 .. igImages' /\ ~Used(i)
             /\ igPool' \in [1 .. IgSlots -> 0 .. igImages'] /\ igStamps' \in Seq(Nat) /\ igPeaks' \in [0 .. IgSlots -> Nat]
             /\ IgStamped' /\ PoolKeepsPeak'
  <2>1. k \in 1 .. IgSlots /\ i \in 1 .. i /\ i \in 0 .. IgMaxImages /\ i \in Nat /\ i > igImages
    BY <1>0, <1>2 DEF IgIds
  <2>2. igPool \in [1 .. IgSlots -> 0 .. i]
    <3>1. \A j \in 1 .. IgSlots : igPool[j] \in 0 .. i BY <1>0, <2>1
    <3> QED BY <1>0, <3>1
  <2>3. /\ ToFront(igPool, k, i) \in [1 .. IgSlots -> 0 .. i]
        /\ Allocated(igPool) \subseteq Allocated(ToFront(igPool, k, i))
    BY <1>2, <2>1, <2>2, IgFront
  <2>4. /\ igPool' \in [1 .. IgSlots -> 0 .. i] /\ igStamps' \in Seq(Nat) /\ igPeaks' \in [0 .. IgSlots -> Nat]
        /\ IgStamped' /\ PoolKeepsPeak'
    BY <1>2, <2>1, <2>3, IgTrimKeeps
  <2>5. ~Used(i)
    <3>1. igLast \in 0 .. igImages /\ igEvent \in [IgEncoders -> 0 .. igImages] /\ igConv \in [IgEncoders -> 0 .. igImages]
      BY DEF IgPoolInv, IgTyped
    <3> QED BY <1>0, <2>1, <3>1 DEF Used
  <2> QED BY <1>0, <1>2, <2>1, <2>4, <2>5
<1> QED BY <1>1, <1>2 DEF Pulled

\* complete_img makes at most a texture of its own for the image, and only of
\* the other kind.
LEMMA IgCompletes ==
  ASSUME IgTyped, NEW i \in IgIds, NEW dummy \in BOOLEAN, CompleteImg(i, dummy)
  PROVE  /\ igTex' \in [IgIds -> IgTextured] /\ igWas' \in [IgIds -> Nat] /\ igTextures' \in Nat
         /\ \A j \in IgIds : j # i => igTex'[j] = igTex[j] /\ igWas'[j] = igWas[j]
         /\ igTex'[i].n # 0
         /\ \/ igTex'[i] = igTex[i] /\ igWas'[i] = igWas[i]
            \/ /\ igTex[i].n = 0 \/ igTex[i].dummy # dummy
               /\ igTex'[i].dummy = dummy
               /\ igTex'[i].addr = igTex[i].addr => igWas'[i] = igTex[i].n
<1>1. CASE igTex[i].n # 0 /\ igTex[i].dummy = dummy
  <2>1. UNCHANGED <<igTex, igWas, igTextures>> BY <1>1 DEF CompleteImg
  <2> QED BY <1>1, <2>1 DEF IgTyped
<1>2. CASE ~(igTex[i].n # 0 /\ igTex[i].dummy = dummy)
  <2>1. igTextures' = igTextures + 1 BY <1>2 DEF CompleteImg
  <2>2. PICK a \in NewAddresses(i) :
          /\ igTex' = [igTex EXCEPT ![i] = [n |-> igTextures', addr |-> a, dummy |-> dummy]]
          /\ igWas' = [igWas EXCEPT ![i] = IF a = igTex[i].addr THEN igTex[i].n ELSE 0]
    BY <1>2 DEF CompleteImg
  <2>3. a \in Nat BY DEF NewAddresses, IgTyped
  <2> DEFINE t == [n |-> igTextures', addr |-> a, dummy |-> dummy]
             w == IF a = igTex[i].addr THEN igTex[i].n ELSE 0
  <2>4. t \in IgTextured /\ t.addr = a /\ t.n = igTextures' /\ t.dummy = dummy /\ igTextures' \in Nat /\ igTextures' # 0
    BY <2>1, <2>3 DEF IgTyped, IgTextured
  <2>5. w \in Nat /\ (a = igTex[i].addr => w = igTex[i].n) BY DEF IgTyped, IgTextured
  <2>6. igTex' = [igTex EXCEPT ![i] = t] /\ igWas' = [igWas EXCEPT ![i] = w] BY <2>2
  <2> HIDE DEF t, w
  <2>7. /\ igTex' \in [IgIds -> IgTextured] /\ igTex'[i] = t /\ \A j \in IgIds : j # i => igTex'[j] = igTex[j]
        /\ igWas' \in [IgIds -> Nat] /\ igWas'[i] = w /\ \A j \in IgIds : j # i => igWas'[j] = igWas[j]
    BY <2>4, <2>5, <2>6 DEF IgTyped
  <2>8. igTex[i].n = 0 \/ igTex[i].dummy # dummy BY <1>2
  <2> QED BY <2>4, <2>5, <2>7, <2>8
<1> QED BY <1>1, <1>2

LEMMA IgCaptures ==
  ASSUME IgPoolInv, NEW i \in IgIds, NEW dummy \in BOOLEAN, NEW kept \in BOOLEAN, CaptureImage(i, dummy, kept)
  PROVE  /\ IgPoolInv' /\ (IgAddressed => IgAddressed')
         /\ \A e \in IgEncoders : \A j \in {igConv[e], igEvent[e]} \ {0} : igTex'[j] = igTex[j]
<1>1. /\ Pulled(i) /\ CompleteImg(i, dummy) /\ igEvent' = [e \in IgEncoders |-> i]
      /\ igLast' \in {i, igLast} /\ UNCHANGED <<igConv, igCtx>>
      /\ dummy => StillDummies
  BY DEF CaptureImage
<1>2. /\ igImages' \in 0 .. IgMaxImages /\ igImages' >= igImages /\ i \in 1 .. igImages' /\ ~Used(i)
      /\ igPool' \in [1 .. IgSlots -> 0 .. igImages'] /\ igStamps' \in Seq(Nat) /\ igPeaks' \in [0 .. IgSlots -> Nat]
      /\ IgStamped' /\ PoolKeepsPeak'
  BY <1>1, IgPulls
<1>3. /\ igTex' \in [IgIds -> IgTextured] /\ igWas' \in [IgIds -> Nat] /\ igTextures' \in Nat
      /\ \A j \in IgIds : j # i => igTex'[j] = igTex[j] /\ igWas'[j] = igWas[j]
      /\ igTex'[i].n # 0
      /\ \/ igTex'[i] = igTex[i] /\ igWas'[i] = igWas[i]
         \/ /\ igTex[i].n = 0 \/ igTex[i].dummy # dummy
            /\ igTex'[i].dummy = dummy
            /\ igTex'[i].addr = igTex[i].addr => igWas'[i] = igTex[i].n
  BY <1>1, IgCompletes DEF IgPoolInv
<1>4. IgTyped'
  <2>1. /\ igImages \in 0 .. IgMaxImages /\ IgMaxImages \in Nat /\ igLast \in 0 .. igImages
        /\ igConv \in [IgEncoders -> 0 .. igImages] /\ igCtx \in [IgEncoders -> [IgIds -> IgOpened]]
    BY IgAssumption DEF IgPoolInv, IgTyped
  <2>2. \A x \in 0 .. igImages : x \in 0 .. igImages' BY <1>2, <2>1
  <2>3. i \in 0 .. igImages' BY <1>2
  <2>4. igLast' \in 0 .. igImages' /\ igEvent' \in [IgEncoders -> 0 .. igImages'] BY <1>1, <2>1, <2>2, <2>3
  <2>5. igConv' \in [IgEncoders -> 0 .. igImages'] BY <1>1, <2>1, <2>2
  <2> QED BY <1>1, <1>2, <1>3, <2>1, <2>4, <2>5 DEF IgTyped
<1>5. ASSUME IgAddressed PROVE IgAddressed'
  <2>1. \A j \in IgIds : igTex[j] \in IgTextured /\ igTex'[j] \in IgTextured BY <1>3 DEF IgPoolInv, IgTyped
  <2>2. ASSUME NEW e \in IgEncoders, NEW j \in IgIds PROVE IgOpenOf(igCtx[e][j], j)'
    <3>1. igCtx'[e][j] = igCtx[e][j] /\ IgOpenOf(igCtx[e][j], j) BY <1>1, <1>5 DEF IgAddressed
    <3>2. CASE igTex'[j] = igTex[j] /\ igWas'[j] = igWas[j] BY <3>1, <3>2 DEF IgOpenOf
    <3>3. CASE j = i /\ ~(igTex'[i] = igTex[i] /\ igWas'[i] = igWas[i])
      <4>1. /\ igTex[i].n = 0 \/ igTex[i].dummy # dummy
            /\ igTex'[i].dummy = dummy
            /\ igTex'[i].addr = igTex[i].addr => igWas'[i] = igTex[i].n
        BY <1>3, <3>3
      <4>2. CASE igTex[i].n = 0
        <5>1. igCtx[e][i].n = 0 BY <3>1, <3>3, <4>2 DEF IgOpenOf
        <5> QED BY <3>1, <3>3, <5>1 DEF IgOpenOf
      <4>3. CASE igTex[i].n # 0 /\ igTex[i].dummy # dummy
        <5>1. igTex[i].dummy \in BOOLEAN /\ igTex'[i].dummy \in BOOLEAN BY <2>1 DEF IgTextured
        <5>2. dummy = FALSE /\ igTex[i].dummy = TRUE
          <6>1. dummy => igTex[i].dummy BY <1>1, <4>3 DEF StillDummies
          <6> QED BY <4>3, <5>1, <6>1
        <5>3. igTex'[i].n # 0 /\ ~igTex'[i].dummy BY <1>3, <4>1, <5>2
        <5>4. igCtx[e][i].n = 0 \/ (igCtx[e][i].n = igTex[i].n /\ igCtx[e][i].addr = igTex[i].addr)
          BY <3>1, <3>3, <5>2 DEF IgOpenOf
        <5> QED BY <3>1, <3>3, <4>1, <5>3, <5>4 DEF IgOpenOf
      <4> QED BY <4>1, <4>2, <4>3
    <3> QED BY <1>3, <3>2, <3>3
  <2>3. ASSUME NEW j \in IgIds, igTex[j].n # 0 PROVE igTex'[j].n # 0 BY <1>3, <2>3
  <2>4. /\ igLast \in IgIds \cup {0} /\ igLast' \in {i, igLast}
        /\ \A e \in IgEncoders : igConv[e] \in IgIds \cup {0} /\ igConv'[e] = igConv[e] /\ igEvent'[e] = i
    <3>1. /\ igImages \in 0 .. IgMaxImages /\ igLast \in 0 .. igImages /\ igConv \in [IgEncoders -> 0 .. igImages] /\ IgMaxImages \in Nat
      BY IgAssumption DEF IgPoolInv, IgTyped
    <3>2. \A x \in 0 .. igImages : x \in IgIds \cup {0} BY <3>1 DEF IgIds
    <3> QED BY <1>1, <3>1, <3>2
  <2>5. igLast' # 0 => igTex'[igLast'].n # 0
    <3>1. CASE igLast' = i BY <1>3, <3>1
    <3>2. CASE igLast' = igLast
      <4>1. igLast # 0 => igLast \in IgIds /\ igTex[igLast].n # 0 BY <1>5, <2>4 DEF IgAddressed
      <4>2. igLast # 0 => igTex'[igLast].n # 0 BY <2>3, <4>1
      <4> QED BY <3>2, <4>2
    <3> QED BY <2>4, <3>1, <3>2
  <2>6. ASSUME NEW e \in IgEncoders
        PROVE  (igEvent'[e] # 0 => igTex'[igEvent'[e]].n # 0) /\ (igConv'[e] # 0 => igTex'[igConv'[e]].n # 0)
    <3>1. igConv[e] # 0 => igConv[e] \in IgIds /\ igTex[igConv[e]].n # 0 BY <1>5, <2>4 DEF IgAddressed
    <3>2. igConv[e] # 0 => igTex'[igConv[e]].n # 0 BY <2>3, <3>1
    <3> QED BY <1>3, <2>4, <3>2
  <2> QED BY <2>2, <2>5, <2>6 DEF IgAddressed
<1>6. \A e \in IgEncoders : \A j \in {igConv[e], igEvent[e]} \ {0} : igTex'[j] = igTex[j]
  <2> SUFFICES ASSUME NEW e \in IgEncoders, NEW j \in {igConv[e], igEvent[e]} \ {0} PROVE igTex'[j] = igTex[j]
    OBVIOUS
  <2>1. Used(j) BY DEF Used
  <2>2. j \in IgIds
    <3>1. igImages \in 0 .. IgMaxImages /\ igConv[e] \in 0 .. igImages /\ igEvent[e] \in 0 .. igImages /\ IgMaxImages \in Nat
      BY IgAssumption DEF IgPoolInv, IgTyped
    <3> QED BY <3>1 DEF IgIds
  <2> QED BY <1>2, <1>3, <2>1, <2>2
<1> QED BY <1>2, <1>4, <1>5, <1>6 DEF IgPoolInv

\* What convert opens is the image's texture.
LEMMA IgConverts ==
  ASSUME IgPoolInv, NEW e \in IgEncoders, Convert(e)
  PROVE  IgPoolInv' /\ (IgAddressed => IgAddressed')
<1>1. /\ igConv[e] # 0 /\ igConv' = [igConv EXCEPT ![e] = 0]
      /\ UNCHANGED <<igPool, igStamps, igPeaks, igTex, igWas, igImages, igTextures, igLast, igEvent>>
  BY DEF Convert
<1> DEFINE row == [i \in IgIds |-> IF i = igConv[e] THEN ImageContext(e, i)
                        ELSE IF i \in Allocated(igPool) THEN igCtx[e][i] ELSE [n |-> 0, addr |-> 0]]
<1>2. igCtx' = [igCtx EXCEPT ![e] = row] BY DEF Convert
<1>3. \A i \in IgIds : /\ igTex[i] \in IgTextured /\ igCtx[e][i] \in IgOpened BY DEF IgPoolInv, IgTyped
<1>4. \A i \in IgIds : ImageContext(e, i) \in IgOpened /\ (IgAddressed => IgOpenOf(ImageContext(e, i), i))
  BY <1>3 DEF ImageContext, IgOpened, IgTextured, IgAddressed, IgOpenOf
<1>5. [n |-> 0, addr |-> 0] \in IgOpened /\ \A i \in IgIds : IgOpenOf([n |-> 0, addr |-> 0], i) BY DEF IgOpened, IgOpenOf
<1>6. row \in [IgIds -> IgOpened] /\ (IgAddressed => \A i \in IgIds : IgOpenOf(row[i], i))
  BY <1>3, <1>4, <1>5 DEF IgAddressed
<1> HIDE DEF row
<1>7. igCtx' \in [IgEncoders -> [IgIds -> IgOpened]] /\ igCtx'[e] = row /\ \A d \in IgEncoders : d # e => igCtx'[d] = igCtx[d]
  BY <1>2, <1>6 DEF IgPoolInv, IgTyped
<1>8. igConv' \in [IgEncoders -> 0 .. igImages] /\ \A d \in IgEncoders : igConv'[d] \in {0, igConv[d]}
  BY <1>1, IgAssumption DEF IgPoolInv, IgTyped
<1>9. ASSUME IgAddressed PROVE IgAddressed'
  <2>1. \A d \in IgEncoders, i \in IgIds : IgOpenOf(igCtx'[d][i], i) BY <1>6, <1>7, <1>9 DEF IgAddressed
  <2>2. \A d \in IgEncoders, i \in IgIds : IgOpenOf(igCtx[d][i], i)' BY <1>1, <2>1 DEF IgOpenOf
  <2> QED BY <1>1, <1>8, <1>9, <2>2 DEF IgAddressed
<1> QED BY <1>1, <1>7, <1>8, <1>9 DEF IgPoolInv, IgTyped, IgStamped, PoolKeepsPeak

LEMMA IgTicks == ASSUME IgPoolInv, IgTick PROVE IgPoolInv'
<1>1. /\ igStamps' = [k \in DOMAIN igStamps |-> Aged(igStamps[k])]
      /\ igPeaks' = [c \in DOMAIN igPeaks |-> Aged(igPeaks[c])]
      /\ UNCHANGED <<igPool, igTex, igWas, igImages, igTextures, igLast, igEvent, igConv, igCtx>>
  BY DEF IgTick
<1>2. igStamps \in Seq(Nat) /\ igPeaks \in [0 .. IgSlots -> Nat] /\ IgTimeout \in Nat /\ IgSlots \in Nat
  BY IgAssumption DEF IgPoolInv, IgTyped
<1>3. \A a \in Nat : Aged(a) \in Nat /\ Aged(a) >= a BY <1>2 DEF Aged
<1>4. DOMAIN igStamps = 1 .. Len(igStamps) /\ Len(igStamps) \in Nat /\ \A k \in 1 .. Len(igStamps) : igStamps[k] \in Nat BY <1>2
<1>5. igStamps' \in Seq(Nat) /\ Len(igStamps') = Len(igStamps)
      /\ \A k \in 1 .. Len(igStamps) : igStamps'[k] = Aged(igStamps[k])
  BY <1>1, <1>3, <1>4
<1>6. igPeaks' \in [0 .. IgSlots -> Nat] /\ \A c \in 0 .. IgSlots : igPeaks'[c] = Aged(igPeaks[c]) BY <1>1, <1>2, <1>3
<1>7. \A a, b \in Nat : Aged(b) < IgTimeout /\ a <= b => b < IgTimeout /\ Aged(a) <= Aged(b) BY <1>2 DEF Aged
<1>8. \A c \in 0 .. IgSlots : igPeaks'[c] < IgTimeout => igPeaks[c] < IgTimeout BY <1>2, <1>6, <1>7
<1>9. IgStamped'
  <2> SUFFICES ASSUME NEW c \in 0 .. IgSlots, igPeaks'[c] < IgTimeout
               PROVE  c < Len(igStamps') /\ igStamps'[c + 1] <= igPeaks'[c]
    BY DEF IgStamped
  <2>1. c < Len(igStamps) /\ igStamps[c + 1] <= igPeaks[c] BY <1>8 DEF IgPoolInv, IgStamped
  <2>2. c + 1 \in 1 .. Len(igStamps) BY <1>2, <1>4, <2>1
  <2> QED BY <1>2, <1>4, <1>5, <1>6, <1>7, <2>1, <2>2
<1>10. PoolKeepsPeak' BY <1>1, <1>2, <1>6, <1>8 DEF IgPoolInv, PoolKeepsPeak
<1>11. IgTyped' BY <1>1, <1>5, <1>6 DEF IgPoolInv, IgTyped
<1> QED BY <1>9, <1>10, <1>11 DEF IgPoolInv

LEMMA IgHolds ==
  ASSUME IgPoolInv, \/ ForwardLast \/ ForgetLast \/ (\E e \in IgEncoders : TakeImage(e)) \/ UNCHANGED igVars
  PROVE  IgPoolInv' /\ (IgAddressed => IgAddressed') /\ UNCHANGED igTex
<1>1. UNCHANGED <<igPool, igStamps, igPeaks, igTex, igWas, igImages, igTextures, igCtx>>
  BY DEF ForwardLast, ForgetLast, TakeImage, igVars
<1>2. /\ igImages \in 0 .. IgMaxImages /\ igLast \in 0 .. igImages /\ igEvent \in [IgEncoders -> 0 .. igImages]
      /\ igConv \in [IgEncoders -> 0 .. igImages] /\ 0 \in 0 .. igImages
  BY IgAssumption DEF IgPoolInv, IgTyped
<1>3. /\ igLast' \in 0 .. igImages /\ igEvent' \in [IgEncoders -> 0 .. igImages] /\ igConv' \in [IgEncoders -> 0 .. igImages]
  BY <1>2 DEF ForwardLast, ForgetLast, TakeImage, igVars
<1>4. igLast' \in {igLast, 0} /\ \A e \in IgEncoders : /\ igEvent'[e] \in {igEvent[e], igLast, 0}
                                                      /\ igConv'[e] \in {igConv[e], igEvent[e]}
  BY <1>2 DEF ForwardLast, ForgetLast, TakeImage, igVars
<1>5. IgAddressed => IgAddressed' BY <1>1, <1>4 DEF IgAddressed, IgOpenOf
<1> QED BY <1>1, <1>3, <1>5 DEF IgPoolInv, IgTyped, IgStamped, PoolKeepsPeak

LEMMA IgStep ==
  ASSUME IgPoolInv, [IgNext]_igVars
  PROVE  /\ IgPoolInv' /\ (IgAddressed => IgAddressed')
         /\ \A e \in IgEncoders : \A j \in {igConv[e], igEvent[e]} \ {0} : igTex'[j] = igTex[j]
<1>1. CASE \/ ForwardLast \/ ForgetLast \/ (\E e \in IgEncoders : TakeImage(e)) \/ UNCHANGED igVars BY <1>1, IgHolds
<1>2. CASE IgTick
  <2>1. UNCHANGED <<igTex, igWas, igCtx, igLast, igEvent, igConv>> BY <1>2 DEF IgTick
  <2> QED BY <1>2, <2>1, IgTicks DEF IgAddressed, IgOpenOf
<1>3. ASSUME NEW i \in IgIds, NEW dummy \in BOOLEAN, NEW kept \in BOOLEAN, CaptureImage(i, dummy, kept)
      PROVE  /\ IgPoolInv' /\ (IgAddressed => IgAddressed')
             /\ \A e \in IgEncoders : \A j \in {igConv[e], igEvent[e]} \ {0} : igTex'[j] = igTex[j]
  BY <1>3, IgCaptures
<1>4. ASSUME NEW e \in IgEncoders, Convert(e)
      PROVE  IgPoolInv' /\ (IgAddressed => IgAddressed') /\ UNCHANGED igTex
  BY <1>4, IgConverts DEF Convert
<1> QED BY <1>1, <1>2, <1>3, <1>4 DEF IgNext

\* What is open at the texture's address is the texture, or the dummy it was.
LEMMA IgDraws == IgPoolInv /\ IgAddressed => EncoderDrawsImage
<1> SUFFICES ASSUME IgPoolInv, IgAddressed, NEW e \in IgEncoders, NEW i \in {igConv[e]} \ {0}
             PROVE  ImageContext(e, i).n \in {igTex[i].n, igWas[i]} \ {0}
  BY DEF EncoderDrawsImage
<1>1. i \in IgIds
  <2>1. igImages \in 0 .. IgMaxImages /\ igConv[e] \in 0 .. igImages /\ IgMaxImages \in Nat
    BY IgAssumption DEF IgPoolInv, IgTyped
  <2> QED BY <2>1 DEF IgIds
<1>2. igTex[i].n # 0 /\ IgOpenOf(igCtx[e][i], i) BY <1>1 DEF IgAddressed
<1>3. CASE igCtx[e][i].n # 0 /\ igCtx[e][i].addr = igTex[i].addr
  <2>1. ImageContext(e, i) = igCtx[e][i] BY <1>3 DEF ImageContext
  <2> QED BY <1>2, <1>3, <2>1 DEF IgOpenOf
<1>4. CASE ~(igCtx[e][i].n # 0 /\ igCtx[e][i].addr = igTex[i].addr)
  <2>1. ImageContext(e, i).n = igTex[i].n BY <1>4 DEF ImageContext
  <2> QED BY <1>2, <2>1
<1> QED BY <1>3, <1>4

\* video.cpp, captureThread, for any pool, number of encoders and timeout: the
\* pool keeps as many images as were in use within the timeout.
THEOREM PoolKept == IgSpec => []PoolKeepsPeak
<1>1. IgPoolInv => PoolKeepsPeak BY DEF IgPoolInv
<1>2. IgPoolInv /\ [IgNext]_igVars => IgPoolInv' BY IgStep
<1>3. IgInit => IgPoolInv BY IgPoolInit
<1> QED BY <1>1, <1>2, <1>3, PTL DEF IgSpec

\* display_vram.cpp, complete_img: no step replaces the texture of an image
\* that an encoder converts or has waiting.
THEOREM TexturesHeld == IgSpec => HeldTexturesStay
<1>1. IgPoolInv /\ [IgNext]_igVars => [\A e \in IgEncoders : \A i \in {igConv[e], igEvent[e]} \ {0} : igTex'[i] = igTex[i]]_igVars
  BY IgStep
<1>2. IgPoolInv /\ [IgNext]_igVars => IgPoolInv' BY IgStep
<1>3. IgInit => IgPoolInv BY IgPoolInit
<1> QED BY <1>1, <1>2, <1>3, PTL DEF IgSpec, HeldTexturesStay

\* display_vram.cpp, initialize_image_context, for any number of encoders and
\* wherever new textures are put: an encoder draws the image's texture or, at
\* the same address, the dummy the image was; never another image.
THEOREM ImageDrawn == IgSpec => []EncoderDrawsImage
<1> DEFINE Inv == IgPoolInv /\ IgAddressed
<1>1. IgInit => Inv BY IgPoolInit
<1>2. Inv /\ [IgNext]_igVars => Inv' BY IgStep
<1>3. Inv => EncoderDrawsImage BY IgDraws
<1> HIDE DEF Inv
<1> QED BY <1>1, <1>2, <1>3, PTL DEF IgSpec

-----------------------------------------------------------------------------
(* The encoding loop (EncodeLoop) *)

\* A smaller divisor gives no smaller a share.
LEMMA ElShares ==
  ASSUME NEW a \in Nat, NEW b \in Nat, NEW c \in Nat, c > 0, c <= b
  PROVE  a \div c >= a \div b
<1> DEFINE p == a \div c
           q == a \div b
<1>1. p \in Nat /\ a < c * (p + 1) OBVIOUS
<1>2. q \in Nat /\ b * q <= a OBVIOUS
<1> HIDE DEF p, q
<1>3. ASSUME p < q PROVE FALSE
  <2>1. p + 1 <= q BY <1>1, <1>2, <1>3
  <2>2. PICK d \in Nat : q = (p + 1) + d BY <1>1, <1>2, <2>1
  <2>3. PICK g \in Nat : b = c + g
    <3>1. b - c \in Nat /\ b = c + (b - c) OBVIOUS
    <3> QED BY <3>1
  <2>4. c * q = c * (p + 1) + c * d BY <1>1, <2>2
  <2>5. b * q = c * q + g * q BY <1>2, <2>3
  <2>6. c * d \in Nat /\ g * q \in Nat /\ c * (p + 1) \in Nat BY <1>1, <1>2, <2>2, <2>3
  <2> QED BY <1>1, <1>2, <2>4, <2>5, <2>6
<1>4. p >= q BY <1>1, <1>2, <1>3
<1> QED BY <1>4 DEF p, q

\* What is expected next is a frame after what was sent, and what is about to
\* be encoded too.
ElPacing ==
  /\ elSent \in Int \X Int /\ elExpected \in Int /\ elImage \subseteq Int /\ elStamp \subseteq Int
  /\ elClock \in Int
  /\ elExpected >= elSent[2] + ElThreshold
  /\ elPc = "image" => elStamp = {}
  /\ elPc = "encode" => \A t \in elStamp : t >= elSent[2] + ElThreshold /\ elExpected = t + ElThreshold
  /\ PacedByFramerate

\* The buffer is that of the attempt that succeeded.
ElBuffered ==
  /\ elConfig \in ElConfigs
  /\ elPc \in {"frame", "loop", "image", "encode"} =>
       elBuffer = RcBufferSize /\ (elCodec.unlimited \/ RcDivisor # 0)

LEMMA ElStarts == ElInit => ElPacing /\ ElBuffered
<1> SUFFICES ASSUME ElInit PROVE ElPacing /\ ElBuffered
  OBVIOUS
<1>1. ElThreshold \in Nat BY ElAssumption
<1>2. elSent[1] = -ElThreshold /\ elSent[2] = -ElThreshold /\ elSent \in Int \X Int BY ElAssumption DEF ElInit
<1> QED BY <1>1, <1>2, ElAssumption DEF ElInit, ElPacing, ElBuffered, PacedByFramerate

LEMMA ElPacingKept ==
  ASSUME ElPacing, [ElNext]_elVars
  PROVE  ElPacing'
<1> USE DEF elSetup, elClient, elPace
<1>0. ElThreshold \in Nat /\ ElVariation \in Nat BY ElAssumption
<1>1. CASE \/ ChooseEncoder \/ PrepareContext \/ DivisionTraps \/ OpenCodec \/ MakeSession \/ LoopEnds
           \/ RaiseIdr \/ RaiseInvalidate \/ UNCHANGED elVars
  <2>1. UNCHANGED <<elSent, elExpected, elImage, elStamp, elClock>>
    BY <1>1 DEF ChooseEncoder, PrepareContext, DivisionTraps, OpenCodec, MakeSession, LoopEnds, RaiseIdr, RaiseInvalidate, elVars
  <2>2. (elPc' = "image" => elPc = "image") /\ (elPc' = "encode" => elPc = "encode")
    BY <1>1 DEF ChooseEncoder, PrepareContext, DivisionTraps, OpenCodec, MakeSession, LoopEnds, RaiseIdr, RaiseInvalidate, elVars
  <2> QED BY <2>1, <2>2 DEF ElPacing, PacedByFramerate
<1>2. CASE TakeRequests
  <2>1. UNCHANGED <<elSent, elExpected, elImage, elClock>> /\ elStamp' = {} BY <1>2 DEF TakeRequests
  <2> QED BY <2>1 DEF ElPacing, PacedByFramerate
<1>3. CASE TakePacedImage
  <2>1. UNCHANGED <<elSent, elClock>> /\ elPc = "image" /\ elStamp = {} /\ elImage' \subseteq elImage
    BY <1>3 DEF TakePacedImage, ElPacing
  <2>2. CASE UNCHANGED <<elStamp, elExpected>> BY <2>1, <2>2 DEF ElPacing, PacedByFramerate
  <2>3. CASE ~(UNCHANGED <<elStamp, elExpected>>)
    <3>1. PICK t \in elImage : /\ ~Paced(t).drop /\ elPc' = "encode" /\ elStamp' = {Paced(t).stamp}
                               /\ elExpected' = Paced(t).next
      BY <1>3, <2>3 DEF TakePacedImage
    <3>2. t \in Int /\ elExpected \in Int /\ elSent[2] \in Int BY DEF ElPacing
    <3>3. Paced(t).stamp \in Int /\ Paced(t).stamp >= elExpected /\ Paced(t).next = Paced(t).stamp + ElThreshold
      BY <1>0, <3>2 DEF Paced
    <3>4. PICK s \in Int : s = Paced(t).stamp /\ s >= elExpected BY <3>3
    <3>5. elStamp' = {s} /\ elExpected' = s + ElThreshold BY <3>1, <3>3, <3>4
    <3> QED BY <1>0, <2>1, <3>1, <3>2, <3>4, <3>5 DEF ElPacing, PacedByFramerate
  <2> QED BY <2>2, <2>3
<1>4. CASE EncodeImage
  <2>1. UNCHANGED <<elImage, elExpected, elStamp, elClock>> /\ elPc = "encode" /\ elPc' \in {"loop", "ended"} BY <1>4 DEF EncodeImage
  <2>2. CASE elSent' = elSent BY <2>1, <2>2 DEF ElPacing, PacedByFramerate
  <2>3. CASE elSent' # elSent
    <3>1. elStamp # {} /\ elSent' = <<elSent[2], CHOOSE t \in elStamp : TRUE>> BY <1>4, <2>3 DEF EncodeImage
    <3>2. PICK t \in elStamp : elSent' = <<elSent[2], t>> BY <3>1
    <3>3. t \in Int /\ t >= elSent[2] + ElThreshold /\ elExpected = t + ElThreshold /\ elSent[2] \in Int BY <2>1 DEF ElPacing
    <3>4. elSent' \in Int \X Int /\ elSent'[1] = elSent[2] /\ elSent'[2] = t BY <3>2, <3>3
    <3> QED BY <1>0, <2>1, <3>3, <3>4 DEF ElPacing, PacedByFramerate
  <2> QED BY <2>2, <2>3
<1>5. CASE \E d \in {1, ElThreshold} : ImageArrives(d)
  <2>1. UNCHANGED <<elPc, elExpected, elStamp, elSent>> BY <1>5 DEF ImageArrives
  <2>2. elClock' \in Int /\ elImage' \subseteq Int BY <1>0, <1>5 DEF ImageArrives, ElPacing
  <2> QED BY <2>1, <2>2 DEF ElPacing, PacedByFramerate
<1> QED BY <1>1, <1>2, <1>3, <1>4, <1>5 DEF ElNext

LEMMA ElBufferKept ==
  ASSUME ElBuffered, [ElNext]_elVars
  PROVE  ElBuffered'
<1> USE DEF elSetup, elClient, elPace
<1>0. UNCHANGED <<elCodec, elConfig>>
  BY DEF ElNext, elVars, ChooseEncoder, PrepareContext, DivisionTraps, OpenCodec, MakeSession, TakeRequests, TakePacedImage,
         EncodeImage, RaiseIdr, RaiseInvalidate, ImageArrives, LoopEnds
<1>1. RcBufferSize' = RcBufferSize /\ RcDivisor' = RcDivisor BY <1>0 DEF RcBufferSize, RcDivisor, SlicesUsed
<1>2. CASE OpenCodec BY <1>0, <1>1, <1>2 DEF OpenCodec, ElBuffered
<1>3. CASE ChooseEncoder \/ PrepareContext \/ DivisionTraps
  <2>1. elPc' \notin {"frame", "loop", "image", "encode"} BY <1>3 DEF ChooseEncoder, PrepareContext, DivisionTraps
  <2> QED BY <1>0, <2>1 DEF ElBuffered
<1>4. CASE ~(OpenCodec \/ ChooseEncoder \/ PrepareContext \/ DivisionTraps)
  <2>1. UNCHANGED elBuffer /\ (elPc' \in {"frame", "loop", "image", "encode"} => elPc \in {"frame", "loop", "image", "encode"})
    BY <1>4 DEF ElNext, elVars, MakeSession, TakeRequests, TakePacedImage, EncodeImage, RaiseIdr, RaiseInvalidate, ImageArrives, LoopEnds
  <2> QED BY <1>0, <1>1, <2>1 DEF ElBuffered
<1> QED BY <1>2, <1>3, <1>4

LEMMA ElHolds == ElBuffered => BufferHoldsFrame
<1> SUFFICES ASSUME ElBuffered, elPc = "loop", ~elCodec.unlimited
             PROVE  elBuffer >= elConfig.bitrate \div elConfig.framerate
  BY DEF BufferHoldsFrame
<1> DEFINE b == elConfig.bitrate
           f == elConfig.framerate
<1>1. elBuffer = b \div RcDivisor /\ RcDivisor # 0 BY DEF ElBuffered, RcBufferSize
<1>2. b \in Nat /\ f \in Nat BY ElAssumption DEF ElBuffered
<1>3. RcDivisor = f \/ RcDivisor = (f * 10) \div 15 BY DEF RcDivisor
<1> HIDE DEF b, f
<1>4. RcDivisor \in Nat /\ RcDivisor <= f BY <1>2, <1>3
<1>5. b \div RcDivisor >= b \div f BY <1>1, <1>2, <1>4, ElShares
<1> QED BY <1>1, <1>5 DEF b, f

\* video.cpp, encode_run and make_avcodec_encode_session, for any rate,
\* threshold and order of captured images: the stamps of the frames sent are a
\* frame apart and the rate control buffer holds a frame.
THEOREM LoopPaced == ElSpec => [](PacedByFramerate /\ BufferHoldsFrame)
<1> DEFINE Inv == ElPacing /\ ElBuffered
<1>1. ElInit => Inv BY ElStarts
<1>2. Inv /\ [ElNext]_elVars => Inv' BY ElPacingKept, ElBufferKept
<1>3. Inv => PacedByFramerate /\ BufferHoldsFrame BY ElHolds DEF ElPacing
<1> HIDE DEF Inv
<1> QED BY <1>1, <1>2, <1>3, PTL DEF ElSpec

-----------------------------------------------------------------------------
(* The NVENC encoder (NvEnc) *)

NeCreating == {"open", "query", "init", "event", "bitstream", "input"}
NeStates == [last : Nat, first : Nat, until : Nat, confirm : BOOLEAN]

\* Frames the next one may refer to unless a key frame is forced.
NeReferable == {f \in Encoded \ neInvalid : \A k \in KeyFrames : f >= k}

\* Nothing is encoded while the encoder is created.
NeFresh == /\ Encoded = {} /\ neRequest = {} /\ neTold = {} /\ neLost = {} /\ neAsked = {}

\* While it encodes: what the client has reported, and the range the encoder
\* remembers as dealt with, is not behind a frame it may still refer to.
NeReady ==
  /\ neState \in NeStates /\ Encoded = 1 .. neState.last /\ neState.until <= neState.last
  /\ neTold \subseteq 1 .. neState.last /\ neLost \subseteq 1 .. neState.last
  /\ neRequest \subseteq (1 .. neState.last) \X (1 .. neState.last)
  /\ \A r, s \in neRequest : r[1] <= r[2] /\ r = s
  /\ \A f \in Encoded : f \in neFrames[f].needs /\ neFrames[f].needs \subseteq 1 .. f
  /\ ~neForce => \A f \in NeReferable : neFrames[f].needs \cap (neTold \cup (neState.first .. neState.until)) = {}

NeInv ==
  /\ nePc \in NeCreating => NeFresh
  /\ nePc = "ready" => NeReady
  /\ neHeld \subseteq Destroyed
  /\ ToldFramesAvoided
  /\ NothingLeftInDriver

LEMMA NeStarts == NeInit => NeInv
  BY DEF NeInit, NeInv, NeCreating, NeFresh, Encoded, ToldFramesAvoided, NothingLeftInDriver

\* create_encoder and destroy_encoder.
LEMMA NeCreated ==
  ASSUME NeInv, \/ OpenEncodeSession \/ Configure \/ InitializeEncoder \/ RegisterAsyncEvent \/ CreateBitstreamBuffer
                \/ RegisterInputBuffer \/ DestroyEncoder \/ EndSession \/ UNCHANGED neVars
  PROVE  NeInv'
<1> USE DEF neStream, neWorld
<1>1. UNCHANGED <<neForce, neInvalid, neFrames, neLost, neRequest, neTold, neAsked>>
  BY DEF OpenEncodeSession, Configure, InitializeEncoder, RegisterAsyncEvent, CreateBitstreamBuffer, RegisterInputBuffer,
         DestroyEncoder, EndSession, neVars
<1>2. ToldFramesAvoided' /\ (NeFresh => NeFresh') BY <1>1 DEF NeInv, ToldFramesAvoided, NeFresh, Encoded
<1>3. neHeld' \subseteq Destroyed
  BY DEF NeInv, Destroyed, OpenEncodeSession, Configure, InitializeEncoder, RegisterAsyncEvent, CreateBitstreamBuffer,
         RegisterInputBuffer, DestroyEncoder, EndSession, neVars
<1>4. CASE OpenEncodeSession \/ Configure \/ InitializeEncoder \/ RegisterAsyncEvent \/ CreateBitstreamBuffer
  <2>1. nePc \in NeCreating /\ nePc' \in NeCreating \cup {"destroy"}
    BY <1>4 DEF OpenEncodeSession, Configure, InitializeEncoder, RegisterAsyncEvent, CreateBitstreamBuffer, NeCreating
  <2> QED BY <1>2, <1>3, <2>1 DEF NeInv, NeCreating, NothingLeftInDriver
<1>5. CASE RegisterInputBuffer
  <2>1. nePc \in NeCreating /\ NeFresh BY <1>5 DEF RegisterInputBuffer, NeInv, NeCreating
  <2>2. CASE nePc' = "ready"
    <3>1. neState' = NoState BY <1>5, <2>2 DEF RegisterInputBuffer
    <3>2. neState'.last = 0 /\ neState'.until = 0 /\ neState' \in NeStates BY <3>1 DEF NoState, NeStates
    <3>3. Encoded' = {} /\ neTold' = {} /\ neLost' = {} /\ neRequest' = {} BY <1>1, <2>1 DEF NeFresh, Encoded
    <3>4. NeReady' BY <3>2, <3>3 DEF NeReady, NeReferable
    <3> QED BY <1>2, <1>3, <2>2, <3>4 DEF NeInv, NeCreating, NothingLeftInDriver
  <2>3. CASE nePc' = "destroy" BY <1>2, <1>3, <2>3 DEF NeInv, NeCreating, NothingLeftInDriver
  <2> QED BY <1>5, <2>2, <2>3 DEF RegisterInputBuffer
<1>6. CASE DestroyEncoder
  <2>1. nePc' = "none" /\ neHeld' = {} BY <1>6 DEF DestroyEncoder, NeInv
  <2> QED BY <1>2, <1>3, <2>1 DEF NeInv, NeCreating, NothingLeftInDriver
<1>7. CASE EndSession
  <2>1. nePc' = "destroy" BY <1>7 DEF EndSession
  <2> QED BY <1>2, <1>3, <2>1 DEF NeInv, NeCreating, NothingLeftInDriver
<1>8. CASE UNCHANGED neVars
  BY <1>8 DEF neVars, NeInv, NeFresh, NeReady, NeReferable, Encoded, KeyFrames, ToldFramesAvoided, NothingLeftInDriver
<1> QED BY <1>4, <1>5, <1>6, <1>7, <1>8

\* encode_frame: a frame that refers to an older one needs nothing reported.
LEMMA NeEncodes ==
  ASSUME NeInv, EncodePicture
  PROVE  NeInv'
<1>0. nePc = "ready" /\ NeReady /\ UNCHANGED <<neHeld, neLost, neRequest, neTold>> /\ neForce' = FALSE
  BY DEF EncodePicture, NeInv
<1>1. CASE UNCHANGED neFrames /\ nePc' = "destroy"
  BY <1>0, <1>1 DEF NeInv, NeCreating, ToldFramesAvoided, NothingLeftInDriver, Encoded
<1>2. CASE ~(UNCHANGED neFrames /\ nePc' = "destroy")
  <2> DEFINE n == neState.last + 1
             entry(ref) == [needs |-> {n} \cup (IF ref = 0 THEN {} ELSE neFrames[ref].needs), told |-> neTold, marked |-> neState.confirm]
  <2>1. PICK ref \in References :
          /\ neFrames' = [f \in Encoded \cup {n} |->
                            IF f \in Encoded THEN neFrames[f]
                            ELSE [needs |-> {f} \cup (IF ref = 0 THEN {} ELSE neFrames[ref].needs), told |-> neTold, marked |-> neState.confirm]]
          /\ neState' = [neState EXCEPT !.last = @ + 1, !.confirm = FALSE]
          /\ UNCHANGED <<nePc, neInvalid>>
    BY <1>2 DEF EncodePicture
  <2>2. /\ neState.last \in Nat /\ neState.first \in Nat /\ neState.until \in Nat /\ neState.until < n
        /\ Encoded = 1 .. neState.last /\ n \in Nat /\ n \notin Encoded /\ n > neState.last
    BY <1>0 DEF NeReady, NeStates
  <2>3. /\ neState' \in NeStates /\ neState'.last = n /\ neState'.first = neState.first /\ neState'.until = neState.until
    <3>1. neState \in NeStates /\ FALSE \in BOOLEAN BY <1>0 DEF NeReady
    <3>2. neState' = [neState EXCEPT !.last = n, !.confirm = FALSE] BY <2>1
    <3> HIDE DEF n
    <3>3. PICK t, s : t = neState' /\ s = neState /\ s \in NeStates /\ t = [s EXCEPT !.last = n, !.confirm = FALSE] BY <3>1, <3>2
    <3>4. t \in NeStates BY <2>2, <3>3 DEF NeStates
    <3>5. t.last = n /\ t.first = s.first /\ t.until = s.until BY <3>3 DEF NeStates
    <3> QED BY <3>3, <3>4, <3>5
  <2> DEFINE behind == IF ref = 0 THEN {} ELSE neFrames[ref].needs
  <2>4. /\ Encoded' = Encoded \cup {n} /\ \A f \in Encoded : neFrames'[f] = neFrames[f]
        /\ neFrames'[n].needs = {n} \cup behind /\ neFrames'[n].told = neTold
    BY <2>1, <2>2 DEF Encoded
  \* What the frame referred to needs.
  <2>5. ref # 0 => ref \in NeReferable /\ ~neForce BY <2>1, <2>2 DEF References, NeReferable
  <2>6. behind \subseteq 1 .. neState.last /\ behind \cap (neTold \cup (neState.first .. neState.until)) = {}
    <3>1. CASE ref = 0 BY <3>1
    <3>2. CASE ref # 0
      <4>1. ref \in Encoded BY <2>5, <3>2 DEF NeReferable
      <4>2. neFrames[ref].needs \subseteq 1 .. ref /\ ref <= neState.last BY <1>0, <2>2, <4>1 DEF NeReady
      <4>3. neFrames[ref].needs \cap (neTold \cup (neState.first .. neState.until)) = {} BY <1>0, <2>5, <3>2 DEF NeReady
      <4> QED BY <2>2, <3>2, <4>1, <4>2, <4>3
    <3> QED BY <3>1, <3>2
  <2> HIDE DEF behind
  <2>7. n \notin neTold /\ n \notin neState.first .. neState.until BY <1>0, <2>2 DEF NeReady
  <2>8. neFrames'[n].needs \cap (neTold \cup (neState.first .. neState.until)) = {} BY <2>4, <2>6, <2>7
  <2>9. KeyFrames \subseteq KeyFrames' /\ (ref = 0 => n \in KeyFrames')
    <3>1. ref = 0 => neFrames'[n].needs = {n} BY <2>4 DEF behind
    <3> QED BY <2>4, <3>1 DEF KeyFrames
  <2>10. ASSUME NEW f \in NeReferable'
         PROVE  neFrames'[f].needs \cap (neTold \cup (neState.first .. neState.until)) = {}
    <3>1. CASE f = n BY <2>8, <3>1
    <3>2. CASE f # n
      <4>1. f \in Encoded /\ f \notin neInvalid /\ \A k \in KeyFrames' : f >= k BY <2>1, <2>4, <3>2 DEF NeReferable
      <4>2. ref # 0
        <5>1. ~(f >= n) BY <2>2, <4>1
        <5> QED BY <2>9, <4>1, <5>1
      <4>3. ~neForce /\ f \in NeReferable BY <2>5, <2>9, <4>1, <4>2 DEF NeReferable
      <4> QED BY <1>0, <2>4, <4>1, <4>3 DEF NeReady
    <3> QED BY <3>1, <3>2
  <2>11. NeReady'
    <3>1. Encoded' = 1 .. neState'.last BY <2>2, <2>3, <2>4
    <3>2. /\ neTold' \subseteq 1 .. neState'.last /\ neLost' \subseteq 1 .. neState'.last
          /\ neRequest' \subseteq (1 .. neState'.last) \X (1 .. neState'.last) /\ \A r, s \in neRequest' : r[1] <= r[2] /\ r = s
      <4>1. 1 .. neState.last \subseteq 1 .. n BY <2>2
      <4> QED BY <1>0, <2>3, <4>1 DEF NeReady
    <3>3. \A f \in Encoded' : f \in neFrames'[f].needs /\ neFrames'[f].needs \subseteq 1 .. f
      <4>0. 1 .. neState.last \subseteq 1 .. n /\ n \in 1 .. n BY <2>2
      <4>1. n \in neFrames'[n].needs /\ neFrames'[n].needs \subseteq 1 .. n
        <5> HIDE DEF n
        <5> QED BY <2>4, <2>6, <4>0
      <4> QED BY <1>0, <2>4, <4>1 DEF NeReady
    <3>4. neState'.until <= neState'.last BY <2>2, <2>3
    <3>5. \A f \in NeReferable' : neFrames'[f].needs \cap (neTold' \cup (neState'.first .. neState'.until)) = {}
      BY <1>0, <2>3, <2>10
    <3> QED BY <2>3, <3>1, <3>2, <3>3, <3>4, <3>5 DEF NeReady
  <2>12. ToldFramesAvoided'
    <3>1. neFrames'[n].needs \cap neFrames'[n].told = {} BY <2>4, <2>8
    <3> QED BY <2>4, <3>1 DEF NeInv, ToldFramesAvoided
  <2> QED BY <1>0, <2>1, <2>11, <2>12 DEF NeInv, NeCreating, NothingLeftInDriver
<1> QED BY <1>1, <1>2

\* invalidate_ref_frames: the range is invalidated up to the last frame, or a
\* key frame is forced, or it was done before.
LEMMA NeTakes ==
  ASSUME NeInv, TakeRequest
  PROVE  NeInv'
<1>0. /\ nePc = "ready" /\ NeReady /\ neRequest' = {} /\ UNCHANGED <<nePc, neHeld, neFrames, neLost>>
      /\ neTold' = neTold \cup UNION {r[1] .. r[2] : r \in neRequest}
  BY DEF TakeRequest, NeInv, neWorld
<1> DEFINE reported == UNION {r[1] .. r[2] : r \in neRequest}
<1>1. /\ neState.last \in Nat /\ neState.first \in Nat /\ neState.until \in Nat /\ neState.until <= neState.last
      /\ Encoded = 1 .. neState.last
  BY <1>0 DEF NeReady, NeStates
<1>2. reported \subseteq 1 .. neState.last
  <2>1. \A r \in neRequest : r[1] \in 1 .. neState.last /\ r[2] \in 1 .. neState.last BY <1>0 DEF NeReady
  <2> QED BY <1>1, <2>1
<1>3. Encoded' = Encoded /\ KeyFrames' = KeyFrames BY <1>0 DEF Encoded, KeyFrames
<1>4. ASSUME NEW r \in neRequest,
             \/ neForce' = TRUE /\ (neState' = neState \/ neState' = Noted(r[1], r[2]))
             \/ AlreadyDone(r[1], r[2]) /\ UNCHANGED <<neForce, neState, neInvalid>>
             \/ /\ neState' = Noted(r[1], r[2]) /\ InvalidRange(r[1], r[2]).done /\ UNCHANGED neForce
                /\ neInvalid' = neInvalid \cup InvalidRange(r[1], r[2]).frames,
             reported = r[1] .. r[2]
      PROVE  NeReady'
  <2> DEFINE first == r[1]
             last == r[2]
  <2>1. first \in 1 .. neState.last /\ last \in 1 .. neState.last /\ first <= last BY <1>0 DEF NeReady
  <2>2. /\ Noted(first, last) \in NeStates /\ Noted(first, last).last = neState.last
        /\ Noted(first, last).first = first /\ Noted(first, last).until = neState.last
    <3>1. neState \in NeStates /\ TRUE \in BOOLEAN /\ first \in Nat /\ ~(last < first) BY <1>0, <1>1, <2>1 DEF NeReady
    <3> HIDE DEF first, last
    <3>2. Noted(first, last) = [neState EXCEPT !.confirm = TRUE, !.first = first, !.until = neState.last]
      BY <3>1 DEF Noted
    <3>3. PICK t, s, u : /\ t = Noted(first, last) /\ s = neState /\ s \in NeStates /\ u = neState.last
                         /\ t = [s EXCEPT !.confirm = TRUE, !.first = first, !.until = u]
      BY <3>1, <3>2
    <3>4. t \in NeStates BY <1>1, <3>1, <3>3 DEF NeStates
    <3>5. t.last = u /\ t.first = first /\ t.until = u BY <3>3 DEF NeStates
    <3> QED BY <3>3, <3>4, <3>5
  <2> HIDE DEF first, last
  <2>3. /\ neState' \in NeStates /\ neState'.last = neState.last /\ neState'.until <= neState'.last
    BY <1>0, <1>1, <1>4, <2>2 DEF NeReady, first, last
  <2>4. ASSUME neForce' # TRUE, NEW f \in NeReferable'
        PROVE  neFrames[f].needs \cap ((neTold \cup reported) \cup (neState'.first .. neState'.until)) = {}
    <3>1. neForce' = neForce BY <1>4, <2>4
    <3>2. CASE AlreadyDone(first, last) /\ UNCHANGED <<neForce, neState, neInvalid>>
      <4>1. f \in NeReferable BY <1>3, <3>2, <2>4 DEF NeReferable
      <4>2. neFrames[f].needs \cap (neTold \cup (neState.first .. neState.until)) = {} BY <1>0, <2>4, <3>1, <4>1 DEF NeReady
      <4>3. reported \subseteq neState.first .. neState.until BY <1>1, <1>4, <2>1, <3>2 DEF AlreadyDone, first, last
      <4> QED BY <3>2, <4>2, <4>3
    <3>3. CASE /\ neState' = Noted(first, last) /\ InvalidRange(first, last).done /\ UNCHANGED neForce
               /\ neInvalid' = neInvalid \cup InvalidRange(first, last).frames
      <4>1. InvalidRange(first, last).frames = first .. neState.last BY <3>3 DEF InvalidRange
      <4>2. f \in NeReferable /\ f \notin first .. neState.last /\ f \in Encoded BY <1>3, <2>4, <3>3, <4>1 DEF NeReferable
      <4>3. f < first BY <1>1, <2>1, <4>2
      <4>4. neFrames[f].needs \subseteq 1 .. f BY <1>0, <4>2 DEF NeReady
      <4>5. neFrames[f].needs \cap neTold = {} BY <1>0, <2>4, <3>1, <4>2 DEF NeReady
      <4>6. neFrames[f].needs \cap (first .. neState.last) = {} BY <1>1, <2>1, <4>2, <4>3, <4>4
      <4>7. reported \subseteq first .. neState.last BY <1>1, <1>4, <2>1 DEF first, last
      <4>8. neState'.first = first /\ neState'.until = neState.last BY <2>2, <3>3
      <4> QED BY <4>5, <4>6, <4>7, <4>8
    <3> QED BY <1>4, <2>4, <3>2, <3>3 DEF first, last
  <2>5. neTold' \subseteq 1 .. neState'.last BY <1>0, <1>2, <2>3 DEF NeReady
  <2>6. \A f \in Encoded' : f \in neFrames'[f].needs /\ neFrames'[f].needs \subseteq 1 .. f BY <1>0, <1>3 DEF NeReady
  <2>7. ~neForce' => \A f \in NeReferable' : neFrames'[f].needs \cap (neTold' \cup (neState'.first .. neState'.until)) = {}
    BY <1>0, <2>4
  <2> QED BY <1>0, <1>1, <1>3, <2>3, <2>5, <2>6, <2>7 DEF NeReady
<1>5. NeReady'
  <2>1. PICK r \in neRequest :
             \/ neForce' = TRUE /\ (neState' = neState \/ neState' = Noted(r[1], r[2]))
             \/ AlreadyDone(r[1], r[2]) /\ UNCHANGED <<neForce, neState, neInvalid>>
             \/ /\ neState' = Noted(r[1], r[2]) /\ InvalidRange(r[1], r[2]).done /\ UNCHANGED neForce
                /\ neInvalid' = neInvalid \cup InvalidRange(r[1], r[2]).frames
    BY DEF TakeRequest
  <2>2. neRequest = {r} BY <1>0 DEF NeReady
  <2>3. reported = r[1] .. r[2] BY <2>2
  <2> QED BY <1>4, <2>1, <2>3
<1>6. ToldFramesAvoided' BY <1>0, <1>3 DEF NeInv, ToldFramesAvoided
<1> QED BY <1>0, <1>5, <1>6 DEF NeInv, NeCreating, NothingLeftInDriver

LEMMA NeReports ==
  ASSUME NeInv, Lose \/ Report
  PROVE  NeInv'
<1>1. UNCHANGED <<nePc, neHeld, neState, neForce, neInvalid, neFrames, neTold>> BY DEF Lose, Report, neWorld
<1>2. Encoded' = Encoded /\ KeyFrames' = KeyFrames /\ NeReferable' = NeReferable BY <1>1 DEF Encoded, KeyFrames, NeReferable
<1>3. ToldFramesAvoided' BY <1>1, <1>2 DEF NeInv, ToldFramesAvoided
<1>4. nePc \notin NeCreating
  <2>1. CASE Report BY <2>1 DEF Report, NeCreating
  <2>2. CASE Lose BY <2>2 DEF Lose, NeInv, NeFresh
  <2> QED BY <2>1, <2>2
<1>5. ASSUME nePc = "ready" PROVE NeReady'
  <2>1. NeReady /\ Encoded = 1 .. neState.last /\ neState.last \in Nat BY <1>5 DEF NeInv, NeReady, NeStates
  <2>2. neLost' \subseteq 1 .. neState.last BY <2>1 DEF Lose, Report, NeReady
  <2>3. CASE Lose
    <3>1. UNCHANGED neRequest BY <2>3 DEF Lose
    <3> QED BY <1>1, <1>2, <2>1, <2>2, <3>1 DEF NeReady
  <2>4. CASE Report
    <3>1. PICK first \in neLost, last \in Encoded : last >= first /\ neRequest' = {<<first, last>>} BY <2>4 DEF Report
    <3>2. first \in 1 .. neState.last /\ last \in 1 .. neState.last BY <2>1, <3>1 DEF NeReady
    <3>3. /\ neRequest' \subseteq (1 .. neState.last) \X (1 .. neState.last)
          /\ \A r, s \in neRequest' : r[1] <= r[2] /\ r = s
      BY <3>1, <3>2
    <3> QED BY <1>1, <1>2, <2>1, <2>2, <3>3 DEF NeReady
  <2> QED BY <2>3, <2>4
<1> QED BY <1>1, <1>3, <1>4, <1>5 DEF NeInv, NothingLeftInDriver

LEMMA NeInvStep == NeInv /\ [NeNext]_neVars => NeInv' BY NeCreated, NeEncodes, NeTakes, NeReports DEF NeNext

\* nvenc_base.cpp, for any GPU, configuration, number of frames and order of
\* losses, reports and requests: no frame needs one the encoder had been told
\* is lost, and a failed creation leaves nothing with the driver.
THEOREM NvencSound == NeSpec => [](ToldFramesAvoided /\ NothingLeftInDriver)
<1>1. NeInv => ToldFramesAvoided /\ NothingLeftInDriver BY DEF NeInv
<1> QED BY <1>1, NeInvStep, NeStarts, PTL DEF NeSpec

-----------------------------------------------------------------------------
(* Sending a frame's shards (SocketSend) *)

SkMoving == {"offload", "messages", "packets"}
SkOut(x) == x \in skGivenUp \/ \E d \in DOMAIN skWire : d[1] = x

SkTyped ==
  /\ skEnv \in SkEnvs /\ skPc \in SkMoving \cup {"next", "done"} /\ skNext \in Nat /\ skSent \in Nat
  /\ skNext <= SkTotal
  /\ skPc = "done" => skNext = SkTotal
  /\ skPc # "done" => skNext < SkTotal
  /\ skPc = "next" => skSent = 0
  /\ skPc \in SkMoving => skSent < BatchCount

\* Datagrams are whole shards.
SkWhole ==
  /\ DOMAIN skWire \subseteq {<<x, ShardData(x)>> : x \in 0 .. SkTotal - 1}
  /\ \A d \in DOMAIN skWire : skWire[d] \in Nat

\* The shards from a place on, and their datagrams going out.
SkShards(from, n) == {<<x, ShardData(x)>> : x \in from .. from + n - 1}
SkWired(sent) ==
  skWire' = [d \in DOMAIN skWire \cup sent |->
               (IF d \in DOMAIN skWire THEN skWire[d] ELSE 0) + (IF d \in sent THEN 1 ELSE 0)]

\* Everything before the place the thread has reached is out or given up.
SkReached == \A x \in Nat : x < skNext + (IF skPc \in SkMoving THEN skSent ELSE 0) => SkOut(x)

\* A shard at or after that place is out only if a call failed in the batch.
SkAhead ==
  \A d \in DOMAIN skWire : d[1] >= skNext =>
     /\ skPc \in SkMoving /\ d[1] < skNext + BatchCount
     /\ d[1] >= skNext + skSent => skNext \in skBroken

\* Part of a batch is sent by offloading only where a call can be.
SkOffloaded == skPc = "offload" /\ skSent > 0 => skEnv.platform = "linux" /\ (skEnv.offload \/ SkSegMax = 1)

SkInv == SkTyped /\ SkWhole /\ SkReached /\ SkAhead /\ SkOffloaded /\ NoNeedlessDuplicates

LEMMA SkNumbers ==
  ASSUME SkTyped
  PROVE  /\ SkTotal \in Nat /\ SkTotal > 0 /\ SkBatch \in Nat /\ SkBatch > 0 /\ SkSegMax \in Nat /\ SkSegMax > 0
         /\ skEnv.frame.data \in Nat /\ skEnv.platform \in {"linux", "windows"} /\ skEnv.offload \in BOOLEAN
         /\ BatchCount \in Nat /\ BatchCount <= SkBatch /\ skNext + BatchCount <= SkTotal
         /\ skNext < SkTotal => BatchCount > 0
<1>1. skEnv.frame \in SkFrames /\ skEnv.platform \in {"linux", "windows"} /\ skEnv.offload \in BOOLEAN
  BY DEF SkTyped, SkEnvs
<1>2. skEnv.frame.data \in Nat /\ skEnv.frame.rest \in Nat /\ skEnv.frame.data + skEnv.frame.rest > 0
  BY <1>1, SkAssumption
<1>3. SkTotal \in Nat /\ SkTotal > 0 BY <1>2 DEF SkTotal
<1>4. SkBatch \in Nat /\ SkBatch > 0 /\ SkSegMax \in Nat /\ SkSegMax > 0 BY SkAssumption
<1>5. skNext \in Nat /\ skNext <= SkTotal BY DEF SkTyped
<1> QED BY <1>1, <1>2, <1>3, <1>4, <1>5 DEF BatchCount, SkSmaller

LEMMA SkStarts == SkInit => SkInv
<1> SUFFICES ASSUME SkInit PROVE SkInv
  OBVIOUS
<1>1. skEnv.frame \in SkFrames BY DEF SkInit, SkEnvs
<1>2. SkTotal \in Nat /\ SkTotal > 0 BY <1>1, SkAssumption DEF SkTotal
<1>3. SkTyped BY <1>2 DEF SkInit, SkTyped, SkMoving
<1>4. SkWhole /\ SkAhead /\ NoNeedlessDuplicates BY DEF SkInit, SkWhole, SkAhead, NoNeedlessDuplicates
<1>5. SkReached /\ SkOffloaded BY DEF SkInit, SkReached, SkOffloaded, SkMoving
<1> QED BY <1>3, <1>4, <1>5 DEF SkInv

\* The datagrams of a message are the shards of its place in the batch.
LEMMA SkEmits ==
  ASSUME SkTyped, NEW offset \in Nat, NEW start \in Nat, NEW count \in Nat, Emit(offset, start, count)
  PROVE  SkWired(SkShards(offset + start, count))
<1> DEFINE blocks == Blocks(offset, start, count)
           headers == HeadersOf(offset, start, count)
           sent == {<<headers[i], blocks[i]>> : i \in 1 .. count}
           meant == {<<x, ShardData(x)>> : x \in offset + start .. offset + start + count - 1}
<1>1. SkWired(sent) BY DEF Emit, SkWired
<1>2. \A i \in 1 .. count : /\ headers[i] = offset + start + i - 1
                            /\ blocks[i] = ShardData(offset + start + i - 1)
  <2> SUFFICES ASSUME NEW i \in 1 .. count
               PROVE  headers[i] = offset + start + i - 1 /\ blocks[i] = ShardData(offset + start + i - 1)
    OBVIOUS
  <2> DEFINE x == offset + start + i - 1
  <2>1. headers[i] = x BY DEF HeadersOf
  <2>2. blocks[i] = <<BufferForPayloadOffset(x).place, BufferForPayloadOffset(x).from>> BY DEF Blocks
  <2> HIDE DEF x
  <2>3. <<BufferForPayloadOffset(x).place, BufferForPayloadOffset(x).from>> = ShardData(x)
    BY DEF BufferForPayloadOffset, ShardData
  <2> QED BY <2>1, <2>2, <2>3 DEF x
<1> HIDE DEF blocks, headers
<1>3. \A i \in 1 .. count : offset + start + i - 1 \in offset + start .. offset + start + count - 1 OBVIOUS
<1>4. \A x \in offset + start .. offset + start + count - 1 :
         x - (offset + start) + 1 \in 1 .. count /\ x = offset + start + (x - (offset + start) + 1) - 1
  OBVIOUS
<1>5. sent \subseteq meant BY <1>2, <1>3
<1>6. meant \subseteq sent
  <2> SUFFICES ASSUME NEW x \in offset + start .. offset + start + count - 1 PROVE <<x, ShardData(x)>> \in sent
    OBVIOUS
  <2>1. PICK i \in 1 .. count : x = offset + start + i - 1 BY <1>4
  <2>2. headers[i] = x /\ blocks[i] = ShardData(x) BY <1>2, <2>1
  <2> QED BY <2>2
<1>7. sent = meant BY <1>5, <1>6
<1>8. meant = SkShards(offset + start, count) BY DEF SkShards
<1> HIDE DEF sent, meant
<1> QED BY <1>1, <1>7, <1>8

\* What goes out from the place reached up to a place in the batch.
LEMMA SkGoesOut ==
  ASSUME SkInv, skPc \in SkMoving, NEW n \in Nat, skSent + n <= BatchCount, UNCHANGED <<skEnv, skBroken>>,
         SkWired(SkShards(skNext + skSent, n))
  PROVE  /\ SkWhole' /\ NoNeedlessDuplicates'
         /\ \A d \in DOMAIN skWire' : d \in DOMAIN skWire \/ d[1] \in skNext + skSent .. skNext + skSent + n - 1
         /\ DOMAIN skWire \subseteq DOMAIN skWire'
         /\ \A x \in skNext + skSent .. skNext + skSent + n - 1 : \E d \in DOMAIN skWire' : d[1] = x
<1>1. /\ SkTotal \in Nat /\ BatchCount \in Nat /\ BatchCount <= SkBatch /\ skNext + BatchCount <= SkTotal
      /\ skNext \in Nat /\ skSent \in Nat /\ SkBatch \in Nat
  BY SkNumbers DEF SkInv, SkTyped
<1> DEFINE lo == skNext + skSent
           hi == skNext + skSent + n - 1
           sent == SkShards(skNext + skSent, n)
<1>0. sent = {<<x, ShardData(x)>> : x \in lo .. hi} BY DEF SkShards
<1>2. lo \in Nat /\ hi \in Int /\ hi < SkTotal /\ hi <= skNext + SkBatch - 1 /\ skNext <= lo BY <1>1
<1>3. SkTotal' = SkTotal /\ \A x : ShardData(x)' = ShardData(x) BY DEF SkTotal, ShardData
<1>4. /\ DOMAIN skWire' = DOMAIN skWire \cup sent
      /\ \A d \in DOMAIN skWire' : skWire'[d] = (IF d \in DOMAIN skWire THEN skWire[d] ELSE 0) + (IF d \in sent THEN 1 ELSE 0)
  BY DEF SkWired
<1> HIDE DEF sent
<1>5. \A d \in sent : d[1] \in lo .. hi /\ d \in {<<x, ShardData(x)>> : x \in 0 .. SkTotal - 1}
  <2> SUFFICES ASSUME NEW x \in lo .. hi
               PROVE  <<x, ShardData(x)>>[1] \in lo .. hi /\ <<x, ShardData(x)>> \in {<<y, ShardData(y)>> : y \in 0 .. SkTotal - 1}
    BY <1>0
  <2>1. x \in 0 .. SkTotal - 1 BY <1>1, <1>2
  <2> QED BY <2>1
<1>6. \A d \in DOMAIN skWire : skWire[d] \in Nat BY DEF SkInv, SkWhole
<1>7. SkWhole'
  <2>1. DOMAIN skWire' \subseteq {<<x, ShardData(x)>> : x \in 0 .. SkTotal - 1} BY <1>4, <1>5 DEF SkInv, SkWhole
  <2>2. {<<x, ShardData(x)>> : x \in 0 .. SkTotal - 1}' = {<<x, ShardData(x)>> : x \in 0 .. SkTotal - 1} BY <1>3 DEF ShardData
  <2>3. \A d \in DOMAIN skWire' : skWire'[d] \in Nat BY <1>4, <1>6
  <2> QED BY <2>1, <2>2, <2>3 DEF SkWhole
<1>8. NoNeedlessDuplicates'
  <2> SUFFICES ASSUME NEW d \in DOMAIN skWire', skWire'[d] > 1
               PROVE  \E first \in skBroken : d[1] \in first .. first + SkBatch - 1
    BY DEF NoNeedlessDuplicates
  <2>1. CASE d \notin sent BY <1>4, <1>6, <2>1 DEF SkInv, NoNeedlessDuplicates
  <2>2. CASE d \in sent
    <3>1. d \in DOMAIN skWire BY <1>4, <2>2
    <3>2. d[1] \in lo .. hi /\ d[1] >= skNext /\ d[1] >= skNext + skSent BY <1>1, <1>2, <1>5, <2>2
    <3>3. skNext \in skBroken BY <3>1, <3>2 DEF SkInv, SkAhead
    <3>4. d[1] \in skNext .. skNext + SkBatch - 1 BY <1>1, <1>2, <3>2
    <3> QED BY <3>3, <3>4
  <2> QED BY <2>1, <2>2
<1>9. \A x \in lo .. hi : \E d \in DOMAIN skWire' : d[1] = x
  <2> SUFFICES ASSUME NEW x \in lo .. hi PROVE \E d \in DOMAIN skWire' : d[1] = x
    OBVIOUS
  <2>1. <<x, ShardData(x)>> \in sent /\ <<x, ShardData(x)>>[1] = x BY <1>0
  <2> QED BY <1>4, <2>1
<1> QED BY <1>4, <1>5, <1>7, <1>8, <1>9

\* The place moves on by n shards that are out or given up.
LEMMA SkMovesOn ==
  ASSUME SkInv, skPc \in SkMoving, NEW n \in Nat, n > 0, skSent + n <= BatchCount, UNCHANGED <<skEnv, skBroken>>,
         DOMAIN skWire \subseteq DOMAIN skWire', skGivenUp \subseteq skGivenUp',
         \A d \in DOMAIN skWire' : d \in DOMAIN skWire \/ d[1] \in skNext + skSent .. skNext + skSent + n - 1,
         \A x \in skNext + skSent .. skNext + skSent + n - 1 : SkOut(x)',
         \/ skSent + n = BatchCount /\ BatchDone
         \/ skSent + n # BatchCount /\ skSent' = skSent + n /\ UNCHANGED <<skPc, skNext>>
  PROVE  SkTyped' /\ SkReached' /\ SkAhead'
<1>1. /\ SkTotal \in Nat /\ BatchCount \in Nat /\ BatchCount <= SkBatch /\ skNext + BatchCount <= SkTotal
      /\ skNext \in Nat /\ skSent \in Nat /\ SkBatch \in Nat
  BY SkNumbers DEF SkInv, SkTyped
<1>2. SkTotal' = SkTotal BY DEF SkTotal
<1>3. \A x \in Nat : x < skNext + skSent => SkOut(x)' BY DEF SkInv, SkReached, SkOut
<1>4. \A x \in Nat : x < skNext + skSent + n => SkOut(x)'
  <2> SUFFICES ASSUME NEW x \in Nat, x < skNext + skSent + n PROVE SkOut(x)'
    OBVIOUS
  <2>1. CASE x < skNext + skSent BY <1>3, <2>1
  <2>2. CASE ~(x < skNext + skSent)
    <3>1. x \in skNext + skSent .. skNext + skSent + n - 1 BY <1>1, <2>2
    <3> QED BY <3>1
  <2> QED BY <2>1, <2>2
<1>5. \A d \in DOMAIN skWire' : d[1] \in Nat /\ d[1] < skNext + BatchCount
  <2> SUFFICES ASSUME NEW d \in DOMAIN skWire' PROVE d[1] \in Nat /\ d[1] < skNext + BatchCount
    OBVIOUS
  <2>1. CASE d \in DOMAIN skWire
    <3>1. d[1] \in Nat BY <1>1, <2>1 DEF SkInv, SkWhole
    <3>2. CASE d[1] >= skNext BY <2>1, <3>1, <3>2 DEF SkInv, SkAhead
    <3>3. CASE ~(d[1] >= skNext) BY <1>1, <3>1, <3>3
    <3> QED BY <3>1, <3>2, <3>3
  <2>2. CASE d \notin DOMAIN skWire
    <3>1. d[1] \in skNext + skSent .. skNext + skSent + n - 1 BY <2>2
    <3> QED BY <1>1, <3>1
  <2> QED BY <2>1, <2>2
<1>6. CASE skSent + n = BatchCount /\ BatchDone
  <2>1. /\ skNext' = skNext + BatchCount /\ skSent' = 0
        /\ skPc' = IF skNext + BatchCount = SkTotal THEN "done" ELSE "next"
    BY <1>6 DEF BatchDone
  <2>2. skPc' \notin SkMoving BY <2>1 DEF SkMoving
  <2>3. SkTyped' BY <1>1, <1>2, <2>1, <2>2 DEF SkInv, SkTyped
  <2>4. SkReached' BY <1>1, <1>4, <1>6, <2>1, <2>2 DEF SkReached
  <2>5. SkAhead'
    <3>1. \A d \in DOMAIN skWire' : ~(d[1] >= skNext') BY <1>1, <1>5, <2>1
    <3> QED BY <3>1 DEF SkAhead
  <2> QED BY <2>3, <2>4, <2>5
<1>7. CASE skSent + n # BatchCount /\ skSent' = skSent + n /\ UNCHANGED <<skPc, skNext>>
  <2>1. BatchCount' = BatchCount BY <1>2, <1>7 DEF BatchCount, SkSmaller
  <2>2. SkTyped'
    <3>1. skSent + n \in Nat /\ skSent + n < BatchCount BY <1>1, <1>7
    <3>2. skPc # "next" BY DEF SkMoving
    <3> QED BY <1>2, <1>7, <2>1, <3>1, <3>2 DEF SkInv, SkTyped
  <2>3. SkReached'
    <3>1. skPc' \in SkMoving /\ skNext' + skSent' = skNext + skSent + n BY <1>1, <1>7
    <3> QED BY <1>4, <3>1 DEF SkReached
  <2>4. SkAhead'
    <3> SUFFICES ASSUME NEW d \in DOMAIN skWire', d[1] >= skNext
                 PROVE  d[1] < skNext + BatchCount /\ (d[1] >= skNext + (skSent + n) => skNext \in skBroken)
      BY <1>7, <2>1 DEF SkAhead
    <3>1. d[1] \in Nat /\ d[1] < skNext + BatchCount BY <1>5
    <3>2. ASSUME d[1] >= skNext + (skSent + n) PROVE skNext \in skBroken
      <4>1. d[1] \notin skNext + skSent .. skNext + skSent + n - 1 BY <1>1, <3>1, <3>2
      <4>2. d \in DOMAIN skWire /\ d[1] >= skNext + skSent BY <1>1, <3>1, <3>2, <4>1
      <4> QED BY <4>2 DEF SkInv, SkAhead
    <3> QED BY <3>1, <3>2
  <2> QED BY <2>2, <2>3, <2>4
<1> QED BY <1>6, <1>7

\* A call fails, and the batch is sent again another way.
LEMMA SkFallsBack ==
  ASSUME SkInv, skPc \in {"offload", "messages"}, UNCHANGED <<skEnv, skWire, skGivenUp, skNext>>, skSent' = 0,
         skPc' \in {"messages", "packets"}, skBroken \subseteq skBroken', skSent = 0 \/ skNext \in skBroken'
  PROVE  SkInv'
<1>1. BatchCount' = BatchCount /\ SkTotal' = SkTotal BY DEF BatchCount, SkSmaller, SkTotal
<1>2. skNext \in Nat /\ skSent \in Nat /\ BatchCount \in Nat /\ SkTotal \in Nat /\ (skNext < SkTotal => BatchCount > 0)
  BY SkNumbers DEF SkInv, SkTyped
<1>3. SkTyped' BY <1>1, <1>2 DEF SkInv, SkTyped, SkMoving
<1>4. SkWhole' BY <1>1 DEF SkInv, SkWhole, ShardData
<1>5. SkReached'
  <2>1. skPc \in SkMoving BY DEF SkMoving
  <2>2. \A x \in Nat : x < skNext + skSent => SkOut(x)' BY <2>1 DEF SkInv, SkReached, SkOut
  <2>3. \A x \in Nat : x < skNext => x < skNext + skSent BY <1>2
  <2> QED BY <1>2, <2>2, <2>3 DEF SkReached
<1>6. SkAhead'
  <2> SUFFICES ASSUME NEW d \in DOMAIN skWire, d[1] >= skNext
               PROVE  skPc' \in SkMoving /\ d[1] < skNext + BatchCount /\ skNext \in skBroken'
    BY <1>1 DEF SkAhead
  <2>1. d[1] < skNext + BatchCount /\ (d[1] >= skNext + skSent => skNext \in skBroken) BY DEF SkInv, SkAhead
  <2>2. CASE skSent = 0 BY <1>2, <2>1, <2>2 DEF SkMoving
  <2>3. CASE skSent # 0 BY <1>2, <2>1, <2>3 DEF SkMoving
  <2> QED BY <2>2, <2>3
<1>7. SkOffloaded' BY DEF SkOffloaded
<1>8. NoNeedlessDuplicates' BY DEF SkInv, NoNeedlessDuplicates
<1> QED BY <1>3, <1>4, <1>5, <1>6, <1>7, <1>8 DEF SkInv

LEMMA SkSends ==
  ASSUME SkInv, \/ OffloadSent \/ (\E n \in 1 .. SkBatch : SendMmsg(n)) \/ SendPacket
  PROVE  SkInv'
<1>0. /\ SkTotal \in Nat /\ BatchCount \in Nat /\ skNext \in Nat /\ skSent \in Nat /\ SkSegMax \in Nat /\ SkSegMax > 0
      /\ skEnv.platform \in {"linux", "windows"} /\ SkTyped
  BY SkNumbers DEF SkInv, SkTyped
<1>1. ASSUME NEW n \in Nat, n > 0, skSent + n <= BatchCount, skPc \in SkMoving, UNCHANGED <<skEnv, skBroken, skGivenUp>>,
             SkWired(SkShards(skNext + skSent, n)),
             \/ skSent + n = BatchCount /\ BatchDone
             \/ skSent + n # BatchCount /\ skSent' = skSent + n /\ UNCHANGED <<skPc, skNext>>,
             SkOffloaded'
      PROVE  SkInv'
  <2>1. /\ SkWhole' /\ NoNeedlessDuplicates'
        /\ \A d \in DOMAIN skWire' : d \in DOMAIN skWire \/ d[1] \in skNext + skSent .. skNext + skSent + n - 1
        /\ DOMAIN skWire \subseteq DOMAIN skWire'
        /\ \A x \in skNext + skSent .. skNext + skSent + n - 1 : \E d \in DOMAIN skWire' : d[1] = x
    BY <1>1, SkGoesOut
  <2>2. \A x \in skNext + skSent .. skNext + skSent + n - 1 : SkOut(x)' BY <2>1 DEF SkOut
  <2>3. SkTyped' /\ SkReached' /\ SkAhead' BY <1>1, <2>1, <2>2, SkMovesOn
  <2> QED BY <1>1, <2>1, <2>3 DEF SkInv
<1>2. BatchDone => skPc' # "offload" BY DEF BatchDone
<1>3. CASE OffloadSent
  <2> DEFINE n == SegsInBatch
  <2>1. skPc = "offload" /\ skPc \in SkMoving /\ skSent < BatchCount BY <1>0, <1>3 DEF OffloadSent, SkTyped, SkMoving
  <2>2. n \in Nat /\ n > 0 /\ skSent + n <= BatchCount BY <1>0, <2>1 DEF SegsInBatch, SkSmaller
  <2>3. Emit(skNext, skSent, n) /\ UNCHANGED <<skEnv, skGivenUp, skBroken>> /\ OffloadSupported(n) BY <1>3 DEF OffloadSent
  <2>4. \/ skSent + n = BatchCount /\ BatchDone
        \/ skSent + n # BatchCount /\ skSent' = skSent + n /\ UNCHANGED <<skPc, skNext>>
    BY <1>3 DEF OffloadSent, OffloadComplete
  <2>5. SkOffloaded'
    <3>1. CASE skSent + n = BatchCount /\ BatchDone BY <1>2, <3>1 DEF SkOffloaded
    <3>2. CASE skSent + n # BatchCount
      <4>1. skEnv.platform = "linux" /\ n = SkSegMax BY <1>0, <2>1, <3>2 DEF SegsInBatch, SkSmaller
      <4>2. skEnv.offload \/ SkSegMax = 1 BY <2>3, <4>1 DEF OffloadSupported
      <4> QED BY <2>3, <4>1, <4>2 DEF SkOffloaded
    <3> QED BY <2>4, <3>1, <3>2
  <2> HIDE DEF n
  <2>6. SkWired(SkShards(skNext + skSent, n))
    BY <1>0, <2>2, <2>3, SkEmits
  <2> QED BY <1>1, <2>1, <2>2, <2>3, <2>4, <2>5, <2>6
<1>4. CASE \E n \in 1 .. SkBatch : SendMmsg(n)
  <2>1. PICK n \in 1 .. SkBatch : SendMmsg(n) BY <1>4
  <2>2. skPc = "messages" /\ skPc \in SkMoving /\ n \in 1 .. BatchCount - skSent BY <2>1 DEF SendMmsg, SkMoving
  <2>3. n \in Nat /\ n > 0 /\ skSent + n <= BatchCount BY <1>0, <2>2
  <2>4. Emit(skNext, skSent, n) /\ UNCHANGED <<skEnv, skGivenUp, skBroken>> BY <2>1 DEF SendMmsg
  <2>5. \/ skSent + n = BatchCount /\ BatchDone
        \/ skSent + n # BatchCount /\ skSent' = skSent + n /\ UNCHANGED <<skPc, skNext>>
    BY <2>1 DEF SendMmsg
  <2>6. SkOffloaded' BY <1>2, <2>2, <2>5 DEF SkOffloaded
  <2>7. SkWired(SkShards(skNext + skSent, n))
    BY <1>0, <2>3, <2>4, SkEmits
  <2> QED BY <1>1, <2>2, <2>3, <2>4, <2>5, <2>6, <2>7
<1>5. CASE SendPacket
  <2> DEFINE at == skNext + skSent
  <2>1. skPc = "packets" /\ skPc \in SkMoving /\ UNCHANGED <<skEnv, skGivenUp, skBroken>> BY <1>5 DEF SendPacket, SkMoving
  <2>2. skSent + 1 <= BatchCount BY <1>0, <2>1 DEF SkTyped
  <2>3. at .. at + 1 - 1 = {at} BY <1>0
  <2>4. SkShards(at, 1) = {<<at, ShardData(at)>>} BY <2>3 DEF SkShards
  <2>5. SkWired({<<at, ShardData(at)>>}) BY <1>5 DEF SendPacket, SkWired
  <2>6. \/ skSent + 1 = BatchCount /\ BatchDone
        \/ skSent + 1 # BatchCount /\ skSent' = skSent + 1 /\ UNCHANGED <<skPc, skNext>>
    BY <1>5 DEF SendPacket, NextPacket
  <2>7. SkOffloaded' BY <1>2, <2>1, <2>6 DEF SkOffloaded
  <2>8. SkWired(SkShards(at, 1)) /\ 1 \in Nat /\ 1 > 0 BY <2>4, <2>5
  <2> QED BY <1>1, <2>1, <2>2, <2>6, <2>7, <2>8
<1> QED BY <1>3, <1>4, <1>5

LEMMA SkGivesUp ==
  ASSUME SkInv, SendMmsgPollFails \/ SendPacketFails
  PROVE  SkInv'
<1>0. /\ SkTotal \in Nat /\ BatchCount \in Nat /\ skNext \in Nat /\ skSent \in Nat /\ SkTyped
  BY SkNumbers DEF SkInv, SkTyped
<1>1. UNCHANGED <<skEnv, skWire, skBroken>> /\ skPc \in SkMoving /\ skSent < BatchCount /\ skPc # "offload"
  BY <1>0 DEF SendMmsgPollFails, SendPacketFails, SkTyped, SkMoving
<1>2. \E n \in Nat : /\ n > 0 /\ skSent + n <= BatchCount
                     /\ skGivenUp' = skGivenUp \cup (skNext + skSent .. skNext + skSent + n - 1)
                     /\ \/ skSent + n = BatchCount /\ BatchDone
                        \/ skSent + n # BatchCount /\ skSent' = skSent + n /\ UNCHANGED <<skPc, skNext>>
  <2>1. CASE SendMmsgPollFails
    <3>1. skGivenUp' = skGivenUp \cup (skNext + skSent .. skNext + BatchCount - 1) /\ BatchDone BY <2>1 DEF SendMmsgPollFails
    <3>2. PICK n \in Nat : n = BatchCount - skSent BY <1>0, <1>1
    <3>3. n > 0 /\ skSent + n = BatchCount /\ skNext + skSent + n - 1 = skNext + BatchCount - 1 BY <1>0, <1>1, <3>2
    <3> QED BY <1>0, <3>1, <3>3
  <2>2. CASE SendPacketFails
    <3>1. skGivenUp' = skGivenUp \cup {skNext + skSent} BY <2>2 DEF SendPacketFails
    <3>2. skNext + skSent .. skNext + skSent + 1 - 1 = {skNext + skSent} BY <1>0
    <3>3. \/ skSent + 1 = BatchCount /\ BatchDone
          \/ skSent + 1 # BatchCount /\ skSent' = skSent + 1 /\ UNCHANGED <<skPc, skNext>>
      BY <2>2 DEF SendPacketFails, NextPacket
    <3>4. 1 \in Nat /\ 1 > 0 /\ skSent + 1 <= BatchCount BY <1>0, <1>1
    <3> QED BY <3>1, <3>2, <3>3, <3>4
  <2> QED BY <2>1, <2>2
<1>3. PICK n \in Nat : /\ n > 0 /\ skSent + n <= BatchCount
                       /\ skGivenUp' = skGivenUp \cup (skNext + skSent .. skNext + skSent + n - 1)
                       /\ \/ skSent + n = BatchCount /\ BatchDone
                          \/ skSent + n # BatchCount /\ skSent' = skSent + n /\ UNCHANGED <<skPc, skNext>>
  BY <1>2
<1>4. /\ \A x \in skNext + skSent .. skNext + skSent + n - 1 : SkOut(x)'
      /\ \A d \in DOMAIN skWire' : d \in DOMAIN skWire \/ d[1] \in skNext + skSent .. skNext + skSent + n - 1
      /\ DOMAIN skWire \subseteq DOMAIN skWire' /\ skGivenUp \subseteq skGivenUp'
  BY <1>1, <1>3 DEF SkOut
<1>5. SkTyped' /\ SkReached' /\ SkAhead' BY <1>1, <1>3, <1>4, SkMovesOn
<1>6. SkWhole' /\ NoNeedlessDuplicates' BY <1>1 DEF SkInv, SkWhole, NoNeedlessDuplicates, ShardData, SkTotal
<1>7. SkOffloaded' BY <1>1, <1>3 DEF SkOffloaded, BatchDone
<1> QED BY <1>5, <1>6, <1>7 DEF SkInv

LEMMA SkSteps ==
  ASSUME SkInv, [SkStep]_skVars
  PROVE  SkInv'
<1>0. /\ SkTotal \in Nat /\ BatchCount \in Nat /\ skNext \in Nat /\ skSent \in Nat /\ SkSegMax \in Nat /\ SkSegMax > 0
      /\ skEnv.platform \in {"linux", "windows"} /\ SkTyped /\ (skNext < SkTotal => BatchCount > 0)
  BY SkNumbers DEF SkInv, SkTyped
<1>1. CASE StartBatch
  <2>1. skPc = "next" /\ skPc' = "offload" /\ skSent' = 0 /\ skSent = 0 /\ UNCHANGED <<skEnv, skNext, skWire, skGivenUp, skBroken>>
    BY <1>0, <1>1 DEF StartBatch, SkTyped
  <2>2. BatchCount' = BatchCount /\ SkTotal' = SkTotal BY <2>1 DEF BatchCount, SkSmaller, SkTotal
  <2>3. SkTyped' BY <1>0, <2>1, <2>2 DEF SkTyped, SkMoving
  <2>4. SkWhole' /\ NoNeedlessDuplicates' BY <2>1, <2>2 DEF SkInv, SkWhole, NoNeedlessDuplicates, ShardData
  <2>5. SkReached' BY <2>1 DEF SkInv, SkReached, SkOut, SkMoving
  <2>6. SkAhead' BY <2>1 DEF SkInv, SkAhead, SkMoving
  <2>7. SkOffloaded' BY <2>1 DEF SkOffloaded
  <2> QED BY <2>3, <2>4, <2>5, <2>6, <2>7 DEF SkInv
<1>2. CASE OffloadFails
  <2>1. /\ skPc = "offload" /\ UNCHANGED <<skEnv, skWire, skGivenUp, skNext>> /\ skSent' = 0
        /\ skPc' \in {"messages", "packets"}
    BY <1>2 DEF OffloadFails, OffloadGivesUp, FallBack
  <2>2. skBroken' = IF OffloadSupported(SegsInBatch) THEN skBroken \cup {skNext} ELSE skBroken BY <1>2 DEF OffloadFails
  <2>3. ASSUME skSent > 0 PROVE OffloadSupported(SegsInBatch)
    <3>1. skEnv.platform = "linux" /\ (skEnv.offload \/ SkSegMax = 1) BY <2>1, <2>3 DEF SkInv, SkOffloaded
    <3>2. skSent < BatchCount BY <1>0, <2>1 DEF SkTyped, SkMoving
    <3>3. SkSegMax = 1 => SegsInBatch = 1 BY <1>0, <3>1, <3>2 DEF SegsInBatch, SkSmaller
    <3> QED BY <3>1, <3>3 DEF OffloadSupported
  <2>4. skBroken \subseteq skBroken' /\ (skSent = 0 \/ skNext \in skBroken') BY <1>0, <2>2, <2>3
  <2> QED BY <2>1, <2>4, SkFallsBack
<1>3. CASE SendMmsgFails
  <2>1. /\ skPc = "messages" /\ UNCHANGED <<skEnv, skWire, skGivenUp, skNext>> /\ skSent' = 0
        /\ skPc' = "packets" /\ skBroken' = skBroken \cup {skNext}
    BY <1>3 DEF SendMmsgFails, FallBack
  <2> QED BY <2>1, SkFallsBack
<1>4. CASE UNCHANGED skVars
  BY <1>4 DEF skVars, SkInv, SkTyped, SkWhole, SkReached, SkAhead, SkOffloaded, SkOut, NoNeedlessDuplicates, BatchCount,
              SkSmaller, SkTotal, ShardData
<1> QED BY <1>1, <1>2, <1>3, <1>4, SkSends, SkGivesUp DEF SkStep

LEMMA SkSuffices == SkInv => DatagramsWhole /\ EveryShardSent /\ NoNeedlessDuplicates
<1> SUFFICES ASSUME SkInv PROVE DatagramsWhole /\ EveryShardSent
  BY DEF SkInv
<1>0. SkTotal \in Nat BY SkNumbers DEF SkInv
<1>1. DatagramsWhole BY DEF SkInv, SkWhole, DatagramsWhole
<1>2. EveryShardSent
  <2> SUFFICES ASSUME skPc = "done", NEW x \in 0 .. SkTotal - 1 PROVE SkOut(x)
    BY DEF EveryShardSent, SkOut
  <2>1. skNext = SkTotal /\ skPc \notin SkMoving BY DEF SkInv, SkTyped, SkMoving
  <2>2. x \in Nat /\ x < skNext + 0 BY <1>0, <2>1
  <2> QED BY <2>1, <2>2 DEF SkInv, SkReached
<1> QED BY <1>1, <1>2

\* stream.cpp, videoBroadcastThread with send_batch and send of both platforms,
\* for any frame, batch and segment count: datagrams are whole shards under
\* their own headers, none is left out but those given up, and none goes out
\* twice unless a call failed in its batch.
THEOREM ShardsSent == SkSpec => [](DatagramsWhole /\ EveryShardSent /\ NoNeedlessDuplicates)
<1>1. SkInv /\ [SkStep]_skVars => SkInv' BY SkSteps
<1> QED BY <1>1, SkStarts, SkSuffices, PTL DEF SkSpec

-----------------------------------------------------------------------------
(* The arrangement of displays (DisplayLayout) *)

LEMMA DlParts ==
  ASSUME NEW b \in DlBox
  PROVE  /\ b.x \in Int /\ b.y \in Int /\ b.w \in Int /\ b.h \in Int /\ b.w > 0 /\ b.h > 0
  BY DEF DlBox

LEMMA DlShift ==
  ASSUME NEW b \in DlBox, NEW dx \in Int, NEW dy \in Int
  PROVE  /\ Shifted(b, dx, dy) \in DlBox
         /\ Shifted(b, dx, dy).x = b.x + dx /\ Shifted(b, dx, dy).y = b.y + dy
         /\ Shifted(b, dx, dy).w = b.w /\ Shifted(b, dx, dy).h = b.h
<1>1. PICK s : s = Shifted(b, dx, dy) OBVIOUS
<1>2. b.x + dx \in Int /\ b.y + dy \in Int BY DlParts
<1>3. b = [x |-> b.x, y |-> b.y, w |-> b.w, h |-> b.h] BY DEF DlBox
<1>4. s = [x |-> b.x + dx, y |-> b.y + dy, w |-> b.w, h |-> b.h] BY <1>1, <1>3 DEF Shifted
<1>5. s \in DlBox BY <1>4, <1>2 DEF DlBox
<1>6. s.x = b.x + dx /\ s.y = b.y + dy /\ s.w = b.w /\ s.h = b.h BY <1>4
<1> QED BY <1>1, <1>5, <1>6

\* "Further to the lower right" orders the displays.
LEMMA DlOrder ==
  ASSUME dlBoxes \in Seq(DlBox), NEW i \in Displays, NEW j \in Displays, NEW k \in Displays
  PROVE  /\ LowerRight(i, i)
         /\ LowerRight(i, j) \/ LowerRight(j, i)
         /\ LowerRight(i, j) /\ LowerRight(j, k) => LowerRight(i, k)
<1>1. \A n \in Displays : dlBoxes[n] \in DlBox /\ n \in Int BY DEF Displays
<1>2. \A n \in Displays : dlBoxes[n].x + dlBoxes[n].w \in Int /\ dlBoxes[n].y + dlBoxes[n].h \in Int BY <1>1, DlParts
<1> QED BY <1>1, <1>2 DEF LowerRight

LEMMA DlReals ==
  ASSUME dlBoxes \in Seq(DlBox)
  PROVE  Len(dlBoxes) \in Nat /\ Displays = 1 .. Len(dlBoxes) /\ Reals = 2 .. Len(dlBoxes)
  BY DEF Displays, Reals

\* There is a display at the lower right of all.
LEMMA DlLowerRightmost ==
  ASSUME dlBoxes \in Seq(DlBox), Reals # {}
  PROVE  \E m \in Reals : \A j \in Reals : LowerRight(m, j)
<1> DEFINE Best(n) == \E m \in 2 .. n : \A j \in 2 .. n : LowerRight(m, j)
           Bad == {n \in 2 .. Len(dlBoxes) : ~Best(n)}
<1>1. Len(dlBoxes) \in Nat /\ Displays = 1 .. Len(dlBoxes) /\ Reals = 2 .. Len(dlBoxes) /\ Len(dlBoxes) >= 2
  BY DlReals
<1>2. Bad = {}
  <2> SUFFICES ASSUME Bad # {} PROVE FALSE
    OBVIOUS
  <2>1. Bad \subseteq Nat BY <1>1
  <2>2. PICK n \in Bad : \A b \in Bad : n <= b
    <3> HIDE DEF Bad
    <3> QED BY <2>1, IgLeast
  <2>3. n \in 2 .. Len(dlBoxes) /\ ~Best(n) BY <2>2
  <2>4. CASE n = 2
    <3>1. LowerRight(2, 2) BY <1>1, DlOrder
    <3>2. \A j \in 2 .. n : LowerRight(2, j)
      <4>1. \A j \in 2 .. n : j = 2 BY <2>4
      <4> QED BY <4>1, <3>1
    <3>3. 2 \in 2 .. n BY <2>4
    <3> QED BY <3>2, <3>3, <2>3
  <2>5. CASE n > 2
    <3>1. n - 1 \in 2 .. Len(dlBoxes) /\ ~(n <= n - 1) BY <2>5, <2>3, <1>1
    <3>2. Best(n - 1) BY <3>1, <2>2
    <3>3. PICK m \in 2 .. n - 1 : \A j \in 2 .. n - 1 : LowerRight(m, j) BY <3>2
    <3>4. m \in Displays /\ n \in Displays /\ m \in 2 .. n /\ n \in 2 .. n BY <3>3, <2>3, <1>1
    <3>5. \A j \in 2 .. n : j = n \/ j \in 2 .. n - 1 BY <2>3
    <3>6. \A j \in 2 .. n : j \in Displays BY <2>3, <1>1
    <3>7. CASE LowerRight(m, n)
      <4>1. \A j \in 2 .. n : LowerRight(m, j) BY <3>3, <3>5, <3>7
      <4> HIDE DEF LowerRight
      <4>2. Best(n) BY <4>1, <3>4
      <4> QED BY <4>2, <2>3
    <3>8. CASE LowerRight(n, m)
      <4>1. LowerRight(n, n) BY <3>4, DlOrder
      <4>2. ASSUME NEW j \in 2 .. n PROVE LowerRight(n, j)
        <5>1. CASE j = n BY <5>1, <4>1
        <5>2. CASE j \in 2 .. n - 1
          <6>1. LowerRight(m, j) /\ j \in Displays BY <5>2, <3>3, <3>6
          <6> QED BY <6>1, <3>8, <3>4, DlOrder
        <5> QED BY <5>1, <5>2, <3>5
      <4>3. Best(n) BY <4>2, <3>4
      <4> QED BY <4>3, <2>3
    <3> QED BY <3>7, <3>8, <3>4, DlOrder
  <2> QED BY <2>4, <2>5, <2>3
<1>3. Len(dlBoxes) \in 2 .. Len(dlBoxes) BY <1>1
<1>4. Best(Len(dlBoxes)) BY <1>2, <1>3
<1> QED BY <1>4, <1>1

\* What a display moves by is a number.
LEMMA DlFirstLeast ==
  ASSUME NEW a \in Int, NEW b \in Int, NEW c \in Int, NEW d \in Int
  PROVE  FirstLeast(<<a, b, c, d>>) \in Int
<1> DEFINE ds == <<a, b, c, d>>
           First(k) == \A j \in 1 .. 4 : Abs(ds[k]) < Abs(ds[j]) \/ (Abs(ds[k]) = Abs(ds[j]) /\ k <= j)
<1>1. \A x \in Int : Abs(x) \in Int BY DEF Abs
<1>2. ds[1] = a /\ ds[2] = b /\ ds[3] = c /\ ds[4] = d OBVIOUS
<1>3. \A k \in 1 .. 4 : ds[k] \in Int BY <1>2
<1>4. \A k \in 1 .. 4 : Abs(ds[k]) \in Int BY <1>1, <1>3
<1>5. \A k \in 1 .. 4 : k = 1 \/ k = 2 \/ k = 3 \/ k = 4 OBVIOUS
<1>6. \E k \in 1 .. 4 : First(k)
  <2> HIDE DEF ds
  <2>1. CASE Abs(ds[1]) <= Abs(ds[2]) /\ Abs(ds[1]) <= Abs(ds[3]) /\ Abs(ds[1]) <= Abs(ds[4])
    <3>1. First(1) BY <2>1, <1>4, <1>5
    <3> QED BY <3>1
  <2>2. CASE Abs(ds[2]) < Abs(ds[1]) /\ Abs(ds[2]) <= Abs(ds[3]) /\ Abs(ds[2]) <= Abs(ds[4])
    <3>1. First(2) BY <2>2, <1>4, <1>5
    <3> QED BY <3>1
  <2>3. CASE Abs(ds[3]) < Abs(ds[1]) /\ Abs(ds[3]) < Abs(ds[2]) /\ Abs(ds[3]) <= Abs(ds[4])
    <3>1. First(3) BY <2>3, <1>4, <1>5
    <3> QED BY <3>1
  <2>4. CASE Abs(ds[4]) < Abs(ds[1]) /\ Abs(ds[4]) < Abs(ds[2]) /\ Abs(ds[4]) < Abs(ds[3])
    <3>1. First(4) BY <2>4, <1>4, <1>5
    <3> QED BY <3>1
  <2> QED BY <2>1, <2>2, <2>3, <2>4, <1>4
<1>7. PICK k \in 1 .. 4 : First(k) BY <1>6
<1> HIDE DEF ds
<1>8. \A j \in 1 .. 4 : k <= j => k \in 1 .. j BY <1>7
<1>9. \A j \in 1 .. 4 : Abs(ds[k]) < Abs(ds[j]) \/ (Abs(ds[k]) = Abs(ds[j]) /\ \E i \in 1 .. j : ds[i] = ds[k])
  BY <1>7, <1>8
<1>10. ds[k] \in {ds[j] : j \in 1 .. 4} BY <1>7
<1>11. FirstLeast(ds) \in {ds[j] : j \in 1 .. 4} BY <1>9, <1>10, Zenon DEF FirstLeast
<1> QED BY <1>11, <1>3 DEF ds

LEMMA DlMoves ==
  ASSUME NEW u \in DlBox, NEW c \in DlBox
  PROVE  MoveToBeConnected(u, c)[1] \in Int /\ MoveToBeConnected(u, c)[2] \in Int
<1>1. \A b \in DlBox : LeastDx(b, c) \in Int /\ LeastDy(b, c) \in Int
  <2> SUFFICES ASSUME NEW b \in DlBox PROVE LeastDx(b, c) \in Int /\ LeastDy(b, c) \in Int
    OBVIOUS
  <2>1. /\ c.x - b.x \in Int /\ c.x - b.x - b.w \in Int /\ c.x + c.w - b.x \in Int /\ c.x + c.w - b.x - b.w \in Int
        /\ c.y - b.y \in Int /\ c.y - b.y - b.h \in Int /\ c.y + c.h - b.y \in Int /\ c.y + c.h - b.y - b.h \in Int
    BY DlParts
  <2> QED BY <2>1, DlFirstLeast DEF LeastDx, LeastDy, Gaps
<1>2. \A b \in DlBox : YMove(b, c) \in Int BY <1>1 DEF YMove
<1>3. Shifted(u, LeastDx(u, c), 0) \in DlBox BY <1>1, DlShift
<1> DEFINE v == Shifted(u, LeastDx(u, c), 0)
           ms == {<<b.x - u.x, YMove(b, c)>> : b \in {v}}
<1>4. <<v.x - u.x, YMove(v, c)>> \in ms OBVIOUS
<1>5. (CHOOSE m \in ms : TRUE) = <<v.x - u.x, YMove(v, c)>>
  <2> HIDE DEF v
  <2>1. \A m \in ms : m = <<v.x - u.x, YMove(v, c)>> OBVIOUS
  <2> HIDE DEF ms
  <2> QED BY <2>1, <1>4
<1>6. v.x - u.x \in Int /\ YMove(v, c) \in Int BY <1>2, <1>3, DlParts
<1>7. \/ MoveToBeConnected(u, c) = <<0, 0>>
      \/ MoveToBeConnected(u, c) = <<0, YMove(u, c)>>
      \/ MoveToBeConnected(u, c) = (CHOOSE m \in ms : TRUE)
  BY Zenon DEF MoveToBeConnected
<1> HIDE DEF v, ms
<1>8. PICK m : m = MoveToBeConnected(u, c) OBVIOUS
<1>9. \/ m = <<0, 0>> \/ m = <<0, YMove(u, c)>> \/ m = <<v.x - u.x, YMove(v, c)>> BY <1>5, <1>7, <1>8
<1>10. m[1] \in Int /\ m[2] \in Int BY <1>2, <1>6, <1>9
<1> QED BY <1>8, <1>10

\* Displays that touch do so wherever both are moved.
LEMMA DlTouching ==
  ASSUME NEW u \in DlBox, NEW c \in DlBox, NEW dx \in Int, NEW dy \in Int, Touching(u, c)
  PROVE  Touching(Shifted(u, dx, dy), Shifted(c, dx, dy))
<1> DEFINE v == Shifted(u, dx, dy)
           d == Shifted(c, dx, dy)
           To(p) == [l |-> <<p.l[1] + dx, p.l[2] + dy>>, r |-> <<p.r[1] + dx, p.r[2] + dy>>]
<1>1. /\ u.x \in Int /\ u.y \in Int /\ u.w \in Int /\ u.h \in Int
      /\ c.x \in Int /\ c.y \in Int /\ c.w \in Int /\ c.h \in Int BY DlParts
<1>2. /\ v.x = u.x + dx /\ v.y = u.y + dy /\ v.w = u.w /\ v.h = u.h
      /\ d.x = c.x + dx /\ d.y = c.y + dy /\ d.w = c.w /\ d.h = c.h BY DlShift
<1> HIDE DEF v, d
<1>3. /\ \A p \in Corners(u) : p[1] \in Int /\ p[2] \in Int /\ <<p[1] + dx, p[2] + dy>> \in Corners(v)
      /\ \A p \in Corners(c) : p[1] \in Int /\ p[2] \in Int /\ <<p[1] + dx, p[2] + dy>> \in Corners(d)
  BY <1>1, <1>2 DEF Corners
<1>4. ASSUME NEW p \in Pairs(u, c)
      PROVE  /\ To(p) \in Pairs(v, d) /\ Dx(To(p)) = Dx(p) /\ Dy(To(p)) = Dy(p)
             /\ \A axis \in {1, 2} : /\ p.l[axis] <= p.r[axis] => To(p).l[axis] <= To(p).r[axis]
                                     /\ p.l[axis] >= p.r[axis] => To(p).l[axis] >= To(p).r[axis]
  <2>1. PICK q \in Corners(c), r \in Corners(u) : p = [l |-> q, r |-> r] BY DEF Pairs
  <2>2. p.l = q /\ p.r = r BY <2>1
  <2>3. /\ q[1] \in Int /\ q[2] \in Int /\ <<q[1] + dx, q[2] + dy>> \in Corners(d)
        /\ r[1] \in Int /\ r[2] \in Int /\ <<r[1] + dx, r[2] + dy>> \in Corners(v)
    BY <1>3
  <2>4. To(p) = [l |-> <<q[1] + dx, q[2] + dy>>, r |-> <<r[1] + dx, r[2] + dy>>] BY <2>2
  <2>5. To(p) \in Pairs(v, d) BY <2>3, <2>4 DEF Pairs
  <2>6. Dx(To(p)) = Dx(p) /\ Dy(To(p)) = Dy(p) BY <2>2, <2>3, <2>4 DEF Dx, Dy
  <2>7. /\ To(p).l[1] = q[1] + dx /\ To(p).l[2] = q[2] + dy
        /\ To(p).r[1] = r[1] + dx /\ To(p).r[2] = r[2] + dy BY <2>4
  <2> QED BY <2>2, <2>3, <2>5, <2>6, <2>7
<1> HIDE DEF To
<1>5. CASE \E p \in Pairs(u, c) : Abs(Dx(p)) <= 1 /\ Abs(Dy(p)) <= 1
  <2>1. PICK p \in Pairs(u, c) : Abs(Dx(p)) <= 1 /\ Abs(Dy(p)) <= 1 BY <1>5
  <2>2. To(p) \in Pairs(v, d) /\ Abs(Dx(To(p))) <= 1 /\ Abs(Dy(To(p))) <= 1 BY <2>1, <1>4
  <2> QED BY <2>2 DEF Touching, v, d
<1>6. CASE Interleaved({p \in Pairs(u, c) : Abs(Dx(p)) <= 1}, 2)
  <2>1. PICK p, q \in Pairs(u, c) : /\ Abs(Dx(p)) <= 1 /\ p.l[2] <= p.r[2]
                                    /\ Abs(Dx(q)) <= 1 /\ q.l[2] >= q.r[2]
    BY <1>6 DEF Interleaved
  <2>2. /\ To(p) \in Pairs(v, d) /\ Abs(Dx(To(p))) <= 1 /\ To(p).l[2] <= To(p).r[2]
        /\ To(q) \in Pairs(v, d) /\ Abs(Dx(To(q))) <= 1 /\ To(q).l[2] >= To(q).r[2] BY <2>1, <1>4
  <2>3. Interleaved({e \in Pairs(v, d) : Abs(Dx(e)) <= 1}, 2) BY <2>2 DEF Interleaved
  <2> QED BY <2>3 DEF Touching, v, d
<1>7. CASE Interleaved({p \in Pairs(u, c) : Abs(Dy(p)) <= 1}, 1)
  <2>1. PICK p, q \in Pairs(u, c) : /\ Abs(Dy(p)) <= 1 /\ p.l[1] <= p.r[1]
                                    /\ Abs(Dy(q)) <= 1 /\ q.l[1] >= q.r[1]
    BY <1>7 DEF Interleaved
  <2>2. /\ To(p) \in Pairs(v, d) /\ Abs(Dy(To(p))) <= 1 /\ To(p).l[1] <= To(p).r[1]
        /\ To(q) \in Pairs(v, d) /\ Abs(Dy(To(q))) <= 1 /\ To(q).l[1] >= To(q).r[1] BY <2>1, <1>4
  <2>3. Interleaved({e \in Pairs(v, d) : Abs(Dy(e)) <= 1}, 1) BY <2>2 DEF Interleaved
  <2> QED BY <2>3 DEF Touching, v, d
<1> QED BY <1>5, <1>6, <1>7 DEF Touching

DlJoined == \A S \in (SUBSET Reals) \ {{}, Reals} : \E i \in S, j \in Reals \ S : Touching(dlStart[i], dlStart[j])

\* Where the displays are once the virtual one has its place at the origin:
\* the others above and to the left of it, and moved as one.
DlPlaced ==
  /\ dlBoxes[1].x = 0 /\ dlBoxes[1].y = 0
  /\ \A i \in Reals : LET r == dlBoxes[i].x + dlBoxes[i].w
                      IN  r < 0 \/ (r = 0 /\ dlBoxes[i].y + dlBoxes[i].h <= 0)
  /\ \E dx, dy \in Int : \A i \in Reals : dlBoxes[i] = Shifted(dlStart[i], dx, dy)

DlTyped ==
  /\ dlStart \in DlLayouts /\ dlBoxes \in Seq(DlBox) /\ Len(dlBoxes) = Len(dlStart)
  /\ dlStep \in {"place", "connect", "apply", "done"} /\ dlConnected \subseteq Displays
  /\ dlStep = "place" => dlBoxes = dlStart

DlInv ==
  /\ DlTyped
  /\ dlStep \in {"connect", "apply"} /\ DlJoined => DlPlaced
  /\ dlStep = "done" => LayoutIsolated

LEMMA DlStarts == DlInit => DlInv
<1> SUFFICES ASSUME DlInit PROVE DlInv
  OBVIOUS
<1>1. dlStart \in DlLayouts /\ dlBoxes = dlStart /\ dlConnected = {} /\ dlStep = "place" BY DEF DlInit
<1>2. dlStart \in Seq(DlBox) BY <1>1, DlAssumption
<1> QED BY <1>1, <1>2 DEF DlInv, DlTyped

\* Each display of the layout, found and changed.
LEMMA DlEach ==
  ASSUME DlTyped
  PROVE  /\ Len(dlBoxes) \in Nat /\ Len(dlBoxes) > 0 /\ Displays = 1 .. Len(dlBoxes)
         /\ \A i \in Displays : dlBoxes[i] \in DlBox /\ dlStart[i] \in DlBox
         /\ \E p \in Displays : \A i \in Displays : dlStart[i].x = 0 /\ dlStart[i].y = 0 <=> i = p
<1>1. dlStart \in Seq(DlBox) /\ dlBoxes \in Seq(DlBox) /\ Len(dlBoxes) = Len(dlStart) BY DlAssumption DEF DlTyped
<1>2. DOMAIN dlStart = Displays /\ Displays = 1 .. Len(dlBoxes) /\ Len(dlBoxes) \in Nat BY <1>1 DEF Displays
<1>3. PICK p \in DOMAIN dlStart : \A i \in DOMAIN dlStart : dlStart[i].x = 0 /\ dlStart[i].y = 0 <=> i = p
  BY DlAssumption DEF DlTyped
<1>4. \A i \in Displays : dlBoxes[i] \in DlBox /\ dlStart[i] \in DlBox BY <1>1, <1>2
<1>5. Len(dlBoxes) > 0 BY <1>2, <1>3
<1>6. \E q \in Displays : \A i \in Displays : dlStart[i].x = 0 /\ dlStart[i].y = 0 <=> i = q
  <2>1. p \in Displays BY <1>2
  <2>2. \A i \in Displays : dlStart[i].x = 0 /\ dlStart[i].y = 0 <=> i = p BY <1>2, <1>3
  <2> QED BY <2>1, <2>2
<1> QED BY <1>2, <1>4, <1>5, <1>6

\* A layout whose boxes all change keeps its type.
LEMMA DlMapped ==
  ASSUME DlTyped, NEW f \in [Displays -> DlBox], dlBoxes' = f
  PROVE  dlBoxes' \in Seq(DlBox) /\ Len(dlBoxes') = Len(dlBoxes) /\ Displays' = Displays
<1>1. Len(dlBoxes) \in Nat /\ Displays = 1 .. Len(dlBoxes) BY DlEach
<1>2. dlBoxes' \in [1 .. Len(dlBoxes) -> DlBox] BY <1>1
<1> QED BY <1>1, <1>2 DEF Displays

LEMMA DlPlaces == DlInv /\ PlaceVirtual => DlInv'
<1> SUFFICES ASSUME DlInv, PlaceVirtual PROVE DlInv'
  OBVIOUS
<1>0. DlTyped /\ dlBoxes \in Seq(DlBox) BY DEF DlInv, DlTyped
<1>1. /\ Len(dlBoxes) \in Nat /\ Len(dlBoxes) > 0 /\ Displays = 1 .. Len(dlBoxes) /\ Reals \subseteq Displays /\ 1 \in Displays
      /\ \A i \in Displays : dlBoxes[i] \in DlBox BY <1>0, DlEach DEF Reals
<1>2. dlBoxes = dlStart BY DEF PlaceVirtual, DlInv, DlTyped
<1> DEFINE max == {i \in Reals : \A j \in Reals : LowerRight(i, j)}
           ox == IF max = {} THEN 0 ELSE Max({dlBoxes[i].x + dlBoxes[i].w : i \in max})
           oy == IF max = {} THEN 0 ELSE Max({dlBoxes[i].y + dlBoxes[i].h : i \in max})
<1>3. /\ ox \in Int /\ oy \in Int
      /\ \A i \in Reals : LET r == dlBoxes[i].x + dlBoxes[i].w
                          IN  r < ox \/ (r = ox /\ dlBoxes[i].y + dlBoxes[i].h <= oy)
  <2>1. CASE Reals = {} BY <2>1
  <2>2. CASE Reals # {}
    <3>1. PICK m \in Reals : \A j \in Reals : LowerRight(m, j) BY <2>2, <1>0, DlLowerRightmost
    <3>2. \A j \in Reals : /\ j \in Int /\ dlBoxes[j].x + dlBoxes[j].w \in Int /\ dlBoxes[j].y + dlBoxes[j].h \in Int
      BY <1>1, DlParts
    <3>3. max = {m}
      <4>1. m \in max BY <3>1
      <4>2. ASSUME NEW i \in max PROVE i = m
        <5>1. i \in Reals /\ LowerRight(i, m) /\ LowerRight(m, i) BY <3>1, <4>2
        <5> QED BY <5>1, <3>2 DEF LowerRight
      <4> HIDE DEF max
      <4> QED BY <4>1, <4>2
    <3> HIDE DEF max
    <3>4. /\ {dlBoxes[i].x + dlBoxes[i].w : i \in max} = {dlBoxes[m].x + dlBoxes[m].w}
          /\ {dlBoxes[i].y + dlBoxes[i].h : i \in max} = {dlBoxes[m].y + dlBoxes[m].h} BY <3>3
    <3>5. \A v \in Int : Max({v}) = v
      <4> SUFFICES ASSUME NEW v \in Int PROVE Max({v}) = v
        OBVIOUS
      <4>1. v \in {v} /\ \A y \in {v} : v >= y OBVIOUS
      <4> QED BY <4>1 DEF Max
    <3>6. ox = dlBoxes[m].x + dlBoxes[m].w /\ oy = dlBoxes[m].y + dlBoxes[m].h BY <3>2, <3>3, <3>4, <3>5
    <3> HIDE DEF ox, oy
    <3> QED BY <3>1, <3>2, <3>6 DEF LowerRight
  <2> QED BY <2>1, <2>2
<1> DEFINE F(i) == IF i = 1 THEN [dlBoxes[i] EXCEPT !.x = 0, !.y = 0] ELSE Shifted(dlBoxes[i], -ox, -oy)
<1>4. dlBoxes' = [i \in Displays |-> F(i)] BY DEF PlaceVirtual
<1> HIDE DEF ox, oy, max
<1>5. F(1) \in DlBox /\ F(1).x = 0 /\ F(1).y = 0
  <2>1. PICK b \in DlBox : b = dlBoxes[1] BY <1>1
  <2>2. b = [x |-> b.x, y |-> b.y, w |-> b.w, h |-> b.h] BY <2>1 DEF DlBox
  <2>3. F(1) = [x |-> 0, y |-> 0, w |-> b.w, h |-> b.h] BY <2>1, <2>2
  <2> HIDE DEF F
  <2> QED BY <2>1, <2>3 DEF DlBox
<1>6. \A i \in Reals : F(i) = Shifted(dlBoxes[i], -ox, -oy) /\ i # 1 BY DEF Reals
<1>7. -ox \in Int /\ -oy \in Int BY <1>3
<1>8. \A i \in Displays : F(i) \in DlBox BY <1>1, <1>5, <1>6, <1>7, DlShift DEF Reals
<1> HIDE DEF F
<1>9. /\ dlBoxes' \in Seq(DlBox) /\ Len(dlBoxes') = Len(dlBoxes) /\ Displays' = Displays
      /\ \A i \in Displays : dlBoxes'[i] = F(i)
  <2>1. [i \in Displays |-> F(i)] \in [Displays -> DlBox] BY <1>8
  <2>2. \A i \in Displays : dlBoxes'[i] = F(i) BY <1>4
  <2> QED BY <1>0, <1>4, <2>1, <2>2, DlMapped
<1>10. dlStep' = "connect" /\ dlConnected' = {1} /\ dlStart' = dlStart BY DEF PlaceVirtual
<1>11. DlTyped' BY <1>0, <1>1, <1>9, <1>10 DEF DlTyped
<1>12. DlPlaced'
  <2>1. Reals' = Reals BY <1>9 DEF Reals
  <2>2. dlBoxes'[1].x = 0 /\ dlBoxes'[1].y = 0 BY <1>1, <1>5, <1>9
  <2>3. \A i \in Reals : dlBoxes'[i] = Shifted(dlStart'[i], -ox, -oy) BY <1>1, <1>2, <1>6, <1>9, <1>10
  <2>4. ASSUME NEW i \in Reals
        PROVE  \/ dlBoxes'[i].x + dlBoxes'[i].w < 0
               \/ dlBoxes'[i].x + dlBoxes'[i].w = 0 /\ dlBoxes'[i].y + dlBoxes'[i].h <= 0
    <3>1. /\ dlBoxes[i].x \in Int /\ dlBoxes[i].y \in Int /\ dlBoxes[i].w \in Int /\ dlBoxes[i].h \in Int BY <1>1, DlParts
    <3>2. /\ dlBoxes'[i].x = dlBoxes[i].x + -ox /\ dlBoxes'[i].y = dlBoxes[i].y + -oy
          /\ dlBoxes'[i].w = dlBoxes[i].w /\ dlBoxes'[i].h = dlBoxes[i].h BY <1>1, <1>2, <1>7, <1>10, <2>3, DlShift
    <3> QED BY <3>1, <3>2, <1>3
  <2> QED BY <2>1, <2>2, <2>3, <2>4, <1>7 DEF DlPlaced
<1> QED BY <1>10, <1>11, <1>12 DEF DlInv

LEMMA DlConnects == DlInv /\ ConnectDisplay => DlInv'
<1> SUFFICES ASSUME DlInv, ConnectDisplay PROVE DlInv'
  OBVIOUS
<1>1. UNCHANGED <<dlStart, dlBoxes, dlStep>> /\ dlStep = "connect" BY DEF ConnectDisplay
<1>2. Displays' = Displays /\ Reals' = Reals /\ (DlJoined' <=> DlJoined) BY <1>1 DEF Displays, Reals, DlJoined
<1>3. dlConnected' \subseteq Displays
  <2>1. PICK p \in Candidates : dlConnected' = dlConnected \cup {p[2]} BY DEF ConnectDisplay, InPlace
  <2>2. p[2] \in Displays BY DEF Candidates, Reals
  <2> QED BY <2>1, <2>2 DEF DlInv, DlTyped
<1>4. DlTyped' BY <1>1, <1>2, <1>3 DEF DlInv, DlTyped
<1>5. DlPlaced' <=> DlPlaced BY <1>1, <1>2 DEF DlPlaced
<1> QED BY <1>1, <1>2, <1>4, <1>5 DEF DlInv

\* If the real displays are one piece, none of them has to move.
LEMMA DlNoneMoves ==
  ASSUME DlTyped, DlJoined, DlPlaced, InPlace = {}, NEW p \in Candidates
  PROVE  p[1] = 1
<1> SUFFICES ASSUME p[1] # 1 PROVE FALSE
  OBVIOUS
<1> DEFINE S == Reals \ dlConnected
<1>1. /\ p[1] \in dlConnected /\ p[2] \in S /\ p[1] \in Displays BY DEF Candidates, DlTyped
<1>2. p[1] \in Reals \ S BY <1>1 DEF Reals
<1>3. S \in (SUBSET Reals) \ {{}, Reals} BY <1>1, <1>2
<1>4. PICK i \in S, j \in Reals \ S : Touching(dlStart[i], dlStart[j])
  <2> HIDE DEF S
  <2> QED BY <1>3 DEF DlJoined
<1>5. PICK dx, dy \in Int : \A k \in Reals : dlBoxes[k] = Shifted(dlStart[k], dx, dy) BY DEF DlPlaced
<1>6. i \in Reals /\ j \in Reals /\ j \in dlConnected /\ j # 1 BY <1>4 DEF Reals
<1>7. dlStart[i] \in DlBox /\ dlStart[j] \in DlBox BY <1>6, DlEach DEF Reals
<1>8. Touching(dlBoxes[i], dlBoxes[j]) BY <1>4, <1>5, <1>6, <1>7, DlTouching
<1>9. <<j, i>> \in Candidates BY <1>4, <1>6 DEF Candidates
<1>10. NeedsMove(<<j, i>>) = <<0, 0>> BY <1>8 DEF NeedsMove, MoveToBeConnected
<1> QED BY <1>9, <1>10 DEF InPlace

LEMMA DlCloser == DlInv /\ MoveCloser => DlInv'
<1> SUFFICES ASSUME DlInv, MoveCloser PROVE DlInv'
  OBVIOUS
<1> DEFINE far == {[pair |-> p, move |-> NeedsMove(p)] : p \in {p \in Candidates : p[1] # 1}}
<1>0. DlTyped /\ dlStep = "connect" /\ InPlace = {} /\ dlStart' = dlStart /\ dlConnected' = dlConnected
  BY DEF DlInv, MoveCloser
<1>1. CASE far = {}
  <2>1. dlStep' = "apply" /\ dlBoxes' = dlBoxes BY <1>1 DEF MoveCloser
  <2>2. Displays' = Displays /\ Reals' = Reals /\ (DlJoined' <=> DlJoined) BY <1>0, <2>1 DEF Displays, Reals, DlJoined
  <2>3. DlPlaced' <=> DlPlaced BY <1>0, <2>1, <2>2 DEF DlPlaced
  <2>4. DlTyped' BY <1>0, <2>1, <2>2 DEF DlTyped
  <2> QED BY <1>0, <2>1, <2>2, <2>3, <2>4 DEF DlInv
<1>2. CASE far # {}
  <2>1. PICK f \in far : dlBoxes' = [dlBoxes EXCEPT ![f.pair[2]] = Shifted(@, f.move[1], f.move[2])] /\ dlStep' = dlStep
    BY <1>2 DEF MoveCloser
  <2>2. PICK p \in Candidates : p[1] # 1 /\ f = [pair |-> p, move |-> NeedsMove(p)] BY <2>1
  <2>3. p[1] \in Displays /\ p[2] \in Displays BY <1>0, <2>2 DEF Candidates, Reals, DlTyped
  <2>4. \A i \in Displays : dlBoxes[i] \in DlBox BY <1>0, DlEach
  <2>5. NeedsMove(p)[1] \in Int /\ NeedsMove(p)[2] \in Int BY <2>3, <2>4, DlMoves DEF NeedsMove
  <2>6. f.pair = p /\ f.move = NeedsMove(p) BY <2>2
  <2>7. Shifted(dlBoxes[p[2]], f.move[1], f.move[2]) \in DlBox BY <2>3, <2>4, <2>5, <2>6, DlShift
  <2>8. dlBoxes \in [Displays -> DlBox] BY <1>0, <2>4, DlEach DEF DlTyped, Displays
  <2>9. dlBoxes' \in [Displays -> DlBox] BY <2>1, <2>3, <2>6, <2>7, <2>8
  <2>10. dlBoxes' \in Seq(DlBox) /\ Len(dlBoxes') = Len(dlBoxes) /\ Displays' = Displays BY <1>0, <2>9, DlMapped
  <2>11. DlTyped' BY <1>0, <2>1, <2>10 DEF DlTyped
  <2>12. ~DlJoined
    <3> SUFFICES ASSUME DlJoined PROVE FALSE
      OBVIOUS
    <3>1. DlPlaced BY <1>0 DEF DlInv
    <3> QED BY <1>0, <2>2, <3>1, DlNoneMoves
  <2>13. ~DlJoined' BY <1>0, <2>10, <2>12 DEF DlJoined, Reals
  <2> QED BY <1>0, <2>1, <2>11, <2>13 DEF DlInv
<1> QED BY <1>1, <1>2

LEMMA DlApplies == DlInv /\ ApplyLayout => DlInv'
<1> SUFFICES ASSUME DlInv, ApplyLayout PROVE DlInv'
  OBVIOUS
<1>0. DlTyped /\ dlStep = "apply" /\ dlStep' = "done" /\ UNCHANGED <<dlStart, dlConnected>> BY DEF DlInv, ApplyLayout
<1>1. \A i \in Displays : dlBoxes[i] \in DlBox /\ dlStart[i] \in DlBox BY <1>0, DlEach
<1>2. PICK p \in Displays : \A i \in Displays : dlStart[i].x = 0 /\ dlStart[i].y = 0 <=> i = p BY <1>0, DlEach
<1>3. Primary = {p} BY <1>2 DEF Primary
<1>4. Min(Primary) = p
  <2>1. p \in Int BY <1>0, DlEach
  <2>2. p \in {p} /\ \A y \in {p} : p =< y BY <2>1
  <2> QED BY <1>3, <2>2 DEF Min
<1> DEFINE mx == -dlBoxes[p].x
           my == -dlBoxes[p].y
           F(i) == Shifted(dlBoxes[i], mx, my)
<1>5. dlBoxes' = [i \in Displays |-> F(i)] BY <1>4 DEF ApplyLayout
<1>6. mx \in Int /\ my \in Int /\ dlBoxes[p].x + mx = 0 /\ dlBoxes[p].y + my = 0 BY <1>1, DlParts
<1> HIDE DEF mx, my
<1>7. \A i \in Displays : /\ F(i) \in DlBox /\ F(i).x = dlBoxes[i].x + mx /\ F(i).y = dlBoxes[i].y + my
                          /\ F(i).w = dlBoxes[i].w /\ F(i).h = dlBoxes[i].h BY <1>1, <1>6, DlShift
<1> HIDE DEF F
<1>8. dlBoxes' \in Seq(DlBox) /\ Len(dlBoxes') = Len(dlBoxes) /\ Displays' = Displays
  <2>1. [i \in Displays |-> F(i)] \in [Displays -> DlBox] BY <1>7
  <2> QED BY <1>0, <1>5, <2>1, DlMapped
<1>9. \A i \in Displays : /\ dlBoxes'[i].x = dlBoxes[i].x + mx /\ dlBoxes'[i].y = dlBoxes[i].y + my
                          /\ dlBoxes'[i].w = dlBoxes[i].w /\ dlBoxes'[i].h = dlBoxes[i].h BY <1>5, <1>7
<1>10. DlTyped' BY <1>0, <1>8 DEF DlTyped
<1>11. PrimaryKept' BY <1>0, <1>2, <1>6, <1>8, <1>9 DEF PrimaryKept
<1>12. JoinedStayIsolated'
  <2> SUFFICES ASSUME DlJoined'
               PROVE  /\ VirtualIsolated'
                      /\ \A i, j \in Reals' : /\ dlBoxes'[i].x - dlBoxes'[j].x = dlStart'[i].x - dlStart'[j].x
                                              /\ dlBoxes'[i].y - dlBoxes'[j].y = dlStart'[i].y - dlStart'[j].y
    BY DEF JoinedStayIsolated, DlJoined
  <2>1. Reals' = Reals /\ Reals \subseteq Displays /\ 1 \in Displays BY <1>8, <1>0, DlEach DEF Reals
  <2>2. DlJoined BY <1>0, <2>1 DEF DlJoined
  <2>3. DlPlaced BY <1>0, <2>2 DEF DlInv
  <2>4. ASSUME NEW i \in Reals PROVE ~Overlap(dlBoxes'[1], dlBoxes'[i]) /\ ~ShareEdge(dlBoxes'[1], dlBoxes'[i])
    <3>1. /\ dlBoxes[i].x \in Int /\ dlBoxes[i].y \in Int /\ dlBoxes[i].w \in Int /\ dlBoxes[i].h \in Int
          /\ dlBoxes[i].w > 0 /\ dlBoxes[i].h > 0 BY <1>1, <2>1, DlParts
    <3>2. /\ dlBoxes[1].x = 0 /\ dlBoxes[1].y = 0 /\ dlBoxes[1].w \in Int /\ dlBoxes[1].h \in Int
          /\ dlBoxes[1].w > 0 /\ dlBoxes[1].h > 0 BY <1>1, <2>1, <2>3, DlParts DEF DlPlaced
    <3>3. \/ dlBoxes[i].x + dlBoxes[i].w < 0
          \/ dlBoxes[i].x + dlBoxes[i].w = 0 /\ dlBoxes[i].y + dlBoxes[i].h <= 0 BY <2>3 DEF DlPlaced
    <3>4. /\ dlBoxes'[i].x = dlBoxes[i].x + mx /\ dlBoxes'[i].y = dlBoxes[i].y + my
          /\ dlBoxes'[i].w = dlBoxes[i].w /\ dlBoxes'[i].h = dlBoxes[i].h
          /\ dlBoxes'[1].x = dlBoxes[1].x + mx /\ dlBoxes'[1].y = dlBoxes[1].y + my
          /\ dlBoxes'[1].w = dlBoxes[1].w /\ dlBoxes'[1].h = dlBoxes[1].h BY <1>9, <2>1
    <3> QED BY <3>1, <3>2, <3>3, <3>4, <1>6 DEF Overlap, ShareEdge
  <2>5. VirtualIsolated' BY <2>1, <2>4 DEF VirtualIsolated
  <2>6. ASSUME NEW i \in Reals, NEW j \in Reals
        PROVE  /\ dlBoxes'[i].x - dlBoxes'[j].x = dlStart[i].x - dlStart[j].x
               /\ dlBoxes'[i].y - dlBoxes'[j].y = dlStart[i].y - dlStart[j].y
    <3>1. PICK dx, dy \in Int : \A k \in Reals : dlBoxes[k] = Shifted(dlStart[k], dx, dy) BY <2>3 DEF DlPlaced
    <3>2. \A k \in Reals : dlStart[k].x \in Int /\ dlStart[k].y \in Int BY <1>1, <2>1, DlParts
    <3>3. ASSUME NEW k \in Reals PROVE dlBoxes[k].x = dlStart[k].x + dx /\ dlBoxes[k].y = dlStart[k].y + dy
      <4>1. dlStart[k] \in DlBox /\ dlBoxes[k] = Shifted(dlStart[k], dx, dy) BY <3>1, <1>1, <2>1
      <4> QED BY <4>1, DlShift
    <3>4. \A k \in Reals : dlBoxes'[k].x = dlStart[k].x + dx + mx /\ dlBoxes'[k].y = dlStart[k].y + dy + my
      BY <3>3, <1>9, <2>1
    <3> QED BY <3>1, <3>2, <3>4, <1>6
  <2> QED BY <1>0, <2>1, <2>5, <2>6
<1> QED BY <1>0, <1>10, <1>11, <1>12 DEF DlInv, LayoutIsolated

LEMMA DlSteps == DlInv /\ [DlNext]_dlVars => DlInv'
<1>1. DlInv /\ UNCHANGED dlVars => DlInv'
  BY DEF dlVars, DlInv, DlTyped, DlJoined, DlPlaced, LayoutIsolated, JoinedStayIsolated, VirtualIsolated, PrimaryKept,
         Displays, Reals
<1> QED BY <1>1, DlPlaces, DlConnects, DlCloser, DlApplies DEF DlNext

\* For any desktop of displays with a primary one: real displays that were one
\* piece without the virtual one keep their places relative to each other and
\* meet it in corners at most, and the primary display stays the primary one.
THEOREM VirtualDisplayIsolated == DlSpec => []LayoutIsolated
<1>1. DlInv => LayoutIsolated
  BY DEF DlInv, LayoutIsolated, JoinedStayIsolated, VirtualIsolated, PrimaryKept
<1> QED BY <1>1, DlStarts, DlSteps, PTL DEF DlSpec

-----------------------------------------------------------------------------
(* Packets, blocks and numbers (PacketStream) *)

LEMMA MulMono ==
  ASSUME NEW a \in Int, NEW b \in Int, NEW c \in Nat, a <= b
  PROVE  a * c <= b * c /\ c * a <= c * b
<1>1. (b - a) * c >= 0 OBVIOUS
<1>2. (b - a) * c = b * c - a * c OBVIOUS
<1> QED BY <1>1, <1>2

LEMMA Distributes ==
  ASSUME NEW a \in Int, NEW b \in Int, NEW c \in Int
  PROVE  a * (b + c) = a * b + a * c /\ (b + c) * a = b * a + c * a
  OBVIOUS

LEMMA DivRest ==
  ASSUME NEW a \in Int, NEW b \in Nat \ {0}
  PROVE  /\ a \div b \in Int /\ a % b \in Int /\ a = b * (a \div b) + (a % b) /\ 0 <= a % b /\ a % b < b
<1>1. a \div b \in Int OBVIOUS
<1>2. a % b \in 0 .. b - 1 OBVIOUS
<1>3. PICK q \in Int, r \in Int : q = a \div b /\ r = a % b BY <1>1, <1>2
<1>4. a = b * q + r BY <1>3
<1>5. a = b * (a \div b) + (a % b) BY <1>3, <1>4, Zenon
<1>6. a % b \in Int /\ 0 <= a % b /\ a % b < b BY <1>2
<1> QED BY <1>1, <1>5, <1>6, Zenon

\* Quotient and rest are unique.
LEMMA QuotientUnique ==
  ASSUME NEW b \in Nat \ {0}, NEW q \in Int, NEW r \in Int, NEW s \in Int, NEW t \in Int,
         b * q + r = b * s + t, 0 <= r, r < b, 0 <= t, t < b
  PROVE  q = s /\ r = t
<1>1. CASE q >= s + 1
  <2>1. b * (s + 1) <= b * q BY <1>1, MulMono
  <2>2. b * (s + 1) = b * s + b OBVIOUS
  <2>3. b * q \in Int /\ b * s \in Int OBVIOUS
  <2> QED BY <2>1, <2>2, <2>3
<1>2. CASE s >= q + 1
  <2>1. b * (q + 1) <= b * s BY <1>2, MulMono
  <2>2. b * (q + 1) = b * q + b OBVIOUS
  <2>3. b * q \in Int /\ b * s \in Int OBVIOUS
  <2> QED BY <2>1, <2>2, <2>3
<1>3. CASE q = s
  <2>1. b * q \in Int OBVIOUS
  <2> QED BY <1>3, <2>1
<1> QED BY <1>1, <1>2, <1>3

LEMMA RestUnique ==
  ASSUME NEW a \in Int, NEW b \in Nat \ {0}, NEW q \in Int, NEW r \in Int, a = b * q + r, 0 <= r, r < b
  PROVE  a % b = r /\ a \div b = q
  BY DivRest, QuotientUnique

LEMMA RestAdds ==
  ASSUME NEW a \in Int, NEW b \in Nat \ {0}, NEW c \in Int
  PROVE  ((a % b) + c) % b = (a + c) % b
<1>1. /\ a \div b \in Int /\ a % b \in Int /\ a = b * (a \div b) + (a % b) BY DivRest
<1>2. PICK p \in Int, s \in Int : p = a \div b /\ s = a % b BY <1>1
<1>3. PICK q \in Int, r \in Int : q = (s + c) \div b /\ r = (s + c) % b BY DivRest
<1>4. a = b * p + s BY <1>1, <1>2, Zenon
<1>5. s + c = b * q + r /\ 0 <= r /\ r < b BY <1>3, DivRest
<1>6. b * (p + q) = b * p + b * q /\ b * p \in Int /\ b * q \in Int BY Distributes
<1>7. a + c = b * (p + q) + r BY <1>4, <1>5, <1>6
<1>8. a + c \in Int /\ p + q \in Int OBVIOUS
<1>9. (a + c) % b = r
  <2> DEFINE n == a + c
             m == p + q
  <2>1. n \in Int /\ m \in Int /\ n = b * m + r BY <1>7, <1>8
  <2> HIDE DEF n, m
  <2>2. n % b = r BY <2>1, <1>5, RestUnique
  <2> QED BY <2>2 DEF n
<1> QED BY <1>2, <1>3, <1>9

LEMMA CeilBounds ==
  ASSUME NEW a \in Int, NEW b \in Nat \ {0}
  PROVE  /\ CeilDiv(a, b) \in Int /\ (CeilDiv(a, b) - 1) * b < a /\ a <= CeilDiv(a, b) * b
<1> DEFINE c == (a + b - 1) \div b
           r == (a + b - 1) % b
<1>1. c \in Int /\ r \in Int /\ a + b - 1 = b * c + r /\ 0 <= r /\ r < b BY DivRest
<1> HIDE DEF c, r
<1>2. (c - 1) * b = b * c - b /\ c * b = b * c /\ b * c \in Int BY <1>1
<1>3. (c - 1) * b < a /\ a <= c * b BY <1>1, <1>2
<1> QED BY <1>1, <1>3 DEF CeilDiv, c

LEMMA CeilUnique ==
  ASSUME NEW a \in Int, NEW b \in Nat \ {0}, NEW c \in Int, (c - 1) * b < a, a <= c * b
  PROVE  CeilDiv(a, b) = c
<1>1. (c - 1) * b = b * c - b /\ c * b = b * c /\ b * c \in Int OBVIOUS
<1>2. a + b - 1 = b * c + (a + b - 1 - b * c) BY <1>1
<1>3. 0 <= a + b - 1 - b * c /\ a + b - 1 - b * c < b BY <1>1
<1>4. (a + b - 1) \div b = c BY <1>1, <1>2, <1>3, RestUnique
<1> QED BY <1>4 DEF CeilDiv

LEMMA CeilMono ==
  ASSUME NEW a \in Int, NEW d \in Int, NEW b \in Nat \ {0}, a <= d
  PROVE  CeilDiv(a, b) <= CeilDiv(d, b)
<1>1. /\ CeilDiv(a, b) \in Int /\ (CeilDiv(a, b) - 1) * b < a
      /\ CeilDiv(d, b) \in Int /\ d <= CeilDiv(d, b) * b BY CeilBounds
<1>2. SUFFICES ASSUME CeilDiv(d, b) <= CeilDiv(a, b) - 1 PROVE FALSE BY <1>1
<1>3. CeilDiv(d, b) * b <= (CeilDiv(a, b) - 1) * b BY <1>1, <1>2, MulMono
<1>4. CeilDiv(d, b) * b \in Int /\ (CeilDiv(a, b) - 1) * b \in Int BY <1>1
<1> QED BY <1>1, <1>3, <1>4

\* A sum over at most four blocks is what its recursion says.
LEMMA PkSum ==
  ASSUME NEW n \in 0 .. 4, NEW v, \A i \in 1 .. n : v[i] \in Int
  PROVE  \E f : f = [i \in 0 .. n |-> IF i = 0 THEN 0 ELSE f[i - 1] + v[i]]
<1> DEFINE s1 == v[1]
           s2 == s1 + v[2]
           s3 == s2 + v[3]
           s4 == s3 + v[4]
           f == [i \in 0 .. n |-> IF i = 0 THEN 0 ELSE IF i = 1 THEN s1 ELSE IF i = 2 THEN s2 ELSE IF i = 3 THEN s3 ELSE s4]
<1>1. ASSUME NEW i \in 0 .. n PROVE f[i] = IF i = 0 THEN 0 ELSE f[i - 1] + v[i]
  <2>1. i \in 0 .. 4 /\ (i = 0 \/ i - 1 \in 0 .. n) OBVIOUS
  <2>2. CASE i = 0 BY <2>2
  <2>3. CASE i = 1
    <3>1. f[1] = s1 /\ f[0] = 0 /\ v[1] \in Int BY <2>3
    <3>2. 0 + v[1] = v[1] BY <3>1
    <3>3. f[i] = f[1] /\ i - 1 = 0 BY <2>3
    <3> QED BY <2>3, <3>1, <3>2, <3>3
  <2>4. CASE i = 2
    <3>1. f[2] = s2 /\ f[1] = s1 /\ i - 1 = 1 BY <2>4, <2>1
    <3> QED BY <2>4, <3>1
  <2>5. CASE i = 3
    <3>1. f[3] = s3 /\ f[2] = s2 /\ i - 1 = 2 BY <2>5, <2>1
    <3> QED BY <2>5, <3>1
  <2>6. CASE i = 4
    <3>1. f[4] = s4 /\ f[3] = s3 /\ i - 1 = 3 BY <2>6, <2>1
    <3> QED BY <2>6, <3>1
  <2> QED BY <2>1, <2>2, <2>3, <2>4, <2>5, <2>6
<1>2. f = [i \in 0 .. n |-> f[i]] OBVIOUS
<1> HIDE DEF f
<1>3. f = [i \in 0 .. n |-> IF i = 0 THEN 0 ELSE f[i - 1] + v[i]] BY <1>1, <1>2
<1> QED BY <1>3

\* Blocks as they are sent: at most four, each with its shards counted.
PkBlock == [data : Int, parity : Int, percentage : Int]
PkBlocks(blocks) ==
  /\ blocks \in Seq(PkBlock)
  /\ Len(blocks) \in 0 .. 4

LEMMA ShardsAdd ==
  ASSUME NEW blocks, PkBlocks(blocks)
  PROVE  /\ ShardsBefore(blocks, 1) = 0
         /\ \A b \in 1 .. Len(blocks) : ShardsBefore(blocks, b + 1) = ShardsBefore(blocks, b) + Shards(blocks[b])
<1> DEFINE n == Len(blocks)
           P(f) == f = [i \in 0 .. n |-> IF i = 0 THEN 0 ELSE f[i - 1] + Shards(blocks[i])]
           before == CHOOSE f : P(f)
           v == [i \in 1 .. n |-> Shards(blocks[i])]
<1>1. n \in 0 .. 4 /\ \A i \in 1 .. n : Shards(blocks[i]) \in Int
  <2>1. n \in 0 .. 4 /\ \A i \in 1 .. n : blocks[i] \in PkBlock BY DEF PkBlocks
  <2>2. \A i \in 1 .. n : blocks[i].data \in Int /\ blocks[i].parity \in Int BY <2>1 DEF PkBlock
  <2> QED BY <2>1, <2>2 DEF Shards
<1>2. \E f : P(f)
  <2>1. \A i \in 1 .. n : v[i] \in Int /\ v[i] = Shards(blocks[i]) BY <1>1
  <2> HIDE DEF n
  <2>2. PICK f : f = [i \in 0 .. n |-> IF i = 0 THEN 0 ELSE f[i - 1] + v[i]]
    <3> HIDE DEF v
    <3> QED BY <1>1, <2>1, PkSum
  <2>3. P(f)
    <3>1. \A i \in 0 .. n : i # 0 => i \in 1 .. n BY <1>1
    <3> HIDE DEF v
    <3> QED BY <2>1, <2>2, <3>1
  <2> QED BY <2>3
<1>3. P(before) BY <1>2, Zenon
<1>4. \A b : ShardsBefore(blocks, b) = before[b - 1] BY Zenon DEF ShardsBefore
<1> HIDE DEF before
<1>5. before[0] = 0 /\ \A b \in 1 .. n : before[b] = before[b - 1] + Shards(blocks[b]) BY <1>1, <1>3
<1>6. ShardsBefore(blocks, 1) = before[0]
  <2>1. 1 - 1 = 0 OBVIOUS
  <2> QED BY <1>4, <2>1
<1>7. \A b \in 1 .. n : ShardsBefore(blocks, b + 1) = before[b]
  <2>1. \A b \in 1 .. n : (b + 1) - 1 = b BY <1>1
  <2> QED BY <1>4, <2>1
<1> QED BY <1>4, <1>5, <1>6, <1>7

\* A frame of n packets is cut into k blocks of a packets and the last of what
\* is left; unless there are too many, none has more packets than it may have.
PkCutFrom(bs, M, total, n, needed, k, a, last) ==
  /\ bs \in Nat /\ bs >= 4 /\ M \in Nat /\ M >= 4 /\ total \in Nat /\ total > 0
  /\ n = CeilDiv(total, bs) /\ needed = CeilDiv(total, M * bs) /\ k = PkLeast(needed, 4)
  /\ a = CeilDiv(total \div k, bs) /\ last = total - (k - 1) * (a * bs)

PkCutInto(bs, M, n, needed, k, a, last) ==
  /\ k \in 1 .. 4 /\ n \in Int /\ a \in Int /\ last \in Int
  /\ CeilDiv(a * bs, bs) = a /\ CeilDiv(last, bs) = n - (k - 1) * a
  /\ n - (k - 1) * a >= 1 /\ a >= 1
  /\ needed <= 4 => a <= M /\ n - (k - 1) * a <= M

LEMMA PkCut ==
  ASSUME NEW bs, NEW M, NEW total, NEW n, NEW needed, NEW k, NEW a, NEW last,
         PkCutFrom(bs, M, total, n, needed, k, a, last)
  PROVE  PkCutInto(bs, M, n, needed, k, a, last)
<1> USE DEF PkCutFrom
<1> bs \in Nat /\ bs >= 4 /\ M \in Nat /\ M >= 4 /\ total \in Nat /\ total > 0 OBVIOUS
<1> /\ n = CeilDiv(total, bs) /\ needed = CeilDiv(total, M * bs) /\ k = PkLeast(needed, 4)
    /\ a = CeilDiv(total \div k, bs) /\ last = total - (k - 1) * (a * bs) OBVIOUS
<1> HIDE DEF PkCutFrom
<1> DEFINE W == M * bs
<1>1. W \in Nat /\ W >= 4 * bs
  <2>1. W \in Nat OBVIOUS
  <2>2. 4 * bs <= M * bs BY MulMono
  <2> QED BY <2>1, <2>2
<1>0. bs \in Nat \ {0} /\ W \in Nat \ {0} /\ total \in Int BY <1>1
<1>2. CeilDiv(W, bs) = M
  <2>1. (M - 1) * bs = M * bs - bs OBVIOUS
  <2>2. M * bs \in Int OBVIOUS
  <2> QED BY <2>1, <2>2, <1>0, CeilUnique
<1>3. needed = CeilDiv(total, W) OBVIOUS
<1> HIDE DEF W
<1>4. needed \in Int /\ (needed - 1) * W < total /\ total <= needed * W BY <1>0, <1>3, CeilBounds
<1>23. needed \in Int BY <1>4
<1>5. needed >= 1
  <2> SUFFICES ASSUME needed <= 0 PROVE FALSE BY <1>23
  <2>1. needed * W <= 0 * W BY <1>1, <1>23, MulMono
  <2>2. needed * W \in Int BY <1>1, <1>23
  <2>3. 0 * W = 0 BY <1>1
  <2> QED BY <1>4, <2>1, <2>2, <2>3
<1>6. /\ k \in 1 .. 4 /\ (needed <= 4 => k = needed) /\ k <= needed BY <1>23, <1>5 DEF PkLeast
<1>7. n \in Int /\ (n - 1) * bs < total /\ total <= n * bs BY <1>0, CeilBounds
<1>8. PICK q \in Int, r \in Int : q = total \div k /\ total = k * q + r /\ 0 <= r /\ r < k
  <2>1. k \in Nat \ {0} BY <1>6
  <2> QED BY <2>1, <1>0, DivRest
<1>9. a \in Int /\ (a - 1) * bs < q /\ q <= a * bs BY <1>0, <1>8, CeilBounds
<1>10. PICK N \in Int, A \in Int : N = n * bs /\ A = a * bs BY <1>7, <1>9
<1>11. (n - 1) * bs = N - bs /\ (a - 1) * bs = A - bs BY <1>7, <1>9, <1>10
<1>12. CeilDiv(A, bs) = a BY <1>9, <1>10, <1>11, <1>0, CeilUnique
<1>13. (k - 1) * W < total
  <2>4. PICK i \in Int, j \in Int : i = k /\ j = needed BY <1>6, <1>23
  <2>1. k - 1 \in Int /\ needed - 1 \in Int /\ k - 1 <= needed - 1
    <3>1. i <= j BY <1>6, <2>4
    <3>2. i - 1 <= j - 1 BY <3>1
    <3> QED BY <2>4, <3>2
  <2>2. (k - 1) * W <= (needed - 1) * W BY <1>1, <2>1, MulMono
  <2>3. (k - 1) * W \in Int /\ (needed - 1) * W \in Int BY <1>1, <2>1
  <2> QED BY <1>4, <2>2, <2>3
<1>14. needed <= 4 => total <= k * W BY <1>4, <1>6
<1>15. k = 1 \/ k = 2 \/ k = 3 \/ k = 4 BY <1>6
<1>16. q > 0
  <2>1. CASE k = 1 BY <2>1, <1>8
  <2>2. CASE k = 2 BY <2>2, <1>1, <1>8, <1>13
  <2>3. CASE k = 3 BY <2>3, <1>1, <1>8, <1>13
  <2>4. CASE k = 4 BY <2>4, <1>1, <1>8, <1>13
  <2> QED BY <1>15, <2>1, <2>2, <2>3, <2>4
<1>17. a >= 1
  <2> SUFFICES ASSUME a <= 0 PROVE FALSE BY <1>9
  <2>1. a * bs <= 0 * bs BY <1>9, MulMono
  <2> QED BY <2>1, <1>9, <1>10, <1>16
<1>18. last \in Int /\ last > 0 /\ (n - (k - 1) * a - 1) * bs < last /\ last <= (n - (k - 1) * a) * bs
  <2>1. CASE k = 1
    <3>1. last = total /\ n - (k - 1) * a = n BY <2>1, <1>7, <1>9, <1>10
    <3> QED BY <3>1, <1>7
  <2>2. CASE k = 2
    <3>1. last = total - A /\ n - (k - 1) * a = n - a BY <2>2, <1>7, <1>9, <1>10
    <3>2. (n - a - 1) * bs = N - A - bs /\ (n - a) * bs = N - A BY <1>7, <1>9, <1>10
    <3>3. total - A > 0 BY <2>2, <1>1, <1>8, <1>9, <1>10, <1>11, <1>13
    <3>4. N - A - bs < total - A /\ total - A <= N - A BY <1>7, <1>10, <1>11
    <3> QED BY <3>1, <3>2, <3>3, <3>4
  <2>3. CASE k = 3
    <3>1. last = total - 2 * A /\ n - (k - 1) * a = n - 2 * a BY <2>3, <1>7, <1>9, <1>10
    <3>2. (n - 2 * a - 1) * bs = N - 2 * A - bs /\ (n - 2 * a) * bs = N - 2 * A BY <1>7, <1>9, <1>10
    <3>3. total - 2 * A > 0 BY <2>3, <1>1, <1>8, <1>9, <1>10, <1>11, <1>13
    <3>4. N - 2 * A - bs < total - 2 * A /\ total - 2 * A <= N - 2 * A BY <1>7, <1>10, <1>11
    <3> QED BY <3>1, <3>2, <3>3, <3>4
  <2>4. CASE k = 4
    <3>1. last = total - 3 * A /\ n - (k - 1) * a = n - 3 * a BY <2>4, <1>7, <1>9, <1>10
    <3>2. (n - 3 * a - 1) * bs = N - 3 * A - bs /\ (n - 3 * a) * bs = N - 3 * A BY <1>7, <1>9, <1>10
    <3>3. total - 3 * A > 0 BY <2>4, <1>1, <1>8, <1>9, <1>10, <1>11, <1>13
    <3>4. N - 3 * A - bs < total - 3 * A /\ total - 3 * A <= N - 3 * A BY <1>7, <1>10, <1>11
    <3> QED BY <3>1, <3>2, <3>3, <3>4
  <2> QED BY <1>15, <2>1, <2>2, <2>3, <2>4
<1>19. PICK m \in Int : m = n - (k - 1) * a
  <2>1. (k - 1) * a \in Int BY <1>6, <1>9
  <2> QED BY <2>1, <1>7
<1>20. CeilDiv(last, bs) = m BY <1>18, <1>19, <1>0, CeilUnique
<1>21. m >= 1
  <2> SUFFICES ASSUME m <= 0 PROVE FALSE BY <1>19
  <2>1. m * bs <= 0 * bs BY <1>19, MulMono
  <2>2. m * bs \in Int /\ last <= m * bs BY <1>18, <1>19
  <2> QED BY <2>1, <2>2, <1>18
<1>22. ASSUME needed <= 4 PROVE a <= M /\ m <= M
  <2>1. total <= k * W BY <1>14, <1>22
  <2>2. q <= W
    <3>1. CASE k = 1 BY <3>1, <2>1, <1>8, <1>1
    <3>2. CASE k = 2 BY <3>2, <2>1, <1>8, <1>1
    <3>3. CASE k = 3 BY <3>3, <2>1, <1>8, <1>1
    <3>4. CASE k = 4 BY <3>4, <2>1, <1>8, <1>1
    <3> QED BY <1>15, <3>1, <3>2, <3>3, <3>4
  <2>3. a <= M
    <3>1. CeilDiv(q, bs) <= CeilDiv(W, bs) BY <2>2, <1>1, <1>0, CeilMono
    <3> QED BY <3>1, <1>2, <1>8
  <2>4. a = M \/ A <= W - bs
    <3> SUFFICES ASSUME a <= M - 1 PROVE A <= W - bs BY <2>3, <1>9
    <3>1. a * bs <= (M - 1) * bs BY <1>9, MulMono
    <3>2. (M - 1) * bs = W - bs BY DEF W
    <3> QED BY <3>1, <3>2, <1>10
  <2>5. a = M => A = W BY <1>10 DEF W
  <2>6. last <= W
    <3>1. CASE k = 1
      <4>1. last = total BY <3>1, <1>10
      <4> QED BY <3>1, <4>1, <2>1, <1>1
    <3>2. CASE k = 2
      <4>1. last = total - A BY <3>2, <1>10
      <4> QED BY <3>2, <4>1, <2>1, <2>4, <2>5, <1>1, <1>8, <1>9, <1>10
    <3>3. CASE k = 3
      <4>1. last = total - 2 * A BY <3>3, <1>10
      <4> QED BY <3>3, <4>1, <2>1, <2>4, <2>5, <1>1, <1>8, <1>9, <1>10
    <3>4. CASE k = 4
      <4>1. last = total - 3 * A BY <3>4, <1>10
      <4> QED BY <3>4, <4>1, <2>1, <2>4, <2>5, <1>1, <1>8, <1>9, <1>10
    <3> QED BY <1>15, <3>1, <3>2, <3>3, <3>4
  <2>7. CeilDiv(last, bs) <= CeilDiv(W, bs) BY <2>6, <1>1, <1>18, <1>0, CeilMono
  <2> QED BY <2>3, <2>7, <1>2, <1>20
<1> QED BY <1>6, <1>7, <1>9, <1>10, <1>12, <1>17, <1>18, <1>19, <1>20, <1>21, <1>22 DEF PkCutInto

\* The parity of a block fits the code if its data does and the client's
\* minimum fits beside a full block.
LEMMA PkParity ==
  ASSUME NEW bytes \in Int, NEW fec \in Nat, NEW minimum \in Nat, NEW d, d = CeilDiv(bytes, PkBlocksize), d >= 1
  PROVE  LET block == FecEncode(bytes, fec, minimum) IN
         /\ block \in PkBlock /\ block.data = d /\ block.parity >= 0 /\ (fec = 0 => block.parity = 0)
         /\ d <= MaxDataShards(fec) /\ minimum <= PkMaxShards - MaxDataShards(fec)
              => d + block.parity <= PkMaxShards
<1>0. PkBlocksize \in Nat \ {0} /\ PkMaxShards \in Nat BY PkAssumption DEF PkBlocksize
<1>1. d \in Int BY <1>0, CeilBounds
<1> DEFINE asked == CeilDiv(d * fec, 100)
           raise == asked < minimum /\ fec # 0
           parity == IF raise THEN minimum ELSE asked
<1>2. d * fec \in Int /\ d * fec >= 0
  <2>1. d * fec \in Int BY <1>1
  <2>2. 0 * fec <= d * fec BY <1>1, MulMono
  <2> QED BY <2>1, <2>2
<1>3. asked \in Int /\ (asked - 1) * 100 < d * fec /\ d * fec <= asked * 100 BY <1>2, CeilBounds
<1>4. asked >= 0 /\ (fec = 0 => asked = 0)
  <2>1. asked >= 0 BY <1>2, <1>3
  <2>2. fec = 0 => d * fec = 0 BY <1>1
  <2> QED BY <2>1, <2>2, <1>3
<1>5. (100 * minimum) \div d \in Int BY <1>1, DivRest
<1>6. /\ FecEncode(bytes, fec, minimum).data = d
      /\ FecEncode(bytes, fec, minimum).parity = parity
      /\ FecEncode(bytes, fec, minimum).percentage = IF raise THEN (100 * minimum) \div d ELSE fec
      /\ FecEncode(bytes, fec, minimum) =
           [data |-> d, parity |-> parity, percentage |-> IF raise THEN (100 * minimum) \div d ELSE fec]
  BY Zenon DEF FecEncode
<1> HIDE DEF asked
<1>7. parity \in Int /\ parity >= 0 /\ (fec = 0 => parity = 0) BY <1>3, <1>4
<1>8. FecEncode(bytes, fec, minimum) \in PkBlock BY <1>1, <1>5, <1>6, <1>7 DEF PkBlock
<1>9. ASSUME d <= MaxDataShards(fec), minimum <= PkMaxShards - MaxDataShards(fec)
      PROVE  d + parity <= PkMaxShards
  <2>1. PICK M \in Int, r \in Int : M = MaxDataShards(fec) /\ PkMaxShards * 100 = (100 + fec) * M + r /\ 0 <= r
    <3>1. PICK e \in Int, b \in Nat \ {0} : e = PkMaxShards * 100 /\ b = 100 + fec BY <1>0
    <3>2. PICK q \in Int, r \in Int : q = e \div b /\ r = e % b BY <3>1, DivRest
    <3>3. e = b * q + r /\ 0 <= r
      <4>1. e = b * (e \div b) + (e % b) /\ 0 <= e % b BY DivRest
      <4> QED BY <4>1, <3>2, Zenon
    <3>4. q = MaxDataShards(fec) BY <3>1, <3>2, Zenon DEF MaxDataShards
    <3> QED BY <3>1, <3>2, <3>3, <3>4, Zenon
  <2>2. PICK c \in Int : c = CeilDiv(M * fec, 100) /\ (c - 1) * 100 < M * fec
    <3>1. M * fec \in Int /\ 100 \in Nat \ {0} BY <2>1
    <3> QED BY <3>1, CeilBounds
  <2>3. asked <= c
    <3>1. d * fec <= M * fec /\ M * fec \in Int BY <1>1, <1>9, <2>1, MulMono
    <3> QED BY <3>1, <1>2, <2>2, CeilMono DEF asked
  <2>4. (100 + fec) * M = 100 * M + M * fec BY <2>1
  <2>5. M * fec \in Int BY <2>1
  <2>6. c <= PkMaxShards - M BY <1>0, <2>1, <2>2, <2>4, <2>5
  <2>7. parity <= PkMaxShards - M
    <3>1. asked <= PkMaxShards - M BY <1>0, <1>3, <2>1, <2>2, <2>3, <2>6
    <3>2. minimum <= PkMaxShards - M BY <1>9, <2>1
    <3> QED BY <3>1, <3>2
  <2>8. d <= M BY <1>9, <2>1
  <2> QED BY <1>0, <1>1, <1>7, <2>1, <2>7, <2>8
<1> HIDE DEF parity
<1> QED BY <1>6, <1>7, <1>8, <1>9

\* A frame with its header, and the headers of the packets before every slice.
LEMMA PkPackets ==
  ASSUME NEW size \in Nat, NEW n, n = CeilDiv(size + PkShort, PkSlice)
  PROVE  /\ n \in Int /\ ConcatAndInsert(size) \in Nat /\ ConcatAndInsert(size) > 0
         /\ CeilDiv(ConcatAndInsert(size), PkBlocksize) = n
         /\ (n - 1) * PkSlice + LastPayloadLen(size) = size + PkShort
<1>0. /\ PkSlice \in Nat \ {0} /\ PkHeader \in Nat \ {0} /\ PkShort \in Nat \ {0} /\ PkBlocksize \in Nat \ {0}
      /\ PkBlocksize = PkHeader + PkSlice BY PkAssumption DEF PkBlocksize
<1>1. PICK D \in Nat : D = size + PkShort /\ D > 0 BY <1>0
<1>2. n \in Int /\ (n - 1) * PkSlice < D /\ D <= n * PkSlice BY <1>0, <1>1, CeilBounds
<1>3. n >= 1
  <2> SUFFICES ASSUME n <= 0 PROVE FALSE BY <1>2
  <2>1. n * PkSlice <= 0 * PkSlice BY <1>0, <1>2, MulMono
  <2>2. n * PkSlice \in Int /\ 0 * PkSlice = 0 BY <1>0, <1>2
  <2> QED BY <2>1, <2>2, <1>1, <1>2
<1>4. PICK H \in Int, S \in Int : H = n * PkHeader /\ S = n * PkSlice BY <1>0, <1>2
<1>5. H >= 0
  <2>1. 0 * PkHeader <= n * PkHeader BY <1>0, <1>2, <1>3, MulMono
  <2> QED BY <2>1, <1>0, <1>4
<1>6. ConcatAndInsert(size) = H + D BY <1>1, <1>4 DEF ConcatAndInsert
<1>7. n * PkBlocksize = H + S /\ (n - 1) * PkBlocksize = (H + S) - PkBlocksize
  <2>1. n * PkBlocksize = n * PkHeader + n * PkSlice BY <1>0, <1>2, Distributes
  <2>2. PICK T \in Int : T = n * PkBlocksize /\ (n - 1) * PkBlocksize = T - PkBlocksize
    <3>1. n * PkBlocksize \in Int /\ (n - 1) * PkBlocksize = n * PkBlocksize - PkBlocksize BY <1>0, <1>2, SMTT(30)
    <3> QED BY <3>1
  <2>3. n * PkBlocksize = H + S BY <2>1, <1>4, Zenon
  <2>4. T = H + S BY <2>2, <2>3, Zenon
  <2>5. (n - 1) * PkBlocksize = (H + S) - PkBlocksize BY <2>2, <2>4, Zenon
  <2> QED BY <2>3, <2>5
<1>8. (n - 1) * PkSlice = S - PkSlice BY <1>0, <1>2, <1>4
<1>9. CeilDiv(H + D, PkBlocksize) = n
  <2>1. (n - 1) * PkBlocksize < H + D /\ H + D <= n * PkBlocksize BY <1>0, <1>1, <1>2, <1>4, <1>7, <1>8
  <2>2. H + D \in Int BY <1>1, <1>4
  <2> QED BY <2>1, <2>2, <1>0, <1>2, CeilUnique
<1>10. (n - 1) * PkSlice + LastPayloadLen(size) = D
  <2>1. PICK q \in Int, r \in Int : r = D % PkSlice /\ D = PkSlice * q + r /\ 0 <= r /\ r < PkSlice
    <3>1. PICK q \in Int, r \in Int : q = D \div PkSlice /\ r = D % PkSlice BY <1>0, <1>1, DivRest
    <3>2. D = PkSlice * q + r /\ 0 <= r /\ r < PkSlice BY <1>0, <1>1, <3>1, DivRest
    <3> QED BY <3>1, <3>2, Zenon
  <2>2. CASE r = 0
    <3>1. q * PkSlice = PkSlice * q /\ (q - 1) * PkSlice = PkSlice * q - PkSlice /\ PkSlice * q \in Int BY <1>0, <2>1
    <3>2. CeilDiv(D, PkSlice) = q BY <2>1, <2>2, <3>1, <1>0, <1>1, CeilUnique
    <3>3. n = q /\ LastPayloadLen(size) = PkSlice BY <1>1, <2>1, <2>2, <3>2 DEF LastPayloadLen
    <3> QED BY <3>1, <3>3, <2>1, <2>2, <1>0
  <2>3. CASE r > 0
    <3>1. /\ q * PkSlice = PkSlice * q /\ (q + 1) * PkSlice = PkSlice * q + PkSlice /\ PkSlice * q \in Int
          /\ (q + 1) - 1 = q BY <1>0, <2>1
    <3>2. ((q + 1) - 1) * PkSlice < D /\ D <= (q + 1) * PkSlice /\ q + 1 \in Int BY <2>1, <2>3, <3>1, <1>0
    <3>3. CeilDiv(D, PkSlice) = q + 1 BY <3>2, <1>0, <1>1, CeilUnique
    <3>4. n - 1 = q /\ LastPayloadLen(size) = r BY <1>1, <2>1, <2>3, <3>1, <3>3 DEF LastPayloadLen
    <3> QED BY <3>1, <3>4, <2>1
  <2> QED BY <2>1, <2>2, <2>3
<1>11. H + D \in Nat /\ H + D > 0 BY <1>1, <1>4, <1>5
<1> QED BY <1>1, <1>2, <1>6, <1>9, <1>10, <1>11

LEMMA PacketsAdd ==
  ASSUME NEW blocks, PkBlocks(blocks)
  PROVE  \E f : /\ f[0] = 0 /\ PacketsOf(blocks) = f[Len(blocks)]
                /\ \A b \in 1 .. Len(blocks) : f[b] = f[b - 1] + blocks[b].data
<1> DEFINE n == Len(blocks)
           P(f) == f = [i \in 0 .. n |-> IF i = 0 THEN 0 ELSE f[i - 1] + blocks[i].data]
           packets == CHOOSE f : P(f)
           v == [i \in 1 .. n |-> blocks[i].data]
<1>1. n \in 0 .. 4 /\ \A i \in 1 .. n : blocks[i].data \in Int
  <2>1. n \in 0 .. 4 /\ \A i \in 1 .. n : blocks[i] \in PkBlock BY DEF PkBlocks
  <2> QED BY <2>1 DEF PkBlock
<1>2. \E f : P(f)
  <2>1. \A i \in 1 .. n : v[i] \in Int /\ v[i] = blocks[i].data BY <1>1
  <2> HIDE DEF n
  <2>2. PICK f : f = [i \in 0 .. n |-> IF i = 0 THEN 0 ELSE f[i - 1] + v[i]]
    <3> HIDE DEF v
    <3> QED BY <1>1, <2>1, PkSum
  <2>3. P(f)
    <3>1. \A i \in 0 .. n : i # 0 => i \in 1 .. n BY <1>1
    <3> HIDE DEF v
    <3> QED BY <2>1, <2>2, <3>1
  <2> QED BY <2>3
<1>3. P(packets) BY <1>2, Zenon
<1>4. PacketsOf(blocks) = packets[n] BY Zenon DEF PacketsOf
<1> HIDE DEF packets
<1>5. packets[0] = 0 /\ \A b \in 1 .. n : packets[b] = packets[b - 1] + blocks[b].data
  <2>1. \A i \in 0 .. n : packets[i] = IF i = 0 THEN 0 ELSE packets[i - 1] + blocks[i].data BY <1>3, Zenon
  <2>2. 0 \in 0 .. n /\ \A b \in 1 .. n : b \in 0 .. n /\ b # 0 BY <1>1
  <2> HIDE DEF n
  <2> QED BY <2>1, <2>2, Zenon
<1> QED BY <1>4, <1>5

\* The blocks of any frame: its packets, all of them, in at most four, each
\* with a code unless the client's minimum is too large.
PkFits(config) == config.minimum <= PkMaxShards - MaxDataShards(config.fec)
PkWhole(blocks, size, config) ==
  /\ PkBlocks(blocks) /\ Len(blocks) >= 1
  /\ \A b \in 1 .. Len(blocks) : /\ blocks[b].data >= 1 /\ blocks[b].parity >= 0
                                 /\ PkFits(config) /\ blocks[b].parity > 0 => Shards(blocks[b]) <= PkMaxShards
  /\ PacketsOf(blocks) = CeilDiv(size + PkShort, PkSlice)

LEMMA PkFrameCut ==
  ASSUME NEW size \in Nat, NEW config \in PkConfigs
  PROVE  PkWhole(FecBlocks(size, config), size, config)
<1> DEFINE total == ConcatAndInsert(size)
           M == MaxDataShards(config.fec)
           needed == CeilDiv(total, M * PkBlocksize)
           fec == IF needed > MaxFecBlocks THEN 0 ELSE config.fec
           k == PkLeast(needed, MaxFecBlocks)
           a == CeilDiv(total \div k, PkBlocksize)
           aligned == a * PkBlocksize
           n == CeilDiv(total, PkBlocksize)
           bytes == [b \in 1 .. k |-> IF b = k THEN total - (b - 1) * aligned ELSE aligned]
           blocks == [b \in 1 .. k |-> FecEncode(bytes[b], fec, config.minimum)]
           last == total - (k - 1) * aligned
<1>1. FecBlocks(size, config) = blocks
  <2>1. bytes = Split(total, k) BY Zenon DEF Split
  <2>2. DOMAIN bytes = 1 .. k OBVIOUS
  <2> HIDE DEF bytes, total, needed, k
  <2> QED BY <2>1, <2>2, Zenon DEF FecBlocks, total, needed, k
<1>2. /\ total \in Nat /\ total > 0 /\ n = CeilDiv(size + PkShort, PkSlice) BY PkPackets
<1>3. /\ config.fec \in PkFec /\ config.minimum \in PkMinimum /\ config.fec \in Nat /\ config.minimum \in Nat
  BY PkAssumption DEF PkConfigs
<1>4. /\ M \in Nat /\ M >= 4
      /\ PkBlocksize \in Nat /\ PkBlocksize >= 4
  <2>1. PkBlocksize \in Nat /\ PkBlocksize >= 4 BY PkAssumption DEF PkBlocksize
  <2>2. M \in Int
    <3>1. PkMaxShards * 100 \in Int /\ 100 + config.fec \in Nat \ {0} BY <1>3, PkAssumption
    <3> QED BY <3>1, DivRest DEF MaxDataShards
  <2>3. M >= 4 BY <1>3, PkBlockAssumption DEF MaxFecBlocks
  <2> QED BY <2>1, <2>2, <2>3
<1>5. /\ k \in 1 .. 4 /\ n \in Int /\ a \in Int /\ last \in Int
      /\ CeilDiv(aligned, PkBlocksize) = a /\ CeilDiv(last, PkBlocksize) = n - (k - 1) * a
      /\ n - (k - 1) * a >= 1 /\ a >= 1
      /\ needed <= 4 => a <= M /\ n - (k - 1) * a <= M
  <2>1. k = PkLeast(needed, 4) BY DEF MaxFecBlocks
  <2>2. /\ needed = CeilDiv(total, M * PkBlocksize) /\ n = CeilDiv(total, PkBlocksize)
        /\ a = CeilDiv(total \div k, PkBlocksize) /\ last = total - (k - 1) * (a * PkBlocksize)
        /\ aligned = a * PkBlocksize OBVIOUS
  <2> HIDE DEF total, M, needed, k, n, a, last, aligned
  <2>3. PkCutFrom(PkBlocksize, M, total, n, needed, k, a, last) BY <1>2, <1>4, <2>1, <2>2, Zenon DEF PkCutFrom
  <2>4. PkCutInto(PkBlocksize, M, n, needed, k, a, last) BY <2>3, PkCut
  <2> QED BY <2>2, <2>4, Zenon DEF PkCutInto
<1>6. /\ fec \in Nat /\ (fec # 0 => fec = config.fec /\ needed <= 4)
  <2>1. needed \in Int
    <3>1. M * PkBlocksize \in Nat \ {0}
      <4>1. 4 * PkBlocksize <= M * PkBlocksize /\ M * PkBlocksize \in Int BY <1>4, MulMono
      <4> QED BY <4>1, <1>4
    <3>2. total \in Int BY <1>2
    <3> HIDE DEF total
    <3> QED BY <3>1, <3>2, CeilBounds
  <2> QED BY <2>1, <1>3 DEF MaxFecBlocks
<1> HIDE DEF total, M, needed, fec, k, a, aligned, n, last
<1>7. ASSUME NEW b \in 1 .. k
      PROVE  LET d == IF b = k THEN n - (k - 1) * a ELSE a IN
             /\ blocks[b] \in PkBlock /\ blocks[b].data = d /\ d >= 1 /\ blocks[b].parity >= 0
             /\ PkFits(config) /\ blocks[b].parity > 0 => d + blocks[b].parity <= PkMaxShards
  <2> DEFINE d == IF b = k THEN n - (k - 1) * a ELSE a
             v == bytes[b]
  <2>1. v \in Int /\ CeilDiv(v, PkBlocksize) = d
    <3>1. CASE b = k BY <3>1, <1>5 DEF last
    <3>2. CASE b # k
      <4>1. v = aligned BY <3>2
      <4>2. aligned \in Int BY <1>4, <1>5 DEF aligned
      <4> QED BY <3>2, <4>1, <4>2, <1>5
    <3> QED BY <3>1, <3>2
  <2>2. d >= 1 /\ (fec # 0 => d <= M) BY <1>5, <1>6
  <2>3. blocks[b] = FecEncode(v, fec, config.minimum) OBVIOUS
  <2> HIDE DEF v, d, bytes, blocks
  <2>4. /\ blocks[b] \in PkBlock /\ blocks[b].data = d /\ blocks[b].parity >= 0 /\ (fec = 0 => blocks[b].parity = 0)
        /\ d <= MaxDataShards(fec) /\ config.minimum <= PkMaxShards - MaxDataShards(fec)
             => d + blocks[b].parity <= PkMaxShards
    BY <2>1, <2>2, <2>3, <1>3, <1>6, PkParity
  <2>5. PkFits(config) /\ blocks[b].parity > 0 => d + blocks[b].parity <= PkMaxShards
    <3> SUFFICES ASSUME PkFits(config), blocks[b].parity > 0 PROVE d + blocks[b].parity <= PkMaxShards
      OBVIOUS
    <3>1. fec # 0 BY <2>4
    <3>2. fec = config.fec /\ M = MaxDataShards(fec) BY <3>1, <1>6 DEF M
    <3>3. d <= MaxDataShards(fec) /\ config.minimum <= PkMaxShards - MaxDataShards(fec) BY <3>1, <3>2, <2>2 DEF PkFits
    <3> QED BY <3>3, <2>4
  <2> QED BY <2>2, <2>4, <2>5 DEF d
<1> HIDE DEF bytes
<1>8. blocks \in [1 .. k -> PkBlock] BY <1>7
<1> HIDE DEF blocks
<1>9. Len(blocks) = k /\ PkBlocks(blocks) BY <1>5, <1>8 DEF PkBlocks
<1>10. \A b \in 1 .. k : blocks[b].data \in Int /\ blocks[b].parity \in Int BY <1>8 DEF PkBlock
<1>11. PacketsOf(blocks) = n
  <2>1. PICK f : /\ f[0] = 0 /\ PacketsOf(blocks) = f[k]
                 /\ \A b \in 1 .. k : f[b] = f[b - 1] + blocks[b].data BY <1>9, PacketsAdd
  <2>2. \A b \in 1 .. k : f[b] = f[b - 1] + (IF b = k THEN n - (k - 1) * a ELSE a) BY <2>1, <1>7
  <2>3. CASE k = 1
    <3>1. f[1] = f[0] + (n - 0 * a) BY <2>2, <2>3
    <3> QED BY <3>1, <2>1, <2>3, <1>5
  <2>4. CASE k = 2
    <3>1. f[1] = f[0] + a /\ f[2] = f[1] + (n - 1 * a) BY <2>2, <2>4
    <3> QED BY <3>1, <2>1, <2>4, <1>5
  <2>5. CASE k = 3
    <3>1. f[1] = f[0] + a /\ f[2] = f[1] + a /\ f[3] = f[2] + (n - 2 * a) BY <2>2, <2>5
    <3> QED BY <3>1, <2>1, <2>5, <1>5
  <2>6. CASE k = 4
    <3>1. f[1] = f[0] + a /\ f[2] = f[1] + a /\ f[3] = f[2] + a /\ f[4] = f[3] + (n - 3 * a) BY <2>2, <2>6
    <3> QED BY <3>1, <2>1, <2>6, <1>5
  <2> QED BY <1>5, <2>3, <2>4, <2>5, <2>6
<1>12. \A b \in 1 .. k : /\ blocks[b].data >= 1 /\ blocks[b].parity >= 0
                         /\ PkFits(config) /\ blocks[b].parity > 0 => Shards(blocks[b]) <= PkMaxShards
  BY <1>7 DEF Shards
<1> QED BY <1>1, <1>2, <1>5, <1>9, <1>11, <1>12 DEF PkWhole

LEMMA ShardsNat ==
  ASSUME NEW blocks, PkBlocks(blocks), \A b \in 1 .. Len(blocks) : Shards(blocks[b]) \in Nat
  PROVE  \A b \in 1 .. Len(blocks) + 1 : ShardsBefore(blocks, b) \in Nat
<1> DEFINE n == Len(blocks)
           s(b) == ShardsBefore(blocks, b)
           v(b) == Shards(blocks[b])
<1>1. n \in 0 .. 4 BY DEF PkBlocks
<1>2. s(1) = 0 /\ \A b \in 1 .. n : s(b + 1) = s(b) + v(b) /\ v(b) \in Nat BY ShardsAdd
<1> HIDE DEF n, s, v
<1>3. n >= 1 => s(2) \in Nat
  <2> SUFFICES ASSUME n >= 1 PROVE s(2) \in Nat
    OBVIOUS
  <2>1. 1 \in 1 .. n /\ 1 + 1 = 2 BY <1>1
  <2>2. s(2) = s(1) + v(1) /\ v(1) \in Nat BY <1>2, <2>1
  <2> QED BY <2>2, <1>2
<1>4. n >= 2 => s(3) \in Nat
  <2> SUFFICES ASSUME n >= 2 PROVE s(3) \in Nat
    OBVIOUS
  <2>1. 2 \in 1 .. n /\ 2 + 1 = 3 BY <1>1
  <2>2. s(3) = s(2) + v(2) /\ v(2) \in Nat BY <1>2, <2>1
  <2> QED BY <2>2, <1>1, <1>3
<1>5. n >= 3 => s(4) \in Nat
  <2> SUFFICES ASSUME n >= 3 PROVE s(4) \in Nat
    OBVIOUS
  <2>1. 3 \in 1 .. n /\ 3 + 1 = 4 BY <1>1
  <2>2. s(4) = s(3) + v(3) /\ v(3) \in Nat BY <1>2, <2>1
  <2> QED BY <2>2, <1>1, <1>4
<1>6. n >= 4 => s(5) \in Nat
  <2> SUFFICES ASSUME n >= 4 PROVE s(5) \in Nat
    OBVIOUS
  <2>1. 4 \in 1 .. n /\ 4 + 1 = 5 BY <1>1
  <2>2. s(5) = s(4) + v(4) /\ v(4) \in Nat BY <1>2, <2>1
  <2> QED BY <2>2, <1>1, <1>5
<1>7. \A b \in 1 .. n + 1 : b = 1 \/ (b = 2 /\ n >= 1) \/ (b = 3 /\ n >= 2) \/ (b = 4 /\ n >= 3) \/ (b = 5 /\ n >= 4)
  BY <1>1
<1>8. s(1) \in Nat BY <1>2
<1>9. \A b \in 1 .. n + 1 : s(b) \in Nat BY <1>3, <1>4, <1>5, <1>6, <1>7, <1>8
<1> QED BY <1>9 DEF n, s

\* What the frame sent last looks like and how it is numbered.
PkFrameSent ==
  /\ \A b \in DOMAIN pkFrame.blocks : Shards(pkFrame.blocks[b]) >= 1
  /\ BlocksCoverFrame /\ FrameLengthRecoverable /\ SequenceContiguous

\* Every counter below the next one has been used for one packet.
PkCounted ==
  /\ pkIv \in Nat /\ pkUsedIvs.ivs = 0 .. (pkIv - 1) /\ pkUsedIvs.packets = pkIv

PkVideo ==
  /\ pkConfig \in PkConfigs /\ pkCount \in Nat /\ pkLowseq \in 0 .. (PkWidth - 1)
  /\ PkFrameSent /\ PkCounted

LEMMA PkVideoInit == PkInit => PkVideo
<1> SUFFICES ASSUME PkInit PROVE PkVideo
  OBVIOUS
<1> USE DEF PkInit
<1>1. /\ pkConfig \in PkConfigs /\ pkCount \in Nat /\ pkLowseq \in 0 .. (PkWidth - 1) BY PkAssumption
<1>2. pkFrame.blocks = << >> /\ pkFrame.sent = 0 /\ ~(pkCount > 0) /\ ~pkFrame.crashed BY DEF PkNoFrame
<1>3. PkFrameSent
  <2>1. DOMAIN pkFrame.blocks = {} /\ Len(pkFrame.blocks) = 0 BY <1>2
  <2> QED BY <1>2, <2>1 DEF PkFrameSent, BlocksCoverFrame, FrameLengthRecoverable, SequenceContiguous, MaxFecBlocks
<1>4. PkCounted BY DEF PkCounted
<1> QED BY <1>1, <1>3, <1>4 DEF PkVideo

LEMMA PkSendsFrame ==
  ASSUME PkVideo, NEW size \in PkSizes, NEW idr \in BOOLEAN, NEW found \in BOOLEAN, NEW done \in 0 .. MaxFecBlocks,
         NEW crashes \in BOOLEAN, SendFrame(size, idr, found, done, crashes)
  PROVE  PkVideo'
<1> DEFINE bytes == Replaced(size, idr, found)
           blocks == FecBlocks(bytes, pkConfig)
           n == Len(blocks)
           k == PkLeast(done, n)
           sent == ShardsBefore(blocks, k + 1)
<1>1. bytes \in Nat BY PkAssumption DEF Replaced
<1>2. PkWhole(blocks, bytes, pkConfig)
  <2> HIDE DEF bytes
  <2> QED BY <1>1, PkFrameCut DEF PkVideo
<1>3. /\ pkCount' = pkCount + 1 /\ pkPrev' = pkLowseq /\ pkConfig' = pkConfig
      /\ pkFrame' = [size |-> bytes, blocks |-> blocks, sent |-> k, crashed |-> crashes,
                     lastLen |-> LastPayloadLen(bytes),
                     seqs |-> [b \in 1 .. k |-> NextLowseq(pkLowseq, BlockLowseq(blocks, b))]]
      /\ pkLowseq' = IF k = n THEN NextLowseq(pkLowseq, sent) ELSE pkLowseq
      /\ pkIv' = IF pkConfig.encrypted THEN pkIv + sent ELSE pkIv
      /\ pkUsedIvs' = IF pkConfig.encrypted
                      THEN [ivs |-> pkUsedIvs.ivs \cup IvsOf(pkIv, sent), packets |-> pkUsedIvs.packets + sent]
                      ELSE pkUsedIvs
      /\ crashes => k < n /\ NoCodeFor(blocks[k + 1])
  BY Zenon DEF SendFrame
<1> HIDE DEF bytes, blocks
<1>4. PkBlocks(blocks) /\ n \in 1 .. 4 /\ k \in 0 .. n BY <1>2 DEF PkWhole, PkBlocks, PkLeast, MaxFecBlocks
<1> HIDE DEF n, k
<1>5. \A b \in 1 .. n : blocks[b] \in PkBlock BY <1>4 DEF PkBlocks, n
<1>6. \A b \in 1 .. n : /\ Shards(blocks[b]) \in Nat /\ Shards(blocks[b]) >= 1
                        /\ PkFits(pkConfig) => ~NoCodeFor(blocks[b])
  <2> SUFFICES ASSUME NEW b \in 1 .. n
               PROVE  /\ Shards(blocks[b]) \in Nat /\ Shards(blocks[b]) >= 1
                      /\ PkFits(pkConfig) => ~NoCodeFor(blocks[b])
    OBVIOUS
  <2>1. blocks[b].data \in Int /\ blocks[b].parity \in Int BY <1>5 DEF PkBlock
  <2>2. /\ blocks[b].data >= 1 /\ blocks[b].parity >= 0
        /\ PkFits(pkConfig) /\ blocks[b].parity > 0 => Shards(blocks[b]) <= PkMaxShards BY <1>2 DEF PkWhole, n
  <2>3. PkMaxShards \in Nat BY PkAssumption
  <2> QED BY <2>1, <2>2, <2>3 DEF Shards, NoCodeFor
<1>7. /\ ShardsBefore(blocks, 1) = 0
      /\ \A b \in 1 .. n : ShardsBefore(blocks, b + 1) = ShardsBefore(blocks, b) + Shards(blocks[b]) BY <1>4, ShardsAdd DEF n
<1>8. \A b \in 1 .. n + 1 : ShardsBefore(blocks, b) \in Nat BY <1>4, <1>6, ShardsNat DEF n
<1>9. sent \in Nat
  <2>1. k + 1 \in 1 .. n + 1 BY <1>4
  <2> QED BY <2>1, <1>8
<1> HIDE DEF sent
<1>10. PkWidth \in Nat \ {0} /\ pkLowseq \in Int /\ pkLowseq \in 0 .. (PkWidth - 1) BY PkAssumption DEF PkVideo
<1>11. \A s \in Nat : NextLowseq(pkLowseq, s) \in 0 .. (PkWidth - 1)
  <2> SUFFICES ASSUME NEW s \in Nat PROVE NextLowseq(pkLowseq, s) \in 0 .. (PkWidth - 1)
    OBVIOUS
  <2>1. pkLowseq + s \in Int BY <1>10
  <2> QED BY <2>1, <1>10, DivRest DEF NextLowseq
<1>12. NextLowseq(pkLowseq, 0) = pkLowseq
  <2>1. pkLowseq + 0 = PkWidth * 0 + pkLowseq BY <1>10
  <2>2. pkLowseq + 0 \in Int /\ 0 <= pkLowseq /\ pkLowseq < PkWidth BY <1>10
  <2> QED BY <2>1, <2>2, <1>10, RestUnique DEF NextLowseq
<1>13. \A b \in 1 .. n : NextLowseq(pkLowseq, ShardsBefore(blocks, b + 1))
                           = (NextLowseq(pkLowseq, ShardsBefore(blocks, b)) + Shards(blocks[b])) % PkWidth
  <2> SUFFICES ASSUME NEW b \in 1 .. n
               PROVE  NextLowseq(pkLowseq, ShardsBefore(blocks, b + 1))
                        = (NextLowseq(pkLowseq, ShardsBefore(blocks, b)) + Shards(blocks[b])) % PkWidth
    OBVIOUS
  <2>1. PICK x \in Int, c \in Int : x = pkLowseq + ShardsBefore(blocks, b) /\ c = Shards(blocks[b])
    <3>1. b \in 1 .. n + 1 BY <1>4
    <3> QED BY <3>1, <1>6, <1>8, <1>10
  <2>2. pkLowseq + ShardsBefore(blocks, b + 1) = x + c
    <3>1. b \in 1 .. n + 1 BY <1>4
    <3> QED BY <3>1, <2>1, <1>7, <1>8, <1>6, <1>10
  <2>3. ((x % PkWidth) + c) % PkWidth = (x + c) % PkWidth BY <1>10, RestAdds
  <2> QED BY <2>1, <2>2, <2>3, Zenon DEF NextLowseq
<1>14. /\ pkFrame'.size = bytes /\ pkFrame'.blocks = blocks /\ pkFrame'.sent = k
       /\ pkFrame'.lastLen = LastPayloadLen(bytes) /\ pkFrame'.crashed = crashes
       /\ \A b \in 1 .. k : pkFrame'.seqs[b] = NextLowseq(pkLowseq, ShardsBefore(blocks, b))
  BY <1>3 DEF BlockLowseq
<1>15. SequenceContiguous'
  <2>1. ASSUME NEW b \in 1 .. k - 1
        PROVE  pkFrame'.seqs[b + 1] = (pkFrame'.seqs[b] + Shards(blocks[b])) % PkWidth
    <3>1. b \in 1 .. k /\ b + 1 \in 1 .. k /\ b \in 1 .. n BY <1>4
    <3> QED BY <3>1, <1>13, <1>14
  <2>2. k > 0 => pkFrame'.seqs[1] = pkLowseq
    <3>1. k > 0 => 1 \in 1 .. k BY <1>4
    <3> QED BY <3>1, <1>7, <1>12, <1>14
  <2>3. k > 0 /\ k = n => pkLowseq' = (pkFrame'.seqs[k] + Shards(blocks[k])) % PkWidth
    <3> SUFFICES ASSUME k > 0, k = n PROVE pkLowseq' = (pkFrame'.seqs[k] + Shards(blocks[k])) % PkWidth
      OBVIOUS
    <3>1. k \in 1 .. n /\ k \in 1 .. k BY <1>4
    <3>2. pkLowseq' = NextLowseq(pkLowseq, ShardsBefore(blocks, k + 1)) BY <1>3 DEF sent
    <3> QED BY <3>1, <3>2, <1>13, <1>14
  <2> QED BY <2>1, <2>2, <2>3, <1>3, <1>14 DEF SequenceContiguous, n
<1>16. BlocksCoverFrame'
  <2>1. DOMAIN blocks = 1 .. n BY <1>4 DEF PkBlocks, n
  <2>4. n <= 4 BY <1>4
  <2>3. Len(blocks) <= 4 BY <2>4, Zenon DEF n
  <2>2. PacketsOf(blocks) = CeilDiv(bytes + PkShort, PkSlice) BY <1>2 DEF PkWhole
  <2>5. crashes => ~PkFits(pkConfig)
    <3>1. crashes => k + 1 \in 1 .. n BY <1>3, <1>4
    <3> QED BY <3>1, <1>3, <1>6
  <2>6. ~PkFits(pkConfig) => pkConfig.minimum > PkMaxShards - MaxDataShards(pkConfig.fec)
    <3>1. pkConfig.minimum \in Nat /\ pkConfig.fec \in Nat /\ PkMaxShards \in Nat BY PkAssumption DEF PkVideo, PkConfigs
    <3>2. PkMaxShards * 100 \in Int /\ 100 + pkConfig.fec \in Nat \ {0} BY <3>1
    <3>3. MaxDataShards(pkConfig.fec) \in Int BY <3>2, DivRest DEF MaxDataShards
    <3> QED BY <3>1, <3>3 DEF PkFits
  <2>7. pkFrame'.crashed => pkConfig'.minimum > PkMaxShards - MaxDataShards(pkConfig'.fec) BY <2>5, <2>6, <1>3, <1>14
  <2> QED BY <2>1, <2>2, <2>3, <2>7, <1>14 DEF BlocksCoverFrame, MaxFecBlocks
<1>17. FrameLengthRecoverable'
  <2>1. (CeilDiv(bytes + PkShort, PkSlice) - 1) * PkSlice + LastPayloadLen(bytes) = bytes + PkShort BY <1>1, PkPackets
  <2> QED BY <2>1, <1>14, Zenon DEF FrameLengthRecoverable
<1>18. \A b \in DOMAIN blocks : Shards(blocks[b]) >= 1
  <2>1. DOMAIN blocks = 1 .. n BY <1>4 DEF PkBlocks, n
  <2> QED BY <2>1, <1>6
<1>19. PkCounted'
  <2>1. pkIv \in Nat /\ pkUsedIvs.ivs = 0 .. (pkIv - 1) /\ pkUsedIvs.packets = pkIv BY DEF PkVideo, PkCounted
  <2>2. CASE pkConfig.encrypted
    <3>1. 0 .. (pkIv - 1) \cup IvsOf(pkIv, sent) = 0 .. (pkIv + sent - 1) BY <1>9, <2>1 DEF IvsOf
    <3>2. /\ pkIv' = pkIv + sent /\ pkUsedIvs'.packets = pkUsedIvs.packets + sent
          /\ pkUsedIvs'.ivs = pkUsedIvs.ivs \cup IvsOf(pkIv, sent) BY <1>3, <2>2
    <3> QED BY <3>1, <3>2, <1>9, <2>1 DEF PkCounted
  <2>3. CASE ~pkConfig.encrypted BY <1>3, <2>1, <2>3 DEF PkCounted
  <2> QED BY <2>2, <2>3
<1>20. pkLowseq' \in 0 .. (PkWidth - 1) BY <1>3, <1>9, <1>10, <1>11
<1>21. pkConfig' \in PkConfigs /\ pkCount' \in Nat BY <1>3 DEF PkVideo
<1> QED BY <1>14, <1>15, <1>16, <1>17, <1>18, <1>19, <1>20, <1>21 DEF PkVideo, PkFrameSent

\* Sequence numbers of audio packets are modulo a multiple of four, so that a
\* block of four never wraps around.
LEMMA AudioWidth ==
  ASSUME NEW s \in 0 .. (PkWidth - 1)
  PROVE  /\ PkWidth \in Nat \ {0} /\ s % 4 \in 0 .. 3
         /\ s % 4 < 3 => /\ (s + 1) % PkWidth = s + 1 /\ s + 1 \in 0 .. (PkWidth - 1)
                         /\ (s + 1) % 4 = (s % 4) + 1
         /\ s % 4 = 3 => /\ (s + 1) % PkWidth \in 0 .. (PkWidth - 1) /\ ((s + 1) % PkWidth) % 4 = 0
                         /\ (s + 1) % 4 = 0 /\ s - 3 \in Nat
                         /\ \A i \in 0 .. 3 : (s - i) % PkWidth = s - i
<1>1. PkWidth \in Nat \ {0} /\ PkWidth % 4 = 0 /\ s \in Int BY PkAssumption
<1>2. PICK v \in Int : v = PkWidth \div 4 /\ PkWidth = 4 * v
  <2>1. PkWidth \div 4 \in Int /\ PkWidth = 4 * (PkWidth \div 4) + 0 BY <1>1, DivRest
  <2> QED BY <2>1
<1>3. PICK q \in Int, r \in Int : q = s \div 4 /\ r = s % 4 /\ s = 4 * q + r /\ 0 <= r /\ r < 4 BY <1>1, DivRest
<1>4. \A x \in 0 .. (PkWidth - 1) : x % PkWidth = x
  <2> SUFFICES ASSUME NEW x \in 0 .. (PkWidth - 1) PROVE x % PkWidth = x
    OBVIOUS
  <2>1. x \in Int /\ x = PkWidth * 0 + x /\ 0 <= x /\ x < PkWidth BY <1>1
  <2> QED BY <2>1, <1>1, RestUnique
<1>5. s % 4 \in 0 .. 3 BY <1>3
<1>6. ASSUME s % 4 < 3
      PROVE  (s + 1) % PkWidth = s + 1 /\ s + 1 \in 0 .. (PkWidth - 1) /\ (s + 1) % 4 = (s % 4) + 1
  <2>1. s + 1 = 4 * q + (r + 1) /\ r + 1 \in 1 .. 3 /\ s + 1 \in Int BY <1>1, <1>3, <1>6
  <2>2. s + 1 # PkWidth
    <3>1. 4 * q + (r + 1) # 4 * v BY <2>1
    <3> QED BY <3>1, <2>1, <1>2
  <2>3. s + 1 \in 0 .. (PkWidth - 1) BY <2>2, <1>1
  <2>4. (s + 1) % 4 = r + 1
    <3>1. 4 \in Nat \ {0} /\ r + 1 \in Int /\ 0 <= r + 1 /\ r + 1 < 4 BY <2>1
    <3> QED BY <3>1, <2>1, RestUnique
  <2> QED BY <2>3, <2>4, <1>3, <1>4
<1>7. ASSUME s % 4 = 3
      PROVE  /\ (s + 1) % PkWidth \in 0 .. (PkWidth - 1) /\ ((s + 1) % PkWidth) % 4 = 0
             /\ (s + 1) % 4 = 0 /\ s - 3 \in Nat /\ \A i \in 0 .. 3 : (s - i) % PkWidth = s - i
  <2>1. s + 1 = 4 * (q + 1) + 0 /\ s + 1 \in Int /\ q + 1 \in Int /\ s - 3 \in Nat BY <1>1, <1>3, <1>7
  <2>2. (s + 1) % 4 = 0
    <3>1. 4 \in Nat \ {0} /\ 0 \in Int /\ 0 <= 0 /\ 0 < 4 OBVIOUS
    <3> QED BY <3>1, <2>1, RestUnique
  <2>3. (s + 1) % PkWidth \in 0 .. (PkWidth - 1) /\ ((s + 1) % PkWidth) % 4 = 0
    <3>1. CASE s + 1 = PkWidth
      <4>1. s + 1 = PkWidth * 1 + 0 /\ 0 \in Int /\ 0 <= 0 /\ 0 < PkWidth BY <1>1, <3>1
      <4>2. (s + 1) % PkWidth = 0 BY <4>1, <2>1, <1>1, RestUnique
      <4> QED BY <4>2, <1>1
    <3>2. CASE s + 1 # PkWidth
      <4>1. s + 1 \in 0 .. (PkWidth - 1) BY <3>2, <1>1
      <4> QED BY <4>1, <1>4, <2>2
    <3> QED BY <3>1, <3>2
  <2>4. \A i \in 0 .. 3 : (s - i) % PkWidth = s - i
    <3> SUFFICES ASSUME NEW i \in 0 .. 3 PROVE (s - i) % PkWidth = s - i
      OBVIOUS
    <3>1. s - i \in 0 .. (PkWidth - 1) BY <2>1, <1>1
    <3> QED BY <3>1, <1>4
  <2> QED BY <2>1, <2>2, <2>3, <2>4
<1> QED BY <1>1, <1>5, <1>6, <1>7

\* The shards of the block that is being filled hold its packets, and the base
\* number is the first of them unless sending that one failed.
PkAudio ==
  /\ pkAudio.seq \in 0 .. (PkWidth - 1)
  /\ pkAudio = [seq |-> pkAudio.seq, sent |-> pkAudio.sent, base |-> pkAudio.base, failed |-> pkAudio.failed,
                running |-> pkAudio.running, shards |-> pkAudio.shards, parity |-> pkAudio.parity]
  /\ DOMAIN pkAudio.shards = 0 .. 3
  /\ \A j \in 0 .. 3 : j < pkAudio.seq % 4 => pkAudio.shards[j] = pkAudio.seq - (pkAudio.seq % 4) + j
  /\ pkAudio.seq % 4 > 0 => pkAudio.base = pkAudio.seq - (pkAudio.seq % 4) \/ pkAudio.failed
  /\ AudioParityCovers

LEMMA PkAudioInit == PkInit => PkAudio
<1> SUFFICES ASSUME PkInit PROVE PkAudio
  OBVIOUS
<1>1. pkAudio = [seq |-> 0, sent |-> 0, base |-> 0, failed |-> FALSE, running |-> TRUE,
                 shards |-> [i \in 0..3 |-> 0], parity |-> [base |-> 0, covers |-> {}]] BY DEF PkInit
<1>2. 0 \in 0 .. (PkWidth - 1) /\ 0 % 4 = 0 BY PkAssumption
<1>3. /\ pkAudio.seq = 0 /\ pkAudio.shards = [i \in 0..3 |-> 0] /\ pkAudio.parity.covers = {} BY <1>1
<1>4. AudioParityCovers BY <1>3 DEF AudioParityCovers
<1>5. \A j \in 0 .. 3 : ~(j < 0 % 4) BY <1>2
<1> QED BY <1>1, <1>2, <1>3, <1>4, <1>5 DEF PkAudio

LEMMA PkSendsAudio ==
  ASSUME PkAudio, NEW throws \in BOOLEAN, SendAudio(throws)
  PROVE  PkAudio'
<1> DEFINE s == pkAudio.seq
           o == s % 4
           shards == [pkAudio.shards EXCEPT ![o] = s]
           base == IF ~throws /\ o = 0 THEN s ELSE pkAudio.base
           failed == IF o = 0 THEN throws ELSE pkAudio.failed
           parity == IF ~throws /\ (s + 1) % 4 = 0 THEN [base |-> base, covers |-> {shards[i] : i \in 0..3}]
                                                   ELSE [base |-> 0, covers |-> {}]
<1>1. pkAudio' = [pkAudio EXCEPT !.seq = (s + 1) % PkWidth, !.shards = shards, !.base = base,
                                 !.failed = failed, !.sent = s, !.parity = parity]
  BY Zenon DEF SendAudio, RtpaDataShards, EndsFecBlock
<1>2. /\ s \in 0 .. (PkWidth - 1) /\ DOMAIN pkAudio.shards = 0 .. 3
      /\ \A j \in 0 .. 3 : j < o => pkAudio.shards[j] = s - o + j
      /\ o > 0 => pkAudio.base = s - o \/ pkAudio.failed
  BY DEF PkAudio
<1>3. pkAudio = [seq |-> s, sent |-> pkAudio.sent, base |-> pkAudio.base, failed |-> pkAudio.failed,
                 running |-> pkAudio.running, shards |-> pkAudio.shards, parity |-> pkAudio.parity] BY DEF PkAudio
<1>4. PkWidth \in Nat \ {0} /\ o \in 0 .. 3 BY <1>2, AudioWidth
<1> HIDE DEF s, o, shards, base, failed, parity
<1>5. pkAudio' = [seq |-> (s + 1) % PkWidth, sent |-> s, base |-> base, failed |-> failed,
                  running |-> pkAudio.running, shards |-> shards, parity |-> parity] BY <1>1, <1>3
<1>6. /\ pkAudio'.seq = (s + 1) % PkWidth /\ pkAudio'.sent = s /\ pkAudio'.base = base
      /\ pkAudio'.failed = failed /\ pkAudio'.shards = shards /\ pkAudio'.parity = parity
      /\ pkAudio'.running = pkAudio.running BY <1>5
<1>7. DOMAIN shards = 0 .. 3 BY <1>2 DEF shards
<1>8. \A j \in 0 .. 3 : j <= o => shards[j] = s - o + j
  <2> SUFFICES ASSUME NEW j \in 0 .. 3, j <= o PROVE shards[j] = s - o + j
    OBVIOUS
  <2>1. CASE j = o
    <3>1. shards[o] = s BY <1>2, <1>4 DEF shards
    <3>2. s = s - o + o BY <1>2, <1>4
    <3> QED BY <2>1, <3>1, <3>2
  <2>2. CASE j # o
    <3>1. shards[j] = pkAudio.shards[j] BY <2>2, <1>2 DEF shards
    <3>2. j < o BY <2>2, <1>4
    <3> QED BY <3>1, <3>2, <1>2
  <2> QED BY <2>1, <2>2
<1>9. base = s - o \/ failed
  <2>1. CASE o = 0
    <3>1. s - o = s BY <2>1, <1>2
    <3> QED BY <2>1, <3>1 DEF base, failed
  <2>2. CASE o # 0
    <3>1. o > 0 BY <2>2, <1>4
    <3> QED BY <3>1, <2>2, <1>2 DEF base, failed
  <2> QED BY <2>1, <2>2
<1>10. CASE o < 3
  <2>1. /\ (s + 1) % PkWidth = s + 1 /\ s + 1 \in 0 .. (PkWidth - 1) /\ (s + 1) % 4 = o + 1
    BY <1>10, <1>2, AudioWidth DEF o
  <2>2. (s + 1) % 4 # 0 BY <2>1, <1>4
  <2>3. parity.covers = {} BY <2>2 DEF parity
  <2>4. pkAudio'.seq = s + 1 /\ pkAudio'.seq % 4 = o + 1 BY <2>1, <1>6
  <2>5. pkAudio'.seq - (pkAudio'.seq % 4) = s - o BY <2>4, <1>2, <1>4
  <2>6. \A j \in 0 .. 3 : j < o + 1 => j <= o BY <1>4
  <2>7. \A j \in 0 .. 3 : j < pkAudio'.seq % 4 => pkAudio'.shards[j] = pkAudio'.seq - (pkAudio'.seq % 4) + j
    BY <2>4, <2>5, <2>6, <1>8, <1>6
  <2>8. pkAudio'.base = pkAudio'.seq - (pkAudio'.seq % 4) \/ pkAudio'.failed BY <2>5, <1>9, <1>6
  <2>9. AudioParityCovers' BY <2>3, <1>6 DEF AudioParityCovers
  <2> QED BY <2>1, <2>4, <2>7, <2>8, <2>9, <1>5, <1>6, <1>7 DEF PkAudio
<1>11. CASE o = 3
  <2>1. /\ (s + 1) % PkWidth \in 0 .. (PkWidth - 1) /\ ((s + 1) % PkWidth) % 4 = 0
        /\ s - 3 \in Nat /\ \A i \in 0 .. 3 : (s - i) % PkWidth = s - i
    BY <1>11, <1>2, AudioWidth DEF o
  <2>2. pkAudio'.seq \in 0 .. (PkWidth - 1) /\ pkAudio'.seq % 4 = 0 BY <2>1, <1>6
  <2>3. \A j \in 0 .. 3 : ~(j < pkAudio'.seq % 4) BY <2>2
  <2>4. ~(pkAudio'.seq % 4 > 0) BY <2>2
  <2>5. \A j \in 0 .. 3 : shards[j] = s - 3 + j
    <3>1. \A j \in 0 .. 3 : j <= 3 OBVIOUS
    <3> QED BY <3>1, <1>8, <1>11
  <2>6. {shards[i] : i \in 0 .. 3} = {(s - i) % PkWidth : i \in 0 .. 3}
    <3>1. \A i \in 0 .. 3 : 3 - i \in 0 .. 3 /\ shards[i] = s - (3 - i)  BY <2>5, <1>2
    <3>2. \A i \in 0 .. 3 : shards[i] = (s - (3 - i)) % PkWidth BY <3>1, <2>1
    <3>3. \A i \in 0 .. 3 : (s - i) % PkWidth = shards[3 - i]
      <4> SUFFICES ASSUME NEW i \in 0 .. 3 PROVE (s - i) % PkWidth = shards[3 - i]
        OBVIOUS
      <4>1. 3 - i \in 0 .. 3 /\ s - 3 + (3 - i) = s - i BY <1>2
      <4> QED BY <4>1, <2>1, <2>5
    <3>4. \A i \in 0 .. 3 : 3 - i \in 0 .. 3 OBVIOUS
    <3> QED BY <3>2, <3>3, <3>4
  <2>7. AudioParityCovers'
    <3> SUFFICES ASSUME parity.covers # {}
                 PROVE  /\ parity.covers = {(s - i) % PkWidth : i \in 0..3}
                        /\ parity.base = (s - 3) % PkWidth \/ failed
      BY <1>6 DEF AudioParityCovers
    <3>1. parity = [base |-> base, covers |-> {shards[i] : i \in 0..3}] BY DEF parity
    <3>2. (s - 3) % PkWidth = s - o BY <2>1, <1>11
    <3> QED BY <3>1, <3>2, <2>6, <1>9
  <2> QED BY <2>2, <2>3, <2>4, <2>7, <1>5, <1>6, <1>7 DEF PkAudio
<1> QED BY <1>4, <1>10, <1>11

\* Numbers that differ by less than the width of an IV have different IVs.
LEMMA AudioIvsDiffer ==
  ASSUME NEW key \in Nat, NEW i \in Nat, NEW p \in Nat, i < p, p - i < PkIvs
  PROVE  (key + i) % PkIvs # (key + p) % PkIvs
<1>0. PkIvs \in Nat \ {0} BY PkAssumption
<1> SUFFICES ASSUME (key + i) % PkIvs = (key + p) % PkIvs PROVE FALSE
  OBVIOUS
<1>1. PICK q1 \in Int, q2 \in Int, r \in Int : key + i = PkIvs * q1 + r /\ key + p = PkIvs * q2 + r
  <2>1. key + i \in Int /\ key + p \in Int OBVIOUS
  <2>2. PICK a \in Int, c \in Int, r \in Int :
             a = (key + i) \div PkIvs /\ c = (key + p) \div PkIvs /\ r = (key + i) % PkIvs /\ r = (key + p) % PkIvs
    BY <1>0, <2>1, DivRest
  <2>3. key + i = PkIvs * a + r BY <1>0, <2>1, <2>2, DivRest
  <2>4. key + p = PkIvs * c + r BY <1>0, <2>1, <2>2, DivRest
  <2> QED BY <2>3, <2>4
<1>2. PICK x \in Int, y \in Int : x = PkIvs * q1 /\ y = PkIvs * q2 BY <1>0
<1>3. y - x = p - i BY <1>1, <1>2
<1>4. CASE q2 <= q1
  <2>1. y <= x BY <1>0, <1>2, <1>4, MulMono
  <2> QED BY <2>1, <1>3, <1>2
<1>5. CASE q1 + 1 <= q2
  <2>1. PkIvs * (q1 + 1) <= y BY <1>0, <1>2, <1>5, MulMono
  <2>2. PkIvs * (q1 + 1) = x + PkIvs BY <1>0, <1>2
  <2> QED BY <2>1, <2>2, <1>0, <1>2, <1>3
<1> QED BY <1>4, <1>5

\* The IVs used so far, of the packets so far, until the numbers come around.
PkAudioIvsOf(n) == {AudioIv(i) : i \in 0 .. (n - 1)}
PkAudioIv ==
  /\ pkConfig \in PkConfigs /\ pkAudioIvs.packets \in Nat
  /\ pkAudioIvs.packets <= PkWidth =>
       /\ ~pkAudioIvs.again /\ pkAudioIvs.ivs \subseteq PkAudioIvsOf(pkAudioIvs.packets)
       /\ pkConfig.encrypted /\ pkAudioIvs.packets < PkWidth => pkAudio.seq = pkAudioIvs.packets

LEMMA PkAudioIvInit == PkInit => PkAudioIv
<1> SUFFICES ASSUME PkInit PROVE PkAudioIv
  OBVIOUS
<1>1. pkAudioIvs.ivs = {} /\ pkAudioIvs.packets = 0 /\ ~pkAudioIvs.again /\ pkAudio.seq = 0 /\ pkConfig \in PkConfigs
  BY DEF PkInit
<1> QED BY <1>1 DEF PkAudioIv

LEMMA PkTakesIv ==
  ASSUME PkAudioIv, PkAudio, NEW throws \in BOOLEAN, SendAudio(throws)
  PROVE  PkAudioIv'
<1> DEFINE s == pkAudio.seq
           p == pkAudioIvs.packets
           iv == AudioIv(s)
<1>1. /\ pkConfig' = pkConfig /\ pkAudio'.seq = (s + 1) % PkWidth
      /\ pkAudioIvs' = IF pkConfig.encrypted
                       THEN [ivs |-> pkAudioIvs.ivs \cup {iv}, packets |-> PkLeast(p + 1, PkWidth + 1),
                             again |-> pkAudioIvs.again \/ iv \in pkAudioIvs.ivs]
                       ELSE pkAudioIvs
  <2>1. pkConfig' = pkConfig BY DEF SendAudio
  <2>2. pkAudio' = [pkAudio EXCEPT !.seq = (s + 1) % PkWidth, !.shards = pkAudio'.shards, !.base = pkAudio'.base,
                                   !.failed = pkAudio'.failed, !.sent = pkAudio'.sent, !.parity = pkAudio'.parity]
    BY DEF SendAudio, PkAudio
  <2>3. pkAudio'.seq = (s + 1) % PkWidth BY <2>2 DEF PkAudio
  <2> QED BY <2>1, <2>3 DEF SendAudio
<1>2. PkWidth \in Nat \ {0} /\ PkWidth <= PkIvs /\ PkIvs \in Nat /\ p \in Nat /\ s \in 0 .. (PkWidth - 1)
      /\ pkConfig \in PkConfigs /\ pkConfig.key \in Nat
  BY PkAssumption DEF PkAudioIv, PkAudio, PkConfigs
<1>3. CASE ~pkConfig.encrypted
  <2>1. pkAudioIvs' = pkAudioIvs /\ pkConfig' = pkConfig BY <1>1, <1>3
  <2> QED BY <2>1, <1>3 DEF PkAudioIv, PkAudioIvsOf, AudioIv
<1>4. CASE pkConfig.encrypted
  <2>1. /\ pkAudioIvs'.ivs = pkAudioIvs.ivs \cup {iv} /\ pkAudioIvs'.packets = PkLeast(p + 1, PkWidth + 1)
        /\ pkAudioIvs'.again = (pkAudioIvs.again \/ iv \in pkAudioIvs.ivs) BY <1>1, <1>4
  <2>2. pkAudioIvs'.packets \in Nat /\ (pkAudioIvs'.packets <= PkWidth => p < PkWidth /\ pkAudioIvs'.packets = p + 1)
    BY <2>1, <1>2 DEF PkLeast
  <2>3. ASSUME p < PkWidth
        PROVE  /\ ~pkAudioIvs'.again /\ pkAudioIvs'.ivs \subseteq PkAudioIvsOf(p + 1)
               /\ p + 1 < PkWidth => pkAudio'.seq = p + 1
    <3>1. s = p /\ ~pkAudioIvs.again /\ pkAudioIvs.ivs \subseteq PkAudioIvsOf(p) BY <2>3, <1>2, <1>4 DEF PkAudioIv
    <3>2. ~(iv \in PkAudioIvsOf(p))
      <4> SUFFICES ASSUME NEW i \in 0 .. (p - 1), iv = AudioIv(i) PROVE FALSE
        BY DEF PkAudioIvsOf
      <4>1. (pkConfig.key + p) % PkIvs = (pkConfig.key + i) % PkIvs BY <3>1 DEF AudioIv
      <4>2. i \in Nat /\ i < p /\ p - i < PkIvs BY <1>2, <2>3
      <4> QED BY <4>1, <4>2, <1>2, AudioIvsDiffer
    <3>3. PkAudioIvsOf(p) \cup {iv} \subseteq PkAudioIvsOf(p + 1)
      <4>1. \A i \in 0 .. (p - 1) : i \in 0 .. ((p + 1) - 1) BY <1>2
      <4>2. p \in 0 .. ((p + 1) - 1) BY <1>2
      <4>3. iv = AudioIv(p) BY <3>1
      <4> HIDE DEF iv, p
      <4> QED BY <4>1, <4>2, <4>3, Zenon DEF PkAudioIvsOf
    <3>4. p + 1 < PkWidth => pkAudio'.seq = p + 1
      <4> SUFFICES ASSUME p + 1 < PkWidth PROVE pkAudio'.seq = p + 1
        OBVIOUS
      <4>1. p + 1 \in Int /\ p + 1 = PkWidth * 0 + (p + 1) /\ 0 <= p + 1 BY <1>2
      <4>2. (p + 1) % PkWidth = p + 1 BY <4>1, <1>2, RestUnique
      <4> QED BY <4>2, <3>1, <1>1
    <3> QED BY <2>1, <3>1, <3>2, <3>3, <3>4
  <2>4. \A n : PkAudioIvsOf(n)' = PkAudioIvsOf(n) BY <1>1 DEF PkAudioIvsOf, AudioIv
  <2> HIDE DEF s, p, iv
  <2>5. pkAudioIvs'.packets <= PkWidth =>
          /\ ~pkAudioIvs'.again /\ pkAudioIvs'.ivs \subseteq PkAudioIvsOf(pkAudioIvs'.packets)
          /\ pkAudioIvs'.packets < PkWidth => pkAudio'.seq = pkAudioIvs'.packets
    BY <2>2, <2>3
  <2> QED BY <2>2, <2>5, <1>1, <1>2 DEF PkAudioIv, PkAudioIvsOf, AudioIv
<1> QED BY <1>3, <1>4

LEMMA PkStays ==
  ASSUME UNCHANGED pkVars
  PROVE  (PkVideo => PkVideo') /\ (PkAudio => PkAudio') /\ (PkAudioIv => PkAudioIv')
<1>1. UNCHANGED <<pkConfig, pkLowseq, pkIv, pkUsedIvs, pkFrame, pkPrev, pkCount, pkAudio, pkAudioIvs>> BY DEF pkVars
<1>2. PkVideo => PkVideo'
  BY <1>1 DEF PkVideo, PkFrameSent, PkCounted, BlocksCoverFrame, FrameLengthRecoverable, SequenceContiguous, Shards
<1>3. PkAudio => PkAudio' BY <1>1 DEF PkAudio, AudioParityCovers
<1>4. PkAudioIv => PkAudioIv' BY <1>1 DEF PkAudioIv, PkAudioIvsOf, AudioIv
<1> QED BY <1>2, <1>3, <1>4

LEMMA PkStep ==
  ASSUME PkVideo, PkAudio, PkAudioIv, [PkNext]_pkVars
  PROVE  PkVideo' /\ PkAudio' /\ PkAudioIv'
<1>1. CASE \E size \in PkSizes, idr, found, crashes \in BOOLEAN, done \in 0..MaxFecBlocks :
             SendFrame(size, idr, found, done, crashes)
  <2>1. PICK size \in PkSizes, idr \in BOOLEAN, found \in BOOLEAN, crashes \in BOOLEAN, done \in 0..MaxFecBlocks :
               SendFrame(size, idr, found, done, crashes) BY <1>1
  <2>2. UNCHANGED <<pkConfig, pkAudio, pkAudioIvs>> BY <2>1, Zenon DEF SendFrame
  <2>3. PkVideo' BY <2>1, PkSendsFrame
  <2>4. PkAudio' BY <2>2 DEF PkAudio, AudioParityCovers
  <2>5. PkAudioIv' BY <2>2 DEF PkAudioIv, PkAudioIvsOf, AudioIv
  <2> QED BY <2>3, <2>4, <2>5
<1>2. ASSUME pkConfig' = pkConfig /\ pkVideoVars' = pkVideoVars PROVE PkVideo'
  <2>1. UNCHANGED <<pkConfig, pkLowseq, pkIv, pkUsedIvs, pkFrame, pkPrev, pkCount>> BY <1>2 DEF pkVideoVars
  <2> QED BY <2>1 DEF PkVideo, PkFrameSent, PkCounted, BlocksCoverFrame, FrameLengthRecoverable, SequenceContiguous, Shards
<1>3. CASE \E throws \in BOOLEAN : SendAudio(throws)
  <2>1. pkConfig' = pkConfig /\ pkVideoVars' = pkVideoVars BY <1>3 DEF SendAudio, pkVideoVars
  <2> QED BY <2>1, <1>2, <1>3, PkSendsAudio, PkTakesIv
<1>4. CASE AudioEncodeFails
  <2>1. pkConfig' = pkConfig /\ pkVideoVars' = pkVideoVars BY <1>4 DEF AudioEncodeFails, pkVideoVars
  <2>2. pkAudio' = [pkAudio EXCEPT !.running = FALSE] BY <1>4 DEF AudioEncodeFails
  <2>3. pkAudio = [seq |-> pkAudio.seq, sent |-> pkAudio.sent, base |-> pkAudio.base, failed |-> pkAudio.failed,
                   running |-> pkAudio.running, shards |-> pkAudio.shards, parity |-> pkAudio.parity] BY DEF PkAudio
  <2>4. pkAudio' = [seq |-> pkAudio.seq, sent |-> pkAudio.sent, base |-> pkAudio.base, failed |-> pkAudio.failed,
                    running |-> FALSE, shards |-> pkAudio.shards, parity |-> pkAudio.parity] BY <2>2, <2>3
  <2>5. /\ pkAudio'.seq = pkAudio.seq /\ pkAudio'.sent = pkAudio.sent /\ pkAudio'.base = pkAudio.base
        /\ pkAudio'.failed = pkAudio.failed /\ pkAudio'.shards = pkAudio.shards /\ pkAudio'.parity = pkAudio.parity
        /\ pkAudio'.running = FALSE
    BY <2>4
  <2>6. PkAudio' BY <2>4, <2>5 DEF PkAudio, AudioParityCovers
  <2>7. UNCHANGED <<pkConfig, pkAudioIvs>> BY <1>4 DEF AudioEncodeFails
  <2>8. PkAudioIv' BY <2>5, <2>7 DEF PkAudioIv, PkAudioIvsOf, AudioIv
  <2> QED BY <2>1, <2>6, <2>8, <1>2
<1>5. CASE UNCHANGED pkVars BY <1>5, PkStays
<1> QED BY <1>1, <1>3, <1>4, <1>5 DEF PkNext

\* What a frame and a block of audio are known to be.
PkSound ==
  /\ PkTypeOK
  /\ BlocksCoverFrame
  /\ FrameLengthRecoverable
  /\ SequenceContiguous
  /\ IvNotReusedEarly
  /\ AudioParityCovers

LEMMA PkHolds ==
  ASSUME PkVideo, PkAudio, PkAudioIv
  PROVE  PkSound
<1>1. PkTypeOK BY DEF PkVideo, PkAudio, PkTypeOK, PkFrameSent, PkCounted
<1>2. IvNotReusedEarly
  <2>1. pkIv \in Nat /\ pkUsedIvs.ivs = 0 .. (pkIv - 1) /\ pkUsedIvs.packets = pkIv BY DEF PkVideo, PkCounted
  <2>2. 0 \in Int /\ pkIv - 1 \in Int BY <2>1
  <2>3. Cardinality(0 .. (pkIv - 1)) = IF 0 > pkIv - 1 THEN 0 ELSE (pkIv - 1) - 0 + 1 BY <2>2, FS_Interval
  <2>4. Cardinality(0 .. (pkIv - 1)) = pkIv BY <2>1, <2>3
  <2>5. pkAudioIvs.again => pkAudioIvs.packets > PkWidth BY PkAssumption DEF PkAudioIv
  <2> QED BY <2>1, <2>4, <2>5 DEF IvNotReusedEarly
<1> QED BY <1>1, <1>2 DEF PkVideo, PkFrameSent, PkAudio, PkSound

\* Packets, for any sizes of packets and frames, any parity and minimum and any
\* width of the numbers: every packet of a frame is in one of at most four
\* blocks, none of which has too many shards for the code unless the client
\* wants more parity than a full block leaves room for; the client finds the
\* frame's length, the shards take consecutive numbers, no IV of video is used
\* twice and none of audio before the sequence number comes around, and audio
\* parity covers its four packets.
THEOREM PacketsSound == PkSpec => []PkSound
<1>1. PkInit => PkVideo /\ PkAudio /\ PkAudioIv BY PkVideoInit, PkAudioInit, PkAudioIvInit
<1>2. PkVideo /\ PkAudio /\ PkAudioIv /\ [PkNext]_pkVars => PkVideo' /\ PkAudio' /\ PkAudioIv' BY PkStep
<1>3. PkVideo /\ PkAudio /\ PkAudioIv => PkSound BY PkHolds
<1> QED BY <1>1, <1>2, <1>3, PTL DEF PkSpec

-----------------------------------------------------------------------------
(* The parts together (MCMediaPipeline) *)

\* A step of the group is a step of each part or leaves it alone.
LEMMA MediaStep ==
  ASSUME [MCNext]_mcVars
  PROVE  /\ [DcNext]_dcVars /\ [IgNext]_igVars /\ [WgNext]_wgVars /\ [KmNext]_kmVars
         /\ [DlNext]_dlVars /\ [ElNext]_elVars /\ [NeNext]_neVars /\ [PkNext]_pkVars /\ [SkStep]_skVars
<1>1. UNCHANGED mcVars
        => UNCHANGED <<dcVars, igVars, wgVars, kmVars, dlVars, elVars, neVars, pkVars, skVars>> BY DEF mcVars
<1>2. DcNext \/ UNCHANGED dcVars \/ UNCHANGED mcVars BY DEF MCNext, Rest
<1>3. IgNext \/ UNCHANGED igVars \/ UNCHANGED mcVars BY DEF MCNext, Rest
<1>4. WgNext \/ UNCHANGED wgVars \/ UNCHANGED mcVars BY DEF MCNext, Rest
<1>5. KmNext \/ UNCHANGED kmVars \/ UNCHANGED mcVars BY DEF MCNext, Rest
<1>6. ElNext \/ UNCHANGED elVars \/ UNCHANGED mcVars BY DEF MCNext, Rest
<1>7. NeNext \/ UNCHANGED neVars \/ UNCHANGED mcVars BY DEF MCNext, Rest
<1>8. DlNext \/ UNCHANGED dlVars \/ UNCHANGED mcVars BY DEF MCNext, Rest
<1>9. PkNext \/ UNCHANGED pkVars \/ UNCHANGED mcVars BY DEF MCNext, Rest
<1>10. SkStep \/ UNCHANGED skVars \/ UNCHANGED mcVars BY DEF MCNext, Rest
<1> QED BY <1>1, <1>2, <1>3, <1>4, <1>5, <1>6, <1>7, <1>8, <1>9, <1>10

\* Capture on both platforms, for any instance: an image that goes to an
\* encoder shows what the display showed, under every capture back end, also
\* when a new texture has the address of a released one: the worst that is
\* drawn then is the image's own dummy.
THEOREM CapturedImages == MCSpec => []CapturedImagesSound
<1> DEFINE Inv == DcAll /\ IgPoolInv /\ IgAddressed /\ WgInv /\ KmInv
<1>1. MCInit => Inv
  <2>1. MCInit => DcInit /\ IgInit /\ WgInit /\ KmInit BY DEF MCInit
  <2>2. DcInit => dcWanted \in BOOLEAN BY DEF DcInit
  <2> QED BY <2>1, <2>2, DcInvInit, IgPoolInit, WgInvInit, KmInvInit DEF DcAll
<1>2. Inv /\ [MCNext]_mcVars => Inv' BY MediaStep, DcInvStep, IgStep, WgInvStep, KmInvStep
<1>3. Inv => CapturedImagesSound
  <2> SUFFICES ASSUME Inv PROVE CapturedImagesSound
    OBVIOUS
  <2>1. ImageShowsDesktop /\ FrameNotHeldWhileWaiting BY DEF DcAll, DcInv
  <2>2. EncoderDrawsImage /\ PoolKeepsPeak BY IgDraws DEF IgPoolInv
  <2>3. BuffersAccountedFor BY WgInvHolds
  <2>4. NamedDisplayOpened /\ CursorImageCurrent /\ HdrChangeNoticed BY DEF KmInv, KmCompared, HdrChangeNoticed
  <2> QED BY <2>1, <2>2, <2>3, <2>4 DEF CapturedImagesSound
<1> HIDE DEF Inv
<1> QED BY <1>1, <1>2, <1>3, PTL DEF MCSpec

\* Encoding, for any codec, GPU, rate and order of images and requests: frames
\* are paced, fit the rate control buffer and need none reported as lost, and
\* a failed creation leaves nothing with the driver.
THEOREM EncodersSound == MCSpec => []EncoderSound
<1> DEFINE Inv == ElPacing /\ ElBuffered /\ NeInv
<1>1. MCInit => Inv
  <2>1. MCInit => ElInit /\ NeInit BY DEF MCInit
  <2> QED BY <2>1, ElStarts, NeStarts
<1>2. Inv /\ [MCNext]_mcVars => Inv' BY MediaStep, ElPacingKept, ElBufferKept, NeInvStep
<1>3. Inv => EncoderSound BY ElHolds DEF ElPacing, NeInv, EncoderSound
<1> HIDE DEF Inv
<1> QED BY <1>1, <1>2, <1>3, PTL DEF MCSpec

\* Sending, for any packets, frames, parity, batches and platform: a frame
\* leaves as whole shards in consecutive packets that the client can put
\* together again, whatever fails on the way.
THEOREM WholeFrames == MCSpec => []FramesSentWhole
<1> DEFINE Inv == PkVideo /\ PkAudio /\ PkAudioIv /\ SkInv
<1>1. MCInit => Inv
  <2>1. MCInit => PkInit /\ SkInit BY DEF MCInit
  <2> QED BY <2>1, PkVideoInit, PkAudioInit, PkAudioIvInit, SkStarts
<1>2. Inv /\ [MCNext]_mcVars => Inv' BY MediaStep, PkStep, SkSteps
<1>3. Inv => FramesSentWhole BY PkHolds, SkSuffices DEF PkSound, FramesSentWhole
<1> HIDE DEF Inv
<1> QED BY <1>1, <1>2, <1>3, PTL DEF MCSpec
=============================================================================
