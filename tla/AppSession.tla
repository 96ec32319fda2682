----------------------------- MODULE AppSession -----------------------------
(***************************************************************************)
(* The application of a stream and everything it changes on the host:      *)
(* proc_t (process.cpp) with its prep commands, virtual display, display   *)
(* settings, input settings and HDR thread, and the requests that drive it *)
(* (launch, resume, cancel of nvhttp.cpp, the local endpoints, the web     *)
(* page, the first and the last session).                                  *)
(*                                                                         *)
(* A call of proc_t is one step; requests that first look and then act are *)
(* two steps, because each server has a thread of its own.  The state that *)
(* proc_t and the globals it saves and restores keep is one record, host.  *)
(* The configured output name, which a virtual display replaces for a      *)
(* while, is left out.                                                     *)
(***************************************************************************)
EXTENDS Naturals

CONSTANTS Apps,        \* the applications of apps.json
          AppOf,       \* their configuration, see AppRecord
          InputOnly,   \* the "Remote Input" pseudo application
          None,
          MaxHdrJobs   \* HDR threads that may be under way

AppRecord == [cmd : BOOLEAN, prep : 0..2, virtualDisplay : BOOLEAN, gamepad : BOOLEAN,
              autoDetach : BOOLEAN, terminateOnPause : BOOLEAN]

ASSUME AppAssumption == AppOf \in [Apps -> AppRecord] /\ InputOnly \notin Apps /\ None \notin Apps

ASSUME NoneAssumption == None \notin {InputOnly, "user"} /\ MaxHdrJobs \in Nat

Displays == {"virtual", "physical"}
NoLaunch == [virtualDisplay |-> FALSE, guid |-> None]

VARIABLES
  host,      \* proc_t and the host state it changes
  done,      \* prep commands that ran and were not undone: <<app, index>>
  hdrJobs,   \* detached HDR threads that have not finished
  sessions,  \* streaming sessions
  raised,    \* a launch has been raised for the RTSP server
  https,     \* what the HTTPS server's thread is doing
  local,     \* what the HTTP server's thread is doing
  replaced   \* proc_t was replaced while it had an application

appVars == <<host, done, hdrJobs, sessions, raised, https, local, replaced>>

Idle == [op |-> "idle"]

AppInit ==
  /\ host = [app |-> None, ctx |-> None, onPause |-> FALSE, placebo |-> FALSE, child |-> "none", recent |-> FALSE, prep |-> 0,
             launch |-> NoLaunch, virtualDisplay |-> FALSE, display |-> "", input |-> "user", saved |-> None, modeChanged |-> "",
             hdrChanged |-> {},
             driver |-> FALSE, virtual |-> {}, settings |-> "reverting"]
  /\ done = {} /\ hdrJobs = 0 /\ sessions = 0 /\ raised = FALSE
  /\ https = Idle /\ local = Idle /\ replaced = FALSE

-----------------------------------------------------------------------------
(* proc_t *)

\* Undo commands run for the prep commands that were passed, last first.
UndonePrep(h) == {<<h.ctx, i>> : i \in 1..h.prep}

UsedVirtualDisplay(h) == h.driver /\ h.launch.virtualDisplay

\* What removeVirtualDisplay() leaves.
AfterRemoval(h) ==
  IF UsedVirtualDisplay(h) THEN h.virtual \ {h.launch.guid} ELSE h.virtual

\* Display settings: kept as they are for a virtual display, else reverted.
AfterStop(h) ==
  IF h.app = None THEN h.settings ELSE IF UsedVirtualDisplay(h) THEN "kept" ELSE "reverting"

Terminate(h) ==
  [h EXCEPT !.placebo = FALSE, !.child = "none", !.recent = FALSE, !.prep = 0,
            !.hdrChanged = IF h.app # None THEN @ \ {h.modeChanged} ELSE @,
            !.virtual = AfterRemoval(h),
            !.settings = AfterStop(h),
            !.app = None, !.ctx = None, !.onPause = FALSE,
            !.display = "", !.modeChanged = "", !.launch = NoLaunch, !.virtualDisplay = FALSE,
            !.input = IF h.saved # None THEN h.saved ELSE @, !.saved = None]

\* refresh() and execute() try to open a driver that is not open; opened says
\* whether they can.
Reopen(h, opened) == [h EXCEPT !.driver = @ \/ opened]

TerminateAndRefresh(h, opened) == Reopen(Terminate(h), opened)

\* execute() up to the virtual display: a clean slate, the new application and
\* its gamepad setting.
Prepare(h, a, wantsDisplay) ==
  LET t == Terminate(h) IN
  [t EXCEPT !.app = a, !.ctx = a, !.onPause = AppOf[a].terminateOnPause,
            !.launch = [virtualDisplay |-> wantsDisplay, guid |-> a],
            !.saved = IF AppOf[a].gamepad THEN t.input ELSE None,
            !.input = IF AppOf[a].gamepad THEN "app" ELSE @]

WithVirtualDisplayWhenNamed(h, made) ==
  IF h.driver /\ made = "named"
  THEN [h EXCEPT !.launch.virtualDisplay = TRUE, !.virtual = @ \cup {h.launch.guid},
                 !.virtualDisplay = TRUE, !.display = "virtual"]
  ELSE [h EXCEPT !.launch.virtualDisplay = FALSE,
                 !.virtual = IF h.driver /\ made = "unnamed" THEN @ \cup {h.launch.guid} ELSE @]

\* The virtual display of execute().  made: "named" when Windows reported the
\* new display, "unnamed" when it did not in time, "refused" by the driver.
WithVirtualDisplay(h, made) ==
  CASE ~h.driver -> [h EXCEPT !.launch.virtualDisplay = FALSE]
    [] h.driver /\ made = "named" ->
         [h EXCEPT !.launch.virtualDisplay = TRUE, !.virtual = @ \cup {h.launch.guid},
                   !.virtualDisplay = TRUE, !.display = "virtual"]
    [] h.driver /\ made = "unnamed" ->
         [h EXCEPT !.launch.virtualDisplay = TRUE, !.virtual = @ \cup {h.launch.guid}]
    [] h.driver /\ made = "refused" -> [h EXCEPT !.launch.virtualDisplay = TRUE]

SetUpDisplay(h, probing, opened, made) ==
  LET wanted == h.launch.virtualDisplay \/ AppOf[h.ctx].virtualDisplay \/ ~probing
      v == IF wanted THEN WithVirtualDisplay(Reopen(h, opened), made) ELSE h
  IN  [v EXCEPT !.settings = IF v.virtualDisplay THEN "kept" ELSE "applied"]

\* Prep commands one after the other; failing at i leaves i - 1 to undo.
WithPrep(h, n) == [h EXCEPT !.prep = n]

\* The command itself: no command shows the desktop.
Started(h) ==
  [h EXCEPT !.placebo = ~AppOf[h.ctx].cmd,
            !.child = IF AppOf[h.ctx].cmd THEN "alive" ELSE "none",
            !.recent = TRUE]

\* The fail guard of execute(): terminate(), revert.
Failed(h, opened) == [TerminateAndRefresh(h, opened) EXCEPT !.settings = "reverting"]

\* The whole of execute().  stage is where it ends: the encoder probe, prep
\* command n + 1, the command, or nowhere ("ok").
ExecuteStages(a) ==
  {<<"prep", n>> : n \in {m \in 0..2 : m < AppOf[a].prep}}
  \cup (IF sessions = 0 THEN {<<"probe", 0>>} ELSE {})
  \cup (IF AppOf[a].cmd THEN {<<"command", AppOf[a].prep>>} ELSE {})
  \cup (IF hdrJobs < MaxHdrJobs THEN {<<"ok", AppOf[a].prep>>} ELSE {})

\* Ends that can happen; of those that fail alike only one is looked at.
ExecuteEnds(a) ==
  {[stage |-> s[1], n |-> s[2], probing |-> p, opened |-> o, made |-> m] :
     s \in ExecuteStages(a), p \in {TRUE, AppOf[a].virtualDisplay}, o \in {FALSE, ~host.driver},
     m \in {"named", "unnamed", "refused"}}

PossibleEnd(e) == e.made # "named" => e.stage = "ok" /\ (host.driver \/ e.opened)

Execute(a, wantsDisplay, e) ==
  LET s == WithPrep(SetUpDisplay(Prepare(host, a, wantsDisplay), e.probing, e.opened, e.made), e.n)
      undone == UndonePrep(host)
  IN  IF e.stage = "ok"
      THEN /\ host' = Started(s)
           /\ done' = (done \ undone) \cup UndonePrep(s)
           /\ hdrJobs' = hdrJobs + 1
      ELSE /\ host' = Failed(s, e.opened)
           /\ done' = done \ undone
           /\ UNCHANGED hdrJobs

\* launch_input_only(): only the id, the flag and placebo change.
LaunchInputOnly(h) == [h EXCEPT !.app = InputOnly, !.onPause = TRUE, !.placebo = TRUE]

\* running(): the application counts as running while its process lives, and
\* as detached when it ended within five seconds of its launch.
Detaches(h) == h.child = "exited" /\ h.ctx \in Apps /\ AppOf[h.ctx].autoDetach /\ h.recent
IsRunning(h) == h.placebo \/ h.child = "alive" \/ Detaches(h)

AfterRunning(h, opened) ==
  CASE h.placebo \/ h.child = "alive" -> h
    [] ~h.placebo /\ Detaches(h) -> [h EXCEPT !.placebo = TRUE]
    [] ~IsRunning(h) /\ h.child = "exited" -> TerminateAndRefresh(h, opened)
    [] ~IsRunning(h) /\ h.child = "none" -> h

Current(h) == IF IsRunning(h) THEN h.app ELSE None

\* Prep commands that running() undoes.
UndoneByRunning(h) == IF ~IsRunning(h) /\ h.child = "exited" THEN UndonePrep(h) ELSE {}

\* pause(), for the last session, with the revert that follows it in join().
AfterLastSession(h, opened, revertOnDisconnect) ==
  LET r == AfterRunning(h, opened)
      p == IF IsRunning(h) /\ r.onPause THEN TerminateAndRefresh(r, opened) ELSE r
  IN  IF ~IsRunning(h) \/ revertOnDisconnect THEN [p EXCEPT !.settings = "reverting"] ELSE p

UndoneByLastSession(h) ==
  IF IsRunning(h) /\ ~h.onPause THEN {} ELSE UndoneByRunning(h) \cup UndonePrep(h)

-----------------------------------------------------------------------------
(* The virtual display driver and the detached HDR thread *)

\* The ping thread gives up: the driver removes its displays by itself.
WatchdogFailed ==
  /\ host.driver
  /\ host' = [host EXCEPT !.driver = FALSE, !.virtual = {}]
  /\ UNCHANGED <<done, hdrJobs, sessions, raised, https, local, replaced>>

\* The HDR thread found the streaming display; with the automatic option it
\* turns HDR off and then to what the client asked for.  hdrChanged keeps the
\* displays changed while there was an application: terminate() reverts
\* nothing when there is none.
HdrToggle ==
  /\ hdrJobs > 0 /\ host.display # ""
  /\ hdrJobs' = hdrJobs - 1
  /\ host' = [host EXCEPT !.modeChanged = host.display,
                          !.hdrChanged = IF host.app = None THEN @ ELSE @ \cup {host.display}]
  /\ UNCHANGED <<done, sessions, raised, https, local, replaced>>

\* Settings cannot be changed, or no display name, within the retry time; or
\* the option is not automatic and HDR is put back as it was.
HdrLeaves ==
  /\ hdrJobs > 0
  /\ hdrJobs' = hdrJobs - 1
  /\ UNCHANGED <<host, done, sessions, raised, https, local, replaced>>

\* The capture thread names the display it opened.
CaptureNamesDisplay ==
  /\ sessions > 0 /\ host.display = ""
  /\ host' = [host EXCEPT !.display = "physical"]
  /\ UNCHANGED <<done, hdrJobs, sessions, raised, https, local, replaced>>

ChildExits ==
  /\ host.child = "alive"
  /\ host' = [host EXCEPT !.child = "exited"]
  /\ UNCHANGED <<done, hdrJobs, sessions, raised, https, local, replaced>>

FiveSecondsPass ==
  /\ host.recent
  /\ host' = [host EXCEPT !.recent = FALSE]
  /\ UNCHANGED <<done, hdrJobs, sessions, raised, https, local, replaced>>

-----------------------------------------------------------------------------
(* Sessions *)

FirstSession ==
  /\ raised /\ sessions = 0
  /\ sessions' = 1 /\ raised' = FALSE
  /\ UNCHANGED <<host, done, hdrJobs, https, local, replaced>>

LaunchExpires ==
  /\ raised
  /\ raised' = FALSE
  /\ UNCHANGED <<host, done, hdrJobs, sessions, https, local, replaced>>

LastSessionEnds(opened, revertOnDisconnect) ==
  /\ sessions > 0
  /\ sessions' = 0
  /\ host' = AfterLastSession(host, opened, revertOnDisconnect)
  /\ done' = done \ UndoneByLastSession(host)
  /\ UNCHANGED <<hdrJobs, raised, https, local, replaced>>

\* The control thread, serverinfo and applist ask whether the app runs, and so
\* does every launch, resume or reload that is then refused.
PollRunning(opened) ==
  /\ host' = AfterRunning(host, opened)
  /\ done' = done \ UndoneByRunning(host)
  /\ UNCHANGED <<hdrJobs, sessions, raised, https, local, replaced>>

-----------------------------------------------------------------------------
(* Requests on the HTTPS server's thread *)

\* launch() up to its checks.  target None stands for no appid and no appuuid,
\* "terminate" for the pseudo application that ends the running one.
LaunchTargets == Apps \cup {InputOnly, None, "terminate"}
Perms == {"view", "launch"}

LaunchAllowed(target, current, perm) ==
  \/ perm = "launch"
  \/ /\ perm = "view"
     /\ current # None /\ target # "terminate"
     /\ target = InputOnly \/ target = current

Conflicts(target, current) ==
  /\ current \notin {None, InputOnly}
  /\ target \in Apps /\ target # current

\* What is left to do follows from the application that was running.
LaunchPlan(target, current) ==
  CASE target = "terminate" -> [op |-> "terminate", target |-> None]
    [] target = InputOnly -> [op |-> IF current = None THEN "input" ELSE "raise", target |-> None]
    [] target = None -> [op |-> "raise", target |-> None]
    [] target \in Apps /\ target = current -> [op |-> "join", target |-> None]
    [] target \in Apps /\ target # current -> [op |-> "execute", target |-> target]

LaunchReads(target, perm, opened) ==
  /\ https = Idle
  /\ LaunchAllowed(target, Current(host), perm) /\ ~Conflicts(target, Current(host))
  /\ https' = LaunchPlan(target, Current(host))
  /\ host' = AfterRunning(host, opened)
  /\ done' = done \ UndoneByRunning(host)
  /\ UNCHANGED <<hdrJobs, sessions, raised, local, replaced>>

\* Missing parameters or mandatory encryption: nothing is launched.
LaunchRejected ==
  /\ https.op \in {"input", "raise", "join", "execute"}
  /\ https' = Idle
  /\ UNCHANGED <<host, done, hdrJobs, sessions, raised, local, replaced>>

LaunchTerminates(opened) ==
  /\ https.op = "terminate"
  /\ host' = TerminateAndRefresh(host, opened)
  /\ done' = done \ UndonePrep(host)
  /\ https' = Idle
  /\ UNCHANGED <<hdrJobs, sessions, raised, local, replaced>>

\* A client that asks for no application at all is raised as well: the branch
\* that answers 403 does not return.
LaunchJoins(probed) ==
  /\ https.op \in {"input", "raise", "join"}
  /\ LET fresh == sessions = 0 /\ ~host.virtualDisplay IN
     /\ host' = CASE fresh /\ https.op = "input" -> LaunchInputOnly(host)
                  [] fresh /\ https.op = "join" -> [host EXCEPT !.settings = "applied"]
                  [] ~fresh \/ https.op = "raise" -> host
     /\ raised' = (raised \/ ~(fresh /\ https.op = "join" /\ ~probed))
  /\ https' = Idle
  /\ UNCHANGED <<done, hdrJobs, sessions, local, replaced>>

LaunchExecutes(a, wantsDisplay, e) ==
  /\ https.op = "execute" /\ https.target = a
  /\ PossibleEnd(e)
  /\ Execute(a, wantsDisplay, e)
  /\ https' = Idle
  /\ raised' = (raised \/ e.stage = "ok")
  /\ UNCHANGED <<sessions, local, replaced>>

\* resume(): needs a running application; a failed probe leaves the display
\* settings applied and raises nothing.
Resume(probed, opened) ==
  /\ https = Idle /\ IsRunning(host)
  /\ LET r == AfterRunning(host, opened)
         fresh == sessions = 0 /\ ~r.virtualDisplay
     IN  /\ host' = IF fresh THEN [r EXCEPT !.settings = "applied"] ELSE r
         /\ raised' = (raised \/ probed \/ ~fresh)
  /\ UNCHANGED <<done, hdrJobs, sessions, https, local, replaced>>

\* cancel() of nvhttp.cpp and the local cancel: sessions end (the last one
\* pauses the application), then the application, then the settings revert.
Cancel(opened, revertOnDisconnect) ==
  LET s == IF sessions > 0 THEN AfterLastSession(host, opened, revertOnDisconnect) ELSE host
      r == AfterRunning(s, opened)
      t == IF IsRunning(s) THEN TerminateAndRefresh(r, opened) ELSE r
  IN /\ sessions' = 0
     /\ host' = [t EXCEPT !.settings = "reverting"]
     /\ done' = IF t.app = None THEN done \ UndonePrep(host) ELSE done
     /\ UNCHANGED <<hdrJobs, raised, https, local, replaced>>

-----------------------------------------------------------------------------
(* The HTTP server's thread, and the web page *)

\* ligase_authority_reload_local refuses while an application runs ...
ReloadChecks(opened) ==
  /\ local = Idle /\ ~IsRunning(host)
  /\ local' = [op |-> "reload"]
  /\ host' = AfterRunning(host, opened)
  /\ done' = done \ UndoneByRunning(host)
  /\ UNCHANGED <<hdrJobs, sessions, raised, https, replaced>>

\* ... and then replaces proc_t by a new one, without terminate().
ReplacedProc(h) ==
  [h EXCEPT !.app = None, !.ctx = None, !.onPause = FALSE, !.placebo = FALSE, !.child = "none",
            !.recent = FALSE, !.prep = 0, !.launch = NoLaunch, !.virtualDisplay = FALSE, !.display = "",
            !.saved = None, !.modeChanged = ""]

ReloadRefreshes(opened) ==
  /\ local.op = "reload"
  /\ local' = Idle
  /\ host' = ReplacedProc(Reopen(host, opened))
  /\ replaced' = (replaced \/ host.app # None)
  /\ UNCHANGED <<done, hdrJobs, sessions, raised, https>>

\* closeApp, unpairing the last device, the tray; saveApp, reorderApps and
\* deleteApp through refresh().
UiTerminates(opened) ==
  /\ host' = TerminateAndRefresh(host, opened)
  /\ done' = done \ UndonePrep(host)
  /\ UNCHANGED <<hdrJobs, sessions, raised, https, local, replaced>>

UiLaunches(a, e) ==
  /\ PossibleEnd(e)
  /\ Execute(a, FALSE, e)
  /\ UNCHANGED <<sessions, raised, https, local, replaced>>

AppStep ==
  \/ WatchdogFailed \/ CaptureNamesDisplay \/ ChildExits \/ FiveSecondsPass
  \/ HdrToggle \/ HdrLeaves
  \/ FirstSession \/ LaunchExpires
  \/ \E opened \in {FALSE, ~host.driver} :
       \/ \E revert \in BOOLEAN : LastSessionEnds(opened, revert) \/ Cancel(opened, revert)
       \/ PollRunning(opened)
       \/ \E target \in LaunchTargets, perm \in Perms : LaunchReads(target, perm, opened)
       \/ LaunchTerminates(opened)
       \/ \E probed \in BOOLEAN : Resume(probed, opened)
       \/ ReloadChecks(opened) \/ ReloadRefreshes(opened) \/ UiTerminates(opened)
  \/ LaunchRejected \/ \E probed \in BOOLEAN : LaunchJoins(probed)
  \/ \E a \in Apps : \E e \in ExecuteEnds(a) :
       \/ \E wantsDisplay \in BOOLEAN : LaunchExecutes(a, wantsDisplay, e)
       \/ UiLaunches(a, e)

\* Once proc_t has been replaced under an application nothing knows any more
\* what that application changed; what follows is left out.
AppNext == IF replaced THEN UNCHANGED appVars ELSE AppStep

AppSpec == AppInit /\ [][AppNext]_appVars

-----------------------------------------------------------------------------
(* Properties *)

\* Types, and what terminate() and execute() keep together: no application,
\* nothing to restore.
AppTypeOK ==
  /\ host.app \in Apps \cup {InputOnly, None}
  /\ host.display \in Displays \cup {""} /\ host.modeChanged \in Displays \cup {""}
  /\ host.settings \in {"applied", "kept", "reverting"}
  /\ host.virtual \subseteq Apps
  /\ sessions \in 0..1 /\ hdrJobs \in 0..MaxHdrJobs
  /\ host.app = None => ~host.placebo /\ host.child = "none" /\ host.saved = None

\* Every prep command that ran is undone once its application is gone, on
\* whichever path it went (process.cpp, execute and terminate).
PrepCommandsUndone == ~replaced => \A d \in done : d[1] = host.ctx

\* A virtual display exists only for the application it was made for, so that
\* terminate() removes it: "We need to track it properly to remove the
\* display when the session terminates" (execute).
VirtualDisplayTracked ==
  ~replaced => \A g \in host.virtual : host.launch.guid = g /\ host.launch.virtualDisplay

\* HDR is only left changed on the display that terminate() will revert, also
\* when the detached thread acts under the next application, and not under
\* the one it was started for.
HdrChangesReverted == ~replaced => host.hdrChanged \subseteq {host.modeChanged}

\* An application's gamepad setting is in force only while it runs.
InputSettingsRestored == ~replaced /\ host.app = None => host.input = "user"

\* Display settings an application applied do not outlive it: when it goes
\* they are reverted, unless they belonged to a virtual display.
SettingsFollowApp ==
  host.app # None /\ host'.app = None /\ ~replaced' => host'.settings \in {"reverting", "kept"}

\* Whatever an application changed on the host is undone when it is gone, on
\* every path through execute, terminate, pause and the detached HDR thread.
AppChangesUndone ==
  /\ AppTypeOK
  /\ PrepCommandsUndone
  /\ VirtualDisplayTracked
  /\ HdrChangesReverted
  /\ InputSettingsRestored
=============================================================================
