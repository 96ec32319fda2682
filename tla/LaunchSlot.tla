----------------------------- MODULE LaunchSlot -----------------------------
(***************************************************************************)
(* The single launch slot of the RTSP server.  A launch or resume request  *)
(* (HTTPS thread) raises launch_event and arms raised_timer; RTSP          *)
(* connections (RTSP thread) take the pending launch and announce sessions *)
(* for it; the control thread clears the slot when the client of such a    *)
(* session connects; the timer's handler (RTSP thread) discards what is    *)
(* still pending.  session_raise and session_clear touch the event and the *)
(* timer one after the other, so the steps of the threads interleave.      *)
(*                                                                         *)
(* A launch id is used again once nothing refers to it any more.           *)
(***************************************************************************)
EXTENDS Integers

CONSTANTS
  Launches,   \* launch_session_t, by id
  None,
  MaxQueued   \* bound on timer handlers that wait for the RTSP thread

ASSUME LaunchSlotAssumption == None \notin Launches /\ MaxQueued \in Nat \ {0}

VARIABLES
  launch,     \* launch_event
  https,      \* the HTTPS thread is "arming": it has raised, not yet armed
  timer,      \* raised_timer is "armed": it has an unexpired wait
  queued,     \* expired waits whose handler has not run
  sockets,    \* launches some open RTSP connection is associated with
  awaiting,   \* launches of announced sessions that wait for their peer
  control     \* session_clear on the control thread: its step and the id viewed

launchVars == <<launch, https, timer, queued, sockets, awaiting, control>>

ControlIdle == [op |-> "idle", l |-> None]

LaunchInit ==
  /\ launch = None
  /\ https = "idle" /\ timer = "off" /\ queued = 0
  /\ sockets = {} /\ awaiting = {}
  /\ control = ControlIdle

-----------------------------------------------------------------------------
(* HTTPS thread: session_raise *)

\* handlers queued, and those the running and the coming wait may still queue
Handlers == queued + (IF timer = "armed" THEN 1 ELSE 0) + (IF https = "arming" THEN 1 ELSE 0)

\* A request that finds a launch pending leaves everything as it is.
Raise(l) ==
  /\ https = "idle" /\ Handlers < MaxQueued
  /\ l \notin sockets \cup awaiting \cup {control.l}
  /\ launch = None
  /\ launch' = l
  /\ https' = "arming"
  /\ UNCHANGED <<timer, queued, sockets, awaiting, control>>

\* expires_after gives up the earlier wait, but not a handler already queued
Arm ==
  /\ https = "arming"
  /\ https' = "idle"
  /\ timer' = "armed"
  /\ UNCHANGED <<launch, queued, sockets, awaiting, control>>

-----------------------------------------------------------------------------
(* RTSP thread *)

TimerAfterExpiry == "off"

\* ping_timeout passes: the handler is ready to run
Expire ==
  /\ timer = "armed"
  /\ timer' = TimerAfterExpiry
  /\ queued' = queued + 1
  /\ UNCHANGED <<launch, https, sockets, awaiting, control>>

\* the handler pops whichever launch is pending
Discard ==
  /\ queued > 0
  /\ queued' = queued - 1
  /\ launch' = None
  /\ UNCHANGED <<https, timer, sockets, awaiting, control>>

\* handle_accept: without a pending launch the connection is closed
Accept ==
  /\ launch # None
  /\ sockets' = sockets \cup {launch}
  /\ UNCHANGED <<launch, https, timer, queued, awaiting, control>>

\* the last connection of a launch is shut down
CloseSocket(l) ==
  /\ l \in sockets
  /\ sockets' = sockets \ {l}
  /\ UNCHANGED <<launch, https, timer, queued, awaiting, control>>

\* cmd_announce, on one of these connections, allocates a session for its launch
Announce(l) ==
  /\ l \in sockets
  /\ awaiting' = awaiting \cup {l}
  /\ UNCHANGED <<launch, https, timer, queued, sockets, control>>

-----------------------------------------------------------------------------
(* Control thread *)

\* the session ends before its peer connects
Expired(l) ==
  /\ control.op = "idle" /\ l \in awaiting
  /\ awaiting' = awaiting \ {l}
  /\ UNCHANGED <<launch, https, timer, queued, sockets, control>>

\* the peer connects; session_clear looks at the pending launch
ConnectCancels(l) ==
  /\ control.op = "idle" /\ l \in awaiting
  /\ awaiting' = awaiting \ {l}
  /\ timer' = IF launch = None THEN timer ELSE "off"
  /\ control' = IF launch = l THEN [op |-> "cancel", l |-> l] ELSE ControlIdle
  /\ UNCHANGED <<launch, https, queued, sockets>>
Connect(l) ==
  /\ control.op = "idle" /\ l \in awaiting
  /\ awaiting' = awaiting \ {l}
  /\ control' = IF launch = l THEN [op |-> "cancel", l |-> l] ELSE ControlIdle
  /\ UNCHANGED <<launch, https, timer, queued, sockets>>

Cancel ==
  /\ control.op = "cancel"
  /\ timer' = "off"
  /\ control' = [control EXCEPT !.op = "pop"]
  /\ UNCHANGED <<launch, https, queued, sockets, awaiting>>

\* pop() without a timeout takes whatever is pending.  When the timer's handler
\* was faster, the control thread waits here for the launch of someone else.
Pop ==
  /\ control.op = "pop" /\ launch # None
  /\ launch' = None
  /\ control' = ControlIdle
  /\ UNCHANGED <<https, timer, queued, sockets, awaiting>>

-----------------------------------------------------------------------------
LaunchNext ==
  \/ Arm \/ Expire \/ Discard \/ Accept \/ Cancel \/ Pop
  \/ \E l \in Launches :
       Raise(l) \/ CloseSocket(l) \/ Announce(l) \/ Expired(l) \/ Connect(l)

LaunchSpec == LaunchInit /\ [][LaunchNext]_launchVars

(* Each thread goes on with the call it is in, time passes and the RTSP
   thread runs the handlers that are ready.  No client is assumed to act. *)
LaunchFairness ==
  /\ WF_launchVars(Arm) /\ WF_launchVars(Expire) /\ WF_launchVars(Discard)
  /\ WF_launchVars(Cancel) /\ WF_launchVars(Pop)

LaunchFairSpec == LaunchSpec /\ LaunchFairness

-----------------------------------------------------------------------------
(* Properties *)

\* The variables are well formed; as many handlers wait as waits expired.
LaunchTypeOK ==
  /\ launch \in Launches \cup {None}
  /\ https \in {"idle", "arming"} /\ timer \in {"off", "armed"}
  /\ queued \in 0..MaxQueued
  /\ sockets \subseteq Launches /\ awaiting \subseteq Launches
  /\ control \in [op : {"idle", "cancel", "pop"}, l : Launches \cup {None}]

\* A pending launch cannot be left behind: its timer runs, a handler is about
\* to discard it, the HTTPS thread is about to arm the timer, or the control
\* thread is about to pop it, in whatever order the three threads touch the
\* event and the timer.
TimerCoversLaunch ==
  launch # None => timer = "armed" \/ queued > 0 \/ https = "arming" \/ control.op = "pop"

\* The slot, its timer and its handlers fit, and no launch is left behind.
LaunchSlotInvariant == LaunchTypeOK /\ TimerCoversLaunch

\* session_raise: "If the client does not begin streaming within the
\* ping_timeout, the session will be discarded."
LaunchSlotFreed == (launch # None) ~> (launch = None)

\* session_clear returns to the control thread, unless the launch it saw was
\* discarded before it popped it: then it waits until the next one is raised.
ControlGoesOn == (control.op # "idle") ~> (control.op = "idle" \/ launch # control.l)
=============================================================================
