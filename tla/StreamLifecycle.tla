-------------------------- MODULE StreamLifecycle --------------------------
(***************************************************************************)
(* The life of streaming sessions: cmd_announce starts them on the RTSP    *)
(* thread, audio and video threads and the control thread of the shared    *)
(* broadcast context serve and stop them, and whoever runs                 *)
(* rtsp_server_t::clear (the RTSP loop, a launch or cancel request) joins  *)
(* and erases them.  Each step below is what one thread does between two   *)
(* points where another thread can observe the difference.                 *)
(*                                                                         *)
(* Audio and video thread do the same as far as the life of a session is   *)
(* concerned and are counted.  A session id names one session_t object; it *)
(* is used again once nothing refers to the object any more.               *)
(***************************************************************************)
EXTENDS Integers, FiniteSets

CONSTANTS
  Sessions,   \* session_t objects
  Callers,    \* HTTP(S) server and configuration UI threads
  None

VARIABLES
  st,          \* session_t::state, "free" when the object does not exist
  slots,       \* _session_slots
  lock,        \* holder of the lock of _session_slots
  listed,      \* control_server_t::_sessions (raw pointers)
  peers,       \* sessions whose control.peer is set
  workers,     \* audio and video threads that have not returned
  shutdown,    \* sessions whose shutdown_event is raised
  controlEnd,  \* sessions whose controlEnd is raised
  refs,        \* sessions that hold a broadcast_ref
  control,     \* control thread of the broadcast context
  running,     \* running_sessions
  streaming,   \* the last platform callback was streaming_will_start
  app,         \* proc::proc.running()
  pc           \* what each thread is doing

sessionVars == <<st, peers, workers, shutdown, controlEnd>>
broadcastVars == <<listed, refs, control>>
platformVars == <<running, streaming, app>>
vars == <<sessionVars, slots, lock, broadcastVars, platformVars, pc>>

Threads == {"rtsp"} \cup Callers

ASSUME ThreadNames == "rtsp" \notin Callers /\ None \notin Sessions \cup Threads

ASSUME SessionsFinite == IsFiniteSet(Sessions)

StartOps == {"ref", "list", "spawn", "run", "count", "started", "remove", "return"}
ClearOps == {"scan", "join", "last", "erase"}

\* Modes of clear(all)
Modes == {"stopped", "all"}

At(op, s) == [op |-> op, s |-> s, mode |-> "stopped", todo |-> {}]
Idle == At("idle", None)

Is(t, op) == pc[t].op = op

Goto(t, op) == pc' = [pc EXCEPT ![t].op = op]

-----------------------------------------------------------------------------
Init ==
  /\ st = [s \in Sessions |-> "free"]
  /\ slots = {} /\ lock = None
  /\ listed = {} /\ peers = {}
  /\ workers = [s \in Sessions |-> 0]
  /\ shutdown = {} /\ controlEnd = {}
  /\ refs = {} /\ control = "off"
  /\ running = 0 /\ streaming = FALSE /\ app = FALSE
  /\ pc = [t \in Threads |-> Idle]

\* stop(): only a running session stops.
Stop(s) ==
  IF st[s] = "RUNNING"
  THEN st' = [st EXCEPT ![s] = "STOPPING"] /\ shutdown' = shutdown \cup {s}
  ELSE UNCHANGED <<st, shutdown>>

\* A shared_ptr to s other than the one thread t drops in this step.
OwnedElsewhere(s, t, slotsAfter) ==
  \/ s \in slotsAfter
  \/ \E u \in Threads \ {t} : pc[u].s = s /\ pc[u].op \in StartOps \cup {"found"}

EndsBroadcast(rest) == rest = {}

\* Thread t drops its shared_ptr: the last one destroys the session and
\* releases its broadcast_ref.
Drop(s, t, slotsAfter) ==
  IF OwnedElsewhere(s, t, slotsAfter) THEN UNCHANGED <<sessionVars, broadcastVars>>
  ELSE /\ st' = [st EXCEPT ![s] = "free"]
       /\ peers' = peers \ {s}
       /\ shutdown' = shutdown \ {s}
       /\ controlEnd' = controlEnd \ {s}
       /\ refs' = refs \ {s}
       /\ IF s \in refs /\ EndsBroadcast(refs \ {s})
          THEN control' = "off" /\ listed' = {}
          ELSE UNCHANGED <<control, listed>>
       /\ UNCHANGED workers

-----------------------------------------------------------------------------
(* The RTSP thread: cmd_announce *)

\* alloc and insert
Announce(s) ==
  /\ Is("rtsp", "idle") /\ lock = None
  /\ st[s] = "free" /\ s \notin listed
  /\ st' = [st EXCEPT ![s] = "STOPPED"]
  /\ slots' = slots \cup {s}
  /\ pc' = [pc EXCEPT !["rtsp"] = At("ref", s)]
  /\ UNCHANGED <<peers, workers, shutdown, controlEnd, lock, broadcastVars, platformVars>>

\* start(): the first reference constructs the broadcast context, which can fail
StartRef ==
  LET s == pc["rtsp"].s
  IN  /\ Is("rtsp", "ref")
      /\ \/ /\ refs' = refs \cup {s}
            /\ IF refs = {} THEN control' = "loop" /\ listed' = {}
                            ELSE UNCHANGED <<control, listed>>
            /\ Goto("rtsp", "list")
         \/ /\ refs = {}
            /\ Goto("rtsp", "remove")
            /\ UNCHANGED broadcastVars
      /\ UNCHANGED <<sessionVars, slots, lock, platformVars>>

StartList ==
  /\ Is("rtsp", "list")
  /\ listed' = listed \cup {pc["rtsp"].s}
  /\ Goto("rtsp", "spawn")
  /\ UNCHANGED <<sessionVars, slots, lock, refs, control, platformVars>>

StartThreads ==
  /\ Is("rtsp", "spawn")
  /\ workers' = [workers EXCEPT ![pc["rtsp"].s] = 2]
  /\ Goto("rtsp", "run")
  /\ UNCHANGED <<st, peers, shutdown, controlEnd, slots, lock, broadcastVars, platformVars>>

StartRunning ==
  /\ Is("rtsp", "run")
  /\ st' = [st EXCEPT ![pc["rtsp"].s] = "RUNNING"]
  /\ Goto("rtsp", "count")
  /\ UNCHANGED <<peers, workers, shutdown, controlEnd, slots, lock, broadcastVars, platformVars>>

CountedFirst == IF running = 0 THEN 1 ELSE running
Counted == running + 1

StartCount ==
  /\ Is("rtsp", "count")
  /\ running' = Counted
  /\ Goto("rtsp", IF running' = 1 THEN "started" ELSE "return")
  /\ UNCHANGED <<sessionVars, slots, lock, broadcastVars, streaming, app>>

StartCallbacks ==
  /\ Is("rtsp", "started")
  /\ streaming' = TRUE
  /\ Goto("rtsp", "return")
  /\ UNCHANGED <<sessionVars, slots, lock, broadcastVars, running, app>>

\* cmd_announce returns, or removes the session it could not start
Return ==
  LET s == pc["rtsp"].s
  IN  /\ \/ Is("rtsp", "return") /\ UNCHANGED slots
         \/ Is("rtsp", "remove") /\ lock = None /\ slots' = slots \ {s}
      /\ Drop(s, "rtsp", slots')
      /\ pc' = [pc EXCEPT !["rtsp"] = At("after", None)]
      /\ UNCHANGED <<lock, platformVars>>

\* iterate() returns without a new session
Iterate ==
  /\ Is("rtsp", "idle")
  /\ Goto("rtsp", "after")
  /\ UNCHANGED <<sessionVars, slots, lock, broadcastVars, platformVars>>

-----------------------------------------------------------------------------
(* clear(): for stopped sessions by the RTSP loop and by session_count, for
   all by a launch or cancel request, and by the RTSP thread when accepting
   fails or the broadcast shuts down *)

SlotsFree == lock = None

ClearBegin(t, mode) ==
  /\ Is(t, IF t = "rtsp" THEN "after" ELSE "idle")
  /\ SlotsFree
  /\ lock' = t
  /\ pc' = [pc EXCEPT ![t] = [op |-> "scan", s |-> None, mode |-> mode, todo |-> slots]]
  /\ UNCHANGED <<sessionVars, slots, broadcastVars, platformVars>>

ClearVisit(t, s) ==
  /\ Is(t, "scan") /\ s \in pc[t].todo
  /\ IF pc[t].mode = "all" \/ st[s] = "STOPPING"
     THEN /\ Stop(s)
          /\ pc' = [pc EXCEPT ![t].op = "join", ![t].s = s, ![t].todo = @ \ {s}]
     ELSE /\ UNCHANGED <<st, shutdown>>
          /\ pc' = [pc EXCEPT ![t].todo = @ \ {s}]
  /\ UNCHANGED <<peers, workers, controlEnd, slots, lock, broadcastVars, platformVars>>

ClearEnd(t) ==
  /\ Is(t, "scan") /\ pc[t].todo = {}
  /\ lock' = None
  /\ pc' = [pc EXCEPT ![t] = Idle]
  /\ UNCHANGED <<sessionVars, slots, broadcastVars, platformVars>>

\* The threads of s are not created yet: joining them throws.
Unspawned(s) == pc["rtsp"].s = s /\ pc["rtsp"].op \in {"ref", "list", "spawn", "remove"}

JoinThrows(t) ==
  /\ Is(t, "join") /\ Unspawned(pc[t].s)
  /\ lock' = None
  /\ pc' = [pc EXCEPT ![t] = Idle]
  /\ UNCHANGED <<sessionVars, slots, broadcastVars, platformVars>>

\* join(): both threads returned and the control thread let go of the session
ThreadsEndedOnly(s) == s \in controlEnd
ThreadsEnded(s) == workers[s] = 0 /\ s \in controlEnd

JoinThreads(t) ==
  /\ Is(t, "join") /\ ~Unspawned(pc[t].s) /\ ThreadsEnded(pc[t].s)
  /\ running' = running - 1
  /\ Goto(t, IF running' = 0 THEN "last" ELSE "erase")
  /\ UNCHANGED <<sessionVars, slots, lock, broadcastVars, streaming, app>>

\* the last session: proc.pause may terminate the application
JoinCallbacks(t) ==
  /\ Is(t, "last")
  /\ streaming' = FALSE
  /\ app' \in {app, FALSE}
  /\ Goto(t, "erase")
  /\ UNCHANGED <<sessionVars, slots, lock, broadcastVars, running>>

ClearErase(t) ==
  /\ Is(t, "erase")
  /\ slots' = slots \ {pc[t].s}
  /\ Drop(pc[t].s, t, slots')
  /\ pc' = [pc EXCEPT ![t].op = "scan", ![t].s = None]
  /\ UNCHANGED <<lock, platformVars>>

\* the 10 second watchdog of join(): the process traps and is started again
HangsThreadsOnly(t) == Is(t, "join") /\ ~Unspawned(pc[t].s) /\ workers[pc[t].s] > 0
Hangs(t) == Is(t, "join") /\ ~Unspawned(pc[t].s) /\ ~ThreadsEnded(pc[t].s)

HangDetected(t) ==
  /\ Hangs(t)
  /\ st' = [s \in Sessions |-> "free"]
  /\ slots' = {} /\ lock' = None
  /\ listed' = {} /\ peers' = {}
  /\ workers' = [s \in Sessions |-> 0]
  /\ shutdown' = {} /\ controlEnd' = {}
  /\ refs' = {} /\ control' = "off"
  /\ running' = 0 /\ streaming' = FALSE /\ app' = FALSE
  /\ pc' = [u \in Threads |-> Idle]

-----------------------------------------------------------------------------
(* find_session and graceful_stop, on behalf of a request *)

FindSession(t, s) ==
  /\ t \in Callers /\ Is(t, "idle") /\ lock = None /\ s \in slots
  /\ pc' = [pc EXCEPT ![t] = At("found", s)]
  /\ UNCHANGED <<sessionVars, slots, lock, broadcastVars, platformVars>>

GracefulStop(t) ==
  LET s == pc[t].s
  IN  /\ Is(t, "found")
      /\ IF OwnedElsewhere(s, t, slots)
         THEN /\ Stop(s)
              /\ controlEnd' = IF st[s] = "RUNNING" THEN controlEnd \cup {s} ELSE controlEnd
              /\ UNCHANGED <<peers, workers, broadcastVars>>
         ELSE Drop(s, t, slots)
      /\ pc' = [pc EXCEPT ![t] = Idle]
      /\ UNCHANGED <<slots, lock, platformVars>>

-----------------------------------------------------------------------------
(* audioThread, videoThread: no ping, the capture ends or is told to end *)
WorkerEnds(s) ==
  /\ workers[s] > 0
  /\ workers' = [workers EXCEPT ![s] = @ - 1]
  /\ Stop(s)
  /\ UNCHANGED <<peers, controlEnd, slots, lock, broadcastVars, platformVars, pc>>

(* controlBroadcastThread *)

\* a client connects to the session prepared for it
ControlConnect(s) ==
  /\ control = "loop" /\ s \in listed \ peers /\ st[s] # "free"
  /\ peers' = peers \cup {s}
  /\ UNCHANGED <<st, workers, shutdown, controlEnd, slots, lock, broadcastVars, platformVars, pc>>

\* ping timeout, disconnect or a bad packet
ControlStop(s) ==
  /\ control = "loop" /\ s \in listed
  /\ Stop(s)
  /\ UNCHANGED <<peers, workers, controlEnd, slots, lock, broadcastVars, platformVars, pc>>

\* a stopping session is taken off the list (so may be one that is gone: what
\* is read there is arbitrary)
ControlReap(s) ==
  /\ control = "loop" /\ s \in listed /\ st[s] \in {"STOPPING", "free"}
  /\ listed' = listed \ {s}
  /\ controlEnd' = IF st[s] = "free" THEN controlEnd ELSE controlEnd \cup {s}
  /\ UNCHANGED <<st, peers, workers, shutdown, slots, lock, refs, control, platformVars, pc>>

\* no application and nobody waiting for a peer: the thread leaves its loop
ControlBreak ==
  /\ control = "loop" /\ ~app
  /\ \A s \in listed : s \in peers \/ st[s] = "free"
  /\ control' = "ending"
  /\ UNCHANGED <<sessionVars, slots, lock, listed, refs, platformVars, pc>>

\* and tells all remaining sessions, those listed meanwhile included
ControlExit ==
  LET left == {s \in listed : st[s] # "free"}
  IN  /\ control = "ending"
      /\ control' = "ended"
      /\ shutdown' = shutdown \cup left
      /\ controlEnd' = controlEnd \cup left
      /\ UNCHANGED <<st, peers, workers, slots, lock, listed, refs, platformVars, pc>>

(* The application starts, exits or is terminated. *)
AppChanges ==
  /\ app' = ~app
  /\ UNCHANGED <<sessionVars, slots, lock, broadcastVars, running, streaming, pc>>

-----------------------------------------------------------------------------
RtspStep ==
  \/ StartRef \/ StartList \/ StartThreads \/ StartRunning
  \/ StartCount \/ StartCallbacks \/ Return

ClearStep(t) ==
  \/ \E s \in Sessions : ClearVisit(t, s)
  \/ ClearEnd(t) \/ JoinThrows(t) \/ JoinThreads(t)
  \/ JoinCallbacks(t) \/ ClearErase(t)

ControlStep(s) == ControlConnect(s) \/ ControlStop(s) \/ ControlReap(s)

Next ==
  \/ \E s \in Sessions : Announce(s)
  \/ Iterate
  \/ RtspStep
  \/ \E t \in Threads, mode \in Modes : ClearBegin(t, mode)
  \/ \E t \in Threads : ClearStep(t) \/ HangDetected(t)
  \/ \E t \in Callers, s \in Sessions : FindSession(t, s)
  \/ \E t \in Callers : GracefulStop(t)
  \/ \E s \in Sessions : WorkerEnds(s) \/ ControlStep(s)
  \/ ControlBreak \/ ControlExit
  \/ AppChanges

Spec == Init /\ [][Next]_vars

(* Threads that can run do run, the lock of the slots does not starve the
   RTSP loop, a capture told to shut down returns, and the watchdog fires. *)
Fairness ==
  /\ WF_vars(RtspStep) /\ WF_vars(Iterate)
  /\ SF_vars(\E mode \in Modes : ClearBegin("rtsp", mode)) /\ SF_vars(Return)
  /\ WF_vars(ControlExit)
  /\ \A t \in Threads : WF_vars(ClearStep(t)) /\ WF_vars(HangDetected(t))
  /\ \A t \in Callers : WF_vars(GracefulStop(t))
  /\ \A s \in Sessions : WF_vars(s \in shutdown /\ WorkerEnds(s)) /\ WF_vars(ControlReap(s))

FairSpec == Spec /\ Fairness

-----------------------------------------------------------------------------
(* Properties *)

\* Every variable is well formed; running_sessions (an unsigned that wraps
\* below zero) counts no more sessions than exist and is at most one short,
\* for a session that is joined before start() has counted it.
TypeOK ==
  /\ st \in [Sessions -> {"free", "STOPPED", "RUNNING", "STOPPING"}]
  /\ slots \subseteq Sessions /\ lock \in Threads \cup {None}
  /\ listed \subseteq Sessions /\ peers \subseteq Sessions
  /\ workers \in [Sessions -> 0..2]
  /\ shutdown \subseteq Sessions /\ controlEnd \subseteq Sessions
  /\ refs \subseteq Sessions /\ control \in {"off", "loop", "ending", "ended"}
  /\ running \in -1..Cardinality(Sessions)
  /\ streaming \in BOOLEAN /\ app \in BOOLEAN

\* A session is destroyed only after its audio and video threads returned,
\* also when a request clears all sessions while the RTSP thread is starting
\* one: destroying a joinable std::thread would end the process.
ThreadsJoinedBeforeFree ==
  \A s \in Sessions : workers[s] > 0 => st[s] # "free"

\* No two threads join the same session.
OneJoiner ==
  \A t, u \in Threads :
    (pc[t].op \in ClearOps /\ pc[u].op \in ClearOps /\ pc[t].s # None) =>
      (pc[t].s = pc[u].s => t = u)

\* While an audio or video thread of a session runs, the broadcast context it
\* sends through exists.
BroadcastOutlivesThreads ==
  \A s \in Sessions : workers[s] > 0 => s \in refs /\ control # "off"

\* What a session thread uses exists, and is taken apart by one thread, once.
SessionsOutliveThreads ==
  ThreadsJoinedBeforeFree /\ OneJoiner /\ BroadcastOutlivesThreads

\* A stopping session is released in the end, at worst because the watchdog
\* of join() restarts the process.
StoppingSessionReleased ==
  \A s \in Sessions : st[s] = "STOPPING" ~> st[s] = "free"

\* stream.cpp on _sessions: "All active sessions (including those still
\* waiting for a peer to connect)".  So the control thread, while it still
\* goes through the list, finds no destroyed session there.
ListedSessionsExist ==
  control \in {"loop", "ending"} => \A s \in listed : st[s] # "free"
=============================================================================
