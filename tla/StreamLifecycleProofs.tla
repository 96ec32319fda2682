----------------------- MODULE StreamLifecycleProofs -----------------------
(***************************************************************************)
(* The safety of joining and destroying sessions, for every number of      *)
(* sessions and of threads that clear them.                                *)
(***************************************************************************)
EXTENDS StreamLifecycle, FiniteSetTheorems, TLAPS

Ops == StartOps \cup ClearOps \cup {"idle", "after", "found"}

TypeInv ==
  /\ st \in [Sessions -> {"free", "STOPPED", "RUNNING", "STOPPING"}]
  /\ workers \in [Sessions -> Nat]
  /\ slots \subseteq Sessions /\ refs \subseteq Sessions
  /\ running \in Int
  /\ pc \in [Threads -> [op : Ops, s : Sessions \cup {None}, mode : Modes, todo : SUBSET Sessions]]

\* Only the holder of the lock is clearing, and what it works on is in the
\* slots.  Once it has joined a session, no thread of it runs or will.
ClearInv ==
  \A t \in Threads :
    /\ pc[t].op \in ClearOps => lock = t /\ pc[t].todo \subseteq slots
    /\ pc[t].op \in {"join", "last", "erase"} => pc[t].s \in slots
    /\ pc[t].op \in {"last", "erase"} => workers[pc[t].s] = 0 /\ ~Unspawned(pc[t].s)

\* A session that has no threads yet stays in the slots.
StartInv ==
  /\ pc["rtsp"].op \in StartOps => pc["rtsp"].s \in Sessions
  /\ pc["rtsp"].op \in {"ref", "list", "spawn", "remove"} =>
       pc["rtsp"].s \in slots /\ workers[pc["rtsp"].s] = 0
  /\ pc["rtsp"].op \in {"list", "spawn"} => pc["rtsp"].s \in refs

FoundInv == \A t \in Threads : pc[t].op = "found" => pc[t].s \in Sessions

\* Sessions in the slots exist; sessions with threads are in the slots and
\* hold the broadcast context.
SessionInv ==
  \A s \in Sessions :
    /\ s \in slots => st[s] # "free"
    /\ workers[s] > 0 => s \in slots /\ s \in refs

ContextInv == refs # {} => control # "off"

Inv == TypeInv /\ ClearInv /\ StartInv /\ FoundInv /\ SessionInv /\ ContextInv

-----------------------------------------------------------------------------
\* Before the first session nothing is listed, referenced or running.
LEMMA InvInit == Init => Inv
  BY ThreadNames
  DEF Init, Inv, TypeInv, ClearInv, StartInv, FoundInv, SessionInv, ContextInv, Ops,
      StartOps, ClearOps, Modes, Idle, At, Threads

\* stop() changes the state of a session at most from RUNNING to STOPPING.
LEMMA StopKeeps ==
  ASSUME TypeInv, NEW s \in Sessions, Stop(s)
  PROVE  /\ st' \in [Sessions -> {"free", "STOPPED", "RUNNING", "STOPPING"}]
         /\ \A r \in Sessions : st[r] # "free" => st'[r] # "free"
  BY DEF TypeInv, Stop

\* Dropping a session that is out of the slots and has no threads frees that
\* session only, and the broadcast context only when no session refers to it.
LEMMA DropKeeps ==
  ASSUME Inv, NEW s \in Sessions, NEW t \in Threads, NEW left \in SUBSET slots,
         s \notin left => workers[s] = 0,
         Drop(s, t, left)
  PROVE  /\ st' \in [Sessions -> {"free", "STOPPED", "RUNNING", "STOPPING"}]
         /\ workers' = workers
         /\ refs' \subseteq Sessions
         /\ \A r \in left : st'[r] # "free"
         /\ \A r \in Sessions : workers[r] > 0 => r \in refs'
         /\ (pc["rtsp"].op \in {"list", "spawn"} /\ t # "rtsp") => pc["rtsp"].s \in refs'
         /\ ContextInv'
<1> USE DEF Drop, sessionVars, broadcastVars
<1>1. CASE OwnedElsewhere(s, t, left)
  BY <1>1 DEF Inv, TypeInv, SessionInv, ContextInv, StartInv
<1>2. CASE ~OwnedElsewhere(s, t, left)
  <2>1. s \notin left /\ workers[s] = 0 /\ refs' = refs \ {s}
    BY <1>2 DEF OwnedElsewhere
  <2>2. (pc["rtsp"].op \in {"list", "spawn"} /\ t # "rtsp") => pc["rtsp"].s # s
    BY <1>2 DEF OwnedElsewhere, StartOps, Threads
  <2>3. ContextInv'
    BY <1>2, <2>1 DEF Inv, ContextInv, EndsBroadcast
  <2> QED BY <1>2, <2>1, <2>2, <2>3 DEF Inv, TypeInv, SessionInv, StartInv
<1> QED BY <1>1, <1>2

\* start() on the RTSP thread, up to the threads' creation.
LEMMA StartStep ==
  ASSUME Inv,
         \/ \E s \in Sessions : Announce(s)
         \/ Iterate \/ StartRef \/ StartList \/ StartThreads
         \/ StartRunning \/ StartCount \/ StartCallbacks
  PROVE  Inv'
<1> USE ThreadNames DEF Inv, TypeInv, ClearInv, StartInv, FoundInv, SessionInv, ContextInv,
      Threads, Is, Goto, sessionVars, broadcastVars, platformVars
<1>1. ASSUME NEW s \in Sessions, Announce(s) PROVE Inv'
  BY <1>1 DEF Announce, At, Unspawned, StartOps, ClearOps, Ops, Modes
<1>2. CASE Iterate BY <1>2 DEF Iterate, Unspawned, StartOps, ClearOps, Ops
<1>3. CASE StartRef BY <1>3 DEF StartRef, Unspawned, StartOps, ClearOps, Ops
<1>4. CASE StartList BY <1>4 DEF StartList, Unspawned, StartOps, ClearOps, Ops
<1>5. CASE StartThreads BY <1>5 DEF StartThreads, Unspawned, StartOps, ClearOps, Ops
<1>6. CASE StartRunning BY <1>6 DEF StartRunning, Unspawned, StartOps, ClearOps, Ops
<1>7. CASE StartCount BY <1>7 DEF StartCount, Counted, Unspawned, StartOps, ClearOps, Ops
<1>8. CASE StartCallbacks BY <1>8 DEF StartCallbacks, Unspawned, StartOps, ClearOps, Ops
<1> QED BY <1>1, <1>2, <1>3, <1>4, <1>5, <1>6, <1>7, <1>8

\* clear() and join() on any thread, except for the erasing of a session.
LEMMA ClearKeeps ==
  ASSUME Inv, NEW t \in Threads,
         \/ \E mode \in Modes : ClearBegin(t, mode)
         \/ \E s \in Sessions : ClearVisit(t, s)
         \/ ClearEnd(t) \/ JoinThrows(t) \/ JoinThreads(t) \/ JoinCallbacks(t)
         \/ HangDetected(t)
  PROVE  Inv'
<1> USE ThreadNames DEF Inv, TypeInv, ClearInv, StartInv, FoundInv, SessionInv, ContextInv,
      Threads, Is, Goto, sessionVars, broadcastVars, platformVars
<1>1. ASSUME NEW mode \in Modes, ClearBegin(t, mode) PROVE Inv'
  BY <1>1 DEF ClearBegin, SlotsFree, Unspawned, StartOps, ClearOps, Ops
<1>2. ASSUME NEW s \in Sessions, ClearVisit(t, s) PROVE Inv'
  <2>1. /\ st' \in [Sessions -> {"free", "STOPPED", "RUNNING", "STOPPING"}]
        /\ \A r \in Sessions : st[r] # "free" => st'[r] # "free"
    BY <1>2, StopKeeps DEF ClearVisit
  <2> DEFINE mine == pc'[t]
             Pcs == [op : Ops, s : Sessions \cup {None}, mode : Modes, todo : SUBSET Sessions]
             Shape == /\ pc' = [pc EXCEPT ![t] = mine] /\ mine \in Pcs
                      /\ mine.op \in {"scan", "join"} /\ mine.todo \subseteq slots
                      /\ mine.op = "join" => mine.s \in slots
  <2>a. /\ pc[t] \in Pcs /\ pc[t].op = "scan" /\ pc[t].todo \subseteq slots
        /\ s \in pc[t].todo /\ s \in slots
    BY <1>2 DEF ClearVisit, ClearOps
  <2>b. ASSUME pc[t].mode = "all" \/ st[s] = "STOPPING"
        PROVE  Shape
    <3>1. pc' = [pc EXCEPT ![t] = [pc[t] EXCEPT !.op = "join", !.s = s, !.todo = pc[t].todo \ {s}]]
      BY <1>2, <2>b DEF ClearVisit
    <3>2. mine = [op |-> "join", s |-> s, mode |-> pc[t].mode, todo |-> pc[t].todo \ {s}]
      BY <3>1, <2>a
    <3> QED BY <3>1, <3>2, <2>a DEF ClearOps, Ops
  <2>c. ASSUME ~(pc[t].mode = "all" \/ st[s] = "STOPPING")
        PROVE  Shape
    <3>1. pc' = [pc EXCEPT ![t] = [pc[t] EXCEPT !.todo = pc[t].todo \ {s}]]
      BY <1>2, <2>c DEF ClearVisit
    <3>2. mine = [op |-> "scan", s |-> pc[t].s, mode |-> pc[t].mode, todo |-> pc[t].todo \ {s}]
      BY <3>1, <2>a
    <3> QED BY <3>1, <3>2, <2>a DEF ClearOps, Ops
  <2>2. Shape BY <2>b, <2>c
  <2> HIDE DEF mine
  <2>3. /\ \A u \in Threads : u # t => pc'[u] = pc[u]
        /\ pc'[t] = mine
    BY <2>2
  <2>4. lock = t /\ \A u \in Threads : u # t => pc[u].op \notin ClearOps
    BY <1>2 DEF ClearVisit, ClearOps
  <2>5. (pc["rtsp"].op \in StartOps => t # "rtsp") /\ t \in Threads
    BY <1>2 DEF ClearVisit, StartOps
  <2>6. TypeInv' /\ SessionInv' /\ ContextInv' BY <1>2, <2>1, <2>2 DEF ClearVisit
  <2>7. ClearInv' BY <1>2, <2>2, <2>3, <2>4 DEF ClearVisit, ClearOps
  <2>8. StartInv' /\ FoundInv' BY <1>2, <2>2, <2>3, <2>5 DEF ClearVisit, StartOps
  <2> QED BY <2>6, <2>7, <2>8
<1>3. CASE ClearEnd(t) BY <1>3 DEF ClearEnd, Idle, At, Unspawned, StartOps, ClearOps, Ops, Modes
<1>4. CASE JoinThrows(t) BY <1>4 DEF JoinThrows, Idle, At, Unspawned, StartOps, ClearOps, Ops, Modes
<1>5. CASE JoinThreads(t) BY <1>5 DEF JoinThreads, ThreadsEnded, Unspawned, StartOps, ClearOps, Ops
<1>6. CASE JoinCallbacks(t) BY <1>6 DEF JoinCallbacks, Unspawned, StartOps, ClearOps, Ops
<1>7. CASE HangDetected(t) BY <1>7 DEF HangDetected, Idle, At, StartOps, ClearOps, Ops, Modes
<1> QED BY <1>1, <1>2, <1>3, <1>4, <1>5, <1>6, <1>7

\* The steps that may drop the last owner of a session.
LEMMA DropStep ==
  ASSUME Inv, NEW t \in Threads,
         ClearErase(t) \/ Return \/ (t \in Callers /\ GracefulStop(t))
  PROVE  Inv'
<1> USE ThreadNames DEF Inv, TypeInv, ClearInv, StartInv, FoundInv, SessionInv,
      Threads, Is, platformVars
<1>1. CASE ClearErase(t)
  BY <1>1, DropKeeps DEF ClearErase, Unspawned, StartOps, ClearOps, Ops
<1>2. CASE Return
  BY <1>2, DropKeeps DEF Return, At, Unspawned, StartOps, ClearOps, Ops, Modes
<1>3. CASE t \in Callers /\ GracefulStop(t)
  <2> DEFINE s == pc[t].s
  <2>1. s \in Sessions /\ t # "rtsp" BY <1>3 DEF GracefulStop
  <2>2. CASE OwnedElsewhere(s, t, slots)
    <3>1. /\ st' \in [Sessions -> {"free", "STOPPED", "RUNNING", "STOPPING"}]
          /\ \A r \in Sessions : st[r] # "free" => st'[r] # "free"
      BY <1>3, <2>1, <2>2, StopKeeps DEF GracefulStop
    <3> QED BY <1>3, <2>1, <2>2, <3>1
        DEF GracefulStop, ContextInv, broadcastVars, Idle, At, Unspawned, StartOps, ClearOps, Ops, Modes
  <2>3. CASE ~OwnedElsewhere(s, t, slots)
    <3>1. Drop(s, t, slots) BY <1>3, <2>3 DEF GracefulStop
    <3>2. s \notin slots BY <2>3 DEF OwnedElsewhere
    <3>3. workers[s] = 0 BY <2>1, <3>2
    <3> QED BY <1>3, <2>1, <3>1, <3>2, <3>3, DropKeeps, ZenonT(40)
        DEF GracefulStop, Idle, At, Unspawned, StartOps, ClearOps, Ops, Modes
  <2> QED BY <2>2, <2>3
<1> QED BY <1>1, <1>2, <1>3

\* find_session, the audio and video threads, the control thread and the
\* application.
LEMMA OtherKeeps ==
  ASSUME Inv,
         \/ \E t \in Callers, s \in Sessions : FindSession(t, s)
         \/ \E s \in Sessions : WorkerEnds(s) \/ ControlStep(s)
         \/ ControlBreak \/ ControlExit \/ AppChanges \/ UNCHANGED vars
  PROVE  Inv'
<1> USE ThreadNames DEF Inv, TypeInv, ClearInv, StartInv, FoundInv, SessionInv, ContextInv,
      Threads, Is, sessionVars, broadcastVars, platformVars, Unspawned
<1>1. ASSUME NEW t \in Callers, NEW s \in Sessions, FindSession(t, s) PROVE Inv'
  BY <1>1 DEF FindSession, At, StartOps, ClearOps, Ops, Modes
<1>2. ASSUME NEW s \in Sessions, WorkerEnds(s) PROVE Inv'
  BY <1>2, StopKeeps DEF WorkerEnds
<1>3. ASSUME NEW s \in Sessions, ControlConnect(s) \/ ControlReap(s) PROVE Inv'
  BY <1>3 DEF ControlConnect, ControlReap
<1>4. ASSUME NEW s \in Sessions, ControlStop(s) PROVE Inv'
  BY <1>4, StopKeeps DEF ControlStop
<1>5. CASE ControlBreak \/ ControlExit BY <1>5 DEF ControlBreak, ControlExit
<1>6. CASE AppChanges \/ UNCHANGED vars BY <1>6 DEF AppChanges, vars
<1> QED BY <1>1, <1>2, <1>3, <1>4, <1>5, <1>6 DEF ControlStep

\* Every step preserves the invariant.
LEMMA InvNext == Inv /\ [Next]_vars => Inv'
<1> SUFFICES ASSUME Inv, [Next]_vars
             PROVE  Inv'
  OBVIOUS
<1>1. ASSUME NEW t \in Threads, ClearStep(t) PROVE Inv'
  BY <1>1, ClearKeeps, DropStep DEF ClearStep
<1>2. CASE RtspStep
  <2>1. "rtsp" \in Threads BY DEF Threads
  <2> QED BY <1>2, <2>1, StartStep, DropStep DEF RtspStep
<1>3. ASSUME NEW t \in Callers, GracefulStop(t) PROVE Inv'
  BY <1>3, DropStep DEF Threads
<1> QED BY <1>1, <1>2, <1>3, StartStep, ClearKeeps, OtherKeeps DEF Next

-----------------------------------------------------------------------------
\* No session is destroyed before its audio and video threads have returned:
\* not by clear(), not by a request that held it, not when start() fails.
THEOREM SessionsFreedJoined == Spec => []ThreadsJoinedBeforeFree
<1>1. Inv => ThreadsJoinedBeforeFree
  BY DEF Inv, SessionInv, ThreadsJoinedBeforeFree
<1> QED BY InvInit, InvNext, <1>1, PTL DEF Spec

\* However many requests clear sessions at once, a session is joined by one
\* thread only.
THEOREM SessionsJoinedOnce == Spec => []OneJoiner
<1>1. Inv => OneJoiner
  BY DEF Inv, ClearInv, OneJoiner
<1> QED BY InvInit, InvNext, <1>1, PTL DEF Spec

\* The broadcast context outlives every audio and video thread that sends
\* through it.
THEOREM ContextOutlivesThreads == Spec => []BroadcastOutlivesThreads
<1>1. Inv => BroadcastOutlivesThreads
  BY DEF Inv, SessionInv, ContextInv, BroadcastOutlivesThreads
<1> QED BY InvInit, InvNext, <1>1, PTL DEF Spec

\* The three together.
THEOREM SessionsSafe == Spec => []SessionsOutliveThreads
<1>1. ThreadsJoinedBeforeFree /\ OneJoiner /\ BroadcastOutlivesThreads
      => SessionsOutliveThreads
  BY DEF SessionsOutliveThreads
<1> QED BY <1>1, SessionsFreedJoined, SessionsJoinedOnce, ContextOutlivesThreads, PTL

-----------------------------------------------------------------------------
(* running_sessions *)

\* The thread that clears has joined s and not yet erased it.
Joined(s) == \E t \in Threads : pc[t].s = s /\ pc[t].op \in {"last", "erase"}

\* cmd_announce has not yet counted s.
Uncounted(s) ==
  pc["rtsp"].s = s /\ pc["rtsp"].op \in {"ref", "list", "spawn", "remove", "run", "count"}

CountedSessions == {s \in slots : ~Joined(s) /\ ~Uncounted(s)}

\* A session with threads was joined before start() has counted it.
JoinedEarly ==
  /\ pc["rtsp"].op \in {"run", "count"}
  /\ pc["rtsp"].s \notin slots \/ Joined(pc["rtsp"].s)

\* running_sessions counts the sessions that were started and not yet joined,
\* less the one that was joined too early.
CountInv == running = Cardinality(CountedSessions) - (IF JoinedEarly THEN 1 ELSE 0)

\* The variables that no other part of the invariant speaks of.
RestInv ==
  /\ lock \in Threads \cup {None}
  /\ listed \subseteq Sessions /\ peers \subseteq Sessions
  /\ workers \in [Sessions -> 0..2]
  /\ shutdown \subseteq Sessions /\ controlEnd \subseteq Sessions
  /\ control \in {"off", "loop", "ending", "ended"}

FlagInv == streaming \in BOOLEAN /\ app \in BOOLEAN

\* The sessions counted are finitely many, no more than there are.
LEMMA CountedFinite ==
  ASSUME Inv
  PROVE  /\ CountedSessions \subseteq Sessions
         /\ IsFiniteSet(CountedSessions)
         /\ Cardinality(CountedSessions) \in 0..Cardinality(Sessions)
<1>1. CountedSessions \subseteq Sessions
  BY DEF CountedSessions, Inv, TypeInv
<1> QED BY <1>1, SessionsFinite, FS_Subset, FS_CardinalityType

\* The sessions counted, the session joined early and the counter stay.
Uncounting ==
  /\ \A s \in Sessions : s \in CountedSessions' <=> s \in CountedSessions
  /\ JoinedEarly' <=> JoinedEarly
  /\ running' = running

LEMMA UncountingKeeps ==
  ASSUME Inv, Inv', CountInv, Uncounting
  PROVE  CountInv'
<1>1. CountedSessions' \subseteq Sessions /\ CountedSessions \subseteq Sessions
  BY DEF CountedSessions, Inv, TypeInv
<1>2. CountedSessions' = CountedSessions
  BY <1>1 DEF Uncounting
<1> QED BY <1>2 DEF CountInv, Uncounting

\* start() counts a session, unless it was joined before.
LEMMA CountStart ==
  ASSUME Inv, Inv', CountInv, StartCount
  PROVE  CountInv'
<1> DEFINE s == pc["rtsp"].s
<1>0. /\ pc["rtsp"].op = "count" /\ s \in Sessions /\ running' = running + 1
      /\ slots' = slots /\ pc'["rtsp"].s = s /\ pc'["rtsp"].op \in {"started", "return"}
      /\ \A u \in Threads : u # "rtsp" => pc'[u] = pc[u]
  BY DEF StartCount, Counted, Is, Goto, Inv, TypeInv, StartInv, StartOps, Threads
<1>1. \A r : Joined(r)' <=> Joined(r)
  BY <1>0 DEF Joined
<1>2. ~JoinedEarly'
  BY <1>0 DEF JoinedEarly
<1>3. CASE JoinedEarly
  <2>1. CountedSessions' = CountedSessions
    BY <1>0, <1>1, <1>3 DEF CountedSessions, Uncounted, JoinedEarly
  <2> QED BY <2>1, <1>0, <1>2, <1>3, CountedFinite DEF CountInv
<1>4. CASE ~JoinedEarly
  <2>1. s \notin CountedSessions
    BY <1>0 DEF CountedSessions, Uncounted
  <2>2. CountedSessions' = CountedSessions \cup {s}
    BY <1>0, <1>1, <1>4 DEF CountedSessions, Uncounted, JoinedEarly
  <2>3. Cardinality(CountedSessions') = Cardinality(CountedSessions) + 1
    BY <2>1, <2>2, CountedFinite, FS_AddElement
  <2> QED BY <2>3, <1>0, <1>2, <1>4, CountedFinite DEF CountInv
<1> QED BY <1>3, <1>4

\* join() takes a session off the count, also before it is counted.
LEMMA CountJoin ==
  ASSUME Inv, Inv', CountInv, NEW t \in Threads, JoinThreads(t)
  PROVE  CountInv'
<1> DEFINE s == pc[t].s
<1>0. /\ pc[t].op = "join" /\ s \in slots /\ s \in Sessions /\ ~Unspawned(s)
      /\ running' = running - 1 /\ slots' = slots
      /\ pc'[t].s = s /\ pc'[t].op \in {"last", "erase"}
      /\ \A u \in Threads : u # t => pc'[u] = pc[u]
      /\ \A u \in Threads : pc[u].op \notin {"last", "erase"}
  BY DEF JoinThreads, Is, Goto, Inv, TypeInv, ClearInv, ClearOps
<1>1. \A r : ~Joined(r) /\ (Joined(r)' <=> r = s)
  BY <1>0 DEF Joined
<1>2. t = "rtsp" \/ pc'["rtsp"] = pc["rtsp"]
  BY <1>0 DEF Threads
<1>3. CASE Uncounted(s)
  <2>0. t # "rtsp" /\ pc["rtsp"].op \in {"run", "count"} /\ pc["rtsp"].s = s
    BY <1>0, <1>3 DEF Uncounted, Unspawned
  <2>1. CountedSessions' = CountedSessions
    BY <1>0, <1>1, <1>2, <2>0 DEF CountedSessions, Uncounted
  <2>2. JoinedEarly' /\ ~JoinedEarly
    BY <1>0, <1>1, <1>2, <2>0 DEF JoinedEarly
  <2> QED BY <1>0, <2>1, <2>2, CountedFinite DEF CountInv
<1>4. CASE ~Uncounted(s)
  <2>1. s \in CountedSessions
    BY <1>0, <1>1, <1>4 DEF CountedSessions
  <2>2. \A r : Uncounted(r)' <=> Uncounted(r)
    BY <1>0, <1>2, <1>4 DEF Uncounted
  <2>3. CountedSessions' = CountedSessions \ {s}
    BY <1>0, <1>1, <2>2, <1>4 DEF CountedSessions
  <2>4. JoinedEarly' <=> JoinedEarly
    BY <1>0, <1>1, <1>2, <1>4 DEF JoinedEarly, Uncounted
  <2>5. Cardinality(CountedSessions') = Cardinality(CountedSessions) - 1
    BY <2>1, <2>3, CountedFinite, FS_RemoveElement
  <2> QED BY <1>0, <2>4, <2>5, CountedFinite DEF CountInv
<1> QED BY <1>3, <1>4

\* cmd_announce up to the count and after it: the session is in the slots and
\* nobody has joined it before its threads exist.
LEMMA StartUncounting ==
  ASSUME Inv, \/ \E s \in Sessions : Announce(s)
              \/ Iterate \/ StartRef \/ StartList \/ StartThreads \/ StartRunning
              \/ StartCallbacks \/ Return
  PROVE  Uncounting
<1> DEFINE s0 == pc["rtsp"].s
<1>0. /\ \A u \in Threads : u # "rtsp" => pc'[u] = pc[u]
      /\ pc["rtsp"].op \notin {"last", "erase"} /\ pc'["rtsp"].op \notin {"last", "erase"}
      /\ running' = running
  BY DEF Announce, Iterate, StartRef, StartList, StartThreads, StartRunning, StartCallbacks,
         Return, Is, Goto, At, Inv, TypeInv, Threads, platformVars
<1>1. \A r : Joined(r)' <=> Joined(r)
  BY <1>0 DEF Joined, Threads
<1>2. ASSUME NEW s \in Sessions, Announce(s) PROVE Uncounting
  <2>1. /\ s \notin slots /\ slots' = slots \cup {s} /\ pc["rtsp"].op = "idle"
        /\ pc'["rtsp"].op = "ref" /\ pc'["rtsp"].s = s
    BY <1>2 DEF Announce, Is, At, Inv, TypeInv, SessionInv, Threads
  <2> QED BY <1>0, <1>1, <2>1 DEF Uncounting, CountedSessions, Uncounted, JoinedEarly
<1>3. CASE Iterate
  <2>1. slots' = slots /\ pc["rtsp"].op = "idle" /\ pc'["rtsp"].op = "after"
    BY <1>3 DEF Iterate, Is, Goto, Inv, TypeInv, Threads
  <2> QED BY <1>0, <1>1, <2>1 DEF Uncounting, CountedSessions, Uncounted, JoinedEarly
<1>4. CASE StartRef \/ StartList
  <2>1. /\ slots' = slots /\ pc["rtsp"].op \in {"ref", "list"} /\ pc'["rtsp"].s = s0
        /\ pc'["rtsp"].op \in {"list", "spawn", "remove"}
    BY <1>4 DEF StartRef, StartList, Is, Goto, Inv, TypeInv, Threads
  <2> QED BY <1>0, <1>1, <2>1 DEF Uncounting, CountedSessions, Uncounted, JoinedEarly
<1>5. CASE StartThreads
  <2>1. /\ slots' = slots /\ pc["rtsp"].op = "spawn" /\ pc'["rtsp"].s = s0
        /\ pc'["rtsp"].op = "run" /\ s0 \in slots
    BY <1>5 DEF StartThreads, Is, Goto, Inv, TypeInv, StartInv, Threads
  <2>2. ~Joined(s0)
    BY <2>1 DEF Joined, Inv, ClearInv, Unspawned
  <2> QED BY <1>0, <1>1, <2>1, <2>2 DEF Uncounting, CountedSessions, Uncounted, JoinedEarly
<1>6. CASE StartRunning
  <2>1. /\ slots' = slots /\ pc["rtsp"].op = "run" /\ pc'["rtsp"].s = s0
        /\ pc'["rtsp"].op = "count"
    BY <1>6 DEF StartRunning, Is, Goto, Inv, TypeInv, Threads
  <2> QED BY <1>0, <1>1, <2>1 DEF Uncounting, CountedSessions, Uncounted, JoinedEarly
<1>7. CASE StartCallbacks
  <2>1. slots' = slots /\ pc["rtsp"].op = "started" /\ pc'["rtsp"].op = "return"
    BY <1>7 DEF StartCallbacks, Is, Goto, Inv, TypeInv, Threads
  <2> QED BY <1>0, <1>1, <2>1 DEF Uncounting, CountedSessions, Uncounted, JoinedEarly
<1>8. CASE Return
  <2>1. /\ \/ pc["rtsp"].op = "return" /\ slots' = slots
           \/ pc["rtsp"].op = "remove" /\ slots' = slots \ {s0}
        /\ pc'["rtsp"].op = "after"
    BY <1>8 DEF Return, Is, At, Inv, TypeInv, Threads
  <2> QED BY <1>0, <1>1, <2>1 DEF Uncounting, CountedSessions, Uncounted, JoinedEarly
<1> QED BY <1>2, <1>3, <1>4, <1>5, <1>6, <1>7, <1>8

\* Clearing, apart from the joining itself, does not change what is counted:
\* a session is erased after it was joined.
LEMMA ClearUncounting ==
  ASSUME Inv, NEW t \in Threads,
         \/ \E mode \in Modes : ClearBegin(t, mode)
         \/ \E s \in Sessions : ClearVisit(t, s)
         \/ ClearEnd(t) \/ JoinThrows(t) \/ JoinCallbacks(t) \/ ClearErase(t)
         \/ \E s \in Sessions : t \in Callers /\ FindSession(t, s)
         \/ t \in Callers /\ GracefulStop(t)
  PROVE  Uncounting
<1> DEFINE s0 == pc[t].s
           Quiet == {"idle", "after", "scan", "join", "found"}
<1>0. (\A u \in Threads : u # t => pc'[u] = pc[u]) /\ running' = running
  BY DEF ClearBegin, ClearVisit, ClearEnd, JoinThrows, JoinCallbacks, ClearErase, FindSession,
         GracefulStop, Goto, Inv, TypeInv, platformVars
<1>1. t = "rtsp" \/ pc'["rtsp"] = pc["rtsp"]
  BY <1>0 DEF Threads
<1>2. ASSUME pc[t].op \in Quiet, pc'[t].op \in Quiet, slots' = slots
      PROVE  Uncounting
  <2>1. \A r : Joined(r)' <=> Joined(r)
    BY <1>0, <1>2 DEF Joined
  <2> QED BY <1>0, <1>1, <1>2, <2>1 DEF Uncounting, CountedSessions, Uncounted, JoinedEarly
<1>3. ASSUME NEW mode \in Modes, ClearBegin(t, mode) PROVE Uncounting
  BY <1>2, <1>3 DEF ClearBegin, Is, Inv, TypeInv
<1>4. ASSUME NEW s \in Sessions, ClearVisit(t, s) PROVE Uncounting
  <2>1. pc[t].op = "scan" /\ pc[t] \in [op : Ops, s : Sessions \cup {None}, mode : Modes, todo : SUBSET Sessions]
    BY <1>4 DEF ClearVisit, Is, Inv, TypeInv
  <2>2. \/ pc' = [pc EXCEPT ![t] = [pc[t] EXCEPT !.op = "join", !.s = s, !.todo = pc[t].todo \ {s}]]
        \/ pc' = [pc EXCEPT ![t] = [pc[t] EXCEPT !.todo = pc[t].todo \ {s}]]
    BY <1>4 DEF ClearVisit
  <2>3. pc'[t].op \in {"scan", "join"}
    <3>1. pc'[t] \in {[pc[t] EXCEPT !.op = "join", !.s = s, !.todo = pc[t].todo \ {s}],
                      [pc[t] EXCEPT !.todo = pc[t].todo \ {s}]}
      BY <2>2 DEF Inv, TypeInv
    <3>2. pc'[t] \in {[op |-> "join", s |-> s, mode |-> pc[t].mode, todo |-> pc[t].todo \ {s}],
                      [op |-> "scan", s |-> pc[t].s, mode |-> pc[t].mode, todo |-> pc[t].todo \ {s}]}
      BY <2>1, <3>1
    <3> QED BY <3>2
  <2> QED BY <1>2, <1>4, <2>1, <2>3 DEF ClearVisit
<1>5. CASE ClearEnd(t) \/ JoinThrows(t)
  BY <1>2, <1>5 DEF ClearEnd, JoinThrows, Idle, At, Is, Inv, TypeInv
<1>6. CASE JoinCallbacks(t)
  <2>1. slots' = slots /\ pc[t].op = "last" /\ pc'[t].op = "erase" /\ pc'[t].s = s0
    BY <1>6 DEF JoinCallbacks, Is, Goto, Inv, TypeInv
  <2>2. \A r : Joined(r)' <=> Joined(r)
    BY <1>0, <2>1 DEF Joined
  <2> QED BY <1>0, <1>1, <2>1, <2>2 DEF Uncounting, CountedSessions, Uncounted, JoinedEarly
<1>7. CASE ClearErase(t)
  <2>1. /\ slots' = slots \ {s0} /\ s0 \in slots /\ pc[t].op = "erase" /\ pc'[t].op = "scan"
        /\ \A u \in Threads : u # t => pc[u].op \notin {"last", "erase"}
    BY <1>7 DEF ClearErase, Is, Inv, TypeInv, ClearInv, ClearOps
  <2>2. \A r : (Joined(r) <=> r = s0) /\ ~Joined(r)'
    BY <1>0, <2>1 DEF Joined
  <2> QED BY <1>0, <1>1, <2>1, <2>2 DEF Uncounting, CountedSessions, Uncounted, JoinedEarly
<1>8. ASSUME NEW s \in Sessions, t \in Callers, FindSession(t, s) PROVE Uncounting
  BY <1>2, <1>8 DEF FindSession, At, Is, Inv, TypeInv
<1>9. CASE t \in Callers /\ GracefulStop(t)
  BY <1>2, <1>9 DEF GracefulStop, Idle, At, Is, Inv, TypeInv
<1> QED BY <1>3, <1>4, <1>5, <1>6, <1>7, <1>8, <1>9

\* Every step keeps the count right.
LEMMA CountNext ==
  ASSUME Inv, Inv', CountInv, [Next]_vars
  PROVE  CountInv'
<1>1. CASE StartCount BY <1>1, CountStart
<1>2. ASSUME NEW t \in Threads, JoinThreads(t) PROVE CountInv'
  BY <1>2, CountJoin
<1>3. ASSUME NEW t \in Threads, HangDetected(t) PROVE CountInv'
  <2>1. CountedSessions' = {} /\ ~JoinedEarly' /\ running' = 0
    BY <1>3 DEF HangDetected, CountedSessions, JoinedEarly, Idle, At, Threads
  <2> QED BY <2>1, FS_EmptySet DEF CountInv
<1>4. ASSUME \/ \E s \in Sessions : WorkerEnds(s) \/ ControlStep(s)
             \/ ControlBreak \/ ControlExit \/ AppChanges \/ UNCHANGED vars
      PROVE  CountInv'
  <2>1. slots' = slots /\ pc' = pc /\ running' = running
    BY <1>4 DEF WorkerEnds, ControlStep, ControlConnect, ControlStop, ControlReap,
                ControlBreak, ControlExit, AppChanges, vars, platformVars
  <2> QED BY <2>1 DEF CountInv, CountedSessions, JoinedEarly, Joined, Uncounted
<1>5. CASE RtspStep
  BY <1>1, <1>5, StartUncounting, UncountingKeeps DEF RtspStep
<1>6. ASSUME NEW t \in Threads, ClearStep(t) PROVE CountInv'
  BY <1>2, <1>6, ClearUncounting, UncountingKeeps DEF ClearStep
<1>7. ASSUME NEW t \in Callers, GracefulStop(t) \/ \E s \in Sessions : FindSession(t, s)
      PROVE  CountInv'
  <2>1. t \in Threads BY DEF Threads
  <2> QED BY <1>7, <2>1, ClearUncounting, UncountingKeeps
<1> QED BY <1>3, <1>4, <1>5, <1>6, <1>7, StartUncounting, ClearUncounting, UncountingKeeps
        DEF Next

\* The remaining variables keep their types.
LEMMA RestNext ==
  ASSUME Inv, RestInv, [Next]_vars
  PROVE  RestInv'
<1> USE ThreadNames DEF RestInv, sessionVars, broadcastVars, platformVars
<1>0. \A t \in Threads : t \in Threads \cup {None} /\ (pc[t].op = "found" => pc[t].s \in Sessions)
  BY DEF Inv, FoundInv
<1>1. CASE \E s \in Sessions : Announce(s) BY <1>1 DEF Announce
<1>2. CASE RtspStep
  <2>1. CASE StartRef \/ StartList \/ StartThreads \/ StartRunning \/ StartCount \/ StartCallbacks
    BY <2>1 DEF StartRef, StartList, StartThreads, StartRunning, StartCount, StartCallbacks, Is,
                Inv, TypeInv, StartInv, StartOps
  <2>2. CASE Return BY <2>2 DEF Return, Drop
  <2> QED BY <1>2, <2>1, <2>2 DEF RtspStep
<1>3. ASSUME NEW t \in Threads, ClearStep(t) PROVE RestInv'
  BY <1>3 DEF ClearStep, ClearVisit, ClearEnd, JoinThrows, JoinThreads, JoinCallbacks,
              ClearErase, Drop, Stop
<1>4. ASSUME NEW t \in Threads, HangDetected(t) PROVE RestInv'
  BY <1>4 DEF HangDetected
<1>5. ASSUME NEW t \in Threads, NEW mode \in Modes, ClearBegin(t, mode) PROVE RestInv'
  BY <1>5 DEF ClearBegin
<1>6. ASSUME NEW t \in Callers, GracefulStop(t) PROVE RestInv'
  <2>1. pc[t].s \in Sessions BY <1>0, <1>6 DEF GracefulStop, Is, Threads
  <2> QED BY <1>6, <2>1 DEF GracefulStop, Drop, Stop
<1>7. ASSUME NEW s \in Sessions, WorkerEnds(s) \/ ControlStep(s) PROVE RestInv'
  BY <1>7 DEF WorkerEnds, ControlStep, ControlConnect, ControlStop, ControlReap, Stop
<1>8. CASE ControlBreak \/ ControlExit \/ AppChanges \/ Iterate \/ UNCHANGED vars
           \/ \E t \in Callers, s \in Sessions : FindSession(t, s)
  BY <1>8 DEF ControlBreak, ControlExit, AppChanges, Iterate, FindSession, vars
<1> QED BY <1>1, <1>2, <1>3, <1>4, <1>5, <1>6, <1>7, <1>8 DEF Next

LEMMA FlagNext ==
  ASSUME FlagInv, [Next]_vars
  PROVE  FlagInv'
<1> USE DEF FlagInv, sessionVars, broadcastVars, platformVars
<1>1. CASE \/ RtspStep \/ Iterate \/ \E s \in Sessions : Announce(s)
           \/ \E t \in Threads, mode \in Modes : ClearBegin(t, mode)
  BY <1>1, Zenon DEF RtspStep, Iterate, Announce, ClearBegin, StartRef, StartList, StartThreads,
              StartRunning, StartCount, StartCallbacks, Return
<1>2. ASSUME NEW t \in Threads, ClearStep(t) \/ HangDetected(t) PROVE FlagInv'
  BY <1>2, Zenon DEF ClearStep, ClearVisit, ClearEnd, JoinThrows, JoinThreads, JoinCallbacks,
              ClearErase, HangDetected
<1>3. CASE \/ \E t \in Callers, s \in Sessions : FindSession(t, s)
           \/ \E t \in Callers : GracefulStop(t)
           \/ \E s \in Sessions : WorkerEnds(s) \/ ControlStep(s)
           \/ ControlBreak \/ ControlExit \/ UNCHANGED vars
  BY <1>3, Zenon DEF FindSession, GracefulStop, WorkerEnds, ControlStep, ControlConnect,
              ControlStop, ControlReap, ControlBreak, ControlExit, vars
<1>4. CASE AppChanges BY <1>4 DEF AppChanges
<1> QED BY <1>1, <1>2, <1>3, <1>4 DEF Next

\* Every variable stays well formed; above all, running_sessions is never more
\* than the sessions there are and never less than -1, whatever order start(),
\* join() and the requests that clear all sessions take.
THEOREM TypeCorrect == Spec => []TypeOK
<1> DEFINE All == Inv /\ CountInv /\ RestInv /\ FlagInv
<1>1. Init => All
  <2>1. ASSUME Init PROVE CountInv
    <3>1. CountedSessions = {} /\ ~JoinedEarly
      BY <2>1 DEF Init, CountedSessions, JoinedEarly, Idle, At, Threads
    <3> QED BY <2>1, <3>1, FS_EmptySet DEF Init, CountInv
  <2>2. Init => FlagInv BY Zenon DEF Init, FlagInv
  <2>3. Init => RestInv BY DEF Init, RestInv
  <2> QED BY <2>1, <2>2, <2>3, InvInit
<1>2. All /\ [Next]_vars => All'
  BY InvNext, CountNext, RestNext, FlagNext
<1>3. All => TypeOK
  <2> SUFFICES ASSUME All PROVE TypeOK
    OBVIOUS
  <2>1. running \in -1..Cardinality(Sessions)
    BY CountedFinite, SessionsFinite, FS_CardinalityType DEF CountInv
  <2> QED BY <2>1 DEF TypeOK, Inv, TypeInv, RestInv, FlagInv
<1> QED BY <1>1, <1>2, <1>3, PTL DEF Spec
=============================================================================
