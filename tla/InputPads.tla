----------------------------- MODULE InputPads -----------------------------
(***************************************************************************)
(* Gamepads (input.cpp): the ids shared by all sessions, the gamepads of   *)
(* each session, the emulated home button with its timer and the forced    *)
(* release of the back button, and the freeing of the ids when a session   *)
(* is destroyed.  Everything but the destructor runs on the task pool.     *)
(***************************************************************************)
EXTENDS Integers, FiniteSets

CONSTANTS
  IpPads,  \* <<session, controller number>> pairs the clients use
  IpIds    \* MAX_GAMEPADS: ids 0..IpIds-1

ASSUME IpAssumption == IpIds \in Nat

VARIABLES
  ipMask,    \* gamepadMask
  ipId,      \* gamepad_t::id, -1 when there is none
  ipForced,  \* gamepad_t::back_button_state = UP (DOWN is never assigned)
  ipBack,    \* BACK in gamepad_t::gamepad_state
  ipTimers,  \* back button timers in the task pool
  ipOs,      \* BACK in the state last sent for an id
  ipEnded,   \* sessions that ended and whose input_t waits for its timers
  ipGone,    \* sessions whose input_t is destroyed
  ipFree,    \* free_gamepad tasks in the task pool
  ipClient,  \* BACK in the client's last state that was processed
  ipDropped, \* pads their client removed while their timer was pending
  ipWild     \* memory that is no gamepad was used as one

ipVars == <<ipMask, ipId, ipForced, ipBack, ipTimers, ipOs, ipEnded, ipGone, ipFree, ipClient, ipDropped, ipWild>>

\* What follows a use of foreign memory is not modelled.
Defined == ~ipWild /\ UNCHANGED ipWild

IpSessions == {p[1] : p \in IpPads}
Live(p) == p[1] \notin ipEnded \cup ipGone

\* alloc_id: the first free id, as a set that is empty when all are taken.
AllocId == {i \in (0..(IpIds - 1)) \ ipMask : \A j \in (0..(IpIds - 1)) \ ipMask : i <= j}

\* platf::alloc_gamepad fails: the id is given back.
FailedPad(p) == UNCHANGED <<ipMask, ipId, ipOs>>

NewPad(p, id) ==
  /\ ipMask' = ipMask \cup {id} /\ ipId' = [ipId EXCEPT ![p] = id]
  /\ ipOs' = [ipOs EXCEPT ![id] = FALSE]

\* A controller arrival.
Arrival(p) ==
  /\ Defined /\ Live(p) /\ ipId[p] < 0
  /\ \E id \in AllocId : NewPad(p, id) \/ FailedPad(p)
  /\ UNCHANGED <<ipForced, ipBack, ipTimers, ipEnded, ipGone, ipFree, ipClient, ipDropped>>

\* A state that does not list the pad removes it; its timer is not cancelled.
Removal(p) ==
  /\ Defined /\ Live(p) /\ ipId[p] >= 0
  /\ ipDropped' = IF p \in ipTimers THEN ipDropped \cup {p} ELSE ipDropped
  /\ ipMask' = ipMask \ {ipId[p]} /\ ipOs' = [ipOs EXCEPT ![ipId[p]] = FALSE]
  /\ ipId' = [ipId EXCEPT ![p] = -1]
  /\ UNCHANGED <<ipForced, ipBack, ipTimers, ipEnded, ipGone, ipFree, ipClient>>

\* The BACK button of the state to send: forced up until the client let go.
BackToSend(p, back) == back /\ ~ipForced[p]

\* The pad's state, with the home button emulated by a timer on BACK.
State(p, back, id) ==
  LET sent == BackToSend(p, back) IN
  /\ ipForced' = [ipForced EXCEPT ![p] = @ /\ back]
  /\ ipTimers' = IF sent /\ ~ipBack[p] THEN ipTimers \cup {p}
                 ELSE IF ~sent /\ ipBack[p] THEN ipTimers \ {p} ELSE ipTimers
  /\ ipBack' = [ipBack EXCEPT ![p] = sent] /\ ipClient' = [ipClient EXCEPT ![p] = back]
  /\ ipOs' = [ipOs EXCEPT ![id] = sent]
  /\ UNCHANGED <<ipEnded, ipGone, ipFree, ipDropped>>

MultiController(p, back) ==
  /\ Defined /\ Live(p) /\ ipId[p] >= 0
  /\ State(p, back, ipId[p]) /\ UNCHANGED <<ipMask, ipId>>

\* A legacy client's first state creates the pad.
FirstState(p, back) ==
  /\ Defined /\ Live(p) /\ ipId[p] < 0
  /\ \E id \in AllocId :
       /\ ipMask' = ipMask \cup {id} /\ ipId' = [ipId EXCEPT ![p] = id]
       /\ State(p, back, id)

\* BACK was held long enough: it is forced up and HOME is clicked.  A pad
\* removed meanwhile has the id -1: gamepads[-1] is the memory before the
\* first gamepad, where nothing happens only if there is no target in it.
BackTimer(p) ==
  /\ ~ipWild /\ p \in ipTimers /\ ipTimers' = ipTimers \ {p}
  /\ ipForced' = [ipForced EXCEPT ![p] = TRUE] /\ ipBack' = [ipBack EXCEPT ![p] = FALSE]
  /\ ipOs' = [i \in DOMAIN ipOs |-> ipOs[i] /\ i # ipId[p]]
  /\ ipWild' \in (IF ipId[p] >= 0 THEN {FALSE} ELSE BOOLEAN)
  /\ UNCHANGED <<ipMask, ipId, ipEnded, ipGone, ipFree, ipClient, ipDropped>>

SessionEnds(s) ==
  /\ Defined /\ s \notin ipEnded \cup ipGone /\ ipEnded' = ipEnded \cup {s}
  /\ UNCHANGED <<ipMask, ipId, ipForced, ipBack, ipTimers, ipOs, ipGone, ipFree, ipClient, ipDropped>>

DestroyedQuietly(s) ==
  /\ Defined /\ s \in ipEnded /\ \A p \in ipTimers : p[1] # s
  /\ ipGone' = ipGone \cup {s} /\ ipEnded' = ipEnded \ {s}
  /\ UNCHANGED <<ipMask, ipId, ipFree, ipForced, ipBack, ipTimers, ipOs, ipClient, ipDropped>>

\* The input_t dies with its last user, and timers are users: each gamepad
\* pushes a task that frees its id.
Destroyed(s) ==
  /\ Defined /\ s \in ipEnded /\ \A p \in ipTimers : p[1] # s
  /\ ipGone' = ipGone \cup {s} /\ ipEnded' = ipEnded \ {s}
  /\ ipFree' = ipFree \cup ({ipId[p] : p \in {q \in IpPads : q[1] = s}} \ {-1})
  /\ ipId' = [p \in IpPads |-> IF p[1] = s THEN -1 ELSE ipId[p]]
  /\ UNCHANGED <<ipMask, ipForced, ipBack, ipTimers, ipOs, ipClient, ipDropped>>

FreeGamepad(i) ==
  /\ Defined /\ i \in ipFree /\ ipFree' = ipFree \ {i}
  /\ ipMask' = ipMask \ {i} /\ ipOs' = [ipOs EXCEPT ![i] = FALSE]
  /\ UNCHANGED <<ipId, ipForced, ipBack, ipTimers, ipEnded, ipGone, ipClient, ipDropped>>

IpInit ==
  /\ ipMask = {} /\ ipId = [p \in IpPads |-> -1] /\ ipTimers = {} /\ ipFree = {}
  /\ ipForced = [p \in IpPads |-> FALSE] /\ ipBack = [p \in IpPads |-> FALSE]
  /\ ipOs = [i \in 0..(IpIds - 1) |-> FALSE] /\ ipEnded = {} /\ ipGone = {}
  /\ ipClient = [p \in IpPads |-> FALSE] /\ ipDropped = {} /\ ipWild = FALSE

IpNext ==
  \/ \E p \in IpPads : Arrival(p) \/ Removal(p) \/ BackTimer(p)
  \/ \E p \in IpPads, back \in BOOLEAN : MultiController(p, back) \/ FirstState(p, back)
  \/ \E s \in IpSessions : SessionEnds(s) \/ Destroyed(s)
  \/ \E i \in ipFree : FreeGamepad(i)

\* The task pool's thread fires each timer when it is due and runs its tasks.
IpFairness ==
  /\ \A p \in IpPads : WF_ipVars(BackTimer(p))
  /\ WF_ipVars(\E s \in IpSessions : Destroyed(s))
  /\ WF_ipVars(\E i \in ipFree : FreeGamepad(i))

IpSpec == IpInit /\ [][IpNext]_ipVars /\ IpFairness

-----------------------------------------------------------------------------
(* Properties *)

IpTypeOK ==
  /\ ipMask \subseteq 0..(IpIds - 1) /\ ipId \in [IpPads -> -1..(IpIds - 1)]
  /\ ipTimers \subseteq IpPads /\ ipFree \subseteq ipMask

\* The mask is exactly the ids in use: each belongs to one gamepad of one
\* session, or waits for its free_gamepad task, and no two share one.
IdsAccountedFor ==
  /\ ipMask = ({ipId[p] : p \in IpPads} \ {-1}) \cup ipFree
  /\ \A p \in IpPads : ipId[p] \notin ipFree
  /\ \A p, q \in IpPads : p # q /\ ipId[p] >= 0 => ipId[p] # ipId[q]

\* BACK is down on a pad only while its client holds it, and once it was
\* forced up for the home button it stays up until the client let go.
BackForcedUntilReleased ==
  \A p \in IpPads :
    /\ ipForced[p] => ipClient[p]
    /\ ipId[p] >= 0 /\ ipOs[ipId[p]] => ipClient[p] /\ ~ipForced[p]

\* The timer of the home button finds its gamepad, at whatever moment the
\* session ends: only a client that removes a gamepad with BACK held makes
\* the timer reach for memory that is none.
TimersFindPads ==
  /\ \A p \in ipTimers : ipId[p] >= 0 \/ p \in ipDropped
  /\ ipWild => ipDropped # {}

\* The pads of a session that ended are freed for the next one, if no such
\* memory was used.
PadsFreed ==
  \A s \in IpSessions : s \in ipEnded ~> ((s \in ipGone /\ \A p \in IpPads : p[1] = s => ipId[p] = -1) \/ ipWild)
=============================================================================
