---------------------------- MODULE WindowsInput ----------------------------
(* The input back end on Windows (platform/windows/input.cpp): two          *)
(* machines that share no state, touch and pen, and gamepads.               *)
EXTENDS FiniteSets, Integers

-----------------------------------------------------------------------------
(***************************************************************************)
(* Virtual touch and pen on Windows (platform/windows/input.cpp): the      *)
(* touch slots with their compaction, the pointer flags, the pen, and the  *)
(* tasks that refresh both.  Events and refreshes run on the task pool's   *)
(* thread; the client context may be destroyed on another.                 *)
(***************************************************************************)

CONSTANTS
  WtSlots,     \* ARRAYSIZE(touchInfo)
  WtPointers,  \* pointer ids of the client
  WtMaxEvents  \* bound on touch and pen events

ASSUME WtAssumption == WtSlots \in Nat \ {0}

VARIABLES
  wtDevice,  \* the touch device exists
  wtInfo,    \* touchInfo: slots [id, flags], empty flags = POINTER_FLAG_NONE
  wtActive,  \* activeTouchSlots
  wtTimers,  \* refresh tasks in the task pool, of {"touch", "pen"}
  wtRunning, \* the refresh task being run, as a set
  wtPen,     \* flags of penInfo; wtPenDevice: the pen device exists
  wtPenDevice,
  wtFailed,  \* devices whose last event could not be injected
  wtCancelled, \* refreshes the destructor has cancelled
  wtLate,    \* refreshes that were running when they were cancelled
  wtGone,    \* the client context is destroyed
  wtEvents

wtVars == <<wtDevice, wtInfo, wtActive, wtTimers, wtRunning, wtPen, wtPenDevice, wtFailed, wtCancelled, wtLate, wtGone, wtEvents>>

\* No message is left when the destructor starts.
Client == wtCancelled = {} /\ UNCHANGED <<wtCancelled, wtLate, wtGone>>

WtEvents == {"hover", "down", "up", "move", "cancel", "leave", "button"}
Edge == {"DOWN", "UP", "CANCELED", "UPDATE"}
Free == [id |-> 0, flags |-> {}]
InUse(slot) == slot.flags # {}

\* How many of the first j slots are in use.
UsedUpTo(info, j) == Cardinality({k \in 1..j : InUse(info[k])})

ActiveCount(info) == UsedUpTo(info, WtSlots)

\* perform_touch_compaction keeps the order of the slots in use: the i-th of
\* them moves to slot i.
Compact(info) ==
  [i \in 1..WtSlots |->
    LET source == {j \in 1..WtSlots : InUse(info[j]) /\ UsedUpTo(info, j) = i}
    IN IF source = {} THEN Free ELSE info[CHOOSE j \in source : TRUE]]

\* populate_common_pointer_info.
Flags(flags, event) ==
  CASE event = "hover" -> (flags \ {"INCONTACT"}) \cup {"INRANGE", "UPDATE"}
    [] event = "down" -> flags \cup {"INRANGE", "INCONTACT", "DOWN"}
    [] event = "up" -> (flags \ {"INCONTACT", "INRANGE"}) \cup {"UP"}
    [] event = "move" -> flags \cup {"INRANGE", "INCONTACT", "UPDATE"}
    [] event = "cancel" -> (flags \ {"INCONTACT", "INRANGE"})
                             \cup {IF "INCONTACT" \in flags THEN "UP" ELSE "UPDATE", "CANCELED"}
    [] event = "leave" -> (flags \ {"INCONTACT", "INRANGE"}) \cup {"UPDATE"}
    [] event = "button" -> IF flags # {} THEN flags \cup {"UPDATE"} ELSE flags

\* The slot of a pointer in compacted slots: its own, a free one, or none.
PointerById(info, active, id) ==
  LET own == {i \in 1..WtSlots : info[i].id = id /\ InUse(info[i])}
  IN IF own # {} THEN CHOOSE i \in own : \A j \in own : i <= j ELSE active + 1

\* An event is injected with all slots up to the active count, or fails; only
\* then the edge flags stay and no refresh is scheduled.
TouchSent(info, slot, active, ok) ==
  LET sent == [info EXCEPT ![slot].flags = @ \ Edge] IN
  /\ wtInfo' = IF ok THEN sent ELSE info
  /\ wtActive' = active
  /\ wtFailed' = IF ok THEN wtFailed \ {"touch"} ELSE wtFailed \cup {"touch"}
  /\ wtTimers' = IF ok /\ (active > 1 \/ sent[slot].flags # {}) THEN wtTimers \cup {"touch"}
                 ELSE wtTimers \ {"touch"}

\* A pointer without a slot: all touches are cancelled and it gets the first.
TouchUpdate(id, event, ok) ==
  /\ Client /\ wtRunning = {} /\ wtEvents < WtMaxEvents /\ wtEvents' = wtEvents + 1
  /\ wtDevice' = TRUE
  /\ LET info == Compact(wtInfo)
         active == ActiveCount(wtInfo)
         slot == PointerById(info, active, id)
         full == slot > WtSlots
         at == IF full THEN 1 ELSE slot
         base == IF full THEN [i \in 1..WtSlots |-> Free] ELSE info
         old == base[at]
         new == [base EXCEPT ![at] = [id |-> id, flags |-> Flags(old.flags, event)]]
     IN TouchSent(new, at, IF InUse(old) THEN active ELSE at, ok)
  /\ UNCHANGED <<wtRunning, wtPen, wtPenDevice>>

\* cancel_all_active_touches, when the client asks for it.
CancelAll ==
  /\ Client /\ wtRunning = {} /\ wtDevice
  /\ wtInfo' = [i \in 1..WtSlots |-> Free] /\ wtActive' = 0 /\ wtTimers' = wtTimers \ {"touch"}
  /\ wtFailed' = wtFailed \ {"touch"}
  /\ UNCHANGED <<wtDevice, wtRunning, wtPen, wtPenDevice, wtEvents>>

PenUpdate(event, ok) ==
  /\ Client /\ wtRunning = {} /\ wtEvents < WtMaxEvents /\ wtEvents' = wtEvents + 1
  /\ wtPenDevice' = TRUE
  /\ LET flags == Flags(wtPen, event)
         sent == IF ok THEN flags \ Edge ELSE flags
     IN /\ wtPen' = sent
        /\ wtFailed' = IF ok THEN wtFailed \ {"pen"} ELSE wtFailed \cup {"pen"}
        /\ wtTimers' = IF ok /\ sent # {} THEN wtTimers \cup {"pen"} ELSE wtTimers \ {"pen"}
  /\ UNCHANGED <<wtDevice, wtInfo, wtActive, wtRunning>>

RefreshKeeps == UNCHANGED <<wtDevice, wtInfo, wtActive, wtPen, wtPenDevice, wtFailed, wtCancelled, wtLate, wtGone, wtEvents>>

\* repeat_touch and repeat_pen inject the state, then schedule themselves.
\* They hold a plain pointer to the context: with the context destroyed they
\* use freed memory, here with the outcome that it still reads as before.
RefreshStarts(dev) ==
  /\ wtRunning = {} /\ dev \in wtTimers
  /\ wtTimers' = wtTimers \ {dev} /\ wtRunning' = {dev}
  /\ RefreshKeeps

RefreshEnds ==
  /\ wtRunning # {}
  /\ wtTimers' = wtTimers \cup wtRunning /\ wtRunning' = {}
  /\ RefreshKeeps

\* The destructor cancels the pen's refresh, then touch's; a refresh that is
\* running is not in the task pool and stays.
CancelRefresh(dev) ==
  /\ wtCancelled = (IF dev = "pen" THEN {} ELSE {"pen"})
  /\ wtCancelled' = wtCancelled \cup {dev}
  /\ wtTimers' = wtTimers \ {dev} /\ wtLate' = wtLate \cup (wtRunning \cap {dev})
  /\ UNCHANGED <<wtDevice, wtInfo, wtActive, wtRunning, wtPen, wtPenDevice, wtFailed, wtGone, wtEvents>>

\* The devices are destroyed and the memory is freed.
ClientDestroyed ==
  /\ wtCancelled = {"pen", "touch"} /\ ~wtGone /\ wtGone' = TRUE
  /\ wtDevice' = FALSE /\ wtPenDevice' = FALSE
  /\ UNCHANGED <<wtInfo, wtActive, wtTimers, wtRunning, wtPen, wtFailed, wtCancelled, wtLate, wtEvents>>

WtInit ==
  /\ wtDevice = FALSE /\ wtInfo = [i \in 1..WtSlots |-> Free] /\ wtActive = 0 /\ wtTimers = {}
  /\ wtRunning = {} /\ wtPen = {} /\ wtPenDevice = FALSE /\ wtFailed = {} /\ wtEvents = 0
  /\ wtCancelled = {} /\ wtLate = {} /\ wtGone = FALSE

WtNext ==
  \/ \E id \in WtPointers, event \in WtEvents \ {"button"}, ok \in BOOLEAN : TouchUpdate(id, event, ok)
  \/ \E event \in WtEvents, ok \in BOOLEAN : PenUpdate(event, ok)
  \/ CancelAll \/ (\E dev \in {"touch", "pen"} : RefreshStarts(dev) \/ CancelRefresh(dev))
  \/ RefreshEnds \/ ClientDestroyed

WtSpec == WtInit /\ [][WtNext]_wtVars

-----------------------------------------------------------------------------
(* Properties *)

\* Whatever order pointers appear and vanish in, the slots passed to Windows,
\* those below the active count, hold every touch, each pointer once.
SlotsCoverTouches ==
  /\ \A i \in 1..WtSlots : InUse(wtInfo[i]) => i <= wtActive
  /\ \A i, j \in 1..WtSlots : i # j /\ InUse(wtInfo[i]) /\ InUse(wtInfo[j]) => wtInfo[i].id # wtInfo[j].id

\* Windows drops an interaction that is not refreshed: while a finger or the
\* pen is on the surface and its last event got through, a refresh is due.
InteractionRefreshed ==
  wtCancelled = {} =>
    /\ "touch" \notin wtFailed /\ (\E i \in 1..WtSlots : InUse(wtInfo[i])) => "touch" \in wtTimers \cup wtRunning
    /\ "pen" \notin wtFailed /\ wtPen # {} => "pen" \in wtTimers \cup wtRunning

\* A refresh that is scheduled or running has its device, and none is left
\* once its cancellation was tried, let alone when the context is freed.  One
\* refresh escapes, and no other: a refresh that was running at the moment of
\* its cancellation schedules itself again.
NoRefreshAfterClient ==
  \A dev \in (wtTimers \cup wtRunning) \ wtLate :
    dev \notin wtCancelled /\ ~wtGone /\ (IF dev = "pen" THEN wtPenDevice ELSE wtDevice)

-----------------------------------------------------------------------------
(***************************************************************************)
(* Virtual gamepads on Windows (platform/windows/input.cpp): the ViGEm     *)
(* connection and its targets, the DualShock 4 report that is repeated to  *)
(* keep its timestamp moving, the touchpad's two pointer indices, and the  *)
(* rumble data on its way back.  Everything runs on the task pool's        *)
(* thread; the driver's callback only pushes a task.                       *)
(***************************************************************************)

CONSTANTS
  WpPads,      \* global gamepad indices
  WpFingers,   \* pointer ids of a client's touchpad
  WpMotors,    \* rumble values
  WpMaxEvents  \* bound on events

VARIABLES
  wpClient,   \* vigem_t::client is connected
  wpGp,       \* type of gamepad_context_t::gp: "none", "x360", "ds4"
  wpAttached, \* gamepads attached to the driver
  wpTimers,   \* gamepads with a repeat_task in the task pool
  wpSilent,   \* DualShock 4 gamepads with no report sent, or whose last one failed
  wpMap,      \* pointer_id_map: pointer id to index, -1 when absent
  wpAvail,    \* available_pointers
  wpRumble,   \* last_rumble
  wpHeard,    \* the rumble the current client was told
  wpTasks,    \* rumble tasks in the task pool
  wpReused,   \* gamepads attached again after they were freed
  wpEvents

wpVars == <<wpClient, wpGp, wpAttached, wpTimers, wpSilent, wpMap, wpAvail, wpRumble, wpHeard, wpTasks, wpReused, wpEvents>>

Event == wpEvents < WpMaxEvents /\ wpEvents' = wpEvents + 1

\* alloc_gamepad_internal: connecting or adding the target may fail; then the
\* connection stays, and so does the unattached target.
AllocGamepad(nr, type, outcome) ==
  /\ Event /\ nr \notin wpAttached
  /\ wpClient' = (wpClient \/ outcome # "no_driver")
  /\ CASE outcome = "no_driver" -> ~wpClient /\ UNCHANGED <<wpGp, wpAttached, wpAvail, wpSilent, wpHeard>>
       [] outcome = "no_target" -> /\ wpGp' = [wpGp EXCEPT ![nr] = type]
                                   /\ wpAvail' = [wpAvail EXCEPT ![nr] = IF type = "ds4" THEN {0, 1} ELSE @]
                                   /\ UNCHANGED <<wpAttached, wpSilent, wpHeard>>
       [] outcome = "ok" -> /\ wpGp' = [wpGp EXCEPT ![nr] = type] /\ wpAttached' = wpAttached \cup {nr}
                            /\ wpAvail' = [wpAvail EXCEPT ![nr] = IF type = "ds4" THEN {0, 1} ELSE @]
                            /\ wpSilent' = wpSilent \cup {nr} /\ wpHeard' = [wpHeard EXCEPT ![nr] = 0]
  /\ UNCHANGED <<wpTimers, wpMap, wpRumble, wpTasks, wpReused>>

\* free_target: the last one disconnects.  The pointer map and the last rumble
\* stay; rumble tasks for the target no longer find it.
FreeTarget(nr) ==
  /\ Event /\ nr \in wpAttached /\ wpTimers' = wpTimers \ {nr}
  /\ wpGp' = [wpGp EXCEPT ![nr] = "none"] /\ wpAttached' = wpAttached \ {nr}
  /\ wpClient' = (wpAttached' # {}) /\ wpReused' = wpReused \cup {nr} /\ wpTasks' = {t \in wpTasks : t[1] # nr}
  /\ UNCHANGED <<wpSilent, wpMap, wpAvail, wpRumble, wpHeard>>

\* ds4_update_ts_and_send: a report that cannot be sent is not repeated.
SendReport(nr, ok) ==
  /\ wpTimers' = IF ok THEN wpTimers \cup {nr} ELSE wpTimers \ {nr}
  /\ wpSilent' = IF ok THEN wpSilent \ {nr} ELSE wpSilent \cup {nr}

\* A button update.
GamepadUpdate(nr, ok) ==
  /\ nr \in wpAttached
  /\ IF wpGp[nr] = "ds4" THEN SendReport(nr, ok) ELSE UNCHANGED <<wpTimers, wpSilent>>
  /\ UNCHANGED <<wpClient, wpGp, wpAttached, wpMap, wpAvail, wpRumble, wpHeard, wpTasks, wpReused, wpEvents>>

\* Motion and battery, which only a DualShock 4 has.
SensorUpdate(nr, ok) ==
  /\ nr \in wpAttached /\ wpGp[nr] = "ds4" /\ SendReport(nr, ok)
  /\ UNCHANGED <<wpClient, wpGp, wpAttached, wpMap, wpAvail, wpRumble, wpHeard, wpTasks, wpReused, wpEvents>>

Repeat(nr, ok) ==
  /\ nr \in wpTimers /\ SendReport(nr, ok)
  /\ UNCHANGED <<wpClient, wpGp, wpAttached, wpMap, wpAvail, wpRumble, wpHeard, wpTasks, wpReused, wpEvents>>

NextIndex(nr) == CHOOSE i \in wpAvail[nr] : \A j \in wpAvail[nr] : i <= j

\* gamepad_touch: a finger down takes the first free index, even if the
\* client missed its up; up gives the index back.
TouchDown(nr, finger) ==
  /\ wpAvail[nr] # {}
  /\ wpMap' = [wpMap EXCEPT ![nr][finger] = NextIndex(nr)]
  /\ wpAvail' = [wpAvail EXCEPT ![nr] = @ \ {NextIndex(nr)}]

TouchUp(nr, finger) ==
  /\ wpMap[nr][finger] >= 0
  /\ wpMap' = [wpMap EXCEPT ![nr][finger] = -1]
  /\ wpAvail' = [wpAvail EXCEPT ![nr] = @ \cup {wpMap[nr][finger]}]

TouchCancelAll(nr) ==
  /\ wpMap' = [wpMap EXCEPT ![nr] = [f \in WpFingers |-> -1]]
  /\ wpAvail' = [wpAvail EXCEPT ![nr] = {0, 1}]

GamepadTouch(nr, finger, ok) ==
  /\ Event /\ nr \in wpAttached /\ wpGp[nr] = "ds4"
  /\ TouchDown(nr, finger) \/ TouchUp(nr, finger) \/ TouchCancelAll(nr)
  /\ SendReport(nr, ok)
  /\ UNCHANGED <<wpClient, wpGp, wpAttached, wpRumble, wpHeard, wpTasks, wpReused>>

\* The driver's callback.
Notify(nr, motor) ==
  /\ Event /\ nr \in wpAttached /\ wpTasks' = wpTasks \cup {<<nr, motor>>}
  /\ UNCHANGED <<wpClient, wpGp, wpAttached, wpTimers, wpSilent, wpMap, wpAvail, wpRumble, wpHeard, wpReused>>

\* Duplicate rumble data is not sent again.
RumbleSent(nr, motor) ==
  IF motor # wpRumble[nr] THEN wpHeard' = [wpHeard EXCEPT ![nr] = motor] /\ wpRumble' = [wpRumble EXCEPT ![nr] = motor]
  ELSE UNCHANGED <<wpHeard, wpRumble>>

Rumble(nr, motor) ==
  /\ <<nr, motor>> \in wpTasks /\ wpTasks' = wpTasks \ {<<nr, motor>>}
  /\ RumbleSent(nr, motor)
  /\ UNCHANGED <<wpClient, wpGp, wpAttached, wpTimers, wpSilent, wpMap, wpAvail, wpReused, wpEvents>>

WpInit ==
  /\ wpClient = FALSE /\ wpGp = [nr \in WpPads |-> "none"] /\ wpAttached = {} /\ wpTimers = {} /\ wpSilent = {}
  /\ wpMap = [nr \in WpPads |-> [f \in WpFingers |-> -1]] /\ wpAvail = [nr \in WpPads |-> {}]
  /\ wpRumble = [nr \in WpPads |-> 0] /\ wpHeard = [nr \in WpPads |-> 0]
  /\ wpTasks = {} /\ wpReused = {} /\ wpEvents = 0

WpNext ==
  \/ \E nr \in WpPads, type \in {"x360", "ds4"}, outcome \in {"no_driver", "no_target", "ok"} :
       AllocGamepad(nr, type, outcome)
  \/ \E nr \in WpPads : FreeTarget(nr) \/ (\E motor \in WpMotors : Notify(nr, motor) \/ Rumble(nr, motor))
  \/ \E nr \in WpPads, ok \in BOOLEAN :
       GamepadUpdate(nr, ok) \/ SensorUpdate(nr, ok) \/ Repeat(nr, ok) \/ (\E f \in WpFingers : GamepadTouch(nr, f, ok))

WpSpec == WpInit /\ [][WpNext]_wpVars

-----------------------------------------------------------------------------
(* Properties *)

\* The connection to the driver lives as long as a gamepad is attached, in
\* whatever order gamepads come, fail to come and go.
ConnectedWhileAttached == wpAttached # {} => wpClient

\* Exactly the attached DualShock 4 gamepads whose last report was sent
\* repeat it: none falls silent, and no repeat outlives its gamepad.
ReportsRepeated == wpTimers = {nr \in wpAttached : wpGp[nr] = "ds4"} \ wpSilent

\* Two fingers down on a touchpad never share a pointer index, on a gamepad
\* whose index was not used before (a freed one leaves its pointers behind).
FingersApart ==
  \A nr \in wpAttached \ wpReused : \A f, g \in WpFingers :
    f # g /\ wpMap[nr][f] >= 0 => wpMap[nr][f] # wpMap[nr][g] /\ wpMap[nr][f] \notin wpAvail[nr]
=============================================================================
