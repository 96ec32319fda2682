----------------------------- MODULE InputMouse -----------------------------
(* The mouse (input.cpp): two machines that share no state, the buttons,    *)
(* and pointing and scrolling.                                              *)
EXTENDS Integers

-----------------------------------------------------------------------------
(***************************************************************************)
(* Mouse buttons (input.cpp): the buttons as the host remembers them, the  *)
(* buttons the operating system has been told of, and the delayed release  *)
(* of the left button after absolute motion.  Sessions share the buttons;  *)
(* the delay is the session's own.                                         *)
(***************************************************************************)

CONSTANTS
  ImSessions,  \* sessions, alive at the same time or one after the other
  ImMaxTimers  \* bound: delayed releases of a session in the task pool

ASSUME ImAssumption == ImMaxTimers \in Nat

ImButtons == {"left", "right"}

VARIABLES
  imPress,    \* mouse_press
  imOs,       \* what the operating system was told
  imTimeout,  \* mouse_left_button_timeout: "none", "off", "set"
  imTimer,    \* delayed releases of a session in the task pool
  imState,    \* "on"; "ending": reset's task is in the task pool; "over"
  imStuck     \* sessions whose end cancelled the release the left button waits for

imVars == <<imPress, imOs, imTimeout, imTimer, imState, imStuck>>

\* A message of a session, also one that was queued before its reset.
Message(s) == imState[s] # "over" /\ UNCHANGED imState

\* Relative motion turns the delay off, absolute motion on again.
RelMouseMove(s) ==
  /\ Message(s) /\ imTimeout' = [imTimeout EXCEPT ![s] = "off"]
  /\ UNCHANGED <<imPress, imOs, imTimer, imStuck>>

AbsMouseMove(s) ==
  /\ Message(s) /\ imTimeout[s] = "off" /\ imTimeout' = [imTimeout EXCEPT ![s] = "none"]
  /\ UNCHANGED <<imPress, imOs, imTimer, imStuck>>

\* A button that is already as the message wants it changes nothing.
Changes(b, release) == imPress[b] = release

\* The operating system is told of a button.
Told(b, down) ==
  /\ imOs' = [imOs EXCEPT ![b] = down]
  /\ imStuck' = IF b = "left" THEN {} ELSE imStuck

\* The left button, released after absolute motion, stays down a little.
LeftReleaseDelayed(s) ==
  /\ Message(s) /\ Changes("left", TRUE) /\ imTimeout[s] = "none" /\ imTimer[s] < ImMaxTimers
  /\ imPress' = [imPress EXCEPT !["left"] = FALSE]
  /\ imTimer' = [imTimer EXCEPT ![s] = @ + 1] /\ imTimeout' = [imTimeout EXCEPT ![s] = "set"]
  /\ UNCHANGED <<imOs, imStuck>>

\* The right button, pressed meanwhile, is clicked at once.
RightClick(s) ==
  /\ Message(s) /\ Changes("right", FALSE) /\ imTimeout[s] = "set"
  /\ imPress' = [imPress EXCEPT !["right"] = FALSE] /\ Told("right", FALSE)
  /\ UNCHANGED <<imTimeout, imTimer>>

MouseButton(s, b, release) ==
  /\ Message(s) /\ Changes(b, release)
  /\ ~(b = "left" /\ release /\ imTimeout[s] = "none")
  /\ ~(b = "right" /\ ~release /\ imTimeout[s] = "set")
  /\ imPress' = [imPress EXCEPT ![b] = ~release] /\ Told(b, ~release)
  /\ UNCHANGED <<imTimeout, imTimer>>

TimerReleasesAnyway(s) ==
  /\ imTimer[s] > 0 /\ imTimer' = [imTimer EXCEPT ![s] = @ - 1]
  /\ Told("left", FALSE) /\ imTimeout' = [imTimeout EXCEPT ![s] = "none"]
  /\ UNCHANGED <<imPress, imState>>

\* The delayed release, of a session that may be over: nothing if the button
\* is down again, and then the timeout is not reset either.
TimerFires(s) ==
  /\ imTimer[s] > 0 /\ imTimer' = [imTimer EXCEPT ![s] = @ - 1]
  /\ IF imPress["left"] THEN UNCHANGED <<imOs, imStuck, imTimeout>>
     ELSE Told("left", FALSE) /\ imTimeout' = [imTimeout EXCEPT ![s] = "none"]
  /\ UNCHANGED <<imPress, imState>>

\* The timeout holds the session's last delayed release, which is not due yet.
Cancels(s) == imTimeout[s] = "set" /\ imTimer[s] > 0

\* reset, when a session ends, cancels its last delayed release; a task that
\* releases what is pressed is queued behind the messages.
Reset(s) ==
  /\ imState[s] = "on" /\ imState' = [imState EXCEPT ![s] = "ending"]
  /\ imTimer' = IF Cancels(s) THEN [imTimer EXCEPT ![s] = @ - 1] ELSE imTimer
  /\ imStuck' = IF Cancels(s) /\ ~imPress["left"] /\ imOs["left"] THEN imStuck \cup {s} ELSE imStuck
  /\ UNCHANGED <<imPress, imOs, imTimeout>>

\* The buttons are those of all sessions.
ResetTask(s) ==
  /\ imState[s] = "ending" /\ imState' = [imState EXCEPT ![s] = "over"]
  /\ imOs' = [b \in ImButtons |-> imOs[b] /\ ~imPress[b]]
  /\ imPress' = [b \in ImButtons |-> FALSE]
  /\ imStuck' = IF imPress["left"] THEN {} ELSE imStuck
  /\ UNCHANGED <<imTimeout, imTimer>>

ImInit ==
  /\ imPress = [b \in ImButtons |-> FALSE] /\ imOs = [b \in ImButtons |-> FALSE]
  /\ imTimeout = [s \in ImSessions |-> "none"] /\ imTimer = [s \in ImSessions |-> 0]
  /\ imState = [s \in ImSessions |-> "on"] /\ imStuck = {}

ImNext ==
  \E s \in ImSessions :
    \/ RelMouseMove(s) \/ AbsMouseMove(s) \/ LeftReleaseDelayed(s) \/ RightClick(s) \/ TimerFires(s)
    \/ \E b \in ImButtons, release \in BOOLEAN : MouseButton(s, b, release)
    \/ Reset(s) \/ ResetTask(s)

ImFairness == \A s \in ImSessions : WF_imVars(TimerFires(s)) /\ WF_imVars(ResetTask(s))

ImSpec == ImInit /\ [][ImNext]_imVars /\ ImFairness

-----------------------------------------------------------------------------
(* Properties *)

ImTypeOK ==
  /\ imTimeout \in [ImSessions -> {"none", "off", "set"}]
  /\ imTimer \in [ImSessions -> 0..ImMaxTimers] /\ imState \in [ImSessions -> {"on", "ending", "over"}]

\* A button is down for the operating system only while it is pressed for the
\* sessions, or while the release of the left one is delayed.  One case is
\* left, and no other: the session that delayed the release ended before it
\* was due, and nobody used the left button since.
ButtonsFollowClients ==
  /\ \A b \in ImButtons : imOs[b] => imPress[b] \/ (b = "left" /\ ((\E s \in ImSessions : imTimer[s] > 0) \/ imStuck # {}))
  /\ \A s \in imStuck : s \in ImSessions /\ imState[s] # "on" /\ imOs["left"]

\* What is pressed is down: no delayed release, of whatever session, takes a
\* button away that has been pressed again.
HeldButtonsStay == \A b \in ImButtons : imPress[b] => imOs[b]

\* The left button comes up after its release, unless it is pressed again or
\* the session whose release it waits for ends first.
ReleaseArrives ==
  imOs["left"] /\ ~imPress["left"] /\ imStuck = {} ~> (~imOs["left"] \/ imPress["left"] \/ imStuck # {})

-----------------------------------------------------------------------------
(***************************************************************************)
(* Absolute pointing and scrolling (input.cpp, video.cpp's make_port).     *)
(* The capture thread raises a touch port whenever it opens a display; an  *)
(* absolute message takes the newest one and maps the client's picture,    *)
(* with its letterbox, to the display.  Scrolling is collected into full   *)
(* ticks.  Fractions are kept exact: scalar = num / den.                   *)
(***************************************************************************)

CONSTANTS
  PtClient,    \* the client's picture <<width, height>>
  PtDisplays,  \* displays <<width, height>>
  PtPoints,    \* where a client may point, on one axis
  PtDeltas,    \* scroll amounts
  PtWheel,     \* WHEEL_DELTA
  PtMaxMoves   \* bound on messages

ASSUME PtAssumption ==
  /\ PtWheel \in Nat \ {0} /\ PtPoints \subseteq Int /\ PtDeltas \subseteq Int
  /\ PtClient[1] \in Nat /\ PtClient[2] \in Nat
  /\ \A d \in PtDisplays : d[1] \in Nat \ {0} /\ d[2] \in Nat \ {0}

VARIABLES ptEvent,  \* touch_port_event, a set of at most one display's port
          ptRaised, \* the display whose port was raised last, as a set
          ptPort,   \* input_t::touch_port, as a set
          ptPos,    \* the last position sent, scaled by 2 * num, with its port, as a set
          ptAcc,    \* accumulated_vscroll_delta
          ptTicks, ptScrolled, \* ticks sent and amounts received
          ptMoves

ptVars == <<ptEvent, ptRaised, ptPort, ptPos, ptAcc, ptTicks, ptScrolled, ptMoves>>

\* make_port: the picture is scaled to fit and centred.
MakePort(d) ==
  LET wide == PtClient[1] * d[2] < PtClient[2] * d[1]   \* wt / wd < ht / hd
      num == IF wide THEN PtClient[1] ELSE PtClient[2]
      den == IF wide THEN d[1] ELSE d[2]
  IN [display |-> d, num |-> num, den |-> den,
      offset |-> <<PtClient[1] * den - num * d[1], PtClient[2] * den - num * d[2]>>] \* 2 * den times the offset

Clamp(x, low, high) == IF x < low THEN low ELSE IF x > high THEN high ELSE x

\* client_to_touchport on one axis, 2 * num times the display coordinate.
MapAxis(port, axis, x) ==
  LET off == port.offset[axis] IN
  Clamp(2 * port.den * Clamp(x, 0, PtClient[axis]), off, 2 * port.den * PtClient[axis] - off) - off

\* The capture thread opens a display.
RaisePort(d) ==
  /\ ptEvent' = {MakePort(d)} /\ ptRaised' = {d}
  /\ UNCHANGED <<ptPort, ptPos, ptAcc, ptTicks, ptScrolled, ptMoves>>

PortToUse == IF ptEvent # {} THEN ptEvent ELSE ptPort

\* An absolute mouse, touch or pen message; without a port it is ignored.
Point(x, y) ==
  /\ ptMoves < PtMaxMoves /\ ptMoves' = ptMoves + 1
  /\ ptPort' = PortToUse /\ ptEvent' = {}
  /\ ptPos' = {[port |-> p, at |-> <<MapAxis(p, 1, x), MapAxis(p, 2, y)>>] : p \in ptPort'}
  /\ UNCHANGED <<ptRaised, ptAcc, ptTicks, ptScrolled>>

\* C++ division truncates towards zero.
Truncate(a, b) == IF a >= 0 THEN a \div b ELSE -((-a) \div b)

\* What is left in the accumulator when its full ticks are sent.
RestAfter(acc) == acc - Truncate(acc, PtWheel) * PtWheel

\* Vertical and horizontal scrolling are alike; the axes do not meet.
Scroll(delta) ==
  /\ ptMoves < PtMaxMoves /\ ptMoves' = ptMoves + 1
  /\ ptTicks' = ptTicks + Truncate(ptAcc + delta, PtWheel) /\ ptAcc' = RestAfter(ptAcc + delta)
  /\ ptScrolled' = ptScrolled + delta
  /\ UNCHANGED <<ptEvent, ptRaised, ptPort, ptPos>>

PtInit ==
  /\ ptEvent = {} /\ ptRaised = {} /\ ptPort = {} /\ ptPos = {}
  /\ ptAcc = 0 /\ ptTicks = 0 /\ ptScrolled = 0 /\ ptMoves = 0

PtNext ==
  \/ \E d \in PtDisplays : RaisePort(d)
  \/ \E x, y \in PtPoints : Point(x, y)
  \/ \E delta \in PtDeltas : Scroll(delta)

PtSpec == PtInit /\ [][PtNext]_ptVars

-----------------------------------------------------------------------------
(* Properties *)

\* Whatever the client's letterbox, a position lies on the display it was
\* computed for, and the edges of the picture reach the display's edges.
PointerOnDisplay ==
  /\ \A p \in ptPos : \A axis \in {1, 2} : p.at[axis] \in 0..(2 * p.port.num * p.port.display[axis])
  /\ \A p \in ptPort : \A axis \in {1, 2} :
       MapAxis(p, axis, 0) = 0 /\ MapAxis(p, axis, PtClient[axis]) = 2 * p.num * p.display[axis]

\* Scrolling neither loses nor invents motion: what the client scrolled is
\* what was sent plus less than one tick.
ScrollConserved ==
  /\ ptScrolled = ptTicks * PtWheel + ptAcc
  /\ ptAcc < PtWheel /\ -ptAcc < PtWheel
=============================================================================
