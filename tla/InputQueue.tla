----------------------------- MODULE InputQueue -----------------------------
(***************************************************************************)
(* Input messages on their way to the operating system (input.cpp): the    *)
(* control thread queues them and asks the task pool for as many turns; a  *)
(* turn takes the first and merges later ones into it.                     *)
(*                                                                         *)
(* A message has a kind, the pointer, controller or surface it is for, an  *)
(* event (what it changes) and an amount, which stands for both axes of a  *)
(* relative motion and for the activeGamepadMask of a controller's         *)
(* message; n numbers the messages.                                        *)
(***************************************************************************)
EXTENDS Integers, Sequences

CONSTANTS IqMessages,   \* [kind, dev, event, x]: what clients send
          IqGranted,    \* sets of kinds a session may send
          IqShort,      \* 2^15: amounts are 16 bit integers
          IqMaxMessages \* bound: messages queued

Sums == {"rel", "scroll", "hscroll"}  \* kinds whose amounts are added up
Contacts == {"down", "up"}

\* There is one pointer and one pen; what an absolute position or a sensor
\* tells is of one sort (dev names the sensor with its controller); only
\* touches, the pen, keys and buttons go down and up.
ASSUME IqAssumption ==
  /\ IqShort \in Nat \ {0} /\ IqMaxMessages \in Nat
  /\ \A m \in IqMessages :
       /\ m.x \in Int
       /\ m.kind \in Sums \cup {"abs", "motion", "pad"} => m.event \notin Contacts
  /\ \A m, o \in IqMessages : m.kind = o.kind =>
       /\ m.kind \in Sums \cup {"pen"} => m.dev = o.dev
       /\ m.kind \in Sums \cup {"abs", "motion"} => m.event = o.event

VARIABLES
  iqGrant,    \* the session's input permission
  iqQueue,    \* input_queue
  iqTasks,    \* tasks in the pool that will call passthrough_next_message
  iqSent,     \* what was passed to the operating system
  iqAccepted  \* messages that were queued

iqVars == <<iqGrant, iqQueue, iqTasks, iqSent, iqAccepted>>

-----------------------------------------------------------------------------
(* batch *)

Wrap(x) == ((x + IqShort) % (2 * IqShort)) - IqShort
AddOverflow(a, b) == a + b # Wrap(a + b)

\* Relative motion and scrolling: the test of __builtin_add_overflow is
\* negated, so amounts are added when the sum does not fit.
BatchAmount(dest, src) == IF AddOverflow(dest.x, src.x) THEN "batched" ELSE "terminate"

Moves == {"move", "hover"}

\* Only moves of one pointer are merged, and not beyond a contact.
BatchTouch(dest, src) ==
  IF dest.event \notin Moves \/ src.event \notin Moves THEN "terminate"
  ELSE IF dest.dev # src.dev THEN "not_batchable"
  ELSE IF dest.event # src.event THEN "terminate"
  ELSE "batched"

\* No pointer identifier, but the event and the tool must be the same.
BatchPen(dest, src) == IF dest.event \notin Moves \/ dest.event # src.event THEN "terminate" ELSE "batched"

\* Another controller's event is passed over even if it changes a state.
BatchControllerTouch(dest, src) ==
  IF dest.event \notin Moves THEN "terminate"
  ELSE IF dest.dev # src.dev THEN "not_batchable"
  ELSE IF src.event \notin Moves \/ dest.event # src.event THEN "terminate"
  ELSE "batched"

\* Not if the active controllers change, whichever controller says so.
BatchController(dest, src) ==
  IF dest.x # src.x THEN "terminate"
  ELSE IF dest.dev # src.dev THEN "not_batchable"
  ELSE IF dest.event # src.event THEN "terminate"
  ELSE "batched"

\* Another sensor is as good as another controller.
BatchMotion(dest, src) == IF dest.dev # src.dev THEN "not_batchable" ELSE "batched"

\* Absolute positions are for a surface of some size.
BatchAbsolute(dest, src) == IF dest.dev # src.dev THEN "terminate" ELSE "batched"

Batch(dest, src) ==
  IF dest.kind # src.kind THEN "terminate"
  ELSE CASE dest.kind \in Sums -> BatchAmount(dest, src)
         [] dest.kind = "abs" -> BatchAbsolute(dest, src)
         [] dest.kind = "pad" -> BatchController(dest, src)
         [] dest.kind = "touch" -> BatchTouch(dest, src)
         [] dest.kind = "pen" -> BatchPen(dest, src)
         [] dest.kind = "padtouch" -> BatchControllerTouch(dest, src)
         [] dest.kind = "motion" -> BatchMotion(dest, src)
         [] OTHER -> "terminate"

\* What is left in dest: the sum, or the later message.
Merged(dest, src) == [src EXCEPT !.x = IF dest.kind \in Sums THEN Wrap(dest.x + src.x) ELSE @]

ScanToTheEnd(acc, m) ==
  IF Batch(acc.msg, m) = "batched" THEN [acc EXCEPT !.msg = Merged(acc.msg, m)] ELSE [acc EXCEPT !.kept = Append(@, m)]

\* The scan of the queue: batch into the message, pass over, or stop.
ScanTo(acc, m) ==
  LET result == Batch(acc.msg, m) IN
  CASE ~acc.open \/ result = "terminate" -> [acc EXCEPT !.kept = Append(@, m), !.open = FALSE]
    [] acc.open /\ result = "batched" -> [acc EXCEPT !.msg = Merged(acc.msg, m)]
    [] OTHER -> [acc EXCEPT !.kept = Append(@, m)]

\* What the first message has become, and what stays in the queue.
Scanned(msg, rest) ==
  LET scan[n \in 0..Len(rest)] ==
        IF n = 0 THEN [msg |-> msg, kept |-> << >>, open |-> TRUE] ELSE ScanTo(scan[n - 1], rest[n])
  IN  scan[Len(rest)]

-----------------------------------------------------------------------------
(* The two threads *)

\* Whether the permission lets a message through; with every input permission
\* messages are not even looked at.
Permitted(kind) ==
  IF iqGrant = "all" THEN TRUE
  ELSE CASE kind \in {"rel", "abs", "button", "scroll", "hscroll"} -> iqGrant = "mouse"
         [] kind \in {"pad", "padtouch", "motion"} -> iqGrant = "controller"
         [] kind = "key" -> iqGrant = "kbd"
         [] kind = "touch" -> iqGrant = "touch"
         [] kind = "pen" -> iqGrant = "pen"
         [] OTHER -> FALSE

\* One task for each message.
TaskPushed(tasks, queue) == tasks + 1

\* passthrough, on the control thread.
Passthrough(m) ==
  LET msg == [kind |-> m.kind, dev |-> m.dev, event |-> m.event, x |-> m.x, n |-> Len(iqAccepted) + 1] IN
  /\ Len(iqAccepted) < IqMaxMessages
  /\ Permitted(m.kind)
  /\ iqTasks' = TaskPushed(iqTasks, iqQueue)
  /\ iqQueue' = Append(iqQueue, msg) /\ iqAccepted' = Append(iqAccepted, msg)
  /\ UNCHANGED <<iqGrant, iqSent>>

\* passthrough_next_message, on the pool's thread.
PassthroughNextMessage ==
  /\ iqTasks > 0 /\ iqTasks' = iqTasks - 1
  /\ IF iqQueue = << >> THEN UNCHANGED <<iqQueue, iqSent>>
     ELSE LET scan == Scanned(Head(iqQueue), Tail(iqQueue))
          IN  iqQueue' = scan.kept /\ iqSent' = Append(iqSent, scan.msg)
  /\ UNCHANGED <<iqGrant, iqAccepted>>

IqInit ==
  /\ iqGrant \in IqGranted /\ iqQueue = << >> /\ iqTasks = 0 /\ iqSent = << >> /\ iqAccepted = << >>

IqNext == (\E m \in IqMessages : Passthrough(m)) \/ PassthroughNextMessage

IqSpec == IqInit /\ [][IqNext]_iqVars

-----------------------------------------------------------------------------
(* Properties *)

IqTypeOK ==
  /\ iqTasks \in 0..IqMaxMessages /\ Len(iqQueue) <= Len(iqAccepted) /\ Len(iqSent) <= Len(iqAccepted)
  /\ iqGrant = "mouse" => \A i \in DOMAIN iqSent : iqSent[i].kind \in {"rel", "abs", "button", "scroll", "hscroll"}

\* A queued message always has a turn of the pool coming.
TurnForEveryMessage == Len(iqQueue) <= iqTasks

SameDevice(a, b) == a.kind = b.kind /\ a.dev = b.dev

\* Merging never reorders the messages of one pointer or controller.
DeviceOrderKept ==
  /\ \A i, j \in DOMAIN iqSent : i < j /\ SameDevice(iqSent[i], iqSent[j]) => iqSent[i].n < iqSent[j].n
  /\ \A i \in DOMAIN iqSent, j \in DOMAIN iqQueue :
       SameDevice(iqSent[i], iqQueue[j]) => iqSent[i].n < iqQueue[j].n

\* What a message says: its event, and which controllers are active.
Says(m) == <<m.event, IF m.kind = "pad" THEN m.x ELSE 0>>

Alone(m) == m.kind \in {"button", "key"} \/ m.event \in Contacts

\* Buttons, keys and contacts that come and go are all passed on, each for
\* itself, and so is every change of a controller's buttons or of the set of
\* active controllers: merging may only drop what a later message for the same
\* device says again.
StateChangesArrive ==
  iqQueue = << >> =>
    \A i \in DOMAIN iqAccepted :
      LET m == iqAccepted[i]
      IN  \E j \in DOMAIN iqSent :
            /\ SameDevice(m, iqSent[j]) /\ Says(iqSent[j]) = Says(m)
            /\ iqSent[j].n >= m.n /\ (Alone(m) => iqSent[j].n = m.n)
            /\ \A k \in i..iqSent[j].n : SameDevice(m, iqAccepted[k]) => Says(iqAccepted[k]) = Says(m)

AmountOf(msgs) ==
  LET sum[i \in 0..Len(msgs)] ==
        IF i = 0 THEN 0 ELSE sum[i - 1] + (IF msgs[i].kind \in Sums THEN msgs[i].x ELSE 0)
  IN  sum[Len(msgs)]

\* "Batching is safe as long as the result doesn't overflow a 16-bit integer":
\* no motion is lost on the way.
MotionPreserved == AmountOf(iqAccepted) = AmountOf(iqSent) + AmountOf(iqQueue)
=============================================================================
