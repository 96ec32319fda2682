----------------------------- MODULE InputKeys -----------------------------
(***************************************************************************)
(* The keyboard (input.cpp): keys held by the clients, keys the operating  *)
(* system was told of, the one auto-repeat task, the shortcut combination  *)
(* and the reset at the end of a session.  Messages, repeats and the reset *)
(* task run on the task pool's thread; reset itself runs on another.       *)
(***************************************************************************)
EXTENDS FiniteSets, Naturals

CONSTANTS
  IkKeys,        \* keys a client may send
  IkModifierOf,  \* the modifier a key code stands for, or "none"
  IkBinding,     \* config keybindings: the key code sent for a key
  IkShortcuts,   \* keys apply_shortcut knows
  IkSessions,
  IkMaxResets    \* bound on sessions ending

ASSUME IkAssumption ==
  /\ IkKeys \subseteq DOMAIN IkModifierOf /\ IkBinding \in [IkKeys -> DOMAIN IkModifierOf]
  /\ IkMaxResets \in Nat

IkModifiers == {IkModifierOf[k] : k \in DOMAIN IkModifierOf} \ {"none"}

VARIABLES
  ikPress,    \* key_press: keys held
  ikOs,       \* keys down for the operating system
  ikFlags,    \* shortcutFlags of each session
  ikTimers,   \* repeat_key tasks waiting in the task pool
  ikId,       \* key_press_repeat_id: the task it names, as a set
  ikRunning,  \* the repeat_key task being run, as a set
  ikResets,   \* reset tasks waiting in the task pool
  ikEnded     \* sessions ended so far

ikVars == <<ikPress, ikOs, ikFlags, ikTimers, ikId, ikRunning, ikResets, ikEnded>>

\* Modifiers the message asks for and this session does not hold.
Synthetic(s, k, mods) == IF IkModifierOf[k] # "none" THEN {} ELSE mods \ ikFlags[s]

\* A press wraps the key in its synthetic modifiers, which are up after it.
SendKey(os, k, release, synthetic) ==
  IF release THEN os \ {IkBinding[k]} ELSE (os \ synthetic) \cup {IkBinding[k]}

UpdateShortcutFlags(flags, k, release) ==
  LET m == {IkModifierOf[k]} \ {"none"} IN IF release THEN flags \ m ELSE flags \cup m

IsShortcut(s, k) == ikFlags[s] = IkModifiers /\ k \in IkShortcuts

SendsKey(s, k, release, synthetic) ==
  /\ ikPress' = IF release THEN ikPress \ {k} ELSE ikPress \cup {k}
  /\ ikOs' = SendKey(ikOs, k, release, synthetic)
  /\ ikFlags' = [ikFlags EXCEPT ![s] = UpdateShortcutFlags(@, IkBinding[k], release)]
  /\ UNCHANGED <<ikRunning, ikResets, ikEnded>>

\* A key goes down, unless it completes a shortcut, which is not passed on
\* and leaves the key as released: it takes the repeat over from the key before it.
KeyDown(s, k, mods) ==
  /\ ikRunning = {} /\ k \notin ikPress /\ ~IsShortcut(s, k)
  /\ LET task == [key |-> k, synthetic |-> Synthetic(s, k, mods)] IN
     /\ ikTimers' = (ikTimers \ ikId) \cup {task} /\ ikId' = {task}
     /\ SendsKey(s, k, FALSE, task.synthetic)

\* A key goes up; its repeat finds out by itself.
KeyUp(s, k) ==
  /\ ikRunning = {} /\ k \in ikPress
  /\ SendsKey(s, k, TRUE, {}) /\ UNCHANGED <<ikTimers, ikId>>

\* repeat_key up to the sending of the key.
RepeatKey(task) ==
  /\ ikRunning = {} /\ task \in ikTimers /\ ikTimers' = ikTimers \ {task}
  /\ IF task.key \in ikPress
     THEN ikRunning' = {task} /\ ikOs' = SendKey(ikOs, task.key, FALSE, task.synthetic) /\ UNCHANGED ikId
     ELSE ikId' = {} /\ UNCHANGED <<ikOs, ikRunning>>
  /\ UNCHANGED <<ikPress, ikFlags, ikResets, ikEnded>>

\* repeat_key arms the next repeat.
RepeatAgain ==
  /\ ikRunning # {} /\ ikTimers' = ikTimers \cup ikRunning /\ ikId' = ikRunning /\ ikRunning' = {}
  /\ UNCHANGED <<ikPress, ikOs, ikFlags, ikResets, ikEnded>>

\* reset: cancels the repeat the id names and leaves the id as it is.
KeysReset ==
  /\ ikEnded < IkMaxResets /\ ikEnded' = ikEnded + 1
  /\ ikTimers' = ikTimers \ ikId /\ ikResets' = ikResets + 1
  /\ UNCHANGED <<ikPress, ikOs, ikFlags, ikId, ikRunning>>

\* reset's task: the keys held, of every session, are released by the code
\* the client sent, not by the one they are bound to.
KeysReleased ==
  /\ ikRunning = {} /\ ikResets > 0 /\ ikResets' = ikResets - 1
  /\ ikOs' = ikOs \ ikPress /\ ikPress' = {}
  /\ UNCHANGED <<ikFlags, ikTimers, ikId, ikRunning, ikEnded>>

IkInit ==
  /\ ikPress = {} /\ ikOs = {} /\ ikFlags = [s \in IkSessions |-> {}]
  /\ ikTimers = {} /\ ikId = {} /\ ikRunning = {} /\ ikResets = 0 /\ ikEnded = 0

IkNext ==
  \/ \E s \in IkSessions, k \in IkKeys : (\E mods \in SUBSET IkModifiers : KeyDown(s, k, mods)) \/ KeyUp(s, k)
  \/ (\E task \in ikTimers : RepeatKey(task)) \/ RepeatAgain \/ KeysReset \/ KeysReleased

\* The task pool's thread: timers fire when they are due, tasks are run.
IkFairness ==
  /\ WF_ikVars(((\E task \in ikTimers : RepeatKey(task)) \/ RepeatAgain))
  /\ WF_ikVars(KeysReleased)

IkSpec == IkInit /\ [][IkNext]_ikVars /\ IkFairness

-----------------------------------------------------------------------------
(* Properties *)

IkTypeOK ==
  /\ ikPress \subseteq IkKeys /\ ikOs \subseteq DOMAIN IkModifierOf
  /\ ikFlags \in [IkSessions -> SUBSET IkModifiers]
  /\ ikResets \in 0..ikEnded /\ ikEnded \in 0..IkMaxResets

\* However keys of several sessions and resets interleave, at most one key
\* repeats: a press cancels the repeat before it, and a repeat that a reset
\* missed because it was running takes its own place (input.cpp, repeat_key).
OneRepeat == Cardinality(ikTimers \cup ikRunning) <= 1

\* A key that is down for the operating system is held by a client, except a
\* key that others are bound to, which reset cannot release.
KeysFollowClients ==
  \A k \in ikOs : (\E h \in ikPress : IkBinding[h] = k) \/ (\E h \in IkKeys : h # k /\ IkBinding[h] = k)

\* A released key stops repeating.
RepeatStops ==
  \A k \in IkKeys : (k \notin ikPress /\ \E t \in ikTimers : t.key = k)
                      ~> (k \in ikPress \/ ~\E t \in ikTimers : t.key = k)
=============================================================================
