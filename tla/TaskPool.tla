------------------------------ MODULE TaskPool ------------------------------
(***************************************************************************)
(* The task pool (task_pool.h, thread_pool.h): tasks to run at once, tasks *)
(* to run later, and threads that sleep until there is something to do.    *)
(* delay and pop(task_id) have no caller and are left out.                 *)
(***************************************************************************)
EXTENDS FiniteSets, Naturals, Sequences

CONSTANTS TpWorkers,  \* _thread
          TpIds,      \* tasks
          TpDelays,   \* delays of pushDelayed
          TpMaxTime   \* bound: the clock stops here

\* main() starts the pool with a thread.
ASSUME TpAssumption == TpWorkers # {} /\ TpDelays \subseteq Nat /\ TpMaxTime \in Nat

VARIABLES
  tpNow,      \* the clock
  tpTasks,    \* _tasks
  tpTimers,   \* _timer_tasks: the one due first is the last
  tpContinue, \* _continue
  tpAt,       \* each thread: "top", "check", "sleep", "drain" or "exit"
  tpWake,     \* what a sleeping thread waits for: a time, or TpMaxTime + 1 for ever
  tpRun,      \* tasks that have run
  tpGone      \* tasks that were cancelled

tpVars == <<tpNow, tpTasks, tpTimers, tpContinue, tpAt, tpWake, tpRun, tpGone>>

TpEver == TpMaxTime + 1
TpUsed == {tpTasks[i] : i \in DOMAIN tpTasks} \cup {tpTimers[i].id : i \in DOMAIN tpTimers} \cup tpRun \cup tpGone

Sleepers == {w \in TpWorkers : tpAt[w] = "sleep"}

-----------------------------------------------------------------------------
(* push, pushDelayed, cancel, stop *)

\* A task, and a word to one sleeping thread.
Push(id) ==
  /\ id \notin TpUsed
  /\ tpTasks' = Append(tpTasks, id)
  /\ IF Sleepers = {} THEN UNCHANGED tpAt
     ELSE \E w \in Sleepers : tpAt' = [tpAt EXCEPT ![w] = "top"]
  /\ UNCHANGED <<tpNow, tpTimers, tpContinue, tpWake, tpRun, tpGone>>

\* Before the first that is due earlier.
Insert(task) ==
  \E p \in 1 .. Len(tpTimers) + 1 :
    /\ \A i \in 1 .. p - 1 : tpTimers[i].due >= task.due
    /\ p <= Len(tpTimers) => tpTimers[p].due < task.due
    /\ tpTimers' = [i \in 1 .. Len(tpTimers) + 1 |->
                     IF i < p THEN tpTimers[i] ELSE IF i = p THEN task ELSE tpTimers[i - 1]]

PushDelayedQuietly(id, delay) ==
  /\ id \notin TpUsed /\ tpNow + delay <= TpMaxTime
  /\ Insert([id |-> id, due |-> tpNow + delay])
  /\ UNCHANGED <<tpNow, tpTasks, tpContinue, tpAt, tpWake, tpRun, tpGone>>

\* All threads are woken, for their time to sleep may have become shorter.
PushDelayed(id, delay) ==
  /\ id \notin TpUsed /\ tpNow + delay <= TpMaxTime
  /\ Insert([id |-> id, due |-> tpNow + delay])
  /\ tpAt' = [w \in TpWorkers |-> IF w \in Sleepers THEN "top" ELSE tpAt[w]]
  /\ UNCHANGED <<tpNow, tpTasks, tpContinue, tpWake, tpRun, tpGone>>

CancelTask(id) ==
  /\ \E i \in DOMAIN tpTimers :
       /\ tpTimers[i].id = id
       /\ tpTimers' = [j \in 1 .. Len(tpTimers) - 1 |-> IF j < i THEN tpTimers[j] ELSE tpTimers[j + 1]]
  /\ tpGone' = tpGone \cup {id}
  /\ UNCHANGED <<tpNow, tpTasks, tpContinue, tpAt, tpWake, tpRun>>

Stop ==
  /\ tpContinue /\ tpContinue' = FALSE
  /\ tpAt' = [w \in TpWorkers |-> IF w \in Sleepers THEN "top" ELSE tpAt[w]]
  /\ UNCHANGED <<tpNow, tpTasks, tpTimers, tpWake, tpRun, tpGone>>

-----------------------------------------------------------------------------
(* _main *)

NextTimer == tpTimers[Len(tpTimers)]
TimerDue == tpTimers # << >> /\ NextTimer.due <= tpNow
Ready == tpTasks # << >> \/ TimerDue

\* pop, and run what it returns: tasks before timers.
PopTask ==
  IF tpTasks # << >>
  THEN tpRun' = tpRun \cup {Head(tpTasks)} /\ tpTasks' = Tail(tpTasks) /\ UNCHANGED tpTimers
  ELSE TimerDue /\ tpRun' = tpRun \cup {NextTimer.id} /\ tpTimers' = SubSeq(tpTimers, 1, Len(tpTimers) - 1) /\ UNCHANGED tpTasks

WorkerTop(w) ==
  /\ tpAt[w] = "top"
  /\ \/ /\ tpContinue /\ Ready /\ PopTask
        /\ UNCHANGED tpAt
     \/ /\ ~tpContinue \/ ~Ready
        /\ tpAt' = [tpAt EXCEPT ![w] = IF tpContinue THEN "check" ELSE "drain"]
        /\ UNCHANGED <<tpTasks, tpTimers, tpRun>>
  /\ UNCHANGED <<tpNow, tpContinue, tpWake, tpGone>>

\* Under the lock: look again, then sleep until the next timer.
WorkerChecks(w) ==
  /\ tpAt[w] = "check"
  /\ IF Ready \/ ~tpContinue
     THEN tpAt' = [tpAt EXCEPT ![w] = IF Ready THEN "top" ELSE "drain"] /\ UNCHANGED tpWake
     ELSE /\ tpAt' = [tpAt EXCEPT ![w] = "sleep"]
          /\ tpWake' = [tpWake EXCEPT ![w] = IF tpTimers = << >> THEN TpEver ELSE NextTimer.due]
  /\ UNCHANGED <<tpNow, tpTasks, tpTimers, tpContinue, tpRun, tpGone>>

WorkerWakes(w) ==
  /\ tpAt[w] = "sleep" /\ tpWake[w] <= tpNow
  /\ tpAt' = [tpAt EXCEPT ![w] = "top"]
  /\ UNCHANGED <<tpNow, tpTasks, tpTimers, tpContinue, tpWake, tpRun, tpGone>>

\* After stop the tasks that are left are run.
WorkerDrains(w) ==
  /\ tpAt[w] = "drain"
  /\ \/ Ready /\ PopTask /\ UNCHANGED tpAt
     \/ ~Ready /\ tpAt' = [tpAt EXCEPT ![w] = "exit"] /\ UNCHANGED <<tpTasks, tpTimers, tpRun>>
  /\ UNCHANGED <<tpNow, tpContinue, tpWake, tpGone>>

Tick ==
  /\ tpNow < TpMaxTime /\ tpNow' = tpNow + 1
  /\ UNCHANGED <<tpTasks, tpTimers, tpContinue, tpAt, tpWake, tpRun, tpGone>>

TpInit ==
  /\ tpNow = 0 /\ tpTasks = << >> /\ tpTimers = << >> /\ tpContinue = TRUE
  /\ tpAt = [w \in TpWorkers |-> "top"] /\ tpWake = [w \in TpWorkers |-> TpEver]
  /\ tpRun = {} /\ tpGone = {}

WorkerStep(w) == WorkerTop(w) \/ WorkerChecks(w) \/ WorkerWakes(w) \/ WorkerDrains(w)

TpNext ==
  \/ \E id \in TpIds : Push(id) \/ CancelTask(id) \/ \E delay \in TpDelays : PushDelayed(id, delay)
  \/ Stop \/ Tick \/ \E w \in TpWorkers : WorkerStep(w)

\* Threads are scheduled and time passes.
TpFairness == WF_tpVars(Tick) /\ \A w \in TpWorkers : WF_tpVars(WorkerStep(w))

TpSpec == TpInit /\ [][TpNext]_tpVars /\ TpFairness

-----------------------------------------------------------------------------
(* Properties *)

TpTypeOK ==
  /\ tpRun \subseteq TpIds /\ tpGone \subseteq TpIds /\ tpNow \in 0..TpMaxTime
  /\ \A i, j \in DOMAIN tpTimers : i < j => tpTimers[i].due >= tpTimers[j].due

\* A task is run once and a task that was cancelled is not run.
CancelledNeverRuns ==
  /\ tpRun \cap tpGone = {}
  /\ \A i \in DOMAIN tpTimers : tpTimers[i].id \notin tpRun \cup tpGone

\* Nobody sleeps past the task that is due first: while a thread sleeps, there
\* is a thread that is awake or whose sleep ends in time.
NobodyOversleeps ==
  Sleepers = TpWorkers /\ tpTimers # << >> => \E w \in TpWorkers : tpWake[w] <= NextTimer.due

\* What was pushed runs, also after stop, as long as a thread is left.
PushedTaskRuns ==
  \A id \in TpIds :
    (\E i \in DOMAIN tpTasks : tpTasks[i] = id) /\ (\E w \in TpWorkers : tpAt[w] # "exit") ~> id \in tpRun

\* A timer runs, is cancelled, or the pool is stopped.
TimerRuns ==
  \A id \in TpIds :
    (\E i \in DOMAIN tpTimers : tpTimers[i].id = id) ~> (id \in tpRun \cup tpGone \/ ~tpContinue)

\* Tasks and timers are kept in order, run at most once, and never slept past.
TaskPoolConsistent == TpTypeOK /\ CancelledNeverRuns /\ NobodyOversleeps
=============================================================================
