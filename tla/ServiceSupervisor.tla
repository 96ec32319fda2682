-------------------------- MODULE ServiceSupervisor --------------------------
(***************************************************************************)
(* The Windows service that runs the host in the active console session    *)
(* (tools/sunshinesvc.cpp): ServiceMain starts the host, waits for a stop, *)
(* for the host's end or for a new console session, ends the host through  *)
(* a helper or by force and starts it again; HandlerEx takes the service   *)
(* controls on another thread.  Sessions, the service manager and the host *)
(* process are external.                                                   *)
(***************************************************************************)
EXTENDS Integers

CONSTANTS
  SvSessions,   \* console sessions
  SvMaxSwitches \* bound: changes of the console session

VARIABLES
  svState,    \* the state reported to the service manager
  svStop,     \* stop_event, which stays set
  svChange,   \* session_change_event, which one wait takes
  svPc,       \* ServiceMain: "init", "loop", "create", "wait", "end", "over", "done"
  svConsole,  \* the active console session, {} when there is none
  svSession,  \* console_session_id
  svChild,    \* session the host runs in, {} when it does not run
  svCode,     \* the host's exit code: "shutdown", "other"
  svNotify,   \* console connections ServiceMain's handler is still to be told of
  svSwitches  \* changes of the console session so far

svVars == <<svState, svStop, svChange, svPc, svConsole, svSession, svChild, svCode, svNotify, svSwitches>>

-----------------------------------------------------------------------------
\* A user connects to the console, or the console is without a session.
ConsoleConnect(s) ==
  /\ svSwitches < SvMaxSwitches /\ svSwitches' = svSwitches + 1
  /\ svConsole # {s} /\ svConsole' = {s} /\ svNotify' = (svNotify \/ svState = "running")
  /\ UNCHANGED <<svState, svStop, svChange, svPc, svSession, svChild, svCode>>

ConsoleDisconnect ==
  /\ svConsole # {} /\ svSwitches < SvMaxSwitches /\ svConsole' = {} /\ svSwitches' = svSwitches + 1
  /\ UNCHANGED <<svState, svStop, svChange, svPc, svSession, svChild, svCode, svNotify>>

\* HandlerEx, SERVICE_CONTROL_SESSIONCHANGE.
SessionChange ==
  /\ svNotify /\ svNotify' = FALSE /\ svChange' = TRUE
  /\ UNCHANGED <<svState, svStop, svPc, svConsole, svSession, svChild, svCode, svSwitches>>

\* HandlerEx, SERVICE_CONTROL_STOP and PRESHUTDOWN; accepted while running.
StopControl ==
  /\ svState = "running" /\ svState' = "stopping" /\ svStop' = TRUE
  /\ UNCHANGED <<svChange, svPc, svConsole, svSession, svChild, svCode, svNotify, svSwitches>>

\* ServiceMain up to its loop: events, log file and attributes, or STOPPED.
StartService ==
  /\ svPc = "init"
  /\ \/ svState' = "running" /\ svPc' = "loop"
     \/ svState' = "stopped" /\ svPc' = "done"
  /\ UNCHANGED <<svStop, svChange, svConsole, svSession, svChild, svCode, svNotify, svSwitches>>

\* Three seconds for the stop event, then the console session is read.
WaitForStop ==
  /\ svPc = "loop"
  /\ IF svStop THEN svPc' = "end" /\ UNCHANGED svSession
     ELSE IF svConsole = {} THEN UNCHANGED <<svPc, svSession>>
     ELSE svPc' = "create" /\ svSession' = svConsole
  /\ UNCHANGED <<svState, svStop, svChange, svConsole, svChild, svCode, svNotify, svSwitches>>

ChangeForgotten ==
  /\ svPc = "create"
  /\ \/ svPc' = "wait" /\ svChild' = svSession /\ svChange' = FALSE
     \/ svPc' = "loop" /\ UNCHANGED <<svChild, svChange>>
  /\ UNCHANGED <<svState, svStop, svConsole, svSession, svCode, svNotify, svSwitches>>

\* Token, job object and process, each of which may fail.
CreateHost ==
  /\ svPc = "create"
  /\ \/ svPc' = "wait" /\ svChild' = svSession
     \/ svPc' = "loop" /\ UNCHANGED svChild
  /\ UNCHANGED <<svState, svStop, svChange, svConsole, svSession, svCode, svNotify, svSwitches>>

\* The host ends by itself; it may ask for the service to stop.
HostExits ==
  /\ svChild # {} /\ svChild' = {} /\ svCode' \in {"shutdown", "other"}
  /\ UNCHANGED <<svState, svStop, svChange, svPc, svConsole, svSession, svNotify, svSwitches>>

\* WaitForMultipleObjects: the first object that is signalled counts.
WaitForHost ==
  /\ svPc = "wait"
  /\ \/ svStop /\ svPc' = "over" /\ UNCHANGED <<svStop, svChange>>
     \/ /\ ~svStop /\ svChild = {} /\ svPc' = "loop"
        /\ svStop' = (svCode = "shutdown") /\ UNCHANGED svChange
     \/ /\ ~svStop /\ svChild # {} /\ svChange /\ svChange' = FALSE
        /\ svPc' = IF svConsole = svSession THEN "wait" ELSE "over"
        /\ UNCHANGED svStop
  /\ UNCHANGED <<svState, svConsole, svSession, svChild, svCode, svNotify, svSwitches>>

HelperTrusted ==
  /\ svPc = "over" /\ svPc' = "loop"
  /\ svChild' \in {{}, svChild}
  /\ UNCHANGED <<svState, svStop, svChange, svConsole, svSession, svCode, svNotify, svSwitches>>

\* RunTerminationHelper and DoGracefulTermination; when the helper fails or the
\* host takes too long it is killed.  Then the handles are closed.
TerminateHost ==
  /\ svPc = "over" /\ svPc' = "loop" /\ svChild' = {}
  /\ UNCHANGED <<svState, svStop, svChange, svConsole, svSession, svCode, svNotify, svSwitches>>

ReportStopped ==
  /\ svPc = "end" /\ svPc' = "done" /\ svState' = "stopped"
  /\ UNCHANGED <<svStop, svChange, svConsole, svSession, svChild, svCode, svNotify, svSwitches>>

SvInit ==
  /\ svState = "starting" /\ svStop = FALSE /\ svChange = FALSE /\ svPc = "init"
  /\ svConsole \in {{}} \cup {{s} : s \in SvSessions} /\ svSession = {} /\ svChild = {}
  /\ svCode = "other" /\ svNotify = FALSE /\ svSwitches = 0

ServiceMain == StartService \/ WaitForStop \/ CreateHost \/ WaitForHost \/ TerminateHost \/ ReportStopped

SvNext ==
  \/ \E s \in SvSessions : ConsoleConnect(s)
  \/ ConsoleDisconnect \/ SessionChange \/ StopControl \/ HostExits \/ ServiceMain

\* Both threads of the service run; a process can be started now and then.
SvFairness ==
  /\ WF_svVars(ServiceMain) /\ WF_svVars(SessionChange)

SvSpec == SvInit /\ [][SvNext]_svVars /\ SvFairness

-----------------------------------------------------------------------------
\* The service never leaves a host behind, nor starts one next to another.
NoHostLeft == svPc \in {"init", "loop", "create", "end", "done"} => svChild = {}

\* A stop is carried out, whatever the service was doing, and reported.
StopCarriedOut == svStop ~> svState = "stopped"

\* A host in a session that is no longer the console's does not stay there: a
\* change that comes while the host is being started is not lost.
HostFollowsConsole ==
  (svChild # {} /\ svConsole # {} /\ svChild # svConsole) ~> (svChild = {} \/ svChild = svConsole \/ svConsole = {})
=============================================================================
