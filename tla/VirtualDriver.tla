---------------------------- MODULE VirtualDriver ----------------------------
(***************************************************************************)
(* The host's connection to the virtual display driver                     *)
(* (platform/windows/virtual_display.cpp, process.cpp): one global handle, *)
(* opened again by whoever finds the driver's status not OK (a launch, a   *)
(* refresh of the application list), and detached ping threads that keep   *)
(* the driver's watchdog from removing the displays and close the handle   *)
(* after a fourth failed ping.  The driver itself is external.             *)
(***************************************************************************)
EXTENDS Integers, Sequences

CONSTANTS
  VdOpeners,    \* threads that run initVDisplayDriver: launch, refresh
  VdMaxThreads, \* bound: ping threads started
  VdMaxOpens,   \* bound: runs of initVDisplayDriver
  VdRates       \* refresh rates asked for, in thousandths of a hertz

ASSUME VdAssumption == VdRates \subseteq Nat

VARIABLES
  vdHandle,  \* SUDOVDA_DRIVER_HANDLE is valid
  vdStatus,  \* vDisplayDriverStatus
  vdOpener,  \* where each opener is: "idle", "open", "again", "check", "ping", "close"
  vdOpens,   \* runs of initVDisplayDriver so far
  vdPing,    \* the ping threads: [pc, fails, due]
  vdWatchdog, \* the driver's watchdog has a timeout
  vdCount,   \* ping intervals until the driver's watchdog fires
  vdDisplay, \* the driver has the virtual display
  vdMissed,  \* a ping failed, or there was no thread, since the last good one
  vdDropped, \* the watchdog removed a display although no ping was missed
  vdMode     \* refresh rate asked for and set last, if any

vdVars == <<vdHandle, vdStatus, vdOpener, vdOpens, vdPing, vdWatchdog, vdCount, vdDisplay, vdMissed, vdDropped, vdMode>>

\* Intervals between pings in the watchdog's timeout.
PingShare == 3

MaxFails == 3

\* initVDisplayDriver, by execute() or refresh(), when the status is not OK.
InitDriver(o) ==
  /\ vdOpener[o] = "idle" /\ vdStatus # "ok" /\ vdOpens < VdMaxOpens
  /\ vdOpener' = [vdOpener EXCEPT ![o] = "open"] /\ vdOpens' = vdOpens + 1
  /\ UNCHANGED <<vdHandle, vdStatus, vdPing, vdCount, vdDisplay, vdMissed, vdDropped, vdMode, vdWatchdog>>

\* OpenDevice: each attempt replaces the handle, and a failed one is repeated
\* before the driver is given up.
OpenDevice(o) ==
  /\ vdOpener[o] \in {"open", "again"}
  /\ \/ vdHandle' = TRUE /\ vdOpener' = [vdOpener EXCEPT ![o] = "check"] /\ UNCHANGED vdStatus
     \/ vdOpener[o] = "open" /\ vdHandle' = FALSE /\ vdOpener' = [vdOpener EXCEPT ![o] = "again"] /\ UNCHANGED vdStatus
     \/ vdHandle' = FALSE /\ vdStatus' = "failed" /\ vdOpener' = [vdOpener EXCEPT ![o] = "idle"]
  /\ UNCHANGED <<vdOpens, vdPing, vdCount, vdDisplay, vdMissed, vdDropped, vdMode, vdWatchdog>>

\* CheckProtocolCompatible, on whatever the handle is by now.
CheckProtocol(o) ==
  /\ vdOpener[o] = "check"
  /\ \/ /\ vdHandle /\ vdStatus' = "ok"
        /\ vdOpener' = [vdOpener EXCEPT ![o] = "ping"] /\ UNCHANGED vdHandle
     \/ /\ vdHandle' = FALSE /\ vdStatus' = "incompatible"
        /\ vdOpener' = [vdOpener EXCEPT ![o] = "idle"]
  /\ UNCHANGED <<vdOpens, vdPing, vdCount, vdDisplay, vdMissed, vdDropped, vdMode, vdWatchdog>>

\* Nobody pings a driver whose watchdog never fires.
PingingFrom(pings) == IF vdWatchdog THEN Append(pings, [pc |-> "ping", fails |-> 0, due |-> TRUE]) ELSE pings

FetchFailureIgnored(o) ==
  /\ vdOpener[o] = "ping" /\ vdOpener' = [vdOpener EXCEPT ![o] = "idle"]
  /\ \/ vdHandle /\ Len(vdPing) < VdMaxThreads /\ vdPing' = PingingFrom(vdPing)
     \/ UNCHANGED vdPing
  /\ UNCHANGED <<vdHandle, vdStatus, vdOpens, vdCount, vdDisplay, vdMissed, vdDropped, vdMode, vdWatchdog>>

\* startPingThread: the timeout is asked for; without an answer the driver is
\* given up, and with a timeout of zero no thread is started.
StartPingThread(o) ==
  /\ vdOpener[o] = "ping"
  /\ \/ /\ vdHandle /\ Len(vdPing) < VdMaxThreads
        /\ vdPing' = PingingFrom(vdPing)
        /\ vdOpener' = [vdOpener EXCEPT ![o] = "idle"] /\ UNCHANGED vdStatus
     \/ /\ vdStatus' = "watchdog" /\ vdOpener' = [vdOpener EXCEPT ![o] = "close"]
        /\ UNCHANGED vdPing
  /\ UNCHANGED <<vdHandle, vdOpens, vdCount, vdDisplay, vdMissed, vdDropped, vdMode, vdWatchdog>>

GiveUp(o) ==
  /\ vdOpener[o] = "close" /\ vdHandle' = FALSE
  /\ vdOpener' = [vdOpener EXCEPT ![o] = "idle"]
  /\ UNCHANGED <<vdStatus, vdOpens, vdPing, vdCount, vdDisplay, vdMissed, vdDropped, vdMode, vdWatchdog>>

\* The loop of a ping thread; the failures of all its life are counted.
PingDriver(p) ==
  /\ vdPing[p].pc = "ping" /\ vdPing[p].due
  /\ \E answered \in {FALSE, vdHandle} :
       /\ vdPing' = [vdPing EXCEPT ![p].due = FALSE,
                       ![p].fails = IF answered THEN @ ELSE @ + 1,
                       ![p].pc = IF ~answered /\ vdPing[p].fails = MaxFails THEN "failed" ELSE @]
       /\ vdCount' = IF answered THEN PingShare ELSE vdCount
       /\ vdMissed' = ~answered
  /\ UNCHANGED <<vdHandle, vdStatus, vdOpener, vdOpens, vdDisplay, vdDropped, vdMode, vdWatchdog>>

\* onVDisplayWatchdogFailed, in the ping thread: first the status, then the
\* handle, whichever that is.
MarkFailed(p) ==
  /\ vdPing[p].pc = "failed" /\ vdPing' = [vdPing EXCEPT ![p].pc = "close"] /\ vdStatus' = "watchdog"
  /\ UNCHANGED <<vdHandle, vdOpener, vdOpens, vdCount, vdDisplay, vdMissed, vdDropped, vdMode, vdWatchdog>>

CloseAfterFailure(p) ==
  /\ vdPing[p].pc = "close" /\ vdPing' = [vdPing EXCEPT ![p].pc = "ended"] /\ vdHandle' = FALSE
  /\ UNCHANGED <<vdStatus, vdOpener, vdOpens, vdCount, vdDisplay, vdMissed, vdDropped, vdMode, vdWatchdog>>

Pinging == {p \in DOMAIN vdPing : vdPing[p].pc = "ping"}

\* An interval passes; the driver's watchdog removes the displays when it fires.
PingInterval ==
  /\ \A p \in Pinging : ~vdPing[p].due
  /\ vdPing' = [p \in DOMAIN vdPing |-> [vdPing[p] EXCEPT !.due = p \in Pinging]]
  /\ vdMissed' = (vdMissed \/ Pinging = {})
  /\ IF ~vdWatchdog THEN UNCHANGED <<vdCount, vdDisplay, vdDropped>>
     ELSE IF vdCount <= 1
       THEN vdCount' = PingShare /\ vdDisplay' = FALSE /\ vdDropped' = (vdDropped \/ (vdDisplay /\ ~vdMissed'))
       ELSE vdCount' = vdCount - 1 /\ UNCHANGED <<vdDisplay, vdDropped>>
  /\ UNCHANGED <<vdHandle, vdStatus, vdOpener, vdOpens, vdMode, vdWatchdog>>

\* changeDisplaySettings: the whole rate to set, and the one to fall back on.
BaselineRates(r) ==
  LET whole == r \div 1000
  IN IF r % 1000 = 0 THEN {whole, whole - 1} ELSE {whole, whole + 1}

\* createVirtualDisplay and changeDisplaySettings, in execute().
CreateVirtualDisplay(r) ==
  /\ vdStatus = "ok" /\ vdHandle /\ ~vdDisplay /\ vdDisplay' = TRUE
  /\ \E rate \in BaselineRates(r) : vdMode' = <<r, rate>>
  /\ UNCHANGED <<vdHandle, vdStatus, vdOpener, vdOpens, vdPing, vdCount, vdMissed, vdDropped, vdWatchdog>>

\* removeVirtualDisplay, in terminate().
RemoveVirtualDisplay ==
  /\ vdStatus = "ok" /\ vdHandle /\ vdDisplay /\ vdDisplay' = FALSE
  /\ UNCHANGED <<vdHandle, vdStatus, vdOpener, vdOpens, vdPing, vdCount, vdMissed, vdDropped, vdMode, vdWatchdog>>

VdInit ==
  /\ vdHandle = FALSE /\ vdStatus = "unknown" /\ vdOpener = [o \in VdOpeners |-> "idle"] /\ vdOpens = 0
  /\ vdPing = <<>> /\ vdCount = PingShare /\ vdDisplay = FALSE /\ vdMissed = TRUE /\ vdDropped = FALSE
  /\ vdMode = <<>> /\ vdWatchdog \in BOOLEAN

VdOpening(o) == OpenDevice(o) \/ CheckProtocol(o) \/ StartPingThread(o) \/ GiveUp(o)
VdPinging(p) == PingDriver(p) \/ MarkFailed(p) \/ CloseAfterFailure(p)

VdNext ==
  \/ \E o \in VdOpeners : InitDriver(o) \/ VdOpening(o)
  \/ \E p \in DOMAIN vdPing : VdPinging(p)
  \/ PingInterval
  \/ \E r \in VdRates : CreateVirtualDisplay(r)
  \/ RemoveVirtualDisplay

\* Threads that have begun go on, and time passes.
VdFairness ==
  /\ WF_vdVars(\E o \in VdOpeners : VdOpening(o))
  /\ WF_vdVars(\E p \in DOMAIN vdPing : VdPinging(p))
  /\ WF_vdVars(PingInterval)

VdSpec == VdInit /\ [][VdNext]_vdVars /\ VdFairness

-----------------------------------------------------------------------------
\* The driver's watchdog takes no display away while every ping is answered.
PingsKeepDisplay == ~vdDropped

\* The host calls a driver ready whose watchdog would take the displays away,
\* and no thread pings it nor is about to be started.
ReadyUnwatched == vdStatus = "ok" /\ vdWatchdog /\ Pinging = {} /\ \A o \in VdOpeners : vdOpener[o] # "ping"

\* That happens only between the last failed ping of a thread and the step with
\* which it withdraws the status: not because two openers raced, or an old
\* thread closed the handle of a new one.
ReadyMeansWatched == ReadyUnwatched => \E p \in DOMAIN vdPing : vdPing[p].pc = "failed"

\* The rate set is within a hertz of the one asked for.
BaselineRateClose ==
  vdMode # <<>> => vdMode[2] * 1000 - vdMode[1] \in -1000 .. 1000

\* A ping thread that closes the handle another opener has just got leaves a
\* status that is wrong, but not for ever: the pings of a driver with a watchdog
\* fail.  (Without one nobody pings, and the status may stay wrong.)
LostHandleNoticed == (vdWatchdog /\ vdStatus = "ok" /\ ~vdHandle) ~> (vdStatus # "ok" \/ vdHandle)

\* Nor does a status stay that nobody watches over.
UnwatchedWithdrawn == ReadyUnwatched ~> ~ReadyUnwatched

\* A virtual display that was handed out is kept alive, at the rate asked for.
VirtualDisplayWatched == PingsKeepDisplay /\ ReadyMeansWatched /\ BaselineRateClose
=============================================================================
