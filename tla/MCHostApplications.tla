------------------------- MODULE MCHostApplications -------------------------
(* What the host keeps about applications, displays, devices, credentials  *)
(* and the library, and the services around it.  The parts are checked in  *)
(* one run but do not interact: `part' says which of them moves, and the   *)
(* others stay where they start.                                           *)
EXTENDS AppSession, DisplayDevice, AppCatalog, DeviceRegistry, LibrarySync,
        VirtualDriver, NvPrefs, ConfigServer, ServiceSupervisor, UpnpMapper,
        TaskPool

VARIABLE part  \* the part that moves

MCAppOf == [a \in Apps |->
  IF a = "game"
  THEN [cmd |-> TRUE, prep |-> 2, virtualDisplay |-> FALSE, gamepad |-> TRUE,
        autoDetach |-> TRUE, terminateOnPause |-> FALSE]
  ELSE [cmd |-> FALSE, prep |-> 1, virtualDisplay |-> TRUE, gamepad |-> FALSE,
        autoDetach |-> FALSE, terminateOnPause |-> TRUE]]

MCDdRemap(fr, ff, tr, tf) == [from |-> [res |-> fr, rate |-> ff], to |-> [res |-> tr, rate |-> tf]]
MCDdLaunches ==
  LET asked(o) == [sops |-> o, res |-> "low", rate |-> "low"]
      video(r, f, m) == [resolution |-> r, rate |-> f, remap |-> m]
      byRate == <<MCDdRemap("high", DdUnset, DdUnset, "high"), MCDdRemap(DdUnset, "low", "high", DdUnset)>>
  IN  {<<video("automatic", "automatic", byRate), asked(TRUE)>>,
       <<video("automatic", "automatic", byRate), asked(FALSE)>>,
       <<video("manual", "automatic", <<MCDdRemap(DdUnset, DdUnset, DdUnset, DdUnset)>>), asked(TRUE)>>,
       <<video("manual", "disabled", << >>), asked(FALSE)>>}

MCAcFiles == LET e(u, n, k) == [uuid |-> u, name |-> n, kind |-> k] IN
  {[version |-> 1, apps |-> <<e(0, <<"a">>, "legacy"), e(1, <<"b">>, "good")>>],
   [version |-> 2, apps |-> <<e(1, <<"a">>, "good"), e(2, <<"b">>, "bad")>>]}
MCAcNames == {<<"a">>}

MCLsFirst == [rev |-> 1, items |-> <<"d", "a">>, hidden |-> {}]

\* A part that does not move starts in one of its initial states.
MCInit ==
  /\ part \in {"app", "dd", "ac", "dr", "ls", "vd", "np", "cs", "sv", "up", "tp"}
  /\ IF part = "ac" THEN acFile \in AcFiles ELSE acFile = CHOOSE v \in AcFiles : TRUE
  /\ IF part = "dr" THEN drFile \in DrFiles ELSE drFile = CHOOSE v \in DrFiles : TRUE
  /\ IF part = "np" THEN npUser \in NpValues ELSE npUser = CHOOSE v \in NpValues : TRUE
  /\ IF part = "sv" THEN svConsole \in {{}} \cup {{s} : s \in SvSessions} ELSE svConsole = CHOOSE v \in {{}} \cup {{s} : s \in SvSessions} : TRUE
  /\ IF part = "up" THEN upRouter \in UpRouters ELSE upRouter = CHOOSE v \in UpRouters : TRUE
  /\ IF part = "up" THEN upGuarded \in BOOLEAN ELSE upGuarded = CHOOSE v \in BOOLEAN : TRUE
  /\ IF part = "up" THEN upOwner \in [1 .. UpPorts -> {"none", "other"}] ELSE upOwner = CHOOSE v \in [1 .. UpPorts -> {"none", "other"}] : TRUE
  /\ IF part = "vd" THEN vdWatchdog \in BOOLEAN ELSE vdWatchdog = CHOOSE v \in BOOLEAN : TRUE
  /\ AppInit /\ DdInit /\ AcInit /\ DrInit /\ LsInit /\ VdInit
  /\ NpInit /\ CsInit /\ SvInit /\ UpInit /\ TpInit

\* Everything but the part that moves stays as it is.
Rest(moving) ==
  /\ UNCHANGED part
  /\ IF moving = "app" THEN TRUE ELSE UNCHANGED appVars
  /\ IF moving = "dd" THEN TRUE ELSE UNCHANGED ddVars
  /\ IF moving = "ac" THEN TRUE ELSE UNCHANGED acVars
  /\ IF moving = "dr" THEN TRUE ELSE UNCHANGED drVars
  /\ IF moving = "ls" THEN TRUE ELSE UNCHANGED lsVars
  /\ IF moving = "vd" THEN TRUE ELSE UNCHANGED vdVars
  /\ IF moving = "np" THEN TRUE ELSE UNCHANGED npVars
  /\ IF moving = "cs" THEN TRUE ELSE UNCHANGED csVars
  /\ IF moving = "sv" THEN TRUE ELSE UNCHANGED svVars
  /\ IF moving = "up" THEN TRUE ELSE UNCHANGED upVars
  /\ IF moving = "tp" THEN TRUE ELSE UNCHANGED tpVars

MCNext ==
  \/ part = "app" /\ AppNext /\ Rest("app")
  \/ part = "dd" /\ DdNext /\ Rest("dd")
  \/ part = "ac" /\ AcNext /\ Rest("ac")
  \/ part = "dr" /\ DrNext /\ Rest("dr")
  \/ part = "ls" /\ LsNext /\ Rest("ls")
  \/ part = "vd" /\ VdNext /\ Rest("vd")
  \/ part = "np" /\ NpNext /\ Rest("np")
  \/ part = "cs" /\ CsNext /\ Rest("cs")
  \/ part = "sv" /\ SvNext /\ Rest("sv")
  \/ part = "up" /\ UpNext /\ Rest("up")
  \/ part = "tp" /\ TpNext /\ Rest("tp")

mcVars == <<part, appVars, ddVars, acVars, drVars, lsVars, vdVars, npVars, csVars, svVars, upVars, tpVars>>

MCSpec ==
  /\ MCInit /\ [][MCNext]_mcVars
  /\ SF_ddVars(part = "dd" /\ DdOn /\ SchedulerRuns("ok"))
  /\ WF_ddVars(part = "dd" /\ DdOn /\ \E available \in BOOLEAN : AudioReleaseRuns(available))
  /\ WF_vdVars(part = "vd" /\ \E o \in VdOpeners : VdOpening(o))
  /\ WF_vdVars(part = "vd" /\ \E p \in DOMAIN vdPing : VdPinging(p))
  /\ WF_vdVars(part = "vd" /\ PingInterval)
  /\ WF_svVars(part = "sv" /\ ServiceMain) /\ WF_svVars(part = "sv" /\ SessionChange)
  /\ WF_upVars(part = "up" /\ UpThread) /\ WF_upVars(part = "up" /\ AfterTheEnd)
  /\ WF_tpVars(part = "tp" /\ Tick) /\ \A w \in TpWorkers : WF_tpVars(part = "tp" /\ WorkerStep(w))

-----------------------------------------------------------------------------
\* Display settings and driver preferences the host changed can be put back
\* and are, across crashes, failed calls and displays that come and go.
SettingsRecoverable ==
  /\ DdTypeOK
  /\ ChangedSettingsRecoverable
  /\ ResolutionNeedsSops
  /\ ChangeRecoverable
  /\ CleanEndRestores
  /\ UserValueBack

\* The service leaves no host process behind, and the UPnP thread no port whose
\* deletion the router did not refuse.
NothingLeftBehind == NoHostLeft /\ LeaseOutlivesSleep /\ MappingsRemoved

\* What no step may do: retry what was superseded, keep an application's
\* display settings or the last device's application, give a device that pairs
\* again more rights, lose an application in a reorder, or serve a browser on
\* a cookie that is old or belongs to another password.
ChangesAsAllowed ==
  [][/\ JobDoesWhatIsWanted
     /\ SettingsFollowApp
     /\ LastDeviceEndsApp
     /\ RepairingGrantsNothing
     /\ ReorderKeepsApps
     /\ LoggedInWithCurrentPassword]_mcVars

\* What the host owes it does in the end: a revert, dropping the audio context,
\* noticing a lost driver handle, stopping, following the console session,
\* mapping its ports again, and running what was handed to the task pool.
HostCatchesUp ==
  /\ RevertHappens
  /\ AudioContextDropped
  /\ LostHandleNoticed
  /\ UnwatchedWithdrawn
  /\ StopCarriedOut
  /\ HostFollowsConsole
  /\ PortsReopened
  /\ LeasesRunOut
  /\ PushedTaskRuns
  /\ TimerRuns
=============================================================================
