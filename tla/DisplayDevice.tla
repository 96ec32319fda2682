--------------------------- MODULE DisplayDevice ---------------------------
(***************************************************************************)
(* Display settings for a stream (display_device.cpp): what a session's    *)
(* wishes become under the user's configuration, the one job of the retry  *)
(* scheduler that applies or reverts them, the state kept across restarts  *)
(* and the audio context held while displays are off.                      *)
(*                                                                         *)
(* SettingsManager and RetryScheduler are a library: a job replaces the    *)
(* one before, runs at once unless it was scheduled with a delay, and runs *)
(* again until it asks to stop.                                            *)
(***************************************************************************)
EXTENDS Naturals

CONSTANTS DdModes,         \* resolutions, and likewise refresh rates, a client may ask for
          DdDevices,       \* displays that can be connected
          DdAudioRetries,  \* retry_counter of the audio context
          DdLaunches,      \* pairs of configuration and session that are launched
          DdMaxRestarts    \* restarts looked at

DdUnset == "unset"

\* Options as config::video_t::dd has them: how resolution and rate are chosen
\* and the remapping entries, each half of which may be left open.
DdHalf == [res : DdModes \cup {DdUnset}, rate : DdModes \cup {DdUnset}]
DdOptions(v) ==
  /\ v.resolution \in {"disabled", "automatic", "manual"} /\ v.rate \in {"disabled", "automatic", "manual"}
  /\ \A i \in DOMAIN v.remap : v.remap[i] \in [from : DdHalf, to : DdHalf]

ASSUME DdAssumption == DdAudioRetries \in Nat /\ DdMaxRestarts \in Nat

ASSUME DdInputs ==
  /\ DdModes \cap {"original", "failed", "revert", "keep"} = {}
  /\ \A l \in DdLaunches : DdOptions(l[1]) /\ l[2] \in [sops : BOOLEAN, res : DdModes, rate : DdModes]

DdTag(t) == [sops |-> FALSE, res |-> t, rate |-> t]
DdOriginal == DdTag("original")
DdFailed == DdTag("failed")
DdRevert == DdTag("revert")
DdKeep == DdTag("keep")

VARIABLES
  ddSettings,  \* the display mode in force: DdOriginal or a parsed configuration
  ddSaved,     \* the persistence file holds the original mode
  ddJob,       \* the scheduler's job
  ddWanted,    \* the last thing asked for: a configuration, DdRevert or DdKeep
  ddDevices,   \* connected displays
  ddAudio,     \* the audio context
  ddRestarts   \* restarts so far

ddVars == <<ddSettings, ddSaved, ddJob, ddWanted, ddDevices, ddAudio, ddRestarts>>

DdIdle == [kind |-> "none"]
DdNoAudio == [held |-> FALSE, released |-> FALSE, retries |-> 0, job |-> FALSE]

DdInit ==
  /\ ddSettings = DdOriginal /\ ddSaved = FALSE /\ ddJob = DdIdle /\ ddWanted = DdKeep
  /\ ddDevices = DdDevices /\ ddAudio = DdNoAudio /\ ddRestarts = 0

-----------------------------------------------------------------------------
(* parse_configuration *)

\* parse_resolution_option: without "optimize game settings" a resolution is
\* never changed.  A manual value that does not parse fails.
ParseResolutionOption(option, sops, asked, manual) ==
  IF option = "disabled" \/ ~sops THEN DdUnset
  ELSE IF option = "automatic" THEN asked ELSE manual

\* parse_refresh_rate_option: the client's wish does not depend on it.
ParseRefreshRateOption(option, asked, manual) ==
  CASE option = "disabled" -> DdUnset [] option = "automatic" -> asked [] option = "manual" -> manual

RemapsResolution(v) == v.resolution = "automatic"
RemapsRate(v) == v.rate = "automatic"

\* parse_remapping_entry: the half that is not remapped is not read.
ParseRemappingEntry(v, entry) ==
  [from |-> [res |-> IF RemapsResolution(v) THEN entry.from.res ELSE DdUnset,
             rate |-> IF RemapsRate(v) THEN entry.from.rate ELSE DdUnset],
   to   |-> [res |-> IF RemapsResolution(v) THEN entry.to.res ELSE DdUnset,
             rate |-> IF RemapsRate(v) THEN entry.to.rate ELSE DdUnset]]

BadEntry(e) == e.to.res = DdUnset /\ e.to.rate = DdUnset

SkippedEntry(e, sops, mode) ==
  \/ ~sops /\ (e.from.res # DdUnset \/ e.to.res # DdUnset)
  \/ e.from.res # DdUnset /\ e.from.res # mode.res
  \/ e.from.rate # DdUnset /\ e.from.rate # mode.rate

\* remap_display_mode_if_needed: the first entry that is not skipped decides,
\* an entry without a final value met before that is an error.
RemapDisplayModeIfNeeded(v, sops, mode) ==
  LET Entry(i) == ParseRemappingEntry(v, v.remap[i])
      Decides(i) == BadEntry(Entry(i)) \/ ~SkippedEntry(Entry(i), sops, mode)
      first == {i \in DOMAIN v.remap : Decides(i) /\ \A j \in 1..(i - 1) : ~Decides(j)}
  IN  IF first = {} \/ ~(RemapsResolution(v) \/ RemapsRate(v)) THEN mode
      ELSE LET e == Entry(CHOOSE i \in first : TRUE) IN
           IF BadEntry(e) THEN DdFailed
           ELSE [mode EXCEPT !.res = IF e.to.res # DdUnset THEN e.to.res ELSE @,
                             !.rate = IF e.to.rate # DdUnset THEN e.to.rate ELSE @]

ParseConfiguration(v, session) ==
  RemapDisplayModeIfNeeded(v, session.sops,
    [sops |-> session.sops,
     res |-> ParseResolutionOption(v.resolution, session.sops, session.res, "manual"),
     rate |-> ParseRefreshRateOption(v.rate, session.rate, "manual")])

-----------------------------------------------------------------------------
(* The scheduler's jobs.  Each outcome is the library's answer. *)

\* SettingsManager: the original mode is saved before the first change, and
\* the audio context captured when displays go off.
Captured(a) == [a EXCEPT !.held = TRUE, !.released = FALSE, !.retries = DdAudioRetries]

ApplySettings(cfg, answer) ==
  /\ ddSettings' = IF answer = "ok" THEN cfg ELSE ddSettings
  /\ ddSaved' = (ddSaved \/ answer = "ok")
  /\ ddAudio' = IF answer = "ok" /\ ~(ddAudio.held /\ ~ddAudio.released)
                THEN Captured(ddAudio) ELSE ddAudio
  /\ ddJob' = IF answer = "busy" THEN [kind |-> "apply", cfg |-> cfg] ELSE DdIdle

\* A revert with nothing saved has nothing to do.
RevertSettings(answer) ==
  /\ ddSettings' = IF ddSaved /\ answer = "ok" THEN DdOriginal ELSE ddSettings
  /\ ddSaved' = (ddSaved /\ answer # "ok")
  /\ ddAudio' = IF ddSaved /\ answer = "ok" THEN [ddAudio EXCEPT !.job = TRUE] ELSE ddAudio

RevertJob(tried) == [kind |-> "revert", tried |-> tried]

\* One run of the revert job: skipped while the displays are those that were
\* tried in vain; a refusal that is not temporary waits for a change of them.
RunRevert(job, answer) ==
  IF ddDevices = job.tried
  THEN ddJob' = job /\ UNCHANGED <<ddSettings, ddSaved, ddAudio>>
  ELSE /\ RevertSettings(answer)
       /\ ddJob' = CASE answer = "ok" -> DdIdle
                     [] answer = "busy" -> job
                     [] answer = "failed" -> [job EXCEPT !.tried = ddDevices]

\* configure_display with a parsed configuration; one that does not parse
\* leaves everything as it is.
ConfigureDisplay(v, session, answer) ==
  LET cfg == ParseConfiguration(v, session) IN
  /\ cfg # DdFailed
  /\ ddWanted' = cfg
  /\ ApplySettings(cfg, answer)
  /\ UNCHANGED <<ddDevices, ddRestarts>>

\* revert_configuration with a delay: the job waits its turn.
RevertConfigurationDelayed ==
  /\ ddWanted' = DdRevert
  /\ ddJob' = RevertJob({})
  /\ UNCHANGED <<ddSettings, ddSaved, ddDevices, ddAudio, ddRestarts>>

\* revert_configuration without a delay.
RevertConfigurationNow(answer) ==
  /\ ddWanted' = DdRevert
  /\ RunRevert(RevertJob({}), answer)
  /\ UNCHANGED <<ddDevices, ddRestarts>>

\* reset_persistence: stop interfering; what is in force is from now on the
\* mode to come back to.
ResetPersistence ==
  /\ ddWanted' = DdKeep /\ ddJob' = DdIdle /\ ddSaved' = FALSE /\ ddSettings' = DdOriginal
  /\ UNCHANGED <<ddDevices, ddAudio, ddRestarts>>

SchedulerRuns(answer) ==
  /\ \/ ddJob.kind = "apply" /\ ApplySettings(ddJob.cfg, answer)
     \/ ddJob.kind = "revert" /\ RunRevert(ddJob, answer)
  /\ UNCHANGED <<ddWanted, ddDevices, ddRestarts>>

DevicesChange(devices) ==
  /\ ddDevices' = devices
  /\ UNCHANGED <<ddSettings, ddSaved, ddJob, ddWanted, ddAudio, ddRestarts>>

\* The process ends, by deinit (one revert) or by a crash.
ShutDown(answer) ==
  /\ ddRestarts < DdMaxRestarts /\ ddJob.kind # "off"
  /\ ddRestarts' = ddRestarts + 1
  /\ \/ /\ answer = "ok" /\ ddSaved
        /\ ddSettings' = DdOriginal /\ ddSaved' = FALSE
     \/ UNCHANGED <<ddSettings, ddSaved>>
  /\ ddJob' = [kind |-> "off"] /\ ddAudio' = DdNoAudio
  /\ UNCHANGED <<ddWanted, ddDevices>>

\* init(): a configuration left behind is reverted, unless the feature is now
\* disabled, which drops the file.
StartUp(disabled, answer) ==
  /\ ddJob.kind = "off"
  /\ IF disabled
     THEN ddWanted' = DdKeep /\ ddSaved' = FALSE /\ ddJob' = DdIdle /\ ddSettings' = DdOriginal
     ELSE /\ ddWanted' = DdRevert
          /\ ddSettings' = IF ddSaved /\ answer = "ok" /\ ddDevices # {} THEN DdOriginal ELSE ddSettings
          /\ ddSaved' = (ddSaved /\ ~(answer = "ok" /\ ddDevices # {}))
          /\ ddJob' = CASE answer = "ok" /\ ddDevices # {} -> DdIdle
                        [] answer = "busy" \/ ddDevices = {} -> RevertJob({})
                        [] answer = "failed" /\ ddDevices # {} -> RevertJob(ddDevices)
  /\ UNCHANGED <<ddDevices, ddAudio, ddRestarts>>

-----------------------------------------------------------------------------
(* The audio context's own scheduler *)

\* release(): the context is kept while its sink is missing, for so many tries.
AudioReleaseRuns(available) ==
  /\ ddAudio.job
  /\ ddAudio' = IF ddAudio.held /\ ~available /\ ddAudio.retries > 0
                THEN [ddAudio EXCEPT !.released = TRUE, !.retries = @ - 1]
                ELSE DdNoAudio
  /\ UNCHANGED <<ddSettings, ddSaved, ddJob, ddWanted, ddDevices, ddRestarts>>

DdAnswers == {"ok", "busy", "failed"}

DdOn == ddJob.kind # "off"

DdNext ==
  \/ /\ DdOn
     /\ \/ \E l \in DdLaunches, a \in DdAnswers : ConfigureDisplay(l[1], l[2], a)
        \/ RevertConfigurationDelayed \/ ResetPersistence
        \/ \E a \in DdAnswers : RevertConfigurationNow(a) \/ SchedulerRuns(a) \/ ShutDown(a)
        \/ \E available \in BOOLEAN : AudioReleaseRuns(available)
  \/ \E d \in SUBSET DdDevices : DevicesChange(d)
  \/ \E disabled \in BOOLEAN, a \in DdAnswers : StartUp(disabled, a)

\* The scheduler's threads run as long as they have a job; the library says
\* "temporarily unavailable" only temporarily.
DdFairness ==
  /\ SF_ddVars(DdOn /\ SchedulerRuns("ok"))
  /\ WF_ddVars(DdOn /\ \E available \in BOOLEAN : AudioReleaseRuns(available))

DdSpec == DdInit /\ [][DdNext]_ddVars /\ DdFairness

-----------------------------------------------------------------------------
(* Properties *)

DdConfigs == {[sops |-> o, res |-> r, rate |-> f] : o \in BOOLEAN, r, f \in DdModes \cup {DdUnset, "manual"}}

DdTypeOK ==
  /\ ddSettings \in DdConfigs \cup {DdOriginal} /\ ddSaved \in BOOLEAN
  /\ ddJob.kind \in {"none", "apply", "revert", "off"}
  /\ ddWanted \in DdConfigs \cup {DdRevert, DdKeep} /\ ddDevices \subseteq DdDevices
  /\ ddAudio.retries \in 0..DdAudioRetries

\* A resolution is changed only for clients with "Optimize game settings",
\* whichever way it is configured or remapped (parse_configuration).
ResolutionNeedsSops ==
  ddSettings \in DdConfigs /\ ddSettings.res # DdUnset => ddSettings.sops

\* A job that is retried never does what has since been superseded: settings
\* are applied only if they are the last ones asked for, and restored only if
\* a revert is (configure_display, revert_configuration_unlocked).
JobDoesWhatIsWanted ==
  ddSettings' # ddSettings /\ ddJob.kind # "off" /\ ddJob'.kind # "off"
    => IF ddSettings' = DdOriginal THEN ddWanted' \in {DdRevert, DdKeep}
       ELSE ddWanted' = ddSettings'

\* Changed settings can be put back, also after a crash: the original mode is
\* on file until it is restored or the host is told to keep what it has.
ChangedSettingsRecoverable == ddSettings # DdOriginal => ddSaved

\* A revert that was asked for happens, unless something else is asked for,
\* the displays that are there refuse it, or the host goes down.
RevertHappens ==
  (ddWanted = DdRevert) ~> \/ ddWanted # DdRevert \/ ~ddSaved
                           \/ ddJob.kind = "off"
                           \/ ddJob.kind = "revert" /\ ddJob.tried = ddDevices

\* A released audio context is dropped in the end, sink or not (release).
AudioContextDropped == ddAudio.released ~> ~ddAudio.released
=============================================================================
