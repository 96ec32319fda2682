# Ligase Host in TLA+

Ligase Host is a game-streaming host: a C++ streaming core (a fork of
Apollo/Sunshine, `src/src/*.cpp`) with an attended-pairing service of its own
(`src/src/ligase/`), and a C# desktop application (`Ligase.Core`,
`Ligase.Desktop`) that manages the core, the library of games and the pairing
prompts. This directory holds TLA+ models of the parts whose correctness depends
on interleavings, deadlines, order, limits and partial failure, TLC
configurations that check them on small instances, and TLAPS proofs for
instances of every size.

`PROJECT.json` lists each part of the system with its status, every modelled
definition with the source lines it stands for, the hazards (places where the
code can go wrong in a way a test hardly reaches) with the properties aimed at
them, the runs, the theorems, and for each property a mutant: a definition
changed as a plausible bug would change it, under which TLC finds the property
violated. The mutated forms stand before the definitions they replace.

## Inventory

| Part | State | Operations | Interacts with | What is hard | Correct when |
|---|---|---|---|---|---|
| attended pairing (`ligase/pairing`) | request records, rate buckets, one mutex | create, envelope, status, cancel, pending, allow, reject, bind, fail, commit, expiry, eviction | routes, nvhttp, desktop | lazy expiry, crossed and repeated calls, stale generations, throwing adapters | one live request per certificate, outcomes final, secrets do not outlive their use |
| GameStream pairing (`nvhttp.cpp`) | `map_id_sess`, adapters, PIN, devices | `pair` phases, PIN page, OTP | pairing service, web UI | three threads on an unlocked map, two-step commit | every authorized device answers to an act of consent, with the reviewed access |
| devices (`nvhttp.cpp`) | `named_devices`, `cert_chain`, state file | add, update, unpair, load, save | sessions, process manager | file that cannot be read, live sessions, second pairing | list, chain, file and sessions agree |
| RTSP (`rtsp.cpp`) | `launch_event`, timer, sockets, session slots | raise, clear, accept, read, describe, setup, announce | nvhttp, stream | three threads on one slot, partial reads, probes between offer and choice | a pending launch is used or discarded, what was offered is streamed |
| sessions (`stream.cpp`) | `session_t`, broadcast context, `_sessions` | start, stop, graceful_stop, join, clear | RTSP, platform | raw pointers, reference counts, watchdog | threads end before what they use |
| control stream, packets, sending | sequence numbers, IVs, queues | messages, feedback, FEC, batches | input, encoder, sockets | unauthentic and nested messages, counters that wrap, partial sends | only permitted messages act, frames leave whole |
| process manager (`process.cpp`), catalog | running application, display, `apps.json` | execute, pause, resume, terminate, parse, migrate, refresh | display device, virtual display, web UI | failure after any step, detached threads, a refresh between read and write | what was changed is undone; the list stays usable |
| display device, virtual display, nvprefs | retry jobs, driver handle, undo file | apply, revert, ping, load, save | libraries and drivers | retries, crashes, a handle closed by an old thread | what was changed can be put back, and is |
| input (`input.cpp`, Windows `input.cpp`) | queue, buttons, keys, pads, touch slots, timers | messages, batching, repeat, release, reset | task pool, platform | delayed tasks against new events and resets, shared ids | what is down is what a client holds |
| video (`video.cpp`, capture back ends, `nvenc_base.cpp`) | capture thread, contexts, images, probe results, reference frames | capture, reinit, probe, encode, invalidate | platform | reinit against sessions, images reused, late loss reports | images are current, key frames follow, lost frames are not referred to |
| audio (`audio.cpp`, Windows `audio.cpp`) | sinks, sample buffer, queue | assign sink, capture, encode, restore | operating system | the default device changes, the process dies | the right device is recorded, frames have no gaps of the host's making, the host's own device is default afterwards |
| web UI, credentials | cookie, password, files | login, change, save, restart | all of the above | files cut first and then written, one after the other; cookies older than a change | only the current password lets in, a torn file opens nothing else |
| library (`nvhttp.cpp`, `Ligase.Core`) | three documents in files, loaded applications | order, resolution, mutate, read back, roll back | core and desktop | two processes and three locks that do not exclude each other, rollbacks that fail | files, core and desktop agree, after an overlap from the next mutation on that runs alone |
| task pool, Windows service, UPnP | tasks and timers; host process; router mappings | push, delay, cancel; start, stop, follow session; map, renew, unmap | everything | sleeping past a timer; session change during a start; routers that forget | what is owed happens, nothing is left behind |

## Modules

### One specification each

| Module | Models |
|---|---|
| `PairingService` | `attended_pairing.cpp`, `attended_pairing_service.cpp` |
| `PairingLedger` | what the service promises (abstract); `PairingService` refines it |
| `PairingServiceProofs` | theorems about `PairingService` |
| `AttendedPairing` (extends `PairingService`), `AttendedPairingProofs` | pairing in `nvhttp.cpp`, the attended routes, PIN page, one-time PINs |
| `StreamLifecycle`, `StreamLifecycleProofs` | session slots, start/stop/join, control thread, broadcast context |
| `LaunchSlot` (proofs in `ClientSessionsProofs`) | `session_raise`, `session_clear`, the timer, `handle_accept` |

*PairingService.* Each public method runs under the service's mutex and is one
action. A method that throws keeps what it did before the throw. Time is
relative: `ttl` counts down to the deadline, ages count up, and `Tick` moves
them; each saturates at the bound the code compares it with. Key material is the
set of secrets a record holds; an envelope is an atom that decrypts or not; the
PIN is named by its envelope. `Materialize`, `Evict`, `Terminate` and
`CleanupTerminal` are the private helpers of these names, applied where the code
applies them.

*AttendedPairing.* The HTTP, HTTPS and configuration UI threads share
`map_id_sess` without a lock. A handler is a step, except `clientpairingsecret`:
it authorizes the device (`Authorize`) and later commits the request
(`CommitPairing`), and other threads run in between. Adapters have addresses
because records keep raw pointers to them; a freed address keeps what was left
there or is used again. Who knows which PIN stands for the cryptography.
`consents`, `grants`, `reviewed` and `through` are history variables.

*StreamLifecycle.* `pc` says what the RTSP thread and the request threads are
doing; `start()`, `clear()` and `join()` are cut where another thread can see the
difference. `Drop` is the release of a `shared_ptr`, the last of which releases
the broadcast reference. `clear(true)` on a session without threads ends in the
exception of `std::thread::join` (`JoinThrows`); the watchdog of `join` restarts
the process (`HangDetected`). What the control thread reads from a destroyed
session is arbitrary. `running` is an integer although the counter is unsigned:
only 0 and 1 are compared.

*LaunchSlot.* One variable for the event, one for the timer, a counter for
handlers that are queued and cannot be cancelled any more, and the positions of
the HTTPS thread (between raise and arm) and of the control thread (between view,
cancel and pop). The timer object itself is taken as atomic.

### Checked in groups

Each of these modules is a specification of its own: its variables and
definitions have a prefix, and it states `Init`, one action per operation, `Next`
and its properties. Three MC modules extend them and check a group in one run.
The variable `part` is chosen initially and never changes; the step of a group is
a step of the part it names, and the variables of all other parts stay at one
initial state. The state space is thus the union of the parts' state spaces, not
their product: a property of one part holds in the group's run exactly if it
holds of the part. Where parts share state in the code, one module holds both
sides (`AppSession` has the process manager, its requests and the sessions that
call it; `AppCatalog` both threads that refresh; `LibrarySync` both processes;
`VideoCapture` the capture thread and all sessions). The group modules also
conjoin the parts' invariants under one name, so that a property is a question
about the system; the conjuncts are defined and commented in the parts. The
theorems about a group and its parts are in one module per group:
`HostApplicationsProofs`, `MediaPipelineProofs` and `ClientSessionsProofs`.

| Module | Prefix | Models |
|---|---|---|
| **`MCHostApplications`** | | |
| `AppSession` | | `proc_t` (execute, prep and undo, virtual display, HDR thread, pause, resume, running, terminate) and launch, resume, cancel, web page and session callbacks |
| `DisplayDevice` | `dd` | `display_device.cpp`: what a session's wishes become, the retry scheduler's one job, persistence, audio context |
| `AppCatalog` | `ac` | parse, migrate, refresh, in the steps that read, cut and write the file; saveApp, reorderApps, deleteApp |
| `DeviceRegistry` | `dr` | paired devices, certificate chain, state file, permissions of running sessions |
| `LibrarySync` | `ls` | library and streaming documents, snapshot, reload, rollback; three writers that may all overlap |
| `VirtualDriver` | `vd` | driver handle, openers and ping threads |
| `NvPrefs` | `np` | driver profile and undo file |
| `ConfigServer` | `cs` | key, certificate and credentials files, each cut and then written; cookie, login, restart |
| `ServiceSupervisor` | `sv` | the Windows service that runs the host |
| `UpnpMapper` | `up` | the port mapping thread against a router: leases, pinholes, refused deletions |
| `TaskPool` | `tp` | `task_pool.h`, `thread_pool.h` |
| **`MCMediaPipeline`** | | |
| `VideoCapture` | `vc` | the capture thread, its contexts, reinit, the sessions' encoding threads, the detached teardown |
| `EncoderProbe` | `ep` | validation and choice of an encoder, offered codecs |
| `DuplicationCapture` | `dc` | desktop duplication: the loop, snapshot, cursor (video memory and system memory) |
| `SharedImages` | `ig` | the image pool and the shared textures behind it |
| `WgcCapture` | `wg` | frame pool, callback thread, waiting capture thread |
| `KmsCapture` | `km` | planes, framebuffers, cursor and HDR metadata from the kernel |
| `DisplayLayout` | `dl` | the arrangement of displays around an isolated one |
| `EncodeLoop` | `el` | codec setup with fallbacks, the division that traps at one frame per second, pacing, key frame requests |
| `NvEnc` | `ne` | creation with failures, encoding, reference invalidation |
| `PacketStream` | `pk` | video and audio packets, FEC blocks, sequence numbers, IVs |
| `SocketSend` | `sk` | batches, segmentation offload, `sendmmsg`, single sends |
| **`MCClientSessions`** | | |
| `LaunchSlot` | | as above |
| `RtspServer` | `rs` | connections: reading in parts, encryption, reply |
| `StreamNegotiation` | `sn` | launch parameters, DESCRIBE, ANNOUNCE |
| `ControlChannel` | `cc` | control messages, feedback, HDR mode; the loop and what holds it up |
| `InputQueue` | `iq` | queue, permissions, batching |
| `InputMouse` | `im` `pt` | buttons; pointing and scrolling |
| `InputKeys`, `InputPads` | `ik` `ip` | keys and their repetition; gamepads |
| `WindowsInput` | `wt` `wp` | touch and pen slots; ViGEm targets |
| `AudioCapture` | `as` `au` | default device and sessions, lost devices; samples, discontinuities, queue, encoder thread |

In all of them a step is what a thread does until another thread, a driver, a
crash or a failing call can make a difference. Calls of drivers, libraries and
the operating system that can fail do so at any time.

## Runs

| Run | Module | Result | Properties |
|---|---|---|---|
| `pairing_request` | `MCPairingService` | pass | `ServiceConsistent`, `HistoryHolds` |
| `pairing_contention` | `MCPairingService` | pass | `OneLiveRequestPerCertificate`, `ImplementsLedger`, `RequestsRunOut` |
| `pairing_handshake` | `MCAttendedPairing` | pass | `PairingConsistent`, `ConsentPerGrant`, `AccessAsReviewed` |
| `commit_after_end` | `MCAttendedPairing` | violation | `AuthorizedOnlyWhenApproved` |
| `stream_lifecycle` | `StreamLifecycle` | pass | `TypeOK`, `SessionsOutliveThreads` |
| `stream_release` | `StreamLifecycle` | pass | `StoppingSessionReleased` |
| `listed_after_free` | `StreamLifecycle` | violation | `ListedSessionsExist` |
| `host_applications` | `MCHostApplications` | pass | eleven, below |
| `media_pipeline` | `MCMediaPipeline` | pass | nine, below |
| `client_sessions` | `MCClientSessions` | pass | nine, below |
| `batch_overflow` | `MCClientSessions` | violation | `MotionPreserved` |

What they say:

* **Pairing service.** `ServiceConsistent`: an approval follows a verified envelope
  and a bound session; secrets, PIN and adapter follow the state; failure codes
  and stamps are there when and only when the request has ended so; the rate
  bucket stays within its limit. `HistoryHolds`: no step rewrites an outcome, acts
  past a deadline, changes a reviewed request, moves a generation without a
  state, or takes back a spent rate token early. `RequestsRunOut`: every request ends and is
  forgotten.
* **Handshake.** `ConsentPerGrant`: no more authorizations than acts of consent.
  `PairingConsistent`: a paired request has an authorized device.
  `AccessAsReviewed`: the device gets the access selected when it was allowed.
* **Sessions.** `SessionsOutliveThreads`: no session is freed while its threads run,
  one thread joins it, and the broadcast context exists as long as any of them.
  `TypeOK` includes that `running_sessions` is at most one short of the sessions
  started, which is what a callback between two steps may see.
* **Host applications.** `AppChangesUndone`: prep commands, virtual display, HDR and
  input settings are undone on every path. `SettingsRecoverable`: a changed display or driver
  setting can be put back after a crash at any step, and a clean end puts it back.
  `RegistryConsistent`: list, chain, state file and running sessions agree.
  `CatalogConsistent`: uuids stay unique, ids stable, and once nobody works on the
  file the list is the one it gives, unless the last refresh ran against another
  thread's write. `LibraryAgrees`: files, core and desktop agree when no change is under
  way; changes may overlap and rollbacks fail, and then agreement is back with the
  next mutation that runs alone.
  `VirtualDisplayWatched`: a driver with a watchdog that is called ready is pinged, up to
  the step in which a failed thread withdraws the status, and the display runs at the rate asked for.
  `TaskPoolConsistent`: a cancelled task never runs, nobody sleeps past a task.
  `CredentialsConsistent`: the last saved password works or, after a later save was cut
  off, none is set; key and certificate belong together, or one was cut and no
  start succeeds; no application survives a requested end.
  `NothingLeftBehind`: no host process after a stop, leases outlive the renewal
  interval, and the mappings left after a last round that found the router are those whose
  deletion it refused. `ChangesAsAllowed` and `HostCatchesUp`: see the comments in
  `MCHostApplications`; the latter includes that pinholes, which nothing removes, and
  mappings left behind with a lease run out (`LeasesRunOut`).
* **Media pipeline.** `CaptureThreadServes`: a session that waits is known to a
  running capture thread, and the thread has a session to run for.
  `ProbeResultsHold`: what is offered has been seen to work and the user's choice
  comes first. `CapturedImagesSound`: an image that goes to an encoder shows what
  the display showed, under three back ends; an encoder that compares addresses is
  misled only by a texture put at the address of its own image's dummy. `HeldTexturesStay`: no texture is
  replaced under an encoder. `LayoutIsolated`: when the real displays were one piece
  without the virtual one, it shares no edge with them afterwards and they keep
  their relative places; the primary one stays the primary one. `EncoderSound`, `KeyFrameFollows`: pacing,
  reference frames, and key frames although images may be dropped. `FramesSentWhole`:
  whole frames in contiguous packets; IVs of video never repeat, those of audio only after
  the sequence number came round, and only a minimum of parity above what a full
  block leaves room for ends the process. `CaptureProgress`: sessions end and a
  changed display is opened again unless the capture thread is stuck for ever, in the
  pop of an image that an encoder took first or behind a teardown.
* **Client sessions.** `LaunchSlotInvariant`: a pending launch is covered by a timer, a
  handler or a thread. `RtspSound`: messages are acted on whole, by the holder of
  the launch's key, and are answered under fresh IVs. `NegotiationHonoured`:
  what was offered and asked for is what is streamed, within the chosen bitrate.
  `AudioSound`: with `auto_capture` no stale device is recorded unknowingly, no buffer
  overflows, frames are in order and have no gap but the device's own. `ClientServed`:
  among others, a launch leaves its slot, and the control thread waits there for ever
  only when the launch it saw was discarded before it could pop it. `ControlChannelSound`,
  `InputArrives`, `HeldInputFollowsClients`, `InputReleased`: see the comments in
  `MCClientSessions`.

### Findings

* `commit_after_end`: a device can be authorized through a request that has
  already ended, because `clientpairingsecret` authorizes before `commit_paired`
  checks; the contract says pairing commits only from `approved`.
* `listed_after_free`: after `graceful_stop` the control thread's list can hold a
  destroyed session.
* `batch_overflow`: the overflow test in `batch()` is negated, so that motions are
  merged exactly when the sum does not fit 16 bits.

### What the properties have to leave open

Some properties name a case in which the code does not do what one would wish. The
repository promises nothing else there, so these are not findings (a comment
at `video.cpp:1924` hopes that streaming goes on after a teardown that hangs; it
does, until a display has to be opened again). The models have the case, and the
property (with its proof, where it is an invariant) says that it is the only one.

| Case | Source | Named in |
|---|---|---|
| a refresh that reads `apps.json` while another thread has cut it leaves a list of the system's own entries until the next refresh | `process.cpp:1216-1227,1397-1400` | `ListFollowsFile` |
| a key file that was cut and never written is not made again: no start succeeds; a credentials file that was cut means no password is set, and later saves cannot read it | `httpcommon.cpp:63,88-90,156-164` | `KeyPairMatches`, `SavedPasswordWorks` |
| a driver whose watchdog timeout is zero is not pinged, so a handle closed by an old thread is not noticed | `virtual_display.cpp:601` | `ReadyUnwatched`, `LostHandleNoticed` |
| a mapping whose deletion the router refuses stays, and IPv6 pinholes are never removed; both run out, but for entries without a lease | `upnp.cpp:121-150,281-297` | `MappingsRemoved`, `LeasesRunOut` |
| changes of the library that overlap, or a rollback that fails, leave files, core and desktop apart until a mutation runs alone | `LibraryMutationCoordinator.cs:124-164`, `StreamingSettingsService.cs:16` | `LibraryAgrees` |
| a texture made at the address its image's dummy had is not opened by an encoder that knows the dummy | `display_vram.cpp:853` | `EncoderDrawsImage` |
| the capture thread waits for an image an encoder took between its peek and its pop; or for a display that a teardown still holds | `video.cpp:1348,1359,1928` | `CaptureStuck` |
| the display is reset between two looks of a session at it, which uses a null pointer | `video.cpp:1372,2404-2413` | `Crashed` (`VideoCapture`) |
| a client's minimum of parity packets is taken as it is; above what a full block leaves room for there is no code, and the process ends | `rtsp.cpp:1003`, `stream.cpp:659-711` | `BlocksCoverFrame` |
| audio IVs repeat after 65536 packets | `stream.cpp:1685` | `IvNotReusedEarly` |
| a session that ends before its delayed release of the left button is due leaves the button down | `input.cpp:1648` | `ButtonsFollowClients`, `ReleaseArrives` |
| a pad removed with BACK held makes the home button's timer use `gamepads[-1]` | `input.cpp:1167-1178`, `windows/input.cpp:1497` | `TimersFindPads`, `PadsFreed` |
| a refresh of touches or pen that runs while it is cancelled schedules itself again, also with a destroyed client | `windows/input.cpp:668-682,846-866` | `NoRefreshAfterClient` |
| a full queue of audio frames discards them all; without `auto_capture` nobody learns of a new default device; a lost device takes the news of a changed one with it | `thread_safe.h:269`, `audio.cpp:233` | `FramesInOrder`, `CaptureNotStale`, `AssignedSinkKept` |
| a launch discarded between the control thread's view and pop holds the control loop up until the next launch | `rtsp.cpp:526` | `ControlGoesOn`, `ClientLearnsNewest` |

### Bounds, and why they are enough

* Pairing: lifetimes, windows and limits of one to three ticks, so that deadline,
  eviction and rate limit are all crossed and sit on different ticks. Two sources,
  two certificates and three envelopes (one invalid) give every match and
  mismatch; a request id is re-created after eviction; two ids are used where
  requests affect each other. Generations 0 and 2 are a stale and the current one.
* Handshake: one unique id, certificate, request and act of consent, two adapters
  (one freed, one new), with both servers, web page, OTP, retries and restart.
* Lifecycle: two sessions and one request thread; `stream_release` has one session
  and two request threads competing with the RTSP loop. The proofs cover more.
* Launch slot: two launches, two queued handlers, so that a handler of the first can meet the second.
* Host applications: two applications and one detached HDR job; two display
  devices, two modes, one restart; two uuids and two applications in the file, refreshed
  by two threads; two certificates and two devices, one unsaved state; two changes of
  the library in any overlap of its three writers; two openers and two ping threads; two
  streams and two changes by the user around a crash; two cookies, two passwords
  and one crash; two console sessions and three switches; two ports and a lease of
  three ticks with one router event; two workers, two tasks, delays on both
  sides of a sleep.
* Media: two sessions around one capture thread; four hardware kinds with three
  configurations for the probe; three to four frames for the capture back ends, so that a
  frame, its predecessor and one lost between them exist; two pool slots and
  three images, so that trimming happens; layouts of two and three displays
  around the virtual one in every contact; frame sizes at and around
  the limits of one shard, one block, four blocks and 255 (scaled to 12) shards;
  minima of parity that a block has, lacks and has no room for; sequence numbers of four
  bits and IVs of five; frame rates of 30, 2 and 1 for the encoder, the last of which makes the divisor
  of the buffer size zero.
* Clients: three input messages (a merge across a third), shorts scaled to
  `-8 .. 7`, a client with all permissions and one with a gamepad only, two sessions
  wherever state is shared, one slot for two touches and four events, six samples for
  frames of two from a device that holds three, one default device changed or lost.
* The group runs have about 170,000 (host), 235,000 (media) and 270,000 (clients) states.

Every bound is a named constant that appears in the guards of the actions it cuts
off. `CHECK_DEADLOCK FALSE` in the group runs: parts of them end (a service that
stopped, an encoder that was destroyed, loops told to shut down) and some stop at
their bound. Deadlock is checked in the others.

### Fairness, and what justifies it

* `PairingService`: time passes and the desktop polls `pending` (it does, every
  second). No client acts.
* `StreamLifecycle`: threads that can go on do; the RTSP loop is not starved of the
  slots' lock (strong fairness, because requests come and go); a capture told to
  shut down returns; the watchdog fires. Nothing is assumed of clients.
* Groups: weak fairness for each thread that has a step (capture, encoding, ping,
  UPnP, service and audio threads, task pool workers, and timers of the event
  loop), because no lock is held across what they wait for. The retry scheduler
  is assumed to succeed if its call could succeed again and again (strong
  fairness on the successful attempt, `RevertHappens`). Users, clients, routers
  and drivers have no fairness.

### Assumptions made where the code leaves the matter to others

* `NvPrefs`: the user does not change the profile between the load and the save of
  one driver session.
* `AttendedPairing`, `InputPads`: freed or foreign memory that is used holds anything; what
  follows from a write to `gamepads[-1]` is not looked at further (`ipWild`).
* `VideoCapture`: nothing is assumed about when, or whether, a teardown ends.
* `KmsCapture`: what a framebuffer shows is named by its id.
* `SocketSend`: waiting on a full socket (`EAGAIN` and `poll`) is stuttering.
* Reed-Solomon coding, AES-GCM and certificates are outcomes, not arithmetic.

## Proofs

All theorems hold for every value of the constants that satisfies the named
assumptions of the module. The assumptions say what the constants are (sets of
names that do not clash, numbers that are natural) and a few things about the
inputs: `EpAssumption`, the codec modes are 0 to 3, which `config.cpp:1111`
enforces; `SkAssumption`, a frame has at least one shard; `PkAssumption`, a packet has
at least four bytes; `PkBlockAssumption`, a full block has at least four packets of
data (it has 71 or more, as `fec_percentage` is at most 255); nothing is assumed of
the minimum a client asks for; `DlAssumption`, exactly one display of the desktop is at
the origin; `AcAssumption`, there are as many uuids as entries can ask for, and
the file the host starts with has no uuid twice; `IqAssumption`, there is one
pointer and one pen, and only touches, the pen, keys and buttons go down and up;
`PtAssumption`, displays have a size; `ServiceConfig`, the limits and periods of the pairing service are
positive where the code's defaults are. TLC evaluates them in the runs.

In each module the argument is the same: an invariant that is inductive, one
lemma that `Init` establishes it, one per action or group of actions that it is
kept, and the theorems from it. The properties themselves are rarely inductive;
what is added, and why, is said below.

**`PairingServiceProofs`.** The inductive invariant `IndInv` says that each record
is consistent by itself (`RecordInv`) and that no certificate has two live
requests. The properties alone are not inductive: readiness needs that a bound
session has an adapter, secrets need that the PIN is that of the remembered
envelope. One lemma for each record transformer shows that it `Moves` a record
along; `StepSummary` says that a step moves all records, opens one, or restarts.
Rate buckets have an invariant of their own (sorted, within the limit). From them
follow `OneLiveRequest`, `ServiceSafe` (all of `ServiceConsistent`), `Refinement`
(the service implements `PairingLedger`) and the step theorem `HistoryKept`.

**`AttendedPairingProofs`.** `PairInv` adds to the service's invariant what the
threads of the HTTP servers rely on: which phase a pairing session can be in and
which PIN it can know (`SessionsInv`), which record an adapter points to
(`AdapterInv`), what holds between authorizing and committing (`InflightInv`),
and an accounting of consent. `ConsentPerGrant` says only that grants do not
exceed consents; the invariant counts, for each PIN, the grants together with the
keys derived from it that can still be spent (`ConsentInv`). `ReviewInv` ties
the access of an allowed request to what was reviewed. Theorems:
`ConsentPrecedesGrant`, `PairingSafe`, `ReviewedAccessGranted`.

**`StreamLifecycleProofs`.** `Inv`: only the lock holder clears and works on slots,
a session without threads stays in the slots, sessions in the slots exist, those
with threads are in the slots and hold the context, and a referenced context is
up. The point of the argument is that a joined session cannot get new threads,
because `clear` throws on a session `start()` is still working on. `SessionsSafe`
follows; `TypeCorrect` adds `CountInv`, which relates the counter of running
sessions to the sessions that have been counted.

**`HostApplicationsProofs`.**

| Theorem | What its invariant adds |
|---|---|
| `ApplicationsUndone`, `SettingsGoWithApp` | `AppInv`: which changes can be outstanding at each point of `execute`, and that the undo list names them |
| `RegistryStaysConsistent`, `PairingAgainAndLeaving` | `DrInv`: entries shared by list and chain, uuids of sessions and pending launches |
| `DisplaySettingsRecoverable`, `RetriesDoWhatIsWanted` | `DdInv`: what the one retry job may be for, given what is persisted |
| `DriverSettingRecoverable` | `NpInv`: the undo file is written before the driver's setting |
| `SettingsPutBack` | the two above, for the group |
| `LibraryStaysWhole` | `LsInv`: what each writer has read and is to write, while it runs alone; how far a mutation has brought files and core together whatever was there before |
| `DisplayWatched` | `VdInv`: who pings or is about to, given status and watchdog, and rounding of the rate |
| `CatalogStaysUsable`, `ReorderingPermutes` | `AcInv`: the file, the copy a handler has in hand and the lists made from the file are well formed, what a refresh has read is what the file gives unless it was disturbed, names are all different (so a stable id is a name), and the page's list is as long as the file says while the page holds it |
| `OnlyAllowedChanges` | the step theorems of this table, for the group |
| `TasksInOrder` | `TpInv`: timers sorted, ids unique, who sleeps until when |
| `CredentialsKept`, `ServedAfterLogin` | `CsInv`: which files are cut at each point of a start or a save, and what memory holds then |
| `ServiceLeavesNoHost`, `PortsLeasedAndRemoved`, `NothingStays` | `UpInv`: the age of each lease against the time slept, and the ports the last round has still to delete |

**`MediaPipelineProofs`.**

| Theorem | What its invariant adds |
|---|---|
| `CaptureServes` | `VcInv`: who holds the capture context and in which list a session stands |
| `ProbeHolds` | `EpInv`: flags that are set were seen to work, at each step of the probe |
| `DuplicationSound`, `WgcBuffersKept`, `KmsSound` | `DcAll`, `WgInv`, `KmInv`: who holds a frame, buffer or framebuffer |
| `PoolKept`, `TexturesHeld`, `ImageDrawn` | `IgPoolInv`: the order of the pool against use; `IgAddressed`: an encoder's view of a texture is of its present address, and the only textures that can have shared it are the image's own and its dummy |
| `CapturedImages` | the four above, for the group |
| `LoopPaced`, `NvencSound`, `EncodersSound` | `ElPacing`, `ElBuffered`, `NeInv`: frames invalidated or replaced by a key frame are not referred to |
| `VirtualDisplayIsolated` | `DlInv`: while displays are connected one by one, if the displays were one piece, they are still the user's arrangement, shifted as a whole to above and left of the virtual one at the origin |
| `ShardsSent` | `SkInv`: the shards sent are a prefix of those of the frame, at each fallback |
| `PacketsSound` | `PkVideo`: every IV below the counter was used once; `PkAudio`: which packets the shards of a block under way hold; `PkAudioIv`: the audio IVs used until the sequence number comes round. The lemma `PkFrameCut` is about the arithmetic of splitting: at most four blocks, every packet in one, and no more than 255 shards unless the minimum has no room |
| `WholeFrames` | the two above, for the group |

**`ClientSessionsProofs`.**

| Theorem | What its invariant adds |
|---|---|
| `LaunchSlotSafe` | `SlotInv`: the waits leave room for their handlers |
| `RtspStaysSound` | `RsInv`: what a connection has read of the message, and the IVs used |
| `NegotiationStaysHonoured` | `SnInv`: probe results between offer and choice; the division of the bitrate |
| `ControlStaysSound` | `CcInv`: the queued feedback against what was raised and sent |
| `SinkReleased`, `SamplesWhole`, `AudioStaysSound` | `AsInv`: who made the virtual sink the default; `AuInv`: samples in buffer and queue are numbered without gaps but those the device lost |
| `InputArrivesInOrder` | `IqInv`: the books of the queue (every accepted message is queued, or one sent for the same device says it again), for which `ScanOK` tells what the scan has done after each message; `PtInv`: the quotient and rest of scrolling, and the border that keeps a display's shape |
| `HeldInputStaysWithClients` | `ImInv`, `IkInv`, `IpInv`, `WtInv`, `WpInv`: delayed tasks, masks of identifiers in use, slots, and the exact conditions of the exceptions below |

A theorem about a group (`MCSpec`) follows from those about its parts, because a
step of the group is a step of one part and leaves the variables of the others
alone.

Induction over numbers is done by a least counterexample (a nonempty set of
natural numbers has a least element), never by an induction theorem with an
operator as parameter. What a recursive function computes is within reach that
way: the function is first shown to exist (`Loops`, which lengthens it one argument at a
time), and its values are then reasoned about from 0 upwards (`UpTo`).
`AppCatalog` (names, reordering) and `InputQueue` (the scan of the queue) are
written with such functions, not with folds over operators, for that reason. The
sums of `PacketStream` run over at most four blocks and are unrolled.

What the proofs brought to light: an earlier form of `VirtualSinkReleased` is
false when the user changes the default device twice during a session, which
the instance of TLC did not reach (the property now says whose change is kept);
and the setup of a software encoder divides by zero at one frame per second,
which the model now has as a step of its own (`DivisionTraps`).

Only model-checked:

* liveness, since fairness is out of the prover's reach: `RequestsRunOut`,
  `StoppingSessionReleased`, `HostCatchesUp`, `InputReleased`, `ClientServed`,
  `CaptureProgress`, `KeyFrameFollows`.

What the violation runs refute (`AuthorizedOnlyWhenApproved`, `ListedSessionsExist`,
`MotionPreserved`) is not proved, being false. Every invariant and every action
property of the passing runs is stated by a theorem.

## Not modelled

* Parsing and formatting of requests, documents and logs; static pages; start-up
  glue, configuration file, tray: no state that outlives the call.
* Pixels, shaders, bitstreams, preset tables, key code tables.
* The X11, Wayland, VAAPI, CUDA, PulseAudio and macOS back ends: their loops follow
  those modelled for Windows and KMS; the rest is calls of frameworks.
* `Ligase.Core`: store import, authority documents, layout catalog, core instance
  manager, firewall planner; the desktop's coordinators (they appear as callers) and
  the installation tools.
* Data races on plain fields (for example `proc_t` from several threads, the timer
  object of the RTSP server): calls are atomic in the models.

Further places in the code that deserve attention and have no property:
`access_mode_for_pairing` may throw after the reply says paired (`nvhttp.cpp:721`); `pin()` keeps a
reference into a map whose element may be gone (`nvhttp.cpp:1079`); the launch
dropped while another is pending was answered 200 (`rtsp.cpp:494`); an RTSP
connection that never completes its message is never closed (`rtsp.cpp:363`);
queued packets carry raw session pointers (`stream.cpp:1358`); the event for
lost frames holds one range (`stream.cpp:975`); a failed audio encoding stops
the queue of all sessions (`audio.cpp:120`); task ids are addresses
(`task_pool.h:146`); a client may ask for one frame per second (`rtsp.cpp:1016`
has no lower bound), for which software encoding with a scaled buffer divides by
zero (`video.cpp:1773`); the reinit reads the front of a list of contexts that may be
empty (`video.cpp:1383`).

## Plan

1. Proofs: the parts' theorems under compositions of modules, once plan items 2
   and 3 compose them; step properties for the sequence of packets and of audio.
2. `AttendedPairing` with two devices and two requests.
3. `AppSession` composed with `StreamLifecycle` in place of its session callbacks.
4. The desktop: core instance manager, pairing coordinators, layout catalog.
