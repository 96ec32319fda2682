--------------------------- MODULE DeviceRegistry ---------------------------
(***************************************************************************)
(* Paired devices (nvhttp.cpp): the list in client_root, the certificates  *)
(* cert_chain lets in, the state file both are saved to and loaded from,   *)
(* and the permissions that launches and sessions carry with them.         *)
(***************************************************************************)
EXTENDS Naturals, Sequences, FiniteSetsExt

CONSTANTS DrCerts,       \* client certificates
          DrMaxDevices,  \* devices looked at
          DrMaxSessions, \* launches and sessions looked at together
          DrMaxUnsaved   \* changes looked at once the state file is unreadable

ASSUME DrAssumption == DrMaxDevices \in Nat \ {0}

VARIABLES
  drDevices,   \* client_root.named_devices
  drChain,     \* cert_chain: shares its entries with the list it was loaded with
  drFile,      \* the state file
  drPending,   \* launches that no RTSP connection has taken up yet
  drSessions,  \* the session slots of the RTSP server
  drApp,       \* an application is running
  drUnsaved    \* changes that could not be saved

drVars == <<drDevices, drChain, drFile, drPending, drSessions, drApp, drUnsaved>>

DrPerms == {"all", "default", "none"}
MayView(perm) == perm # "none"
MayLaunch(perm) == perm = "all"

UuidsIn(devices) == {devices[i].uuid : i \in DOMAIN devices}
UsedUuids == UuidsIn(drDevices) \cup UuidsIn(drChain) \cup UuidsIn(drFile.devices)
             \cup {s.uuid : s \in drPending \cup drSessions}
NewUuid == Min((1..(3 * DrMaxDevices + 2 * DrMaxSessions + 1)) \ UsedUuids)
Listed(uuid) == uuid \in UuidsIn(drDevices)

-----------------------------------------------------------------------------
(* save_state and load_state *)

\* The entries at these indices, in the order of the list: one list, as a set.
Increasing(S) == {f \in [1..Cardinality(S) -> S] : \A i, j \in DOMAIN f : i < j => f[i] < f[j]}
AtIndices(devices, kept) == {[k \in DOMAIN f |-> devices[f[k]]] : f \in Increasing(kept)}

LastPerCert(devices) ==
  AtIndices(devices, {i \in DOMAIN devices : \A j \in (i + 1)..Len(devices) : devices[j].cert # devices[i].cert})

\* Only the first device with a certificate is written.
FirstPerCert(devices) ==
  AtIndices(devices, {i \in DOMAIN devices : \A j \in 1..(i - 1) : devices[j].cert # devices[i].cert})

\* A file that cannot be read is left alone; a write that is cut short (the
\* process is killed, the disk is full) leaves one that cannot be read.
SaveState(devices, written) ==
  \/ drFile.state = "torn" /\ UNCHANGED drFile
  \/ drFile.state # "torn" /\ ~written /\ drFile' = [state |-> "torn", devices |-> << >>]
  \/ /\ drFile.state # "torn" /\ written
     /\ \E list \in FirstPerCert(devices) : drFile' = [state |-> "good", devices |-> list]

\* What load_state makes of a file; the old format knows certificates only.
LoadedList(file) ==
  IF file.state = "old"
  THEN [i \in DOMAIN file.devices |-> [file.devices[i] EXCEPT !.uuid = i, !.perm = "all"]]
  ELSE file.devices

\* Without a file, or with one it cannot read, load_state changes nothing.
LoadState(file, devices, chain) ==
  LET loads == file.state \in {"good", "old"} IN
  /\ drDevices' = IF loads THEN LoadedList(file) ELSE devices
  /\ drChain' = IF loads THEN LoadedList(file) ELSE chain

SaveAndLoad(devices, chain, written) ==
  /\ SaveState(devices, written)
  /\ LoadState(drFile', devices, chain)

-----------------------------------------------------------------------------
(* Pairing and the permissions it gives *)

\* clientpairingsecret: the mode chosen for an attended request, otherwise
\* everything for the first device and viewing for the others.
PairingPerm(how) ==
  CASE how = "operate" -> "all"
    [] how = "observe" -> "default"
    [] how = "pin" -> IF drDevices = << >> THEN "all" ELSE "default"

\* add_authorized_client: the certificate is let in by load_state only.
AddAuthorizedClient(cert, how, written) ==
  /\ Len(drDevices) < DrMaxDevices
  /\ SaveAndLoad(Append(drDevices, [uuid |-> NewUuid, cert |-> cert, perm |-> PairingPerm(how)]),
                 drChain, written)
  /\ UNCHANGED <<drPending, drSessions, drApp>>

\* stream::session::update_device_info on the session found for the device.
UpdateSessionKeepsStreaming(s, perm) == [s EXCEPT !.perm = perm]

UpdateSession(s, perm) == [s EXCEPT !.perm = perm, !.stopping = @ \/ ~MayView(perm)]

\* find_session: one session of the device, whichever comes first.
FindSession(uuid) == {s \in drSessions : s.uuid = uuid}

Replaced(found, s) == (drSessions \ found) \cup s

SetPerm(devices, uuid, perm) ==
  [i \in DOMAIN devices |->
     IF devices[i].uuid = uuid THEN [devices[i] EXCEPT !.perm = perm] ELSE devices[i]]

\* update_device_info, from the web UI or the local access route: the session
\* first, then the entry that list and chain share.
UpdateDeviceInfo(uuid, perm, written) ==
  /\ Listed(uuid)
  /\ IF FindSession(uuid) = {} THEN UNCHANGED drSessions
     ELSE \E s \in FindSession(uuid) : drSessions' = Replaced({s}, {UpdateSession(s, perm)})
  /\ drDevices' = SetPerm(drDevices, uuid, perm)
  /\ drChain' = SetPerm(drChain, uuid, perm)
  /\ SaveState(drDevices', written)
  /\ UNCHANGED <<drPending, drApp>>

Dropping(devices, uuid) == AtIndices(devices, {i \in DOMAIN devices : devices[i].uuid # uuid})

\* unpair_client: the session is stopped gracefully, and the application when
\* nobody is left to use it.
UnpairClient(uuid, written) ==
  /\ Listed(uuid)
  /\ \E rest \in Dropping(drDevices, uuid) : SaveAndLoad(rest, drChain, written)
  /\ IF FindSession(uuid) = {} THEN UNCHANGED drSessions
     ELSE \E s \in FindSession(uuid) : drSessions' = Replaced({s}, {[s EXCEPT !.stopping = TRUE]})
  /\ drApp' = (drApp /\ drDevices' # << >>)
  /\ UNCHANGED drPending

\* ligase_device_delete_local: a device that is streaming is refused unless
\* the route asks to end its session, which stops it before unpairing.
DeviceDelete(uuid, endSession, written) ==
  /\ FindSession(uuid) # {} => endSession
  /\ UnpairClient(uuid, written)

\* unpairAll: erase_all_clients, which empties the chain itself, and terminate.
UnpairAll(written) ==
  /\ SaveAndLoad(<< >>, << >>, written)
  /\ drApp' = FALSE
  /\ UNCHANGED <<drPending, drSessions>>

-----------------------------------------------------------------------------
(* What paired devices do *)

\* cert_chain_t::verify: the entry whose certificate it is.
Verified(cert) == {drChain[i] : i \in {j \in DOMAIN drChain : drChain[j].cert = cert}}

\* launch and resume: the permission is copied into the launch.
Launch(cert) ==
  \E d \in Verified(cert) :
    /\ Cardinality(drPending) + Cardinality(drSessions) < DrMaxSessions
    /\ IF drApp THEN MayView(d.perm) ELSE MayLaunch(d.perm)
    /\ drPending' = drPending \cup {[uuid |-> d.uuid, perm |-> d.perm]}
    /\ drApp' = TRUE
    /\ UNCHANGED <<drDevices, drChain, drFile, drSessions>>

\* session::alloc takes the permission from the launch.
SessionStarts(l) ==
  /\ drPending' = drPending \ {l}
  /\ drSessions' = drSessions \cup {[uuid |-> l.uuid, perm |-> l.perm, stopping |-> FALSE]}
  /\ UNCHANGED <<drDevices, drChain, drFile, drApp>>

LaunchDropped(l) ==
  /\ drPending' = drPending \ {l}
  /\ UNCHANGED <<drDevices, drChain, drFile, drSessions, drApp>>

SessionEnds(s) ==
  /\ drSessions' = drSessions \ {s}
  /\ UNCHANGED <<drDevices, drChain, drFile, drPending, drApp>>

\* nvhttp::start after the process ended.
Restart ==
  /\ LoadState(drFile, << >>, << >>)
  /\ drPending' = {} /\ drSessions' = {} /\ drApp' = FALSE
  /\ UNCHANGED drFile

DrChange(written) ==
  \/ \E cert \in DrCerts, how \in {"pin", "operate", "observe"} : AddAuthorizedClient(cert, how, written)
  \/ \E uuid \in UuidsIn(drDevices) :
       \/ \E perm \in DrPerms : UpdateDeviceInfo(uuid, perm, written)
       \/ UnpairClient(uuid, written)
       \/ \E endSession \in BOOLEAN : DeviceDelete(uuid, endSession, written)
  \/ UnpairAll(written)

DrNext ==
  \/ /\ \E written \in BOOLEAN : DrChange(written)
     /\ drUnsaved' = IF drFile'.state = "torn" THEN drUnsaved + 1 ELSE 0
     /\ drUnsaved' <= DrMaxUnsaved
  \/ /\ \/ \E cert \in DrCerts : Launch(cert)
        \/ \E l \in drPending : SessionStarts(l) \/ LaunchDropped(l)
        \/ \E s \in drSessions : SessionEnds(s)
        \/ Restart
     /\ UNCHANGED drUnsaved

DrFiles == {[state |-> "missing", devices |-> << >>]} \cup
           {[state |-> "old", devices |-> <<[uuid |-> 0, cert |-> c, perm |-> "all"]>>] : c \in DrCerts}

DrInit ==
  /\ drFile \in DrFiles
  /\ drDevices = LoadedList(drFile) /\ drChain = LoadedList(drFile)
  /\ drPending = {} /\ drSessions = {} /\ drApp = FALSE /\ drUnsaved = 0

DrSpec == DrInit /\ [][DrNext]_drVars

-----------------------------------------------------------------------------
(* Properties *)

DrTypeOK ==
  /\ drFile.state \in {"missing", "good", "old", "torn"}
  /\ \A i \in DOMAIN drDevices : drDevices[i].cert \in DrCerts /\ drDevices[i].perm \in DrPerms
  /\ Len(drDevices) <= DrMaxDevices /\ drApp \in BOOLEAN
  /\ \A s \in drSessions : s.perm \in DrPerms /\ s.stopping \in BOOLEAN

\* As long as the state file can be read, who is listed, who is let in and who
\* will be after a restart are the same devices with the same permissions.
RegistryAgrees ==
  drFile.state = "good" => drChain = drDevices /\ drFile.devices = drDevices

\* A certificate stands for one device, so that its permissions are those of
\* the entry the user sees (save_state writes each certificate once).
OneDevicePerCert ==
  \A i, j \in DOMAIN drChain : drChain[i].cert = drChain[j].cert => i = j

\* Pairing again gives a device no permission it did not have: only the user's
\* update does (the entry that is kept is the old one).
RepairingGrantsNothing ==
  \A i \in DOMAIN drDevices, j \in DOMAIN drDevices' :
    /\ drFile.state = "good" /\ drFile'.state = "good"
    /\ drDevices[i].cert = drDevices'[j].cert
    /\ drDevices[i].perm # drDevices'[j].perm
    => Len(drDevices) = Len(drDevices') /\ drDevices[i].uuid = drDevices'[j].uuid

\* A session that goes on streaming may be viewed by its device as far as it
\* has been told (update_device_info: "disconnect the device upon permission
\* update").
StreamsMayBeViewed == \A s \in drSessions : s.stopping \/ MayView(s.perm)

\* When the last device is removed no application is left running.
LastDeviceEndsApp ==
  drDevices # << >> /\ drDevices' = << >> => ~drApp'

\* The list of devices, the certificate chain, the state file and the running
\* sessions agree on who may do what.
RegistryConsistent ==
  /\ DrTypeOK
  /\ RegistryAgrees
  /\ OneDevicePerCert
  /\ StreamsMayBeViewed
=============================================================================
