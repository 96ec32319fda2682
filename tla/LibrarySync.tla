----------------------------- MODULE LibrarySync -----------------------------
(***************************************************************************)
(* The library and the streaming settings, kept in files that two          *)
(* processes write: the core on behalf of clients (nvhttp.cpp, ligase/     *)
(* library/http), under a mutex of its own, and the desktop (Ligase.Core,  *)
(* ApplicationLibrary, LibraryMutationCoordinator, StreamingSettings-      *)
(* Service), under semaphores of its own.  library.json and streaming.json *)
(* hold a revision each, ligase-sync.json is the copy of both that clients *)
(* read, apps.json what the core can launch once it has reloaded.  Files   *)
(* are replaced whole; a write may fail.  No lock is common to the two     *)
(* processes, nor to the two services of the desktop: all may overlap.     *)
(***************************************************************************)
EXTENDS Integers, Sequences, FiniteSets

CONSTANTS
  LsSystem,     \* the entry that is always there
  LsItems,      \* other entries
  LsFirst,      \* the library at first: [rev, items, hidden]
  LsMaxChanges  \* bound: changes begun

VARIABLES
  lsLibrary,   \* library.json: [rev, items, hidden]
  lsStreaming, \* streaming.json: [rev, by]
  lsSync,      \* ligase-sync.json: [lib, stream]
  lsApps,      \* apps.json, as a set of entries
  lsLoaded,    \* entries the core has loaded
  lsCorePc,    \* where the request under the core's mutex is
  lsRead,      \* what it has read: [lib, sync]
  lsNew,       \* what it is to write: [lib, sync]
  lsDeskPc,    \* where the mutation under the coordinator's gate is
  lsBefore,    \* the files before it: [lib, sync, apps]
  lsNext,      \* what it is to write: [lib, stream, what]
  lsStreamPc,  \* where the change under the streaming service's gate is
  lsSet,       \* what it is to write: [lib, stream]
  lsClient,    \* revisions a client holds: [lib, stream]
  lsBegun,     \* changes begun
  lsMixed,     \* two changes overlapped, and since then one was always running
  lsOff        \* changes overlapped or a write of several was left undone, and
               \* no mutation has run alone since

lsFiles == <<lsLibrary, lsStreaming, lsSync, lsApps>>
lsCore == <<lsCorePc, lsRead, lsNew>>
lsDesk == <<lsDeskPc, lsBefore, lsNext>>
lsStream == <<lsStreamPc, lsSet>>
lsCount == <<lsBegun, lsMixed, lsOff>>
lsVars == <<lsFiles, lsLoaded, lsCore, lsDesk, lsStream, lsClient, lsCount>>

Members(s) == {s[i] : i \in DOMAIN s}
Published(l) == Members(l.items) \ l.hidden
Arrangements(S) == {s \in [1 .. Cardinality(S) -> S] : Members(s) = S}

FirstStreaming == [rev |-> 1, by |-> "desktop"]
\* The copy of a library and of streaming settings.
LsCopy(l, s) == [lib |-> l, stream |-> s]
FirstSync == LsCopy(LsFirst, FirstStreaming)
NextRevision(l) == [l EXCEPT !.rev = @ + 1]
NextStreaming(s, who) == [rev |-> s.rev + 1, by |-> who]

CoreIdle == lsCorePc = "idle"
DeskIdle == lsDeskPc = "idle"
StreamIdle == lsStreamPc = "idle"

\* A change begins, and ends with all of it done or undone or not.
Begins(alone) ==
  /\ lsBegun < LsMaxChanges /\ lsBegun' = lsBegun + 1
  /\ lsMixed' = (lsMixed \/ ~alone) /\ lsOff' = (lsOff \/ lsMixed')
Ends(alone, whole) == lsMixed' = (lsMixed /\ ~alone) /\ lsOff' = (lsOff \/ ~whole) /\ UNCHANGED lsBegun

CoreBegins == Begins(DeskIdle /\ StreamIdle)
CoreEnds(whole) ==
  /\ lsCorePc' = "idle" /\ Ends(DeskIdle /\ StreamIdle, whole)
  /\ lsRead' = FirstSync /\ lsNew' = FirstSync
CoreGoes(pc) == lsCorePc' = pc /\ UNCHANGED <<lsRead, lsNew, lsCount>>

DeskBegins == Begins(CoreIdle /\ StreamIdle)
DeskClears ==
  /\ lsDeskPc' = "idle" /\ lsBefore' = [lib |-> LsFirst, sync |-> FirstSync, apps |-> {}]
  /\ lsNext' = [lib |-> LsFirst, stream |-> FirstStreaming, what |-> LsSystem]
DeskEnds(whole) == DeskClears /\ Ends(CoreIdle /\ StreamIdle, whole)
DeskGoes(pc) == lsDeskPc' = pc /\ UNCHANGED <<lsBefore, lsNext, lsCount>>

StreamEnds(whole) == lsStreamPc' = "idle" /\ lsSet' = FirstSync /\ Ends(CoreIdle /\ DeskIdle, whole)
StreamGoes(pc) == lsStreamPc' = pc /\ UNCHANGED <<lsSet, lsCount>>

-----------------------------------------------------------------------------
\* ligase_sync: a client fetches the snapshot.
FetchSync ==
  /\ CoreIdle /\ lsClient' = [lib |-> lsSync.lib.rev, stream |-> lsSync.stream.rev]
  /\ UNCHANGED <<lsFiles, lsLoaded, lsCore, lsDesk, lsStream, lsCount>>

CoreOnly == UNCHANGED <<lsLoaded, lsDesk, lsStream, lsClient>>

\* reorder(): the entries in the order of full_order; it throws when there is
\* an entry that full_order does not name.
Reorderings(items, full) ==
  {t \in Arrangements(Members(items)) :
     /\ Members(items) \subseteq Members(full)
     /\ \A i, j \in DOMAIN t : i < j => \E a, b \in DOMAIN full : a < b /\ full[a] = t[i] /\ full[b] = t[j]}

OrderAccepted(l, full) == [l EXCEPT !.items = CHOOSE t \in Reorderings(@, full) : TRUE]

\* The order asked for, then what the snapshot hides, as it was.
FullOrder(order) == order \o SelectSeq(lsSync.lib.items, LAMBDA i : i \in lsSync.lib.hidden)

\* handle_sort reads the library and, if the revision is the client's, the
\* snapshot.
BeginSort ==
  /\ CoreIdle /\ lsClient.lib = lsLibrary.rev
  /\ lsCorePc' = "sort" /\ lsRead' = [lib |-> lsLibrary, sync |-> FirstSync] /\ UNCHANGED lsNew
  /\ CoreBegins /\ CoreOnly /\ UNCHANGED lsFiles

\* It accepts exactly what the snapshot publishes, and no entry in either
\* file that the order does not name.
Sort(order) ==
  /\ lsCorePc = "sort"
  /\ \A items \in {lsRead.lib.items, lsSync.lib.items} : Reorderings(items, FullOrder(order)) # {}
  /\ lsCorePc' = "lib" /\ lsRead' = [lib |-> lsRead.lib, sync |-> lsSync]
  /\ lsNew' = [lib |-> [OrderAccepted(lsRead.lib, FullOrder(order)) EXCEPT !.rev = lsRead.lib.rev + 1],
               sync |-> LsCopy([OrderAccepted(lsSync.lib, FullOrder(order)) EXCEPT !.rev = lsRead.lib.rev + 1],
                               lsSync.stream)]
  /\ CoreOnly /\ UNCHANGED <<lsFiles, lsCount>>

SaveLibrary ==
  /\ lsCorePc = "lib"
  /\ \/ lsLibrary' = lsNew.lib /\ CoreGoes("sync")
     \/ UNCHANGED lsLibrary /\ CoreGoes("undoLib")
  /\ CoreOnly /\ UNCHANGED <<lsStreaming, lsSync, lsApps>>

SaveSync ==
  /\ lsCorePc = "sync"
  /\ \/ lsSync' = lsNew.sync /\ CoreEnds(TRUE)
     \/ UNCHANGED lsSync /\ CoreGoes("undoLib")
  /\ CoreOnly /\ UNCHANGED <<lsLibrary, lsStreaming, lsApps>>

\* The rollback writes what was read; it may fail too, and stops there.
UndoLibrary ==
  /\ lsCorePc = "undoLib"
  /\ \/ lsLibrary' = lsRead.lib /\ CoreGoes("undoSync")
     \/ UNCHANGED lsLibrary /\ CoreEnds(FALSE)
  /\ CoreOnly /\ UNCHANGED <<lsStreaming, lsSync, lsApps>>

UndoSync ==
  /\ lsCorePc = "undoSync"
  /\ \/ lsSync' = lsRead.sync /\ CoreEnds(TRUE)
     \/ UNCHANGED lsSync /\ CoreEnds(FALSE)
  /\ CoreOnly /\ UNCHANGED <<lsLibrary, lsStreaming, lsApps>>

\* ligase_update_streaming: it reads the copy and the file.
BeginUpdate ==
  /\ CoreIdle /\ lsCorePc' = "update" /\ lsRead' = [lib |-> LsFirst, sync |-> lsSync] /\ UNCHANGED lsNew
  /\ CoreBegins /\ CoreOnly /\ UNCHANGED lsFiles

UpdateStreaming ==
  /\ lsCorePc = "update" /\ lsClient.stream = lsStreaming.rev
  /\ lsCorePc' = "stream" /\ UNCHANGED lsRead
  /\ lsNew' = [lib |-> LsFirst, sync |-> LsCopy(lsRead.sync.lib, NextStreaming(lsStreaming, "client"))]
  /\ CoreOnly /\ UNCHANGED <<lsFiles, lsCount>>

\* What either request is refused for once it has the mutex.
RefuseRequest ==
  /\ lsCorePc \in {"sort", "update"} /\ CoreEnds(TRUE) /\ CoreOnly /\ UNCHANGED lsFiles

\* The file, then the copy; a failure of the second write leaves the first.
SaveStreaming ==
  /\ lsCorePc = "stream"
  /\ \/ lsStreaming' = lsNew.sync.stream /\ CoreGoes("streamSync")
     \/ UNCHANGED lsStreaming /\ CoreEnds(TRUE)
  /\ CoreOnly /\ UNCHANGED <<lsLibrary, lsSync, lsApps>>

SaveStreamingSync ==
  /\ lsCorePc = "streamSync"
  /\ \/ lsSync' = lsNew.sync /\ CoreEnds(TRUE)
     \/ UNCHANGED lsSync /\ CoreEnds(FALSE)
  /\ CoreOnly /\ UNCHANGED <<lsLibrary, lsStreaming, lsApps>>

-----------------------------------------------------------------------------
DeskOnly == UNCHANGED <<lsCore, lsStream, lsClient>>

\* ApplyCanonicalOrder: what is published comes first.
Canonical(l) ==
  [l EXCEPT !.items = SelectSeq(l.items, LAMBDA i : i \notin l.hidden) \o SelectSeq(l.items, LAMBDA i : i \in l.hidden)]

\* AddSteamAsync, AddExecutableAsync, RemoveAsync, SetPublishedToClientsAsync
\* on one entry, SetManualOrderAsync on none (the system's stands for that).
Changes(l) ==
  {[what |-> i, lib |-> [l EXCEPT !.items = Append(@, i)]] : i \in LsItems \ Members(l.items)}
  \cup {[what |-> i, lib |-> [l EXCEPT !.items = SelectSeq(@, LAMBDA j : j # i), !.hidden = @ \ {i}]] :
         i \in LsItems \cap Members(l.items)}
  \cup {[what |-> i, lib |-> [l EXCEPT !.hidden = IF i \in @ THEN @ \ {i} ELSE @ \cup {i}]] :
         i \in LsItems \cap Members(l.items)}
  \cup {[what |-> LsSystem, lib |-> [l EXCEPT !.items = order \o SelectSeq(@, LAMBDA i : i \in l.hidden)]] :
         order \in Arrangements(Published(l))}

\* MutateAsync of the coordinator: SnapshotFiles reads three files in turn.
BeginMutation ==
  /\ DeskIdle /\ lsDeskPc' = "snapSync"
  /\ lsBefore' = [lib |-> lsLibrary, sync |-> FirstSync, apps |-> {}] /\ UNCHANGED lsNext
  /\ DeskBegins /\ DeskOnly /\ UNCHANGED <<lsFiles, lsLoaded>>

SnapshotSync ==
  /\ lsDeskPc = "snapSync" /\ lsDeskPc' = "snapApps"
  /\ lsBefore' = [lib |-> lsBefore.lib, sync |-> lsSync, apps |-> {}]
  /\ DeskOnly /\ UNCHANGED <<lsFiles, lsLoaded, lsNext, lsCount>>

SnapshotApps ==
  /\ lsDeskPc = "snapApps" /\ lsDeskPc' = "read"
  /\ lsBefore' = [lib |-> lsBefore.lib, sync |-> lsBefore.sync, apps |-> lsApps]
  /\ DeskOnly /\ UNCHANGED <<lsFiles, lsLoaded, lsNext, lsCount>>

\* Anything that is thrown from here on leads to the rollback.
Throws == DeskGoes("restoreLib") /\ UNCHANGED <<lsFiles, lsLoaded>>

\* MutateAsync of the library reads the file again.
ReadLibraryFile ==
  /\ lsDeskPc = "read"
  /\ \/ /\ lsDeskPc' = "lib"
        /\ \E c \in Changes(lsLibrary) :
             lsNext' = [lib |-> NextRevision(Canonical(c.lib)), stream |-> FirstStreaming, what |-> c.what]
        /\ UNCHANGED <<lsFiles, lsLoaded, lsBefore, lsCount>>
     \/ Throws
  /\ DeskOnly

WriteLibraryFile ==
  /\ lsDeskPc = "lib"
  /\ \/ lsLibrary' = lsNext.lib /\ DeskGoes("apps") /\ UNCHANGED <<lsStreaming, lsSync, lsApps, lsLoaded>>
     \/ Throws
  /\ DeskOnly

WriteAppsFile ==
  /\ lsDeskPc = "apps"
  /\ \/ lsApps' = Members(lsNext.lib.items) /\ DeskGoes("stream") /\ UNCHANGED <<lsLibrary, lsStreaming, lsSync, lsLoaded>>
     \/ Throws
  /\ DeskOnly

\* The copy takes the streaming settings from their file, which LoadAsync
\* reads under the gate of the streaming service.
ReadStreamingFile ==
  /\ lsDeskPc = "stream" /\ StreamIdle
  /\ \/ /\ lsNext' = [lib |-> lsNext.lib, stream |-> lsStreaming, what |-> lsNext.what]
        /\ lsDeskPc' = "sync" /\ UNCHANGED <<lsFiles, lsLoaded, lsBefore, lsCount>>
     \/ Throws
  /\ DeskOnly

WriteSyncFile ==
  /\ lsDeskPc = "sync"
  /\ \/ lsSync' = LsCopy(lsNext.lib, lsNext.stream) /\ DeskGoes("reload") /\ UNCHANGED <<lsLibrary, lsStreaming, lsApps, lsLoaded>>
     \/ Throws
  /\ DeskOnly

\* ligase_authority_reload_local reads apps.json; it refuses while an
\* application runs, and its answer may come too late.
Reload ==
  /\ lsDeskPc = "reload"
  /\ \/ lsLoaded' = lsApps /\ (DeskGoes("verify") \/ DeskGoes("restoreLib")) /\ UNCHANGED lsFiles
     \/ Throws
  /\ DeskOnly

\* build_ligase_authority_readback: entries of the snapshot, applications of
\* the core.
Readback == [lib |-> lsSync.lib, apps |-> lsLoaded]

\* What the caller of the coordinator compares: the one entry changed, or the
\* order and the revision.
Shows(readback, next) ==
  IF next.what = LsSystem
  THEN readback.lib.items = next.lib.items /\ readback.lib.rev = next.lib.rev
  ELSE /\ next.what \in Members(readback.lib.items) <=> next.what \in Members(next.lib.items)
       /\ next.what \in readback.lib.hidden <=> next.what \in next.lib.hidden
       /\ next.what \in next.lib.hidden \/ (next.what \in readback.apps <=> next.what \in Members(next.lib.items))

\* A mutation that ran alone is in all the files and in the core, whatever
\* they held before.
Verify ==
  /\ lsDeskPc = "verify"
  /\ IF Shows(Readback, lsNext)
     THEN DeskClears /\ lsMixed' = (lsMixed /\ ~(CoreIdle /\ StreamIdle)) /\ lsOff' = lsMixed /\ UNCHANGED lsBegun
     ELSE DeskGoes("restoreLib")
  /\ DeskOnly /\ UNCHANGED <<lsFiles, lsLoaded>>

\* RestoreFiles writes the three files in turn; what it throws skips the rest,
\* and the second reload.
RestoreLibrary ==
  /\ lsDeskPc = "restoreLib"
  /\ \/ lsLibrary' = lsBefore.lib /\ DeskGoes("restoreSync")
     \/ UNCHANGED lsLibrary /\ DeskEnds(FALSE)
  /\ DeskOnly /\ UNCHANGED <<lsStreaming, lsSync, lsApps, lsLoaded>>

RestoreSync ==
  /\ lsDeskPc = "restoreSync"
  /\ \/ lsSync' = lsBefore.sync /\ DeskGoes("restoreApps")
     \/ UNCHANGED lsSync /\ DeskEnds(FALSE)
  /\ DeskOnly /\ UNCHANGED <<lsLibrary, lsStreaming, lsApps, lsLoaded>>

RestoreApps ==
  /\ lsDeskPc = "restoreApps"
  /\ \/ lsApps' = lsBefore.apps /\ DeskGoes("again")
     \/ UNCHANGED lsApps /\ DeskEnds(FALSE)
  /\ DeskOnly /\ UNCHANGED <<lsLibrary, lsStreaming, lsSync, lsLoaded>>

NoSecondReload == lsDeskPc = "again" /\ DeskEnds(TRUE) /\ DeskOnly /\ UNCHANGED <<lsFiles, lsLoaded>>

\* The core is asked to load the old files again; without an answer the user
\* is told that the core did not return to its state.
ReloadRestored ==
  /\ lsDeskPc = "again"
  /\ \/ lsLoaded' = lsApps /\ DeskEnds(TRUE)
     \/ UNCHANGED lsLoaded /\ DeskEnds(lsLoaded = lsApps)
  /\ DeskOnly /\ UNCHANGED lsFiles

-----------------------------------------------------------------------------
StreamOnly == UNCHANGED <<lsApps, lsLoaded, lsCore, lsDesk, lsClient>>

\* StreamingSettingsService, under a semaphore of its own: it reads the file
\* and writes it, then reads the library file and writes the copy.
SetResolution ==
  /\ StreamIdle /\ lsStreamPc' = "file"
  /\ lsSet' = LsCopy(LsFirst, NextStreaming(lsStreaming, "desktop")) /\ Begins(CoreIdle /\ DeskIdle)
  /\ StreamOnly /\ UNCHANGED <<lsLibrary, lsStreaming, lsSync>>

WriteStreamingFile ==
  /\ lsStreamPc = "file"
  /\ \/ lsStreaming' = lsSet.stream /\ StreamGoes("read")
     \/ UNCHANGED lsStreaming /\ StreamEnds(TRUE)
  /\ StreamOnly /\ UNCHANGED <<lsLibrary, lsSync>>

ReadLibraryForSync ==
  /\ lsStreamPc = "read"
  /\ \/ lsSet' = LsCopy(lsLibrary, lsSet.stream) /\ lsStreamPc' = "sync" /\ UNCHANGED <<lsCount>>
     \/ StreamEnds(FALSE)
  /\ StreamOnly /\ UNCHANGED <<lsLibrary, lsStreaming, lsSync>>

WriteStreamingSync ==
  /\ lsStreamPc = "sync"
  /\ \/ lsSync' = lsSet /\ StreamEnds(TRUE)
     \/ UNCHANGED lsSync /\ StreamEnds(FALSE)
  /\ StreamOnly /\ UNCHANGED <<lsLibrary, lsStreaming>>

LsInit ==
  /\ lsLibrary = LsFirst /\ lsStreaming = FirstStreaming /\ lsSync = FirstSync
  /\ lsApps = Members(LsFirst.items) /\ lsLoaded = lsApps
  /\ lsClient = [lib |-> LsFirst.rev, stream |-> 1] /\ lsBegun = 0 /\ lsMixed = FALSE /\ lsOff = FALSE
  /\ lsCorePc = "idle" /\ lsRead = FirstSync /\ lsNew = FirstSync
  /\ lsDeskPc = "idle" /\ lsBefore = [lib |-> LsFirst, sync |-> FirstSync, apps |-> {}]
  /\ lsNext = [lib |-> LsFirst, stream |-> FirstStreaming, what |-> LsSystem]
  /\ lsStreamPc = "idle" /\ lsSet = FirstSync

CoreNext ==
  \/ FetchSync \/ BeginSort \/ (\E order \in Arrangements(Published(lsSync.lib)) : Sort(order))
  \/ SaveLibrary \/ SaveSync \/ UndoLibrary \/ UndoSync
  \/ BeginUpdate \/ UpdateStreaming \/ RefuseRequest \/ SaveStreaming \/ SaveStreamingSync
DeskNext ==
  \/ BeginMutation \/ SnapshotSync \/ SnapshotApps \/ ReadLibraryFile \/ WriteLibraryFile \/ WriteAppsFile
  \/ ReadStreamingFile \/ WriteSyncFile \/ Reload \/ Verify
  \/ RestoreLibrary \/ RestoreSync \/ RestoreApps \/ ReloadRestored
StreamNext == SetResolution \/ WriteStreamingFile \/ ReadLibraryForSync \/ WriteStreamingSync

LsNext == CoreNext \/ DeskNext \/ StreamNext

LsSpec == LsInit /\ [][LsNext]_lsVars

-----------------------------------------------------------------------------
\* The core, the desktop application and the files agree about the library
\* and the streaming settings whenever no change is under way: after changes
\* that ran alone, after failed ones that were taken back, a running
\* application having kept the core from loading or not; and, when changes
\* overlapped or a rollback failed, from the next mutation on that runs alone.
LibraryAgrees ==
  CoreIdle /\ DeskIdle /\ StreamIdle /\ ~lsOff =>
    /\ lsSync = LsCopy(lsLibrary, lsStreaming)
    /\ lsLoaded = Members(lsLibrary.items) /\ lsApps = lsLoaded
=============================================================================
