----------------------------- MODULE AppCatalog -----------------------------
(***************************************************************************)
(* apps.json and the list of applications made from it: parse, migrate and *)
(* refresh of process.cpp, saveApp, reorderApps and deleteApp of           *)
(* confighttp.cpp.  A refresh may run on the web page's thread and, through *)
(* terminate(), on a stream's thread: it reads the file, writes it back    *)
(* migrated where that is needed, reads it again where entries were wrong, *)
(* and replaces the list at the end, with the other thread's steps between. *)
(* No write is guarded against the other's: a file is cut to nothing and   *)
(* then written.                                                           *)
(*                                                                         *)
(* An entry of the file is good, legacy (a format migration repairs) or    *)
(* bad (wrong types that no migration repairs).  A name is the sequence of *)
(* its characters as far as identifiers tell names apart.                  *)
(***************************************************************************)
EXTENDS Naturals, Sequences, FiniteSets

CONSTANTS AcFiles,    \* the files the host may start with
          AcUuids,    \* uuids, as numbers; AcNoUuid stands for none
          AcNames,    \* names of applications the user saves
          AcMaxApps   \* entries of the file

AcNoUuid == 0
AcUnreadable == 0  \* the version of a file that is not JSON
\* The names of the entries: what the user saves, what the file has at the
\* start, and the host's own.
AcFileNames == UNION {{file.apps[k].name : k \in DOMAIN file.apps} : file \in AcFiles}
AcOwnNames == {<<"DesktopFallback">>, <<"VirtualDisplay">>, <<"RemoteInput">>, <<"Terminate">>}
AcAllNames == AcNames \cup AcFileNames \cup AcOwnNames
AcEntry == [uuid : AcUuids \cup {AcNoUuid}, name : AcAllNames, kind : {"good", "legacy", "bad"}]
AcUuidsUnique(apps) ==
  \A i, j \in DOMAIN apps : i # j => apps[i].uuid = AcNoUuid \/ apps[i].uuid # apps[j].uuid

\* There are as many uuids as entries can ask for, and the file the host
\* starts with has no uuid twice.
ASSUME AcAssumption ==
  /\ AcUuids \subseteq Nat \ {0} /\ AcMaxApps \in Nat
  /\ IsFiniteSet(AcUuids) /\ AcMaxApps <= Cardinality(AcUuids)
  /\ \A file \in AcFiles :
       /\ file \in [version : {AcUnreadable, 1, 2}, apps : Seq(AcEntry)]
       /\ Len(file.apps) <= AcMaxApps /\ AcUuidsUnique(file.apps)

AcThreads == {"web", "stream"}
\* A file cut to nothing, or left with the rest of a longer one behind it.
AcTorn == [version |-> AcUnreadable, apps |-> << >>]
\* Where a refresh is: how often entries were wrong, the tree it has in memory
\* and the list it has made.
AcAt(kind, fails, tree, apps) == [kind |-> kind, fails |-> fails, tree |-> tree, apps |-> apps]
AcNothing == AcAt("nothing", 0, AcTorn, << >>)

VARIABLES
  acFile,    \* [version, apps] or unreadable
  acApps,    \* proc's list: uuid, name and id of each application
  acRead,    \* where each thread's refresh is
  acReader,  \* what reads the file in parts: the state of the web page's handler
  acAlone,   \* history: no other thread has written since the refresh began
  acCurrent  \* history: the list in place was made by a refresh that was alone

acVars == <<acFile, acApps, acRead, acReader, acAlone, acCurrent>>

-----------------------------------------------------------------------------
(* Identifiers and parsing *)

\* calculate_app_id: the name alone, or the name with the index written after
\* it (CRC32 is taken to be free of collisions).
CalculateAppId(name, index) == <<name, name \o <<index>>>>

ChosenId(name, index, ids) ==
  IF CalculateAppId(name, index)[1] \in ids THEN CalculateAppId(name, index)[2]
  ELSE CalculateAppId(name, index)[1]

\* The ids of entries 1 to n, each chosen against those before it.
AcIds(apps) ==
  LET ids[n \in 0..Len(apps)] ==
        IF n = 0 THEN << >>
        ELSE Append(ids[n - 1],
                    ChosenId(apps[n].name, n - 1, {ids[n - 1][k] : k \in 1..(n - 1)}))
  IN  ids[Len(apps)]

AcLoaded(apps) ==
  [k \in 1..Len(apps) |-> [uuid |-> apps[k].uuid, name |-> apps[k].name, id |-> AcIds(apps)[k]]]

AcFresh(apps) == AcUuids \ {apps[k].uuid : k \in DOMAIN apps}

\* migrate_apps without an input and migration_v2: every entry gets a uuid and
\* the current format; nothing repairs a bad one.
MigrationV2(apps) ==
  LET missing == {k \in DOMAIN apps : apps[k].uuid = AcNoUuid}
      given == CHOOSE f \in [missing -> AcFresh(apps)] : \A i, j \in missing : i # j => f[i] # f[j]
  IN  [k \in DOMAIN apps |->
         [apps[k] EXCEPT !.uuid = IF k \in missing THEN given[k] ELSE @,
                         !.kind = IF @ = "legacy" THEN "good" ELSE @]]

Migrate(file) == IF file.version < 2 THEN [version |-> 2, apps |-> MigrationV2(file.apps)] ELSE file

Loads(app) == app.kind = "good" /\ app.uuid # AcNoUuid
LoadsAll(apps) == \A k \in DOMAIN apps : Loads(apps[k])

\* Entries read before the first that throws.
LoadedPrefix(apps) ==
  SubSeq(apps, 1, CHOOSE n \in 0..Len(apps) :
                    /\ \A k \in 1..n : Loads(apps[k])
                    /\ n < Len(apps) => ~Loads(apps[n + 1]))

Fallback == [uuid |-> AcNoUuid, name |-> <<"DesktopFallback">>, kind |-> "good"]

\* The entries every list ends with: the virtual display, and the two of the
\* input only mode.
Pseudo == <<[uuid |-> AcNoUuid, name |-> <<"VirtualDisplay">>, kind |-> "good"],
            [uuid |-> AcNoUuid, name |-> <<"RemoteInput">>, kind |-> "good"],
            [uuid |-> AcNoUuid, name |-> <<"Terminate">>, kind |-> "good"]>>

\* One attempt at the entries of a tree: the list, or, where one of them throws,
\* another migration from scratch; the third failure leaves what came before it
\* and the fallback.
Attempt(tree, fails) ==
  IF LoadsAll(tree.apps) THEN AcAt("list", 0, AcTorn, AcLoaded(tree.apps \o Pseudo))
  ELSE IF fails = 2
       THEN AcAt("list", 0, AcTorn, AcLoaded(Append(LoadedPrefix(tree.apps), Fallback) \o Pseudo))
       ELSE AcAt("remigrating", fails + 1, [version |-> 2, apps |-> MigrationV2(tree.apps)], << >>)

\* What becomes of a refresh that has read the file: one that is not JSON ends it.
Parse(file, fails) ==
  IF file.version = AcUnreadable
  THEN AcAt("list", 0, AcTorn, AcLoaded((IF fails = 0 THEN << >> ELSE <<Fallback>>) \o Pseudo))
  ELSE IF file.version < 2 THEN AcAt("migrating", fails, Migrate(file), << >>)
       ELSE Attempt(file, fails)

-----------------------------------------------------------------------------
(* Changing the file *)

\* migrate_apps with an input: it replaces the first entry with its uuid, else
\* it is appended.
MergeAlwaysAppends(apps, input) == Append(apps, input)

Merge(apps, input) ==
  LET same == {k \in DOMAIN apps : apps[k].uuid = input.uuid}
  IN  IF same = {} THEN Append(apps, input)
      ELSE [apps EXCEPT ![CHOOSE k \in same : \A j \in same : k <= j] = input]

\* Entries without a uuid get one on the way.
MigrateApps(apps, input) ==
  LET missing == {k \in DOMAIN apps : apps[k].uuid = AcNoUuid}
      used == AcFresh(apps) \ {input.uuid}
      given == CHOOSE f \in [missing -> used] : \A i, j \in missing : i # j => f[i] # f[j]
  IN  Merge([k \in DOMAIN apps |-> IF k \in missing THEN [apps[k] EXCEPT !.uuid = given[k]] ELSE apps[k]],
            input)

\* reorderApps: for each uuid of the request the first entry with it that has
\* not been moved; what nobody asked for keeps its order behind them.
MovedBy(apps, order) ==
  LET moved[n \in 0..Len(order)] ==
        IF n = 0 THEN << >>
        ELSE LET taken == {moved[n - 1][k] : k \in DOMAIN moved[n - 1]}
                 match == {i \in DOMAIN apps : i \notin taken /\ apps[i].uuid = order[n]}
             IN  IF match = {} THEN moved[n - 1]
                 ELSE Append(moved[n - 1], CHOOSE i \in match : \A j \in match : i <= j)
  IN  moved[Len(order)]

\* The positions of some entries, in the order of the list.
Kept(apps, entries) ==
  LET kept[n \in 0..Len(apps)] ==
        IF n = 0 THEN << >> ELSE IF n \in entries THEN Append(kept[n - 1], n) ELSE kept[n - 1]
  IN  kept[Len(apps)]

AppsAt(apps, positions) == [k \in DOMAIN positions |-> apps[positions[k]]]

Reordered(apps, order) ==
  LET moved == MovedBy(apps, order)
  IN  AppsAt(apps, moved \o Kept(apps, DOMAIN apps \ {moved[k] : k \in DOMAIN moved}))

\* deleteApp removes every entry with the uuid.
Without(apps, uuid) == AppsAt(apps, Kept(apps, {k \in DOMAIN apps : apps[k].uuid # uuid}))

-----------------------------------------------------------------------------
(* Steps *)

AcInit ==
  /\ acFile \in AcFiles
  /\ acApps = << >> /\ acRead = [t \in AcThreads |-> AcNothing]
  /\ acReader = [op |-> "idle"]
  /\ acAlone = [t \in AcThreads |-> FALSE] /\ acCurrent = FALSE

\* Only the thread that writes is still alone.
Disturbs(t) == acAlone' = [u \in AcThreads |-> u = t /\ acAlone[t]]

\* What a write leaves: two threads that have both cut the file write one over
\* the other, and the longer text shows behind the shorter one.
Overwritten(tree) == IF acFile = AcTorn THEN {tree} ELSE {tree, AcTorn}

\* refresh(): read the file, the first time or again after a migration ...
RefreshReads(t) ==
  /\ acRead[t].kind \in {"nothing", "again"}
  /\ t = "web" /\ acRead[t].kind = "nothing" => acReader.op = "written"
  /\ acRead' = [acRead EXCEPT ![t] = Parse(acFile, acRead[t].fails)]
  /\ acAlone' = [acAlone EXCEPT ![t] = acRead[t].kind = "nothing" \/ acAlone[t]]
  /\ acReader' = IF t = "web" THEN [op |-> "idle"] ELSE acReader
  /\ UNCHANGED <<acFile, acApps, acCurrent>>

\* ... cut it to nothing to write what was migrated ...
RefreshCuts(t) ==
  /\ \/ /\ acRead[t].kind = "migrating"
        /\ acRead' = [acRead EXCEPT ![t] = AcAt("migrated", acRead[t].fails, acRead[t].tree, << >>)]
     \/ /\ acRead[t].kind = "remigrating"
        /\ acRead' = [acRead EXCEPT ![t] = AcAt("remigrated", acRead[t].fails, acRead[t].tree, << >>)]
  /\ acFile' = AcTorn
  /\ Disturbs(t)
  /\ UNCHANGED <<acApps, acReader, acCurrent>>

\* ... write it, and go on with the tree or, after a failure, with the file ...
RefreshWrites(t) ==
  /\ \/ /\ acRead[t].kind = "migrated"
        /\ acRead' = [acRead EXCEPT ![t] = Attempt(acRead[t].tree, acRead[t].fails)]
     \/ /\ acRead[t].kind = "remigrated"
        /\ acRead' = [acRead EXCEPT ![t] = AcAt("again", acRead[t].fails, AcTorn, << >>)]
  /\ acFile' \in Overwritten(acRead[t].tree)
  /\ Disturbs(t)
  /\ UNCHANGED <<acApps, acReader, acCurrent>>

\* ... and replace the list.
RefreshReplaces(t) ==
  /\ acRead[t].kind = "list"
  /\ acApps' = acRead[t].apps
  /\ acRead' = [acRead EXCEPT ![t] = AcNothing]
  /\ acCurrent' = acAlone[t]
  /\ acAlone' = [acAlone EXCEPT ![t] = FALSE]
  /\ UNCHANGED <<acFile, acReader>>

\* The web page's handlers: read the file, change what was read, write it.
WebReads ==
  /\ acReader.op = "idle" /\ acRead["web"].kind = "nothing"
  /\ acFile.version # AcUnreadable
  /\ acReader' = [op |-> "read", file |-> acFile]
  /\ UNCHANGED <<acFile, acApps, acRead, acAlone, acCurrent>>

\* write_file truncates the file before it writes it.
WebWrites(apps) ==
  /\ acReader.op = "read"
  /\ acReader' = [op |-> "writing", file |-> [acReader.file EXCEPT !.apps = apps]]
  /\ acFile' = AcTorn
  /\ Disturbs("web")
  /\ UNCHANGED <<acApps, acRead, acCurrent>>

WebWritten ==
  /\ acReader.op = "writing"
  /\ acFile' \in Overwritten(acReader.file)
  /\ acReader' = [op |-> "written"]
  /\ Disturbs("web")
  /\ UNCHANGED <<acApps, acRead, acCurrent>>

SaveApp(uuid, name) ==
  /\ acReader.op = "read"
  /\ \/ Len(acReader.file.apps) < AcMaxApps
     \/ \E k \in DOMAIN acReader.file.apps : acReader.file.apps[k].uuid = uuid /\ uuid # AcNoUuid
  /\ LET apps == acReader.file.apps IN
     /\ uuid # AcNoUuid \/ AcFresh(apps) # {}
     /\ WebWrites(MigrateApps(apps,
          [uuid |-> IF uuid # AcNoUuid THEN uuid ELSE CHOOSE u \in AcFresh(apps) : TRUE,
           name |-> name, kind |-> "good"]))

ReorderApps(order) == acReader.op = "read" /\ WebWrites(Reordered(acReader.file.apps, order))

DeleteApp(uuid) == acReader.op = "read" /\ WebWrites(Without(acReader.file.apps, uuid))

AcOrders == UNION {[1..n -> AcUuids] : n \in 0..2}

AcNext ==
  \/ \E t \in AcThreads : RefreshReads(t) \/ RefreshCuts(t) \/ RefreshWrites(t) \/ RefreshReplaces(t)
  \/ WebReads \/ WebWritten
  \/ \E uuid \in AcUuids \cup {AcNoUuid}, name \in AcNames : SaveApp(uuid, name)
  \/ \E order \in AcOrders : ReorderApps(order)
  \/ \E uuid \in AcUuids : DeleteApp(uuid)

AcSpec == AcInit /\ [][AcNext]_acVars

-----------------------------------------------------------------------------
(* Properties *)

AcTypeOK ==
  /\ acFile.version \in {AcUnreadable, 1, 2}
  /\ \A t \in AcThreads : acRead[t].kind \in
       {"nothing", "migrating", "migrated", "remigrating", "remigrated", "again", "list"}
  /\ acReader.op \in {"idle", "read", "writing", "written"}

\* Two entries of the file never share a uuid, however they are saved, ordered
\* and migrated (migrate_apps: "if an app with the same UUID as the new app is
\* found, it is replaced").
FileUuidsUnique == AcUuidsUnique(acFile.apps)

\* Reordering loses and duplicates no application, whatever order is asked for:
\* with repeated and with unknown uuids.
ReorderKeepsApps ==
  \A order \in AcOrders : ReorderApps(order) =>
    LET old == acReader.file.apps
        new == acReader'.file.apps
    IN  \E f \in [DOMAIN old -> DOMAIN new] :
          /\ \A i, j \in DOMAIN old : i # j => f[i] # f[j]
          /\ Len(old) = Len(new) /\ \A i \in DOMAIN old : new[f[i]] = old[i]

\* An application whose name no other one has keeps its id wherever it stands
\* in the list, so that clients find it again (calculate_app_id: "a stable id
\* based on name and image data").
UniqueNamesKeepIds ==
  (\A i, j \in DOMAIN acApps : i # j => acApps[i].name # acApps[j].name)
    => \A i \in DOMAIN acApps : acApps[i].id = acApps[i].name

\* What a file gives to launch: its applications, those before a wrong one with
\* the fallback behind them, or nothing of its own where it is not JSON.
Shown(file) ==
  IF file.version = AcUnreadable THEN << >>
  ELSE IF LoadsAll(file.apps) THEN file.apps ELSE Append(LoadedPrefix(file.apps), Fallback)

AcQuiet == acReader.op \in {"idle", "read"} /\ \A t \in AcThreads : acRead[t].kind = "nothing"

\* Once no page is changing the file and no refresh is under way, the list is
\* the one the file gives, and never empty of applications while the file has
\* some, however many migrations it took: unless the last refresh to replace the
\* list ran against another thread's write.  Such a list (of a file read while
\* cut to nothing, say) stays until the next refresh.
ListFollowsFile ==
  AcQuiet /\ acCurrent =>
    /\ acApps = AcLoaded(Shown(acFile) \o Pseudo)
    /\ acFile.version # AcUnreadable /\ acFile.apps # << >> => Len(acApps) > Len(Pseudo)

\* The application file and the list made from it agree, through saves, migrations
\* and a refresh on another thread.
CatalogConsistent ==
  /\ AcTypeOK
  /\ FileUuidsUnique
  /\ UniqueNamesKeepIds
  /\ ListFollowsFile
=============================================================================
