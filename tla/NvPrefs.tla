------------------------------- MODULE NvPrefs -------------------------------
(***************************************************************************)
(* The driver setting the host changes while it runs and puts back         *)
(* (platform/windows/nvprefs): the value found is written to an undo file  *)
(* before the new one is saved, so that a host that did not end properly   *)
(* can be cleaned up after by the next one.  A driver session holds a copy *)
(* of the settings between load and save.  Driver and file system are      *)
(* external; any of their calls may fail.                                  *)
(***************************************************************************)
EXTENDS Integers, Sequences

CONSTANTS
  NpValues,     \* values of the setting, "unset" among them
  NpOurs,       \* OGL_CPL_PREFER_DXPRESENT_PREFER_ENABLED
  NpMaxChanges, \* bound: changes by the user
  NpMaxStreams  \* bound: streams started

ASSUME NpAssumption == NpOurs \in NpValues /\ "blank" \notin NpValues

VARIABLES
  npSaved,   \* the setting as the driver has it
  npSession, \* the session's copy
  npFile,    \* undo file: <<>> none, <<"blank">> unreadable, <<v>> with an undo value
  npUndo,    \* undo_data: at most one value
  npOwn,     \* undo_file: "none", "open", "shut" (kept, but without a handle)
  npPc,      \* "down", "restore", "delete", "check", "create", "write", "save", "run", "stop"
  npUser,    \* what the user chose last
  npByUs,    \* the saved value is the host's
  npGaveUp,  \* an undo file was deleted although its value was not restored
  npClean,   \* the last host ended properly and could restore what it had changed
  npChanges, \* changes by the user so far
  npStreams  \* streams so far

npDriver == <<npSaved, npByUs, npUser, npChanges>>
npVars == <<npSaved, npSession, npFile, npUndo, npOwn, npPc, npUser, npByUs, npGaveUp, npClean, npChanges, npStreams>>

\* load(): main() at the start, streaming_will_start() before each stream.  A
\* host that has its own undo file does not look for another one.
Load ==
  /\ \/ npPc = "down" /\ UNCHANGED npStreams
     \/ npPc = "run" /\ npStreams < NpMaxStreams /\ npStreams' = npStreams + 1
  /\ \/ npPc' = IF npOwn = "none" THEN "restore" ELSE "check"
     \/ npPc' = "run"
  /\ npSession' = npSaved /\ npClean' = FALSE
  /\ UNCHANGED <<npDriver, npFile, npUndo, npOwn, npGaveUp>>

\* restore_global_profile_to_undo: only over the host's own value.
Restored(undo) == IF npSession = NpOurs THEN undo ELSE npSession

\* save_settings() of what is in the session.
SaveSettings(v, ours) == npSaved' = v /\ npByUs' = IF v = npSaved THEN npByUs ELSE ours

\* restore_from_and_delete_undo_file_if_exists, up to the deletion.
RestoreFromUndoFile ==
  /\ npPc = "restore"
  /\ \/ /\ npFile = <<>> /\ npPc' = "check"
        /\ UNCHANGED <<npSaved, npByUs, npSession, npGaveUp>>
     \/ /\ npFile # <<>> /\ npPc' = "check" \* access denied
        /\ UNCHANGED <<npSaved, npByUs, npSession, npGaveUp>>
     \/ /\ npFile # <<>> /\ npFile # <<"blank">> /\ npPc' = "delete"
        /\ npSession' = Restored(npFile[1]) /\ SaveSettings(npSession', FALSE) /\ UNCHANGED npGaveUp
     \/ /\ npFile # <<>> /\ npPc' = "delete" /\ npGaveUp' = (npGaveUp \/ npFile # <<"blank">>)
        /\ UNCHANGED <<npSaved, npByUs, npSession>>
  /\ UNCHANGED <<npFile, npUndo, npOwn, npUser, npClean, npChanges, npStreams>>

DeleteUndoFile ==
  /\ npPc = "delete" /\ npPc' = "check" /\ npFile' \in {<<>>, npFile}
  /\ UNCHANGED <<npDriver, npSession, npUndo, npOwn, npGaveUp, npClean, npStreams>>

\* check_and_modify_global_profile, if the user wants it.
CheckGlobalProfile ==
  /\ npPc = "check"
  /\ \/ npPc' = "run" /\ UNCHANGED npSession
     \/ npSession # NpOurs /\ npPc' = "create" /\ UNCHANGED npSession
  /\ UNCHANGED <<npDriver, npFile, npUndo, npOwn, npGaveUp, npClean, npStreams>>

\* create_new_file: never over an existing one.
CreateUndoFile ==
  /\ npPc = "create"
  /\ \/ npOwn # "none" /\ npPc' = "write" /\ UNCHANGED <<npOwn, npFile>>
     \/ /\ npOwn = "none" /\ npFile = <<>>
        /\ npPc' = "write" /\ npOwn' = "open" /\ npFile' = <<"blank">>
     \/ npOwn = "none" /\ npPc' = "run" /\ UNCHANGED <<npOwn, npFile>>
  /\ UNCHANGED <<npDriver, npSession, npUndo, npGaveUp, npClean, npStreams>>

\* Writing failed: the file is deleted, if there is a handle to do so.
WriteFails ==
  /\ npPc' = "run"
  /\ \/ npOwn = "open" /\ npFile' = <<>> /\ npOwn' = "shut"
     \/ npOwn = "open" /\ npFile' = <<"blank">> /\ UNCHANGED npOwn
     \/ npOwn = "shut" /\ UNCHANGED <<npFile, npOwn>>

SavedFirst ==
  /\ npPc = "write" /\ npUndo' = {npSession} /\ npPc' = "save"
  /\ npSession' = NpOurs /\ SaveSettings(NpOurs, TRUE) /\ UNCHANGED <<npFile, npOwn>>
  /\ UNCHANGED <<npUser, npChanges, npGaveUp, npClean, npStreams>>

\* The value found becomes the undo value, also when there was an older one,
\* and is written to the file.
WriteUndoData ==
  /\ npPc = "write" /\ npUndo' = {npSession}
  /\ \/ npOwn = "open" /\ npFile' = <<npSession>> /\ npPc' = "save" /\ UNCHANGED npOwn
     \/ WriteFails
  /\ UNCHANGED <<npDriver, npSession, npGaveUp, npClean, npStreams>>

SaveGlobalProfile ==
  /\ npPc = "save" /\ npPc' = "run"
  /\ \/ npSession' = NpOurs /\ SaveSettings(NpOurs, TRUE)
     \/ npSession' = npSaved /\ UNCHANGED <<npSaved, npByUs>>
  /\ UNCHANGED <<npFile, npUndo, npOwn, npUser, npGaveUp, npClean, npChanges, npStreams>>

\* The end of main(): restore_global_profile, and once more in the destructor.
\* The file is deleted after the value has been saved.
StopHost ==
  /\ npPc = "run" /\ npPc' = "down" /\ npOwn' = "none" /\ npUndo' = {}
  /\ \/ /\ npOwn = "open" /\ npUndo # {} /\ \E u \in npUndo : SaveSettings(IF npSaved = NpOurs THEN u ELSE npSaved, FALSE)
        /\ npFile' \in {<<>>, npFile} /\ npClean' = TRUE
     \/ UNCHANGED <<npSaved, npByUs, npFile>> /\ npClean' = (npOwn = "none" /\ npFile = <<>>)
  /\ npSession' = npSaved'
  /\ UNCHANGED <<npUser, npGaveUp, npChanges, npStreams>>

\* The process dies or is killed; what is on disk stays.
NpCrash ==
  /\ npPc # "down" /\ npPc' = "down" /\ npOwn' = "none" /\ npUndo' = {} /\ npClean' = FALSE /\ npSession' = npSaved
  /\ npFile' \in IF npPc = "write" /\ npOwn = "open" THEN {npFile, <<"blank">>} ELSE {npFile}
  /\ UNCHANGED <<npDriver, npGaveUp, npStreams>>

\* The user changes the setting, not between the host's load and save.
UserChanges(v) ==
  /\ npPc \in {"down", "run"} /\ v # npSaved /\ npChanges < NpMaxChanges /\ npChanges' = npChanges + 1
  /\ npSaved' = v /\ npUser' = v /\ npByUs' = FALSE
  /\ UNCHANGED <<npSession, npFile, npUndo, npOwn, npPc, npGaveUp, npClean, npStreams>>

NpInit ==
  /\ npUser \in NpValues /\ npSaved = npUser /\ npSession = npUser /\ npFile = <<>> /\ npUndo = {} /\ npOwn = "none"
  /\ npPc = "down" /\ npByUs = FALSE /\ npGaveUp = FALSE /\ npClean = TRUE /\ npChanges = 0 /\ npStreams = 0

NpNext ==
  \/ Load \/ RestoreFromUndoFile \/ DeleteUndoFile \/ CheckGlobalProfile \/ CreateUndoFile \/ WriteUndoData
  \/ SaveGlobalProfile \/ StopHost \/ NpCrash
  \/ \E v \in NpValues : UserChanges(v)

NpSpec == NpInit /\ [][NpNext]_npVars

-----------------------------------------------------------------------------
\* Whenever the driver has the host's value, after whatever crash, the user's
\* value is in the undo file, unless a restore from it failed and it was
\* deleted anyway.  (A user's choice of the very value the host sets cannot be
\* told from the host's.)
ChangeRecoverable == npByUs /\ ~npGaveUp /\ npUser # NpOurs => npFile = <<npUser>>

\* A host that ended properly, with every call answered, leaves nothing of its
\* own behind.
CleanEndRestores == npPc = "down" /\ npClean /\ ~npGaveUp => ~npByUs

\* Once a host has looked for what its predecessor left, and there is no undo
\* file, the driver has the user's choice; only a choice of the very value the
\* host sets may have been taken for the host's and undone.
UserValueBack ==
  npPc \in {"check", "create"} /\ npOwn = "none" /\ npFile = <<>> /\ ~npGaveUp /\ npUser # NpOurs => npSaved = npUser
=============================================================================
