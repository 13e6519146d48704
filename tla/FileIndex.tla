------------------------------- MODULE FileIndex -------------------------------
(***************************************************************************)
(* The file picker's index of the workspace (old/src/utils/fuzzy_index.cpp) *)
(* and the picker over it (old/src/components/file_picker*.cpp).  The list  *)
(* of files is a record [root, tree]; the picker's filtered list is the     *)
(* list it was filtered from.                                               *)
(***************************************************************************)
EXTENDS Background

CONSTANT NoFiles

VARIABLES
  indexRoot,      \* FileIndex::root_path
  files,          \* FileIndex::entries
  indexing,       \* FileIndex::indexing
  indexVer,       \* FileIndex::ver
  indexToken,     \* FileIndex::job_token
  pickerActive,   \* FilePicker::active
  pickerSeen,     \* FilePicker::seen_version
  pickerMatches   \* FilePicker::matches

indexCore == <<indexRoot, files, indexing, indexVer, indexToken>>
pickerVars == <<pickerActive, pickerSeen, pickerMatches>>
indexVars == <<indexCore, pickerVars>>

Files(root, tree) == [root |-> root, tree |-> tree]

\* The index of a workspace, taken in.
IndexInit(root) ==
  /\ indexRoot = root /\ files = Files(root, 0) /\ indexing = FALSE
  /\ indexVer = 1 /\ indexToken = 0
  /\ pickerActive = FALSE /\ pickerSeen = 1 /\ pickerMatches = NoFiles

IndexJob(root, t) == [svc |-> "index", root |-> root, token |-> t]
IndexIsCurrent(w) == worker[w].job.token = indexToken

\* Opening the workspace root: warm(), which sets a new root and posts a rebuild
\* for it, then reindex(), which posts one whether or not warm did; t is the last
\* job's token.  Both read the version after the post: ReadVersion.
WarmAndReindex(root, t) ==
  /\ indexRoot' = root
  /\ IF indexRoot # root THEN files' = NoFiles /\ indexVer' = indexVer + 1
                         ELSE UNCHANGED <<files, indexVer>>
  /\ indexToken' = t /\ indexing' = TRUE
  /\ UNCHANGED pickerVars

\* reindex(), up to the post.
Reindex(t) ==
  /\ indexToken' = t /\ indexing' = TRUE
  /\ UNCHANGED <<indexRoot, files, indexVer, pickerVars>>

ReadVersion ==
  /\ pickerSeen' = indexVer
  /\ UNCHANGED <<indexCore, pickerActive, pickerMatches>>

\* open() of the picker in the indexed workspace: it filters what there is.
OpenPicker ==
  /\ ~pickerActive
  /\ pickerActive' = TRUE /\ pickerSeen' = indexVer /\ pickerMatches' = files
  /\ UNCHANGED indexCore

ClosePicker ==
  /\ pickerActive
  /\ pickerActive' = FALSE /\ pickerMatches' = NoFiles
  /\ UNCHANGED <<indexCore, pickerSeen>>

IndexScan(w, tree) ==
  /\ worker[w].pc = "taken" /\ worker[w].job.svc = "index"
  /\ IF IndexIsCurrent(w) THEN Scanned(w, Files(worker[w].job.root, tree)) ELSE Return(w)
  /\ UNCHANGED <<queueVars, wakeVars, indexVars>>

IndexRecheck(w) ==
  /\ worker[w].pc = "scanned" /\ worker[w].job.svc = "index"
  /\ IF IndexIsCurrent(w) THEN Goto(w, "checked") ELSE Return(w)
  /\ UNCHANGED <<queueVars, wakeVars, indexVars>>

IndexPublish(w) ==
  /\ worker[w].pc = "checked" /\ worker[w].job.svc = "index"
  /\ IF indexRoot = worker[w].job.root
     THEN files' = worker[w].got /\ Goto(w, "published")
     ELSE Return(w) /\ UNCHANGED files
  /\ UNCHANGED <<queueVars, wakeVars, indexRoot, indexing, indexVer, indexToken, pickerVars>>

IndexSettle(w) ==
  /\ worker[w].pc = "published" /\ worker[w].job.svc = "index"
  /\ indexing' = FALSE /\ indexVer' = indexVer + 1
  /\ Return(w)
  /\ UNCHANGED <<queueVars, wakeVars, indexRoot, files, indexToken, pickerVars>>

IndexStep(w, tree) ==
  IndexScan(w, tree) \/ IndexRecheck(w) \/ IndexPublish(w) \/ IndexSettle(w)

\* FilePicker::poll(): an open picker filters again when the version has moved.
PollPicker ==
  /\ pickerSeen' = indexVer
  /\ pickerMatches' = IF pickerSeen # indexVer /\ pickerActive THEN files ELSE pickerMatches
  /\ UNCHANGED <<indexCore, pickerActive>>

===============================================================================
