------------------------------ MODULE DirScanner ------------------------------
(***************************************************************************)
(* The sidebar's directory listing (old/src/sidebar/dirscanner*.cpp and the *)
(* cache of old/src/components/sidebar*.cpp).  A listing is a record        *)
(* [root, tree]: which directory was read, in which state of the files.     *)
(* The sidebar scans on the pool when a workspace is set or refreshed, and  *)
(* on the UI thread after it creates, renames or deletes a file.            *)
(***************************************************************************)
EXTENDS Background

CONSTANT NoEntries

VARIABLES
  projectPath,   \* DirScanner::project_path
  fsEntries,     \* DirScanner::fs_entries
  scanning,      \* DirScanner::scanning
  dirVer,        \* DirScanner::ver
  dirToken,      \* DirScanner::job_token
  dirSeen,       \* Sidebar::seen_version
  dirShown       \* Sidebar::cached_entries

scannerVars == <<projectPath, fsEntries, scanning, dirVer, dirToken>>
dirVars == <<scannerVars, dirSeen, dirShown>>

Listing(root, tree) == [root |-> root, tree |-> tree]

\* The listing of the start is shown, or its scan, with token 1, is under way.
DirInit(root, underWay) ==
  /\ projectPath = root /\ scanning = underWay /\ dirToken = 1
  /\ fsEntries = IF underWay THEN NoEntries ELSE Listing(root, 0)
  /\ dirShown = fsEntries
  /\ dirVer = 1 /\ dirSeen = 1

DirJob(root, t) == [svc |-> "dirs", root |-> root, token |-> t]
DirIsCurrent(w) == worker[w].job.token = dirToken

\* Sidebar::set_project_path: forget the old listing and scan, with token t.
SetProjectPath(root, t) ==
  /\ projectPath' = root /\ fsEntries' = NoEntries /\ dirVer' = dirVer + 1
  /\ dirSeen' = 0 /\ dirShown' = NoEntries
  /\ dirToken' = t /\ scanning' = TRUE

\* Sidebar::refresh: scan again, with token t.
RefreshSidebar(t) ==
  /\ dirToken' = t /\ scanning' = TRUE /\ dirSeen' = 0
  /\ UNCHANGED <<projectPath, fsEntries, dirVer, dirShown>>

\* A file operation of the sidebar ends in scan_dirs() and sync_cache() on the
\* UI thread: no token is taken, so a scan on the pool stays current.
ScanDirs(tree) ==
  /\ fsEntries' = Listing(projectPath, tree) /\ dirShown' = Listing(projectPath, tree)
  /\ scanning' = FALSE
  /\ dirVer' = dirVer + 1 /\ dirSeen' = dirVer + 1
  /\ UNCHANGED <<projectPath, dirToken>>

DirScan(w, tree) ==
  /\ worker[w].pc = "taken" /\ worker[w].job.svc = "dirs"
  /\ IF DirIsCurrent(w) THEN Scanned(w, Listing(worker[w].job.root, tree)) ELSE Return(w)
  /\ UNCHANGED <<queueVars, wakeVars, dirVars>>

DirRecheck(w) ==
  /\ worker[w].pc = "scanned" /\ worker[w].job.svc = "dirs"
  /\ IF DirIsCurrent(w) THEN Goto(w, "checked") ELSE Return(w)
  /\ UNCHANGED <<queueVars, wakeVars, dirVars>>

\* A listing that is stored whatever directory is open by now.
DirPublishAny(w) ==
  /\ worker[w].pc = "checked" /\ worker[w].job.svc = "dirs"
  /\ fsEntries' = worker[w].got /\ Goto(w, "published")
  /\ UNCHANGED <<queueVars, wakeVars, projectPath, scanning, dirVer, dirToken, dirSeen, dirShown>>

\* Under the mutex only the directory is compared; a listing of another
\* directory is dropped and the scan stays marked as running.
DirPublish(w) ==
  /\ worker[w].pc = "checked" /\ worker[w].job.svc = "dirs"
  /\ IF projectPath = worker[w].job.root
     THEN fsEntries' = worker[w].got /\ Goto(w, "published")
     ELSE Return(w) /\ UNCHANGED fsEntries
  /\ UNCHANGED <<queueVars, wakeVars, projectPath, scanning, dirVer, dirToken, dirSeen, dirShown>>

DirSettle(w) ==
  /\ worker[w].pc = "published" /\ worker[w].job.svc = "dirs"
  /\ scanning' = FALSE /\ dirVer' = dirVer + 1
  /\ Return(w)
  /\ UNCHANGED <<queueVars, wakeVars, projectPath, fsEntries, dirToken, dirSeen, dirShown>>

DirStep(w, tree) == DirScan(w, tree) \/ DirRecheck(w) \/ DirPublish(w) \/ DirSettle(w)

\* sync_cache(), from poll() and draw().
SyncCache ==
  /\ dirSeen' = dirVer
  /\ dirShown' = IF dirSeen # dirVer THEN fsEntries ELSE dirShown
  /\ UNCHANGED scannerVars

===============================================================================
