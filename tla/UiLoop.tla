-------------------------------- MODULE UiLoop --------------------------------
(***************************************************************************)
(* UI::run (old/src/ui/ui_loop.cpp) with the background pool and the four   *)
(* services whose jobs it runs: one UI thread, the workers, a user and the  *)
(* programs that change the workspace's files.                             *)
(*                                                                         *)
(* One turn of the loop: poll until something is readable, drain the wake,  *)
(* let each panel pick up what was published, render if anything asked for  *)
(* it, handle a key.  ui is the place in the turn:                         *)
(*   "poll" "turn" "input"   before poll(), after it, at handle_inputs()   *)
(*   "refreshed"  poll_fs_events posted an index rebuild: version read next *)
(*   "posted"     a key did                                                *)
(*   "unwound"  the loop was left and its EventWake destroyed              *)
(*   "joining"  Background::stop waits for the workers                     *)
(*   "gone"     the UI and its services are destroyed                      *)
(* The terminal's and the language servers' descriptors are left out.       *)
(***************************************************************************)
EXTENDS TextSearch, DirScanner, FileIndex, ScmService

CONSTANTS Roots,      \* workspace roots
          StartRoot,  \* the one the UI was started in
          StartPath,  \* the file it was started with,
          StartLines, \* and its number of lines
          MaxWeight   \* bound on the keys typed and the changes by other programs, by
                      \* weight, before the user can only quit

ASSUME UiLoopAssumption ==
  /\ StartRoot \in Roots /\ StartPath \in Paths /\ StartLines \in Lines
  /\ NoPath \notin Paths
  /\ NoDiff \notin [root : Roots, lines : Lines, tree : Nat]

VARIABLES
  ui,            \* the UI thread's place in the loop
  weight,        \* of the keys and changes there have been
  stdinReady,    \* poll() reported a key
  needsRender,   \* needs_render_
  running,       \* UI::running
  fsEvent,       \* the watcher's descriptor is readable
  explorer,      \* fs_explorer_dirty_ and its timer: "clean", "armed" or "due"
  tree           \* the state of the workspace's files

uiVars == <<ui, stdinReady, needsRender, running, explorer>>
diskVars == <<tree, fsEvent>>
vars == <<poolVars, searchVars, dirVars, indexVars, scmVars, uiVars, weight, diskVars>>

UiInit ==
  /\ ui = "poll" /\ stdinReady = FALSE /\ needsRender = FALSE
  /\ running = TRUE /\ weight = 0 /\ tree = 0
  /\ fsEvent = FALSE /\ explorer = "clean"

\* The UI in a workspace, with one scan of its start still in a worker's hands (the
\* listing of the sidebar or the state of source control) and the others shown.
Init ==
  /\ UiInit
  /\ \E svc \in {"dirs", "refresh"} :
       /\ PoolInit([svc |-> svc, root |-> StartRoot, token |-> 1])
       /\ DirInit(StartRoot, svc = "dirs") /\ ScmInit(StartRoot, StartPath, StartLines, svc = "refresh")
  /\ SearchInit(StartRoot) /\ IndexInit(StartRoot)

\* One more key or change, of weight n: those that lead to several jobs weigh more.
Count(n) == weight + n <= MaxWeight /\ weight' = weight + n

\* A change of a watched file makes the watcher's descriptor readable.
FilesChange == tree' = tree + 1 /\ fsEvent' = TRUE

EditFiles ==
  /\ Count(2)
  /\ FilesChange
  /\ UNCHANGED <<poolVars, searchVars, dirVars, indexVars, scmVars, uiVars>>

\* poll() returns, key telling whether the user typed one: at once when a render is
\* due, or when a descriptor is readable, or when the 250 ms of the explorer's
\* debounce are over.
Poll(key) ==
  /\ ui = "poll" /\ ui' = "turn"
  /\ \/ /\ key \/ needsRender \/ wakeSet \/ fsEvent
        /\ UNCHANGED explorer
     \/ explorer = "armed" /\ explorer' = "due"
  /\ stdinReady' = key
  /\ wakeSet' = FALSE
  /\ needsRender' = (needsRender \/ wakeSet \/ fsEvent \/ ~key)
  /\ UNCHANGED <<queueVars, worker, uiWake, wakeAlive, searchVars, dirVars, indexVars, scmVars,
                 running, weight, diskVars>>

\* The part of the turn between poll() and handle_inputs(): the panels' poll() and,
\* when anything asked for it, render(), which asks for a diff and lets the panels
\* look again at their versions.
Changed == pickerSeen # indexVer \/ searchSeen # searchVer \/ searching \/ dirSeen # dirVer

ShowPanels ==
  /\ PollPicker /\ SyncResults /\ SyncCache
  /\ IF needsRender \/ Changed THEN SyncScmDiff ELSE UNCHANGED <<scmVars, poolVars>>
  /\ needsRender' = FALSE
  /\ ui' = IF stdinReady THEN "input" ELSE "poll"

\* poll_fs_events() on a turn when the debounce is not over: a change arms it.
Turn ==
  /\ ui = "turn" /\ explorer # "due"
  /\ fsEvent' = FALSE
  /\ explorer' = IF fsEvent THEN "armed" ELSE explorer
  /\ ShowPanels
  /\ UNCHANGED <<stdinReady, running, weight, tree>>

\* When it is over, the sidebar and the index are scanned again; the turn goes on
\* once reindex() has read the version.
RefreshExplorer ==
  /\ ui = "turn" /\ explorer = "due"
  /\ ui' = "refreshed"
  /\ fsEvent' = FALSE /\ explorer' = "clean"
  /\ RefreshSidebar(token) /\ Reindex(token + 1) /\ token' = token + 2
  /\ Post(<<DirJob(projectPath, token), IndexJob(indexRoot, token + 1)>>)
  /\ UNCHANGED <<searchVars, scmVars, stdinReady, needsRender, running, weight, tree>>

RefreshTurn ==
  /\ ui = "refreshed" /\ ui' = "turn"
  /\ ReadVersion
  /\ UNCHANGED <<poolVars, searchVars, dirVars, scmVars, stdinReady, needsRender, running,
                 explorer, weight, diskVars>>

\* handle_inputs() consumes the key.
Input(next) ==
  /\ ui = "input" /\ ui' = next
  /\ stdinReady' = FALSE /\ needsRender' = TRUE
  /\ UNCHANGED explorer

Key(next, n) == Input(next) /\ Count(n)

\* A key of the search panel's query field changes the query and searches; Enter
\* and the option toggles search again for the same query.
SearchKey ==
  /\ ~pickerActive /\ Key("poll", 1)
  /\ \E q \in Queries \cup {NoQuery} : RunSearch(q)
  /\ UNCHANGED <<dirVars, indexVars, scmVars, running, diskVars>>

\* Opening the picker, or closing it.
PickerKey ==
  /\ Key("poll", 1)
  /\ OpenPicker \/ ClosePicker
  /\ UNCHANGED <<poolVars, searchVars, dirVars, scmVars, running, diskVars>>

\* A file operation of the sidebar: the files change, the sidebar scans them on
\* the spot, and the index is rebuilt on the pool.
FileKey ==
  /\ ~pickerActive /\ Key("posted", 2)
  /\ FilesChange
  /\ ScanDirs(tree + 1)
  /\ Reindex(token) /\ token' = token + 1
  /\ Post(<<IndexJob(indexRoot, token)>>)
  /\ UNCHANGED <<searchVars, scmVars, running>>

\* Save: the file's state changes and source control is asked again.
SaveKey ==
  /\ ~pickerActive /\ Key("poll", 2)
  /\ FilesChange
  /\ RequestRefresh(token, tree + 1) /\ token' = token + 1
  /\ Post(<<RefreshJob(scmRoot, token)>>)
  /\ UNCHANGED <<searchVars, dirVars, indexVars, running, scmRoot, snapshot, diffs, diffToken,
                 active, diffPath, diffLines>>

\* Another tab, or an edit that changes the number of lines.
ViewKey ==
  /\ ~pickerActive /\ Key("poll", 1)
  /\ active' \in [path : Paths, lines : Lines] \ {active}
  /\ UNCHANGED <<poolVars, searchVars, dirVars, indexVars, running, diskVars, scmRoot, snapshot,
                 refreshToken, diffs, diffToken, diffPath, diffLines, asked>>

\* apply_workspace_root: every service turns to the root, and those that keep a
\* root compare it with the one they had.
OpenWorkspace ==
  /\ ~pickerActive /\ Key("posted", 2)
  /\ \E root \in Roots :
       LET index == IF indexRoot # root
                    THEN <<IndexJob(root, token + 1), IndexJob(root, token + 2)>>
                    ELSE <<IndexJob(root, token + 1)>>
           t == token + 1 + Len(index)
           scm == IF scmRoot # root
                  THEN <<RefreshJob(root, t), RefreshJob(root, t + 1)>>
                  ELSE <<RefreshJob(root, t)>>
           last == t + Len(scm)
       IN  /\ SetProjectPath(root, token)
           /\ searchRoot' = root
           /\ WarmAndReindex(root, t - 1)
           /\ RefreshScm(root, last - 1, tree)
           /\ token' = last
           /\ Post(<<DirJob(root, token)>> \o index \o scm)
  /\ UNCHANGED <<matches, searching, searchVer, searchToken, panelVars, running, diskVars>>

\* reindex() and warm() read the version once their job is posted.
ReadIndexVersion ==
  /\ ui = "posted" /\ ui' = "poll"
  /\ ReadVersion
  /\ UNCHANGED <<poolVars, searchVars, dirVars, scmVars, stdinReady, needsRender,
                 running, explorer, weight, diskVars>>

\* The loop ends with the turn, and with run() its EventWake: what a worker does in
\* between it could have done before the key.
QuitKey ==
  /\ Input("unwound")
  /\ running' = FALSE
  /\ uiWake' = FALSE /\ wakeAlive' = FALSE /\ wakeSet' = FALSE
  /\ UNCHANGED <<weight, queueVars, worker, searchVars, dirVars, indexVars, scmVars, diskVars>>

\* ~UI.
StopPool ==
  /\ ui = "unwound" /\ ui' = "joining"
  /\ Stop
  /\ UNCHANGED <<searchVars, dirVars, indexVars, scmVars, stdinReady, needsRender,
                 running, explorer, weight, diskVars>>

Destroy ==
  /\ ui = "joining" /\ ui' = "gone"
  /\ Joined
  /\ UNCHANGED <<searchVars, dirVars, indexVars, scmVars, stdinReady, needsRender,
                 running, explorer, weight, diskVars>>

WorkerStep(w) ==
  \/ PoolStep(w) /\ UNCHANGED <<searchVars, dirVars, indexVars, scmVars, uiVars, weight, diskVars>>
  \/ SearchStep(w, tree) /\ UNCHANGED <<dirVars, indexVars, scmVars, uiVars, weight, diskVars>>
  \/ DirStep(w, tree) /\ UNCHANGED <<searchVars, indexVars, scmVars, uiVars, weight, diskVars>>
  \/ IndexStep(w, tree) /\ UNCHANGED <<searchVars, dirVars, scmVars, uiVars, weight, diskVars>>
  \/ ScmStep(w, tree) /\ UNCHANGED <<searchVars, dirVars, indexVars, uiVars, weight, diskVars>>

HandleInput ==
  SearchKey \/ PickerKey \/ FileKey \/ SaveKey \/ ViewKey \/ OpenWorkspace \/ QuitKey

UiStep ==
  \/ Poll(FALSE) \/ Turn \/ RefreshExplorer \/ RefreshTurn \/ HandleInput \/ ReadIndexVersion
  \/ StopPool \/ Destroy

Terminated == ui = "gone" /\ UNCHANGED vars

Next ==
  \/ Poll(TRUE) \/ EditFiles
  \/ UiStep
  \/ \E w \in Workers : WorkerStep(w)
  \/ Terminated

\* The threads are scheduled; the user and the other programs promise nothing.
Fairness == WF_vars(UiStep) /\ \A w \in Workers : WF_vars(WorkerStep(w))

Spec == Init /\ [][Next]_vars /\ Fairness

-------------------------------------------------------------------------------

\* No job of a service is queued or inside a worker.
Quiet(svc) ==
  /\ \A i \in 1 .. Len(jobs) : jobs[i].svc # svc
  /\ \A w \in Workers : Running(w) => worker[w].job.svc # svc

\* ScmService's promise, whatever order the workers finished in.  Once no refresh is
\* under way, the snapshot is of the workspace the service is in, and was taken after
\* the last request (scm_service.cpp:37 checks the token twice).  Once no diff is
\* under way, the diff of the file the UI asked about last is there, of that file's
\* number of lines and of that workspace: no older request overwrites it and none is
\* forgotten (ui_scm.cpp:18, scm_service.cpp:50).
ScmFresh ==
  /\ Quiet("refresh") => snapshot.root = scmRoot /\ snapshot.tree >= asked
  /\ Quiet("diff") /\ diffPath # NoPath =>
       /\ diffs[diffPath] # NoDiff
       /\ diffs[diffPath].lines = diffLines /\ diffs[diffPath].root = scmRoot

\* Tokens let callers ignore stale results (async.hpp:26): once no search is under
\* way, the matches on the screen are of the query in the panel, or none.
SearchFresh == Quiet("search") => matches = NoMatches \/ matches.query = query

\* A listing or an index that a scan left is never of another workspace than the one
\* that is open, whichever scan ended last (dirscanner_part2.cpp:110,
\* fuzzy_index.cpp:102).
ListingsOfThisRoot ==
  /\ fsEntries = NoEntries \/ fsEntries.root = projectPath
  /\ dirShown = NoEntries \/ dirShown.root = projectPath
  /\ files = NoFiles \/ files.root = indexRoot

\* stop() runs every job posted before it: when the last worker has left there is
\* nothing for its clearing loop to drop (async.cpp:43).
StopDropsNothing == ui = "joining" /\ (\A w \in Workers : worker[w].pc = "exit") => jobs = <<>>

\* Left alone, the screen comes to rest: every scan that is marked as running ends
\* or is replaced by one that does, and what a worker publishes is shown without a
\* key being typed, so the wake is never lost between the workers and poll()
\* (ui_loop.cpp:77, async.cpp:78, dirscanner_part2.cpp:110).
AtRest ==
  /\ ~searching /\ ~scanning /\ ~indexing
  /\ searchSeen = searchVer /\ dirSeen = dirVer /\ pickerSeen = indexVer
ScreenSettles == ~AtRest ~> AtRest \/ ~running

\* The UI's end is reached whatever the workers are doing: each of them sees the
\* flag, finishes the queue and leaves.
QuitEnds == ~running ~> ui = "gone"

===============================================================================
