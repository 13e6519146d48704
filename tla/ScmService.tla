------------------------------ MODULE ScmService ------------------------------
(***************************************************************************)
(* Source control of the first version (old/src/scm/scm_service*.cpp) and   *)
(* the UI's requests to it (old/src/ui/ui_scm.cpp).  A snapshot of the      *)
(* repository is a record [root, tree], the diff of a file a record         *)
(* [root, lines, tree]: the workspace it was computed in, the line count of *)
(* the buffer it was asked for and the state of the files read.             *)
(*                                                                         *)
(* Unlike the other services, this one checks a job's token again under the *)
(* mutex before it stores the result.                                      *)
(***************************************************************************)
EXTENDS Background

CONSTANTS Paths,   \* files that can be in the active buffer
          Lines,   \* their line counts
          NoPath,
          NoDiff,
          NoSnapshot

VARIABLES
  scmRoot,        \* workspace_root_
  snapshot,       \* snapshot_
  refreshToken,   \* refresh_token_
  diffs,          \* diffs_
  diffToken,      \* diff_token_
  active,         \* the active buffer: its path and its number of lines
  diffPath,       \* UI::scm_diff_path_
  diffLines,      \* UI::scm_diff_lines_
  asked           \* the state of the files at the last request_refresh: a history
                  \* variable that no action reads

scmVars == <<scmRoot, snapshot, refreshToken, diffs, diffToken, active,
             diffPath, diffLines, asked>>

\* What git says of the repository of a workspace, in the state of its files; and of
\* one file of it, for a buffer with so many lines.
Snapshot(root, tree) == [root |-> root, tree |-> tree]
FileDiff(root, lines, tree) == [root |-> root, lines |-> lines, tree |-> tree]

\* The snapshot of the start is there, or its refresh, with token 1, is under way.
ScmInit(root, path, n, underWay) ==
  /\ scmRoot = root /\ refreshToken = 1 /\ asked = 0
  /\ snapshot = IF underWay THEN NoSnapshot ELSE Snapshot(root, 0)
  /\ active = [path |-> path, lines |-> n]
  /\ diffs = [p \in Paths |-> IF p = path THEN FileDiff(root, n, 0) ELSE NoDiff]
  /\ diffToken = 0
  /\ diffPath = path /\ diffLines = n

RefreshJob(root, t) == [svc |-> "refresh", root |-> root, token |-> t]
DiffJob(t) == [svc |-> "diff", root |-> scmRoot, token |-> t,
               path |-> active.path, lines |-> active.lines]

\* request_refresh() with token t, in the workspace root.
RequestRefresh(t, tree) == refreshToken' = t /\ asked' = tree

\* UI::refresh_scm: set_workspace_root, which forgets the diffs and refreshes when
\* the root is new; request_refresh; and the UI forgets what it asked a diff of.
\* t is the last refresh's token.
RefreshScm(root, t, tree) ==
  /\ scmRoot' = root
  /\ diffs' = IF scmRoot # root THEN [p \in Paths |-> NoDiff] ELSE diffs
  /\ RequestRefresh(t, tree)
  /\ diffPath' = NoPath /\ diffLines' = 0
  /\ UNCHANGED <<snapshot, diffToken, active>>

\* sync_scm_diff(), from render(): a diff is asked for when the active path or its
\* number of lines is not the one last asked for.
DiffIsAsked == active.path = diffPath /\ active.lines = diffLines

SyncScmDiff ==
  \/ DiffIsAsked /\ UNCHANGED <<scmVars, poolVars>>
  \/ /\ ~DiffIsAsked
     /\ diffPath' = active.path /\ diffLines' = active.lines
     /\ diffToken' = token /\ token' = token + 1
     /\ Post(<<DiffJob(token)>>)
     /\ UNCHANGED <<scmRoot, snapshot, refreshToken, diffs, active, asked>>

\* The job of request_refresh.
RefreshScan(w, tree) ==
  /\ worker[w].pc = "taken" /\ worker[w].job.svc = "refresh"
  /\ IF worker[w].job.token = refreshToken
     THEN Scanned(w, Snapshot(worker[w].job.root, tree)) ELSE Return(w)
  /\ UNCHANGED <<queueVars, wakeVars, scmVars>>

\* A snapshot that is stored without another look at the token.
ApplyAnySnapshot(w) ==
  /\ worker[w].pc = "scanned" /\ worker[w].job.svc = "refresh"
  /\ snapshot' = worker[w].got
  /\ Return(w)
  /\ UNCHANGED <<queueVars, wakeVars, scmRoot, refreshToken, diffs, diffToken, active,
                 diffPath, diffLines, asked>>

\* apply_snapshot: the token decides with the mutex held.
ApplySnapshot(w) ==
  /\ worker[w].pc = "scanned" /\ worker[w].job.svc = "refresh"
  /\ snapshot' = IF worker[w].job.token = refreshToken THEN worker[w].got ELSE snapshot
  /\ Return(w)
  /\ UNCHANGED <<queueVars, wakeVars, scmRoot, refreshToken, diffs, diffToken, active,
                 diffPath, diffLines, asked>>

\* The job of request_file_diff.
DiffScan(w, tree) ==
  /\ worker[w].pc = "taken" /\ worker[w].job.svc = "diff"
  /\ IF worker[w].job.token = diffToken
     THEN Scanned(w, FileDiff(worker[w].job.root, worker[w].job.lines, tree))
     ELSE Return(w)
  /\ UNCHANGED <<queueVars, wakeVars, scmVars>>

\* apply_file_diff.
ApplyFileDiff(w) ==
  /\ worker[w].pc = "scanned" /\ worker[w].job.svc = "diff"
  /\ diffs' = IF worker[w].job.token = diffToken
              THEN [diffs EXCEPT ![worker[w].job.path] = worker[w].got] ELSE diffs
  /\ Return(w)
  /\ UNCHANGED <<queueVars, wakeVars, scmRoot, snapshot, refreshToken, diffToken, active,
                 diffPath, diffLines, asked>>

ScmStep(w, tree) ==
  RefreshScan(w, tree) \/ ApplySnapshot(w) \/ DiffScan(w, tree) \/ ApplyFileDiff(w)

===============================================================================
