------------------------------- MODULE Workspace -------------------------------
(***************************************************************************)
(* Documents and their files over the life of the program: the UI's tabs,   *)
(* its session file, crash snapshots, autosave and reloads                  *)
(* (old/src/ui/ui.cpp, ui_tabs.cpp, ui_session.cpp, ui_recovery.cpp,        *)
(* ui_features.cpp, ui_ex.cpp, ui_workspace.cpp; editor/buffer_manager.cpp), *)
(* with crashes, and other programs that write the files.                  *)
(*                                                                         *)
(* A tab is known by its path as it was written, a snapshot and a watch by  *)
(* the file: one file that is opened by two paths has two tabs, with a      *)
(* buffer each, and one snapshot.                                          *)
(*                                                                         *)
(* The UI is one thread.  What its handler still has to do is in steps, to   *)
(* buffers and watches, then in todo, to the snapshot files, then in        *)
(* ticking: a crash or another program may come between two of them.       *)
(***************************************************************************)
EXTENDS DocBuffer, FiniteSets, SequencesExt

CONSTANTS
  Docs,        \* the files
  Spellings,   \* the ways in which the path of one is written: relative, absolute
  Canonical,   \* the one among them that weakly_canonical() gives
  NoText,
  InRoot,      \* the documents directly in the workspace's directory
  NoTab,       \* no file's tab is active: an untitled buffer is
  NoBuffer,    \* of a path without a tab
  Theirs,      \* the text that other programs write
  MaxTexts,    \* bound: texts that the user types
  MaxOthers,   \* bound: writes of other programs
  MaxCrashes   \* bound

VARIABLES
  snap,       \* of each document: txt, its snapshot or NoText, and meta, whether it is named
  up,         \* the program runs
  files,      \* of each document: its text on disk
  buf,        \* of each path: its buffer, or NoBuffer
  bar,        \* the paths of the tabs, in their order
  active,     \* the path of the active tab, or NoTab
  steps,      \* what is still to be done to buffers and watches
  todo,       \* what is still to be done to the snapshot files
  ticking,    \* the tabs tick_recovery_snapshots() still looks at
  prompts,    \* pending_recovery_
  confirm,    \* the save prompt: "none", asked for a "close" or a "quit", or, once the
              \* buffer is saved, on its way to it: "closing" or "quitting"
  session,    \* session.json: the paths of the tabs
  rooted,     \* the file watcher runs, and has a watch for the workspace's directory
  watched,    \* the file watcher's path_to_wd_: the documents it has a watch for
  lost,       \* those among them whose watch has ended, which poll() will learn
  notices,    \* the documents that poll() will report
  fresh,      \* the last text that was typed
  crashes, others

watcherVars == <<rooted, watched, lost, notices>>
tabVars == <<buf, bar, active>>
askVars == <<prompts, confirm>>
vars == <<up, files, snap, watcherVars, tabVars, askVars, session, steps, todo, ticking,
          fresh, crashes, others>>

Paths == Docs \X Spellings
FileOf(p) == p[1]
CanonicalPath(d) == <<d, Canonical>>

Tabs == {p \in Paths : buf[p] # NoBuffer}
TabsOf(d) == {p \in Tabs : FileOf(p) = d}
Dirty(p) == p \in Tabs /\ IsDirty(buf[p])

\* No tab of d has what is on the disk.
AllDirty(d) == TabsOf(d) # {} /\ \A p \in TabsOf(d) : IsDirty(buf[p])

Texts == 0..MaxTexts \cup {Theirs}
NoBuffers == [p \in Paths |-> NoBuffer]

ASSUME WorkspaceAssumption ==
  /\ IsFiniteSet(Docs) /\ NoTab \notin Paths /\ Canonical \in Spellings
  /\ MaxTexts \in Nat /\ NoText \notin Texts
  /\ NoEdit \notin Edits(Texts) /\ NoBuffer \notin Buffers(Texts)

-------------------------------------------------------------------------------
\* The file watcher (old/src/utils/fs_watcher*.cpp): inotify watches on the workspace's
\* directory and on the files of the tabs.  A file is replaced by a rename, which ends the
\* watch of the file itself; the directory's tells of it only when the file lies in it.

WatcherInit == rooted = FALSE /\ watched = {} /\ lost = {} /\ notices = {}

\* start() and a watch for each of the files, as sync_fs_watches() asks; and stop().
StartWatcher(docs) == rooted' = TRUE /\ watched' = docs /\ lost' = {} /\ notices' = {}
StopWatcher == rooted' = FALSE /\ watched' = {} /\ lost' = {} /\ notices' = {}

\* watch(): not again while the path is known.
Watch(d) == watched' = watched \cup {d} /\ UNCHANGED <<rooted, lost, notices>>

\* The file of d is replaced by another, or written in place.
Replaced(d) ==
  /\ lost' = lost \cup (watched \cap {d})
  /\ notices' = IF d \in watched \ lost \/ (rooted /\ d \in InRoot) THEN notices \cup {d}
                ELSE notices
  /\ UNCHANGED <<rooted, watched>>

Rewritten(d) ==
  /\ notices' = IF d \in watched \ lost THEN notices \cup {d} ELSE notices
  /\ UNCHANGED <<rooted, watched, lost>>

\* poll(): what it reports is forgotten, and so are the watches that ended.
PollWatcher == watched' = watched \ lost /\ lost' = {} /\ notices' = {} /\ UNCHANGED rooted

-------------------------------------------------------------------------------
\* The crash snapshots (old/src/workspace/recovery.cpp): for a document a text file and a
\* file that names the document, each replaced or removed at once, one after the other.

SnapInit == snap = [d \in Docs |-> [txt |-> NoText, meta |-> FALSE]]

\* What a call of the store does to the files, in order.
WriteSnapshot(d, text) ==
  <<[file |-> "txt", doc |-> d, text |-> text], [file |-> "meta", doc |-> d, there |-> TRUE]>>
ClearSnapshot(d) ==
  <<[file |-> "txt", doc |-> d, text |-> NoText], [file |-> "meta", doc |-> d, there |-> FALSE]>>

StoreStep(op) ==
  snap' = IF op.file = "txt" THEN [snap EXCEPT ![op.doc].txt = op.text]
                             ELSE [snap EXCEPT ![op.doc].meta = op.there]

\* read_lines() finds the text; list(): a snapshot without its text, or without its name, is
\* not offered.
HasText(d) == snap[d].txt # NoText
Listed == {d \in Docs : snap[d].meta /\ HasText(d)}

-------------------------------------------------------------------------------
Init ==
  /\ up = FALSE /\ files = [d \in Docs |-> 0]
  /\ SnapInit /\ WatcherInit
  /\ buf = NoBuffers /\ bar = <<>> /\ active = NoTab
  /\ steps = <<>> /\ todo = <<>> /\ ticking = <<>>
  /\ prompts = <<>> /\ confirm = "none" /\ session = <<>>
  /\ fresh = 0 /\ others = 0 /\ crashes = 0

-------------------------------------------------------------------------------
\* The tabs.

Step(do, p) == [do |-> do, path |-> p]

Put(p, b) == buf' = [buf EXCEPT ![p] = b]

\* BufferManager::open_file(): the tab of this very path if there is one, or a new one
\* at the end; only a new one is read, and its time on disk is taken after that.
Opened(p) == IF p \in Tabs THEN buf[p] ELSE Load(files[FileOf(p)])
ShowTab(p, b) ==
  /\ Put(p, b) /\ active' = p
  /\ bar' = IF p \in Tabs THEN bar ELSE Append(bar, p)
Stamping(p) == IF p \in Tabs THEN <<>> ELSE <<Step("stamp", p)>>

\* find_buffer_by_path(): of the tabs of a file, the first.
FoundFirst(p) ==
  \E i \in DOMAIN bar : bar[i] = p /\ \A j \in 1 .. i - 1 : FileOf(bar[j]) # FileOf(p)

\* The file of d has another time than before.
Touched(d, bufs) ==
  [p \in Paths |-> IF p \in TabsOf(d) THEN [bufs[p] EXCEPT !.behind = TRUE] ELSE bufs[p]]

-------------------------------------------------------------------------------
\* Start and end.

\* UI(): with the session's tabs, or with one file; the watches are set when all are
\* there.  Then the snapshots that are there are asked about, in the directory's order.
Start(paths) ==
  /\ ~up /\ up' = TRUE
  /\ buf' = NoBuffers /\ bar' = <<>> /\ active' = NoTab
  /\ steps' = Append([i \in DOMAIN paths |-> Step("open", paths[i])], Step("ready", NoTab))
  /\ todo' = <<>> /\ ticking' = <<>>
  /\ \E order \in SetToSeqs(Listed) : prompts' = order
  /\ confirm' = "none"
  /\ UNCHANGED <<files, snap, watcherVars, session, fresh, crashes, others>>

\* SessionStore::load() and save(): a file that cannot be read is no session, and one that
\* cannot be written stays as it was.
LoadSession == {session, <<>>}
SaveSession == session' \in {session, bar}

StartSession == \E paths \in LoadSession : Start(paths)
StartFile(p) == Start(<<p>>)

\* ~UI(): nothing is asked about the snapshots, which stay.
Down ==
  /\ up' = FALSE /\ buf' = NoBuffers /\ bar' = <<>> /\ active' = NoTab
  /\ steps' = <<>> /\ todo' = <<>> /\ ticking' = <<>>
  /\ prompts' = <<>> /\ confirm' = "none"
  /\ StopWatcher

Crash ==
  /\ up /\ crashes < MaxCrashes /\ crashes' = crashes + 1
  /\ Down
  /\ UNCHANGED <<files, snap, session, fresh, others>>

Quit == Down /\ SaveSession

-------------------------------------------------------------------------------
\* What a handler still has to do.

Finishing == confirm \in {"closing", "quitting"}
Free == up /\ steps = <<>> /\ todo = <<>> /\ ticking = <<>> /\ ~Finishing

Doing(what) == up /\ steps # <<>> /\ Head(steps).do = what
Working == UNCHANGED <<up, files, snap, askVars, session, todo, ticking, fresh, crashes, others>>

StepOpen ==
  /\ Doing("open") /\ Working
  /\ LET p == Head(steps).path
     IN  ShowTab(p, Opened(p)) /\ steps' = Stamping(p) \o Tail(steps)
  /\ UNCHANGED watcherVars

\* Buffer::capture_disk_mtime(): the time is that of the last write, which may have come
\* after the text was read.
StepStamp ==
  /\ Doing("stamp") /\ Working
  /\ LET p == Head(steps).path IN Put(p, Stamped(buf[p]))
  /\ steps' = Tail(steps)
  /\ UNCHANGED <<bar, active, watcherVars>>

StepWatch ==
  /\ Doing("watch") /\ Working
  /\ Watch(FileOf(Head(steps).path)) /\ steps' = Tail(steps)
  /\ UNCHANGED tabVars

\* The tab with the session's index comes to the front: any of them, since the index
\* counts an untitled tab too, and the session's tabs do not.
StepReady ==
  /\ Doing("ready") /\ Working
  /\ active' \in IF Tabs = {} THEN {NoTab} ELSE Tabs
  /\ StartWatcher({FileOf(p) : p \in Tabs}) /\ steps' = Tail(steps)
  /\ UNCHANGED <<buf, bar>>

\* poll_fs_events(), for one notice: of the tabs of the file it looks at the first.  A clean
\* buffer is loaded again, a dirty one's user is warned; a reload of the active tab watches
\* its file again.
Stale(p) == p \in Tabs /\ FoundFirst(p) /\ DiskChanged(buf[p])

EventReload(p) ==
  /\ Stale(p) /\ ~IsDirty(buf[p]) /\ Put(p, Load(files[FileOf(p)]))
  /\ steps' = <<Step("stamp", p)>> \o (IF p = active THEN <<Step("watch", p)>> ELSE <<>>)
              \o Tail(steps)

\* A poll that reloads a dirty buffer too, and one that says nothing of it.
EventDrops(p) ==
  /\ Stale(p) /\ IsDirty(buf[p]) /\ Put(p, Load(files[FileOf(p)]))
  /\ steps' = <<Step("stamp", p)>> \o Tail(steps)
EventSilent(p) ==
  /\ Stale(p) /\ IsDirty(buf[p]) /\ UNCHANGED buf /\ steps' = Tail(steps)

EventWarn(p) ==
  /\ Stale(p) /\ IsDirty(buf[p]) /\ Put(p, [buf[p] EXCEPT !.warned = TRUE])
  /\ steps' = Tail(steps)

StepEvent ==
  /\ Doing("event") /\ Working
  /\ LET found == TabsOf(FileOf(Head(steps).path))
     IN  \/ \E p \in found : EventReload(p) \/ EventWarn(p)
         \/ (\A p \in found : ~Stale(p)) /\ UNCHANGED buf /\ steps' = Tail(steps)
  /\ UNCHANGED <<bar, active, watcherVars>>

Work == StepOpen \/ StepStamp \/ StepWatch \/ StepReady \/ StepEvent

\* One step on the snapshot files.
Store ==
  /\ up /\ steps = <<>> /\ todo # <<>> /\ StoreStep(Head(todo)) /\ todo' = Tail(todo)
  /\ UNCHANGED <<up, files, watcherVars, tabVars, askVars, session, steps, ticking, fresh,
                 crashes, others>>

-------------------------------------------------------------------------------
\* What goes on without the user.

\* tick_recovery_snapshots(), tab by tab: a clean one's snapshot goes, a dirty one's is
\* replaced.
Tick ==
  /\ Free /\ bar # <<>> /\ ticking' = bar
  /\ UNCHANGED <<up, files, snap, watcherVars, tabVars, askVars, session, steps, todo, fresh,
                 crashes, others>>

TickStep ==
  /\ up /\ todo = <<>> /\ ticking # <<>> /\ ticking' = Tail(ticking)
  /\ UNCHANGED <<up, files, snap, watcherVars, tabVars, askVars, session, steps, fresh,
                 crashes, others>>

\* A tick to which the changes of the open transaction are not yet changes.
TickTabById ==
  /\ TickStep
  /\ LET p == Head(ticking)
     IN  todo' = IF buf[p].id # buf[p].savedId THEN WriteSnapshot(FileOf(p), buf[p].text)
                 ELSE ClearSnapshot(FileOf(p))

TickTab ==
  /\ TickStep
  /\ LET p == Head(ticking)
     IN  todo' = IF Dirty(p) THEN WriteSnapshot(FileOf(p), buf[p].text)
                 ELSE ClearSnapshot(FileOf(p))

\* write_buffer_to_disk(), when the write succeeds: the file's time is taken after it, and
\* the snapshot goes.
SaveBuffer(p) ==
  /\ files' = [files EXCEPT ![FileOf(p)] = buf[p].text] /\ Replaced(FileOf(p))
  /\ buf' = Touched(FileOf(p), [buf EXCEPT ![p] = Saved(@)])
  /\ steps' = <<Step("stamp", p)>> /\ todo' = ClearSnapshot(FileOf(p))

\* The open transaction has ended even when the file cannot be written.
SaveFails(p) ==
  Put(p, EndEdit(buf[p])) /\ UNCHANGED <<files, watcherVars, steps, todo>>

\* A save that removes the snapshot whether or not the file could be written.
SaveForgets(p) ==
  \/ SaveBuffer(p)
  \/ /\ Put(p, EndEdit(buf[p])) /\ todo' = ClearSnapshot(FileOf(p))
     /\ UNCHANGED <<files, watcherVars, steps>>

TrySave(p) == SaveBuffer(p) \/ SaveFails(p)

\* tick_autosave(): not over a change that another program made, of which it warns.
Autosave ==
  /\ Free /\ active # NoTab /\ Dirty(active)
  /\ IF DiskChanged(buf[active])
     THEN /\ Put(active, [buf[active] EXCEPT !.warned = TRUE])
          /\ UNCHANGED <<files, watcherVars, steps, todo>>
     ELSE TrySave(active)
  /\ UNCHANGED <<up, snap, bar, active, askVars, session, ticking, fresh, crashes, others>>

\* poll_fs_events(): what the watcher reports, one after another.
PollFs ==
  /\ Free /\ notices \cup lost # {} /\ PollWatcher
  /\ \E order \in SetToSeqs(notices) :
       steps' = [i \in DOMAIN order |-> Step("event", CanonicalPath(order[i]))]
  /\ UNCHANGED <<up, files, snap, tabVars, askVars, session, todo, ticking, fresh, crashes,
                 others>>

\* Another program replaces a file, or writes it in place.
WriteByOther(d) ==
  /\ others < MaxOthers /\ others' = others + 1
  /\ files' = [files EXCEPT ![d] = Theirs] /\ (Replaced(d) \/ Rewritten(d))
  /\ buf' = Touched(d, buf)
  /\ UNCHANGED <<up, snap, bar, active, askVars, session, steps, todo, ticking, fresh,
                 crashes>>

-------------------------------------------------------------------------------
\* The inputs.

Key == Free /\ UNCHANGED <<up, snap, session, ticking, crashes, others>>
EditorKey == Key /\ prompts = <<>> /\ confirm = "none"

\* open_file(), which switches to the tab if there is one, and sync_active_tab(), which
\* watches the file.
OpenTab(p) ==
  /\ EditorKey /\ p # active /\ ShowTab(p, Opened(p))
  /\ steps' = Append(Stamping(p), Step("watch", p))
  /\ UNCHANGED <<files, watcherVars, askVars, todo, fresh>>

\* Insert mode is a transaction; a change in normal mode is one of its own.
Type ==
  /\ EditorKey /\ active # NoTab /\ fresh < MaxTexts /\ fresh' = fresh + 1
  /\ \E b \in InsertText(buf[active], fresh + 1) \cup DeleteRange(buf[active], fresh + 1) :
       Put(active, b)
  /\ UNCHANGED <<files, watcherVars, bar, active, askVars, steps, todo>>

EnterOrLeaveInsert ==
  /\ EditorKey /\ active # NoTab
  /\ Put(active, IF buf[active].open = NoEdit THEN BeginEdit(buf[active]) ELSE EndEdit(buf[active]))
  /\ UNCHANGED <<files, watcherVars, bar, active, askVars, steps, todo, fresh>>

\* Editor::undo() and redo() end the open transaction first.
UndoOrRedo ==
  /\ EditorKey /\ active # NoTab
  /\ \/ Put(active, Undo(EndEdit(buf[active]))) \/ Put(active, Redo(EndEdit(buf[active])))
  /\ UNCHANGED <<files, watcherVars, bar, active, askVars, steps, todo, fresh>>

\* :w, whatever the file holds by now.
Save ==
  /\ EditorKey /\ active # NoTab /\ TrySave(active)
  /\ UNCHANGED <<bar, active, askVars, fresh>>

\* :wq closes the tab once it is saved, and the program with the last one.
SaveAndClose ==
  /\ EditorKey /\ active # NoTab /\ TrySave(active)
  /\ confirm' = IF todo' = <<>> THEN "none"
                ELSE IF Tabs = {active} THEN "quitting" ELSE "closing"
  /\ UNCHANGED <<bar, active, prompts, fresh>>

\* :e!
Reload ==
  /\ EditorKey /\ active # NoTab /\ Put(active, Load(files[FileOf(active)]))
  /\ steps' = <<Step("stamp", active)>>
  /\ UNCHANGED <<files, watcherVars, bar, active, askVars, todo, fresh>>

\* close_active_tab(true): the tab that takes its place becomes active, or the last one,
\* and its file is watched.
CloseNow ==
  /\ Put(active, NoBuffer)
  /\ \E k \in DOMAIN bar :
       /\ bar[k] = active /\ bar' = RemoveAt(bar, k)
       /\ IF bar' = <<>> THEN active' = NoTab /\ UNCHANGED watcherVars
          ELSE /\ active' = IF k <= Len(bar') THEN bar'[k] ELSE Last(bar')
               /\ Watch(FileOf(active'))

\* open_save_confirm() leaves insert mode.
Prompted(intent) == confirm' = intent /\ Put(active, EndEdit(buf[active]))

\* :q of one tab of several, or the key that closes a tab: an unsaved one is asked about,
\* except after :q!
Close ==
  /\ EditorKey /\ active # NoTab
  /\ \/ Dirty(active) /\ Prompted("close") /\ UNCHANGED <<bar, active, watcherVars>>
     \/ CloseNow /\ UNCHANGED confirm /\ (~Dirty(active) \/ Len(bar) > 1)
  /\ UNCHANGED <<files, prompts, steps, todo, fresh>>

\* :q of the last tab.
AskQuit ==
  /\ EditorKey /\ Tabs = {active} /\ Dirty(active) /\ Prompted("quit")
  /\ UNCHANGED <<files, bar, active, prompts, watcherVars, steps, todo, fresh>>

\* resolve_save_confirm(): no and escape.
AnswerNo ==
  /\ Key /\ prompts = <<>> /\ confirm \in {"close", "quit"}
  /\ \/ confirm = "close" /\ CloseNow /\ confirm' = "none"
     \/ confirm = "quit" /\ confirm' = "quitting" /\ UNCHANGED <<tabVars, watcherVars>>
     \/ confirm' = "none" /\ UNCHANGED <<tabVars, watcherVars>>
  /\ UNCHANGED <<files, prompts, steps, todo, fresh>>

\* Yes goes on only when the buffer was saved.
AnswerYes ==
  /\ Key /\ prompts = <<>> /\ confirm \in {"close", "quit"} /\ TrySave(active)
  /\ confirm' = IF todo' = <<>> THEN confirm
                ELSE IF confirm = "close" THEN "closing" ELSE "quitting"
  /\ UNCHANGED <<bar, active, prompts, fresh>>

\* finish_close_or_quit()
FinishClose ==
  /\ up /\ steps = <<>> /\ todo = <<>> /\ confirm = "closing" /\ CloseNow /\ confirm' = "none"
  /\ UNCHANGED <<up, files, snap, prompts, session, steps, todo, ticking, fresh, crashes,
                 others>>
FinishQuit ==
  /\ up /\ steps = <<>> /\ todo = <<>> /\ confirm = "quitting" /\ Quit
  /\ UNCHANGED <<files, snap, fresh, crashes, others>>

\* :q of the last tab when it is clean, and :q!
QuitKey ==
  /\ Free /\ prompts = <<>> /\ confirm = "none" /\ Len(bar) <= 1 /\ Quit
  /\ UNCHANGED <<files, snap, fresh, crashes, others>>

\* resolve_recovery_confirm(): yes opens the canonical path that the snapshot names, takes
\* the snapshot's text into its buffer and leaves the files; no and escape remove them.
Recover ==
  /\ Key /\ prompts # <<>>
  /\ LET d == Head(prompts)
         p == CanonicalPath(d)
     IN  IF ~HasText(d) THEN UNCHANGED <<tabVars, steps>>
         ELSE /\ ShowTab(p, Recovered(Opened(p), snap[d].txt))
              /\ steps' = Append(Stamping(p), Step("watch", p))
  /\ prompts' = Tail(prompts)
  /\ UNCHANGED <<files, watcherVars, confirm, todo, fresh>>

Discard ==
  /\ Key /\ prompts # <<>> /\ prompts' = Tail(prompts) /\ todo' = ClearSnapshot(Head(prompts))
  /\ UNCHANGED <<files, watcherVars, tabVars, confirm, steps, fresh>>

-------------------------------------------------------------------------------
Background ==
  \/ Work \/ Store \/ Tick \/ TickTab \/ Autosave \/ PollFs \/ FinishClose \/ FinishQuit

Inputs ==
  \/ \E p \in Paths : OpenTab(p)
  \/ Type \/ EnterOrLeaveInsert \/ UndoOrRedo \/ Save \/ SaveAndClose \/ Reload
  \/ Close \/ AskQuit \/ AnswerNo \/ AnswerYes \/ QuitKey \/ Recover \/ Discard

Next ==
  \/ Background \/ Inputs \/ Crash
  \/ StartSession \/ (\E p \in Paths : StartFile(p)) \/ (\E d \in Docs : WriteByOther(d))

\* next_poll_timeout_ms(): a tick is sure to come only while a tab is dirty.
TickIsDue == \E p \in Tabs : IsDirty(buf[p])

\* The watcher's descriptor wakes the loop, and so does the time of a tick; what a turn of
\* the loop began it ends.
Spec ==
  /\ Init /\ [][Next]_vars
  /\ SF_vars(PollFs) /\ SF_vars(Tick /\ TickIsDue)
  /\ WF_vars(Work) /\ WF_vars(Store) /\ WF_vars(TickTab)
  /\ WF_vars(FinishClose) /\ WF_vars(FinishQuit)

-------------------------------------------------------------------------------
\* A buffer that says it is clean holds the text of its last load or save, whatever was
\* undone, redone, saved half way through a transaction or recovered (Buffer::is_dirty()).
CleanIsSaved == \A p \in Tabs : ~IsDirty(buf[p]) => buf[p].text = buf[p].saved

\* Text that is not saved goes only by what the user does, or with the program: no poll,
\* tick or autosave drops it (poll_fs_events() reloads clean buffers only).
UnsavedKept ==
  [][Background /\ up' => \A p \in Paths :
       Dirty(p) => buf'[p] # NoBuffer /\ buf'[p].text = buf[p].text]_vars

\* A snapshot that would be offered is not removed while its file has tabs and every one of
\* them is dirty: a save that fails leaves it (ui_ex.cpp, write_buffer_to_disk()).  A file
\* with two tabs has one snapshot: it goes for the clean one, whatever the other holds.
UnsavedSnapshotKept ==
  [][\A d \in Listed \ Listed' : ~AllDirty(d)]_vars

\* Time and again every file whose tabs are all dirty has a snapshot, with its name and the
\* text of one of them, so that a crash loses what came after it only
\* (tick_recovery_snapshots()).  Of a second tab's text nothing is promised.
SnapshotsCatchUp ==
  []<>(\A d \in Docs : AllDirty(d) =>
         d \in Listed /\ \E p \in TabsOf(d) : snap[d].txt = buf[p].text)

\* A change that the watcher tells of is loaded by the first tab of the file, or its user
\* warned, or the user closes the tab or reads or writes the file again (poll_fs_events()).
\* A change is a time on disk other than the one that was taken after the buffer's last load
\* or save.  Three writes are left out: one between the read, or the save, and the taking of
\* the time, which passes for seen; one before the file is watched; and, for the other
\* tabs of the file, at which no poll looks, any.
ChangeSeen ==
  \A p \in Paths :
    FileOf(p) \in notices /\ Stale(p)
      ~> p \notin Tabs \/ ~DiskChanged(buf[p]) \/ buf[p].warned

\* "Keep snapshot until user saves successfully." (ui_recovery.cpp): the snapshot that the
\* user is asked about, or is about to be, stays.
RecoveryKept ==
  [][\A d \in Docs : d \in Listed /\ d \in ToSet(prompts) /\ d \notin Listed' =>
       d \notin ToSet(prompts')]_vars

===============================================================================
