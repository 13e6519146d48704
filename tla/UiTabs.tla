-------------------------------- MODULE UiTabs --------------------------------
(***************************************************************************)
(* The tabs of the UI, the files behind them and the rows of the explorer  *)
(* (old/src/editor/buffer_manager.cpp, old/src/ui/ui_tabs.cpp,             *)
(* ui_session.cpp, old/src/components/sidebar*.cpp), as functions of the   *)
(* state u of the UI:                                                      *)
(*   tabs, active  each tab's file (NoFile: untitled), text, whether it is *)
(*                 dirty and whether its file could not be read            *)
(*   disk          of each file its text, or Gone                          *)
(*   fresh         the texts made so far: each edit makes a new one        *)
(*   sel           the explorer's row; the rows are the files on disk      *)
(*   clip          the explorer's clipboard                                *)
(*   session       the session file: the files of the tabs, the active     *)
(*                 one, and whether sidebar and terminal (side, term) show *)
(***************************************************************************)
EXTENDS Integers, Sequences, SequencesExt, FiniteSetsExt

CONSTANTS FileCount,  \* paths, as numbers: the order of the explorer's rows
          MaxTexts     \* bound: texts made by edits

ASSUME TabsAssumption == FileCount \in Nat \ {0} /\ MaxTexts \in Nat

Files == 1 .. FileCount
NoFile == 0
Gone == -1
Texts == 0 .. MaxTexts
TabStates == [file : Files \cup {NoFile}, text : Texts, dirty : BOOLEAN, bad : BOOLEAN]
NoClip == [mode |-> "None", file |-> NoFile]

Active(u) == u.tabs[u.active]
ActiveFile(u) == Active(u).file
OnDisk(u) == {f \in Files : u.disk[f] # Gone}
TabsOf(u, f) == {i \in DOMAIN u.tabs : u.tabs[i].file = f}

Rows(u) == 1 .. Cardinality(OnDisk(u))
RowOf(u, f) == Cardinality({g \in OnDisk(u) : g <= f})
Selected(u) ==
  IF \E f \in OnDisk(u) : RowOf(u, f) = u.sel
    THEN CHOOSE f \in OnDisk(u) : RowOf(u, f) = u.sel ELSE NoFile
ClampSelection(u) == [u EXCEPT !.sel = Max({1, Min({@, Cardinality(OnDisk(u))})})]

\* reveal_path(), select_path(): the cursor goes to the file's row, if it has one.
Reveal(u, f) ==
  [u EXCEPT !.sel = IF f \in OnDisk(u) THEN RowOf(u, f) ELSE @]

SyncActiveTab(u) == Reveal(u, ActiveFile(u))

-------------------------------------------------------------------------------
\* Tabs.

\* Buffer::load(): a file that cannot be read leaves an empty buffer that save() refuses.
Loaded(u, f) ==
  [file |-> f, text |-> IF f \in OnDisk(u) THEN u.disk[f] ELSE 0, dirty |-> FALSE,
   bad |-> f \in Files \ OnDisk(u)]

OpenUntitled(u) ==
  [u EXCEPT !.tabs = Append(@, Loaded(u, NoFile)), !.active = Len(u.tabs) + 1]

OpenFile(u, f) ==
  IF TabsOf(u, f) # {}
    THEN [u EXCEPT !.active = Min(TabsOf(u, f))]
    ELSE [u EXCEPT !.tabs = Append(@, Loaded(u, f)), !.active = Len(u.tabs) + 1]

\* Opening a file for the user.
ShowFile(u, f) == SyncActiveTab(OpenFile(u, f))

\* BufferManager::close_active(true), and the untitled tab that follows the last one.
CloseActive(u) ==
  LET left == RemoveAt(u.tabs, u.active)
      v == [u EXCEPT !.tabs = left, !.active = Min({@, Len(left)})]
  IN  SyncActiveTab(IF left = <<>> THEN OpenUntitled(v) ELSE v)

SwitchTo(u, i) == [u EXCEPT !.active = i]
NextTab(u) == [u EXCEPT !.active = (@ % Len(u.tabs)) + 1]
PrevTab(u) == [u EXCEPT !.active = IF @ = 1 THEN Len(u.tabs) ELSE @ - 1]

\* The tabs that are not of file f.
Without(tabs, f) ==
  FoldLeft(LAMBDA left, t : IF t.file = f THEN left ELSE Append(left, t), <<>>, tabs)

\* The tabs of a deleted file are closed, the last one first.
CloseBuffersUnder(u, f) ==
  LET left == Without(u.tabs, f)
      v == [u EXCEPT !.tabs = left, !.active = Min({Min(TabsOf(u, f)), Len(left)})]
  IN  SyncActiveTab(IF TabsOf(u, f) = {} THEN u
                    ELSE IF left = <<>> THEN OpenUntitled(v) ELSE v)

-------------------------------------------------------------------------------
\* Texts.

CanEdit(u) == u.fresh < MaxTexts

Edit(u, i) ==
  [u EXCEPT !.tabs[i].text = u.fresh + 1, !.tabs[i].dirty = TRUE, !.fresh = @ + 1]

\* Where save() is not refused before it writes.
CanSave(u) == ActiveFile(u) # NoFile /\ ~Active(u).bad

Write(u) == [u EXCEPT !.disk[ActiveFile(u)] = Active(u).text, !.tabs[u.active].dirty = FALSE]

SaveAs(u, f) ==
  Write([u EXCEPT !.tabs[u.active].file = f, !.tabs[u.active].bad = FALSE])

ReloadActive(u) == [u EXCEPT !.tabs[u.active] = Loaded(u, ActiveFile(u))]

-------------------------------------------------------------------------------
\* The explorer's changes of the tree.

CreateFile(u, f) == Reveal([u EXCEPT !.disk[f] = 0], f)

DeleteFile(u, f) == ClampSelection([u EXCEPT !.disk[f] = Gone])

\* rename_selected(), then the tab of the old path saves under the new one.
RenameFile(u, f, g) ==
  LET moved == Reveal([u EXCEPT !.disk = [@ EXCEPT ![g] = u.disk[f], ![f] = Gone]], g)
  IN  SyncActiveTab(IF TabsOf(u, f) = {} THEN moved
                    ELSE [moved EXCEPT !.tabs[Min(TabsOf(u, f))].file = g])

\* paste_here() to the free path g; a tab of the moved file that is active loads it anew.
PasteFile(u, g) ==
  LET f == u.clip.file
      copied == [u EXCEPT !.disk[g] = u.disk[f]]
      moved == [copied EXCEPT !.disk[f] = Gone, !.clip = NoClip]
  IN  IF u.clip.mode = "Copy" THEN Reveal(copied, g)
      ELSE IF ActiveFile(u) # f THEN Reveal(moved, g)
      ELSE SyncActiveTab(ReloadActive([moved EXCEPT !.tabs[u.active].file = g]))

-------------------------------------------------------------------------------
\* The session file.

SaveSession(u) ==
  [u EXCEPT !.session =
     [files |-> [i \in DOMAIN Without(u.tabs, NoFile) |-> Without(u.tabs, NoFile)[i].file],
      active |-> u.active, side |-> u.side, term |-> u.term]]

\* restore_session_if_available(true): every tab is closed, whatever it holds,
\* and the files that are still there are opened.
OpenThere(u, f) == IF f \in OnDisk(u) THEN OpenFile(u, f) ELSE u
RestoreSession(u) ==
  LET shown == [u EXCEPT !.side = u.session.side, !.term = u.session.term]
      bare == [shown EXCEPT !.tabs = <<>>, !.active = 0]
      v == FoldLeft(OpenThere, bare, u.session.files)
  IN  IF u.session.files = <<>> THEN shown
      ELSE IF v.tabs = <<>> THEN OpenUntitled(v)
      ELSE SyncActiveTab([v EXCEPT !.active = Min({u.session.active, Len(v.tabs)})])
===============================================================================
