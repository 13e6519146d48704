------------------------------- MODULE UiConfirm ------------------------------
(***************************************************************************)
(* Questions and their answers: saving before a tab is closed, deleting,   *)
(* discarding, recovering, and the input prompt; and the ex commands that  *)
(* ask or give up text (old/src/ui/ui_tabs.cpp, ui_sidebar_delete.cpp,     *)
(* ui_scm.cpp, ui_recovery.cpp, ui_sidebar_prompt.cpp, ui_ex.cpp), as      *)
(* functions of the state u of the UI.  recovery is the list of the files  *)
(* whose snapshots are still to be offered; ok says whether a write, a     *)
(* deletion or git succeeds; Committed is the text git has of a file.      *)
(***************************************************************************)
EXTENDS UiFocus

Committed == 0

Intents == {"None", "CloseTab", "Quit", "DeletePath", "DiscardGit", "RecoverBuffer"}
Purposes == {"None", "AddFile", "AddFolder", "Rename", "OpenWorkspace", "RenameSymbol", "SymbolQuery"}
Replies == {"Yes", "No", "Cancel"}

AskAbout(u, intent, f) == [Show(u, "Confirm") EXCEPT !.intent = intent, !.named = f]

\* The question is closed and what it was for forgotten.
Settled(u, part) == [FocusOn(Close(u, {"Confirm"}), part) EXCEPT !.intent = "None"]

RequestQuit(u) == [u EXCEPT !.running = FALSE]

-------------------------------------------------------------------------------
\* Closing tabs, saving and quitting.

OpenSaveConfirm(u, intent) ==
  AskAbout(Close(ClearChord(u), {"Command", "Messages", "FileSearch"}), intent, ActiveFile(u))

CloseActiveTab(u, force) ==
  IF ~force /\ Active(u).dirty THEN OpenSaveConfirm(u, "CloseTab") ELSE CloseActive(u)

ExQuit(u, bang) ==
  IF Len(u.tabs) > 1 THEN CloseActiveTab(u, bang)
  ELSE IF ~bang /\ Active(u).dirty THEN OpenSaveConfirm(u, "Quit")
  ELSE RequestQuit(u)

FinishCloseOrQuit(u, intent) ==
  LET v == Settled(u, "Editor")
  IN  IF intent = "Quit" /\ Len(v.tabs) = 1 THEN RequestQuit(v) ELSE CloseActiveTab(v, TRUE)

Save(u, ok) == IF CanSave(u) /\ ok THEN Write(u) ELSE u

\* A question that a failed save leaves stays open.
ResolveSaveConfirm(u, choice, ok) ==
  IF choice = "Cancel" THEN Settled(u, "Editor")
  ELSE IF choice = "No" THEN FinishCloseOrQuit(u, u.intent)
  ELSE IF CanSave(u) /\ ok THEN FinishCloseOrQuit(Write(u), u.intent)
  ELSE u

ExWrite(u, f, ok) ==
  IF f = NoFile THEN Save(u, ok) ELSE IF ok THEN SaveAs(u, f) ELSE u

ExWriteQuit(u, bang, f, ok) ==
  LET end(v) == IF Len(v.tabs) > 1 THEN CloseActiveTab(v, TRUE) ELSE RequestQuit(v)
  IN  IF f # NoFile THEN (IF ok THEN end(SaveAs(u, f)) ELSE u)
      ELSE IF ActiveFile(u) = NoFile THEN (IF bang THEN end(u) ELSE u)
      ELSE IF CanSave(u) /\ ok THEN end(Write(u))
      ELSE u

ExEdit(u, bang, f) ==
  IF f # NoFile THEN FocusOn(ShowFile(u, f), "Editor")
  ELSE IF Active(u).dirty /\ ~bang THEN u
  ELSE ReloadActive(u)

-------------------------------------------------------------------------------
\* Deleting, discarding, recovering.

OpenDeleteConfirm(u) ==
  LET f == Selected(u)
      v == Close(ClearChord(u), {"Command", "Prompt"})
  IN  IF f = NoFile THEN u ELSE AskAbout([v EXCEPT !.path = f], "DeletePath", f)

ResolveDeleteConfirm(u, choice, ok) ==
  LET v == [Settled(u, "Sidebar") EXCEPT !.path = NoFile]
  IN  IF choice # "Yes" \/ ~ok \/ u.path \notin OnDisk(u) THEN v
      ELSE CloseBuffersUnder(DeleteFile(v, u.path), u.path)

OpenDiscardConfirm(u) ==
  IF ActiveFile(u) = NoFile \/ Active(u).dirty THEN u
  ELSE AskAbout(Close(u, {"Command", "Prompt"}), "DiscardGit", ActiveFile(u))

\* A mutant: the buffer is not looked at again when the answer comes.
DiscardUnseen(u, choice, ok) ==
  LET v == Settled(u, "Editor")
      f == ActiveFile(u)
  IN  IF choice # "Yes" \/ f = NoFile \/ ~ok THEN v
      ELSE SyncActiveTab(ReloadActive([v EXCEPT !.disk[f] = Committed]))

ResolveDiscardConfirm(u, choice, ok) ==
  LET v == Settled(u, "Editor")
      f == ActiveFile(u)
  IN  IF choice # "Yes" \/ f = NoFile \/ Active(u).dirty \/ ~ok THEN v
      ELSE SyncActiveTab(ReloadActive([v EXCEPT !.disk[f] = Committed]))

OpenRecoveryConfirm(u) ==
  IF u.recovery = <<>> THEN u
  ELSE AskAbout(Close(u, {"Command", "Prompt"}), "RecoverBuffer", Head(u.recovery))

\* A mutant: the snapshot leaves the list after the next question.
AskThenPop(u, choice, ok) ==
  [OpenRecoveryConfirm(Settled(u, "Editor")) EXCEPT !.recovery = Tail(@)]

\* ok: the snapshot can be read.  The recovered text is a new one of its tab.
ResolveRecoveryConfirm(u, choice, ok) ==
  LET v == [Settled(u, "Editor") EXCEPT !.recovery = Tail(@)]
      shown == OpenFile(v, Head(u.recovery))
      recovered == SyncActiveTab([Edit(shown, shown.active) EXCEPT !.tabs[shown.active].bad = FALSE])
  IN  OpenRecoveryConfirm(IF choice = "Yes" /\ ok THEN recovered ELSE v)

Resolve(u, choice, ok) ==
  CASE u.intent = "DeletePath" -> ResolveDeleteConfirm(u, choice, ok)
    [] u.intent = "DiscardGit" -> ResolveDiscardConfirm(u, choice, ok)
    [] u.intent = "RecoverBuffer" -> ResolveRecoveryConfirm(u, choice, ok)
    [] OTHER -> ResolveSaveConfirm(u, choice, ok)

-------------------------------------------------------------------------------
\* The input prompt.

OpenSidebarPrompt(u, purpose) ==
  LET v == [Close(ClearChord(u), {"Command", "Confirm", "FileSearch"}) EXCEPT !.purpose = purpose]
  IN  IF purpose = "Rename" /\ Selected(u) = NoFile THEN [v EXCEPT !.purpose = "None"]
      ELSE Show(v, "Prompt")

OpenWorkspacePrompt(u) ==
  Show([Close(ClearChord(u), {"Command", "Confirm", "FileSearch", "BufferSearch"}) EXCEPT
          !.purpose = "OpenWorkspace"], "Prompt")

OpenLspPrompt(u, purpose) ==
  Show([Close(ClearChord(u), {"Command", "LspPicker"}) EXCEPT !.purpose = purpose], "Prompt")

\* apply_workspace_root(): the explorer starts at its first row.
OpenWorkspace(u) == [u EXCEPT !.sel = 1]

\* The prompt's Enter: f is the path that was typed, NoFile when it is empty or no path.
ResolvePrompt(u, f) ==
  LET gone == [Close(u, {"Prompt"}) EXCEPT !.purpose = "None"]
      edited == FocusOn(gone, "Editor")
      v == FocusOn(gone, "Sidebar")
      from == Selected(u)
  IN  CASE u.purpose = "OpenWorkspace" -> IF f = NoFile THEN edited ELSE OpenWorkspace(edited)
        [] u.purpose = "RenameSymbol" -> IF f = NoFile THEN edited ELSE Ask(edited, "rename")
        [] u.purpose = "SymbolQuery" -> Ask(edited, "symbols")
        [] u.purpose = "AddFile" ->
             IF f \in Files \ OnDisk(u) THEN ShowFile(CreateFile(v, f), f) ELSE v
        [] u.purpose = "Rename" ->
             IF f \in Files \ OnDisk(u) /\ from # NoFile THEN RenameFile(v, from, f) ELSE v
        [] OTHER -> v

\* Escape runs the binding that returns to normal mode; then the explorer is given
\* the focus, shown or not.
CancelPrompt(u) == [FocusOn(ReturnToNormal(u), "Sidebar") EXCEPT !.purpose = "None"]
===============================================================================
