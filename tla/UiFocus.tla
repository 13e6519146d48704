-------------------------------- MODULE UiFocus -------------------------------
(***************************************************************************)
(* Who has the keyboard, and what lies over the editor                     *)
(* (old/src/ui/ui_input.cpp, ui_normal.cpp, ui_sidebar.cpp, ui_terminal.cpp,*)
(* ui_pickers.cpp, ui_completion.cpp, ui_lsp.cpp), as functions of the     *)
(* state u of the UI:                                                      *)
(*   focus      the part that the keys go to                               *)
(*   open       the overlays that are open, focused or not                 *)
(*   pending    the keys of an unfinished chord                            *)
(*   asked      the answers awaited from the language server               *)
(*   pick       what the LSP picker lists                                  *)
(*   side, view whether the sidebar shows, and what; term the terminal     *)
(*   intent, path, named   what the confirmation is for, the file a yes    *)
(*              deletes, and the file its question names                   *)
(*   purpose    what the input prompt is for                               *)
(*   running    no quit was requested                                      *)
(***************************************************************************)
EXTENDS UiTabs

Overlays == {"Command", "Messages", "FileSearch", "BufferSearch", "LspPicker", "Completion",
             "Hover", "Confirm", "Prompt"}
Panels == {"Editor", "Sidebar", "Search", "Terminal"}
Answers == {"completion", "location", "symbols", "rename", "actions", "hover", "format"}

Close(u, overlays) == [u EXCEPT !.open = @ \ overlays]
FocusOn(u, part) == [u EXCEPT !.focus = part]
ClearChord(u) == [u EXCEPT !.pending = <<>>]
Show(u, overlay) == [u EXCEPT !.open = @ \cup {overlay}, !.focus = overlay]

\* UI::return_to_normal(): everything is closed and nothing is awaited.
ReturnToNormal(u) ==
  LET asks == "Confirm" \in u.open
  IN  [u EXCEPT !.pending = <<>>, !.asked = {}, !.open = {}, !.focus = "Editor",
                !.intent = IF asks THEN "None" ELSE @,
                !.path = IF asks THEN NoFile ELSE @,
                !.purpose = IF "Prompt" \in u.open THEN "None" ELSE @]

-------------------------------------------------------------------------------
\* The sidebar and the terminal.

SetSidebarVisible(u, visible) ==
  IF u.side = visible THEN u
  ELSE [ClearChord(u) EXCEPT
          !.side = visible,
          !.focus = IF ~visible /\ @ \in {"Sidebar", "Search"} THEN "Editor" ELSE @]

ExplorerView(u) == [ClearChord(u) EXCEPT !.side = TRUE, !.view = "Explorer", !.focus = "Sidebar"]
SearchView(u) == [ClearChord(u) EXCEPT !.side = TRUE, !.view = "Search", !.focus = "Search"]

ToggleSidebarFocus(u) ==
  IF ~u.side THEN ExplorerView(u)
  ELSE IF u.focus \in {"Sidebar", "Search"} THEN ReturnToNormal(u)
  ELSE ClearChord(FocusOn(u, IF u.view = "Search" THEN "Search" ELSE "Sidebar"))

RevealInExplorer(u) ==
  IF ActiveFile(u) = NoFile THEN u ELSE Reveal(ExplorerView(u), ActiveFile(u))

OpenTerminal(u) == [ClearChord(u) EXCEPT !.term = TRUE, !.focus = "Terminal"]
CloseTerminal(u) ==
  [ClearChord(u) EXCEPT !.term = FALSE, !.focus = IF @ = "Terminal" THEN "Editor" ELSE @]
ToggleTerminal(u) == IF u.term /\ u.focus = "Terminal" THEN CloseTerminal(u) ELSE OpenTerminal(u)

\* The screen is cleared: a hidden panel is opened for it, without the focus.
ClearTerminal(u) == IF u.term THEN u ELSE [ClearChord(u) EXCEPT !.term = TRUE]

-------------------------------------------------------------------------------
\* Pickers and panels.

OpenCommandLine(u) == ClearChord(Show(u, "Command"))
OpenMessages(u) == ClearChord(Show(u, "Messages"))

OpenFileSearch(u) ==
  LET v == Close(ClearChord(u), {"Command", "Messages", "BufferSearch", "Confirm"})
  IN  Show([v EXCEPT !.intent = IF "Confirm" \in u.open THEN "None" ELSE @], "FileSearch")

CloseFileSearch(u) == FocusOn(Close(ClearChord(u), {"FileSearch"}), "Editor")

OpenBufferSearch(u) ==
  Show(Close(ClearChord(u), {"Command", "Messages", "FileSearch", "Completion"}), "BufferSearch")

CloseBufferSearch(u) == FocusOn(Close(ClearChord(u), {"BufferSearch"}), "Editor")

OpenLspPicker(u, kind) == [Show(u, "LspPicker") EXCEPT !.pick = kind]
CloseLspPicker(u) == FocusOn(Close(u, {"LspPicker"}), "Editor")

-------------------------------------------------------------------------------
\* The language server: what is asked for, and what its answers do.

Ask(u, kind) == [u EXCEPT !.asked = @ \cup {kind}]
Answered(u, kind) == [u EXCEPT !.asked = @ \ {kind}]

CloseCompletion(u) ==
  FocusOn(Close(ClearChord(Answered(u, "completion")), {"Completion"}), "Editor")

TriggerCompletion(u) ==
  Ask(IF "Completion" \in u.open THEN CloseCompletion(u) ELSE u, "completion")

CompletionAnswer(u) == ClearChord(Show(Close(u, {"FileSearch", "Command"}), "Completion"))
HoverAnswer(u) == ClearChord(Show(u, "Hover"))

GotoLocation(u, f) == FocusOn(ShowFile(u, f), "Editor")

\* LspEdits::apply_workspace_edit(): a file that has no tab is opened for its edit.
EditFile(u, f) ==
  LET v == IF TabsOf(u, f) = {} THEN OpenFile(u, f) ELSE u
  IN  Edit(v, Min(TabsOf(v, f)))
ForEach(Op(_, _), u, files) ==
  FoldLeft(LAMBDA v, f : IF f \in files THEN Op(v, f) ELSE v, u, [f \in Files |-> f])
ApplyWorkspaceEdit(u, files) == SyncActiveTab(ForEach(EditFile, u, files))
FitsBound(u, files) == u.fresh + Cardinality(files) <= MaxTexts

RestartLsp(u) == [u EXCEPT !.asked = {}]
===============================================================================
