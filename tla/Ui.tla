---------------------------------- MODULE Ui ----------------------------------
(***************************************************************************)
(* The first version's UI as a state machine: keys, chords, commands, the  *)
(* explorer, pickers, questions, and answers of the language server that   *)
(* come at any moment (old/src/ui).  The state is one record, ui, whose    *)
(* fields UiTabs, UiFocus and UiConfirm describe.                          *)
(*                                                                         *)
(* moves counts the keys that begin something; the answers to what is      *)
(* open, and what comes from outside, are free.  waived is no part of the  *)
(* program: what the user gave up in the last step, by what the screen     *)
(* said: unsaved texts, and files.                                         *)
(***************************************************************************)
EXTENDS UiConfirm, KeyChords

CONSTANTS MaxMoves,       \* bound: keys that begin something
          MaxEvents,      \* bound: unasked edits of the server, changes by other programs
          StartDisks,     \* the files on disk at the start
          Recoverable     \* the lists of snapshots that the start may find

ASSUME StartAssumption ==
  StartDisks \subseteq [Files -> Nat \cup {Gone}] /\ Recoverable \subseteq Seq(Files)

VARIABLES ui, moves, events, waived

vars == <<ui, moves, events, waived>>

Nothing == [texts |-> {}, files |-> {}]
UnsavedOf(u, tabs) == {u.tabs[i].text : i \in {j \in tabs : u.tabs[j].dirty}}
Unsaved(u) == IF u.running THEN UnsavedOf(u, DOMAIN u.tabs) ELSE {}

\* The program with a file or nothing on its command line, after the session was tried
\* and the snapshots were listed.
Start(disk, f, recovery) ==
  [tabs |-> <<[file |-> f, text |-> 0, dirty |-> FALSE, bad |-> f # NoFile /\ disk[f] = Gone]>>,
   active |-> 1, disk |-> disk, fresh |-> 0, sel |-> 1, clip |-> NoClip,
   session |-> [files |-> <<>>, active |-> 1, side |-> TRUE, term |-> FALSE],
   focus |-> "Editor", open |-> {}, pending |-> <<>>, asked |-> {}, pick |-> "Locations",
   side |-> TRUE, view |-> "Explorer", term |-> FALSE,
   intent |-> "None", path |-> NoFile, named |-> NoFile, purpose |-> "None",
   recovery |-> recovery, running |-> TRUE]

Init ==
  /\ \E disk \in StartDisks, f \in Files \cup {NoFile}, recovery \in Recoverable :
       ui = OpenRecoveryConfirm(Start(disk, f, recovery))
  /\ moves = 0 /\ events = 0 /\ waived = Nothing

\* A step of the program: what it makes of the state and what the user gives up.
Step(u, texts, files) ==
  /\ ui.running
  /\ ui' = u /\ waived' = [texts |-> texts, files |-> files]

Move == moves < MaxMoves /\ moves' = moves + 1
Quietly(u) == Step(u, {}, {})
\* An edit of tab i makes a text of the one before.
Editing(u, i) == Step(u, {ui.tabs[i].text}, {})

-------------------------------------------------------------------------------
\* Keys that a binding may own.

Flags(u) ==
  {CASE u.focus = "Editor" -> "editorFocus" [] u.focus = "Sidebar" -> "sidebarFocus"
     [] u.focus = "Search" -> "searchFocus" [] OTHER -> "otherFocus",
   IF u.side THEN "sidebarVisible" ELSE "sidebarHidden",
   IF u.term THEN "terminalVisible" ELSE "terminalHidden", "normalMode"}

InputContext(u) ==
  CASE u.focus = "Editor" -> "EditorNormal" [] u.focus = "Search" -> "SearchResults"
    [] OTHER -> u.focus

\* The registered commands (register_actions): of the workbench, of what a file has
\* behind it, and of the keymap.  A name that is no command does nothing.
WorkbenchCommand(u, c) ==
  CASE c \in {"normal", "focusEditor"} -> ReturnToNormal(u)
    [] c = "next" -> SyncActiveTab(NextTab(u))
    [] c = "previous" -> SyncActiveTab(PrevTab(u))
    [] c = "close" -> CloseActiveTab(u, FALSE)
    [] c = "quit" -> ExQuit(u, FALSE)
    [] c = "toggleFocus" -> ToggleSidebarFocus(u)
    [] c = "explorer" -> ExplorerView(u)
    [] c = "toggleSidebar" -> SetSidebarVisible(u, ~u.side)
    [] c = "closeSidebar" -> SetSidebarVisible(u, FALSE)
    [] c = "search" -> SearchView(u)
    [] c = "command" -> OpenCommandLine(u)
    [] c = "quickOpen" -> OpenFileSearch(u)
    [] c = "editors" -> OpenBufferSearch(u)
    [] c = "openWorkspace" -> OpenWorkspacePrompt(u)
    [] c = "reveal" -> RevealInExplorer(u)
    [] c = "terminal" -> ToggleTerminal(u)
    [] c = "focusTerminal" -> OpenTerminal(u)
    [] c = "clearTerminal" -> ClearTerminal(u)
    [] OTHER -> u

NavCommand(u, c) ==
  CASE c = "discard" -> OpenDiscardConfirm(u)
    [] c = "install" -> OpenLspPicker(u, "InstallServers")
    [] c = "restartLsp" -> RestartLsp(u)
    [] c = "suggest" -> TriggerCompletion(u)
    [] c \in {"location", "symbols", "actions", "hover"} -> Ask(u, c)
    [] c = "renameSymbol" -> OpenLspPrompt(u, "RenameSymbol")
    [] c = "workspaceSymbols" -> OpenLspPrompt(u, "SymbolQuery")
    [] c = "saveSession" -> SaveSession(u)
    [] c = "restoreSession" -> RestoreSession(u)

KeymapCommand(u, c) ==
  CASE c \in {"find", "gotoLine"} -> OpenCommandLine(u)
    [] c = "format" -> Ask(u, c)
    [] c = "diagnostics" ->
         IF ActiveFile(u) = NoFile THEN u ELSE OpenLspPicker(u, "Locations")

NavCommands == {"discard", "install", "restartLsp", "suggest", "location", "symbols", "actions",
                "hover", "renameSymbol", "workspaceSymbols", "saveSession", "restoreSession"}
KeymapCommands == {"find", "gotoLine", "format", "diagnostics"}
Command(u, c) ==
  IF c \in NavCommands THEN NavCommand(u, c)
  ELSE IF c \in KeymapCommands THEN KeymapCommand(u, c) ELSE WorkbenchCommand(u, c)

Dispatch(key) == ResolveToken(ui.pending, key, Flags(ui), InputContext(ui))

\* dispatch_token(): a chord begun, continued, completed or given up.  The restored
\* session closes every tab unasked.
Press(key) ==
  /\ ui.focus \in {"Editor", "Sidebar", "Search"} \/ (ui.focus = "Terminal" /\ key # Esc)
  /\ \E r \in {Dispatch(key)} :
       LET u == [ui EXCEPT !.pending = r.pending]
       IN  /\ IF r.status = "Matched" THEN Move ELSE UNCHANGED moves
           /\ CASE r.status # "Matched" -> Quietly(u)
                [] r.command = "save" -> \E ok \in BOOLEAN : Quietly(Save(u, ok))
                [] r.command = "restoreSession" -> Step(Command(u, r.command), Unsaved(ui), {})
                [] OTHER -> Quietly(Command(u, r.command))
  /\ UNCHANGED events

-------------------------------------------------------------------------------
\* The editor and the command line.  A key that no binding owns reaches the part that
\* has the focus, and the chord is given up.

Type ==
  /\ ui.focus = "Editor" /\ CanEdit(ui)
  /\ Editing(Edit(ClearChord(ui), ui.active), ui.active)
  /\ UNCHANGED <<moves, events>>

\* execute_command() before the ex command runs.
Entered == FocusOn(Close(ui, {"Command"}), "Editor")

ExCommand(u) ==
  LET given == UnsavedOf(u, {u.active})
  IN  \/ Quietly(u)
      \/ \E bang \in BOOLEAN : Step(ExQuit(u, bang), IF bang THEN given ELSE {}, {})
      \/ \E f \in Files \cup {NoFile}, ok \in BOOLEAN : Quietly(ExWrite(u, f, ok))
      \/ \E bang \in BOOLEAN, f \in Files \cup {NoFile}, ok \in BOOLEAN :
           Step(ExWriteQuit(u, bang, f, ok), IF bang THEN given ELSE {}, {})
      \/ \E bang \in BOOLEAN, f \in Files \cup {NoFile} :
           Step(ExEdit(u, bang, f), IF bang THEN given ELSE {}, {})
      \/ \E bang \in BOOLEAN : Step(CloseActiveTab(u, bang), IF bang THEN given ELSE {}, {})
      \/ Quietly(OpenMessages(u))
      \/ \E c \in {"next", "previous", "toggleSidebar", "explorer", "closeSidebar", "quickOpen",
                   "editors", "search", "terminal", "focusTerminal", "clearTerminal", "install"} :
           Quietly(Command(u, c))
      \/ Quietly(CloseTerminal(u))
      \/ \E f \in OnDisk(u) : Quietly(OpenWorkspace(u))

EnterCommand == ui.focus = "Command" /\ ExCommand(Entered) /\ UNCHANGED <<moves, events>>

\* Escape, or q where it closes a panel.
Dismiss ==
  /\ ui.focus \in {"Command", "Messages", "Hover", "Sidebar", "Search"}
  /\ Quietly(ReturnToNormal(ui)) /\ UNCHANGED <<moves, events>>

\* ctrl-] leaves the terminal.
LeaveTerminal == ui.focus = "Terminal" /\ Quietly(ReturnToNormal(ui)) /\ UNCHANGED <<moves, events>>

-------------------------------------------------------------------------------
\* The explorer and the search panel.

Explore(u, texts, files) ==
  ui.focus = "Sidebar" /\ Move /\ Step(u, texts, files) /\ UNCHANGED events

Chosen == ClampSelection(ClearChord(ui))

MoveSelection ==
  ui.focus = "Sidebar" /\ \E row \in Rows(ui) \ {Chosen.sel} : Explore([Chosen EXCEPT !.sel = row], {}, {})

OpenSelected ==
  /\ ui.focus = "Sidebar" /\ Selected(Chosen) # NoFile
  /\ Explore(FocusOn(ShowFile(Chosen, Selected(Chosen)), "Editor"), {}, {})

AskName == \E purpose \in {"AddFile", "AddFolder", "Rename"} : Explore(OpenSidebarPrompt(Chosen, purpose), {}, {})
AskDelete == Explore(OpenDeleteConfirm(Chosen), {}, {})

Take ==
  /\ ui.focus = "Sidebar" /\ Selected(Chosen) # NoFile
  /\ \E mode \in {"Cut", "Copy"} :
       Quietly([Chosen EXCEPT !.clip = [mode |-> mode, file |-> Selected(Chosen)]])
  /\ UNCHANGED <<moves, events>>

\* A moved file that is active is loaded anew from its new path, unsaved text and all.
Paste ==
  LET f == Chosen.clip.file
      cut == Chosen.clip.mode = "Cut"
      reloaded == IF cut /\ ActiveFile(ui) = f THEN UnsavedOf(ui, {ui.active}) ELSE {}
  IN  /\ ui.focus = "Sidebar"
      /\ IF f \notin OnDisk(ui) THEN Explore([Chosen EXCEPT !.clip = NoClip], {}, {})
         ELSE \E g \in Files \ OnDisk(ui) : Explore(PasteFile(Chosen, g), reloaded, IF cut THEN {f} ELSE {})

OpenMatch ==
  /\ ui.focus = "Search" /\ Move
  /\ \E f \in Files : Quietly(ClearChord(FocusOn(ShowFile(ui, f), "Editor")))
  /\ UNCHANGED events

\* apply_replace_all(): a file with a tab is edited there, another one on disk.
ReplaceIn(u, f) ==
  IF TabsOf(u, f) # {} THEN Edit(u, Min(TabsOf(u, f)))
  ELSE [u EXCEPT !.disk[f] = u.fresh + 1, !.fresh = @ + 1]

ReplaceEverywhere ==
  /\ ui.focus = "Search" /\ Move
  /\ \E files \in SUBSET (OnDisk(ui) \cup {f \in Files : TabsOf(ui, f) # {}}) \ {{}} :
       /\ FitsBound(ui, files)
       /\ Step(SyncActiveTab(ForEach(ReplaceIn, ClearChord(ui), files)),
               UnsavedOf(ui, UNION {TabsOf(ui, f) : f \in files}), {})
  /\ UNCHANGED events

-------------------------------------------------------------------------------
\* Pickers.

PickFile ==
  /\ ui.focus = "FileSearch"
  /\ \/ Quietly(CloseFileSearch(ui))
     \/ \E f \in OnDisk(ui) : Quietly(ShowFile(CloseFileSearch(ui), f))
  /\ UNCHANGED <<moves, events>>

PickBuffer ==
  /\ ui.focus = "BufferSearch"
  /\ \/ Quietly(CloseBufferSearch(ui))
     \/ \E i \in DOMAIN ui.tabs : Quietly(SyncActiveTab(SwitchTo(CloseBufferSearch(ui), i)))
  /\ UNCHANGED <<moves, events>>

\* A workspace edit of the files: by a code action, a rename, or the server.
Edits(u, files) ==
  /\ FitsBound(u, files)
  /\ Step(ApplyWorkspaceEdit(u, files), UnsavedOf(ui, UNION {TabsOf(ui, f) : f \in files}), {})

PickLsp ==
  /\ ui.focus = "LspPicker"
  /\ \/ Quietly(CloseLspPicker(ui))
     \/ ui.pick = "Locations" /\ \E f \in Files : Quietly(GotoLocation(CloseLspPicker(ui), f))
     \/ ui.pick = "Actions" /\ \E f \in Files : Edits(CloseLspPicker(ui), {f})
  /\ UNCHANGED <<moves, events>>

PickCompletion ==
  /\ ui.focus = "Completion"
  /\ \/ Quietly(CloseCompletion(ui))
     \/ CanEdit(ui) /\ Editing(Edit(CloseCompletion(ui), ui.active), ui.active)
  /\ UNCHANGED <<moves, events>>

-------------------------------------------------------------------------------
\* Questions.

\* What an answer gives up, by the question on the screen: the unsaved text of the file
\* it names, or the file.  A tab that came to the front behind the question is closed in
\* the other's place.
Given(choice) ==
  LET asked == {i \in DOMAIN ui.tabs : ui.tabs[i].file = ui.named}
      front == IF ActiveFile(ui) # ui.named THEN {ui.active} ELSE {}
  IN  CASE choice = "No" /\ ui.intent \in {"CloseTab", "Quit"} ->
             [texts |-> UnsavedOf(ui, asked \cup front), files |-> {}]
        [] choice = "Yes" /\ ui.intent = "DeletePath" ->
             [texts |-> UnsavedOf(ui, asked), files |-> {ui.named}]
        [] choice = "Yes" /\ ui.intent = "RecoverBuffer" ->
             [texts |-> UnsavedOf(ui, asked), files |-> {}]
        [] OTHER -> Nothing

Answer ==
  /\ ui.focus = "Confirm"
  /\ \E choice \in Replies, ok \in BOOLEAN :
       /\ ui.intent = "RecoverBuffer" => CanEdit(ui)
       /\ Step(Resolve(ui, choice, ok), Given(choice).texts, Given(choice).files)
  /\ UNCHANGED <<moves, events>>

EnterPrompt ==
  /\ ui.focus = "Prompt"
  /\ \E f \in Files \cup {NoFile} :
       Step(ResolvePrompt(ui, f), {}, IF ui.purpose = "Rename" THEN {Selected(ui)} ELSE {})
  /\ UNCHANGED <<moves, events>>

LeavePrompt == ui.focus = "Prompt" /\ Quietly(CancelPrompt(ui)) /\ UNCHANGED <<moves, events>>

-------------------------------------------------------------------------------
\* What comes from outside, at any moment.

LspAnswer ==
  \E kind \in ui.asked :
    LET u == Answered(ui, kind)
    IN  /\ \/ Quietly(u)
           \/ kind = "completion" /\ Quietly(CompletionAnswer(u))
           \/ kind = "hover" /\ Quietly(HoverAnswer(u))
           \/ kind = "location" /\ \E f \in Files : Quietly(GotoLocation(u, f))
           \/ kind \in {"location", "symbols"} /\ Quietly(OpenLspPicker(u, "Locations"))
           \/ kind = "actions" /\ Quietly(OpenLspPicker(u, "Actions"))
           \/ kind = "rename" /\ \E files \in SUBSET Files \ {{}} : Edits(u, files)
           \/ kind = "format" /\ ActiveFile(u) # NoFile /\ Edits(u, {ActiveFile(u)})
        /\ UNCHANGED <<moves, events>>

Event == events < MaxEvents /\ events' = events + 1 /\ UNCHANGED moves

\* The server's workspace/applyEdit.
ServerEdit == Event /\ \E f \in Files : Edits(ui, {f})

\* Another program makes or removes a file: the explorer's rows move.
OtherProgram ==
  /\ Event
  /\ \/ \E f \in Files \ OnDisk(ui) : Quietly([ui EXCEPT !.disk[f] = 0])
     \/ \E f \in OnDisk(ui) : Step([ui EXCEPT !.disk[f] = Gone], {}, {f})

\* The keys that begin a chord, and when one is begun those that go on.
NextKeys(u) ==
  LET next == Len(u.pending) + 1
  IN  {b.chord[next] : b \in {c \in ToSet(Bindings) : Len(c.chord) >= next}} \cup {Leader, Esc}

Next ==
  \/ \E key \in NextKeys(ui) : Press(key)
  \/ Type \/ EnterCommand \/ Dismiss \/ LeaveTerminal
  \/ MoveSelection \/ OpenSelected \/ AskName \/ AskDelete \/ Take \/ Paste
  \/ OpenMatch \/ ReplaceEverywhere
  \/ PickFile \/ PickBuffer \/ PickLsp \/ PickCompletion
  \/ Answer \/ EnterPrompt \/ LeavePrompt
  \/ LspAnswer \/ ServerEdit \/ OtherProgram

Spec == Init /\ [][Next]_vars

-------------------------------------------------------------------------------
\* The overlay that has the focus is open, and what a question or prompt is for is known.
Attended(u) ==
  /\ u.focus \in Overlays => u.focus \in u.open
  /\ u.focus = "Confirm" =>
       /\ u.intent # "None"
       /\ u.intent = "DeletePath" => u.path = u.named /\ u.path # NoFile
       /\ u.intent = "RecoverBuffer" => u.recovery # <<>> /\ u.named = Head(u.recovery)
  /\ u.focus = "Prompt" => u.purpose # "None"

\* The keys go to something that is there, and an answer has a question: whatever took
\* the focus, closed an overlay or replaced a question in between, the overlay that has
\* the focus is open, a yes that deletes deletes the file that the question names, one
\* that recovers recovers that file, and a prompt knows what its text is for
\* (ui_input_overlay.cpp:119, ui_sidebar_delete.cpp:25, ui_recovery.cpp:28).
AnswersItsQuestion == Attended(ui)

\* Unsaved text and files go only when the user said so, by a bang, by the answer to a
\* question that names them, or by a rename or a cut, whatever switched tabs, stole the
\* focus or failed in between (FEATURES.md:150, :157).  Three ways round the question
\* are left out by name: restoring a session, pasting the cut file that is being edited,
\* and a tab that the server brought to the front behind the question.
NothingLostUnasked ==
  [][/\ Unsaved(ui) \subseteq Unsaved(ui') \cup {ui'.disk[f] : f \in Files} \cup waived'.texts
     /\ OnDisk(ui) \subseteq OnDisk(ui') \cup waived'.files]_vars
===============================================================================
