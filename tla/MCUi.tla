---------------------------------- MODULE MCUi ---------------------------------
(***************************************************************************)
(* The UI on a small instance: two or three paths, a few moves, and what   *)
(* must hold of questions and of text that is not saved.                   *)
(***************************************************************************)
EXTENDS Ui


Bound(chord, command, when) == [chord |-> chord, command |-> command, when |-> when]

\* Each command has a chord of the leader and a key; config.json binds escape without a
\* condition, and F2 where the editor has the focus.
Commands ==
  <<"save", "next", "previous", "close", "quit", "toggleFocus", "toggleSidebar", "search",
    "command", "quickOpen", "editors", "openWorkspace", "reveal", "clearTerminal", "discard",
    "diagnostics", "install", "restartLsp", "suggest", "location", "symbols", "actions",
    "hover", "format", "workspaceSymbols", "saveSession", "restoreSession">>
MCBindings ==
  <<Bound(<<"escape">>, "normal", {}), Bound(<<"f2">>, "renameSymbol", {{"editorFocus"}}),
    Bound(<<"ctrl">>, "terminal", {})>>
  \o [i \in DOMAIN Commands |-> Bound(<<"space", Commands[i]>>, Commands[i], {})]

Disks == {[f \in Files |-> IF f = Max(Files) THEN Gone ELSE 0], [f \in Files |-> 0]}
Snapshots == {<<>>, <<1>>}

===============================================================================
