------------------------------- MODULE LspClient -------------------------------
(***************************************************************************)
(* The editor over the LSP service (old/src/ui/ui_tabs.cpp, ui_lsp*.cpp,    *)
(* ui_features.cpp, ui_completion.cpp, ui_render.cpp), the servers and the  *)
(* installer's jobs.                                                       *)
(*                                                                         *)
(* The UI is one thread: a turn is an input or a render.  What an input     *)
(* leaves the service to be told is in todo; a render pumps the sessions,   *)
(* retries what waited for an installation, and takes the ready results.    *)
(* Servers and installer jobs go on meanwhile.                             *)
(***************************************************************************)
EXTENDS LspService

CONSTANTS
  NoTab,        \* the active buffer is an untitled one
  Asked,        \* the kinds of request the user makes
  AllCaps,      \* the capabilities a server may announce
  StartPresent, \* the binaries there at the start
  MaxKeys,      \* bound: inputs
  MaxPosts,     \* bound: messages a server sends unasked
  MaxCrashes    \* bound: servers that exit

ASSUME ClientAssumption == Asked \subseteq Kinds

VARIABLES
  tabs,     \* the documents with a tab, whose listeners are set
  active,   \* the document of the active tab, or NoTab
  text,     \* the text in each document's buffer, or on disk: a count of its edits
  todo,     \* the calls of the service that the UI is about to make
  phase,    \* "input", "pump" or "poll"
  purpose,  \* what the pump is for: "render", "status" or "format"
  missed,   \* the documents whose server missed a change: no action reads it
  keys, posts, crashes    \* counts of what is bounded

uiVars == <<tabs, active, text, todo, phase, purpose, missed>>
vars == <<serviceVars, installerVars, uiVars, keys, posts, crashes>>

TellOpen(d) == [op |-> "open", doc |-> d]
TellChange(d) == [op |-> "change", doc |-> d]
TellReload(d) == [op |-> "reload", doc |-> d]
TellSave(d) == [op |-> "save", doc |-> d]
TellClose(d) == [op |-> "close", doc |-> d]
\* The end of sync_active_tab().
Sync(d) == IF d = NoTab THEN <<>> ELSE <<TellOpen(d)>>

Init ==
  /\ ServiceInit /\ InstallerInit(StartPresent)
  /\ tabs = {} /\ active = NoTab /\ text = [d \in Docs |-> 0]
  /\ todo = <<>> /\ phase = "input" /\ purpose = "render" /\ missed = {}
  /\ keys = 0 /\ posts = 0 /\ crashes = 0

-------------------------------------------------------------------------------
\* The calls of the service that an input or a result leads to, one after the other.

\* A listener is called when the text has changed.
NewText(c) == text[c.doc] + IF c.op \in {"change", "reload"} THEN 1 ELSE 0

\* What the call does to the desk when session_for() gives l.
Told(c, l, oneLine) ==
  CASE c.op = "open" -> NotifyOpen(desk, l, c.doc, text[c.doc])
    [] c.op = "change" -> NotifyChange(desk, l, c.doc, text[c.doc], NewText(c), oneLine)
    [] c.op = "reload" -> NotifyReload(desk, l, c.doc, NewText(c))
    [] c.op = "save" -> NotifySave(desk, l, c.doc)
    [] c.op = "close" -> NotifyClose(desk, l, c.doc)

NeedsSession(c) ==
  IF c.op = "open" THEN ~KnownOpen(c.doc) ELSE KnownOpen(c.doc) \/ c.op = "reload"

\* A change is missed when the service has the document open and cannot send it; the
\* whole text, or another opening, makes up for it.
Missed(c, l) ==
  IF c.op = "open" THEN IF KnownOpen(c.doc) THEN missed ELSE missed \ {c.doc}
  ELSE IF c.op = "close" THEN missed \ {c.doc}
  ELSE IF c.op = "save" \/ (c.op = "change" /\ ~KnownOpen(c.doc)) THEN missed
  ELSE IF ~KnownOpen(c.doc) THEN missed \ {c.doc}
  ELSE IF ~IsOpen(l, c.doc) \/ (c.op = "change" /\ l.caps.sync = SyncNone)
  THEN missed \cup {c.doc}
  ELSE IF c.op = "reload" THEN missed \ {c.doc} ELSE missed

\* notify_close() also forgets the requests about the document, the completion and the
\* diagnostics.
Forgotten(c) ==
  IF c.op = "close" /\ desk.doc[c.doc] # NoDoc
  THEN /\ asking' = {r \in asking : r.doc # c.doc}
       /\ ready' = [ready EXCEPT !["completion"] = Nothing]
       /\ diag' = [diag EXCEPT ![c.doc] = 0]
  ELSE UNCHANGED <<asking, ready, diag>>

Tell ==
  /\ todo # <<>>
  /\ LET c == Head(todo)
     IN  /\ todo' = Tail(todo) /\ text' = [text EXCEPT ![c.doc] = NewText(c)]
         /\ \E l \in {LinkOf(c.doc), NoLink, StartedLink}, oneLine \in BOOLEAN :
              /\ oneLine => c.op = "change"
              /\ IF NeedsSession(c) THEN SessionFor(LanguageOf[c.doc], l)
                 ELSE l = LinkOf(c.doc) /\ UNCHANGED installerVars
              /\ desk' = Told(c, l, oneLine)
              /\ missed' = Missed(c, l)
         /\ Forgotten(c)
  /\ UNCHANGED <<tabs, active, phase, purpose, installGen, keys, posts, crashes>>

-------------------------------------------------------------------------------
\* A render: render() pumps the service and takes what is ready.

Idle == phase = "input" /\ todo = <<>>

StartPump(why) == phase' = "pump" /\ purpose' = why

Render ==
  /\ Idle /\ StartPump("render")
  /\ UNCHANGED <<serviceVars, installerVars, tabs, active, text, todo, missed, keys, posts, crashes>>

PumpMessage ==
  /\ phase = "pump" /\ todo = <<>>
  /\ \E lang \in Languages : OnMessage(lang)
  /\ UNCHANGED <<uiVars, keys, posts, crashes>>

\* A pump that does not look at the installer's generation.
EndPumpWithoutRetry ==
  /\ phase = "pump" /\ todo = <<>> /\ \A lang \in Languages : desk.link[lang].out = <<>>
  /\ desk' = [desk EXCEPT !.link = [lang \in Languages |-> Noticed(@[lang])]]
  /\ phase' = IF purpose = "status" THEN "input" ELSE "poll"
  /\ UNCHANGED <<asking, ready, diag, installGen, installerVars, tabs, active, text, todo,
                 purpose, missed, keys, posts, crashes>>

\* The end of LspService::pump(): after a change of the installer's generation, every
\* document that waits is opened again.
EndPump ==
  /\ phase = "pump" /\ todo = <<>> /\ \A lang \in Languages : desk.link[lang].out = <<>>
  /\ desk' = [desk EXCEPT !.link = [lang \in Languages |-> Noticed(@[lang])]]
  /\ installGen' = generation
  /\ LET wait == {d \in Docs : desk.doc[d] # NoDoc /\ ~KnownOpen(d)}
     IN  IF generation = installGen \/ wait = {} THEN todo' = <<>>
         ELSE \E order \in {s \in [1..Cardinality(wait) -> wait] : \A d \in wait :
                              \E i \in DOMAIN s : s[i] = d} :
                todo' = [i \in DOMAIN order |-> TellOpen(order[i])]
  /\ phase' = IF purpose = "status" THEN "input" ELSE "poll"
  /\ UNCHANGED <<asking, ready, diag, installerVars, tabs, active, text, purpose, missed,
                 keys, posts, crashes>>

\* The order in which poll_completion_result() and poll_lsp_results() look.
PollOrder == <<"completion", "applyEdit", "locations", "symbols", "rename", "codeAction",
               "hover", "formatting">>

Empty(slot) == ready[slot] = Nothing
IsNext(slot) ==
  LET at == CHOOSE i \in DOMAIN PollOrder : PollOrder[i] = slot
  IN  ~Empty(slot) /\ \A i \in 1..at - 1 : Empty(PollOrder[i])

Polling == phase = "poll" /\ purpose = "render" /\ todo = <<>>
Clear(slot) == ready' = [ready EXCEPT ![slot] = Nothing]

\* A picker or a popup opens.
Show(slot) ==
  /\ Polling /\ slot \in {"completion", "locations", "symbols", "codeAction", "hover"}
  /\ IsNext(slot) /\ Clear(slot)
  /\ UNCHANGED <<desk, asking, installGen, diag, installerVars, uiVars, keys, posts, crashes>>

Visit(d) == tabs' = tabs \cup {d} /\ active' = d /\ todo' = Sync(d)

\* goto_lsp_location(): the only location is gone to.
Goto(slot) ==
  /\ Polling /\ slot \in {"locations", "symbols"} /\ IsNext(slot) /\ Clear(slot)
  /\ Visit(ready[slot].found.doc)
  /\ UNCHANGED <<desk, asking, installGen, diag, installerVars, text, phase, purpose, missed,
                 keys, posts, crashes>>

\* apply_workspace_edit(): a document without a tab gets one, then the change, then the
\* active tab is attached again.
Rewrite(d) ==
  /\ tabs' = tabs \cup {d}
  /\ active' = IF d \in tabs THEN active ELSE d
  /\ todo' = (IF d \in tabs THEN <<>> ELSE <<TellOpen(d)>>)
             \o <<TellChange(d)>> \o Sync(active')

ApplyEdit(slot) ==
  /\ Polling /\ slot \in {"applyEdit", "rename"} /\ IsNext(slot) /\ Clear(slot)
  /\ Rewrite(ready[slot].found.doc)
  /\ UNCHANGED <<desk, asking, installGen, diag, installerVars, text, phase, purpose, missed, keys,
                 posts, crashes>>

\* apply_lsp_format_edits(): to the active buffer, whatever buffer was asked about.
Format ==
  IF active = NoTab THEN UNCHANGED <<tabs, active, todo>> ELSE Rewrite(active)

ApplyFormat ==
  /\ Polling /\ IsNext("formatting") /\ Clear("formatting") /\ Format
  /\ UNCHANGED <<desk, asking, installGen, diag, installerVars, text, phase, purpose, missed, keys,
                 posts, crashes>>

EndPoll ==
  /\ Polling /\ ready = NoneReady /\ phase' = "input"
  /\ UNCHANGED <<serviceVars, installerVars, tabs, active, text, todo, purpose, missed, keys,
                 posts, crashes>>

\* The loop of save_active_buffer(): pump, take the format, sleep, for two seconds.
SaveLoop == phase = "poll" /\ purpose = "format" /\ todo = <<>>

SaveFormatted ==
  /\ SaveLoop /\ ~Empty("formatting") /\ Clear("formatting")
  /\ todo' = <<TellChange(active), TellOpen(active), TellSave(active)>>
  /\ phase' = "input"
  /\ UNCHANGED <<desk, asking, installGen, diag, installerVars, tabs, active, text, purpose, missed,
                 keys, posts, crashes>>

SaveLooksAgain ==
  /\ SaveLoop /\ Empty("formatting") /\ phase' = "pump"
  /\ UNCHANGED <<serviceVars, installerVars, tabs, active, text, todo, purpose, missed, keys,
                 posts, crashes>>

SaveUnformatted ==
  /\ SaveLoop /\ Empty("formatting") /\ phase' = "input" /\ todo' = <<TellSave(active)>>
  /\ UNCHANGED <<serviceVars, installerVars, tabs, active, text, purpose, missed, keys, posts,
                 crashes>>

-------------------------------------------------------------------------------
\* The inputs.

Key == Idle /\ keys < MaxKeys /\ keys' = keys + 1 /\ UNCHANGED <<posts, crashes>>

\* open_file() or a switch to its tab, and sync_active_tab().
OpenTab(d) ==
  /\ Key /\ d # active /\ Visit(d)
  /\ UNCHANGED <<serviceVars, installerVars, text, phase, purpose, missed>>

\* close_active_tab(): what is not saved is lost, another tab becomes active.
CloseTab(d) ==
  /\ Key /\ active = d
  /\ tabs' = tabs \ {d}
  /\ active' \in IF tabs' = {} THEN {NoTab} ELSE tabs'
  /\ todo' = <<TellClose(d)>> \o Sync(active')
  /\ UNCHANGED <<serviceVars, installerVars, text, phase, purpose, missed>>

Edit(d) ==
  /\ Key /\ active = d
  /\ todo' = <<TellChange(d)>>
  /\ UNCHANGED <<serviceVars, installerVars, text, tabs, active, phase, purpose, missed>>

\* Undo, redo, and a file that was changed on disk.
Reload(d) ==
  /\ Key /\ d \in tabs /\ todo' = <<TellReload(d)>>
  /\ UNCHANGED <<serviceVars, installerVars, text, tabs, active, phase, purpose, missed>>

\* The requests; a completion cancels everything first.
AskFor(kind) ==
  /\ Key /\ active # NoTab /\ kind # "completion" /\ RequestFor(kind, active)
  /\ UNCHANGED <<installGen, diag, uiVars>>

AskCompletion ==
  /\ Key /\ active # NoTab /\ "completion" \in Asked
  /\ \/ /\ ~KnownOpen(active) /\ asking' = {} /\ UNCHANGED <<desk, installerVars>>
     \/ /\ KnownOpen(active)
        /\ \E l \in {LinkOf(active), NoLink, StartedLink} :
             /\ SessionFor(LanguageOf[active], l)
             /\ LET asks == CanAsk(l, "completion", active)
                IN  /\ desk' = PutLink(desk, active, IF asks THEN Ask(l, "completion", active) ELSE l)
                    /\ asking' = IF asks /\ l.alive
                                 THEN {[id |-> l.nextId, kind |-> "completion", doc |-> active,
                                        version |-> desk.doc[active].version]}
                                 ELSE {}
  /\ ready' = NoneReady
  /\ UNCHANGED <<installGen, diag, uiVars>>

\* return_to_normal().
Escape ==
  /\ Key /\ Forget
  /\ UNCHANGED <<desk, installGen, diag, installerVars, uiVars>>

\* save_active_buffer(), without format_on_save, and when no format can be asked for.
Save(d) ==
  /\ Key /\ active = d /\ todo' = <<TellSave(d)>>
  /\ UNCHANGED <<serviceVars, installerVars, tabs, active, text, phase, purpose, missed>>

SaveAndFormat(d) ==
  /\ Key /\ active = d /\ RequestFor("formatting", d)
  /\ IF asking' = asking
     THEN todo' = <<TellSave(d)>> /\ UNCHANGED <<phase, purpose>>
     ELSE StartPump("format") /\ UNCHANGED todo
  /\ UNCHANGED <<installGen, diag, tabs, active, text, missed>>

ShowStatus ==
  /\ Key /\ StartPump("status")
  /\ UNCHANGED <<serviceVars, installerVars, tabs, active, text, todo, missed>>

\* shutdown_all(); set_workspace_root() of another root does the same.
ShutDown ==
  /\ desk' = [doc |-> [d \in Docs |-> NoDoc], link |-> [lang \in Languages |-> NoLink]]
  /\ Forget /\ missed' = {}

\* LspRestart: only the active tab is attached.
Restart ==
  /\ Key /\ ShutDown /\ todo' = Sync(active)
  /\ UNCHANGED <<installGen, diag, installerVars, tabs, active, text, phase, purpose>>

OpenWorkspace ==
  /\ Key /\ ShutDown
  /\ UNCHANGED <<installGen, diag, installerVars, tabs, active, text, todo, phase, purpose>>

\* Enter in the picker of the servers (close_lsp_picker()).
InstallKey(b) ==
  /\ Key
  /\ IF b \in present THEN UNCHANGED installerVars ELSE Request(b, TRUE)
  /\ UNCHANGED <<serviceVars, uiVars>>

-------------------------------------------------------------------------------
\* The servers.

Serve(lang, k) ==
  /\ desk.link[lang].alive
  /\ desk' = [desk EXCEPT !.link[lang] = k]
  /\ UNCHANGED <<asking, ready, installGen, diag, installerVars, uiVars, keys>>

ServerStarts(lang) ==
  LET l == desk.link[lang]
  IN  /\ l.state = "starting" /\ l.out = <<>>
      /\ \/ \E caps \in AllCaps : Serve(lang, AnswerInitialize(l, caps))
         \/ Serve(lang, RefuseInitialize(l))
      /\ UNCHANGED <<posts, crashes>>

ServerAnswers(lang) ==
  LET l == desk.link[lang]
  IN  /\ \E r \in l.asked : Serve(lang, Answer(l, r))
      /\ UNCHANGED <<posts, crashes>>

ServerPosts(lang) ==
  LET l == desk.link[lang]
  IN  /\ l.greeted /\ posts < MaxPosts /\ posts' = posts + 1
      /\ \E d \in Docs :
           \/ l.copy[d] # Closed /\ Serve(lang, Publish(l, d))
           \/ LanguageOf[d] = lang /\ Serve(lang, AskToEdit(l, d))
      /\ UNCHANGED crashes

ServerExits(lang) ==
  /\ crashes < MaxCrashes /\ crashes' = crashes + 1
  /\ Serve(lang, [desk.link[lang] EXCEPT !.alive = FALSE])
  /\ UNCHANGED posts

InstallEnds(b) ==
  /\ Install(b) \/ InstallFails(b)
  /\ UNCHANGED <<serviceVars, uiVars, keys, posts, crashes>>

TimePasses(b) ==
  /\ RetryTimePasses(b)
  /\ UNCHANGED <<serviceVars, uiVars, keys, posts, crashes>>

-------------------------------------------------------------------------------
Pump == Render \/ PumpMessage \/ EndPump
Poll == \/ \E slot \in Slots : Show(slot) \/ Goto(slot) \/ ApplyEdit(slot)
        \/ ApplyFormat \/ EndPoll
SaveStep == SaveFormatted \/ SaveLooksAgain \/ SaveUnformatted

UiTurn == Tell \/ Pump \/ Poll \/ SaveStep

Inputs ==
  \/ \E d \in Docs : \/ OpenTab(d) \/ CloseTab(d) \/ Edit(d) \/ Reload(d) \/ Save(d)
                     \/ SaveAndFormat(d)
  \/ \E kind \in Asked : AskFor(kind)
  \/ AskCompletion \/ Escape \/ ShowStatus \/ Restart \/ OpenWorkspace
  \/ \E b \in Binaries : InstallKey(b)

Servers ==
  \E lang \in Languages : \/ ServerStarts(lang) \/ ServerAnswers(lang)
                          \/ ServerPosts(lang) \/ ServerExits(lang)

Next == UiTurn \/ Inputs \/ Servers \/ \E b \in Binaries : InstallEnds(b) \/ TimePasses(b)

\* The loop renders again and again, the two seconds of a save end, and an installation
\* ends one way or the other; nothing is promised of servers and users.
Spec ==
  /\ Init /\ [][Next]_vars
  /\ WF_vars(Tell) /\ WF_vars(Pump) /\ WF_vars(Poll)
  /\ WF_vars(SaveFormatted) /\ SF_vars(SaveUnformatted)
  /\ \A b \in Binaries : WF_vars(InstallEnds(b))

-------------------------------------------------------------------------------
\* A session and its server agree on which documents are open (open_uris_ is what the
\* changes and the requests are gated by).
ClientKnowsServer ==
  \A lang \in Languages :
    LET l == desk.link[lang]
    IN  l.greeted /\ l.alive => l.open = {d \in Docs : l.copy[d] # Closed}

\* A result that is ready answers the request it is kept for: a request's id is that of
\* no request to another server, and of none to a server before the last crash.
AnswersMatch ==
  \A slot \in Slots :
    Empty(slot) \/ (ready[slot].found.kind = ready[slot].kind /\ ready[slot].found.doc = ready[slot].doc)

\* A server has the text of every document it has been told all changes of, under the
\* version of the service.
Mirror ==
  \A d \in Docs \ missed :
    LET l == LinkOf(d)
    IN  KnownOpen(d) /\ l.alive /\ IsOpen(l, d) /\ (\A i \in DOMAIN todo : todo[i].doc # d)
        => l.copy[d] = [version |-> desk.doc[d].version, text |-> text[d]]

\* While a document stays open, its server is told of growing versions only: it is not
\* opened again, and no change has the version of the one before.
VersionsRise ==
  [][\A d \in Docs :
       LET before == LinkOf(d).copy[d]
           after == LinkOf(d)'.copy[d]
       IN  KnownOpen(d) /\ KnownOpen(d)' /\ before # after /\ before # Closed /\ after # Closed
           => after.version > before.version]_vars

\* A document that waits for its server's binary is opened once the binary is there,
\* unless the server does not start, or the document is closed.
Waits(d) == desk.doc[d] # NoDoc /\ ~KnownOpen(d) /\ ~desk.doc[d].failed
WaitingOpens == \A d \in Docs : Waits(d) /\ LanguageOf[d] \in present ~> ~Waits(d)

\* A server that exits is noticed, or replaced.
CrashNoticed ==
  \A lang \in Languages :
    Live(desk.link[lang]) /\ ~desk.link[lang].alive
    ~> ~Live(desk.link[lang]) \/ desk.link[lang].alive

===============================================================================
