------------------------------ MODULE LspService ------------------------------
(***************************************************************************)
(* The service over the sessions (old/src/lsp/lsp_service.cpp, lsp_notify,  *)
(* lsp_request*, lsp_dispatch*, lsp_result): the documents the editor has   *)
(* open, one session per language, started when it is first needed and      *)
(* again when it has failed, the requests under way and the results that    *)
(* wait for the UI.                                                        *)
(*                                                                         *)
(* The operators Notify... and the requests take the desk (the documents    *)
(* and the links) and the link l that session_for() returns, and give the   *)
(* desk after the call.                                                    *)
(***************************************************************************)
EXTENDS LspSession, LspInstaller

CONSTANTS LanguageOf,  \* of each document: it names the server's binary too
          NoDoc,       \* a buffer that documents_ does not know
          Nothing      \* an empty ready slot, or the null of an error response

VARIABLES
  desk,        \* [doc, link]: documents_ and sessions_
  asking,      \* pending_: a set of records with distinct ids
  ready,       \* the ready_ slots
  installGen,  \* install_gen_
  diag         \* the version of the diagnostics shown in each buffer

serviceVars == <<desk, asking, ready, installGen, diag>>

Languages == {LanguageOf[d] : d \in Docs}

Slots == {"completion", "locations", "symbols", "rename", "codeAction", "hover",
          "formatting", "applyEdit"}
Slot(kind) ==
  IF kind \in {"definition", "references"} THEN "locations"
  ELSE IF kind \in {"documentSymbol", "workspaceSymbol"} THEN "symbols"
  ELSE kind

NoneReady == [s \in Slots |-> Nothing]
KnownOpen(d) == desk.doc[d] # NoDoc /\ desk.doc[d].open
LinkOf(d) == desk.link[LanguageOf[d]]

ServiceInit ==
  /\ desk = [doc |-> [d \in Docs |-> NoDoc], link |-> [lang \in Languages |-> NoLink]]
  /\ asking = {} /\ ready = NoneReady /\ installGen = 0
  /\ diag = [d \in Docs |-> 0]

\* session_for(): the live session, or, in place of a failed one, one that was just
\* started, or none: its start failed, or its binary is missing and is asked for.
SessionFor(lang, l) ==
  \/ Live(desk.link[lang]) /\ l = desk.link[lang] /\ UNCHANGED installerVars
  \/ /\ ~Live(desk.link[lang]) /\ lang \in present
     /\ l \in {NoLink, StartedLink} /\ UNCHANGED installerVars
  \/ ~Live(desk.link[lang]) /\ lang \notin present /\ l = NoLink /\ Request(lang, FALSE)

PutLink(s, d, l) == [s EXCEPT !.link[LanguageOf[d]] = l]

\* notify_open(): nothing for an open document; without a session the service keeps
\* the wish to open it.  failed is not in the code: the server did not start.
NotifyOpen(s, l, d, t) ==
  IF s.doc[d] # NoDoc /\ s.doc[d].open THEN s
  ELSE IF l = NoLink
  THEN [PutLink(s, d, l) EXCEPT
          !.doc[d] = [open |-> FALSE, version |-> 0, failed |-> LanguageOf[d] \in present]]
  ELSE [PutLink(s, d, DidOpen(l, d, 1, t)) EXCEPT
          !.doc[d] = [open |-> TRUE, version |-> 1, failed |-> FALSE]]

\* A change whose version is the last one's.
NotifySameVersion(s, l, d, from, to, oneLine) ==
  IF s.doc[d] = NoDoc \/ ~s.doc[d].open \/ l = NoLink THEN s
  ELSE PutLink(s, d, DidChangeIncremental(l, d, s.doc[d].version, from, to))

\* notify_change(), from text from to text to: whole unless the server wants changes and
\* what was deleted lay in one line.
NotifyChange(s, l, d, from, to, oneLine) ==
  IF s.doc[d] = NoDoc \/ ~s.doc[d].open THEN s
  ELSE IF l = NoLink THEN PutLink(s, d, l)
  ELSE LET version == s.doc[d].version + 1
           sent == CASE l.caps.sync = SyncNone -> l
                     [] l.caps.sync = SyncFull \/ ~oneLine -> DidChangeFull(l, d, version, to)
                     [] OTHER -> DidChangeIncremental(l, d, version, from, to)
       IN  [PutLink(s, d, sent) EXCEPT !.doc[d].version = version]

\* A reload that the server of an open document is not told of.
NotifyReloadQuietly(s, l, d, t) ==
  IF s.doc[d] = NoDoc \/ ~s.doc[d].open THEN NotifyOpen(s, l, d, t)
  ELSE [PutLink(s, d, l) EXCEPT !.doc[d].version = @ + 1]

\* notify_reload(): the whole text, or a first open.
NotifyReload(s, l, d, t) ==
  IF s.doc[d] = NoDoc \/ ~s.doc[d].open THEN NotifyOpen(s, l, d, t)
  ELSE IF l = NoLink THEN PutLink(s, d, l)
  ELSE LET version == s.doc[d].version + 1
       IN  [PutLink(s, d, DidChangeFull(l, d, version, t)) EXCEPT !.doc[d].version = version]

\* notify_save() sends a message that changes nothing here; what matters is the session.
NotifySave(s, l, d) ==
  IF s.doc[d] = NoDoc \/ ~s.doc[d].open THEN s ELSE PutLink(s, d, l)

NotifyClose(s, l, d) ==
  IF s.doc[d] = NoDoc THEN s
  ELSE LET told == IF ~s.doc[d].open THEN s
                   ELSE PutLink(s, d, IF l = NoLink THEN l ELSE DidClose(l, d))
       IN  [told EXCEPT !.doc[d] = NoDoc]

-------------------------------------------------------------------------------
\* The requests.

\* The request has an id now; an older request that had the same one is forgotten.
Send(kind, d, l, cleared) ==
  /\ desk' = PutLink(desk, d, Ask(l, kind, d))
  /\ IF l.alive
     THEN /\ asking' = {r \in asking : r.id # l.nextId}
                       \cup {[id |-> l.nextId, kind |-> kind, doc |-> d,
                              version |-> desk.doc[d].version]}
          /\ ready' = [ready EXCEPT ![Slot(kind)] = Nothing]
     ELSE asking' = asking /\ ready' = cleared

\* Hover and formatting first look whether the server offers them.
Gated == {"hover", "formatting"}
Supports(l, kind) == kind \in Gated => l.state = "running" /\ l.caps[kind]

\* request_...(): the slot is emptied before anything else, the completion's at last.
RequestFor(kind, d) ==
  LET cleared == IF kind = "completion" THEN ready ELSE [ready EXCEPT ![Slot(kind)] = Nothing]
      reaches == IF kind \in Gated THEN desk.doc[d] # NoDoc ELSE KnownOpen(d)
  IN  \/ /\ ~reaches
         /\ ready' = IF kind \in Gated THEN ready ELSE cleared
         /\ UNCHANGED <<desk, asking, installerVars>>
      \/ /\ reaches
         /\ \E l \in {LinkOf(d), NoLink, StartedLink} :
              /\ SessionFor(LanguageOf[d], l)
              /\ IF Supports(l, kind) /\ KnownOpen(d) /\ CanAsk(l, kind, d)
                 THEN Send(kind, d, l, cleared)
                 ELSE /\ desk' = PutLink(desk, d, l)
                      /\ ready' = IF Supports(l, kind) THEN cleared ELSE ready
                      /\ UNCHANGED asking

\* cancel_pending(), and what is left of the requests by the calls that clear all.
Forget == asking' = {} /\ ready' = NoneReady

-------------------------------------------------------------------------------
\* A message of the server of language lang, on the main thread, in pump().

\* on_response(): of a request that is under way; an open document must still have the
\* version it was asked in, unless the request is about the workspace.
IsStale(r) ==
  KnownOpen(r.doc) /\ desk.doc[r.doc].version # r.version /\ r.kind # "workspaceSymbol"

ReadyFor(r, found) ==
  [kind |-> r.kind, doc |-> r.doc, version |-> r.version, found |-> found]

OnResponse(msg) ==
  IF \E r \in asking : r.id = msg.id
  THEN LET r == CHOOSE r \in asking : r.id = msg.id
       IN  /\ asking' = asking \ {r}
           /\ ready' = IF IsStale(r) THEN ready
                       ELSE [ready EXCEPT ![Slot(r.kind)] = ReadyFor(r, msg.found)]
  ELSE UNCHANGED <<asking, ready>>

\* on_publish_diagnostics(): of a document that is open, unless it is of an older version.
OnDiagnostics(msg) ==
  diag' = IF KnownOpen(msg.doc) /\ msg.version >= desk.doc[msg.doc].version
          THEN [diag EXCEPT ![msg.doc] = msg.version] ELSE diag

OnMessage(lang) ==
  LET l == desk.link[lang]
      msg == Head(l.out)
      read == [l EXCEPT !.out = Tail(@)]
      Put(k) == desk' = [desk EXCEPT !.link[lang] = k]
  IN  /\ l.out # <<>>
      /\ CASE msg.type = "initialized" ->
                Put(Initialized(read, msg.caps)) /\ UNCHANGED <<asking, ready, diag>>
           [] msg.type = "refused" ->
                Put(InitializeFailed(read)) /\ UNCHANGED <<asking, ready, diag>>
           [] msg.type = "response" -> Put(read) /\ OnResponse(msg) /\ UNCHANGED diag
           [] msg.type = "diagnostics" ->
                Put(read) /\ OnDiagnostics(msg) /\ UNCHANGED <<asking, ready>>
           [] msg.type = "applyEdit" ->
                /\ Put(read)
                /\ ready' = [ready EXCEPT !["applyEdit"] =
                               [kind |-> "applyEdit", doc |-> msg.doc, version |-> 0,
                                found |-> [kind |-> "applyEdit", doc |-> msg.doc]]]
                /\ UNCHANGED <<asking, diag>>
      /\ UNCHANGED <<installGen, installerVars>>

===============================================================================
