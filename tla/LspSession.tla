------------------------------ MODULE LspSession ------------------------------
(***************************************************************************)
(* A session with a language server (old/src/lsp/lsp_session*.cpp over      *)
(* lsp_process*.cpp and lsp_jsonrpc.cpp), as operators on a link: what the  *)
(* session keeps, and the server at the other end of its pipes.            *)
(*                                                                         *)
(* What the session writes is with the server at once and in order; what    *)
(* the server writes waits in out until the session is pumped.  A text is a *)
(* number, the next edit of text n makes text n + 1; a change that is       *)
(* applied to another text than the one it was made in garbles it.          *)
(***************************************************************************)
EXTENDS Integers, Sequences, FiniteSets

CONSTANTS Docs,     \* the documents, by their uris
          Closed,   \* a document the server does not have open
          Garbled   \* its copy after an incremental change of another text

ASSUME SessionAssumption == /\ IsFiniteSet(Docs)
                            /\ Closed \notin [version : Nat, text : Nat \cup {Garbled}]

\* TextDocumentSyncKind and the capabilities the client looks at.
SyncNone == 0
SyncFull == 1
SyncIncremental == 2
NoCaps == [sync |-> SyncIncremental, hover |-> FALSE, formatting |-> FALSE]

\* The link of no session, and of one that start() has just made: the process runs and
\* was sent initialize.
NoLink ==
  [state |-> "none", nextId |-> 1, pending |-> {}, open |-> {}, caps |-> NoCaps,
   alive |-> FALSE, greeted |-> FALSE, copy |-> [d \in Docs |-> Closed], asked |-> {},
   out |-> <<>>]

StartedLink == [NoLink EXCEPT !.state = "starting", !.nextId = 2, !.alive = TRUE]

Live(l) == l.state \in {"starting", "running"}
IsOpen(l, d) == l.state = "running" /\ d \in l.open

\* The server reads a message of the session, if it is alive.
Read(l, read) == IF l.alive THEN read ELSE l

\* flush_did_open().
FlushDidOpen(l, docs) ==
  LET sent == [l EXCEPT !.open = @ \cup {p.doc : p \in docs}]
  IN  Read(sent, [sent EXCEPT !.copy = [d \in Docs |->
             IF \E p \in docs : p.doc = d
             THEN LET p == CHOOSE p \in docs : p.doc = d
                  IN  [version |-> p.version, text |-> p.text]
             ELSE @[d]]])

\* did_open(): while the session starts, the open waits, and a later one of the same
\* document replaces it.
DidOpen(l, d, version, text) ==
  LET open == [doc |-> d, version |-> version, text |-> text]
  IN  IF l.state = "running" THEN FlushDidOpen(l, {open})
      ELSE IF l.state = "starting"
      THEN [l EXCEPT !.pending = {p \in @ : p.doc # d} \cup {open}]
      ELSE l

DidChange(l, d, version, new) ==
  IF IsOpen(l, d)
  THEN Read(l, [l EXCEPT !.copy[d] = [version |-> version, text |-> new]])
  ELSE l

\* did_change_full() and did_change_incremental(): dropped unless the session runs and
\* has the document open.
DidChangeFull(l, d, version, text) == DidChange(l, d, version, text)
DidChangeIncremental(l, d, version, from, to) ==
  DidChange(l, d, version, IF l.copy[d] # Closed /\ l.copy[d].text = from THEN to ELSE Garbled)

\* A close that leaves the set of open documents alone.
DidCloseForgetful(l, d) == Read(l, [l EXCEPT !.copy[d] = Closed])

\* did_close(): sent whatever the session's state, and an open that waits still waits.
DidClose(l, d) ==
  LET sent == [l EXCEPT !.open = @ \ {d}]
  IN  Read(sent, [sent EXCEPT !.copy[d] = Closed])

\* The requests: each takes an id, and none is sent for a document the session has not
\* opened, unless it is about the workspace.
Kinds == {"completion", "definition", "references", "documentSymbol", "workspaceSymbol",
          "rename", "codeAction", "hover", "formatting"}

CanAsk(l, kind, d) == IsOpen(l, d) \/ (kind = "workspaceSymbol" /\ l.state = "running")

\* A request that does not spend its id.
AskWithSameId(l, kind, d) ==
  Read(l, [l EXCEPT !.asked = @ \cup {[id |-> l.nextId, kind |-> kind, doc |-> d]}])

\* The id is spent even when the server cannot be written to, and the caller gets 0.
Ask(l, kind, d) ==
  LET spent == [l EXCEPT !.nextId = @ + 1]
  IN  Read(spent, [spent EXCEPT !.asked = @ \cup {[id |-> l.nextId, kind |-> kind, doc |-> d]}])

\* send_initialized(), after apply_initialize_result(): the opens that waited follow.
Initialized(l, caps) ==
  LET running == [l EXCEPT !.state = "running", !.caps = caps, !.greeted = l.alive]
  IN  [FlushDidOpen(running, l.pending) EXCEPT !.pending = {}]

\* initialize failed: the process is stopped.
InitializeFailed(l) == [l EXCEPT !.state = "failed", !.alive = FALSE, !.out = <<>>]

\* A pump that does not look whether the process is alive.
NeverNoticed(l) == l

\* The end of a pump(): everything that was written has been read, and a process that
\* is gone is noticed.
Noticed(l) ==
  IF ~l.alive /\ Live(l) /\ l.out = <<>> THEN [l EXCEPT !.state = "failed"] ELSE l

-------------------------------------------------------------------------------
\* The server: it answers initialize, answers requests in any order or never, and
\* publishes what it finds in its copy of a document, and may exit.

Post(l, msg) == [l EXCEPT !.out = Append(@, msg)]

AnswerInitialize(l, caps) == Post(l, [type |-> "initialized", caps |-> caps])
RefuseInitialize(l) == Post(l, [type |-> "refused"])

\* The answer to r: of which kind and document, and computed in which text.
Answer(l, r) ==
  LET found == [kind |-> r.kind, doc |-> r.doc,
                text |-> IF l.copy[r.doc] = Closed THEN Closed ELSE l.copy[r.doc].text]
  IN  Post([l EXCEPT !.asked = @ \ {r}], [type |-> "response", id |-> r.id, found |-> found])

Publish(l, d) == Post(l, [type |-> "diagnostics", doc |-> d, version |-> l.copy[d].version])
AskToEdit(l, d) == Post(l, [type |-> "applyEdit", doc |-> d])

===============================================================================
