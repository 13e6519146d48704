------------------------------- MODULE LspProofs -------------------------------
(***************************************************************************)
(* What LspClient keeps of the servers' copies of the documents and of the  *)
(* requests, for every number of documents, languages, inputs, messages and *)
(* crashes.                                                                *)
(*                                                                         *)
(* A document that the service has open has an entry with a version.  Its   *)
(* server's copy is never ahead of that version, and, unless a change was   *)
(* missed, the copy, or the opening that waits for the server to start, is  *)
(* of that version and of the buffer's text (EntryOK).  A call of the       *)
(* service changes its own document only, or replaces the session by a new  *)
(* one, in which nothing is open (Touch, Fresh).                           *)
(***************************************************************************)
EXTENDS LspClient, SequenceTheorems, FiniteSetTheorems, TLAPS

(* The types.                                                              *)
Copies == [version : Nat, text : Nat \cup {Garbled}]
Opens == [doc : Docs, version : {1}, text : Nat]
Asks == [id : Nat, kind : Kinds, doc : Docs]
Found == [kind : Kinds, doc : Docs, text : Nat \cup {Closed, Garbled}]
Messages == [type : {"initialized"}, caps : AllCaps]
            \cup [type : {"refused"}]
            \cup [type : {"response"}, id : Nat, found : Found]
            \cup [type : {"diagnostics"}, doc : Docs, version : Nat]
            \cup [type : {"applyEdit"}, doc : Docs]
Links == [state : {"none", "starting", "running", "failed"}, nextId : Nat,
          pending : SUBSET Opens, open : SUBSET Docs, caps : AllCaps \cup {NoCaps},
          alive : BOOLEAN, greeted : BOOLEAN, copy : [Docs -> Copies \cup {Closed}],
          asked : SUBSET Asks, out : Seq(Messages)]
Entries == [open : BOOLEAN, version : Nat, failed : BOOLEAN]
Desks == [doc : [Docs -> Entries \cup {NoDoc}], link : [Languages -> Links]]
Calls == [op : {"open", "change", "reload", "save", "close"}, doc : Docs]

\* A session and its server.
LinkOK(l) ==
  /\ l \in Links
  /\ l.alive => l.open = {d \in Docs : l.copy[d] # Closed}
  /\ l.state = "starting" => \A d \in Docs : l.copy[d] = Closed
  /\ l.state = "running" => l.pending = {}
  /\ l.state \in {"none", "failed"} => l.out = <<>> /\ ~l.alive

\* The entry e of document d, whose text is t, and its session.
EntryOK(l, d, e, t, miss) ==
  e # NoDoc /\ e.open =>
    /\ e.version >= 1
    /\ l.alive /\ l.copy[d] # Closed => l.copy[d].version <= e.version
    /\ d \notin miss =>
         /\ l.alive /\ d \in l.open => l.copy[d] = [version |-> e.version, text |-> t]
         /\ \A p \in l.pending : p.doc = d => p.version = e.version /\ p.text = t

DeskOK(s, tx, miss) ==
  /\ s \in Desks
  /\ \A lang \in Languages : LinkOK(s.link[lang])
  /\ \A d \in Docs : EntryOK(s.link[LanguageOf[d]], d, s.doc[d], tx[d], miss)

\* What is ready is about a document.
ReadyOK ==
  /\ ready = [slot \in Slots |-> ready[slot]]
  /\ \A slot \in Slots : ~Empty(slot) => ready[slot].found.doc \in Docs

TypeOK ==
  /\ text \in [Docs -> Nat] /\ todo \in Seq(Calls)
  /\ tabs \subseteq Docs /\ active \in Docs \cup {NoTab}
  /\ ReadyOK

FormatsActive == phase # "input" /\ purpose = "format" => active \in Docs

IInv == TypeOK /\ FormatsActive /\ DeskOK(desk, text, missed)

\* What is asked of a server, and what it answers, has the kind and document of the
\* request that has the same id.
Answered(l, under) ==
  /\ \A r \in l.asked : /\ r.id < l.nextId
                        /\ \A q \in under : q.id = r.id => q.kind = r.kind /\ q.doc = r.doc
  /\ \A i \in DOMAIN l.out : l.out[i].type = "response" =>
       /\ l.out[i].id < l.nextId
       /\ \A q \in under : q.id = l.out[i].id =>
            q.kind = l.out[i].found.kind /\ q.doc = l.out[i].found.doc

AnswersOK == \A lang \in Languages : Answered(desk.link[lang], asking)

\* A session that was just started, or none.
Fresh(l) == l \in {NoLink, StartedLink}

\* k is l after a call about document d.
Touch(l, k, d) ==
  /\ k.state = l.state /\ k.nextId = l.nextId /\ k.alive = l.alive
  /\ k.asked = l.asked /\ k.out = l.out
  /\ \A e \in Docs \ {d} : /\ k.copy[e] = l.copy[e]
                           /\ e \in k.open <=> e \in l.open
                           /\ \A p \in Opens : p.doc = e => (p \in k.pending <=> p \in l.pending)

\* The documents are the same in k, whose server may have exited.
SameDocuments(l, k) ==
  k.copy = l.copy /\ k.open = l.open /\ k.pending = l.pending /\ (k.alive => l.alive)

\* A document that stays open is told of growing versions.
RisesAt(s, r, d) ==
  LET before == s.link[LanguageOf[d]].copy[d]
      after == r.link[LanguageOf[d]].copy[d]
  IN  /\ s.doc[d] # NoDoc /\ s.doc[d].open /\ r.doc[d] # NoDoc /\ r.doc[d].open
      /\ before # after /\ before # Closed /\ after # Closed
      => after.version > before.version
Rises(s, r) == \A d \in Docs : RisesAt(s, r, d)

\* No request is sent and nothing is answered.
Quiet(s, r) ==
  \A lang \in Languages :
    LET l == s.link[lang]
        k == r.link[lang]
    IN  \/ k.asked = l.asked /\ k.out = l.out /\ k.nextId = l.nextId
        \/ k.asked = {} /\ k.out = <<>>

-------------------------------------------------------------------------------
(* The operators on a link.                                                *)

LEMMA FreshLinks ==
  ASSUME NEW l, Fresh(l)
  PROVE  /\ LinkOK(l) /\ ~(l.alive /\ l.open # {})
         /\ l.pending = {} /\ l.asked = {} /\ l.out = <<>> /\ l.open = {}
         /\ \A d \in Docs : l.copy[d] = Closed
         /\ \A d, e, t, miss : d \in Docs /\ (e # NoDoc /\ e.open => e.version >= 1)
              => EntryOK(l, d, e, t, miss)
<1>1. <<>> \in Seq(Messages)
  BY EmptySeq
<1>2. NoLink \in Links /\ StartedLink \in Links
  BY <1>1 DEF Links, NoLink, StartedLink, NoCaps
<1>3. /\ l \in Links /\ l.state \in {"none", "starting"} /\ (l.state = "none" => ~l.alive)
      /\ l.pending = {} /\ l.asked = {} /\ l.out = <<>> /\ l.open = {}
      /\ l.copy = [d \in Docs |-> Closed]
  <2> DEFINE Blank(m) == /\ m.pending = {} /\ m.asked = {} /\ m.out = <<>> /\ m.open = {}
                         /\ m.copy = [d \in Docs |-> Closed]
  <2>1. NoLink.state = "none" /\ ~NoLink.alive /\ Blank(NoLink)
    BY DEF NoLink
  <2>2. StartedLink.state = "starting" /\ Blank(StartedLink)
    BY DEF NoLink, StartedLink
  <2>. QED BY <1>2, <2>1, <2>2 DEF Fresh
<1>4. LinkOK(l)
  BY <1>3 DEF LinkOK
<1>5. \A d \in Docs : l.copy[d] = Closed
  BY <1>3
<1>6. \A d, e, t, miss : d \in Docs /\ (e # NoDoc /\ e.open => e.version >= 1)
        => EntryOK(l, d, e, t, miss)
  BY <1>3, <1>5 DEF EntryOK
<1>. QED BY <1>3, <1>4, <1>5, <1>6

LEMMA DidOpenOK ==
  ASSUME NEW l, LinkOK(l), NEW d \in Docs, NEW t \in Nat
  PROVE  LET k == DidOpen(l, d, 1, t)
         IN  /\ LinkOK(k) /\ Touch(l, k, d)
             /\ Live(l) => \A miss : EntryOK(k, d, [open |-> TRUE, version |-> 1,
                                                    failed |-> FALSE], t, miss)
<1> DEFINE open == [doc |-> d, version |-> 1, text |-> t]
           k == DidOpen(l, d, 1, t)
           e == [open |-> TRUE, version |-> 1, failed |-> FALSE]
<1>1. l \in Links
  BY DEF LinkOK
<1>2. open \in Opens
  BY DEF Opens
<1>3. CASE l.state = "running"
  <2> DEFINE c == [x \in Docs |-> IF x = d THEN [version |-> 1, text |-> t] ELSE l.copy[x]]
             o == l.open \cup {d}
  <2>1. {p.doc : p \in {open}} = {d}
    OBVIOUS
  <2>2. (CHOOSE p \in {open} : p.doc = d) = open
    OBVIOUS
  <2>3. \A x \in Docs : (\E p \in {open} : p.doc = x) <=> x = d
    OBVIOUS
  <2>4. [x \in Docs |-> IF \E p \in {open} : p.doc = x
                        THEN LET p == CHOOSE p \in {open} : p.doc = x
                             IN  [version |-> p.version, text |-> p.text]
                        ELSE l.copy[x]] = c
    BY <2>2, <2>3
  <2>5. k = IF l.alive THEN [[l EXCEPT !.open = o] EXCEPT !.copy = c] ELSE [l EXCEPT !.open = o]
    BY <1>1, <1>3, <2>1, <2>4 DEF DidOpen, FlushDidOpen, Read, Links
  <2>6. /\ c \in [Docs -> Copies \cup {Closed}] /\ o \in SUBSET Docs
        /\ c[d] = [version |-> 1, text |-> t]
        /\ \A x \in Docs \ {d} : c[x] = l.copy[x]
    BY <1>1 DEF Links, Copies
  <2>7. c[d] # Closed
    BY <2>6, SessionAssumption
  <2> HIDE DEF c
  <2>8. /\ k \in Links /\ k.state = l.state /\ k.nextId = l.nextId /\ k.alive = l.alive
        /\ k.asked = l.asked /\ k.out = l.out /\ k.pending = l.pending /\ k.open = o
        /\ k.copy = IF l.alive THEN c ELSE l.copy
    <3> HIDE DEF o
    <3>1. CASE l.alive
      <4>1. k = [[l EXCEPT !.open = o] EXCEPT !.copy = c]
        BY <2>5, <3>1
      <4>. QED BY <1>1, <2>6, <3>1, <4>1 DEF Links
    <3>2. CASE ~l.alive
      <4>1. k = [l EXCEPT !.open = o]
        BY <2>5, <3>2
      <4>. QED BY <1>1, <2>6, <3>2, <4>1 DEF Links
    <3>. QED BY <3>1, <3>2
  <2>9. LinkOK(k)
    BY <1>3, <2>6, <2>7, <2>8 DEF LinkOK
  <2>10. Touch(l, k, d)
    BY <2>6, <2>8 DEF Touch
  <2>11. l.pending = {}
    BY <1>3 DEF LinkOK
  <2>12. \A miss : EntryOK(k, d, e, t, miss)
    BY <2>6, <2>8, <2>11 DEF EntryOK
  <2>. QED BY <2>9, <2>10, <2>12
<1>4. CASE l.state = "starting"
  <2> DEFINE w == {p \in l.pending : p.doc # d} \cup {open}
  <2>1. k = [l EXCEPT !.pending = w]
    BY <1>1, <1>4 DEF DidOpen, Links
  <2>2. w \in SUBSET Opens /\ \A p \in w : p.doc = d => p = open
    BY <1>1, <1>2 DEF Links
  <2>3. \A p \in Opens : p.doc # d => (p \in w <=> p \in l.pending)
    OBVIOUS
  <2>4. open.version = 1 /\ open.text = t
    OBVIOUS
  <2> HIDE DEF w, open
  <2>5. /\ k \in Links /\ k.state = l.state /\ k.nextId = l.nextId /\ k.alive = l.alive
        /\ k.asked = l.asked /\ k.out = l.out /\ k.pending = w /\ k.open = l.open
        /\ k.copy = l.copy
    BY <1>1, <2>1, <2>2 DEF Links
  <2>6. LinkOK(k)
    BY <1>4, <2>5 DEF LinkOK
  <2>7. Touch(l, k, d)
    BY <2>3, <2>5 DEF Touch
  <2>8. l.copy[d] = Closed /\ (l.alive => d \notin l.open)
    BY <1>4 DEF LinkOK
  <2>9. \A miss : EntryOK(k, d, e, t, miss)
    BY <2>2, <2>4, <2>5, <2>8 DEF EntryOK
  <2>. QED BY <2>6, <2>7, <2>9
<1>5. CASE ~Live(l)
  <2>1. k = l
    BY <1>5 DEF DidOpen, Live
  <2>. QED BY <1>5, <2>1 DEF Touch
<1>. QED BY <1>3, <1>4, <1>5 DEF Live

\* A change reaches a server that has the document open; another session drops it.
LEMMA DidChangeOK ==
  ASSUME NEW l, LinkOK(l), NEW d \in Docs, NEW version \in Nat,
         NEW new \in Nat \cup {Garbled}
  PROVE  LET k == DidChange(l, d, version, new)
         IN  /\ LinkOK(k) /\ Touch(l, k, d)
             /\ k.open = l.open /\ k.pending = l.pending
             /\ ~(IsOpen(l, d) /\ l.alive) => k = l
             /\ IsOpen(l, d) /\ l.alive => k.copy[d] = [version |-> version, text |-> new]
<1> DEFINE k == DidChange(l, d, version, new)
           x == [version |-> version, text |-> new]
           c == [l.copy EXCEPT ![d] = x]
<1>1. l \in Links
  BY DEF LinkOK
<1>2. CASE ~(IsOpen(l, d) /\ l.alive)
  <2>1. k = l
    BY <1>2 DEF DidChange, Read
  <2>. QED BY <1>2, <2>1 DEF Touch
<1>3. CASE IsOpen(l, d) /\ l.alive
  <2>1. k = [l EXCEPT !.copy = c]
    BY <1>1, <1>3 DEF DidChange, Read
  <2>2. x \in Copies
    BY DEF Copies
  <2>3. /\ c \in [Docs -> Copies \cup {Closed}] /\ c[d] = x
        /\ \A e \in Docs \ {d} : c[e] = l.copy[e]
    BY <1>1, <2>2 DEF Links
  <2>4. x # Closed /\ l.copy[d] # Closed
    BY <1>3, SessionAssumption DEF LinkOK, IsOpen
  <2> HIDE DEF c, x
  <2>5. /\ k \in Links /\ k.state = l.state /\ k.nextId = l.nextId /\ k.alive = l.alive
        /\ k.asked = l.asked /\ k.out = l.out /\ k.pending = l.pending /\ k.open = l.open
        /\ k.copy = c
    BY <1>1, <2>1, <2>3 DEF Links
  <2>6. k.alive => k.open = {e \in Docs : k.copy[e] # Closed}
    <3>1. \A e \in Docs : k.copy[e] # Closed <=> l.copy[e] # Closed
      BY <2>3, <2>4, <2>5
    <3>. QED BY <2>5, <3>1 DEF LinkOK
  <2>7. LinkOK(k)
    BY <1>3, <2>5, <2>6 DEF LinkOK, IsOpen
  <2>8. Touch(l, k, d)
    BY <2>3, <2>5 DEF Touch
  <2>. QED BY <1>3, <2>3, <2>5, <2>7, <2>8 DEF x
<1>. QED BY <1>2, <1>3

\* The two forms of a change: a copy of the text before it becomes one of the text after.
LEMMA ChangesOK ==
  ASSUME NEW l, LinkOK(l), NEW d \in Docs, NEW version \in Nat,
         NEW from \in Nat, NEW to \in Nat, NEW k,
         k \in {DidChangeFull(l, d, version, to), DidChangeIncremental(l, d, version, from, to)}
  PROVE  /\ LinkOK(k) /\ Touch(l, k, d)
         /\ k.open = l.open /\ k.pending = l.pending
         /\ ~(IsOpen(l, d) /\ l.alive) => k = l
         /\ IsOpen(l, d) /\ l.alive =>
              /\ k.copy[d].version = version
              /\ \/ k = DidChangeFull(l, d, version, to)
                 \/ l.copy[d] # Closed /\ l.copy[d].text = from
                 => k.copy[d] = [version |-> version, text |-> to]
<1>1. CASE k = DidChangeFull(l, d, version, to)
  <2>1. k = DidChange(l, d, version, to)
    BY <1>1 DEF DidChangeFull
  <2>. QED BY <2>1, DidChangeOK
<1>2. CASE k = DidChangeIncremental(l, d, version, from, to) /\ k # DidChangeFull(l, d, version, to)
  <2> DEFINE new == IF l.copy[d] # Closed /\ l.copy[d].text = from THEN to ELSE Garbled
  <2>1. k = DidChange(l, d, version, new) /\ new \in Nat \cup {Garbled}
    BY <1>2 DEF DidChangeIncremental
  <2>2. l.copy[d] # Closed /\ l.copy[d].text = from => new = to
    OBVIOUS
  <2> HIDE DEF new
  <2>3. /\ LinkOK(k) /\ Touch(l, k, d) /\ k.open = l.open /\ k.pending = l.pending
        /\ ~(IsOpen(l, d) /\ l.alive) => k = l
        /\ IsOpen(l, d) /\ l.alive => k.copy[d] = [version |-> version, text |-> new]
    BY <2>1, DidChangeOK
  <2>. QED BY <1>2, <2>2, <2>3
<1>. QED BY <1>1, <1>2

LEMMA DidCloseOK ==
  ASSUME NEW l, LinkOK(l), NEW d \in Docs
  PROVE  LET k == DidClose(l, d) IN LinkOK(k) /\ Touch(l, k, d)
<1> DEFINE k == DidClose(l, d)
           o == l.open \ {d}
           c == [l.copy EXCEPT ![d] = Closed]
<1>1. l \in Links
  BY DEF LinkOK
<1>2. /\ c \in [Docs -> Copies \cup {Closed}] /\ c[d] = Closed /\ o \in SUBSET Docs
      /\ \A e \in Docs \ {d} : c[e] = l.copy[e] /\ (e \in o <=> e \in l.open)
  BY <1>1 DEF Links
<1>3. k = IF l.alive THEN [[l EXCEPT !.open = o] EXCEPT !.copy = c] ELSE [l EXCEPT !.open = o]
  BY <1>1 DEF DidClose, Read, Links
<1>4. l.alive => o = {e \in Docs : c[e] # Closed}
  BY <1>2 DEF LinkOK
<1> HIDE DEF c, o
<1>5. /\ k \in Links /\ k.state = l.state /\ k.nextId = l.nextId /\ k.alive = l.alive
      /\ k.asked = l.asked /\ k.out = l.out /\ k.pending = l.pending /\ k.open = o
      /\ k.copy = IF l.alive THEN c ELSE l.copy
  <2>1. CASE l.alive
    <3>1. k = [[l EXCEPT !.open = o] EXCEPT !.copy = c]
      BY <1>3, <2>1
    <3>. QED BY <1>1, <1>2, <2>1, <3>1 DEF Links
  <2>2. CASE ~l.alive
    <3>1. k = [l EXCEPT !.open = o]
      BY <1>3, <2>2
    <3>. QED BY <1>1, <1>2, <2>2, <3>1 DEF Links
  <2>. QED BY <2>1, <2>2
<1>6. LinkOK(k)
  BY <1>2, <1>4, <1>5 DEF LinkOK
<1>7. Touch(l, k, d)
  BY <1>2, <1>5 DEF Touch
<1>. QED BY <1>6, <1>7

\* A request: it has an id that no earlier one to this server has.
LEMMA AskOK ==
  ASSUME NEW l, LinkOK(l), NEW kind \in Kinds, NEW d \in Docs
  PROVE  LET k == Ask(l, kind, d)
             r == [id |-> l.nextId, kind |-> kind, doc |-> d]
         IN  /\ LinkOK(k) /\ SameDocuments(l, k)
             /\ k.nextId = l.nextId + 1 /\ k.out = l.out
             /\ k.asked = IF l.alive THEN l.asked \cup {r} ELSE l.asked
<1> DEFINE k == Ask(l, kind, d)
           r == [id |-> l.nextId, kind |-> kind, doc |-> d]
           n == l.nextId + 1
           a == l.asked \cup {r}
<1>1. l \in Links
  BY DEF LinkOK
<1>2. n \in Nat /\ a \in SUBSET Asks
  BY <1>1 DEF Links, Asks
<1>3. k = IF l.alive THEN [[l EXCEPT !.nextId = n] EXCEPT !.asked = a] ELSE [l EXCEPT !.nextId = n]
  BY <1>1 DEF Ask, Read, Links
<1> HIDE DEF n, a
<1>4. /\ k \in Links /\ k.state = l.state /\ k.nextId = n /\ k.alive = l.alive
      /\ k.asked = (IF l.alive THEN a ELSE l.asked) /\ k.out = l.out
      /\ k.pending = l.pending /\ k.open = l.open /\ k.copy = l.copy
  <2>1. CASE l.alive
    <3>1. k = [[l EXCEPT !.nextId = n] EXCEPT !.asked = a]
      BY <1>3, <2>1
    <3>. QED BY <1>1, <1>2, <2>1, <3>1 DEF Links
  <2>2. CASE ~l.alive
    <3>1. k = [l EXCEPT !.nextId = n]
      BY <1>3, <2>2
    <3>. QED BY <1>1, <1>2, <2>2, <3>1 DEF Links
  <2>. QED BY <2>1, <2>2
<1>5. LinkOK(k)
  BY <1>4 DEF LinkOK
<1>. QED BY <1>4, <1>5 DEF SameDocuments, n, a

\* What leaves the documents alone.
LEMMA SameLink ==
  ASSUME NEW l, LinkOK(l), NEW k \in Links,
         k.copy = l.copy, k.open = l.open, k.pending = l.pending, k.alive => l.alive,
         \/ k.state = l.state /\ (l.state \in {"none", "failed"} => k.out = <<>>)
         \/ k.state = "failed" /\ k.out = <<>> /\ ~k.alive
  PROVE  LinkOK(k) /\ SameDocuments(l, k)
<1>1. CASE k.state = l.state /\ (l.state \in {"none", "failed"} => k.out = <<>>)
  BY <1>1 DEF LinkOK, SameDocuments
<1>2. CASE k.state = "failed" /\ k.out = <<>> /\ ~k.alive
  BY <1>2 DEF LinkOK, SameDocuments
<1>. QED BY <1>1, <1>2

LEMMA PostOK ==
  ASSUME NEW l, LinkOK(l), l.alive, NEW msg \in Messages
  PROVE  LET k == Post(l, msg)
         IN  /\ LinkOK(k) /\ SameDocuments(l, k)
             /\ k.asked = l.asked /\ k.nextId = l.nextId /\ k.out = Append(l.out, msg)
<1> DEFINE o == Append(l.out, msg)
           k == Post(l, msg)
<1>1. l \in Links
  BY DEF LinkOK
<1>2. o \in Seq(Messages)
  BY <1>1, AppendProperties DEF Links
<1>3. k = [l EXCEPT !.out = o]
  BY <1>1 DEF Post, Links
<1> HIDE DEF o
<1>4. /\ k \in Links /\ k.state = l.state /\ k.alive = l.alive /\ k.asked = l.asked
      /\ k.nextId = l.nextId /\ k.out = o
      /\ k.copy = l.copy /\ k.open = l.open /\ k.pending = l.pending
  BY <1>1, <1>2, <1>3 DEF Links
<1>5. l.state \notin {"none", "failed"}
  BY DEF LinkOK
<1>. QED BY <1>4, <1>5, SameLink DEF o

\* A request leaves those that wait for an answer.
LEMMA AnsweredLink ==
  ASSUME NEW l, LinkOK(l), NEW r
  PROVE  LET k == [l EXCEPT !.asked = @ \ {r}]
         IN  /\ LinkOK(k) /\ SameDocuments(l, k) /\ k.alive = l.alive
             /\ k.asked = l.asked \ {r} /\ k.nextId = l.nextId /\ k.out = l.out
<1> DEFINE a == l.asked \ {r}
           k == [l EXCEPT !.asked = a]
<1>1. l \in Links
  BY DEF LinkOK
<1>2. a \in SUBSET Asks
  BY <1>1 DEF Links
<1>3. [l EXCEPT !.asked = @ \ {r}] = k
  BY <1>1 DEF Links
<1> HIDE DEF a
<1>4. /\ k \in Links /\ k.state = l.state /\ k.alive = l.alive /\ k.asked = a
      /\ k.nextId = l.nextId /\ k.out = l.out
      /\ k.copy = l.copy /\ k.open = l.open /\ k.pending = l.pending
  BY <1>1, <1>2 DEF Links
<1>5. LinkOK(k) /\ SameDocuments(l, k)
  BY <1>4 DEF LinkOK, SameDocuments
<1> HIDE DEF k
<1>6. /\ LinkOK(k) /\ SameDocuments(l, k) /\ k.alive = l.alive
      /\ k.asked = l.asked \ {r} /\ k.nextId = l.nextId /\ k.out = l.out
  BY <1>4, <1>5 DEF a
<1>. QED BY <1>3, <1>6

LEMMA ReadOK ==
  ASSUME NEW l, LinkOK(l), l.out # <<>>
  PROVE  LET k == [l EXCEPT !.out = Tail(@)]
         IN  /\ LinkOK(k) /\ SameDocuments(l, k)
             /\ k.state = l.state /\ k.alive = l.alive
             /\ k.asked = l.asked /\ k.nextId = l.nextId /\ k.out = Tail(l.out)
             /\ Head(l.out) \in Messages /\ 1 \in DOMAIN l.out /\ l.out[1] = Head(l.out)
             /\ \A i \in DOMAIN Tail(l.out) : i + 1 \in DOMAIN l.out /\ Tail(l.out)[i] = l.out[i + 1]
<1> DEFINE o == Tail(l.out)
           k == [l EXCEPT !.out = o]
<1>1. l \in Links /\ l.out \in Seq(Messages)
  BY DEF LinkOK, Links
<1>2. Len(l.out) \in Nat \ {0} /\ DOMAIN l.out = 1 .. Len(l.out)
  BY <1>1, EmptySeq, LenProperties
<1>3. /\ Head(l.out) = l.out[1] /\ Head(l.out) \in Messages
      /\ o \in Seq(Messages) /\ Len(o) = Len(l.out) - 1
      /\ \A i \in 1 .. Len(o) : o[i] = l.out[i + 1]
  BY <1>1, <1>2, HeadTailProperties, ElementOfSeq
<1>4. DOMAIN o = 1 .. Len(o)
  BY <1>3, LenProperties
<1>5. \A i \in DOMAIN o : i + 1 \in DOMAIN l.out /\ o[i] = l.out[i + 1]
  BY <1>2, <1>3, <1>4
<1>6. 1 \in DOMAIN l.out
  BY <1>2
<1>7. [l EXCEPT !.out = Tail(@)] = k
  BY <1>1 DEF Links
<1> HIDE DEF o
<1>8. /\ k \in Links /\ k.state = l.state /\ k.alive = l.alive /\ k.asked = l.asked
      /\ k.nextId = l.nextId /\ k.out = o
      /\ k.copy = l.copy /\ k.open = l.open /\ k.pending = l.pending
  BY <1>1, <1>3 DEF Links
<1>9. l.state \notin {"none", "failed"}
  BY DEF LinkOK
<1>10. LinkOK(k) /\ SameDocuments(l, k)
  BY <1>8, <1>9, SameLink
<1> HIDE DEF k
<1>11. /\ LinkOK(k) /\ SameDocuments(l, k) /\ k.state = l.state /\ k.alive = l.alive
       /\ k.asked = l.asked /\ k.nextId = l.nextId /\ k.out = o
  BY <1>8, <1>10 DEF k
<1>. QED BY <1>3, <1>5, <1>6, <1>7, <1>11 DEF o

\* The ways a session ends.
LEMMA EndsOK ==
  ASSUME NEW l, LinkOK(l), NEW k,
         k \in {InitializeFailed(l), Noticed(l), [l EXCEPT !.alive = FALSE]}
  PROVE  /\ LinkOK(k) /\ SameDocuments(l, k)
         /\ k.asked = l.asked /\ k.nextId = l.nextId /\ k.out \in {l.out, <<>>}
<1>1. l \in Links /\ <<>> \in Seq(Messages)
  BY EmptySeq DEF LinkOK
<1>2. CASE k = InitializeFailed(l)
  <2>1. /\ k \in Links /\ k.state = "failed" /\ ~k.alive /\ k.asked = l.asked
        /\ k.nextId = l.nextId /\ k.out = <<>>
        /\ k.copy = l.copy /\ k.open = l.open /\ k.pending = l.pending
    BY <1>1, <1>2 DEF Links, InitializeFailed
  <2>. QED BY <2>1, SameLink
<1>3. CASE k = Noticed(l) /\ k # l
  <2>1. k = [l EXCEPT !.state = "failed"] /\ ~l.alive /\ l.out = <<>>
    BY <1>3 DEF Noticed
  <2>2. /\ k \in Links /\ k.state = "failed" /\ ~k.alive /\ k.asked = l.asked
        /\ k.nextId = l.nextId /\ k.out = <<>>
        /\ k.copy = l.copy /\ k.open = l.open /\ k.pending = l.pending
    BY <1>1, <2>1 DEF Links
  <2>. QED BY <2>2, SameLink
<1>4. CASE k = [l EXCEPT !.alive = FALSE]
  <2>1. /\ k \in Links /\ k.state = l.state /\ ~k.alive /\ k.asked = l.asked
        /\ k.nextId = l.nextId /\ k.out = l.out
        /\ k.copy = l.copy /\ k.open = l.open /\ k.pending = l.pending
    BY <1>1, <1>4 DEF Links
  <2>2. l.state \in {"none", "failed"} => k.out = <<>>
    BY <2>1 DEF LinkOK
  <2>. QED BY <2>1, <2>2, SameLink
<1>5. CASE k = l
  BY <1>5 DEF SameDocuments
<1>. QED BY <1>2, <1>3, <1>4, <1>5

\* The server has answered initialize: the opens that waited are sent.
LEMMA InitializedOK ==
  ASSUME NEW l, LinkOK(l), l.state \in {"starting", "running"}, NEW caps \in AllCaps
  PROVE  LET k == Initialized(l, caps)
         IN  /\ LinkOK(k) /\ k.asked = l.asked /\ k.nextId = l.nextId /\ k.out = l.out
             /\ \A d \in Docs : \A e, t, miss : EntryOK(l, d, e, t, miss) => EntryOK(k, d, e, t, miss)
             /\ \A d \in Docs : l.copy[d] # Closed => k.copy[d] = l.copy[d]
<1> DEFINE P(d) == \E p \in l.pending : p.doc = d
           W(d) == CHOOSE p \in l.pending : p.doc = d
           o == l.open \cup {p.doc : p \in l.pending}
           c == [d \in Docs |-> IF P(d) THEN [version |-> W(d).version, text |-> W(d).text]
                                ELSE l.copy[d]]
           g == l.alive
           k == Initialized(l, caps)
<1>1. l \in Links /\ l.pending \in SUBSET Opens
  BY DEF LinkOK, Links
<1>2. \A d \in Docs : P(d) => W(d) \in l.pending /\ W(d).doc = d /\ W(d) \in Opens
  BY <1>1
<1>3. o \in SUBSET Docs
  BY <1>1 DEF Links, Opens
<1>4. \A d \in Docs : P(d) => /\ c[d] = [version |-> W(d).version, text |-> W(d).text]
                              /\ c[d] \in Copies /\ c[d] # Closed
  <2>1. \A d \in Docs : P(d) => /\ c[d] = [version |-> W(d).version, text |-> W(d).text]
                                /\ W(d).version = 1 /\ W(d).text \in Nat
    BY <1>2 DEF Opens
  <2> HIDE DEF c, P, W
  <2>2. \A d \in Docs : P(d) => c[d] \in Copies
    <3> SUFFICES ASSUME NEW d \in Docs, P(d) PROVE c[d] \in Copies
      OBVIOUS
    <3> DEFINE v == W(d).version
               t == W(d).text
    <3>1. c[d] = [version |-> v, text |-> t] /\ v \in Nat /\ t \in Nat
      BY <2>1
    <3> HIDE DEF v, t
    <3>. QED BY <3>1 DEF Copies
  <2>3. Closed \notin Copies
    BY SessionAssumption DEF Copies
  <2>. QED BY <2>1, <2>2, <2>3
<1>5. \A d \in Docs : ~P(d) => c[d] = l.copy[d]
  OBVIOUS
<1>6. c \in [Docs -> Copies \cup {Closed}]
  <2>1. \A d \in Docs : c[d] \in Copies \cup {Closed}
    BY <1>1, <1>4, <1>5 DEF Links
  <2>. QED BY <2>1
<1>7. \A d \in Docs : d \in o <=> d \in l.open \/ P(d)
  OBVIOUS
<1> DEFINE run == [l EXCEPT !.state = "running", !.caps = caps, !.greeted = g]
           sent == [run EXCEPT !.open = o]
<1>8. /\ run \in Links /\ run.open = l.open /\ run.copy = l.copy /\ run.alive = l.alive
      /\ run.state = "running" /\ run.asked = l.asked /\ run.nextId = l.nextId
      /\ run.out = l.out
  BY <1>1 DEF Links
<1>9. k = [FlushDidOpen(run, l.pending) EXCEPT !.pending = {}]
  BY DEF Initialized
<1>10. FlushDidOpen(run, l.pending) = IF l.alive THEN [sent EXCEPT !.copy = c] ELSE sent
  <2> HIDE DEF run
  <2>1. [run EXCEPT !.open = @ \cup {p.doc : p \in l.pending}] = sent
    BY <1>8 DEF Links
  <2>2. sent \in Links /\ sent.copy = l.copy /\ sent.alive = l.alive
    <3> HIDE DEF o
    <3>. QED BY <1>3, <1>8 DEF Links
  <2> HIDE DEF sent
  <2>3. [sent EXCEPT !.copy = [d \in Docs |->
             IF \E p \in l.pending : p.doc = d
             THEN LET p == CHOOSE p \in l.pending : p.doc = d
                  IN  [version |-> p.version, text |-> p.text]
             ELSE @[d]]] = [sent EXCEPT !.copy = c]
    BY <2>2 DEF Links
  <2>. QED BY <2>1, <2>2, <2>3, <1>8 DEF FlushDidOpen, Read
<1> HIDE DEF c, o, run, P, W
<1>11. /\ k \in Links /\ k.state = "running" /\ k.alive = l.alive /\ k.asked = l.asked
       /\ k.nextId = l.nextId /\ k.out = l.out /\ k.pending = {} /\ k.open = o
       /\ k.copy = IF l.alive THEN c ELSE l.copy
  <2>1. CASE l.alive
    <3>1. k = [[[run EXCEPT !.open = o] EXCEPT !.copy = c] EXCEPT !.pending = {}]
      BY <1>9, <1>10, <2>1
    <3>2. {} \in SUBSET Opens
      OBVIOUS
    <3>. QED BY <1>3, <1>6, <1>8, <2>1, <3>1, <3>2 DEF Links
  <2>2. CASE ~l.alive
    <3>1. k = [[run EXCEPT !.open = o] EXCEPT !.pending = {}]
      BY <1>9, <1>10, <2>2
    <3>2. {} \in SUBSET Opens
      OBVIOUS
    <3>. QED BY <1>3, <1>8, <2>2, <3>1, <3>2 DEF Links
  <2>. QED BY <2>1, <2>2
<1> HIDE DEF k
<1>12. \A d \in Docs : l.copy[d] # Closed => ~P(d)
  BY DEF LinkOK, P
<1>13. l.alive => o = {d \in Docs : c[d] # Closed}
  BY <1>3, <1>4, <1>5, <1>7 DEF LinkOK
<1>14. LinkOK(k)
  BY <1>11, <1>13 DEF LinkOK
<1>15. \A d \in Docs : l.copy[d] # Closed => k.copy[d] = l.copy[d]
  BY <1>5, <1>11, <1>12
<1>16. ASSUME NEW d \in Docs, NEW e, NEW t, NEW miss, EntryOK(l, d, e, t, miss)
       PROVE  EntryOK(k, d, e, t, miss)
  <2> SUFFICES ASSUME e # NoDoc, e.open, k.alive
               PROVE  /\ e.version >= 1
                      /\ k.copy[d] # Closed => k.copy[d].version <= e.version
                      /\ d \notin miss /\ d \in k.open =>
                           k.copy[d] = [version |-> e.version, text |-> t]
    BY <1>11, <1>16 DEF EntryOK
  <2>1. CASE P(d)
    <3>1. /\ k.copy[d] = [version |-> W(d).version, text |-> W(d).text]
          /\ W(d) \in l.pending /\ W(d).doc = d /\ W(d).version = 1
      BY <1>2, <1>4, <1>11, <2>1 DEF Opens
    <3>2. d \notin miss => W(d).version = e.version /\ W(d).text = t
      BY <1>16, <3>1 DEF EntryOK
    <3>3. e.version >= 1
      BY <1>16 DEF EntryOK
    <3>4. k.copy[d].version = 1
      BY <3>1
    <3>. QED BY <3>1, <3>2, <3>3, <3>4
  <2>2. CASE ~P(d)
    BY <1>5, <1>7, <1>11, <1>16, <2>2 DEF EntryOK
  <2>. QED BY <2>1, <2>2
<1>. QED BY <1>11, <1>14, <1>15, <1>16 DEF k

-------------------------------------------------------------------------------
(* The desk.                                                               *)

\* r is s with the link k and, for document d, the entry e.
IsPut(s, r, d, k, e) ==
  /\ r \in Desks
  /\ r.doc = [s.doc EXCEPT ![d] = e]
  /\ r.link = [s.link EXCEPT ![LanguageOf[d]] = k]

LEMMA PutLinkIs ==
  ASSUME NEW s \in Desks, NEW d \in Docs, NEW k \in Links
  PROVE  IsPut(s, PutLink(s, d, k), d, k, s.doc[d])
<1> DEFINE ll == [s.link EXCEPT ![LanguageOf[d]] = k]
<1>1. ll \in [Languages -> Links] /\ s.doc = [s.doc EXCEPT ![d] = s.doc[d]]
  BY DEF Desks
<1>2. PutLink(s, d, k) = [s EXCEPT !.link = ll]
  BY DEF PutLink, Desks
<1> HIDE DEF ll
<1>3. PutLink(s, d, k) \in Desks /\ PutLink(s, d, k).doc = s.doc /\ PutLink(s, d, k).link = ll
  BY <1>1, <1>2 DEF Desks
<1>. QED BY <1>1, <1>3 DEF IsPut, ll

LEMMA PutEntryIs ==
  ASSUME NEW s \in Desks, NEW d \in Docs, NEW k \in Links, NEW e \in Entries \cup {NoDoc}
  PROVE  IsPut(s, [PutLink(s, d, k) EXCEPT !.doc[d] = e], d, k, e)
<1> DEFINE p == PutLink(s, d, k)
           dd == [s.doc EXCEPT ![d] = e]
<1>1. p \in Desks /\ p.doc = s.doc /\ p.link = [s.link EXCEPT ![LanguageOf[d]] = k]
  BY PutLinkIs DEF IsPut, Desks
<1> HIDE DEF p
<1>2. dd \in [Docs -> Entries \cup {NoDoc}]
  BY DEF Desks
<1>3. [p EXCEPT !.doc[d] = e] = [p EXCEPT !.doc = dd]
  BY <1>1 DEF Desks
<1> HIDE DEF dd
<1>4. /\ [p EXCEPT !.doc[d] = e] \in Desks
      /\ [p EXCEPT !.doc[d] = e].doc = dd
      /\ [p EXCEPT !.doc[d] = e].link = p.link
  BY <1>1, <1>2, <1>3 DEF Desks
<1>. QED BY <1>1, <1>4 DEF IsPut, dd, p

LEMMA PutVersionIs ==
  ASSUME NEW s \in Desks, NEW d \in Docs, NEW k \in Links, NEW v \in Nat,
         s.doc[d] \in Entries
  PROVE  /\ [s.doc[d] EXCEPT !.version = v] \in Entries
         /\ IsPut(s, [PutLink(s, d, k) EXCEPT !.doc[d].version = v], d, k,
                  [s.doc[d] EXCEPT !.version = v])
<1> DEFINE p == PutLink(s, d, k)
           e == [s.doc[d] EXCEPT !.version = v]
<1>1. p \in Desks /\ p.doc = s.doc
  <2>1. IsPut(s, p, d, k, s.doc[d])
    BY PutLinkIs
  <2>2. s.doc = [s.doc EXCEPT ![d] = s.doc[d]]
    BY DEF Desks
  <2> HIDE DEF p
  <2>. QED BY <2>1, <2>2 DEF IsPut
<1>2. e \in Entries
  BY DEF Entries
<1> HIDE DEF p
<1>3. [p EXCEPT !.doc[d].version = v] = [p EXCEPT !.doc[d] = e]
  BY <1>1 DEF Desks
<1> HIDE DEF e
<1>4. IsPut(s, [p EXCEPT !.doc[d] = e], d, k, e)
  BY <1>2, PutEntryIs DEF p
<1>. QED BY <1>2, <1>3, <1>4 DEF p, e

\* What a call about document d does to the others.
LEMMA PutKeepsOthers ==
  ASSUME NEW s, NEW tx, NEW miss, DeskOK(s, tx, miss),
         NEW r, NEW d \in Docs, NEW l, NEW k, NEW e, NEW tx2, NEW miss2,
         LinkOK(l), l = s.link[LanguageOf[d]] \/ Fresh(l),
         LinkOK(k), Touch(l, k, d), IsPut(s, r, d, k, e),
         EntryOK(k, d, e, tx2[d], miss2),
         \A x \in Docs \ {d} : tx2[x] = tx[x] /\ (x \in miss2 <=> x \in miss),
         RisesAt(s, r, d)
  PROVE  DeskOK(r, tx2, miss2) /\ Rises(s, r) /\ Quiet(s, r)
<1>1. s \in Desks /\ r \in Desks
  BY DEF DeskOK, IsPut
<1>2. \A x \in Docs : LanguageOf[x] \in Languages
  BY DEF Languages
<1>3. \A lang \in Languages :
        r.link[lang] = IF lang = LanguageOf[d] THEN k ELSE s.link[lang]
  BY <1>1, <1>2 DEF IsPut, Desks
<1>4. \A x \in Docs : r.doc[x] = IF x = d THEN e ELSE s.doc[x]
  BY <1>1 DEF IsPut, Desks
<1>5. \A lang \in Languages : LinkOK(r.link[lang])
  BY <1>3 DEF DeskOK
<1>6. ASSUME NEW x \in Docs \ {d}
      PROVE  /\ EntryOK(r.link[LanguageOf[x]], x, r.doc[x], tx2[x], miss2)
             /\ RisesAt(s, r, x)
  <2> DEFINE lx == s.link[LanguageOf[x]]
             kx == r.link[LanguageOf[x]]
  <2>1. EntryOK(lx, x, s.doc[x], tx2[x], miss2)
    BY <1>6 DEF DeskOK, EntryOK
  <2>2. r.doc[x] = s.doc[x]
    BY <1>4
  <2>3. CASE kx = lx
    BY <2>1, <2>2, <2>3 DEF RisesAt
  <2>4. CASE kx # lx
    <3>1. LanguageOf[x] = LanguageOf[d] /\ kx = k
      BY <1>2, <1>3, <2>4
    <3>2. EntryOK(l, x, s.doc[x], tx2[x], miss2)
      <4>1. CASE l = s.link[LanguageOf[d]]
        BY <2>1, <3>1, <4>1
      <4>2. CASE Fresh(l)
        <5>1. s.doc[x] # NoDoc /\ s.doc[x].open => s.doc[x].version >= 1
          BY <2>1 DEF EntryOK
        <5>. QED BY <4>2, <5>1, FreshLinks
      <4>. QED BY <4>1, <4>2
    <3>3. /\ k.copy[x] = l.copy[x] /\ (x \in k.open <=> x \in l.open) /\ k.alive = l.alive
          /\ \A p \in k.pending : p.doc = x => p \in l.pending
      BY <1>6 DEF Touch, LinkOK, Links
    <3>4. EntryOK(k, x, s.doc[x], tx2[x], miss2)
      BY <3>2, <3>3 DEF EntryOK
    <3>5. k.copy[x] = Closed \/ k.copy[x] = lx.copy[x]
      BY <3>1, <3>3, FreshLinks
    <3>. QED BY <2>2, <3>1, <3>4, <3>5 DEF RisesAt
  <2>. QED BY <2>3, <2>4
<1>7. EntryOK(r.link[LanguageOf[d]], d, r.doc[d], tx2[d], miss2)
  BY <1>2, <1>3, <1>4
<1>8. DeskOK(r, tx2, miss2)
  BY <1>1, <1>5, <1>6, <1>7 DEF DeskOK
<1>9. Rises(s, r)
  BY <1>6 DEF Rises
<1>10. Quiet(s, r)
  <2> SUFFICES ASSUME NEW lang \in Languages, lang = LanguageOf[d]
               PROVE  \/ /\ r.link[lang].asked = s.link[lang].asked
                         /\ r.link[lang].out = s.link[lang].out
                         /\ r.link[lang].nextId = s.link[lang].nextId
                      \/ r.link[lang].asked = {} /\ r.link[lang].out = <<>>
    BY <1>3 DEF Quiet
  <2>1. r.link[lang] = k
    BY <1>3
  <2>2. Fresh(l) => k.asked = {} /\ k.out = <<>>
    BY FreshLinks DEF Touch
  <2>. QED BY <2>1, <2>2 DEF Touch
<1>. QED BY <1>8, <1>9, <1>10

-------------------------------------------------------------------------------
(* The calls that tell of a document.                                      *)

Agree(d, tx, miss, tx2, miss2) ==
  \A x \in Docs \ {d} : tx2[x] = tx[x] /\ (x \in miss2 <=> x \in miss)

GoodStep(s, r, tx2, miss2) == DeskOK(r, tx2, miss2) /\ Rises(s, r) /\ Quiet(s, r)

\* No session is needed, and the document has no copy that its text is compared with.
LEMMA UntoldOK ==
  ASSUME NEW s, NEW tx, NEW miss, DeskOK(s, tx, miss), NEW d \in Docs, NEW tx2, NEW miss2,
         Agree(d, tx, miss, tx2, miss2),
         \/ ~(s.doc[d] # NoDoc /\ s.doc[d].open)
         \/ tx2[d] = tx[d] /\ (d \in miss2 <=> d \in miss)
  PROVE  GoodStep(s, s, tx2, miss2)
<1>1. ASSUME NEW x \in Docs
      PROVE  EntryOK(s.link[LanguageOf[x]], x, s.doc[x], tx2[x], miss2)
  BY <1>1 DEF DeskOK, EntryOK, Agree
<1>2. DeskOK(s, tx2, miss2)
  BY <1>1 DEF DeskOK
<1>3. Rises(s, s)
  BY DEF Rises, RisesAt
<1>. QED BY <1>2, <1>3 DEF GoodStep, Quiet

\* The session may be another one; the document is not spoken of.
LEMMA OnlyLinkOK ==
  ASSUME NEW s, NEW tx, NEW miss, DeskOK(s, tx, miss), NEW d \in Docs, NEW tx2, NEW miss2,
         Agree(d, tx, miss, tx2, miss2), NEW l, LinkOK(l),
         l = s.link[LanguageOf[d]] \/ Fresh(l),
         Fresh(l) \/ (tx2[d] = tx[d] /\ (d \in miss2 <=> d \in miss))
  PROVE  GoodStep(s, PutLink(s, d, l), tx2, miss2)
<1>1. IsPut(s, PutLink(s, d, l), d, l, s.doc[d])
  BY PutLinkIs DEF DeskOK, LinkOK
<1>2. EntryOK(s.link[LanguageOf[d]], d, s.doc[d], tx[d], miss)
  BY DEF DeskOK
<1>3. EntryOK(l, d, s.doc[d], tx2[d], miss2)
  <2>1. CASE Fresh(l)
    <3>1. s.doc[d] # NoDoc /\ s.doc[d].open => s.doc[d].version >= 1
      BY <1>2 DEF EntryOK
    <3>. QED BY <2>1, <3>1, FreshLinks
  <2>2. CASE ~Fresh(l)
    BY <1>2, <2>2 DEF EntryOK
  <2>. QED BY <2>1, <2>2
<1>4. Touch(l, l, d)
  BY DEF Touch
<1>5. RisesAt(s, PutLink(s, d, l), d)
  <2>1. PutLink(s, d, l).link[LanguageOf[d]] = l
    BY <1>1 DEF IsPut, DeskOK, Desks, Languages
  <2>2. Fresh(l) => l.copy[d] = Closed
    BY FreshLinks
  <2>. QED BY <2>1, <2>2 DEF RisesAt
<1>. QED BY <1>1, <1>3, <1>4, <1>5, PutKeepsOthers DEF GoodStep, Agree

LEMMA OpenOK ==
  ASSUME NEW s, NEW tx, NEW miss, DeskOK(s, tx, miss), NEW d \in Docs, NEW tx2, NEW miss2,
         Agree(d, tx, miss, tx2, miss2), NEW l, LinkOK(l),
         l = s.link[LanguageOf[d]] \/ Fresh(l), Live(l) \/ l = NoLink,
         ~(s.doc[d] # NoDoc /\ s.doc[d].open), tx2[d] \in Nat
  PROVE  GoodStep(s, NotifyOpen(s, l, d, tx2[d]), tx2, miss2)
<1> DEFINE r == NotifyOpen(s, l, d, tx2[d])
<1>1. s \in Desks /\ l \in Links
  BY DEF DeskOK, LinkOK
<1>2. \A x : RisesAt(s, x, d)
  BY DEF RisesAt
<1>3. CASE l = NoLink
  <2> DEFINE f == LanguageOf[d] \in present
             e == [open |-> FALSE, version |-> 0, failed |-> f]
  <2>1. r = [PutLink(s, d, l) EXCEPT !.doc[d] = e]
    BY <1>3 DEF NotifyOpen
  <2>2. f \in BOOLEAN
    OBVIOUS
  <2> HIDE DEF f
  <2>3. e \in Entries /\ ~e.open
    BY <2>2 DEF Entries
  <2> HIDE DEF e
  <2>4. IsPut(s, r, d, l, e)
    BY <1>1, <2>1, <2>3, PutEntryIs
  <2>5. EntryOK(l, d, e, tx2[d], miss2) /\ Touch(l, l, d)
    BY <2>3 DEF EntryOK, Touch
  <2>. QED BY <1>2, <2>4, <2>5, PutKeepsOthers DEF GoodStep, Agree
<1>4. CASE l # NoLink
  <2> DEFINE e == [open |-> TRUE, version |-> 1, failed |-> FALSE]
             k == DidOpen(l, d, 1, tx2[d])
  <2>1. r = [PutLink(s, d, k) EXCEPT !.doc[d] = e]
    BY <1>4 DEF NotifyOpen
  <2>2. e \in Entries
    BY DEF Entries
  <2>3. LinkOK(k) /\ Touch(l, k, d) /\ EntryOK(k, d, e, tx2[d], miss2)
    BY <1>4, DidOpenOK
  <2>4. k \in Links
    BY <2>3 DEF LinkOK
  <2> HIDE DEF e, k
  <2>5. IsPut(s, r, d, k, e)
    BY <1>1, <2>1, <2>2, <2>4, PutEntryIs
  <2>. QED BY <1>2, <2>3, <2>5, PutKeepsOthers DEF GoodStep, Agree
<1>. QED BY <1>3, <1>4

\* A message about an open document, under its next version.
LEMMA SentOK ==
  ASSUME NEW s, NEW tx, NEW miss, DeskOK(s, tx, miss), NEW d \in Docs, NEW tx2, NEW miss2,
         Agree(d, tx, miss, tx2, miss2), NEW l, LinkOK(l),
         l = s.link[LanguageOf[d]] \/ Fresh(l),
         s.doc[d] # NoDoc, s.doc[d].open, NEW m, m = s.doc[d].version + 1,
         NEW k, LinkOK(k), Touch(l, k, d), k.open = l.open, k.pending = l.pending,
         k = l \/ (IsOpen(l, d) /\ l.alive /\ k.copy[d].version = m),
         d \notin miss2 => IsOpen(l, d) /\ (k.alive => k.copy[d] = [version |-> m, text |-> tx2[d]])
  PROVE  GoodStep(s, [PutLink(s, d, k) EXCEPT !.doc[d].version = m], tx2, miss2)
<1> DEFINE r == [PutLink(s, d, k) EXCEPT !.doc[d].version = m]
           e == [s.doc[d] EXCEPT !.version = m]
<1>1. s \in Desks /\ k \in Links /\ s.doc[d] \in Entries
  BY DEF DeskOK, LinkOK, Desks
<1>2. m \in Nat /\ s.doc[d].version \in Nat
  BY <1>1 DEF Entries
<1>3. e \in Entries /\ IsPut(s, r, d, k, e)
  BY <1>1, <1>2, PutVersionIs
<1>4. e.version = m /\ e.open
  BY <1>1 DEF Entries
<1> HIDE DEF e, r
<1>5. EntryOK(l, d, s.doc[d], tx[d], miss) \/ Fresh(l)
  BY DEF DeskOK
<1>6. s.doc[d].version >= 1
  BY DEF DeskOK, EntryOK
<1>7. Fresh(l) => ~IsOpen(l, d) /\ l.copy[d] = Closed
  BY FreshLinks DEF IsOpen
<1>8. l.alive /\ l.copy[d] # Closed => l.copy[d].version <= s.doc[d].version
  BY <1>5, <1>7 DEF EntryOK
<1>9. l.alive /\ l.copy[d] # Closed => l.copy[d].version \in Nat
  BY DEF LinkOK, Links, Copies
<1>10. k.alive /\ k.copy[d] # Closed => k.copy[d].version <= m
  BY <1>2, <1>8, <1>9
<1>11. IsOpen(l, d) => k.pending = {}
  BY DEF LinkOK, IsOpen
<1>12. EntryOK(k, d, e, tx2[d], miss2)
  BY <1>2, <1>4, <1>6, <1>10, <1>11 DEF EntryOK
<1>13. RisesAt(s, r, d)
  <2>1. r.link[LanguageOf[d]] = k
    BY <1>1, <1>3 DEF IsPut, Desks, Languages
  <2>2. CASE k = l
    BY <1>7, <2>1, <2>2 DEF RisesAt
  <2>3. CASE k # l
    <3>1. l = s.link[LanguageOf[d]] /\ l.alive /\ k.copy[d].version = m
      BY <1>7, <2>3
    <3>. QED BY <1>2, <1>8, <1>9, <2>1, <3>1 DEF RisesAt
  <2>. QED BY <2>2, <2>3
<1>14. DeskOK(r, tx2, miss2) /\ Rises(s, r) /\ Quiet(s, r)
  BY <1>3, <1>12, <1>13, PutKeepsOthers DEF Agree
<1>. QED BY <1>14 DEF GoodStep, r

LEMMA ChangeOK ==
  ASSUME NEW s, NEW tx, NEW miss, DeskOK(s, tx, miss), NEW d \in Docs, NEW tx2, NEW miss2,
         Agree(d, tx, miss, tx2, miss2), NEW l, LinkOK(l),
         l = s.link[LanguageOf[d]] \/ Fresh(l),
         s.doc[d] # NoDoc, s.doc[d].open, tx[d] \in Nat, tx2[d] \in Nat, NEW oneLine,
         d \notin miss2 => d \notin miss /\ IsOpen(l, d) /\ l.caps.sync # SyncNone
  PROVE  GoodStep(s, NotifyChange(s, l, d, tx[d], tx2[d], oneLine), tx2, miss2)
<1> DEFINE r == NotifyChange(s, l, d, tx[d], tx2[d], oneLine)
           m == s.doc[d].version + 1
           full == DidChangeFull(l, d, m, tx2[d])
           part == DidChangeIncremental(l, d, m, tx[d], tx2[d])
           k == CASE l.caps.sync = SyncNone -> l
                  [] l.caps.sync = SyncFull \/ ~oneLine -> full
                  [] OTHER -> part
<1>1. CASE l = NoLink
  <2>1. r = PutLink(s, d, l)
    BY <1>1 DEF NotifyChange
  <2>2. Fresh(l)
    BY <1>1 DEF Fresh
  <2>. QED BY <2>1, <2>2, OnlyLinkOK
<1>2. CASE l # NoLink
  <2>1. r = [PutLink(s, d, k) EXCEPT !.doc[d].version = m]
    BY <1>2 DEF NotifyChange
  <2>2. m \in Nat
    BY DEF DeskOK, Desks, Entries
  <2>3. k = l \/ k = full \/ k = part
    OBVIOUS
  <2>4. l.caps.sync = SyncNone => d \in miss2
    OBVIOUS
  <2>5. k # full /\ k # part => l.caps.sync = SyncNone
    OBVIOUS
  <2>6. m = s.doc[d].version + 1
    OBVIOUS
  <2> HIDE DEF k, m
  <2>7. CASE k \in {full, part}
    <3>1. /\ LinkOK(k) /\ Touch(l, k, d) /\ k.open = l.open /\ k.pending = l.pending
          /\ ~(IsOpen(l, d) /\ l.alive) => k = l
          /\ IsOpen(l, d) /\ l.alive =>
               /\ k.copy[d].version = m
               /\ k = full \/ (l.copy[d] # Closed /\ l.copy[d].text = tx[d])
                  => k.copy[d] = [version |-> m, text |-> tx2[d]]
      BY <2>2, <2>7, ChangesOK
    <3>2. d \notin miss2 /\ l.alive => l.copy[d] # Closed /\ l.copy[d].text = tx[d]
      <4> SUFFICES ASSUME d \notin miss2, l.alive
                   PROVE  l.copy[d] # Closed /\ l.copy[d].text = tx[d]
        OBVIOUS
      <4>1. IsOpen(l, d) /\ d \notin miss
        OBVIOUS
      <4>2. l = s.link[LanguageOf[d]]
        BY <4>1, FreshLinks DEF IsOpen
      <4>3. EntryOK(l, d, s.doc[d], tx[d], miss)
        BY <4>2 DEF DeskOK
      <4>4. l.copy[d] = [version |-> s.doc[d].version, text |-> tx[d]]
        BY <4>1, <4>3 DEF EntryOK, IsOpen
      <4>5. l.copy[d] # Closed
        BY <4>1 DEF LinkOK, IsOpen
      <4>. QED BY <4>4, <4>5
    <3>3. d \notin miss2 => IsOpen(l, d)
                            /\ (k.alive => k.copy[d] = [version |-> m, text |-> tx2[d]])
      BY <3>1, <3>2 DEF Touch
    <3>4. k = l \/ (IsOpen(l, d) /\ l.alive /\ k.copy[d].version = m)
      BY <3>1
    <3>. QED BY <2>1, <2>6, <3>1, <3>3, <3>4, SentOK
  <2>8. CASE k \notin {full, part}
    <3>1. k = l /\ d \in miss2
      BY <2>3, <2>4, <2>5, <2>8
    <3>2. /\ LinkOK(k) /\ Touch(l, k, d) /\ k.open = l.open /\ k.pending = l.pending
          /\ d \notin miss2 => IsOpen(l, d)
                               /\ (k.alive => k.copy[d] = [version |-> m, text |-> tx2[d]])
      BY <3>1 DEF Touch
    <3> HIDE DEF r
    <3>3. GoodStep(s, [PutLink(s, d, k) EXCEPT !.doc[d].version = m], tx2, miss2)
      BY <2>6, <3>1, <3>2, SentOK
    <3>. QED BY <2>1, <3>3 DEF r
  <2>. QED BY <2>7, <2>8
<1>. QED BY <1>1, <1>2

LEMMA ReloadOK ==
  ASSUME NEW s, NEW tx, NEW miss, DeskOK(s, tx, miss), NEW d \in Docs, NEW tx2, NEW miss2,
         Agree(d, tx, miss, tx2, miss2), NEW l, LinkOK(l),
         l = s.link[LanguageOf[d]] \/ Fresh(l),
         s.doc[d] # NoDoc, s.doc[d].open, tx2[d] \in Nat,
         d \notin miss2 => IsOpen(l, d)
  PROVE  GoodStep(s, NotifyReload(s, l, d, tx2[d]), tx2, miss2)
<1> DEFINE r == NotifyReload(s, l, d, tx2[d])
           m == s.doc[d].version + 1
           k == DidChangeFull(l, d, m, tx2[d])
<1>1. CASE l = NoLink
  <2>1. r = PutLink(s, d, l)
    BY <1>1 DEF NotifyReload
  <2>2. Fresh(l)
    BY <1>1 DEF Fresh
  <2>. QED BY <2>1, <2>2, OnlyLinkOK
<1>2. CASE l # NoLink
  <2>1. r = [PutLink(s, d, k) EXCEPT !.doc[d].version = m]
    BY <1>2 DEF NotifyReload
  <2>2. m \in Nat /\ m = s.doc[d].version + 1
    BY DEF DeskOK, Desks, Entries
  <2> HIDE DEF m
  <2>3. k = DidChange(l, d, m, tx2[d])
    BY DEF DidChangeFull
  <2> HIDE DEF k
  <2>4. /\ LinkOK(k) /\ Touch(l, k, d) /\ k.open = l.open /\ k.pending = l.pending
        /\ ~(IsOpen(l, d) /\ l.alive) => k = l
        /\ IsOpen(l, d) /\ l.alive => k.copy[d] = [version |-> m, text |-> tx2[d]]
    BY <2>2, <2>3, DidChangeOK
  <2>5. k = l \/ (IsOpen(l, d) /\ l.alive /\ k.copy[d].version = m)
    BY <2>4
  <2>6. d \notin miss2 => IsOpen(l, d)
                          /\ (k.alive => k.copy[d] = [version |-> m, text |-> tx2[d]])
    BY <2>4 DEF Touch
  <2>. QED BY <2>1, <2>2, <2>4, <2>5, <2>6, SentOK
<1>. QED BY <1>1, <1>2

LEMMA CloseOK ==
  ASSUME NEW s, NEW tx, NEW miss, DeskOK(s, tx, miss), NEW d \in Docs, NEW tx2, NEW miss2,
         Agree(d, tx, miss, tx2, miss2), NEW l, LinkOK(l),
         l = s.link[LanguageOf[d]] \/ Fresh(l), s.doc[d] # NoDoc
  PROVE  GoodStep(s, NotifyClose(s, l, d), tx2, miss2)
<1> DEFINE r == NotifyClose(s, l, d)
           own == s.link[LanguageOf[d]]
<1>1. s \in Desks /\ LinkOK(own)
  BY DEF DeskOK, Languages
<1>2. ASSUME NEW k, LinkOK(k), NEW l2, LinkOK(l2), l2 = own \/ Fresh(l2), Touch(l2, k, d),
             r = [PutLink(s, d, k) EXCEPT !.doc[d] = NoDoc]
      PROVE  GoodStep(s, r, tx2, miss2)
  <2>1. IsPut(s, r, d, k, NoDoc)
    BY <1>1, <1>2, PutEntryIs DEF LinkOK
  <2>2. EntryOK(k, d, NoDoc, tx2[d], miss2)
    BY DEF EntryOK
  <2>3. r.doc[d] = NoDoc
    BY <1>1, <2>1 DEF IsPut, Desks
  <2>4. RisesAt(s, r, d)
    BY <2>3 DEF RisesAt
  <2> HIDE DEF r
  <2>. QED BY <1>2, <2>1, <2>2, <2>4, PutKeepsOthers DEF GoodStep, Agree
<1>3. CASE ~s.doc[d].open
  <2>1. PutLink(s, d, own) = s
    BY <1>1 DEF PutLink, Desks, Languages
  <2>2. r = [PutLink(s, d, own) EXCEPT !.doc[d] = NoDoc]
    BY <1>3, <2>1 DEF NotifyClose
  <2>3. Touch(own, own, d)
    BY DEF Touch
  <2>. QED BY <1>1, <1>2, <2>2, <2>3
<1>4. CASE s.doc[d].open
  <2> DEFINE k == IF l = NoLink THEN l ELSE DidClose(l, d)
  <2>1. LinkOK(k) /\ Touch(l, k, d)
    BY DidCloseOK DEF Touch
  <2>2. r = [PutLink(s, d, k) EXCEPT !.doc[d] = NoDoc]
    BY <1>4 DEF NotifyClose
  <2> HIDE DEF k
  <2>. QED BY <1>2, <2>1, <2>2
<1>. QED BY <1>3, <1>4

-------------------------------------------------------------------------------
(* The steps of the editor.                                                *)

LEMMA SessionGives ==
  ASSUME NEW s, DeskOK(desk, text, missed), NEW d \in Docs, NEW l, SessionFor(LanguageOf[d], l)
  PROVE  /\ LinkOK(l)
         /\ l = LinkOf(d) \/ Fresh(l)
         /\ Live(l) \/ l = NoLink
<1>1. LinkOK(LinkOf(d))
  BY DEF DeskOK, LinkOf, Languages
<1>2. Live(StartedLink)
  BY DEF Live, StartedLink, NoLink
<1>3. (Live(LinkOf(d)) /\ l = LinkOf(d)) \/ l \in {NoLink, StartedLink}
  BY DEF SessionFor, LinkOf
<1>. QED BY <1>1, <1>2, <1>3, FreshLinks DEF Fresh

LEMMA TellOK ==
  ASSUME IInv, Tell
  PROVE  TypeOK' /\ FormatsActive' /\ GoodStep(desk, desk', text', missed')
<1> DEFINE c == Head(todo)
           d == c.doc
<1>1. todo \in Seq(Calls) /\ todo # <<>>
  BY DEF IInv, TypeOK, Tell
<1>2. c \in Calls /\ Tail(todo) \in Seq(Calls)
  BY <1>1, EmptySeq, HeadTailProperties, ElementOfSeq
<1>3. d \in Docs /\ c.op \in {"open", "change", "reload", "save", "close"}
  BY <1>2 DEF Calls
<1>4. /\ todo' = Tail(todo) /\ text' = [text EXCEPT ![d] = NewText(c)]
      /\ tabs' = tabs /\ active' = active /\ phase' = phase /\ purpose' = purpose
      /\ Forgotten(c)
  BY DEF Tell
<1>5. DeskOK(desk, text, missed) /\ text \in [Docs -> Nat]
  BY DEF IInv, TypeOK
<1>6. PICK l \in {LinkOf(d), NoLink, StartedLink}, oneLine \in BOOLEAN :
        /\ IF NeedsSession(c) THEN SessionFor(LanguageOf[d], l) ELSE l = LinkOf(d)
        /\ desk' = Told(c, l, oneLine)
        /\ missed' = Missed(c, l)
  BY DEF Tell
<1> HIDE DEF c
<1>7. /\ LinkOK(l)
      /\ l = desk.link[LanguageOf[d]] \/ Fresh(l)
      /\ NeedsSession(c) => Live(l) \/ l = NoLink
  <2>1. LinkOK(LinkOf(d))
    BY <1>3, <1>5 DEF DeskOK, LinkOf, Languages
  <2>. QED BY <1>3, <1>5, <1>6, <2>1, SessionGives DEF LinkOf
<1>8. /\ text' \in [Docs -> Nat] /\ text'[d] = NewText(c)
      /\ \A x \in Docs \ {d} : text'[x] = text[x]
  BY <1>3, <1>4, <1>5 DEF NewText
<1>9. /\ text[d] \in Nat /\ text'[d] \in Nat
      /\ c.op \notin {"change", "reload"} => text'[d] = text[d]
  BY <1>3, <1>5, <1>8 DEF NewText
<1>10. Agree(d, text, missed, text', missed')
  BY <1>6, <1>8 DEF Agree, Missed
<1>11. GoodStep(desk, desk', text', missed')
  <2>1. CASE c.op = "open" /\ KnownOpen(d)
    <3>1. desk' = desk /\ missed' = missed
      BY <1>6, <2>1 DEF Told, NotifyOpen, Missed, KnownOpen
    <3>. QED BY <1>3, <1>5, <1>9, <1>10, <2>1, <3>1, UntoldOK
  <2>2. CASE c.op = "open" /\ ~KnownOpen(d)
    <3>1. desk' = NotifyOpen(desk, l, d, text'[d])
      BY <1>6, <1>9, <2>2 DEF Told
    <3>2. Live(l) \/ l = NoLink
      BY <1>7, <2>2 DEF NeedsSession
    <3>. QED BY <1>3, <1>5, <1>7, <1>9, <1>10, <2>2, <3>1, <3>2, OpenOK DEF KnownOpen
  <2>3. CASE c.op = "change" /\ KnownOpen(d)
    <3>1. desk' = NotifyChange(desk, l, d, text[d], text'[d], oneLine)
      BY <1>6, <1>8, <2>3 DEF Told
    <3>2. d \notin missed' => d \notin missed /\ IsOpen(l, d) /\ l.caps.sync # SyncNone
      BY <1>6, <2>3 DEF Missed
    <3>. QED BY <1>3, <1>5, <1>7, <1>9, <1>10, <2>3, <3>1, <3>2, ChangeOK DEF KnownOpen
  <2>4. CASE c.op = "reload" /\ KnownOpen(d)
    <3>1. desk' = NotifyReload(desk, l, d, text'[d])
      BY <1>6, <1>8, <2>4 DEF Told
    <3>2. d \notin missed' => IsOpen(l, d)
      BY <1>6, <2>4 DEF Missed
    <3>. QED BY <1>3, <1>5, <1>7, <1>9, <1>10, <2>4, <3>1, <3>2, ReloadOK DEF KnownOpen
  <2>5. CASE c.op = "reload" /\ ~KnownOpen(d)
    <3>1. desk' = NotifyOpen(desk, l, d, text'[d])
      BY <1>6, <1>8, <2>5 DEF Told, NotifyReload, KnownOpen
    <3>2. Live(l) \/ l = NoLink
      BY <1>7, <2>5 DEF NeedsSession
    <3>. QED BY <1>3, <1>5, <1>7, <1>9, <1>10, <2>5, <3>1, <3>2, OpenOK DEF KnownOpen
  <2>6. CASE c.op \in {"change", "save"} /\ ~KnownOpen(d)
    <3>1. desk' = desk
      BY <1>6, <2>6 DEF Told, NotifyChange, NotifySave, KnownOpen
    <3>. QED BY <1>3, <1>5, <1>10, <2>6, <3>1, UntoldOK DEF KnownOpen
  <2>7. CASE c.op = "save" /\ KnownOpen(d)
    <3>1. desk' = PutLink(desk, d, l) /\ missed' = missed
      BY <1>6, <2>7 DEF Told, NotifySave, KnownOpen, Missed
    <3>. QED BY <1>3, <1>5, <1>7, <1>9, <1>10, <2>7, <3>1, OnlyLinkOK
  <2>8. CASE c.op = "close"
    <3>1. desk' = NotifyClose(desk, l, d)
      BY <1>6, <2>8 DEF Told
    <3>2. CASE desk.doc[d] = NoDoc
      <4>1. desk' = desk
        BY <3>1, <3>2 DEF NotifyClose
      <4>. QED BY <1>3, <1>5, <1>10, <3>2, <4>1, UntoldOK
    <3>3. CASE desk.doc[d] # NoDoc
      BY <1>3, <1>5, <1>7, <1>10, <3>1, <3>3, CloseOK
    <3>. QED BY <3>2, <3>3
  <2>. QED BY <1>3, <2>1, <2>2, <2>3, <2>4, <2>5, <2>6, <2>7, <2>8
<1>12. FormatsActive'
  BY <1>4 DEF IInv, FormatsActive
<1>13. ReadyOK'
  <2>1. ready' = [ready EXCEPT !["completion"] = Nothing] \/ ready' = ready
    BY <1>4 DEF Forgotten
  <2>. QED BY <2>1 DEF IInv, TypeOK, ReadyOK, Empty
<1>14. TypeOK'
  BY <1>2, <1>4, <1>8, <1>13 DEF IInv, TypeOK, c
<1>. QED BY <1>11, <1>12, <1>14

\* A session goes on, or is replaced, without a word about a document.
Keeps(l, k) ==
  /\ LinkOK(k)
  /\ \A d \in Docs : \A e, t, miss : EntryOK(l, d, e, t, miss) => EntryOK(k, d, e, t, miss)
  /\ \A d \in Docs : l.copy[d] # Closed /\ k.copy[d] # Closed => k.copy[d] = l.copy[d]

LEMMA SameKeeps ==
  ASSUME NEW l, NEW k, LinkOK(k), SameDocuments(l, k)
  PROVE  Keeps(l, k)
BY DEF Keeps, SameDocuments, EntryOK

LEMMA FreshKeeps ==
  ASSUME NEW l, NEW k, Fresh(k)
  PROVE  Keeps(l, k)
<1>1. \A d \in Docs : \A e, t, miss : EntryOK(l, d, e, t, miss) => (e # NoDoc /\ e.open => e.version >= 1)
  BY DEF EntryOK
<1>. QED BY <1>1, FreshLinks DEF Keeps

LEMMA KeepsOn ==
  ASSUME NEW l, NEW k, Keeps(l, k), NEW j, LinkOK(j), SameDocuments(k, j)
  PROVE  Keeps(l, j)
<1>1. Keeps(k, j)
  BY SameKeeps
<1>. QED BY <1>1 DEF Keeps, SameDocuments

LEMMA LinksOnly ==
  ASSUME NEW s, NEW tx, NEW miss, DeskOK(s, tx, miss), NEW r \in Desks, r.doc = s.doc,
         \A lang \in Languages : Keeps(s.link[lang], r.link[lang])
  PROVE  DeskOK(r, tx, miss) /\ Rises(s, r)
<1>1. \A d \in Docs : LanguageOf[d] \in Languages
  BY DEF Languages
<1>2. \A lang \in Languages : LinkOK(r.link[lang])
  BY DEF Keeps
<1>3. \A d \in Docs : EntryOK(r.link[LanguageOf[d]], d, r.doc[d], tx[d], miss)
  BY <1>1 DEF Keeps, DeskOK
<1>4. \A d \in Docs : RisesAt(s, r, d)
  BY <1>1 DEF Keeps, RisesAt
<1>. QED BY <1>2, <1>3, <1>4 DEF DeskOK, Rises

\* One link of the desk.
LEMMA OneLink ==
  ASSUME NEW s, NEW tx, NEW miss, DeskOK(s, tx, miss), NEW lang \in Languages, NEW k,
         Keeps(s.link[lang], k)
  PROVE  LET r == [s EXCEPT !.link[lang] = k]
         IN  /\ r \in Desks /\ r.doc = s.doc
             /\ \A x \in Languages : r.link[x] = IF x = lang THEN k ELSE s.link[x]
             /\ DeskOK(r, tx, miss) /\ Rises(s, r)
<1> DEFINE ll == [s.link EXCEPT ![lang] = k]
           r == [s EXCEPT !.link[lang] = k]
<1>1. s \in Desks /\ LinkOK(k) /\ k \in Links
  BY DEF DeskOK, Keeps, LinkOK
<1>2. /\ ll \in [Languages -> Links]
      /\ \A x \in Languages : ll[x] = IF x = lang THEN k ELSE s.link[x]
  BY <1>1 DEF Desks
<1>3. r = [s EXCEPT !.link = ll]
  BY <1>1 DEF Desks
<1> HIDE DEF ll
<1>4. r \in Desks /\ r.doc = s.doc /\ r.link = ll
  BY <1>1, <1>2, <1>3 DEF Desks
<1> HIDE DEF r
<1>5. \A x \in Languages : LinkOK(s.link[x])
  BY DEF DeskOK
<1>6. \A x \in Languages : Keeps(s.link[x], r.link[x])
  BY <1>2, <1>4, <1>5 DEF Keeps
<1>7. DeskOK(r, tx, miss) /\ Rises(s, r)
  BY <1>4, <1>6, LinksOnly
<1>8. /\ r \in Desks /\ r.doc = s.doc
      /\ \A x \in Languages : r.link[x] = IF x = lang THEN k ELSE s.link[x]
      /\ DeskOK(r, tx, miss) /\ Rises(s, r)
  BY <1>2, <1>4, <1>7
<1>. QED BY <1>8 DEF r

LEMMA NothingRises ==
  ASSUME NEW s
  PROVE  Rises(s, s)
BY DEF Rises, RisesAt

\* The links of the pumps and of the requests.
LEMMA AskKeeps ==
  ASSUME DeskOK(desk, text, missed), NEW d \in Docs, NEW l, SessionFor(LanguageOf[d], l),
         NEW kind \in Kinds
  PROVE  /\ LinkOK(l) /\ (l = LinkOf(d) \/ Fresh(l))
         /\ Keeps(LinkOf(d), l) /\ Keeps(LinkOf(d), Ask(l, kind, d))
<1>1. LinkOK(l) /\ (l = LinkOf(d) \/ Fresh(l))
  BY SessionGives
<1>2. Keeps(LinkOf(d), l)
  <2>1. SameDocuments(l, l)
    BY DEF SameDocuments
  <2>. QED BY <1>1, <2>1, FreshKeeps, SameKeeps
<1>3. LinkOK(Ask(l, kind, d)) /\ SameDocuments(l, Ask(l, kind, d))
  BY <1>1, AskOK
<1>. QED BY <1>1, <1>2, <1>3, KeepsOn

LEMMA ServersKeep ==
  ASSUME NEW l, LinkOK(l), NEW k,
         \/ l.alive /\ \E caps \in AllCaps : k = AnswerInitialize(l, caps)
         \/ l.alive /\ k = RefuseInitialize(l)
         \/ l.alive /\ \E r \in l.asked : k = Answer(l, r)
         \/ l.alive /\ \E d \in Docs : l.copy[d] # Closed /\ k = Publish(l, d)
         \/ l.alive /\ \E d \in Docs : k = AskToEdit(l, d)
         \/ k = [l EXCEPT !.alive = FALSE]
  PROVE  Keeps(l, k)
<1>1. ASSUME NEW msg \in Messages, l.alive, k = Post(l, msg)
      PROVE  Keeps(l, k)
  BY <1>1, PostOK, SameKeeps
<1>2. ASSUME l.alive, NEW caps \in AllCaps, k = AnswerInitialize(l, caps)
      PROVE  Keeps(l, k)
  <2>1. [type |-> "initialized", caps |-> caps] \in Messages
    BY DEF Messages
  <2>. QED BY <1>1, <1>2, <2>1 DEF AnswerInitialize
<1>3. CASE l.alive /\ k = RefuseInitialize(l)
  <2>1. [type |-> "refused"] \in Messages
    BY DEF Messages
  <2>. QED BY <1>1, <1>3, <2>1 DEF RefuseInitialize
<1>4. ASSUME l.alive, NEW r \in l.asked, k = Answer(l, r)
      PROVE  Keeps(l, k)
  <2> DEFINE t == IF l.copy[r.doc] = Closed THEN Closed ELSE l.copy[r.doc].text
             f == [kind |-> r.kind, doc |-> r.doc, text |-> t]
             m == [type |-> "response", id |-> r.id, found |-> f]
             j == [l EXCEPT !.asked = @ \ {r}]
  <2>1. r \in Asks /\ l.copy \in [Docs -> Copies \cup {Closed}]
    BY <1>4 DEF LinkOK, Links
  <2>2. t \in Nat \cup {Closed, Garbled}
    BY <2>1 DEF Asks, Copies
  <2>3. k = Post(j, m)
    BY <1>4 DEF Answer
  <2> HIDE DEF t
  <2>4. f \in Found
    BY <2>1, <2>2 DEF Asks, Found
  <2> HIDE DEF f
  <2>5. m \in Messages
    <3>1. r.id \in Nat
      BY <2>1 DEF Asks
    <3>. QED BY <2>4, <3>1 DEF Messages
  <2>6. LinkOK(j) /\ SameDocuments(l, j) /\ j.alive = l.alive
    BY AnsweredLink
  <2> HIDE DEF m, j
  <2>7. LinkOK(k) /\ SameDocuments(j, k)
    <3>1. j.alive
      BY <1>4, <2>6
    <3>2. LinkOK(Post(j, m)) /\ SameDocuments(j, Post(j, m))
      BY <2>5, <2>6, <3>1, PostOK
    <3>. QED BY <2>3, <3>2
  <2>. QED BY <2>6, <2>7, SameKeeps, KeepsOn
<1>5. ASSUME l.alive, NEW d \in Docs, l.copy[d] # Closed, k = Publish(l, d)
      PROVE  Keeps(l, k)
  <2>1. l.copy[d].version \in Nat
    BY <1>5 DEF LinkOK, Links, Copies
  <2>2. [type |-> "diagnostics", doc |-> d, version |-> l.copy[d].version] \in Messages
    BY <2>1 DEF Messages
  <2>. QED BY <1>1, <1>5, <2>2 DEF Publish
<1>6. ASSUME l.alive, NEW d \in Docs, k = AskToEdit(l, d)
      PROVE  Keeps(l, k)
  <2>1. [type |-> "applyEdit", doc |-> d] \in Messages
    BY DEF Messages
  <2>. QED BY <1>1, <1>6, <2>1 DEF AskToEdit
<1>7. CASE k = [l EXCEPT !.alive = FALSE]
  BY <1>7, EndsOK, SameKeeps
<1>. QED BY <1>2, <1>3, <1>4, <1>5, <1>6, <1>7

\* What a step must show.
StepOK == IInv' /\ Rises(desk, desk')

LEMMA CallsAre ==
  ASSUME NEW d \in Docs
  PROVE  {TellOpen(d), TellChange(d), TellReload(d), TellSave(d), TellClose(d)} \subseteq Calls
BY DEF Calls, TellOpen, TellChange, TellReload, TellSave, TellClose

LEMMA SyncOK ==
  ASSUME NEW d \in Docs \cup {NoTab}
  PROVE  Sync(d) \in Seq(Calls)
<1>1. CASE d = NoTab
  BY <1>1, EmptySeq DEF Sync
<1>2. CASE d # NoTab
  BY <1>2, CallsAre DEF Sync
<1>. QED BY <1>1, <1>2

LEMMA RewriteOK ==
  ASSUME TypeOK, NEW d \in Docs, Rewrite(d)
  PROVE  tabs' \subseteq Docs /\ active' \in Docs \cup {NoTab} /\ todo' \in Seq(Calls)
<1>1. tabs' \subseteq Docs /\ active' \in Docs \cup {NoTab}
  BY DEF Rewrite, TypeOK
<1> DEFINE a == IF d \in tabs THEN <<>> ELSE <<TellOpen(d)>>
           b == <<TellChange(d)>>
           z == Sync(active')
<1>2. a \in Seq(Calls) /\ b \in Seq(Calls)
  BY CallsAre, EmptySeq
<1>3. z \in Seq(Calls)
  BY <1>1, SyncOK
<1>4. todo' = a \o b \o z
  BY DEF Rewrite
<1> HIDE DEF a, b, z
<1>5. a \o b \in Seq(Calls)
  BY <1>2, ConcatProperties
<1>. QED BY <1>1, <1>3, <1>4, <1>5, ConcatProperties

\* A slot is emptied.
LEMMA ClearOK ==
  ASSUME TypeOK, NEW slot, ready' = [ready EXCEPT ![slot] = Nothing]
  PROVE  ReadyOK'
BY DEF TypeOK, ReadyOK, Empty

LEMMA NoneReadyOK ==
  ASSUME ready' = NoneReady
  PROVE  ReadyOK'
BY DEF ReadyOK, NoneReady, Empty

LEMMA SameReady ==
  ASSUME TypeOK, ready' = ready
  PROVE  ReadyOK'
BY DEF TypeOK, ReadyOK, Empty

\* The steps of the UI that leave the desk alone.
LEMMA QuietUiOK ==
  ASSUME IInv, desk' = desk, text' = text, missed' = missed,
         tabs' \subseteq Docs, active' \in Docs \cup {NoTab}, todo' \in Seq(Calls),
         ReadyOK',
         phase' # "input" /\ purpose' = "format" => active' \in Docs
  PROVE  StepOK
<1>1. TypeOK' /\ FormatsActive'
  BY DEF IInv, TypeOK, FormatsActive
<1>2. DeskOK(desk', text', missed') /\ Rises(desk, desk')
  BY NothingRises DEF IInv
<1>. QED BY <1>1, <1>2 DEF StepOK, IInv

LEMMA RenderOK ==
  ASSUME IInv, Render \/ ShowStatus \/ Escape \/ EndPoll \/ SaveLooksAgain
               \/ \E b \in Binaries : InstallKey(b) \/ InstallEnds(b) \/ TimePasses(b)
  PROVE  StepOK
<1>1. TypeOK /\ FormatsActive
  BY DEF IInv
<1> DEFINE Still ==
             /\ desk' = desk /\ text' = text /\ missed' = missed
             /\ tabs' = tabs /\ active' = active /\ todo' = todo
             /\ ready' \in {ready, NoneReady}
             /\ phase' # "input" /\ purpose' = "format" => phase # "input" /\ purpose = "format"
<1>2. Still
  <2>1. CASE Render
    BY <2>1 DEF Render, StartPump, serviceVars
  <2>2. CASE ShowStatus
    BY <2>2 DEF ShowStatus, StartPump, serviceVars
  <2>3. CASE Escape
    BY <2>3 DEF Escape, Forget, uiVars
  <2>4. CASE EndPoll
    BY <2>4 DEF EndPoll, serviceVars
  <2>5. CASE SaveLooksAgain
    BY <2>5 DEF SaveLooksAgain, SaveLoop, serviceVars
  <2>6. ASSUME NEW b \in Binaries, InstallKey(b) \/ InstallEnds(b) \/ TimePasses(b)
        PROVE  UNCHANGED <<serviceVars, uiVars>>
    BY <2>6 DEF InstallKey, InstallEnds, TimePasses
  <2>7. UNCHANGED <<serviceVars, uiVars>> => Still
    BY DEF serviceVars, uiVars
  <2>. QED BY <2>1, <2>2, <2>3, <2>4, <2>5, <2>6, <2>7
<1>3. CASE ready' = ready
  BY <1>1, <1>2, <1>3, SameReady, QuietUiOK DEF TypeOK, FormatsActive
<1>4. CASE ready' = NoneReady
  BY <1>1, <1>2, <1>4, NoneReadyOK, QuietUiOK DEF TypeOK, FormatsActive
<1>. QED BY <1>2, <1>3, <1>4

LEMMA PollOK ==
  ASSUME IInv, (\E slot \in Slots : Show(slot) \/ Goto(slot) \/ ApplyEdit(slot)) \/ ApplyFormat
  PROVE  StepOK
<1>1. TypeOK
  BY DEF IInv
<1>2. ASSUME NEW slot \in Slots, Show(slot)
      PROVE  StepOK
  <2>1. UNCHANGED uiVars /\ desk' = desk /\ ready' = [ready EXCEPT ![slot] = Nothing]
    BY <1>2 DEF Show, Clear
  <2>. QED BY <1>1, <2>1, ClearOK, QuietUiOK DEF uiVars, TypeOK, IInv, FormatsActive
<1>3. ASSUME NEW slot \in Slots, Goto(slot)
      PROVE  StepOK
  <2> DEFINE d == ready[slot].found.doc
  <2>1. d \in Docs
    BY <1>1, <1>3 DEF Goto, IsNext, TypeOK, ReadyOK
  <2>2. /\ tabs' = tabs \cup {d} /\ active' = d /\ todo' = Sync(d)
        /\ desk' = desk /\ text' = text /\ missed' = missed
        /\ ready' = [ready EXCEPT ![slot] = Nothing]
    BY <1>3 DEF Goto, Visit, Clear
  <2>3. tabs' \subseteq Docs /\ active' \in Docs /\ todo' \in Seq(Calls)
    BY <1>1, <2>1, <2>2, SyncOK DEF TypeOK
  <2>. QED BY <1>1, <2>2, <2>3, ClearOK, QuietUiOK
<1>4. ASSUME NEW slot \in Slots, ApplyEdit(slot)
      PROVE  StepOK
  <2> DEFINE d == ready[slot].found.doc
  <2>1. d \in Docs
    BY <1>1, <1>4 DEF ApplyEdit, IsNext, TypeOK, ReadyOK
  <2>2. /\ Rewrite(d) /\ desk' = desk /\ text' = text /\ missed' = missed
        /\ phase' = phase /\ purpose' = purpose /\ purpose = "render"
        /\ ready' = [ready EXCEPT ![slot] = Nothing]
    BY <1>4 DEF ApplyEdit, Clear, Polling
  <2>3. tabs' \subseteq Docs /\ active' \in Docs \cup {NoTab} /\ todo' \in Seq(Calls)
    BY <1>1, <2>1, <2>2, RewriteOK
  <2>. QED BY <1>1, <2>2, <2>3, ClearOK, QuietUiOK
<1>5. CASE ApplyFormat
  <2>1. /\ Format /\ desk' = desk /\ text' = text /\ missed' = missed
        /\ phase' = phase /\ purpose' = purpose /\ purpose = "render"
        /\ ready' = [ready EXCEPT !["formatting"] = Nothing]
    BY <1>5 DEF ApplyFormat, Clear, Polling
  <2>2. tabs' \subseteq Docs /\ active' \in Docs \cup {NoTab} /\ todo' \in Seq(Calls)
    <3>1. CASE active = NoTab
      BY <1>1, <2>1, <3>1 DEF Format, TypeOK
    <3>2. CASE active # NoTab
      BY <1>1, <2>1, <3>2, RewriteOK DEF Format, TypeOK
    <3>. QED BY <3>1, <3>2
  <2>. QED BY <1>1, <2>1, <2>2, ClearOK, QuietUiOK
<1>. QED BY <1>2, <1>3, <1>4, <1>5

LEMMA SaveStepsOK ==
  ASSUME IInv, SaveFormatted \/ SaveUnformatted
  PROVE  StepOK
<1>1. TypeOK /\ active \in Docs
  BY DEF IInv, FormatsActive, SaveFormatted, SaveUnformatted, SaveLoop
<1>2. /\ <<TellChange(active), TellOpen(active), TellSave(active)>> \in Seq(Calls)
      /\ <<TellSave(active)>> \in Seq(Calls)
  BY <1>1, CallsAre
<1>3. /\ desk' = desk /\ text' = text /\ missed' = missed /\ tabs' = tabs /\ active' = active
      /\ phase' = "input" /\ todo' \in Seq(Calls)
      /\ ready' \in {ready, [ready EXCEPT !["formatting"] = Nothing]}
  BY <1>2 DEF SaveFormatted, SaveUnformatted, Clear, serviceVars
<1>4. CASE ready' = ready
  BY <1>1, <1>3, <1>4, SameReady, QuietUiOK DEF TypeOK
<1>5. CASE ready' = [ready EXCEPT !["formatting"] = Nothing]
  BY <1>1, <1>3, <1>5, ClearOK, QuietUiOK DEF TypeOK
<1>. QED BY <1>3, <1>4, <1>5

LEMMA TabInputsOK ==
  ASSUME IInv, NEW d \in Docs, OpenTab(d) \/ CloseTab(d) \/ Edit(d) \/ Reload(d) \/ Save(d)
  PROVE  StepOK
<1>1. TypeOK
  BY DEF IInv
<1>2. /\ <<TellClose(d)>> \in Seq(Calls) /\ <<TellChange(d)>> \in Seq(Calls)
      /\ <<TellReload(d)>> \in Seq(Calls) /\ <<TellSave(d)>> \in Seq(Calls)
  BY CallsAre
<1>3. /\ desk' = desk /\ text' = text /\ missed' = missed /\ ready' = ready
      /\ phase' = "input"
  <2>1. phase = "input"
    BY DEF OpenTab, CloseTab, Edit, Reload, Save, Key, Idle
  <2>. QED BY <2>1 DEF OpenTab, CloseTab, Edit, Reload, Save, serviceVars
<1>4. tabs' \subseteq Docs /\ active' \in Docs \cup {NoTab} /\ todo' \in Seq(Calls)
  <2>1. CASE OpenTab(d)
    BY <1>1, <2>1, SyncOK DEF OpenTab, Visit, TypeOK
  <2>2. CASE CloseTab(d)
    <3>1. /\ tabs' = tabs \ {d} /\ active' \in (IF tabs' = {} THEN {NoTab} ELSE tabs')
          /\ todo' = <<TellClose(d)>> \o Sync(active')
      BY <2>2 DEF CloseTab
    <3>2. tabs' \subseteq Docs /\ active' \in Docs \cup {NoTab}
      BY <1>1, <3>1 DEF TypeOK
    <3>3. Sync(active') \in Seq(Calls)
      BY <3>2, SyncOK
    <3>4. todo' \in Seq(Calls)
      BY <1>2, <3>1, <3>3, ConcatProperties
    <3>. QED BY <3>2, <3>4
  <2>3. CASE Edit(d) \/ Reload(d) \/ Save(d)
    BY <1>1, <1>2, <2>3 DEF Edit, Reload, Save, TypeOK
  <2>. QED BY <2>1, <2>2, <2>3
<1>. QED BY <1>1, <1>3, <1>4, SameReady, QuietUiOK

\* The session of a request.
LEMMA LinkStepOK ==
  ASSUME IInv, NEW d \in Docs, NEW k, Keeps(LinkOf(d), k), desk' = PutLink(desk, d, k)
  PROVE  DeskOK(desk', text, missed) /\ Rises(desk, desk')
<1>1. LanguageOf[d] \in Languages
  BY DEF Languages
<1>2. DeskOK(desk, text, missed)
  BY DEF IInv
<1>. QED BY <1>1, <1>2, OneLink DEF LinkOf, PutLink

LEMMA RequestOK ==
  ASSUME IInv, NEW d \in Docs, NEW kind \in Kinds, RequestFor(kind, d)
  PROVE  /\ DeskOK(desk', text, missed) /\ Rises(desk, desk')
         /\ ReadyOK'
<1> DEFINE empty == [ready EXCEPT ![Slot(kind)] = Nothing]
<1>1. TypeOK /\ DeskOK(desk, text, missed)
  BY DEF IInv
<1>2. ready' \in {ready, empty}
  BY DEF RequestFor, Send
<1>3. ReadyOK'
  BY <1>1, <1>2, SameReady, ClearOK
<1>4. \/ desk' = desk
      \/ \E l : /\ SessionFor(LanguageOf[d], l)
                /\ desk' \in {PutLink(desk, d, l), PutLink(desk, d, Ask(l, kind, d))}
  BY DEF RequestFor, Send
<1>5. DeskOK(desk', text, missed) /\ Rises(desk, desk')
  <2>1. CASE desk' = desk
    BY <1>1, <2>1, NothingRises
  <2>2. ASSUME NEW l, SessionFor(LanguageOf[d], l),
               desk' \in {PutLink(desk, d, l), PutLink(desk, d, Ask(l, kind, d))}
        PROVE  DeskOK(desk', text, missed) /\ Rises(desk, desk')
    <3>1. Keeps(LinkOf(d), l) /\ Keeps(LinkOf(d), Ask(l, kind, d))
      BY <1>1, <2>2, AskKeeps
    <3>. QED BY <2>2, <3>1, LinkStepOK
  <2>. QED BY <1>4, <2>1, <2>2
<1>. QED BY <1>3, <1>5

LEMMA AskForOK ==
  ASSUME IInv, NEW kind \in Asked, AskFor(kind)
  PROVE  StepOK
<1>1. TypeOK /\ kind \in Kinds
  BY ClientAssumption DEF IInv
<1>2. active \in Docs /\ RequestFor(kind, active) /\ UNCHANGED uiVars
  BY <1>1 DEF AskFor, TypeOK
<1>3. /\ DeskOK(desk', text, missed) /\ Rises(desk, desk')
      /\ ReadyOK'
  BY <1>1, <1>2, RequestOK
<1>. QED BY <1>1, <1>2, <1>3 DEF StepOK, IInv, TypeOK, FormatsActive, uiVars

LEMMA SaveAndFormatOK ==
  ASSUME IInv, NEW d \in Docs, SaveAndFormat(d)
  PROVE  StepOK
<1>1. TypeOK /\ "formatting" \in Kinds
  BY DEF IInv, Kinds
<1>2. /\ active = d /\ active' = active /\ tabs' = tabs /\ text' = text /\ missed' = missed
      /\ RequestFor("formatting", d) /\ todo' \in {todo, <<TellSave(d)>>}
  BY DEF SaveAndFormat
<1>3. /\ DeskOK(desk', text, missed) /\ Rises(desk, desk')
      /\ ReadyOK'
  BY <1>1, <1>2, RequestOK
<1>4. todo' \in Seq(Calls)
  <2>1. TellSave(d) \in Calls
    BY CallsAre
  <2>2. <<TellSave(d)>> \in Seq(Calls)
    BY <2>1
  <2>. QED BY <1>1, <1>2, <2>2 DEF TypeOK
<1>. QED BY <1>1, <1>2, <1>3, <1>4 DEF StepOK, IInv, TypeOK, FormatsActive

LEMMA AskCompletionOK ==
  ASSUME IInv, AskCompletion
  PROVE  StepOK
<1>1. TypeOK /\ "completion" \in Kinds /\ DeskOK(desk, text, missed)
  BY DEF IInv, Kinds
<1>2. active \in Docs /\ UNCHANGED uiVars /\ ready' = NoneReady
  BY <1>1 DEF AskCompletion, TypeOK
<1>3. \/ desk' = desk
      \/ \E l : /\ SessionFor(LanguageOf[active], l)
                /\ desk' \in {PutLink(desk, active, l),
                              PutLink(desk, active, Ask(l, "completion", active))}
  BY DEF AskCompletion
<1>4. DeskOK(desk', text, missed) /\ Rises(desk, desk')
  <2>1. CASE desk' = desk
    BY <1>1, <2>1, NothingRises
  <2>2. ASSUME NEW l, SessionFor(LanguageOf[active], l),
               desk' \in {PutLink(desk, active, l),
                          PutLink(desk, active, Ask(l, "completion", active))}
        PROVE  DeskOK(desk', text, missed) /\ Rises(desk, desk')
    <3>1. Keeps(LinkOf(active), l) /\ Keeps(LinkOf(active), Ask(l, "completion", active))
      BY <1>1, <1>2, <2>2, AskKeeps
    <3>. QED BY <1>2, <2>2, <3>1, LinkStepOK
  <2>. QED BY <1>3, <2>1, <2>2
<1>. QED BY <1>1, <1>2, <1>4, NoneReadyOK DEF StepOK, IInv, TypeOK, FormatsActive, uiVars

LEMMA ShutDownOK ==
  ASSUME IInv, Restart \/ OpenWorkspace
  PROVE  StepOK
<1>1. TypeOK
  BY DEF IInv
<1>2. /\ desk' = [doc |-> [d \in Docs |-> NoDoc], link |-> [lang \in Languages |-> NoLink]]
      /\ ready' = NoneReady /\ missed' = {} /\ todo' \in {todo, Sync(active)}
      /\ tabs' = tabs /\ active' = active /\ text' = text /\ phase' = phase /\ purpose' = purpose
  BY DEF Restart, OpenWorkspace, ShutDown, Forget
<1>3. todo' \in Seq(Calls)
  BY <1>1, <1>2, SyncOK DEF TypeOK
<1>4. Fresh(NoLink) /\ LinkOK(NoLink) /\ NoLink \in Links
  BY FreshLinks DEF Fresh, LinkOK
<1>5. desk' \in Desks
  BY <1>2, <1>4 DEF Desks
<1>6. DeskOK(desk', text, missed')
  BY <1>2, <1>4, <1>5 DEF DeskOK, EntryOK, Languages
<1>7. Rises(desk, desk')
  BY <1>2 DEF Rises, RisesAt
<1>. QED BY <1>1, <1>2, <1>3, <1>6, <1>7, NoneReadyOK DEF StepOK, IInv, TypeOK, FormatsActive

LEMMA PumpMessageOK ==
  ASSUME IInv, PumpMessage
  PROVE  StepOK
<1>1. TypeOK /\ DeskOK(desk, text, missed)
  BY DEF IInv
<1>2. PICK lang \in Languages : OnMessage(lang)
  BY DEF PumpMessage
<1> DEFINE l == desk.link[lang]
           msg == Head(l.out)
           read == [l EXCEPT !.out = Tail(@)]
<1>3. LinkOK(l) /\ l.out # <<>>
  BY <1>1, <1>2 DEF DeskOK, OnMessage
<1>4. /\ LinkOK(read) /\ SameDocuments(l, read) /\ read.state = l.state /\ msg \in Messages
  BY <1>3, ReadOK
<1>5. l.state \in {"starting", "running"}
  BY <1>3 DEF LinkOK, Links
<1>6. UNCHANGED uiVars
  BY DEF PumpMessage
<1>7. /\ \/ desk' = [desk EXCEPT !.link[lang] = read]
         \/ desk' = [desk EXCEPT !.link[lang] = InitializeFailed(read)]
         \/ msg.type = "initialized" /\ desk' = [desk EXCEPT !.link[lang] = Initialized(read, msg.caps)]
      /\ \/ ready' = ready
         \/ msg.type = "response" /\ OnResponse(msg)
         \/ msg.type = "applyEdit" /\ ready' = [ready EXCEPT !["applyEdit"] =
              [kind |-> "applyEdit", doc |-> msg.doc, version |-> 0,
               found |-> [kind |-> "applyEdit", doc |-> msg.doc]]]
  <2>1. msg.type \in {"initialized", "refused", "response", "diagnostics", "applyEdit"}
    BY <1>4 DEF Messages
  <2>2. CASE msg.type = "initialized"
    BY <1>2, <2>2 DEF OnMessage
  <2>3. CASE msg.type = "refused"
    BY <1>2, <2>3 DEF OnMessage
  <2>4. CASE msg.type = "response"
    BY <1>2, <2>4 DEF OnMessage
  <2>5. CASE msg.type = "diagnostics"
    BY <1>2, <2>5 DEF OnMessage
  <2>6. CASE msg.type = "applyEdit"
    BY <1>2, <2>6 DEF OnMessage
  <2>. QED BY <2>1, <2>2, <2>3, <2>4, <2>5, <2>6
<1>8. /\ msg.type = "initialized" => msg.caps \in AllCaps
      /\ msg.type = "response" => msg.found.doc \in Docs
      /\ msg.type = "applyEdit" => msg.doc \in Docs
  BY <1>4 DEF Messages, Found
<1> HIDE DEF l, msg, read
<1>9. Keeps(l, read) /\ Keeps(l, InitializeFailed(read))
  <2>1. LinkOK(InitializeFailed(read)) /\ SameDocuments(read, InitializeFailed(read))
    BY <1>4, EndsOK
  <2>2. Keeps(l, read)
    BY <1>4, SameKeeps
  <2>. QED BY <2>1, <2>2, KeepsOn
<1>10. ASSUME msg.type = "initialized"
       PROVE  Keeps(l, Initialized(read, msg.caps))
  <2> DEFINE k == Initialized(read, msg.caps)
  <2>1. msg.caps \in AllCaps /\ read.state \in {"starting", "running"}
    BY <1>4, <1>5, <1>8, <1>10
  <2>2. /\ LinkOK(k)
        /\ \A d \in Docs : \A e, t, miss : EntryOK(read, d, e, t, miss) => EntryOK(k, d, e, t, miss)
        /\ \A d \in Docs : read.copy[d] # Closed => k.copy[d] = read.copy[d]
    BY <1>4, <2>1, InitializedOK
  <2> HIDE DEF k
  <2>3. Keeps(read, k)
    BY <2>2 DEF Keeps
  <2>4. Keeps(l, k)
    BY <1>4, <1>9, <2>3 DEF Keeps, SameDocuments
  <2>. QED BY <2>4 DEF k
<1>11. DeskOK(desk', text, missed) /\ Rises(desk, desk')
  BY <1>1, <1>7, <1>9, <1>10, OneLink DEF l
<1>12. ReadyOK'
  <2>1. ASSUME NEW slot, NEW v, v.found.doc \in Docs, ready' = [ready EXCEPT ![slot] = v]
        PROVE  ReadyOK'
    BY <1>1, <2>1 DEF TypeOK, ReadyOK, Empty
  <2>2. CASE ready' = ready
    BY <1>1, <2>2, SameReady
  <2>3. CASE msg.type = "response" /\ OnResponse(msg) /\ ready' # ready
    <3>1. PICK r : ready' = [ready EXCEPT ![Slot(r.kind)] = ReadyFor(r, msg.found)]
      BY <2>3 DEF OnResponse
    <3>2. ReadyFor(r, msg.found).found.doc \in Docs
      BY <1>8, <2>3 DEF ReadyFor
    <3>. QED BY <2>1, <3>1, <3>2
  <2>4. ASSUME msg.type = "applyEdit", ready' = [ready EXCEPT !["applyEdit"] =
                 [kind |-> "applyEdit", doc |-> msg.doc, version |-> 0,
                  found |-> [kind |-> "applyEdit", doc |-> msg.doc]]]
        PROVE  ReadyOK'
    BY <1>8, <2>1, <2>4
  <2>. QED BY <1>7, <2>2, <2>3, <2>4
<1>. QED BY <1>1, <1>6, <1>11, <1>12 DEF StepOK, IInv, TypeOK, FormatsActive, uiVars

LEMMA EndPumpOK ==
  ASSUME IInv, EndPump
  PROVE  StepOK
<1>1. TypeOK /\ DeskOK(desk, text, missed)
  BY DEF IInv
<1> DEFINE ll == [lang \in Languages |-> Noticed(desk.link[lang])]
<1>2. /\ desk' = [desk EXCEPT !.link = ll]
      /\ text' = text /\ missed' = missed /\ tabs' = tabs /\ active' = active /\ ready' = ready
      /\ purpose' = purpose /\ phase = "pump"
  BY <1>1 DEF EndPump, DeskOK, Desks
<1>3. \A lang \in Languages : /\ ll[lang] \in Links /\ Keeps(desk.link[lang], ll[lang])
  <2> SUFFICES ASSUME NEW lang \in Languages
               PROVE  /\ Noticed(desk.link[lang]) \in Links
                      /\ Keeps(desk.link[lang], Noticed(desk.link[lang]))
    OBVIOUS
  <2>1. LinkOK(desk.link[lang])
    BY <1>1 DEF DeskOK
  <2>2. /\ LinkOK(Noticed(desk.link[lang]))
        /\ SameDocuments(desk.link[lang], Noticed(desk.link[lang]))
    BY <2>1, EndsOK
  <2>. QED BY <2>2, SameKeeps DEF LinkOK
<1>4. ll \in [Languages -> Links]
  BY <1>3
<1> HIDE DEF ll
<1>5. desk' \in Desks /\ desk'.doc = desk.doc /\ desk'.link = ll
  BY <1>1, <1>2, <1>4 DEF DeskOK, Desks
<1>6. DeskOK(desk', text, missed) /\ Rises(desk, desk')
  BY <1>1, <1>3, <1>5, LinksOnly
<1>7. todo' \in Seq(Calls)
  <2> DEFINE wait == {d \in Docs : desk.doc[d] # NoDoc /\ ~KnownOpen(d)}
  <2>1. Cardinality(wait) \in Nat
    BY SessionAssumption, FS_Subset, FS_CardinalityType
  <2>2. CASE todo' = <<>>
    BY <2>2, EmptySeq
  <2>3. CASE todo' # <<>>
    <3>1. PICK order \in [1 .. Cardinality(wait) -> wait] :
            todo' = [i \in DOMAIN order |-> TellOpen(order[i])]
      BY <2>3 DEF EndPump
    <3> HIDE DEF wait
    <3>2. \A i \in 1 .. Cardinality(wait) : TellOpen(order[i]) \in Calls
      BY CallsAre DEF wait
    <3>3. todo' \in [1 .. Cardinality(wait) -> Calls]
      BY <3>1, <3>2
    <3>. QED BY <2>1, <3>3, SeqDef
  <2>. QED BY <2>2, <2>3
<1>. QED BY <1>1, <1>2, <1>6, <1>7, SameReady DEF StepOK, IInv, TypeOK, FormatsActive

LEMMA ServersOK ==
  ASSUME IInv, Servers
  PROVE  StepOK
<1>1. TypeOK /\ DeskOK(desk, text, missed)
  BY DEF IInv
<1>2. PICK lang \in Languages : \/ ServerStarts(lang) \/ ServerAnswers(lang)
                                \/ ServerPosts(lang) \/ ServerExits(lang)
  BY DEF Servers
<1> DEFINE l == desk.link[lang]
<1>3. LinkOK(l)
  BY <1>1 DEF DeskOK
<1>4. \E k : Keeps(l, k) /\ Serve(lang, k)
  <2>1. CASE ServerStarts(lang)
    BY <1>3, <2>1, ServersKeep DEF ServerStarts, Serve
  <2>2. CASE ServerAnswers(lang)
    BY <1>3, <2>2, ServersKeep DEF ServerAnswers, Serve
  <2>3. CASE ServerPosts(lang)
    BY <1>3, <2>3, ServersKeep DEF ServerPosts, Serve
  <2>4. CASE ServerExits(lang)
    BY <1>3, <2>4, ServersKeep DEF ServerExits, Serve
  <2>. QED BY <1>2, <2>1, <2>2, <2>3, <2>4
<1>5. DeskOK(desk', text, missed) /\ Rises(desk, desk')
  BY <1>1, <1>4, OneLink DEF Serve
<1>6. UNCHANGED uiVars /\ ready' = ready
  BY <1>4 DEF Serve
<1>. QED BY <1>1, <1>5, <1>6, SameReady DEF StepOK, IInv, TypeOK, FormatsActive, uiVars

-------------------------------------------------------------------------------
LEMMA InitOK == Init => IInv
<1> SUFFICES ASSUME Init PROVE IInv
  OBVIOUS
<1>1. desk = [doc |-> [d \in Docs |-> NoDoc], link |-> [lang \in Languages |-> NoLink]]
  BY DEF Init, ServiceInit
<1>2. LinkOK(NoLink) /\ NoLink \in Links
  BY FreshLinks DEF Fresh, LinkOK
<1>3. desk \in Desks
  BY <1>1, <1>2 DEF Desks
<1>4. DeskOK(desk, text, missed)
  BY <1>1, <1>2, <1>3 DEF DeskOK, EntryOK, Languages
<1>5. TypeOK /\ FormatsActive
  BY EmptySeq DEF Init, ServiceInit, TypeOK, FormatsActive, ReadyOK, NoneReady, Empty
<1>. QED BY <1>4, <1>5 DEF IInv

LEMMA NextOK == IInv /\ [Next]_vars => StepOK
<1> SUFFICES ASSUME IInv, [Next]_vars PROVE StepOK
  OBVIOUS
<1>1. CASE UNCHANGED vars
  BY <1>1, RenderOK, SameReady, QuietUiOK
     DEF vars, uiVars, serviceVars, IInv, TypeOK, FormatsActive
<1>2. CASE Tell
  BY <1>2, TellOK DEF StepOK, IInv, GoodStep
<1>3. CASE Pump
  BY <1>3, RenderOK, PumpMessageOK, EndPumpOK DEF Pump
<1>4. CASE Poll
  BY <1>4, RenderOK, PollOK DEF Poll
<1>5. CASE SaveStep
  BY <1>5, RenderOK, SaveStepsOK DEF SaveStep
<1>6. CASE Inputs
  BY <1>6, RenderOK, TabInputsOK, SaveAndFormatOK, AskForOK, AskCompletionOK, ShutDownOK
     DEF Inputs
<1>7. CASE Servers
  BY <1>7, ServersOK
<1>8. CASE \E b \in Binaries : InstallEnds(b) \/ TimePasses(b)
  BY <1>8, RenderOK
<1>. QED BY <1>1, <1>2, <1>3, <1>4, <1>5, <1>6, <1>7, <1>8 DEF Next, UiTurn

\* The service and its servers are never in another state.
THEOREM ServiceInvariant == Spec => []IInv
<1>1. IInv /\ [Next]_vars => IInv'
  BY NextOK DEF StepOK
<1>. QED BY <1>1, InitOK, PTL DEF Spec

\* What the session believes to be open is what its server has open, as long as the server
\* is there: open_uris_ is filled and emptied with the messages themselves.
THEOREM ServersHaveWhatIsOpen == Spec => []ClientKnowsServer
<1>1. IInv => ClientKnowsServer
  BY DEF IInv, DeskOK, LinkOK, ClientKnowsServer
<1>. QED BY <1>1, ServiceInvariant, PTL

\* A server that has been told of every change has the buffer's text, under the version of
\* the service.
THEOREM ServersHaveTheText == Spec => []Mirror
<1>1. IInv => Mirror
  BY DEF IInv, DeskOK, EntryOK, Mirror, KnownOpen, LinkOf, IsOpen
<1>. QED BY <1>1, ServiceInvariant, PTL

\* A server is told of growing versions of a document that stays open.
THEOREM VersionsOnlyRise == Spec => VersionsRise
<1>1. IInv /\ [Next]_vars =>
        [\A d \in Docs :
           LET before == LinkOf(d).copy[d]
               after == LinkOf(d)'.copy[d]
           IN  KnownOpen(d) /\ KnownOpen(d)' /\ before # after /\ before # Closed /\ after # Closed
               => after.version > before.version]_vars
  BY NextOK DEF StepOK, Rises, RisesAt, LinkOf, KnownOpen
<1>. QED BY <1>1, ServiceInvariant, PTL DEF Spec, VersionsRise

-------------------------------------------------------------------------------
(* The requests, when all documents have one server: the ids of two servers *)
(* are the same numbers, and asking does not tell them apart.              *)

\* No request more is answered by k than by l.
Quieter(l, k) ==
  \/ /\ k.asked \subseteq l.asked /\ k.nextId = l.nextId
     /\ \A i \in DOMAIN k.out : \E j \in DOMAIN l.out : k.out[i] = l.out[j]
  \/ k.asked = {} /\ k.out = <<>>

AInv == IInv /\ AnswersOK /\ AnswersMatch

LEMMA QuieterOK ==
  ASSUME NEW l, NEW k, NEW u, NEW u2, Answered(l, u), Quieter(l, k), u2 \subseteq u
  PROVE  Answered(k, u2)
<1>1. CASE k.asked = {} /\ k.out = <<>>
  BY <1>1 DEF Answered
<1>2. CASE /\ k.asked \subseteq l.asked /\ k.nextId = l.nextId
           /\ \A i \in DOMAIN k.out : \E j \in DOMAIN l.out : k.out[i] = l.out[j]
  <2>1. \A r \in k.asked : /\ r.id < k.nextId
                           /\ \A q \in u2 : q.id = r.id => q.kind = r.kind /\ q.doc = r.doc
    BY <1>2 DEF Answered
  <2>2. ASSUME NEW i \in DOMAIN k.out, k.out[i].type = "response"
        PROVE  /\ k.out[i].id < k.nextId
               /\ \A q \in u2 : q.id = k.out[i].id =>
                    q.kind = k.out[i].found.kind /\ q.doc = k.out[i].found.doc
    <3>1. PICK j \in DOMAIN l.out : k.out[i] = l.out[j]
      BY <1>2, <2>2
    <3>. QED BY <1>2, <2>2, <3>1 DEF Answered
  <2>. QED BY <2>1, <2>2 DEF Answered
<1>. QED BY <1>1, <1>2 DEF Quieter

LEMMA LessAsked ==
  ASSUME AnswersOK, asking' \subseteq asking,
         \A lang \in Languages : Quieter(desk.link[lang], desk'.link[lang])
  PROVE  AnswersOK'
BY QuieterOK DEF AnswersOK

LEMMA SameAsked ==
  ASSUME AnswersOK, asking' \subseteq asking, desk' = desk
  PROVE  AnswersOK'
<1>1. \A lang \in Languages : Quieter(desk.link[lang], desk'.link[lang])
  BY DEF Quieter
<1>. QED BY <1>1, LessAsked

LEMMA FewerReady ==
  ASSUME TypeOK, AnswersMatch,
         ready' \in {ready, NoneReady} \/ \E slot : ready' = [ready EXCEPT ![slot] = Nothing]
  PROVE  AnswersMatch'
BY DEF TypeOK, ReadyOK, AnswersMatch, Empty, NoneReady

\* One request more.
LEMMA AskAnswered ==
  ASSUME NEW l, LinkOK(l), NEW u, Answered(l, u) \/ Fresh(l), NEW d \in Docs, NEW kind \in Kinds,
         NEW u2, \A q \in u2 : q \in u \/ q.id = l.nextId,
         l.alive => \A q \in u2 : q.id = l.nextId => q.kind = kind /\ q.doc = d
  PROVE  Answered(Ask(l, kind, d), u2)
<1> DEFINE k == Ask(l, kind, d)
           new == [id |-> l.nextId, kind |-> kind, doc |-> d]
           n == l.nextId
<1>1. /\ k.nextId = n + 1 /\ k.out = l.out
      /\ k.asked = IF l.alive THEN l.asked \cup {new} ELSE l.asked
  BY AskOK
<1>2. n \in Nat /\ l.asked \subseteq Asks /\ l.out \in Seq(Messages)
  BY DEF LinkOK, Links
<1>3. Answered(l, u)
  BY FreshLinks DEF Answered
<1>4. \A q \in u2 : q.id # n => q \in u
  OBVIOUS
<1> HIDE DEF k
<1>5. ASSUME NEW r \in l.asked
      PROVE  /\ r.id < n + 1
             /\ \A q \in u2 : q.id = r.id => q.kind = r.kind /\ q.doc = r.doc
  <2>1. r.id \in Nat /\ r.id < n
    BY <1>2, <1>3, <1>5 DEF Asks, Answered
  <2>. QED BY <1>2, <1>3, <1>4, <2>1 DEF Answered
<1>6. ASSUME NEW i \in DOMAIN l.out, l.out[i].type = "response"
      PROVE  /\ l.out[i].id < n + 1
             /\ \A q \in u2 : q.id = l.out[i].id =>
                  q.kind = l.out[i].found.kind /\ q.doc = l.out[i].found.doc
  <2>1. l.out[i] \in Messages
    BY <1>2, ElementOfSeq
  <2>2. l.out[i].id \in Nat
    BY <1>6, <2>1 DEF Messages
  <2>3. l.out[i].id < n
    BY <1>3, <1>6 DEF Answered
  <2>. QED BY <1>2, <1>3, <1>4, <1>6, <2>2, <2>3 DEF Answered
<1>7. l.alive => /\ new.id < n + 1
                 /\ \A q \in u2 : q.id = new.id => q.kind = new.kind /\ q.doc = new.doc
  BY <1>2
<1>8. Answered(k, u2)
  BY <1>1, <1>5, <1>6, <1>7 DEF Answered
<1>. QED BY <1>8 DEF k

OneServer == \A d, e \in Docs : LanguageOf[d] = LanguageOf[e]

MatchStep == AnswersOK' /\ AnswersMatch'

\* The only server is the one that is asked.
LEMMA TheServer ==
  ASSUME OneServer, DeskOK(desk, text, missed), NEW d \in Docs, NEW k \in Links,
         desk' = PutLink(desk, d, k)
  PROVE  \A lang \in Languages : desk'.link[lang] = k
<1>1. IsPut(desk, desk', d, k, desk.doc[d])
  BY PutLinkIs DEF DeskOK
<1>2. \A lang \in Languages : lang = LanguageOf[d]
  BY DEF OneServer, Languages
<1>. QED BY <1>1, <1>2 DEF IsPut, DeskOK, Desks

LEMMA AskedOK ==
  ASSUME OneServer, AInv, NEW d \in Docs, NEW kind \in Kinds, NEW l,
         SessionFor(LanguageOf[d], l),
         \/ desk' = PutLink(desk, d, l) /\ asking' \subseteq asking
         \/ /\ desk' = PutLink(desk, d, Ask(l, kind, d))
            /\ ~l.alive => asking' \subseteq asking
            /\ l.alive => \E v : LET new == [id |-> l.nextId, kind |-> kind, doc |-> d, version |-> v]
                                 IN  asking' \subseteq {r \in asking : r.id # l.nextId} \cup {new}
  PROVE  AnswersOK'
<1>1. /\ DeskOK(desk, text, missed) /\ LinkOK(l) /\ (l = LinkOf(d) \/ Fresh(l))
      /\ LinkOK(Ask(l, kind, d))
  BY AskKeeps, AskOK DEF AInv, IInv
<1>2. Answered(l, asking)
  <2>1. Answered(LinkOf(d), asking)
    BY DEF AInv, AnswersOK, LinkOf, Languages
  <2>. QED BY <1>1, <2>1, FreshLinks DEF Answered
<1>3. CASE desk' = PutLink(desk, d, l) /\ asking' \subseteq asking
  <2>1. \A lang \in Languages : desk'.link[lang] = l
    BY <1>1, <1>3, TheServer DEF LinkOK
  <2>2. Answered(l, asking')
    BY <1>2, <1>3 DEF Answered
  <2>. QED BY <2>1, <2>2 DEF AnswersOK
<1>4. CASE /\ desk' = PutLink(desk, d, Ask(l, kind, d))
           /\ ~l.alive => asking' \subseteq asking
           /\ l.alive => \E v : LET new == [id |-> l.nextId, kind |-> kind, doc |-> d, version |-> v]
                                IN  asking' \subseteq {r \in asking : r.id # l.nextId} \cup {new}
  <2>1. \A lang \in Languages : desk'.link[lang] = Ask(l, kind, d)
    BY <1>1, <1>4, TheServer DEF LinkOK
  <2>2. Answered(Ask(l, kind, d), asking')
    <3>1. CASE ~l.alive
      BY <1>1, <1>2, <1>4, <3>1, AskAnswered
    <3>2. CASE l.alive
      <4>1. PICK v : asking' \subseteq {r \in asking : r.id # l.nextId}
                      \cup {[id |-> l.nextId, kind |-> kind, doc |-> d, version |-> v]}
        BY <1>4, <3>2
      <4>2. \A q \in asking' : /\ q \in asking \/ q.id = l.nextId
                               /\ q.id = l.nextId => q.kind = kind /\ q.doc = d
        BY <4>1
      <4>. QED BY <1>1, <1>2, <3>2, <4>1, <4>2, AskAnswered
    <3>. QED BY <3>1, <3>2
  <2>. QED BY <2>1, <2>2 DEF AnswersOK
<1>. QED BY <1>3, <1>4

LEMMA RequestMatches ==
  ASSUME OneServer, AInv, NEW d \in Docs, NEW kind \in Kinds, RequestFor(kind, d)
  PROVE  MatchStep
<1>1. TypeOK /\ AnswersMatch /\ AnswersOK
  BY DEF AInv, IInv
<1>2. ready' \in {ready, [ready EXCEPT ![Slot(kind)] = Nothing]}
  BY DEF RequestFor, Send
<1>3. AnswersMatch'
  BY <1>1, <1>2, FewerReady
<1>4. CASE desk' = desk /\ asking' = asking
  BY <1>1, <1>3, <1>4, SameAsked DEF MatchStep
<1>5. CASE ~(desk' = desk /\ asking' = asking)
  <2>1. PICK l \in {LinkOf(d), NoLink, StartedLink} :
          /\ SessionFor(LanguageOf[d], l)
          /\ \/ desk' = PutLink(desk, d, l) /\ asking' = asking
             \/ \E cleared : Send(kind, d, l, cleared)
    BY <1>5 DEF RequestFor
  <2>2. CASE desk' = PutLink(desk, d, l) /\ asking' = asking
    BY <1>3, <2>1, <2>2, AskedOK DEF MatchStep
  <2>3. ASSUME NEW cleared, Send(kind, d, l, cleared)
        PROVE  AnswersOK'
    <3>1. /\ desk' = PutLink(desk, d, Ask(l, kind, d))
          /\ ~l.alive => asking' \subseteq asking
          /\ l.alive => asking' = {r \in asking : r.id # l.nextId}
                          \cup {[id |-> l.nextId, kind |-> kind, doc |-> d,
                                 version |-> desk.doc[d].version]}
      BY <2>3 DEF Send
    <3>. QED BY <2>1, <3>1, AskedOK
  <2>. QED BY <1>3, <2>1, <2>2, <2>3 DEF MatchStep
<1>. QED BY <1>4, <1>5

LEMMA CompletionMatches ==
  ASSUME OneServer, AInv, AskCompletion
  PROVE  MatchStep
<1>1. TypeOK /\ AnswersMatch /\ AnswersOK /\ "completion" \in Kinds
  BY DEF AInv, IInv, Kinds
<1>2. active \in Docs /\ ready' = NoneReady
  BY <1>1 DEF AskCompletion, TypeOK
<1>3. AnswersMatch'
  BY <1>1, <1>2, FewerReady
<1>4. CASE desk' = desk /\ asking' = {}
  BY <1>1, <1>3, <1>4, SameAsked DEF MatchStep
<1>5. CASE ~(desk' = desk /\ asking' = {})
  <2>1. PICK l \in {LinkOf(active), NoLink, StartedLink} :
          /\ SessionFor(LanguageOf[active], l)
          /\ LET asks == CanAsk(l, "completion", active)
             IN  /\ desk' = PutLink(desk, active, IF asks THEN Ask(l, "completion", active) ELSE l)
                 /\ asking' = IF asks /\ l.alive
                              THEN {[id |-> l.nextId, kind |-> "completion", doc |-> active,
                                     version |-> desk.doc[active].version]}
                              ELSE {}
    BY <1>5 DEF AskCompletion
  <2>2. \/ desk' = PutLink(desk, active, l) /\ asking' \subseteq asking
        \/ /\ desk' = PutLink(desk, active, Ask(l, "completion", active))
           /\ ~l.alive => asking' \subseteq asking
           /\ l.alive => asking' = {[id |-> l.nextId, kind |-> "completion", doc |-> active,
                                     version |-> desk.doc[active].version]}
    BY <2>1
  <2>3. AnswersOK'
    BY <1>1, <1>2, <2>1, <2>2, AskedOK
  <2>. QED BY <1>3, <2>3 DEF MatchStep
<1>. QED BY <1>4, <1>5

\* Other links than that of lang are left alone.
LEMMA OtherLinks ==
  ASSUME DeskOK(desk, text, missed), NEW lang \in Languages, NEW k,
         desk' = [desk EXCEPT !.link[lang] = k]
  PROVE  \A x \in Languages : desk'.link[x] = IF x = lang THEN k ELSE desk.link[x]
BY DEF DeskOK, Desks

LEMMA PumpMatches ==
  ASSUME AInv, PumpMessage
  PROVE  MatchStep
<1>1. TypeOK /\ DeskOK(desk, text, missed) /\ AnswersOK /\ AnswersMatch
  BY DEF AInv, IInv
<1>2. PICK lang \in Languages : OnMessage(lang)
  BY DEF PumpMessage
<1> DEFINE l == desk.link[lang]
           msg == Head(l.out)
           read == [l EXCEPT !.out = Tail(@)]
<1>3. LinkOK(l) /\ l.out # <<>> /\ Answered(l, asking)
  BY <1>1, <1>2 DEF DeskOK, OnMessage, AnswersOK
<1>4. /\ LinkOK(read) /\ read.asked = l.asked /\ read.nextId = l.nextId
      /\ read.out = Tail(l.out) /\ read.state = l.state /\ msg \in Messages
      /\ 1 \in DOMAIN l.out /\ l.out[1] = msg
      /\ \A i \in DOMAIN Tail(l.out) : i + 1 \in DOMAIN l.out /\ Tail(l.out)[i] = l.out[i + 1]
  BY <1>3, ReadOK
<1>5. l.state \in {"starting", "running"}
  BY <1>3 DEF LinkOK, Links
<1> DEFINE edit == [kind |-> "applyEdit", doc |-> msg.doc, version |-> 0,
                    found |-> [kind |-> "applyEdit", doc |-> msg.doc]]
<1>6. /\ \/ desk' = [desk EXCEPT !.link[lang] = read]
         \/ desk' = [desk EXCEPT !.link[lang] = InitializeFailed(read)]
         \/ msg.type = "initialized" /\ desk' = [desk EXCEPT !.link[lang] = Initialized(read, msg.caps)]
      /\ \/ ready' = ready /\ asking' = asking
         \/ msg.type = "response" /\ OnResponse(msg)
         \/ ready' = [ready EXCEPT !["applyEdit"] = edit] /\ asking' = asking
  <2>1. msg.type \in {"initialized", "refused", "response", "diagnostics", "applyEdit"}
    BY <1>4 DEF Messages
  <2>2. CASE msg.type = "initialized"
    BY <1>2, <2>2 DEF OnMessage
  <2>3. CASE msg.type = "refused"
    BY <1>2, <2>3 DEF OnMessage
  <2>4. CASE msg.type = "response"
    BY <1>2, <2>4 DEF OnMessage
  <2>5. CASE msg.type = "diagnostics"
    BY <1>2, <2>5 DEF OnMessage
  <2>6. CASE msg.type = "applyEdit"
    BY <1>2, <2>6 DEF OnMessage
  <2>. QED BY <2>1, <2>2, <2>3, <2>4, <2>5, <2>6
<1>7. msg.type = "initialized" => msg.caps \in AllCaps
  BY <1>4 DEF Messages
<1> HIDE DEF l, msg, read
<1>8. asking' \subseteq asking
  BY <1>6 DEF OnResponse
<1>9. Quieter(l, read)
  BY <1>4 DEF Quieter
<1>10. Quieter(l, InitializeFailed(read))
  <2>1. /\ InitializeFailed(read).asked = read.asked /\ InitializeFailed(read).nextId = read.nextId
        /\ InitializeFailed(read).out \in {read.out, <<>>}
    BY <1>4, EndsOK
  <2>. QED BY <1>4, <2>1 DEF Quieter
<1>11. ASSUME msg.type = "initialized" PROVE Quieter(l, Initialized(read, msg.caps))
  <2> DEFINE k == Initialized(read, msg.caps)
  <2>1. k.asked = read.asked /\ k.nextId = read.nextId /\ k.out = read.out
    BY <1>4, <1>5, <1>7, <1>11, InitializedOK
  <2> HIDE DEF k
  <2>2. Quieter(l, k)
    BY <1>4, <2>1 DEF Quieter
  <2>. QED BY <2>2 DEF k
<1>12. AnswersOK'
  <2>1. ASSUME NEW k, Quieter(l, k), desk' = [desk EXCEPT !.link[lang] = k]
        PROVE  AnswersOK'
    <3>1. \A x \in Languages : Quieter(desk.link[x], desk'.link[x])
      BY <1>1, <2>1, OtherLinks DEF Quieter, l
    <3>. QED BY <1>1, <1>8, <3>1, LessAsked
  <2>. QED BY <1>6, <1>9, <1>10, <1>11, <2>1
<1>13. AnswersMatch'
  <2>1. ASSUME NEW slot, NEW v, v.found.kind = v.kind, v.found.doc = v.doc,
               ready' = [ready EXCEPT ![slot] = v]
        PROVE  AnswersMatch'
    BY <1>1, <2>1 DEF TypeOK, ReadyOK, AnswersMatch, Empty
  <2>2. CASE ready' = ready
    BY <1>1, <2>2, FewerReady
  <2>3. CASE msg.type = "response" /\ OnResponse(msg) /\ ready' # ready
    <3>1. PICK r \in asking : /\ r.id = msg.id
                              /\ ready' = [ready EXCEPT ![Slot(r.kind)] = ReadyFor(r, msg.found)]
      BY <2>3 DEF OnResponse
    <3>2. r.kind = msg.found.kind /\ r.doc = msg.found.doc
      BY <1>3, <1>4, <2>3, <3>1 DEF Answered
    <3>3. /\ ReadyFor(r, msg.found).found.kind = ReadyFor(r, msg.found).kind
          /\ ReadyFor(r, msg.found).found.doc = ReadyFor(r, msg.found).doc
      BY <3>2 DEF ReadyFor
    <3>. QED BY <2>1, <3>1, <3>3
  <2>4. CASE ready' = [ready EXCEPT !["applyEdit"] = edit]
    BY <2>1, <2>4
  <2>. QED BY <1>6, <2>2, <2>3, <2>4
<1>. QED BY <1>12, <1>13 DEF MatchStep

LEMMA EndPumpMatches ==
  ASSUME AInv, EndPump
  PROVE  MatchStep
<1>1. TypeOK /\ DeskOK(desk, text, missed) /\ AnswersOK /\ AnswersMatch
  BY DEF AInv, IInv
<1>2. asking' = asking /\ ready' = ready
  BY DEF EndPump
<1>3. \A lang \in Languages : desk'.link[lang] = Noticed(desk.link[lang])
  BY <1>1 DEF EndPump, DeskOK, Desks
<1>4. \A lang \in Languages : Quieter(desk.link[lang], Noticed(desk.link[lang]))
  <2> SUFFICES ASSUME NEW lang \in Languages
               PROVE  Quieter(desk.link[lang], Noticed(desk.link[lang]))
    OBVIOUS
  <2> DEFINE l == desk.link[lang]
             k == Noticed(l)
  <2>1. LinkOK(l)
    BY <1>1 DEF DeskOK
  <2>2. k.asked = l.asked /\ k.nextId = l.nextId /\ k.out \in {l.out, <<>>}
    BY <2>1, EndsOK
  <2> HIDE DEF k
  <2>3. Quieter(l, k)
    BY <2>2 DEF Quieter
  <2>. QED BY <2>3 DEF k
<1>. QED BY <1>1, <1>2, <1>3, <1>4, LessAsked, FewerReady DEF MatchStep

\* A server answers what it was asked.
LEMMA PostMatches ==
  ASSUME NEW l, LinkOK(l), l.alive, Answered(l, asking), NEW msg \in Messages,
         msg.type = "response" =>
           /\ msg.id < l.nextId
           /\ \A q \in asking : q.id = msg.id => q.kind = msg.found.kind /\ q.doc = msg.found.doc
  PROVE  Answered(Post(l, msg), asking)
<1> DEFINE k == Post(l, msg)
<1>1. k.asked = l.asked /\ k.nextId = l.nextId /\ k.out = Append(l.out, msg)
  BY PostOK
<1>2. /\ DOMAIN Append(l.out, msg) = DOMAIN l.out \cup {Len(l.out) + 1}
      /\ Append(l.out, msg)[Len(l.out) + 1] = msg
      /\ \A i \in DOMAIN l.out : Append(l.out, msg)[i] = l.out[i]
  <2>1. l.out \in Seq(Messages)
    BY DEF LinkOK, Links
  <2>2. Len(l.out) \in Nat /\ DOMAIN l.out = 1 .. Len(l.out)
    BY <2>1, LenProperties
  <2>3. /\ Append(l.out, msg) \in Seq(Messages) /\ Len(Append(l.out, msg)) = Len(l.out) + 1
        /\ \A i \in 1 .. Len(l.out) : Append(l.out, msg)[i] = l.out[i]
        /\ Append(l.out, msg)[Len(l.out) + 1] = msg
    BY <2>1, AppendProperties
  <2>4. DOMAIN Append(l.out, msg) = 1 .. Len(l.out) + 1
    BY <2>3, LenProperties
  <2>. QED BY <2>2, <2>3, <2>4
<1> HIDE DEF k
<1>3. Answered(k, asking)
  BY <1>1, <1>2 DEF Answered
<1>. QED BY <1>3 DEF k

LEMMA ServersMatch ==
  ASSUME AInv, Servers
  PROVE  MatchStep
<1>1. TypeOK /\ DeskOK(desk, text, missed) /\ AnswersOK /\ AnswersMatch
  BY DEF AInv, IInv
<1>2. PICK lang \in Languages : \/ ServerStarts(lang) \/ ServerAnswers(lang)
                                \/ ServerPosts(lang) \/ ServerExits(lang)
  BY DEF Servers
<1> DEFINE l == desk.link[lang]
<1>3. LinkOK(l) /\ Answered(l, asking)
  BY <1>1 DEF DeskOK, AnswersOK
<1>4. PICK k : /\ Serve(lang, k)
               /\ \/ \E caps \in AllCaps : k = AnswerInitialize(l, caps)
                  \/ k = RefuseInitialize(l)
                  \/ \E r \in l.asked : k = Answer(l, r)
                  \/ \E d \in Docs : l.copy[d] # Closed /\ k = Publish(l, d)
                  \/ \E d \in Docs : k = AskToEdit(l, d)
                  \/ k = [l EXCEPT !.alive = FALSE]
  BY <1>2 DEF ServerStarts, ServerAnswers, ServerPosts, ServerExits
<1>5. /\ l.alive /\ desk' = [desk EXCEPT !.link[lang] = k]
      /\ asking' = asking /\ ready' = ready
  BY <1>4 DEF Serve
<1>6. Answered(k, asking)
  <2>1. ASSUME NEW caps \in AllCaps, k = AnswerInitialize(l, caps)
        PROVE  Answered(k, asking)
    <3> DEFINE m == [type |-> "initialized", caps |-> caps]
    <3>1. m \in Messages /\ m.type # "response"
      BY DEF Messages
    <3> HIDE DEF m
    <3>2. k = Post(l, m)
      BY <2>1 DEF AnswerInitialize, m
    <3>. QED BY <1>3, <1>5, <3>1, <3>2, PostMatches
  <2>2. CASE k = RefuseInitialize(l)
    <3> DEFINE m == [type |-> "refused"]
    <3>1. m \in Messages /\ m.type # "response"
      BY DEF Messages
    <3> HIDE DEF m
    <3>2. k = Post(l, m)
      BY <2>2 DEF RefuseInitialize, m
    <3>. QED BY <1>3, <1>5, <3>1, <3>2, PostMatches
  <2>3. ASSUME NEW r \in l.asked, k = Answer(l, r)
        PROVE  Answered(k, asking)
    <3> DEFINE t == IF l.copy[r.doc] = Closed THEN Closed ELSE l.copy[r.doc].text
               f == [kind |-> r.kind, doc |-> r.doc, text |-> t]
               m == [type |-> "response", id |-> r.id, found |-> f]
               j == [l EXCEPT !.asked = @ \ {r}]
    <3>1. r \in Asks /\ l.copy \in [Docs -> Copies \cup {Closed}]
      BY <1>3, <2>3 DEF LinkOK, Links
    <3>2. t \in Nat \cup {Closed, Garbled}
      BY <3>1 DEF Asks, Copies
    <3>3. k = Post(j, m)
      BY <2>3 DEF Answer
    <3> HIDE DEF t
    <3>4. f \in Found /\ f.kind = r.kind /\ f.doc = r.doc
      BY <3>1, <3>2 DEF Asks, Found
    <3> HIDE DEF f
    <3>5. m \in Messages /\ m.id = r.id /\ m.found = f
      BY <3>1, <3>4 DEF Messages, Asks
    <3>6. /\ LinkOK(j) /\ j.alive = l.alive
          /\ j.asked = l.asked \ {r} /\ j.nextId = l.nextId /\ j.out = l.out
      BY <1>3, AnsweredLink
    <3> HIDE DEF m, j
    <3>7. Answered(j, asking) /\ j.alive
      BY <1>3, <1>5, <3>6 DEF Answered
    <3>8. /\ m.id < j.nextId
          /\ \A q \in asking : q.id = m.id => q.kind = m.found.kind /\ q.doc = m.found.doc
      BY <1>3, <2>3, <3>4, <3>5, <3>6 DEF Answered
    <3>9. Answered(Post(j, m), asking)
      BY <3>5, <3>6, <3>7, <3>8, PostMatches
    <3>. QED BY <3>3, <3>9
  <2>4. ASSUME NEW d \in Docs, l.copy[d] # Closed, k = Publish(l, d)
        PROVE  Answered(k, asking)
    <3> DEFINE m == [type |-> "diagnostics", doc |-> d, version |-> l.copy[d].version]
    <3>1. l.copy[d].version \in Nat
      BY <1>3, <2>4 DEF LinkOK, Links, Copies
    <3>2. m \in Messages /\ m.type # "response"
      BY <3>1 DEF Messages
    <3> HIDE DEF m
    <3>3. k = Post(l, m)
      BY <2>4 DEF Publish, m
    <3>. QED BY <1>3, <1>5, <3>2, <3>3, PostMatches
  <2>5. ASSUME NEW d \in Docs, k = AskToEdit(l, d)
        PROVE  Answered(k, asking)
    <3> DEFINE m == [type |-> "applyEdit", doc |-> d]
    <3>1. m \in Messages /\ m.type # "response"
      BY DEF Messages
    <3> HIDE DEF m
    <3>2. k = Post(l, m)
      BY <2>5 DEF AskToEdit, m
    <3>. QED BY <1>3, <1>5, <3>1, <3>2, PostMatches
  <2>6. CASE k = [l EXCEPT !.alive = FALSE]
    <3>1. k.asked = l.asked /\ k.nextId = l.nextId /\ k.out \in {l.out, <<>>}
      BY <1>3, <2>6, EndsOK
    <3>. QED BY <1>3, <3>1 DEF Answered
  <2>. QED BY <1>4, <2>1, <2>2, <2>3, <2>4, <2>5, <2>6
<1>7. \A x \in Languages : Answered(desk'.link[x], asking')
  BY <1>1, <1>5, <1>6, OtherLinks DEF AnswersOK
<1>. QED BY <1>1, <1>5, <1>7, FewerReady DEF AnswersOK, MatchStep

LEMMA UiMatches ==
  ASSUME AInv, desk' = desk, asking' \subseteq asking,
         ready' \in {ready, NoneReady} \/ \E slot : ready' = [ready EXCEPT ![slot] = Nothing]
  PROVE  MatchStep
BY SameAsked, FewerReady DEF AInv, IInv, MatchStep

LEMMA MatchOK == OneServer /\ AInv /\ [Next]_vars => MatchStep
<1> SUFFICES ASSUME OneServer, AInv, [Next]_vars PROVE MatchStep
  OBVIOUS
<1>1. CASE UNCHANGED vars
  BY <1>1, UiMatches DEF vars, serviceVars
<1>2. CASE Tell
  <2>1. /\ asking' \subseteq asking
        /\ ready' = ready \/ ready' = [ready EXCEPT !["completion"] = Nothing]
    BY <1>2 DEF Tell, Forgotten
  <2>2. Quiet(desk, desk')
    BY <1>2, TellOK DEF AInv, GoodStep
  <2>3. \A lang \in Languages : Quieter(desk.link[lang], desk'.link[lang])
    BY <2>2 DEF Quiet, Quieter
  <2>. QED BY <2>1, <2>3, LessAsked, FewerReady DEF AInv, IInv, MatchStep
<1>3. CASE Pump
  BY <1>3, UiMatches, PumpMatches, EndPumpMatches DEF Pump, Render, serviceVars
<1>4. CASE Poll
  BY <1>4, UiMatches DEF Poll, Show, Goto, ApplyEdit, ApplyFormat, Clear, EndPoll, serviceVars
<1>5. CASE SaveStep
  BY <1>5, UiMatches
     DEF SaveStep, SaveFormatted, SaveLooksAgain, SaveUnformatted, Clear, serviceVars
<1>6. CASE Inputs
  <2>1. ASSUME NEW d \in Docs, OpenTab(d) \/ CloseTab(d) \/ Edit(d) \/ Reload(d) \/ Save(d)
        PROVE  MatchStep
    BY <2>1, UiMatches DEF OpenTab, CloseTab, Edit, Reload, Save, serviceVars
  <2>2. ASSUME NEW d \in Docs, SaveAndFormat(d)
        PROVE  MatchStep
    BY <2>2, RequestMatches DEF SaveAndFormat, Kinds
  <2>3. ASSUME NEW kind \in Asked, AskFor(kind)
        PROVE  MatchStep
    <3>1. active \in Docs /\ RequestFor(kind, active) /\ kind \in Kinds
      BY <2>3, ClientAssumption DEF AskFor, AInv, IInv, TypeOK
    <3>. QED BY <3>1, RequestMatches
  <2>4. CASE AskCompletion
    BY <2>4, CompletionMatches
  <2>5. CASE Escape \/ ShowStatus \/ \E b \in Binaries : InstallKey(b)
    BY <2>5, UiMatches DEF Escape, Forget, ShowStatus, InstallKey, serviceVars
  <2>6. CASE Restart \/ OpenWorkspace
    <3>1. /\ desk' = [doc |-> [d \in Docs |-> NoDoc], link |-> [lang \in Languages |-> NoLink]]
          /\ asking' = {} /\ ready' = NoneReady
      BY <2>6 DEF Restart, OpenWorkspace, ShutDown, Forget
    <3>2. NoLink.asked = {} /\ NoLink.out = <<>>
      BY DEF NoLink
    <3>3. AnswersOK'
      BY <3>1, <3>2 DEF AnswersOK, Answered
    <3>. QED BY <3>1, <3>3, FewerReady DEF AInv, IInv, MatchStep
  <2>. QED BY <1>6, <2>1, <2>2, <2>3, <2>4, <2>5, <2>6 DEF Inputs
<1>7. CASE Servers
  BY <1>7, ServersMatch
<1>8. CASE \E b \in Binaries : InstallEnds(b) \/ TimePasses(b)
  BY <1>8, UiMatches DEF InstallEnds, TimePasses, serviceVars
<1>. QED BY <1>1, <1>2, <1>3, <1>4, <1>5, <1>6, <1>7, <1>8 DEF Next, UiTurn

\* A result is kept for the request that it answers: while all documents have one server,
\* an id is given anew only when the request that had it is forgotten or its server gone.
THEOREM ResultsAnswerTheirRequests == OneServer => (Spec => []AnswersMatch)
<1> SUFFICES ASSUME OneServer PROVE Spec => []AnswersMatch
  OBVIOUS
<1>1. Init => AInv
  <2>1. Init => AnswersOK /\ AnswersMatch
    BY DEF Init, ServiceInit, AnswersOK, Answered, AnswersMatch, NoneReady, Empty, NoLink
  <2>. QED BY <2>1, InitOK DEF AInv
<1>2. AInv /\ [Next]_vars => AInv'
  BY NextOK, MatchOK DEF AInv, StepOK, MatchStep
<1>3. AInv => AnswersMatch
  BY DEF AInv
<1>. QED BY <1>1, <1>2, <1>3, PTL DEF Spec

===============================================================================
