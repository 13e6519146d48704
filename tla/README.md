# A verification of noni

noni is a modal terminal editor in C++. The repository holds two programs: the
rewrite (`src/new`), whose core is complete up to normal mode and operators, and
the first version (`src/old`), a full editor with a language-server client, a
terminal emulator and source control, which the rewrite replaces part by part.
This directory models both: the rewrite from a key to the document and the
screen, and the first version's threads, servers, files, terminal and UI. TLC
checks the models on small instances; TLAPS proves their safety properties for
every value of the constants: of the undo history, the buffer, the reducer with its
motions, objects and operators, the keys behind the decoder, the pool and its
services, documents and recovery, language servers, the terminal and the UI.

## The system

The rewrite is single-threaded: one loop reads one key, runs one command to its
end, and draws. Nothing interleaves inside a command; what is hard is the order
of *commands*.

| Part of the rewrite | State | Operations | Talks to |
|---|---|---|---|
| undo history `core/undo` | undo and redo stacks, the open group | begin and end group, push, pop, park, return | called by the buffer |
| text buffer `core/buffer` | lines, dirty flag, revision, snapshot cache | six edit primitives, set_lines, undo, redo, save | called by the reducer |
| operators `core/operator`, registers `core/register` | the operator being composed; the register bank | `step` one key; `plan_edit` an edit; `set` | read the text, called by the reducer |
| motions, text objects | none | a position or a range from a position | called by reducer and operators |
| view `core/view`, `ui/view` | none | scroll geometry; cells and rows | called by reducer and renderer |
| reducer `app/reducer` | mode, count, second-key flags, cursor and its aim, top line | `command_for_key`, `reducer` | the only writer of the editor's state |
| App and decoder `app/app`, `ui/input` | decoder state, quit flag | render, read a key, dispatch | ncurses below, reducer above |

The first version has one UI thread, a pool of worker threads, and processes
around it: language servers, a shell, installers, other programs that write the
same files.

| Part of the first version | State | Talks to |
|---|---|---|
| background pool, UI wake `utils/async`, `event_wake` | job queue, stop flag, the UI's wake pointer | services post jobs; workers wake the UI |
| text search, sidebar scanner, fuzzy index, source control | results, tokens that mark the newest request | post jobs, publish to the UI |
| UI loop `ui/ui_loop` | what is readable, what must be drawn | polls stdin, wake, watcher |
| language servers `lsp/` | sessions, open documents, versions, pending requests, ready slots, installs | the UI above, server processes below |
| buffers, recovery, session, watcher | dirty ids, transactions, snapshot files, session file | the file system, other programs |
| terminal `terminal/`, its panel | parser, screen, scrollback, session, child process | the shell behind a pseudo-terminal |
| UI `ui/`, `components/`, `configs/` | tabs, focus, overlays, chords, questions and what they are about | all of the above |

What makes each part correct, and what is hard about it:

* **history** – undo and redo move on one line of documents; merging a run, evicting
  at the cap and replaying never meet a document other than the one a change was made in.
* **reducer** – the cursor is a position of the text and on the screen after every
  command; what is deleted is kept; a prefix, count or operator that ended leaves
  nothing behind, and one part at a time waits for the next key.
* **input** – what is pasted is data, in either of the encodings a paste arrives in.
* **background** – a late result of an old request is never shown; the screen comes to
  rest without a key; the end of the program waits for the workers and loses no job.
* **language servers** – client and server agree which documents are open and what is
  in them; an answer belongs to its request; what waits for an install is opened.
* **documents** – a clean buffer is what was saved; unsaved text and its snapshot
  outlive failed saves, reloads, ticks and crashes.
* **terminal** – whatever bytes come, in whatever pieces and sizes, the screen is one
  the code can index; the shell's end is noticed.
* **UI** – an answer acts on what its question asked about; nothing that is not saved
  is lost without the user having said so.

`PROJECT.json` lists, under `hazards`, each place in the code where one of these
could break in a way tests hardly reach.

## Modules

The rewrite:

| Module | Models |
|---|---|
| `UndoStack` | `undo.hpp`, `undo.cpp`: `TextChange` as a span of lines replaced (`Splice`, `Fits`, `Apply`, `Unapply`), and the stack as operators on one record: groups, commit, merge, cap |
| `Primitives` | the changes that the primitives of `buffer.cpp` build; a line is a sequence of code points |
| `Buffer` | `Buffer` as a state machine, one action per public operation |
| `EditHistory` | (abstract) what a history promises: a line of documents, one present |
| `LineHistory` | the history as the reducer drives it: one change per unit, any change that is in the document |
| `Motions` | `motion.cpp`: every motion, as the position it leads to or its failure |
| `TextObjects` | `textobj.cpp`: words, paragraphs, quotes, brackets, as ranges |
| `Operators` | `operator.cpp`, `register.cpp`: what an operator's keys compose to, the change it plans, the register it writes |
| `Viewport` | `core/view.cpp`, `ui/view.cpp`, layout and cursor of `main.cpp`: scroll geometry, cells, rows |
| `Editor` | the reducer's commands on text, cursor, mode, registers and view; extends `LineHistory` |
| `Keys` | `command_for_key`, counts, prefixes, operator composition; the text is abstracted: a motion may fail |
| `Input` | `KeyDecoder::feed`, `App::run`: `Keys` with the terminal around it |

The first version:

| Module | Models |
|---|---|
| `Background` | the pool's queue, workers and stop; the UI's wake |
| `TextSearch`, `DirScanner`, `FileIndex`, `ScmService` | the four services that post jobs, in the steps in which a job reads, checks and publishes |
| `UiLoop` | a turn of the loop, from `poll` to the key, over the five modules above; start and end of the program |
| `LspSession` | one session: handshake, open documents, queued opens, requests, messages, exit |
| `LspInstaller` | install jobs, their failures and cool-down |
| `LspService` | documents, versions, links, pending requests, ready slots, diagnostics |
| `LspClient` | the editor over the service, the servers, turns of input and render |
| `DocBuffer` | a buffer's text, ids, transactions, undo, redo, load, save, recovery; the file's time is taken in a step of its own |
| `Workspace` | tabs, which are known by the path as it was written, so that one file may have two; the session file, which may be unreadable or stay unwritten, save prompts, autosave, ticks, reloads, crashes, other programs; snapshot files, two of them per file, written and removed one by one; the watcher's watches and the notices they raise |
| `TerminalScreen`, `VtParser`, `Terminal` | the screen; the byte parser; panel, session, pseudo-terminal and child |
| `KeyChords`, `UiTabs`, `UiFocus`, `UiConfirm`, `Ui` | chords; tabs, files and explorer; focus and overlays; questions and ex commands; the UI as a state machine over them |

`MC*.tla` instantiate them where an instance needs definitions of its own;
`UiLoop` and `Workspace` are run as they are, by `MCUiLoop.cfg` and
`MCStaleSearch.cfg`, and by `MCWorkspace.cfg`, `MCDocument.cfg` and
`MCRecovery.cfg`. Properties stand in the `MC` module or at the end of the module
they are about, where a theorem can name them. The theorems are in
`EditorProofs` (history, operators, reducer, brackets and rows), `BufferProofs` (the
buffer by itself, and the flat text), `KeysProofs`, `UiLoopProofs`,
`WorkspaceProofs`, `LspProofs`, `TerminalProofs` and `UiProofs`.

How they compose: `Buffer` and `Editor` share `Primitives` and `UndoStack`. `Buffer` has the
general history (groups of many changes, nested),
`LineHistory` the case the reducer uses, in which every group holds one change,
because `record_change` and `apply_edit` are its only callers of `with_edit`.
Both refine `EditHistory`. `Keys` and `Editor` are two views of the reducer: the
first is exact about keys and abstracts the text, the second is exact about the
text and takes the command and its count from any key sequence. `UiLoop` runs
the four services on the pool. `LspClient` extends the service, which extends
session and installer. `Workspace` extends `DocBuffer`. `Ui`
is separate from both: to it a document is a text and whether it is dirty, and
an answer of the language server is an event that may come at any moment.

Code to model, where it is not one to one:

* Columns count code points, so `cp_to_byte` and `byte_to_cp` are indices; the
  clamping that `cp_to_byte` does is `CpToByte`. Malformed UTF-8 is left out.
  `lines_[k]` is `lines[k + 1]`; line and column numbers count from 0.
* The asserts "baseline drift" are guards of `Undo` and `Redo`; `NoDrift` says
  that the guards never fail. `past` and `future` are history variables.
* Motions and objects are stated as what they find (the nearest start of a word, the
  innermost pair), the code's scans being loops over cells. In `Editor` a motion of
  an operator is one of `OperatorMotions`, with the same special cases as the
  code's `step`: `cw` as `ce`, exclusive motions that end in column 0, an
  inclusive motion that does not move.
* A view's `left_col` and `scrolloff` are 0 in the program, which has no command to
  change them; `RowsAligned` lets `left_col` vary, since the drawing takes any.
  Which find `;` repeats is key state, and left to `Keys`.
* `Keys` abstracts success: `Finish` may enter insert mode or not when the
  operator is `c`, as its motion may fail.
* In `Input` a paste marker arrives as one key code or as six bytes, as ncurses
  resolves it in time or not. No pasted byte is a marker of its own: a terminal
  filters those. Control letters that are pasted are characters.
* A job's steps are actions of the service that posted it: between its last check
  of the token and its publication other steps may come. A step under a mutex is
  one action.
* `todo` in `LspClient` and `Workspace` is the rest of a handler: calls it has still to
  make, in order, one action each, with servers, other programs and crashes
  between them. `Workspace` has two more such lists, `steps` for what is to be done to
  buffers and watches (open a tab, take a file's time, watch it) and `ticking` for the tabs
  that the tick has still to look at. One answer is taken per poll. A text is a number; so
  is a version.
* In `Workspace` a path is a file and a spelling of it, one of which is canonical. Tabs are
  found by the path (`find_tab_by_path`), snapshots, watches and notices by the file
  (`weakly_canonical`). `find_buffer_by_path` compares paths too, after making them
  canonical: `FoundFirst` is the first tab of the file.
* `Terminal` is exact about bytes: text, a wide glyph of three bytes, broken UTF-8 and
  the sequences in `ShellOutputs`; a read takes all that was written, at most `OutMax`.
* In `Ui` an edit is one step, there being no insert or visual mode; a file system
  is flat; a picker offers any entry and selects any. `waived` is a ghost: what
  the user gave up in the last step, by what the screen said. Meta-key compositions
  are left out.

## Runs

| Run | Instance and bounds | Shows |
|---|---|---|
| `buffer_history` | one letter and a blank, cap 2, 5 revisions | `KeepsHistory` (refinement of `EditHistory`), `NoDrift`, `PrimitivesEditText` against the flat text |
| `editor` | four documents of up to five lines with wide characters, control marks, tabs, brackets and quotes; terminals with no, one and two rows of text; two edits, then an undo or redo; counts to 2 | `CursorOnScreen`, `ErasedIsKept`, `NoStopMissed`, `HoldsBrackets`, `RowsAligned`, `Linked` |
| `input_paste` | a keyboard with every kind of key the code tells apart, six pasted bytes, 16 for the count's width | `OneOwner`, `InsertIsClean`, `Settles`, `EscFrees`, `PastedIsData`, `PastingEnds` |
| `background` | two workers, two workspaces, a query, a file of one or two lines, two weights of keys and changes | `ScmFresh`, `ListingsOfThisRoot`, `StopDropsNothing`, and under fairness `ScreenSettles`, `QuitEnds` |
| `lsp` | two documents of one server that is not installed at first, two sets of capabilities, three inputs, one unasked message, one exit | `ClientKnowsServer`, `AnswersMatch`, `Mirror`, `VersionsRise`, and under fairness `WaitingOpens`, `CrashNoticed` |
| `workspace` | one file by two paths, one typed text, one crash, undo of 1 | `CleanIsSaved`, `UnsavedSnapshotKept` |
| `document` | one file by two paths, one typed text, one write of another program, no crash, no undo | `UnsavedKept`, and under fairness `SnapshotsCatchUp`, `ChangeSeen` |
| `terminal` | two panel sizes and a window too small for one, 14 outputs, two writes, a resize, two shells, two lines of scrollback | `TypeOK` (the screen can be indexed), `SizesAgree`, `RegionHolds`, and under fairness `EndNoticed` |
| `ui` | two paths, two texts, two keys that begin something, one outside event; answers to what is open are free | `AnswersItsQuestion`, `NothingLostUnasked` |

and three that find a disagreement: `stale_search`, `lsp_ids`, `recovery_kept`.

Why the bounds suffice. A bound on edits, inputs or events is the length of a
session: it bounds calls, not states of the code, and each is large enough for the
order that matters. In `buffer_history` cap 2 makes eviction, merging onto the
last unit and redo past an eviction happen within 5 revisions. In `editor` cap 1
evicts at the second edit; what is said of every position and every command is
said while the document is as opened (`Opened`), where all positions are
reachable; counts above 1 and operators with a motion or an object are given before
the first edit only, and a register is named only by the doubled operators that
write one. `Heights` has 0, the terminal of three rows or less, where nothing of
the text is drawn and the view does not follow. `CountMod = 16` and
`DigitLimit = 2` stand for 2^32 and 100000: they are reached, and wrapped, in two
digits; `CsiMod` is above 201, the largest number the decoder compares with. Two
workers let the older of two jobs end last. In `lsp` a second document makes
one tab's answer meet the other's request, one exit separates two sessions. In `workspace`
and `document` two paths of one file give two tabs, which is where tabs meet: they share a
snapshot, a watch and a notice, and files share nothing. The program's own saves are writes to
the other tab in both; in `document` the one write of another program may come at any moment,
also between a read and the taking of the time. `recovery_kept` has two files, each by one path.
`MaxMoves = 2` in `ui` opens one thing behind another; everything that
then answers, dismisses or arrives late is not counted.

Fairness, and why the code has it:

* `UiLoop`: weak fairness of the UI thread and of each worker: the system schedules
  threads, and each of their steps ends. A user and other programs promise nothing.
  That the wake is not lost is what `ScreenSettles` checks: `UiStep` is
  enabled at `poll` only when something is readable.
* `LspClient`: the loop wakes for each session's descriptor and renders, so a turn that
  began goes on (`Tell`, `Pump`, `Poll`); a save waits two seconds for a formatter at
  most; an installer's process ends. Servers promise nothing: one may never answer.
* `Workspace`: the loop polls the watcher's descriptor and comes back to it after every
  key (strong fairness, since a crash or a turn may intervene); what a handler began it ends
  (`Work`, `Store`, `TickTab`, `FinishClose`, `FinishQuit`). The tick is fair only while a tab is
  dirty: `next_poll_timeout_ms` waits for ever otherwise.
* `Terminal`: the loop polls the master and pumps it on every turn. `Polled` is weak
  fairness of `Poll` with its enabling condition written out.

The rewrite's models assume no fairness: its loop blocks for a key, and a user owes
it none.

`CHECK_DEADLOCK FALSE` stands where a bound stops the run, or where the program
quits. `background` and `terminal` check deadlock: the first ends in `Terminated`, and in the
second the user can always open or close the panel.

## Findings

1. Deleting the query while its search runs leaves the search current: its matches
   appear under an empty query and stay (`stale_search`).
2. Each session counts its request ids from 1 and answers are looked up by id alone, so
   with two servers the answer of one is taken for an answer of the other (`lsp_ids`).
3. The first tick after a start removes the snapshot of a clean tab, though the user has
   not yet answered whether to recover it (`recovery_kept`).

Two more contradict a comment or a doc and have no run of their own; the property that
comes nearest leaves them out by name:

* A key without a command leaves the count pending, Esc among them: after `2<Esc>x` two
  characters go. The comment at `reducer.cpp:391` says that such a key aborts the count, the
  code at line 403 leaves it. `Settles` exempts these keys, and `EscFrees` says nothing of the count.
* Two tabs of one file by different paths (`:e f` and the explorer, or a recovery) share a
  snapshot, and the tick goes over the tabs: where one is dirty and the other clean, each
  tick writes the snapshot for the one and removes it for the other, or the other way round,
  by their order in the bar. `FEATURES.md:242` says "every ≥2 s while dirty". TLC finds a
  snapshot removed while a tab of its file is dirty within seconds;
  `UnsavedSnapshotKept` and `SnapshotsCatchUp` are about files whose tabs are *all* dirty.

Met while modelling, without a run of their own, since they contradict no doc, comment
or test, or only touch code that nothing calls:

* `insert_text` of text without a newline deletes the rest of the line, and
  `erase_range` of an empty range does too. The reducer uses neither.
* In normal mode the cursor can rest past the last character after undo or redo.
* `df3` never deletes up to a 3: the digit extends the count.
* Of two tabs of one file a poll reloads, or warns of, the first only: the other keeps the
  old text, and its save goes over the new one unasked.
* A file's time is taken after it was read or written (`buffer.cpp:102`,
  `buffer_io.cpp:87`): another program's write in between passes for seen. So does, until the
  next notice, one before the file's watch is set. `ChangeSeen` leaves these out by name.
* A paste that was opened must be closed by a key code: an end marker that comes byte by
  byte is inserted as text.
* `i(` on a line without a character searches from the first cell of the document.
* `C-d` from a view past the last full page moves the top *up*. The clamp of the cursor
  in `C-d` and `C-u` changes nothing otherwise.
* In insert mode at a line's end the terminal's cursor is put on the last character, since
  `disp_of_cp` stops there.
* A change while a server starts is dropped; the queued open carries the text of its own
  moment, so nothing is lost, but a document closed meanwhile is opened all the same.
* After a server's exit its documents stay marked open and are not opened in the new session.
* Autosave writes recovered text to the file, though no one saved it explicitly.
* Restoring a session closes dirty tabs with force; with no file of the session left it
  returns before the editor is bound to the new tab.
* An answer to a question acts on the tab that is active when it comes. The three ways
  in which text goes unasked are named in `NothingLostUnasked`.

## Proofs

The assumptions are the named ASSUMEs on the constants and nothing else; each says no more
than that a number is a number, a set finite or not empty, and TLC evaluates them in the
runs. Two groups of theorems have a hypothesis, named where they are described: those of
the buffer, and one of the language servers. Each proof has the same shape: an inductive invariant that starts in `Init`, one lemma per action or
operation that it is kept, one that no step of `Next` breaks it, and the
properties as consequences. No property of these runs is inductive by itself;
what had to be added is the content of the proof.

**History** (`EditorProofs`), for every cap, alphabet and document. The algebra of
line spans comes first: a splice fits, splicing back undoes it (`SpliceBack`), a
splice inside a splice is one splice, what stood before or after the span is
untouched. The invariant is `HistInv == TypeInv /\ DepthBound /\ Linked`. `NoDrift`
alone is not inductive: it speaks of the top of each stack, and an undo uncovers
the unit below it. `Linked` is the strengthening: every unit on the stacks leads
from one document of `past` to the next, up to the present, and every undone one
onward to `future`. The depth bound is what lets `push_redo_return` go without
eviction: the two stacks together never exceed the cap. The step that records a
change is the hard one: a merge replaces the last unit by one that leads from the
same past document to the new present (`MergeLeads`), and an eviction drops the
oldest document and unit together (`NewestEntries`). Results:
`HistoryInvariant`, `HistoryIsBounded`, `HistoryIsLinked`, `NoBaselineDrift`,
`UndoInverts` and `HistoryRefines` (the history implements `EditHistory`), of a
specification whose steps record *any* change that stands in the document with
hints on its grid (`ChangeOf`).

**Reducer** (`EditorProofs`), for every text, alphabet, count, register, height of the
window and sequence of commands. The invariant is `EditorInv`: `HistInv`, the cursor on
the text (`Grid`), registers that hold a text, and `ViewInv`, that the view shows the
cursor's line. The three need each other: a change is one the history may record only
if its hints are positions, which they are because the cursor is one; an undo moves
the cursor to a hint, which is a position because `Linked` carries the hints along; and the
render after each command restores the view. Underneath are lemmas about the operators:
every motion lands on a position, from every position (`MotionLands`); every text object
is a range (`TextObjectIs`); every edit an operator composes is of characters or
lines of the text (`ComposedEdits`), and what it plans is a `ChangeOf` change
(`PlanIs`), as is every change the reducer builds itself; every scroll asks for a line that
its own view shows (`ScrollLands`). Each step of the reducer is therefore a step of
`LineHistory` or leaves it alone (`EditorDrivesHistory`), so all that is
proved of the history holds of the reducer: `EditorNeverDrifts`, `EditorUndoInverts`,
`EditorKeepsHistory`. `EditorTypes` and `CursorIsOnScreen` are the invariant's own. What
an operator takes away is in the register it wrote (`ErasedTextIsKept`): the range read
and the range removed are computed apart, and joining the pieces again takes an algebra
of cuts. `WordsMissNothing` says that `w`, `b` and `e` pass over no stop. The run checks
both on the opened document, the theorems say them of every state. The one assumption
beyond numbers is that the alphabet has a blank, one column wide, and is closed under a
change of case.

**Brackets** (`EditorProofs`). The objects find a pair by two scans, one outward from the
cursor, one from a bracket on. `BracketsAreHeld` says that what lies between is balanced,
every prefix opening at least what it closes: were it not, the forward scan
(`ForwardBalance`) or the backward one (`BackwardBalance`) would have stopped earlier. That
part holds in every state. That the cursor is inside needs a character under the
cursor, which `RestInv` gives in normal mode until the first edit or yank: every motion
leads from resting positions to resting positions (`Rest`, `Lands`), and `Esc` steps back
onto one. After an undo it is not so, as the findings say.

**Rows** (`EditorProofs`). The frame, the slice of a line and the place of the cursor each
count columns in their own way; `RowsAreAligned` says that they agree after every command,
and in a terminal of any width, scrolled sideways by any number of columns. The
columns of a row add up over its glyphs (`ColumnsJoin`), and a character takes of a row what
its two ends, clamped to the row, leave between them (`GlyphsAre`), cut or not; so the
glyphs of the first characters take the columns up to where the next one starts
(`GlyphedAre`). That the screen shows the state at all is `ScreenInv`: every command ends
with a render. A terminal no wider than the line numbers shows no row.

**Buffer** (`BufferProofs`), with everything that the reducer does not use:
groups of many changes, nested, merged runs, eviction, positions beyond the text. The
invariant `BufInv` says that the history tells a *story*: the changes of a unit lead one by
one from a document of the past to the next (`Story`), the open group from the last
committed document to the text (`Told`). Undo and redo replay a unit by a fold, whose
value is found by induction along the story (`UndoReplays`, `RedoReplays`); a merge joins
two changes that touch into one (`MergeJoins`). `BufferNeverDrifts` and `BufferKeepsHistory` follow.
The hypothesis `FreeSetLines = FALSE` says that `set_lines` is not called on a buffer with a
history, where units would outlive their document.
`BufferTypes` also needs that callers pass positions of the text (`Slack = 0`): the cursor
that an undo returns is the one the caller gave, unclamped. What a splice, a merge and a
chain of documents are, the module shows again for the names that `Buffer` declares, which
are other constants and variables than the editor's.

**Flat text** (`BufferProofs`). `PrimitivesEditTheText` relates each primitive to the text as
one string with a newline between two lines: put in here, cut there, nothing else touched.
A document is cut at a position into what stands left and right of it (`SplitAt`), and
the flat text of a splice is that of its three parts (`FlatSplice`).

**Keys and decoder** (`KeysProofs`), for every keyboard, count width and digit limit.
`KeysInv == TypeOK /\ OneOwner /\ InsertIsClean /\ MotionCountCapped`. The conjuncts
need each other: an idle operator is at its defaults (`OneOwner`), which is why a command
that enters insert mode leaves it clean, and insert mode being clean is why
`pasting` and the prefixes never meet. Behind the decoder the invariant is `InputInv`:
with `KeysInv` also the decoder's types, `PastingEnds`, and `PasteBegun`, which says
which bytes of a marker the decoder must have seen to be where it is. The number
of a marker stays below the width of the decoder's counter, or a long escape sequence
could wrap to one. `KeysBehindTheDecoder` shows that what `KeysProofs` proves of typed
keys holds of whatever bytes the terminal delivers.

**Pool and services** (`UiLoopProofs`), for every number of workers, workspaces and
files. `IInv == PoolOK /\ ServicesOK /\ FoundOK /\ ListingsOfThisRoot /\ RefreshOK /\
DiffOK`. `ScmFresh` speaks of the moments in which no request is under way; to have it
there, the invariant says who holds the newest request until it is answered, a job
that is queued or in a worker's hands (`Held`), and that what a worker found is of
its job's root and lines (`FoundOK`). `StopDropsNothing` needs that a worker
leaves only when the pool is being joined and the queue is empty (`PoolOK`).

**Documents and recovery** (`WorkspaceProofs`), for every number of files, ways to write their
paths, texts, crashes and writes of other programs. `IInv == FilesOK /\ BuffersOK /\ BarOK /\
ActiveOK /\ PromptsOK /\ StepsOK /\ TodoOK /\ TickingOK`. A buffer decides that it is clean by comparing content *ids*;
`CleanIsSaved` is about *texts*. Between them stands `BuffersOK`: some function from ids to
texts explains every pair the buffer holds in its stacks, its open transaction and its
last save, and a new id extends it. `TodoOK` says that no call a handler has still to
make removes the snapshot of a file whose tabs are by now all dirty, `PromptsOK` that the recovery
questions still to be asked are of files without tabs or with a clean one, `StepsOK` and
`TickingOK` that what is still to be done is to tabs that are there. A snapshot that the
tick removes is thus of a file with a clean tab (`UnsavedSnapshotsAreKept`): no more holds,
as the findings say.

**Language servers** (`LspProofs`), for any documents, servers, inputs and messages.
`IInv == TypeOK /\ FormatsActive /\ DeskOK`. A server's copy is never ahead of the
service's version, and unless a change was missed the copy, or the opening that waits for
the server to start, is of that version and the buffer's text (`EntryOK`). A call of
the service touches its own document only, or replaces the session by one in
which nothing is open (`Touch`, `Fresh`). `ServersHaveWhatIsOpen`,
`ServersHaveTheText` and `VersionsOnlyRise` follow for any number of servers.
`ResultsAnswerTheirRequests` has the hypothesis `OneServer`, and needs it: with
two, answers are confused, which `lsp_ids` shows. Its invariant adds
`AnswersOK`: whatever is still asked at the server, or on its way back, and has the id of
a pending request, is of that request's kind and document.

**Terminal** (`TerminalProofs`), for every set of sizes and *every* byte the shell writes,
not the outputs of the run. The invariant `IInv` says `Good` of parser, screen and
session. A screen was never sized, or has a row and a column, with cursor and region inside
and the grid of exactly that size; a pending wrap stands in the last
column; the scrollback is bounded. One lemma per screen operation (`Screens` to
`Screens`), and the same for every sequence the parser dispatches. `ScreenIsWhole`,
`ShellKnowsItsSize` and `TextStaysInItsRegion` follow.

**UI** (`UiProofs`), for every number of files, tabs, moves and edits. `Sound == Filed /\
Fronted /\ Questioned`: types, a tab in front, and with every open question what its answer
will use. Operations of two kinds meet: those of the screen keep the documents
(`SameDocs`), those of the documents keep the questions (`SameAsks`), and each action is a
few of them in the code's order. For each action one lemma proves `Kept`: that
`Sound` holds after it and that no text and no file went that the screen had not
spoken of. `UiNothingLostUnasked` names, as the property does, the three ways by
which text does go unasked; the theorem says there is no fourth.

**Folds** (at the head of `EditorProofs`, `BufferProofs`, `TerminalProofs` and `UiProofs`,
each with the lemmas it uses). The library's induction theorems take an operator, which the
installed provers cannot instantiate. Here induction is a statement about a set (`Induction`),
derived from the well-foundedness of finite sets; from it follows that a fold's
recursive function exists, and that a set which each step keeps has the fold's
result. The parser over bytes, the UI over tabs and the editor's scans and rows use it.

Only model-checked:

* liveness: `ScreenSettles`, `QuitEnds`, `WaitingOpens`, `CrashNoticed`,
  `SnapshotsCatchUp`, `ChangeSeen`, `EndNoticed`. Fairness is ENABLED, beyond the prover.

The safety properties of the passing runs are all stated by theorems. Those of the runs
that find a disagreement are false: `SearchFresh`, `RecoveryKept`, and `AnswersMatch` with
two servers.

## Not modelled

* File contents on disk in the rewrite (`load`, `save`), UTF-8 conversion, ncurses, colours
  and the text of the status line. `set_lines` on a buffer with a history would leave
  units whose document is gone; nothing calls it so, and the runs do not.
* Buffer search of the rewrite: nothing calls it, and it is regular expression matching.
* In the first version: JSON and process pipes; the ranges inside a server's edits;
  git's, the search's and the matcher's own output; the editor's insert and visual
  modes and its drawing; syntax highlighting; the parsing of the configuration, help
  texts and extensions; wrappers of files, strings, the log and the clipboard.
* The destruction of the wake object while a worker still holds its pointer
  (`event_wake.cpp:65`) is noted as a hazard: the object is memory, which the model leaves out.
* In `Workspace`: `:w path`, renames and deletions in the explorer and the command that
  restores a session (they are in `Ui`, without snapshots); an untitled buffer beside the tabs
  of files; paths that a link leads to another file.

## Plan

1. *Done*: the rewrite from key to screen; the first version's pool and services,
   language servers, documents and recovery, terminal and UI; proofs of the
   history, the buffer, the reducer, the keys, the services, the documents, the servers, the
   terminal and the UI.
2. Proofs to come: that the prompts of `Ui` and the snapshots of `Workspace` agree, once
   the two are one model; liveness, if the prover comes to reach ENABLED.
3. Models to come: put and the other readers of registers, when the rewrite has them;
   `Ui` over `Workspace`, so that prompts and snapshots are checked together.
