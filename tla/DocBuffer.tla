------------------------------- MODULE DocBuffer -------------------------------
(***************************************************************************)
(* The first version's Buffer (old/src/editor/buffer*.cpp), as operators on *)
(* a record: its text, the ids that say whether it is dirty, the undo and   *)
(* redo stacks of transactions, and the transaction that is open.          *)
(*                                                                         *)
(* A text is a number; every edit makes a new one.  A transaction keeps the *)
(* text before it, which is what reversing its changes gives.              *)
(***************************************************************************)
EXTENDS Integers, Sequences

CONSTANTS
  NoEdit,   \* no transaction is open
  MaxUndo   \* kMaxUndo

\* behind: the file's time on disk is not disk_mtime_, which is taken after the last load or
\* save.  saved: the text of that load or save, which no operator reads.

Transactions(texts) == [before : texts, after : texts, idBefore : Nat, idAfter : Nat]
Edits(texts) == [before : texts, idBefore : Nat, changed : BOOLEAN]
Buffers(texts) ==
  [text : texts, id : Nat, savedId : Nat, nextId : Nat, behind : BOOLEAN, warned : BOOLEAN,
   saved : texts, undo : Seq(Transactions(texts)), redo : Seq(Transactions(texts)),
   open : Edits(texts) \cup {NoEdit}]

\* load(), up to the text: everything starts again.
Load(text) ==
  [text |-> text, id |-> 0, savedId |-> 0, nextId |-> 1, behind |-> TRUE,
   warned |-> FALSE, saved |-> text, undo |-> <<>>, redo |-> <<>>, open |-> NoEdit]

\* capture_disk_mtime(), at the end of load() and save(): the file's time as it is then, which
\* is that of a later write if one came between.
Stamped(b) == [b EXCEPT !.behind = FALSE, !.warned = FALSE]

\* is_dirty(): the ids differ, or the open transaction has changes.
IsDirty(b) == b.id # b.savedId \/ (b.open # NoEdit /\ b.open.changed)

DiskChanged(b) == b.behind

Trim(stack) == IF Len(stack) > MaxUndo THEN Tail(stack) ELSE stack

\* end_edit(): an empty transaction leaves no trace.
EndEdit(b) ==
  IF b.open = NoEdit \/ ~b.open.changed THEN [b EXCEPT !.open = NoEdit]
  ELSE [b EXCEPT !.id = b.nextId, !.nextId = @ + 1, !.open = NoEdit, !.redo = <<>>,
         !.undo = Trim(Append(@, [before |-> b.open.before, after |-> b.text,
                                  idBefore |-> b.open.idBefore, idAfter |-> b.nextId]))]

\* begin_edit(): an open transaction ends first.
BeginEdit(b) ==
  LET ended == EndEdit(b)
  IN  [ended EXCEPT !.open = [before |-> ended.text, idBefore |-> ended.id, changed |-> FALSE]]

\* record_change(): a change outside a transaction is one of its own.
Change(b, new) ==
  IF b.open = NoEdit
  THEN EndEdit([BeginEdit(b) EXCEPT !.text = new, !.open.changed = TRUE])
  ELSE [b EXCEPT !.text = new, !.open.changed = TRUE]

\* insert_char(), insert_text() and their like, and delete_char_before(), delete_char_at() and
\* delete_range(): one change, or nothing, not even a transaction, when the text is empty or
\* of characters that are dropped, or there is nothing to delete.
InsertText(b, new) == {b, Change(b, new)}
DeleteRange(b, new) == {b, Change(b, new)}

\* An undo that keeps the id of the text it leaves.
UndoKeepsId(b) ==
  IF b.undo = <<>> THEN b
  ELSE LET t == b.undo[Len(b.undo)]
       IN  [b EXCEPT !.undo = SubSeq(@, 1, Len(@) - 1), !.redo = Append(@, t), !.text = t.before]

Undo(b) ==
  IF b.undo = <<>> THEN b
  ELSE LET t == b.undo[Len(b.undo)]
       IN  [b EXCEPT !.undo = SubSeq(@, 1, Len(@) - 1), !.redo = Append(@, t),
                     !.text = t.before, !.id = t.idBefore]

Redo(b) ==
  IF b.redo = <<>> THEN b
  ELSE LET t == b.redo[Len(b.redo)]
       IN  [b EXCEPT !.redo = SubSeq(@, 1, Len(@) - 1), !.undo = Append(@, t),
                     !.text = t.after, !.id = t.idAfter]

\* save(), when the file is written, up to its time.
Saved(b) ==
  LET ended == EndEdit(b)
  IN  [ended EXCEPT !.savedId = ended.id, !.saved = ended.text]

\* apply_recovered_content(): dirty until it is saved.
Recovered(b, text) ==
  LET ended == EndEdit(b)
  IN  [ended EXCEPT !.text = text, !.id = ended.nextId, !.nextId = @ + 1,
                    !.undo = <<>>, !.redo = <<>>, !.open = NoEdit]

===============================================================================
