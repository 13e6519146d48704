---------------------------- MODULE LineHistory ----------------------------
(***************************************************************************)
(* A document and its undo history as the editor of the rewrite drives     *)
(* them: each edit is one Buffer::with_edit group around one recorded      *)
(* change (new/src/app/reducer.cpp, record_change and apply_edit), so      *)
(* every unit holds one change and no group is open between two commands.  *)
(* The module says what any such change does to the document and to the    *)
(* stacks, whichever command built it.                                     *)
(*                                                                         *)
(* past and future are history variables: the documents that stood before  *)
(* the undoable edits and after the undone ones.  No action reads them.    *)
(***************************************************************************)
EXTENDS Primitives

CONSTANTS
    Char,       \* the code points of the text
    InitDocs    \* the documents an editor opens with

ASSUME InitDocsAssumption == InitDocs \subseteq (Seq(Seq(Char)) \ {<<>>})

VARIABLES
    lines,   \* Buffer::lines_
    undo,    \* UndoStack::undo_, each unit as its one change
    redo,    \* UndoStack::redo_
    revision, \* Buffer::revision_
    past, future

histVars == <<lines, undo, redo, revision, past, future>>

Line == Seq(Char)
Doc  == Seq(Line) \ {<<>>}
Pos  == [line : Nat, col : Nat]

Change ==
    [kind : Kinds, first : Nat, old : Doc, new : Seq(Line), before : Pos, after : Pos]

(* A position of the document; one past a line's end is a position.        *)
InGrid(doc, p) == p.line < Len(doc) /\ p.col <= Len(doc[p.line + 1])

(* A change a command may record: its old lines are in the document, and   *)
(* its hints are positions of the document before and after it.            *)
ChangeOf(doc, c) ==
    /\ c \in Change
    /\ Fits(doc, c.first, c.old)
    /\ InGrid(doc, c.before)
    /\ InGrid(Apply(doc, c), c.after)

-----------------------------------------------------------------------------
HistInit ==
    /\ lines \in InitDocs
    /\ undo = <<>> /\ redo = <<>>
    /\ revision = 0
    /\ past = <<>> /\ future = <<>>

(* try_extend on one-change units: the change joins the last one.          *)
Extends(c, tag) ==
    /\ tag \in {"InsertChar", "EraseChar"}
    /\ redo = <<>> /\ undo # <<>>
    /\ Continues(Final(undo), c)

(* with_edit(tag) around record_text_change(c).                            *)
Record(c, tag) ==
    /\ lines' = Apply(lines, c)
    /\ revision' = revision + 1
    /\ IF Extends(c, tag)
         THEN /\ undo' = Append(Initial(undo), Merge(Final(undo), c))
              /\ past' = past
         ELSE /\ undo' = Newest(Append(undo, c))
              /\ past' = Newest(Append(past, lines))
    /\ redo' = <<>>
    /\ future' = <<>>

(* Buffer::undo and redo; the assertions on the baseline are the guards.   *)
UndoFits == Fits(lines, Final(undo).first, Final(undo).new)
RedoFits == Fits(lines, Final(redo).first, Final(redo).old)

UndoUnit ==
    /\ undo # <<>> /\ UndoFits
    /\ lines' = Unapply(lines, Final(undo))
    /\ revision' = revision + 1
    /\ undo' = Initial(undo)
    /\ redo' = Newest(Append(redo, Final(undo)))
    /\ past' = Initial(past)
    /\ future' = Append(future, lines)

RedoUnit ==
    /\ redo # <<>> /\ RedoFits
    /\ lines' = Apply(lines, Final(redo))
    /\ revision' = revision + 1
    /\ redo' = Initial(redo)
    /\ undo' = Append(undo, Final(redo))
    /\ future' = Initial(future)
    /\ past' = Append(past, lines)

HistNext ==
    \/ \E c \in Change, tag \in Kinds : ChangeOf(lines, c) /\ Record(c, tag)
    \/ UndoUnit
    \/ RedoUnit

HistSpec == HistInit /\ [][HistNext]_histVars

-----------------------------------------------------------------------------
(* The "baseline drift" assertions of undo and redo never fail: whatever   *)
(* was recorded, merged, evicted, undone and redone before, the change on  *)
(* top of either stack stands in the document as it left it (buffer.cpp).  *)
NoDrift ==
    /\ undo # <<>> => UndoFits
    /\ redo # <<>> => RedoFits

(* The stacks never hold more than Cap units between them.  push_redo thus *)
(* never evicts, and push_redo_return, which does not evict, needs not to. *)
DepthBound == Len(undo) + Len(redo) <= Cap

(* The history variables and the stacks tell one story: each change leads  *)
(* from one document of the past to the next, up to the present, and each  *)
(* undone change from the present to the documents of the future; and the  *)
(* hints, where undo and redo put the cursor, are positions of these.      *)
Leads(d, c, e) ==
    /\ Fits(d, c.first, c.old) /\ e = Apply(d, c)
    /\ InGrid(d, c.before) /\ InGrid(e, c.after)

UndoLinked ==
    /\ Len(past) = Len(undo)
    /\ \A i \in 1..Len(undo) :
         Leads(Append(past, lines)[i], undo[i], Append(past, lines)[i + 1])
RedoLinked ==
    /\ Len(future) = Len(redo)
    /\ \A i \in 1..Len(redo) :
         Leads(Append(future, lines)[i + 1], redo[i], Append(future, lines)[i])

Linked == UndoLinked /\ RedoLinked

(* Undo returns to the very document that stood before the edit or the run *)
(* it takes back, redo to the one that stood after it.                     *)
UndoIsInverse ==
    [][/\ UndoUnit => lines' = Final(past)
       /\ RedoUnit => lines' = Final(future)]_histVars

(* The history is what EditHistory promises.                               *)
Abstract ==
    INSTANCE EditHistory WITH
        Limit   <- Cap,
        present <- lines,
        base    <- <<>>

KeepsHistory == Abstract!Spec
=============================================================================
