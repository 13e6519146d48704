----------------------------- MODULE UndoStack -----------------------------
(***************************************************************************)
(* The undo history of a buffer (new/src/core/undo.hpp, undo.cpp) as       *)
(* operators on one record h:                                              *)
(*   undo, redo  sequences of units, the most recent unit last; a unit is  *)
(*               the sequence of its changes in the order they were made   *)
(*   pending     the changes of the group that is open (pending_)          *)
(*   depth, tag  the nesting depth of the groups and the kind of the       *)
(*               innermost labelled one (group_depth_, group_tag_)         *)
(* A unit's own tag field is informational in the code and left out.       *)
(*                                                                         *)
(* A document is a sequence of lines and a change replaces a span of whole *)
(* lines.  Line numbers count from 0, as they do in the code, so line k is *)
(* doc[k + 1].                                                             *)
(***************************************************************************)
EXTENDS Integers, Sequences

CONSTANT Cap       \* UndoStack::k_cap, 200 in the code

ASSUME CapAssumption == Cap \in Nat \ {0}

(* Replace the n lines from line first on by the lines new: the erase and  *)
(* insert pair of Buffer::apply_change, apply_inverse and redo.            *)
Splice(doc, first, n, new) ==
    SubSeq(doc, 1, first) \o new \o SubSeq(doc, first + n + 1, Len(doc))

(* The lines of span stand in doc from line first on: what the "baseline   *)
(* drift" assertions of apply_inverse and redo demand.                     *)
Fits(doc, first, span) ==
    /\ first + Len(span) <= Len(doc)
    /\ SubSeq(doc, first + 1, first + Len(span)) = span

(* A change applied, and undone: see TextChange for the fields.            *)
Apply(doc, c)   == Splice(doc, c.first, Len(c.old), c.new)
Unapply(doc, c) == Splice(doc, c.first, Len(c.new), c.old)

-----------------------------------------------------------------------------
Kinds == {"InsertChar", "EraseChar", "Bulk"}

(* A TextChange: old are the lines before it, new the lines after it, both *)
(* from line first on; before and after are the cursor hints.              *)
TextChange(kind, first, old, new, before, after) ==
    [kind |-> kind, first |-> first, old |-> old, new |-> new,
     before |-> before, after |-> after]

EmptyHistory ==
    [undo |-> <<>>, redo |-> <<>>, pending |-> <<>>, depth |-> 0, tag |-> "Bulk"]

Final(s)   == s[Len(s)]
Initial(s) == SubSeq(s, 1, Len(s) - 1)

(* The deque bound: the oldest entries are evicted beyond Cap.             *)
NewestFromBack(units) == IF Len(units) > Cap THEN SubSeq(units, 1, Cap) ELSE units
Newest(units) ==
    IF Len(units) > Cap THEN SubSeq(units, Len(units) - Cap + 1, Len(units)) ELSE units

(* A change c continues the character stream that the change prev ended.   *)
Continues(prev, c) ==
    /\ prev.kind = c.kind
    /\ c.kind \in {"InsertChar", "EraseChar"}
    /\ prev.after = c.before
    /\ c.kind # "InsertChar" => c.first = prev.first
    /\ c.first >= prev.first
    /\ Fits(prev.new, c.first - prev.first, c.old)

(* The one change that does what prev and then c do.                       *)
Merge(prev, c) ==
    [prev EXCEPT !.new = Splice(prev.new, c.first - prev.first, Len(c.old), c.new),
                 !.after = c.after]

(* try_extend: only one-change units extend, and only onto the present.    *)
CanExtend(h) ==
    /\ Len(h.pending) = 1
    /\ h.redo = <<>>
    /\ h.undo # <<>>
    /\ Len(Final(h.undo)) = 1
    /\ Continues(Final(h.undo)[1], h.pending[1])

Extended(h) ==
    [h EXCEPT !.undo = Append(Initial(@), <<Merge(Final(@)[1], h.pending[1])>>),
              !.redo = <<>>,
              !.pending = <<>>]
NewUnit(h) ==
    [h EXCEPT !.undo = Newest(Append(@, h.pending)),
              !.redo = <<>>,
              !.pending = <<>>]

(* commit_pending: a tagged character group prefers to extend the last     *)
(* unit; everything else becomes a unit and truncates the redo branch.     *)
CommitKeepsRedo(h) ==
    IF h.pending = <<>> THEN h
    ELSE IF h.tag \in {"InsertChar", "EraseChar"} /\ CanExtend(h) THEN Extended(h)
    ELSE [NewUnit(h) EXCEPT !.redo = h.redo]
Commit(h) ==
    IF h.pending = <<>> THEN h
    ELSE IF h.tag \in {"InsertChar", "EraseChar"} /\ CanExtend(h) THEN Extended(h)
    ELSE NewUnit(h)

Push(h, c) ==
    LET added == [h EXCEPT !.pending = Append(@, c)]
    IN  IF h.depth > 0 THEN added ELSE Commit(added)

Begin(h)           == [h EXCEPT !.depth = @ + 1]
BeginKind(h, kind) == [h EXCEPT !.depth = @ + 1, !.tag = kind]

(* end_group: the outer close commits, and only then is the tag reset.     *)
EndKeepsTag(h) ==
    LET closed == [h EXCEPT !.depth = @ - 1]
    IN  IF closed.depth > 0 THEN closed ELSE Commit(closed)
End(h) ==
    LET closed == [h EXCEPT !.depth = @ - 1]
    IN  IF closed.depth > 0 THEN closed ELSE [Commit(closed) EXCEPT !.tag = "Bulk"]

(* pop_undo and push_redo, pop_redo and push_redo_return, as Buffer::undo  *)
(* and Buffer::redo pair them.  push_redo_return has no eviction.          *)
ParkUndone(h) ==
    [h EXCEPT !.undo = Initial(@), !.redo = Newest(Append(@, Final(h.undo)))]
ReturnRedone(h) ==
    [h EXCEPT !.redo = Initial(@), !.undo = Append(@, Final(h.redo))]
=============================================================================
