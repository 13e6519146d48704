------------------------------- MODULE Buffer -------------------------------
(***************************************************************************)
(* The text buffer of the rewrite (new/src/core/buffer.hpp, buffer.cpp):   *)
(* the line table, the edit primitives, undo and redo, grouping, and the   *)
(* snapshot cache.  A line is a sequence of code points, so the UTF-8      *)
(* conversions between columns and bytes (cp_to_byte) become indices; a    *)
(* column beyond the line's end is clamped, as cp_to_byte does.            *)
(***************************************************************************)
EXTENDS Primitives

CONSTANTS
    Char,          \* the code points callers insert
    Texts,         \* what insert_text is given: sequences of segments, the
                   \*   text cut at its newlines
    InitDocs,      \* the documents a buffer is created with
    Slack,         \* how far callers' positions may exceed the document
    MaxRev,        \* bound: no call is made at this revision
    MaxDepth,      \* bound: nesting of groups
    FreeSetLines   \* whether set_lines is called on a buffer with a history

ASSUME BufferAssumption ==
    /\ Blank \in Char
    /\ Texts \subseteq (Seq(Seq(Char)) \ {<<>>})
    /\ InitDocs \subseteq (Seq(Seq(Char)) \ {<<>>})
    /\ Slack \in Nat /\ MaxRev \in Nat /\ MaxDepth \in Nat
    /\ FreeSetLines \in BOOLEAN

VARIABLES
    lines,      \* lines_: never empty
    hist,       \* undo_: see UndoStack
    dirty,      \* dirty_
    revision,   \* revision_
    snap,       \* snapshot_cache_ and snapshot_rev_; rev -1: no cache yet
    ret         \* the position the last call gave its caller

vars == <<lines, hist, dirty, revision, snap, ret>>

-----------------------------------------------------------------------------
(* Undo replays a unit's inverses backwards, redo replays it forwards.     *)
UndoUnit(doc, unit) ==
    LET n == Len(unit)
        before[i \in 1..(n + 1)] == IF i > n THEN doc ELSE Unapply(before[i + 1], unit[i])
    IN  before[1]
RedoUnit(doc, unit) ==
    LET after[i \in 0..Len(unit)] == IF i = 0 THEN doc ELSE Apply(after[i - 1], unit[i])
    IN  after[Len(unit)]

(* No "baseline drift" assertion fails while the unit is replayed.         *)
UndoFits(doc, unit) ==
    \A i \in 1..Len(unit) :
        Fits(UndoUnit(doc, SubSeq(unit, i + 1, Len(unit))), unit[i].first, unit[i].new)
RedoFits(doc, unit) ==
    \A i \in 1..Len(unit) :
        Fits(RedoUnit(doc, SubSeq(unit, 1, i - 1)), unit[i].first, unit[i].old)

-----------------------------------------------------------------------------
(* The positions callers pass: those of the document, and Slack beyond it. *)
Positions(doc) ==
    UNION {{At(l, c) : c \in 0..(Len(LineOf(doc, ClampLine(doc, l))) + Slack)} :
              l \in 0..(Len(doc) - 1 + Slack)}

Budget == revision < MaxRev

Init ==
    /\ lines \in InitDocs
    /\ hist = EmptyHistory
    /\ dirty = FALSE
    /\ revision = 0
    /\ snap = [rev |-> -1, lines |-> <<>>]
    /\ ret = At(0, 0)

(* apply_change, which every primitive and record_text_change end in.      *)
ApplyChange(c) ==
    /\ Budget
    /\ lines' = Apply(lines, c)
    /\ dirty' = TRUE
    /\ revision' = revision + 1
    /\ hist' = Push(hist, c)
    /\ UNCHANGED snap

InsertChar(p, cp) ==
    LET c == InsertCharChange(lines, p, cp) IN ApplyChange(c) /\ ret' = c.after

InsertText(p, segs) ==
    LET c == InsertTextChange(lines, p, segs) IN ApplyChange(c) /\ ret' = c.after

(* At the end of a line there is nothing to erase and nothing is recorded. *)
EraseChar(p) ==
    /\ p.col < Len(LineOf(lines, ClampLine(lines, p.line)))
    /\ ApplyChange(EraseCharChange(lines, p))
    /\ ret' = At(ClampLine(lines, p.line), p.col)

EraseRange(a, b) ==
    LET s == IF Before(b, a) THEN b ELSE a
        e == IF Before(b, a) THEN a ELSE b
        c == EraseRangeChange(lines, s, e)
    IN  ApplyChange(c) /\ ret' = c.after

InsertNewline(p) ==
    LET c == InsertNewlineChange(lines, p) IN ApplyChange(c) /\ ret' = c.after

(* The last line has nothing below it to join.                             *)
Join(p, smart) ==
    LET l == ClampLine(lines, p.line)
    IN  /\ l + 1 < Len(lines)
        /\ ApplyChange(JoinChange(lines, l, smart))
        /\ ret' = At(l, JoinKeep(LineOf(lines, l), smart))

(* set_lines replaces the content and leaves the history as it was.        *)
SetLines(doc) ==
    /\ Budget
    /\ FreeSetLines \/ hist = EmptyHistory
    /\ lines' = doc
    /\ dirty' = TRUE
    /\ revision' = revision + 1
    /\ ret' = At(0, 0)
    /\ UNCHANGED <<hist, snap>>

BeginGroup ==
    /\ Budget /\ hist.depth < MaxDepth
    /\ hist' = Begin(hist)
    /\ UNCHANGED <<lines, dirty, revision, snap, ret>>

BeginGroupKind(kind) ==
    /\ Budget /\ hist.depth < MaxDepth
    /\ hist' = BeginKind(hist, kind)
    /\ UNCHANGED <<lines, dirty, revision, snap, ret>>

EndGroup ==
    /\ hist.depth > 0
    /\ hist' = End(hist)
    /\ UNCHANGED <<lines, dirty, revision, snap, ret>>

(* Callers undo and redo between groups, never inside one: the changes of  *)
(* an open group are not on the stack yet.                                 *)
Undo ==
    /\ Budget /\ hist.depth = 0
    /\ hist.undo # <<>>
    /\ LET unit == Final(hist.undo)
       IN  /\ UndoFits(lines, unit)
           /\ lines' = UndoUnit(lines, unit)
           /\ revision' = revision + Len(unit)
           /\ ret' = unit[1].before
    /\ hist' = ParkUndone(hist)
    /\ dirty' = TRUE
    /\ UNCHANGED snap

Redo ==
    /\ Budget /\ hist.depth = 0
    /\ hist.redo # <<>>
    /\ LET unit == Final(hist.redo)
       IN  /\ RedoFits(lines, unit)
           /\ lines' = RedoUnit(lines, unit)
           /\ revision' = revision + Len(unit)
           /\ ret' = Final(unit).after
    /\ hist' = ReturnRedone(hist)
    /\ dirty' = TRUE
    /\ UNCHANGED snap

(* A snapshot of the present revision is shared, any other is rebuilt.     *)
SnapshotLines ==
    /\ snap' = IF snap.rev = revision THEN snap ELSE [rev |-> revision, lines |-> lines]
    /\ UNCHANGED <<lines, hist, dirty, revision, ret>>

MarkSaved ==
    /\ dirty' = FALSE
    /\ UNCHANGED <<lines, hist, revision, snap, ret>>

Next ==
    \/ \E p \in Positions(lines), c \in Char : InsertChar(p, c)
    \/ \E p \in Positions(lines), t \in Texts : InsertText(p, t)
    \/ \E p \in Positions(lines) : EraseChar(p)
    \/ \E p, q \in Positions(lines) : EraseRange(p, q)
    \/ \E p \in Positions(lines) : InsertNewline(p)
    \/ \E l \in 0..(Len(lines) - 1 + Slack), smart \in BOOLEAN : Join(At(l, 0), smart)
    \/ \E d \in InitDocs : SetLines(d)
    \/ BeginGroup
    \/ \E k \in Kinds : BeginGroupKind(k)
    \/ EndGroup
    \/ Undo
    \/ Redo
    \/ SnapshotLines
    \/ MarkSaved

Spec == Init /\ [][Next]_vars

-----------------------------------------------------------------------------
PosType == [line : Nat, col : Nat]

IsChange(c) ==
    /\ c.kind \in Kinds /\ c.first \in Nat
    /\ c.old # <<>> /\ c.new # <<>>
    /\ c.before \in PosType /\ c.after \in PosType

IsUnit(unit) == unit # <<>> /\ \A i \in 1..Len(unit) : IsChange(unit[i])

(* A buffer holds at least one line, every line is of the alphabet, every  *)
(* unit of the history has a change, and the groups are balanced           *)
(* (new/src/core/buffer.hpp:111, undo.hpp).  The position a primitive, an  *)
(* undo or a redo hands back is one of the document it leaves: the hints   *)
(* kept in the units survive merging, grouping, eviction and replay.       *)
TypeOK ==
    /\ lines # <<>> /\ lines \in Seq(Seq(Char))
    /\ \A i \in 1..Len(hist.undo) : IsUnit(hist.undo[i])
    /\ \A i \in 1..Len(hist.redo) : IsUnit(hist.redo[i])
    /\ hist.depth \in 0..MaxDepth /\ hist.tag \in Kinds
    /\ hist.depth = 0 => hist.pending = <<>> /\ hist.tag = "Bulk"
    /\ dirty \in BOOLEAN
    /\ revision \in Nat
    /\ snap.rev \in -1..revision
    /\ ret.line \in 0..(Len(lines) - 1) /\ ret.col \in 0..Len(LineOf(lines, ret.line))

(* Whatever was typed, grouped, merged, undone and redone before, the unit *)
(* on top of either stack replays onto exactly the text it left behind:    *)
(* the "baseline drift" assertions of apply_inverse and redo never fail.   *)
NoDrift ==
    hist.depth = 0 =>
        /\ hist.undo # <<>> => UndoFits(lines, Final(hist.undo))
        /\ hist.redo # <<>> => RedoFits(lines, Final(hist.redo))

-----------------------------------------------------------------------------
(* The documents the history stands for: unwind the units one by one.      *)
PastOf(doc, undo) ==
    LET n == Len(undo)
        back[i \in 1..(n + 1)] == IF i = n + 1 THEN doc ELSE UndoUnit(back[i + 1], undo[i])
    IN  [i \in 1..n |-> back[i]]
FutureOf(doc, redo) ==
    LET n == Len(redo)
        ahead[i \in 1..(n + 1)] == IF i = n + 1 THEN doc ELSE RedoUnit(ahead[i + 1], redo[i])
    IN  [i \in 1..n |-> ahead[i]]

Committed == UndoUnit(lines, hist.pending)

Abstract ==
    INSTANCE EditHistory WITH
        Doc     <- Seq(Seq(Char)),
        Limit   <- Cap,
        past    <- PastOf(Committed, hist.undo),
        present <- lines,
        future  <- FutureOf(Committed, hist.redo),
        base    <- IF hist.pending = <<>> THEN <<>> ELSE <<Committed>>

(* The buffer implements the abstract history: undo returns to the very    *)
(* document before the edit, the run or the group, redo to the one after   *)
(* it, merging a run changes no older document, and only a fresh edit      *)
(* forgets the redo branch or the oldest document (buffer.cpp, undo.cpp).  *)
KeepsHistory == Abstract!Spec

-----------------------------------------------------------------------------
NL == "\n"
FlatLines(doc) ==
    LET flat[i \in 1..Len(doc)] == IF i = 1 THEN doc[1] ELSE flat[i - 1] \o <<NL>> \o doc[i]
    IN  flat[Len(doc)]

(* Where a position stands in the flat text: the line first, then the      *)
(* column, each clamped.                                                   *)
Offset(doc, p) ==
    LET l == ClampLine(doc, p.line)
    IN  (IF l = 0 THEN 0 ELSE Len(FlatLines(SubSeq(doc, 1, l))) + 1)
            + Lesser(p.col, Len(LineOf(doc, l)))

Inserted(doc, p, text) ==
    LET flat == FlatLines(doc) IN Upto(flat, Offset(doc, p)) \o text \o From(flat, Offset(doc, p))
Cut(doc, s, e) == Upto(FlatLines(doc), Offset(doc, s)) \o From(FlatLines(doc), Offset(doc, e))

(* The text of a joined pair of lines around its seam.                     *)
SmartSeam(a, b) ==
    LET l == {i \in 0..Len(a) : \A j \in (i + 1)..Len(a) : a[j] = Blank}
        r == {i \in 0..Len(b) : \A j \in 1..i : b[j] = Blank}
        keep == CHOOSE i \in l : \A j \in l : i <= j
        skip == CHOOSE i \in r : \A j \in r : j <= i
    IN  Upto(a, keep) \o (IF keep > 0 /\ skip < Len(b) THEN <<Blank>> ELSE <<>>) \o From(b, skip)

(* Each primitive changes the flat text at its clamped position and        *)
(* nowhere else, as buffer.hpp:30-50 says: an insertion adds, a range is   *)
(* cut, a split adds a newline, a join removes one (and, when smart, the   *)
(* blanks around it).  Two cases fall outside: text with no newline, and a *)
(* range that is empty once clamped.                                       *)
PrimitivesEditText ==
    LET After(c) == FlatLines(Apply(lines, c))
    IN  /\ \A p \in Positions(lines) :
             /\ \A cp \in Char : After(InsertCharChange(lines, p, cp)) = Inserted(lines, p, <<cp>>)
             /\ \A t \in Texts :
                  Len(t) > 1 => After(InsertTextChange(lines, p, t)) = Inserted(lines, p, FlatLines(t))
             /\ After(EraseCharChange(lines, p)) = Cut(lines, p, At(p.line, p.col + 1))
             /\ After(InsertNewlineChange(lines, p)) = Inserted(lines, p, <<NL>>)
             /\ \A q \in Positions(lines) :
                  Before(p, q) /\ Offset(lines, p) < Offset(lines, q) =>
                      After(EraseRangeChange(lines, p, q)) = Cut(lines, p, q)
        /\ \A l \in 0..(Len(lines) - 2) :
             /\ After(JoinChange(lines, l, FALSE)) =
                    Cut(lines, At(l, Len(LineOf(lines, l))), At(l + 1, 0))
             /\ JoinChange(lines, l, TRUE).new[1] = SmartSeam(LineOf(lines, l), LineOf(lines, l + 1))
=============================================================================
