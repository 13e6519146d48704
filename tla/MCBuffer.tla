------------------------------ MODULE MCBuffer ------------------------------
(***************************************************************************)
(* The buffer on small documents.  Two questions: does the history keep    *)
(* its promise under every interleaving of edits, groups, undo and redo;   *)
(* do the primitives change the text as their contract says.               *)
(***************************************************************************)
EXTENDS Buffer

Replays == 2

HistoryDocs == {<<<<>>>>}

(* Every call that edits, groups, undoes or redoes; the last Replays       *)
(* revisions are left to undo and redo.                                    *)
EditNext ==
    /\ revision < MaxRev - Replays
    /\ \/ \E p \in Positions(lines) : InsertChar(p, "a")
       \/ \E p \in Positions(lines), t \in Texts : InsertText(p, t)
       \/ \E p \in Positions(lines) : EraseChar(p)
       \/ \E p, q \in Positions(lines) : EraseRange(p, q)
       \/ \E p \in Positions(lines) : InsertNewline(p)
       \/ \E l \in 0..(Len(lines) - 1), smart \in BOOLEAN : Join(At(l, 0), smart)
       \/ BeginGroup
       \/ \E k \in Kinds : BeginGroupKind(k)
HistoryNext == EditNext \/ EndGroup \/ Undo \/ Redo

HistorySpec == Init /\ [][HistoryNext]_vars

EditTexts == {<<<<"a">>, <<" ">>>>}
=============================================================================
