---------------------------- MODULE EditHistory ----------------------------
(***************************************************************************)
(* What an undo history promises, with no changes and no spans in sight:   *)
(* a line of documents, of which one is present.  Undo goes to the one     *)
(* before it, redo to the one after it, and a fresh edit forgets the ones  *)
(* after it.  The editor's buffers implement this specification.           *)
(***************************************************************************)
EXTENDS Naturals, Sequences

CONSTANTS
    Doc,    \* the documents
    Limit   \* how many documents undo can go back through

VARIABLES
    past,      \* the documents undo returns to, the nearest last
    present,   \* the document being edited
    future,    \* the documents redo returns to, the nearest last
    base       \* <<>>, or <<d>>: d was present when the edits began that are
               \*   to become one undoable edit

vars == <<past, present, future, base>>

Latest(docs) == docs[Len(docs)]
Rest(docs)   == SubSeq(docs, 1, Len(docs) - 1)
Remember(docs, d) ==
    LET all == Append(docs, d)
    IN  IF Len(all) > Limit THEN SubSeq(all, Len(all) - Limit + 1, Len(all)) ELSE all

Init ==
    /\ past = <<>> /\ future = <<>> /\ base = <<>>
    /\ present \in Doc

(* New content for a document that has no history.                         *)
Replace ==
    /\ past = <<>> /\ future = <<>> /\ base = <<>>
    /\ present' \in Doc
    /\ UNCHANGED <<past, future, base>>

(* One edit that is undoable by itself, or that continues the last one:    *)
(* undo then goes back to before that one.                                 *)
Edit ==
    /\ base = <<>>
    /\ present' \in Doc
    /\ past' = Remember(past, present)
    /\ future' = <<>>
    /\ UNCHANGED base

Amend ==
    /\ base = <<>> /\ past # <<>> /\ future = <<>>
    /\ present' \in Doc
    /\ UNCHANGED <<past, future, base>>

(* An edit inside a group, and the group's end.                            *)
EditInGroup ==
    /\ present' \in Doc
    /\ base' = IF base = <<>> THEN <<present>> ELSE base
    /\ UNCHANGED <<past, future>>

CommitGroup ==
    /\ base # <<>>
    /\ \/ past' = Remember(past, base[1])
       \/ past # <<>> /\ future = <<>> /\ UNCHANGED past
    /\ future' = <<>>
    /\ base' = <<>>
    /\ UNCHANGED present

Undo ==
    /\ base = <<>> /\ past # <<>>
    /\ present' = Latest(past)
    /\ past' = Rest(past)
    /\ future' = Append(future, present)
    /\ UNCHANGED base

Redo ==
    /\ base = <<>> /\ future # <<>>
    /\ present' = Latest(future)
    /\ future' = Rest(future)
    /\ past' = Append(past, present)
    /\ UNCHANGED base

Next == Replace \/ Edit \/ Amend \/ EditInGroup \/ CommitGroup \/ Undo \/ Redo

Spec == Init /\ [][Next]_vars
=============================================================================
