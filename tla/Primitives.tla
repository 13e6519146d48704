----------------------------- MODULE Primitives -----------------------------
(***************************************************************************)
(* The changes that the edit primitives of a buffer build from a document  *)
(* and a position (new/src/core/buffer.cpp).  A line is a sequence of code *)
(* points, so the conversions between columns and UTF-8 bytes (cp_to_byte, *)
(* byte_to_cp) become indices; a column beyond the line's end is clamped,  *)
(* as cp_to_byte does.                                                     *)
(***************************************************************************)
EXTENDS UndoStack

CONSTANT Blank   \* the blank that indents, and that smart join collapses

At(line, col) == [line |-> line, col |-> col]
Lesser(a, b) == IF a < b THEN a ELSE b
Before(p, q) == p.line < q.line \/ (p.line = q.line /\ p.col < q.col)

(* clamp_line and cp_to_byte.                                              *)
ClampLine(doc, line) == Lesser(line, Len(doc) - 1)
LineOf(doc, line)    == doc[line + 1]
CpToByte(text, col)  == Lesser(col, Len(text))
Upto(text, at)       == SubSeq(text, 1, at)
From(text, at)       == SubSeq(text, at + 1, Len(text))

-----------------------------------------------------------------------------
InsertCharHint(doc, p, cp) ==
    LET l  == ClampLine(doc, p.line)
        b  == LineOf(doc, l)
        at == CpToByte(b, p.col)
    IN  TextChange("InsertChar", l, <<b>>, <<Upto(b, at) \o <<cp>> \o From(b, at)>>,
                   At(l, p.col + 1), At(l, p.col + 2))
InsertCharLater(doc, p, cp) ==
    LET l  == ClampLine(doc, p.line)
        b  == LineOf(doc, l)
        at == CpToByte(b, p.col + 1)
    IN  TextChange("InsertChar", l, <<b>>, <<Upto(b, at) \o <<cp>> \o From(b, at)>>,
                   At(l, p.col), At(l, p.col + 1))
InsertCharChange(doc, p, cp) ==
    LET l  == ClampLine(doc, p.line)
        b  == LineOf(doc, l)
        at == CpToByte(b, p.col)
    IN  TextChange("InsertChar", l, <<b>>, <<Upto(b, at) \o <<cp>> \o From(b, at)>>,
                   At(l, p.col), At(l, p.col + 1))

(* The old tail of the line is kept only when the text had a newline.      *)
InsertTextChange(doc, p, segs) ==
    LET l    == ClampLine(doc, p.line)
        b    == LineOf(doc, l)
        at   == CpToByte(b, p.col)
        n    == Len(segs)
        new  == [i \in 1..n |-> (IF i = 1 THEN Upto(b, at) ELSE <<>>)
                                  \o segs[i]
                                  \o (IF i = n /\ n > 1 THEN From(b, at) ELSE <<>>)]
        past == IF n = 1 THEN At(l, at + Len(segs[1])) ELSE At(l + n - 1, Len(segs[n]))
    IN  TextChange("Bulk", l, <<b>>, new, At(l, at), past)

(* cur_after is never set and keeps its default, (0, 0).                   *)
EraseCharChange(doc, p) ==
    LET l  == ClampLine(doc, p.line)
        b  == LineOf(doc, l)
        at == CpToByte(b, p.col)
    IN  TextChange("EraseChar", l, <<b>>, <<Upto(b, at) \o From(b, at + 1)>>,
                   At(l, p.col), At(0, 0))

(* Within one line the tail is kept only when the range is not empty.      *)
EraseRangeChange(doc, s, e) ==
    LET sl   == ClampLine(doc, s.line)
        el   == ClampLine(doc, e.line)
        sAt  == CpToByte(LineOf(doc, sl), s.col)
        eAt  == CpToByte(LineOf(doc, el), e.col)
        tail == IF el # sl \/ eAt > sAt THEN From(LineOf(doc, el), eAt) ELSE <<>>
    IN  TextChange("Bulk", sl, SubSeq(doc, sl + 1, el + 1),
                   <<Upto(LineOf(doc, sl), sAt) \o tail>>, At(sl, s.col), At(sl, s.col))

InsertNewlineChange(doc, p) ==
    LET l  == ClampLine(doc, p.line)
        b  == LineOf(doc, l)
        at == CpToByte(b, p.col)
    IN  TextChange("Bulk", l, <<b>>, <<Upto(b, at), From(b, at)>>,
                   At(l, p.col), At(l + 1, 0))

(* How much of a line is left when its trailing blanks go, and where its   *)
(* first non-blank stands.                                                 *)
TrimmedLen(text) ==
    LET nonBlank == {i \in 1..Len(text) : text[i] # Blank}
    IN  IF nonBlank = {} THEN 0 ELSE CHOOSE i \in nonBlank : \A j \in nonBlank : j <= i
Indent(text) ==
    LET nonBlank == {i \in 1..Len(text) : text[i] # Blank}
    IN  IF nonBlank = {} THEN Len(text)
        ELSE (CHOOSE i \in nonBlank : \A j \in nonBlank : i <= j) - 1

JoinKeep(a, smart) == IF smart THEN TrimmedLen(a) ELSE Len(a)
JoinChange(doc, l, smart) ==
    LET a     == LineOf(doc, l)
        b     == LineOf(doc, l + 1)
        left  == Upto(a, JoinKeep(a, smart))
        right == From(b, IF smart THEN Indent(b) ELSE 0)
        seam  == IF smart /\ left # <<>> /\ right # <<>> THEN <<Blank>> ELSE <<>>
    IN  TextChange("Bulk", l, <<a, b>>, <<left \o seam \o right>>, At(l, Len(a)), At(0, 0))
=============================================================================
