---------------------------- MODULE TextObjects ----------------------------
(***************************************************************************)
(* What a text object covers (new/src/core/textobj.cpp): a word, a string  *)
(* or a bracketed text as a range of characters, its end excluded, a       *)
(* paragraph as a range of lines.  An object is its prefix, i (inner) or a *)
(* (around), and its key; it may not be there.                             *)
(***************************************************************************)
EXTENDS Motions

Found(s, e)         == [ok |-> TRUE, linewise |-> FALSE, start |-> s, end |-> e]
FoundLines(f, past) == [ok |-> TRUE, linewise |-> TRUE, start |-> At(f, 0), end |-> At(past, 0)]
NoObject            == [ok |-> FALSE, linewise |-> FALSE, start |-> At(0, 0), end |-> At(0, 0)]

(* The white run that starts at a column, or ends before it.               *)
WhiteEnd(text, col) ==
    Greatest({k \in col..Len(text) : \A j \in col..(k - 1) : text[j + 1] \in Whitespace})
WhiteStart(text, col) ==
    Least({k \in 0..col : \A j \in k..(col - 1) : text[j + 1] \in Whitespace})
DarkEnd(text, col) ==
    Greatest({k \in col..Len(text) : \A j \in col..(k - 1) : text[j + 1] \notin Whitespace})

(* iw and aw: the run under the cursor, with the white space after it or,  *)
(* if there is none, before it; from white space, with the word after it.  *)
WordObject(doc, p, around) ==
    LET text  == LineOf(doc, p.line)
        col   == Lesser(p.col, LastCol(text))
        start == RunStart(FALSE, text, col)
        end   == RunEnd(FALSE, text, col)
        white == Class(text[col + 1]) = "Whitespace"
        after == IF white THEN DarkEnd(text, end) ELSE WhiteEnd(text, end)
        range(s, e) == Found(At(p.line, s), At(p.line, e))
    IN  IF text = <<>> THEN NoObject
        ELSE IF ~around THEN range(start, end)
        ELSE IF after > end THEN range(start, after)
        ELSE IF white THEN NoObject
        ELSE range(WhiteStart(text, start), end)

(* ip and ap: the run of lines alike, with the blank lines after it or, if *)
(* there are none, before it.                                              *)
BlankLine(doc, l) == \A i \in 1..Len(LineOf(doc, l)) : LineOf(doc, l)[i] \in Blanks
ParaObject(doc, p, around) ==
    LET alike(f, g, blank) == \A m \in f..g : BlankLine(doc, m) = blank
        here   == BlankLine(doc, p.line)
        first  == Least({m \in 0..p.line : alike(m, p.line, here)})
        last   == Greatest({m \in p.line..LastLine(doc) : alike(p.line, m, here)})
        after  == Greatest({m \in last..LastLine(doc) : alike(last + 1, m, TRUE)})
        before == Least({m \in 0..first : alike(m, first - 1, TRUE)})
    IN  IF ~around THEN FoundLines(first, last + 1)
        ELSE IF after > last THEN FoundLines(first, after + 1)
        ELSE FoundLines(before, last + 1)

(* An around object takes the white space after it.                        *)
Around(doc, s, e) == Found(s, At(e.line, WhiteEnd(LineOf(doc, e.line), e.col)))
Delimited(doc, o, c, around) ==
    IF around THEN Around(doc, o, At(c.line, c.col + 1)) ELSE Found(At(o.line, o.col + 1), c)

(* Quotes pair up from the start of the line, two by two: the pair around  *)
(* the cursor, or the first one after it.                                  *)
QuoteObject(doc, p, quote, around) ==
    LET text  == LineOf(doc, p.line)
        col   == Lesser(p.col, LastCol(text))
        marks == {k \in 0..(Len(text) - 1) : text[k + 1] = quote}
        odd   == {k \in marks : Cardinality({j \in marks : j <= k}) % 2 = 1}
        next(k) == {j \in marks : j > k}
        opens == {k \in odd : next(k) # {}}
        close(k) == Least(next(k))
        held  == {k \in opens : k <= col /\ col <= close(k)}
        later == {k \in opens : k > col}
        open  == IF held # {} THEN Least(held) ELSE Least(later)
    IN  IF held \cup later = {} THEN NoObject
        ELSE Delimited(doc, At(p.line, open), At(p.line, close(open)), around)

(* The cell the cursor counts as being on: the document's first one when   *)
(* its line is empty.                                                      *)
CursorCell(doc, p) ==
    LET left == {q \in Cells(doc) : q.line = p.line /\ q.col <= p.col}
    IN  IF left = {} THEN Nearest(Cells(doc)) ELSE Farthest(left)

(* Brackets match across lines, with nesting: the pair the cursor is on,   *)
(* or the innermost one around it.                                         *)
BracketObjectNoNesting(doc, p, open, close, around) ==
    LET cur    == CursorCell(doc, p)
        opens  == {o \in Cells(doc) : CharAt(doc, o) = open /\ ~Before(cur, o)}
        closes(o) == {c \in Cells(doc) : CharAt(doc, c) = close /\ Before(o, c)}
        o      == Farthest(opens)
    IN  IF Cells(doc) = {} \/ opens = {} THEN NoObject
        ELSE IF closes(o) = {} THEN NoObject
        ELSE Delimited(doc, o, Nearest(closes(o)), around)
BracketObject(doc, p, open, close, around) ==
    LET cells  == Cells(doc)
        cur    == CursorCell(doc, p)
        num(ch, s, e) == Cardinality({q \in cells : /\ CharAt(doc, q) = ch
                                                     /\ Before(s, q) /\ Before(q, e)})
        pairs(s, e) == num(open, s, e) = num(close, s, e)
        opens  == {o \in cells : CharAt(doc, o) = open}
        closes == {c \in cells : CharAt(doc, c) = close}
        \* the bracket that closes o, and the one that c closes
        closing(o) == {c \in closes : Before(o, c) /\ pairs(o, c)}
        opening(c) == {o \in opens : Before(o, c) /\ pairs(o, c)}
        outer  == {o \in opens : Before(o, cur) /\ pairs(o, cur)}
        o      == IF CharAt(doc, cur) = open THEN {cur}
                  ELSE IF CharAt(doc, cur) = close
                    THEN IF opening(cur) = {} THEN {} ELSE {Farthest(opening(cur))}
                  ELSE IF outer = {} THEN {} ELSE {Farthest(outer)}
        c      == IF CharAt(doc, cur) = close THEN {cur}
                  ELSE UNION {IF closing(q) = {} THEN {} ELSE {Nearest(closing(q))} : q \in o}
    IN  IF cells = {} \/ o = {} \/ c = {} THEN NoObject
        ELSE Delimited(doc, Nearest(o), Nearest(c), around)

(* text_object_id and text_object_range.                                   *)
ObjectKeys == {"w", "p", "\"", "'", "(", "[", "{"}
TextObject(doc, p, prefix, key) ==
    LET around == prefix = "a"
    IN  CASE key = "w" -> WordObject(doc, p, around)
          [] key = "p" -> ParaObject(doc, p, around)
          [] key \in {"\"", "'"} -> QuoteObject(doc, p, key, around)
          [] key \in Openers -> BracketObject(doc, p, key, Partner(key), around)
=============================================================================
