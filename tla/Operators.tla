----------------------------- MODULE Operators -----------------------------
(***************************************************************************)
(* What an operator works on and what it does there                        *)
(* (new/src/core/operator.cpp), and the registers the text goes to         *)
(* (new/src/core/register.cpp).  An edit is an operator over a range of    *)
(* characters or of lines; the key sequences that compose one are in Keys. *)
(* A key sequence gives no edit or one, so each is a set.                  *)
(***************************************************************************)
EXTENDS TextObjects

CONSTANT TabWidth   \* k_default_tabwidth

OperatorIds == {"d", "y", "c", ">", "<", "=", "gU", "gu", "g~"}
CaseOps     == {"gU", "gu", "g~"}

(* The motions an operator takes: those that make it work on whole lines,  *)
(* and those whose last character belongs to the range.                    *)
LinewiseMotions  == {"j", "k", "G"}
InclusiveMotions == {"$", "e", "E", "%", "f", "t"}
OperatorMotions  ==
    {"h", "l", "j", "k", "0", "^", "$", "w", "W", "b", "B", "e", "E", "G", "{", "}", "%"}

LinesEdit(op, first, past) ==
    [op |-> op, linewise |-> TRUE, start |-> At(first, 0), end |-> At(past, 0),
     lines |-> past - first, keep |-> FALSE]
CharsEdit(op, s, e) ==
    [op |-> op, linewise |-> FALSE, start |-> s, end |-> e, lines |-> 0, keep |-> FALSE]

(* One past a position in its line; past the line's end, the next line,    *)
(* which may be one more than there are.                                   *)
AfterCp(doc, p) ==
    IF p.col + 1 <= Len(LineOf(doc, p.line)) THEN At(p.line, p.col + 1)
    ELSE At(Lesser(p.line + 1, Len(doc)), 0)

(* From the cursor to where the motion lands, either way.  A motion from   *)
(* the start of one line to the start of another works on whole lines.     *)
SpanEdit(doc, op, from, to, inclusive) ==
    LET span == {from.line, to.line}
    IN  IF ~inclusive /\ from.col = 0 /\ to.col = 0 /\ from.line # to.line
          THEN LinesEdit(op, Least(span), Greatest(span))
        ELSE IF Before(to, from) THEN CharsEdit(op, to, from)
        ELSE CharsEdit(op, from, IF inclusive THEN AfterCp(doc, to) ELSE to)

(* cw on a character that is not white works like ce.                      *)
ChangeWord(doc, op, id, from) ==
    LET text == LineOf(doc, from.line)
    IN  IF /\ op = "c" /\ id \in {"w", "W"}
           /\ from.col < Len(text) /\ text[from.col + 1] \notin Whitespace
          THEN IF id = "w" THEN "e" ELSE "E"
          ELSE id

MotionEdits(doc, op, key, from, count) ==
    LET id == ChangeWord(doc, op, key, from)
        r  == Motion(doc, id, from, count, from.col)
        span == {from.line, r.pos.line}
        e  == IF id \in LinewiseMotions THEN LinesEdit(op, Least(span), Greatest(span) + 1)
              ELSE SpanEdit(doc, op, from, r.pos, id \in InclusiveMotions)
    IN  IF \/ ~r.ok
           \/ r.pos = from /\ ~(id \in InclusiveMotions /\ from.col < Len(LineOf(doc, from.line)))
           \/ e.start = e.end
          THEN {} ELSE {e}

FindEdits(doc, op, id, ch, from, count) ==
    LET r == Find(doc, id, ch, from, count)
    IN  IF ~r.ok \/ r.pos = from THEN {}
        ELSE {SpanEdit(doc, op, from, r.pos, id \in InclusiveMotions)}

(* With gg the count is the number of a line.                              *)
GotoFirstEdits(doc, op, from, count) ==
    LET span == {from.line, Motion(doc, "gg", from, count, from.col).pos.line}
    IN  {LinesEdit(op, Least(span), Greatest(span) + 1)}

(* dd, yy, cc, >>, <<, ==, gUU, gUgU and so on: lines from the cursor on.  *)
DoubledEdits(doc, op, from, count) ==
    {[LinesEdit(op, from.line, Lesser(from.line + count, Len(doc))) EXCEPT !.keep = op = "c"]}

ObjectEdits(doc, op, prefix, key, from) ==
    LET r == TextObject(doc, from, prefix, key)
    IN  IF ~r.ok \/ r.start = r.end THEN {}
        ELSE IF r.linewise
          THEN {[LinesEdit(op, r.start.line, r.end.line) EXCEPT !.keep = op = "c"]}
        ELSE {CharsEdit(op, r.start, r.end)}

-----------------------------------------------------------------------------
(* The lines an edit touches, first and last.                              *)
AffectedLines(doc, e) ==
    LET first == Lesser(e.start.line, LastLine(doc))
        end   == Lesser(e.end.line, LastLine(doc))
        n     == IF e.lines = 0 THEN 1 ELSE e.lines
    IN  <<first,
          IF e.linewise THEN Lesser(first + n - 1, LastLine(doc))
          ELSE IF e.end.col = 0 /\ e.end.line > e.start.line /\ end > first THEN end - 1
          ELSE end>>
Affected(doc, e) ==
    SubSeq(doc, AffectedLines(doc, e)[1] + 1, AffectedLines(doc, e)[2] + 1)

(* A range cut out of a document: the text before it on its first line,    *)
(* and after it on its last, if it is on a line.                           *)
HeadOf(doc, e) == Upto(LineOf(doc, e.start.line), e.start.col)
TailOf(doc, e) ==
    IF e.end.line >= Len(doc) THEN <<>>
    ELSE From(LineOf(doc, e.end.line), CpToByte(LineOf(doc, e.end.line), e.end.col))
SpannedLines(doc, e) == SubSeq(doc, e.start.line + 1, Lesser(e.end.line + 1, Len(doc)))

NoText == [lines |-> <<>>, linewise |-> FALSE]
Text(ls, linewise) == [lines |-> ls, linewise |-> linewise]

(* extract_register: the text an edit covers.                              *)
ExtractRegisterWhole(doc, e) ==
    LET spanned == SpannedLines(doc, e)
        first   == From(spanned[1], e.start.col)
        last    == LineOf(doc, e.end.line)
        one     == SubSeq(LineOf(doc, e.start.line), e.start.col + 1, e.end.col)
    IN  IF e.linewise THEN Text(Affected(doc, e), TRUE)
        ELSE IF e.start.line = e.end.line THEN Text(<<one>>, FALSE)
        ELSE IF e.end.line >= Len(doc) THEN Text(<<first>> \o Tail(spanned), FALSE)
        ELSE Text(<<first>> \o Tail(Initial(spanned)) \o <<last>>, FALSE)
ExtractRegister(doc, e) ==
    LET spanned == SpannedLines(doc, e)
        first   == From(spanned[1], e.start.col)
        last    == Upto(LineOf(doc, e.end.line), e.end.col)
        one     == SubSeq(LineOf(doc, e.start.line), e.start.col + 1, e.end.col)
    IN  IF e.linewise THEN Text(Affected(doc, e), TRUE)
        ELSE IF e.start.line = e.end.line THEN Text(<<one>>, FALSE)
        ELSE IF e.end.line >= Len(doc) THEN Text(<<first>> \o Tail(spanned), FALSE)
        ELSE Text(<<first>> \o Tail(Initial(spanned)) \o <<last>>, FALSE)

(* indent_prefix: the leading blanks of a line.                            *)
IndentLen(text) ==
    Greatest({k \in 0..Len(text) : \A j \in 1..k : text[j] \in Blanks})
IndentOf(text) == Upto(text, IndentLen(text))
BodyOf(text)   == From(text, IndentLen(text))

(* d and c: the lines go, or all of them but the indent of the first, or   *)
(* the characters go and the ends join.                                    *)
EraseLines(doc, e) ==
    LET first  == AffectedLines(doc, e)[1]
        last   == AffectedLines(doc, e)[2]
        old    == Affected(doc, e)
        indent == IndentOf(old[1])
        all    == Len(old) = Len(doc)
        new    == IF e.keep THEN <<indent>> ELSE IF all THEN <<<<>>>> ELSE <<>>
        after  == IF e.keep THEN At(first, Len(indent))
                  ELSE IF all THEN At(0, 0)
                  ELSE IF last < LastLine(doc) THEN At(first, IndentLen(LineOf(doc, last + 1)))
                  ELSE At(first - 1, IndentLen(LineOf(doc, first - 1)))
    IN  TextChange("Bulk", first, old, new, e.start, after)
EraseChars(doc, e) ==
    TextChange("Bulk", e.start.line, SpannedLines(doc, e), <<HeadOf(doc, e) \o TailOf(doc, e)>>,
               e.start, e.start)
EraseChange(doc, e) == IF e.linewise THEN EraseLines(doc, e) ELSE EraseChars(doc, e)

(* The lines an edit touches, rewritten, and the cursor on the indent.     *)
Rewritten(doc, e, new) ==
    TextChange("Bulk", AffectedLines(doc, e)[1], Affected(doc, e), new, e.start,
               At(AffectedLines(doc, e)[1], IndentLen(new[1])))

(* The document's own indentation: that of the first line that has one.    *)
IndentUnit(doc) ==
    LET indented == {l \in 1..Len(doc) : doc[l] # <<>> /\ doc[l][1] \in Blanks}
    IN  IF indented # {} /\ doc[Least(indented)][1] = "tab" THEN <<"tab">>
        ELSE [k \in 1..TabWidth |-> Blank]

ShiftLeftOne(text, width) ==
    IF text # <<>> /\ text[1] = "tab" THEN Tail(text)
    ELSE From(text, Greatest({k \in 0..Lesser(width, Len(text)) :
                                  \A j \in 1..k : text[j] = Blank}))
ShiftChange(doc, e, left) ==
    LET unit == IndentUnit(doc)
        old  == Affected(doc, e)
    IN  Rewritten(doc, e, [i \in DOMAIN old |->
            IF left THEN ShiftLeftOne(old[i], Len(unit)) ELSE unit \o old[i]])

(* =: each line is indented by the brackets open before it.                *)
NetDepth(text) ==
    LET num(set) == Cardinality({i \in DOMAIN text : text[i] \in set})
    IN  num(Openers) - num(Closers)
NotBelow0(n) == IF n < 0 THEN 0 ELSE n
IndentChange(doc, e) ==
    LET first == AffectedLines(doc, e)[1]
        old   == Affected(doc, e)
        unit  == IndentUnit(doc)
        above[i \in 0..first] == IF i = 0 THEN 0 ELSE above[i - 1] + NetDepth(doc[i])
        depth[i \in 0..Len(old)] == IF i = 0 THEN NotBelow0(above[first])
                                    ELSE NotBelow0(depth[i - 1] + NetDepth(BodyOf(old[i])))
        level(i) == IF BodyOf(old[i]) # <<>> /\ BodyOf(old[i])[1] \in Closers
                      THEN NotBelow0(depth[i - 1] - 1) ELSE depth[i - 1]
        indent(n) == [k \in 1..(n * Len(unit)) |-> unit[1]]
    IN  Rewritten(doc, e, [i \in DOMAIN old |-> indent(level(i)) \o BodyOf(old[i])])

(* gU, gu, g~ over the characters of the range.                            *)
ToUpper == [a |-> "A", b |-> "B"]
ToLower == [A |-> "a", B |-> "b"]
Recased(op, ch) ==
    IF ch \in DOMAIN ToUpper /\ op # "gu" THEN ToUpper[ch]
    ELSE IF ch \in DOMAIN ToLower /\ op # "gU" THEN ToLower[ch] ELSE ch
CaseChange(doc, e) ==
    LET first == AffectedLines(doc, e)[1]
        old   == Affected(doc, e)
        inRange(l, k) == \/ e.linewise
                         \/ /\ l = e.start.line => k > e.start.col
                            /\ l = e.end.line => k <= e.end.col
    IN  TextChange("Bulk", first, old,
            [i \in DOMAIN old |-> [k \in DOMAIN old[i] |->
                IF inRange(first + i - 1, k) THEN Recased(e.op, old[i][k]) ELSE old[i][k]]],
            e.start, e.start)

(* plan_edit: the change an edit makes, for all operators but y.           *)
PlanChange(doc, e) ==
    CASE e.op \in {"d", "c"} -> EraseChange(doc, e)
      [] e.op = ">" -> ShiftChange(doc, e, FALSE)
      [] e.op = "<" -> ShiftChange(doc, e, TRUE)
      [] e.op = "=" -> IndentChange(doc, e)
      [] e.op \in CaseOps -> CaseChange(doc, e)

(* Where y leaves the cursor: at the start, but in its column for lines.   *)
YankCursor(e, cursor) == At(e.start.line, IF e.linewise THEN cursor.col ELSE e.start.col)

-----------------------------------------------------------------------------
(* RegisterBank: every write reaches the unnamed register, "" here; a      *)
(* capital letter appends, and the unnamed register gets the whole.        *)
Slot == [a |-> "a", A |-> "a"]
NoRegisters == [n \in {"", "a"} |-> NoText]
Appended(old, new) ==
    Text(IF old.linewise \/ new.linewise THEN old.lines \o new.lines
         ELSE Initial(old.lines) \o <<Final(old.lines) \o new.lines[1]>> \o Tail(new.lines),
         old.linewise \/ new.linewise)
SetRegister(bank, name, value) ==
    IF name \notin DOMAIN Slot THEN [bank EXCEPT ![""] = value]
    ELSE LET old == bank[Slot[name]]
             new == IF name = "A" /\ old # NoText THEN Appended(old, value) ELSE value
         IN  [bank EXCEPT ![""] = new, ![Slot[name]] = new]
=============================================================================
