------------------------------- MODULE Editor -------------------------------
(***************************************************************************)
(* The reducer of the rewrite (new/src/app/reducer.cpp): the one path      *)
(* through which every command changes the document, the cursor, the mode, *)
(* the registers and the view, and the render that follows each command    *)
(* (new/src/app/app.cpp).  One action per command; count is the count      *)
(* prefix the command consumed (see Keys for how keys become commands and  *)
(* counts).  There is one buffer and one window, as the program has today. *)
(***************************************************************************)
EXTENDS LineHistory, Viewport

CONSTANTS
    Typed,      \* bound: the characters that are typed
    Targets,    \* bound: the characters that f, F, t and T look for
    Heights,    \* bound: the heights a terminal gives the window; 0 is one of
                \*   three rows or less
    SpanOps,    \* bound: the operators that take a motion or an object; the
                \*   doubled forms are of every operator
    MaxCount,   \* bound: the largest count prefix; x apart it is 1 after
                \*   MaxSpans edits and yanks
    MaxEdits,   \* bound: no command is given after this many edits and yanks,
                \*   but one more undo or redo
    MaxSpans,   \* bound: no operator takes a motion or an object after this
                \*   many edits and yanks
    MaxLen,     \* bound: no insertion into a document with this many code
                \*   points and line ends
    ScreenCols  \* bound: the columns of the terminal

ASSUME EditorAssumption ==
    /\ Blank \in Char /\ Typed \subseteq Char /\ Targets \subseteq Char
    /\ SpanOps \subseteq OperatorIds
    /\ \A ch \in Char, op \in CaseOps : Recased(op, ch) \in Char
    /\ Heights \subseteq Nat /\ TabWidth \in Nat \ {0} /\ Blank \notin WideChars
    /\ {MaxCount, MaxEdits, MaxSpans, MaxLen, ScreenCols} \subseteq Nat

VARIABLES
    mode,       \* EditorState::mode
    cursor,     \* WindowState::cursor
    desired,    \* WindowState::desired_col, the column that j and k aim at
    registers,  \* EditorState::registers
    top,        \* WindowState::top_line
    rows,       \* WindowState::view_rows
    screen,     \* the terminal: what was drawn last, and where its cursor is
    yanks       \* how many yanks there were: only a bound

vars == <<lines, undo, redo, revision, past, future, mode, cursor, desired, registers, top, rows,
          screen, yanks>>
windowVars == <<registers, rows, yanks>>

Modes == {"Normal", "Insert"}

CursorLine == LineOf(lines, cursor.line)

Size(doc) ==
    LET upto[i \in 0..Len(doc)] == IF i = 0 THEN 0 ELSE upto[i - 1] + Len(doc[i]) + 1
    IN  upto[Len(doc)]
Budget == revision + yanks < MaxEdits
Early  == revision + yanks < MaxSpans
ToUndo == revision + yanks <= MaxEdits
Counts == IF Early THEN 1..MaxCount ELSE {1}
Room   == Budget /\ Size(lines) < MaxLen

-----------------------------------------------------------------------------
(* The changes the reducer builds itself.                                  *)

(* Enter copies the line's whole indent, wherever in the line it splits.   *)
EnterChange(doc, p) ==
    LET b == LineOf(doc, p.line)
        i == IndentLen(b)
    IN  TextChange("InsertChar", p.line, <<b>>,
                   <<Upto(b, p.col), Upto(b, i) \o From(b, p.col)>>, p, At(p.line + 1, i))

SplitChange(doc, p) ==
    LET b == LineOf(doc, p.line)
    IN  TextChange("InsertChar", p.line, <<b>>, <<Upto(b, p.col), From(b, p.col)>>,
                   p, At(p.line + 1, 0))

EraseLeftChange(doc, p) ==
    LET b == LineOf(doc, p.line)
    IN  TextChange("EraseChar", p.line, <<b>>, <<Upto(b, p.col - 1) \o From(b, p.col)>>,
                   p, At(p.line, p.col - 1))

JoinUpChange(doc, p) ==
    LET a == LineOf(doc, p.line - 1)
        b == LineOf(doc, p.line)
    IN  TextChange("EraseChar", p.line - 1, <<a, b>>, <<a \o b>>, p, At(p.line - 1, Len(a)))

(* x with a count, within the line.                                        *)
DeleteCharChange(doc, p, count) ==
    LET b    == LineOf(doc, p.line)
        col  == Lesser(p.col, LastCol(b))
        span == Lesser(count, Len(b) - col)
        left == Upto(b, col) \o From(b, col + span)
    IN  TextChange("EraseChar", p.line, <<b>>, <<left>>, At(p.line, col),
                   At(p.line, Lesser(col, LastCol(left))))

-----------------------------------------------------------------------------
(* What render draws of a document; no command scrolls sideways, so the    *)
(* window's left_col stays 0.                                              *)
Drawn(doc, t, p, height) ==
    [frame |-> Frame(doc, t, p, height, 0, ScreenCols), place |-> PlaceCursor(doc, t, p, 0)]

Init ==
    /\ HistInit
    /\ mode = "Normal"
    /\ cursor = At(0, 0) /\ desired = 0
    /\ registers = NoRegisters
    /\ top = 0 /\ rows \in Heights
    /\ screen = Drawn(lines, 0, cursor, rows)
    /\ yanks = 0

(* render_if_dirty runs before the next key: the view follows the cursor,  *)
(* in a terminal that has a row for the text, and is drawn.                *)
Follow(t) ==
    /\ top' = IF rows' = 0 THEN t ELSE FollowTop(Len(lines'), rows', cursor'.line, t)
    /\ screen' = Drawn(lines', top', cursor', rows')

(* record_change and apply_edit: one group, one change, and the cursor     *)
(* where the change says; sync_desired re-anchors the aim.                 *)
Edit(c, tag) ==
    /\ Record(c, tag)
    /\ cursor' = c.after
    /\ desired' = c.after.col
    /\ UNCHANGED windowVars
    /\ Follow(top)

InsertChar(ch) ==
    /\ Room /\ mode = "Insert"
    /\ Edit(InsertCharChange(lines, cursor, ch), "InsertChar")
    /\ UNCHANGED mode

InsertNewline ==
    /\ Room /\ mode = "Insert"
    /\ Edit(EnterChange(lines, cursor), "InsertChar")
    /\ UNCHANGED mode

(* A newline inside a bracketed paste.                                     *)
SplitLine ==
    /\ Room /\ mode = "Insert"
    /\ Edit(SplitChange(lines, cursor), "InsertChar")
    /\ UNCHANGED mode

(* Backspace: to the left in the line, or joining it to the one above.     *)
EraseChar ==
    /\ Budget /\ mode = "Insert"
    /\ \/ cursor.col > 0 /\ Edit(EraseLeftChange(lines, cursor), "EraseChar")
       \/ /\ cursor.col = 0 /\ cursor.line > 0
          /\ Edit(JoinUpChange(lines, cursor), "EraseChar")
    /\ UNCHANGED mode

EnterInsert(atEol) ==
    /\ Budget /\ mode = "Normal"
    /\ mode' = "Insert"
    /\ cursor' = IF atEol THEN At(cursor.line, Len(CursorLine)) ELSE cursor
    /\ desired' = cursor'.col
    /\ UNCHANGED histVars /\ UNCHANGED windowVars
    /\ Follow(top)

LeaveInsertUnguarded ==
    /\ Budget /\ mode = "Insert"
    /\ mode' = "Normal"
    /\ LET l == ClampLine(lines, cursor.line)
       IN  cursor' = At(l, CpToByte(LineOf(lines, l), IF cursor.col > 0 THEN cursor.col - 1 ELSE 0))
    /\ desired' = cursor.col - 1
    /\ UNCHANGED histVars /\ UNCHANGED windowVars
    /\ Follow(top)
(* Esc backs the cursor one column, and clamp_cursor keeps it on the grid. *)
LeaveInsert ==
    /\ Budget /\ mode = "Insert"
    /\ mode' = "Normal"
    /\ LET col == IF cursor.col > 0 THEN cursor.col - 1 ELSE 0
           l   == ClampLine(lines, cursor.line)
       IN  cursor' = At(l, CpToByte(LineOf(lines, l), col))
    /\ desired' = cursor'.col
    /\ UNCHANGED histVars /\ UNCHANGED windowVars
    /\ Follow(top)

DeleteChar(count) ==
    /\ Budget /\ mode = "Normal"
    /\ CursorLine # <<>>
    /\ Edit(DeleteCharChange(lines, cursor, count), "EraseChar")
    /\ UNCHANGED mode

-----------------------------------------------------------------------------
(* apply_operator.  y keeps the text; every other operator records its     *)
(* change.  The cursor then comes to rest on a character of the new        *)
(* document, unless the operator enters insert mode.                       *)
Yank(e, name) ==
    /\ registers' = SetRegister(registers, name, ExtractRegister(lines, e))
    /\ cursor' = OnChar(lines, YankCursor(e, cursor))
    /\ desired' = cursor'.col
    /\ yanks' = yanks + 1
    /\ UNCHANGED histVars /\ UNCHANGED <<mode, rows>>
    /\ Follow(top)
Rewrite(e, name) ==
    LET c == PlanChange(lines, e)
    IN  /\ Record(c, "Bulk")
        /\ registers' = IF e.op \in {"d", "c"}
                          THEN SetRegister(registers, name, ExtractRegister(lines, e))
                          ELSE registers
        /\ mode' = IF e.op = "c" THEN "Insert" ELSE "Normal"
        /\ cursor' = IF e.op = "c" THEN c.after ELSE OnChar(lines', c.after)
        /\ desired' = cursor'.col
        /\ UNCHANGED <<rows, yanks>>
        /\ Follow(top)
ApplyOperator(e, name) ==
    /\ Budget /\ mode = "Normal"
    /\ IF e.op = "y" THEN Yank(e, name) ELSE Rewrite(e, name)

OperateOverMotion(op, count) ==
    Early /\ \E key \in OperatorMotions :
        \E e \in MotionEdits(lines, op, key, cursor, count) : ApplyOperator(e, "")
OperateOverFind(op, count) ==
    Early /\ \E id \in {"f", "F", "t", "T"}, ch \in Targets :
        \E e \in FindEdits(lines, op, id, ch, cursor, count) : ApplyOperator(e, "")
OperateToFirst(op, count) ==
    Early /\ \E e \in GotoFirstEdits(lines, op, cursor, count) : ApplyOperator(e, "")
OperateOnObject(op) ==
    Early /\ \E prefix \in {"i", "a"}, key \in ObjectKeys :
        \E e \in ObjectEdits(lines, op, prefix, key, cursor) : ApplyOperator(e, "")

(* The doubled operator; a register is named only here, to bound the runs, *)
(* and only for the operators that write one.                              *)
Names(op) == IF op \in {"d", "y", "c"} THEN {"", "a", "A"} ELSE {""}
OperateOnLines(op, count) ==
    \E name \in Names(op) :
        \E e \in DoubledEdits(lines, op, cursor, count) : ApplyOperator(e, name)

-----------------------------------------------------------------------------
(* The cursor goes to the unit's hint; the aim stays.                      *)
Undo ==
    /\ ToUndo /\ mode = "Normal"
    /\ UndoUnit
    /\ cursor' = Final(undo).before
    /\ UNCHANGED <<mode, desired>> /\ UNCHANGED windowVars
    /\ Follow(top)

Redo ==
    /\ ToUndo /\ mode = "Normal"
    /\ RedoUnit
    /\ cursor' = Final(redo).after
    /\ UNCHANGED <<mode, desired>> /\ UNCHANGED windowVars
    /\ Follow(top)

(* The motions: those of insert mode are the arrows.  The vertical ones    *)
(* keep the aim; $ aims right of every line, wherever it lands.            *)
KeepAim == {"j", "k", "gg", "G", "n%"}
MotionIds == OperatorMotions \cup {"gg", "n%"}
MoveTo(p, aim) ==
    /\ Budget
    /\ cursor' = p
    /\ desired' = aim
    /\ UNCHANGED histVars /\ UNCHANGED mode /\ UNCHANGED windowVars
    /\ Follow(top)
Move(id, count) ==
    LET r == Motion(lines, id, cursor, count, desired)
    IN  /\ mode = "Insert" => id \in {"h", "j", "k", "l"} /\ count = 1
        /\ r.ok
        /\ MoveTo(r.pos, IF id = "$" THEN KMaxCol ELSE IF id \in KeepAim THEN desired ELSE r.pos.col)

(* f, F, t, T, and ; and , which repeat the one that was last.             *)
MoveToFound(id, ch, count) ==
    LET r == Find(lines, id, ch, cursor, count)
    IN  /\ mode = "Normal"
        /\ r.ok
        /\ MoveTo(r.pos, r.pos.col)

(* The scroll commands carry the aim, and rest on a character.             *)
Scroll(id, count, counted) ==
    LET r == ApplyScroll(Len(lines), rows, id, cursor.line, top, count, counted)
    IN  /\ Budget /\ mode = "Normal"
        /\ counted \/ count = 1
        /\ cursor' = OnChar(lines, At(r.line, desired))
        /\ UNCHANGED histVars /\ UNCHANGED <<mode, desired>> /\ UNCHANGED windowVars
        /\ Follow(r.top)

(* The terminal changes its size: on_resize clamps and follows at once.    *)
Resize ==
    /\ Budget
    /\ rows' \in Heights \ {rows}
    /\ cursor' = At(ClampLine(lines, cursor.line),
                    CpToByte(LineOf(lines, ClampLine(lines, cursor.line)), cursor.col))
    /\ UNCHANGED histVars /\ UNCHANGED <<mode, desired, registers, yanks>>
    /\ Follow(top)

Next ==
    \/ \E c \in Typed : InsertChar(c)
    \/ InsertNewline
    \/ SplitLine
    \/ EraseChar
    \/ \E atEol \in BOOLEAN : EnterInsert(atEol)
    \/ LeaveInsert
    \/ \E n \in 1..MaxCount : DeleteChar(n)
    \/ \E op \in SpanOps, n \in 1..MaxCount :
          \/ OperateOverMotion(op, n)
          \/ OperateOverFind(op, n)
          \/ OperateToFirst(op, n)
    \/ \E op \in SpanOps : OperateOnObject(op)
    \/ \E op \in OperatorIds, n \in Counts : OperateOnLines(op, n)
    \/ Undo
    \/ Redo
    \/ \E id \in MotionIds, n \in Counts : Move(id, n)
    \/ \E id \in {"f", "F", "t", "T"}, ch \in Targets, n \in Counts : MoveToFound(id, ch, n)
    \/ \E id \in ScrollIds, n \in Counts, counted \in BOOLEAN : Scroll(id, n, counted)
    \/ Resize

Spec == Init /\ [][Next]_vars
-----------------------------------------------------------------------------
(* What a register may hold: nothing, or a text of one line at least.      *)
Kept      == [lines : Doc, linewise : BOOLEAN]
Registers == [{"", "a"} -> Kept \cup {NoText}]

TypeOK ==
    /\ lines \in Doc
    /\ undo \in Seq(Change) /\ redo \in Seq(Change)
    /\ past \in Seq(Doc) /\ future \in Seq(Doc)
    /\ mode \in Modes
    /\ cursor \in Pos /\ desired \in Nat
    /\ registers \in Registers
    /\ top \in Nat /\ rows \in Heights

(* The document as it was opened: what is said of every position and of    *)
(* every command at once is said there.                                    *)
Opened == revision + yanks = 0

(* The cursor that a scroll command asks for is in the view it asks for.   *)
ScrollsAsAsked ==
    \A id \in ScrollIds, n \in 1..Len(lines) + 1, counted \in BOOLEAN :
        LET r == ApplyScroll(Len(lines), rows, id, cursor.line, top, n, counted)
        IN  (counted \/ n = 1) =>
                /\ r.line \in 0..LastLine(lines)
                /\ FollowTop(Len(lines), rows, r.line, r.top) = r.top

(* After every command the cursor is a position of the document, on a row  *)
(* of the window, if it has one: neither a motion's aim, an operator's     *)
(* range, an undo's hint, a scroll nor a resize takes it off the text or   *)
(* off the screen.  And a scroll gets the view that it asks for: the       *)
(* render that follows does not move it again (core/view.hpp, "The cursor  *)
(* line always stays inside the view").                                    *)
CursorOnScreen ==
    /\ InGrid(lines, cursor)
    /\ rows > 0 => /\ top <= cursor.line /\ cursor.line < top + rows
                   /\ Opened => ScrollsAsAsked

(* A text of one line or more put into a document at a position.           *)
PutBack(doc, p, text) ==
    LET b == LineOf(doc, p.line)
        n == Len(text)
    IN  Upto(doc, p.line)
          \o [i \in 1..n |-> (IF i = 1 THEN Upto(b, p.col) ELSE <<>>) \o text[i]
                               \o (IF i = n THEN From(b, p.col) ELSE <<>>)]
          \o From(doc, p.line + 1)
(* The edits that an operator has at the cursor.                           *)
EditsHere(op) ==
    (UNION {MotionEdits(lines, op, key, cursor, n) : key \in OperatorMotions, n \in 1..2})
    \cup (UNION {FindEdits(lines, op, id, ch, cursor, 1) :
                    id \in {"f", "F", "t", "T"}, ch \in Targets})
    \cup (UNION {ObjectEdits(lines, op, prefix, key, cursor) :
                    prefix \in {"i", "a"}, key \in ObjectKeys})
    \cup (UNION {DoubledEdits(lines, op, cursor, n) : n \in 1..2})
KeepsErased ==
    \A op \in {"d", "c"} : \A e \in EditsHere(op) :
        LET text == ExtractRegister(lines, e).lines
            left == Apply(lines, EraseChange(lines, e))
            at   == AffectedLines(lines, e)[1]
            gone == IF e.keep \/ Len(text) = Len(lines) THEN 1 ELSE 0
        IN  IF e.linewise
              THEN Upto(left, at) \o text \o From(left, at + gone) = lines
            ELSE PutBack(left, e.start, text) = lines

(* What d and c take away is what they put in the register: with it back   *)
(* in its place the text is whole again (extract_register and plan_edit    *)
(* read the same range, each in its own way).                              *)
ErasedIsKept == Opened /\ mode = "Normal" => KeepsErased

(* The starts of the words, with the empty lines, and the ends.            *)
WordStops(doc, big) ==
    {p \in NonBlank(doc, big) :
        p.col = 0 \/ ~SameRun(big, CharAt(doc, p), CharAt(doc, At(p.line, p.col - 1)))}
    \cup {At(l, 0) : l \in EmptyLines(doc)}
WordEnds(doc, big) ==
    {p \in NonBlank(doc, big) :
        \/ p.col = LastCol(LineOf(doc, p.line))
        \/ ~SameRun(big, CharAt(doc, p), CharAt(doc, At(p.line, p.col + 1)))}
MissesNoStop ==
    \A big \in BOOLEAN :
        LET next == WordForward(lines, cursor, big)
            back == WordBack(lines, cursor, big)
            end  == WordEnd(lines, cursor, big)
            between(p, q) == {s \in WordStops(lines, big) : Before(p, s) /\ Before(s, q)}
            stopsIn == WordStops(lines, big)
        IN  /\ between(cursor, next) = {} /\ between(back, cursor) = {}
            /\ next \in stopsIn \/ \A s \in stopsIn : ~Before(cursor, s)
            /\ back \in stopsIn \/ \A s \in stopsIn : ~Before(s, cursor)
            /\ \A s \in WordEnds(lines, big) : ~(Before(cursor, s) /\ Before(s, end))

(* w stops at the very next start of a word, b at the last one before, e   *)
(* at the next end: no word and no empty line between is passed over.      *)
NoStopMissed == Opened => MissesNoStop

(* The characters that an object covers, and how many of them are ch, up   *)
(* to the position q.                                                      *)
Inside(obj) == {p \in Cells(lines) : ~Before(p, obj.start) /\ Before(p, obj.end)}
NumIn(obj, ch, q) ==
    Cardinality({p \in Inside(obj) : CharAt(lines, p) = ch /\ ~Before(q, p)})
(* A bracket object is there with its brackets or not at all, and what is  *)
(* inside opens what it closes.                                            *)
BracketsBalance ==
    \A key \in Openers \cap Char :
        LET in == TextObject(lines, cursor, "i", key)
        IN  /\ in.ok = TextObject(lines, cursor, "a", key).ok
            /\ in.ok => /\ NumIn(in, key, in.end) = NumIn(in, Partner(key), in.end)
                        /\ \A q \in Inside(in) : NumIn(in, key, q) >= NumIn(in, Partner(key), q)
CursorInBrackets ==
    \A key \in Openers \cap Char :
        LET in == TextObject(lines, cursor, "i", key)
        IN  in.ok => /\ ~Before(cursor, TextObject(lines, cursor, "a", key).start)
                     /\ ~Before(in.end, cursor)

(* A bracket object is balanced inside, and the cursor is in it or on its  *)
(* brackets, when there is a character at the cursor (textobj.cpp, whose   *)
(* scans count brackets from the cursor outward, then from one to the      *)
(* other).                                                                 *)
HoldsBrackets ==
    Opened /\ mode = "Normal" => BracketsBalance /\ (CursorLine # <<>> => CursorInBrackets)

(* The columns before each glyph of a row, and after the last.             *)
Columns(glyphs) ==
    LET at[i \in 0..Len(glyphs)] == IF i = 0 THEN 0 ELSE at[i - 1] + GlyphWidth(glyphs[i])
    IN  at
(* Each row is filled to its last column and no further, the one that is   *)
(* highlighted is the one the terminal's cursor is on, and its character,  *)
(* or the line's last one when the cursor is behind it, is drawn from the  *)
(* cursor's column on; a wide character cut by an edge does not shift the  *)
(* rest.                                                                   *)
Aligned(frame, place, left, cols) ==
    LET num  == GutterWidth(Len(lines))
        disp == DispOfCp(CursorLine, cursor.col)
        col  == Lesser(cursor.col, LastCol(CursorLine))
        here == frame[place.row].text
    IN  /\ \A r \in DOMAIN frame : frame[r] # Tilde =>
              Columns(frame[r].text)[Len(frame[r].text)] = cols - num
        /\ {r \in DOMAIN frame : frame[r].highlighted} = {place.row}
        /\ (CursorLine # <<>> /\ left <= disp /\ disp < left + cols - num) =>
              \E i \in DOMAIN here :
                  /\ num + Columns(here)[i - 1] = place.col
                  /\ here[i] = Glyphs(CharAt(lines, At(cursor.line, col)), disp, left, cols - num)[1]
ViewAligned(left, cols) ==
    rows > 0 /\ cols > GutterWidth(Len(lines)) =>
        Aligned(Frame(lines, top, cursor, rows, left, cols),
                PlaceCursor(lines, top, cursor, left), left, cols)

(* What is drawn is in step with where the cursor is put, after every      *)
(* command, however far the view is scrolled, in a terminal wider than the *)
(* line numbers (draw_buffer_view, content_slice and place_cursor, which   *)
(* count columns each in its own way).                                     *)
RowsAligned ==
    /\ rows > 0 /\ ScreenCols > GutterWidth(Len(lines)) =>
          Aligned(screen.frame, screen.place, 0, ScreenCols)
    /\ Opened => \A left \in 1..3, cols \in 3..6 : ViewAligned(left, cols)
=============================================================================
