------------------------------ MODULE Viewport ------------------------------
(***************************************************************************)
(* What a window shows: the geometry of scrolling (new/src/core/view.cpp), *)
(* the cells of a line and the drawing of the rows (new/src/ui/view.cpp).  *)
(* A window has rows rows over n lines, the first of them line top; the    *)
(* setting scrolloff is 0 in this program, which has no way to change it.  *)
(***************************************************************************)
EXTENDS Operators

(* Clamped(x, lo, hi): std::clamp.                                         *)
Clamped(x, lo, hi) == IF x < lo THEN lo ELSE IF x > hi THEN hi ELSE x
Greater(a, b) == IF a < b THEN b ELSE a

Height(rows)   == Greater(1, rows)
HalfPage(rows) == Greater(1, Height(rows) \div 2)
PageSize(rows) == Greater(1, Height(rows) - 2)
ClampTop(n, top) == Clamped(top, 0, n - 1)
VisibleRowsPastEnd(n, rows, top) == Height(rows)
VisibleRows(n, rows, top) == Lesser(n - Lesser(top, n - 1), Height(rows))

(* The top line that shows the cursor's line.                              *)
FollowTop(n, rows, cursorLine, top) ==
    LET cur == Lesser(cursorLine, n - 1)
        t   == Lesser(top, n - 1)
    IN  IF cur < t THEN cur
        ELSE IF cur >= t + Height(rows) THEN Lesser(cur - Height(rows) + 1, n - 1)
        ELSE t

-----------------------------------------------------------------------------
(* apply_scroll: the new cursor line and top of each scroll command, from  *)
(* ones that are on the document.  count is 1 when no count was typed,     *)
(* that is when counted is FALSE.                                          *)
Scrolled(line, top) == [line |-> line, top |-> top]

PageDown(n, rows, cur, top, count) ==
    LET nt == IF top + Height(rows) >= n THEN n - 1
              ELSE ClampTop(n, top + count * PageSize(rows))
    IN  Scrolled(nt, nt)
PageUp(n, rows, cur, top, count) ==
    LET nt == ClampTop(n, top - count * PageSize(rows))
    IN  IF nt = top THEN Scrolled(cur, top) ELSE Scrolled(Lesser(n - 1, nt + Height(rows) - 1), nt)

HalfStep(rows, count, counted) == IF counted THEN count ELSE HalfPage(rows)
InView(n, rows, line, top) == Clamped(line, top, Lesser(n - 1, top + Height(rows) - 1))
HalfDown(n, rows, cur, top, step) ==
    LET nt == Clamped(top + step, 0, Greater(0, n - Height(rows)))
    IN  Scrolled(InView(n, rows, Lesser(cur + step, n - 1), nt), nt)
HalfUp(n, rows, cur, top, step) ==
    LET nt == Greater(0, top - step) IN Scrolled(InView(n, rows, Greater(0, cur - step), nt), nt)

LineTop(n, rows, top, count) ==
    Scrolled(top + Lesser(count - 1, VisibleRows(n, rows, top) - 1), top)
LineMiddle(n, rows, top) == Scrolled(top + (VisibleRows(n, rows, top) - 1) \div 2, top)
LineBottom(n, rows, top, count) ==
    LET vis == VisibleRows(n, rows, top)
    IN  Scrolled(top + vis - 1 - Lesser(count - 1, vis - 1), top)

ScrollTarget(n, cur, count, counted) == IF counted THEN Lesser(n - 1, count - 1) ELSE cur

ScrollIds == {"C-f", "C-b", "C-d", "C-u", "H", "M", "L", "zz", "zt", "zb"}
ApplyScroll(n, rows, id, cursorLine, topLine, count, counted) ==
    LET cur    == Lesser(cursorLine, n - 1)
        top    == Lesser(topLine, n - 1)
        target == ScrollTarget(n, cur, count, counted)
        step   == HalfStep(rows, count, counted)
    IN  CASE id = "C-f" -> PageDown(n, rows, cur, top, count)
          [] id = "C-b" -> PageUp(n, rows, cur, top, count)
          [] id = "C-d" -> HalfDown(n, rows, cur, top, step)
          [] id = "C-u" -> HalfUp(n, rows, cur, top, step)
          [] id = "H"   -> LineTop(n, rows, top, count)
          [] id = "M"   -> LineMiddle(n, rows, top)
          [] id = "L"   -> LineBottom(n, rows, top, count)
          [] id = "zz"  -> Scrolled(target, ClampTop(n, target - (Height(rows) - 1) \div 2))
          [] id = "zt"  -> Scrolled(target, target)
          [] id = "zb"  -> Scrolled(target, ClampTop(n, target - (Height(rows) - 1)))

-----------------------------------------------------------------------------
(* LineCells: the columns each character takes.  A tab goes to the next    *)
(* multiple of the tab width, a control shows as ^ and a letter.           *)
WideChars == {"wide"}
Width(ch, disp) ==
    IF ch = "tab" THEN TabWidth - (disp % TabWidth)
    ELSE IF ch = "ctrl" \/ ch \in WideChars THEN 2 ELSE 1
Starts(text) ==
    LET at[i \in 0..Len(text)] ==
            IF i = 0 THEN 0 ELSE at[i - 1] + Width(text[i], at[i - 1])
    IN  at
DispOfCp(text, cp) ==
    IF text = <<>> THEN 0 ELSE Starts(text)[Lesser(cp, Len(text) - 1)]
CpOfDisp(text, disp) ==
    LET at == Starts(text)
        ending == {i \in 1..Len(text) : disp < at[i]}
    IN  IF text = <<>> \/ disp < 0 THEN 0
        ELSE IF ending = {} THEN Len(text) - 1 ELSE Least(ending) - 1

(* content_slice: the columns from left on, cols of them, as glyphs.  A    *)
(* wide one is one glyph of two columns; cut by an edge it shows as a      *)
(* blank, and past the text there are blanks.                              *)
GlyphWidth(g) == IF g \in WideChars THEN 2 ELSE 1
GlyphsUncut(ch, disp, left, cols) ==
    LET width == Width(ch, disp)
        shown == {k \in 0..(width - 1) : left <= disp + k /\ disp + k < left + cols}
        glyph(k) == IF ch = "ctrl" THEN IF k = 0 THEN "^" ELSE "A"
                    ELSE IF ch \in WideChars \/ ch = "tab" THEN Blank ELSE ch
        first == Least(shown)
    IN  IF shown = {} THEN <<>>
        ELSE IF ch \in WideChars THEN <<ch>>
        ELSE [i \in 1..Cardinality(shown) |-> glyph(first + i - 1)]
Glyphs(ch, disp, left, cols) ==
    LET width == Width(ch, disp)
        shown == {k \in 0..(width - 1) : left <= disp + k /\ disp + k < left + cols}
        glyph(k) == IF ch = "ctrl" THEN IF k = 0 THEN "^" ELSE "A"
                    ELSE IF ch \in WideChars \/ ch = "tab" THEN Blank ELSE ch
        first == Least(shown)
    IN  IF shown = {} THEN <<>>
        ELSE IF ch \in WideChars /\ Cardinality(shown) = width THEN <<ch>>
        ELSE [i \in 1..Cardinality(shown) |-> glyph(first + i - 1)]
ContentSlice(text, left, cols) ==
    LET at == Starts(text)
        out[i \in 0..Len(text)] ==
            IF i = 0 THEN <<>> ELSE out[i - 1] \o Glyphs(text[i], at[i - 1], left, cols)
        used == Clamped(at[Len(text)] - left, 0, cols)
    IN  out[Len(text)] \o [k \in 1..(cols - used) |-> Blank]

(* draw_buffer_view: each row of the window shows a line with its number   *)
(* or, past the end, a tilde; the cursor's line is highlighted.            *)
GutterWidth(n) ==
    IF n < 10 THEN 2 ELSE IF n < 100 THEN 3 ELSE IF n < 1000 THEN 4 ELSE 5
BufferLineOfRow(row, top) == IF row <= 0 THEN top ELSE top + row
PastEofRow(row, top, n)   == BufferLineOfRow(row, top) >= n
RowOfLine(line, top)      == IF line >= top THEN line - top ELSE 0
Tilde == [number |-> 0, text |-> <<"~">>, highlighted |-> FALSE]
DrawnRow(doc, top, cursorLine, row, left, cols) ==
    LET line == BufferLineOfRow(row, top)
    IN  IF PastEofRow(row, top, Len(doc)) THEN Tilde
        ELSE [number |-> line + 1,
              text |-> ContentSlice(LineOf(doc, line), left, cols - GutterWidth(Len(doc))),
              highlighted |-> line = cursorLine]

(* draw_layout: a row for tabs, the rows of the window, the status line    *)
(* and the messages; a window that is no wider than its numbers stays empty.*)
ViewRows(screenRows) == Greater(screenRows - 3, 0)
Frame(doc, top, cursor, rows, left, cols) ==
    LET cursorLine == IF cursor.line < Len(doc) THEN cursor.line ELSE 0
    IN  IF cols <= GutterWidth(Len(doc)) THEN <<>>
        ELSE [r \in 1..rows |-> DrawnRow(doc, top, cursorLine, r - 1, left, cols)]

(* place_cursor: the terminal's cursor, on the first cell of the character *)
(* it is on or, beyond the line, of the last one.                          *)
PlaceCursor(doc, top, cursor, left) ==
    [row |-> 1 + RowOfLine(cursor.line, top),
     col |-> Greater(0, GutterWidth(Len(doc)) + DispOfCp(LineOf(doc, cursor.line), cursor.col) - left)]
=============================================================================
