---------------------------- MODULE TerminalScreen ----------------------------
(***************************************************************************)
(* The screen of the embedded terminal, as operators from one screen to    *)
(* the next: the grid, the cursor and its pending wrap, the scroll region, *)
(* the lines that scrolled away.  Rows and columns count from 0.           *)
(***************************************************************************)
EXTENDS Integers, Sequences

CONSTANT Scrollback     \* scrollback_limit_

ASSUME ScrollbackAssumption == Scrollback \in Nat

Low(a, b)  == IF a < b THEN a ELSE b
High(a, b) == IF a > b THEN a ELSE b
Clamp(n, lo, hi) == High(lo, Low(n, hi))

Default == 255          \* TerminalAttrs' colour of the theme
PlainPen == [fg |-> Default, bg |-> Default,
             bold |-> FALSE, dim |-> FALSE, underline |-> FALSE, inverse |-> FALSE]

\* TerminalCell: a glyph and the cells it takes; the second cell of a wide one has width 0.
Cell(ch, width, pen) == [ch |-> ch, width |-> width, pen |-> pen]
Empty == Cell(" ", 1, PlainPen)

Blank(cols) == [c \in 0 .. cols - 1 |-> Empty]
BlankGrid(rows, cols) == [r \in 0 .. rows - 1 |-> Blank(cols)]

\* The members of a screen that was never sized.
Unsized ==
  [rows |-> 0, cols |-> 0, grid |-> <<>>, back |-> <<>>, row |-> 0, col |-> 0,
   saved |-> [row |-> 0, col |-> 0, pen |-> PlainPen], top |-> 0, bottom |-> 0,
   wraparound |-> TRUE, wrapPending |-> FALSE, appKeys |-> FALSE, pen |-> PlainPen,
   title |-> <<>>]

-------------------------------------------------------------------------------
\* clamp_cursor() of a screen whose cursor was sent to (row, col): no wrap is pending then.
SetCursor(s, row, col) ==
  [s EXCEPT !.row = Clamp(row, 0, s.rows - 1), !.col = Clamp(col, 0, s.cols - 1),
            !.wrapPending = FALSE]

MoveCursor(s, down, right) == SetCursor(s, s.row + down, s.col + right)

SaveCursor(s) == [s EXCEPT !.saved = [row |-> s.row, col |-> s.col, pen |-> s.pen]]
RestoreCursor(s) == [SetCursor(s, s.saved.row, s.saved.col) EXCEPT !.pen = s.saved.pen]

ResetRegion(s) == [s EXCEPT !.top = 0, !.bottom = High(0, s.rows - 1)]

SetRegion(s, top, bottom) ==
  LET t == Clamp(top, 0, s.rows - 1)
      b == Clamp(bottom, 0, s.rows - 1)
  IN  SetCursor([s EXCEPT !.top = Low(t, b), !.bottom = High(t, b)], Low(t, b), 0)

\* A resize that leaves the region alone.
ResizeKeepsRegion(s, rows, cols) ==
  IF rows = s.rows /\ cols = s.cols THEN s
  ELSE LET kept(r, c) == r < s.rows /\ c < s.cols
       IN  SetCursor([s EXCEPT !.rows = rows, !.cols = cols,
                       !.grid = [r \in 0 .. rows - 1 |-> [c \in 0 .. cols - 1 |->
                                   IF kept(r, c) THEN s.grid[r][c] ELSE Empty]]], s.row, s.col)

\* A new size keeps the top left corner of the grid and nothing else.
Resize(s, rows, cols) ==
  IF rows = s.rows /\ cols = s.cols THEN s
  ELSE LET kept(r, c) == r < s.rows /\ c < s.cols
       IN  SetCursor(ResetRegion(
             [s EXCEPT !.rows = rows, !.cols = cols,
                       !.grid = [r \in 0 .. rows - 1 |-> [c \in 0 .. cols - 1 |->
                                   IF kept(r, c) THEN s.grid[r][c] ELSE Empty]]]),
             s.row, s.col)

Reset(s) ==
  ResetRegion([Unsized EXCEPT !.rows = s.rows, !.cols = s.cols,
                              !.grid = BlankGrid(s.rows, s.cols)])

\* set_scrollback_limit(), and the end of push_scrollback(): the oldest lines go.
Trim(back) ==
  IF Len(back) > Scrollback THEN SubSeq(back, Len(back) - Scrollback + 1, Len(back)) ELSE back

-------------------------------------------------------------------------------
\* One line up inside the region; a region that is the whole screen keeps the line that
\* leaves it.
ScrollUp(s) ==
  [s EXCEPT !.back = IF s.top = 0 /\ s.bottom = s.rows - 1 THEN Trim(Append(@, s.grid[0])) ELSE @,
            !.grid = [r \in 0 .. s.rows - 1 |->
                        IF r \notin s.top .. s.bottom THEN @[r]
                        ELSE IF r = s.bottom THEN Blank(s.cols) ELSE @[r + 1]]]

ScrollDown(s) ==
  [s EXCEPT !.grid = [r \in 0 .. s.rows - 1 |->
                        IF r \notin s.top .. s.bottom THEN @[r]
                        ELSE IF r = s.top THEN Blank(s.cols) ELSE @[r - 1]]]

\* A line feed that scrolls on the last row of the screen only.
IndexAtScreenEnd(s) ==
  [(IF s.row = s.rows - 1 THEN ScrollUp(s) ELSE [s EXCEPT !.row = @ + 1])
     EXCEPT !.wrapPending = FALSE]

\* index(): below the region the last row of the screen does not scroll.
Index(s) ==
  [(IF s.row = s.bottom THEN ScrollUp(s) ELSE [s EXCEPT !.row = Low(@ + 1, s.rows - 1)])
     EXCEPT !.wrapPending = FALSE]

ReverseIndex(s) ==
  [(IF s.row = s.top THEN ScrollDown(s) ELSE [s EXCEPT !.row = High(@ - 1, 0)])
     EXCEPT !.wrapPending = FALSE]

CarriageReturn(s) == [s EXCEPT !.col = 0, !.wrapPending = FALSE]
Newline(s) == Index(CarriageReturn(s))
Backspace(s) ==
  [s EXCEPT !.col = IF s.wrapPending THEN @ ELSE High(@ - 1, 0), !.wrapPending = FALSE]
Tab(s) ==
  [s EXCEPT !.col = Low(s.cols - 1, ((@ \div 8) + 1) * 8), !.wrapPending = FALSE]

-------------------------------------------------------------------------------
\* The wrap that a full line left pending, then the room for the glyph itself.
Wrapped(s) == IF s.wrapPending /\ s.wraparound THEN Newline(s) ELSE s
Fitted(s, width) ==
  IF s.col + width <= s.cols THEN s
  ELSE IF s.wraparound THEN Newline(s) ELSE [s EXCEPT !.col = High(s.cols - width, 0)]

PutGlyph(s0, ch, width) ==
  LET s == Fitted(Wrapped(s0), width)
      end == s.col + width
      cell(c) == IF c = s.col THEN Cell(ch, width, s.pen)
                 ELSE IF width = 2 /\ c = s.col + 1 THEN Cell("", 0, s.pen)
                 ELSE s.grid[s.row][c]
  IN  [s EXCEPT !.grid[s.row] = [c \in 0 .. s.cols - 1 |-> cell(c)],
                !.col = Low(end, s.cols - 1),
                !.wrapPending = IF end >= s.cols THEN s.wraparound ELSE @]

\* put_codepoint(): the controls move, every other control is dropped.
PutCodepoint(s, ch, width) ==
  CASE ch = "LF"  -> Newline(s)
    [] ch = "CR"  -> CarriageReturn(s)
    [] ch = "BS"  -> Backspace(s)
    [] ch = "TAB" -> Tab(s)
    [] ch = "BEL" -> s
    [] OTHER      -> PutGlyph(s, ch, width)

-------------------------------------------------------------------------------
\* erase_cells(), as a set of <<row, column>> pairs.
Erase(s, cells) ==
  [s EXCEPT !.grid = [r \in 0 .. s.rows - 1 |-> [c \in 0 .. s.cols - 1 |->
                        IF <<r, c>> \in cells THEN Empty ELSE @[r][c]]]]

RowCells(s, rows) == rows \X (0 .. s.cols - 1)
ToEnd(s) == {s.row} \X (s.col .. s.cols - 1)
FromStart(s) == {s.row} \X (0 .. s.col)

EraseInLine(s, mode) ==
  CASE mode = 0 -> Erase(s, ToEnd(s))
    [] mode = 1 -> Erase(s, FromStart(s))
    [] mode = 2 -> Erase(s, RowCells(s, {s.row}))
    [] OTHER    -> s

EraseInDisplay(s, mode) ==
  CASE mode = 0 -> Erase(s, RowCells(s, s.row + 1 .. s.rows - 1) \cup ToEnd(s))
    [] mode = 1 -> Erase(s, RowCells(s, 0 .. s.row - 1) \cup FromStart(s))
    [] mode \in {2, 3} ->
         [s EXCEPT !.grid = BlankGrid(s.rows, s.cols), !.wrapPending = FALSE,
                   !.back = IF mode = 3 THEN <<>> ELSE @]
    [] OTHER    -> s
===============================================================================
