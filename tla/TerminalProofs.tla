---------------------------- MODULE TerminalProofs ----------------------------
(***************************************************************************)
(* What holds of the embedded terminal whatever its shell writes, by an    *)
(* invariant of Terminal's specification: the screen is one that the code  *)
(* can index, the shell is told its size, and text inside a scroll region  *)
(* leaves the rest of the screen alone.                                    *)
(***************************************************************************)
EXTENDS Terminal, Integers, SequencesExt, FiniteSetTheorems, TLAPS

-------------------------------------------------------------------------------
\* Folds, and induction over data as facts about sets: what a left fold starts with and
\* each of its steps keeps, its result has.

\* A set of natural numbers that is not empty has a least element: of the intervals
\* 1 .. n of its members take one that contains no other.
LEMMA LeastNumber ==
  ASSUME NEW S, S \subseteq Nat, S # {}
  PROVE  \E n \in S : \A m \in S : ~(m < n)
<1> DEFINE R == StrictSubsetOrdering(Nat)
           T == {1 .. n : n \in S}
<1>1. IsWellFoundedOn(R, FiniteSubsetsOf(Nat))
  BY FS_StrictSubsetOrderingWellFounded
<1>2. T \subseteq FiniteSubsetsOf(Nat) /\ T # {}
  <2>1. \A n \in S : IsFiniteSet(1 .. n) /\ 1 .. n \subseteq Nat
    BY FS_Interval
  <2>2. QED
    BY <2>1 DEF FiniteSubsetsOf
<1>3. \A m, n \in S : m < n => <<1 .. m, 1 .. n>> \in R
  <2>1. \A m, n \in S : m < n => 1 .. m \subseteq 1 .. n /\ 1 .. m # 1 .. n /\ 1 .. n \subseteq Nat
    OBVIOUS
  <2>2. QED
    BY <2>1 DEF StrictSubsetOrdering
<1>4. PICK x \in T : \A y \in T : ~(<<y, x>> \in R)
  <2> HIDE DEF R, T
  <2> QED
    BY <1>1, <1>2, WFMin
<1>5. QED
  BY <1>3, <1>4

\* A set that has 0, and n + 1 with every n, has every natural number.
LEMMA Induction ==
  ASSUME NEW S, 0 \in S, \A n \in Nat : n \in S => n + 1 \in S
  PROVE  Nat \subseteq S
<1> DEFINE T == Nat \ S
<1>1. SUFFICES ASSUME T # {} PROVE FALSE
  OBVIOUS
<1>2. PICK n \in T : \A m \in T : ~(m < n)
  BY <1>1, LeastNumber
<1>3. n # 0 /\ n - 1 \in Nat /\ n - 1 < n
  BY <1>2
<1>4. n - 1 \notin T
  BY <1>2, <1>3
<1>5. n - 1 \in S /\ (n - 1) + 1 = n
  BY <1>3, <1>4
<1>6. QED
  BY <1>5, <1>3, <1>2

\* The greatest of the numbers that a fold takes one by one from the end.
LEMMA LastOfInterval ==
  ASSUME NEW n \in Nat, NEW s \in SUBSET (1 .. (n + 1)), n + 1 \in s
  PROVE  Max(s) = n + 1
<1>1. \A y \in s : n + 1 >= y /\ (y >= n + 1 => y = n + 1)
  OBVIOUS
<1>2. QED
  BY <1>1 DEF Max

\* The greatest number of an interval from 1 is its end; the rest is the shorter interval.
LEMMA MaxOfInterval ==
  ASSUME NEW n \in Nat \ {0}
  PROVE  Max(1 .. n) = n /\ (1 .. n) \ {n} = 1 .. (n - 1)
<1>1. n \in 1 .. n /\ \A y \in 1 .. n : n >= y
  OBVIOUS
<1>2. QED
  BY <1>1 DEF Max

\* Of the numbers of a part of 1 .. N that is not empty, one is the greatest.
LEMMA MaxIsIn ==
  ASSUME NEW N \in Nat, NEW s \in SUBSET (1 .. N), s # {}
  PROVE  Max(s) \in s
<1> DEFINE T == {n \in Nat : N - n \in s}
<1>1. PICK x \in s : TRUE
  OBVIOUS
<1>2. N - x \in T
  <2>1. x \in 1 .. N
    OBVIOUS
  <2>2. N - x \in Nat /\ N - (N - x) = x
    BY <2>1
  <2>3. QED
    BY <2>2
<1>3. PICK n \in T : \A m \in T : ~(m < n)
  <2>1. T \subseteq Nat /\ T # {}
    BY <1>2
  <2> HIDE DEF T
  <2>2. QED
    BY <2>1, LeastNumber
<1>4. \A y \in s : N - n >= y
  <2>1. SUFFICES ASSUME NEW y \in s PROVE N - n >= y
    OBVIOUS
  <2>2. y \in 1 .. N /\ n \in Nat
    BY <1>3
  <2>3. N - y \in Nat /\ N - (N - y) = y
    BY <2>2
  <2>4. N - y \in T
    BY <2>3
  <2>5. ~(N - y < n)
    BY <1>3, <2>4
  <2>6. QED
    BY <2>2, <2>5
<1>5. N - n \in s
  BY <1>3
<1>6. QED
  BY <1>4, <1>5 DEF Max

\* The function by which a left fold is defined: what the members of s, a set of positions
\* 1 .. N, make of base, when the step at position i is the function G.
FoldOf(f, V, base, N, G) ==
  /\ f \in [SUBSET (1 .. N) -> V]
  /\ \A s \in SUBSET (1 .. N) :
       f[s] = IF s = {} THEN base ELSE G[<<f[s \ {Max(s)}], Max(s)>>]

\* It exists, when the steps never leave V.
LEMMA FoldExists ==
  ASSUME NEW V, NEW base \in V, NEW N \in Nat,
         NEW G \in [V \X (1 .. N) -> V]
  PROVE  \E f : FoldOf(f, V, base, N, G)
<1> DEFINE Folds(n, f) ==
             \A s \in SUBSET (1 .. n) :
               f[s] = IF s = {} THEN base ELSE G[<<f[s \ {Max(s)}], Max(s)>>]
           Has(n) == \E f \in [SUBSET (1 .. n) -> V] : Folds(n, f)
           S == {n \in Nat : n <= N => Has(n)}
<1>1. Has(0)
  <2> DEFINE f == [s \in SUBSET (1 .. 0) |-> base]
  <2>1. f \in [SUBSET (1 .. 0) -> V]
    OBVIOUS
  <2>2. \A s \in SUBSET (1 .. 0) : s = {}
    OBVIOUS
  <2>3. Folds(0, f)
    BY <2>2
  <2>4. QED
    BY <2>1, <2>3
<1>2. ASSUME NEW n \in Nat, n + 1 <= N, Has(n) PROVE Has(n + 1)
  <2>1. PICK f \in [SUBSET (1 .. n) -> V] : Folds(n, f)
    BY <1>2
  <2> DEFINE g == [s \in SUBSET (1 .. (n + 1)) |->
                     IF n + 1 \in s THEN G[<<f[s \ {n + 1}], n + 1>>] ELSE f[s]]
  <2>2. \A s \in SUBSET (1 .. (n + 1)) :
          /\ s \ {n + 1} \in SUBSET (1 .. n)
          /\ n + 1 \notin s => s \in SUBSET (1 .. n)
    OBVIOUS
  <2>3. \A s \in SUBSET (1 .. n) : s \in SUBSET (1 .. (n + 1)) /\ n + 1 \notin s /\ g[s] = f[s]
    OBVIOUS
  <2>4. n + 1 \in 1 .. N
    BY <1>2
  <2>5. g \in [SUBSET (1 .. (n + 1)) -> V]
    <3>1. ASSUME NEW s \in SUBSET (1 .. (n + 1)) PROVE g[s] \in V
      <4>1. CASE n + 1 \in s
        <5>1. f[s \ {n + 1}] \in V
          BY <2>2
        <5>2. <<f[s \ {n + 1}], n + 1>> \in V \X (1 .. N)
          BY <5>1, <2>4
        <5>3. QED
          BY <5>2, <4>1
      <4>2. CASE n + 1 \notin s
        BY <4>2, <2>2
      <4>3. QED
        BY <4>1, <4>2
    <3>2. QED
      BY <3>1
  <2>6. Folds(n + 1, g)
    <3>1. ASSUME NEW s \in SUBSET (1 .. (n + 1))
          PROVE  g[s] = IF s = {} THEN base ELSE G[<<g[s \ {Max(s)}], Max(s)>>]
      <4>1. CASE n + 1 \in s
        <5>1. Max(s) = n + 1
          BY <4>1, LastOfInterval
        <5>2. g[s \ {n + 1}] = f[s \ {n + 1}]
          BY <2>2, <2>3
        <5>3. g[s] = G[<<f[s \ {n + 1}], n + 1>>] /\ s # {}
          BY <4>1
        <5>4. QED
          BY <5>1, <5>2, <5>3
      <4>2. CASE n + 1 \notin s /\ s # {}
        <5>1. s \in SUBSET (1 .. n) /\ g[s] = f[s]
          BY <4>2, <2>2
        <5>2. s \ {Max(s)} \in SUBSET (1 .. n)
          BY <5>1
        <5>3. g[s \ {Max(s)}] = f[s \ {Max(s)}]
          BY <5>2, <2>3
        <5>4. f[s] = G[<<f[s \ {Max(s)}], Max(s)>>]
          BY <5>1, <4>2, <2>1
        <5>5. QED
          BY <5>1, <5>3, <5>4, <4>2
      <4>3. CASE s = {}
        <5>1. s \in SUBSET (1 .. n) /\ g[s] = f[s]
          BY <4>3
        <5>2. QED
          BY <5>1, <4>3, <2>1
      <4>4. QED
        BY <4>1, <4>2, <4>3
    <3>2. QED
      BY <3>1
  <2>7. QED
    BY <2>5, <2>6
<1>3. Has(N)
  <2> HIDE DEF Has
  <2>1. 0 \in S /\ \A n \in Nat : n \in S => n + 1 \in S
    BY <1>1, <1>2
  <2>2. N \in S
    <3> HIDE DEF S
    <3> QED
      BY <2>1, Induction
  <2>3. QED
    BY <2>2
<1>4. QED
  BY <1>3 DEF FoldOf

\* What holds of the empty prefix, and is handed on from prefix to prefix, holds of the
\* whole.
LEMMA PrefixInduction ==
  ASSUME NEW V, NEW N \in Nat, NEW f, f[{}] \in V,
         \A k \in 1 .. N : f[1 .. (k - 1)] \in V => f[1 .. k] \in V
  PROVE  f[1 .. N] \in V
<1> DEFINE S == {n \in Nat : n <= N => f[1 .. n] \in V}
<1>1. 0 \in S
  <2>1. 1 .. 0 = {}
    OBVIOUS
  <2>2. QED
    BY <2>1
<1>2. \A n \in Nat : n \in S => n + 1 \in S
  <2>1. SUFFICES ASSUME NEW n \in Nat, n + 1 <= N, f[1 .. n] \in V
                 PROVE  f[1 .. (n + 1)] \in V
    OBVIOUS
  <2>2. n + 1 \in 1 .. N /\ (n + 1) - 1 = n
    BY <2>1
  <2>3. f[1 .. ((n + 1) - 1)] \in V => f[1 .. (n + 1)] \in V
    BY <2>2
  <2>4. QED
    BY <2>1, <2>2, <2>3
<1>3. N \in S
  <2> HIDE DEF S
  <2> QED
    BY <1>1, <1>2, Induction
<1>4. QED
  BY <1>3

-------------------------------------------------------------------------------
\* The screens that operations start from and lead to.  A screen was never sized, or it
\* has a row and a column.

Colours == 0 .. 15 \cup {Default}
Pens == [fg : Colours, bg : Colours, bold : BOOLEAN, dim : BOOLEAN, underline : BOOLEAN,
         inverse : BOOLEAN]
Names == STRING \cup {"", " "} \cup DOMAIN Need
Cells == [ch : Names, width : 0 .. 2, pen : Pens]
Lines == UNION {[0 .. n - 1 -> Cells] : n \in Nat}
Grids == UNION {[0 .. n - 1 -> Lines] : n \in Nat}

RawScreens ==
  [rows : Nat, cols : Nat, grid : Grids, back : Seq(Lines), row : Nat, col : Nat,
   saved : [row : Nat, col : Nat, pen : Pens], top : Nat, bottom : Nat,
   wraparound : BOOLEAN, wrapPending : BOOLEAN, appKeys : BOOLEAN, pen : Pens,
   title : Seq(STRING)]

GridFits(s) == s.grid \in [0 .. s.rows - 1 -> [0 .. s.cols - 1 -> Cells]]

Sized(s) ==
  /\ s.rows >= 1 /\ s.cols >= 1
  /\ s.row <= s.rows - 1 /\ s.col <= s.cols - 1
  /\ s.top <= s.bottom /\ s.bottom <= s.rows - 1
NeverSized(s) ==
  s.rows = 0 /\ s.cols = 0 /\ s.row = 0 /\ s.col = 0 /\ s.top = 0 /\ s.bottom = 0

Screens ==
  {s \in RawScreens :
     /\ GridFits(s)
     /\ Sized(s) \/ NeverSized(s)
     /\ s.wrapPending => s.col = s.cols - 1
     /\ Len(s.back) <= Scrollback}

LEMMA ScreenParts ==
  ASSUME NEW s \in Screens
  PROVE  /\ s \in RawScreens /\ GridFits(s)
         /\ Sized(s) \/ NeverSized(s)
         /\ s.wrapPending => s.col = s.cols - 1
         /\ Len(s.back) <= Scrollback
BY DEF Screens

LEMMA PlainPenOK == PlainPen \in Pens /\ Empty \in Cells
<1>1. PlainPen \in Pens
  BY DEF PlainPen, Pens, Colours, Default
<1>2. QED
  BY <1>1 DEF Empty, Cell, Cells, Names

LEMMA CellOK ==
  ASSUME NEW ch \in Names, NEW width \in 0 .. 2, NEW pen \in Pens
  PROVE  Cell(ch, width, pen) \in Cells
BY DEF Cell, Cells

LEMMA BlankOK ==
  ASSUME NEW rows \in Nat, NEW cols \in Nat
  PROVE  /\ Blank(cols) \in [0 .. cols - 1 -> Cells]
         /\ BlankGrid(rows, cols) \in [0 .. rows - 1 -> [0 .. cols - 1 -> Cells]]
BY PlainPenOK DEF Blank, BlankGrid

LEMMA GridTyped ==
  ASSUME NEW rows \in Nat, NEW cols \in Nat,
         NEW g \in [0 .. rows - 1 -> [0 .. cols - 1 -> Cells]]
  PROVE  g \in Grids
<1>1. [0 .. cols - 1 -> Cells] \subseteq Lines
  BY DEF Lines
<1>2. g \in [0 .. rows - 1 -> Lines]
  BY <1>1
<1>3. QED
  BY <1>2 DEF Grids

LEMMA UnsizedOK == Unsized \in Screens
<1>1. <<>> \in [0 .. 0 - 1 -> [0 .. 0 - 1 -> Cells]]
  OBVIOUS
<1>2. <<>> \in Grids
  BY <1>1, GridTyped
<1>3. Unsized \in RawScreens
  BY <1>2, PlainPenOK DEF Unsized, RawScreens
<1>4. GridFits(Unsized)
  BY <1>1 DEF GridFits, Unsized
<1>5. NeverSized(Unsized) /\ ~Unsized.wrapPending /\ Len(Unsized.back) <= Scrollback
  BY ScrollbackAssumption DEF NeverSized, Unsized
<1>6. QED
  BY <1>3, <1>4, <1>5 DEF Screens

-------------------------------------------------------------------------------
\* The cursor.

LEMMA ClampOK ==
  ASSUME NEW n \in Int, NEW size \in Nat
  PROVE  /\ Clamp(n, 0, size - 1) \in Nat
         /\ size >= 1 => Clamp(n, 0, size - 1) <= size - 1
         /\ size = 0 => Clamp(n, 0, size - 1) = 0
BY DEF Clamp, High, Low

LEMMA SetCursorOK ==
  ASSUME NEW s \in Screens, NEW row \in Int, NEW col \in Int
  PROVE  /\ SetCursor(s, row, col) \in Screens
         /\ SetCursor(s, row, col).rows = s.rows /\ SetCursor(s, row, col).cols = s.cols
<1> DEFINE r == Clamp(row, 0, s.rows - 1)
           c == Clamp(col, 0, s.cols - 1)
           t == [s EXCEPT !.row = r, !.col = c, !.wrapPending = FALSE]
<1>1. /\ s \in RawScreens /\ s.rows \in Nat /\ s.cols \in Nat
  BY DEF Screens, RawScreens
<1>2. r \in Nat /\ (s.rows >= 1 => r <= s.rows - 1) /\ (s.rows = 0 => r = 0)
  BY <1>1, ClampOK
<1>a. c \in Nat /\ (s.cols >= 1 => c <= s.cols - 1) /\ (s.cols = 0 => c = 0)
  BY <1>1, ClampOK
<1> HIDE DEF r, c
<1>3. t \in RawScreens
  BY <1>1, <1>2, <1>a DEF RawScreens
<1>4. /\ t.rows = s.rows /\ t.cols = s.cols /\ t.grid = s.grid /\ t.back = s.back
      /\ t.row = r /\ t.col = c /\ t.top = s.top /\ t.bottom = s.bottom /\ ~t.wrapPending
  BY <1>1 DEF RawScreens
<1>5. t \in Screens
  <2> HIDE DEF t
  <2>1. GridFits(t) /\ Len(t.back) <= Scrollback
    BY <1>4, ScreenParts DEF GridFits
  <2>2. Sized(t) \/ NeverSized(t)
    BY <1>1, <1>2, <1>a, <1>4, ScreenParts DEF Sized, NeverSized
  <2>3. QED
    BY <1>3, <1>4, <2>1, <2>2 DEF Screens
<1>6. QED
  BY <1>4, <1>5 DEF SetCursor, r, c

LEMMA RawParts ==
  ASSUME NEW s \in RawScreens
  PROVE  /\ s.rows \in Nat /\ s.cols \in Nat /\ s.row \in Nat /\ s.col \in Nat
         /\ s.top \in Nat /\ s.bottom \in Nat /\ s.pen \in Pens /\ s.back \in Seq(Lines)
         /\ s.saved.row \in Nat /\ s.saved.col \in Nat /\ s.saved.pen \in Pens
         /\ s.wraparound \in BOOLEAN /\ s.wrapPending \in BOOLEAN /\ s.grid \in Grids
         /\ s.title \in Seq(STRING)
BY DEF RawScreens

\* The screens of the same size.
Like(s) == {t \in Screens : t.rows = s.rows /\ t.cols = s.cols}

SameFrame(s, t) ==
  t.rows = s.rows /\ t.cols = s.cols /\ t.top = s.top /\ t.bottom = s.bottom

LEMMA LikeItself == ASSUME NEW s \in Screens PROVE s \in Like(s)
BY DEF Like

LEMMA LikeLike == ASSUME NEW s, NEW t \in Like(s) PROVE t \in Screens /\ Like(t) = Like(s)
BY DEF Like

\* A screen that differs in its cursor, or in what is no part of its shape.
LEMMA Moved ==
  ASSUME NEW s \in Screens, s.rows >= 1, NEW t \in RawScreens,
         SameFrame(s, t), t.grid = s.grid, t.back = s.back,
         t.row <= s.rows - 1, t.col <= s.cols - 1, t.wrapPending => t.col = s.cols - 1
  PROVE  t \in Like(s)
<1>1. GridFits(t) /\ Len(t.back) <= Scrollback
  BY ScreenParts DEF GridFits, SameFrame
<1>2. Sized(t)
  BY ScreenParts, RawParts DEF Sized, NeverSized, SameFrame
<1>3. QED
  BY <1>1, <1>2 DEF Screens, Like, SameFrame

LEMMA SaveCursorOK ==
  ASSUME NEW s \in Screens, s.rows >= 1
  PROVE  SaveCursor(s) \in Like(s)
<1> DEFINE saved == [row |-> s.row, col |-> s.col, pen |-> s.pen]
           t == [s EXCEPT !.saved = saved]
<1>1. s \in RawScreens
  BY ScreenParts
<1>2. saved \in [row : Nat, col : Nat, pen : Pens]
  BY <1>1, RawParts
<1> HIDE DEF saved
<1>3. t \in RawScreens
  BY <1>1, <1>2 DEF RawScreens
<1>4. /\ SameFrame(s, t) /\ t.grid = s.grid /\ t.back = s.back
      /\ t.row = s.row /\ t.col = s.col /\ t.wrapPending = s.wrapPending
  BY <1>1 DEF RawScreens, SameFrame
<1>5. t \in Like(s)
  <2> HIDE DEF t
  <2> QED
    BY <1>3, <1>4, ScreenParts, Moved DEF Sized, NeverSized
<1>6. QED
  BY <1>5 DEF SaveCursor, saved

LEMMA PenOnlyOK ==
  ASSUME NEW s \in Screens, s.rows >= 1, NEW pen \in Pens
  PROVE  [s EXCEPT !.pen = pen] \in Like(s)
<1> DEFINE t == [s EXCEPT !.pen = pen]
<1>1. s \in RawScreens
  BY ScreenParts
<1>2. t \in RawScreens
  BY <1>1 DEF RawScreens
<1>3. /\ SameFrame(s, t) /\ t.grid = s.grid /\ t.back = s.back
      /\ t.row = s.row /\ t.col = s.col /\ t.wrapPending = s.wrapPending
  BY <1>1 DEF RawScreens, SameFrame
<1>4. QED
  <2> HIDE DEF t
  <2>1. t \in Like(s)
    BY <1>2, <1>3, ScreenParts, Moved DEF Sized, NeverSized
  <2>2. QED
    BY <2>1 DEF t

LEMMA RestoreCursorOK ==
  ASSUME NEW s \in Screens, s.rows >= 1
  PROVE  RestoreCursor(s) \in Like(s)
<1> DEFINE t == SetCursor(s, s.saved.row, s.saved.col)
<1>1. s.saved.row \in Int /\ s.saved.col \in Int /\ s.saved.pen \in Pens
  BY ScreenParts, RawParts
<1>2. t \in Screens /\ t.rows = s.rows /\ t.cols = s.cols
  BY <1>1, SetCursorOK
<1> HIDE DEF t
<1>3. [t EXCEPT !.pen = s.saved.pen] \in Like(t)
  BY <1>1, <1>2, PenOnlyOK
<1>4. QED
  BY <1>2, <1>3 DEF Like, RestoreCursor, t

-------------------------------------------------------------------------------
\* The region and the size.

LEMMA SetRegionFields ==
  ASSUME NEW s \in Screens, s.rows >= 1, NEW top \in Nat, NEW bottom \in Nat,
         top <= bottom, bottom <= s.rows - 1
  PROVE  [s EXCEPT !.top = top, !.bottom = bottom] \in Like(s)
<1> DEFINE t == [s EXCEPT !.top = top, !.bottom = bottom]
<1>1. s \in RawScreens
  BY ScreenParts
<1>2. t \in RawScreens
  BY <1>1 DEF RawScreens
<1>3. /\ t.rows = s.rows /\ t.cols = s.cols /\ t.grid = s.grid /\ t.back = s.back
      /\ t.row = s.row /\ t.col = s.col /\ t.top = top /\ t.bottom = bottom
      /\ t.wrapPending = s.wrapPending
  BY <1>1 DEF RawScreens
<1>4. t \in Like(s)
  <2> HIDE DEF t
  <2>1. GridFits(t) /\ Sized(t)
    BY <1>3, ScreenParts, RawParts DEF GridFits, Sized, NeverSized
  <2>2. QED
    BY <1>2, <1>3, <2>1, ScreenParts DEF Screens, Like
<1>5. QED
  BY <1>4

LEMMA ResetRegionOK ==
  ASSUME NEW s \in Screens, s.rows >= 1
  PROVE  ResetRegion(s) \in Like(s)
<1> DEFINE b == High(0, s.rows - 1)
<1>1. s.rows \in Nat
  BY ScreenParts, RawParts
<1>2. b \in Nat /\ 0 <= b /\ b <= s.rows - 1
  BY <1>1 DEF High
<1> HIDE DEF b
<1>3. [s EXCEPT !.top = 0, !.bottom = b] \in Like(s)
  BY <1>2, SetRegionFields
<1>4. QED
  BY <1>3 DEF ResetRegion, b

LEMMA SetRegionOK ==
  ASSUME NEW s \in Screens, s.rows >= 1, NEW top \in Int, NEW bottom \in Int
  PROVE  SetRegion(s, top, bottom) \in Like(s)
<1> DEFINE t == Clamp(top, 0, s.rows - 1)
           b == Clamp(bottom, 0, s.rows - 1)
           u == [s EXCEPT !.top = Low(t, b), !.bottom = High(t, b)]
<1>1. s.rows \in Nat
  BY ScreenParts, RawParts
<1>2. t \in Nat /\ t <= s.rows - 1 /\ b \in Nat /\ b <= s.rows - 1
  BY <1>1, ClampOK
<1> HIDE DEF t, b
<1>3. /\ Low(t, b) \in Nat /\ High(t, b) \in Nat
      /\ Low(t, b) <= High(t, b) /\ High(t, b) <= s.rows - 1
  BY <1>1, <1>2 DEF Low, High
<1>4. u \in Like(s)
  BY <1>3, SetRegionFields
<1> HIDE DEF u
<1>5. SetCursor(u, Low(t, b), 0) \in Like(s)
  BY <1>3, <1>4, SetCursorOK DEF Like
<1>6. QED
  BY <1>5 DEF SetRegion, u, t, b

\* A screen takes any size that has a row and a column.
LEMMA ResizeOK ==
  ASSUME NEW s \in Screens, NEW rows \in Nat \ {0}, NEW cols \in Nat \ {0}
  PROVE  /\ Resize(s, rows, cols) \in Screens
         /\ Resize(s, rows, cols).rows = rows /\ Resize(s, rows, cols).cols = cols
<1> DEFINE grid == [r \in 0 .. rows - 1 |-> [c \in 0 .. cols - 1 |->
                      IF r < s.rows /\ c < s.cols THEN s.grid[r][c] ELSE Empty]]
           t == [s EXCEPT !.rows = rows, !.cols = cols, !.grid = grid]
           u == [t EXCEPT !.top = 0, !.bottom = High(0, rows - 1)]
           r0 == Clamp(s.row, 0, rows - 1)
           c0 == Clamp(s.col, 0, cols - 1)
           v == [u EXCEPT !.row = r0, !.col = c0, !.wrapPending = FALSE]
<1>1. s \in RawScreens /\ s.rows \in Nat /\ s.cols \in Nat /\ s.row \in Nat /\ s.col \in Nat
  BY ScreenParts, RawParts
<1>2. grid \in [0 .. rows - 1 -> [0 .. cols - 1 -> Cells]]
  <2>1. ASSUME NEW r \in 0 .. rows - 1, NEW c \in 0 .. cols - 1, r < s.rows, c < s.cols
        PROVE  s.grid[r][c] \in Cells
    <3>1. r \in 0 .. s.rows - 1 /\ c \in 0 .. s.cols - 1
      BY <1>1, <2>1
    <3>2. s.grid \in [0 .. s.rows - 1 -> [0 .. s.cols - 1 -> Cells]]
      BY ScreenParts DEF GridFits
    <3>3. s.grid[r] \in [0 .. s.cols - 1 -> Cells]
      BY <3>1, <3>2
    <3>4. QED
      BY <3>1, <3>3
  <2>2. QED
    BY <2>1, PlainPenOK
<1>3. r0 \in Nat /\ r0 <= rows - 1 /\ c0 \in Nat /\ c0 <= cols - 1
  BY <1>1, ClampOK
<1>4. grid \in Grids
  BY <1>2, GridTyped
<1>5. High(0, rows - 1) = rows - 1 /\ rows - 1 \in Nat
  BY DEF High
<1> HIDE DEF grid, r0, c0
<1>6. t \in RawScreens /\ u \in RawScreens /\ v \in RawScreens
  BY <1>1, <1>3, <1>4, <1>5 DEF RawScreens
<1>7. /\ t.rows = rows /\ t.cols = cols /\ t.row = s.row /\ t.col = s.col
      /\ u.rows = rows /\ u.cols = cols /\ u.row = s.row /\ u.col = s.col
  BY <1>1 DEF RawScreens
<1>8. /\ v.rows = rows /\ v.cols = cols /\ v.grid = grid /\ v.back = s.back
      /\ v.row = r0 /\ v.col = c0 /\ v.top = 0 /\ v.bottom = rows - 1 /\ ~v.wrapPending
  BY <1>1, <1>5 DEF RawScreens
<1>9. v \in Screens
  <2> HIDE DEF v
  <2>1. GridFits(v) /\ Sized(v)
    BY <1>2, <1>3, <1>5, <1>8 DEF GridFits, Sized
  <2>2. QED
    BY <1>6, <1>8, <2>1, ScreenParts DEF Screens
<1>10. CASE rows = s.rows /\ cols = s.cols
  BY <1>10 DEF Resize
<1>11. CASE ~(rows = s.rows /\ cols = s.cols)
  <2>1. Resize(s, rows, cols) = SetCursor(ResetRegion(t), s.row, s.col)
    BY <1>11 DEF Resize, t, grid
  <2> HIDE DEF t
  <2>2. ResetRegion(t) = u
    BY <1>7 DEF ResetRegion
  <2> HIDE DEF u
  <2>3. SetCursor(u, s.row, s.col) = v
    BY <1>7 DEF SetCursor, v, r0, c0
  <2>4. QED
    BY <2>1, <2>2, <2>3, <1>8, <1>9
<1>12. QED
  BY <1>10, <1>11

LEMMA ResetOK ==
  ASSUME NEW s \in Screens, s.rows >= 1
  PROVE  Reset(s) \in Like(s)
<1> DEFINE grid == BlankGrid(s.rows, s.cols)
           t == [Unsized EXCEPT !.rows = s.rows, !.cols = s.cols, !.grid = grid]
           b == High(0, s.rows - 1)
           u == [t EXCEPT !.top = 0, !.bottom = b]
<1>1. s.rows \in Nat /\ s.cols \in Nat /\ s.cols >= 1
  BY ScreenParts, RawParts DEF Sized, NeverSized
<1>2. grid \in [0 .. s.rows - 1 -> [0 .. s.cols - 1 -> Cells]]
  BY <1>1, BlankOK
<1>3. grid \in Grids
  BY <1>1, <1>2, GridTyped
<1>4. b = s.rows - 1 /\ b \in Nat
  BY <1>1 DEF High
<1>5. Unsized \in RawScreens /\ Unsized.row = 0 /\ Unsized.col = 0 /\ Unsized.back = <<>>
      /\ Unsized.wrapPending = FALSE
  BY UnsizedOK, ScreenParts DEF Unsized
<1> HIDE DEF grid, b
<1>6. t \in RawScreens /\ t.rows = s.rows /\ t.cols = s.cols /\ t.grid = grid
      /\ t.row = 0 /\ t.col = 0 /\ t.back = <<>> /\ t.wrapPending = FALSE
  BY <1>1, <1>3, <1>5 DEF RawScreens
<1> HIDE DEF t
<1>7. u \in RawScreens /\ u.rows = s.rows /\ u.cols = s.cols /\ u.grid = grid
      /\ u.row = 0 /\ u.col = 0 /\ u.back = <<>> /\ u.wrapPending = FALSE
      /\ u.top = 0 /\ u.bottom = s.rows - 1
  BY <1>4, <1>6 DEF RawScreens
<1> HIDE DEF u
<1>8. GridFits(u) /\ Sized(u) /\ Len(u.back) <= Scrollback
  BY <1>1, <1>2, <1>7, ScrollbackAssumption DEF GridFits, Sized
<1>9. u \in Like(s)
  BY <1>7, <1>8 DEF Screens, Like
<1>10. Reset(s) = u
  BY <1>6 DEF Reset, ResetRegion, u, t, grid, b
<1>11. QED
  BY <1>9, <1>10

-------------------------------------------------------------------------------
\* Scrolling.

LEMMA TrimOK ==
  ASSUME NEW back \in Seq(Lines)
  PROVE  Trim(back) \in Seq(Lines) /\ Len(Trim(back)) <= Scrollback
<1>1. CASE Len(back) > Scrollback
  <2> DEFINE m == Len(back) - Scrollback + 1
  <2>1. m \in 1 .. Len(back) + 1 /\ Len(back) \in Nat /\ Len(back) - m + 1 = Scrollback
    BY <1>1, ScrollbackAssumption
  <2> HIDE DEF m
  <2>2. SubSeq(back, m, Len(back)) \in Seq(Lines)
        /\ Len(SubSeq(back, m, Len(back))) = Len(back) - m + 1
    BY <2>1
  <2>3. QED
    BY <2>1, <2>2, <1>1 DEF Trim, m
<1>2. CASE ~(Len(back) > Scrollback)
  BY <1>2, ScrollbackAssumption DEF Trim
<1>3. QED
  BY <1>1, <1>2

\* A step that stays inside the scroll region: the lines around it, and what scrolled
\* away unless the region is the whole screen, are as they were.
HoldsRegion(s, t) ==
  /\ t.top = s.top /\ t.bottom = s.bottom
  /\ t.row \in s.top .. s.bottom
  /\ \A r \in (0 .. s.rows - 1) \ (s.top .. s.bottom) : t.grid[r] = s.grid[r]
  /\ s.top .. s.bottom # 0 .. s.rows - 1 => t.back = s.back
Inside(s) == {t \in Like(s) : HoldsRegion(s, t)}

\* A new grid and scrollback.
LEMMA Redrawn ==
  ASSUME NEW s \in Screens, s.rows >= 1, NEW t \in RawScreens,
         SameFrame(s, t), GridFits(t), Len(t.back) <= Scrollback,
         t.row = s.row, t.col = s.col, t.wrapPending => t.col = s.cols - 1
  PROVE  t \in Like(s)
<1>1. Sized(t)
  BY ScreenParts, RawParts DEF Sized, NeverSized, SameFrame
<1>2. QED
  BY <1>1 DEF Screens, Like, SameFrame

LEMMA ScrollUpOK ==
  ASSUME NEW s \in Screens, s.rows >= 1
  PROVE  LET t == ScrollUp(s)
         IN  /\ t \in Like(s) /\ SameFrame(s, t) /\ t.row = s.row /\ t.col = s.col
             /\ \A r \in (0 .. s.rows - 1) \ (s.top .. s.bottom) : t.grid[r] = s.grid[r]
             /\ s.top .. s.bottom # 0 .. s.rows - 1 => t.back = s.back
<1> DEFINE whole == s.top = 0 /\ s.bottom = s.rows - 1
           back == IF whole THEN Trim(Append(s.back, s.grid[0])) ELSE s.back
           grid == [r \in 0 .. s.rows - 1 |->
                      IF r \notin s.top .. s.bottom THEN s.grid[r]
                      ELSE IF r = s.bottom THEN Blank(s.cols) ELSE s.grid[r + 1]]
           t == [s EXCEPT !.back = back, !.grid = grid]
<1>1. /\ s \in RawScreens /\ s.rows \in Nat /\ s.cols \in Nat /\ s.top \in Nat
      /\ s.bottom \in Nat /\ s.bottom <= s.rows - 1 /\ s.back \in Seq(Lines)
  BY ScreenParts, RawParts DEF Sized, NeverSized
<1>2. s.grid \in [0 .. s.rows - 1 -> [0 .. s.cols - 1 -> Cells]]
  BY ScreenParts DEF GridFits
<1>3. grid \in [0 .. s.rows - 1 -> [0 .. s.cols - 1 -> Cells]]
  <2>1. Blank(s.cols) \in [0 .. s.cols - 1 -> Cells]
    BY <1>1, BlankOK
  <2>2. ASSUME NEW r \in 0 .. s.rows - 1, r \in s.top .. s.bottom, r # s.bottom
        PROVE  r + 1 \in 0 .. s.rows - 1
    BY <1>1, <2>2
  <2> HIDE DEF whole, back
  <2>3. QED
    BY <1>2, <2>1, <2>2
<1>4. back \in Seq(Lines) /\ Len(back) <= Scrollback
  <2>1. s.grid[0] \in Lines
    <3>1. s.grid[0] \in [0 .. s.cols - 1 -> Cells]
      BY <1>1, <1>2
    <3>2. QED
      BY <1>1, <3>1 DEF Lines
  <2>2. Append(s.back, s.grid[0]) \in Seq(Lines)
    BY <1>1, <2>1
  <2>3. QED
    BY <1>1, <2>2, TrimOK, ScreenParts
<1>5. s.top .. s.bottom # 0 .. s.rows - 1 => back = s.back
  BY <1>1
<1>6. \A r \in (0 .. s.rows - 1) \ (s.top .. s.bottom) : grid[r] = s.grid[r]
  OBVIOUS
<1>7. grid \in Grids
  BY <1>1, <1>3, GridTyped
<1> HIDE DEF whole, back, grid
<1>8. t \in RawScreens
  BY <1>1, <1>4, <1>7 DEF RawScreens
<1>9. /\ SameFrame(s, t) /\ t.grid = grid /\ t.back = back
      /\ t.row = s.row /\ t.col = s.col /\ t.wrapPending = s.wrapPending
  BY <1>1 DEF RawScreens, SameFrame
<1>10. ScrollUp(s) = t
  BY DEF ScrollUp, whole, back, grid
<1>11. t \in Like(s)
  <2> HIDE DEF t
  <2>1. GridFits(t)
    BY <1>3, <1>9 DEF GridFits, SameFrame
  <2>2. QED
    BY <1>4, <1>8, <1>9, <2>1, Redrawn, ScreenParts
<1>12. QED
  <2> HIDE DEF t
  <2> QED
    BY <1>5, <1>6, <1>9, <1>10, <1>11

LEMMA ScrollDownOK ==
  ASSUME NEW s \in Screens, s.rows >= 1
  PROVE  ScrollDown(s) \in Like(s)
<1> DEFINE grid == [r \in 0 .. s.rows - 1 |->
                      IF r \notin s.top .. s.bottom THEN s.grid[r]
                      ELSE IF r = s.top THEN Blank(s.cols) ELSE s.grid[r - 1]]
           t == [s EXCEPT !.grid = grid]
<1>1. /\ s \in RawScreens /\ s.rows \in Nat /\ s.cols \in Nat /\ s.top \in Nat
      /\ s.bottom \in Nat /\ s.bottom <= s.rows - 1
  BY ScreenParts, RawParts DEF Sized, NeverSized
<1>2. s.grid \in [0 .. s.rows - 1 -> [0 .. s.cols - 1 -> Cells]]
  BY ScreenParts DEF GridFits
<1>3. grid \in [0 .. s.rows - 1 -> [0 .. s.cols - 1 -> Cells]]
  <2>1. Blank(s.cols) \in [0 .. s.cols - 1 -> Cells]
    BY <1>1, BlankOK
  <2>2. ASSUME NEW r \in 0 .. s.rows - 1, r \in s.top .. s.bottom, r # s.top
        PROVE  r - 1 \in 0 .. s.rows - 1
    BY <1>1, <2>2
  <2>3. QED
    BY <1>2, <2>1, <2>2
<1>4. grid \in Grids
  BY <1>1, <1>3, GridTyped
<1>5. ScrollDown(s) = t
  BY DEF ScrollDown
<1> HIDE DEF grid
<1>6. t \in RawScreens
  BY <1>1, <1>4 DEF RawScreens
<1>7. /\ SameFrame(s, t) /\ t.grid = grid /\ t.back = s.back
      /\ t.row = s.row /\ t.col = s.col /\ t.wrapPending = s.wrapPending
  BY <1>1 DEF RawScreens, SameFrame
<1>8. t \in Like(s)
  <2> HIDE DEF t
  <2>1. GridFits(t)
    BY <1>3, <1>7 DEF GridFits, SameFrame
  <2>2. QED
    BY <1>6, <1>7, <2>1, Redrawn, ScreenParts
<1>9. QED
  BY <1>5, <1>8

\* The cursor is set to a row of the screen, and no wrap is pending.
LEMMA GoesTo ==
  ASSUME NEW s \in Screens, s.rows >= 1, NEW t,
         NEW row \in Nat, row <= s.rows - 1, NEW col \in Nat, col <= s.cols - 1,
         t = [[s EXCEPT !.row = row] EXCEPT !.wrapPending = FALSE], col = s.col
  PROVE  /\ t \in Like(s) /\ SameFrame(s, t) /\ t.grid = s.grid /\ t.back = s.back
         /\ t.row = row /\ t.col = col /\ t.wrapPending = FALSE
<1>1. s \in RawScreens
  BY ScreenParts
<1>2. t \in RawScreens
  BY <1>1 DEF RawScreens
<1>3. /\ SameFrame(s, t) /\ t.grid = s.grid /\ t.back = s.back
      /\ t.row = row /\ t.col = col /\ t.wrapPending = FALSE
  BY <1>1 DEF RawScreens, SameFrame
<1>4. QED
  BY <1>2, <1>3, Moved

LEMMA UnwrapOK ==
  ASSUME NEW s \in Screens, s.rows >= 1
  PROVE  LET t == [s EXCEPT !.wrapPending = FALSE]
         IN  /\ t \in Like(s) /\ SameFrame(s, t) /\ t.grid = s.grid /\ t.back = s.back
             /\ t.row = s.row /\ t.col = s.col /\ t.wrapPending = FALSE
             /\ t.wraparound = s.wraparound /\ t.pen = s.pen
<1> DEFINE t == [s EXCEPT !.wrapPending = FALSE]
<1>1. s \in RawScreens
  BY ScreenParts
<1>2. t \in RawScreens
  BY <1>1 DEF RawScreens
<1>3. /\ SameFrame(s, t) /\ t.grid = s.grid /\ t.back = s.back
      /\ t.row = s.row /\ t.col = s.col /\ t.wrapPending = FALSE
      /\ t.wraparound = s.wraparound /\ t.pen = s.pen
  BY <1>1 DEF RawScreens, SameFrame
<1> HIDE DEF t
<1>4. t \in Like(s)
  BY <1>2, <1>3, Moved, ScreenParts DEF Sized, NeverSized
<1>5. QED
  BY <1>3, <1>4 DEF t

\* A line feed never leaves the region that it begins in.
LEMMA IndexOK ==
  ASSUME NEW s \in Screens, s.rows >= 1
  PROVE  /\ Index(s) \in Like(s) /\ Index(s).wrapPending = FALSE /\ Index(s).col = s.col
         /\ s.row \in s.top .. s.bottom => Index(s) \in Inside(s)
<1>1. /\ s.rows \in Nat /\ s.row \in Nat /\ s.col \in Nat /\ s.cols \in Nat
      /\ s.top \in Nat /\ s.bottom \in Nat
      /\ s.row <= s.rows - 1 /\ s.col <= s.cols - 1 /\ s.bottom <= s.rows - 1
      /\ s.top <= s.bottom
  BY ScreenParts, RawParts DEF Sized, NeverSized
<1>2. CASE s.row = s.bottom
  <2> DEFINE t == ScrollUp(s)
             u == [t EXCEPT !.wrapPending = FALSE]
  <2>1. /\ t \in Like(s) /\ SameFrame(s, t) /\ t.row = s.row /\ t.col = s.col
        /\ \A r \in (0 .. s.rows - 1) \ (s.top .. s.bottom) : t.grid[r] = s.grid[r]
        /\ s.top .. s.bottom # 0 .. s.rows - 1 => t.back = s.back
    BY ScrollUpOK
  <2> HIDE DEF t
  <2>2. t \in Screens /\ t.rows >= 1
    BY <2>1 DEF Like
  <2>3. /\ u \in Like(t) /\ SameFrame(t, u) /\ u.grid = t.grid /\ u.back = t.back
        /\ u.row = t.row /\ u.col = t.col /\ u.wrapPending = FALSE
    BY <2>2, UnwrapOK
  <2>4. Index(s) = u
    BY <1>2 DEF Index, t
  <2> HIDE DEF u
  <2>5. u \in Like(s)
    BY <2>1, <2>3 DEF Like
  <2>6. QED
    BY <1>1, <1>2, <2>1, <2>3, <2>4, <2>5 DEF Inside, HoldsRegion, SameFrame
<1>3. CASE s.row # s.bottom
  <2> DEFINE r == Low(s.row + 1, s.rows - 1)
             t == [[s EXCEPT !.row = r] EXCEPT !.wrapPending = FALSE]
  <2>1. /\ r \in Nat /\ r <= s.rows - 1
        /\ s.row \in s.top .. s.bottom => r \in s.top .. s.bottom
    BY <1>1, <1>3 DEF Low
  <2> HIDE DEF r
  <2>2. /\ t \in Like(s) /\ SameFrame(s, t) /\ t.grid = s.grid /\ t.back = s.back
        /\ t.row = r /\ t.col = s.col /\ t.wrapPending = FALSE
    BY <1>1, <2>1, GoesTo
  <2>3. Index(s) = t
    BY <1>3 DEF Index, r
  <2> HIDE DEF t
  <2>4. QED
    BY <1>1, <2>1, <2>2, <2>3 DEF Inside, HoldsRegion, SameFrame
<1>4. QED
  BY <1>2, <1>3

LEMMA ReverseIndexOK ==
  ASSUME NEW s \in Screens, s.rows >= 1
  PROVE  ReverseIndex(s) \in Like(s)
<1>1. /\ s.rows \in Nat /\ s.row \in Nat /\ s.col \in Nat /\ s.cols \in Nat
      /\ s.row <= s.rows - 1 /\ s.col <= s.cols - 1
  BY ScreenParts, RawParts DEF Sized, NeverSized
<1>2. CASE s.row = s.top
  <2> DEFINE t == ScrollDown(s)
  <2>1. t \in Like(s)
    BY ScrollDownOK
  <2>2. ReverseIndex(s) = [t EXCEPT !.wrapPending = FALSE]
    BY <1>2 DEF ReverseIndex
  <2> HIDE DEF t
  <2>3. [t EXCEPT !.wrapPending = FALSE] \in Like(t)
    BY <2>1, UnwrapOK DEF Like
  <2>4. QED
    BY <2>1, <2>2, <2>3 DEF Like
<1>3. CASE s.row # s.top
  <2> DEFINE r == High(s.row - 1, 0)
             t == [[s EXCEPT !.row = r] EXCEPT !.wrapPending = FALSE]
  <2>1. r \in Nat /\ r <= s.rows - 1
    BY <1>1, <1>3 DEF High
  <2> HIDE DEF r
  <2>2. t \in Like(s)
    BY <1>1, <2>1, GoesTo
  <2>3. ReverseIndex(s) = t
    BY <1>3 DEF ReverseIndex, r
  <2>4. QED
    BY <2>2, <2>3
<1>4. QED
  BY <1>2, <1>3

LEMMA InsideInside ==
  ASSUME NEW s, NEW t \in Inside(s), NEW u \in Inside(t)
  PROVE  u \in Inside(s)
<1>1. /\ t.rows = s.rows /\ t.cols = s.cols /\ t.top = s.top /\ t.bottom = s.bottom
      /\ \A r \in (0 .. s.rows - 1) \ (s.top .. s.bottom) : t.grid[r] = s.grid[r]
      /\ s.top .. s.bottom # 0 .. s.rows - 1 => t.back = s.back
  BY DEF Inside, HoldsRegion, Like
<1>2. /\ u \in Screens /\ u.rows = t.rows /\ u.cols = t.cols /\ u.top = t.top
      /\ u.bottom = t.bottom /\ u.row \in t.top .. t.bottom
      /\ \A r \in (0 .. t.rows - 1) \ (t.top .. t.bottom) : u.grid[r] = t.grid[r]
      /\ t.top .. t.bottom # 0 .. t.rows - 1 => u.back = t.back
  BY DEF Inside, HoldsRegion, Like
<1>3. QED
  BY <1>1, <1>2 DEF Inside, HoldsRegion, Like

\* A step along the line.
LEMMA AlongOK ==
  ASSUME NEW s \in Screens, s.rows >= 1, NEW col \in Nat, col <= s.cols - 1
  PROVE  LET t == [s EXCEPT !.col = col, !.wrapPending = FALSE]
         IN  /\ t \in Like(s) /\ t.wrapPending = FALSE
             /\ s.row \in s.top .. s.bottom => t \in Inside(s)
<1> DEFINE t == [s EXCEPT !.col = col, !.wrapPending = FALSE]
<1>1. s.row \in Nat /\ s.row <= s.rows - 1
  BY ScreenParts, RawParts DEF Sized, NeverSized
<1>2. /\ t \in Like(s) /\ SameFrame(s, t) /\ t.grid = s.grid /\ t.back = s.back
      /\ t.row = s.row /\ t.wrapPending = FALSE
  <2>1. s \in RawScreens
    BY ScreenParts
  <2>2. t \in RawScreens
    BY <2>1 DEF RawScreens
  <2>3. /\ SameFrame(s, t) /\ t.grid = s.grid /\ t.back = s.back
        /\ t.row = s.row /\ t.col = col /\ t.wrapPending = FALSE
    BY <2>1 DEF RawScreens, SameFrame
  <2> HIDE DEF t
  <2>4. QED
    BY <1>1, <2>2, <2>3, Moved
<1> HIDE DEF t
<1>3. s.row \in s.top .. s.bottom => t \in Inside(s)
  BY <1>2 DEF Inside, HoldsRegion, SameFrame
<1>4. QED
  BY <1>2, <1>3 DEF t

LEMMA CarriageReturnOK ==
  ASSUME NEW s \in Screens, s.rows >= 1
  PROVE  /\ CarriageReturn(s) \in Like(s)
         /\ s.row \in s.top .. s.bottom => CarriageReturn(s) \in Inside(s)
<1>1. s.cols \in Nat /\ 0 <= s.cols - 1
  BY ScreenParts, RawParts DEF Sized, NeverSized
<1>2. QED
  BY <1>1, AlongOK DEF CarriageReturn

LEMMA NewlineOK ==
  ASSUME NEW s \in Screens, s.rows >= 1
  PROVE  /\ Newline(s) \in Like(s) /\ Newline(s).wrapPending = FALSE
         /\ s.row \in s.top .. s.bottom => Newline(s) \in Inside(s)
<1> DEFINE t == CarriageReturn(s)
<1>1. t \in Like(s) /\ (s.row \in s.top .. s.bottom => t \in Inside(s))
  BY CarriageReturnOK
<1> HIDE DEF t
<1>2. t \in Screens /\ t.rows >= 1
  BY <1>1 DEF Like
<1>3. /\ Index(t) \in Like(t) /\ Index(t).wrapPending = FALSE
      /\ t.row \in t.top .. t.bottom => Index(t) \in Inside(t)
  BY <1>2, IndexOK
<1>4. s.row \in s.top .. s.bottom => Index(t) \in Inside(s)
  <2>1. SUFFICES ASSUME s.row \in s.top .. s.bottom PROVE Index(t) \in Inside(s)
    OBVIOUS
  <2>2. t \in Inside(s)
    BY <1>1, <2>1
  <2>3. t.row \in t.top .. t.bottom
    BY <2>2 DEF Inside, HoldsRegion
  <2>4. QED
    BY <1>3, <2>2, <2>3, InsideInside
<1>5. Index(t) \in Like(s)
  BY <1>1, <1>3, LikeLike
<1>6. QED
  BY <1>3, <1>4, <1>5 DEF Newline, t

LEMMA BackspaceOK ==
  ASSUME NEW s \in Screens, s.rows >= 1
  PROVE  /\ Backspace(s) \in Like(s)
         /\ s.row \in s.top .. s.bottom => Backspace(s) \in Inside(s)
<1> DEFINE col == IF s.wrapPending THEN s.col ELSE High(s.col - 1, 0)
<1>1. s.col \in Nat /\ s.cols \in Nat /\ s.col <= s.cols - 1
  BY ScreenParts, RawParts DEF Sized, NeverSized
<1>2. col \in Nat /\ col <= s.cols - 1
  BY <1>1 DEF High
<1>3. Backspace(s) = [s EXCEPT !.col = col, !.wrapPending = FALSE]
  BY DEF Backspace
<1> HIDE DEF col
<1>4. QED
  BY <1>2, <1>3, AlongOK

LEMMA TabOK ==
  ASSUME NEW s \in Screens, s.rows >= 1
  PROVE  /\ Tab(s) \in Like(s)
         /\ s.row \in s.top .. s.bottom => Tab(s) \in Inside(s)
<1> DEFINE stop == ((s.col \div 8) + 1) * 8
           col == Low(s.cols - 1, stop)
<1>1. s.col \in Nat /\ s.cols \in Nat /\ 0 <= s.cols - 1
  BY ScreenParts, RawParts DEF Sized, NeverSized
<1>2. stop \in Nat
  BY <1>1
<1> HIDE DEF stop
<1>3. col \in Nat /\ col <= s.cols - 1
  BY <1>1, <1>2 DEF Low
<1>4. Tab(s) = [s EXCEPT !.col = col, !.wrapPending = FALSE]
  BY DEF Tab, stop
<1> HIDE DEF col
<1>5. QED
  BY <1>3, <1>4, AlongOK

-------------------------------------------------------------------------------
\* Glyphs.

LEMMA WrappedOK ==
  ASSUME NEW s \in Screens, s.rows >= 1
  PROVE  /\ Wrapped(s) \in Like(s)
         /\ s.row \in s.top .. s.bottom => Wrapped(s) \in Inside(s)
<1>1. CASE s.wrapPending /\ s.wraparound
  BY <1>1, NewlineOK DEF Wrapped
<1>2. CASE ~(s.wrapPending /\ s.wraparound)
  BY <1>2 DEF Wrapped, Inside, HoldsRegion, Like
<1>3. QED
  BY <1>1, <1>2

\* The room for a glyph; where it is not on a line of its own, a wrap that is pending will
\* be due again behind the glyph.
Room(s, u, width) ==
  /\ u \in RawScreens /\ u.rows = s.rows /\ u.cols = s.cols
  /\ GridFits(u) /\ Sized(u) /\ Len(u.back) <= Scrollback
  /\ u.wrapPending => u.col + width >= u.cols
  /\ s.row \in s.top .. s.bottom => HoldsRegion(s, u)

LEMMA FittedOK ==
  ASSUME NEW s \in Screens, s.rows >= 1, NEW width \in 1 .. 2
  PROVE  Room(s, Fitted(s, width), width)
<1>1. /\ s \in RawScreens /\ s.rows \in Nat /\ s.row \in Nat /\ s.col \in Nat /\ s.cols \in Nat
      /\ Sized(s)
  BY ScreenParts, RawParts DEF NeverSized
<1>2. CASE s.col + width <= s.cols
  <2>1. Fitted(s, width) = s
    BY <1>2 DEF Fitted
  <2>2. s.wrapPending => s.col + width >= s.cols
    BY <1>1, ScreenParts
  <2>3. s.row \in s.top .. s.bottom => HoldsRegion(s, s)
    BY DEF HoldsRegion
  <2>4. QED
    BY <1>1, <2>1, <2>2, <2>3, ScreenParts DEF Room
<1>3. CASE ~(s.col + width <= s.cols) /\ s.wraparound
  <2> DEFINE u == Newline(s)
  <2>1. Fitted(s, width) = u
    BY <1>3 DEF Fitted
  <2>2. u \in Like(s) /\ u.wrapPending = FALSE /\ (s.row \in s.top .. s.bottom => u \in Inside(s))
    BY NewlineOK
  <2> HIDE DEF u
  <2>3. u \in Screens /\ u.rows = s.rows /\ u.cols = s.cols
    BY <2>2 DEF Like
  <2>4. u \in RawScreens /\ GridFits(u) /\ Sized(u) /\ Len(u.back) <= Scrollback
    BY <1>1, <2>3, ScreenParts DEF NeverSized, Sized
  <2>5. QED
    BY <2>1, <2>2, <2>3, <2>4 DEF Room, Inside
<1>4. CASE ~(s.col + width <= s.cols) /\ ~s.wraparound
  <2> DEFINE col == High(s.cols - width, 0)
             u == [s EXCEPT !.col = col]
  <2>1. col \in Nat /\ col <= s.cols - 1 /\ col + width >= s.cols
    BY <1>1 DEF High, Sized
  <2> HIDE DEF col
  <2>2. u \in RawScreens
    BY <1>1, <2>1 DEF RawScreens
  <2>3. /\ SameFrame(s, u) /\ u.grid = s.grid /\ u.back = s.back /\ u.row = s.row /\ u.col = col
    BY <1>1 DEF RawScreens, SameFrame
  <2>4. Fitted(s, width) = u
    BY <1>4 DEF Fitted, col
  <2> HIDE DEF u
  <2>5. GridFits(u) /\ Sized(u) /\ Len(u.back) <= Scrollback
    BY <1>1, <2>1, <2>3, ScreenParts DEF GridFits, Sized, SameFrame
  <2>6. s.row \in s.top .. s.bottom => HoldsRegion(s, u)
    BY <2>3 DEF HoldsRegion, SameFrame
  <2>7. u.col + width >= u.cols /\ u.rows = s.rows /\ u.cols = s.cols
    BY <2>1, <2>3 DEF SameFrame
  <2>8. QED
    BY <2>2, <2>4, <2>5, <2>6, <2>7 DEF Room
<1>5. QED
  BY <1>2, <1>3, <1>4

LEMMA PutGlyphOK ==
  ASSUME NEW s0 \in Screens, s0.rows >= 1, NEW ch \in Names, NEW width \in 1 .. 2
  PROVE  /\ PutGlyph(s0, ch, width) \in Like(s0)
         /\ s0.row \in s0.top .. s0.bottom => PutGlyph(s0, ch, width) \in Inside(s0)
<1> DEFINE w == Wrapped(s0)
           s == Fitted(w, width)
           end == s.col + width
           line == [c \in 0 .. s.cols - 1 |->
                      IF c = s.col THEN Cell(ch, width, s.pen)
                      ELSE IF width = 2 /\ c = s.col + 1 THEN Cell("", 0, s.pen)
                      ELSE s.grid[s.row][c]]
           grid == [s.grid EXCEPT ![s.row] = line]
           col == Low(end, s.cols - 1)
           pending == IF end >= s.cols THEN s.wraparound ELSE s.wrapPending
           t == [s EXCEPT !.grid = grid, !.col = col, !.wrapPending = pending]
<1>1. w \in Like(s0) /\ (s0.row \in s0.top .. s0.bottom => w \in Inside(s0))
  BY WrappedOK
<1>2. w \in Screens /\ w.rows >= 1 /\ w.rows = s0.rows /\ w.cols = s0.cols
  BY <1>1 DEF Like
<1> HIDE DEF w
<1>3. Room(w, s, width)
  BY <1>2, FittedOK
<1>4. PutGlyph(s0, ch, width) = t
  BY DEF PutGlyph, w
<1> HIDE DEF s
<1>5. /\ s \in RawScreens /\ s.rows \in Nat /\ s.cols \in Nat /\ s.row \in Nat /\ s.col \in Nat
      /\ s.pen \in Pens /\ s.wraparound \in BOOLEAN /\ s.wrapPending \in BOOLEAN
      /\ s.row <= s.rows - 1 /\ s.col <= s.cols - 1
      /\ s.grid \in [0 .. s.rows - 1 -> [0 .. s.cols - 1 -> Cells]]
  BY <1>3, RawParts DEF Room, GridFits, Sized
<1>6. line \in [0 .. s.cols - 1 -> Cells]
  <2>1. Cell(ch, width, s.pen) \in Cells /\ Cell("", 0, s.pen) \in Cells
    <3>1. "" \in Names
      BY DEF Names
    <3>2. 0 \in 0 .. 2 /\ width \in 0 .. 2
      OBVIOUS
    <3>3. s.pen \in Pens
      BY <1>5
    <3>4. Cell(ch, width, s.pen) \in Cells
      BY <3>1, <3>2, <3>3, CellOK
    <3>5. Cell("", 0, s.pen) \in Cells
      BY <3>1, <3>2, <3>3, CellOK
    <3>6. QED
      BY <3>4, <3>5
  <2>2. s.row \in 0 .. s.rows - 1
    BY <1>5
  <2>3. s.grid[s.row] \in [0 .. s.cols - 1 -> Cells]
    BY <1>5, <2>2
  <2>4. QED
    BY <2>1, <2>3
<1> HIDE DEF line
<1>7. /\ grid \in [0 .. s.rows - 1 -> [0 .. s.cols - 1 -> Cells]]
      /\ \A r \in 0 .. s.rows - 1 : r # s.row => grid[r] = s.grid[r]
  BY <1>5, <1>6
<1>8. grid \in Grids
  BY <1>5, <1>7, GridTyped
<1>9. /\ end \in Nat /\ col \in Nat /\ col <= s.cols - 1 /\ pending \in BOOLEAN
      /\ pending => col = s.cols - 1
  BY <1>3, <1>5 DEF Low, Room
<1> HIDE DEF grid, end, col, pending
<1>10. t \in RawScreens
  BY <1>5, <1>8, <1>9 DEF RawScreens
<1>11. /\ SameFrame(s, t) /\ t.grid = grid /\ t.back = s.back /\ t.row = s.row /\ t.col = col
       /\ t.wrapPending = pending
  BY <1>5 DEF RawScreens, SameFrame
<1> HIDE DEF t
<1>12. t \in Screens
  <2>1. GridFits(t) /\ Len(t.back) <= Scrollback
    BY <1>3, <1>7, <1>11 DEF GridFits, SameFrame, Room
  <2>2. Sized(t)
    BY <1>3, <1>9, <1>11 DEF Sized, SameFrame, Room
  <2>3. QED
    BY <1>9, <1>10, <1>11, <2>1, <2>2 DEF Screens, SameFrame
<1>13. t \in Like(s0)
  BY <1>2, <1>3, <1>11, <1>12 DEF Like, SameFrame, Room
<1>14. ASSUME s0.row \in s0.top .. s0.bottom
       PROVE  t \in Inside(s0)
  <2>1. w \in Inside(s0) /\ w.row \in w.top .. w.bottom
    BY <1>1, <1>14 DEF Inside, HoldsRegion
  <2>2. HoldsRegion(w, s)
    BY <1>3, <2>1 DEF Room
  <2>3. s.row \in w.top .. w.bottom /\ s.rows = w.rows
    BY <1>3, <2>2 DEF HoldsRegion, Room
  <2>4. HoldsRegion(w, t)
    BY <1>7, <1>11, <2>2, <2>3 DEF HoldsRegion, SameFrame
  <2>5. t \in Inside(w)
    BY <1>2, <1>13, <2>4 DEF Inside, Like
  <2>6. QED
    BY <2>1, <2>5, InsideInside
<1>15. QED
  BY <1>4, <1>13, <1>14

\* Whatever is printed, a character, a wide glyph or a control, keeps the screen a screen
\* and stays inside the region.
LEMMA PutCodepointOK ==
  ASSUME NEW s \in Screens, s.rows >= 1, NEW ch \in Names, NEW width \in 1 .. 2
  PROVE  /\ PutCodepoint(s, ch, width) \in Like(s)
         /\ s.row \in s.top .. s.bottom => PutCodepoint(s, ch, width) \in Inside(s)
<1>1. s \in Like(s) /\ (s.row \in s.top .. s.bottom => s \in Inside(s))
  BY DEF Like, Inside, HoldsRegion
<1>2. QED
  BY <1>1, NewlineOK, CarriageReturnOK, BackspaceOK, TabOK, PutGlyphOK DEF PutCodepoint

-------------------------------------------------------------------------------
\* Erasing.

LEMMA EraseOK ==
  ASSUME NEW s \in Screens, s.rows >= 1, NEW cells
  PROVE  Erase(s, cells) \in Like(s)
<1> DEFINE grid == [r \in 0 .. s.rows - 1 |-> [c \in 0 .. s.cols - 1 |->
                      IF <<r, c>> \in cells THEN Empty ELSE s.grid[r][c]]]
           t == [s EXCEPT !.grid = grid]
<1>1. s \in RawScreens /\ s.rows \in Nat /\ s.cols \in Nat
  BY ScreenParts, RawParts
<1>2. grid \in [0 .. s.rows - 1 -> [0 .. s.cols - 1 -> Cells]]
  <2>1. s.grid \in [0 .. s.rows - 1 -> [0 .. s.cols - 1 -> Cells]]
    BY ScreenParts DEF GridFits
  <2>2. QED
    BY <2>1, PlainPenOK
<1>3. grid \in Grids
  BY <1>1, <1>2, GridTyped
<1>4. Erase(s, cells) = t
  BY DEF Erase
<1> HIDE DEF grid
<1>5. t \in RawScreens
  BY <1>1, <1>3 DEF RawScreens
<1>6. /\ SameFrame(s, t) /\ t.grid = grid /\ t.back = s.back
      /\ t.row = s.row /\ t.col = s.col /\ t.wrapPending = s.wrapPending
  BY <1>1 DEF RawScreens, SameFrame
<1> HIDE DEF t
<1>7. GridFits(t)
  BY <1>2, <1>6 DEF GridFits, SameFrame
<1>8. QED
  BY <1>4, <1>5, <1>6, <1>7, Redrawn, ScreenParts

LEMMA ClearOK ==
  ASSUME NEW s \in Screens, s.rows >= 1, NEW back, back = <<>> \/ back = s.back
  PROVE  [s EXCEPT !.grid = BlankGrid(s.rows, s.cols), !.wrapPending = FALSE, !.back = back]
           \in Like(s)
<1> DEFINE grid == BlankGrid(s.rows, s.cols)
           t == [s EXCEPT !.grid = grid, !.wrapPending = FALSE, !.back = back]
<1>1. s \in RawScreens /\ s.rows \in Nat /\ s.cols \in Nat /\ s.back \in Seq(Lines)
  BY ScreenParts, RawParts
<1>2. grid \in [0 .. s.rows - 1 -> [0 .. s.cols - 1 -> Cells]]
  BY <1>1, BlankOK
<1>3. grid \in Grids
  BY <1>1, <1>2, GridTyped
<1>4. back \in Seq(Lines) /\ Len(back) <= Scrollback
  <2>1. CASE back = <<>>
    BY <2>1, ScrollbackAssumption
  <2>2. CASE back = s.back
    BY <1>1, <2>2, ScreenParts
  <2>3. QED
    BY <2>1, <2>2
<1> HIDE DEF grid
<1>5. t \in RawScreens
  BY <1>1, <1>3, <1>4 DEF RawScreens
<1>6. /\ SameFrame(s, t) /\ t.grid = grid /\ t.back = back
      /\ t.row = s.row /\ t.col = s.col /\ t.wrapPending = FALSE
  BY <1>1 DEF RawScreens, SameFrame
<1>7. t \in Like(s)
  <2> HIDE DEF t
  <2>1. GridFits(t)
    BY <1>2, <1>6 DEF GridFits, SameFrame
  <2>2. QED
    BY <1>4, <1>5, <1>6, <2>1, Redrawn
<1>8. QED
  BY <1>7 DEF grid

LEMMA EraseInLineOK ==
  ASSUME NEW s \in Screens, s.rows >= 1, NEW mode \in Nat
  PROVE  EraseInLine(s, mode) \in Like(s)
BY EraseOK, LikeItself DEF EraseInLine

LEMMA EraseInDisplayOK ==
  ASSUME NEW s \in Screens, s.rows >= 1, NEW mode \in Nat
  PROVE  EraseInDisplay(s, mode) \in Like(s)
<1>1. CASE mode \in {2, 3}
  <2>1. [s EXCEPT !.grid = BlankGrid(s.rows, s.cols), !.wrapPending = FALSE, !.back = <<>>]
          \in Like(s)
    BY ClearOK
  <2>2. [s EXCEPT !.grid = BlankGrid(s.rows, s.cols), !.wrapPending = FALSE, !.back = s.back]
          \in Like(s)
    BY ClearOK
  <2>3. CASE mode = 2
    BY <2>2, <2>3 DEF EraseInDisplay
  <2>4. CASE mode = 3
    BY <2>1, <2>4 DEF EraseInDisplay
  <2>5. QED
    BY <1>1, <2>3, <2>4
<1>2. CASE mode \notin {2, 3}
  BY <1>2, EraseOK, LikeItself DEF EraseInDisplay
<1>3. QED
  BY <1>1, <1>2

-------------------------------------------------------------------------------
\* The parser.

VtStates == {"Ground", "Escape", "Csi", "Osc", "Utf8"}
RawParsers ==
  [st : VtStates, csi : Seq(STRING), private : BOOLEAN, osc : Seq(STRING), lead : Names, need : Nat]
Parsers == {v \in RawParsers : v.st = "Utf8" => v.lead \in DOMAIN Need}

\* The terminals with a screen of the size of s.
Terms(s) == [vt : Parsers, scr : Like(s)]

LEMMA GroundOK == Ground \in Parsers
<1>1. Ground \in RawParsers
  BY DEF RawParsers, Ground, VtStates, Names
<1>2. QED
  BY <1>1 DEF Parsers, Ground

\* params(): numbers, one of them unfinished.
Accs == [list : Seq(Nat), num : Nat, has : BOOLEAN]

LEMMA ParamStepOK ==
  ASSUME NEW acc \in Accs, NEW ch \in STRING
  PROVE  ParamStep(acc, ch) \in Accs
<1>1. acc.list \in Seq(Nat) /\ acc.num \in Nat
  BY DEF Accs
<1>2. CASE ch \in Separators
  <2>1. Append(acc.list, acc.num) \in Seq(Nat)
    BY <1>1
  <2>2. QED
    BY <1>2, <2>1 DEF Accs, ParamStep
<1>3. CASE ch \in Digits
  <2>1. Value[ch] \in Nat
    BY <1>3 DEF Digits, Value
  <2> DEFINE n == acc.num * 10 + Value[ch]
  <2>2. n \in Nat
    BY <1>1, <2>1
  <2> HIDE DEF n
  <2>3. [acc EXCEPT !.num = n, !.has = TRUE] \in Accs
    BY <2>2 DEF Accs
  <2>4. QED
    <3>1. CASE ch \in Markers \cup Separators
      BY <1>2, <3>1 DEF ParamStep
    <3>2. CASE ch \notin Markers \cup Separators
      BY <1>3, <2>3, <3>2 DEF ParamStep, n
    <3>3. QED
      BY <3>1, <3>2
<1>4. CASE ch \notin Separators /\ ch \notin Digits
  BY <1>4 DEF ParamStep
<1>5. QED
  BY <1>2, <1>3, <1>4

LEMMA ParamFoldOK ==
  ASSUME NEW buf \in Seq(STRING)
  PROVE  FoldLeft(ParamStep, [list |-> <<>>, num |-> 0, has |-> FALSE], buf) \in Accs
<1> DEFINE base == [list |-> <<>>, num |-> 0, has |-> FALSE]
           seq == buf
           N == Len(buf)
           Step(f, s) == IF s = {} THEN base ELSE ParamStep(f[s \ {Max(s)}], seq[Max(s)])
           iter == CHOOSE f : f = [s \in SUBSET DOMAIN seq |-> Step(f, s)]
           G == [p \in Accs \X (1 .. N) |-> ParamStep(p[1], seq[p[2]])]
<1>1. N \in Nat /\ DOMAIN seq = 1 .. N
  OBVIOUS
<1>2. \A i \in 1 .. N : seq[i] \in STRING
  OBVIOUS
<1>3. FoldLeft(ParamStep, [list |-> <<>>, num |-> 0, has |-> FALSE], buf) = iter[DOMAIN seq]
  BY DEF FoldLeft, MapThenFoldSet
<1>4. base \in Accs
  BY DEF Accs
<1> HIDE DEF base, seq, N
<1>5. \A acc \in Accs, i \in 1 .. N : ParamStep(acc, seq[i]) \in Accs
  BY <1>2, ParamStepOK
<1>6. G \in [Accs \X (1 .. N) -> Accs]
  BY <1>5
<1>7. \E f : f = [s \in SUBSET DOMAIN seq |-> Step(f, s)]
  <2> HIDE DEF G
  <2>1. PICK f : FoldOf(f, Accs, base, N, G)
    BY <1>1, <1>4, <1>6, FoldExists
  <2>2. ASSUME NEW s \in SUBSET (1 .. N) PROVE f[s] = Step(f, s)
    <3>1. CASE s = {}
      BY <2>1, <3>1 DEF FoldOf
    <3>2. CASE s # {}
      <4>1. Max(s) \in 1 .. N /\ f[s \ {Max(s)}] \in Accs
        BY <1>1, <2>1, <3>2, MaxIsIn DEF FoldOf
      <4>2. G[<<f[s \ {Max(s)}], Max(s)>>] = ParamStep(f[s \ {Max(s)}], seq[Max(s)])
        BY <4>1 DEF G
      <4>3. QED
        BY <2>1, <3>2, <4>2 DEF FoldOf
    <3>3. QED
      BY <3>1, <3>2
  <2>3. f = [s \in SUBSET DOMAIN seq |-> Step(f, s)]
    <3>1. f = [s \in SUBSET (1 .. N) |-> f[s]]
      BY <2>1 DEF FoldOf
    <3> HIDE DEF Step
    <3>2. QED
      BY <1>1, <2>2, <3>1
  <2>4. QED
    BY <2>3
<1>8. iter = [s \in SUBSET DOMAIN seq |-> Step(iter, s)]
  <2> HIDE DEF Step
  <2> QED
    BY <1>7
<1> HIDE DEF iter
<1>9. iter[{}] \in Accs
  BY <1>4, <1>8
<1>10. ASSUME NEW k \in 1 .. N, iter[1 .. (k - 1)] \in Accs
       PROVE  iter[1 .. k] \in Accs
  <2>1. Max(1 .. k) = k /\ (1 .. k) \ {k} = 1 .. (k - 1)
    <3>1. k \in Nat \ {0}
      BY <1>1
    <3>2. QED
      BY <3>1, MaxOfInterval
  <2>2. k \in Nat \ {0} /\ k <= N
    BY <1>1
  <2>3. k \in 1 .. k
    BY <2>2
  <2>4. 1 .. k \in SUBSET DOMAIN seq
    BY <1>1, <2>2
  <2>5. iter[1 .. k] = ParamStep(iter[1 .. (k - 1)], seq[k])
    BY <1>8, <2>1, <2>3, <2>4
  <2>6. QED
    BY <1>5, <1>10, <2>5
<1>11. iter[1 .. N] \in Accs
  BY <1>1, <1>9, <1>10, PrefixInduction
<1>12. QED
  BY <1>1, <1>3, <1>11

LEMMA ParamsOK ==
  ASSUME NEW buf \in Seq(STRING)
  PROVE  Params(buf) \in Seq(Nat)
<1> DEFINE all == FoldLeft(ParamStep, [list |-> <<>>, num |-> 0, has |-> FALSE], buf)
<1>1. all.list \in Seq(Nat) /\ all.num \in Nat
  BY ParamFoldOK DEF Accs
<1> HIDE DEF all
<1>2. Append(all.list, all.num) \in Seq(Nat)
  BY <1>1
<1>3. QED
  BY <1>1, <1>2 DEF Params, all

LEMMA ParamOK ==
  ASSUME NEW ps \in Seq(Nat), NEW i \in Nat \ {0}, NEW fallback \in Nat
  PROVE  Param(ps, i, fallback) \in Nat
<1>1. CASE i > Len(ps)
  BY <1>1 DEF Param
<1>2. CASE i <= Len(ps)
  <2>1. ps[i] \in Nat
    BY <1>2
  <2>2. QED
    BY <1>2, <2>1 DEF Param
<1>3. QED
  BY <1>1, <1>2

\* apply_sgr(): a pen, and the numbers that a colour took.
SgrAccs == [pen : Pens, skip : Nat]

LEMMA ColourOK ==
  ASSUME NEW p \in Pens, NEW n \in Colours, NEW field \in {"fg", "bg"}
  PROVE  Colour(p, field, n) \in Pens
<1>1. CASE field = "fg"
  <2>1. [p EXCEPT !["fg"] = n] \in Pens
    BY DEF Pens
  <2>2. QED
    BY <1>1, <2>1 DEF Colour
<1>2. CASE field = "bg"
  <2>1. [p EXCEPT !["bg"] = n] \in Pens
    BY DEF Pens
  <2>2. QED
    BY <1>2, <2>1 DEF Colour
<1>3. QED
  BY <1>1, <1>2

LEMMA SgrPenOK ==
  ASSUME NEW p \in Pens, NEW n \in Nat
  PROVE  SgrPen(p, n) \in Pens
<1>1. /\ [p EXCEPT !.bold = TRUE] \in Pens /\ [p EXCEPT !.dim = TRUE] \in Pens
      /\ [p EXCEPT !.underline = TRUE] \in Pens /\ [p EXCEPT !.inverse = TRUE] \in Pens
      /\ [p EXCEPT !.bold = FALSE, !.dim = FALSE] \in Pens
      /\ [p EXCEPT !.underline = FALSE] \in Pens /\ [p EXCEPT !.inverse = FALSE] \in Pens
  BY DEF Pens
<1>2. Default \in Colours
  BY DEF Colours
<1>3. \A c \in Colours : Colour(p, "fg", c) \in Pens /\ Colour(p, "bg", c) \in Pens
  BY ColourOK
<1>4. /\ n \in 30 .. 37 => n - 30 \in Colours
      /\ n \in 40 .. 47 => n - 40 \in Colours
      /\ n \in 90 .. 97 => n - 82 \in Colours
      /\ n \in 100 .. 107 => n - 92 \in Colours
  BY DEF Colours
<1>5. QED
  BY <1>1, <1>2, <1>3, <1>4, PlainPenOK DEF SgrPen

LEMMA SgrOneOK ==
  ASSUME NEW p \in Pens, NEW ps \in Seq(Nat), NEW i \in 1 .. Len(ps)
  PROVE  SgrOne(p, ps, i) \in SgrAccs
<1>1. ps[i] \in Nat
  OBVIOUS
<1>2. i + 2 <= Len(ps) => ps[i + 2] % 16 \in Colours
  <2>1. SUFFICES ASSUME i + 2 <= Len(ps) PROVE ps[i + 2] % 16 \in Colours
    OBVIOUS
  <2>2. ps[i + 2] \in Nat
    BY <2>1
  <2>3. \A m \in Nat : m % 16 \in 0 .. 15
    OBVIOUS
  <2>4. QED
    BY <2>2, <2>3 DEF Colours
<1>3. i + 2 <= Len(ps) => /\ Colour(p, "fg", ps[i + 2] % 16) \in Pens
                          /\ Colour(p, "bg", ps[i + 2] % 16) \in Pens
  BY <1>2, ColourOK
<1>. QED
  BY <1>1, <1>3, SgrPenOK DEF SgrOne, SgrAccs

LEMMA SgrStepOK ==
  ASSUME NEW acc \in SgrAccs, NEW ps \in Seq(Nat), NEW i \in 1 .. Len(ps)
  PROVE  SgrStep(acc, ps, i) \in SgrAccs
<1>1. CASE acc.skip > 0
  <2> DEFINE m == acc.skip - 1
  <2>1. m \in Nat
    BY <1>1 DEF SgrAccs
  <2> HIDE DEF m
  <2>2. [acc EXCEPT !.skip = m] \in SgrAccs
    BY <2>1 DEF SgrAccs
  <2>3. QED
    BY <1>1, <2>2 DEF SgrStep, m
<1>2. CASE ~(acc.skip > 0)
  BY <1>2, SgrOneOK DEF SgrStep, SgrAccs
<1>3. QED
  BY <1>1, <1>2

LEMMA SgrFoldOK ==
  ASSUME NEW pen \in Pens, NEW ps \in Seq(Nat)
  PROVE  FoldLeftDomain(LAMBDA acc, i : SgrStep(acc, ps, i), [pen |-> pen, skip |-> 0], ps) \in SgrAccs
<1> DEFINE base == [pen |-> pen, skip |-> 0]
           seq == [i \in DOMAIN ps |-> i]
           N == Len(ps)
           Step(f, s) == IF s = {} THEN base ELSE SgrStep(f[s \ {Max(s)}], ps, seq[Max(s)])
           iter == CHOOSE f : f = [s \in SUBSET DOMAIN seq |-> Step(f, s)]
           G == [p \in SgrAccs \X (1 .. N) |-> SgrStep(p[1], ps, seq[p[2]])]
<1>1. N \in Nat /\ DOMAIN seq = 1 .. N
  OBVIOUS
<1>2. \A i \in 1 .. N : seq[i] \in 1 .. Len(ps)
  OBVIOUS
<1>3. FoldLeftDomain(LAMBDA acc, i : SgrStep(acc, ps, i), [pen |-> pen, skip |-> 0], ps) = iter[DOMAIN seq]
  BY DEF FoldLeftDomain, FoldLeft, MapThenFoldSet
<1>4. base \in SgrAccs
  BY DEF SgrAccs
<1> HIDE DEF base, seq, N
<1>5. \A acc \in SgrAccs, i \in 1 .. N : SgrStep(acc, ps, seq[i]) \in SgrAccs
  BY <1>2, SgrStepOK
<1>6. G \in [SgrAccs \X (1 .. N) -> SgrAccs]
  BY <1>5
<1>7. \E f : f = [s \in SUBSET DOMAIN seq |-> Step(f, s)]
  <2> HIDE DEF G
  <2>1. PICK f : FoldOf(f, SgrAccs, base, N, G)
    BY <1>1, <1>4, <1>6, FoldExists
  <2>2. ASSUME NEW s \in SUBSET (1 .. N) PROVE f[s] = Step(f, s)
    <3>1. CASE s = {}
      BY <2>1, <3>1 DEF FoldOf
    <3>2. CASE s # {}
      <4>1. Max(s) \in 1 .. N /\ f[s \ {Max(s)}] \in SgrAccs
        BY <1>1, <2>1, <3>2, MaxIsIn DEF FoldOf
      <4>2. G[<<f[s \ {Max(s)}], Max(s)>>] = SgrStep(f[s \ {Max(s)}], ps, seq[Max(s)])
        BY <4>1 DEF G
      <4>3. QED
        BY <2>1, <3>2, <4>2 DEF FoldOf
    <3>3. QED
      BY <3>1, <3>2
  <2>3. f = [s \in SUBSET DOMAIN seq |-> Step(f, s)]
    <3>1. f = [s \in SUBSET (1 .. N) |-> f[s]]
      BY <2>1 DEF FoldOf
    <3> HIDE DEF Step
    <3>2. QED
      BY <1>1, <2>2, <3>1
  <2>4. QED
    BY <2>3
<1>8. iter = [s \in SUBSET DOMAIN seq |-> Step(iter, s)]
  <2> HIDE DEF Step
  <2> QED
    BY <1>7
<1> HIDE DEF iter
<1>9. iter[{}] \in SgrAccs
  BY <1>4, <1>8
<1>10. ASSUME NEW k \in 1 .. N, iter[1 .. (k - 1)] \in SgrAccs
       PROVE  iter[1 .. k] \in SgrAccs
  <2>1. Max(1 .. k) = k /\ (1 .. k) \ {k} = 1 .. (k - 1)
    <3>1. k \in Nat \ {0}
      BY <1>1
    <3>2. QED
      BY <3>1, MaxOfInterval
  <2>2. k \in Nat \ {0} /\ k <= N
    BY <1>1
  <2>3. k \in 1 .. k
    BY <2>2
  <2>4. 1 .. k \in SUBSET DOMAIN seq
    BY <1>1, <2>2
  <2>5. iter[1 .. k] = SgrStep(iter[1 .. (k - 1)], ps, seq[k])
    BY <1>8, <2>1, <2>3, <2>4
  <2>6. QED
    BY <1>5, <1>10, <2>5
<1>11. iter[1 .. N] \in SgrAccs
  BY <1>1, <1>9, <1>10, PrefixInduction
<1>12. QED
  BY <1>1, <1>3, <1>11

LEMMA SgrOK ==
  ASSUME NEW pen \in Pens, NEW ps \in Seq(Nat)
  PROVE  Sgr(pen, ps) \in Pens
<1> DEFINE all == FoldLeftDomain(LAMBDA acc, i : SgrStep(acc, ps, i), [pen |-> pen, skip |-> 0], ps)
<1>1. all.pen \in Pens
  BY SgrFoldOK DEF SgrAccs
<1>2. QED
  BY <1>1, PlainPenOK DEF Sgr

LEMMA TimesIndexOK ==
  ASSUME NEW s0 \in Screens, s0.rows >= 1, NEW n \in Nat
  PROVE  Times(n, Index, s0) \in Like(s0)
<1> DEFINE base == s0
           seq == [i \in 1 .. n |-> i]
           N == n
           Step(f, s) == IF s = {} THEN base ELSE Index(f[s \ {Max(s)}])
           iter == CHOOSE f : f = [s \in SUBSET DOMAIN seq |-> Step(f, s)]
           G == [p \in Like(s0) \X (1 .. N) |-> Index(p[1])]
<1>1. N \in Nat /\ DOMAIN seq = 1 .. N
  OBVIOUS
<1>2. \A i \in 1 .. N : seq[i] \in 1 .. n
  OBVIOUS
<1>3. Times(n, Index, s0) = iter[DOMAIN seq]
  BY DEF Times, FoldLeft, MapThenFoldSet
<1>4. base \in Like(s0)
  BY LikeItself
<1> HIDE DEF base, seq, N
<1>5. \A acc \in Like(s0), i \in 1 .. N : Index(acc) \in Like(s0)
  BY <1>2, IndexOK, LikeLike DEF Like
<1>6. G \in [Like(s0) \X (1 .. N) -> Like(s0)]
  BY <1>5
<1>7. \E f : f = [s \in SUBSET DOMAIN seq |-> Step(f, s)]
  <2> HIDE DEF G
  <2>1. PICK f : FoldOf(f, Like(s0), base, N, G)
    BY <1>1, <1>4, <1>6, FoldExists
  <2>2. ASSUME NEW s \in SUBSET (1 .. N) PROVE f[s] = Step(f, s)
    <3>1. CASE s = {}
      BY <2>1, <3>1 DEF FoldOf
    <3>2. CASE s # {}
      <4>1. Max(s) \in 1 .. N /\ f[s \ {Max(s)}] \in Like(s0)
        BY <1>1, <2>1, <3>2, MaxIsIn DEF FoldOf
      <4>2. G[<<f[s \ {Max(s)}], Max(s)>>] = Index(f[s \ {Max(s)}])
        BY <4>1 DEF G
      <4>3. QED
        BY <2>1, <3>2, <4>2 DEF FoldOf
    <3>3. QED
      BY <3>1, <3>2
  <2>3. f = [s \in SUBSET DOMAIN seq |-> Step(f, s)]
    <3>1. f = [s \in SUBSET (1 .. N) |-> f[s]]
      BY <2>1 DEF FoldOf
    <3> HIDE DEF Step
    <3>2. QED
      BY <1>1, <2>2, <3>1
  <2>4. QED
    BY <2>3
<1>8. iter = [s \in SUBSET DOMAIN seq |-> Step(iter, s)]
  <2> HIDE DEF Step
  <2> QED
    BY <1>7
<1> HIDE DEF iter
<1>9. iter[{}] \in Like(s0)
  BY <1>4, <1>8
<1>10. ASSUME NEW k \in 1 .. N, iter[1 .. (k - 1)] \in Like(s0)
       PROVE  iter[1 .. k] \in Like(s0)
  <2>1. Max(1 .. k) = k /\ (1 .. k) \ {k} = 1 .. (k - 1)
    <3>1. k \in Nat \ {0}
      BY <1>1
    <3>2. QED
      BY <3>1, MaxOfInterval
  <2>2. k \in Nat \ {0} /\ k <= N
    BY <1>1
  <2>3. k \in 1 .. k
    BY <2>2
  <2>4. 1 .. k \in SUBSET DOMAIN seq
    BY <1>1, <2>2
  <2>5. iter[1 .. k] = Index(iter[1 .. (k - 1)])
    BY <1>8, <2>1, <2>3, <2>4
  <2>6. QED
    BY <1>5, <1>10, <2>5
<1>11. iter[1 .. N] \in Like(s0)
  BY <1>1, <1>9, <1>10, PrefixInduction
<1>12. QED
  BY <1>1, <1>3, <1>11

LEMMA TimesReverseIndexOK ==
  ASSUME NEW s0 \in Screens, s0.rows >= 1, NEW n \in Nat
  PROVE  Times(n, ReverseIndex, s0) \in Like(s0)
<1> DEFINE base == s0
           seq == [i \in 1 .. n |-> i]
           N == n
           Step(f, s) == IF s = {} THEN base ELSE ReverseIndex(f[s \ {Max(s)}])
           iter == CHOOSE f : f = [s \in SUBSET DOMAIN seq |-> Step(f, s)]
           G == [p \in Like(s0) \X (1 .. N) |-> ReverseIndex(p[1])]
<1>1. N \in Nat /\ DOMAIN seq = 1 .. N
  OBVIOUS
<1>2. \A i \in 1 .. N : seq[i] \in 1 .. n
  OBVIOUS
<1>3. Times(n, ReverseIndex, s0) = iter[DOMAIN seq]
  BY DEF Times, FoldLeft, MapThenFoldSet
<1>4. base \in Like(s0)
  BY LikeItself
<1> HIDE DEF base, seq, N
<1>5. \A acc \in Like(s0), i \in 1 .. N : ReverseIndex(acc) \in Like(s0)
  BY <1>2, ReverseIndexOK, LikeLike DEF Like
<1>6. G \in [Like(s0) \X (1 .. N) -> Like(s0)]
  BY <1>5
<1>7. \E f : f = [s \in SUBSET DOMAIN seq |-> Step(f, s)]
  <2> HIDE DEF G
  <2>1. PICK f : FoldOf(f, Like(s0), base, N, G)
    BY <1>1, <1>4, <1>6, FoldExists
  <2>2. ASSUME NEW s \in SUBSET (1 .. N) PROVE f[s] = Step(f, s)
    <3>1. CASE s = {}
      BY <2>1, <3>1 DEF FoldOf
    <3>2. CASE s # {}
      <4>1. Max(s) \in 1 .. N /\ f[s \ {Max(s)}] \in Like(s0)
        BY <1>1, <2>1, <3>2, MaxIsIn DEF FoldOf
      <4>2. G[<<f[s \ {Max(s)}], Max(s)>>] = ReverseIndex(f[s \ {Max(s)}])
        BY <4>1 DEF G
      <4>3. QED
        BY <2>1, <3>2, <4>2 DEF FoldOf
    <3>3. QED
      BY <3>1, <3>2
  <2>3. f = [s \in SUBSET DOMAIN seq |-> Step(f, s)]
    <3>1. f = [s \in SUBSET (1 .. N) |-> f[s]]
      BY <2>1 DEF FoldOf
    <3> HIDE DEF Step
    <3>2. QED
      BY <1>1, <2>2, <3>1
  <2>4. QED
    BY <2>3
<1>8. iter = [s \in SUBSET DOMAIN seq |-> Step(iter, s)]
  <2> HIDE DEF Step
  <2> QED
    BY <1>7
<1> HIDE DEF iter
<1>9. iter[{}] \in Like(s0)
  BY <1>4, <1>8
<1>10. ASSUME NEW k \in 1 .. N, iter[1 .. (k - 1)] \in Like(s0)
       PROVE  iter[1 .. k] \in Like(s0)
  <2>1. Max(1 .. k) = k /\ (1 .. k) \ {k} = 1 .. (k - 1)
    <3>1. k \in Nat \ {0}
      BY <1>1
    <3>2. QED
      BY <3>1, MaxOfInterval
  <2>2. k \in Nat \ {0} /\ k <= N
    BY <1>1
  <2>3. k \in 1 .. k
    BY <2>2
  <2>4. 1 .. k \in SUBSET DOMAIN seq
    BY <1>1, <2>2
  <2>5. iter[1 .. k] = ReverseIndex(iter[1 .. (k - 1)])
    BY <1>8, <2>1, <2>3, <2>4
  <2>6. QED
    BY <1>5, <1>10, <2>5
<1>11. iter[1 .. N] \in Like(s0)
  BY <1>1, <1>9, <1>10, PrefixInduction
<1>12. QED
  BY <1>1, <1>3, <1>11

LEMMA SetModeOK ==
  ASSUME NEW s \in Screens, s.rows >= 1, NEW mode, NEW final
  PROVE  SetMode(s, mode, final) \in Like(s)
<1> DEFINE b == final = "h"
           t == [s EXCEPT !.appKeys = b]
           u == [s EXCEPT !.wraparound = b]
<1>1. s \in RawScreens /\ b \in BOOLEAN
  BY ScreenParts
<1> HIDE DEF b
<1>2. t \in RawScreens /\ u \in RawScreens
  BY <1>1 DEF RawScreens
<1>3. \A v \in {t, u} :
        /\ SameFrame(s, v) /\ v.grid = s.grid /\ v.back = s.back
        /\ v.row = s.row /\ v.col = s.col /\ v.wrapPending = s.wrapPending
  BY <1>1 DEF RawScreens, SameFrame
<1> HIDE DEF t, u
<1>4. t \in Like(s) /\ u \in Like(s)
  <2>1. s.row <= s.rows - 1 /\ (s.wrapPending => s.col = s.cols - 1) /\ s.col <= s.cols - 1
    BY ScreenParts DEF Sized, NeverSized
  <2>2. QED
    BY <1>2, <1>3, <2>1, Moved
<1>5. QED
  BY <1>4, LikeItself DEF SetMode, t, u, b

LEMMA SetModesOK ==
  ASSUME NEW s0 \in Screens, s0.rows >= 1, NEW final, final \in {"h", "l"}, NEW ps \in Seq(Nat)
  PROVE  PrivateMode(s0, final, ps) \in Like(s0)
<1> DEFINE base == s0
           seq == ps
           N == Len(ps)
           Step(f, s) == IF s = {} THEN base ELSE SetMode(f[s \ {Max(s)}], seq[Max(s)], final)
           iter == CHOOSE f : f = [s \in SUBSET DOMAIN seq |-> Step(f, s)]
           G == [p \in Like(s0) \X (1 .. N) |-> SetMode(p[1], seq[p[2]], final)]
<1>1. N \in Nat /\ DOMAIN seq = 1 .. N
  OBVIOUS
<1>2. \A i \in 1 .. N : seq[i] \in Nat
  OBVIOUS
<1>3. PrivateMode(s0, final, ps) = iter[DOMAIN seq]
  BY DEF PrivateMode, FoldLeft, MapThenFoldSet
<1>4. base \in Like(s0)
  BY LikeItself
<1> HIDE DEF base, seq, N
<1>5. \A acc \in Like(s0), i \in 1 .. N : SetMode(acc, seq[i], final) \in Like(s0)
  BY <1>2, SetModeOK, LikeLike DEF Like
<1>6. G \in [Like(s0) \X (1 .. N) -> Like(s0)]
  BY <1>5
<1>7. \E f : f = [s \in SUBSET DOMAIN seq |-> Step(f, s)]
  <2> HIDE DEF G
  <2>1. PICK f : FoldOf(f, Like(s0), base, N, G)
    BY <1>1, <1>4, <1>6, FoldExists
  <2>2. ASSUME NEW s \in SUBSET (1 .. N) PROVE f[s] = Step(f, s)
    <3>1. CASE s = {}
      BY <2>1, <3>1 DEF FoldOf
    <3>2. CASE s # {}
      <4>1. Max(s) \in 1 .. N /\ f[s \ {Max(s)}] \in Like(s0)
        BY <1>1, <2>1, <3>2, MaxIsIn DEF FoldOf
      <4>2. G[<<f[s \ {Max(s)}], Max(s)>>] = SetMode(f[s \ {Max(s)}], seq[Max(s)], final)
        BY <4>1 DEF G
      <4>3. QED
        BY <2>1, <3>2, <4>2 DEF FoldOf
    <3>3. QED
      BY <3>1, <3>2
  <2>3. f = [s \in SUBSET DOMAIN seq |-> Step(f, s)]
    <3>1. f = [s \in SUBSET (1 .. N) |-> f[s]]
      BY <2>1 DEF FoldOf
    <3> HIDE DEF Step
    <3>2. QED
      BY <1>1, <2>2, <3>1
  <2>4. QED
    BY <2>3
<1>8. iter = [s \in SUBSET DOMAIN seq |-> Step(iter, s)]
  <2> HIDE DEF Step
  <2> QED
    BY <1>7
<1> HIDE DEF iter
<1>9. iter[{}] \in Like(s0)
  BY <1>4, <1>8
<1>10. ASSUME NEW k \in 1 .. N, iter[1 .. (k - 1)] \in Like(s0)
       PROVE  iter[1 .. k] \in Like(s0)
  <2>1. Max(1 .. k) = k /\ (1 .. k) \ {k} = 1 .. (k - 1)
    <3>1. k \in Nat \ {0}
      BY <1>1
    <3>2. QED
      BY <3>1, MaxOfInterval
  <2>2. k \in Nat \ {0} /\ k <= N
    BY <1>1
  <2>3. k \in 1 .. k
    BY <2>2
  <2>4. 1 .. k \in SUBSET DOMAIN seq
    BY <1>1, <2>2
  <2>5. iter[1 .. k] = SetMode(iter[1 .. (k - 1)], seq[k], final)
    BY <1>8, <2>1, <2>3, <2>4
  <2>6. QED
    BY <1>5, <1>10, <2>5
<1>11. iter[1 .. N] \in Like(s0)
  BY <1>1, <1>9, <1>10, PrefixInduction
<1>12. QED
  BY <1>1, <1>3, <1>11

LEMMA MoveOK ==
  ASSUME NEW s \in Screens, NEW row \in Int, NEW col \in Int
  PROVE  SetCursor(s, row, col) \in Like(s)
BY SetCursorOK DEF Like

LEMMA MoveCursorOK ==
  ASSUME NEW s \in Screens, NEW down \in Int, NEW right \in Int
  PROVE  MoveCursor(s, down, right) \in Like(s)
<1>1. s.row \in Nat /\ s.col \in Nat
  BY ScreenParts, RawParts
<1>2. s.row + down \in Int /\ s.col + right \in Int
  BY <1>1
<1>3. QED
  BY <1>2, MoveOK DEF MoveCursor

\* dispatch_csi(): every sequence leaves a screen of the size it found.
LEMMA CsiOK ==
  ASSUME NEW s \in Screens, s.rows >= 1, NEW final \in STRING, NEW ps \in Seq(Nat)
  PROVE  Csi(s, final, ps) \in Like(s)
<1> DEFINE n == Param(ps, 1, 1)
           m == Param(ps, 2, 1)
           b == Param(ps, 2, s.rows)
           mode == IF ps = <<>> THEN 0 ELSE ps[1]
<1>1. s.rows \in Nat /\ s.row \in Nat /\ s.col \in Nat /\ s.pen \in Pens
  BY ScreenParts, RawParts
<1>2. n \in Nat /\ m \in Nat /\ b \in Nat
  <2>1. 1 \in Nat \ {0} /\ 2 \in Nat \ {0} /\ 1 \in Nat
    OBVIOUS
  <2>2. QED
    BY <1>1, <2>1, ParamOK
<1>3. mode \in Nat
  OBVIOUS
<1>4. Sgr(s.pen, ps) \in Pens
  BY <1>1, SgrOK
<1> HIDE DEF n, m, b, mode
<1>5. n \in Int /\ -n \in Int /\ n - 1 \in Int /\ m - 1 \in Int /\ b - 1 \in Int
  BY <1>2
<1>6. CASE final \in {"A", "B", "C", "D"}
  <2>1. /\ MoveCursor(s, -n, 0) \in Like(s) /\ MoveCursor(s, n, 0) \in Like(s)
        /\ MoveCursor(s, 0, n) \in Like(s) /\ MoveCursor(s, 0, -n) \in Like(s)
    BY <1>5, MoveCursorOK
  <2>2. QED
    BY <1>6, <2>1 DEF Csi, n
<1>7. CASE final \in {"E", "F"}
  <2>1. MoveCursor(s, n, 0) \in Like(s) /\ MoveCursor(s, -n, 0) \in Like(s)
    BY <1>5, MoveCursorOK
  <2>2. \A t \in Like(s) : CarriageReturn(t) \in Like(s)
    BY CarriageReturnOK, LikeLike DEF Like
  <2>3. QED
    BY <1>7, <2>1, <2>2 DEF Csi, n
<1>8. CASE final \in {"G", "H", "f", "d"}
  <2>1. /\ SetCursor(s, s.row, n - 1) \in Like(s) /\ SetCursor(s, n - 1, m - 1) \in Like(s)
        /\ SetCursor(s, n - 1, s.col) \in Like(s)
    BY <1>1, <1>5, MoveOK
  <2>2. QED
    BY <1>8, <2>1 DEF Csi, n, m
<1>9. CASE final \in {"J", "K"}
  <2>1. EraseInDisplay(s, mode) \in Like(s) /\ EraseInLine(s, mode) \in Like(s)
    BY <1>3, EraseInDisplayOK, EraseInLineOK
  <2>2. QED
    BY <1>9, <2>1 DEF Csi, mode
<1>10. CASE final \in {"S", "T"}
  BY <1>2, <1>10, TimesIndexOK, TimesReverseIndexOK DEF Csi, n
<1>11. CASE final = "m"
  BY <1>4, <1>11, PenOnlyOK DEF Csi
<1>12. CASE final = "r"
  <2>1. ResetRegion(s) \in Like(s) /\ SetRegion(s, n - 1, b - 1) \in Like(s)
    BY <1>5, ResetRegionOK, SetRegionOK
  <2>2. QED
    BY <1>12, <2>1 DEF Csi, n, b
<1>13. CASE final \in {"s", "u"}
  BY <1>13, SaveCursorOK, RestoreCursorOK DEF Csi
<1>14. CASE final \notin {"A", "B", "C", "D", "E", "F", "G", "H", "f", "d", "J", "K", "S", "T",
                          "m", "r", "s", "u"}
  BY <1>14, LikeItself DEF Csi
<1>15. QED
  BY <1>6, <1>7, <1>8, <1>9, <1>10, <1>11, <1>12, <1>13, <1>14

LEMMA PrivateModeOK ==
  ASSUME NEW s \in Screens, s.rows >= 1, NEW final, NEW ps \in Seq(Nat)
  PROVE  PrivateMode(s, final, ps) \in Like(s)
<1>1. CASE final \in {"h", "l"}
  BY <1>1, SetModesOK
<1>2. CASE final \notin {"h", "l"}
  BY <1>2, LikeItself DEF PrivateMode
<1>3. QED
  BY <1>1, <1>2

LEMMA EscOK ==
  ASSUME NEW s \in Screens, s.rows >= 1, NEW final \in STRING
  PROVE  Esc(s, final) \in Like(s)
BY IndexOK, ReverseIndexOK, NewlineOK, SaveCursorOK, RestoreCursorOK, ResetOK, LikeItself DEF Esc

-------------------------------------------------------------------------------
\* A byte.

LEMMA TermParts ==
  ASSUME NEW s, NEW t \in Terms(s)
  PROVE  /\ t = [vt |-> t.vt, scr |-> t.scr]
         /\ t.vt \in Parsers /\ t.scr \in Like(s) /\ t.scr \in Screens /\ t.scr.rows = s.rows
         /\ Like(t.scr) = Like(s)
BY DEF Terms, Like

LEMMA TermOf ==
  ASSUME NEW s, NEW t \in Terms(s), NEW v \in Parsers, NEW u \in Like(s)
  PROVE  /\ [t EXCEPT !.vt = v] \in Terms(s) /\ [t EXCEPT !.scr = u] \in Terms(s)
         /\ [t EXCEPT !.vt = v, !.scr = u] \in Terms(s) /\ [vt |-> v, scr |-> u] \in Terms(s)
BY DEF Terms

LEMMA ParserParts ==
  ASSUME NEW v \in Parsers
  PROVE  /\ v \in RawParsers
         /\ v.st = "Utf8" => v.lead \in DOMAIN Need
         /\ v.csi \in Seq(STRING) /\ v.osc \in Seq(STRING) /\ v.need \in Nat /\ v.lead \in Names
<1>1. v \in RawParsers /\ (v.st = "Utf8" => v.lead \in DOMAIN Need)
  BY DEF Parsers
<1>2. QED
  BY <1>1 DEF RawParsers

LEMMA GroundByteOK ==
  ASSUME NEW s, s.rows >= 1, NEW t \in Terms(s), NEW b \in STRING
  PROVE  GroundByte(t, b) \in Terms(s)
<1> DEFINE v == t.vt
           escape == [v EXCEPT !.st = "Escape"]
           utf8 == [v EXCEPT !.st = "Utf8", !.lead = b, !.need = Need[b]]
<1>1. escape \in Parsers
  <2>1. escape \in RawParsers /\ escape.st # "Utf8"
    BY TermParts, ParserParts DEF RawParsers, VtStates
  <2> HIDE DEF escape
  <2>2. QED
    BY <2>1 DEF Parsers
<1>2. b \in DOMAIN Need => utf8 \in Parsers
  <2>1. SUFFICES ASSUME b \in DOMAIN Need PROVE utf8 \in Parsers
    OBVIOUS
  <2> DEFINE n == Need[b]
  <2>2. n \in Nat /\ b \in Names
    BY <2>1 DEF Need, Names
  <2> HIDE DEF n
  <2>3. v \in RawParsers
    BY TermParts, ParserParts
  <2>4. [v EXCEPT !.st = "Utf8", !.lead = b, !.need = n] \in RawParsers
    BY <2>2, <2>3 DEF RawParsers, VtStates
  <2>5. utf8.lead = b
    BY <2>3 DEF RawParsers
  <2>6. QED
    BY <2>1, <2>4, <2>5 DEF Parsers, n
<1>3. PutCodepoint(t.scr, b, 1) \in Like(s)
  <2>1. b \in Names
    BY DEF Names
  <2>2. t.scr \in Screens /\ t.scr.rows >= 1 /\ Like(t.scr) = Like(s)
    BY TermParts
  <2>3. QED
    <3>1. 1 \in 1 .. 2
      OBVIOUS
    <3>2. QED
      BY <2>1, <2>2, <3>1, PutCodepointOK
<1>4. /\ [t EXCEPT !.vt.st = "Escape"] = [t EXCEPT !.vt = escape]
      /\ [t EXCEPT !.vt.st = "Utf8", !.vt.lead = b, !.vt.need = Need[b]] = [t EXCEPT !.vt = utf8]
      /\ [t EXCEPT !.scr = PutCodepoint(@, b, 1)] = [t EXCEPT !.scr = PutCodepoint(t.scr, b, 1)]
  BY TermParts
<1> HIDE DEF escape, utf8
<1>5. QED
  BY <1>1, <1>2, <1>3, <1>4, TermOf, TermParts DEF GroundByte

LEMMA EscapeByteOK ==
  ASSUME NEW s, s.rows >= 1, NEW t \in Terms(s), NEW b \in STRING
  PROVE  EscapeByte(t, b) \in Terms(s)
<1> DEFINE v == t.vt
           csi == [v EXCEPT !.st = "Csi", !.csi = <<>>, !.private = FALSE]
           osc == [v EXCEPT !.st = "Osc", !.osc = <<>>]
           ground == [v EXCEPT !.st = "Ground"]
<1>1. csi \in Parsers /\ osc \in Parsers /\ ground \in Parsers
  <2>1. v \in RawParsers /\ <<>> \in Seq(STRING)
    BY TermParts, ParserParts
  <2>2. csi \in RawParsers /\ csi.st = "Csi"
    BY <2>1 DEF RawParsers, VtStates
  <2>3. osc \in RawParsers /\ osc.st = "Osc"
    BY <2>1 DEF RawParsers, VtStates
  <2>4. ground \in RawParsers /\ ground.st = "Ground"
    BY <2>1 DEF RawParsers, VtStates
  <2> HIDE DEF csi, osc, ground
  <2>5. QED
    BY <2>2, <2>3, <2>4 DEF Parsers
<1>2. Esc(t.scr, b) \in Like(s)
  BY TermParts, EscOK
<1>3. /\ [t EXCEPT !.vt.st = "Csi", !.vt.csi = <<>>, !.vt.private = FALSE] = [t EXCEPT !.vt = csi]
      /\ [t EXCEPT !.vt.st = "Osc", !.vt.osc = <<>>] = [t EXCEPT !.vt = osc]
      /\ [t EXCEPT !.vt.st = "Ground", !.scr = Esc(@, b)]
           = [t EXCEPT !.vt = ground, !.scr = Esc(t.scr, b)]
  BY TermParts
<1> HIDE DEF csi, osc, ground
<1>4. QED
  BY <1>1, <1>2, <1>3, TermOf DEF EscapeByte

LEMMA CsiByteOK ==
  ASSUME NEW s, s.rows >= 1, NEW t \in Terms(s), NEW b \in STRING
  PROVE  CsiByte(t, b) \in Terms(s)
<1> DEFINE v == t.vt
           marked == [v EXCEPT !.private = TRUE, !.csi = <<b>>]
           longer == Append(v.csi, b)
           more == [v EXCEPT !.csi = longer]
           ground == [v EXCEPT !.st = "Ground", !.csi = <<>>]
           does == IF v.private THEN PrivateMode(t.scr, b, Params(v.csi))
                   ELSE Csi(t.scr, b, Params(v.csi))
<1>1. marked \in Parsers /\ ground \in Parsers
  <2>1. v \in RawParsers /\ <<b>> \in Seq(STRING) /\ <<>> \in Seq(STRING)
    BY TermParts, ParserParts
  <2>2. marked \in RawParsers /\ marked.st = v.st /\ marked.lead = v.lead
    BY <2>1 DEF RawParsers
  <2>3. ground \in RawParsers /\ ground.st = "Ground"
    BY <2>1 DEF RawParsers, VtStates
  <2> HIDE DEF marked, ground
  <2>4. QED
    BY <2>2, <2>3, TermParts, ParserParts DEF Parsers
<1>2. more \in Parsers
  <2>1. longer \in Seq(STRING)
    BY TermParts, ParserParts
  <2> HIDE DEF longer
  <2>2. more \in RawParsers /\ more.st = v.st /\ more.lead = v.lead
    BY <2>1, TermParts, ParserParts DEF RawParsers
  <2> HIDE DEF more
  <2>3. QED
    BY <2>2, TermParts, ParserParts DEF Parsers
<1>3. does \in Like(s)
  <2>1. Params(v.csi) \in Seq(Nat)
    BY TermParts, ParserParts, ParamsOK
  <2>2. QED
    BY <2>1, TermParts, CsiOK, PrivateModeOK
<1>4. /\ [t EXCEPT !.vt.private = TRUE, !.vt.csi = <<b>>] = [t EXCEPT !.vt = marked]
      /\ [t EXCEPT !.vt.csi = Append(@, b)] = [t EXCEPT !.vt = more]
      /\ [t EXCEPT !.vt.st = "Ground", !.vt.csi = <<>>,
                   !.scr = IF t.vt.private THEN PrivateMode(@, b, Params(t.vt.csi))
                           ELSE Csi(@, b, Params(t.vt.csi))]
           = [t EXCEPT !.vt = ground, !.scr = does]
  BY TermParts
<1> HIDE DEF marked, more, ground, does
<1>5. QED
  BY <1>1, <1>2, <1>3, <1>4, TermOf DEF CsiByte

LEMMA TitleOK ==
  ASSUME NEW s \in Screens, s.rows >= 1, NEW title \in Seq(STRING)
  PROVE  [s EXCEPT !.title = title] \in Like(s)
<1> DEFINE t == [s EXCEPT !.title = title]
<1>1. s \in RawScreens
  BY ScreenParts
<1>2. t \in RawScreens
  BY <1>1 DEF RawScreens
<1>3. /\ SameFrame(s, t) /\ t.grid = s.grid /\ t.back = s.back
      /\ t.row = s.row /\ t.col = s.col /\ t.wrapPending = s.wrapPending
  BY <1>1 DEF RawScreens, SameFrame
<1> HIDE DEF t
<1>4. t \in Like(s)
  <2>1. s.row <= s.rows - 1 /\ (s.wrapPending => s.col = s.cols - 1) /\ s.col <= s.cols - 1
    BY ScreenParts DEF Sized, NeverSized
  <2>2. QED
    BY <1>2, <1>3, <2>1, Moved
<1>5. QED
  BY <1>4 DEF t

LEMMA OscByteOK ==
  ASSUME NEW s, s.rows >= 1, NEW t \in Terms(s), NEW b \in STRING
  PROVE  OscByte(t, b) \in Terms(s)
<1> DEFINE v == t.vt
           ends == b = "BEL" \/ (b = "\\" /\ t.vt.osc # <<>> /\ Last(t.vt.osc) = "ESC")
           text == IF b = "\\" THEN Front(t.vt.osc) ELSE t.vt.osc
           title == IF Len(text) >= 2 /\ text[1] \in {"0", "2"} /\ text[2] = ";"
                    THEN SubSeq(text, 3, Len(text)) ELSE t.scr.title
           ground == [v EXCEPT !.st = "Ground", !.osc = <<>>]
           longer == Append(v.osc, b)
           more == [v EXCEPT !.osc = longer]
           titled == [t.scr EXCEPT !.title = title]
<1>1. v \in RawParsers /\ v.osc \in Seq(STRING) /\ <<>> \in Seq(STRING)
  BY TermParts, ParserParts
<1>2. ground \in Parsers
  <2>1. ground \in RawParsers /\ ground.st = "Ground"
    BY <1>1 DEF RawParsers, VtStates
  <2> HIDE DEF ground
  <2>2. QED
    BY <2>1 DEF Parsers
<1>3. more \in Parsers
  <2>1. longer \in Seq(STRING)
    BY <1>1
  <2> HIDE DEF longer
  <2>2. more \in RawParsers /\ more.st = v.st /\ more.lead = v.lead
    BY <1>1, <2>1 DEF RawParsers
  <2> HIDE DEF more
  <2>3. QED
    BY <2>2, TermParts, ParserParts DEF Parsers
<1>4. ends => titled \in Like(s)
  <2>1. SUFFICES ASSUME ends PROVE titled \in Like(s)
    OBVIOUS
  <2>2. text \in Seq(STRING)
    <3>1. CASE b = "\\"
      <4>1. v.osc # <<>>
        BY <2>1, <3>1
      <4>2. Front(v.osc) \in Seq(STRING)
        BY <1>1, <4>1 DEF Front
      <4>3. QED
        BY <3>1, <4>2
    <3>2. CASE b # "\\"
      BY <1>1, <3>2
    <3>3. QED
      BY <3>1, <3>2
  <2>3. t.scr.title \in Seq(STRING) /\ t.scr \in Screens /\ t.scr.rows >= 1
        /\ Like(t.scr) = Like(s)
    BY TermParts, ScreenParts, RawParts
  <2> HIDE DEF text
  <2>4. title \in Seq(STRING)
    <3>1. Len(text) >= 2 => SubSeq(text, 3, Len(text)) \in Seq(STRING)
      BY <2>2
    <3>2. QED
      BY <2>3, <3>1
  <2> HIDE DEF title
  <2>5. QED
    BY <2>3, <2>4, TitleOK
<1>5. /\ [t EXCEPT !.vt.st = "Ground", !.vt.osc = <<>>, !.scr.title = title]
           = [t EXCEPT !.vt = ground, !.scr = titled]
      /\ [t EXCEPT !.vt.osc = Append(@, b)] = [t EXCEPT !.vt = more]
  <2> HIDE DEF title
  <2> QED
    BY TermParts
<1>6. [t EXCEPT !.vt.st = "Ground", !.vt.osc = <<>>, !.scr.title = title]
        = [t EXCEPT !.vt.st = "Ground", !.vt.osc = <<>>,
                    !.scr.title = IF Len(text) >= 2 /\ text[1] \in {"0", "2"} /\ text[2] = ";"
                                  THEN SubSeq(text, 3, Len(text)) ELSE @]
  <2> HIDE DEF text
  <2> QED
    OBVIOUS
<1>7. ends => [t EXCEPT !.vt.st = "Ground", !.vt.osc = <<>>, !.scr.title = title] \in Terms(s)
  <2> HIDE DEF title, ground, titled, ends
  <2> QED
    BY <1>2, <1>4, <1>5, TermOf
<1>8. [t EXCEPT !.vt.osc = Append(@, b)] \in Terms(s)
  <2> HIDE DEF more
  <2> QED
    BY <1>3, <1>5, TermOf, TermParts
<1>9. QED
  <2>1. CASE ends
    <3> HIDE DEF title
    <3> QED
      BY <1>6, <1>7, <2>1 DEF OscByte
  <2>2. CASE ~ends
    BY <1>8, <2>2 DEF OscByte
  <2>3. QED
    BY <2>1, <2>2

LEMMA LeadOK ==
  ASSUME NEW lead \in DOMAIN Need
  PROVE  lead \in Names /\ Width[lead] \in 1 .. 2
<1>1. lead \in {"C3", "E4", "F0"}
  BY DEF Need
<1>2. lead \in Names
  BY DEF Names
<1>3. Width[lead] = IF lead = "C3" THEN 1 ELSE 2
  BY DEF Width
<1>4. Width[lead] = 1 \/ Width[lead] = 2
  BY <1>3
<1>5. Width[lead] \in 1 .. 2
  BY <1>4
<1>6. QED
  BY <1>2, <1>5

\* feed_byte(), whatever the byte.
LEMMA FeedByteOK ==
  ASSUME NEW s, s.rows >= 1, NEW t \in Terms(s), NEW b \in STRING
  PROVE  FeedByte(t, b) \in Terms(s)
<1>1. CASE t.vt.st \in {"Ground", "Escape", "Csi", "Osc"}
  BY <1>1, GroundByteOK, EscapeByteOK, CsiByteOK, OscByteOK DEF FeedByte
<1>2. CASE t.vt.st = "Utf8"
  <2>1. CASE b # Continuation
    <3>1. [t EXCEPT !.vt = Ground] \in Terms(s)
      BY TermOf, GroundOK, TermParts
    <3>2. QED
      BY <1>2, <2>1, <3>1, GroundByteOK DEF FeedByte
  <2>2. CASE b = Continuation /\ t.vt.need > 1
    <3> DEFINE v == t.vt
               m == v.need - 1
               u == [v EXCEPT !.need = m]
    <3>1. v \in Parsers /\ v \in RawParsers
      BY TermParts, ParserParts
    <3>2. m \in Nat
      BY <2>2, <3>1, ParserParts
    <3>3. [t EXCEPT !.vt.need = @ - 1] = [t EXCEPT !.vt = u]
      BY TermParts
    <3> HIDE DEF m
    <3>4. u \in RawParsers /\ u.st = v.st /\ u.lead = v.lead
      BY <3>1, <3>2 DEF RawParsers
    <3> HIDE DEF u
    <3>5. u \in Parsers
      BY <3>1, <3>4, ParserParts DEF Parsers
    <3>6. [t EXCEPT !.vt = u] \in Terms(s)
      BY <3>5, TermOf, TermParts
    <3>7. QED
      BY <1>2, <2>2, <3>3, <3>6 DEF FeedByte
  <2>3. CASE b = Continuation /\ ~(t.vt.need > 1)
    <3>1. t.vt.lead \in DOMAIN Need
      BY <1>2, TermParts, ParserParts
    <3>2. PutCodepoint(t.scr, t.vt.lead, Width[t.vt.lead]) \in Like(s)
      BY <3>1, LeadOK, TermParts, PutCodepointOK
    <3>3. QED
      BY <1>2, <2>3, <3>2, TermOf, GroundOK DEF FeedByte
  <2>4. QED
    BY <2>1, <2>2, <2>3
<1>3. t.vt.st \in VtStates
  BY TermParts, ParserParts DEF RawParsers
<1>4. QED
  BY <1>1, <1>2, <1>3 DEF VtStates

\* Whatever the shell wrote, the screen keeps its size and every rule of a screen.
LEMMA FeedOK ==
  ASSUME NEW s0, s0.rows >= 1, NEW t0 \in Terms(s0), NEW bytes \in Seq(STRING)
  PROVE  Feed(t0, bytes) \in Terms(s0)
<1> DEFINE base == t0
           seq == bytes
           N == Len(bytes)
           Step(f, s) == IF s = {} THEN base ELSE FeedByte(f[s \ {Max(s)}], seq[Max(s)])
           iter == CHOOSE f : f = [s \in SUBSET DOMAIN seq |-> Step(f, s)]
           G == [p \in Terms(s0) \X (1 .. N) |-> FeedByte(p[1], seq[p[2]])]
<1>1. N \in Nat /\ DOMAIN seq = 1 .. N
  OBVIOUS
<1>2. \A i \in 1 .. N : seq[i] \in STRING
  OBVIOUS
<1>3. Feed(t0, bytes) = iter[DOMAIN seq]
  BY DEF Feed, FoldLeft, MapThenFoldSet
<1>4. base \in Terms(s0)
  OBVIOUS
<1> HIDE DEF base, seq, N
<1>5. \A acc \in Terms(s0), i \in 1 .. N : FeedByte(acc, seq[i]) \in Terms(s0)
  BY <1>2, FeedByteOK
<1>6. G \in [Terms(s0) \X (1 .. N) -> Terms(s0)]
  BY <1>5
<1>7. \E f : f = [s \in SUBSET DOMAIN seq |-> Step(f, s)]
  <2> HIDE DEF G
  <2>1. PICK f : FoldOf(f, Terms(s0), base, N, G)
    BY <1>1, <1>4, <1>6, FoldExists
  <2>2. ASSUME NEW s \in SUBSET (1 .. N) PROVE f[s] = Step(f, s)
    <3>1. CASE s = {}
      BY <2>1, <3>1 DEF FoldOf
    <3>2. CASE s # {}
      <4>1. Max(s) \in 1 .. N /\ f[s \ {Max(s)}] \in Terms(s0)
        BY <1>1, <2>1, <3>2, MaxIsIn DEF FoldOf
      <4>2. G[<<f[s \ {Max(s)}], Max(s)>>] = FeedByte(f[s \ {Max(s)}], seq[Max(s)])
        BY <4>1 DEF G
      <4>3. QED
        BY <2>1, <3>2, <4>2 DEF FoldOf
    <3>3. QED
      BY <3>1, <3>2
  <2>3. f = [s \in SUBSET DOMAIN seq |-> Step(f, s)]
    <3>1. f = [s \in SUBSET (1 .. N) |-> f[s]]
      BY <2>1 DEF FoldOf
    <3> HIDE DEF Step
    <3>2. QED
      BY <1>1, <2>2, <3>1
  <2>4. QED
    BY <2>3
<1>8. iter = [s \in SUBSET DOMAIN seq |-> Step(iter, s)]
  <2> HIDE DEF Step
  <2> QED
    BY <1>7
<1> HIDE DEF iter
<1>9. iter[{}] \in Terms(s0)
  BY <1>4, <1>8
<1>10. ASSUME NEW k \in 1 .. N, iter[1 .. (k - 1)] \in Terms(s0)
       PROVE  iter[1 .. k] \in Terms(s0)
  <2>1. Max(1 .. k) = k /\ (1 .. k) \ {k} = 1 .. (k - 1)
    <3>1. k \in Nat \ {0}
      BY <1>1
    <3>2. QED
      BY <3>1, MaxOfInterval
  <2>2. k \in Nat \ {0} /\ k <= N
    BY <1>1
  <2>3. k \in 1 .. k
    BY <2>2
  <2>4. 1 .. k \in SUBSET DOMAIN seq
    BY <1>1, <2>2
  <2>5. iter[1 .. k] = FeedByte(iter[1 .. (k - 1)], seq[k])
    BY <1>8, <2>1, <2>3, <2>4
  <2>6. QED
    BY <1>5, <1>10, <2>5
<1>11. iter[1 .. N] \in Terms(s0)
  BY <1>1, <1>9, <1>10, PrefixInduction
<1>12. QED
  BY <1>1, <1>3, <1>11

-------------------------------------------------------------------------------
\* Text inside the scroll region of s.

TextTerms(s) ==
  {t \in Terms(s) : t.vt.st \in {"Ground", "Utf8"} /\ t.scr \in Inside(s)}

LEMMA InsideParts ==
  ASSUME NEW s \in Screens, s.rows >= 1, NEW u \in Inside(s)
  PROVE  /\ u \in Screens /\ u.rows >= 1 /\ u.row \in u.top .. u.bottom
         /\ \A v \in Inside(u) : v \in Inside(s)
<1>1. u \in Like(s) /\ HoldsRegion(s, u)
  BY DEF Inside
<1>2. u.row \in u.top .. u.bottom
  BY <1>1 DEF HoldsRegion
<1>3. u \in Screens /\ u.rows >= 1
  BY <1>1 DEF Like
<1>4. \A v \in Inside(u) : v \in Inside(s)
  BY InsideInside
<1>5. QED
  BY <1>2, <1>3, <1>4

LEMMA PrintedInside ==
  ASSUME NEW s \in Screens, s.rows >= 1, NEW u \in Inside(s), NEW ch \in Names,
         NEW width \in 1 .. 2
  PROVE  PutCodepoint(u, ch, width) \in Inside(s)
BY InsideParts, PutCodepointOK

LEMMA GroundText ==
  ASSUME NEW s \in Screens, s.rows >= 1, NEW t \in TextTerms(s), NEW b \in STRING, b \in Text
  PROVE  GroundByte(t, b) \in TextTerms(s)
<1>1. /\ t \in Terms(s) /\ t.vt.st \in {"Ground", "Utf8"} /\ t.scr \in Inside(s)
      /\ t = [vt |-> t.vt, scr |-> t.scr]
  BY TermParts DEF TextTerms
<1>2. GroundByte(t, b) \in Terms(s)
  BY <1>1, GroundByteOK
<1>3. b # "ESC" /\ b \notin Ignored
  BY DEF Text, Ignored, Need, Continuation
<1>4. CASE b \in DOMAIN Need
  <2> DEFINE w == [t.vt EXCEPT !.st = "Utf8", !.lead = b, !.need = Need[b]]
             u == [t EXCEPT !.vt = w]
  <2>1. w.st = "Utf8"
    BY <1>1, TermParts, ParserParts DEF RawParsers
  <2>2. [t EXCEPT !.vt.st = "Utf8", !.vt.lead = b, !.vt.need = Need[b]] = u
    BY <1>1
  <2> HIDE DEF w
  <2>3. u.vt = w /\ u.scr = t.scr
    BY <1>1
  <2> HIDE DEF u
  <2>4. GroundByte(t, b) = u
    <3>1. b # Continuation
      BY <1>4 DEF Need, Continuation
    <3>2. QED
      BY <1>3, <1>4, <2>2, <3>1 DEF GroundByte
  <2>5. QED
    BY <1>1, <1>2, <2>1, <2>3, <2>4 DEF TextTerms
<1>5. CASE b \notin DOMAIN Need /\ b = Continuation
  BY <1>3, <1>5 DEF GroundByte
<1>6. CASE b \notin DOMAIN Need /\ b # Continuation
  <2> DEFINE v == PutCodepoint(t.scr, b, 1)
             u == [t EXCEPT !.scr = v]
  <2>1. v \in Inside(s)
    <3>1. 1 \in 1 .. 2
      OBVIOUS
    <3>2. b \in Names
      BY DEF Names
    <3>3. QED
      BY <1>1, <3>1, <3>2, PrintedInside
  <2>2. GroundByte(t, b) = u
    <3>1. /\ b # "ESC" /\ ~(b \in Ignored)
          /\ ~(b \in DOMAIN Need) /\ ~(b = Continuation)
      BY <1>3, <1>6
    <3>2. QED
      BY ONLY <3>1, Zenon DEF GroundByte
  <2> HIDE DEF v
  <2>3. u.vt = t.vt /\ u.scr = v
    BY <1>1
  <2> HIDE DEF u
  <2>4. QED
    BY <1>1, <1>2, <2>1, <2>2, <2>3 DEF TextTerms
<1>7. QED
  BY <1>4, <1>5, <1>6

LEMMA TextByteOK ==
  ASSUME NEW s \in Screens, s.rows >= 1, NEW t \in TextTerms(s), NEW b \in STRING \cap Text
  PROVE  FeedByte(t, b) \in TextTerms(s)
<1>1. /\ t \in Terms(s) /\ t.vt.st \in {"Ground", "Utf8"} /\ t.scr \in Inside(s)
      /\ t = [vt |-> t.vt, scr |-> t.scr] /\ t.vt \in Parsers /\ t.vt \in RawParsers
  BY TermParts, ParserParts DEF TextTerms
<1>2. FeedByte(t, b) \in Terms(s)
  BY <1>1, FeedByteOK
<1>3. CASE t.vt.st = "Ground"
  BY <1>3, GroundText DEF FeedByte
<1>4. CASE t.vt.st = "Utf8" /\ b # Continuation
  <2> DEFINE u == [t EXCEPT !.vt = Ground]
  <2>1. u \in Terms(s)
    BY <1>1, TermOf, GroundOK, TermParts
  <2>2. u.vt = Ground /\ u.scr = t.scr
    BY <1>1
  <2>3. FeedByte(t, b) = GroundByte(u, b)
    BY <1>4 DEF FeedByte
  <2> HIDE DEF u
  <2>4. u \in TextTerms(s)
    <3>1. Ground.st = "Ground"
      BY DEF Ground
    <3>2. QED
      BY <1>1, <2>1, <2>2, <3>1 DEF TextTerms
  <2>5. QED
    BY <2>3, <2>4, GroundText
<1>5. CASE t.vt.st = "Utf8" /\ b = Continuation /\ t.vt.need > 1
  <2> DEFINE u == [t EXCEPT !.vt.need = @ - 1]
  <2>1. u.vt.st = t.vt.st /\ u.scr = t.scr
    BY <1>1 DEF RawParsers
  <2>2. FeedByte(t, b) = u
    BY <1>5 DEF FeedByte
  <2> HIDE DEF u
  <2>3. QED
    BY <1>1, <1>2, <2>1, <2>2 DEF TextTerms
<1>6. CASE t.vt.st = "Utf8" /\ b = Continuation /\ ~(t.vt.need > 1)
  <2> DEFINE v == PutCodepoint(t.scr, t.vt.lead, Width[t.vt.lead])
  <2>1. v \in Inside(s)
    <3>1. t.vt.lead \in DOMAIN Need
      BY <1>1, <1>6, ParserParts
    <3>2. QED
      BY <1>1, <3>1, LeadOK, PrintedInside
  <2>2. FeedByte(t, b) = [vt |-> Ground, scr |-> v]
    BY <1>6 DEF FeedByte
  <2> HIDE DEF v
  <2>3. QED
    <3>1. Ground.st = "Ground"
      BY DEF Ground
    <3>2. QED
      BY <1>2, <2>1, <2>2, <3>1 DEF TextTerms
<1>7. QED
  BY <1>1, <1>3, <1>4, <1>5, <1>6

\* Text goes nowhere but into the region.
LEMMA FeedTextOK ==
  ASSUME NEW s0 \in Screens, s0.rows >= 1, NEW t0 \in TextTerms(s0),
         NEW bytes \in Seq(STRING), \A i \in DOMAIN bytes : bytes[i] \in Text
  PROVE  Feed(t0, bytes) \in TextTerms(s0)
<1> DEFINE base == t0
           seq == bytes
           N == Len(bytes)
           Step(f, s) == IF s = {} THEN base ELSE FeedByte(f[s \ {Max(s)}], seq[Max(s)])
           iter == CHOOSE f : f = [s \in SUBSET DOMAIN seq |-> Step(f, s)]
           G == [p \in TextTerms(s0) \X (1 .. N) |-> FeedByte(p[1], seq[p[2]])]
<1>1. N \in Nat /\ DOMAIN seq = 1 .. N
  OBVIOUS
<1>2. \A i \in 1 .. N : seq[i] \in STRING \cap Text
  OBVIOUS
<1>3. Feed(t0, bytes) = iter[DOMAIN seq]
  BY DEF Feed, FoldLeft, MapThenFoldSet
<1>4. base \in TextTerms(s0)
  OBVIOUS
<1> HIDE DEF base, seq, N
<1>5. \A acc \in TextTerms(s0), i \in 1 .. N : FeedByte(acc, seq[i]) \in TextTerms(s0)
  BY <1>2, TextByteOK
<1>6. G \in [TextTerms(s0) \X (1 .. N) -> TextTerms(s0)]
  BY <1>5
<1>7. \E f : f = [s \in SUBSET DOMAIN seq |-> Step(f, s)]
  <2> HIDE DEF G
  <2>1. PICK f : FoldOf(f, TextTerms(s0), base, N, G)
    BY <1>1, <1>4, <1>6, FoldExists
  <2>2. ASSUME NEW s \in SUBSET (1 .. N) PROVE f[s] = Step(f, s)
    <3>1. CASE s = {}
      BY <2>1, <3>1 DEF FoldOf
    <3>2. CASE s # {}
      <4>1. Max(s) \in 1 .. N /\ f[s \ {Max(s)}] \in TextTerms(s0)
        BY <1>1, <2>1, <3>2, MaxIsIn DEF FoldOf
      <4>2. G[<<f[s \ {Max(s)}], Max(s)>>] = FeedByte(f[s \ {Max(s)}], seq[Max(s)])
        BY <4>1 DEF G
      <4>3. QED
        BY <2>1, <3>2, <4>2 DEF FoldOf
    <3>3. QED
      BY <3>1, <3>2
  <2>3. f = [s \in SUBSET DOMAIN seq |-> Step(f, s)]
    <3>1. f = [s \in SUBSET (1 .. N) |-> f[s]]
      BY <2>1 DEF FoldOf
    <3> HIDE DEF Step
    <3>2. QED
      BY <1>1, <2>2, <3>1
  <2>4. QED
    BY <2>3
<1>8. iter = [s \in SUBSET DOMAIN seq |-> Step(iter, s)]
  <2> HIDE DEF Step
  <2> QED
    BY <1>7
<1> HIDE DEF iter
<1>9. iter[{}] \in TextTerms(s0)
  BY <1>4, <1>8
<1>10. ASSUME NEW k \in 1 .. N, iter[1 .. (k - 1)] \in TextTerms(s0)
       PROVE  iter[1 .. k] \in TextTerms(s0)
  <2>1. Max(1 .. k) = k /\ (1 .. k) \ {k} = 1 .. (k - 1)
    <3>1. k \in Nat \ {0}
      BY <1>1
    <3>2. QED
      BY <3>1, MaxOfInterval
  <2>2. k \in Nat \ {0} /\ k <= N
    BY <1>1
  <2>3. k \in 1 .. k
    BY <2>2
  <2>4. 1 .. k \in SUBSET DOMAIN seq
    BY <1>1, <2>2
  <2>5. iter[1 .. k] = FeedByte(iter[1 .. (k - 1)], seq[k])
    BY <1>8, <2>1, <2>3, <2>4
  <2>6. QED
    BY <1>5, <1>10, <2>5
<1>11. iter[1 .. N] \in TextTerms(s0)
  BY <1>1, <1>9, <1>10, PrefixInduction
<1>12. QED
  BY <1>1, <1>3, <1>11

-------------------------------------------------------------------------------
\* What the UI's thread works on, and how its parts hang together: a pseudo-terminal that
\* runs has its master and its child, and a master or a panel that is shown has a screen.

Lives == {"Idle", "Running", "Exited", "Failed"}
Sessions == [state : Lives, exit : BOOLEAN, view : 0 .. Scrollback]
Terminals == [vt : Parsers, scr : Screens]
Ptys == [fd : BOOLEAN, running : BOOLEAN, life : Lives, exit : BOOLEAN, size : Nat \X Nat]
Ttys == [bytes : Seq(STRING), open : BOOLEAN]
Panels == [shown : BOOLEAN, size : Sizes \cup {Hidden}]
Worlds == [s : Sessions, t : Terminals, p : Ptys, child : {"none", "runs", "ended"}, tty : Ttys,
           panel : Panels]

Linked(w) ==
  /\ w.p.life = "Running" => w.p.fd /\ w.p.running /\ w.child # "none"
  /\ w.p.fd => w.t.scr.rows >= 1

Agrees(w) ==
  Alive(w) =>
    /\ w.p.size = <<w.t.scr.rows, w.t.scr.cols>>
    /\ w.panel.shown /\ w.panel.size # Hidden =>
         <<w.t.scr.rows, w.t.scr.cols>> = <<High(1, ViewRows(w)), High(1, w.panel.size.width)>>

Good(w) ==
  /\ w \in Worlds /\ Linked(w) /\ Agrees(w)
  /\ w.panel.shown => w.t.scr.rows >= 1

LEMMA WorldParts ==
  ASSUME NEW w \in Worlds
  PROVE  /\ w = [s |-> w.s, t |-> w.t, p |-> w.p, child |-> w.child, tty |-> w.tty,
                 panel |-> w.panel]
         /\ w.s \in Sessions /\ w.t \in Terminals /\ w.p \in Ptys
         /\ w.child \in {"none", "runs", "ended"} /\ w.tty \in Ttys /\ w.panel \in Panels
BY DEF Worlds

LEMMA ScreenOf ==
  ASSUME NEW w \in Worlds
  PROVE  /\ w.t = [vt |-> w.t.vt, scr |-> w.t.scr] /\ w.t.vt \in Parsers /\ w.t.scr \in Screens
         /\ w.t.scr.rows \in Nat /\ w.t.scr.cols \in Nat
<1>1. w.t = [vt |-> w.t.vt, scr |-> w.t.scr] /\ w.t.vt \in Parsers /\ w.t.scr \in Screens
  BY WorldParts DEF Terminals
<1>2. QED
  BY <1>1, ScreenParts, RawParts

\* The size that the panel gives to the screen.
LEMMA PanelSize ==
  ASSUME NEW w \in Worlds
  PROVE  /\ High(1, ViewRows(w)) \in Nat \ {0} /\ High(1, w.panel.size.width) \in Nat \ {0}
         /\ w.panel.size.width \in Nat
         /\ w.panel.size # Hidden => w.panel.size.width > 0
<1>1. w.panel.size \in Sizes \cup {Hidden}
  BY WorldParts DEF Panels
<1>2. w.panel.size.height \in Nat /\ w.panel.size.width \in Nat
  BY <1>1, SizesAssumption DEF Hidden
<1>3. w.panel.size # Hidden => w.panel.size.width > 0
  BY <1>1, SizesAssumption
<1> DEFINE h == w.panel.size.height
           wd == w.panel.size.width
<1> HIDE DEF h, wd
<1>4. High(1, High(0, h - 1)) \in Nat \ {0} /\ High(1, wd) \in Nat \ {0}
  <2>1. h \in Nat /\ wd \in Nat
    BY <1>2 DEF h, wd
  <2>2. QED
    BY <2>1 DEF High
<1>5. QED
  BY <1>2, <1>3, <1>4 DEF ViewRows, h, wd

LEMMA ReapOK ==
  ASSUME NEW w \in Worlds
  PROVE  /\ Reap(w) \in Worlds
         /\ Reap(w).s = w.s /\ Reap(w).t = w.t /\ Reap(w).tty = w.tty /\ Reap(w).panel = w.panel
         /\ Reap(w).p.fd = w.p.fd /\ Reap(w).p.running = w.p.running /\ Reap(w).p.size = w.p.size
         /\ w.child = "ended" => Reap(w).p.life = "Exited" /\ Reap(w).child = "none"
         /\ w.child # "ended" => Reap(w) = w
<1>1. CASE w.child # "ended"
  BY <1>1 DEF Reap
<1>2. CASE w.child = "ended"
  <2> DEFINE p == [w.p EXCEPT !.life = "Exited", !.exit = TRUE]
             u == [w EXCEPT !.child = "none", !.p = p]
  <2>1. p \in Ptys /\ p.life = "Exited" /\ p.fd = w.p.fd /\ p.running = w.p.running
        /\ p.size = w.p.size
    BY WorldParts DEF Ptys, Lives
  <2>2. Reap(w) = u
    BY <1>2, WorldParts DEF Reap
  <2> HIDE DEF p
  <2>3. u \in Worlds
    BY <2>1 DEF Worlds
  <2>4. u.s = w.s /\ u.t = w.t /\ u.tty = w.tty /\ u.panel = w.panel /\ u.p = p
        /\ u.child = "none"
    BY WorldParts
  <2>5. QED
    BY <1>2, <2>1, <2>2, <2>3, <2>4
<1>3. QED
  BY <1>1, <1>2

LEMMA PtyStopOK ==
  ASSUME NEW w \in Worlds, Linked(w)
  PROVE  /\ PtyStop(w) \in Worlds
         /\ PtyStop(w).s = w.s /\ PtyStop(w).t = w.t /\ PtyStop(w).panel = w.panel
         /\ PtyStop(w).p.fd = FALSE /\ PtyStop(w).p.life # "Running"
<1>1. CASE ~w.p.running /\ ~w.p.fd /\ w.child = "none"
  <2>1. w.p.life # "Running" /\ w.p.fd \in BOOLEAN
    BY <1>1, WorldParts DEF Linked, Ptys
  <2>2. QED
    BY <1>1, <2>1 DEF PtyStop
<1>2. CASE ~(~w.p.running /\ ~w.p.fd /\ w.child = "none")
  <2> DEFINE c == IF w.child = "none" THEN w.child ELSE "ended"
             p == [w.p EXCEPT !.running = FALSE, !.fd = FALSE]
             tt == [bytes |-> <<>>, open |-> FALSE]
             u == [w EXCEPT !.p = p, !.child = c, !.tty = tt]
  <2>1. p \in Ptys /\ p.fd = FALSE /\ p.life = w.p.life
    BY WorldParts DEF Ptys
  <2>2. tt \in Ttys
    <3>1. <<>> \in Seq(STRING)
      OBVIOUS
    <3>2. QED
      BY <3>1 DEF Ttys
  <2>3. c \in {"none", "ended"} /\ (c = "none" => w.p.life # "Running")
    BY WorldParts DEF Linked
  <2>4. [w EXCEPT !.p.running = FALSE, !.p.fd = FALSE,
                  !.child = IF @ = "none" THEN @ ELSE "ended",
                  !.tty = [bytes |-> <<>>, open |-> FALSE]] = u
    BY WorldParts
  <2>5. PtyStop(w) = Reap(u)
    BY <1>2, <2>4 DEF PtyStop
  <2> HIDE DEF c, p, tt
  <2>6. u \in Worlds
    BY <2>1, <2>2, <2>3 DEF Worlds
  <2>7. u.s = w.s /\ u.t = w.t /\ u.panel = w.panel /\ u.p = p /\ u.child = c
    BY WorldParts
  <2> HIDE DEF u
  <2>8. QED
    BY <2>1, <2>3, <2>5, <2>6, <2>7, ReapOK
<1>3. QED
  BY <1>1, <1>2

LEMMA PtyStartOK ==
  ASSUME NEW w0 \in Worlds, Linked(w0), NEW rows \in Nat, NEW cols \in Nat, NEW forks \in BOOLEAN
  PROVE  LET u == PtyStart(w0, rows, cols, forks)
         IN  /\ u \in Worlds /\ u.s = w0.s /\ u.t = w0.t /\ u.panel = w0.panel
             /\ u.p.life = "Running" => /\ u.p.fd /\ u.p.running /\ u.child # "none"
                                        /\ u.p.size = <<rows, cols>>
<1> DEFINE v == PtyStop(w0)
           p0 == [v.p EXCEPT !.exit = FALSE, !.life = "Idle"]
           w == [v EXCEPT !.p = p0]
           pf == [p0 EXCEPT !.life = "Failed"]
           pr == [p0 EXCEPT !.fd = TRUE, !.running = TRUE, !.life = "Running",
                            !.size = <<rows, cols>>]
           tt == [bytes |-> <<>>, open |-> TRUE]
           failed == [w EXCEPT !.p = pf]
           runs == [w EXCEPT !.p = pr, !.child = "runs", !.tty = tt]
<1>1. v \in Worlds /\ v.s = w0.s /\ v.t = w0.t /\ v.panel = w0.panel
  BY PtyStopOK
<1> HIDE DEF v
<1>2. p0 \in Ptys
  BY <1>1, WorldParts DEF Ptys, Lives
<1>3. [v EXCEPT !.p.exit = FALSE, !.p.life = "Idle"] = w
  BY <1>1, WorldParts
<1> HIDE DEF p0
<1>4. pf \in Ptys /\ pf.life = "Failed"
  BY <1>2 DEF Ptys, Lives
<1>5. pr \in Ptys /\ pr.fd = TRUE /\ pr.running = TRUE /\ pr.size = <<rows, cols>>
  <2>1. <<rows, cols>> \in Nat \X Nat
    OBVIOUS
  <2>2. QED
    BY <1>2, <2>1 DEF Ptys, Lives
<1>6. tt \in Ttys
  <2>1. <<>> \in Seq(STRING)
    OBVIOUS
  <2>2. QED
    BY <2>1 DEF Ttys
<1>7. w \in Worlds /\ w.s = w0.s /\ w.t = w0.t /\ w.panel = w0.panel /\ w.p = p0
  BY <1>1, <1>2, WorldParts DEF Worlds
<1> HIDE DEF w
<1>8. [w EXCEPT !.p.life = "Failed"] = failed
  BY <1>7, WorldParts
<1> HIDE DEF pf, pr, tt
<1>9. /\ failed \in Worlds /\ failed.s = w0.s /\ failed.t = w0.t /\ failed.panel = w0.panel
      /\ failed.p = pf
  BY <1>4, <1>7, WorldParts DEF Worlds
<1>10. /\ runs \in Worlds /\ runs.s = w0.s /\ runs.t = w0.t /\ runs.panel = w0.panel
       /\ runs.p = pr /\ runs.child = "runs"
  BY <1>5, <1>6, <1>7, WorldParts DEF Worlds
<1> DEFINE u == PtyStart(w0, rows, cols, forks)
<1>11. u = IF forks THEN runs ELSE failed
  BY <1>3, <1>7, <1>8 DEF PtyStart, w, v, pr, tt
<1> HIDE DEF u, runs, failed
<1>12. /\ u \in Worlds /\ u.s = w0.s /\ u.t = w0.t /\ u.panel = w0.panel
       /\ u.p.life = "Running" => /\ u.p.fd /\ u.p.running /\ u.child # "none"
                                  /\ u.p.size = <<rows, cols>>
  <2>1. CASE forks
    BY <1>5, <1>10, <1>11, <2>1
  <2>2. CASE ~forks
    BY <1>4, <1>9, <1>11, <2>2
  <2>3. QED
    BY <2>1, <2>2
<1>13. QED
  BY <1>12 DEF u

\* u has what w had and a session that was started on a screen of the given size.
Started(u, w, rows, cols) ==
  /\ u \in Worlds /\ Linked(u) /\ u.panel = w.panel
  /\ u.t.scr.rows = rows /\ u.t.scr.cols = cols
  /\ Alive(u) => u.p.size = <<rows, cols>>

LEMMA SessionStartOK ==
  ASSUME NEW w \in Worlds, Linked(w), NEW rows \in Nat \ {0}, NEW cols \in Nat \ {0},
         NEW forks \in BOOLEAN
  PROVE  Started(SessionStart(w, rows, cols, forks), w, rows, cols)
<1> DEFINE x == Reset(Resize(w.t.scr, rows, cols))
           s1 == [w.s EXCEPT !.exit = FALSE, !.view = 0]
           t1 == [vt |-> Ground, scr |-> x]
           fresh == [w EXCEPT !.s = s1, !.t = t1]
           q == PtyStart(fresh, rows, cols, forks)
           st == IF forks THEN "Running" ELSE "Failed"
           s2 == [q.s EXCEPT !.state = st]
           u == [q EXCEPT !.s = s2]
<1>1. x \in Screens /\ x.rows = rows /\ x.cols = cols
  <2>1. /\ Resize(w.t.scr, rows, cols) \in Screens
        /\ Resize(w.t.scr, rows, cols).rows = rows /\ Resize(w.t.scr, rows, cols).cols = cols
    <3>1. w.t.scr \in Screens
      BY ScreenOf
    <3>2. QED
      BY <3>1, ResizeOK
  <2>2. rows >= 1
    OBVIOUS
  <2>3. QED
    BY <2>1, <2>2, ResetOK DEF Like
<1> HIDE DEF x
<1>2. s1 \in Sessions
  <2>1. 0 \in 0 .. Scrollback
    BY ScrollbackAssumption
  <2>2. QED
    BY <2>1, WorldParts DEF Sessions
<1>3. t1 \in Terminals /\ t1.scr = x
  BY <1>1, GroundOK DEF Terminals
<1>4. [w EXCEPT !.s.exit = FALSE, !.s.view = 0, !.t = [vt |-> Ground, scr |-> x]] = fresh
  BY WorldParts
<1> HIDE DEF s1, t1
<1>5. /\ fresh \in Worlds /\ fresh.t = t1 /\ fresh.p = w.p /\ fresh.child = w.child
      /\ fresh.panel = w.panel
  BY <1>2, <1>3, WorldParts DEF Worlds
<1> HIDE DEF fresh
<1>6. Linked(fresh)
  BY <1>1, <1>3, <1>5 DEF Linked
<1>7. /\ q \in Worlds /\ q.t = t1 /\ q.panel = w.panel
      /\ q.p.life = "Running" => /\ q.p.fd /\ q.p.running /\ q.child # "none"
                                 /\ q.p.size = <<rows, cols>>
  <2>1. rows \in Nat /\ cols \in Nat
    OBVIOUS
  <2>2. QED
    BY <1>5, <1>6, <2>1, PtyStartOK
<1> HIDE DEF q
<1>8. s2 \in Sessions
  <2>1. st \in Lives
    BY DEF Lives
  <2> HIDE DEF st
  <2>2. QED
    BY <1>7, <2>1, WorldParts DEF Sessions
<1>9. [q EXCEPT !.s.state = st] = u
  BY <1>7, WorldParts
<1> HIDE DEF s2
<1>10. u \in Worlds /\ u.t = t1 /\ u.panel = w.panel /\ u.p = q.p /\ u.child = q.child
  BY <1>7, <1>8, WorldParts DEF Worlds
<1> HIDE DEF u
<1>11. Linked(u)
  BY <1>1, <1>3, <1>7, <1>10 DEF Linked
<1>12. Alive(u) => u.p.size = <<rows, cols>>
  BY <1>7, <1>10 DEF Alive, PtyAlive
<1>13. SessionStart(w, rows, cols, forks) = u
  BY <1>4, <1>9 DEF SessionStart, q, st, x
<1>14. QED
  BY <1>1, <1>3, <1>10, <1>11, <1>12, <1>13 DEF Started

LEMMA EnsureStartedOK ==
  ASSUME NEW w \in Worlds, Linked(w), NEW forks \in BOOLEAN
  PROVE  LET u == EnsureStarted(w, forks)
         IN  /\ u \in Worlds /\ Linked(u) /\ u.panel = w.panel /\ u.t.scr.rows >= 1
             /\ Agrees(w) => Agrees(u)
<1> DEFINE rows == High(1, ViewRows(w))
           cols == IF w.panel.size.width > 0 THEN w.panel.size.width ELSE DefaultCols
           v == SessionStart(w, rows, cols, forks)
           u == EnsureStarted(w, forks)
<1>1. CASE Alive(w)
  <2>1. u = w
    BY <1>1 DEF EnsureStarted
  <2>2. w.t.scr.rows >= 1
    BY <1>1 DEF Alive, PtyAlive, Linked
  <2>3. QED
    BY <2>1, <2>2
<1>2. CASE ~Alive(w)
  <2>1. rows \in Nat \ {0} /\ cols \in Nat \ {0}
    BY PanelSize, BoundsAssumption
  <2>2. w.panel.size # Hidden => cols = High(1, w.panel.size.width)
    <3> DEFINE wd == w.panel.size.width
    <3>1. wd \in Nat /\ (w.panel.size # Hidden => wd > 0)
      BY PanelSize
    <3> HIDE DEF wd
    <3>2. wd > 0 => wd = High(1, wd)
      BY <3>1 DEF High
    <3>3. QED
      BY <3>1, <3>2 DEF wd
  <2>3. u = v
    BY <1>2 DEF EnsureStarted
  <2>4. \A z : z.panel = w.panel => rows = High(1, ViewRows(z))
    BY DEF ViewRows
  <2> HIDE DEF u, cols, rows
  <2>5. /\ v \in Worlds /\ Linked(v) /\ v.panel = w.panel
        /\ v.t.scr.rows = rows /\ v.t.scr.cols = cols
        /\ Alive(v) => v.p.size = <<rows, cols>>
    <3>1. Started(v, w, rows, cols)
      BY <2>1, SessionStartOK
    <3> HIDE DEF v
    <3>2. QED
      BY <3>1 DEF Started
  <2> HIDE DEF v
  <2>6. rows = High(1, ViewRows(v))
    BY <2>4, <2>5
  <2>7. Agrees(v) /\ v.t.scr.rows >= 1
    BY <2>1, <2>2, <2>5, <2>6 DEF Agrees
  <2>8. QED
    BY <2>3, <2>5, <2>7 DEF u
<1>3. QED
  BY <1>1, <1>2

\* A step that tells the shell nothing of a size keeps the agreement on it.
LEMMA StillGood ==
  ASSUME NEW w, Good(w), NEW u \in Worlds, u.panel = w.panel,
         u.t.scr.rows = w.t.scr.rows, u.t.scr.cols = w.t.scr.cols, Linked(u),
         Alive(u) => Alive(w) /\ u.p.size = w.p.size
  PROVE  Good(u)
BY DEF Good, Agrees, ViewRows

LEMMA SessionStopOK ==
  ASSUME NEW w, Good(w)
  PROVE  Good(SessionStop(w))
<1> DEFINE v == PtyStop(w)
           st == IF v.p.life = "Failed" THEN "Failed" ELSE IF v.p.exit THEN "Exited" ELSE "Idle"
           s1 == [v.s EXCEPT !.exit = v.p.exit, !.state = st]
           u == [v EXCEPT !.s = s1]
<1>1. CASE w.s.state = "Idle"
  BY <1>1 DEF SessionStop
<1>2. CASE w.s.state # "Idle"
  <2>1. /\ v \in Worlds /\ v.s = w.s /\ v.t = w.t /\ v.panel = w.panel
        /\ v.p.fd = FALSE /\ v.p.life # "Running"
    BY PtyStopOK DEF Good
  <2>2. SessionStop(w) = [v EXCEPT !.s.exit = v.p.exit, !.s.state = st]
    BY <1>2 DEF SessionStop
  <2> HIDE DEF v
  <2>3. [v EXCEPT !.s.exit = v.p.exit, !.s.state = st] = u
    BY <2>1, WorldParts
  <2>4. s1 \in Sessions
    <3>1. st \in Lives
      BY DEF Lives
    <3>2. v.p.exit \in BOOLEAN
      BY <2>1, WorldParts DEF Ptys
    <3> HIDE DEF st
    <3>3. QED
      BY <2>1, <3>1, <3>2, WorldParts DEF Sessions
  <2> HIDE DEF s1
  <2>5. u \in Worlds /\ u.t = w.t /\ u.panel = w.panel /\ u.p = v.p
    BY <2>1, <2>4, WorldParts DEF Worlds
  <2> HIDE DEF u
  <2>6. Linked(u) /\ ~Alive(u)
    BY <2>1, <2>5 DEF Linked, Alive, PtyAlive
  <2>7. Good(u)
    BY <2>5, <2>6, StillGood
  <2>8. QED
    BY <2>2, <2>3, <2>7
<1>3. QED
  BY <1>1, <1>2

LEMMA OnResizedOK ==
  ASSUME NEW w \in Worlds, Linked(w), w.panel.shown
  PROVE  Good(OnResized(w)) /\ OnResized(w).panel = w.panel
<1> DEFINE rows == High(1, ViewRows(w))
           cols == High(1, w.panel.size.width)
           x == Resize(w.t.scr, rows, cols)
           size == IF Alive(w) /\ w.p.fd THEN <<rows, cols>> ELSE w.p.size
           t1 == [w.t EXCEPT !.scr = x]
           p1 == [w.p EXCEPT !.size = size]
           u == [w EXCEPT !.t = t1, !.p = p1]
<1>1. rows \in Nat \ {0} /\ cols \in Nat \ {0}
  BY PanelSize
<1>2. OnResized(w) = u
  BY WorldParts DEF OnResized
<1>3. \A v : v.panel = w.panel =>
        rows = High(1, ViewRows(v)) /\ cols = High(1, v.panel.size.width)
  BY DEF ViewRows
<1> HIDE DEF rows, cols
<1>4. x \in Screens /\ x.rows = rows /\ x.cols = cols
  BY <1>1, ScreenOf, ResizeOK
<1> HIDE DEF x
<1>5. t1 \in Terminals /\ t1.scr = x
  <2>1. w.t \in Terminals
    BY WorldParts
  <2>2. QED
    BY <1>4, <2>1 DEF Terminals
<1>6. /\ p1 \in Ptys /\ p1.fd = w.p.fd /\ p1.running = w.p.running /\ p1.life = w.p.life
      /\ p1.size = size
  <2>1. size \in Nat \X Nat
    BY <1>1, WorldParts DEF Ptys
  <2> HIDE DEF size
  <2>2. QED
    BY <2>1, WorldParts DEF Ptys
<1> HIDE DEF t1, p1
<1>7. /\ u \in Worlds /\ u.t = t1 /\ u.p = p1 /\ u.panel = w.panel /\ u.s = w.s
      /\ u.child = w.child
  BY <1>5, <1>6, WorldParts DEF Worlds
<1> HIDE DEF u
<1>8. Linked(u) /\ u.t.scr.rows >= 1
  BY <1>1, <1>4, <1>5, <1>6, <1>7 DEF Linked
<1>9. Agrees(u)
  <2>1. SUFFICES ASSUME Alive(u) PROVE u.p.size = <<rows, cols>>
    BY <1>3, <1>4, <1>5, <1>7 DEF Agrees
  <2>2. Alive(w) /\ w.p.fd
    BY <1>6, <1>7, <1>8, <2>1 DEF Alive, PtyAlive, Linked
  <2>3. QED
    BY <1>6, <1>7, <2>2
<1>10. QED
  BY <1>2, <1>7, <1>8, <1>9 DEF Good

\* A panel that differs: the shell and its screen do not.
LEMMA PanelOnly ==
  ASSUME NEW w \in Worlds, NEW panel1 \in Panels
  PROVE  LET u == [w EXCEPT !.panel = panel1]
         IN  /\ u \in Worlds /\ u.panel = panel1 /\ u.t = w.t /\ u.p = w.p /\ u.s = w.s
             /\ u.child = w.child /\ u.tty = w.tty
             /\ Linked(w) => Linked(u)
<1> DEFINE u == [w EXCEPT !.panel = panel1]
<1>1. /\ u \in Worlds /\ u.panel = panel1 /\ u.t = w.t /\ u.p = w.p /\ u.s = w.s
      /\ u.child = w.child /\ u.tty = w.tty
  BY WorldParts DEF Worlds
<1> HIDE DEF u
<1>2. Linked(w) => Linked(u)
  BY <1>1 DEF Linked
<1>3. QED
  BY <1>1, <1>2 DEF u

LEMMA LayoutOK ==
  ASSUME NEW w, Good(w), NEW win \in Sizes \cup {TooSmall}
  PROVE  Good(Layout(w, win))
<1>1. w \in Worlds /\ Linked(w)
  BY DEF Good
<1>2. CASE win = TooSmall
  BY <1>2 DEF Layout
<1>3. CASE win # TooSmall /\ w.panel.shown
  <2> DEFINE pn == [w.panel EXCEPT !.size = win]
             u == [w EXCEPT !.panel = pn]
  <2>1. pn \in Panels /\ pn.shown
    BY <1>1, <1>3, WorldParts DEF Panels
  <2>2. [w EXCEPT !.panel.size = win] = u
    BY <1>1, WorldParts
  <2>3. Layout(w, win) = OnResized(u)
    BY <1>3, <2>2 DEF Layout
  <2> HIDE DEF pn
  <2>4. u \in Worlds /\ Linked(u) /\ u.panel.shown
    BY <1>1, <2>1, PanelOnly
  <2> HIDE DEF u
  <2>5. QED
    BY <2>3, <2>4, OnResizedOK
<1>4. CASE win # TooSmall /\ ~w.panel.shown
  <2> DEFINE pn == [w.panel EXCEPT !.size = Hidden]
             u == [w EXCEPT !.panel = pn]
  <2>1. pn \in Panels /\ ~pn.shown
    BY <1>1, <1>4, WorldParts DEF Panels
  <2>2. [w EXCEPT !.panel.size = Hidden] = u
    BY <1>1, WorldParts
  <2>3. Layout(w, win) = u
    BY <1>4, <2>2 DEF Layout
  <2> HIDE DEF pn
  <2>4. /\ u \in Worlds /\ Linked(u) /\ ~u.panel.shown
        /\ u.t = w.t /\ u.p = w.p /\ u.s = w.s /\ u.child = w.child
    BY <1>1, <2>1, PanelOnly
  <2> HIDE DEF u
  <2>5. Good(u)
    BY <2>4 DEF Good, Agrees, Alive, PtyAlive
  <2>6. QED
    BY <2>3, <2>5
<1>5. QED
  BY <1>2, <1>3, <1>4

LEMMA ShownOK ==
  ASSUME NEW w, Good(w), window \in Sizes \cup {TooSmall}
  PROVE  Shown(w) \in Worlds /\ Linked(Shown(w)) /\ Shown(w).panel.shown
<1> DEFINE pn == [w.panel EXCEPT !.shown = TRUE]
           v == [w EXCEPT !.panel = pn]
           pz == [v.panel EXCEPT !.size = window]
           u == [v EXCEPT !.panel = pz]
<1>1. w \in Worlds /\ Linked(w)
  BY DEF Good
<1>2. pn \in Panels /\ pn.shown = TRUE
  BY <1>1, WorldParts DEF Panels
<1>3. [w EXCEPT !.panel.shown = TRUE] = v
  BY <1>1, WorldParts
<1> HIDE DEF pn
<1>4. v \in Worlds /\ Linked(v) /\ v.panel.shown
  BY <1>1, <1>2, PanelOnly
<1> HIDE DEF v
<1>5. Shown(w) = Layout(v, window)
  BY <1>3 DEF Shown
<1>6. CASE window = TooSmall
  BY <1>4, <1>5, <1>6 DEF Layout
<1>7. CASE window # TooSmall
  <2>1. pz \in Panels /\ pz.shown
    BY <1>4, <1>7, WorldParts DEF Panels
  <2>2. [v EXCEPT !.panel.size = window] = u
    BY <1>4, WorldParts
  <2>3. Shown(w) = OnResized(u)
    BY <1>4, <1>5, <1>7, <2>2 DEF Layout
  <2> HIDE DEF pz
  <2>4. u \in Worlds /\ Linked(u) /\ u.panel.shown
    BY <1>4, <2>1, PanelOnly
  <2> HIDE DEF u
  <2>5. Good(OnResized(u)) /\ OnResized(u).panel = u.panel
    BY <2>4, OnResizedOK
  <2>6. QED
    BY <2>3, <2>4, <2>5 DEF Good
<1>8. QED
  BY <1>6, <1>7

LEMMA OpenedOK ==
  ASSUME NEW w, Good(w), window \in Sizes \cup {TooSmall}, NEW forks \in BOOLEAN
  PROVE  Good(Opened(w, forks)) /\ Opened(w, forks).panel.shown
<1> DEFINE v == Shown(w)
           u == EnsureStarted(v, forks)
<1>1. v \in Worlds /\ Linked(v) /\ v.panel.shown
  BY ShownOK
<1> HIDE DEF v
<1>2. u \in Worlds /\ Linked(u) /\ u.panel = v.panel
  BY <1>1, EnsureStartedOK
<1> HIDE DEF u
<1>3. Good(OnResized(u)) /\ OnResized(u).panel = u.panel
  BY <1>1, <1>2, OnResizedOK
<1>4. Opened(w, forks) = OnResized(u)
  BY DEF Opened, u, v
<1>5. QED
  BY <1>1, <1>2, <1>3, <1>4

LEMMA EnsuredGood ==
  ASSUME NEW w, Good(w), NEW forks \in BOOLEAN
  PROVE  Good(EnsureStarted(w, forks))
<1> DEFINE u == EnsureStarted(w, forks)
<1>1. w \in Worlds /\ Linked(w) /\ Agrees(w)
  BY DEF Good
<1>2. u \in Worlds /\ Linked(u) /\ u.panel = w.panel /\ u.t.scr.rows >= 1 /\ Agrees(u)
  BY <1>1, EnsureStartedOK
<1> HIDE DEF u
<1>3. Good(u)
  BY <1>2 DEF Good
<1>4. QED
  BY <1>3 DEF u

\* The view and the screen's contents are nothing to the shell.
LEMMA ViewGood ==
  ASSUME NEW w, Good(w), NEW view \in 0 .. Scrollback
  PROVE  Good([w EXCEPT !.s.view = view])
<1> DEFINE s1 == [w.s EXCEPT !.view = view]
           u == [w EXCEPT !.s = s1]
<1>1. w \in Worlds /\ Linked(w)
  BY DEF Good
<1>2. s1 \in Sessions /\ s1.state = w.s.state
  BY <1>1, WorldParts DEF Sessions
<1>3. [w EXCEPT !.s.view = view] = u
  BY <1>1, WorldParts
<1> HIDE DEF s1
<1>4. u \in Worlds /\ u.s = s1 /\ u.t = w.t /\ u.p = w.p /\ u.panel = w.panel /\ u.child = w.child
  BY <1>1, <1>2, WorldParts DEF Worlds
<1> HIDE DEF u
<1>5. Linked(u) /\ (Alive(u) => Alive(w) /\ u.p.size = w.p.size)
  BY <1>1, <1>2, <1>4 DEF Linked, Alive, PtyAlive
<1>6. Good(u)
  BY <1>4, <1>5, StillGood
<1>7. QED
  BY <1>3, <1>6

LEMMA FollowLiveGood ==
  ASSUME NEW w, Good(w)
  PROVE  Good(FollowLive(w))
<1>1. 0 \in 0 .. Scrollback
  BY ScrollbackAssumption
<1>2. QED
  BY <1>1, ViewGood DEF FollowLive

LEMMA ScrollByGood ==
  ASSUME NEW w, Good(w), NEW dir \in {-1, 1}
  PROVE  Good(ScrollBy(w, dir))
<1> DEFINE h == High(1, ViewRows(w))
           lines == w.s.view + dir * h
           n == Len(w.t.scr.back)
           view == Clamp(lines, 0, n)
<1>1. w \in Worlds
  BY DEF Good
<1>2. h \in Nat
  BY <1>1, PanelSize
<1>3. w.s.view \in Int
  BY <1>1, WorldParts, ScrollbackAssumption DEF Sessions
<1>4. n \in Nat /\ n <= Scrollback
  <2>1. w.t.scr \in Screens
    BY <1>1, ScreenOf
  <2>2. w.t.scr.back \in Seq(Lines) /\ n <= Scrollback
    BY <2>1, ScreenParts, RawParts
  <2>3. QED
    BY <2>2
<1> HIDE DEF h, n
<1>5. lines \in Int
  BY <1>2, <1>3
<1> HIDE DEF lines
<1>6. view \in 0 .. Scrollback
  BY <1>4, <1>5, ScrollbackAssumption DEF Clamp, High, Low
<1> HIDE DEF view
<1>7. ScrollBy(w, dir) = [w EXCEPT !.s.view = view]
  BY DEF ScrollBy, SetViewScroll, view, lines, n, h
<1>8. QED
  BY <1>6, <1>7, ViewGood

LEMMA ScreenGood ==
  ASSUME NEW w, Good(w), NEW x \in Like(w.t.scr)
  PROVE  Good([w EXCEPT !.t.scr = x]) /\ [w EXCEPT !.t.scr = x].panel = w.panel
<1> DEFINE t1 == [w.t EXCEPT !.scr = x]
           u == [w EXCEPT !.t = t1]
<1>1. w \in Worlds /\ Linked(w) /\ w.t \in Terminals
  BY WorldParts DEF Good
<1>2. t1 \in Terminals /\ t1.scr = x /\ x.rows = w.t.scr.rows /\ x.cols = w.t.scr.cols
  BY <1>1 DEF Terminals, Like
<1>3. [w EXCEPT !.t.scr = x] = u
  BY <1>1, WorldParts
<1> HIDE DEF t1
<1>4. u \in Worlds /\ u.s = w.s /\ u.t = t1 /\ u.p = w.p /\ u.panel = w.panel /\ u.child = w.child
  BY <1>1, <1>2, WorldParts DEF Worlds
<1> HIDE DEF u
<1>5. Linked(u) /\ (Alive(u) => Alive(w) /\ u.p.size = w.p.size)
  BY <1>1, <1>2, <1>4 DEF Linked, Alive, PtyAlive
<1>6. Good(u)
  BY <1>2, <1>4, <1>5, StillGood
<1>7. QED
  BY <1>3, <1>4, <1>6

LEMMA ClearedGood ==
  ASSUME NEW w, Good(w), w.panel.shown
  PROVE  Good(Cleared(w))
<1> DEFINE y == EraseInDisplay(w.t.scr, 2)
           x == SetCursor(y, 0, 0)
           u == [w EXCEPT !.t.scr = x]
<1>1. w.t.scr \in Screens /\ w.t.scr.rows >= 1
  BY ScreenOf DEF Good
<1>2. y \in Like(w.t.scr)
  <2>1. 2 \in Nat
    OBVIOUS
  <2>2. QED
    BY <1>1, <2>1, EraseInDisplayOK
<1> HIDE DEF y
<1>3. x \in Like(w.t.scr)
  <2>1. 0 \in Int /\ y \in Screens /\ Like(y) = Like(w.t.scr)
    BY <1>2, LikeLike
  <2>2. QED
    BY <2>1, MoveOK
<1> HIDE DEF x
<1>4. Good(u)
  BY <1>3, ScreenGood
<1>5. Cleared(w) = FollowLive(u)
  BY DEF Cleared, x, y
<1> HIDE DEF u
<1>6. QED
  BY <1>4, <1>5, FollowLiveGood

LEMMA LastBytesOK ==
  ASSUME NEW bytes \in Seq(STRING)
  PROVE  /\ LastBytes(bytes) \in Seq(STRING)
         /\ \A i \in DOMAIN LastBytes(bytes) : \E j \in DOMAIN bytes :
              LastBytes(bytes)[i] = bytes[j]
<1> DEFINE n == Len(bytes)
<1>1. CASE n > OutMax
  <2>1. OutMax \in Nat /\ n \in Nat
    BY BoundsAssumption
  <2> DEFINE m == n - OutMax + 1
             last == SubSeq(bytes, m, n)
  <2>2. m \in 1 .. n + 1
    BY <1>1, <2>1
  <2>3. /\ last \in Seq(STRING) /\ DOMAIN last = 1 .. (n - m + 1)
        /\ \A i \in 1 .. (n - m + 1) : last[i] = bytes[m + i - 1]
    <3> HIDE DEF m
    <3> QED
      BY <2>1, <2>2
  <2>4. \A i \in 1 .. (n - m + 1) : m + i - 1 \in 1 .. n
    BY <2>1, <2>2
  <2>5. LastBytes(bytes) = last
    BY <1>1 DEF LastBytes
  <2> HIDE DEF last, m
  <2>6. QED
    BY <2>3, <2>4, <2>5
<1>2. CASE ~(n > OutMax)
  BY <1>2 DEF LastBytes
<1>3. QED
  BY <1>1, <1>2

\* pump(): a master that reads has a screen to write on.
LEMMA FedOK ==
  ASSUME NEW w, Good(w), w.p.fd
  PROVE  /\ w.t \in Terms(w.t.scr) /\ w.t.scr.rows >= 1
         /\ LET u == [w EXCEPT !.t = Feed(@, LastBytes(w.tty.bytes)), !.tty.bytes = <<>>]
            IN  /\ Good(u) /\ u.t = Feed(w.t, LastBytes(w.tty.bytes)) /\ u.p = w.p
                /\ u.child = w.child /\ u.s = w.s /\ u.panel = w.panel
<1> DEFINE f == Feed(w.t, LastBytes(w.tty.bytes))
           tt == [w.tty EXCEPT !.bytes = <<>>]
           u == [w EXCEPT !.t = f, !.tty = tt]
<1>1. w \in Worlds /\ Linked(w) /\ w.t.scr.rows >= 1
  BY DEF Good, Linked
<1>2. w.t \in Terms(w.t.scr)
  <2>1. w.t.scr \in Screens
    BY <1>1, ScreenOf
  <2>2. w.t.scr \in Like(w.t.scr)
    BY <2>1, LikeItself
  <2>3. w.t = [vt |-> w.t.vt, scr |-> w.t.scr] /\ w.t.vt \in Parsers
    BY <1>1, ScreenOf
  <2>4. QED
    BY <2>2, <2>3 DEF Terms
<1>3. w.tty.bytes \in Seq(STRING) /\ w.tty \in Ttys
  BY <1>1, WorldParts DEF Ttys
<1>4. f \in Terms(w.t.scr)
  <2>1. LastBytes(w.tty.bytes) \in Seq(STRING)
    BY <1>3, LastBytesOK
  <2>2. QED
    BY <1>1, <1>2, <2>1, FeedOK
<1>5. [w EXCEPT !.t = Feed(@, LastBytes(w.tty.bytes)), !.tty.bytes = <<>>] = u
  BY <1>1, WorldParts
<1> HIDE DEF f
<1>6. f \in Terminals /\ f.scr.rows = w.t.scr.rows /\ f.scr.cols = w.t.scr.cols
  BY <1>4 DEF Terms, Terminals, Like
<1>7. tt \in Ttys
  <2>1. <<>> \in Seq(STRING)
    OBVIOUS
  <2>2. QED
    BY <1>3, <2>1 DEF Ttys
<1> HIDE DEF tt
<1>8. /\ u \in Worlds /\ u.s = w.s /\ u.t = f /\ u.p = w.p /\ u.panel = w.panel
      /\ u.child = w.child
  BY <1>1, <1>6, <1>7, WorldParts DEF Worlds
<1> HIDE DEF u
<1>9. Linked(u) /\ (Alive(u) => Alive(w) /\ u.p.size = w.p.size)
  BY <1>1, <1>6, <1>8 DEF Linked, Alive, PtyAlive
<1>10. Good(u)
  BY <1>6, <1>8, <1>9, StillGood
<1>11. QED
  BY <1>1, <1>2, <1>5, <1>8, <1>10 DEF f

LEMMA PumpedOK ==
  ASSUME NEW w, Good(w)
  PROVE  /\ Good(Pumped(w))
         /\ w.p.fd /\ w.p.running => Pumped(w).t = Feed(w.t, LastBytes(w.tty.bytes))
         /\ ~(w.p.fd /\ w.p.running) => Pumped(w) = w
<1> DEFINE fed == [w EXCEPT !.t = Feed(@, LastBytes(w.tty.bytes)), !.tty.bytes = <<>>]
           pe == [fed.p EXCEPT !.running = FALSE, !.fd = FALSE, !.life = "Exited"]
           v == [fed EXCEPT !.p = pe]
           f == Feed(w.t, LastBytes(w.tty.bytes))
<1>1. CASE ~(w.p.fd /\ w.p.running)
  BY <1>1 DEF Pumped
<1>2. CASE w.p.fd /\ w.p.running
  <2>1. Good(fed) /\ fed.t = f
    BY <1>2, FedOK
  <2>2. Pumped(w) = IF w.tty.open THEN fed
                    ELSE Reap([fed EXCEPT !.p.running = FALSE, !.p.fd = FALSE, !.p.life = "Exited"])
    BY <1>2 DEF Pumped
  <2> HIDE DEF fed, f
  <2>3. CASE w.tty.open
    BY <1>2, <2>1, <2>2, <2>3 DEF f
  <2>4. CASE ~w.tty.open
    <3>1. fed \in Worlds /\ fed.p \in Ptys
      BY <2>1, WorldParts DEF Good
    <3>2. pe \in Ptys /\ pe.fd = FALSE /\ pe.life = "Exited"
      BY <3>1 DEF Ptys, Lives
    <3>3. [fed EXCEPT !.p.running = FALSE, !.p.fd = FALSE, !.p.life = "Exited"] = v
      BY <3>1, WorldParts
    <3> HIDE DEF pe
    <3>4. v \in Worlds /\ v.p = pe /\ v.t = fed.t /\ v.panel = fed.panel
      BY <3>1, <3>2, WorldParts DEF Worlds
    <3> HIDE DEF v
    <3>5. /\ Reap(v) \in Worlds /\ Reap(v).t = fed.t /\ Reap(v).panel = fed.panel
          /\ Reap(v).p.fd = FALSE /\ Reap(v).p.life = "Exited"
      BY <3>2, <3>4, ReapOK
    <3>6. Linked(Reap(v)) /\ ~Alive(Reap(v))
      BY <3>5 DEF Linked, Alive, PtyAlive
    <3>7. Good(Reap(v))
      BY <2>1, <3>5, <3>6, StillGood
    <3>8. QED
      BY <1>2, <2>1, <2>2, <2>4, <3>3, <3>5, <3>7 DEF f
  <2>5. QED
    BY <2>3, <2>4
<1>3. QED
  BY <1>1, <1>2

LEMMA EndedGood ==
  ASSUME NEW w, Good(w)
  PROVE  LET u == [w EXCEPT !.s.state = "Exited", !.s.exit = w.p.exit]
         IN  Good(u) /\ u.t = w.t
<1> DEFINE s1 == [w.s EXCEPT !.state = "Exited", !.exit = w.p.exit]
           u == [w EXCEPT !.s = s1]
<1>1. w \in Worlds /\ Linked(w)
  BY DEF Good
<1>2. s1 \in Sessions /\ s1.state = "Exited"
  <2>1. w.p.exit \in BOOLEAN
    BY <1>1, WorldParts DEF Ptys
  <2>2. QED
    BY <1>1, <2>1, WorldParts DEF Sessions, Lives
<1>3. [w EXCEPT !.s.state = "Exited", !.s.exit = w.p.exit] = u
  BY <1>1, WorldParts
<1> HIDE DEF s1
<1>4. u \in Worlds /\ u.s = s1 /\ u.t = w.t /\ u.p = w.p /\ u.panel = w.panel /\ u.child = w.child
  BY <1>1, <1>2, WorldParts DEF Worlds
<1> HIDE DEF u
<1>5. Linked(u) /\ ~Alive(u)
  BY <1>1, <1>2, <1>4 DEF Linked, Alive
<1>6. Good(u)
  BY <1>4, <1>5, StillGood
<1>7. QED
  BY <1>3, <1>4, <1>6

-------------------------------------------------------------------------------
\* The inductive invariant.

IInv ==
  /\ Good(World)
  /\ window \in Sizes \cup {TooSmall}
  /\ shells \in Nat

LEMMA InitOK == Init => IInv
<1> SUFFICES ASSUME Init PROVE IInv
  OBVIOUS
<1>1. session \in Sessions
  <2>1. 0 \in 0 .. Scrollback
    BY ScrollbackAssumption
  <2>2. QED
    BY <2>1 DEF Init, Sessions, Lives
<1>2. term \in Terminals
  BY GroundOK, UnsizedOK DEF Init, Terminals
<1>3. pty \in Ptys
  <2>1. <<0, 0>> \in Nat \X Nat
    OBVIOUS
  <2>2. QED
    BY <2>1 DEF Init, Ptys, Lives
<1>4. tty \in Ttys
  <2>1. <<>> \in Seq(STRING)
    OBVIOUS
  <2>2. QED
    BY <2>1 DEF Init, Ttys
<1>5. panel \in Panels
  BY DEF Init, Panels
<1>6. child \in {"none", "runs", "ended"}
  BY DEF Init
<1>7. World \in Worlds
  BY <1>1, <1>2, <1>3, <1>4, <1>5, <1>6 DEF Worlds, World
<1>8. /\ pty.life = "Idle" /\ pty.fd = FALSE /\ session.state = "Idle"
      /\ panel.shown = FALSE
  BY DEF Init
<1>9. Linked(World) /\ ~Alive(World) /\ ~World.panel.shown
  BY <1>8 DEF Linked, Alive, World
<1>10. Good(World)
  BY <1>7, <1>9 DEF Good, Agrees
<1>11. QED
  BY <1>10 DEF IInv, Init

\* The next state's world is what a handler makes of this one's.
LEMMA BecomesOK ==
  ASSUME NEW w, w \in Worlds, Becomes(w)
  PROVE  World' = w
BY WorldParts DEF Becomes, World

LEMMA BecomesGood ==
  ASSUME NEW w, Good(w), Becomes(w), window' \in Sizes \cup {TooSmall}, shells' \in Nat
  PROVE  IInv'
<1>1. w \in Worlds
  BY DEF Good
<1>2. World' = w
  BY <1>1, BecomesOK
<1>3. Good(World')
  BY <1>2
<1>4. QED
  BY <1>3 DEF IInv, Good, Linked, Agrees, Alive, PtyAlive, ViewRows

LEMMA MayStartOK ==
  ASSUME IInv, NEW w, NEW forks, MayStart(w, forks)
  PROVE  window' \in Sizes \cup {TooSmall} /\ shells' \in Nat
BY DEF IInv, MayStart

LEMMA NextOK == IInv /\ [Next]_vars => IInv'
<1> SUFFICES ASSUME IInv, [Next]_vars PROVE IInv'
  OBVIOUS
<1>1. /\ Good(World) /\ window \in Sizes \cup {TooSmall} /\ shells \in Nat
  BY DEF IInv
<1>2. ASSUME NEW forks \in BOOLEAN, OpenTerminal(forks) PROVE IInv'
  BY <1>1, <1>2, OpenedOK, BecomesGood, MayStartOK DEF OpenTerminal
<1>3. CASE CloseTerminal
  <2> DEFINE pn == [World.panel EXCEPT !.shown = FALSE]
             u == [World EXCEPT !.panel = pn]
  <2>1. World \in Worlds
    BY <1>1 DEF Good
  <2>2. pn \in Panels /\ pn.shown = FALSE
    BY <2>1, WorldParts DEF Panels
  <2>3. [World EXCEPT !.panel.shown = FALSE] = u
    BY <2>1, WorldParts
  <2> HIDE DEF pn
  <2>4. /\ u \in Worlds /\ Linked(u) /\ u.panel.shown = FALSE
        /\ u.t = World.t /\ u.p = World.p /\ u.s = World.s /\ u.child = World.child
    BY <1>1, <2>1, <2>2, PanelOnly DEF Good
  <2> HIDE DEF u
  <2>5. Good(u)
    BY <1>1, <2>4 DEF Good, Agrees, Alive, PtyAlive
  <2>6. Good(Layout(u, window))
    BY <1>1, <2>5, LayoutOK
  <2>7. Becomes(Layout(u, window)) /\ window' = window /\ shells' = shells
    BY <1>3, <2>3 DEF CloseTerminal, counters
  <2>8. QED
    BY <1>1, <2>6, <2>7, BecomesGood
<1>4. CASE Kill
  BY <1>1, <1>4, SessionStopOK, BecomesGood DEF Kill, counters
<1>5. ASSUME NEW forks \in BOOLEAN, ClearTerminal(forks) PROVE IInv'
  <2>1. CASE panel.shown
    <3>1. Good(Cleared(World))
      BY <1>1, <2>1, ClearedGood DEF World
    <3>2. QED
      BY <1>1, <1>5, <2>1, <3>1, BecomesGood DEF ClearTerminal, counters
  <2>2. CASE ~panel.shown
    <3>1. Good(Cleared(Opened(World, forks)))
      BY <1>1, OpenedOK, ClearedGood
    <3>2. QED
      BY <1>5, <2>2, <3>1, BecomesGood, MayStartOK DEF ClearTerminal
  <2>3. QED
    BY <2>1, <2>2
<1>6. ASSUME NEW dir \in {-1, 1}, ScrollTerminal(dir) PROVE IInv'
  BY <1>1, <1>6, ScrollByGood, BecomesGood DEF ScrollTerminal, counters
<1>7. ASSUME NEW dir \in {-1, 1}, NEW forks \in BOOLEAN, PageKey(dir, forks) PROVE IInv'
  <2>1. Good(ScrollBy(EnsureStarted(World, forks), dir))
    BY <1>1, EnsuredGood, ScrollByGood
  <2>2. QED
    BY <1>7, <2>1, BecomesGood, MayStartOK DEF PageKey
<1>8. ASSUME NEW forks \in BOOLEAN, TypeKey(forks) PROVE IInv'
  <2>1. Good(FollowLive(EnsureStarted(World, forks)))
    BY <1>1, EnsuredGood, FollowLiveGood
  <2>2. QED
    BY <1>8, <2>1, BecomesGood, MayStartOK DEF TypeKey
<1>9. ASSUME NEW win \in Sizes \cup {TooSmall}, ResizeWindow(win) PROVE IInv'
  <2>1. Good(Layout(World, win))
    BY <1>1, LayoutOK
  <2>2. QED
    BY <1>1, <1>9, <2>1, BecomesGood DEF ResizeWindow
<1>10. CASE Poll
  <2> DEFINE w == Pumped(World)
             u == [w EXCEPT !.s.state = "Exited", !.s.exit = w.p.exit]
  <2>1. Good(w)
    BY <1>1, PumpedOK
  <2>2. Good(u)
    BY <2>1, EndedGood
  <2>3. Becomes(IF Over(w) THEN u ELSE w) /\ window' = window /\ shells' = shells
    BY <1>10 DEF Poll, counters
  <2> HIDE DEF w, u
  <2>4. QED
    BY <1>1, <2>1, <2>2, <2>3, BecomesGood
<1>11. ASSUME NEW tt \in Ttys, NEW c \in {"none", "runs", "ended"},
              tty' = tt, child' = c, child = "runs" \/ c = child, child = "runs" => c # "none",
              UNCHANGED <<window, panel, session, term, pty, shells>>
       PROVE  IInv'
  <2>1. World \in Worlds /\ Linked(World)
    BY <1>1 DEF Good
  <2> DEFINE u == World'
  <2>2. u = [s |-> session, t |-> term, p |-> pty, child |-> c, tty |-> tt, panel |-> panel]
    <3>1. /\ session' = session /\ term' = term /\ pty' = pty /\ panel' = panel
          /\ child' = c /\ tty' = tt
      BY <1>11
    <3>2. QED
      BY <3>1 DEF World
  <2>3. /\ u \in Worlds /\ u.panel = World.panel /\ u.t = World.t /\ u.p = World.p
        /\ u.s = World.s /\ u.child = c
    <3>1. /\ session \in Sessions /\ term \in Terminals /\ pty \in Ptys /\ panel \in Panels
          /\ World.s = session /\ World.t = term /\ World.p = pty /\ World.panel = panel
      BY <2>1, WorldParts DEF World
    <3> HIDE DEF u
    <3>2. QED
      BY <2>2, <3>1 DEF Worlds
  <2>4. World.child = child
    BY DEF World
  <2> HIDE DEF u
  <2>5. Linked(u) /\ (Alive(u) => Alive(World) /\ u.p.size = World.p.size)
    BY <1>11, <2>1, <2>3, <2>4 DEF Linked, Alive, PtyAlive
  <2>6. Good(u)
    BY <1>1, <2>3, <2>5, StillGood
  <2>7. QED
    BY <1>1, <1>11, <2>6 DEF IInv, u, Good, Linked, Agrees, Alive, PtyAlive, ViewRows
<1>12. tty \in Ttys /\ child \in {"none", "runs", "ended"}
  BY <1>1, WorldParts DEF Good, World
<1>13. ASSUME NEW out \in Outputs, ShellWrites(out) PROVE IInv'
  <2> DEFINE b == tty.bytes \o out
             tt == [tty EXCEPT !.bytes = b]
  <2>1. b \in Seq(STRING)
    BY <1>12, OutputsAssumption DEF Ttys
  <2> HIDE DEF b
  <2>2. tt \in Ttys
    BY <1>12, <2>1 DEF Ttys
  <2>3. tty' = tt /\ child' = child /\ child = "runs"
        /\ UNCHANGED <<window, panel, session, term, pty, shells>>
    BY <1>13 DEF ShellWrites, b
  <2> HIDE DEF tt
  <2>4. QED
    BY <1>11, <1>12, <2>2, <2>3
<1>14. CASE ShellCloses
  <2> DEFINE tt == [tty EXCEPT !.open = FALSE]
  <2>1. tt \in Ttys
    BY <1>12 DEF Ttys
  <2>2. tty' = tt /\ child' = child /\ UNCHANGED <<window, panel, session, term, pty, shells>>
    BY <1>14 DEF ShellCloses, counters
  <2> HIDE DEF tt
  <2>3. QED
    BY <1>11, <1>12, <2>1, <2>2
<1>15. CASE ShellEnds
  <2> DEFINE tt == [tty EXCEPT !.open = FALSE]
  <2>1. tt \in Ttys
    BY <1>12 DEF Ttys
  <2>2. tty' = tt /\ child' = "ended" /\ child = "runs"
        /\ UNCHANGED <<window, panel, session, term, pty, shells>>
    BY <1>15 DEF ShellEnds, counters
  <2> HIDE DEF tt
  <2>3. QED
    BY <1>11, <1>12, <2>1, <2>2
<1>16. CASE UNCHANGED vars
  BY <1>1, <1>16 DEF vars, IInv, World, Good, Linked, Agrees, Alive, PtyAlive, ViewRows
<1>17. QED
  BY <1>2, <1>3, <1>4, <1>5, <1>6, <1>7, <1>8, <1>9, <1>10, <1>13, <1>14, <1>15, <1>16 DEF Next

\* Whatever the shell writes and however the panel, the window and the shell come and go,
\* the terminal's parts hang together.
THEOREM TerminalInvariant == Spec => []IInv
BY InitOK, NextOK, PTL DEF Spec

\* The screen is always one that the code can index, and every part of the terminal has a
\* value that its enumeration names (terminal_screen.hpp, terminal_session.hpp).
THEOREM ScreenIsWhole == Spec => []TypeOK
<1>1. ASSUME IInv PROVE TypeOK
  <2>1. World \in Worlds /\ window \in Sizes \cup {TooSmall}
    BY <1>1 DEF IInv, Good
  <2>2. /\ session \in Sessions /\ term \in Terminals /\ pty \in Ptys /\ panel \in Panels
        /\ child \in {"none", "runs", "ended"}
    BY <2>1, WorldParts DEF World
  <2>3. scr \in Screens /\ term.vt \in Parsers
    BY <2>2 DEF Terminals, scr
  <2>4. /\ session.state \in Lives /\ session.view \in 0 .. Scrollback
        /\ panel.shown \in BOOLEAN /\ panel.size \in Sizes \cup {Hidden} /\ pty.life \in Lives
    BY <2>2 DEF Sessions, Panels, Ptys
  <2>5. term.vt.st \in VtStates
    BY <2>3, ParserParts DEF RawParsers
  <2> DEFINE s == scr
  <2>6. /\ s \in RawScreens /\ GridFits(s) /\ (Sized(s) \/ NeverSized(s))
        /\ (s.wrapPending => s.col = s.cols - 1) /\ Len(s.back) <= Scrollback
    BY <2>3, ScreenParts
  <2> HIDE DEF s
  <2>7. /\ s.rows \in Nat /\ s.cols \in Nat /\ s.row \in Nat /\ s.col \in Nat
        /\ s.top \in Nat /\ s.bottom \in Nat /\ s.pen \in Pens
    BY <2>6, RawParts
  <2>8. /\ DOMAIN s.grid = 0 .. s.rows - 1
        /\ \A r \in DOMAIN s.grid : DOMAIN s.grid[r] = 0 .. s.cols - 1
    BY <2>6, <2>7 DEF GridFits
  <2>9. s.rows > 0 => /\ s.row \in 0 .. s.rows - 1 /\ s.col \in 0 .. s.cols - 1
                      /\ 0 <= s.top /\ s.top <= s.bottom /\ s.bottom < s.rows
    BY <2>6, <2>7 DEF Sized, NeverSized
  <2>10. PenOK(s.pen)
    BY <2>7 DEF PenOK, Pens, Colours
  <2>11. ScreenOK
    BY <2>6, <2>8, <2>9, <2>10 DEF ScreenOK, s
  <2>12. QED
    BY <2>1, <2>2, <2>4, <2>5, <2>11 DEF TypeOK, Lives, VtStates
<1>2. QED
  BY <1>1, TerminalInvariant, PTL

\* A shell that lives was told the size of the screen it writes on, which is the panel's
\* (terminal_session.cpp, terminal_panel_part2.cpp).
THEOREM ShellKnowsItsSize == Spec => []SizesAgree
<1>1. IInv => SizesAgree
  BY DEF IInv, Good, Agrees, SizesAgree, World, scr, ViewRows
<1>2. QED
  BY <1>1, TerminalInvariant, PTL

-------------------------------------------------------------------------------
\* What prints: a poll and nothing else takes bytes from the shell and leaves the rest.

LEMMA OnResizedTty ==
  ASSUME NEW w \in Worlds
  PROVE  OnResized(w).tty = w.tty
BY WorldParts DEF OnResized

LEMMA LayoutTty ==
  ASSUME NEW w \in Worlds, NEW win \in Sizes \cup {TooSmall}
  PROVE  Layout(w, win).tty = w.tty
<1> DEFINE pn == [w.panel EXCEPT !.size = win]
           u == [w EXCEPT !.panel = pn]
<1>1. CASE win = TooSmall
  BY <1>1 DEF Layout
<1>2. CASE win # TooSmall /\ w.panel.shown
  <2>1. pn \in Panels
    BY <1>2, WorldParts DEF Panels
  <2>2. [w EXCEPT !.panel.size = win] = u
    BY WorldParts
  <2> HIDE DEF pn
  <2>3. u \in Worlds /\ u.tty = w.tty
    BY <2>1, PanelOnly
  <2>4. Layout(w, win) = OnResized(u)
    BY <1>2, <2>2 DEF Layout
  <2> HIDE DEF u
  <2>5. QED
    BY <2>3, <2>4, OnResizedTty
<1>3. CASE win # TooSmall /\ ~w.panel.shown
  BY <1>3, WorldParts DEF Layout
<1>4. QED
  BY <1>1, <1>2, <1>3

LEMMA ShownTty ==
  ASSUME NEW w \in Worlds, window \in Sizes \cup {TooSmall}
  PROVE  Shown(w).tty = w.tty
<1> DEFINE pn == [w.panel EXCEPT !.shown = TRUE]
           u == [w EXCEPT !.panel = pn]
<1>1. pn \in Panels
  BY WorldParts DEF Panels
<1>2. [w EXCEPT !.panel.shown = TRUE] = u
  BY WorldParts
<1> HIDE DEF pn
<1>3. u \in Worlds /\ u.tty = w.tty
  BY <1>1, PanelOnly
<1>4. Shown(w) = Layout(u, window)
  BY <1>2 DEF Shown
<1> HIDE DEF u
<1>5. QED
  BY <1>3, <1>4, LayoutTty

LEMMA OpenedTty ==
  ASSUME NEW w, Good(w), window \in Sizes \cup {TooSmall}, NEW forks, ~Starts(Shown(w))
  PROVE  Opened(w, forks).tty = w.tty
<1>1. w \in Worlds /\ Shown(w) \in Worlds
  BY ShownOK DEF Good
<1>2. EnsureStarted(Shown(w), forks) = Shown(w)
  BY DEF Starts, EnsureStarted
<1>3. QED
  BY <1>1, <1>2, OnResizedTty, ShownTty DEF Opened

LEMMA ViewTty ==
  ASSUME NEW w \in Worlds, NEW dir
  PROVE  /\ FollowLive(w).tty = w.tty /\ ScrollBy(w, dir).tty = w.tty
         /\ Cleared(w).tty = w.tty
<1>1. FollowLive(w).tty = w.tty /\ ScrollBy(w, dir).tty = w.tty
  BY WorldParts DEF FollowLive, ScrollBy, SetViewScroll
<1>2. Cleared(w).tty = w.tty
  BY WorldParts DEF Cleared, FollowLive
<1>3. QED
  BY <1>1, <1>2

LEMMA SessionStopTerm ==
  ASSUME NEW w, Good(w)
  PROVE  SessionStop(w).t = w.t
<1>1. PtyStop(w) \in Worlds /\ PtyStop(w).t = w.t
  BY PtyStopOK DEF Good
<1>2. QED
  BY <1>1, WorldParts DEF SessionStop

LEMMA NoStart ==
  ASSUME NEW w, NEW forks, MayStart(w, forks), shells \in Nat, shells' = shells
  PROVE  ~Starts(w)
BY DEF MayStart

\* A step that prints text does so inside the region, or leaves the terminal as it was.
LEMMA Prints ==
  ASSUME IInv, [Next]_vars, PrintsText
  PROVE  term' = term \/ term' \in TextTerms(scr)
<1>1. /\ Good(World) /\ World \in Worlds /\ window \in Sizes \cup {TooSmall} /\ shells \in Nat
      /\ World.tty = tty /\ World.t = term /\ World.p = pty
  BY DEF IInv, Good, World
<1>2. tty' # tty /\ shells' = shells
  BY DEF PrintsText
<1>3. ASSUME NEW w, Becomes(w) PROVE tty' = w.tty /\ term' = w.t
  BY <1>3 DEF Becomes
<1>4. ASSUME NEW forks \in BOOLEAN, OpenTerminal(forks) PROVE FALSE
  <2>1. ~Starts(Shown(World))
    BY <1>1, <1>2, <1>4, NoStart DEF OpenTerminal
  <2>2. Opened(World, forks).tty = tty
    BY <1>1, <2>1, OpenedTty
  <2>3. QED
    BY <1>2, <1>3, <1>4, <2>2 DEF OpenTerminal
<1>5. CASE CloseTerminal
  <2> DEFINE pn == [World.panel EXCEPT !.shown = FALSE]
             u == [World EXCEPT !.panel = pn]
  <2>1. pn \in Panels
    BY <1>1, WorldParts DEF Panels
  <2>2. [World EXCEPT !.panel.shown = FALSE] = u
    BY <1>1, WorldParts
  <2> HIDE DEF pn
  <2>3. u \in Worlds /\ u.tty = World.tty
    BY <1>1, <2>1, PanelOnly
  <2>4. Becomes(Layout(u, window))
    BY <1>5, <2>2 DEF CloseTerminal
  <2> HIDE DEF u
  <2>5. QED
    BY <1>1, <1>2, <1>3, <2>3, <2>4, LayoutTty
<1>6. CASE Kill
  BY <1>1, <1>3, <1>6, SessionStopTerm DEF Kill
<1>7. ASSUME NEW forks \in BOOLEAN, ClearTerminal(forks) PROVE FALSE
  <2>1. CASE panel.shown
    BY <1>1, <1>2, <1>3, <1>7, <2>1, ViewTty DEF ClearTerminal
  <2>2. CASE ~panel.shown
    <3>1. ~Starts(Shown(World))
      BY <1>1, <1>2, <1>7, <2>2, NoStart DEF ClearTerminal
    <3>2. Opened(World, forks).tty = tty /\ Opened(World, forks) \in Worlds
      BY <1>1, <3>1, OpenedTty, OpenedOK DEF Good
    <3>3. Cleared(Opened(World, forks)).tty = tty
      BY <3>2, ViewTty
    <3>4. QED
      BY <1>2, <1>3, <1>7, <2>2, <3>3 DEF ClearTerminal
  <2>3. QED
    BY <2>1, <2>2
<1>8. ASSUME NEW dir \in {-1, 1}, ScrollTerminal(dir) PROVE FALSE
  BY <1>1, <1>2, <1>3, <1>8, ViewTty DEF ScrollTerminal
<1>9. ASSUME NEW dir \in {-1, 1}, NEW forks \in BOOLEAN, PageKey(dir, forks) PROVE FALSE
  <2>1. EnsureStarted(World, forks) = World
    BY <1>1, <1>2, <1>9, NoStart DEF PageKey, Starts, EnsureStarted
  <2>2. QED
    BY <1>1, <1>2, <1>3, <1>9, <2>1, ViewTty DEF PageKey
<1>10. ASSUME NEW forks \in BOOLEAN, TypeKey(forks) PROVE FALSE
  <2>1. EnsureStarted(World, forks) = World
    BY <1>1, <1>2, <1>10, NoStart DEF TypeKey, Starts, EnsureStarted
  <2>2. QED
    BY <1>1, <1>2, <1>3, <1>10, <2>1, ViewTty DEF TypeKey
<1>11. ASSUME NEW win \in Sizes \cup {TooSmall}, ResizeWindow(win) PROVE FALSE
  BY <1>1, <1>2, <1>3, <1>11, LayoutTty DEF ResizeWindow
<1>12. CASE Poll
  <2> DEFINE w == Pumped(World)
             u == [w EXCEPT !.s.state = "Exited", !.s.exit = w.p.exit]
  <2>1. Good(w) /\ w \in Worlds
    BY <1>1, PumpedOK DEF Good
  <2>2. Becomes(IF Over(w) THEN u ELSE w)
    BY <1>12 DEF Poll
  <2>3. u.t = w.t
    BY <2>1, EndedGood
  <2> HIDE DEF w, u
  <2>4. term' = w.t
    BY <1>3, <2>2, <2>3
  <2>5. CASE ~(pty.fd /\ pty.running)
    BY <1>1, <2>4, <2>5, PumpedOK DEF w
  <2>6. CASE pty.fd /\ pty.running
    <3> DEFINE bytes == LastBytes(tty.bytes)
    <3>1. term' = Feed(term, bytes)
      BY <1>1, <2>4, <2>6, PumpedOK DEF w
    <3>2. term \in Terms(scr) /\ scr.rows >= 1
      BY <1>1, <2>6, FedOK DEF scr
    <3>3. scr \in Screens
      BY <1>1, ScreenOf DEF scr
    <3>4. term \in TextTerms(scr)
      <4>1. scr \in Like(scr)
        BY <3>3, LikeItself
      <4>2. HoldsRegion(scr, scr)
        BY DEF PrintsText, HoldsRegion
      <4>3. term.scr \in Inside(scr)
        BY <4>1, <4>2 DEF Inside, scr
      <4>4. QED
        BY <3>2, <4>3 DEF TextTerms, PrintsText
    <3>5. tty.bytes \in Seq(STRING)
      BY <1>1, WorldParts DEF Ttys
    <3>6. bytes \in Seq(STRING) /\ \A i \in DOMAIN bytes : bytes[i] \in Text
      BY <3>5, LastBytesOK DEF PrintsText
    <3> HIDE DEF bytes
    <3>7. Feed(term, bytes) \in TextTerms(scr)
      BY <3>2, <3>3, <3>4, <3>6, FeedTextOK
    <3>8. QED
      BY <3>1, <3>7
  <2>7. QED
    BY <2>5, <2>6
<1>13. ASSUME NEW out \in Outputs, ShellWrites(out) PROVE term' = term
  BY <1>13 DEF ShellWrites
<1>14. CASE ShellCloses \/ ShellEnds
  BY <1>14 DEF ShellCloses, ShellEnds
<1>15. CASE UNCHANGED vars
  BY <1>15 DEF vars
<1>16. QED
  BY <1>4, <1>5, <1>6, <1>7, <1>8, <1>9, <1>10, <1>11, <1>12, <1>13, <1>14, <1>15 DEF Next

\* Text printed inside a scroll region stays there: no line around it changes, and none goes
\* to the scrollback unless the region is the whole screen (terminal_screen_part2.cpp).
THEOREM TextStaysInItsRegion == Spec => RegionHolds
<1> DEFINE Holds ==
             PrintsText =>
               /\ \A r \in DOMAIN scr.grid \ (scr.top .. scr.bottom) : scr'.grid[r] = scr.grid[r]
               /\ scr'.row \in scr.top .. scr.bottom
               /\ scr.top .. scr.bottom # DOMAIN scr.grid => scr'.back = scr.back
<1>1. ASSUME IInv, [Next]_vars PROVE Holds
  <2>1. SUFFICES ASSUME PrintsText
                 PROVE  /\ \A r \in DOMAIN scr.grid \ (scr.top .. scr.bottom) :
                             scr'.grid[r] = scr.grid[r]
                        /\ scr'.row \in scr.top .. scr.bottom
                        /\ scr.top .. scr.bottom # DOMAIN scr.grid => scr'.back = scr.back
    OBVIOUS
  <2>2. term' = term \/ term' \in TextTerms(scr)
    BY <1>1, <2>1, Prints
  <2>3. CASE term' = term
    BY <2>1, <2>3 DEF scr, PrintsText
  <2>4. CASE term' \in TextTerms(scr)
    <3>1. scr \in Screens
      BY <1>1, ScreenOf DEF IInv, Good, World, scr
    <3>2. HoldsRegion(scr, scr')
      BY <2>4 DEF TextTerms, Inside, scr
    <3>3. DOMAIN scr.grid = 0 .. scr.rows - 1
      BY <3>1, ScreenParts DEF GridFits
    <3>4. QED
      BY <3>2, <3>3 DEF HoldsRegion
  <2>5. QED
    BY <2>2, <2>3, <2>4
<1>2. IInv /\ [Next]_vars => [Holds]_vars
  BY <1>1
<1>3. QED
  BY <1>2, TerminalInvariant, PTL DEF Spec, RegionHolds
===============================================================================
