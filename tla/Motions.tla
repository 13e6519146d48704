------------------------------ MODULE Motions ------------------------------
(***************************************************************************)
(* Where a motion takes the cursor (new/src/core/motion.cpp), over the     *)
(* character classes of new/src/core/text.cpp.  A motion reads a document, *)
(* the cursor, a count and the column that vertical motions aim at, and    *)
(* either lands on a position or fails.  The scans of the code, which go   *)
(* from column to column, become the nearest position of a set.            *)
(***************************************************************************)
EXTENDS Primitives, FiniteSets

(* k_max_col: where $ aims, right of every line.                           *)
KMaxCol == 2147483647

(* The classes of characters: a control is a punctuation, a wide character *)
(* a letter; a no-break space is white, but no blank.                      *)
Blanks     == {Blank, "tab"}
Whitespace == Blanks \cup {"nbsp"}
Openers    == {"(", "[", "{"}
Closers    == {")", "]", "}"}
Puncts     == Openers \cup Closers \cup {".", ",", ";", "\"", "'", "ctrl"}
Class(ch) ==
    IF ch \in Whitespace THEN "Whitespace" ELSE IF ch \in Puncts THEN "Punct" ELSE "Word"

(* The blanks of w, b, e and of W, B, E, and what continues a run of ch.   *)
BlankFor(big) == IF big THEN Blanks ELSE Whitespace
SameRun(big, ch, other) ==
    IF big THEN other \notin Blanks ELSE Class(other) = Class(ch)

LastCol(text) == IF text = <<>> THEN 0 ELSE Len(text) - 1
LastLine(doc) == Len(doc) - 1

(* clamp_norm: onto a character of the line.                               *)
OnChar(doc, p) == At(p.line, Lesser(p.col, LastCol(LineOf(doc, p.line))))

Least(s)     == CHOOSE n \in s : \A m \in s : n <= m
Greatest(s)  == CHOOSE n \in s : \A m \in s : m <= n
Nearest(s)   == CHOOSE p \in s : \A q \in s : ~Before(q, p)
Farthest(s)  == CHOOSE p \in s : \A q \in s : ~Before(p, q)

(* The characters of a document, and the one at a position.                *)
Cells(doc)     == UNION {{At(l, c) : c \in 0..(Len(LineOf(doc, l)) - 1)} : l \in 0..LastLine(doc)}
CharAt(doc, p) == LineOf(doc, p.line)[p.col + 1]
EmptyLines(doc) == {l \in 0..LastLine(doc) : LineOf(doc, l) = <<>>}

Landed(p) == [ok |-> TRUE, pos |-> p]
Failed    == [ok |-> FALSE, pos |-> At(0, 0)]

(* The run of alike characters around column col: its first column, and    *)
(* the column after its last.                                              *)
RunStart(big, text, col) ==
    Least({k \in 0..col : \A j \in k..col : SameRun(big, text[col + 1], text[j + 1])})
RunEnd(big, text, col) ==
    Greatest({k \in (col + 1)..Len(text) :
                  \A j \in col..(k - 1) : SameRun(big, text[col + 1], text[j + 1])})

NonBlank(doc, big) == {p \in Cells(doc) : CharAt(doc, p) \notin BlankFor(big)}
OnWord(doc, big, p) ==
    p.col < Len(LineOf(doc, p.line)) /\ CharAt(doc, p) \notin BlankFor(big)

-----------------------------------------------------------------------------
(* w and W: past the run under the cursor to the next character that is no *)
(* blank, or the next empty line; else to the end of the document.         *)
WordForwardInLine(doc, p, big) ==
    LET text  == LineOf(doc, p.line)
        from  == IF OnWord(doc, big, p) THEN At(p.line, RunEnd(big, text, p.col)) ELSE p
        stops == {q \in NonBlank(doc, big) : ~Before(q, from)}
    IN  IF stops = {} THEN OnChar(doc, At(LastLine(doc), KMaxCol)) ELSE Nearest(stops)
WordForward(doc, p, big) ==
    LET text  == LineOf(doc, p.line)
        from  == IF OnWord(doc, big, p) THEN At(p.line, RunEnd(big, text, p.col)) ELSE p
        stops == {q \in NonBlank(doc, big) : ~Before(q, from)}
                     \cup {At(l, 0) : l \in {m \in EmptyLines(doc) : m > p.line}}
    IN  IF stops = {} THEN OnChar(doc, At(LastLine(doc), KMaxCol)) ELSE Nearest(stops)

(* b and B: to the start of the run under the cursor, or of the run before *)
(* it, or to the empty line before it; else nowhere.                       *)
WordBack(doc, p, big) ==
    LET start(q) == At(q.line, RunStart(big, LineOf(doc, q.line), q.col))
        stops    == {q \in NonBlank(doc, big) : Before(q, p)}
                        \cup {At(l, 0) : l \in {m \in EmptyLines(doc) : m < p.line}}
        q        == Farthest(stops)
    IN  IF OnWord(doc, big, p) /\ start(p) # p THEN start(p)
        ELSE IF stops = {} THEN p
        ELSE IF q.line \in EmptyLines(doc) THEN q
        ELSE start(q)

(* e and E: to the end of the run under the cursor or of the one after it. *)
WordEnd(doc, p, big) ==
    LET end(q) == At(q.line, RunEnd(big, LineOf(doc, q.line), q.col) - 1)
        stops  == {q \in NonBlank(doc, big) : Before(p, q)}
    IN  IF OnWord(doc, big, p) /\ end(p) # p THEN end(p)
        ELSE IF stops = {} THEN OnChar(doc, At(LastLine(doc), KMaxCol))
        ELSE end(Nearest(stops))

(* { and }: past the empty lines around the cursor to the next empty line, *)
(* or to the end of the document.                                          *)
ParaForward(doc, p) ==
    LET run(m) == \A k \in p.line..m : k \in EmptyLines(doc)
        at     == Greatest({p.line} \cup {m \in p.line..LastLine(doc) : run(m)})
        stops  == {m \in EmptyLines(doc) : m > at}
    IN  IF stops = {} THEN OnChar(doc, At(LastLine(doc), KMaxCol)) ELSE At(Least(stops), 0)
ParaBack(doc, p) ==
    LET run(m) == \A k \in m..p.line : k \in EmptyLines(doc)
        at     == Least({p.line} \cup {m \in 0..p.line : run(m)})
        stops  == {m \in EmptyLines(doc) : m < at}
    IN  IF stops = {} THEN At(0, 0) ELSE At(Greatest(stops), 0)

WordStep(doc, id, p) ==
    CASE id = "w" -> WordForward(doc, p, FALSE) [] id = "W" -> WordForward(doc, p, TRUE)
      [] id = "b" -> WordBack(doc, p, FALSE)    [] id = "B" -> WordBack(doc, p, TRUE)
      [] id = "e" -> WordEnd(doc, p, FALSE)     [] id = "E" -> WordEnd(doc, p, TRUE)
ParaStep(doc, id, p) == IF id = "}" THEN ParaForward(doc, p) ELSE ParaBack(doc, p)

(* A count repeats the step; one that goes nowhere ends a word motion, and *)
(* fails a whole paragraph motion.                                         *)
Words(doc, id, from, count) ==
    LET walk[i \in 0..count] == IF i = 0 THEN from ELSE WordStep(doc, id, walk[i - 1])
    IN  Landed(walk[count])
Paragraphs(doc, id, from, count) ==
    LET walk[i \in 0..count] == IF i = 0 THEN from ELSE ParaStep(doc, id, walk[i - 1])
    IN  IF walk[count] = walk[count - 1] THEN Failed ELSE Landed(walk[count])

(* f, F, t, T: the count-th occurrence on the line, right or left of the   *)
(* cursor, or the column next to it.                                       *)
Find(doc, id, ch, from, count) ==
    LET text  == LineOf(doc, from.line)
        fwd   == id \in {"f", "t"}
        hits  == {k \in 0..(Len(text) - 1) :
                      text[k + 1] = ch /\ (IF fwd THEN k > from.col ELSE k < from.col)}
        nth   == {k \in hits : Cardinality({j \in hits : IF fwd THEN j <= k ELSE j >= k}) = count}
        short == CASE id = "t" -> -1 [] id = "T" -> 1 [] OTHER -> 0
    IN  IF nth = {} THEN Failed ELSE Landed(At(from.line, Least(nth) + short))

(* %: the bracket under the cursor, or the first one after it on the line, *)
(* and the one that closes or opens it; other kinds of bracket are skipped.*)
Partner(ch) ==
    CASE ch = "(" -> ")" [] ch = "[" -> "]" [] ch = "{" -> "}"
      [] ch = ")" -> "(" [] ch = "]" -> "[" [] ch = "}" -> "{"
MatchBracket(doc, from) ==
    LET here  == {p \in Cells(doc) : /\ p.line = from.line /\ p.col >= from.col
                                     /\ CharAt(doc, p) \in Openers \cup Closers}
        at    == Nearest(here)
        kind  == CharAt(doc, at)
        span(q) == {p \in Cells(doc) : IF kind \in Openers
                                         THEN ~Before(p, at) /\ ~Before(q, p)
                                         ELSE ~Before(at, p) /\ ~Before(p, q)}
        of(ch, q) == Cardinality({p \in span(q) : CharAt(doc, p) = ch})
        ends  == {q \in Cells(doc) : /\ CharAt(doc, q) = Partner(kind)
                                     /\ q \in span(q)
                                     /\ of(kind, q) = of(Partner(kind), q)}
    IN  IF here = {} \/ ends = {} THEN Failed
        ELSE Landed(IF kind \in Openers THEN Nearest(ends) ELSE Farthest(ends))

(* [count]%: that share of the document, rounded up.                       *)
PercentLine(doc, from, count) ==
    LET share  == (Len(doc) * count + 99) \div 100
        target == IF share < 1 THEN 0 ELSE Lesser(share, Len(doc)) - 1
    IN  IF count > 100 THEN Failed
        ELSE IF target = from.line THEN Landed(from)
        ELSE Landed(OnChar(doc, At(target, from.col)))

(* $ with a count fails on the last line: the cursor stays.                *)
Dollar(doc, from, count) ==
    LET target == Lesser(from.line + count - 1, LastLine(doc))
    IN  IF count > 1 /\ target = from.line THEN Landed(from)
        ELSE Landed(OnChar(doc, At(target, KMaxCol)))

(* gg and G: to the line the count names, the aimed-at column kept.        *)
GotoLine(doc, id, count, desired) ==
    LET target == IF count > 1 THEN Lesser(count - 1, LastLine(doc))
                  ELSE IF id = "G" THEN LastLine(doc) ELSE 0
    IN  Landed(OnChar(doc, At(target, desired)))

FirstNonBlank(doc, from) ==
    LET text == LineOf(doc, from.line)
        cols == {k \in 0..(Len(text) - 1) : text[k + 1] \notin Whitespace}
    IN  Landed(At(from.line, IF cols = {} THEN LastCol(text) ELSE Least(cols)))

(* h, l, j, k.                                                             *)
Left(doc, from, count) ==
    Landed(OnChar(doc, At(from.line, from.col - Lesser(from.col, count))))
Right(doc, from, count) == Landed(OnChar(doc, At(from.line, from.col + count)))
Vertical(doc, line, desired) == Landed(OnChar(doc, At(line, desired)))
Down(doc, from, count, desired) ==
    Vertical(doc, Lesser(from.line + count, LastLine(doc)), desired)
Up(doc, from, count, desired) ==
    Vertical(doc, from.line - Lesser(from.line, count), desired)

(* Motion::apply.                                                          *)
Motion(doc, id, from, count, desired) ==
    CASE id = "h" -> Left(doc, from, count)
      [] id = "l" -> Right(doc, from, count)
      [] id = "j" -> Down(doc, from, count, desired)
      [] id = "k" -> Up(doc, from, count, desired)
      [] id = "0" -> Landed(At(from.line, 0))
      [] id = "$" -> Dollar(doc, from, count)
      [] id = "^" -> FirstNonBlank(doc, from)
      [] id \in {"w", "W", "b", "B", "e", "E"} -> Words(doc, id, from, count)
      [] id \in {"{", "}"} -> Paragraphs(doc, id, from, count)
      [] id \in {"gg", "G"} -> GotoLine(doc, id, count, desired)
      [] id = "%" -> MatchBracket(doc, from)
      [] id = "n%" -> PercentLine(doc, from, count)
=============================================================================
