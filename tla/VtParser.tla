------------------------------- MODULE VtParser -------------------------------
(***************************************************************************)
(* The parser between the shell's bytes and the screen: which byte ends    *)
(* which sequence, and what the sequence does.  A byte is a name: a        *)
(* printable, a control, the lead or a continuation of a longer code       *)
(* point.  A terminal t is [vt, scr].                                      *)
(***************************************************************************)
EXTENDS TerminalScreen, SequencesExt

CONSTANT OscLimit       \* osc_buf_ stops growing there (4096)

ASSUME OscAssumption == OscLimit \in Nat

Value == [d \in {"0", "1", "2", "3", "4", "5", "7", "8", "9"} |->
            CASE d = "0" -> 0 [] d = "1" -> 1 [] d = "2" -> 2 [] d = "3" -> 3 [] d = "4" -> 4
              [] d = "5" -> 5 [] d = "7" -> 7 [] d = "8" -> 8 [] d = "9" -> 9]
Digits == DOMAIN Value
Markers == {"?", ">", "=", "!"}
Separators == {";", ":"}
Intermediates == {" ", "$"} \cup (Markers \ {"?"})
Continuation == "80"
\* The continuation bytes a lead asks for.
Need == [lead \in {"C3", "E4", "F0"} |-> CASE lead = "C3" -> 1 [] lead = "E4" -> 2 [] OTHER -> 3]
\* glyph_width() of the code points that the leads begin: Latin, CJK, emoji.
Width == [lead \in DOMAIN Need |-> IF lead = "C3" THEN 1 ELSE 2]
Ignored == {"SO", "NUL", "FF"}

Ground == [st |-> "Ground", csi |-> <<>>, private |-> FALSE, osc |-> <<>>, lead |-> "", need |-> 0]

-------------------------------------------------------------------------------
\* The numbers between separators; an empty one is 0, but the last only after a ';'.
ParamStep(acc, ch) ==
  IF ch \in Markers THEN acc
  ELSE IF ch \in Separators THEN [list |-> Append(acc.list, acc.num), num |-> 0, has |-> FALSE]
  ELSE IF ch \in Digits THEN [acc EXCEPT !.num = @ * 10 + Value[ch], !.has = TRUE]
  ELSE acc
Params(buf) ==
  LET all == FoldLeft(ParamStep, [list |-> <<>>, num |-> 0, has |-> FALSE], buf)
  IN  IF all.has \/ (buf # <<>> /\ Last(buf) = ";") THEN Append(all.list, all.num) ELSE all.list

\* param(): 0 and absent are the fallback.
Param(ps, i, fallback) == IF i > Len(ps) \/ ps[i] = 0 THEN fallback ELSE ps[i]

\* apply_sgr(): one attribute for each number; 38 and 48 take the numbers that follow.
Colour(pen, field, n) == [pen EXCEPT ![field] = n]
SgrPen(p, n) ==
  CASE n = 0  -> PlainPen
    [] n = 1  -> [p EXCEPT !.bold = TRUE]
    [] n = 2  -> [p EXCEPT !.dim = TRUE]
    [] n = 4  -> [p EXCEPT !.underline = TRUE]
    [] n = 7  -> [p EXCEPT !.inverse = TRUE]
    [] n = 22 -> [p EXCEPT !.bold = FALSE, !.dim = FALSE]
    [] n = 24 -> [p EXCEPT !.underline = FALSE]
    [] n = 27 -> [p EXCEPT !.inverse = FALSE]
    [] n = 39 -> Colour(p, "fg", Default)
    [] n = 49 -> Colour(p, "bg", Default)
    [] n \in 30 .. 37   -> Colour(p, "fg", n - 30)
    [] n \in 40 .. 47   -> Colour(p, "bg", n - 40)
    [] n \in 90 .. 97   -> Colour(p, "fg", n - 82)
    [] n \in 100 .. 107 -> Colour(p, "bg", n - 92)
    [] OTHER -> p
SgrOne(p, ps, i) ==
  LET n == ps[i]
      field == IF n = 38 THEN "fg" ELSE "bg"
  IN  IF n \notin {38, 48} THEN [pen |-> SgrPen(p, n), skip |-> 0]
      ELSE IF i + 2 <= Len(ps) /\ ps[i + 1] = 5
      THEN [pen |-> Colour(p, field, ps[i + 2] % 16), skip |-> 2]
      ELSE [pen |-> p, skip |-> IF i + 4 <= Len(ps) /\ ps[i + 1] = 2 THEN 4 ELSE 0]
SgrStep(acc, ps, i) ==
  IF acc.skip > 0 THEN [acc EXCEPT !.skip = @ - 1] ELSE SgrOne(acc.pen, ps, i)
Sgr(pen, ps) ==
  IF ps = <<>> THEN PlainPen
  ELSE FoldLeftDomain(LAMBDA acc, i : SgrStep(acc, ps, i), [pen |-> pen, skip |-> 0], ps).pen

Times(n, Op(_), s) == FoldLeft(LAMBDA acc, i : Op(acc), s, [i \in 1 .. n |-> i])

\* dispatch_csi() of a sequence with a private marker: DECCKM and DECAWM.
SetMode(s, mode, final) ==
  CASE mode = 1 -> [s EXCEPT !.appKeys = (final = "h")]
    [] mode = 7 -> [s EXCEPT !.wraparound = (final = "h")]
    [] OTHER    -> s
PrivateMode(s, final, ps) ==
  IF final \in {"h", "l"} THEN FoldLeft(LAMBDA acc, mode : SetMode(acc, mode, final), s, ps)
  ELSE s

Csi(s, final, ps) ==
  LET n == Param(ps, 1, 1)
  IN  CASE final = "A" -> MoveCursor(s, -n, 0)
        [] final = "B" -> MoveCursor(s, n, 0)
        [] final = "C" -> MoveCursor(s, 0, n)
        [] final = "D" -> MoveCursor(s, 0, -n)
        [] final = "E" -> CarriageReturn(MoveCursor(s, n, 0))
        [] final = "F" -> CarriageReturn(MoveCursor(s, -n, 0))
        [] final = "G" -> SetCursor(s, s.row, n - 1)
        [] final \in {"H", "f"} -> SetCursor(s, n - 1, Param(ps, 2, 1) - 1)
        [] final = "J" -> EraseInDisplay(s, IF ps = <<>> THEN 0 ELSE ps[1])
        [] final = "K" -> EraseInLine(s, IF ps = <<>> THEN 0 ELSE ps[1])
        [] final = "S" -> Times(n, Index, s)
        [] final = "T" -> Times(n, ReverseIndex, s)
        [] final = "d" -> SetCursor(s, n - 1, s.col)
        [] final = "m" -> [s EXCEPT !.pen = Sgr(@, ps)]
        [] final = "r" -> IF ps = <<>> THEN ResetRegion(s)
                          ELSE SetRegion(s, n - 1, Param(ps, 2, s.rows) - 1)
        [] final = "s" -> SaveCursor(s)
        [] final = "u" -> RestoreCursor(s)
        [] OTHER       -> s

Esc(s, final) ==
  CASE final = "D" -> Index(s)
    [] final = "M" -> ReverseIndex(s)
    [] final = "E" -> Newline(s)
    [] final = "7" -> SaveCursor(s)
    [] final = "8" -> RestoreCursor(s)
    [] final = "c" -> Reset(s)
    [] OTHER       -> s

-------------------------------------------------------------------------------
GroundByte(t, b) ==
  CASE b = "ESC"          -> [t EXCEPT !.vt.st = "Escape"]
    [] b \in Ignored      -> t
    [] b \in DOMAIN Need  -> [t EXCEPT !.vt.st = "Utf8", !.vt.lead = b, !.vt.need = Need[b]]
    [] b = Continuation   -> t
    [] OTHER              -> [t EXCEPT !.scr = PutCodepoint(@, b, 1)]

EscapeByte(t, b) ==
  CASE b = "[" -> [t EXCEPT !.vt.st = "Csi", !.vt.csi = <<>>, !.vt.private = FALSE]
    [] b = "]" -> [t EXCEPT !.vt.st = "Osc", !.vt.osc = <<>>]
    [] OTHER   -> [t EXCEPT !.vt.st = "Ground", !.scr = Esc(@, b)]

\* handle_csi(): whatever is no marker, number, separator or intermediate is the final
\* byte, a control or an ESC too.
CsiByte(t, b) ==
  CASE t.vt.csi = <<>> /\ b \in Markers ->
         [t EXCEPT !.vt.private = TRUE, !.vt.csi = <<b>>]
    [] ~(t.vt.csi = <<>> /\ b \in Markers) /\ b \in Digits \cup Separators \cup Intermediates ->
         [t EXCEPT !.vt.csi = Append(@, b)]
    [] OTHER ->
         [t EXCEPT !.vt.st = "Ground", !.vt.csi = <<>>,
                   !.scr = IF t.vt.private THEN PrivateMode(@, b, Params(t.vt.csi))
                           ELSE Csi(@, b, Params(t.vt.csi))]

\* handle_osc(): BEL or ESC \ ends it; the title is what follows "0;" or "2;".  An ESC is
\* kept whatever the length.
OscByte(t, b) ==
  LET ends == b = "BEL" \/ (b = "\\" /\ t.vt.osc # <<>> /\ Last(t.vt.osc) = "ESC")
      text == IF b = "\\" THEN Front(t.vt.osc) ELSE t.vt.osc
  IN  IF ends
      THEN [t EXCEPT !.vt.st = "Ground", !.vt.osc = <<>>,
                     !.scr.title = IF Len(text) >= 2 /\ text[1] \in {"0", "2"} /\ text[2] = ";"
                                   THEN SubSeq(text, 3, Len(text)) ELSE @]
      ELSE IF b = "ESC" \/ Len(t.vt.osc) < OscLimit THEN [t EXCEPT !.vt.osc = Append(@, b)] ELSE t

\* feed_byte(): a byte that does not continue a code point drops it and is read anew.
FeedByte(t, b) ==
  CASE t.vt.st = "Ground" -> GroundByte(t, b)
    [] t.vt.st = "Escape" -> EscapeByte(t, b)
    [] t.vt.st = "Csi"    -> CsiByte(t, b)
    [] t.vt.st = "Osc"    -> OscByte(t, b)
    [] OTHER ->
         IF b # Continuation THEN GroundByte([t EXCEPT !.vt = Ground], b)
         ELSE IF t.vt.need > 1 THEN [t EXCEPT !.vt.need = @ - 1]
         ELSE [vt |-> Ground, scr |-> PutCodepoint(t.scr, t.vt.lead, Width[t.vt.lead])]

Feed(t, bytes) == FoldLeft(FeedByte, t, bytes)
===============================================================================
