---------------------------- MODULE EditorProofs ----------------------------
(***************************************************************************)
(* The reducer and its undo history keep their promises for every text,    *)
(* every alphabet, every sequence of commands, every count, every height   *)
(* of the window and every capacity of the stacks.  Five parts:            *)
(*                                                                         *)
(*   - the history alone (HistSpec): the inductive invariant HistInv links *)
(*     the stacks to the documents of the past and of the future, so that  *)
(*     undo and redo never meet a drifted baseline, the stacks stay within *)
(*     their bound and EditHistory is implemented;                         *)
(*   - the operators: every motion lands on a position, every text object  *)
(*     is a range of the text, and every change that a command builds is   *)
(*     one that the history may record;                                    *)
(*   - the reducer (Spec): the inductive invariant EditorInv, from which   *)
(*     the cursor's place on the text and on the screen follows, and that  *)
(*     the reducer implements the history, so that all of the first part   *)
(*     holds of it;                                                        *)
(*   - the brackets: what lies between the two that an object finds is     *)
(*     balanced, and the cursor of the opened document is between them;    *)
(*   - the rows of the window: a row's glyphs take the columns that the    *)
(*     line's characters have in it, and the cursor is put on its own.     *)
(*                                                                         *)
(* BufferProofs does the same for the buffer by itself.                    *)
(***************************************************************************)
EXTENDS Editor, SequencesExt, FiniteSetTheorems, SequenceTheorems, TLAPS

-----------------------------------------------------------------------------
(***************************************************************************)
(* Induction over data, as facts about sets.                               *)
(***************************************************************************)
\* A set of natural numbers that is not empty has a least element: of the intervals
\* 1 .. n of its members take one that contains no other.
LEMMA LeastNumber ==
  ASSUME NEW S, S \subseteq Nat, S # {}
  PROVE  \E n \in S : \A m \in S : ~(m < n)
<1> DEFINE R == StrictSubsetOrdering(Nat)
           T == {1 .. n : n \in S}
<1>1. IsWellFoundedOn(R, FiniteSubsetsOf(Nat))
  BY FS_StrictSubsetOrderingWellFounded
<1>2. T \subseteq FiniteSubsetsOf(Nat) /\ T # {}
  <2>1. \A n \in S : IsFiniteSet(1 .. n) /\ 1 .. n \subseteq Nat
    BY FS_Interval
  <2>2. QED
    BY <2>1 DEF FiniteSubsetsOf
<1>3. \A m, n \in S : m < n => <<1 .. m, 1 .. n>> \in R
  <2>1. \A m, n \in S : m < n => 1 .. m \subseteq 1 .. n /\ 1 .. m # 1 .. n /\ 1 .. n \subseteq Nat
    OBVIOUS
  <2>2. QED
    BY <2>1 DEF StrictSubsetOrdering
<1>4. PICK x \in T : \A y \in T : ~(<<y, x>> \in R)
  <2> HIDE DEF R, T
  <2> QED
    BY <1>1, <1>2, WFMin
<1>5. QED
  BY <1>3, <1>4

\* A set that has 0, and n + 1 with every n, has every natural number.
LEMMA Induction ==
  ASSUME NEW S, 0 \in S, \A n \in Nat : n \in S => n + 1 \in S
  PROVE  Nat \subseteq S
<1> DEFINE T == Nat \ S
<1>1. SUFFICES ASSUME T # {} PROVE FALSE
  OBVIOUS
<1>2. PICK n \in T : \A m \in T : ~(m < n)
  BY <1>1, LeastNumber
<1>3. n # 0 /\ n - 1 \in Nat /\ n - 1 < n
  BY <1>2
<1>4. n - 1 \notin T
  BY <1>2, <1>3
<1>5. n - 1 \in S /\ (n - 1) + 1 = n
  BY <1>3, <1>4
<1>6. QED
  BY <1>5, <1>3, <1>2

-----------------------------------------------------------------------------
(***************************************************************************)
(* What a splice does, for every document: it is undone by the opposite    *)
(* splice, and two of them that touch make one.  Undo, redo and the        *)
(* merging of typing runs rest on these four lemmas.                       *)
(***************************************************************************)
(* d is doc with the n lines from line f on replaced by new, line by line. *)
Spliced(d, doc, f, n, new) ==
    /\ Len(d) = Len(doc) - n + Len(new)
    /\ \A i \in 1..f : d[i] = doc[i]
    /\ \A i \in (f + 1)..(f + Len(new)) : d[i] = new[i - f]
    /\ \A i \in (f + Len(new) + 1)..Len(d) : d[i] = doc[i - Len(new) + n]

(* A concatenation, region by region.                                      *)
LEMMA ConcatRegions ==
    ASSUME NEW S, NEW s \in Seq(S), NEW t \in Seq(S)
    PROVE  /\ s \o t \in Seq(S)
           /\ Len(s \o t) = Len(s) + Len(t)
           /\ \A i \in 1..Len(s) : (s \o t)[i] = s[i]
           /\ \A i \in (Len(s) + 1)..(Len(s) + Len(t)) : (s \o t)[i] = t[i - Len(s)]
<1>1. Len(s) \in Nat /\ Len(t) \in Nat
  BY LenProperties
<1>2. /\ s \o t \in Seq(S)
      /\ Len(s \o t) = Len(s) + Len(t)
      /\ \A i \in 1..(Len(s) + Len(t)) :
           (s \o t)[i] = IF i <= Len(s) THEN s[i] ELSE t[i - Len(s)]
  BY ConcatProperties
<1>3. ASSUME NEW i \in 1..Len(s) PROVE (s \o t)[i] = s[i]
  <2>1. i \in 1..(Len(s) + Len(t)) /\ i <= Len(s)
    BY <1>1
  <2>. QED BY <1>2, <2>1
<1>4. ASSUME NEW i \in (Len(s) + 1)..(Len(s) + Len(t)) PROVE (s \o t)[i] = t[i - Len(s)]
  <2>1. i \in 1..(Len(s) + Len(t)) /\ ~(i <= Len(s))
    BY <1>1
  <2>. QED BY <1>2, <2>1
<1>. QED BY <1>2, <1>3, <1>4

(* A splice, line by line.                                                 *)
LEMMA SpliceLines ==
    ASSUME NEW S, NEW doc \in Seq(S), NEW new \in Seq(S),
           NEW f \in Nat, NEW n \in Nat, f + n <= Len(doc)
    PROVE  /\ Splice(doc, f, n, new) \in Seq(S)
           /\ Spliced(Splice(doc, f, n, new), doc, f, n, new)
<1> DEFINE head == SubSeq(doc, 1, f)
           tail == SubSeq(doc, f + n + 1, Len(doc))
           mid  == head \o new
           d    == Splice(doc, f, n, new)
<1>1. /\ head \in Seq(S) /\ Len(head) = f
      /\ \A i \in 1..f : head[i] = doc[i]
  <2>1. \A i \in 1..f : doc[i] \in S
    BY ElementOfSeq, LenProperties
  <2>. QED BY <2>1, SubSeqProperties
<1>2. /\ tail \in Seq(S) /\ Len(tail) = Len(doc) - f - n
      /\ \A i \in 1..(Len(doc) - f - n) : tail[i] = doc[f + n + i]
  <2>1. \A i \in (f + n + 1)..Len(doc) : doc[i] \in S
    BY ElementOfSeq, LenProperties
  <2>2. /\ tail \in Seq(S)
        /\ Len(tail) = IF f + n + 1 <= Len(doc) THEN Len(doc) - (f + n + 1) + 1 ELSE 0
        /\ \A i \in 1..(Len(doc) - (f + n + 1) + 1) : tail[i] = doc[f + n + 1 + i - 1]
    <3>1. f + n + 1 \in Int /\ Len(doc) \in Int
      BY LenProperties
    <3>. QED BY <2>1, <3>1, SubSeqProperties
  <2>3. Len(tail) = Len(doc) - f - n
    BY <2>2, LenProperties
  <2>4. ASSUME NEW i \in 1..(Len(doc) - f - n) PROVE tail[i] = doc[f + n + i]
    BY SMTT(30), <2>2, LenProperties
  <2>. QED BY <2>2, <2>3, <2>4
<1>3. /\ mid \in Seq(S) /\ Len(mid) = f + Len(new)
      /\ \A i \in 1..f : mid[i] = head[i]
      /\ \A i \in (f + 1)..(f + Len(new)) : mid[i] = new[i - f]
  <2>. HIDE DEF head
  <2>1. /\ head \o new \in Seq(S)
        /\ Len(head \o new) = Len(head) + Len(new)
        /\ \A i \in 1..Len(head) : (head \o new)[i] = head[i]
        /\ \A i \in (Len(head) + 1)..(Len(head) + Len(new)) :
             (head \o new)[i] = new[i - Len(head)]
    <3>1. head \in Seq(S)
      BY <1>1
    <3>. QED BY <3>1, ConcatRegions
  <2>2. mid = head \o new
    OBVIOUS
  <2>3. Len(head) = f
    BY <1>1
  <2>. HIDE DEF mid
  <2>. QED BY <2>1, <2>2, <2>3
<1>4. d = mid \o tail
  BY DEF Splice
<1>. HIDE DEF head, tail, mid, d
<1>5. /\ d \in Seq(S) /\ Len(d) = f + Len(new) + Len(tail)
      /\ \A i \in 1..(f + Len(new)) : d[i] = mid[i]
      /\ \A i \in (f + Len(new) + 1)..(f + Len(new) + Len(tail)) :
           d[i] = tail[i - (f + Len(new))]
  <2>1. /\ mid \o tail \in Seq(S)
        /\ Len(mid \o tail) = Len(mid) + Len(tail)
        /\ \A i \in 1..Len(mid) : (mid \o tail)[i] = mid[i]
        /\ \A i \in (Len(mid) + 1)..(Len(mid) + Len(tail)) :
             (mid \o tail)[i] = tail[i - Len(mid)]
    <3>1. mid \in Seq(S) /\ tail \in Seq(S)
      BY <1>2, <1>3
    <3>. QED BY <3>1, ConcatRegions
  <2>. QED BY <1>3, <1>4, <2>1
<1>6. Len(new) \in Nat /\ Len(doc) \in Nat
  BY LenProperties
<1>7. Len(d) = Len(doc) - n + Len(new)
  BY <1>2, <1>5, <1>6
<1>8. ASSUME NEW i \in 1..f PROVE d[i] = doc[i]
  <2>1. i \in 1..(f + Len(new))
    BY <1>6
  <2>. QED BY <1>1, <1>3, <1>5, <2>1
<1>9. ASSUME NEW i \in (f + 1)..(f + Len(new)) PROVE d[i] = new[i - f]
  <2>1. i \in 1..(f + Len(new))
    BY <1>6
  <2>. QED BY <1>3, <1>5, <2>1
<1>10. ASSUME NEW i \in (f + Len(new) + 1)..Len(d) PROVE d[i] = doc[i - Len(new) + n]
  <2>1. /\ i - (f + Len(new)) \in 1..(Len(doc) - f - n)
        /\ i \in (f + Len(new) + 1)..(f + Len(new) + Len(tail))
        /\ f + n + (i - (f + Len(new))) = i - Len(new) + n
    BY <1>2, <1>5, <1>6
  <2>2. d[i] = tail[i - (f + Len(new))]
    BY <1>5, <2>1
  <2>3. tail[i - (f + Len(new))] = doc[f + n + (i - (f + Len(new)))]
    BY <1>2, <2>1
  <2>. QED BY <2>1, <2>2, <2>3
<1>11. d \in Seq(S) /\ Spliced(d, doc, f, n, new)
  BY <1>5, <1>7, <1>8, <1>9, <1>10 DEF Spliced
<1>. QED BY <1>11 DEF d

(* A span fits where it stands, line by line.                              *)
LEMMA FitsLines ==
    ASSUME NEW S, NEW doc \in Seq(S), NEW span \in Seq(S), NEW f \in Nat
    PROVE  Fits(doc, f, span) <=>
               /\ f + Len(span) <= Len(doc)
               /\ \A i \in 1..Len(span) : doc[f + i] = span[i]
<1> DEFINE cut == SubSeq(doc, f + 1, f + Len(span))
<1>1. Len(span) \in Nat /\ Len(doc) \in Nat
  BY LenProperties
<1>2. ASSUME f + Len(span) <= Len(doc)
      PROVE  /\ cut \in Seq(S) /\ Len(cut) = Len(span)
             /\ \A i \in 1..Len(span) : cut[i] = doc[f + i]
  <2>1. \A i \in (f + 1)..(f + Len(span)) : doc[i] \in S
    BY <1>1, <1>2, ElementOfSeq
  <2>2. /\ cut \in Seq(S)
        /\ Len(cut) = IF f + 1 <= f + Len(span) THEN f + Len(span) - (f + 1) + 1 ELSE 0
        /\ \A i \in 1..(f + Len(span) - (f + 1) + 1) : cut[i] = doc[f + 1 + i - 1]
    <3>1. f + 1 \in Int /\ f + Len(span) \in Int
      BY <1>1
    <3>. QED BY <2>1, <3>1, SubSeqProperties
  <2>. HIDE DEF cut
  <2>3. Len(cut) = Len(span)
    BY <1>1, <2>2
  <2>4. ASSUME NEW i \in 1..Len(span) PROVE cut[i] = doc[f + i]
    BY <1>1, <2>2
  <2>. QED BY <2>2, <2>3, <2>4
<1>3. Fits(doc, f, span) <=> f + Len(span) <= Len(doc) /\ cut = span
  BY DEF Fits
<1>. HIDE DEF cut
<1>4. ASSUME f + Len(span) <= Len(doc), \A i \in 1..Len(span) : doc[f + i] = span[i]
      PROVE  cut = span
  <2>1. \A i \in 1..Len(cut) : cut[i] = span[i]
    BY <1>2, <1>4
  <2>. QED BY <1>2, <1>4, <2>1, SeqEqual
<1>. QED BY <1>2, <1>3, <1>4

(* What was put in stands there.                                           *)
LEMMA SpliceFits ==
    ASSUME NEW S, NEW doc \in Seq(S), NEW new \in Seq(S),
           NEW f \in Nat, NEW n \in Nat, f + n <= Len(doc)
    PROVE  Fits(Splice(doc, f, n, new), f, new)
<1> DEFINE d == Splice(doc, f, n, new)
<1>1. Len(new) \in Nat /\ Len(doc) \in Nat
  BY LenProperties
<1>2. d \in Seq(S) /\ Spliced(d, doc, f, n, new)
  BY SpliceLines
<1>. HIDE DEF d
<1>3. f + Len(new) <= Len(d)
  BY <1>1, <1>2 DEF Spliced
<1>4. ASSUME NEW i \in 1..Len(new) PROVE d[f + i] = new[i]
  <2>1. f + i \in (f + 1)..(f + Len(new)) /\ f + i - f = i
    BY <1>1
  <2>. QED BY <1>2, <2>1 DEF Spliced
<1>5. Fits(d, f, new)
  BY <1>2, <1>3, <1>4, FitsLines
<1>. QED BY <1>5 DEF d

(* Splicing the old lines back restores the document.                      *)
LEMMA SpliceBack ==
    ASSUME NEW S, NEW doc \in Seq(S), NEW old \in Seq(S), NEW new \in Seq(S),
           NEW f \in Nat, Fits(doc, f, old)
    PROVE  Splice(Splice(doc, f, Len(old), new), f, Len(new), old) = doc
<1> DEFINE d == Splice(doc, f, Len(old), new)
           b == Splice(d, f, Len(new), old)
<1>1. Len(old) \in Nat /\ Len(new) \in Nat /\ Len(doc) \in Nat
  BY LenProperties
<1>2. f + Len(old) <= Len(doc) /\ \A i \in 1..Len(old) : doc[f + i] = old[i]
  BY FitsLines
<1>3. d \in Seq(S) /\ Spliced(d, doc, f, Len(old), new)
  BY <1>1, <1>2, SpliceLines
<1>. HIDE DEF d
<1>4. Len(d) = Len(doc) - Len(old) + Len(new) /\ f + Len(new) <= Len(d)
  BY <1>1, <1>2, <1>3 DEF Spliced
<1>5. b \in Seq(S) /\ Spliced(b, d, f, Len(new), old)
  BY <1>1, <1>3, <1>4, SpliceLines
<1>. HIDE DEF b
<1>6. Len(b) = Len(doc)
  BY <1>1, <1>4, <1>5 DEF Spliced
<1>7. ASSUME NEW i \in 1..Len(b) PROVE b[i] = doc[i]
  <2>1. CASE i <= f
    <3>1. i \in 1..f
      BY <1>1, <1>6, <2>1
    <3>. QED BY <1>3, <1>5, <3>1 DEF Spliced
  <2>2. CASE f < i /\ i <= f + Len(old)
    <3>1. i \in (f + 1)..(f + Len(old)) /\ i - f \in 1..Len(old) /\ f + (i - f) = i
      BY <1>1, <1>6, <2>2
    <3>2. b[i] = old[i - f]
      BY <1>5, <3>1 DEF Spliced
    <3>. QED BY <1>2, <3>1, <3>2
  <2>3. CASE f + Len(old) < i
    <3> DEFINE j == i - Len(old) + Len(new)
    <3>1. /\ i \in (f + Len(old) + 1)..Len(b)
          /\ j \in (f + Len(new) + 1)..Len(d)
          /\ j - Len(new) + Len(old) = i
      BY <1>1, <1>4, <1>6, <2>3
    <3>2. b[i] = d[j]
      BY <1>5, <3>1 DEF Spliced
    <3>. HIDE DEF j
    <3>3. d[j] = doc[j - Len(new) + Len(old)]
      BY <1>3, <3>1 DEF Spliced
    <3>. QED BY <3>1, <3>2, <3>3
  <2>. QED BY <1>1, <1>6, <2>1, <2>2, <2>3
<1>8. b = doc
  BY <1>5, <1>6, <1>7, SeqEqual
<1>. QED BY <1>8 DEF b, d

(* A splice inside the lines that an earlier one put in makes one splice   *)
(* with it.                                                                *)
LEMMA SpliceInside ==
    ASSUME NEW S, NEW doc \in Seq(S), NEW new \in Seq(S), NEW more \in Seq(S),
           NEW f \in Nat, NEW n \in Nat, f + n <= Len(doc),
           NEW r \in Nat, NEW m \in Nat, r + m <= Len(new),
           NEW g \in Nat, g = f + r
    PROVE  Splice(Splice(doc, f, n, new), g, m, more)
             = Splice(doc, f, n, Splice(new, r, m, more))
<1> DEFINE d == Splice(doc, f, n, new)
           a == Splice(d, f + r, m, more)
           w == Splice(new, r, m, more)
           b == Splice(doc, f, n, w)
<1>1. Len(new) \in Nat /\ Len(more) \in Nat /\ Len(doc) \in Nat
  BY LenProperties
<1>2. d \in Seq(S) /\ Spliced(d, doc, f, n, new)
  BY SpliceLines
<1>3. w \in Seq(S) /\ Spliced(w, new, r, m, more)
  BY SpliceLines
<1>. HIDE DEF d, w
<1>4. /\ Len(d) = Len(doc) - n + Len(new)
      /\ Len(w) = Len(new) - m + Len(more)
  BY <1>2, <1>3 DEF Spliced
<1>5. f + r \in Nat /\ f + r + m <= Len(d)
  BY <1>1, <1>4
<1>6. a \in Seq(S) /\ Spliced(a, d, f + r, m, more)
  BY <1>1, <1>2, <1>5, SpliceLines
<1>7. b \in Seq(S) /\ Spliced(b, doc, f, n, w)
  BY <1>3, SpliceLines
<1>. HIDE DEF a, b
<1>8. /\ Len(a) = Len(d) - m + Len(more)
      /\ Len(b) = Len(doc) - n + Len(w)
  BY <1>6, <1>7 DEF Spliced
<1>9. Len(a) = Len(b) /\ Len(a) \in Nat /\ Len(w) \in Nat /\ Len(d) \in Nat
  BY <1>1, <1>4, <1>6, <1>8, LenProperties
<1>10. ASSUME NEW i \in 1..Len(a) PROVE a[i] = b[i]
  <2>1. CASE i <= f
    <3>1. i \in 1..f /\ i \in 1..(f + r)
      BY <1>1, <1>9, <2>1
    <3>. QED BY <1>2, <1>6, <1>7, <3>1 DEF Spliced
  <2>2. CASE f < i /\ i <= f + r
    <3>1. /\ i \in 1..(f + r) /\ i \in (f + 1)..(f + Len(new)) /\ i \in (f + 1)..(f + Len(w))
          /\ i - f \in 1..r
      BY <1>1, <1>4, <1>9, <2>2
    <3>2. a[i] = d[i] /\ d[i] = new[i - f]
      BY <1>2, <1>6, <3>1 DEF Spliced
    <3>3. b[i] = w[i - f] /\ w[i - f] = new[i - f]
      BY <1>3, <1>7, <3>1 DEF Spliced
    <3>. QED BY <3>2, <3>3
  <2>3. CASE f + r < i /\ i <= f + r + Len(more)
    <3>1. /\ i \in (f + r + 1)..(f + r + Len(more)) /\ i \in (f + 1)..(f + Len(w))
          /\ i - f \in (r + 1)..(r + Len(more))
          /\ (i - f) - r = i - (f + r)
      BY <1>1, <1>4, <1>9, <2>3
    <3>2. a[i] = more[i - (f + r)]
      BY <1>6, <3>1 DEF Spliced
    <3>3. b[i] = w[i - f] /\ w[i - f] = more[(i - f) - r]
      BY <1>3, <1>7, <3>1 DEF Spliced
    <3>. QED BY <3>1, <3>2, <3>3
  <2>4. CASE f + r + Len(more) < i /\ i <= f + Len(w)
    <3> DEFINE j == i - Len(more) + m
    <3>1. /\ i \in (f + r + Len(more) + 1)..Len(a)
          /\ j \in (f + 1)..(f + Len(new))
          /\ i \in (f + 1)..(f + Len(w))
          /\ i - f \in (r + Len(more) + 1)..Len(w)
          /\ (i - f) - Len(more) + m = j - f
      <4>1. i \in Int /\ i <= Len(a)
        BY <1>9
      <4>2. j \in (f + 1)..(f + Len(new))
        BY <1>1, <1>4, <2>4, <4>1
      <4>. QED BY <1>1, <1>9, <2>4, <4>1, <4>2
    <3>2. a[i] = d[j]
      BY <1>6, <3>1 DEF Spliced
    <3>3. b[i] = w[i - f] /\ w[i - f] = new[(i - f) - Len(more) + m]
      BY <1>3, <1>7, <3>1 DEF Spliced
    <3>. HIDE DEF j
    <3>4. d[j] = new[j - f]
      BY <1>2, <3>1 DEF Spliced
    <3>. QED BY <3>1, <3>2, <3>3, <3>4
  <2>5. CASE f + Len(w) < i
    <3> DEFINE j == i - Len(more) + m
    <3>1. /\ i \in (f + r + Len(more) + 1)..Len(a) /\ j \in (f + Len(new) + 1)..Len(d)
          /\ i \in (f + Len(w) + 1)..Len(b)
          /\ j - Len(new) + n = i - Len(w) + n
      <4>1. /\ i \in Int /\ i <= Len(a) /\ i <= Len(b)
            /\ j \in Int /\ j = i - Len(w) + Len(new)
        BY <1>1, <1>4, <1>9
      <4>2. j > f + Len(new) /\ j <= Len(d)
        BY <1>1, <1>4, <1>8, <1>9, <2>5, <4>1
      <4>3. i > f + r + Len(more)
        BY <1>1, <1>4, <2>5, <4>1
      <4>4. j - Len(new) + n = i - Len(w) + n
        BY <1>1, <1>4, <4>1
      <4>5. Len(a) \in Nat /\ Len(b) \in Nat /\ Len(d) \in Nat /\ Len(w) \in Nat
        BY <1>2, <1>3, <1>6, <1>7, LenProperties
      <4>. HIDE DEF j
      <4>6. j \in (f + Len(new) + 1)..Len(d)
        BY <1>1, <4>1, <4>2, <4>5
      <4>7. i \in (f + r + Len(more) + 1)..Len(a) /\ i \in (f + Len(w) + 1)..Len(b)
        BY <1>1, <2>5, <4>1, <4>3, <4>5
      <4>. QED BY <4>4, <4>6, <4>7
    <3>2. a[i] = d[j] /\ b[i] = doc[i - Len(w) + n]
      BY <1>6, <1>7, <3>1 DEF Spliced
    <3>. HIDE DEF j
    <3>3. d[j] = doc[j - Len(new) + n]
      BY <1>2, <3>1 DEF Spliced
    <3>. QED BY <3>1, <3>2, <3>3
  <2>. QED BY SMTT(30), <1>1, <1>9, <2>1, <2>2, <2>3, <2>4, <2>5
<1>11. a = b
  BY <1>6, <1>7, <1>9, <1>10, SeqEqual
<1>12. Splice(d, g, m, more) = a
  BY DEF a
<1>. QED BY <1>11, <1>12 DEF b, d, w

-----------------------------------------------------------------------------
(* The history.                                                            *)

TypeInv ==
    /\ lines \in Doc
    /\ undo \in Seq(Change) /\ redo \in Seq(Change)
    /\ past \in Seq(Doc) /\ future \in Seq(Doc)

HistInv == TypeInv /\ DepthBound /\ Linked

-----------------------------------------------------------------------------
(* The newest entry of a stack and the rest of it.                         *)
LEMMA FinalInitial ==
    ASSUME NEW S, NEW s \in Seq(S), s # <<>>
    PROVE  /\ Len(s) \in Nat \ {0}
           /\ Final(s) = s[Len(s)] /\ Final(s) \in S
           /\ Initial(s) \in Seq(S) /\ Len(Initial(s)) = Len(s) - 1
           /\ \A i \in 1..(Len(s) - 1) : Initial(s)[i] = s[i]
<1>1. Len(s) \in Nat \ {0}
  BY EmptySeq
<1>2. \A i \in 1..(Len(s) - 1) : s[i] \in S
  BY <1>1, ElementOfSeq
<1>3. s[Len(s)] \in S
  BY <1>1, ElementOfSeq
<1> DEFINE n == Len(s) - 1
           t == SubSeq(s, 1, n)
<1>4. /\ t \in Seq(S)
      /\ Len(t) = IF 1 <= n THEN n - 1 + 1 ELSE 0
      /\ \A i \in 1..(n - 1 + 1) : t[i] = s[1 + i - 1]
  <2>1. n \in Int
    BY <1>1
  <2>. QED BY <1>2, <2>1, SubSeqProperties
<1>. HIDE DEF t
<1>5. Len(t) = n
  <2>1. n \in Nat /\ n - 1 + 1 = n
    BY <1>1
  <2>. HIDE DEF n
  <2>2. CASE 1 <= n
    BY <1>4, <2>1, <2>2
  <2>3. CASE ~(1 <= n)
    <3>1. n = 0
      BY <2>1, <2>3
    <3>. QED BY <1>4, <2>3, <3>1
  <2>. QED BY <2>2, <2>3
<1>6. ASSUME NEW i \in 1..n PROVE t[i] = s[i]
  <2>1. i \in 1..(n - 1 + 1) /\ 1 + i - 1 = i
    BY <1>1
  <2>. QED BY <1>4, <2>1
<1>. QED BY <1>1, <1>3, <1>4, <1>5, <1>6 DEF Final, Initial, t

(* A stack is its newest entry on top of the rest.                         *)
LEMMA FinalAppended ==
    ASSUME NEW S, NEW s \in Seq(S), s # <<>>
    PROVE  Append(Initial(s), Final(s)) = s
<1> DEFINE t == Append(Initial(s), Final(s))
           n == Len(s)
<1>1. /\ n \in Nat \ {0} /\ Final(s) = s[n] /\ Final(s) \in S
      /\ Initial(s) \in Seq(S) /\ Len(Initial(s)) = n - 1
      /\ \A i \in 1..(n - 1) : Initial(s)[i] = s[i]
  BY FinalInitial
<1>2. /\ t \in Seq(S) /\ Len(t) = Len(Initial(s)) + 1
      /\ \A i \in 1..Len(Initial(s)) : t[i] = Initial(s)[i]
      /\ t[Len(Initial(s)) + 1] = Final(s)
  BY <1>1, AppendProperties
<1>. HIDE DEF t, n
<1>3. Len(t) = n /\ Len(Initial(s)) + 1 = n
  BY <1>1, <1>2
<1>4. ASSUME NEW i \in 1..n PROVE t[i] = s[i]
  <2>1. CASE i = n
    BY <1>1, <1>2, <1>3, <2>1
  <2>2. CASE i # n
    <3>1. i \in 1..(n - 1)
      BY <1>1, <2>2
    <3>. QED BY <1>1, <1>2, <3>1
  <2>. QED BY <2>1, <2>2
<1>5. t = s
  BY <1>2, <1>3, <1>4, SeqEqual DEF n
<1>. QED BY <1>5 DEF t

(* Eviction keeps the newest entries, in their order.                      *)
LEMMA NewestEntries ==
    ASSUME NEW S, NEW s \in Seq(S)
    PROVE  /\ Newest(s) \in Seq(S)
           /\ Len(Newest(s)) = IF Len(s) > Cap THEN Cap ELSE Len(s)
           /\ \A i \in 1..Len(Newest(s)) : Newest(s)[i] = s[i + (Len(s) - Len(Newest(s)))]
           /\ Len(s) <= Cap => Newest(s) = s
<1>1. Len(s) \in Nat /\ Cap \in Nat \ {0}
  BY LenProperties, CapAssumption
<1>2. CASE Len(s) > Cap
  <2> DEFINE k == Len(s) - Cap
             t == SubSeq(s, k + 1, Len(s))
  <2>1. k \in Nat /\ Newest(s) = t
    BY <1>1, <1>2 DEF Newest
  <2>2. \A i \in (k + 1)..Len(s) : s[i] \in S
    BY <1>1, <2>1, ElementOfSeq
  <2>3. /\ t \in Seq(S)
        /\ Len(t) = IF k + 1 <= Len(s) THEN Len(s) - (k + 1) + 1 ELSE 0
        /\ \A i \in 1..(Len(s) - (k + 1) + 1) : t[i] = s[k + 1 + i - 1]
    <3>1. k + 1 \in Int /\ Len(s) \in Int
      BY <1>1
    <3>. QED BY <2>2, <3>1, SubSeqProperties
  <2>. HIDE DEF t
  <2>4. Len(t) = Cap
    BY <1>1, <1>2, <2>3
  <2>5. ASSUME NEW i \in 1..Len(t) PROVE t[i] = s[i + (Len(s) - Len(t))]
    <3>1. /\ i \in 1..(Len(s) - (k + 1) + 1)
          /\ k + 1 + i - 1 = i + (Len(s) - Len(t))
      BY <1>1, <1>2, <2>4
    <3>. QED BY <2>3, <3>1
  <2>. QED BY <1>1, <1>2, <2>1, <2>3, <2>4, <2>5
<1>3. CASE ~(Len(s) > Cap)
  <2>1. Newest(s) = s
    BY <1>3 DEF Newest
  <2>2. ASSUME NEW i \in 1..Len(s) PROVE i + (Len(s) - Len(s)) = i
    BY <1>1
  <2>. QED BY <1>3, <2>1, <2>2
<1>. QED BY <1>2, <1>3

(* What a change that leads from one document to another says of them.     *)
LEMMA LeadsBack ==
    ASSUME NEW d \in Doc, NEW c \in Change, NEW e, Fits(d, c.first, c.old), e = Apply(d, c)
    PROVE  /\ Fits(e, c.first, c.new)
           /\ Unapply(e, c) = d
<1>1. d \in Seq(Line) /\ c.old \in Seq(Line) /\ c.new \in Seq(Line) /\ c.first \in Nat
  BY DEF Doc, Change
<1>2. Fits(d, c.first, c.old) /\ e = Splice(d, c.first, Len(c.old), c.new)
  BY DEF Apply
<1>3. c.first + Len(c.old) <= Len(d) /\ Len(c.old) \in Nat
  BY <1>1, <1>2, LenProperties DEF Fits
<1>4. Fits(e, c.first, c.new)
  BY <1>1, <1>2, <1>3, SpliceFits
<1>5. Splice(e, c.first, Len(c.new), c.old) = d
  BY <1>1, <1>2, SpliceBack
<1>. QED BY <1>4, <1>5 DEF Unapply

(* A run that is continued still leads from where it began.                *)
LEMMA MergeApplies ==
    ASSUME NEW d \in Doc, NEW p \in Change, Fits(d, p.first, p.old),
           NEW c \in Change, Continues(p, c)
    PROVE  LET m == Merge(p, c)
           IN  /\ m \in Change /\ m.before = p.before /\ m.after = c.after
               /\ Fits(d, m.first, m.old) /\ Apply(d, m) = Apply(Apply(d, p), c)
               /\ Len(m.new) = Len(p.new) - Len(c.old) + Len(c.new)
               /\ Len(c.old) <= Len(p.new)
<1> DEFINE r   == c.first - p.first
           new == Splice(p.new, r, Len(c.old), c.new)
           m   == Merge(p, c)
           e   == Apply(d, p)
<1>1. /\ d \in Seq(Line)
      /\ p.old \in Seq(Line) /\ p.new \in Seq(Line) /\ p.first \in Nat
      /\ c.old \in Seq(Line) /\ c.new \in Seq(Line) /\ c.first \in Nat /\ c.after \in Pos
  BY DEF Doc, Change
<1>2. r \in Nat /\ r + Len(c.old) <= Len(p.new) /\ Len(c.old) \in Nat /\ c.first = p.first + r
  BY SMTT(30), <1>1, LenProperties DEF Continues, Fits
<1>. HIDE DEF r
<1>3. new \in Seq(Line)
  BY <1>1, <1>2, SpliceLines
<1>10. Len(new) = Len(p.new) - Len(c.old) + Len(c.new) /\ Len(c.old) <= Len(p.new)
  <2>1. Spliced(new, p.new, r, Len(c.old), c.new)
    BY <1>1, <1>2, SpliceLines
  <2>2. Len(p.new) \in Nat
    BY <1>1, LenProperties
  <2>. HIDE DEF new
  <2>. QED BY <1>2, <2>1, <2>2 DEF Spliced
<1>4. m = [p EXCEPT !.new = new, !.after = c.after]
  BY DEF Merge, r
<1>5. /\ m \in Change
      /\ m.first = p.first /\ m.old = p.old /\ m.new = new
      /\ m.before = p.before /\ m.after = c.after
  <2>. HIDE DEF new, m
  <2>. QED BY <1>1, <1>3, <1>4 DEF Change
<1>6. /\ Fits(d, p.first, p.old) /\ e = Splice(d, p.first, Len(p.old), p.new)
  BY DEF Apply
<1>7. p.first + Len(p.old) <= Len(d) /\ Len(p.old) \in Nat
  BY <1>1, <1>6, LenProperties DEF Fits
<1>8. Splice(e, c.first, Len(c.old), c.new) = Splice(d, p.first, Len(p.old), new)
  <2>1. Splice(Splice(d, p.first, Len(p.old), p.new), c.first, Len(c.old), c.new)
          = Splice(d, p.first, Len(p.old), Splice(p.new, r, Len(c.old), c.new))
    <3> DEFINE f == p.first
               n == Len(p.old)
               g == c.first
               k == Len(c.old)
               in == p.new
               more == c.new
    <3>1. /\ d \in Seq(Line) /\ in \in Seq(Line) /\ more \in Seq(Line)
          /\ f \in Nat /\ n \in Nat /\ f + n <= Len(d)
          /\ r \in Nat /\ k \in Nat /\ r + k <= Len(in)
          /\ g \in Nat /\ g = f + r
      BY <1>1, <1>2, <1>7
    <3>. HIDE DEF f, n, g, k, in, more
    <3>2. Splice(Splice(d, f, n, in), g, k, more) = Splice(d, f, n, Splice(in, r, k, more))
      BY <3>1, SpliceInside
    <3>. QED BY <3>2 DEF f, n, g, k, in, more
  <2>. QED BY <1>6, <2>1
<1>9. Apply(e, c) = Apply(d, m)
  <2>. HIDE DEF new, m
  <2>. QED BY <1>2, <1>5, <1>8 DEF Apply
<1>. HIDE DEF new
<1>. HIDE DEF m
<1>11. /\ m \in Change /\ m.before = p.before /\ m.after = c.after
       /\ Fits(d, m.first, m.old) /\ Apply(d, m) = Apply(e, c)
       /\ Len(m.new) = Len(p.new) - Len(c.old) + Len(c.new)
       /\ Len(c.old) <= Len(p.new)
  BY <1>5, <1>6, <1>9, <1>10
<1>. QED BY <1>11 DEF m, e

(* The same, with the hints.                                               *)
LEMMA MergeLeads ==
    ASSUME NEW d \in Doc, NEW p \in Change, NEW e \in Doc, Leads(d, p, e),
           NEW c \in Change, Continues(p, c),
           InGrid(Apply(e, c), c.after)
    PROVE  Merge(p, c) \in Change /\ Leads(d, Merge(p, c), Apply(e, c))
<1>1. Fits(d, p.first, p.old) /\ e = Apply(d, p) /\ InGrid(d, p.before)
  BY DEF Leads
<1> DEFINE m == Merge(p, c)
<1>2. /\ m \in Change /\ m.before = p.before /\ m.after = c.after
      /\ Fits(d, m.first, m.old) /\ Apply(d, m) = Apply(e, c)
  BY <1>1, MergeApplies
<1>. HIDE DEF m
<1>3. m \in Change /\ Leads(d, m, Apply(e, c))
  BY <1>1, <1>2 DEF Leads
<1>. QED BY <1>3 DEF m

-----------------------------------------------------------------------------
(* A stack u, the documents q beside it and the document e it ends in: at  *)
(* each entry a change joins two documents that follow each other, in the  *)
(* order of the stack (undo) or against it (redo).                         *)
Joined(way, d, c, e) ==
    CASE way = "made"     -> Leads(d, c, e)
      [] way = "undone"   -> Leads(e, c, d)

Chain(way, u, q, e) ==
    /\ Len(q) = Len(u)
    /\ \A i \in 1..Len(u) : Joined(way, Append(q, e)[i], u[i], Append(q, e)[i + 1])

(* The link of the two stacks, each as a chain of documents.               *)
LEMMA LinkedChains ==
    Linked <=> Chain("made", undo, past, lines) /\ Chain("undone", redo, future, lines)
BY Zenon DEF Linked, UndoLinked, RedoLinked, Chain, Joined

(* A chain grows by a change that joins its end to another document.       *)
LEMMA ChainAppend ==
    ASSUME NEW S, NEW way, NEW u \in Seq(S), NEW q \in Seq(Doc),
           NEW d \in Doc, NEW c \in S, NEW e \in Doc,
           Chain(way, u, q, d), Joined(way, d, c, e)
    PROVE  Chain(way, Append(u, c), Append(q, d), e)
<1> DEFINE v == Append(u, c)
           w == Append(q, d)
           x == Append(w, e)
           n == Len(u)
<1>1. n \in Nat /\ Len(q) = n
  BY LenProperties DEF Chain
<1>2. Len(v) = n + 1 /\ v[n + 1] = c /\ \A i \in 1..n : v[i] = u[i]
  BY AppendProperties
<1>3. w \in Seq(Doc) /\ Len(w) = n + 1 /\ w[n + 1] = d
  BY <1>1, AppendProperties
<1>4. \A i \in 1..n : Joined(way, w[i], u[i], w[i + 1])
  BY DEF Chain
<1>. HIDE DEF v, w
<1>5. x[n + 1 + 1] = e /\ \A i \in 1..(n + 1) : x[i] = w[i]
  <2>1. x[Len(w) + 1] = e /\ \A i \in 1..Len(w) : x[i] = w[i]
    BY <1>3, AppendProperties
  <2>. QED BY <1>3, <2>1
<1>. HIDE DEF x, n
<1>6. ASSUME NEW i \in 1..(n + 1) PROVE Joined(way, x[i], v[i], x[i + 1])
  <2>1. CASE i = n + 1
    BY <1>1, <1>2, <1>3, <1>5, <2>1
  <2>2. CASE i # n + 1
    <3>1. i \in 1..n /\ i + 1 \in 1..(n + 1)
      BY <1>1, <2>2
    <3>2. x[i] = w[i] /\ x[i + 1] = w[i + 1] /\ v[i] = u[i]
      BY <1>2, <1>5, <3>1
    <3>. QED BY <1>4, <3>1, <3>2
  <2>. QED BY <2>1, <2>2
<1>. QED BY <1>2, <1>3, <1>6 DEF Chain, x, v, w

(* A chain without its last entry ends in the last of its documents.       *)
LEMMA ChainInitial ==
    ASSUME NEW S, NEW way, NEW u \in Seq(S), NEW q \in Seq(Doc), NEW e \in Doc,
           Chain(way, u, q, e), u # <<>>
    PROVE  /\ q # <<>>
           /\ Final(q) \in Doc
           /\ Joined(way, Final(q), Final(u), e)
           /\ Chain(way, Initial(u), Initial(q), Final(q))
<1> DEFINE n == Len(u)
           x == Append(q, e)
           v == Initial(u)
           w == Initial(q)
           z == Append(w, Final(q))
<1>1. n \in Nat \ {0} /\ Len(q) = n
  BY EmptySeq DEF Chain
<1>2. q # <<>>
  BY <1>1, EmptySeq
<1>3. Final(q) = q[n] /\ Final(q) \in Doc /\ w \in Seq(Doc) /\ Len(w) = n - 1
      /\ \A i \in 1..(n - 1) : w[i] = q[i]
  BY <1>1, <1>2, FinalInitial
<1>4. Final(u) = u[n] /\ Len(v) = n - 1 /\ \A i \in 1..(n - 1) : v[i] = u[i]
  BY FinalInitial
<1>5. x[n + 1] = e /\ \A i \in 1..n : x[i] = q[i]
  BY <1>1, AppendProperties
<1>6. \A i \in 1..n : Joined(way, x[i], u[i], x[i + 1])
  BY DEF Chain
<1>. HIDE DEF x, v, w
<1>7. z[n - 1 + 1] = Final(q) /\ \A i \in 1..(n - 1) : z[i] = w[i]
  <2>1. z[Len(w) + 1] = Final(q) /\ \A i \in 1..Len(w) : z[i] = w[i]
    BY <1>3, AppendProperties
  <2>. QED BY <1>3, <2>1
<1>. HIDE DEF z, n
<1>8. \A i \in 1..n : z[i] = q[i]
  <2>1. SUFFICES ASSUME NEW i \in 1..n PROVE z[i] = q[i]
    OBVIOUS
  <2>2. CASE i = n
    <3>1. n - 1 + 1 = n
      BY <1>1
    <3>. QED BY <1>3, <1>7, <2>2, <3>1
  <2>3. CASE i # n
    <3>1. i \in 1..(n - 1)
      BY <1>1, <2>3
    <3>. QED BY <1>3, <1>7, <3>1
  <2>. QED BY <2>2, <2>3
<1>9. Joined(way, Final(q), Final(u), e)
  <2>1. n \in 1..n
    BY <1>1
  <2>. QED BY <1>3, <1>4, <1>5, <1>6, <2>1
<1>10. ASSUME NEW i \in 1..(n - 1) PROVE Joined(way, z[i], v[i], z[i + 1])
  <2>1. i \in 1..n /\ i + 1 \in 1..n
    BY <1>1
  <2>2. z[i] = x[i] /\ z[i + 1] = x[i + 1] /\ v[i] = u[i]
    BY <1>4, <1>5, <1>8, <2>1
  <2>. QED BY <1>6, <2>1, <2>2
<1>11. Chain(way, v, w, Final(q))
  BY <1>3, <1>4, <1>10 DEF Chain, z
<1>. QED BY <1>2, <1>3, <1>9, <1>11 DEF v, w

(* Eviction takes the same entries from the stack and from the documents.  *)
LEMMA ChainNewest ==
    ASSUME NEW S, NEW way, NEW u \in Seq(S), NEW q \in Seq(Doc), NEW e \in Doc,
           Chain(way, u, q, e)
    PROVE  Chain(way, Newest(u), Newest(q), e)
<1> DEFINE n == Len(u)
           v == Newest(u)
           w == Newest(q)
           k == Len(v)
           o == n - k
           x == Append(q, e)
           z == Append(w, e)
<1>1. n \in Nat /\ Len(q) = n /\ Cap \in Nat \ {0}
  BY LenProperties, CapAssumption DEF Chain
<1>2. v \in Seq(S) /\ k = (IF n > Cap THEN Cap ELSE n)
      /\ \A i \in 1..k : v[i] = u[i + o]
  BY NewestEntries
<1>3. w \in Seq(Doc) /\ Len(w) = k /\ \A i \in 1..k : w[i] = q[i + o]
  <2>1. Len(w) = (IF n > Cap THEN Cap ELSE n)
    BY <1>1, NewestEntries
  <2>2. Len(w) = k
    BY <1>2, <2>1
  <2>3. w \in Seq(Doc) /\ \A i \in 1..Len(w) : w[i] = q[i + (Len(q) - Len(w))]
    BY NewestEntries
  <2>. HIDE DEF w
  <2>. QED BY <1>1, <2>2, <2>3
<1>4. k \in Nat /\ k <= n /\ o \in Nat /\ o + k = n
  BY <1>1, <1>2
<1>5. x[n + 1] = e /\ \A i \in 1..n : x[i] = q[i]
  BY <1>1, AppendProperties
<1>6. \A i \in 1..n : Joined(way, x[i], u[i], x[i + 1])
  BY DEF Chain
<1>. HIDE DEF x, w
<1>7. z[k + 1] = e /\ \A i \in 1..k : z[i] = w[i]
  <2>1. z[Len(w) + 1] = e /\ \A i \in 1..Len(w) : z[i] = w[i]
    BY <1>3, AppendProperties
  <2>. QED BY <1>3, <2>1
<1>. HIDE DEF z, v, n, k, o
<1>8. ASSUME NEW i \in 1..k PROVE Joined(way, z[i], v[i], z[i + 1])
  <2>1. i + o \in 1..n /\ (i + 1) + o = (i + o) + 1
    BY <1>4
  <2>2. z[i] = x[i + o] /\ v[i] = u[i + o]
    BY <1>2, <1>3, <1>5, <1>7, <2>1
  <2>3. z[i + 1] = x[(i + o) + 1]
    <3>1. CASE i = k
      <4>1. (i + o) + 1 = n + 1
        BY <1>4, <3>1
      <4>. QED BY <1>5, <1>7, <3>1, <4>1
    <3>2. CASE i # k
      <4>1. i + 1 \in 1..k /\ (i + o) + 1 \in 1..n
        BY <1>4, <3>2
      <4>. QED BY <1>3, <1>5, <1>7, <2>1, <4>1
    <3>. QED BY <3>1, <3>2
  <2>. QED BY <1>6, <2>1, <2>2, <2>3
<1>. QED BY <1>3, <1>8 DEF Chain, z, v, w, k

-----------------------------------------------------------------------------
(* A new editor has the invariant: both stacks are empty.                  *)
LEMMA InitInv == HistInit => HistInv
<1>. SUFFICES ASSUME HistInit PROVE HistInv
  OBVIOUS
<1>1. lines \in Doc
  BY InitDocsAssumption DEF HistInit, Doc, Line
<1>2. <<>> \in Seq(Change) /\ <<>> \in Seq(Doc) /\ Len(<<>>) = 0
  BY EmptySeq
<1>3. TypeInv
  BY <1>1, <1>2 DEF TypeInv, HistInit
<1>4. DepthBound
  BY <1>2, CapAssumption DEF DepthBound, HistInit
<1>5. Linked
  <2>1. \A i \in 1..Len(<<>>) : FALSE
    BY <1>2
  <2>. QED BY <2>1 DEF Linked, UndoLinked, RedoLinked, HistInit
<1>. QED BY <1>3, <1>4, <1>5 DEF HistInv

(* A document stays a document under a change that a command may record.   *)
LEMMA ApplyInDoc ==
    ASSUME NEW d \in Doc, NEW c \in Change, ChangeOf(d, c)
    PROVE  Apply(d, c) \in Doc
<1>1. d \in Seq(Line) /\ c.old \in Seq(Line) /\ c.new \in Seq(Line) /\ c.first \in Nat
      /\ c.after.line \in Nat
  BY DEF Doc, Change, Pos
<1>2. c.first + Len(c.old) <= Len(d) /\ Len(c.old) \in Nat
  BY <1>1, LenProperties DEF ChangeOf, Fits
<1>3. Apply(d, c) \in Seq(Line)
  BY <1>1, <1>2, SpliceLines DEF Apply
<1>4. c.after.line < Len(Apply(d, c))
  BY DEF ChangeOf, InGrid
<1>5. Apply(d, c) # <<>>
  <2>1. CASE Apply(d, c) = <<>>
    BY <1>1, <1>4, <2>1, EmptySeq
  <2>. QED BY <2>1
<1>. QED BY <1>3, <1>5 DEF Doc

(* A recorded edit keeps the invariant, be it a unit of its own or not.    *)
LEMMA RecordStep ==
    ASSUME HistInv, NEW c \in Change, NEW tag \in Kinds, ChangeOf(lines, c), Record(c, tag)
    PROVE  HistInv' /\ lines' \in Doc
<1>1. /\ lines \in Doc /\ undo \in Seq(Change) /\ past \in Seq(Doc)
      /\ Len(undo) + Len(redo) <= Cap /\ Len(undo) \in Nat /\ Len(redo) \in Nat
  BY LenProperties DEF HistInv, TypeInv, DepthBound
<1>2. Chain("made", undo, past, lines)
  BY LinkedChains DEF HistInv
<1>3. lines' = Apply(lines, c) /\ lines' \in Doc /\ redo' = <<>> /\ future' = <<>>
  BY <1>1, ApplyInDoc DEF Record
<1>4. Leads(lines, c, lines')
  BY <1>3 DEF Leads, ChangeOf
<1>5. /\ redo' \in Seq(Change) /\ future' \in Seq(Doc) /\ Len(redo') = 0
      /\ Chain("undone", redo', future', lines')
  <2>1. <<>> \in Seq(Change) /\ <<>> \in Seq(Doc) /\ Len(<<>>) = 0
    BY EmptySeq
  <2>2. \A i \in 1..Len(<<>>) : FALSE
    BY <2>1
  <2>. QED BY <1>3, <2>1, <2>2 DEF Chain
<1>6. CASE ~Extends(c, tag)
  <2> DEFINE u == Append(undo, c)
             q == Append(past, lines)
  <2>1. u \in Seq(Change) /\ q \in Seq(Doc) /\ undo' = Newest(u) /\ past' = Newest(q)
    BY <1>1, <1>6, AppendProperties DEF Record
  <2>2. Chain("made", u, q, lines')
    BY <1>1, <1>2, <1>3, <1>4, ChainAppend DEF Joined
  <2>. HIDE DEF u, q
  <2>3. Chain("made", undo', past', lines')
    BY <1>3, <2>1, <2>2, ChainNewest
  <2>4. undo' \in Seq(Change) /\ past' \in Seq(Doc)
    BY <2>1, NewestEntries
  <2>5. Len(undo') <= Cap
    <3>1. Len(Newest(u)) = IF Len(u) > Cap THEN Cap ELSE Len(u)
      BY <2>1, NewestEntries
    <3>2. Len(u) \in Nat /\ Cap \in Nat
      BY <2>1, LenProperties, CapAssumption
    <3>. QED BY <2>1, <3>1, <3>2
  <2>6. Len(undo') + Len(redo') <= Cap
    <3>1. Len(undo') \in Nat /\ Cap \in Nat
      BY <2>4, LenProperties, CapAssumption
    <3>. QED BY <1>5, <2>5, <3>1
  <2>. QED BY <1>3, <1>5, <2>3, <2>4, <2>6, LinkedChains
           DEF HistInv, TypeInv, DepthBound, Linked, UndoLinked, RedoLinked, Chain, Joined
<1>7. CASE Extends(c, tag)
  <2> DEFINE p == Final(undo)
             m == Merge(p, c)
             d == Final(past)
  <2>1. undo # <<>> /\ Continues(p, c) /\ undo' = Append(Initial(undo), m) /\ past' = past
    BY <1>7 DEF Record, Extends
  <2>2. /\ p \in Change /\ Initial(undo) \in Seq(Change) /\ Len(Initial(undo)) = Len(undo) - 1
    BY <1>1, <2>1, FinalInitial
  <2>3. /\ past # <<>> /\ d \in Doc /\ Joined("made", d, p, lines)
        /\ Chain("made", Initial(undo), Initial(past), d)
    BY <1>1, <1>2, <2>1, ChainInitial
  <2>4. Initial(past) \in Seq(Doc) /\ Append(Initial(past), d) = past
    <3>1. Initial(past) \in Seq(Doc)
      BY <1>1, <2>3, FinalInitial
    <3>. QED BY <1>1, <2>3, <3>1, FinalAppended
  <2>. HIDE DEF p, d
  <2>5. m \in Change /\ Joined("made", d, m, lines')
    <3>1. InGrid(Apply(lines, c), c.after)
      BY DEF ChangeOf
    <3>2. Leads(d, p, lines)
      BY <2>3 DEF Joined
    <3>3. m \in Change /\ Leads(d, m, Apply(lines, c))
      BY <1>1, <2>1, <2>2, <2>3, <3>1, <3>2, MergeLeads
    <3>. QED BY <1>3, <3>3 DEF Joined
  <2>. HIDE DEF m
  <2>6. Chain("made", undo', past', lines')
    BY <1>3, <2>1, <2>2, <2>3, <2>4, <2>5, ChainAppend
  <2>7. undo' \in Seq(Change) /\ Len(undo') = Len(undo) /\ past' \in Seq(Doc)
    BY <1>1, <2>1, <2>2, <2>5, AppendProperties
  <2>8. Len(undo') + Len(redo') <= Cap
    BY <1>1, <1>5, <2>7, CapAssumption
  <2>. QED BY <1>3, <1>5, <2>6, <2>7, <2>8
           DEF HistInv, TypeInv, DepthBound, Linked, UndoLinked, RedoLinked, Chain, Joined
<1>. QED BY <1>3, <1>6, <1>7

(* Undo moves the end of the past to the front of the future.              *)
LEMMA UndoStep ==
    ASSUME HistInv, UndoUnit
    PROVE  HistInv' /\ lines' \in Doc /\ past # <<>> /\ lines' = Final(past)
<1> DEFINE c == Final(undo)
           d == Final(past)
<1>1. /\ lines \in Doc /\ undo \in Seq(Change) /\ redo \in Seq(Change)
      /\ past \in Seq(Doc) /\ future \in Seq(Doc) /\ undo # <<>>
  BY DEF HistInv, TypeInv, UndoUnit
<1>2. Chain("made", undo, past, lines) /\ Chain("undone", redo, future, lines)
  BY LinkedChains DEF HistInv
<1>3. /\ past # <<>> /\ d \in Doc /\ Joined("made", d, c, lines)
      /\ Chain("made", Initial(undo), Initial(past), d)
  BY <1>1, <1>2, ChainInitial
<1>4. c \in Change /\ Initial(undo) \in Seq(Change) /\ Len(Initial(undo)) = Len(undo) - 1
  BY <1>1, FinalInitial
<1>5. Initial(past) \in Seq(Doc)
  BY <1>1, <1>3, FinalInitial
<1>6. /\ lines' = Unapply(lines, c) /\ undo' = Initial(undo) /\ past' = Initial(past)
      /\ redo' = Newest(Append(redo, c)) /\ future' = Append(future, lines)
  BY DEF UndoUnit
<1>. HIDE DEF c, d
<1>7. lines' = d
  BY <1>1, <1>3, <1>4, <1>6, LeadsBack DEF Joined, Leads
<1>8. Append(redo, c) \in Seq(Change) /\ Len(Append(redo, c)) = Len(redo) + 1
  BY <1>1, <1>4, AppendProperties
<1>9. Len(undo) \in Nat \ {0} /\ Len(redo) \in Nat /\ Cap \in Nat /\ Len(undo) + Len(redo) <= Cap
  BY <1>1, EmptySeq, LenProperties, CapAssumption DEF HistInv, DepthBound
<1>10. redo' = Append(redo, c)
  <2>1. Len(Append(redo, c)) <= Cap
    BY <1>8, <1>9
  <2>. QED BY <1>6, <1>8, <2>1, NewestEntries
<1>11. Len(undo') + Len(redo') <= Cap
  BY <1>4, <1>6, <1>8, <1>9, <1>10
<1>12. future' \in Seq(Doc)
  BY <1>1, <1>6, AppendProperties
<1>13. Chain("undone", redo', future', lines')
  BY <1>1, <1>2, <1>3, <1>4, <1>6, <1>7, <1>10, ChainAppend DEF Joined
<1>14. Chain("made", undo', past', lines')
  BY <1>3, <1>6, <1>7
<1>. QED BY <1>3, <1>4, <1>5, <1>6, <1>7, <1>8, <1>10, <1>11, <1>12, <1>13, <1>14
         DEF HistInv, TypeInv, DepthBound, Linked, UndoLinked, RedoLinked, Chain, Joined, d

(* Redo moves it back; the room it needs is the room it leaves.            *)
LEMMA RedoStep ==
    ASSUME HistInv, RedoUnit
    PROVE  HistInv' /\ lines' \in Doc /\ future # <<>> /\ lines' = Final(future)
<1> DEFINE c == Final(redo)
           d == Final(future)
<1>1. /\ lines \in Doc /\ undo \in Seq(Change) /\ redo \in Seq(Change)
      /\ past \in Seq(Doc) /\ future \in Seq(Doc) /\ redo # <<>>
  BY DEF HistInv, TypeInv, RedoUnit
<1>2. Chain("made", undo, past, lines) /\ Chain("undone", redo, future, lines)
  BY LinkedChains DEF HistInv
<1>3. /\ future # <<>> /\ d \in Doc /\ Joined("undone", d, c, lines)
      /\ Chain("undone", Initial(redo), Initial(future), d)
  BY <1>1, <1>2, ChainInitial
<1>4. c \in Change /\ Initial(redo) \in Seq(Change) /\ Len(Initial(redo)) = Len(redo) - 1
  BY <1>1, FinalInitial
<1>5. Initial(future) \in Seq(Doc)
  BY <1>1, <1>3, FinalInitial
<1>6. /\ lines' = Apply(lines, c) /\ redo' = Initial(redo) /\ future' = Initial(future)
      /\ undo' = Append(undo, c) /\ past' = Append(past, lines)
  BY DEF RedoUnit
<1>. HIDE DEF c, d
<1>7. lines' = d /\ Leads(lines, c, d)
  BY <1>3, <1>6 DEF Joined, Leads
<1>8. undo' \in Seq(Change) /\ Len(undo') = Len(undo) + 1 /\ past' \in Seq(Doc)
  BY <1>1, <1>4, <1>6, AppendProperties
<1>9. Len(redo) \in Nat \ {0} /\ Len(undo) \in Nat /\ Cap \in Nat /\ Len(undo) + Len(redo) <= Cap
  BY <1>1, EmptySeq, LenProperties, CapAssumption DEF HistInv, DepthBound
<1>10. Len(undo') + Len(redo') <= Cap
  BY <1>4, <1>6, <1>8, <1>9
<1>11. Chain("made", undo', past', lines')
  BY <1>1, <1>2, <1>3, <1>4, <1>6, <1>7, ChainAppend DEF Joined
<1>12. Chain("undone", redo', future', lines')
  BY <1>3, <1>6, <1>7
<1>. QED BY <1>3, <1>4, <1>5, <1>6, <1>7, <1>8, <1>10, <1>11, <1>12
         DEF HistInv, TypeInv, DepthBound, Linked, UndoLinked, RedoLinked, Chain, Joined, d

-----------------------------------------------------------------------------
(* Every step keeps the invariant.                                         *)
LEMMA StepInv == HistInv /\ [HistNext]_histVars => HistInv'
<1>. SUFFICES ASSUME HistInv, [HistNext]_histVars PROVE HistInv'
  OBVIOUS
<1>1. ASSUME NEW c \in Change, NEW tag \in Kinds, ChangeOf(lines, c), Record(c, tag)
      PROVE  HistInv'
  BY <1>1, RecordStep
<1>2. CASE UndoUnit
  BY <1>2, UndoStep
<1>3. CASE RedoUnit
  BY <1>3, RedoStep
<1>4. CASE UNCHANGED histVars
  BY <1>4 DEF histVars, HistInv, TypeInv, DepthBound, Linked, UndoLinked, RedoLinked
<1>. QED BY <1>1, <1>2, <1>3, <1>4 DEF HistNext

(* The inductive invariant of the history holds throughout: the types, the *)
(* bound on the stacks, and the link between the stacks and the documents. *)
THEOREM HistoryInvariant == HistSpec => []HistInv
<1>. QED BY InitInv, StepInv, PTL DEF HistSpec

(* The two stacks together never hold more than Cap units (undo.cpp,       *)
(* push_redo_return evicts nothing).                                       *)
THEOREM HistoryIsBounded == HistSpec => []DepthBound
<1>1. HistInv => DepthBound
  BY DEF HistInv
<1>. QED BY <1>1, HistoryInvariant, PTL

(* Stacks and documents tell one story, for every sequence of edits.       *)
THEOREM HistoryIsLinked == HistSpec => []Linked
<1>1. HistInv => Linked
  BY DEF HistInv
<1>. QED BY <1>1, HistoryInvariant, PTL

(* The assertions on the baseline in Buffer::apply_inverse and redo never  *)
(* fail (buffer.cpp, "undo baseline drift", "redo baseline drift").        *)
THEOREM NoBaselineDrift == HistSpec => []NoDrift
<1>1. ASSUME HistInv PROVE NoDrift
  <2>. USE <1>1
  <2>1. Chain("made", undo, past, lines) /\ Chain("undone", redo, future, lines)
    BY LinkedChains DEF HistInv
  <2>2. ASSUME undo # <<>> PROVE UndoFits
    <3>1. Final(past) \in Doc /\ Leads(Final(past), Final(undo), lines)
      BY <2>1, <2>2, ChainInitial DEF Joined, HistInv, TypeInv
    <3>2. Final(undo) \in Change
      BY <2>2, FinalInitial DEF HistInv, TypeInv
    <3>. QED BY <3>1, <3>2, LeadsBack DEF UndoFits, Leads
  <2>3. ASSUME redo # <<>> PROVE RedoFits
    <3>1. Leads(lines, Final(redo), Final(future))
      BY <2>1, <2>3, ChainInitial DEF Joined, HistInv, TypeInv
    <3>. QED BY <3>1 DEF RedoFits, Leads
  <2>. QED BY <2>2, <2>3 DEF NoDrift
<1>. QED BY <1>1, HistoryInvariant, PTL

(* Buffer::undo gives back the document that the unit was recorded on, and *)
(* Buffer::redo the one that was undone.                                   *)
THEOREM UndoInverts == HistSpec => UndoIsInverse
<1>1. HistInv /\ [HistNext]_histVars =>
        [/\ UndoUnit => lines' = Final(past)
         /\ RedoUnit => lines' = Final(future)]_histVars
  BY UndoStep, RedoStep
<1>. QED BY <1>1, HistoryInvariant, PTL DEF HistSpec, UndoIsInverse

(* The line history implements the history that EditHistory describes:     *)
(* each recorded edit is an edit or an amendment of the last one there.    *)
THEOREM HistoryRefines == HistSpec => KeepsHistory
<1>1. HistInit => Abstract!Init
  BY InitInv DEF HistInit, Abstract!Init, HistInv, TypeInv
<1>2. HistInv /\ [HistNext]_histVars => [Abstract!Next]_(Abstract!vars)
  <2>. SUFFICES ASSUME HistInv, [HistNext]_histVars PROVE [Abstract!Next]_(Abstract!vars)
    OBVIOUS
  <2>1. ASSUME NEW c \in Change, NEW tag \in Kinds, ChangeOf(lines, c), Record(c, tag)
        PROVE  Abstract!Edit \/ Abstract!Amend
    <3>1. lines' \in Doc /\ future' = <<>>
      BY <2>1, RecordStep DEF Record
    <3>2. CASE ~Extends(c, tag)
      <4>1. past' = Newest(Append(past, lines))
        BY <2>1, <3>2 DEF Record
      <4>2. past' = Abstract!Remember(past, lines)
        BY <4>1 DEF Newest, Abstract!Remember
      <4>. QED BY <3>1, <4>2 DEF Abstract!Edit
    <3>3. CASE Extends(c, tag)
      <4>1. past' = past /\ undo # <<>> /\ redo = <<>>
        BY <2>1, <3>3 DEF Record, Extends
      <4>2. past # <<>> /\ future = <<>>
        BY <4>1, EmptySeq DEF HistInv, TypeInv, Linked, UndoLinked, RedoLinked
      <4>. QED BY <3>1, <4>1, <4>2 DEF Abstract!Amend
    <3>. QED BY <3>2, <3>3
  <2>2. CASE UndoUnit
    <3>1. past # <<>> /\ lines' = Final(past)
      BY <2>2, UndoStep
    <3>2. Abstract!Undo
      BY <2>2, <3>1 DEF UndoUnit, Abstract!Undo, Abstract!Latest, Abstract!Rest, Final, Initial
    <3>. QED BY <3>2 DEF Abstract!Next
  <2>3. CASE RedoUnit
    <3>1. future # <<>> /\ lines' = Final(future)
      BY <2>3, RedoStep
    <3>2. Abstract!Redo
      BY <2>3, <3>1 DEF RedoUnit, Abstract!Redo, Abstract!Latest, Abstract!Rest, Final, Initial
    <3>. QED BY <3>2 DEF Abstract!Next
  <2>4. CASE UNCHANGED histVars
    BY <2>4 DEF histVars, Abstract!vars
  <2>. QED BY <2>1, <2>2, <2>3, <2>4 DEF HistNext, Abstract!Next
<1>. QED BY <1>1, <1>2, HistoryInvariant, PTL DEF HistSpec, KeepsHistory, Abstract!Spec
-----------------------------------------------------------------------------
(***************************************************************************)
(* The least and the greatest of a set of numbers or positions, which the  *)
(* motions and the text objects choose.                                    *)
(***************************************************************************)
(* The positions of a document.                                            *)
Grid(doc) == {p \in Pos : InGrid(doc, p)}

(* A set of numbers has a least one.                                       *)
LEMMA LeastIs ==
    ASSUME NEW s, s \subseteq Nat, s # {}
    PROVE  Least(s) \in s /\ \A m \in s : Least(s) <= m
<1>1. PICK n \in s : \A m \in s : ~(m < n)
  BY LeastNumber
<1>2. \A m \in s : n <= m
  BY <1>1
<1>. QED BY <1>2 DEF Least

(* A bounded set of numbers has a greatest one.                            *)
LEMMA GreatestIs ==
    ASSUME NEW k \in Nat, NEW s, s \subseteq 0..k, s # {}
    PROVE  Greatest(s) \in s /\ \A m \in s : m <= Greatest(s)
<1> DEFINE t == {n \in Nat : k - n \in s}
<1>1. PICK x \in s : TRUE
  OBVIOUS
<1>2. k - x \in t
  <2>1. k - x \in Nat /\ k - (k - x) = x
    OBVIOUS
  <2>. QED BY <2>1
<1>3. PICK n \in t : \A m \in t : ~(m < n)
  <2>1. t \subseteq Nat /\ t # {}
    BY <1>2
  <2>. HIDE DEF t
  <2>. QED BY <2>1, LeastNumber
<1>4. ASSUME NEW m \in s PROVE m <= k - n
  <2>1. m \in 0..k /\ n \in Nat
    BY <1>3
  <2>2. k - m \in Nat /\ k - (k - m) = m
    BY <2>1
  <2>3. ~(k - m < n)
    BY <1>3, <2>2
  <2>. QED BY <2>1, <2>3
<1>5. k - n \in s
  BY <1>3
<1>. QED BY <1>4, <1>5 DEF Greatest

(* A set of positions has one that no other is before.                     *)
LEMMA NearestIs ==
    ASSUME NEW s, s \subseteq Pos, s # {}
    PROVE  Nearest(s) \in s /\ \A q \in s : ~Before(q, Nearest(s))
<1> DEFINE ls == {p.line : p \in s}
           l  == Least(ls)
           cs == {p.col : p \in {q \in s : q.line = l}}
           c  == Least(cs)
<1>1. l \in ls /\ \A m \in ls : l <= m
  <2>1. ls \subseteq Nat /\ ls # {}
    BY DEF Pos
  <2>. HIDE DEF ls
  <2>. QED BY <2>1, LeastIs
<1>2. c \in cs /\ \A m \in cs : c <= m
  <2>1. cs \subseteq Nat /\ cs # {}
    BY <1>1 DEF Pos
  <2>. HIDE DEF cs
  <2>. QED BY <2>1, LeastIs
<1>. HIDE DEF l, c
<1>3. PICK p \in s : p.line = l /\ p.col = c
  BY <1>2
<1>4. ASSUME NEW q \in s PROVE ~Before(q, p)
  <2>1. q.line \in Nat /\ q.col \in Nat /\ p.line \in Nat /\ p.col \in Nat
    BY DEF Pos
  <2>2. l <= q.line /\ (q.line = l => c <= q.col)
    BY <1>1, <1>2
  <2>. QED BY <1>3, <2>1, <2>2 DEF Before
<1>. QED BY <1>4 DEF Nearest

(* A document has a line, and its lines are lines.                         *)
LEMMA DocLines ==
    ASSUME NEW doc \in Doc
    PROVE  /\ Len(doc) \in Nat \ {0} /\ LastLine(doc) \in Nat /\ LastLine(doc) + 1 = Len(doc)
           /\ doc \in Seq(Line)
           /\ \A l \in 0..LastLine(doc) : /\ l \in Nat /\ l + 1 \in 1..Len(doc)
                                          /\ LineOf(doc, l) \in Seq(Char)
                                          /\ Len(LineOf(doc, l)) \in Nat
<1>1. doc \in Seq(Line) /\ Len(doc) \in Nat \ {0}
  BY EmptySeq, LenProperties DEF Doc
<1>2. LastLine(doc) \in Nat /\ LastLine(doc) + 1 = Len(doc)
  BY <1>1 DEF LastLine
<1>3. ASSUME NEW l \in 0..LastLine(doc)
      PROVE  l \in Nat /\ l + 1 \in 1..Len(doc) /\ LineOf(doc, l) \in Seq(Char)
             /\ Len(LineOf(doc, l)) \in Nat
  <2>1. l \in Nat /\ l + 1 \in 1..Len(doc)
    BY <1>1, <1>2
  <2>2. doc[l + 1] \in Line
    BY <1>1, <2>1, ElementOfSeq
  <2>. QED BY <2>1, <2>2, LenProperties DEF LineOf, Line
<1>. QED BY <1>1, <1>2, <1>3

(* A position of the document is on a line, and not beyond its end.        *)
LEMMA GridIs ==
    ASSUME NEW doc \in Doc, NEW p
    PROVE  /\ p \in Grid(doc) =>
                /\ p \in Pos /\ p.line \in Nat /\ p.col \in Nat /\ p.line \in 0..LastLine(doc)
                /\ p.col \in 0..Len(LineOf(doc, p.line)) /\ p = At(p.line, p.col)
           /\ \A l \in 0..LastLine(doc) : \A c \in 0..Len(LineOf(doc, l)) :
                /\ At(l, c) \in Grid(doc) /\ At(l, c).line = l /\ At(l, c).col = c
<1>1. Len(doc) \in Nat \ {0} /\ LastLine(doc) = Len(doc) - 1
  BY DocLines DEF LastLine
<1>2. ASSUME p \in Grid(doc)
      PROVE  /\ p \in Pos /\ p.line \in Nat /\ p.col \in Nat /\ p.line \in 0..LastLine(doc)
             /\ p.col \in 0..Len(LineOf(doc, p.line)) /\ p = At(p.line, p.col)
  <2>1. p \in Pos /\ p.line < Len(doc) /\ p.col <= Len(doc[p.line + 1])
    BY <1>2 DEF Grid, InGrid
  <2>2. p.line \in Nat /\ p.col \in Nat /\ p = At(p.line, p.col)
    BY <2>1 DEF Pos, At
  <2>3. p.line \in 0..LastLine(doc)
    BY <1>1, <2>1, <2>2
  <2>4. Len(LineOf(doc, p.line)) \in Nat
    BY <2>3, DocLines
  <2>. QED BY <2>1, <2>2, <2>3, <2>4 DEF LineOf
<1>3. ASSUME NEW l \in 0..LastLine(doc), NEW c \in 0..Len(LineOf(doc, l))
      PROVE  At(l, c) \in Grid(doc) /\ At(l, c).line = l /\ At(l, c).col = c
  <2>1. l \in Nat /\ Len(LineOf(doc, l)) \in Nat
    BY DocLines
  <2>2. l < Len(doc) /\ c \in Nat /\ c <= Len(doc[l + 1])
    BY <1>1, <2>1 DEF LineOf
  <2>3. At(l, c).line = l /\ At(l, c).col = c /\ At(l, c) \in Pos
    BY <2>1, <2>2 DEF At, Pos
  <2>. QED BY <2>2, <2>3 DEF Grid, InGrid
<1>. QED BY <1>2, <1>3

(* A set of positions of a document has one that is before no other.       *)
LEMMA FarthestIs ==
    ASSUME NEW doc \in Doc, NEW s, s \subseteq Grid(doc), s # {}
    PROVE  Farthest(s) \in s /\ \A q \in s : ~Before(Farthest(s), q)
<1> DEFINE ls == {p.line : p \in s}
           l  == Greatest(ls)
           cs == {p.col : p \in {q \in s : q.line = l}}
           c  == Greatest(cs)
<1>1. l \in ls /\ \A m \in ls : m <= l
  <2>1. ls \subseteq 0..LastLine(doc) /\ ls # {} /\ LastLine(doc) \in Nat
    BY GridIs, DocLines
  <2>. HIDE DEF ls
  <2>. QED BY <2>1, GreatestIs
<1>2. l \in 0..LastLine(doc) /\ Len(LineOf(doc, l)) \in Nat
  BY <1>1, GridIs, DocLines
<1>3. c \in cs /\ \A m \in cs : m <= c
  <2>. HIDE DEF l
  <2>1. \A p \in s : p.line = l => p.col \in 0..Len(LineOf(doc, l))
    BY GridIs
  <2>2. \E p \in s : p.line = l
    BY <1>1
  <2>3. cs \subseteq 0..Len(LineOf(doc, l)) /\ cs # {}
    BY <2>1, <2>2
  <2>. HIDE DEF cs
  <2>. QED BY <1>2, <2>3, GreatestIs
<1>. HIDE DEF l, c
<1>4. PICK p \in s : p.line = l /\ p.col = c
  BY <1>3
<1>5. ASSUME NEW q \in s PROVE ~Before(p, q)
  <2>1. q.line \in Nat /\ q.col \in Nat /\ p.line \in Nat /\ p.col \in Nat
    BY GridIs
  <2>2. q.line <= l /\ (q.line = l => q.col <= c)
    BY <1>1, <1>3
  <2>. QED BY <1>4, <2>1, <2>2 DEF Before
<1>. QED BY <1>5 DEF Farthest

(* The cells are the positions that have a character.                      *)
LEMMA CellsAre ==
    ASSUME NEW doc \in Doc, NEW p
    PROVE  /\ p \in Cells(doc) <=> p \in Grid(doc) /\ p.col < Len(LineOf(doc, p.line))
           /\ p \in Cells(doc) =>
                /\ p \in Grid(doc) /\ p.col + 1 \in 1..Len(LineOf(doc, p.line))
                /\ CharAt(doc, p) \in Char /\ LineOf(doc, p.line) # <<>>
<1>1. p \in Cells(doc) <=>
        \E l \in 0..LastLine(doc) : \E c \in 0..(Len(LineOf(doc, l)) - 1) : p = At(l, c)
  BY DEF Cells
<1>2. ASSUME p \in Cells(doc) PROVE p \in Grid(doc) /\ p.col < Len(LineOf(doc, p.line))
  <2>1. PICK l \in 0..LastLine(doc) : \E c \in 0..(Len(LineOf(doc, l)) - 1) : p = At(l, c)
    BY <1>1, <1>2
  <2>2. PICK c \in 0..(Len(LineOf(doc, l)) - 1) : p = At(l, c)
    BY <2>1
  <2>3. Len(LineOf(doc, l)) \in Nat
    BY DocLines
  <2>4. c \in 0..Len(LineOf(doc, l)) /\ c < Len(LineOf(doc, l))
    BY <2>3
  <2>. QED BY <2>2, <2>4, GridIs
<1>3. ASSUME p \in Grid(doc), p.col < Len(LineOf(doc, p.line)) PROVE p \in Cells(doc)
  <2>1. p.line \in 0..LastLine(doc) /\ p.col \in Nat /\ p = At(p.line, p.col)
    BY <1>3, GridIs
  <2>2. Len(LineOf(doc, p.line)) \in Nat
    BY <2>1, DocLines
  <2>3. p.col \in 0..(Len(LineOf(doc, p.line)) - 1)
    BY <1>3, <2>1, <2>2
  <2>. QED BY <1>1, <2>1, <2>3
<1>4. ASSUME p \in Grid(doc), p.col < Len(LineOf(doc, p.line))
      PROVE  /\ p.col + 1 \in 1..Len(LineOf(doc, p.line))
             /\ CharAt(doc, p) \in Char /\ LineOf(doc, p.line) # <<>>
  <2>1. p.line \in 0..LastLine(doc) /\ p.col \in Nat
    BY <1>4, GridIs
  <2>2. LineOf(doc, p.line) \in Seq(Char) /\ Len(LineOf(doc, p.line)) \in Nat
    BY <2>1, DocLines
  <2>3. p.col + 1 \in 1..Len(LineOf(doc, p.line))
    BY <1>4, <2>1, <2>2
  <2>4. LineOf(doc, p.line) # <<>>
    BY <1>4, <2>1, EmptySeq
  <2>. QED BY <2>2, <2>3, <2>4, ElementOfSeq DEF CharAt
<1>. QED BY <1>2, <1>3, <1>4

(* OnChar stays on the line, at its last character at the most.            *)
LEMMA OnCharIs ==
    ASSUME NEW doc \in Doc, NEW l \in 0..LastLine(doc), NEW c \in Nat
    PROVE  /\ OnChar(doc, At(l, c)) \in Grid(doc) /\ OnChar(doc, At(l, c)).line = l
           /\ OnChar(doc, At(l, c)).col <= c
<1> DEFINE text == LineOf(doc, l)
<1>1. Len(text) \in Nat /\ text \in Seq(Char)
  BY DocLines
<1>2. At(l, c).line = l /\ At(l, c).col = c
  BY DEF At
<1>3. LastCol(text) \in 0..Len(text)
  <2>1. text # <<>> => Len(text) # 0
    BY <1>1, EmptySeq
  <2>. QED BY <1>1, <2>1 DEF LastCol
<1>. HIDE DEF text
<1>4. Lesser(c, LastCol(text)) \in 0..Len(text) /\ Lesser(c, LastCol(text)) <= c
  BY <1>1, <1>3 DEF Lesser
<1>5. OnChar(doc, At(l, c)) = At(l, Lesser(c, LastCol(text)))
  BY <1>2 DEF OnChar, text
<1>. QED BY <1>4, <1>5, GridIs DEF text
-----------------------------------------------------------------------------
(***************************************************************************)
(* Every motion lands on a position of the document, from any position of  *)
(* it, whatever the count and the aim.                                     *)
(***************************************************************************)
(* The run around a character begins at or before it and ends behind it.   *)
LEMMA RunIs ==
    ASSUME NEW text \in Seq(Char), NEW big \in BOOLEAN, NEW col \in 0..(Len(text) - 1),
           big => text[col + 1] \notin Blanks
    PROVE  /\ RunStart(big, text, col) \in 0..col
           /\ \A j \in RunStart(big, text, col)..col : SameRun(big, text[col + 1], text[j + 1])
           /\ RunEnd(big, text, col) \in (col + 1)..Len(text)
           /\ \A j \in col..(RunEnd(big, text, col) - 1) :
                SameRun(big, text[col + 1], text[j + 1])
<1> DEFINE same(j) == SameRun(big, text[col + 1], text[j + 1])
           left  == {k \in 0..col : \A j \in k..col : same(j)}
           right == {k \in (col + 1)..Len(text) : \A j \in col..(k - 1) : same(j)}
<1>1. Len(text) \in Nat /\ col \in Nat
  BY LenProperties
<1>2. same(col)
  BY DEF SameRun
<1>. HIDE DEF same
<1>3. left \subseteq Nat /\ left # {}
  <2>1. \A j \in col..col : j = col
    BY <1>1
  <2>2. col \in 0..col /\ 0..col \subseteq Nat
    BY <1>1
  <2>3. col \in left
    BY <1>2, <2>1, <2>2
  <2>. QED BY <2>2, <2>3
<1>4. right \subseteq 0..Len(text) /\ right # {}
  <2>1. \A j \in col..((col + 1) - 1) : j = col
    BY <1>1
  <2>2. col + 1 \in (col + 1)..Len(text)
    BY <1>1
  <2>3. col + 1 \in right
    BY <1>2, <2>1, <2>2
  <2>. QED BY <1>1, <2>3
<1>5. Least(left) \in left
  <2>. HIDE DEF left
  <2>. QED BY <1>3, LeastIs
<1>6. Greatest(right) \in right
  <2>. HIDE DEF right
  <2>. QED BY <1>1, <1>4, GreatestIs
<1>7. RunStart(big, text, col) = Least(left) /\ RunEnd(big, text, col) = Greatest(right)
  BY DEF RunStart, RunEnd, same
<1>. QED BY <1>5, <1>6, <1>7 DEF same

(* The places where a word motion may stop are positions.                  *)
LEMMA StopsAre ==
    ASSUME NEW doc \in Doc, NEW big \in BOOLEAN
    PROVE  /\ NonBlank(doc, big) \subseteq Cells(doc) /\ Cells(doc) \subseteq Grid(doc)
           /\ \A q \in NonBlank(doc, big) : CharAt(doc, q) \notin Blanks
           /\ Grid(doc) \subseteq Pos
           /\ \A l \in EmptyLines(doc) : At(l, 0) \in Grid(doc) /\ l \in Nat /\ At(l, 0).line = l
<1>1. \A l \in EmptyLines(doc) : l \in 0..LastLine(doc) /\ 0 \in 0..Len(LineOf(doc, l)) /\ l \in Nat
  BY DocLines DEF EmptyLines
<1>2. \A l \in EmptyLines(doc) : At(l, 0) \in Grid(doc) /\ At(l, 0).line = l
  BY <1>1, GridIs
<1>3. Cells(doc) \subseteq Grid(doc)
  BY CellsAre
<1>. QED BY <1>1, <1>2, <1>3 DEF Grid, NonBlank, BlankFor, Whitespace

(* The run of a character, as positions.                                   *)
LEMMA RunInGrid ==
    ASSUME NEW doc \in Doc, NEW big \in BOOLEAN, NEW q \in Cells(doc),
           big => CharAt(doc, q) \notin Blanks
    PROVE  /\ At(q.line, RunStart(big, LineOf(doc, q.line), q.col)) \in Cells(doc)
           /\ At(q.line, RunEnd(big, LineOf(doc, q.line), q.col)) \in Grid(doc)
           /\ At(q.line, RunEnd(big, LineOf(doc, q.line), q.col) - 1) \in Cells(doc)
           /\ RunStart(big, LineOf(doc, q.line), q.col) \in 0..q.col
           /\ RunEnd(big, LineOf(doc, q.line), q.col) \in (q.col + 1)..Len(LineOf(doc, q.line))
<1> DEFINE text == LineOf(doc, q.line)
<1>1. q \in Grid(doc) /\ q.line \in 0..LastLine(doc) /\ q.col \in Nat /\ q.col < Len(text)
  BY CellsAre, GridIs
<1>2. text \in Seq(Char) /\ Len(text) \in Nat
  BY <1>1, DocLines
<1>3. q.col \in 0..(Len(text) - 1) /\ (big => text[q.col + 1] \notin Blanks)
  BY <1>1, <1>2 DEF CharAt
<1>. HIDE DEF text
<1>4. RunStart(big, text, q.col) \in 0..q.col /\ RunEnd(big, text, q.col) \in (q.col + 1)..Len(text)
  BY <1>2, <1>3, RunIs
<1>5. /\ RunStart(big, text, q.col) \in 0..Len(text)
      /\ RunEnd(big, text, q.col) \in 0..Len(text)
      /\ RunEnd(big, text, q.col) - 1 \in 0..Len(text)
      /\ RunStart(big, text, q.col) < Len(text) /\ RunEnd(big, text, q.col) - 1 < Len(text)
  BY <1>1, <1>2, <1>4
<1>6. \A c \in 0..Len(text) : /\ At(q.line, c) \in Grid(doc)
                              /\ At(q.line, c).line = q.line /\ At(q.line, c).col = c
  BY <1>1, GridIs DEF text
<1>7. \A c \in 0..Len(text) : c < Len(text) => At(q.line, c) \in Cells(doc)
  BY <1>6, CellsAre DEF text
<1>. QED BY <1>4, <1>5, <1>6, <1>7 DEF text

(* A cursor on a word is on a character.                                   *)
LEMMA OnWordIs ==
    ASSUME NEW doc \in Doc, NEW big \in BOOLEAN, NEW p \in Grid(doc), OnWord(doc, big, p)
    PROVE  p \in Cells(doc) /\ (big => CharAt(doc, p) \notin Blanks)
  BY CellsAre DEF OnWord, BlankFor

(* The sets of positions that a motion stays in: all of the document's,    *)
(* and those that a cursor of normal mode rests on, a character or the     *)
(* start of an empty line.                                                 *)
Rest(doc) == {p \in Grid(doc) : p.col <= LastCol(LineOf(doc, p.line))}
Lands(doc, X) ==
    /\ Cells(doc) \subseteq X /\ X \subseteq Grid(doc)
    /\ \A l \in 0..LastLine(doc) : At(l, 0) \in X /\ \A c \in Nat : OnChar(doc, At(l, c)) \in X

(* Both are such sets.                                                     *)
LEMMA LandsAre ==
    ASSUME NEW doc \in Doc
    PROVE  Lands(doc, Grid(doc)) /\ Lands(doc, Rest(doc))
<1>1. Cells(doc) \subseteq Rest(doc)
  <2>1. ASSUME NEW p \in Cells(doc) PROVE p \in Rest(doc)
    <3>1. p \in Grid(doc) /\ p.col < Len(LineOf(doc, p.line)) /\ LineOf(doc, p.line) # <<>>
      BY CellsAre
    <3>2. p.col \in Nat /\ Len(LineOf(doc, p.line)) \in Nat
      BY <3>1, GridIs, DocLines
    <3>. QED BY <3>1, <3>2 DEF Rest, LastCol
  <2>. QED BY <2>1
<1>2. ASSUME NEW l \in 0..LastLine(doc), NEW c \in Nat
      PROVE  OnChar(doc, At(l, c)) \in Rest(doc) /\ At(l, 0) \in Rest(doc)
  <2>1. LastCol(LineOf(doc, l)) \in Nat
    <3>1. LineOf(doc, l) \in Seq(Char) /\ Len(LineOf(doc, l)) \in Nat
      BY DocLines
    <3>. QED BY <3>1, EmptySeq DEF LastCol
  <2>2. At(l, c).line = l /\ At(l, c).col = c /\ At(l, 0).line = l /\ At(l, 0).col = 0
    BY DEF At
  <2>3. OnChar(doc, At(l, c)).col = Lesser(c, LastCol(LineOf(doc, l)))
    BY <2>2 DEF OnChar, At
  <2>4. OnChar(doc, At(l, c)) \in Grid(doc) /\ OnChar(doc, At(l, c)).line = l
    BY OnCharIs
  <2>5. 0 \in 0..Len(LineOf(doc, l))
    BY DocLines
  <2>6. At(l, 0) \in Grid(doc)
    BY <2>5, GridIs
  <2>7. Lesser(c, LastCol(LineOf(doc, l))) <= LastCol(LineOf(doc, l))
    BY <2>1 DEF Lesser
  <2>. QED BY <2>1, <2>2, <2>3, <2>4, <2>6, <2>7 DEF Rest
<1>3. Rest(doc) \subseteq Grid(doc) /\ Cells(doc) \subseteq Grid(doc)
  BY CellsAre DEF Rest
<1>. QED BY <1>1, <1>2, <1>3 DEF Lands

(* The stops of the motions are in such a set.                             *)
LEMMA StopsLand ==
    ASSUME NEW doc \in Doc, NEW X, Lands(doc, X), NEW big \in BOOLEAN
    PROVE  /\ NonBlank(doc, big) \subseteq X /\ X \subseteq Grid(doc) /\ X \subseteq Pos
           /\ Cells(doc) \subseteq X
           /\ \A l \in EmptyLines(doc) : At(l, 0) \in X
           /\ OnChar(doc, At(LastLine(doc), KMaxCol)) \in X
<1>1. LastLine(doc) \in 0..LastLine(doc) /\ KMaxCol \in Nat
  BY DocLines DEF KMaxCol
<1>2. NonBlank(doc, big) \subseteq Cells(doc) /\ Grid(doc) \subseteq Pos
  BY StopsAre
<1>3. EmptyLines(doc) \subseteq 0..LastLine(doc)
  BY DEF EmptyLines
<1>. QED BY <1>1, <1>2, <1>3 DEF Lands

(* w and W land on a position.                                             *)
LEMMA WordForwardLands ==
    ASSUME NEW doc \in Doc, NEW X, Lands(doc, X), NEW big \in BOOLEAN, NEW p \in X
    PROVE  WordForward(doc, p, big) \in X
<1> DEFINE from  == IF OnWord(doc, big, p) THEN At(p.line, RunEnd(big, LineOf(doc, p.line), p.col))
                    ELSE p
           stops == {q \in NonBlank(doc, big) : ~Before(q, from)}
                     \cup {At(l, 0) : l \in {m \in EmptyLines(doc) : m > p.line}}
<1>1. stops \subseteq X /\ stops \subseteq Pos
  BY StopsAre, StopsLand
<1>2. stops # {} => Nearest(stops) \in X
  <2>. HIDE DEF stops
  <2>. QED BY <1>1, NearestIs
<1>3. WordForward(doc, p, big) =
        IF stops = {} THEN OnChar(doc, At(LastLine(doc), KMaxCol)) ELSE Nearest(stops)
  BY DEF WordForward
<1>. HIDE DEF stops
<1>. QED BY <1>2, <1>3, StopsLand

(* b and B land on a position.                                             *)
LEMMA WordBackLands ==
    ASSUME NEW doc \in Doc, NEW X, Lands(doc, X), NEW big \in BOOLEAN, NEW p \in X
    PROVE  WordBack(doc, p, big) \in X
<1> DEFINE start(q) == At(q.line, RunStart(big, LineOf(doc, q.line), q.col))
           stops    == {q \in NonBlank(doc, big) : Before(q, p)}
                        \cup {At(l, 0) : l \in {m \in EmptyLines(doc) : m < p.line}}
           f        == Farthest(stops)
<1>1. stops \subseteq X /\ stops \subseteq Grid(doc)
  BY StopsAre, StopsLand
<1>2. \A q \in stops : q \in NonBlank(doc, big) \/ q.line \in EmptyLines(doc)
  BY StopsAre, StopsLand
<1>3. \A q \in NonBlank(doc, big) : start(q) \in X
  BY StopsAre, StopsLand, RunInGrid
<1>4. OnWord(doc, big, p) => start(p) \in X
  BY OnWordIs, StopsLand, RunInGrid
<1>5. stops # {} => f \in stops
  <2>. HIDE DEF stops
  <2>. QED BY <1>1, FarthestIs
<1>6. WordBack(doc, p, big) = IF OnWord(doc, big, p) /\ start(p) # p THEN start(p)
                              ELSE IF stops = {} THEN p
                              ELSE IF f.line \in EmptyLines(doc) THEN f
                              ELSE start(f)
  BY DEF WordBack
<1>. HIDE DEF stops, f, start
<1>. QED BY <1>1, <1>2, <1>3, <1>4, <1>5, <1>6

(* e and E land on a position.                                             *)
LEMMA WordEndLands ==
    ASSUME NEW doc \in Doc, NEW X, Lands(doc, X), NEW big \in BOOLEAN, NEW p \in X
    PROVE  WordEnd(doc, p, big) \in X
<1> DEFINE end(q) == At(q.line, RunEnd(big, LineOf(doc, q.line), q.col) - 1)
           stops  == {q \in NonBlank(doc, big) : Before(p, q)}
<1>1. stops \subseteq Pos /\ stops \subseteq NonBlank(doc, big)
  BY StopsAre, StopsLand
<1>2. \A q \in NonBlank(doc, big) : end(q) \in X
  BY StopsAre, StopsLand, RunInGrid
<1>3. OnWord(doc, big, p) => end(p) \in X
  BY OnWordIs, StopsLand, RunInGrid
<1>4. stops # {} => Nearest(stops) \in stops
  <2>. HIDE DEF stops
  <2>. QED BY <1>1, NearestIs
<1>5. WordEnd(doc, p, big) = IF OnWord(doc, big, p) /\ end(p) # p THEN end(p)
                             ELSE IF stops = {} THEN OnChar(doc, At(LastLine(doc), KMaxCol))
                             ELSE end(Nearest(stops))
  BY DEF WordEnd
<1>. HIDE DEF stops, end
<1>. QED BY <1>1, <1>2, <1>3, <1>4, <1>5, StopsLand

(* { and } land on a position.                                             *)
LEMMA ParaStepLands ==
    ASSUME NEW doc \in Doc, NEW X, Lands(doc, X), NEW p \in X
    PROVE  ParaForward(doc, p) \in X /\ ParaBack(doc, p) \in X
<1>0. OnChar(doc, At(LastLine(doc), KMaxCol)) \in X
  <2>1. LastLine(doc) \in 0..LastLine(doc) /\ KMaxCol \in Nat
    BY DocLines DEF KMaxCol
  <2>. QED BY <2>1 DEF Lands
<1>1. ASSUME NEW s, s \subseteq EmptyLines(doc), s # {}
      PROVE  At(Least(s), 0) \in X /\ At(Greatest(s), 0) \in X
  <2>1. s \subseteq Nat /\ s \subseteq 0..LastLine(doc) /\ LastLine(doc) \in Nat
    BY <1>1, DocLines DEF EmptyLines
  <2>2. Least(s) \in s /\ Greatest(s) \in s
    BY <1>1, <2>1, LeastIs, GreatestIs
  <2>. QED BY <1>1, <2>2, StopsLand
<1>2. ParaForward(doc, p) \in X
  <2> DEFINE run(m) == \A k \in p.line..m : k \in EmptyLines(doc)
             at     == Greatest({p.line} \cup {m \in p.line..LastLine(doc) : run(m)})
             stops  == {m \in EmptyLines(doc) : m > at}
  <2>1. stops \subseteq EmptyLines(doc)
    OBVIOUS
  <2>2. ParaForward(doc, p) = IF stops = {} THEN OnChar(doc, At(LastLine(doc), KMaxCol))
                              ELSE At(Least(stops), 0)
    BY DEF ParaForward
  <2>. HIDE DEF stops
  <2>. QED BY <1>0, <1>1, <2>1, <2>2
<1>3. ParaBack(doc, p) \in X
  <2> DEFINE run(m) == \A k \in m..p.line : k \in EmptyLines(doc)
             at     == Least({p.line} \cup {m \in 0..p.line : run(m)})
             stops  == {m \in EmptyLines(doc) : m < at}
  <2>1. stops \subseteq EmptyLines(doc)
    OBVIOUS
  <2>2. ParaBack(doc, p) = IF stops = {} THEN At(0, 0) ELSE At(Greatest(stops), 0)
    BY DEF ParaBack
  <2>3. At(0, 0) \in X
    <3>1. 0 \in 0..LastLine(doc)
      BY DocLines
    <3>. QED BY <3>1 DEF Lands
  <2>. HIDE DEF stops
  <2>. QED BY <1>1, <2>1, <2>2, <2>3
<1>. QED BY <1>2, <1>3

(* A function on 0..n is defined by its first value and its steps, here    *)
(* those of the function g.                                                *)
Walks(f, X, a, n, g) ==
    /\ f \in [0..n -> X]
    /\ \A i \in 0..n : f[i] = IF i = 0 THEN a ELSE g[<<i, f[i - 1]>>]

(* Such a walk exists, by induction on its length.                         *)
LEMMA Recursion ==
    ASSUME NEW X, NEW a \in X, NEW n \in Nat, NEW g \in [(1..n) \X X -> X]
    PROVE  \E f : Walks(f, X, a, n, g)
<1> DEFINE Goes(f, k) == \A i \in 0..k : f[i] = IF i = 0 THEN a ELSE g[<<i, f[i - 1]>>]
           s == {k \in Nat : k <= n => \E f \in [0..k -> X] : Goes(f, k)}
<1>1. 0 \in s
  <2> DEFINE f == [i \in 0..0 |-> a]
  <2>1. f \in [0..0 -> X] /\ \A i \in 0..0 : i = 0 /\ f[i] = a
    OBVIOUS
  <2>2. Goes(f, 0)
    BY <2>1
  <2>. QED BY <2>1, <2>2
<1>2. ASSUME NEW k \in Nat, k \in s PROVE k + 1 \in s
  <2>1. SUFFICES ASSUME k + 1 <= n PROVE \E f \in [0..(k + 1) -> X] : Goes(f, k + 1)
    OBVIOUS
  <2>2. PICK f \in [0..k -> X] : Goes(f, k)
    BY <1>2, <2>1
  <2> DEFINE h == [i \in 0..(k + 1) |-> IF i = k + 1 THEN g[<<k + 1, f[k]>>] ELSE f[i]]
  <2>3. f[k] \in X /\ <<k + 1, f[k]>> \in (1..n) \X X
    BY <2>1
  <2>4. g[<<k + 1, f[k]>>] \in X
    BY <2>3
  <2>5. \A i \in 0..(k + 1) : i # k + 1 => i \in 0..k /\ (i # 0 => i - 1 \in 0..k /\ i - 1 # k + 1)
    OBVIOUS
  <2>6. h \in [0..(k + 1) -> X]
    BY <2>4, <2>5
  <2>7. \A i \in 0..k : h[i] = f[i]
    OBVIOUS
  <2>8. h[k + 1] = g[<<k + 1, h[k]>>] /\ k + 1 # 0 /\ (k + 1) - 1 = k
    BY <2>7
  <2>9. Goes(h, k + 1)
    <3>1. ASSUME NEW i \in 0..(k + 1) PROVE h[i] = IF i = 0 THEN a ELSE g[<<i, h[i - 1]>>]
      <4>1. CASE i = k + 1
        BY <2>8, <4>1
      <4>2. CASE i # k + 1
        <5>1. i \in 0..k /\ (i # 0 => i - 1 \in 0..k)
          BY <4>2, <2>5
        <5>2. h[i] = f[i] /\ (i # 0 => h[i - 1] = f[i - 1])
          BY <5>1, <2>7
        <5>3. f[i] = IF i = 0 THEN a ELSE g[<<i, f[i - 1]>>]
          BY <5>1, <2>2
        <5>. HIDE DEF h
        <5>. QED BY <5>2, <5>3
      <4>. QED BY <4>1, <4>2
    <3>. QED BY <3>1
  <2>. HIDE DEF h
  <2>. QED BY <2>6, <2>9
<1>3. n \in s
  <2>. HIDE DEF s
  <2>. QED BY <1>1, <1>2, Induction
<1>. QED BY <1>3 DEF Walks

(* A walk whose steps stay in a set stays there.                           *)
LEMMA WalkStays ==
    ASSUME NEW X, NEW n \in Nat, NEW f, f[0] \in X,
           \A i \in 1..n : f[i - 1] \in X => f[i] \in X
    PROVE  \A i \in 0..n : f[i] \in X
<1> DEFINE s == {k \in Nat : k <= n => f[k] \in X}
<1>1. 0 \in s
  OBVIOUS
<1>2. ASSUME NEW k \in Nat, k \in s PROVE k + 1 \in s
  <2>1. k + 1 <= n => k + 1 \in 1..n /\ (k + 1) - 1 = k /\ k <= n
    OBVIOUS
  <2>. QED BY <1>2, <2>1
<1>3. Nat \subseteq s
  <2>. HIDE DEF s
  <2>. QED BY <1>1, <1>2, Induction
<1>. QED BY <1>3

(* One step of any word motion lands on a position.                        *)
LEMMA WordStepLands ==
    ASSUME NEW doc \in Doc, NEW id \in {"w", "W", "b", "B", "e", "E"},
           NEW X, Lands(doc, X), NEW p \in X
    PROVE  WordStep(doc, id, p) \in X
<1>1. \A big \in BOOLEAN : /\ WordForward(doc, p, big) \in X
                           /\ WordBack(doc, p, big) \in X
                           /\ WordEnd(doc, p, big) \in X
  BY WordForwardLands, WordBackLands, WordEndLands
<1>. QED BY <1>1 DEF WordStep

(* A counted word motion always succeeds, on a position.                   *)
LEMMA WordsLand ==
    ASSUME NEW doc \in Doc, NEW id \in {"w", "W", "b", "B", "e", "E"},
           NEW X, Lands(doc, X), NEW p \in X,
           NEW count \in Nat
    PROVE  Words(doc, id, p, count).ok /\ Words(doc, id, p, count).pos \in X
<1> DEFINE Walk(f) == f = [i \in 0..count |-> IF i = 0 THEN p ELSE WordStep(doc, id, f[i - 1])]
           walk == CHOOSE f : Walk(f)
           g == [m \in (1..count) \X X |-> WordStep(doc, id, m[2])]
<1>1. g \in [(1..count) \X X -> X]
  BY WordStepLands
<1>2. PICK f \in [0..count -> X] :
        \A i \in 0..count : f[i] = IF i = 0 THEN p ELSE g[<<i, f[i - 1]>>]
  <2>. HIDE DEF g
  <2>1. \E f : Walks(f, X, p, count, g)
    BY <1>1, Recursion
  <2>. QED BY <2>1 DEF Walks
<1>3. Walk(f)
  <2>1. ASSUME NEW i \in 0..count
        PROVE  f[i] = IF i = 0 THEN p ELSE WordStep(doc, id, f[i - 1])
    <3>1. CASE i = 0
      BY <1>2, <3>1
    <3>2. CASE i # 0
      <4>1. i - 1 \in 0..count /\ i \in 1..count
        BY <3>2
      <4>2. g[<<i, f[i - 1]>>] = WordStep(doc, id, f[i - 1])
        BY <4>1
      <4>. QED BY <1>2, <3>2, <4>2
    <3>. QED BY <3>1, <3>2
  <2>. QED BY <2>1
<1>4. Walk(walk)
  <2>. HIDE DEF Walk
  <2>. QED BY <1>3
<1>. HIDE DEF walk
<1>5. walk[0] = p /\ \A i \in 1..count : walk[i] = WordStep(doc, id, walk[i - 1])
  BY <1>4
<1>6. walk[count] \in X
  <2>1. \A i \in 1..count : walk[i - 1] \in X => walk[i] \in X
    BY <1>5, WordStepLands
  <2>2. \A i \in 0..count : walk[i] \in X
    BY <1>5, <2>1, WalkStays
  <2>. QED BY <2>2
<1>7. Words(doc, id, p, count) = Landed(walk[count])
  BY DEF Words, walk
<1>. QED BY <1>6, <1>7 DEF Landed
-----------------------------------------------------------------------------
(* A counted paragraph motion that succeeds lands on a position.           *)
LEMMA ParagraphsLand ==
    ASSUME NEW doc \in Doc, NEW id, NEW X, Lands(doc, X), NEW p \in X, NEW count \in Nat \ {0}
    PROVE  /\ Paragraphs(doc, id, p, count).ok \in BOOLEAN
           /\ Paragraphs(doc, id, p, count).ok => Paragraphs(doc, id, p, count).pos \in X
<1> DEFINE Walk(f) == f = [i \in 0..count |-> IF i = 0 THEN p ELSE ParaStep(doc, id, f[i - 1])]
           walk == CHOOSE f : Walk(f)
           g == [m \in (1..count) \X X |-> ParaStep(doc, id, m[2])]
<1>1. \A q \in X : ParaStep(doc, id, q) \in X
  BY ParaStepLands DEF ParaStep
<1>2. g \in [(1..count) \X X -> X]
  BY <1>1
<1>3. PICK f \in [0..count -> X] :
        \A i \in 0..count : f[i] = IF i = 0 THEN p ELSE g[<<i, f[i - 1]>>]
  <2>. HIDE DEF g
  <2>1. \E f : Walks(f, X, p, count, g)
    BY <1>2, Recursion
  <2>. QED BY <2>1 DEF Walks
<1>4. Walk(f)
  <2>1. ASSUME NEW i \in 0..count
        PROVE  f[i] = IF i = 0 THEN p ELSE ParaStep(doc, id, f[i - 1])
    <3>1. CASE i = 0
      BY <1>3, <3>1
    <3>2. CASE i # 0
      <4>1. i - 1 \in 0..count /\ i \in 1..count
        BY <3>2
      <4>2. g[<<i, f[i - 1]>>] = ParaStep(doc, id, f[i - 1])
        BY <4>1
      <4>. QED BY <1>3, <3>2, <4>2
    <3>. QED BY <3>1, <3>2
  <2>. QED BY <2>1
<1>5. Walk(walk)
  <2>. HIDE DEF Walk
  <2>. QED BY <1>4
<1>. HIDE DEF walk
<1>6. walk[0] = p /\ \A i \in 1..count : walk[i] = ParaStep(doc, id, walk[i - 1])
  BY <1>5
<1>7. walk[count] \in X
  <2>1. \A i \in 1..count : walk[i - 1] \in X => walk[i] \in X
    BY <1>1, <1>6
  <2>2. \A i \in 0..count : walk[i] \in X
    BY <1>6, <2>1, WalkStays
  <2>. QED BY <2>2
<1>8. Paragraphs(doc, id, p, count) =
        IF walk[count] = walk[count - 1] THEN Failed ELSE Landed(walk[count])
  BY DEF Paragraphs, walk
<1>. QED BY <1>7, <1>8 DEF Landed, Failed

(* f and t find a character right of the cursor, F and T left of it; t and *)
(* T then stand next to it, still on a character.                          *)
LEMMA FindLands ==
    ASSUME NEW doc \in Doc, NEW id \in {"f", "F", "t", "T"}, NEW ch, NEW p \in Grid(doc), NEW count
    PROVE  /\ Find(doc, id, ch, p, count).ok \in BOOLEAN
           /\ Find(doc, id, ch, p, count).ok =>
                /\ Find(doc, id, ch, p, count).pos \in Grid(doc)
                /\ Find(doc, id, ch, p, count).pos.line = p.line
                /\ p \in Rest(doc) => Find(doc, id, ch, p, count).pos \in Rest(doc)
<1> DEFINE text == LineOf(doc, p.line)
           fwd  == id \in {"f", "t"}
           hits == {k \in 0..(Len(text) - 1) :
                      text[k + 1] = ch /\ (IF fwd THEN k > p.col ELSE k < p.col)}
           nth  == {k \in hits : Cardinality({j \in hits : IF fwd THEN j <= k ELSE j >= k}) = count}
           short == CASE id = "t" -> -1 [] id = "T" -> 1 [] OTHER -> 0
           k == Least(nth)
<1>1. p.line \in 0..LastLine(doc) /\ p.col \in 0..Len(text) /\ p.col \in Nat /\ Len(text) \in Nat
  BY GridIs, DocLines
<1>2. Find(doc, id, ch, p, count) =
        IF nth = {} THEN Failed ELSE Landed(At(p.line, Least(nth) + short))
  BY DEF Find
<1>3. \A n \in nth : n \in 0..(Len(text) - 1) /\ (IF fwd THEN n > p.col ELSE n < p.col)
  OBVIOUS
<1>. HIDE DEF nth
<1>4. nth # {} => k \in nth
  <2>1. nth \subseteq Nat
    BY <1>1, <1>3
  <2>. QED BY <2>1, LeastIs
<1>5. nth # {} => k + short \in 0..Len(text)
  <2>. SUFFICES ASSUME nth # {} PROVE k + short \in 0..Len(text)
    OBVIOUS
  <2>1. k \in 0..(Len(text) - 1) /\ (IF fwd THEN k > p.col ELSE k < p.col)
    BY <1>3, <1>4
  <2>2. short = IF id = "t" THEN -1 ELSE IF id = "T" THEN 1 ELSE 0
    OBVIOUS
  <2>. HIDE DEF k, short
  <2>3. CASE id = "t"
    BY <1>1, <2>1, <2>2, <2>3
  <2>4. CASE id # "t"
    BY <1>1, <2>1, <2>2, <2>4
  <2>. QED BY <2>3, <2>4
<1>6. nth # {} /\ p.col < Len(text) => k + short < Len(text)
  <2>. SUFFICES ASSUME nth # {}, p.col < Len(text) PROVE k + short < Len(text)
    OBVIOUS
  <2>1. k \in 0..(Len(text) - 1) /\ (IF fwd THEN k > p.col ELSE k < p.col)
    BY <1>3, <1>4
  <2>2. short = IF id = "t" THEN -1 ELSE IF id = "T" THEN 1 ELSE 0
    OBVIOUS
  <2>. HIDE DEF k, short
  <2>. QED BY <1>1, <2>1, <2>2
<1>7. nth # {} /\ p \in Rest(doc) => p.col < Len(text)
  <2>1. nth # {} => Len(text) # 0
    BY <1>1, <1>3, <1>4
  <2>. QED BY <1>1, <2>1 DEF Rest, LastCol
<1>. HIDE DEF k, short, text
<1>8. /\ At(p.line, k + short).line = p.line /\ At(p.line, k + short).col = k + short
      /\ nth # {} => At(p.line, k + short) \in Grid(doc)
  BY <1>1, <1>5, GridIs DEF text, At
<1>9. nth # {} /\ p \in Rest(doc) => At(p.line, k + short) \in Rest(doc)
  <2>1. nth # {} /\ p \in Rest(doc) => At(p.line, k + short) \in Cells(doc)
    BY <1>6, <1>7, <1>8, CellsAre DEF text
  <2>. QED BY <2>1, LandsAre DEF Lands
<1>. QED BY <1>2, <1>8, <1>9 DEF Landed, Failed, k

(* % lands on a bracket, or fails.                                         *)
LEMMA MatchLands ==
    ASSUME NEW doc \in Doc, NEW X, Lands(doc, X), NEW p \in X
    PROVE  /\ MatchBracket(doc, p).ok \in BOOLEAN
           /\ MatchBracket(doc, p).ok => MatchBracket(doc, p).pos \in X
<1> DEFINE here  == {q \in Cells(doc) : /\ q.line = p.line /\ q.col >= p.col
                                     /\ CharAt(doc, q) \in Openers \cup Closers}
           at    == Nearest(here)
           kind  == CharAt(doc, at)
           span(q) == {r \in Cells(doc) : IF kind \in Openers
                                         THEN ~Before(r, at) /\ ~Before(q, r)
                                         ELSE ~Before(at, r) /\ ~Before(r, q)}
           of(ch, q) == Cardinality({r \in span(q) : CharAt(doc, r) = ch})
           ends  == {q \in Cells(doc) : /\ CharAt(doc, q) = Partner(kind)
                                     /\ q \in span(q)
                                     /\ of(kind, q) = of(Partner(kind), q)}
<1>1. ends \subseteq X /\ ends \subseteq Pos /\ ends \subseteq Grid(doc)
  BY StopsLand
<1>2. MatchBracket(doc, p) = IF here = {} \/ ends = {} THEN Failed
                             ELSE Landed(IF kind \in Openers THEN Nearest(ends) ELSE Farthest(ends))
  BY DEF MatchBracket
<1>. HIDE DEF ends, here, kind
<1>3. ends # {} => Nearest(ends) \in X /\ Farthest(ends) \in X
  BY <1>1, NearestIs, FarthestIs
<1>. QED BY <1>2, <1>3 DEF Landed, Failed

(* A count and % land on a line of the document.                           *)
LEMMA PercentLands ==
    ASSUME NEW doc \in Doc, NEW X, Lands(doc, X), NEW p \in X, NEW count \in Nat
    PROVE  /\ PercentLine(doc, p, count).ok \in BOOLEAN
           /\ PercentLine(doc, p, count).ok => PercentLine(doc, p, count).pos \in X
<1> DEFINE share  == (Len(doc) * count + 99) \div 100
           target == IF share < 1 THEN 0 ELSE Lesser(share, Len(doc)) - 1
<1>0. p \in Grid(doc)
  BY StopsLand
<1>1. Len(doc) \in Nat \ {0} /\ LastLine(doc) = Len(doc) - 1 /\ p.col \in Nat
  BY <1>0, DocLines, GridIs DEF LastLine
<1>2. share \in Int
  <2>1. Len(doc) * count \in Int
    BY <1>1
  <2>. HIDE DEF share
  <2>2. \A x \in Int : (x + 99) \div 100 \in Int
    OBVIOUS
  <2>. QED BY <2>1, <2>2 DEF share
<1>3. PercentLine(doc, p, count) =
        IF count > 100 THEN Failed
        ELSE IF target = p.line THEN Landed(p)
        ELSE Landed(OnChar(doc, At(target, p.col)))
  BY DEF PercentLine
<1>. HIDE DEF share
<1>4. target \in 0..LastLine(doc)
  BY <1>1, <1>2 DEF Lesser
<1>. HIDE DEF target
<1>5. OnChar(doc, At(target, p.col)) \in X
  BY <1>1, <1>4 DEF Lands
<1>. QED BY <1>3, <1>5 DEF Landed, Failed

(* ^ lands on a position of the line.                                      *)
LEMMA FirstNonBlankLands ==
    ASSUME NEW doc \in Doc, NEW X, Lands(doc, X), NEW p \in X
    PROVE  FirstNonBlank(doc, p).ok /\ FirstNonBlank(doc, p).pos \in X
<1> DEFINE text == LineOf(doc, p.line)
           cols == {k \in 0..(Len(text) - 1) : text[k + 1] \notin Whitespace}
<1>0. p \in Grid(doc)
  BY StopsLand
<1>1. p.line \in 0..LastLine(doc) /\ Len(text) \in Nat /\ text \in Seq(Char)
  BY <1>0, GridIs, DocLines
<1>2. FirstNonBlank(doc, p) = Landed(At(p.line, IF cols = {} THEN LastCol(text) ELSE Least(cols)))
  BY DEF FirstNonBlank
<1>3. LastCol(text) \in Nat
  BY <1>1, EmptySeq DEF LastCol
<1>4. cols \subseteq Nat /\ \A k \in cols : k \in 0..Len(text) /\ k < Len(text)
  BY <1>1
<1>5. At(p.line, LastCol(text)) \in X
  <2>1. OnChar(doc, At(p.line, LastCol(text))) = At(p.line, LastCol(text))
    BY <1>3 DEF OnChar, At, Lesser
  <2>. QED BY <1>1, <1>3, <2>1 DEF Lands
<1>. HIDE DEF cols
<1>6. cols # {} => At(p.line, Least(cols)) \in X
  <2>. SUFFICES ASSUME cols # {} PROVE At(p.line, Least(cols)) \in X
    OBVIOUS
  <2>1. Least(cols) \in 0..Len(text) /\ Least(cols) < Len(text)
    BY <1>4, LeastIs
  <2>2. At(p.line, Least(cols)) \in Grid(doc)
    BY <1>1, <2>1, GridIs
  <2>3. At(p.line, Least(cols)).line = p.line /\ At(p.line, Least(cols)).col = Least(cols)
    BY DEF At
  <2>4. At(p.line, Least(cols)) \in Cells(doc)
    BY <2>1, <2>2, <2>3, CellsAre
  <2>. QED BY <2>4, StopsLand
<1>. HIDE DEF text
<1>. QED BY <1>2, <1>5, <1>6 DEF Landed

MotionNames == {"h", "l", "j", "k", "0", "$", "^", "w", "W", "b", "B", "e", "E", "{", "}",
                "gg", "G", "%", "n%"}

(* The motions that go to a line, to their aim or to their own column.     *)
LEMMA LineMotionsStay ==
    ASSUME NEW doc \in Doc, NEW id \in {"h", "l", "j", "k", "0", "$", "gg", "G"},
           NEW X, Lands(doc, X), NEW p \in X, NEW count \in Nat \ {0}, NEW aim \in Nat
    PROVE  LET r == Motion(doc, id, p, count, aim) IN
           r.ok /\ r.pos \in X
<1>0. p \in Grid(doc)
  BY StopsLand
<1>1. /\ p.line \in 0..LastLine(doc) /\ p.col \in Nat /\ p.line \in Nat /\ LastLine(doc) \in Nat
      /\ Len(LineOf(doc, p.line)) \in Nat /\ KMaxCol \in Nat
  BY <1>0, GridIs, DocLines DEF KMaxCol
<1>2. \A l \in 0..LastLine(doc), c \in Nat : OnChar(doc, At(l, c)) \in X
  BY DEF Lands
<1>3. CASE id \in {"h", "l"}
  <2>1. p.col - Lesser(p.col, count) \in Nat /\ p.col + count \in Nat
    BY <1>1 DEF Lesser
  <2>. QED BY <1>1, <1>2, <1>3, <2>1 DEF Motion, Left, Right, Landed
<1>4. CASE id \in {"j", "k"}
  <2>1. /\ Lesser(p.line + count, LastLine(doc)) \in 0..LastLine(doc)
        /\ p.line - Lesser(p.line, count) \in 0..LastLine(doc)
    BY <1>1 DEF Lesser
  <2>. QED BY <1>1, <1>2, <1>4, <2>1 DEF Motion, Down, Up, Vertical, Landed
<1>5. CASE id = "0"
  <2>1. At(p.line, 0) \in X
    BY <1>1 DEF Lands
  <2>. QED BY <1>5, <2>1 DEF Motion, Landed
<1>6. CASE id = "$"
  <2>1. Lesser(p.line + count - 1, LastLine(doc)) \in 0..LastLine(doc)
    BY <1>1 DEF Lesser
  <2>. QED BY <1>1, <1>2, <1>6, <2>1 DEF Motion, Dollar, Landed
<1>7. CASE id \in {"gg", "G"}
  <2> DEFINE target == IF count > 1 THEN Lesser(count - 1, LastLine(doc))
                       ELSE IF id = "G" THEN LastLine(doc) ELSE 0
  <2>1. target \in 0..LastLine(doc)
    BY <1>1 DEF Lesser
  <2>2. Motion(doc, id, p, count, aim) = Landed(OnChar(doc, At(target, aim)))
    BY <1>7 DEF Motion, GotoLine
  <2>. HIDE DEF target
  <2>. QED BY <1>2, <2>1, <2>2 DEF Landed
<1>. QED BY <1>3, <1>4, <1>5, <1>6, <1>7

(* Every motion that succeeds stays in such a set.                         *)
LEMMA MotionStays ==
    ASSUME NEW doc \in Doc, NEW id \in MotionNames, NEW X, Lands(doc, X), NEW p \in X,
           NEW count \in Nat \ {0}, NEW aim \in Nat
    PROVE  /\ Motion(doc, id, p, count, aim).ok \in BOOLEAN
           /\ Motion(doc, id, p, count, aim).ok => Motion(doc, id, p, count, aim).pos \in X
<1>1. CASE id \in {"h", "l", "j", "k", "0", "$", "gg", "G"}
  BY <1>1, LineMotionsStay
<1>2. CASE id = "^"
  <2>1. Motion(doc, id, p, count, aim) = FirstNonBlank(doc, p)
    BY <1>2 DEF Motion
  <2>. QED BY <2>1, FirstNonBlankLands
<1>3. CASE id \in {"w", "W", "b", "B", "e", "E"}
  <2>1. Motion(doc, id, p, count, aim) = Words(doc, id, p, count)
    BY <1>3 DEF Motion
  <2>2. Words(doc, id, p, count).ok /\ Words(doc, id, p, count).pos \in X
    BY <1>3, WordsLand
  <2>. QED BY <2>1, <2>2
<1>4. CASE id \in {"{", "}"}
  <2>1. Motion(doc, id, p, count, aim) = Paragraphs(doc, id, p, count)
    BY <1>4 DEF Motion
  <2>. QED BY <2>1, ParagraphsLand
<1>5. CASE id = "%"
  <2>1. Motion(doc, id, p, count, aim) = MatchBracket(doc, p)
    BY <1>5 DEF Motion
  <2>. QED BY <2>1, MatchLands
<1>6. CASE id = "n%"
  <2>1. Motion(doc, id, p, count, aim) = PercentLine(doc, p, count)
    BY <1>6 DEF Motion
  <2>2. count \in Nat
    OBVIOUS
  <2>. QED BY <2>1, <2>2, PercentLands
<1>. QED BY <1>1, <1>2, <1>3, <1>4, <1>5, <1>6 DEF MotionNames

(* Every motion that succeeds lands on a position of the document, from    *)
(* every position of it, and rests on a character if it came from one      *)
(* (core/motion.cpp).                                                      *)
LEMMA MotionLands ==
    ASSUME NEW doc \in Doc, NEW id \in MotionNames, NEW p \in Grid(doc), NEW count \in Nat \ {0},
           NEW aim \in Nat
    PROVE  /\ Motion(doc, id, p, count, aim).ok \in BOOLEAN
           /\ Motion(doc, id, p, count, aim).ok =>
                /\ Motion(doc, id, p, count, aim).pos \in Grid(doc)
                /\ p \in Rest(doc) => Motion(doc, id, p, count, aim).pos \in Rest(doc)
<1>1. Lands(doc, Grid(doc)) /\ Lands(doc, Rest(doc))
  BY LandsAre
<1>2. /\ Motion(doc, id, p, count, aim).ok \in BOOLEAN
      /\ Motion(doc, id, p, count, aim).ok => Motion(doc, id, p, count, aim).pos \in Grid(doc)
  BY <1>1, MotionStays
<1>3. p \in Rest(doc) /\ Motion(doc, id, p, count, aim).ok
        => Motion(doc, id, p, count, aim).pos \in Rest(doc)
  BY <1>1, MotionStays
<1>. QED BY <1>2, <1>3
-----------------------------------------------------------------------------
(***************************************************************************)
(* Every text object is a range of the document, and every edit that an    *)
(* operator composes is one of its characters or of its lines.             *)
(***************************************************************************)
(* What a text object that is there covers.                                *)
RangeOf(doc, r) ==
    IF r.linewise
      THEN \E f \in 0..LastLine(doc) : \E beyond \in (f + 1)..Len(doc) :
               r.start = At(f, 0) /\ r.end = At(beyond, 0)
    ELSE /\ r.start \in Grid(doc) /\ r.end \in Grid(doc)
         /\ r.start = r.end \/ Before(r.start, r.end)
ObjectOf(doc, r) == r.ok \in BOOLEAN /\ r.linewise \in BOOLEAN /\ (r.ok => RangeOf(doc, r))

(* The object that is not there.                                           *)
LEMMA NoObjectIs == ASSUME NEW doc PROVE ObjectOf(doc, NoObject)
  BY DEF ObjectOf, NoObject

(* An object from one position to a later one.                             *)
LEMMA FoundIs ==
    ASSUME NEW doc, NEW s \in Grid(doc), NEW e \in Grid(doc), s = e \/ Before(s, e)
    PROVE  ObjectOf(doc, Found(s, e))
  BY DEF ObjectOf, Found, RangeOf

(* An object of whole lines.                                               *)
LEMMA FoundLinesIs ==
    ASSUME NEW doc, NEW f \in 0..LastLine(doc), NEW beyond \in (f + 1)..Len(doc)
    PROVE  ObjectOf(doc, FoundLines(f, beyond))
  BY DEF ObjectOf, FoundLines, RangeOf

(* White and dark runs around a column.                                    *)
LEMMA WhiteRuns ==
    ASSUME NEW text \in Seq(Char), NEW col \in 0..Len(text)
    PROVE  /\ WhiteEnd(text, col) \in col..Len(text)
           /\ DarkEnd(text, col) \in col..Len(text)
           /\ WhiteStart(text, col) \in 0..col
<1>1. Len(text) \in Nat /\ col \in Nat
  BY LenProperties
<1>2. ASSUME NEW s, s \subseteq col..Len(text), col \in s
      PROVE  Greatest(s) \in col..Len(text)
  <2>1. s \subseteq 0..Len(text) /\ s # {}
    BY <1>1, <1>2
  <2>2. Greatest(s) \in s
    BY <1>1, <2>1, GreatestIs
  <2>. QED BY <1>2, <2>2
<1>3. /\ col \in col..Len(text) /\ col \in 0..col
      /\ \A j \in col..(col - 1) : FALSE
  BY <1>1
<1>4. WhiteEnd(text, col) \in col..Len(text)
  <2> DEFINE s == {k \in col..Len(text) : \A j \in col..(k - 1) : text[j + 1] \in Whitespace}
  <2>1. s \subseteq col..Len(text) /\ col \in s
    BY <1>3
  <2>. HIDE DEF s
  <2>2. Greatest(s) \in col..Len(text)
    BY <1>2, <2>1
  <2>. QED BY <2>2 DEF WhiteEnd, s
<1>5. DarkEnd(text, col) \in col..Len(text)
  <2> DEFINE s == {k \in col..Len(text) : \A j \in col..(k - 1) : text[j + 1] \notin Whitespace}
  <2>1. s \subseteq col..Len(text) /\ col \in s
    BY <1>3
  <2>. HIDE DEF s
  <2>2. Greatest(s) \in col..Len(text)
    BY <1>2, <2>1
  <2>. QED BY <2>2 DEF DarkEnd, s
<1>6. WhiteStart(text, col) \in 0..col
  <2> DEFINE s == {k \in 0..col : \A j \in k..(col - 1) : text[j + 1] \in Whitespace}
  <2>1. s \subseteq Nat /\ col \in s /\ s \subseteq 0..col
    BY <1>1, <1>3
  <2>. HIDE DEF s
  <2>2. Least(s) \in s
    BY <2>1, LeastIs
  <2>. QED BY <2>1, <2>2 DEF WhiteStart, s
<1>. QED BY <1>4, <1>5, <1>6

(* iw, aw, iW and aW.                                                      *)
LEMMA WordObjectIs ==
    ASSUME NEW doc \in Doc, NEW p \in Grid(doc), NEW around \in BOOLEAN
    PROVE  ObjectOf(doc, WordObject(doc, p, around))
<1> DEFINE text  == LineOf(doc, p.line)
           col   == Lesser(p.col, LastCol(text))
           start == RunStart(FALSE, text, col)
           end   == RunEnd(FALSE, text, col)
           white == Class(text[col + 1]) = "Whitespace"
           after == IF white THEN DarkEnd(text, end) ELSE WhiteEnd(text, end)
           range(s, e) == Found(At(p.line, s), At(p.line, e))
<1>1. WordObject(doc, p, around) =
        IF text = <<>> THEN NoObject
        ELSE IF ~around THEN range(start, end)
        ELSE IF after > end THEN range(start, after)
        ELSE IF white THEN NoObject
        ELSE range(WhiteStart(text, start), end)
  BY DEF WordObject
<1>2. CASE text = <<>>
  BY <1>1, <1>2, NoObjectIs
<1>3. CASE text # <<>>
  <2>1. /\ p.line \in 0..LastLine(doc) /\ p.col \in Nat
        /\ text \in Seq(Char) /\ Len(text) \in Nat \ {0}
    BY <1>3, GridIs, DocLines, EmptySeq
  <2>2. col \in 0..(Len(text) - 1)
    BY <1>3, <2>1 DEF Lesser, LastCol
  <2>3. start \in 0..col /\ end \in (col + 1)..Len(text)
    BY <2>1, <2>2, RunIs
  <2>. HIDE DEF col, start, end
  <2>4. start \in 0..Len(text) /\ end \in 0..Len(text) /\ start < end
    BY <2>1, <2>2, <2>3
  <2>5. after \in end..Len(text) /\ WhiteStart(text, start) \in 0..start
    BY <2>1, <2>4, WhiteRuns
  <2>. HIDE DEF after, white
  <2>6. after \in 0..Len(text) /\ WhiteStart(text, start) \in 0..Len(text)
        /\ start < after /\ WhiteStart(text, start) < end
    BY <2>1, <2>4, <2>5
  <2>7. ASSUME NEW s \in 0..Len(text), NEW e \in 0..Len(text), s < e
        PROVE  ObjectOf(doc, range(s, e))
    <3>1. /\ At(p.line, s) \in Grid(doc) /\ At(p.line, e) \in Grid(doc)
          /\ Before(At(p.line, s), At(p.line, e))
      BY <2>1, <2>7, GridIs DEF Before
    <3>. QED BY <3>1, FoundIs
  <2>. HIDE DEF range, text
  <2>. QED BY <1>1, <1>3, <2>4, <2>6, <2>7, NoObjectIs
<1>. QED BY <1>2, <1>3

(* ip and ap.                                                              *)
LEMMA ParaObjectIs ==
    ASSUME NEW doc \in Doc, NEW p \in Grid(doc), NEW around \in BOOLEAN
    PROVE  ObjectOf(doc, ParaObject(doc, p, around))
<1> DEFINE alike(f, g, blank) == \A m \in f..g : BlankLine(doc, m) = blank
           here   == BlankLine(doc, p.line)
           firsts == {m \in 0..p.line : alike(m, p.line, here)}
           first  == Least(firsts)
           lasts  == {m \in p.line..LastLine(doc) : alike(p.line, m, here)}
           last   == Greatest(lasts)
           afters == {m \in last..LastLine(doc) : alike(last + 1, m, TRUE)}
           after  == Greatest(afters)
           befores == {m \in 0..first : alike(m, first - 1, TRUE)}
           before == Least(befores)
<1>1. ParaObject(doc, p, around) =
        IF ~around THEN FoundLines(first, last + 1)
        ELSE IF after > last THEN FoundLines(first, after + 1)
        ELSE FoundLines(before, last + 1)
  BY DEF ParaObject
<1>2. /\ p.line \in 0..LastLine(doc) /\ p.line \in Nat /\ LastLine(doc) \in Nat
      /\ Len(doc) = LastLine(doc) + 1
  BY GridIs, DocLines
<1>3. first \in 0..p.line
  <2>1. \A m \in p.line..p.line : m = p.line
    BY <1>2
  <2>2. p.line \in firsts /\ firsts \subseteq Nat /\ firsts \subseteq 0..p.line
    BY <1>2, <2>1
  <2>. HIDE DEF firsts
  <2>3. first \in firsts
    BY <2>2, LeastIs
  <2>. QED BY <2>2, <2>3
<1>4. last \in p.line..LastLine(doc)
  <2>1. \A m \in p.line..p.line : m = p.line
    BY <1>2
  <2>2. p.line \in lasts /\ lasts \subseteq 0..LastLine(doc) /\ lasts \subseteq p.line..LastLine(doc)
    BY <1>2, <2>1
  <2>. HIDE DEF lasts
  <2>3. last \in lasts
    BY <1>2, <2>2, GreatestIs
  <2>. QED BY <2>2, <2>3
<1>. HIDE DEF first, last
<1>5. after \in last..LastLine(doc)
  <2>1. last \in last..LastLine(doc) /\ \A m \in (last + 1)..last : FALSE
    BY <1>2, <1>4
  <2>2. last \in afters
    BY <2>1
  <2>3. afters \subseteq 0..LastLine(doc) /\ afters \subseteq last..LastLine(doc)
    BY <1>2, <1>4
  <2>. HIDE DEF afters
  <2>4. after \in afters
    BY <1>2, <2>2, <2>3, GreatestIs
  <2>. QED BY <2>3, <2>4
<1>6. before \in 0..first
  <2>1. first \in 0..first /\ \A m \in first..(first - 1) : FALSE
    BY <1>2, <1>3
  <2>2. first \in befores
    BY <2>1
  <2>3. befores \subseteq Nat /\ befores \subseteq 0..first
    BY <1>2, <1>3
  <2>. HIDE DEF befores
  <2>4. before \in befores
    BY <2>2, <2>3, LeastIs
  <2>. QED BY <2>3, <2>4
<1>. HIDE DEF after, before
<1>7. /\ first \in 0..LastLine(doc) /\ last + 1 \in (first + 1)..Len(doc)
      /\ after + 1 \in (first + 1)..Len(doc)
      /\ before \in 0..LastLine(doc) /\ last + 1 \in (before + 1)..Len(doc)
  BY <1>2, <1>3, <1>4, <1>5, <1>6
<1>8. /\ ObjectOf(doc, FoundLines(first, last + 1))
      /\ ObjectOf(doc, FoundLines(first, after + 1))
      /\ ObjectOf(doc, FoundLines(before, last + 1))
  BY <1>7, FoundLinesIs
<1>. QED BY <1>1, <1>8

(* A pair of delimiters, one after the other, in the document.             *)
LEMMA DelimitedIs ==
    ASSUME NEW doc \in Doc, NEW o \in Cells(doc), NEW c \in Cells(doc), Before(o, c),
           NEW around \in BOOLEAN
    PROVE  ObjectOf(doc, Delimited(doc, o, c, around))
<1>1. /\ o \in Grid(doc) /\ c \in Grid(doc)
      /\ o.line \in 0..LastLine(doc) /\ c.line \in 0..LastLine(doc)
      /\ o.col \in Nat /\ c.col \in Nat /\ o.line \in Nat /\ c.line \in Nat
      /\ o.col < Len(LineOf(doc, o.line)) /\ c.col < Len(LineOf(doc, c.line))
      /\ o = At(o.line, o.col) /\ c = At(c.line, c.col)
  BY CellsAre, GridIs
<1>2. /\ LineOf(doc, c.line) \in Seq(Char)
      /\ Len(LineOf(doc, c.line)) \in Nat /\ Len(LineOf(doc, o.line)) \in Nat
  BY <1>1, DocLines
<1>3. c.col + 1 \in 0..Len(LineOf(doc, c.line)) /\ o.col + 1 \in 0..Len(LineOf(doc, o.line))
  BY <1>1, <1>2
<1>4. CASE around
  <2> DEFINE e == WhiteEnd(LineOf(doc, c.line), c.col + 1)
  <2>1. e \in (c.col + 1)..Len(LineOf(doc, c.line))
    BY <1>2, <1>3, WhiteRuns
  <2>2. Delimited(doc, o, c, around) = Found(o, At(c.line, e))
    BY <1>4 DEF Delimited, Around, At
  <2>. HIDE DEF e
  <2>3. e \in 0..Len(LineOf(doc, c.line)) /\ c.col < e
    BY <1>1, <1>2, <2>1
  <2>4. At(c.line, e) \in Grid(doc) /\ At(c.line, e).line = c.line /\ At(c.line, e).col = e
    BY <1>1, <2>3, GridIs
  <2>5. Before(o, At(c.line, e))
    BY <1>1, <2>3, <2>4 DEF Before
  <2>. QED BY <1>1, <2>2, <2>4, <2>5, FoundIs
<1>5. CASE ~around
  <2> DEFINE s == At(o.line, o.col + 1)
  <2>1. s \in Grid(doc) /\ s.line = o.line /\ s.col = o.col + 1
    BY <1>1, <1>3, GridIs
  <2>2. Delimited(doc, o, c, around) = Found(s, c)
    BY <1>5 DEF Delimited
  <2>. HIDE DEF s
  <2>3. s = c \/ Before(s, c)
    <3>1. CASE o.line = c.line /\ o.col + 1 = c.col
      <4>1. s = At(s.line, s.col)
        BY <2>1, GridIs
      <4>. QED BY <1>1, <2>1, <3>1, <4>1
    <3>2. CASE ~(o.line = c.line /\ o.col + 1 = c.col)
      BY <1>1, <2>1, <3>2 DEF Before
    <3>. QED BY <3>1, <3>2
  <2>. QED BY <1>1, <2>1, <2>2, <2>3, FoundIs
<1>. QED BY <1>4, <1>5

(* The quoted objects.                                                     *)
LEMMA QuoteObjectIs ==
    ASSUME NEW doc \in Doc, NEW p \in Grid(doc), NEW quote, NEW around \in BOOLEAN
    PROVE  ObjectOf(doc, QuoteObject(doc, p, quote, around))
<1> DEFINE text  == LineOf(doc, p.line)
           col   == Lesser(p.col, LastCol(text))
           marks == {k \in 0..(Len(text) - 1) : text[k + 1] = quote}
           odd   == {k \in marks : Cardinality({j \in marks : j <= k}) % 2 = 1}
           next(k) == {j \in marks : j > k}
           opens == {k \in odd : next(k) # {}}
           close(k) == Least(next(k))
           held  == {k \in opens : k <= col /\ col <= close(k)}
           later == {k \in opens : k > col}
           open  == IF held # {} THEN Least(held) ELSE Least(later)
<1>1. QuoteObject(doc, p, quote, around) =
        IF held \cup later = {} THEN NoObject
        ELSE Delimited(doc, At(p.line, open), At(p.line, close(open)), around)
  BY DEF QuoteObject
<1>2. p.line \in 0..LastLine(doc) /\ Len(text) \in Nat
  BY GridIs, DocLines
<1>3. marks \subseteq 0..(Len(text) - 1) /\ marks \subseteq Nat
  BY <1>2
<1>4. opens \subseteq marks /\ \A k \in opens : next(k) # {} /\ next(k) \subseteq marks
  OBVIOUS
<1>5. \A k \in opens : \A j \in next(k) : j > k
  OBVIOUS
<1>6. held \subseteq opens /\ later \subseteq opens
  OBVIOUS
<1>. HIDE DEF marks, opens, next, held, later
<1>7. held \cup later # {} => open \in opens
  BY <1>3, <1>4, <1>6, LeastIs
<1>8. \A k \in opens : close(k) \in next(k)
  <2>1. \A k \in opens : next(k) # {} /\ next(k) \subseteq Nat
    BY <1>3, <1>4
  <2>. QED BY <2>1, LeastIs
<1>. HIDE DEF open, close
<1>9. CASE held \cup later = {}
  BY <1>1, <1>9, NoObjectIs
<1>10. CASE held \cup later # {}
  <2>1. /\ open \in 0..(Len(text) - 1) /\ close(open) \in 0..(Len(text) - 1)
        /\ open < close(open)
    BY <1>3, <1>4, <1>5, <1>7, <1>8, <1>10
  <2>2. \A k \in 0..(Len(text) - 1) : k \in 0..Len(text) /\ k < Len(text)
    BY <1>2
  <2>3. \A k \in 0..(Len(text) - 1) : At(p.line, k) \in Cells(doc) /\ At(p.line, k).line = p.line
                                      /\ At(p.line, k).col = k
    BY <1>2, <2>2, GridIs, CellsAre
  <2>4. Before(At(p.line, open), At(p.line, close(open)))
    BY <2>1, <2>3 DEF Before
  <2>. QED BY <1>1, <1>10, <2>1, <2>3, <2>4, DelimitedIs
<1>. QED BY <1>9, <1>10
-----------------------------------------------------------------------------
(* The nearest of one position.                                            *)
LEMMA NearestOne ==
    ASSUME NEW p \in Pos
    PROVE  Nearest({p}) = p
<1>1. {p} \subseteq Pos /\ {p} # {}
  OBVIOUS
<1>2. Nearest({p}) \in {p}
  BY <1>1, NearestIs
<1>. QED BY <1>2

(* The character that a bracket object is looked for from.                 *)
LEMMA CursorCellIs ==
    ASSUME NEW doc \in Doc, NEW p, Cells(doc) # {}
    PROVE  CursorCell(doc, p) \in Cells(doc)
<1> DEFINE left == {q \in Cells(doc) : q.line = p.line /\ q.col <= p.col}
<1>1. CursorCell(doc, p) = IF left = {} THEN Nearest(Cells(doc)) ELSE Farthest(left)
  BY DEF CursorCell
<1>2. Cells(doc) \subseteq Grid(doc) /\ Cells(doc) \subseteq Pos /\ left \subseteq Cells(doc)
  BY StopsAre
<1>. HIDE DEF left
<1>3. Nearest(Cells(doc)) \in Cells(doc)
  BY <1>2, NearestIs
<1>4. left # {} => Farthest(left) \in left
  BY <1>2, FarthestIs
<1>. QED BY <1>1, <1>2, <1>3, <1>4

(* The objects between brackets: the brackets they take are characters of  *)
(* the document, the opening one first.                                    *)
LEMMA BracketObjectIs ==
    ASSUME NEW doc \in Doc, NEW p, NEW open, NEW close, open # close, NEW around \in BOOLEAN
    PROVE  ObjectOf(doc, BracketObject(doc, p, open, close, around))
<1> DEFINE cells  == Cells(doc)
           cur    == CursorCell(doc, p)
           num(ch, s, e) == Cardinality({q \in cells : /\ CharAt(doc, q) = ch
                                                     /\ Before(s, q) /\ Before(q, e)})
           pairs(s, e) == num(open, s, e) = num(close, s, e)
           opens  == {o \in cells : CharAt(doc, o) = open}
           closes == {c \in cells : CharAt(doc, c) = close}
           closing(o) == {c \in closes : Before(o, c) /\ pairs(o, c)}
           opening(c) == {o \in opens : Before(o, c) /\ pairs(o, c)}
           outer  == {o \in opens : Before(o, cur) /\ pairs(o, cur)}
           os     == IF CharAt(doc, cur) = open THEN {cur}
                     ELSE IF CharAt(doc, cur) = close
                       THEN IF opening(cur) = {} THEN {} ELSE {Farthest(opening(cur))}
                     ELSE IF outer = {} THEN {} ELSE {Farthest(outer)}
           cs     == IF CharAt(doc, cur) = close THEN {cur}
                     ELSE UNION {IF closing(q) = {} THEN {} ELSE {Nearest(closing(q))} : q \in os}
<1>1. BracketObject(doc, p, open, close, around) =
        IF cells = {} \/ os = {} \/ cs = {} THEN NoObject
        ELSE Delimited(doc, Nearest(os), Nearest(cs), around)
  BY DEF BracketObject
<1>2. CASE cells = {} \/ os = {} \/ cs = {}
  BY <1>1, <1>2, NoObjectIs
<1>3. CASE ~(cells = {} \/ os = {} \/ cs = {})
  <2>1. cells \subseteq Grid(doc) /\ cells \subseteq Pos /\ cur \in cells
    BY <1>3, StopsAre, CursorCellIs
  <2>2. ASSUME NEW q
        PROVE  /\ opening(q) # {} => /\ Farthest(opening(q)) \in cells
                                     /\ Before(Farthest(opening(q)), q)
               /\ closing(q) # {} => /\ Nearest(closing(q)) \in cells
                                     /\ Before(q, Nearest(closing(q)))
    <3>1. /\ opening(q) \subseteq cells /\ closing(q) \subseteq cells
          /\ \A o \in opening(q) : Before(o, q)
          /\ \A c \in closing(q) : Before(q, c)
      OBVIOUS
    <3>. HIDE DEF opening, closing, cells
    <3>2. opening(q) # {} => Farthest(opening(q)) \in opening(q)
      BY <2>1, <3>1, FarthestIs
    <3>3. closing(q) # {} => Nearest(closing(q)) \in closing(q)
      BY <2>1, <3>1, NearestIs
    <3>. QED BY <3>1, <3>2, <3>3
  <2>3. outer = opening(cur)
    OBVIOUS
  <2>. HIDE DEF opening, closing, outer, cells, cur
  <2>4. CASE CharAt(doc, cur) = close
    <3>1. opening(cur) # {} /\ os = {Farthest(opening(cur))} /\ cs = {cur}
      BY <1>3, <2>4
    <3>. HIDE DEF os, cs
    <3>2. Nearest(os) = Farthest(opening(cur)) /\ Nearest(cs) = cur
      BY <2>1, <2>2, <3>1, NearestOne
    <3>3. Nearest(os) \in Cells(doc) /\ Nearest(cs) \in Cells(doc) /\ Before(Nearest(os), Nearest(cs))
      BY <2>1, <2>2, <3>1, <3>2 DEF cells
    <3>. QED BY <1>1, <1>3, <3>3, DelimitedIs
  <2>5. CASE CharAt(doc, cur) # close
    <3>1. PICK o \in cells : os = {o}
      <4>1. CASE CharAt(doc, cur) = open
        BY <2>1, <4>1
      <4>2. CASE CharAt(doc, cur) # open
        <5>1. outer # {} /\ os = {Farthest(outer)}
          BY <1>3, <2>5, <4>2
        <5>. HIDE DEF os
        <5>. QED BY <2>2, <2>3, <5>1
      <4>. QED BY <4>1, <4>2
    <3>2. closing(o) # {} /\ cs = {Nearest(closing(o))}
      <4>1. cs = UNION {IF closing(q) = {} THEN {} ELSE {Nearest(closing(q))} : q \in os}
        BY <2>5
      <4>2. cs # {}
        BY <1>3
      <4>. HIDE DEF os, cs
      <4>. QED BY <3>1, <4>1, <4>2
    <3>. HIDE DEF os, cs
    <3>3. Nearest(os) = o /\ Nearest(cs) = Nearest(closing(o))
      BY <2>1, <2>2, <3>1, <3>2, NearestOne
    <3>4. Nearest(os) \in Cells(doc) /\ Nearest(cs) \in Cells(doc) /\ Before(Nearest(os), Nearest(cs))
      BY <2>2, <3>1, <3>2, <3>3 DEF cells
    <3>. QED BY <1>1, <1>3, <3>4, DelimitedIs
  <2>. QED BY <2>4, <2>5
<1>. QED BY <1>2, <1>3

(* Every text object, with its brackets or without.                        *)
LEMMA TextObjectIs ==
    ASSUME NEW doc \in Doc, NEW p \in Grid(doc), NEW prefix \in {"i", "a"}, NEW key \in ObjectKeys
    PROVE  ObjectOf(doc, TextObject(doc, p, prefix, key))
<1> DEFINE around == prefix = "a"
<1>1. around \in BOOLEAN
  OBVIOUS
<1>2. CASE key = "w"
  <2>1. TextObject(doc, p, prefix, key) = WordObject(doc, p, around)
    BY <1>2 DEF TextObject, Openers
  <2>. HIDE DEF around
  <2>. QED BY <1>1, <2>1, WordObjectIs
<1>3. CASE key = "p"
  <2>1. TextObject(doc, p, prefix, key) = ParaObject(doc, p, around)
    BY <1>3 DEF TextObject, Openers
  <2>. HIDE DEF around
  <2>. QED BY <1>1, <2>1, ParaObjectIs
<1>4. CASE key \in {"\"", "'"}
  <2>1. TextObject(doc, p, prefix, key) = QuoteObject(doc, p, key, around)
    BY <1>4 DEF TextObject, Openers
  <2>. HIDE DEF around
  <2>. QED BY <1>1, <2>1, QuoteObjectIs
<1>5. CASE key \in {"(", "[", "{"}
  <2>1. TextObject(doc, p, prefix, key) = BracketObject(doc, p, key, Partner(key), around)
    BY <1>5 DEF TextObject, Openers
  <2>2. key # Partner(key)
    BY <1>5 DEF Partner
  <2>. HIDE DEF around
  <2>. QED BY <1>1, <2>1, <2>2, BracketObjectIs
<1>. QED BY <1>2, <1>3, <1>4, <1>5 DEF ObjectKeys

-----------------------------------------------------------------------------
(* An edit over whole lines of the document, one at least, or over a range *)
(* of its characters, whose end may be the line that would come next.      *)
Edits == [op : OperatorIds, linewise : BOOLEAN, start : Pos, end : Pos, lines : Nat, keep : BOOLEAN]
PastEnd(doc) == At(Len(doc), 0)
LinesOf(doc, e) ==
    /\ e.start.line \in 0..LastLine(doc) /\ e.start.col = 0
    /\ e.lines \in 1..Len(doc) /\ e.start.line + e.lines <= Len(doc)
CharsOf(doc, e) ==
    /\ e.start \in Grid(doc) /\ e.end \in Grid(doc) \cup {PastEnd(doc)}
    /\ Before(e.start, e.end) /\ e.lines = 0 /\ ~e.keep
EditOf(doc, e) == e \in Edits /\ IF e.linewise THEN LinesOf(doc, e) ELSE CharsOf(doc, e)

(* An edit of whole lines of the document, that keeps one or not.          *)
LEMMA KeptLinesEditIs ==
    ASSUME NEW doc \in Doc, NEW op \in OperatorIds, NEW f \in 0..LastLine(doc),
           NEW beyond \in (f + 1)..Len(doc), NEW keep \in BOOLEAN
    PROVE  EditOf(doc, [LinesEdit(op, f, beyond) EXCEPT !.keep = keep])
<1>1. /\ f \in Nat /\ Len(doc) \in Nat /\ beyond \in Nat
      /\ beyond - f \in 1..Len(doc) /\ f + (beyond - f) <= Len(doc) /\ beyond - f \in Nat
  BY DocLines
<1>2. At(f, 0) \in Pos /\ At(beyond, 0) \in Pos /\ At(f, 0).line = f /\ At(f, 0).col = 0
  BY <1>1 DEF At, Pos
<1> DEFINE e == [LinesEdit(op, f, beyond) EXCEPT !.keep = keep]
<1>3. /\ e \in Edits /\ e.linewise /\ e.start = At(f, 0) /\ e.lines = beyond - f
  BY <1>1, <1>2 DEF LinesEdit, Edits
<1>. HIDE DEF e
<1>4. LinesOf(doc, e)
  BY <1>1, <1>2, <1>3 DEF LinesOf
<1>5. EditOf(doc, e)
  BY <1>3, <1>4 DEF EditOf
<1>. QED BY <1>5 DEF e

(* An edit of whole lines of the document.                                 *)
LEMMA LinesEditIs ==
    ASSUME NEW doc \in Doc, NEW op \in OperatorIds, NEW f \in 0..LastLine(doc),
           NEW beyond \in (f + 1)..Len(doc)
    PROVE  EditOf(doc, LinesEdit(op, f, beyond))
<1>1. /\ f \in Nat /\ Len(doc) \in Nat /\ beyond \in Nat
      /\ beyond - f \in 1..Len(doc) /\ f + (beyond - f) <= Len(doc) /\ beyond - f \in Nat
  BY DocLines
<1>2. At(f, 0) \in Pos /\ At(beyond, 0) \in Pos /\ At(f, 0).line = f /\ At(f, 0).col = 0
  BY <1>1 DEF At, Pos
<1>3. /\ LinesEdit(op, f, beyond) \in Edits /\ LinesEdit(op, f, beyond).linewise
      /\ LinesEdit(op, f, beyond).start = At(f, 0) /\ LinesEdit(op, f, beyond).lines = beyond - f
  BY <1>1, <1>2 DEF LinesEdit, Edits
<1>. QED BY <1>1, <1>2, <1>3 DEF EditOf, LinesOf

(* An edit of the characters between two positions.                        *)
LEMMA CharsEditIs ==
    ASSUME NEW doc \in Doc, NEW op \in OperatorIds, NEW s \in Grid(doc),
           NEW e \in Grid(doc) \cup {PastEnd(doc)}, Before(s, e)
    PROVE  EditOf(doc, CharsEdit(op, s, e))
<1>1. s \in Pos /\ e \in Pos
  BY DocLines DEF Grid, PastEnd, At, Pos
<1>. QED BY <1>1 DEF EditOf, Edits, CharsEdit, CharsOf

(* The position behind a character, across the end of its line.            *)
LEMMA AfterCpIs ==
    ASSUME NEW doc \in Doc, NEW p \in Grid(doc)
    PROVE  /\ AfterCp(doc, p) \in Grid(doc) \cup {PastEnd(doc)}
           /\ Before(p, AfterCp(doc, p))
<1>1. /\ p.line \in 0..LastLine(doc) /\ p.line \in Nat /\ p.col \in Nat
      /\ Len(LineOf(doc, p.line)) \in Nat /\ Len(doc) \in Nat /\ LastLine(doc) + 1 = Len(doc)
      /\ LastLine(doc) \in Nat
  BY GridIs, DocLines
<1>2. CASE p.col + 1 <= Len(LineOf(doc, p.line))
  <2>1. AfterCp(doc, p) = At(p.line, p.col + 1)
    BY <1>2 DEF AfterCp
  <2>2. /\ At(p.line, p.col + 1) \in Grid(doc) /\ At(p.line, p.col + 1).line = p.line
        /\ At(p.line, p.col + 1).col = p.col + 1
    BY <1>1, <1>2, GridIs
  <2>. QED BY <1>1, <2>1, <2>2 DEF Before
<1>3. CASE ~(p.col + 1 <= Len(LineOf(doc, p.line)))
  <2>1. Lesser(p.line + 1, Len(doc)) = p.line + 1
    BY <1>1 DEF Lesser
  <2>2. AfterCp(doc, p) = At(p.line + 1, 0)
    BY <1>3, <2>1 DEF AfterCp
  <2>3. At(p.line + 1, 0) \in Grid(doc) \cup {PastEnd(doc)}
    <3>1. CASE p.line + 1 = Len(doc)
      BY <3>1 DEF PastEnd
    <3>2. CASE p.line + 1 # Len(doc)
      <4>1. p.line + 1 \in 0..LastLine(doc)
        BY <1>1, <3>2
      <4>2. 0 \in 0..Len(LineOf(doc, p.line + 1))
        BY <4>1, DocLines
      <4>. QED BY <4>1, <4>2, GridIs
    <3>. QED BY <3>1, <3>2
  <2>4. Before(p, At(p.line + 1, 0))
    BY <1>1 DEF Before, At
  <2>. QED BY <2>2, <2>3, <2>4
<1>. QED BY <1>2, <1>3

(* The least and the greatest of two numbers.                              *)
LEMMA LeastGreatestOfTwo ==
    ASSUME NEW a \in Nat, NEW b \in Nat
    PROVE  /\ Least({a, b}) = (IF a <= b THEN a ELSE b)
           /\ Greatest({a, b}) = (IF a <= b THEN b ELSE a)
<1>1. {a, b} \subseteq Nat /\ {a, b} # {} /\ {a, b} \subseteq 0..(a + b) /\ a + b \in Nat
  OBVIOUS
<1>2. Least({a, b}) \in {a, b} /\ \A m \in {a, b} : Least({a, b}) <= m
  BY <1>1, LeastIs
<1>3. Greatest({a, b}) \in {a, b} /\ \A m \in {a, b} : m <= Greatest({a, b})
  BY <1>1, GreatestIs
<1>. QED BY <1>2, <1>3

(* Of two positions, one comes first, or they are one.                     *)
LEMMA BeforeIsLinear ==
    ASSUME NEW doc \in Doc, NEW p \in Grid(doc), NEW q \in Grid(doc), p # q
    PROVE  Before(p, q) \/ Before(q, p)
<1>1. p = At(p.line, p.col) /\ q = At(q.line, q.col)
      /\ p.line \in Nat /\ q.line \in Nat /\ p.col \in Nat /\ q.col \in Nat
  BY GridIs
<1>2. p.line # q.line \/ p.col # q.col
  BY <1>1
<1>. QED BY <1>1, <1>2 DEF Before

(* What comes before is transitive.                                        *)
LEMMA BeforeIsTransitive ==
    ASSUME NEW p \in Pos, NEW q \in Pos, NEW r \in Pos, Before(p, q), Before(q, r)
    PROVE  Before(p, r)
  BY DEF Before, Pos

(* The edit between the cursor and where a motion landed.                  *)
LEMMA SpanEditIs ==
    ASSUME NEW doc \in Doc, NEW op \in OperatorIds, NEW from \in Grid(doc), NEW to \in Grid(doc),
           NEW inclusive \in BOOLEAN, from # to \/ inclusive
    PROVE  EditOf(doc, SpanEdit(doc, op, from, to, inclusive))
<1>1. /\ from.line \in 0..LastLine(doc) /\ to.line \in 0..LastLine(doc)
      /\ from.line \in Nat /\ to.line \in Nat /\ LastLine(doc) + 1 = Len(doc)
      /\ LastLine(doc) \in Nat /\ from \in Pos /\ to \in Pos
  BY GridIs, DocLines
<1>2. CASE ~inclusive /\ from.col = 0 /\ to.col = 0 /\ from.line # to.line
  <2> DEFINE lo == Least({from.line, to.line})
             hi == Greatest({from.line, to.line})
  <2>1. lo \in 0..LastLine(doc) /\ hi \in (lo + 1)..Len(doc)
    <3>1. /\ lo = IF from.line <= to.line THEN from.line ELSE to.line
          /\ hi = IF from.line <= to.line THEN to.line ELSE from.line
      BY <1>1, LeastGreatestOfTwo
    <3>. HIDE DEF lo, hi
    <3>. QED BY <1>1, <1>2, <3>1
  <2>2. SpanEdit(doc, op, from, to, inclusive) = LinesEdit(op, lo, hi)
    BY <1>2 DEF SpanEdit
  <2>. HIDE DEF lo, hi
  <2>. QED BY <2>1, <2>2, LinesEditIs
<1>3. CASE ~(~inclusive /\ from.col = 0 /\ to.col = 0 /\ from.line # to.line) /\ Before(to, from)
  <2>1. SpanEdit(doc, op, from, to, inclusive) = CharsEdit(op, to, from)
    BY <1>3 DEF SpanEdit
  <2>. QED BY <1>3, <2>1, CharsEditIs
<1>4. CASE ~(~inclusive /\ from.col = 0 /\ to.col = 0 /\ from.line # to.line) /\ ~Before(to, from)
  <2> DEFINE e == IF inclusive THEN AfterCp(doc, to) ELSE to
  <2>1. SpanEdit(doc, op, from, to, inclusive) = CharsEdit(op, from, e)
    BY <1>4 DEF SpanEdit
  <2>2. from = to \/ Before(from, to)
    BY <1>4, BeforeIsLinear
  <2>3. AfterCp(doc, to) \in Grid(doc) \cup {PastEnd(doc)} /\ Before(to, AfterCp(doc, to))
    BY AfterCpIs
  <2>4. AfterCp(doc, to) \in Pos
    BY <1>1, <2>3 DEF Grid, PastEnd, At, Pos
  <2>5. Before(from, AfterCp(doc, to))
    BY <1>1, <2>2, <2>3, <2>4, BeforeIsTransitive
  <2>6. e \in Grid(doc) \cup {PastEnd(doc)} /\ Before(from, e)
    BY <2>2, <2>3, <2>5
  <2>. HIDE DEF e
  <2>. QED BY <2>1, <2>6, CharsEditIs
<1>. QED BY <1>2, <1>3, <1>4

(* The lines between two positions, both ends with them.                   *)
LEMMA LinesBetweenIs ==
    ASSUME NEW doc \in Doc, NEW op \in OperatorIds, NEW from \in Grid(doc), NEW to \in Grid(doc)
    PROVE  EditOf(doc, LinesEdit(op, Least({from.line, to.line}), Greatest({from.line, to.line}) + 1))
<1> DEFINE lo == Least({from.line, to.line})
           hi == Greatest({from.line, to.line})
<1>1. /\ from.line \in 0..LastLine(doc) /\ to.line \in 0..LastLine(doc)
      /\ from.line \in Nat /\ to.line \in Nat /\ LastLine(doc) + 1 = Len(doc)
      /\ LastLine(doc) \in Nat
  BY GridIs, DocLines
<1>2. lo \in 0..LastLine(doc) /\ hi + 1 \in (lo + 1)..Len(doc)
  <2>1. /\ lo = IF from.line <= to.line THEN from.line ELSE to.line
        /\ hi = IF from.line <= to.line THEN to.line ELSE from.line
    BY <1>1, LeastGreatestOfTwo
  <2>. HIDE DEF lo, hi
  <2>. QED BY <1>1, <2>1
<1>. HIDE DEF lo, hi
<1>3. EditOf(doc, LinesEdit(op, lo, hi + 1))
  BY <1>2, LinesEditIs
<1>. QED BY <1>3 DEF lo, hi

(* Every edit that an operator composes, with any count, is one of lines   *)
(* or of characters of the document (core/operator.cpp).                   *)
LEMMA ComposedEdits ==
    ASSUME NEW doc \in Doc, NEW op \in OperatorIds, NEW p \in Grid(doc), NEW count \in Nat \ {0}
    PROVE  /\ \A key \in OperatorMotions : \A e \in MotionEdits(doc, op, key, p, count) :
                EditOf(doc, e) /\ e.op = op
           /\ \A id \in {"f", "F", "t", "T"}, ch \in Targets :
                \A e \in FindEdits(doc, op, id, ch, p, count) : EditOf(doc, e) /\ e.op = op
           /\ \A e \in GotoFirstEdits(doc, op, p, count) : EditOf(doc, e) /\ e.op = op
           /\ \A e \in DoubledEdits(doc, op, p, count) : EditOf(doc, e) /\ e.op = op
           /\ \A prefix \in {"i", "a"}, key \in ObjectKeys :
                \A e \in ObjectEdits(doc, op, prefix, key, p) : EditOf(doc, e) /\ e.op = op
<1>0. /\ p.line \in 0..LastLine(doc) /\ p.line \in Nat /\ p.col \in Nat
      /\ LastLine(doc) + 1 = Len(doc) /\ LastLine(doc) \in Nat
  BY GridIs, DocLines
<1>1. ASSUME NEW key \in OperatorMotions, NEW e \in MotionEdits(doc, op, key, p, count)
      PROVE  EditOf(doc, e) /\ e.op = op
  <2> DEFINE id == ChangeWord(doc, op, key, p)
             r  == Motion(doc, id, p, count, p.col)
             incl == id \in InclusiveMotions
  <2>1. id \in MotionNames /\ incl \in BOOLEAN
    <3>1. id \in {key, "e", "E"}
      BY DEF ChangeWord
    <3>2. incl \in BOOLEAN
      OBVIOUS
    <3>. HIDE DEF id, incl
    <3>. QED BY <3>1, <3>2 DEF MotionNames, OperatorMotions
  <2>2. /\ r.ok
        /\ ~(r.pos = p /\ ~(incl /\ p.col < Len(LineOf(doc, p.line))))
        /\ e = IF id \in LinewiseMotions
                 THEN LinesEdit(op, Least({p.line, r.pos.line}), Greatest({p.line, r.pos.line}) + 1)
               ELSE SpanEdit(doc, op, p, r.pos, incl)
    BY DEF MotionEdits
  <2>. HIDE DEF id
  <2>3. r.pos \in Grid(doc)
    BY <1>0, <2>1, <2>2, MotionLands
  <2>. HIDE DEF r, incl
  <2>4. CASE id \in LinewiseMotions
    <3>1. e = LinesEdit(op, Least({p.line, r.pos.line}), Greatest({p.line, r.pos.line}) + 1)
      BY <2>2, <2>4
    <3>2. EditOf(doc, e)
      BY <2>3, <3>1, LinesBetweenIs
    <3>. QED BY <3>1, <3>2 DEF LinesEdit
  <2>5. CASE id \notin LinewiseMotions
    <3>1. e = SpanEdit(doc, op, p, r.pos, incl) /\ (p # r.pos \/ incl)
      BY <2>2, <2>5
    <3>2. EditOf(doc, e)
      BY <2>1, <2>3, <3>1, SpanEditIs
    <3>. QED BY <3>1, <3>2 DEF SpanEdit, LinesEdit, CharsEdit
  <2>. QED BY <2>4, <2>5
<1>2. ASSUME NEW id \in {"f", "F", "t", "T"}, NEW ch \in Targets,
             NEW e \in FindEdits(doc, op, id, ch, p, count)
      PROVE  EditOf(doc, e) /\ e.op = op
  <2> DEFINE r == Find(doc, id, ch, p, count)
             incl == id \in InclusiveMotions
  <2>1. r.ok /\ r.pos # p /\ e = SpanEdit(doc, op, p, r.pos, incl)
    BY DEF FindEdits
  <2>2. r.pos \in Grid(doc)
    BY <2>1, FindLands
  <2>3. incl \in BOOLEAN
    OBVIOUS
  <2>. HIDE DEF r, incl
  <2>4. EditOf(doc, e)
    BY <2>1, <2>2, <2>3, SpanEditIs
  <2>. QED BY <2>1, <2>4 DEF SpanEdit, LinesEdit, CharsEdit
<1>3. ASSUME NEW e \in GotoFirstEdits(doc, op, p, count) PROVE EditOf(doc, e) /\ e.op = op
  <2> DEFINE r == Motion(doc, "gg", p, count, p.col)
  <2>1. e = LinesEdit(op, Least({p.line, r.pos.line}), Greatest({p.line, r.pos.line}) + 1)
    BY DEF GotoFirstEdits
  <2>2. r.pos \in Grid(doc)
    <3>1. Lands(doc, Grid(doc)) /\ p.col \in Nat
      BY <1>0, LandsAre
    <3>. QED BY <3>1, LineMotionsStay
  <2>. HIDE DEF r
  <2>3. EditOf(doc, e)
    BY <2>1, <2>2, LinesBetweenIs
  <2>. QED BY <2>1, <2>3 DEF LinesEdit
<1>4. ASSUME NEW e \in DoubledEdits(doc, op, p, count) PROVE EditOf(doc, e) /\ e.op = op
  <2> DEFINE beyond == Lesser(p.line + count, Len(doc))
  <2>1. e = [LinesEdit(op, p.line, beyond) EXCEPT !.keep = (op = "c")]
    BY DEF DoubledEdits
  <2>2. beyond \in (p.line + 1)..Len(doc)
    BY <1>0 DEF Lesser
  <2>3. (op = "c") \in BOOLEAN
    OBVIOUS
  <2>. HIDE DEF beyond
  <2>4. EditOf(doc, [LinesEdit(op, p.line, beyond) EXCEPT !.keep = (op = "c")])
    BY <1>0, <2>2, <2>3, KeptLinesEditIs
  <2>. QED BY <2>1, <2>4 DEF LinesEdit
<1>5. ASSUME NEW prefix \in {"i", "a"}, NEW key \in ObjectKeys,
             NEW e \in ObjectEdits(doc, op, prefix, key, p)
      PROVE  EditOf(doc, e) /\ e.op = op
  <2> DEFINE r == TextObject(doc, p, prefix, key)
  <2>1. /\ r.ok /\ r.start # r.end
        /\ e = IF r.linewise THEN [LinesEdit(op, r.start.line, r.end.line) EXCEPT !.keep = (op = "c")]
               ELSE CharsEdit(op, r.start, r.end)
    BY DEF ObjectEdits
  <2>2. ObjectOf(doc, r)
    BY TextObjectIs
  <2>. HIDE DEF r
  <2>3. RangeOf(doc, r)
    BY <2>1, <2>2 DEF ObjectOf
  <2>4. CASE r.linewise
    <3>1. PICK f \in 0..LastLine(doc) : \E beyond \in (f + 1)..Len(doc) :
               r.start = At(f, 0) /\ r.end = At(beyond, 0)
      BY <2>3, <2>4 DEF RangeOf
    <3>2. PICK beyond \in (f + 1)..Len(doc) : r.start = At(f, 0) /\ r.end = At(beyond, 0)
      BY <3>1
    <3>3. r.start.line = f /\ r.end.line = beyond /\ (op = "c") \in BOOLEAN
      BY <3>2 DEF At
    <3>4. EditOf(doc, [LinesEdit(op, f, beyond) EXCEPT !.keep = (op = "c")])
      BY <3>3, KeptLinesEditIs
    <3>. QED BY <2>1, <2>4, <3>3, <3>4 DEF LinesEdit
  <2>5. CASE ~r.linewise
    <3>1. r.start \in Grid(doc) /\ r.end \in Grid(doc) /\ Before(r.start, r.end)
      BY <2>1, <2>3, <2>5 DEF RangeOf
    <3>2. EditOf(doc, CharsEdit(op, r.start, r.end))
      BY <3>1, CharsEditIs
    <3>. QED BY <2>1, <2>5, <3>2 DEF CharsEdit
  <2>. QED BY <2>4, <2>5
<1>. QED BY <1>1, <1>2, <1>3, <1>4, <1>5
-----------------------------------------------------------------------------
(***************************************************************************)
(* Every change that a command builds at a position of the document is one *)
(* that the history may record: its old lines stand in the document, and   *)
(* the cursor it asks for is a position of the document it makes.          *)
(***************************************************************************)
(* A cut through a line.                                                   *)
LEMMA TextParts ==
    ASSUME NEW text \in Seq(Char), NEW at \in 0..Len(text)
    PROVE  /\ Upto(text, at) \in Seq(Char) /\ Len(Upto(text, at)) = at
           /\ From(text, at) \in Seq(Char) /\ Len(From(text, at)) = Len(text) - at
<1>1. Len(text) \in Nat /\ at \in Nat /\ \A i \in 1..Len(text) : text[i] \in Char
  BY LenProperties, ElementOfSeq
<1>2. Upto(text, at) \in Seq(Char) /\ Len(Upto(text, at)) = at
  <2>1. 1 \in Int /\ at \in Int /\ \A i \in 1..at : text[i] \in Char
    BY <1>1
  <2>2. /\ SubSeq(text, 1, at) \in Seq(Char)
        /\ Len(SubSeq(text, 1, at)) = IF 1 <= at THEN at - 1 + 1 ELSE 0
    BY <2>1, SubSeqProperties
  <2>. QED BY <1>1, <2>2 DEF Upto
<1>3. From(text, at) \in Seq(Char) /\ Len(From(text, at)) = Len(text) - at
  <2>1. at + 1 \in Int /\ Len(text) \in Int /\ \A i \in (at + 1)..Len(text) : text[i] \in Char
    BY <1>1
  <2>2. /\ SubSeq(text, at + 1, Len(text)) \in Seq(Char)
        /\ Len(SubSeq(text, at + 1, Len(text)))
             = IF at + 1 <= Len(text) THEN Len(text) - (at + 1) + 1 ELSE 0
    BY <2>1, SubSeqProperties
  <2>. QED BY <1>1, <2>2 DEF From
<1>. QED BY <1>2, <1>3

(* Some lines of a document, in their order.                               *)
LEMMA SpanOfDoc ==
    ASSUME NEW doc \in Doc, NEW f \in Nat, NEW b \in (f + 1)..Len(doc)
    PROVE  /\ SubSeq(doc, f + 1, b) \in Doc /\ Len(SubSeq(doc, f + 1, b)) = b - f
           /\ \A i \in 1..(b - f) : SubSeq(doc, f + 1, b)[i] = doc[f + i]
           /\ Fits(doc, f, SubSeq(doc, f + 1, b))
<1> DEFINE span == SubSeq(doc, f + 1, b)
<1>1. /\ doc \in Seq(Line) /\ Len(doc) \in Nat /\ b \in Nat /\ f + 1 <= b /\ b <= Len(doc)
      /\ \A i \in 1..Len(doc) : doc[i] \in Line
  BY DocLines, ElementOfSeq
<1>2. f + 1 \in Int /\ b \in Int /\ \A i \in (f + 1)..b : doc[i] \in Line
  BY <1>1
<1>3. /\ span \in Seq(Line)
      /\ Len(span) = IF f + 1 <= b THEN b - (f + 1) + 1 ELSE 0
      /\ \A i \in 1..(b - (f + 1) + 1) : span[i] = doc[f + 1 + i - 1]
  BY <1>2, SubSeqProperties
<1>. HIDE DEF span
<1>4. Len(span) = b - f
  BY <1>1, <1>3
<1>5. ASSUME NEW i \in 1..(b - f) PROVE span[i] = doc[f + i]
  <2>1. i \in 1..(b - (f + 1) + 1) /\ f + 1 + i - 1 = f + i
    BY <1>1
  <2>. QED BY <1>3, <2>1
<1>6. span # <<>>
  BY <1>1, <1>4, EmptySeq
<1>7. Fits(doc, f, span)
  <2>1. f + Len(span) <= Len(doc) /\ \A i \in 1..Len(span) : doc[f + i] = span[i]
    BY <1>1, <1>4, <1>5
  <2>. QED BY <1>1, <1>3, <2>1, FitsLines
<1>. QED BY <1>3, <1>4, <1>5, <1>6, <1>7 DEF span, Doc

(* A position in the new lines of a change is one of the document it makes.*)
LEMMA InNewLines ==
    ASSUME NEW doc \in Doc, NEW f \in Nat, NEW n \in Nat, f + n <= Len(doc),
           NEW new \in Seq(Line), NEW l \in Nat, NEW c \in Nat,
           f <= l, l < f + Len(new), c <= Len(new[l - f + 1])
    PROVE  InGrid(Splice(doc, f, n, new), At(l, c))
<1> DEFINE d == Splice(doc, f, n, new)
<1>1. /\ doc \in Seq(Line) /\ Len(doc) \in Nat /\ Len(new) \in Nat
  BY DocLines, LenProperties
<1>2. d \in Seq(Line) /\ Spliced(d, doc, f, n, new)
  BY <1>1, SpliceLines
<1>. HIDE DEF d
<1>3. l < Len(d)
  BY <1>1, <1>2 DEF Spliced
<1>4. d[l + 1] = new[l - f + 1]
  <2>1. l + 1 \in (f + 1)..(f + Len(new)) /\ l + 1 - f = l - f + 1
    BY <1>1
  <2>. QED BY <1>2, <2>1 DEF Spliced
<1>5. InGrid(d, At(l, c))
  BY <1>3, <1>4 DEF InGrid, At
<1>. QED BY <1>5 DEF d

(* What makes a change one that the history may record.                    *)
LEMMA ChangeIs ==
    ASSUME NEW doc \in Doc, NEW kind \in Kinds, NEW f \in Nat, NEW old \in Doc,
           Fits(doc, f, old), NEW new \in Seq(Line), NEW before \in Grid(doc), NEW after \in Pos,
           InGrid(Splice(doc, f, Len(old), new), after)
    PROVE  ChangeOf(doc, TextChange(kind, f, old, new, before, after))
<1> DEFINE c == TextChange(kind, f, old, new, before, after)
<1>1. before \in Pos /\ InGrid(doc, before)
  BY DEF Grid
<1>2. /\ c.first = f /\ c.old = old /\ c.new = new /\ c.before = before /\ c.after = after
      /\ c \in Change
  BY <1>1 DEF TextChange, Change
<1>. HIDE DEF c
<1>3. ChangeOf(doc, c)
  BY <1>1, <1>2 DEF ChangeOf, Apply
<1>. QED BY <1>3 DEF c

(* The same, when the cursor comes to rest in the new lines: in the i-th.  *)
LEMMA ChangeInNew ==
    ASSUME NEW doc \in Doc, NEW kind \in Kinds, NEW f \in Nat, NEW old \in Doc,
           Fits(doc, f, old), NEW new \in Seq(Line), NEW before \in Grid(doc),
           NEW i \in 1..Len(new), NEW k \in 0..Len(new[i]), NEW l, l = f + i - 1
    PROVE  ChangeOf(doc, TextChange(kind, f, old, new, before, At(l, k)))
<1>1. /\ f + Len(old) <= Len(doc) /\ Len(old) \in Nat /\ Len(new) \in Nat
      /\ new[i] \in Seq(Char)
  BY DocLines, LenProperties, ElementOfSeq DEF Fits, Doc, Line
<1>2. /\ l \in Nat /\ f <= l /\ l < f + Len(new) /\ l - f + 1 = i
      /\ k \in Nat /\ k <= Len(new[i])
  BY <1>1, LenProperties
<1>3. InGrid(Splice(doc, f, Len(old), new), At(l, k)) /\ At(l, k) \in Pos
  BY <1>1, <1>2, InNewLines DEF At, Pos
<1>. QED BY <1>1, <1>3, ChangeIs

(* A change of one line into one or two.                                   *)
LEMMA OneLine ==
    ASSUME NEW doc \in Doc, NEW l \in 0..LastLine(doc)
    PROVE  /\ <<LineOf(doc, l)>> \in Doc /\ Fits(doc, l, <<LineOf(doc, l)>>)
           /\ Len(<<LineOf(doc, l)>>) = 1 /\ l \in Nat
<1>1. /\ l \in Nat /\ l + 1 \in 1..Len(doc) /\ LineOf(doc, l) \in Line /\ doc \in Seq(Line)
      /\ Len(doc) \in Nat
  BY DocLines DEF Line
<1>2. <<LineOf(doc, l)>> \in Seq(Line) /\ Len(<<LineOf(doc, l)>>) = 1
      /\ <<LineOf(doc, l)>>[1] = doc[l + 1] /\ <<LineOf(doc, l)>> # <<>>
  BY <1>1 DEF LineOf
<1>. HIDE DEF LineOf
<1>3. \A i \in 1..Len(<<LineOf(doc, l)>>) : doc[l + i] = <<LineOf(doc, l)>>[i]
  BY <1>2
<1>4. l + Len(<<LineOf(doc, l)>>) <= Len(doc)
  BY <1>1, <1>2
<1>5. Fits(doc, l, <<LineOf(doc, l)>>)
  BY <1>1, <1>2, <1>3, <1>4, FitsLines
<1>. QED BY <1>1, <1>2, <1>5 DEF Doc

(* A change of one line, the cursor after it on that line.                 *)
LEMMA OneLineChange ==
    ASSUME NEW doc \in Doc, NEW kind \in Kinds, NEW l \in 0..LastLine(doc),
           NEW text \in Seq(Char), NEW before \in Grid(doc), NEW k \in 0..Len(text)
    PROVE  ChangeOf(doc, TextChange(kind, l, <<LineOf(doc, l)>>, <<text>>, before, At(l, k)))
<1> DEFINE new == <<text>>
<1>1. new \in Seq(Line) /\ Len(new) = 1 /\ new[1] = text
  BY DEF Line
<1>. HIDE DEF new
<1>2. 1 \in 1..Len(new) /\ k \in 0..Len(new[1]) /\ l = l + 1 - 1
  BY <1>1, OneLine
<1>3. ChangeOf(doc, TextChange(kind, l, <<LineOf(doc, l)>>, new, before, At(l, k)))
  BY <1>1, <1>2, OneLine, ChangeInNew
<1>. QED BY <1>3 DEF new

(* A change of one line into two, the cursor after it on the second.       *)
LEMMA TwoLineChange ==
    ASSUME NEW doc \in Doc, NEW kind \in Kinds, NEW l \in 0..LastLine(doc),
           NEW text \in Seq(Char), NEW rest \in Seq(Char),
           NEW before \in Grid(doc), NEW k \in 0..Len(rest)
    PROVE  ChangeOf(doc, TextChange(kind, l, <<LineOf(doc, l)>>, <<text, rest>>, before, At(l + 1, k)))
<1> DEFINE new == <<text, rest>>
<1>1. new \in Seq(Line) /\ Len(new) = 2 /\ new[2] = rest
  BY DEF Line
<1>. HIDE DEF new
<1>2. 2 \in 1..Len(new) /\ k \in 0..Len(new[2]) /\ l + 1 = l + 2 - 1
  BY <1>1, OneLine
<1>3. ChangeOf(doc, TextChange(kind, l, <<LineOf(doc, l)>>, new, before, At(l + 1, k)))
  BY <1>1, <1>2, OneLine, ChangeInNew
<1>. QED BY <1>3 DEF new

-----------------------------------------------------------------------------
(* The changes of insert mode, and x.                                      *)
LEMMA InsertCharIs ==
    ASSUME NEW doc \in Doc, NEW p \in Grid(doc), NEW ch \in Char
    PROVE  ChangeOf(doc, InsertCharChange(doc, p, ch))
<1> DEFINE b    == LineOf(doc, p.line)
           text == Upto(b, p.col) \o <<ch>> \o From(b, p.col)
<1>1. /\ p.line \in 0..LastLine(doc) /\ p.line \in Nat /\ p.col \in 0..Len(b) /\ p.col \in Nat
      /\ p = At(p.line, p.col) /\ b \in Seq(Char) /\ Len(b) \in Nat
      /\ LastLine(doc) + 1 = Len(doc) /\ Len(doc) \in Nat /\ LastLine(doc) \in Nat
  BY GridIs, DocLines
<1>2. ClampLine(doc, p.line) = p.line /\ CpToByte(b, p.col) = p.col
  BY <1>1 DEF ClampLine, CpToByte, Lesser
<1>3. InsertCharChange(doc, p, ch)
        = TextChange("InsertChar", p.line, <<b>>, <<text>>, p, At(p.line, p.col + 1))
  BY <1>1, <1>2 DEF InsertCharChange
<1>. HIDE DEF b
<1>4. text \in Seq(Char) /\ Len(text) = Len(b) + 1
  <2>1. /\ Upto(b, p.col) \in Seq(Char) /\ Len(Upto(b, p.col)) = p.col
        /\ From(b, p.col) \in Seq(Char) /\ Len(From(b, p.col)) = Len(b) - p.col
    BY <1>1, TextParts
  <2>2. <<ch>> \in Seq(Char) /\ Len(<<ch>>) = 1
    OBVIOUS
  <2>3. /\ Upto(b, p.col) \o <<ch>> \in Seq(Char) /\ Len(Upto(b, p.col) \o <<ch>>) = p.col + 1
    BY <2>1, <2>2, ConcatRegions
  <2> DEFINE head == Upto(b, p.col) \o <<ch>>
             tail == From(b, p.col)
  <2>4. head \o tail \in Seq(Char) /\ Len(head \o tail) = (p.col + 1) + Len(tail)
    <3>1. head \in Seq(Char) /\ tail \in Seq(Char) /\ Len(head) = p.col + 1
      BY <2>1, <2>3
    <3>. HIDE DEF head, tail
    <3>. QED BY <3>1, ConcatRegions
  <2>5. (p.col + 1) + Len(From(b, p.col)) = Len(b) + 1
    BY <1>1, <2>1
  <2>. QED BY <2>4, <2>5
<1>. HIDE DEF text
<1>5. "InsertChar" \in Kinds /\ p.col + 1 \in 0..Len(text)
  BY <1>1, <1>4 DEF Kinds
<1>. QED BY <1>1, <1>3, <1>4, <1>5, OneLineChange DEF b

(* A newline of a paste.                                                   *)
LEMMA SplitIs ==
    ASSUME NEW doc \in Doc, NEW p \in Grid(doc)
    PROVE  ChangeOf(doc, SplitChange(doc, p))
<1> DEFINE b == LineOf(doc, p.line)
<1>1. /\ p.line \in 0..LastLine(doc) /\ p.col \in 0..Len(b) /\ b \in Seq(Char)
  BY GridIs, DocLines
<1>2. Upto(b, p.col) \in Seq(Char) /\ From(b, p.col) \in Seq(Char)
  BY <1>1, TextParts
<1>3. "InsertChar" \in Kinds /\ 0 \in 0..Len(From(b, p.col))
  BY <1>2, LenProperties DEF Kinds
<1>. QED BY <1>1, <1>2, <1>3, TwoLineChange DEF SplitChange

(* The indent is a part of its line.                                       *)
LEMMA IndentIs ==
    ASSUME NEW text \in Seq(Char)
    PROVE  /\ IndentLen(text) \in 0..Len(text) /\ IndentLen(text) \in Nat
           /\ IndentOf(text) \in Seq(Char) /\ Len(IndentOf(text)) = IndentLen(text)
           /\ BodyOf(text) \in Seq(Char)
<1> DEFINE s == {k \in 0..Len(text) : \A j \in 1..k : text[j] \in Blanks}
<1>1. Len(text) \in Nat
  BY LenProperties
<1>2. 0 \in s
  BY <1>1
<1>3. s \subseteq 0..Len(text) /\ s # {}
  BY <1>2
<1>4. IndentLen(text) = Greatest(s)
  BY DEF IndentLen
<1>. HIDE DEF s
<1>5. IndentLen(text) \in 0..Len(text)
  BY <1>1, <1>3, <1>4, GreatestIs
<1>. QED BY <1>1, <1>5, TextParts DEF IndentOf, BodyOf

(* Enter, which copies the indent.                                         *)
LEMMA EnterIs ==
    ASSUME NEW doc \in Doc, NEW p \in Grid(doc)
    PROVE  ChangeOf(doc, EnterChange(doc, p))
<1> DEFINE b == LineOf(doc, p.line)
           i == IndentLen(b)
           rest == Upto(b, i) \o From(b, p.col)
<1>1. /\ p.line \in 0..LastLine(doc) /\ p.col \in 0..Len(b) /\ b \in Seq(Char)
  BY GridIs, DocLines
<1>2. /\ Upto(b, p.col) \in Seq(Char) /\ From(b, p.col) \in Seq(Char)
      /\ Upto(b, i) \in Seq(Char) /\ Len(Upto(b, i)) = i /\ i \in Nat
  BY <1>1, TextParts, IndentIs
<1>3. EnterChange(doc, p)
        = TextChange("InsertChar", p.line, <<b>>, <<Upto(b, p.col), rest>>, p, At(p.line + 1, i))
  BY DEF EnterChange
<1>. HIDE DEF b, i
<1>4. rest \in Seq(Char) /\ Len(rest) = i + Len(From(b, p.col))
  BY <1>2, ConcatRegions
<1>. HIDE DEF rest
<1>5. "InsertChar" \in Kinds /\ i \in 0..Len(rest)
  BY <1>2, <1>4, LenProperties DEF Kinds
<1>. QED BY <1>1, <1>2, <1>3, <1>4, <1>5, TwoLineChange DEF b

(* Backspace within a line.                                                *)
LEMMA EraseLeftIs ==
    ASSUME NEW doc \in Doc, NEW p \in Grid(doc), p.col > 0
    PROVE  ChangeOf(doc, EraseLeftChange(doc, p))
<1> DEFINE b == LineOf(doc, p.line)
           text == Upto(b, p.col - 1) \o From(b, p.col)
<1>1. /\ p.line \in 0..LastLine(doc) /\ p.col \in 0..Len(b) /\ b \in Seq(Char) /\ Len(b) \in Nat
      /\ p.col - 1 \in 0..Len(b)
  BY GridIs, DocLines
<1>2. /\ Upto(b, p.col - 1) \in Seq(Char) /\ Len(Upto(b, p.col - 1)) = p.col - 1
      /\ From(b, p.col) \in Seq(Char) /\ Len(From(b, p.col)) = Len(b) - p.col
  BY <1>1, TextParts
<1>3. EraseLeftChange(doc, p)
        = TextChange("EraseChar", p.line, <<b>>, <<text>>, p, At(p.line, p.col - 1))
  BY DEF EraseLeftChange
<1>. HIDE DEF b
<1>4. text \in Seq(Char) /\ Len(text) = p.col - 1 + (Len(b) - p.col)
  <2>1. text \in Seq(Char) /\ Len(text) = Len(Upto(b, p.col - 1)) + Len(From(b, p.col))
    BY <1>2, ConcatRegions
  <2>. HIDE DEF text
  <2>. QED BY <1>2, <2>1
<1>. HIDE DEF text
<1>5. "EraseChar" \in Kinds /\ p.col - 1 \in 0..Len(text)
  BY <1>1, <1>4 DEF Kinds
<1>. QED BY <1>1, <1>3, <1>4, <1>5, OneLineChange DEF b

(* x with a count.                                                         *)
LEMMA DeleteCharIs ==
    ASSUME NEW doc \in Doc, NEW p \in Grid(doc), LineOf(doc, p.line) # <<>>, NEW count \in Nat
    PROVE  ChangeOf(doc, DeleteCharChange(doc, p, count))
<1> DEFINE b    == LineOf(doc, p.line)
           col  == Lesser(p.col, LastCol(b))
           span == Lesser(count, Len(b) - col)
           left == Upto(b, col) \o From(b, col + span)
           k    == Lesser(col, LastCol(left))
<1>1. /\ p.line \in 0..LastLine(doc) /\ p.col \in 0..Len(b) /\ b \in Seq(Char) /\ Len(b) \in Nat
      /\ p.col \in Nat
  BY GridIs, DocLines
<1>2. DeleteCharChange(doc, p, count)
        = TextChange("EraseChar", p.line, <<b>>, <<left>>, At(p.line, col), At(p.line, k))
  BY DEF DeleteCharChange
<1>3. Len(b) # 0
  BY <1>1, EmptySeq
<1>4. col \in 0..Len(b) /\ col < Len(b) /\ LastCol(b) = Len(b) - 1
  BY <1>1, <1>3 DEF Lesser, LastCol
<1>. HIDE DEF b, col
<1>5. span \in Nat /\ col + span \in 0..Len(b)
  BY <1>1, <1>4 DEF Lesser
<1>. HIDE DEF span
<1>6. /\ Upto(b, col) \in Seq(Char) /\ Len(Upto(b, col)) = col
      /\ From(b, col + span) \in Seq(Char) /\ Len(From(b, col + span)) = Len(b) - (col + span)
  BY <1>1, <1>4, <1>5, TextParts
<1>7. left \in Seq(Char) /\ Len(left) = col + (Len(b) - (col + span))
  BY <1>6, ConcatRegions
<1>. HIDE DEF left
<1>8. k \in 0..Len(left)
  <2>1. Len(left) \in Nat /\ (left # <<>> => Len(left) # 0)
    BY <1>7, LenProperties, EmptySeq
  <2>. QED BY <1>4, <2>1 DEF Lesser, LastCol
<1>. HIDE DEF k
<1>9. At(p.line, col) \in Grid(doc) /\ "EraseChar" \in Kinds
  BY <1>1, <1>4, GridIs DEF b, Kinds
<1>. QED BY <1>1, <1>2, <1>7, <1>8, <1>9, OneLineChange DEF b

(* Backspace at the start of a line.                                       *)
LEMMA JoinUpIs ==
    ASSUME NEW doc \in Doc, NEW p \in Grid(doc), p.line > 0
    PROVE  ChangeOf(doc, JoinUpChange(doc, p))
<1> DEFINE a == LineOf(doc, p.line - 1)
           b == LineOf(doc, p.line)
<1>1. /\ p.line \in 0..LastLine(doc) /\ p.line - 1 \in 0..LastLine(doc) /\ p.line - 1 \in Nat
      /\ a \in Seq(Char) /\ b \in Seq(Char) /\ Len(a) \in Nat /\ Len(b) \in Nat
      /\ Len(doc) \in Nat /\ doc \in Seq(Line) /\ LastLine(doc) + 1 = Len(doc) /\ LastLine(doc) \in Nat
      /\ a = doc[p.line] /\ b = doc[p.line + 1] /\ p.line \in Nat
  <2>1. /\ p.line \in 0..LastLine(doc) /\ p.line \in Nat /\ LastLine(doc) + 1 = Len(doc)
        /\ LastLine(doc) \in Nat
    BY GridIs, DocLines
  <2>2. p.line - 1 \in 0..LastLine(doc) /\ p.line - 1 + 1 = p.line
    BY <2>1
  <2>. QED BY <2>1, <2>2, DocLines DEF LineOf
<1>2. JoinUpChange(doc, p)
        = TextChange("EraseChar", p.line - 1, <<a, b>>, <<a \o b>>, p, At(p.line - 1, Len(a)))
  BY DEF JoinUpChange
<1>. HIDE DEF a, b
<1>3. /\ <<a, b>> \in Doc /\ Len(<<a, b>>) = 2 /\ <<a, b>>[1] = a /\ <<a, b>>[2] = b
      /\ <<a, b>> \in Seq(Line)
  BY <1>1 DEF Doc, Line
<1>4. Fits(doc, p.line - 1, <<a, b>>)
  <2>1. p.line - 1 + Len(<<a, b>>) <= Len(doc)
    BY <1>1, <1>3
  <2>2. ASSUME NEW i \in 1..Len(<<a, b>>) PROVE doc[p.line - 1 + i] = <<a, b>>[i]
    <3>1. i = 1 \/ i = 2
      BY <1>3
    <3>2. p.line - 1 + 1 = p.line /\ p.line - 1 + 2 = p.line + 1
      BY <1>1
    <3>. QED BY <1>1, <1>3, <3>1, <3>2
  <2>. QED BY <1>1, <1>3, <2>1, <2>2, FitsLines
<1>5. a \o b \in Seq(Char) /\ Len(a \o b) = Len(a) + Len(b)
  BY <1>1, ConcatRegions
<1>6. /\ <<a \o b>> \in Seq(Line) /\ Len(<<a \o b>>) = 1 /\ <<a \o b>>[1] = a \o b
  BY <1>5 DEF Line
<1> DEFINE f   == p.line - 1
           new == <<a \o b>>
<1>7. /\ new \in Seq(Line) /\ Len(new) = 1 /\ new[1] = a \o b
  BY <1>6
<1>8. /\ JoinUpChange(doc, p) = TextChange("EraseChar", f, <<a, b>>, new, p, At(f, Len(a)))
      /\ Fits(doc, f, <<a, b>>) /\ f \in Nat /\ "EraseChar" \in Kinds
  BY <1>1, <1>2, <1>4 DEF Kinds
<1>. HIDE DEF f, new
<1>9. Len(a) \in 0..Len(new[1]) /\ 1 \in 1..Len(new) /\ f = f + 1 - 1
  <2>1. Len(new[1]) = Len(a) + Len(b)
    BY <1>5, <1>7
  <2>2. Len(a) \in 0..(Len(a) + Len(b))
    <3>1. \A m \in Nat, n \in Nat : m \in 0..(m + n)
      OBVIOUS
    <3>2. Len(a) \in Nat /\ Len(b) \in Nat
      BY <1>1
    <3>. QED BY <3>1, <3>2
  <2>3. 1 \in 1..Len(new) /\ f = f + 1 - 1
    BY <1>7, <1>8
  <2>. QED BY <2>1, <2>2, <2>3
<1>10. ChangeOf(doc, TextChange("EraseChar", f, <<a, b>>, new, p, At(f, Len(a))))
  BY <1>1, <1>3, <1>7, <1>8, <1>9, ChangeInNew
<1>. QED BY <1>8, <1>10
-----------------------------------------------------------------------------
(* The lines an edit works on are lines of the document, from the one      *)
(* where it starts on.                                                     *)
LEMMA AffectedIs ==
    ASSUME NEW doc \in Doc, NEW e, EditOf(doc, e)
    PROVE  /\ AffectedLines(doc, e)[1] = e.start.line /\ e.start.line \in 0..LastLine(doc)
           /\ AffectedLines(doc, e)[2] \in e.start.line..LastLine(doc)
           /\ e.linewise => AffectedLines(doc, e)[2] = e.start.line + e.lines - 1
           /\ e.start \in Grid(doc)
           /\ Affected(doc, e) \in Doc /\ Fits(doc, e.start.line, Affected(doc, e))
           /\ Len(Affected(doc, e)) = AffectedLines(doc, e)[2] - e.start.line + 1
           /\ \A i \in 1..Len(Affected(doc, e)) :
                Affected(doc, e)[i] = doc[e.start.line + i] /\ Affected(doc, e)[i] \in Seq(Char)
<1> DEFINE ll    == LastLine(doc)
           first == AffectedLines(doc, e)[1]
           last  == AffectedLines(doc, e)[2]
           end   == Lesser(e.end.line, ll)
<1>1. /\ ll \in Nat /\ ll + 1 = Len(doc) /\ e \in Edits
  BY DocLines DEF EditOf
<1>2. e.start \in Grid(doc)
  <2>1. CASE e.linewise
    <3>1. e.start.line \in 0..ll /\ e.start.col = 0 /\ e.start \in Pos
      BY <2>1, <1>1 DEF EditOf, LinesOf, Edits
    <3>2. e.start = At(e.start.line, 0)
      BY <3>1 DEF Pos, At
    <3>3. 0 \in 0..Len(LineOf(doc, e.start.line))
      BY <3>1, DocLines
    <3>4. At(e.start.line, 0) \in Grid(doc)
      BY <3>1, <3>3, GridIs
    <3>. QED BY <3>2, <3>4
  <2>2. CASE ~e.linewise
    BY <2>2 DEF EditOf, CharsOf
  <2>. QED BY <2>1, <2>2
<1>3. e.start.line \in 0..ll /\ e.start.line \in Nat /\ e.start.col \in Nat
  BY <1>2, GridIs
<1>4. first = e.start.line
  <2>1. first = Lesser(e.start.line, ll)
    BY DEF AffectedLines
  <2>. HIDE DEF first
  <2>. QED BY <1>1, <1>3, <2>1 DEF Lesser
<1>5. ASSUME e.linewise
      PROVE  last = e.start.line + e.lines - 1 /\ last \in e.start.line..ll
  <2> DEFINE n == IF e.lines = 0 THEN 1 ELSE e.lines
  <2>1. e.lines \in Nat /\ e.lines # 0 /\ e.start.line + e.lines <= ll + 1
    BY <1>1, <1>5 DEF EditOf, LinesOf
  <2>2. last = Lesser(Lesser(e.start.line, ll) + n - 1, ll)
    BY <1>5 DEF AffectedLines
  <2>3. n = e.lines /\ Lesser(e.start.line, ll) = e.start.line
    BY <1>1, <1>3, <2>1 DEF Lesser
  <2>. HIDE DEF last, n, ll
  <2>4. last = Lesser(e.start.line + e.lines - 1, ll)
    BY <2>2, <2>3
  <2>5. \A f, k, m \in Nat : k # 0 /\ f + k <= m + 1 =>
            Lesser(f + k - 1, m) = f + k - 1 /\ f + k - 1 \in f..m
    BY DEF Lesser
  <2>6. ll \in Nat
    BY <1>1
  <2>. QED BY <1>3, <2>1, <2>4, <2>5, <2>6
<1>6. ASSUME ~e.linewise PROVE last \in e.start.line..ll
  <2>1. /\ e.end.line \in Nat /\ e.end.col \in Nat /\ Before(e.start, e.end)
    BY <1>1, <1>6 DEF EditOf, CharsOf, Edits, Pos
  <2>2. e.start.line <= e.end.line
    BY <1>3, <2>1 DEF Before
  <2>3. end \in e.start.line..ll
    BY <1>1, <1>3, <2>1, <2>2 DEF Lesser
  <2>4. last = IF e.end.col = 0 /\ e.end.line > e.start.line /\ end > first THEN end - 1 ELSE end
    BY <1>6 DEF AffectedLines
  <2>. HIDE DEF last, first, end, ll
  <2>. QED BY <1>1, <1>3, <1>4, <2>3, <2>4
<1>7. last \in e.start.line..ll /\ (e.linewise => last = e.start.line + e.lines - 1)
  BY <1>5, <1>6
<1>8. Affected(doc, e) = SubSeq(doc, e.start.line + 1, last + 1)
  BY <1>4 DEF Affected
<1>. HIDE DEF first, last
<1>9. last + 1 \in (e.start.line + 1)..Len(doc) /\ (last + 1) - e.start.line = last - e.start.line + 1
  BY <1>1, <1>3, <1>7
<1>10. /\ Affected(doc, e) \in Doc /\ Len(Affected(doc, e)) = (last + 1) - e.start.line
       /\ \A i \in 1..((last + 1) - e.start.line) : Affected(doc, e)[i] = doc[e.start.line + i]
       /\ Fits(doc, e.start.line, Affected(doc, e))
  BY <1>3, <1>8, <1>9, SpanOfDoc
<1>11. \A i \in 1..Len(Affected(doc, e)) : Affected(doc, e)[i] \in Seq(Char)
  BY <1>10, ElementOfSeq DEF Doc, Line
<1>. QED BY <1>2, <1>3, <1>4, <1>7, <1>9, <1>10, <1>11 DEF first, last

(* d and c on whole lines.                                                 *)
LEMMA EraseLinesIs ==
    ASSUME NEW doc \in Doc, NEW e, EditOf(doc, e), e.linewise
    PROVE  ChangeOf(doc, EraseLines(doc, e))
<1> DEFINE f    == e.start.line
           last == AffectedLines(doc, e)[2]
           old  == Affected(doc, e)
           indent == IndentOf(old[1])
           all    == Len(old) = Len(doc)
           new    == IF e.keep THEN <<indent>> ELSE IF all THEN <<<<>>>> ELSE <<>>
           after  == IF e.keep THEN At(f, Len(indent))
                     ELSE IF all THEN At(0, 0)
                     ELSE IF last < LastLine(doc) THEN At(f, IndentLen(LineOf(doc, last + 1)))
                     ELSE At(f - 1, IndentLen(LineOf(doc, f - 1)))
<1>1. /\ AffectedLines(doc, e)[1] = f /\ f \in 0..LastLine(doc) /\ f \in Nat
      /\ last \in f..LastLine(doc) /\ last \in Nat
      /\ e.start \in Grid(doc) /\ old \in Doc /\ Fits(doc, f, old)
      /\ Len(old) = last - f + 1 /\ old[1] \in Seq(Char) /\ Len(old) \in Nat
      /\ LastLine(doc) \in Nat /\ LastLine(doc) + 1 = Len(doc) /\ Len(doc) \in Nat
      /\ doc \in Seq(Line)
  <2>1. /\ LastLine(doc) \in Nat /\ LastLine(doc) + 1 = Len(doc) /\ Len(doc) \in Nat
        /\ doc \in Seq(Line)
    BY DocLines
  <2>2. /\ AffectedLines(doc, e)[1] = f /\ f \in 0..LastLine(doc)
        /\ last \in f..LastLine(doc) /\ e.start \in Grid(doc)
        /\ old \in Doc /\ Fits(doc, f, old) /\ Len(old) = last - f + 1
    BY AffectedIs
  <2>3. Len(old) \in Nat /\ old[1] \in Seq(Char)
    <3>1. 1 \in 1..Len(old) /\ old \in Seq(Line)
      BY <2>2, DocLines
    <3>. QED BY <3>1, ElementOfSeq DEF Line
  <2>. HIDE DEF f, last, old
  <2>. QED BY <2>1, <2>2, <2>3
<1>2. EraseLines(doc, e) = TextChange("Bulk", f, old, new, e.start, after)
  BY <1>1 DEF EraseLines
<1>3. indent \in Seq(Char) /\ "Bulk" \in Kinds
  BY <1>1, IndentIs DEF Kinds
<1>. HIDE DEF f, last, old, indent
<1>4. CASE e.keep
  <2> DEFINE one == <<indent>>
  <2>1. one \in Seq(Line) /\ Len(one) = 1 /\ one[1] = indent
    BY <1>3 DEF Line
  <2>2. new = one /\ after = At(f, Len(indent))
    BY <1>4
  <2>. HIDE DEF one, new, after
  <2>3. 1 \in 1..Len(one) /\ Len(indent) \in 0..Len(one[1]) /\ f = f + 1 - 1
    BY <1>1, <1>3, <2>1, LenProperties
  <2>4. ChangeOf(doc, TextChange("Bulk", f, old, one, e.start, At(f, Len(indent))))
    BY <1>1, <1>3, <2>1, <2>3, ChangeInNew
  <2>. QED BY <1>2, <2>2, <2>4
<1>5. CASE ~e.keep /\ all
  <2> DEFINE one == <<<<>>>>
  <2>1. one \in Seq(Line) /\ Len(one) = 1 /\ one[1] = <<>> /\ Len(<<>>) = 0
    BY EmptySeq DEF Line
  <2>2. new = one /\ after = At(f, 0)
    BY <1>1, <1>5
  <2>. HIDE DEF one, new, after
  <2>3. 1 \in 1..Len(one) /\ 0 \in 0..Len(one[1]) /\ f = f + 1 - 1
    BY <1>1, <2>1
  <2>4. ChangeOf(doc, TextChange("Bulk", f, old, one, e.start, At(f, 0)))
    BY <1>1, <1>3, <2>1, <2>3, ChangeInNew
  <2>. QED BY <1>2, <2>2, <2>4
<1>6. CASE ~e.keep /\ ~all
  <2> DEFINE d == Splice(doc, f, Len(old), <<>>)
             n == Len(old)
  <2>1. new = <<>> /\ <<>> \in Seq(Line) /\ Len(<<>>) = 0
    BY <1>6, EmptySeq
  <2>2. f + n <= Len(doc) /\ n \in Nat /\ n < Len(doc)
    BY <1>1, <1>6 DEF Fits
  <2>3. Spliced(d, doc, f, n, <<>>)
    BY <1>1, <2>1, <2>2, SpliceLines
  <2>. HIDE DEF d, n
  <2>4. /\ Len(d) = Len(doc) - n
        /\ \A i \in 1..f : d[i] = doc[i]
        /\ \A i \in (f + 1)..Len(d) : d[i] = doc[i + n]
    <3>1. /\ Len(d) = Len(doc) - n + 0
          /\ \A i \in 1..f : d[i] = doc[i]
          /\ \A i \in (f + 0 + 1)..Len(d) : d[i] = doc[i - 0 + n]
      BY <2>1, <2>3 DEF Spliced
    <3>2. Len(d) = Len(doc) - n /\ Len(d) \in Int
      BY <1>1, <2>2, <3>1
    <3>3. ASSUME NEW i \in (f + 1)..Len(d) PROVE d[i] = doc[i + n]
      <4>1. i \in (f + 0 + 1)..Len(d) /\ i - 0 + n = i + n
        BY <1>1, <2>2, <3>2
      <4>. QED BY <3>1, <4>1
    <3>. QED BY <3>1, <3>2, <3>3
  <2>5. after \in Pos /\ InGrid(d, after)
    <3>1. CASE last < LastLine(doc)
      <4>1. last + 1 \in 0..LastLine(doc)
        BY <1>1, <3>1
      <4>2. LineOf(doc, last + 1) \in Seq(Char)
        BY <4>1, DocLines
      <4>3. /\ after = At(f, IndentLen(LineOf(doc, last + 1)))
            /\ IndentLen(LineOf(doc, last + 1)) \in Nat
            /\ IndentLen(LineOf(doc, last + 1)) <= Len(LineOf(doc, last + 1))
        BY <1>6, <3>1, <4>2, IndentIs
      <4>4. f + 1 \in (f + 1)..Len(d) /\ f + 1 + n = last + 2 /\ f < Len(d)
        BY <1>1, <2>2, <2>4, <3>1 DEF n
      <4>5. d[f + 1] = LineOf(doc, last + 1)
        <5>1. d[f + 1] = doc[f + 1 + n]
          BY <2>4, <4>4
        <5>2. f + 1 + n = last + 1 + 1
          BY <1>1, <4>4
        <5>. QED BY <5>1, <5>2 DEF LineOf
      <4>. HIDE DEF after
      <4>. QED BY <1>1, <4>3, <4>4, <4>5 DEF At, Pos, InGrid
    <3>2. CASE ~(last < LastLine(doc))
      <4>1. f - 1 \in 0..LastLine(doc) /\ f - 1 \in Nat /\ f \in 1..f /\ f - 1 + 1 = f /\ f - 1 < Len(d)
        BY <1>1, <2>2, <2>4, <3>2 DEF n
      <4>2. LineOf(doc, f - 1) \in Seq(Char)
        BY <4>1, DocLines
      <4>3. /\ after = At(f - 1, IndentLen(LineOf(doc, f - 1)))
            /\ IndentLen(LineOf(doc, f - 1)) \in Nat
            /\ IndentLen(LineOf(doc, f - 1)) <= Len(LineOf(doc, f - 1))
        BY <1>6, <3>2, <4>2, IndentIs
      <4>4. d[f - 1 + 1] = LineOf(doc, f - 1)
        BY <2>4, <4>1 DEF LineOf
      <4>. HIDE DEF after
      <4>. QED BY <1>1, <4>1, <4>3, <4>4 DEF At, Pos, InGrid
    <3>. QED BY <3>1, <3>2
  <2>. HIDE DEF after, new
  <2>. QED BY <1>1, <1>2, <1>3, <2>1, <2>5, ChangeIs DEF d, n
<1>. QED BY <1>4, <1>5, <1>6

(* Where a range of characters is cut out.                                 *)
LEMMA CutIs ==
    ASSUME NEW doc \in Doc, NEW e, EditOf(doc, e), ~e.linewise
    PROVE  /\ e.start \in Grid(doc) /\ e.start.line \in 0..LastLine(doc) /\ e.start.line \in Nat
           /\ e.start.col \in 0..Len(LineOf(doc, e.start.line))
           /\ e.end.line \in e.start.line..Len(doc) /\ e.end.line \in Nat
           /\ e.end.line < Len(doc) => /\ e.end.line \in 0..LastLine(doc)
                                       /\ e.end.col \in 0..Len(LineOf(doc, e.end.line))
           /\ e.end.line = e.start.line => e.start.col < e.end.col
           /\ SpannedLines(doc, e) \in Doc /\ Fits(doc, e.start.line, SpannedLines(doc, e))
           /\ Len(SpannedLines(doc, e)) = Lesser(e.end.line + 1, Len(doc)) - e.start.line
           /\ SpannedLines(doc, e)[1] = LineOf(doc, e.start.line)
<1>1. /\ e.start \in Grid(doc) /\ e.end \in Grid(doc) \cup {PastEnd(doc)} /\ Before(e.start, e.end)
      /\ e.start \in Pos /\ e.end \in Pos
  BY DEF EditOf, CharsOf, Edits
<1>2. /\ e.start.line \in 0..LastLine(doc) /\ e.start.line \in Nat /\ e.start.col \in Nat
      /\ e.start.col \in 0..Len(LineOf(doc, e.start.line))
      /\ LastLine(doc) + 1 = Len(doc) /\ LastLine(doc) \in Nat /\ Len(doc) \in Nat
      /\ e.end.line \in Nat /\ e.end.col \in Nat
  BY <1>1, GridIs, DocLines DEF Pos
<1>3. /\ e.start.line <= e.end.line /\ (e.end.line = e.start.line => e.start.col < e.end.col)
  BY <1>1, <1>2 DEF Before
<1>5. /\ e.end.line <= Len(doc)
      /\ e.end.line < Len(doc) => /\ e.end.line \in 0..LastLine(doc)
                                  /\ e.end.col \in 0..Len(LineOf(doc, e.end.line))
  <2>1. CASE e.end = PastEnd(doc)
    <3>1. e.end.line = Len(doc)
      BY <2>1 DEF PastEnd, At
    <3>. QED BY <1>2, <3>1
  <2>2. CASE e.end \in Grid(doc)
    BY <1>2, <2>2, GridIs
  <2>. QED BY <1>1, <2>1, <2>2
<1> DEFINE b == Lesser(e.end.line + 1, Len(doc))
<1>6. b \in (e.start.line + 1)..Len(doc)
  BY <1>2, <1>3, <1>5 DEF Lesser
<1>7. SpannedLines(doc, e) = SubSeq(doc, e.start.line + 1, b)
  BY DEF SpannedLines
<1>. HIDE DEF b
<1>8. /\ SpannedLines(doc, e) \in Doc /\ Len(SpannedLines(doc, e)) = b - e.start.line
      /\ \A i \in 1..(b - e.start.line) : SpannedLines(doc, e)[i] = doc[e.start.line + i]
      /\ Fits(doc, e.start.line, SpannedLines(doc, e))
  <2> DEFINE f == e.start.line
             t == SubSeq(doc, f + 1, b)
  <2>1. f \in Nat /\ b \in (f + 1)..Len(doc)
    BY <1>2, <1>6
  <2>. HIDE DEF f
  <2>2. /\ t \in Doc /\ Len(t) = b - f /\ \A i \in 1..(b - f) : t[i] = doc[f + i]
        /\ Fits(doc, f, t)
    BY <2>1, SpanOfDoc
  <2>. QED BY <1>7, <2>2 DEF f
<1>9. SpannedLines(doc, e)[1] = LineOf(doc, e.start.line)
  <2>1. 1 \in 1..(b - e.start.line)
    BY <1>2, <1>6
  <2>. QED BY <1>8, <2>1 DEF LineOf
<1>10. e.end.line \in e.start.line..Len(doc)
  BY <1>2, <1>3, <1>5
<1>. QED BY <1>1, <1>2, <1>3, <1>5, <1>8, <1>9, <1>10 DEF b

(* d and c on characters, over any number of lines.                        *)
LEMMA EraseCharsIs ==
    ASSUME NEW doc \in Doc, NEW e, EditOf(doc, e), ~e.linewise
    PROVE  ChangeOf(doc, EraseChars(doc, e))
<1> DEFINE head == HeadOf(doc, e)
           tail == TailOf(doc, e)
           new  == <<head \o tail>>
<1>1. /\ e.start \in Grid(doc) /\ e.start.line \in 0..LastLine(doc) /\ e.start.line \in Nat
      /\ e.start.col \in 0..Len(LineOf(doc, e.start.line)) /\ e.start.col \in Nat
      /\ SpannedLines(doc, e) \in Doc /\ Fits(doc, e.start.line, SpannedLines(doc, e))
      /\ LineOf(doc, e.start.line) \in Seq(Char) /\ "Bulk" \in Kinds
      /\ e.start = At(e.start.line, e.start.col)
  BY CutIs, DocLines, GridIs DEF Kinds
<1>2. head \in Seq(Char) /\ Len(head) = e.start.col
  BY <1>1, TextParts DEF HeadOf
<1>3. tail \in Seq(Char)
  <2>1. CASE e.end.line >= Len(doc)
    <3>1. tail = <<>>
      BY <2>1 DEF TailOf
    <3>. QED BY <3>1
  <2>2. CASE ~(e.end.line >= Len(doc))
    <3> DEFINE t == LineOf(doc, e.end.line)
    <3>1. e.end.line < Len(doc)
      BY <2>2, CutIs, DocLines
    <3>2. /\ t \in Seq(Char) /\ Len(t) \in Nat /\ e.end.col \in 0..Len(t)
      BY <3>1, CutIs, DocLines
    <3>3. tail = From(t, CpToByte(t, e.end.col))
      BY <2>2 DEF TailOf
    <3>. HIDE DEF t, tail
    <3>4. CpToByte(t, e.end.col) = e.end.col
      BY <3>2 DEF CpToByte, Lesser
    <3>. QED BY <3>2, <3>3, <3>4, TextParts
  <2>. QED BY <2>1, <2>2
<1>4. EraseChars(doc, e) = TextChange("Bulk", e.start.line, SpannedLines(doc, e), new, e.start,
                                      At(e.start.line, e.start.col))
  BY <1>1 DEF EraseChars
<1>. HIDE DEF head, tail
<1>5. head \o tail \in Seq(Char) /\ Len(head \o tail) = Len(head) + Len(tail) /\ Len(tail) \in Nat
  BY <1>2, <1>3, ConcatRegions, LenProperties
<1>6. new \in Seq(Line) /\ Len(new) = 1 /\ new[1] = head \o tail
  BY <1>5 DEF Line
<1>. HIDE DEF new
<1>7. Len(new[1]) = e.start.col + Len(tail)
  BY <1>2, <1>5, <1>6
<1>8. 1 \in 1..Len(new) /\ e.start.col \in 0..Len(new[1]) /\ e.start.line = e.start.line + 1 - 1
  BY <1>1, <1>5, <1>6, <1>7
<1>. QED BY <1>1, <1>4, <1>6, <1>8, ChangeInNew
-----------------------------------------------------------------------------
(* The lines an edit works on, line for line rewritten.                    *)
LEMMA RewrittenIs ==
    ASSUME NEW doc \in Doc, NEW e, EditOf(doc, e),
           NEW new \in [1..Len(Affected(doc, e)) -> Seq(Char)]
    PROVE  ChangeOf(doc, Rewritten(doc, e, new))
<1> DEFINE f   == e.start.line
           old == Affected(doc, e)
           k   == IndentLen(new[1])
<1>1. /\ AffectedLines(doc, e)[1] = f /\ f \in Nat /\ e.start \in Grid(doc)
      /\ old \in Doc /\ Fits(doc, f, old) /\ Len(old) \in Nat /\ Len(old) # 0
  BY AffectedIs, DocLines, LenProperties, EmptySeq DEF Doc
<1>2. new \in Seq(Line) /\ Len(new) = Len(old)
  <2>. HIDE DEF old
  <2>1. new \in [1..Len(old) -> Line]
    BY DEF Line, old
  <2>. QED BY <1>1, <2>1, IsASeq, LenProperties
<1>3. Rewritten(doc, e, new) = TextChange("Bulk", f, old, new, e.start, At(f, k))
  BY <1>1 DEF Rewritten
<1>4. 1 \in 1..Len(new) /\ f = f + 1 - 1 /\ "Bulk" \in Kinds
  BY <1>1, <1>2 DEF Kinds
<1>5. k \in 0..Len(new[1])
  <2>1. new[1] \in Seq(Char)
    BY <1>2, <1>4, ElementOfSeq DEF Line
  <2>. QED BY <2>1, IndentIs
<1>. HIDE DEF f, old, k
<1>6. ChangeOf(doc, TextChange("Bulk", f, old, new, e.start, At(f, k)))
  BY <1>1, <1>2, <1>4, <1>5, ChangeInNew
<1>. QED BY <1>3, <1>6

(* The unit of indentation is a text, and not empty.                       *)
LEMMA IndentUnitIs ==
    ASSUME NEW doc \in Doc
    PROVE  /\ IndentUnit(doc) \in Seq(Char) /\ Len(IndentUnit(doc)) \in Nat \ {0}
           /\ IndentUnit(doc)[1] \in Char
<1> DEFINE indented == {l \in 1..Len(doc) : doc[l] # <<>> /\ doc[l][1] \in Blanks}
           unit == IndentUnit(doc)
<1>1. CASE indented # {} /\ doc[Least(indented)][1] = "tab"
  <2>1. indented \subseteq Nat /\ indented \subseteq 1..Len(doc) /\ \A l \in indented : doc[l] # <<>>
    OBVIOUS
  <2>2. unit = <<"tab">>
    BY <1>1 DEF IndentUnit
  <2>. HIDE DEF indented, unit
  <2>3. Least(indented) \in indented
    BY <1>1, <2>1, LeastIs
  <2>4. doc[Least(indented)] \in Seq(Char) /\ doc[Least(indented)] # <<>>
    BY <2>1, <2>3, ElementOfSeq DEF Doc, Line
  <2>5. doc[Least(indented)][1] \in Char
    <3>1. 1 \in 1..Len(doc[Least(indented)])
      BY <2>4, LenProperties, EmptySeq
    <3>. QED BY <2>4, <3>1, ElementOfSeq
  <2>6. "tab" \in Char
    BY <1>1, <2>5
  <2>7. <<"tab">> \in Seq(Char) /\ Len(<<"tab">>) = 1 /\ <<"tab">>[1] = "tab"
    BY <2>6
  <2>. QED BY <2>2, <2>6, <2>7 DEF unit
<1>2. CASE ~(indented # {} /\ doc[Least(indented)][1] = "tab")
  <2>1. unit = [k \in 1..TabWidth |-> Blank]
    BY <1>2 DEF IndentUnit
  <2>2. Blank \in Char /\ TabWidth \in Nat \ {0}
    BY EditorAssumption
  <2>. HIDE DEF unit
  <2>3. unit \in [1..TabWidth -> Char] /\ unit[1] \in Char
    BY <2>1, <2>2
  <2>4. unit \in Seq(Char) /\ Len(unit) = TabWidth
    BY <2>2, <2>3, IsASeq, LenProperties
  <2>. QED BY <2>2, <2>3, <2>4 DEF unit
<1>. QED BY <1>1, <1>2

(* A line shifted to the left is a line.                                   *)
LEMMA ShiftLeftIs ==
    ASSUME NEW text \in Seq(Char), NEW width \in Nat
    PROVE  ShiftLeftOne(text, width) \in Seq(Char)
<1> DEFINE s == {k \in 0..Lesser(width, Len(text)) : \A j \in 1..k : text[j] = Blank}
<1>1. Len(text) \in Nat
  BY LenProperties
<1>2. Lesser(width, Len(text)) \in 0..Len(text)
  BY <1>1 DEF Lesser
<1>3. 0 \in s /\ s \subseteq 0..Len(text)
  BY <1>1, <1>2
<1>4. ShiftLeftOne(text, width)
        = IF text # <<>> /\ text[1] = "tab" THEN Tail(text) ELSE From(text, Greatest(s))
  BY DEF ShiftLeftOne
<1>. HIDE DEF s
<1>5. Greatest(s) \in 0..Len(text)
  BY <1>1, <1>3, GreatestIs
<1>6. From(text, Greatest(s)) \in Seq(Char)
  BY <1>5, TextParts
<1>7. text # <<>> => Tail(text) \in Seq(Char)
  BY HeadTailProperties
<1>. QED BY <1>4, <1>6, <1>7

(* > and <.                                                                *)
LEMMA ShiftIs ==
    ASSUME NEW doc \in Doc, NEW e, EditOf(doc, e), NEW left \in BOOLEAN
    PROVE  ChangeOf(doc, ShiftChange(doc, e, left))
<1> DEFINE unit == IndentUnit(doc)
           old  == Affected(doc, e)
           line(i) == IF left THEN ShiftLeftOne(old[i], Len(unit)) ELSE unit \o old[i]
           new  == [i \in DOMAIN old |-> line(i)]
<1>1. ShiftChange(doc, e, left) = Rewritten(doc, e, new)
  BY DEF ShiftChange
<1>2. old \in Doc /\ DOMAIN old = 1..Len(old) /\ \A i \in 1..Len(old) : old[i] \in Seq(Char)
  BY AffectedIs, LenProperties DEF Doc
<1>3. unit \in Seq(Char) /\ Len(unit) \in Nat
  BY IndentUnitIs
<1>. HIDE DEF unit, old
<1>4. ASSUME NEW i \in 1..Len(old) PROVE line(i) \in Seq(Char)
  <2>1. ShiftLeftOne(old[i], Len(unit)) \in Seq(Char)
    BY <1>2, <1>3, ShiftLeftIs
  <2>2. unit \o old[i] \in Seq(Char)
    BY <1>2, <1>3, ConcatRegions
  <2>. QED BY <2>1, <2>2
<1>. HIDE DEF line
<1>5. new \in [1..Len(old) -> Seq(Char)]
  BY <1>2, <1>4
<1>. HIDE DEF new
<1>. QED BY <1>1, <1>5, RewrittenIs DEF old

-----------------------------------------------------------------------------
(* = : the depths are numbers, so that each indent is a text.              *)
LEMMA NetDepthIs ==
    ASSUME NEW text \in Seq(Char)
    PROVE  NetDepth(text) \in Int
<1> DEFINE num(set) == Cardinality({i \in DOMAIN text : text[i] \in set})
<1>1. DOMAIN text = 1..Len(text) /\ Len(text) \in Nat
  BY LenProperties
<1>2. ASSUME NEW set PROVE num(set) \in Nat
  <2>1. IsFiniteSet(1..Len(text))
    BY <1>1, FS_Interval
  <2>2. {i \in DOMAIN text : text[i] \in set} \subseteq 1..Len(text)
    BY <1>1
  <2>3. IsFiniteSet({i \in DOMAIN text : text[i] \in set})
    BY <2>1, <2>2, FS_Subset
  <2>. QED BY <2>3, FS_CardinalityType
<1>3. NetDepth(text) = num(Openers) - num(Closers)
  BY DEF NetDepth
<1>. HIDE DEF num
<1>. QED BY <1>2, <1>3

(* A fill of one character is a text.                                      *)
LEMMA FilledIs ==
    ASSUME NEW ch \in Char, NEW m \in Nat, NEW n \in Nat
    PROVE  [k \in 1..(m * n) |-> ch] \in Seq(Char)
<1> DEFINE t == [k \in 1..(m * n) |-> ch]
<1>1. m * n \in Nat
  OBVIOUS
<1>2. t \in [1..(m * n) -> Char]
  OBVIOUS
<1>. HIDE DEF t
<1>3. t \in Seq(Char)
  BY <1>1, <1>2, IsASeq
<1>. QED BY <1>3 DEF t

(* The operator =.                                                         *)
LEMMA IndentChangeIs ==
    ASSUME NEW doc \in Doc, NEW e, EditOf(doc, e)
    PROVE  ChangeOf(doc, IndentChange(doc, e))
<1> DEFINE first == AffectedLines(doc, e)[1]
           old   == Affected(doc, e)
           n     == Len(old)
           unit  == IndentUnit(doc)
           Above(h) == h = [i \in 0..first |-> IF i = 0 THEN 0 ELSE h[i - 1] + NetDepth(doc[i])]
           above == CHOOSE h : Above(h)
           Depth(h) == h = [i \in 0..n |-> IF i = 0 THEN NotBelow0(above[first])
                                           ELSE NotBelow0(h[i - 1] + NetDepth(BodyOf(old[i])))]
           depth == CHOOSE h : Depth(h)
           level(i) == IF BodyOf(old[i]) # <<>> /\ BodyOf(old[i])[1] \in Closers
                         THEN NotBelow0(depth[i - 1] - 1) ELSE depth[i - 1]
           indent(k) == [j \in 1..(k * Len(unit)) |-> unit[1]]
           new == [i \in DOMAIN old |-> indent(level(i)) \o BodyOf(old[i])]
<1>1. /\ first \in Nat /\ first < Len(doc) /\ old \in Doc /\ n \in Nat /\ DOMAIN old = 1..n
      /\ \A i \in 1..n : old[i] \in Seq(Char)
  <2>1. /\ first \in 0..LastLine(doc) /\ old \in Doc
    BY AffectedIs
  <2>2. n \in Nat /\ DOMAIN old = 1..n
    BY <2>1, LenProperties DEF Doc
  <2>. QED BY <2>1, <2>2, AffectedIs, DocLines
<1>2. unit \in Seq(Char) /\ Len(unit) \in Nat /\ unit[1] \in Char
  BY IndentUnitIs
<1>3. IndentChange(doc, e) = Rewritten(doc, e, new)
  BY DEF IndentChange
<1>4. /\ \A i \in 1..first : NetDepth(doc[i]) \in Int
      /\ \A i \in 1..n : BodyOf(old[i]) \in Seq(Char) /\ NetDepth(BodyOf(old[i])) \in Int
  <2>1. ASSUME NEW i \in 1..first PROVE NetDepth(doc[i]) \in Int
    <3>1. i \in 1..Len(doc)
      BY <1>1, DocLines
    <3>2. doc[i] \in Seq(Char)
      BY <3>1, ElementOfSeq DEF Doc, Line
    <3>. QED BY <3>2, NetDepthIs
  <2>2. ASSUME NEW i \in 1..n PROVE BodyOf(old[i]) \in Seq(Char) /\ NetDepth(BodyOf(old[i])) \in Int
    <3>1. BodyOf(old[i]) \in Seq(Char)
      BY <1>1, IndentIs
    <3>. QED BY <3>1, NetDepthIs
  <2>. QED BY <2>1, <2>2
<1>. HIDE DEF first, old, n, unit
<1>5. above[first] \in Int
  <2> DEFINE g == [m \in (1..first) \X Int |-> m[2] + NetDepth(doc[m[1]])]
  <2>1. g \in [(1..first) \X Int -> Int]
    BY <1>4
  <2>2. PICK h \in [0..first -> Int] : \A i \in 0..first : h[i] = IF i = 0 THEN 0 ELSE g[<<i, h[i - 1]>>]
    <3> DEFINE Z == Int
    <3>1. 0 \in Z /\ g \in [(1..first) \X Z -> Z]
      BY <2>1
    <3>. HIDE DEF g, Z
    <3>2. \E h : Walks(h, Z, 0, first, g)
      BY <1>1, <3>1, Recursion
    <3>. QED BY <3>2 DEF Walks, Z
  <2>3. Above(h)
    <3>1. ASSUME NEW i \in 0..first
          PROVE  h[i] = IF i = 0 THEN 0 ELSE h[i - 1] + NetDepth(doc[i])
      <4>1. CASE i = 0
        BY <2>2, <4>1
      <4>2. CASE i # 0
        <5>1. i - 1 \in 0..first /\ i \in 1..first
          BY <4>2, <1>1
        <5>2. g[<<i, h[i - 1]>>] = h[i - 1] + NetDepth(doc[i])
          BY <5>1
        <5>. QED BY <2>2, <4>2, <5>2
      <4>. QED BY <4>1, <4>2
    <3>. QED BY <3>1
  <2>4. Above(above)
    <3>. HIDE DEF Above
    <3>. QED BY <2>3
  <2>. HIDE DEF above
  <2>5. above[0] = 0 /\ \A i \in 1..first : above[i] = above[i - 1] + NetDepth(doc[i])
    BY <1>1, <2>4
  <2>6. \A i \in 1..first : above[i - 1] \in Int => above[i] \in Int
    BY <1>4, <2>5
  <2>7. \A i \in 0..first : above[i] \in Int
    <3> DEFINE Z == Int
    <3>1. above[0] \in Z /\ \A i \in 1..first : above[i - 1] \in Z => above[i] \in Z
      BY <2>5, <2>6
    <3>. HIDE DEF Z
    <3>2. \A i \in 0..first : above[i] \in Z
      BY <1>1, <3>1, WalkStays
    <3>. QED BY <3>2 DEF Z
  <2>. QED BY <1>1, <2>7
<1>. HIDE DEF above
<1>6. /\ NotBelow0(above[first]) \in Nat
      /\ \A d \in Nat : \A i \in 1..n : NotBelow0(d + NetDepth(BodyOf(old[i]))) \in Nat
  BY <1>4, <1>5 DEF NotBelow0
<1>7. \A i \in 0..n : depth[i] \in Nat
  <2> DEFINE g == [m \in (1..n) \X Nat |-> NotBelow0(m[2] + NetDepth(BodyOf(old[m[1]])))]
             a == NotBelow0(above[first])
  <2>1. g \in [(1..n) \X Nat -> Nat] /\ a \in Nat
    BY <1>6
  <2>2. PICK h \in [0..n -> Nat] : \A i \in 0..n : h[i] = IF i = 0 THEN a ELSE g[<<i, h[i - 1]>>]
    <3>. HIDE DEF g, a
    <3>1. \E h : Walks(h, Nat, a, n, g)
      BY <1>1, <2>1, Recursion
    <3>. QED BY <3>1 DEF Walks
  <2>3. Depth(h)
    <3>1. ASSUME NEW i \in 0..n
          PROVE  h[i] = IF i = 0 THEN a ELSE NotBelow0(h[i - 1] + NetDepth(BodyOf(old[i])))
      <4>1. CASE i = 0
        BY <2>2, <4>1
      <4>2. CASE i # 0
        <5>1. i - 1 \in 0..n /\ i \in 1..n
          BY <4>2, <1>1
        <5>2. g[<<i, h[i - 1]>>] = NotBelow0(h[i - 1] + NetDepth(BodyOf(old[i])))
          BY <5>1
        <5>. QED BY <2>2, <4>2, <5>2
      <4>. QED BY <4>1, <4>2
    <3>. QED BY <3>1
  <2>4. Depth(depth)
    <3>. HIDE DEF Depth
    <3>. QED BY <2>3
  <2>. HIDE DEF depth
  <2>5. depth[0] = a /\ \A i \in 1..n : depth[i] = NotBelow0(depth[i - 1] + NetDepth(BodyOf(old[i])))
    BY <1>1, <2>4
  <2>. HIDE DEF a
  <2>6. \A i \in 1..n : depth[i - 1] \in Nat => depth[i] \in Nat
    BY <1>6, <2>5
  <2>. QED BY <1>1, <2>1, <2>5, <2>6, WalkStays
<1>. HIDE DEF depth
<1>8. ASSUME NEW i \in 1..n PROVE indent(level(i)) \o BodyOf(old[i]) \in Seq(Char)
  <2>1. i - 1 \in 0..n
    BY <1>1
  <2>2. depth[i - 1] \in Nat
    BY <1>7, <2>1
  <2>3. level(i) \in Nat
    BY <2>2 DEF NotBelow0
  <2>. HIDE DEF level
  <2>4. indent(level(i)) \in Seq(Char)
    BY <1>2, <2>3, FilledIs
  <2>. HIDE DEF indent
  <2>. QED BY <1>4, <2>4, ConcatRegions
<1>. HIDE DEF indent, level
<1>9. new \in [1..n -> Seq(Char)]
  BY <1>1, <1>8
<1>. HIDE DEF new
<1>10. new \in [1..Len(Affected(doc, e)) -> Seq(Char)]
  BY <1>9 DEF n, old
<1>. QED BY <1>3, <1>10, RewrittenIs
-----------------------------------------------------------------------------
(* gU, gu and g~: line for line and character for character.               *)
LEMMA CaseIs ==
    ASSUME NEW doc \in Doc, NEW e, EditOf(doc, e), e.op \in CaseOps
    PROVE  ChangeOf(doc, CaseChange(doc, e))
<1> DEFINE f   == e.start.line
           old == Affected(doc, e)
           inRange(l, k) == \/ e.linewise
                            \/ /\ l = e.start.line => k > e.start.col
                               /\ l = e.end.line => k <= e.end.col
           cell(i, k) == IF inRange(f + i - 1, k) THEN Recased(e.op, old[i][k]) ELSE old[i][k]
           row(i) == [k \in DOMAIN old[i] |-> cell(i, k)]
           new == [i \in DOMAIN old |-> row(i)]
<1>1. /\ AffectedLines(doc, e)[1] = f /\ f \in 0..LastLine(doc) /\ f \in Nat /\ e.start \in Grid(doc)
      /\ old \in Doc /\ Fits(doc, f, old) /\ Len(old) \in Nat /\ Len(old) # 0
      /\ DOMAIN old = 1..Len(old)
      /\ \A i \in 1..Len(old) : old[i] = doc[f + i] /\ old[i] \in Seq(Char)
  BY AffectedIs, DocLines, LenProperties, EmptySeq DEF Doc
<1>2. /\ e.start = At(f, e.start.col) /\ e.start.col \in 0..Len(LineOf(doc, f))
  BY <1>1, GridIs
<1>3. CaseChange(doc, e) = TextChange("Bulk", f, old, new, e.start, e.start)
  BY <1>1 DEF CaseChange
<1>. HIDE DEF f, old, inRange
<1>4. ASSUME NEW i \in 1..Len(old)
      PROVE  row(i) \in Seq(Char) /\ Len(row(i)) = Len(old[i])
  <2>1. DOMAIN old[i] = 1..Len(old[i]) /\ Len(old[i]) \in Nat /\ old[i] \in Seq(Char)
    BY <1>1, LenProperties
  <2>2. ASSUME NEW k \in 1..Len(old[i]) PROVE cell(i, k) \in Char
    <3>1. old[i][k] \in Char
      BY <2>1, ElementOfSeq
    <3>2. Recased(e.op, old[i][k]) \in Char
      BY <3>1, EditorAssumption
    <3>. QED BY <3>1, <3>2
  <2>. HIDE DEF cell
  <2>3. row(i) \in [1..Len(old[i]) -> Char]
    BY <2>1, <2>2
  <2>. HIDE DEF row
  <2>. QED BY <2>1, <2>3, IsASeq, LenProperties
<1>. HIDE DEF row
<1>5. new \in Seq(Line) /\ Len(new) = Len(old) /\ new[1] = row(1)
  <2>1. new \in [1..Len(old) -> Line] /\ new[1] = row(1)
    BY <1>1, <1>4 DEF Line
  <2>. HIDE DEF new
  <2>2. new \in Seq(Line)
    BY <1>1, <2>1, IsASeq
  <2>3. DOMAIN new = 1..Len(old) /\ DOMAIN new = 1..Len(new) /\ Len(new) \in Nat
    BY <2>1, <2>2, LenProperties
  <2>. QED BY <1>1, <2>1, <2>2, <2>3
<1>. HIDE DEF new
<1>6. 1 \in 1..Len(new) /\ f = f + 1 - 1 /\ "Bulk" \in Kinds
  BY <1>1, <1>5 DEF Kinds
<1>7. e.start.col \in 0..Len(new[1])
  <2>1. 1 \in 1..Len(old)
    BY <1>5, <1>6
  <2>2. Len(new[1]) = Len(old[1]) /\ old[1] = doc[f + 1]
    BY <1>1, <1>4, <1>5, <2>1
  <2>. QED BY <1>2, <2>2 DEF LineOf
<1>8. ChangeOf(doc, TextChange("Bulk", f, old, new, e.start, At(f, e.start.col)))
  BY <1>1, <1>5, <1>6, <1>7, ChangeInNew
<1>. QED BY <1>2, <1>3, <1>8

(* Whatever the operator, its change is one that the history may record.   *)
LEMMA PlanIs ==
    ASSUME NEW doc \in Doc, NEW e, EditOf(doc, e), e.op # "y"
    PROVE  ChangeOf(doc, PlanChange(doc, e))
<1>1. e.op \in OperatorIds
  BY DEF EditOf, Edits
<1>2. CASE e.op \in {"d", "c"}
  <2>1. PlanChange(doc, e) = EraseChange(doc, e)
    BY <1>2 DEF PlanChange, CaseOps
  <2>. QED BY <2>1, EraseLinesIs, EraseCharsIs DEF EraseChange
<1>3. CASE e.op = ">"
  <2>1. PlanChange(doc, e) = ShiftChange(doc, e, FALSE)
    BY <1>3 DEF PlanChange, CaseOps
  <2>. QED BY <2>1, ShiftIs
<1>4. CASE e.op = "<"
  <2>1. PlanChange(doc, e) = ShiftChange(doc, e, TRUE)
    BY <1>4 DEF PlanChange, CaseOps
  <2>. QED BY <2>1, ShiftIs
<1>5. CASE e.op = "="
  <2>1. PlanChange(doc, e) = IndentChange(doc, e)
    BY <1>5 DEF PlanChange, CaseOps
  <2>. QED BY <2>1, IndentChangeIs
<1>6. CASE e.op \in CaseOps
  <2>1. PlanChange(doc, e) = CaseChange(doc, e)
    BY <1>6 DEF PlanChange, CaseOps
  <2>. QED BY <1>6, <2>1, CaseIs
<1>. QED BY <1>1, <1>2, <1>3, <1>4, <1>5, <1>6 DEF OperatorIds, CaseOps

-----------------------------------------------------------------------------

(* A text with a part that is not empty is not empty.                      *)
LEMMA NotEmpty ==
    ASSUME NEW a \in Seq(Line), NEW b \in Seq(Line), a # <<>> \/ b # <<>>
    PROVE  a \o b \in Doc
<1>1. /\ a \o b \in Seq(Line) /\ Len(a \o b) = Len(a) + Len(b)
      /\ Len(a) \in Nat /\ Len(b) \in Nat
  BY ConcatRegions, LenProperties
<1>2. Len(a) # 0 \/ Len(b) # 0
  BY EmptySeq
<1>3. Len(a \o b) # 0
  BY <1>1, <1>2
<1>4. a \o b # <<>>
  BY <1>3, EmptySeq
<1>. QED BY <1>1, <1>4 DEF Doc

(* What an operator keeps is a text of one line at least; a register holds *)
(* such a text or nothing, and appending to one makes another.             *)
LEMMA KeptIs ==
    ASSUME NEW doc \in Doc, NEW e, EditOf(doc, e)
    PROVE  ExtractRegister(doc, e) \in Kept
<1> DEFINE spanned == SpannedLines(doc, e)
           first   == From(spanned[1], e.start.col)
           last    == Upto(LineOf(doc, e.end.line), e.end.col)
           one     == SubSeq(LineOf(doc, e.start.line), e.start.col + 1, e.end.col)
<1>1. CASE e.linewise
  <2>1. ExtractRegister(doc, e) = [lines |-> Affected(doc, e), linewise |-> TRUE]
    BY <1>1 DEF ExtractRegister, Text
  <2>. QED BY <2>1, AffectedIs DEF Kept
<1>2. CASE ~e.linewise
  <2>1. /\ spanned \in Doc /\ spanned[1] = LineOf(doc, e.start.line)
        /\ LineOf(doc, e.start.line) \in Seq(Char)
        /\ e.start.col \in 0..Len(LineOf(doc, e.start.line))
        /\ e.end.line \in Nat /\ e.start.line \in Nat /\ e.start.line <= e.end.line
        /\ Len(spanned) = Lesser(e.end.line + 1, Len(doc)) - e.start.line
        /\ Len(doc) \in Nat /\ Len(spanned) \in Nat
    BY <1>2, CutIs, DocLines
  <2>2. /\ first \in Seq(Char)
        /\ Tail(spanned) \in Seq(Line) /\ <<first>> \in Seq(Line) /\ <<first>> # <<>>
        /\ Len(<<first>>) = 1
    <3>1. first \in Seq(Char)
      BY <2>1, TextParts
    <3>2. Tail(spanned) \in Seq(Line)
      BY <2>1, HeadTailProperties DEF Doc
    <3>. HIDE DEF first, spanned
    <3>. QED BY <3>1, <3>2 DEF Line
  <2>3. CASE e.start.line = e.end.line
    <3>1. ExtractRegister(doc, e) = [lines |-> <<one>>, linewise |-> FALSE]
      BY <1>2, <2>3 DEF ExtractRegister, Text
    <3>2. one \in Seq(Char)
      <4>1. e.end.line < Len(doc)
        <5>1. e.start.line \in 0..LastLine(doc) /\ LastLine(doc) \in Nat /\ LastLine(doc) + 1 = Len(doc)
          BY <1>2, CutIs, DocLines
        <5>. QED BY <2>3, <5>1
      <4>2. e.end.col \in 0..Len(LineOf(doc, e.start.line))
        BY <1>2, <2>3, <4>1, CutIs
      <4> DEFINE t == LineOf(doc, e.start.line)
      <4>3. /\ e.start.col + 1 \in Int /\ e.end.col \in Int
            /\ \A i \in (e.start.col + 1)..e.end.col : t[i] \in Char
        <5>1. /\ t \in Seq(Char) /\ Len(t) \in Nat /\ e.end.col \in 0..Len(t) /\ e.start.col \in 0..Len(t)
          BY <2>1, <4>2, LenProperties
        <5>. HIDE DEF t
        <5>2. \A i \in (e.start.col + 1)..e.end.col : i \in 1..Len(t)
          BY <5>1
        <5>. QED BY <5>1, <5>2, ElementOfSeq
      <4>. HIDE DEF t
      <4>4. SubSeq(t, e.start.col + 1, e.end.col) \in Seq(Char)
        BY <4>3, SubSeqProperties
      <4>. QED BY <4>4 DEF t
    <3>. HIDE DEF one
    <3>3. <<one>> \in Seq(Line) /\ <<one>> # <<>>
      BY <3>2 DEF Line
    <3>. QED BY <3>1, <3>3 DEF Kept, Doc
  <2>4. CASE e.start.line # e.end.line /\ e.end.line >= Len(doc)
    <3>1. ExtractRegister(doc, e) = [lines |-> <<first>> \o Tail(spanned), linewise |-> FALSE]
      BY <1>2, <2>4 DEF ExtractRegister, Text
    <3>. HIDE DEF first, spanned
    <3>2. <<first>> \o Tail(spanned) \in Doc
      BY <2>2, NotEmpty
    <3>. QED BY <3>1, <3>2 DEF Kept
  <2>5. CASE e.start.line # e.end.line /\ ~(e.end.line >= Len(doc))
    <3>1. ExtractRegister(doc, e)
            = [lines |-> <<first>> \o Tail(Initial(spanned)) \o <<last>>, linewise |-> FALSE]
      BY <1>2, <2>5 DEF ExtractRegister, Text
    <3>2. last \in Seq(Char)
      <4>1. e.end.line < Len(doc)
        BY <2>1, <2>5
      <4>2. /\ LineOf(doc, e.end.line) \in Seq(Char) /\ e.end.col \in 0..Len(LineOf(doc, e.end.line))
        BY <1>2, <4>1, CutIs, DocLines
      <4>. QED BY <4>2, TextParts
    <3>3. Len(spanned) > 1
      <4>1. Lesser(e.end.line + 1, Len(doc)) = e.end.line + 1
        BY <2>1, <2>5 DEF Lesser
      <4>. QED BY <2>1, <2>5, <4>1
    <3>4. Initial(spanned) \in Seq(Line) /\ Initial(spanned) # <<>>
      <4>. HIDE DEF spanned
      <4>1. spanned \in Seq(Line) /\ spanned # <<>>
        BY <2>1 DEF Doc
      <4>2. Initial(spanned) \in Seq(Line) /\ Len(Initial(spanned)) = Len(spanned) - 1
        BY <4>1, FinalInitial
      <4>. QED BY <2>1, <3>3, <4>2, EmptySeq
    <3>5. Tail(Initial(spanned)) \in Seq(Line) /\ <<last>> \in Seq(Line)
      <4>. HIDE DEF spanned, last
      <4>. QED BY <3>2, <3>4, HeadTailProperties DEF Line
    <3>. HIDE DEF first, spanned, last
    <3>6. <<first>> \o Tail(Initial(spanned)) \in Doc
      BY <2>2, <3>5, NotEmpty
    <3> DEFINE head == <<first>> \o Tail(Initial(spanned))
               tail == <<last>>
    <3>8. head \in Seq(Line) /\ head # <<>> /\ tail \in Seq(Line)
      BY <3>5, <3>6 DEF Doc
    <3>7. head \o tail \in Doc
      <4>. HIDE DEF head, tail
      <4>. QED BY <3>8, NotEmpty
    <3> DEFINE ls == head \o tail
    <3>9. ExtractRegister(doc, e) = [lines |-> ls, linewise |-> FALSE] /\ ls \in Doc
      BY <3>1, <3>7
    <3>. HIDE DEF ls
    <3>. QED BY <3>9 DEF Kept
  <2>. QED BY <2>3, <2>4, <2>5
<1>. QED BY <1>1, <1>2

(* A register appended to holds a text of one line at least.               *)
LEMMA AppendedIs ==
    ASSUME NEW old \in Kept, NEW new \in Kept
    PROVE  Appended(old, new) \in Kept
<1> DEFINE a == old.lines
           b == new.lines
           seam == Final(a) \o b[1]
           ls == Initial(a) \o <<seam>> \o Tail(b)
<1>1. /\ a \in Doc /\ b \in Doc /\ a \in Seq(Line) /\ b \in Seq(Line) /\ a # <<>> /\ b # <<>>
      /\ old.linewise \in BOOLEAN /\ new.linewise \in BOOLEAN
  BY DEF Kept, Doc
<1>2. Appended(old, new) = [lines |-> IF old.linewise \/ new.linewise THEN a \o b ELSE ls,
                            linewise |-> old.linewise \/ new.linewise]
  BY DEF Appended, Text
<1>. HIDE DEF a, b
<1>3. a \o b \in Doc
  BY <1>1, NotEmpty
<1>4. ls \in Doc
  <2>1. /\ Initial(a) \in Seq(Line) /\ Final(a) \in Seq(Char)
    BY <1>1, FinalInitial DEF Line
  <2>2. b[1] \in Seq(Char) /\ Tail(b) \in Seq(Line)
    <3>1. 1 \in 1..Len(b)
      BY <1>1, LenProperties, EmptySeq
    <3>. QED BY <1>1, <3>1, ElementOfSeq, HeadTailProperties DEF Line
  <2>3. seam \in Seq(Char)
    BY <2>1, <2>2, ConcatRegions
  <2>. HIDE DEF seam
  <2>4. <<seam>> \in Seq(Line) /\ <<seam>> # <<>>
    BY <2>3 DEF Line
  <2>5. Initial(a) \o <<seam>> \in Doc
    BY <2>1, <2>4, NotEmpty
  <2> DEFINE head == Initial(a) \o <<seam>>
             tail == Tail(b)
  <2>6. head \in Seq(Line) /\ head # <<>> /\ tail \in Seq(Line)
    BY <2>2, <2>5 DEF Doc
  <2>. HIDE DEF head, tail
  <2>7. head \o tail \in Doc
    BY <2>6, NotEmpty
  <2>. QED BY <2>7 DEF head, tail
<1>. HIDE DEF ls
<1>. QED BY <1>1, <1>2, <1>3, <1>4 DEF Kept

(* Writing a register, by either name, keeps the bank in its type.         *)
LEMMA RegistersAre ==
    ASSUME NEW bank \in Registers, NEW name \in {"", "a", "A"}, NEW value \in Kept
    PROVE  SetRegister(bank, name, value) \in Registers
<1> DEFINE old == bank[Slot[name]]
           new == IF name = "A" /\ old # NoText THEN Appended(old, value) ELSE value
<1>1. CASE name \notin DOMAIN Slot
  <2>1. SetRegister(bank, name, value) = [bank EXCEPT ![""] = value]
    BY <1>1 DEF SetRegister
  <2>. QED BY <2>1 DEF Registers
<1>2. CASE name \in DOMAIN Slot
  <2>0. DOMAIN Slot = {"a", "A"} /\ Slot["a"] = "a" /\ Slot["A"] = "a"
    BY DEF Slot
  <2>1. Slot[name] = "a"
    BY <1>2, <2>0
  <2>2. SetRegister(bank, name, value) = [bank EXCEPT ![""] = new, ![Slot[name]] = new]
    BY <1>2 DEF SetRegister
  <2>3. new \in Kept
    <3>1. old \in Kept \cup {NoText}
      BY <2>1 DEF Registers
    <3>. HIDE DEF old
    <3>. QED BY <3>1, AppendedIs
  <2>. HIDE DEF new
  <2>. QED BY <2>1, <2>2, <2>3 DEF Registers
<1>. QED BY <1>1, <1>2
-----------------------------------------------------------------------------
(***************************************************************************)
(* The view: the render's follow_cursor always shows the cursor's line,    *)
(* and every scroll command asks for a line that its own view shows.       *)
(***************************************************************************)
LEMMA HeightIs ==
    ASSUME NEW n \in Nat
    PROVE  /\ Height(n) \in Nat \ {0} /\ (n > 0 => Height(n) = n)
           /\ HalfPage(n) \in Nat \ {0} /\ PageSize(n) \in Nat \ {0}
<1>1. Height(n) \in Nat \ {0} /\ (n > 0 => Height(n) = n)
  BY DEF Height, Greater
<1>2. Height(n) \div 2 \in Nat
  <2>1. \A h \in Nat : h \div 2 \in Nat
    OBVIOUS
  <2>. QED BY <1>1, <2>1
<1>3. HalfPage(n) \in Nat \ {0}
  BY <1>2 DEF HalfPage, Greater
<1>4. PageSize(n) \in Nat \ {0}
  BY <1>1 DEF PageSize, Greater
<1>. QED BY <1>1, <1>3, <1>4

(* follow_cursor shows the line of the cursor.                             *)
LEMMA FollowShows ==
    ASSUME NEW n \in Nat \ {0}, NEW height \in Nat \ {0}, NEW l \in 0..(n - 1), NEW t \in Nat
    PROVE  /\ FollowTop(n, height, l, t) \in Nat
           /\ FollowTop(n, height, l, t) <= l /\ l < FollowTop(n, height, l, t) + height
<1>1. Height(height) = height
  BY HeightIs
<1>2. Lesser(l, n - 1) = l
  BY DEF Lesser
<1>. QED BY <1>1, <1>2 DEF FollowTop, Lesser

(* A view that shows the cursor's line stays as it is.                     *)
LEMMA FollowStays ==
    ASSUME NEW n \in Nat \ {0}, NEW height \in Nat, NEW l \in 0..(n - 1), NEW t \in 0..(n - 1),
           t <= l, l < t + Height(height)
    PROVE  FollowTop(n, height, l, t) = t
<1>1. Height(height) \in Nat
  BY HeightIs
<1>2. Lesser(l, n - 1) = l /\ Lesser(t, n - 1) = t
  BY DEF Lesser
<1>. QED BY <1>1, <1>2 DEF FollowTop

(* Every scroll command, with any count, asks for a line of the document,  *)
(* and for a view that shows it if the view showed the cursor.             *)
LEMMA ScrollLands ==
    ASSUME NEW n \in Nat \ {0}, NEW height \in Nat, NEW id \in ScrollIds, NEW l \in 0..(n - 1),
           NEW t \in Nat, NEW count \in Nat \ {0}, NEW counted \in BOOLEAN
    PROVE  LET r == ApplyScroll(n, height, id, l, t, count, counted)
           IN  /\ r.line \in 0..(n - 1) /\ r.top \in 0..(n - 1)
               /\ (t <= l /\ l < t + Height(height)) => r.top <= r.line /\ r.line < r.top + Height(height)
<1> DEFINE r   == ApplyScroll(n, height, id, l, t, count, counted)
           b   == Lesser(t, n - 1)
           h   == Height(height)
           m   == count * PageSize(height)
           step == HalfStep(height, count, counted)
           target == ScrollTarget(n, l, count, counted)
           Good(s) == /\ s.line \in 0..(n - 1) /\ s.top \in 0..(n - 1)
                      /\ (t <= l /\ l < t + h) => s.top <= s.line /\ s.line < s.top + h
<1>1. /\ Lesser(l, n - 1) = l /\ b \in 0..(n - 1) /\ b \in Nat /\ h \in Nat /\ h # 0
      /\ (t <= l => b = t)
  BY HeightIs DEF Lesser
<1>2. m \in Nat
  <2>1. PageSize(height) \in Nat
    BY HeightIs
  <2>. QED BY <2>1
<1>3. step \in Nat /\ target \in 0..(n - 1)
  BY HeightIs DEF HalfStep, ScrollTarget, Lesser
<1>4. VisibleRows(n, height, b) \in 1..(n - b) /\ VisibleRows(n, height, b) <= h
  <2>1. VisibleRows(n, height, b) = Lesser(n - b, h)
    BY <1>1 DEF VisibleRows, Lesser
  <2>. HIDE DEF b, h
  <2>. QED BY <1>1, <2>1 DEF Lesser
<1>5. \A x, y \in Nat : Scrolled(x, y).line = x /\ Scrolled(x, y).top = y
  BY DEF Scrolled
<1>6. r = CASE id = "C-f" -> PageDown(n, height, l, b, count)
            [] id = "C-b" -> PageUp(n, height, l, b, count)
            [] id = "C-d" -> HalfDown(n, height, l, b, step)
            [] id = "C-u" -> HalfUp(n, height, l, b, step)
            [] id = "H"   -> LineTop(n, height, b, count)
            [] id = "M"   -> LineMiddle(n, height, b)
            [] id = "L"   -> LineBottom(n, height, b, count)
            [] id = "zz"  -> Scrolled(target, ClampTop(n, target - (h - 1) \div 2))
            [] id = "zt"  -> Scrolled(target, target)
            [] id = "zb"  -> Scrolled(target, ClampTop(n, target - (h - 1)))
  BY <1>1, Zenon DEF ApplyScroll
<1>7. \A x \in Nat, y \in Nat :
        /\ x <= n - 1 /\ y <= n - 1
        /\ (t <= l /\ l < t + h) => y <= x /\ x < y + h
        => Good(Scrolled(x, y))
  BY <1>5
<1>. SUFFICES Good(r)
  OBVIOUS
<1>. HIDE DEF r, b, h, m, step, target, Good
<1>8. CASE id = "C-f"
  <2> DEFINE nt == IF b + h >= n THEN n - 1 ELSE ClampTop(n, b + m)
  <2>1. r = Scrolled(nt, nt)
    BY <1>6, <1>8 DEF PageDown, h, m
  <2>2. nt \in Nat /\ nt <= n - 1 /\ nt <= nt /\ nt < nt + h
    BY <1>1, <1>2 DEF ClampTop, Clamped
  <2>. HIDE DEF nt
  <2>. QED BY <1>7, <2>1, <2>2
<1>9. CASE id = "C-b"
  <2> DEFINE nt == ClampTop(n, b - m)
             x  == Lesser(n - 1, nt + h - 1)
  <2>1. r = IF nt = b THEN Scrolled(l, b) ELSE Scrolled(x, nt)
    BY <1>6, <1>9 DEF PageUp, h, m
  <2>2. nt \in Nat /\ nt <= n - 1
    BY <1>1, <1>2 DEF ClampTop, Clamped
  <2>. HIDE DEF nt
  <2>3. x \in Nat /\ x <= n - 1 /\ nt <= x /\ x < nt + h
    BY <1>1, <2>2 DEF Lesser
  <2>. HIDE DEF x
  <2>4. Good(Scrolled(x, nt))
    BY <1>7, <2>2, <2>3
  <2>5. Good(Scrolled(l, b))
    <3>1. l \in Nat /\ l <= n - 1 /\ b \in Nat /\ b <= n - 1
          /\ ((t <= l /\ l < t + h) => b <= l /\ l < b + h)
      BY <1>1
    <3>. QED BY <1>7, <3>1
  <2>. QED BY <2>1, <2>4, <2>5
<1>10. \A x \in Nat, y \in 0..(n - 1) :
         LET z == InView(n, height, x, y) IN z \in Nat /\ z <= n - 1 /\ y <= z /\ z < y + h
  BY <1>1 DEF InView, Clamped, Lesser, h
<1>11. CASE id = "C-d"
  <2> DEFINE nt == Clamped(b + step, 0, Greater(0, n - h))
             x  == InView(n, height, Lesser(l + step, n - 1), nt)
  <2>1. r = Scrolled(x, nt)
    BY <1>6, <1>11 DEF HalfDown, h
  <2>2. nt \in 0..(n - 1) /\ nt \in Nat /\ Lesser(l + step, n - 1) \in Nat
    BY <1>1, <1>3 DEF Clamped, Greater, Lesser
  <2>. HIDE DEF nt
  <2>3. x \in Nat /\ x <= n - 1 /\ nt <= x /\ x < nt + h
    BY <1>10, <2>2
  <2>. HIDE DEF x
  <2>. QED BY <1>7, <2>1, <2>2, <2>3
<1>12. CASE id = "C-u"
  <2> DEFINE nt == Greater(0, b - step)
             x  == InView(n, height, Greater(0, l - step), nt)
  <2>1. r = Scrolled(x, nt)
    BY <1>6, <1>12 DEF HalfUp
  <2>2. nt \in 0..(n - 1) /\ nt \in Nat /\ Greater(0, l - step) \in Nat
    BY <1>1, <1>3 DEF Greater
  <2>. HIDE DEF nt
  <2>3. x \in Nat /\ x <= n - 1 /\ nt <= x /\ x < nt + h
    BY <1>10, <2>2
  <2>. HIDE DEF x
  <2>. QED BY <1>7, <2>1, <2>2, <2>3
<1> DEFINE vis == VisibleRows(n, height, b)
<1>13. ASSUME NEW k \in 0..(vis - 1) PROVE Good(Scrolled(b + k, b))
  <2>1. b + k \in Nat /\ b + k <= n - 1 /\ b <= n - 1 /\ b <= b + k /\ b + k < b + h
    BY <1>1, <1>4
  <2>. QED BY <1>1, <1>7, <2>1
<1>14. CASE id = "H"
  <2>1. r = Scrolled(b + Lesser(count - 1, vis - 1), b)
    BY <1>6, <1>14 DEF LineTop
  <2>. HIDE DEF vis
  <2>2. Lesser(count - 1, vis - 1) \in 0..(vis - 1)
    BY <1>1, <1>4 DEF Lesser, vis
  <2>. QED BY <1>13, <2>1, <2>2
<1>15. CASE id = "M"
  <2>1. r = Scrolled(b + (vis - 1) \div 2, b)
    BY <1>6, <1>15 DEF LineMiddle
  <2>2. (vis - 1) \div 2 \in 0..(vis - 1)
    <3>1. vis - 1 \in Nat
      BY <1>1, <1>4
    <3>2. \A k \in Nat : k \div 2 \in 0..k
      OBVIOUS
    <3>. HIDE DEF vis
    <3>. QED BY <3>1, <3>2
  <2>. HIDE DEF vis
  <2>. QED BY <1>13, <2>1, <2>2
<1>16. CASE id = "L"
  <2> DEFINE k == vis - 1 - Lesser(count - 1, vis - 1)
  <2>1. r = Scrolled(b + vis - 1 - Lesser(count - 1, vis - 1), b)
    BY <1>6, <1>16 DEF LineBottom
  <2>. HIDE DEF vis
  <2>2. vis \in Nat /\ vis >= 1
    BY <1>1, <1>4 DEF vis
  <2>3. Lesser(count - 1, vis - 1) \in 0..(vis - 1)
    BY <2>2 DEF Lesser
  <2>4. k \in 0..(vis - 1) /\ b + vis - 1 - Lesser(count - 1, vis - 1) = b + k
    BY <1>1, <2>2, <2>3
  <2>. HIDE DEF k
  <2>. QED BY <1>13, <2>1, <2>4
<1>17. ASSUME NEW k \in 0..(h - 1) PROVE Good(Scrolled(target, ClampTop(n, target - k)))
  <2> DEFINE y == ClampTop(n, target - k)
  <2>1. y \in Nat /\ y <= n - 1 /\ y <= target /\ target < y + h /\ target \in Nat /\ target <= n - 1
    BY <1>1, <1>3 DEF ClampTop, Clamped
  <2>. HIDE DEF y
  <2>2. Good(Scrolled(target, y))
    BY <1>7, <2>1
  <2>. QED BY <2>2 DEF y
<1>18. CASE id = "zz"
  <2>1. (h - 1) \div 2 \in 0..(h - 1)
    <3>1. h - 1 \in Nat
      BY <1>1
    <3>2. \A k \in Nat : k \div 2 \in 0..k
      OBVIOUS
    <3>. QED BY <3>1, <3>2
  <2>2. r = Scrolled(target, ClampTop(n, target - (h - 1) \div 2))
    BY <1>6, <1>18
  <2>. QED BY <1>17, <2>1, <2>2
<1>19. CASE id = "zt"
  <2>1. r = Scrolled(target, target)
    BY <1>6, <1>19
  <2>2. target \in Nat /\ target <= n - 1 /\ target < target + h
    BY <1>1, <1>3
  <2>. QED BY <1>7, <2>1, <2>2
<1>20. CASE id = "zb"
  <2>1. h - 1 \in 0..(h - 1)
    BY <1>1
  <2>2. r = Scrolled(target, ClampTop(n, target - (h - 1)))
    BY <1>6, <1>20
  <2>. QED BY <1>17, <2>1, <2>2
<1>. QED BY <1>8, <1>9, <1>11, <1>12, <1>14, <1>15, <1>16, <1>18, <1>19, <1>20 DEF ScrollIds
-----------------------------------------------------------------------------
(***************************************************************************)
(* The inductive invariant of the reducer.  The cursor is a position of    *)
(* the document, because every motion lands on one and every change and    *)
(* every undo unit carries one; the history is linked, because only such   *)
(* changes are recorded; and the view, when there is one, shows the        *)
(* cursor's line, because each command ends with follow_cursor.            *)
(***************************************************************************)
ViewInv ==
    /\ top \in Nat
    /\ rows > 0 => top <= cursor.line /\ cursor.line < top + rows

EditorInv ==
    /\ HistInv
    /\ mode \in Modes /\ cursor \in Grid(lines) /\ desired \in Nat
    /\ registers \in Registers /\ rows \in Heights
    /\ ViewInv

(* What each step is shown to do: it keeps the invariant, and it is a step *)
(* of the history or leaves the history as it is.                          *)
Keeps == EditorInv' /\ [HistNext]_histVars

(* The render after a command restores the view.                           *)
LEMMA FollowView ==
    ASSUME lines' \in Doc, cursor' \in Grid(lines'), rows' \in Heights, NEW t \in Nat, Follow(t)
    PROVE  ViewInv'
<1>1. /\ Len(lines') \in Nat \ {0} /\ cursor'.line \in 0..(Len(lines') - 1) /\ rows' \in Nat
  BY GridIs, DocLines, EditorAssumption DEF LastLine
<1>2. CASE rows' = 0
  BY <1>2 DEF Follow, ViewInv
<1>3. CASE rows' # 0
  <2>1. top' = FollowTop(Len(lines'), rows', cursor'.line, t) /\ rows' \in Nat \ {0}
    BY <1>1, <1>3 DEF Follow
  <2>2. /\ FollowTop(Len(lines'), rows', cursor'.line, t) \in Nat
        /\ FollowTop(Len(lines'), rows', cursor'.line, t) <= cursor'.line
        /\ cursor'.line < FollowTop(Len(lines'), rows', cursor'.line, t) + rows'
    BY <1>1, <2>1, FollowShows
  <2>. QED BY <2>1, <2>2 DEF ViewInv
<1>. QED BY <1>2, <1>3

(* A command that leaves the history alone.                                *)
LEMMA HistoryStays ==
    ASSUME HistInv, UNCHANGED histVars
    PROVE  HistInv' /\ lines' = lines /\ lines' \in Doc
BY DEF histVars, HistInv, TypeInv, DepthBound, Linked, UndoLinked, RedoLinked

(* A command that only moves.                                              *)
LEMMA MoveStep ==
    ASSUME EditorInv, UNCHANGED histVars, mode' \in Modes, cursor' \in Grid(lines), desired' \in Nat,
           registers' \in Registers, rows' \in Heights, NEW t \in Nat, Follow(t)
    PROVE  Keeps
<1>1. HistInv' /\ lines' = lines /\ lines' \in Doc
  BY HistoryStays DEF EditorInv
<1>2. cursor' \in Grid(lines')
  BY <1>1
<1>3. ViewInv'
  BY <1>1, <1>2, FollowView
<1>. QED BY <1>1, <1>2, <1>3 DEF EditorInv, Keeps

(* A command that records a change that the history may record.            *)
LEMMA EditStep ==
    ASSUME EditorInv, NEW c, ChangeOf(lines, c), NEW tag \in Kinds, Edit(c, tag), mode' \in Modes
    PROVE  Keeps
<1>1. HistInv /\ c \in Change
  BY DEF EditorInv, ChangeOf
<1>2. Record(c, tag) /\ cursor' = c.after /\ desired' = c.after.col /\ Follow(top)
      /\ registers' = registers /\ rows' = rows
  BY DEF Edit, windowVars
<1>3. HistInv' /\ lines' \in Doc
  BY <1>1, <1>2, RecordStep
<1>4. cursor' \in Grid(lines')
  BY <1>1, <1>2 DEF ChangeOf, Record, Grid, Change
<1>5. desired' \in Nat /\ rows' \in Heights /\ registers' \in Registers /\ top \in Nat
  BY <1>1, <1>2 DEF Change, Pos, EditorInv, ViewInv
<1>6. ViewInv'
  BY <1>2, <1>3, <1>4, <1>5, FollowView
<1>7. HistNext
  BY <1>1, <1>2 DEF HistNext
<1>. QED BY <1>3, <1>4, <1>5, <1>6, <1>7 DEF EditorInv, Keeps

-----------------------------------------------------------------------------
(* The editor opens in the invariant.                                      *)
LEMMA EditorInit == Init => EditorInv
<1> SUFFICES ASSUME Init PROVE EditorInv
  OBVIOUS
<1>1. HistInv
  BY InitInv DEF Init
<1>2. lines \in Doc
  BY <1>1 DEF HistInv, TypeInv
<1>3. cursor \in Grid(lines) /\ cursor.line = 0
  <2>1. 0 \in 0..LastLine(lines)
    BY <1>2, DocLines
  <2>2. 0 \in 0..Len(LineOf(lines, 0))
    BY <1>2, <2>1, DocLines
  <2>. QED BY <1>2, <2>1, <2>2, GridIs DEF Init
<1>4. registers \in Registers
  BY DEF Init, NoRegisters, Registers
<1>5. rows \in Heights /\ rows \in Nat /\ top = 0 /\ desired = 0 /\ mode \in Modes
  BY EditorAssumption DEF Init, Modes
<1>. QED BY <1>1, <1>3, <1>4, <1>5 DEF EditorInv, ViewInv

(* What the invariant says of the position that each action starts from.   *)
LEMMA Here ==
    ASSUME EditorInv
    PROVE  /\ lines \in Doc /\ cursor \in Grid(lines) /\ HistInv /\ mode \in Modes /\ desired \in Nat
           /\ registers \in Registers /\ rows \in Heights /\ rows \in Nat /\ top \in Nat
           /\ cursor.line \in 0..LastLine(lines) /\ cursor.line \in Nat /\ cursor.col \in Nat
           /\ cursor.col \in 0..Len(CursorLine) /\ CursorLine \in Seq(Char)
           /\ Len(CursorLine) \in Nat /\ LastLine(lines) + 1 = Len(lines) /\ LastLine(lines) \in Nat
<1>1. /\ lines \in Doc /\ cursor \in Grid(lines) /\ HistInv /\ mode \in Modes /\ desired \in Nat
      /\ registers \in Registers /\ rows \in Heights /\ top \in Nat
  BY DEF EditorInv, HistInv, TypeInv, ViewInv
<1>2. rows \in Nat
  BY <1>1, EditorAssumption
<1>. QED BY <1>1, <1>2, GridIs, DocLines DEF CursorLine

(* A typed character.                                                      *)
LEMMA InsertCharStep == ASSUME EditorInv, NEW ch \in Typed, InsertChar(ch) PROVE Keeps
<1>1. ChangeOf(lines, InsertCharChange(lines, cursor, ch))
  BY Here, InsertCharIs, EditorAssumption
<1>2. Edit(InsertCharChange(lines, cursor, ch), "InsertChar") /\ mode' \in Modes
  BY Here DEF InsertChar
<1>3. "InsertChar" \in Kinds
  BY DEF Kinds
<1>. QED BY <1>1, <1>2, <1>3, EditStep

(* Enter, and a newline of a paste.                                        *)
LEMMA NewlineStep == ASSUME EditorInv, InsertNewline \/ SplitLine PROVE Keeps
<1>1. ChangeOf(lines, EnterChange(lines, cursor)) /\ ChangeOf(lines, SplitChange(lines, cursor))
  BY Here, EnterIs, SplitIs
<1>2. /\ \/ Edit(EnterChange(lines, cursor), "InsertChar")
         \/ Edit(SplitChange(lines, cursor), "InsertChar")
      /\ mode' \in Modes
  BY Here DEF InsertNewline, SplitLine
<1>3. "InsertChar" \in Kinds
  BY DEF Kinds
<1>. QED BY <1>1, <1>2, <1>3, EditStep

(* Backspace.                                                              *)
LEMMA EraseCharStep == ASSUME EditorInv, EraseChar PROVE Keeps
<1>1. "EraseChar" \in Kinds /\ mode' \in Modes
  BY Here DEF Kinds, EraseChar
<1>2. CASE cursor.col > 0 /\ Edit(EraseLeftChange(lines, cursor), "EraseChar")
  <2>1. ChangeOf(lines, EraseLeftChange(lines, cursor))
    BY <1>2, Here, EraseLeftIs
  <2>. QED BY <1>1, <1>2, <2>1, EditStep
<1>3. CASE cursor.line > 0 /\ Edit(JoinUpChange(lines, cursor), "EraseChar")
  <2>1. ChangeOf(lines, JoinUpChange(lines, cursor))
    BY <1>3, Here, JoinUpIs
  <2>. QED BY <1>1, <1>3, <2>1, EditStep
<1>. QED BY <1>2, <1>3 DEF EraseChar

(* x.                                                                      *)
LEMMA DeleteCharStep ==
    ASSUME EditorInv, NEW n \in 1..MaxCount, DeleteChar(n)
    PROVE  Keeps
<1>1. n \in Nat /\ LineOf(lines, cursor.line) # <<>> /\ "EraseChar" \in Kinds /\ mode' \in Modes
  BY Here, EditorAssumption DEF DeleteChar, CursorLine, Kinds
<1>2. ChangeOf(lines, DeleteCharChange(lines, cursor, n))
  BY <1>1, Here, DeleteCharIs
<1>. QED BY <1>1, <1>2, EditStep DEF DeleteChar

(* i and a.                                                                *)
LEMMA EnterInsertStep ==
    ASSUME EditorInv, NEW atEol \in BOOLEAN, EnterInsert(atEol)
    PROVE  Keeps
<1>1. /\ UNCHANGED histVars /\ mode' \in Modes /\ Follow(top) /\ top \in Nat
      /\ registers' \in Registers /\ rows' \in Heights /\ desired' = cursor'.col
      /\ cursor' = IF atEol THEN At(cursor.line, Len(CursorLine)) ELSE cursor
  BY Here DEF EnterInsert, windowVars, Modes
<1>2. cursor' \in Grid(lines) /\ cursor'.col \in Nat
  <2>1. Len(CursorLine) \in 0..Len(LineOf(lines, cursor.line))
    BY Here DEF CursorLine
  <2>2. At(cursor.line, Len(CursorLine)) \in Grid(lines)
    BY <2>1, Here, GridIs
  <2>3. cursor' \in Grid(lines)
    BY <1>1, <2>2, Here
  <2>. QED BY <2>3, Here, GridIs
<1>. QED BY <1>1, <1>2, MoveStep

(* clamp_cursor: back onto the document.                                   *)
LEMMA ClampedIs ==
    ASSUME NEW doc \in Doc, NEW l \in Nat, NEW c \in Nat
    PROVE  /\ At(ClampLine(doc, l), CpToByte(LineOf(doc, ClampLine(doc, l)), c)) \in Grid(doc)
           /\ At(ClampLine(doc, l), CpToByte(LineOf(doc, ClampLine(doc, l)), c)).col \in Nat
<1> DEFINE k == ClampLine(doc, l)
           b == LineOf(doc, k)
<1>1. k \in 0..LastLine(doc)
  <2>1. LastLine(doc) \in Nat /\ LastLine(doc) = Len(doc) - 1
    BY DocLines DEF LastLine
  <2>. QED BY <2>1 DEF ClampLine, Lesser
<1>. HIDE DEF k
<1>2. Len(b) \in Nat
  BY <1>1, DocLines
<1>. HIDE DEF b
<1>3. CpToByte(b, c) \in 0..Len(b) /\ CpToByte(b, c) \in Nat
  BY <1>2 DEF CpToByte, Lesser
<1>. QED BY <1>1, <1>3, GridIs DEF k, b

(* Esc.                                                                    *)
LEMMA LeaveInsertStep == ASSUME EditorInv, LeaveInsert PROVE Keeps
<1> DEFINE col == IF cursor.col > 0 THEN cursor.col - 1 ELSE 0
           l   == ClampLine(lines, cursor.line)
<1>1. /\ UNCHANGED histVars /\ mode' \in Modes /\ Follow(top) /\ top \in Nat
      /\ registers' \in Registers /\ rows' \in Heights /\ desired' = cursor'.col
      /\ cursor' = At(l, CpToByte(LineOf(lines, l), col))
  BY Here DEF LeaveInsert, windowVars, Modes
<1>2. col \in Nat
  BY Here
<1>. HIDE DEF col
<1>3. cursor' \in Grid(lines) /\ cursor'.col \in Nat
  BY <1>1, <1>2, Here, ClampedIs
<1>. QED BY <1>1, <1>3, MoveStep

(* The terminal changes its size.                                          *)
LEMMA ResizeStep == ASSUME EditorInv, Resize PROVE Keeps
<1> DEFINE l == ClampLine(lines, cursor.line)
<1>1. /\ UNCHANGED histVars /\ mode' \in Modes /\ Follow(top) /\ top \in Nat
      /\ registers' \in Registers /\ rows' \in Heights /\ desired' \in Nat
      /\ cursor' = At(l, CpToByte(LineOf(lines, l), cursor.col))
  BY Here DEF Resize
<1>2. cursor' \in Grid(lines)
  BY <1>1, Here, ClampedIs
<1>. QED BY <1>1, <1>2, MoveStep

-----------------------------------------------------------------------------
(* y, over any edit.                                                       *)
LEMMA YankStep ==
    ASSUME EditorInv, NEW e, EditOf(lines, e), NEW name \in {"", "a", "A"}, Yank(e, name)
    PROVE  Keeps
<1> DEFINE p == YankCursor(e, cursor)
<1>1. /\ UNCHANGED histVars /\ mode' \in Modes /\ rows' \in Heights /\ Follow(top) /\ top \in Nat
      /\ cursor' = OnChar(lines, p) /\ desired' = cursor'.col
      /\ registers' = SetRegister(registers, name, ExtractRegister(lines, e))
  BY Here DEF Yank
<1>2. registers' \in Registers
  BY <1>1, Here, KeptIs, RegistersAre
<1>3. p = At(e.start.line, IF e.linewise THEN cursor.col ELSE e.start.col)
  BY DEF YankCursor
<1>4. e.start.line \in 0..LastLine(lines) /\ e.start.col \in Nat
  BY Here, AffectedIs, GridIs
<1>. HIDE DEF p
<1>5. cursor' \in Grid(lines)
  BY <1>1, <1>3, <1>4, Here, OnCharIs
<1>6. desired' \in Nat
  BY <1>1, <1>5, Here, GridIs
<1>. QED BY <1>1, <1>2, <1>5, <1>6, MoveStep

(* Any other operator, over any edit.                                      *)
LEMMA RewriteStep ==
    ASSUME EditorInv, NEW e, EditOf(lines, e), e.op # "y", NEW name \in {"", "a", "A"}, Rewrite(e, name)
    PROVE  Keeps
<1> DEFINE c == PlanChange(lines, e)
<1>1. ChangeOf(lines, c)
  BY Here, PlanIs
<1>2. /\ Record(c, "Bulk") /\ mode' \in Modes /\ rows' \in Heights /\ Follow(top) /\ top \in Nat
      /\ cursor' = (IF e.op = "c" THEN c.after ELSE OnChar(lines', c.after)) /\ desired' = cursor'.col
      /\ registers' = (IF e.op \in {"d", "c"}
                         THEN SetRegister(registers, name, ExtractRegister(lines, e))
                       ELSE registers)
  BY Here DEF Rewrite, Modes
<1>. HIDE DEF c
<1>3. c \in Change /\ "Bulk" \in Kinds
  BY <1>1 DEF ChangeOf, Kinds
<1>4. HistInv' /\ lines' \in Doc
  BY <1>1, <1>2, <1>3, Here, RecordStep
<1>5. c.after \in Grid(lines')
  BY <1>1, <1>2, <1>3 DEF ChangeOf, Record, Grid, Change
<1>6. OnChar(lines', c.after) \in Grid(lines')
  <2>1. /\ c.after.line \in 0..LastLine(lines') /\ c.after.col \in Nat
        /\ c.after = At(c.after.line, c.after.col)
    BY <1>4, <1>5, GridIs
  <2>2. OnChar(lines', At(c.after.line, c.after.col)) \in Grid(lines')
    BY <1>4, <2>1, OnCharIs
  <2>. QED BY <2>1, <2>2
<1>7. cursor' \in Grid(lines')
  BY <1>2, <1>5, <1>6
<1>8. desired' \in Nat
  BY <1>2, <1>4, <1>7, GridIs
<1>9. registers' \in Registers
  BY <1>2, Here, KeptIs, RegistersAre
<1>10. ViewInv'
  BY <1>2, <1>4, <1>7, FollowView
<1>11. HistNext
  BY <1>1, <1>2, <1>3 DEF HistNext
<1>. QED BY <1>2, <1>4, <1>7, <1>8, <1>9, <1>10, <1>11 DEF EditorInv, Keeps

(* Any operator, over any edit.                                            *)
LEMMA OperatorStep ==
    ASSUME EditorInv, NEW e, EditOf(lines, e), NEW name \in {"", "a", "A"}, ApplyOperator(e, name)
    PROVE  Keeps
BY YankStep, RewriteStep DEF ApplyOperator

(* Every operator, over whatever it takes.                                 *)
LEMMA OperateStep ==
    ASSUME EditorInv, NEW op \in OperatorIds, NEW n \in Nat \ {0},
           \/ OperateOverMotion(op, n) \/ OperateOverFind(op, n) \/ OperateToFirst(op, n)
           \/ OperateOnObject(op) \/ OperateOnLines(op, n)
    PROVE  Keeps
<1>1. /\ lines \in Doc /\ cursor \in Grid(lines)
  BY Here
<1>2. \A e, name : EditOf(lines, e) /\ name \in {"", "a", "A"} /\ ApplyOperator(e, name) => Keeps
  BY OperatorStep
<1>3. CASE OperateOverMotion(op, n)
  <2>1. PICK key \in OperatorMotions : \E e \in MotionEdits(lines, op, key, cursor, n) : ApplyOperator(e, "")
    BY <1>3 DEF OperateOverMotion
  <2>2. PICK e \in MotionEdits(lines, op, key, cursor, n) : ApplyOperator(e, "")
    BY <2>1
  <2>3. EditOf(lines, e)
    BY <1>1, ComposedEdits
  <2>. QED BY <1>2, <2>2, <2>3
<1>4. CASE OperateOverFind(op, n)
  <2>1. PICK id \in {"f", "F", "t", "T"}, ch \in Targets :
          \E e \in FindEdits(lines, op, id, ch, cursor, n) : ApplyOperator(e, "")
    BY <1>4 DEF OperateOverFind
  <2>2. PICK e \in FindEdits(lines, op, id, ch, cursor, n) : ApplyOperator(e, "")
    BY <2>1
  <2>3. EditOf(lines, e)
    BY <1>1, ComposedEdits
  <2>. QED BY <1>2, <2>2, <2>3
<1>5. CASE OperateToFirst(op, n)
  <2>1. PICK e \in GotoFirstEdits(lines, op, cursor, n) : ApplyOperator(e, "")
    BY <1>5 DEF OperateToFirst
  <2>2. EditOf(lines, e)
    BY <1>1, ComposedEdits
  <2>. QED BY <1>2, <2>1, <2>2
<1>6. CASE OperateOnObject(op)
  <2>1. PICK prefix \in {"i", "a"}, key \in ObjectKeys :
          \E e \in ObjectEdits(lines, op, prefix, key, cursor) : ApplyOperator(e, "")
    BY <1>6 DEF OperateOnObject
  <2>2. PICK e \in ObjectEdits(lines, op, prefix, key, cursor) : ApplyOperator(e, "")
    BY <2>1
  <2>3. EditOf(lines, e)
    BY <1>1, ComposedEdits
  <2>. QED BY <1>2, <2>2, <2>3
<1>7. CASE OperateOnLines(op, n)
  <2>1. PICK name \in Names(op) : \E e \in DoubledEdits(lines, op, cursor, n) : ApplyOperator(e, name)
    BY <1>7 DEF OperateOnLines
  <2>2. PICK e \in DoubledEdits(lines, op, cursor, n) : ApplyOperator(e, name)
    BY <2>1
  <2>3. EditOf(lines, e) /\ name \in {"", "a", "A"}
    BY <1>1, ComposedEdits DEF Names
  <2>. QED BY <1>2, <2>2, <2>3
<1>. QED BY <1>3, <1>4, <1>5, <1>6, <1>7
-----------------------------------------------------------------------------
(* Undo and redo put the cursor on the hint of the unit they took, which   *)
(* is a position of the document that they give back.                      *)
LEMMA EditorUndoStep == ASSUME EditorInv, Undo PROVE Keeps
<1> DEFINE c == Final(undo)
           d == Final(past)
<1>1. UndoUnit /\ cursor' = c.before /\ undo # <<>>
  BY DEF Undo, UndoUnit
<1>2. HistInv' /\ lines' \in Doc /\ lines' = d
  BY <1>1, Here, UndoStep
<1>3. lines \in Doc /\ undo \in Seq(Change) /\ past \in Seq(Doc) /\ Chain("made", undo, past, lines)
  BY Here, LinkedChains DEF HistInv, TypeInv
<1>4. Joined("made", d, c, lines) /\ c \in Change
  BY <1>1, <1>3, ChainInitial, FinalInitial
<1>. HIDE DEF c, d
<1>5. cursor' \in Grid(lines')
  BY <1>1, <1>2, <1>4 DEF Joined, Leads, Grid, Change
<1>6. /\ mode' \in Modes /\ rows' \in Heights /\ registers' \in Registers /\ desired' \in Nat
      /\ Follow(top) /\ top \in Nat
  BY Here DEF Undo, windowVars
<1>7. ViewInv'
  BY <1>2, <1>5, <1>6, FollowView
<1>8. HistNext
  BY <1>1 DEF HistNext
<1>. QED BY <1>2, <1>5, <1>6, <1>7, <1>8 DEF EditorInv, Keeps

(* Redo, likewise.                                                         *)
LEMMA EditorRedoStep == ASSUME EditorInv, Redo PROVE Keeps
<1> DEFINE c == Final(redo)
           d == Final(future)
<1>1. RedoUnit /\ cursor' = c.after /\ redo # <<>>
  BY DEF Redo, RedoUnit
<1>2. HistInv' /\ lines' \in Doc /\ lines' = d
  BY <1>1, Here, RedoStep
<1>3. lines \in Doc /\ redo \in Seq(Change) /\ future \in Seq(Doc) /\ Chain("undone", redo, future, lines)
  BY Here, LinkedChains DEF HistInv, TypeInv
<1>4. Joined("undone", d, c, lines) /\ c \in Change
  BY <1>1, <1>3, ChainInitial, FinalInitial
<1>. HIDE DEF c, d
<1>5. cursor' \in Grid(lines')
  BY <1>1, <1>2, <1>4 DEF Joined, Leads, Grid, Change
<1>6. /\ mode' \in Modes /\ rows' \in Heights /\ registers' \in Registers /\ desired' \in Nat
      /\ Follow(top) /\ top \in Nat
  BY Here DEF Redo, windowVars
<1>7. ViewInv'
  BY <1>2, <1>5, <1>6, FollowView
<1>8. HistNext
  BY <1>1 DEF HistNext
<1>. QED BY <1>2, <1>5, <1>6, <1>7, <1>8 DEF EditorInv, Keeps

(* A motion that succeeds lands on a position.                             *)
LEMMA MoveToStep ==
    ASSUME EditorInv, NEW p \in Grid(lines), NEW aim \in Nat, MoveTo(p, aim)
    PROVE  Keeps
<1>1. /\ UNCHANGED histVars /\ mode' \in Modes /\ Follow(top) /\ top \in Nat
      /\ registers' \in Registers /\ rows' \in Heights /\ desired' \in Nat /\ cursor' \in Grid(lines)
  BY Here DEF MoveTo, windowVars
<1>. QED BY <1>1, MoveStep

(* A motion.                                                               *)
LEMMA MotionStep ==
    ASSUME EditorInv, NEW id \in MotionIds, NEW n \in Nat \ {0}, Move(id, n)
    PROVE  Keeps
<1> DEFINE r   == Motion(lines, id, cursor, n, desired)
           aim == IF id = "$" THEN KMaxCol ELSE IF id \in KeepAim THEN desired ELSE r.pos.col
<1>1. id \in MotionNames
  BY DEF MotionIds, MotionNames, OperatorMotions, LinewiseMotions, InclusiveMotions
<1>2. r.ok /\ MoveTo(r.pos, aim)
  BY DEF Move
<1>3. r.pos \in Grid(lines)
  BY <1>1, <1>2, Here, MotionLands
<1>. HIDE DEF r
<1>4. r.pos.col \in Nat
  BY <1>3, Here, GridIs
<1>5. aim \in Nat
  BY <1>4, Here DEF KMaxCol
<1>. HIDE DEF aim
<1>. QED BY <1>2, <1>3, <1>5, MoveToStep

(* f, F, t, T and their repetitions.                                       *)
LEMMA FindStep ==
    ASSUME EditorInv, NEW id \in {"f", "F", "t", "T"}, NEW ch, NEW n, MoveToFound(id, ch, n)
    PROVE  Keeps
<1> DEFINE r == Find(lines, id, ch, cursor, n)
<1>1. r.ok /\ MoveTo(r.pos, r.pos.col)
  BY DEF MoveToFound
<1>2. r.pos \in Grid(lines)
  BY <1>1, Here, FindLands
<1>. HIDE DEF r
<1>3. r.pos.col \in Nat
  BY <1>2, Here, GridIs
<1>. QED BY <1>1, <1>2, <1>3, MoveToStep

(* A scroll command.                                                       *)
LEMMA ScrollStep ==
    ASSUME EditorInv, NEW id \in ScrollIds, NEW n \in Nat \ {0}, NEW counted \in BOOLEAN,
           Scroll(id, n, counted)
    PROVE  Keeps
<1> DEFINE r == ApplyScroll(Len(lines), rows, id, cursor.line, top, n, counted)
<1>1. /\ UNCHANGED histVars /\ mode' \in Modes /\ Follow(r.top) /\ desired' \in Nat
      /\ registers' \in Registers /\ rows' \in Heights /\ cursor' = OnChar(lines, At(r.line, desired))
  BY Here DEF Scroll, windowVars
<1>2. r.line \in 0..(Len(lines) - 1) /\ r.top \in 0..(Len(lines) - 1)
  <2>1. Len(lines) \in Nat \ {0} /\ cursor.line \in 0..(Len(lines) - 1)
    BY Here, DocLines DEF LastLine
  <2>. QED BY <2>1, Here, ScrollLands
<1>. HIDE DEF r
<1>3. r.top \in Nat /\ r.line \in 0..LastLine(lines)
  BY <1>2, Here, DocLines DEF LastLine
<1>4. cursor' \in Grid(lines)
  BY <1>1, <1>3, Here, OnCharIs
<1>. QED BY <1>1, <1>3, <1>4, MoveStep

-----------------------------------------------------------------------------
(* Every step of the reducer.                                              *)
LEMMA EditorStep == EditorInv /\ [Next]_vars => Keeps
<1> SUFFICES ASSUME EditorInv, [Next]_vars PROVE Keeps
  OBVIOUS
<1>1. MaxCount \in Nat /\ SpanOps \subseteq OperatorIds /\ Targets \subseteq Char
      /\ Counts \subseteq Nat \ {0} /\ 1..MaxCount \subseteq Nat \ {0} /\ 1 \in Nat \ {0}
  BY EditorAssumption DEF Counts
<1>2. CASE UNCHANGED vars
  <2>1. /\ UNCHANGED histVars /\ mode' = mode /\ cursor' = cursor /\ desired' = desired
        /\ registers' = registers /\ rows' = rows /\ top' = top
    BY <1>2 DEF vars, histVars
  <2>2. HistInv' /\ lines' = lines
    BY <2>1, Here, HistoryStays
  <2>. QED BY <2>1, <2>2 DEF EditorInv, ViewInv, Keeps
<1>3. CASE \E c \in Typed : InsertChar(c)
  BY <1>3, InsertCharStep
<1>4. CASE InsertNewline \/ SplitLine
  BY <1>4, NewlineStep
<1>5. CASE EraseChar
  BY <1>5, EraseCharStep
<1>6. CASE \E atEol \in BOOLEAN : EnterInsert(atEol)
  BY <1>6, EnterInsertStep
<1>7. CASE LeaveInsert
  BY <1>7, LeaveInsertStep
<1>8. CASE \E n \in 1..MaxCount : DeleteChar(n)
  BY <1>8, DeleteCharStep
<1>9. CASE \E op \in SpanOps, n \in 1..MaxCount :
             OperateOverMotion(op, n) \/ OperateOverFind(op, n) \/ OperateToFirst(op, n)
  BY <1>1, <1>9, OperateStep
<1>10. CASE \E op \in SpanOps : OperateOnObject(op)
  BY <1>1, <1>10, OperateStep
<1>11. CASE \E op \in OperatorIds, n \in Counts : OperateOnLines(op, n)
  BY <1>1, <1>11, OperateStep
<1>12. CASE Undo
  BY <1>12, EditorUndoStep
<1>13. CASE Redo
  BY <1>13, EditorRedoStep
<1>14. CASE \E id \in MotionIds, n \in Counts : Move(id, n)
  BY <1>1, <1>14, MotionStep
<1>15. CASE \E id \in {"f", "F", "t", "T"}, ch \in Targets, n \in Counts : MoveToFound(id, ch, n)
  BY <1>15, FindStep
<1>16. CASE \E id \in ScrollIds, n \in Counts, counted \in BOOLEAN : Scroll(id, n, counted)
  BY <1>1, <1>16, ScrollStep
<1>17. CASE Resize
  BY <1>17, ResizeStep
<1>. QED BY <1>2, <1>3, <1>4, <1>5, <1>6, <1>7, <1>8, <1>9, <1>10, <1>11, <1>12, <1>13,
            <1>14, <1>15, <1>16, <1>17 DEF Next

(* A scroll asks for a line that its own view shows, so that the render    *)
(* leaves it alone, from every view that shows the cursor.                 *)
LEMMA ScrollsAreKept == ASSUME EditorInv, rows > 0 PROVE ScrollsAsAsked
<1>1. /\ Len(lines) \in Nat \ {0} /\ cursor.line \in 0..(Len(lines) - 1) /\ rows \in Nat
      /\ top \in Nat /\ Height(rows) = rows /\ top <= cursor.line /\ cursor.line < top + rows
  BY Here, DocLines, HeightIs DEF LastLine, EditorInv, ViewInv
<1>. SUFFICES ASSUME NEW id \in ScrollIds, NEW n \in 1..Len(lines) + 1, NEW counted \in BOOLEAN
              PROVE  LET r == ApplyScroll(Len(lines), rows, id, cursor.line, top, n, counted)
                     IN  /\ r.line \in 0..LastLine(lines)
                         /\ FollowTop(Len(lines), rows, r.line, r.top) = r.top
  BY DEF ScrollsAsAsked
<1> DEFINE r == ApplyScroll(Len(lines), rows, id, cursor.line, top, n, counted)
<1>2. n \in Nat \ {0}
  BY <1>1
<1>3. /\ r.line \in 0..(Len(lines) - 1) /\ r.top \in 0..(Len(lines) - 1)
      /\ r.top <= r.line /\ r.line < r.top + Height(rows)
  BY <1>1, <1>2, ScrollLands
<1>. HIDE DEF r
<1>4. FollowTop(Len(lines), rows, r.line, r.top) = r.top
  BY <1>1, <1>3, FollowStays
<1>. QED BY <1>3, <1>4 DEF LastLine, r

-----------------------------------------------------------------------------
(***************************************************************************)
(* What d and c put in the register is what they take away: with it back   *)
(* in its place the document is whole again, for every edit.               *)
(***************************************************************************)
(* A piece of a line, character by character.                              *)
LEMMA PieceIs ==
    ASSUME NEW text \in Seq(Char), NEW a \in 0..Len(text), NEW b \in a..Len(text)
    PROVE  /\ SubSeq(text, a + 1, b) \in Seq(Char) /\ Len(SubSeq(text, a + 1, b)) = b - a
           /\ \A i \in 1..(b - a) : SubSeq(text, a + 1, b)[i] = text[a + i]
<1> DEFINE s == SubSeq(text, a + 1, b)
<1>1. Len(text) \in Nat /\ a \in Nat /\ b \in Nat /\ a <= b /\ \A i \in 1..Len(text) : text[i] \in Char
  BY LenProperties, ElementOfSeq
<1>2. a + 1 \in Int /\ b \in Int /\ \A i \in (a + 1)..b : text[i] \in Char
  BY <1>1
<1>3. /\ s \in Seq(Char) /\ Len(s) = (IF a + 1 <= b THEN b - (a + 1) + 1 ELSE 0)
      /\ \A i \in 1..(b - (a + 1) + 1) : s[i] = text[a + 1 + i - 1]
  BY <1>2, SubSeqProperties
<1>. HIDE DEF s
<1>4. Len(s) = b - a
  BY <1>1, <1>3
<1>5. ASSUME NEW i \in 1..(b - a) PROVE s[i] = text[a + i]
  <2>1. i \in 1..(b - (a + 1) + 1) /\ a + 1 + i - 1 = a + i
    BY <1>1
  <2>. QED BY <1>3, <2>1
<1>. QED BY <1>3, <1>4, <1>5 DEF s

(* Two pieces that touch are one.                                          *)
LEMMA PiecesJoin ==
    ASSUME NEW text \in Seq(Char), NEW a \in 0..Len(text), NEW b \in a..Len(text)
    PROVE  Upto(text, a) \o SubSeq(text, a + 1, b) = Upto(text, b)
<1>0. Len(text) \in Nat /\ a \in Nat /\ Len(text) \in a..Len(text) /\ 0 \in 0..Len(text)
  BY LenProperties
<1> DEFINE l == SubSeq(text, 1, a)
           r == SubSeq(text, a + 1, b)
           w == SubSeq(text, 1, b)
<1>1. b \in Nat /\ a <= b /\ b <= Len(text)
  BY <1>0
<1>2. l \in Seq(Char) /\ Len(l) = a /\ \A i \in 1..a : l[i] = text[i]
  <2>1. a \in 0..Len(text)
    OBVIOUS
  <2>2. /\ SubSeq(text, 0 + 1, a) \in Seq(Char) /\ Len(SubSeq(text, 0 + 1, a)) = a - 0
        /\ \A i \in 1..(a - 0) : SubSeq(text, 0 + 1, a)[i] = text[0 + i]
    BY <1>0, <2>1, PieceIs
  <2>. QED BY <1>0, <2>2
<1>3. w \in Seq(Char) /\ Len(w) = b /\ \A i \in 1..b : w[i] = text[i]
  <2>1. b \in 0..Len(text)
    BY <1>0
  <2>2. /\ SubSeq(text, 0 + 1, b) \in Seq(Char) /\ Len(SubSeq(text, 0 + 1, b)) = b - 0
        /\ \A i \in 1..(b - 0) : SubSeq(text, 0 + 1, b)[i] = text[0 + i]
    BY <1>0, <2>1, PieceIs
  <2>. QED BY <1>0, <1>1, <2>2
<1>4. r \in Seq(Char) /\ Len(r) = b - a /\ \A i \in 1..(b - a) : r[i] = text[a + i]
  BY PieceIs
<1>. HIDE DEF l, r, w, Upto
<1>5. /\ l \o r \in Seq(Char) /\ Len(l \o r) = Len(l) + Len(r)
      /\ \A i \in 1..Len(l) : (l \o r)[i] = l[i]
      /\ \A i \in (Len(l) + 1)..(Len(l) + Len(r)) : (l \o r)[i] = r[i - Len(l)]
  <2>1. l \in Seq(Char) /\ r \in Seq(Char)
    BY <1>2, <1>4
  <2>. QED BY <2>1, ConcatRegions
<1>6. Len(l \o r) = Len(w)
  BY <1>0, <1>1, <1>2, <1>3, <1>4, <1>5
<1>7. ASSUME NEW i \in 1..Len(l \o r) PROVE (l \o r)[i] = w[i]
  <2>1. i \in 1..b
    BY <1>3, <1>6
  <2>2. CASE i <= a
    <3>1. i \in 1..a /\ i \in 1..Len(l)
      BY <1>0, <1>2, <2>1, <2>2
    <3>. QED BY <1>2, <1>3, <1>5, <2>1, <3>1
  <2>3. CASE i > a
    <3>1. /\ i \in (Len(l) + 1)..(Len(l) + Len(r)) /\ i - Len(l) = i - a
          /\ i - a \in 1..(b - a) /\ a + (i - a) = i
      BY <1>0, <1>1, <1>2, <1>4, <2>1, <2>3
    <3>. QED BY <1>3, <1>4, <1>5, <2>1, <3>1
  <2>. QED BY <1>0, <2>1, <2>2, <2>3
<1>. QED BY <1>3, <1>5, <1>6, <1>7, SeqEqual DEF l, r, w, Upto

(* A line cut in two.                                                      *)
LEMMA CutLine ==
    ASSUME NEW text \in Seq(Char), NEW a \in 0..Len(text)
    PROVE  Upto(text, a) \o From(text, a) = text
<1> DEFINE w == SubSeq(text, 1, Len(text))
<1>1. Len(text) \in Nat /\ Len(text) \in a..Len(text) /\ 0 \in 0..Len(text) /\ Len(text) \in 0..Len(text)
  BY LenProperties
<1>2. /\ SubSeq(text, 0 + 1, Len(text)) \in Seq(Char) /\ Len(SubSeq(text, 0 + 1, Len(text))) = Len(text) - 0
      /\ \A i \in 1..(Len(text) - 0) : SubSeq(text, 0 + 1, Len(text))[i] = text[0 + i]
  BY <1>1, PieceIs
<1>3. w \in Seq(Char) /\ Len(w) = Len(text) /\ \A i \in 1..Len(w) : w[i] = text[i]
  BY <1>1, <1>2
<1>. HIDE DEF w
<1>4. w = text
  BY <1>3, SeqEqual
<1>5. Upto(text, a) \o SubSeq(text, a + 1, Len(text)) = Upto(text, Len(text))
  BY <1>1, PiecesJoin
<1>. QED BY <1>4, <1>5 DEF w, Upto, From

(* A joined line, cut again where it was joined.                           *)
LEMMA CutAgain ==
    ASSUME NEW head \in Seq(Char), NEW tail \in Seq(Char)
    PROVE  Upto(head \o tail, Len(head)) = head /\ From(head \o tail, Len(head)) = tail
<1> DEFINE t == head \o tail
           l == Upto(t, Len(head))
           r == From(t, Len(head))
<1>1. /\ t \in Seq(Char) /\ Len(t) = Len(head) + Len(tail)
      /\ \A i \in 1..Len(head) : t[i] = head[i]
      /\ \A i \in (Len(head) + 1)..(Len(head) + Len(tail)) : t[i] = tail[i - Len(head)]
  BY ConcatRegions
<1>2. Len(head) \in Nat /\ Len(tail) \in Nat
  BY LenProperties
<1>. HIDE DEF t
<1>3. Len(head) \in 0..Len(t) /\ Len(t) \in Len(head)..Len(t) /\ 0 \in 0..Len(t) /\ Len(head) \in 0..Len(t)
  BY <1>1, <1>2
<1>4. l \in Seq(Char) /\ Len(l) = Len(head) /\ \A i \in 1..Len(l) : l[i] = head[i]
  <2>1. /\ SubSeq(t, 0 + 1, Len(head)) \in Seq(Char) /\ Len(SubSeq(t, 0 + 1, Len(head))) = Len(head) - 0
        /\ \A i \in 1..(Len(head) - 0) : SubSeq(t, 0 + 1, Len(head))[i] = t[0 + i]
    BY <1>1, <1>3, PieceIs
  <2>. QED BY <1>1, <1>2, <2>1 DEF Upto
<1>5. r \in Seq(Char) /\ Len(r) = Len(tail) /\ \A i \in 1..Len(r) : r[i] = tail[i]
  <2>1. /\ SubSeq(t, Len(head) + 1, Len(t)) \in Seq(Char)
        /\ Len(SubSeq(t, Len(head) + 1, Len(t))) = Len(t) - Len(head)
        /\ \A i \in 1..(Len(t) - Len(head)) : SubSeq(t, Len(head) + 1, Len(t))[i] = t[Len(head) + i]
    BY <1>1, <1>3, PieceIs
  <2>2. r \in Seq(Char) /\ Len(r) = Len(tail)
    BY <1>1, <1>2, <2>1 DEF From
  <2>3. ASSUME NEW i \in 1..Len(tail) PROVE r[i] = tail[i]
    <3>1. /\ i \in 1..(Len(t) - Len(head)) /\ (Len(head) + i) - Len(head) = i
          /\ Len(head) + i \in (Len(head) + 1)..(Len(head) + Len(tail))
      BY <1>1, <1>2
    <3>2. r[i] = t[Len(head) + i]
      BY <2>1, <3>1 DEF From
    <3>3. t[Len(head) + i] = tail[(Len(head) + i) - Len(head)]
      BY <1>1, <3>1
    <3>. QED BY <3>1, <3>2, <3>3
  <2>. QED BY <2>2, <2>3
<1>. HIDE DEF l, r
<1>6. l = head
  BY <1>4, SeqEqual
<1>7. r = tail
  BY <1>5, SeqEqual
<1>. QED BY <1>6, <1>7 DEF l, r, t

(* The text that a range covers, line by line: all but its ends are whole  *)
(* lines of the document, and the ends are made whole by what is left of   *)
(* their lines.                                                            *)
LEMMA ErasedText ==
    ASSUME NEW doc \in Doc, NEW e, EditOf(doc, e), ~e.linewise
    PROVE  LET sp   == SpannedLines(doc, e)
               text == ExtractRegister(doc, e).lines
               n    == Len(sp)
               head == HeadOf(doc, e)
               tail == TailOf(doc, e)
           IN  /\ text \in Seq(Line) /\ Len(text) = n /\ n \in Nat \ {0}
               /\ head \in Seq(Char) /\ Len(head) = e.start.col /\ tail \in Seq(Char)
               /\ n = 1 => (head \o text[1]) \o tail = sp[1]
               /\ n > 1 => /\ head \o text[1] = sp[1]
                           /\ text[n] \o tail = sp[n]
                           /\ \A i \in 2..(n - 1) : text[i] = sp[i]
<1> DEFINE sp   == SpannedLines(doc, e)
           text == ExtractRegister(doc, e).lines
           n    == Len(sp)
           head == HeadOf(doc, e)
           tail == TailOf(doc, e)
           a    == LineOf(doc, e.start.line)
           b    == LineOf(doc, e.end.line)
           c    == e.start.col
           k    == e.end.col
           first == From(sp[1], c)
           last  == Upto(b, k)
           one   == SubSeq(a, c + 1, k)
           Goal == /\ text \in Seq(Line) /\ Len(text) = n /\ n \in Nat \ {0}
                   /\ head \in Seq(Char) /\ Len(head) = e.start.col /\ tail \in Seq(Char)
                   /\ n = 1 => (head \o text[1]) \o tail = sp[1]
                   /\ n > 1 => /\ head \o text[1] = sp[1]
                               /\ text[n] \o tail = sp[n]
                               /\ \A i \in 2..(n - 1) : text[i] = sp[i]
<1>. HIDE DEF Goal
<1>1. /\ e.start.line \in 0..LastLine(doc) /\ e.start.line \in Nat /\ a \in Seq(Char) /\ Len(a) \in Nat
      /\ c \in 0..Len(a) /\ c \in Nat /\ e.end.line \in e.start.line..Len(doc) /\ e.end.line \in Nat
      /\ sp \in Doc /\ sp \in Seq(Line) /\ sp # <<>> /\ sp[1] = a
      /\ n = Lesser(e.end.line + 1, Len(doc)) - e.start.line
      /\ Len(doc) \in Nat /\ LastLine(doc) + 1 = Len(doc) /\ LastLine(doc) \in Nat
      /\ (e.end.line = e.start.line => c < k)
  <2>1. /\ e.start.line \in 0..LastLine(doc) /\ e.start.line \in Nat
        /\ c \in 0..Len(a) /\ e.end.line \in e.start.line..Len(doc) /\ e.end.line \in Nat
        /\ sp \in Doc /\ sp[1] = a
        /\ n = Lesser(e.end.line + 1, Len(doc)) - e.start.line
        /\ (e.end.line = e.start.line => c < k)
    BY CutIs
  <2>2. a \in Seq(Char) /\ Len(a) \in Nat
    BY <2>1, DocLines
  <2>3. Len(doc) \in Nat /\ LastLine(doc) + 1 = Len(doc) /\ LastLine(doc) \in Nat
    BY DocLines
  <2>4. sp \in Seq(Line) /\ sp # <<>>
    BY <2>1 DEF Doc
  <2>. HIDE DEF a, sp, c, k
  <2>. QED BY <2>1, <2>2, <2>3, <2>4
<1>2. e.end.line < Len(doc) => /\ b \in Seq(Char) /\ Len(b) \in Nat /\ k \in 0..Len(b)
                               /\ k \in Nat /\ tail = From(b, k)
  <2>1. SUFFICES ASSUME e.end.line < Len(doc)
                 PROVE  /\ b \in Seq(Char) /\ Len(b) \in Nat /\ k \in 0..Len(b)
                        /\ k \in Nat /\ tail = From(b, k)
    OBVIOUS
  <2>2. e.end.line \in 0..LastLine(doc) /\ k \in 0..Len(b)
    BY <2>1, CutIs
  <2>3. b \in Seq(Char) /\ Len(b) \in Nat
    BY <2>2, DocLines
  <2>4. tail = From(b, CpToByte(b, k))
    BY <1>1, <2>1 DEF TailOf
  <2>. HIDE DEF b, k, tail
  <2>5. CpToByte(b, k) = k
    BY <2>2, <2>3 DEF CpToByte, Lesser
  <2>. QED BY <2>2, <2>3, <2>4, <2>5
<1>3. e.end.line >= Len(doc) => tail = <<>>
  BY DEF TailOf
<1>4. head = Upto(a, c) /\ head \in Seq(Char) /\ Len(head) = c
  BY <1>1, TextParts DEF HeadOf
<1>5. /\ first = From(a, c) /\ first \in Seq(Char)
  BY <1>1, TextParts
<1>6. head \o first = a
  <2>. HIDE DEF a, c, first, head
  <2>1. Upto(a, c) \o From(a, c) = a
    BY <1>1, CutLine
  <2>. QED BY <1>4, <1>5, <2>1
<1>7. n \in Nat \ {0} /\ n = Len(sp)
  BY <1>1, LenProperties, EmptySeq
<1>8. e.end.line < Len(doc) => sp[n] = b /\ n = e.end.line + 1 - e.start.line
  <2>1. SUFFICES ASSUME e.end.line < Len(doc) PROVE sp[n] = b /\ n = e.end.line + 1 - e.start.line
    OBVIOUS
  <2>2. n = e.end.line + 1 - e.start.line
    <3>. HIDE DEF n, sp, a, b, c, k, first, last, one, head, tail, text
    <3> DEFINE over == Lesser(e.end.line + 1, Len(doc))
    <3>1. n = over - e.start.line /\ e.end.line \in Nat /\ Len(doc) \in Nat /\ e.start.line \in Nat
      BY <1>1
    <3>2. over = e.end.line + 1
      BY <2>1, <3>1 DEF Lesser
    <3>. HIDE DEF over
    <3>. QED BY <3>1, <3>2
  <2>3. Fits(doc, e.start.line, sp)
    BY CutIs
  <2>. HIDE DEF sp, n
  <2>4. doc[e.start.line + n] = sp[n]
    <3>1. n \in 1..Len(sp) /\ doc \in Seq(Line) /\ sp \in Seq(Line) /\ e.start.line \in Nat
      BY <1>1, <1>7, DocLines
    <3>. QED BY <2>3, <3>1, FitsLines
  <2>5. e.start.line + n = e.end.line + 1
    BY <1>1, <2>2
  <2>. QED BY <2>2, <2>4, <2>5 DEF LineOf
<1>9. CASE e.start.line = e.end.line
  <2>1. e.end.line < Len(doc) /\ a = b /\ c < k
    BY <1>1, <1>9
  <2>2. n = 1
    BY <1>1, <1>8, <1>9, <2>1
  <2>3. text = <<one>>
    BY <1>9 DEF ExtractRegister, Text
  <2>4. k \in c..Len(a) /\ k \in 0..Len(a) /\ tail = From(a, k)
    BY <1>1, <1>2, <2>1
  <2>. HIDE DEF a, b, c, k, head, tail, sp, n, text
  <2>5. one \in Seq(Char)
    BY <1>1, <2>4, PieceIs
  <2>6. head \o one = Upto(a, k)
    BY <1>1, <1>4, <2>4, PiecesJoin
  <2>7. Upto(a, k) \o From(a, k) = a /\ From(a, k) \in Seq(Char)
    BY <1>1, <2>4, CutLine, TextParts
  <2>. HIDE DEF one
  <2>8. text \in Seq(Line) /\ Len(text) = 1 /\ text[1] = one
    BY <2>3, <2>5 DEF Line
  <2>9. (head \o text[1]) \o tail = sp[1]
    BY <1>1, <2>4, <2>6, <2>7, <2>8
  <2>10. Goal
    BY <1>4, <1>7, <2>2, <2>4, <2>7, <2>8, <2>9 DEF c, Goal
  <2>. QED BY <2>10 DEF Goal, text, sp, n, head, tail
<1>10. CASE e.start.line # e.end.line /\ e.end.line >= Len(doc)
  <2>1. text = <<first>> \o Tail(sp)
    <3>1. e.linewise = FALSE \/ ~e.linewise
      OBVIOUS
    <3>. QED BY <1>10 DEF ExtractRegister, Text
  <2>. HIDE DEF a, b, c, k, head, tail, sp, n, text, first
  <2>2. tail = <<>> /\ tail \in Seq(Char)
    BY <1>3, <1>10, EmptySeq
  <2>3. <<first>> \in Seq(Line) /\ Len(<<first>>) = 1 /\ <<first>>[1] = first
    BY <1>5 DEF Line
  <2>4. /\ Tail(sp) \in Seq(Line) /\ Len(Tail(sp)) = n - 1
        /\ \A i \in 1..(n - 1) : Tail(sp)[i] = sp[i + 1]
    <3>1. sp \in Seq(Line) /\ sp # <<>>
      BY <1>1
    <3>2. /\ Tail(sp) \in Seq(Line) /\ Len(Tail(sp)) = Len(sp) - 1
          /\ \A i \in 1..Len(Tail(sp)) : Tail(sp)[i] = sp[i + 1]
      BY <3>1, HeadTailProperties
    <3>3. Len(Tail(sp)) = n - 1
      BY <1>7, <3>2
    <3>. QED BY <3>2, <3>3
  <2> DEFINE l == <<first>>
             r == Tail(sp)
  <2>5. l \in Seq(Line) /\ Len(l) = 1 /\ l[1] = first /\ r \in Seq(Line) /\ Len(r) = n - 1
    BY <2>3, <2>4
  <2>. HIDE DEF l, r
  <2>6. /\ l \o r \in Seq(Line) /\ Len(l \o r) = Len(l) + Len(r)
        /\ \A i \in 1..Len(l) : (l \o r)[i] = l[i]
        /\ \A i \in (Len(l) + 1)..(Len(l) + Len(r)) : (l \o r)[i] = r[i - Len(l)]
    <3>1. l \in Seq(Line) /\ r \in Seq(Line)
      BY <2>5
    <3>. QED BY <3>1, ConcatRegions
  <2>7. text = l \o r
    BY <2>1 DEF l, r
  <2>8. text \in Seq(Line) /\ Len(text) = n /\ text[1] = first
    BY <1>7, <2>5, <2>6, <2>7
  <2>9. ASSUME NEW i \in 2..n PROVE text[i] = sp[i]
    <3>1. i \in (Len(l) + 1)..(Len(l) + Len(r)) /\ i - Len(l) = i - 1 /\ i - 1 \in 1..(n - 1)
          /\ (i - 1) + 1 = i
      BY <1>7, <2>5
    <3>2. text[i] = r[i - 1]
      BY <2>6, <2>7, <3>1
    <3>. QED BY <2>4, <3>1, <3>2 DEF r
  <2>10. (head \o text[1]) \o tail = sp[1] /\ head \o text[1] = sp[1]
    BY <1>1, <1>6, <2>2, <2>8, ConcatEmptySeq
  <2>11. n > 1 => text[n] \o tail = sp[n]
    <3>1. SUFFICES ASSUME n > 1 PROVE text[n] \o tail = sp[n]
      OBVIOUS
    <3>2. n \in 2..n /\ n \in 1..Len(sp)
      BY <1>7, <3>1
    <3>3. text[n] = sp[n] /\ sp[n] \in Seq(Char)
      BY <1>1, <2>9, <3>2, ElementOfSeq DEF Line
    <3>. QED BY <2>2, <3>3, ConcatEmptySeq
  <2>12. \A i \in 2..(n - 1) : text[i] = sp[i]
    <3>1. \A i \in 2..(n - 1) : i \in 2..n
      BY <1>7
    <3>. QED BY <2>9, <3>1
  <2>13. Goal
    BY <1>4, <1>7, <2>2, <2>8, <2>10, <2>11, <2>12 DEF c, Goal
  <2>. QED BY <2>13 DEF Goal, text, sp, n, head, tail
<1>11. CASE e.start.line # e.end.line /\ ~(e.end.line >= Len(doc))
  <2>1. text = (<<first>> \o Tail(Initial(sp))) \o <<last>>
    BY <1>11 DEF ExtractRegister, Text
  <2>2. /\ e.end.line < Len(doc) /\ b \in Seq(Char) /\ Len(b) \in Nat /\ k \in 0..Len(b)
        /\ tail = From(b, k) /\ sp[n] = b /\ n = e.end.line + 1 - e.start.line
    BY <1>1, <1>2, <1>8, <1>11
  <2>. HIDE DEF a, b, c, k, head, tail, sp, n, text, first
  <2>3. n > 1
    <3>1. e.end.line \in e.start.line..Len(doc) /\ e.start.line \in Nat /\ e.end.line \in Nat /\ Len(doc) \in Nat
      BY <1>1
    <3>2. n = e.end.line + 1 - e.start.line
      BY <2>2
    <3>. QED BY <1>11, <3>1, <3>2
  <2>4. last \in Seq(Char) /\ tail \in Seq(Char) /\ last \o tail = b
    BY <2>2, TextParts, CutLine
  <2>. HIDE DEF last
  <2>5. /\ Initial(sp) \in Seq(Line) /\ Len(Initial(sp)) = n - 1 /\ Initial(sp) # <<>>
        /\ \A i \in 1..(n - 1) : Initial(sp)[i] = sp[i]
    <3>1. /\ Initial(sp) \in Seq(Line) /\ Len(Initial(sp)) = Len(sp) - 1
          /\ \A i \in 1..(Len(sp) - 1) : Initial(sp)[i] = sp[i]
      BY <1>1, FinalInitial
    <3>2. Len(Initial(sp)) # 0
      BY <1>7, <2>3, <3>1
    <3>3. Initial(sp) # <<>>
      BY <3>1, <3>2, EmptySeq
    <3>. QED BY <1>7, <3>1, <3>3
  <2> DEFINE l == <<first>>
             r == Tail(Initial(sp))
             z == <<last>>
  <2>6. l \in Seq(Line) /\ Len(l) = 1 /\ l[1] = first /\ z \in Seq(Line) /\ Len(z) = 1 /\ z[1] = last
    BY <1>5, <2>4 DEF Line
  <2>7. /\ r \in Seq(Line) /\ Len(r) = n - 2 /\ \A i \in 1..(n - 2) : r[i] = sp[i + 1]
    <3>1. /\ r \in Seq(Line) /\ Len(r) = n - 1 - 1
          /\ \A i \in 1..Len(r) : r[i] = Initial(sp)[i + 1]
      BY <2>5, HeadTailProperties
    <3>2. Len(r) = n - 2
      BY <1>7, <3>1
    <3>3. ASSUME NEW i \in 1..(n - 2) PROVE r[i] = sp[i + 1]
      <4>1. i \in 1..Len(r) /\ i + 1 \in 1..(n - 1)
        BY <1>7, <3>2
      <4>. QED BY <2>5, <3>1, <4>1
    <3>. QED BY <3>1, <3>2, <3>3
  <2>8. text = (l \o r) \o z
    BY <2>1
  <2>. HIDE DEF l, r, z
  <2> DEFINE lr == l \o r
  <2>9. /\ lr \in Seq(Line) /\ Len(lr) = n - 1 /\ lr[1] = first
        /\ \A i \in 2..(n - 1) : lr[i] = sp[i]
    <3>1. l \in Seq(Line) /\ r \in Seq(Line)
      BY <2>6, <2>7
    <3>2. /\ lr \in Seq(Line) /\ Len(lr) = Len(l) + Len(r)
          /\ \A i \in 1..Len(l) : lr[i] = l[i]
          /\ \A i \in (Len(l) + 1)..(Len(l) + Len(r)) : lr[i] = r[i - Len(l)]
      BY <3>1, ConcatRegions
    <3>. HIDE DEF lr
    <3>3. ASSUME NEW i \in 2..(n - 1) PROVE lr[i] = sp[i]
      <4>1. i \in (Len(l) + 1)..(Len(l) + Len(r)) /\ i - Len(l) = i - 1 /\ i - 1 \in 1..(n - 2)
            /\ (i - 1) + 1 = i
        BY <1>7, <2>6, <2>7
      <4>2. lr[i] = r[i - 1]
        BY <3>2, <4>1
      <4>. QED BY <2>7, <4>1, <4>2
    <3>4. Len(lr) = n - 1 /\ 1 \in 1..Len(l)
      BY <1>7, <2>6, <2>7, <3>2
    <3>5. lr[1] = first
      BY <2>6, <3>2, <3>4
    <3>. QED BY <3>2, <3>3, <3>4, <3>5
  <2>. HIDE DEF lr
  <2>10. /\ lr \o z \in Seq(Line) /\ Len(lr \o z) = Len(lr) + Len(z)
         /\ \A i \in 1..Len(lr) : (lr \o z)[i] = lr[i]
         /\ \A i \in (Len(lr) + 1)..(Len(lr) + Len(z)) : (lr \o z)[i] = z[i - Len(lr)]
    <3>1. lr \in Seq(Line) /\ z \in Seq(Line)
      BY <2>6, <2>9
    <3>. QED BY <3>1, ConcatRegions
  <2>11. text = lr \o z
    BY <2>8 DEF lr
  <2>12. /\ text \in Seq(Line) /\ Len(text) = n
    BY <1>7, <2>6, <2>9, <2>10, <2>11
  <2>13. text[1] = first /\ \A i \in 2..(n - 1) : text[i] = sp[i]
    <3>1. \A i \in 1..(n - 1) : text[i] = lr[i]
      BY <2>9, <2>10, <2>11
    <3>. QED BY <1>7, <2>3, <2>9, <3>1
  <2>14. text[n] = last
    <3>1. n \in (Len(lr) + 1)..(Len(lr) + Len(z)) /\ n - Len(lr) = 1
      BY <1>7, <2>3, <2>6, <2>9
    <3>. QED BY <2>6, <2>10, <2>11, <3>1
  <2>15. head \o text[1] = sp[1] /\ text[n] \o tail = sp[n]
    BY <1>1, <1>6, <2>2, <2>4, <2>13, <2>14
  <2>16. n # 1
    BY <1>7, <2>3
  <2>17. Goal
    BY <1>4, <1>7, <2>4, <2>12, <2>13, <2>15, <2>16 DEF c, Goal
  <2>. QED BY <2>17 DEF Goal, text, sp, n, head, tail
<1>. QED BY <1>9, <1>10, <1>11

(* What a change leaves, with the old lines put back in place of the new.  *)
LEMMA ChangeUndone ==
    ASSUME NEW doc \in Doc, NEW c, ChangeOf(doc, c)
    PROVE  /\ Fits(Apply(doc, c), c.first, c.new)
           /\ Splice(Apply(doc, c), c.first, Len(c.new), c.old) = doc
<1>1. c \in Change /\ Fits(doc, c.first, c.old)
  BY DEF ChangeOf, Leads
<1>2. Fits(Apply(doc, c), c.first, c.new) /\ Unapply(Apply(doc, c), c) = doc
  BY <1>1, LeadsBack
<1>. QED BY <1>2 DEF Unapply

(* Whole lines: the register has the lines that go, in the place of none,  *)
(* or of the one that stays.                                               *)
LEMMA ErasedLines ==
    ASSUME NEW doc \in Doc, NEW e, EditOf(doc, e), e.linewise
    PROVE  LET text == ExtractRegister(doc, e).lines
               left == Apply(doc, EraseChange(doc, e))
               at   == AffectedLines(doc, e)[1]
               gone == IF e.keep \/ Len(text) = Len(doc) THEN 1 ELSE 0
           IN  Upto(left, at) \o text \o From(left, at + gone) = doc
<1> DEFINE c    == EraseLines(doc, e)
           old  == Affected(doc, e)
           f    == AffectedLines(doc, e)[1]
           left == Apply(doc, c)
           gone == IF e.keep \/ Len(old) = Len(doc) THEN 1 ELSE 0
           indent == IndentOf(old[1])
           new  == IF e.keep THEN <<indent>> ELSE IF Len(old) = Len(doc) THEN <<<<>>>> ELSE <<>>
<1>1. ExtractRegister(doc, e).lines = old /\ EraseChange(doc, e) = c
  BY DEF ExtractRegister, EraseChange, Text
<1>2. ChangeOf(doc, c)
  BY EraseLinesIs
<1>3. c.first = f /\ c.old = old /\ c.new = new
  BY DEF EraseLines, TextChange
<1>4. Len(new) = gone
  <2>1. Len(<<indent>>) = 1 /\ Len(<<<<>>>>) = 1 /\ Len(<<>>) = 0
    OBVIOUS
  <2>. HIDE DEF indent, old
  <2>. QED BY <2>1
<1>5. Splice(left, f, gone, old) = doc
  <2>. HIDE DEF c, new, gone, old, f
  <2>. QED BY <1>2, <1>3, <1>4, ChangeUndone
<1>6. Splice(left, f, gone, old) = Upto(left, f) \o old \o From(left, f + gone)
  BY DEF Splice, Upto, From
<1>. HIDE DEF c, old, f, left
<1>. QED BY <1>1, <1>5, <1>6 DEF left, f, old

(* Characters: the register has what lies between the two texts that the   *)
(* change joins.                                                           *)
LEMMA ErasedChars ==
    ASSUME NEW doc \in Doc, NEW e, EditOf(doc, e), ~e.linewise
    PROVE  PutBack(Apply(doc, EraseChange(doc, e)), e.start, ExtractRegister(doc, e).lines) = doc
<1> DEFINE c    == EraseChars(doc, e)
           sp   == SpannedLines(doc, e)
           text == ExtractRegister(doc, e).lines
           n    == Len(text)
           head == HeadOf(doc, e)
           tail == TailOf(doc, e)
           f    == e.start.line
           left == Apply(doc, c)
           b    == LineOf(left, f)
           mid  == [i \in 1..n |-> (IF i = 1 THEN Upto(b, e.start.col) ELSE <<>>) \o text[i]
                                     \o (IF i = n THEN From(b, e.start.col) ELSE <<>>)]
<1>1. EraseChange(doc, e) = c
  BY DEF EraseChange
<1>2. ChangeOf(doc, c)
  BY EraseCharsIs
<1>3. /\ c.first = f /\ c.old = sp /\ c.new = <<head \o tail>>
  BY DEF EraseChars, TextChange
<1>4. /\ text \in Seq(Line) /\ n = Len(sp) /\ n \in Nat \ {0}
      /\ head \in Seq(Char) /\ Len(head) = e.start.col /\ tail \in Seq(Char)
      /\ n = 1 => (head \o text[1]) \o tail = sp[1]
      /\ n > 1 => /\ head \o text[1] = sp[1]
                  /\ text[n] \o tail = sp[n]
                  /\ \A i \in 2..(n - 1) : text[i] = sp[i]
  <2>1. /\ text \in Seq(Line) /\ Len(text) = Len(sp) /\ Len(sp) \in Nat \ {0}
        /\ head \in Seq(Char) /\ Len(head) = e.start.col /\ tail \in Seq(Char)
        /\ Len(sp) = 1 => (head \o text[1]) \o tail = sp[1]
        /\ Len(sp) > 1 => /\ head \o text[1] = sp[1]
                         /\ text[Len(sp)] \o tail = sp[Len(sp)]
                         /\ \A i \in 2..(Len(sp) - 1) : text[i] = sp[i]
    <3>. HIDE DEF n, mid, b, left, c
    <3>. QED BY ErasedText
  <2>2. n = Len(sp)
    BY <2>1
  <2>. HIDE DEF n, mid, b, left, c, head, tail, text, sp
  <2>. QED BY <2>1, <2>2
<1>5. sp \in Seq(Line) /\ f \in Nat /\ f \in 0..LastLine(doc)
  BY CutIs DEF Doc
<1>. HIDE DEF c, sp, text, n, head, tail, f
<1>6. Fits(left, f, <<head \o tail>>) /\ Splice(left, f, Len(<<head \o tail>>), sp) = doc
  BY <1>2, <1>3, ChangeUndone
<1>. HIDE DEF left
<1>7. Len(<<head \o tail>>) = 1 /\ <<head \o tail>>[1] = head \o tail
  OBVIOUS
<1>8. b = head \o tail
  <2>1. SubSeq(left, f + 1, f + 1) = <<head \o tail>> /\ f + 1 <= Len(left)
    BY <1>6, <1>7 DEF Fits
  <2>2. left \in Seq(Line)
    <3>1. Apply(doc, c) \in Doc
      BY <1>2, ApplyInDoc DEF ChangeOf
    <3>. QED BY <3>1 DEF left, Doc
  <2>3. head \o tail \in Seq(Char) /\ <<head \o tail>> \in Seq(Line)
    BY <1>4, ConcatRegions DEF Line
  <2> DEFINE joined == <<head \o tail>>
  <2>4. joined \in Seq(Line) /\ Fits(left, f, joined) /\ Len(joined) = 1 /\ joined[1] = head \o tail
    BY <1>6, <1>7, <2>3
  <2>. HIDE DEF joined, b, mid
  <2>5. \A i \in 1..Len(joined) : left[f + i] = joined[i]
    <3>1. left \in Seq(Line) /\ joined \in Seq(Line) /\ f \in Nat /\ Fits(left, f, joined)
      BY <1>5, <2>2, <2>4
    <3>. QED BY <3>1, FitsLines
  <2>. QED BY <1>5, <2>4, <2>5 DEF LineOf, b
<1>. HIDE DEF b
<1>9. Upto(b, e.start.col) = head /\ From(b, e.start.col) = tail
  BY <1>4, <1>8, CutAgain
<1>10. mid = sp
  <2>1. ASSUME NEW i \in 1..n PROVE mid[i] = sp[i]
    <3> DEFINE x == IF i = 1 THEN head ELSE <<>>
               z == IF i = n THEN tail ELSE <<>>
    <3>1. mid[i] = (x \o text[i]) \o z
      BY <1>9
    <3>0. /\ i = 1 => x = head
          /\ i # 1 => x = <<>>
          /\ i = n => z = tail
          /\ i # n => z = <<>>
      OBVIOUS
    <3>2. text[i] \in Seq(Char)
      BY <1>4, ElementOfSeq DEF Line, n
    <3>. HIDE DEF mid, x, z
    <3>3. CASE n = 1
      <4>1. i = 1 /\ i = n
        BY <3>3
      <4>. QED BY <1>4, <3>0, <3>1, <3>3, <4>1
    <3>4. CASE n > 1 /\ i = 1
      <4>0. i # n
        BY <1>4, <3>4
      <4>5. x = head /\ z = <<>>
        BY <3>0, <3>4, <4>0
      <4>1. mid[i] = (head \o text[i]) \o <<>>
        BY <3>1, <4>5
      <4>2. head \o text[i] \in Seq(Char)
        BY <1>4, <3>2, ConcatRegions
      <4>3. mid[i] = head \o text[i]
        BY <4>1, <4>2, ConcatEmptySeq
      <4>. QED BY <1>4, <3>4, <4>3
    <3>5. CASE n > 1 /\ i = n
      <4>6. n \in Nat
        BY <1>4
      <4>0. i # 1
        BY <3>5, <4>6
      <4>5. x = <<>> /\ z = tail
        BY <3>0, <3>5, <4>0
      <4>1. mid[i] = (<<>> \o text[i]) \o tail
        BY <3>1, <4>5
      <4>2. <<>> \o text[i] = text[i]
        BY <3>2, ConcatEmptySeq
      <4>. QED BY <1>4, <3>5, <4>1, <4>2
    <3>6. CASE n > 1 /\ i # 1 /\ i # n
      <4>0. i \in 2..(n - 1)
        BY <1>4, <3>6
      <4>5. x = <<>> /\ z = <<>>
        BY <3>0, <3>6, <4>0
      <4>1. mid[i] = (<<>> \o text[i]) \o <<>>
        BY <3>1, <4>5
      <4>2. <<>> \o text[i] = text[i] /\ text[i] \o <<>> = text[i]
        BY <3>2, ConcatEmptySeq
      <4>. QED BY <1>4, <3>6, <4>0, <4>1, <4>2
    <3>. QED BY <1>4, <3>3, <3>4, <3>5, <3>6
  <2>2. sp = [i \in 1..n |-> sp[i]]
    BY <1>4, <1>5, LenProperties
  <2>3. mid = [i \in 1..n |-> mid[i]]
    OBVIOUS
  <2>. HIDE DEF mid
  <2>. QED BY <2>1, <2>2, <2>3
<1>11. PutBack(left, e.start, text) = Upto(left, f) \o mid \o From(left, f + 1)
  BY DEF PutBack, b, n, f
<1>. HIDE DEF mid
<1>12. Splice(left, f, 1, sp) = Upto(left, f) \o sp \o From(left, f + 1)
  BY DEF Splice, Upto, From
<1>13. PutBack(left, e.start, text) = doc
  BY <1>6, <1>7, <1>10, <1>11, <1>12
<1>. QED BY <1>1, <1>13 DEF left, text

(* Every edit that an operator has at the cursor.                          *)
LEMMA ErasedIsInRegister == ASSUME EditorInv PROVE KeepsErased
<1>. SUFFICES ASSUME NEW op \in {"d", "c"}, NEW e \in EditsHere(op)
              PROVE  LET text == ExtractRegister(lines, e).lines
                         left == Apply(lines, EraseChange(lines, e))
                         at   == AffectedLines(lines, e)[1]
                         gone == IF e.keep \/ Len(text) = Len(lines) THEN 1 ELSE 0
                     IN  IF e.linewise
                           THEN Upto(left, at) \o text \o From(left, at + gone) = lines
                         ELSE PutBack(left, e.start, text) = lines
  BY DEF KeepsErased
<1>1. op \in OperatorIds /\ lines \in Doc /\ cursor \in Grid(lines)
      /\ 1 \in Nat \ {0} /\ \A n \in 1..2 : n \in Nat \ {0}
  BY Here DEF OperatorIds
<1>2. EditOf(lines, e)
  <2>1. CASE \E key \in OperatorMotions, n \in 1..2 : e \in MotionEdits(lines, op, key, cursor, n)
    BY <1>1, <2>1, ComposedEdits
  <2>2. CASE \E id \in {"f", "F", "t", "T"}, ch \in Targets :
               e \in FindEdits(lines, op, id, ch, cursor, 1)
    BY <1>1, <2>2, ComposedEdits
  <2>3. CASE \E prefix \in {"i", "a"}, key \in ObjectKeys :
               e \in ObjectEdits(lines, op, prefix, key, cursor)
    BY <1>1, <2>3, ComposedEdits
  <2>4. CASE \E n \in 1..2 : e \in DoubledEdits(lines, op, cursor, n)
    BY <1>1, <2>4, ComposedEdits
  <2> DEFINE A == UNION {MotionEdits(lines, op, key, cursor, n) : key \in OperatorMotions, n \in 1..2}
             B == UNION {FindEdits(lines, op, id, ch, cursor, 1) :
                             id \in {"f", "F", "t", "T"}, ch \in Targets}
             C == UNION {ObjectEdits(lines, op, prefix, key, cursor) :
                             prefix \in {"i", "a"}, key \in ObjectKeys}
             D == UNION {DoubledEdits(lines, op, cursor, n) : n \in 1..2}
  <2>5. e \in A => \E key \in OperatorMotions, n \in 1..2 : e \in MotionEdits(lines, op, key, cursor, n)
    OBVIOUS
  <2>6. e \in B => \E id \in {"f", "F", "t", "T"}, ch \in Targets :
                      e \in FindEdits(lines, op, id, ch, cursor, 1)
    OBVIOUS
  <2>7. e \in C => \E prefix \in {"i", "a"}, key \in ObjectKeys :
                      e \in ObjectEdits(lines, op, prefix, key, cursor)
    OBVIOUS
  <2>8. e \in D => \E n \in 1..2 : e \in DoubledEdits(lines, op, cursor, n)
    OBVIOUS
  <2>9. e \in ((A \cup B) \cup C) \cup D
    BY DEF EditsHere
  <2>. HIDE DEF A, B, C, D
  <2>. QED BY <2>1, <2>2, <2>3, <2>4, <2>5, <2>6, <2>7, <2>8, <2>9
<1>3. CASE e.linewise
  BY <1>1, <1>2, <1>3, ErasedLines
<1>4. CASE ~e.linewise
  BY <1>1, <1>2, <1>4, ErasedChars
<1>. QED BY <1>3, <1>4

-----------------------------------------------------------------------------
(***************************************************************************)
(* The word motions miss no start and no end of a word, from any position  *)
(* of any document.                                                        *)
(***************************************************************************)
(* Of three characters, a of a word: what is alike and what is not.        *)
LEMMA SameRunIs ==
    ASSUME NEW big \in BOOLEAN, NEW a, NEW b, NEW c
    PROVE  /\ SameRun(big, a, b) /\ SameRun(big, a, c) => SameRun(big, b, c)
           /\ a \notin BlankFor(big) /\ SameRun(big, a, b) => b \notin BlankFor(big)
           /\ a \notin BlankFor(big) /\ b \in BlankFor(big) => ~SameRun(big, a, b)
           /\ SameRun(big, a, b) /\ ~SameRun(big, a, c) => ~SameRun(big, b, c)
           /\ b \notin BlankFor(big) /\ SameRun(big, a, c) /\ ~SameRun(big, a, b)
                => ~SameRun(big, b, c)
<1>1. CASE big
  BY <1>1 DEF SameRun, BlankFor
<1>2. CASE ~big
  BY <1>2 DEF SameRun, BlankFor, Class
<1>. QED BY <1>1, <1>2

(* The characters next to a run do not belong to it.                       *)
LEMMA RunIsWhole ==
    ASSUME NEW text \in Seq(Char), NEW big \in BOOLEAN, NEW col \in 0..(Len(text) - 1),
           big => text[col + 1] \notin Blanks
    PROVE  /\ RunStart(big, text, col) > 0 =>
                ~SameRun(big, text[col + 1], text[RunStart(big, text, col)])
           /\ RunEnd(big, text, col) < Len(text) =>
                ~SameRun(big, text[col + 1], text[RunEnd(big, text, col) + 1])
<1> DEFINE same(j) == SameRun(big, text[col + 1], text[j + 1])
           left  == {k \in 0..col : \A j \in k..col : same(j)}
           right == {k \in (col + 1)..Len(text) : \A j \in col..(k - 1) : same(j)}
           s == RunStart(big, text, col)
           e == RunEnd(big, text, col)
<1>1. Len(text) \in Nat /\ col \in Nat
  BY LenProperties
<1>2. /\ s \in 0..col /\ \A j \in s..col : same(j)
      /\ e \in (col + 1)..Len(text) /\ \A j \in col..(e - 1) : same(j)
  BY RunIs
<1>3. s = Least(left) /\ e = Greatest(right)
  BY DEF RunStart, RunEnd
<1>. HIDE DEF same, s, e
<1>4. s \in left /\ e \in right
  BY <1>2
<1>5. left \subseteq Nat /\ right \subseteq 0..Len(text)
  BY <1>1
<1>6. (\A m \in left : s <= m) /\ (\A m \in right : m <= e)
  <2>. HIDE DEF left, right
  <2>. QED BY <1>1, <1>3, <1>4, <1>5, LeastIs, GreatestIs
<1>7. ASSUME s > 0 PROVE ~same(s - 1)
  <2>1. SUFFICES ASSUME same(s - 1) PROVE FALSE
    OBVIOUS
  <2>2. s - 1 \in 0..col /\ \A j \in (s - 1)..col : j = s - 1 \/ j \in s..col
    BY <1>1, <1>2, <1>7
  <2>3. s - 1 \in left
    BY <1>2, <2>1, <2>2
  <2>. QED BY <1>1, <1>2, <1>6, <2>3
<1>8. ASSUME e < Len(text) PROVE ~same(e)
  <2>1. SUFFICES ASSUME same(e) PROVE FALSE
    OBVIOUS
  <2>2. e + 1 \in (col + 1)..Len(text) /\ \A j \in col..((e + 1) - 1) : j = e \/ j \in col..(e - 1)
    BY <1>1, <1>2, <1>8
  <2>3. e + 1 \in right
    BY <1>2, <2>1, <2>2
  <2>. QED BY <1>1, <1>2, <1>6, <2>3
<1>9. (s - 1) + 1 = s
  BY <1>1, <1>2
<1>. QED BY <1>7, <1>8, <1>9 DEF same, s, e

(* No word starts inside a run, but one does at its first column; and none *)
(* ends before its last.                                                   *)
LEMMA RunStops ==
    ASSUME NEW doc \in Doc, NEW big \in BOOLEAN, NEW q \in NonBlank(doc, big)
    PROVE  LET s == RunStart(big, LineOf(doc, q.line), q.col)
               e == RunEnd(big, LineOf(doc, q.line), q.col)
           IN  /\ s \in 0..q.col /\ e \in (q.col + 1)..Len(LineOf(doc, q.line))
               /\ At(q.line, s) \in WordStops(doc, big)
               /\ \A p \in WordStops(doc, big) :
                    p.line = q.line => p.col <= s \/ p.col >= e
               /\ \A p \in WordEnds(doc, big) :
                    p.line = q.line => p.col < s \/ p.col >= e - 1
               /\ \A p \in NonBlank(doc, big) :
                    p.line = q.line /\ p.col = e => p \in WordStops(doc, big)
<1> DEFINE text == LineOf(doc, q.line)
           s == RunStart(big, text, q.col)
           e == RunEnd(big, text, q.col)
           c == text[q.col + 1]
<1>1. /\ q \in Cells(doc) /\ q \in Grid(doc) /\ q.line \in 0..LastLine(doc)
      /\ q.col \in Nat /\ q.col < Len(text) /\ c \notin BlankFor(big)
  BY StopsAre, CellsAre, GridIs DEF NonBlank, CharAt
<1>2. text \in Seq(Char) /\ Len(text) \in Nat
  BY <1>1, DocLines
<1>3. q.col \in 0..(Len(text) - 1) /\ (big => c \notin Blanks)
  BY <1>1, <1>2 DEF BlankFor
<1>4. /\ s \in 0..q.col /\ \A j \in s..q.col : SameRun(big, c, text[j + 1])
      /\ e \in (q.col + 1)..Len(text) /\ \A j \in q.col..(e - 1) : SameRun(big, c, text[j + 1])
  BY <1>2, <1>3, RunIs
<1>5. /\ s > 0 => ~SameRun(big, c, text[s])
      /\ e < Len(text) => ~SameRun(big, c, text[e + 1])
  BY <1>2, <1>3, RunIsWhole
<1>. HIDE DEF s, e, c
<1>6. \A j \in s..(e - 1) : SameRun(big, c, text[j + 1]) /\ j \in 0..(Len(text) - 1)
  <2>1. \A j \in s..(e - 1) : (j \in s..q.col \/ j \in q.col..(e - 1)) /\ j \in 0..(Len(text) - 1)
    BY <1>1, <1>2, <1>4
  <2>. QED BY <1>4, <2>1
<1>. HIDE DEF text
<1>7. \A j \in 0..(Len(text) - 1) :
         /\ At(q.line, j) \in Cells(doc) /\ CharAt(doc, At(q.line, j)) = text[j + 1]
         /\ At(q.line, j).line = q.line /\ At(q.line, j).col = j
  <2>. SUFFICES ASSUME NEW j \in 0..(Len(text) - 1)
                PROVE  /\ At(q.line, j) \in Cells(doc) /\ CharAt(doc, At(q.line, j)) = text[j + 1]
                       /\ At(q.line, j).line = q.line /\ At(q.line, j).col = j
    OBVIOUS
  <2>1. j \in 0..Len(LineOf(doc, q.line)) /\ j < Len(LineOf(doc, q.line))
    BY <1>2 DEF text
  <2>2. At(q.line, j) \in Grid(doc) /\ At(q.line, j).line = q.line /\ At(q.line, j).col = j
    BY <1>1, <2>1, GridIs
  <2>. QED BY <2>1, <2>2, CellsAre DEF CharAt, text
<1>8. At(q.line, s) \in WordStops(doc, big)
  <2>1. s \in s..(e - 1) /\ s \in 0..(Len(text) - 1) /\ s \in Nat
    BY <1>1, <1>2, <1>4
  <2> DEFINE p == At(q.line, s)
  <2>2. p \in Cells(doc) /\ CharAt(doc, p) = text[s + 1] /\ p.line = q.line /\ p.col = s
    BY <1>7, <2>1
  <2>. HIDE DEF p
  <2>3. SameRun(big, c, text[s + 1])
    BY <1>6, <2>1
  <2>4. p \in NonBlank(doc, big)
    BY <1>1, <2>2, <2>3, SameRunIs DEF NonBlank
  <2>5. s # 0 => ~SameRun(big, CharAt(doc, p), CharAt(doc, At(p.line, p.col - 1)))
    <3>1. SUFFICES ASSUME s # 0
                   PROVE ~SameRun(big, CharAt(doc, p), CharAt(doc, At(p.line, p.col - 1)))
      OBVIOUS
    <3>2. s > 0 /\ s - 1 \in 0..(Len(text) - 1) /\ (s - 1) + 1 = s
      BY <2>1, <3>1
    <3>3. CharAt(doc, At(q.line, s - 1)) = text[s]
      BY <1>7, <3>2
    <3>4. ~SameRun(big, text[s + 1], text[s])
      BY <1>5, <2>3, <3>2, SameRunIs
    <3>. QED BY <2>2, <3>3, <3>4
  <2>. QED BY <2>2, <2>4, <2>5 DEF WordStops, p
<1>9. ASSUME NEW p \in WordStops(doc, big), p.line = q.line PROVE p.col <= s \/ p.col >= e
  <2>1. SUFFICES ASSUME ~(p.col <= s \/ p.col >= e) PROVE FALSE
    OBVIOUS
  <2>2. CASE p \in {At(l, 0) : l \in EmptyLines(doc)}
    <3>1. p.col = 0
      BY <2>2 DEF At
    <3>. QED BY <1>1, <1>4, <2>1, <3>1
  <2>3. CASE /\ p \in NonBlank(doc, big)
             /\ p.col = 0 \/ ~SameRun(big, CharAt(doc, p), CharAt(doc, At(p.line, p.col - 1)))
    <3>1. p \in Grid(doc) /\ p.col \in Nat /\ p = At(p.line, p.col)
      BY <2>3, StopsAre, GridIs
    <3>2. p.col \in s..(e - 1) /\ p.col - 1 \in s..(e - 1) /\ (p.col - 1) + 1 = p.col /\ p.col # 0
      BY <1>1, <1>4, <2>1, <3>1
    <3>3. CharAt(doc, p) = text[p.col + 1] /\ CharAt(doc, At(p.line, p.col - 1)) = text[p.col]
      BY <1>6, <1>7, <1>9, <3>1, <3>2
    <3>4. SameRun(big, c, text[p.col + 1]) /\ SameRun(big, c, text[p.col])
      BY <1>6, <3>2
    <3>5. SameRun(big, text[p.col + 1], text[p.col])
      BY <3>4, SameRunIs
    <3>. QED BY <2>3, <3>2, <3>3, <3>5
  <2>. QED BY <2>2, <2>3 DEF WordStops
<1>10. ASSUME NEW p \in WordEnds(doc, big), p.line = q.line PROVE p.col < s \/ p.col >= e - 1
  <2>1. SUFFICES ASSUME ~(p.col < s \/ p.col >= e - 1) PROVE FALSE
    OBVIOUS
  <2>2. /\ p \in NonBlank(doc, big)
        /\ \/ p.col = LastCol(LineOf(doc, p.line))
           \/ ~SameRun(big, CharAt(doc, p), CharAt(doc, At(p.line, p.col + 1)))
    BY DEF WordEnds
  <2>3. p \in Grid(doc) /\ p.col \in Nat /\ p = At(p.line, p.col)
    BY <2>2, StopsAre, GridIs
  <2>4. p.col \in s..(e - 1) /\ p.col + 1 \in s..(e - 1)
    BY <1>1, <1>2, <1>4, <2>1, <2>3
  <2>5. p.col # LastCol(text)
    <3>1. p.col + 1 <= Len(text) - 1 /\ text # <<>>
      BY <1>2, <1>4, <1>6, <2>4, EmptySeq
    <3>. QED BY <1>2, <2>3, <3>1 DEF LastCol
  <2>6. CharAt(doc, p) = text[p.col + 1] /\ CharAt(doc, At(p.line, p.col + 1)) = text[(p.col + 1) + 1]
    BY <1>6, <1>7, <1>10, <2>3, <2>4
  <2>7. SameRun(big, text[p.col + 1], text[(p.col + 1) + 1])
    <3>1. SameRun(big, c, text[p.col + 1]) /\ SameRun(big, c, text[(p.col + 1) + 1])
      BY <1>6, <2>4
    <3>. QED BY <3>1, SameRunIs
  <2>. QED BY <1>10, <2>2, <2>5, <2>6, <2>7 DEF text
<1>11. ASSUME NEW p \in NonBlank(doc, big), p.line = q.line, p.col = e
       PROVE  p \in WordStops(doc, big)
  <2>1. p \in Cells(doc) /\ p \in Grid(doc) /\ p.col < Len(text) /\ p = At(p.line, p.col)
    BY <1>11, StopsAre, CellsAre, GridIs DEF text
  <2>2. e \in 0..(Len(text) - 1) /\ e - 1 \in s..(e - 1) /\ (e - 1) + 1 = e /\ e < Len(text)
    BY <1>1, <1>2, <1>4, <1>11, <2>1
  <2>3. CharAt(doc, p) = text[e + 1] /\ CharAt(doc, At(p.line, p.col - 1)) = text[e]
    BY <1>6, <1>7, <1>11, <2>1, <2>2
  <2>4. SameRun(big, c, text[e]) /\ ~SameRun(big, c, text[e + 1])
    BY <1>5, <1>6, <2>2
  <2>5. text[e + 1] \notin BlankFor(big)
    BY <2>3 DEF NonBlank
  <2>6. ~SameRun(big, text[e + 1], text[e])
    BY <2>4, <2>5, SameRunIs
  <2>. QED BY <2>3, <2>6 DEF WordStops
<1>. QED BY <1>4, <1>8, <1>9, <1>10, <1>11 DEF s, e, text

(* Where a word may start is a position.                                   *)
LEMMA WordStopsAre ==
    ASSUME NEW doc \in Doc, NEW big \in BOOLEAN, NEW s \in WordStops(doc, big)
    PROVE  /\ s \in Grid(doc) /\ s.line \in Nat /\ s.col \in Nat /\ s = At(s.line, s.col)
           /\ \/ s \in NonBlank(doc, big)
              \/ s.line \in EmptyLines(doc) /\ s.col = 0
<1>1. CASE s \in NonBlank(doc, big)
  BY <1>1, StopsAre, GridIs
<1>2. CASE s \in {At(l, 0) : l \in EmptyLines(doc)}
  <2>1. PICK l \in EmptyLines(doc) : s = At(l, 0)
    BY <1>2
  <2>2. s \in Grid(doc) /\ s.line = l /\ s.col = 0
    BY <2>1, StopsAre DEF At
  <2>. QED BY <2>2, GridIs
<1>. QED BY <1>1, <1>2 DEF WordStops

(* A word under the cursor.                                                *)
LEMMA OnWordNonBlank ==
    ASSUME NEW doc \in Doc, NEW big \in BOOLEAN, NEW p \in Grid(doc)
    PROVE  OnWord(doc, big, p) <=> p \in NonBlank(doc, big)
  BY CellsAre DEF OnWord, NonBlank

(* w and W.                                                                *)
LEMMA ForwardMissesNoStop ==
    ASSUME NEW doc \in Doc, NEW big \in BOOLEAN, NEW p \in Grid(doc)
    PROVE  LET next == WordForward(doc, p, big)
           IN  /\ \A s \in WordStops(doc, big) : ~(Before(p, s) /\ Before(s, next))
               /\ \/ next \in WordStops(doc, big)
                  \/ \A s \in WordStops(doc, big) : ~Before(p, s)
<1> DEFINE e     == RunEnd(big, LineOf(doc, p.line), p.col)
           from  == IF OnWord(doc, big, p) THEN At(p.line, e) ELSE p
           later == {q \in NonBlank(doc, big) : ~Before(q, from)}
           stops == later \cup {At(l, 0) : l \in {m \in EmptyLines(doc) : m > p.line}}
           next  == WordForward(doc, p, big)
<1>1. p.line \in Nat /\ p.col \in Nat /\ p = At(p.line, p.col)
  BY GridIs
<1>2. stops \subseteq Grid(doc) /\ stops \subseteq Pos
  BY StopsAre
<1>3. next = IF stops = {} THEN OnChar(doc, At(LastLine(doc), KMaxCol)) ELSE Nearest(stops)
  BY DEF WordForward
<1>4. /\ OnWord(doc, big, p) => /\ p \in NonBlank(doc, big) /\ e \in Nat /\ p.col < e
                                /\ from.line = p.line /\ from.col = e
                                /\ \A s \in WordStops(doc, big) :
                                     s.line = p.line => s.col <= p.col \/ s.col >= e
                                /\ \A s \in NonBlank(doc, big) :
                                     s.line = p.line /\ s.col = e => s \in WordStops(doc, big)
      /\ ~OnWord(doc, big, p) => from = p /\ p \notin NonBlank(doc, big)
  <2>1. CASE OnWord(doc, big, p)
    <3>1. p \in NonBlank(doc, big) /\ Len(LineOf(doc, p.line)) \in Nat
      BY <2>1, OnWordNonBlank, GridIs, DocLines
    <3>2. from.line = p.line /\ from.col = e
      BY <2>1 DEF At
    <3> DEFINE s0 == RunStart(big, LineOf(doc, p.line), p.col)
    <3>3. /\ s0 \in 0..p.col /\ e \in (p.col + 1)..Len(LineOf(doc, p.line))
          /\ \A s \in WordStops(doc, big) : s.line = p.line => s.col <= s0 \/ s.col >= e
          /\ \A s \in NonBlank(doc, big) :
                s.line = p.line /\ s.col = e => s \in WordStops(doc, big)
      BY <3>1, RunStops
    <3>. HIDE DEF s0, e, from
    <3>4. e \in Nat /\ p.col < e
      BY <1>1, <3>1, <3>3
    <3>5. ASSUME NEW s \in WordStops(doc, big), s.line = p.line PROVE s.col <= p.col \/ s.col >= e
      BY <1>1, <3>3, <3>5, WordStopsAre
    <3>. QED BY <2>1, <3>1, <3>2, <3>3, <3>4, <3>5
  <2>2. CASE ~OnWord(doc, big, p)
    BY <2>2, OnWordNonBlank
  <2>. QED BY <2>1, <2>2
<1>. HIDE DEF next, e, from
<1>5. ASSUME NEW s \in WordStops(doc, big), Before(p, s) PROVE s \in stops
  <2>1. s.line \in Nat /\ s.col \in Nat /\ s = At(s.line, s.col)
    BY WordStopsAre
  <2>2. CASE s \in NonBlank(doc, big)
    <3>1. ~Before(s, from)
      <4>1. CASE OnWord(doc, big, p)
        BY <1>1, <1>4, <1>5, <2>1, <4>1 DEF Before
      <4>2. CASE ~OnWord(doc, big, p)
        BY <1>1, <1>4, <1>5, <2>1, <4>2 DEF Before
      <4>. QED BY <4>1, <4>2
    <3>. QED BY <2>2, <3>1
  <2>3. CASE s.line \in EmptyLines(doc) /\ s.col = 0
    <3>1. s.line > p.line
      BY <1>1, <1>5, <2>1, <2>3 DEF Before
    <3>. QED BY <2>1, <2>3, <3>1
  <2>. QED BY <2>2, <2>3, WordStopsAre
<1>6. ASSUME NEW s \in WordStops(doc, big), Before(p, s), Before(s, next) PROVE FALSE
  <2>1. s \in stops
    BY <1>5, <1>6
  <2>. HIDE DEF stops
  <2>2. ~Before(s, Nearest(stops)) /\ next = Nearest(stops)
    BY <1>2, <1>3, <2>1, NearestIs
  <2>. QED BY <1>6, <2>2
<1>7. ASSUME stops # {} PROVE next \in WordStops(doc, big)
  <2>1. next \in stops /\ \A q \in stops : ~Before(q, next)
    <3>. HIDE DEF stops
    <3>. QED BY <1>2, <1>3, <1>7, NearestIs
  <2>2. CASE next \in {At(l, 0) : l \in {m \in EmptyLines(doc) : m > p.line}}
    BY <2>2 DEF WordStops
  <2>3. CASE next \in NonBlank(doc, big) /\ ~Before(next, from)
    <3>1. /\ next \in Grid(doc) /\ next.line \in Nat /\ next.col \in Nat
          /\ next.line \in 0..LastLine(doc) /\ next.col \in 0..Len(LineOf(doc, next.line))
      BY <2>3, StopsAre, GridIs
    <3>2. CASE next.col = 0
      BY <2>3, <3>2 DEF WordStops
    <3>3. CASE next.col # 0
      <4> DEFINE prev == At(next.line, next.col - 1)
      <4>1. Len(LineOf(doc, next.line)) \in Nat
        BY <3>1, DocLines
      <4>2. next.col - 1 \in 0..Len(LineOf(doc, next.line)) /\ next.col - 1 < Len(LineOf(doc, next.line))
        BY <3>1, <3>3, <4>1
      <4>3. /\ prev \in Grid(doc) /\ prev.line = next.line /\ prev.col = next.col - 1
        BY <3>1, <4>2, GridIs
      <4>. HIDE DEF prev
      <4>4. prev \in Cells(doc)
        BY <4>2, <4>3, CellsAre
      <4>5. CASE CharAt(doc, prev) \in BlankFor(big)
        <5>1. ~SameRun(big, CharAt(doc, next), CharAt(doc, prev))
          BY <2>3, <4>5, SameRunIs DEF NonBlank
        <5>. QED BY <2>3, <5>1 DEF WordStops, prev
      <4>6. CASE CharAt(doc, prev) \notin BlankFor(big)
        <5>1. prev \in NonBlank(doc, big)
          BY <4>4, <4>6 DEF NonBlank
        <5>2. Before(prev, next)
          BY <3>1, <4>3 DEF Before
        <5>3. Before(prev, from)
          BY <2>1, <5>1, <5>2
        <5>4. OnWord(doc, big, p) /\ next.line = p.line /\ next.col = e
          <6>1. CASE OnWord(doc, big, p)
            BY <1>1, <1>4, <2>3, <3>1, <3>3, <4>3, <5>3, <6>1 DEF Before
          <6>2. CASE ~OnWord(doc, big, p)
            <7>1. next.line = p.line /\ next.col = p.col
              BY <1>1, <1>4, <2>3, <3>1, <3>3, <4>3, <5>3, <6>2 DEF Before
            <7>2. next = p
              BY <1>1, <3>1, <7>1, GridIs
            <7>. QED BY <1>4, <2>3, <6>2, <7>2
          <6>. QED BY <6>1, <6>2
        <5>. QED BY <1>4, <2>3, <5>4
      <4>. QED BY <4>5, <4>6
    <3>. QED BY <3>2, <3>3
  <2>. QED BY <2>1, <2>2, <2>3
<1>8. stops = {} => \A s \in WordStops(doc, big) : ~Before(p, s)
  <2>. HIDE DEF stops
  <2>. QED BY <1>5
<1>. HIDE DEF stops
<1>9. next \in WordStops(doc, big) \/ \A s \in WordStops(doc, big) : ~Before(p, s)
  BY <1>7, <1>8
<1>. QED BY <1>6, <1>9 DEF next

(* b and B.                                                                *)
LEMMA BackMissesNoStop ==
    ASSUME NEW doc \in Doc, NEW big \in BOOLEAN, NEW p \in Grid(doc)
    PROVE  LET back == WordBack(doc, p, big)
           IN  /\ \A s \in WordStops(doc, big) : ~(Before(back, s) /\ Before(s, p))
               /\ \/ back \in WordStops(doc, big)
                  \/ \A s \in WordStops(doc, big) : ~Before(s, p)
<1> DEFINE start(q) == At(q.line, RunStart(big, LineOf(doc, q.line), q.col))
           stops    == {q \in NonBlank(doc, big) : Before(q, p)}
                        \cup {At(l, 0) : l \in {m \in EmptyLines(doc) : m < p.line}}
           f        == Farthest(stops)
           back     == WordBack(doc, p, big)
<1>1. p.line \in Nat /\ p.col \in Nat /\ p.col \in 0..Len(LineOf(doc, p.line))
  BY GridIs
<1>2. stops \subseteq Grid(doc)
  BY StopsAre
<1>3. back = IF OnWord(doc, big, p) /\ start(p) # p THEN start(p)
             ELSE IF stops = {} THEN p
             ELSE IF f.line \in EmptyLines(doc) THEN f
             ELSE start(f)
  BY DEF WordBack
<1>4. ASSUME NEW q \in NonBlank(doc, big)
      PROVE  /\ start(q) \in WordStops(doc, big) /\ start(q).line = q.line
             /\ \A s \in WordStops(doc, big) :
                  s.line = q.line => s.col <= start(q).col \/ s.col > q.col
  <2> DEFINE s0 == RunStart(big, LineOf(doc, q.line), q.col)
             e0 == RunEnd(big, LineOf(doc, q.line), q.col)
  <2>1. /\ s0 \in 0..q.col /\ e0 \in (q.col + 1)..Len(LineOf(doc, q.line))
        /\ At(q.line, s0) \in WordStops(doc, big)
        /\ \A s \in WordStops(doc, big) : s.line = q.line => s.col <= s0 \/ s.col >= e0
    BY RunStops
  <2>2. q.col \in Nat /\ q.line \in 0..LastLine(doc) /\ Len(LineOf(doc, q.line)) \in Nat
    BY StopsAre, GridIs, DocLines
  <2>3. start(q).line = q.line /\ start(q).col = s0
    BY DEF At
  <2>. HIDE DEF s0, e0
  <2>4. ASSUME NEW s \in WordStops(doc, big), s.line = q.line PROVE s.col <= s0 \/ s.col > q.col
    BY <2>1, <2>2, <2>4, WordStopsAre
  <2>. QED BY <2>1, <2>3, <2>4 DEF s0
<1>5. ASSUME NEW s \in WordStops(doc, big), Before(s, p) PROVE s \in stops
  <2>1. s.line \in Nat /\ s.col \in Nat /\ s = At(s.line, s.col)
    BY WordStopsAre
  <2>2. CASE s \in NonBlank(doc, big)
    BY <1>5, <2>2
  <2>3. CASE s.line \in EmptyLines(doc) /\ s.col = 0
    <3>1. s.line < p.line
      <4>1. p.line \in EmptyLines(doc) => Len(LineOf(doc, p.line)) = 0
        BY DEF EmptyLines
      <4>. QED BY <1>1, <1>5, <2>1, <2>3, <4>1 DEF Before
    <3>. QED BY <2>1, <2>3, <3>1
  <2>. QED BY <2>2, <2>3, WordStopsAre
<1>6. stops # {} => f \in stops /\ \A q \in stops : ~Before(f, q)
  <2>. HIDE DEF stops
  <2>. QED BY <1>2, FarthestIs
<1>7. \A q \in stops : q \in NonBlank(doc, big) \/ (q \in WordStops(doc, big) /\ q.line \in EmptyLines(doc))
  BY StopsAre DEF WordStops
<1>. HIDE DEF stops, f, back, start
<1> DEFINE Goal == /\ \A s \in WordStops(doc, big) : ~(Before(back, s) /\ Before(s, p))
                   /\ \/ back \in WordStops(doc, big)
                      \/ \A s \in WordStops(doc, big) : ~Before(s, p)
<1>. SUFFICES Goal
  BY DEF back
<1>8. CASE OnWord(doc, big, p) /\ start(p) # p
  <2>1. back = start(p) /\ p \in NonBlank(doc, big)
    BY <1>3, <1>8, OnWordNonBlank
  <2>2. back \in WordStops(doc, big)
    BY <1>4, <2>1
  <2>3. ASSUME NEW s \in WordStops(doc, big), Before(back, s), Before(s, p) PROVE FALSE
    <3>1. s.line \in Nat /\ s.col \in Nat /\ back.line \in Nat /\ back.col \in Nat
      BY <2>2, WordStopsAre
    <3>2. s.line = p.line => s.col <= back.col \/ s.col > p.col
      BY <1>4, <2>1
    <3>3. back.line = p.line
      BY <1>4, <2>1
    <3>. QED BY <1>1, <2>3, <3>1, <3>2, <3>3 DEF Before
  <2>. QED BY <2>2, <2>3
<1>9. CASE ~(OnWord(doc, big, p) /\ start(p) # p) /\ stops = {}
  <2>1. back = p /\ \A s \in WordStops(doc, big) : ~Before(s, p)
    BY <1>3, <1>5, <1>9
  <2>. QED BY <2>1
<1>10. CASE ~(OnWord(doc, big, p) /\ start(p) # p) /\ stops # {}
  <2>1. f \in stops /\ \A q \in stops : ~Before(f, q)
    BY <1>6, <1>10
  <2>2. CASE f.line \in EmptyLines(doc)
    <3>1. back = f
      BY <1>3, <1>10, <2>2
    <3>2. f \notin NonBlank(doc, big)
      <4>1. f \in NonBlank(doc, big) => LineOf(doc, f.line) # <<>>
        BY StopsAre, CellsAre
      <4>. QED BY <2>2, <4>1 DEF EmptyLines
    <3>3. back \in WordStops(doc, big)
      BY <1>7, <2>1, <3>1, <3>2
    <3>. QED BY <1>5, <2>1, <3>1, <3>3
  <2>3. CASE f.line \notin EmptyLines(doc)
    <3>1. back = start(f) /\ f \in NonBlank(doc, big)
      BY <1>3, <1>7, <1>10, <2>1, <2>3
    <3>2. back \in WordStops(doc, big) /\ back.line = f.line
      BY <1>4, <3>1
    <3>3. ASSUME NEW s \in WordStops(doc, big), Before(back, s), Before(s, p) PROVE FALSE
      <4>1. s.line \in Nat /\ s.col \in Nat /\ back.line \in Nat /\ back.col \in Nat
        BY <3>2, WordStopsAre
      <4>2. f.line \in Nat /\ f.col \in Nat
        BY <3>1, StopsAre, GridIs
      <4>3. s.line = f.line => s.col <= back.col \/ s.col > f.col
        BY <1>4, <3>1
      <4>4. ~Before(f, s)
        BY <1>5, <2>1, <3>3
      <4>. QED BY <3>2, <3>3, <4>1, <4>2, <4>3, <4>4 DEF Before
    <3>. QED BY <3>2, <3>3
  <2>. QED BY <2>2, <2>3
<1>. QED BY <1>8, <1>9, <1>10

(* e and E.                                                                *)
LEMMA EndMissesNoStop ==
    ASSUME NEW doc \in Doc, NEW big \in BOOLEAN, NEW p \in Grid(doc),
           NEW s \in WordEnds(doc, big), Before(p, s), Before(s, WordEnd(doc, p, big))
    PROVE  FALSE
<1> DEFINE end(q) == At(q.line, RunEnd(big, LineOf(doc, q.line), q.col) - 1)
           stops  == {q \in NonBlank(doc, big) : Before(p, q)}
           n      == Nearest(stops)
<1>1. p.line \in Nat /\ p.col \in Nat
  BY GridIs
<1>2. WordEnd(doc, p, big) = IF OnWord(doc, big, p) /\ end(p) # p THEN end(p)
                             ELSE IF stops = {} THEN OnChar(doc, At(LastLine(doc), KMaxCol))
                             ELSE end(n)
  BY DEF WordEnd
<1>3. s \in NonBlank(doc, big) /\ s \in stops /\ stops \subseteq Pos /\ stops \subseteq NonBlank(doc, big)
  BY StopsAre DEF WordEnds
<1>4. s.line \in Nat /\ s.col \in Nat
  BY <1>3, StopsAre, GridIs
<1>5. n \in stops /\ ~Before(s, n)
  <2>. HIDE DEF stops
  <2>. QED BY <1>3, NearestIs
<1>6. ASSUME NEW q \in NonBlank(doc, big), ~Before(s, q), Before(s, end(q)) PROVE FALSE
  <2> DEFINE s0 == RunStart(big, LineOf(doc, q.line), q.col)
             e0 == RunEnd(big, LineOf(doc, q.line), q.col)
  <2>1. /\ s0 \in 0..q.col /\ e0 \in (q.col + 1)..Len(LineOf(doc, q.line))
        /\ s.line = q.line => s.col < s0 \/ s.col >= e0 - 1
    BY RunStops
  <2>2. /\ q.col \in Nat /\ q.line \in Nat /\ q.line \in 0..LastLine(doc)
        /\ Len(LineOf(doc, q.line)) \in Nat
    BY StopsAre, GridIs, DocLines
  <2>3. end(q).line = q.line /\ end(q).col = e0 - 1
    BY DEF At
  <2>. HIDE DEF s0, e0, end
  <2>. QED BY <1>4, <1>6, <2>1, <2>2, <2>3 DEF Before
<1>7. CASE OnWord(doc, big, p) /\ end(p) # p
  <2>1. p \in NonBlank(doc, big) /\ Before(s, end(p))
    BY <1>2, <1>7, OnWordNonBlank
  <2>2. ~Before(s, p)
    BY <1>1, <1>4 DEF Before
  <2>. HIDE DEF end
  <2>. QED BY <1>6, <2>1, <2>2
<1>8. CASE ~(OnWord(doc, big, p) /\ end(p) # p)
  <2>. HIDE DEF stops, n, end
  <2>1. Before(s, end(n)) /\ n \in NonBlank(doc, big)
    BY <1>2, <1>3, <1>5, <1>8
  <2>. QED BY <1>5, <1>6, <2>1
<1>. QED BY <1>7, <1>8

(* All of them, where the cursor is.                                       *)
LEMMA WordsMissNoStop == ASSUME EditorInv PROVE MissesNoStop
<1>1. lines \in Doc /\ cursor \in Grid(lines)
  BY Here
<1>. QED BY <1>1, ForwardMissesNoStop, BackMissesNoStop, EndMissesNoStop DEF MissesNoStop

-----------------------------------------------------------------------------
(***************************************************************************)
(* Between the brackets that an object takes, the brackets are balanced.   *)
(* The code counts them from one end; what is said is said of every prefix.*)
(***************************************************************************)
(* How many of some cells come before one, after it, and up to it.         *)
CountBefore(s, q) == Cardinality({p \in s : Before(p, q)})
CountAfter(s, q)  == Cardinality({p \in s : Before(q, p)})
CountUpTo(s, q)   == Cardinality({p \in s : ~Before(q, p)})

(* The cells of a document, line by line, are finitely many.               *)
LEMMA CellsAreFinite ==
    ASSUME NEW doc \in Doc
    PROVE  IsFiniteSet(Cells(doc))
<1> DEFINE row(l)  == {At(l, c) : c \in 0..(Len(LineOf(doc, l)) - 1)}
           upto(k) == {p \in Cells(doc) : p.line < k}
           s == {k \in Nat : k <= Len(doc) => IsFiniteSet(upto(k))}
<1>1. Len(doc) \in Nat \ {0} /\ LastLine(doc) = Len(doc) - 1
  BY DocLines DEF LastLine
<1>2. \A p \in Cells(doc) : p.line \in Nat /\ p.line \in 0..LastLine(doc)
  BY CellsAre, GridIs
<1>3. 0 \in s
  <2>1. upto(0) = {}
    BY <1>2
  <2>. QED BY <2>1, FS_EmptySet
<1>4. ASSUME NEW l \in 0..LastLine(doc) PROVE IsFiniteSet(row(l))
  <2> DEFINE cols == 0..(Len(LineOf(doc, l)) - 1)
             f == [c \in cols |-> At(l, c)]
  <2>1. Len(LineOf(doc, l)) \in Nat
    BY DocLines
  <2>2. IsFiniteSet(cols)
    <3>1. 0 \in Int /\ Len(LineOf(doc, l)) - 1 \in Int
      BY <2>1
    <3>. QED BY <3>1, FS_Interval
  <2>. HIDE DEF cols
  <2>3. f \in [cols -> row(l)]
    BY DEF cols
  <2>4. \A p \in row(l) : \E c \in cols : f[c] = p
    BY DEF cols
  <2>5. f \in Surjection(cols, row(l))
    <3>. HIDE DEF f, row
    <3>. QED BY <2>3, <2>4 DEF Surjection
  <2>. QED BY <2>2, <2>5, FS_Surjection
<1>5. ASSUME NEW k \in Nat, k \in s PROVE k + 1 \in s
  <2>. SUFFICES k + 1 <= Len(doc) => IsFiniteSet(upto(k + 1))
    <3>. HIDE DEF upto
    <3>1. k + 1 \in Nat
      OBVIOUS
    <3>. QED BY <3>1
  <2>. SUFFICES ASSUME k + 1 <= Len(doc) PROVE IsFiniteSet(upto(k + 1))
    OBVIOUS
  <2>1. k \in 0..LastLine(doc) /\ k <= Len(doc)
    BY <1>1
  <2>2. upto(k + 1) \subseteq upto(k) \cup row(k)
    <3>1. ASSUME NEW p \in upto(k + 1) PROVE p \in upto(k) \cup row(k)
      <4>1. p \in Cells(doc) /\ p.line \in Nat /\ p.line < k + 1
        BY <1>2
      <4>2. CASE p.line = k
        <5>1. p \in Grid(doc) /\ p.col < Len(LineOf(doc, k)) /\ p.col \in Nat /\ p = At(k, p.col)
          BY <4>1, <4>2, CellsAre, GridIs
        <5>2. Len(LineOf(doc, k)) \in Nat
          BY <2>1, DocLines
        <5>3. p.col \in 0..(Len(LineOf(doc, k)) - 1)
          BY <5>1, <5>2
        <5>. QED BY <5>1, <5>3
      <4>3. CASE p.line # k
        BY <4>1, <4>3
      <4>. QED BY <4>2, <4>3
    <3>. HIDE DEF upto, row
    <3>. QED BY <3>1
  <2>3. IsFiniteSet(upto(k)) /\ IsFiniteSet(row(k))
    BY <1>4, <1>5, <2>1
  <2>. HIDE DEF upto, row
  <2>4. IsFiniteSet(upto(k) \cup row(k))
    BY <2>3, FS_Union
  <2>. QED BY <2>2, <2>4, FS_Subset
<1>6. Nat \subseteq s
  <2>. HIDE DEF s
  <2>. QED BY <1>3, <1>5, Induction
<1>7. IsFiniteSet(upto(Len(doc)))
  BY <1>1, <1>6
<1>8. upto(Len(doc)) = Cells(doc)
  BY <1>1, <1>2
<1>. QED BY <1>7, <1>8

(* One cell more or less.                                                  *)
LEMMA OneMore ==
    ASSUME NEW t, IsFiniteSet(t), NEW q, q \notin t, NEW u, NEW s,
           u = t \cup (IF q \in s THEN {q} ELSE {})
    PROVE  /\ Cardinality(t) \in Nat /\ Cardinality(u) \in Nat
           /\ Cardinality(u) = Cardinality(t) + (IF q \in s THEN 1 ELSE 0)
<1>1. Cardinality(t) \in Nat
  BY FS_CardinalityType
<1>2. CASE q \in s
  <2>1. u = t \cup {q}
    BY <1>2
  <2>. QED BY <1>1, <1>2, <2>1, FS_AddElement
<1>3. CASE q \notin s
  BY <1>1, <1>3
<1>. QED BY <1>2, <1>3

(* What is counted from one cell to the next, in both directions, in a set *)
(* of some of the cells.                                                   *)
LEMMA CountSteps ==
    ASSUME NEW doc \in Doc, NEW s \in SUBSET Cells(doc), NEW all \in SUBSET Cells(doc),
           s \subseteq all, NEW q \in all
    PROVE  /\ CountBefore(s, q) \in Nat /\ CountAfter(s, q) \in Nat /\ CountUpTo(s, q) \in Nat
           /\ CountUpTo(s, q) = CountBefore(s, q) + (IF q \in s THEN 1 ELSE 0)
           /\ Cardinality(s) = CountUpTo(s, q) + CountAfter(s, q)
<1>1. IsFiniteSet(s)
  BY CellsAreFinite, FS_Subset
<1> DEFINE b == {p \in s : Before(p, q)}
           a == {p \in s : Before(q, p)}
           u == {p \in s : ~Before(q, p)}
<1>2. IsFiniteSet(b) /\ IsFiniteSet(a) /\ IsFiniteSet(u)
  <2>1. b \in SUBSET s /\ a \in SUBSET s /\ u \in SUBSET s
    OBVIOUS
  <2>. HIDE DEF b, a, u
  <2>. QED BY <1>1, <2>1, FS_Subset
<1>3. \A p \in s : p \in Pos /\ p \in Grid(doc)
  BY StopsAre
<1>4. q \in Pos /\ q \in Grid(doc)
  BY StopsAre
<1>5. ~Before(q, q)
  BY <1>4 DEF Before, Pos
<1>6. \A p \in s : p # q => (~Before(q, p) <=> Before(p, q))
  <2>1. \A p \in Pos : Before(p, q) => ~Before(q, p)
    BY <1>4 DEF Before, Pos
  <2>. QED BY <1>3, <1>4, <2>1, BeforeIsLinear
<1>7. q \notin b /\ u = b \cup (IF q \in s THEN {q} ELSE {})
  BY <1>5, <1>6
<1>8. s = u \cup a /\ u \cap a = {}
  OBVIOUS
<1>. HIDE DEF b, a, u
<1>9. /\ Cardinality(b) \in Nat /\ Cardinality(u) \in Nat
      /\ Cardinality(u) = Cardinality(b) + (IF q \in s THEN 1 ELSE 0)
  BY <1>2, <1>7, OneMore
<1>10. Cardinality(a) \in Nat /\ Cardinality(s) = Cardinality(u) + Cardinality(a) - Cardinality({})
  BY <1>2, <1>8, FS_CardinalityType, FS_Union
<1>11. Cardinality(s) = Cardinality(u) + Cardinality(a)
  BY <1>9, <1>10, FS_EmptySet
<1>. QED BY <1>9, <1>10, <1>11 DEF a, b, u, CountBefore, CountAfter, CountUpTo

-----------------------------------------------------------------------------
(* Between two neighbours nothing is counted.                              *)
LEMMA Neighbours ==
    ASSUME NEW doc \in Doc, NEW s, NEW all \in SUBSET Cells(doc), s \subseteq all,
           NEW e \in all, NEW q \in all, Before(e, q), \A p \in all : Before(p, q) => ~Before(e, p)
    PROVE  CountBefore(s, q) = CountUpTo(s, e)
<1>1. \A p \in all : p \in Pos /\ p \in Grid(doc)
  BY StopsAre
<1>2. ASSUME NEW p \in s PROVE Before(p, q) <=> ~Before(e, p)
  <2>1. p \in Pos /\ p \in Grid(doc) /\ e \in Pos /\ e \in Grid(doc) /\ q \in Pos
    BY <1>1
  <2>2. p # e => Before(p, e) \/ Before(e, p)
    BY <2>1, BeforeIsLinear
  <2>3. Before(p, e) => Before(p, q)
    BY <2>1, BeforeIsTransitive
  <2>. QED BY <2>2, <2>3
<1>3. {p \in s : Before(p, q)} = {p \in s : ~Before(e, p)}
  BY <1>2
<1>. QED BY <1>3 DEF CountBefore, CountUpTo

(* No prefix closes more than it opens when no closing bracket stands      *)
(* where as many were opened as closed: the forward scan would have ended  *)
(* at it.                                                                  *)
LEMMA ForwardBalance ==
    ASSUME NEW doc \in Doc, NEW all \in SUBSET Cells(doc),
           NEW a \in SUBSET all, NEW b \in SUBSET all, a \cap b = {},
           \A q \in b : CountBefore(a, q) # CountBefore(b, q)
    PROVE  \A q \in all : CountUpTo(a, q) >= CountUpTo(b, q)
<1>1. ASSUME NEW q \in all
      PROVE  /\ CountBefore(a, q) \in Nat /\ CountUpTo(a, q) \in Nat
             /\ CountBefore(b, q) \in Nat /\ CountUpTo(b, q) \in Nat
             /\ CountUpTo(a, q) = CountBefore(a, q) + (IF q \in a THEN 1 ELSE 0)
             /\ CountUpTo(b, q) = CountBefore(b, q) + (IF q \in b THEN 1 ELSE 0)
  <2>1. a \in SUBSET Cells(doc) /\ b \in SUBSET Cells(doc)
    OBVIOUS
  <2>. QED BY <2>1, CountSteps
<1> DEFINE bad == {q \in all : CountBefore(a, q) < CountBefore(b, q)}
<1>2. bad = {}
  <2>. SUFFICES ASSUME bad # {} PROVE FALSE
    OBVIOUS
  <2> DEFINE q == Nearest(bad)
             earlier == {p \in all : Before(p, q)}
             e == Farthest(earlier)
  <2>1. all \subseteq Pos /\ all \subseteq Grid(doc) /\ bad \subseteq all
    BY StopsAre
  <2>2. q \in bad /\ \A p \in bad : ~Before(p, q)
    <3>. HIDE DEF bad
    <3>. QED BY <2>1, NearestIs
  <2>3. q \in all /\ CountBefore(a, q) < CountBefore(b, q)
    BY <2>2
  <2>. HIDE DEF q, bad
  <2>4. earlier # {}
    <3>. SUFFICES ASSUME earlier = {} PROVE FALSE
      OBVIOUS
    <3>1. {p \in b : Before(p, q)} = {} /\ {p \in a : Before(p, q)} = {}
      OBVIOUS
    <3>2. CountBefore(a, q) = CountBefore(b, q)
      BY <3>1 DEF CountBefore
    <3>. QED BY <1>1, <2>3, <3>2
  <2>5. earlier \subseteq Grid(doc)
    BY <2>1
  <2>6. \A p \in all : p \in earlier <=> Before(p, q)
    OBVIOUS
  <2>7. e \in earlier /\ (\A p \in earlier : ~Before(e, p)) /\ earlier \subseteq all
    <3>1. earlier \subseteq all
      OBVIOUS
    <3>. HIDE DEF earlier
    <3>. QED BY <2>4, <2>5, <3>1, FarthestIs
  <2>. HIDE DEF e, earlier
  <2>8. e \in all /\ Before(e, q) /\ \A p \in all : Before(p, q) => ~Before(e, p)
    BY <2>6, <2>7
  <2>9. CountBefore(a, q) = CountUpTo(a, e) /\ CountBefore(b, q) = CountUpTo(b, e)
    BY <2>3, <2>8, Neighbours
  <2>10. ~(CountBefore(a, e) < CountBefore(b, e))
    BY <2>2, <2>8 DEF bad
  <2>11. e \in b => CountBefore(a, e) # CountBefore(b, e) /\ e \notin a
    OBVIOUS
  <2>. QED BY <1>1, <2>3, <2>8, <2>9, <2>10, <2>11
<1>3. ASSUME NEW q \in all PROVE CountUpTo(a, q) >= CountUpTo(b, q)
  <2>1. ~(CountBefore(a, q) < CountBefore(b, q))
    BY <1>2
  <2>2. q \in b => CountBefore(a, q) # CountBefore(b, q) /\ q \notin a
    OBVIOUS
  <2>. QED BY <1>1, <2>1, <2>2
<1>. QED BY <1>3

(* Neither does one when all is balanced and no opening bracket stands     *)
(* where as many are opened after it as closed: the backward scan would    *)
(* have ended at it.                                                       *)
LEMMA BackwardBalance ==
    ASSUME NEW doc \in Doc, NEW all \in SUBSET Cells(doc),
           NEW a \in SUBSET all, NEW b \in SUBSET all, a \cap b = {},
           Cardinality(a) = Cardinality(b),
           \A q \in a : CountAfter(a, q) # CountAfter(b, q)
    PROVE  \A q \in all : CountUpTo(a, q) >= CountUpTo(b, q)
<1>1. ASSUME NEW q \in all
      PROVE  /\ CountBefore(a, q) \in Nat /\ CountUpTo(a, q) \in Nat /\ CountAfter(a, q) \in Nat
             /\ CountBefore(b, q) \in Nat /\ CountUpTo(b, q) \in Nat /\ CountAfter(b, q) \in Nat
             /\ CountUpTo(a, q) = CountBefore(a, q) + (IF q \in a THEN 1 ELSE 0)
             /\ CountUpTo(b, q) = CountBefore(b, q) + (IF q \in b THEN 1 ELSE 0)
             /\ CountUpTo(a, q) + CountAfter(a, q) = CountUpTo(b, q) + CountAfter(b, q)
  <2>1. a \in SUBSET Cells(doc) /\ b \in SUBSET Cells(doc)
    OBVIOUS
  <2>2. /\ CountBefore(a, q) \in Nat /\ CountUpTo(a, q) \in Nat /\ CountAfter(a, q) \in Nat
        /\ CountUpTo(a, q) = CountBefore(a, q) + (IF q \in a THEN 1 ELSE 0)
        /\ Cardinality(a) = CountUpTo(a, q) + CountAfter(a, q)
    BY <2>1, CountSteps
  <2>3. /\ CountBefore(b, q) \in Nat /\ CountUpTo(b, q) \in Nat /\ CountAfter(b, q) \in Nat
        /\ CountUpTo(b, q) = CountBefore(b, q) + (IF q \in b THEN 1 ELSE 0)
        /\ Cardinality(b) = CountUpTo(b, q) + CountAfter(b, q)
    BY <2>1, CountSteps
  <2>. QED BY <2>2, <2>3
<1> DEFINE bad == {q \in all : CountAfter(a, q) > CountAfter(b, q)}
<1>2. bad = {}
  <2>. SUFFICES ASSUME bad # {} PROVE FALSE
    OBVIOUS
  <2> DEFINE q == Farthest(bad)
             later == {p \in all : Before(q, p)}
             r == Nearest(later)
  <2>1. all \subseteq Pos /\ all \subseteq Grid(doc) /\ bad \subseteq all
    BY StopsAre
  <2>2. q \in bad /\ \A p \in bad : ~Before(q, p)
    <3>. HIDE DEF bad
    <3>. QED BY <2>1, FarthestIs
  <2>3. q \in all /\ CountAfter(a, q) > CountAfter(b, q)
    BY <2>2
  <2>. HIDE DEF q, bad
  <2>4. later # {}
    <3>. SUFFICES ASSUME later = {} PROVE FALSE
      OBVIOUS
    <3>1. {p \in b : Before(q, p)} = {} /\ {p \in a : Before(q, p)} = {}
      OBVIOUS
    <3>2. CountAfter(a, q) = CountAfter(b, q)
      BY <3>1 DEF CountAfter
    <3>. QED BY <1>1, <2>3, <3>2
  <2>5. later \subseteq Pos
    BY <2>1
  <2>6. \A p \in all : p \in later <=> Before(q, p)
    OBVIOUS
  <2>7. r \in later /\ (\A p \in later : ~Before(p, r)) /\ later \subseteq all
    <3>1. later \subseteq all
      OBVIOUS
    <3>. HIDE DEF later
    <3>. QED BY <2>4, <2>5, <3>1, NearestIs
  <2>. HIDE DEF r, later
  <2>8. r \in all /\ Before(q, r) /\ \A p \in all : Before(p, r) => ~Before(q, p)
    BY <2>6, <2>7
  <2>9. CountBefore(a, r) = CountUpTo(a, q) /\ CountBefore(b, r) = CountUpTo(b, q)
    BY <2>3, <2>8, Neighbours
  <2>10. ~(CountAfter(a, r) > CountAfter(b, r))
    BY <2>2, <2>8 DEF bad
  <2>11. r \in a => CountAfter(a, r) # CountAfter(b, r) /\ r \notin b
    OBVIOUS
  <2>. QED BY <1>1, <2>3, <2>8, <2>9, <2>10, <2>11
<1>3. ASSUME NEW q \in all PROVE CountUpTo(a, q) >= CountUpTo(b, q)
  <2>1. ~(CountAfter(a, q) > CountAfter(b, q))
    BY <1>2
  <2>. QED BY <1>1, <2>1
<1>. QED BY <1>3

-----------------------------------------------------------------------------
(* The brackets of a kind that stand between two cells, and whether the    *)
(* two kinds pair up there, in number and in every prefix.                 *)
Between(doc, s, e)   == {q \in Cells(doc) : Before(s, q) /\ Before(q, e)}
Marks(doc, ch, s, e) == {q \in Cells(doc) : CharAt(doc, q) = ch /\ Before(s, q) /\ Before(q, e)}
Pairs(doc, open, close, s, e) ==
    Cardinality(Marks(doc, open, s, e)) = Cardinality(Marks(doc, close, s, e))
Balances(doc, open, close, s, e) ==
    /\ Pairs(doc, open, close, s, e)
    /\ \A q \in Between(doc, s, e) :
         CountUpTo(Marks(doc, open, s, e), q) >= CountUpTo(Marks(doc, close, s, e), q)

(* The marks up to one between two cells, and the marks from it on.        *)
LEMMA MarksInside ==
    ASSUME NEW doc \in Doc, NEW ch, NEW s \in Cells(doc), NEW e \in Cells(doc),
           NEW q \in Between(doc, s, e)
    PROVE  /\ CountBefore(Marks(doc, ch, s, e), q) = Cardinality(Marks(doc, ch, s, q))
           /\ CountAfter(Marks(doc, ch, s, e), q) = Cardinality(Marks(doc, ch, q, e))
<1>1. Cells(doc) \subseteq Pos /\ q \in Cells(doc) /\ Before(s, q) /\ Before(q, e)
  BY StopsAre DEF Between
<1>2. ASSUME NEW p \in Cells(doc)
      PROVE  /\ Before(p, q) => Before(p, e)
             /\ Before(q, p) => Before(s, p)
  <2>1. p \in Pos /\ q \in Pos /\ s \in Pos /\ e \in Pos
    BY <1>1
  <2>. QED BY <1>1, <2>1, BeforeIsTransitive
<1>3. /\ {p \in Marks(doc, ch, s, e) : Before(p, q)} = Marks(doc, ch, s, q)
      /\ {p \in Marks(doc, ch, s, e) : Before(q, p)} = Marks(doc, ch, q, e)
  BY <1>2 DEF Marks
<1>. QED BY <1>3 DEF CountBefore, CountAfter

(* The marks of two kinds are different cells between the two.             *)
LEMMA MarksApart ==
    ASSUME NEW doc \in Doc, NEW open, NEW close, open # close, NEW s, NEW e
    PROVE  /\ Between(doc, s, e) \in SUBSET Cells(doc)
           /\ Marks(doc, open, s, e) \in SUBSET Between(doc, s, e)
           /\ Marks(doc, close, s, e) \in SUBSET Between(doc, s, e)
           /\ Marks(doc, open, s, e) \cap Marks(doc, close, s, e) = {}
  BY DEF Between, Marks

(* The nearest bracket that closes another one balances what is between.   *)
LEMMA ClosedBalances ==
    ASSUME NEW doc \in Doc, NEW open, NEW close, open # close,
           NEW o \in Cells(doc), NEW c \in Cells(doc), Pairs(doc, open, close, o, c),
           \A d \in Cells(doc) :
              CharAt(doc, d) = close /\ Before(o, d) /\ Pairs(doc, open, close, o, d) => ~Before(d, c)
    PROVE  Balances(doc, open, close, o, c)
<1> DEFINE a == Marks(doc, open, o, c)
           b == Marks(doc, close, o, c)
           all == Between(doc, o, c)
<1>1. ASSUME NEW q \in b PROVE CountBefore(a, q) # CountBefore(b, q)
  <2>1. q \in Cells(doc) /\ CharAt(doc, q) = close /\ Before(o, q) /\ Before(q, c) /\ q \in all
    BY DEF Marks, Between
  <2>2. ~Pairs(doc, open, close, o, q)
    BY <2>1
  <2>3. /\ CountBefore(a, q) = Cardinality(Marks(doc, open, o, q))
        /\ CountBefore(b, q) = Cardinality(Marks(doc, close, o, q))
    BY <2>1, MarksInside
  <2>. QED BY <2>2, <2>3 DEF Pairs
<1>2. all \in SUBSET Cells(doc) /\ a \in SUBSET all /\ b \in SUBSET all /\ a \cap b = {}
  BY MarksApart
<1>. HIDE DEF a, b, all
<1>3. \A q \in all : CountUpTo(a, q) >= CountUpTo(b, q)
  BY <1>1, <1>2, ForwardBalance
<1>. QED BY <1>3 DEF Balances, a, b, all

(* The farthest bracket that another one closes balances it too.           *)
LEMMA OpenedBalances ==
    ASSUME NEW doc \in Doc, NEW open, NEW close, open # close,
           NEW o \in Cells(doc), NEW c \in Cells(doc), Pairs(doc, open, close, o, c),
           \A d \in Cells(doc) :
              CharAt(doc, d) = open /\ Before(d, c) /\ Pairs(doc, open, close, d, c) => ~Before(o, d)
    PROVE  Balances(doc, open, close, o, c)
<1> DEFINE a == Marks(doc, open, o, c)
           b == Marks(doc, close, o, c)
           all == Between(doc, o, c)
<1>1. ASSUME NEW q \in a PROVE CountAfter(a, q) # CountAfter(b, q)
  <2>1. q \in Cells(doc) /\ CharAt(doc, q) = open /\ Before(o, q) /\ Before(q, c) /\ q \in all
    BY DEF Marks, Between
  <2>2. ~Pairs(doc, open, close, q, c)
    BY <2>1
  <2>3. /\ CountAfter(a, q) = Cardinality(Marks(doc, open, q, c))
        /\ CountAfter(b, q) = Cardinality(Marks(doc, close, q, c))
    BY <2>1, MarksInside
  <2>. QED BY <2>2, <2>3 DEF Pairs
<1>2. all \in SUBSET Cells(doc) /\ a \in SUBSET all /\ b \in SUBSET all /\ a \cap b = {}
  BY MarksApart
<1>3. Cardinality(a) = Cardinality(b)
  BY DEF Pairs
<1>. HIDE DEF a, b, all
<1>4. \A q \in all : CountUpTo(a, q) >= CountUpTo(b, q)
  BY <1>1, <1>2, <1>3, BackwardBalance
<1>. QED BY <1>4 DEF Balances, a, b, all

(* What is balanced up to a cell has no closing bracket without its own    *)
(* opening one before that cell.                                           *)
LEMMA NoneClosesWithin ==
    ASSUME NEW doc \in Doc, NEW open, NEW close, open # close,
           NEW o \in Cells(doc), NEW e \in Cells(doc), Balances(doc, open, close, o, e),
           NEW c \in Cells(doc), CharAt(doc, c) = close, Before(o, c), Before(c, e)
    PROVE  ~Pairs(doc, open, close, o, c)
<1> DEFINE a == Marks(doc, open, o, e)
           b == Marks(doc, close, o, e)
           all == Between(doc, o, e)
<1>1. c \in all /\ c \in b /\ c \notin a
  BY DEF Between, Marks
<1>2. all \in SUBSET Cells(doc) /\ a \in SUBSET all /\ b \in SUBSET all
  BY MarksApart
<1>3. /\ CountBefore(a, c) = Cardinality(Marks(doc, open, o, c))
      /\ CountBefore(b, c) = Cardinality(Marks(doc, close, o, c))
  BY <1>1, MarksInside
<1>4. CountUpTo(a, c) >= CountUpTo(b, c)
  BY <1>1 DEF Balances
<1>. HIDE DEF a, b, all
<1>5. a \in SUBSET Cells(doc) /\ b \in SUBSET Cells(doc)
  BY <1>2
<1>6. CountBefore(a, c) \in Nat /\ CountUpTo(a, c) = CountBefore(a, c) + 0
  BY <1>1, <1>2, <1>5, CountSteps
<1>7. CountBefore(b, c) \in Nat /\ CountUpTo(b, c) = CountBefore(b, c) + 1
  BY <1>1, <1>2, <1>5, CountSteps
<1>8. CountBefore(a, c) # CountBefore(b, c)
  BY <1>4, <1>6, <1>7
<1>. QED BY <1>3, <1>8 DEF Pairs

-----------------------------------------------------------------------------
(* The brackets that an object is made of: a pair that balances what is    *)
(* between, the one at or before the cursor's cell, the other at or after. *)
PairAround(doc, open, close, cur, o, c) ==
    /\ o \in Cells(doc) /\ c \in Cells(doc) /\ Before(o, c)
    /\ CharAt(doc, o) = open /\ CharAt(doc, c) = close
    /\ Balances(doc, open, close, o, c)
    /\ ~Before(cur, o) /\ ~Before(c, cur)

(* A bracket object is made of such a pair, whether it takes the brackets  *)
(* or not, or there is none for either.                                    *)
LEMMA BracketsFound ==
    ASSUME NEW doc \in Doc, NEW p, NEW open, NEW close, open # close
    PROVE  \/ \A around \in BOOLEAN : BracketObject(doc, p, open, close, around) = NoObject
           \/ \E o \in Cells(doc), c \in Cells(doc) :
                /\ PairAround(doc, open, close, CursorCell(doc, p), o, c)
                /\ \A around \in BOOLEAN :
                     BracketObject(doc, p, open, close, around) = Delimited(doc, o, c, around)
<1> DEFINE cells  == Cells(doc)
           cur    == CursorCell(doc, p)
           num(ch, s, e) == Cardinality({q \in cells : /\ CharAt(doc, q) = ch
                                                     /\ Before(s, q) /\ Before(q, e)})
           pairs(s, e) == num(open, s, e) = num(close, s, e)
           opens  == {o \in cells : CharAt(doc, o) = open}
           closes == {c \in cells : CharAt(doc, c) = close}
           closing(o) == {c \in closes : Before(o, c) /\ pairs(o, c)}
           opening(c) == {o \in opens : Before(o, c) /\ pairs(o, c)}
           outer  == {o \in opens : Before(o, cur) /\ pairs(o, cur)}
           os     == IF CharAt(doc, cur) = open THEN {cur}
                     ELSE IF CharAt(doc, cur) = close
                       THEN IF opening(cur) = {} THEN {} ELSE {Farthest(opening(cur))}
                     ELSE IF outer = {} THEN {} ELSE {Farthest(outer)}
           cs     == IF CharAt(doc, cur) = close THEN {cur}
                     ELSE UNION {IF closing(q) = {} THEN {} ELSE {Nearest(closing(q))} : q \in os}
<1>1. \A around \in BOOLEAN : BracketObject(doc, p, open, close, around) =
        IF cells = {} \/ os = {} \/ cs = {} THEN NoObject
        ELSE Delimited(doc, Nearest(os), Nearest(cs), around)
  BY DEF BracketObject
<1>2. CASE cells = {} \/ os = {} \/ cs = {}
  BY <1>1, <1>2
<1>3. CASE ~(cells = {} \/ os = {} \/ cs = {})
  <2>1. cells \subseteq Grid(doc) /\ cells \subseteq Pos /\ cur \in cells /\ cells = Cells(doc)
    BY <1>3, StopsAre, CursorCellIs
  <2>2. \A s, e : pairs(s, e) <=> Pairs(doc, open, close, s, e)
    BY DEF Pairs, Marks
  <2>3. ASSUME NEW q \in cells, opening(q) # {}
        PROVE  /\ Farthest(opening(q)) \in cells /\ Before(Farthest(opening(q)), q)
               /\ CharAt(doc, Farthest(opening(q))) = open
               /\ Balances(doc, open, close, Farthest(opening(q)), q)
    <3>1. /\ opening(q) \subseteq cells
          /\ \A o \in cells : o \in opening(q) <=>
               CharAt(doc, o) = open /\ Before(o, q) /\ Pairs(doc, open, close, o, q)
      BY <2>2
    <3>. HIDE DEF opening, cells
    <3>2. Farthest(opening(q)) \in opening(q) /\ \A d \in opening(q) : ~Before(Farthest(opening(q)), d)
      BY <2>1, <2>3, <3>1, FarthestIs
    <3> DEFINE o == Farthest(opening(q))
    <3>3. o \in Cells(doc) /\ q \in Cells(doc) /\ CharAt(doc, o) = open /\ Before(o, q)
          /\ Pairs(doc, open, close, o, q)
      BY <2>1, <3>1, <3>2
    <3>4. \A d \in Cells(doc) :
            CharAt(doc, d) = open /\ Before(d, q) /\ Pairs(doc, open, close, d, q) => ~Before(o, d)
      BY <2>1, <3>1, <3>2
    <3>. HIDE DEF o
    <3>5. Balances(doc, open, close, o, q)
      BY <3>3, <3>4, OpenedBalances
    <3>. QED BY <2>1, <3>3, <3>5 DEF o
  <2>4. ASSUME NEW q \in cells, closing(q) # {}
        PROVE  /\ Nearest(closing(q)) \in cells /\ Before(q, Nearest(closing(q)))
               /\ CharAt(doc, Nearest(closing(q))) = close
               /\ Balances(doc, open, close, q, Nearest(closing(q)))
    <3>1. /\ closing(q) \subseteq cells
          /\ \A o \in cells : o \in closing(q) <=>
               CharAt(doc, o) = close /\ Before(q, o) /\ Pairs(doc, open, close, q, o)
      BY <2>2
    <3>. HIDE DEF closing, cells
    <3>2. Nearest(closing(q)) \in closing(q) /\ \A d \in closing(q) : ~Before(d, Nearest(closing(q)))
      BY <2>1, <2>4, <3>1, NearestIs
    <3> DEFINE c == Nearest(closing(q))
    <3>3. c \in Cells(doc) /\ q \in Cells(doc) /\ CharAt(doc, c) = close /\ Before(q, c)
          /\ Pairs(doc, open, close, q, c)
      BY <2>1, <3>1, <3>2
    <3>4. \A d \in Cells(doc) :
            CharAt(doc, d) = close /\ Before(q, d) /\ Pairs(doc, open, close, q, d) => ~Before(d, c)
      BY <2>1, <3>1, <3>2
    <3>. HIDE DEF c
    <3>5. Balances(doc, open, close, q, c)
      BY <3>3, <3>4, ClosedBalances
    <3>. QED BY <2>1, <3>3, <3>5 DEF c
  <2>5. outer = opening(cur)
    OBVIOUS
  <2>6. \A q, r \in cells : Before(q, r) => ~Before(r, q)
    BY <2>1 DEF Before, Pos
  <2>7. ~Before(cur, cur)
    BY <2>1, <2>6
  <2>8. \E o \in Cells(doc), c \in Cells(doc) :
          /\ PairAround(doc, open, close, cur, o, c)
          /\ Nearest(os) = o /\ Nearest(cs) = c
    <3>. HIDE DEF opening, closing, outer, cells, cur
    <3>1. CASE CharAt(doc, cur) = close
      <4>1. opening(cur) # {} /\ os = {Farthest(opening(cur))} /\ cs = {cur}
        BY <1>3, <3>1
      <4>. HIDE DEF os, cs
      <4>2. Nearest(os) = Farthest(opening(cur)) /\ Nearest(cs) = cur
        BY <2>1, <2>3, <4>1, NearestOne
      <4>3. PairAround(doc, open, close, cur, Farthest(opening(cur)), cur)
        BY <2>1, <2>3, <2>6, <2>7, <3>1, <4>1 DEF PairAround
      <4>. QED BY <2>1, <4>2, <4>3 DEF PairAround
    <3>2. CASE CharAt(doc, cur) # close
      <4>1. PICK o \in cells : /\ os = {o} /\ ~Before(cur, o) /\ CharAt(doc, o) = open
                               /\ \/ o = cur
                                  \/ Balances(doc, open, close, o, cur) /\ Before(o, cur)
        <5>1. CASE CharAt(doc, cur) = open
          BY <2>1, <2>7, <5>1
        <5>2. CASE CharAt(doc, cur) # open
          <6>1. outer # {} /\ os = {Farthest(outer)}
            BY <1>3, <3>2, <5>2
          <6>. HIDE DEF os
          <6>. QED BY <2>1, <2>3, <2>5, <2>6, <6>1
        <5>. QED BY <5>1, <5>2
      <4>2. closing(o) # {} /\ cs = {Nearest(closing(o))}
        <5>1. cs = UNION {IF closing(q) = {} THEN {} ELSE {Nearest(closing(q))} : q \in os}
          BY <3>2
        <5>2. cs # {}
          BY <1>3
        <5>. HIDE DEF os, cs
        <5>. QED BY <4>1, <5>1, <5>2
      <4>. HIDE DEF os, cs
      <4> DEFINE c == Nearest(closing(o))
      <4>3. /\ c \in cells /\ Before(o, c) /\ CharAt(doc, c) = close
            /\ Balances(doc, open, close, o, c)
        BY <2>4, <4>2
      <4>. HIDE DEF c
      <4>4. ~Before(c, cur)
        <5>1. CASE o = cur
          BY <2>1, <2>6, <4>3, <5>1
        <5>2. CASE o # cur
          <6>. SUFFICES ASSUME Before(c, cur) PROVE FALSE
            OBVIOUS
          <6>1. Balances(doc, open, close, o, cur) /\ o \in Cells(doc) /\ cur \in Cells(doc)
            BY <2>1, <4>1, <5>2
          <6>2. c \in Cells(doc) /\ CharAt(doc, c) = close /\ Before(o, c)
            BY <2>1, <4>3
          <6>3. ~Pairs(doc, open, close, o, c)
            BY <6>1, <6>2, NoneClosesWithin
          <6>. QED BY <4>3, <6>3 DEF Balances
        <5>. QED BY <5>1, <5>2
      <4>5. Nearest(os) = o /\ Nearest(cs) = c
        <5>1. o \in Pos /\ c \in Pos
          BY <2>1, <4>3
        <5>. QED BY <4>1, <4>2, <5>1, NearestOne DEF c
      <4>6. PairAround(doc, open, close, cur, o, c)
        BY <2>1, <4>1, <4>3, <4>4 DEF PairAround
      <4>. QED BY <2>1, <4>3, <4>5, <4>6
    <3>. QED BY <3>1, <3>2
  <2>. HIDE DEF os, cs
  <2>. QED BY <1>1, <1>3, <2>8
<1>. QED BY <1>2, <1>3

-----------------------------------------------------------------------------
(* The object in a pair of brackets, as the text between the two.          *)
LEMMA InsideIsBetween ==
    ASSUME NEW doc \in Doc, NEW o \in Cells(doc), NEW c \in Cells(doc), NEW q \in Cells(doc)
    PROVE  ~Before(q, At(o.line, o.col + 1)) <=> Before(o, q)
<1>1. o.line \in Nat /\ o.col \in Nat /\ q.line \in Nat /\ q.col \in Nat
  BY CellsAre, GridIs
<1>2. At(o.line, o.col + 1).line = o.line /\ At(o.line, o.col + 1).col = o.col + 1
  BY DEF At
<1>. QED BY <1>1, <1>2 DEF Before

(* What the object of a pair covers, without the pair.                     *)
LEMMA DelimitedIsFound ==
    ASSUME NEW doc, NEW o, NEW c, NEW around \in BOOLEAN, ~around
    PROVE  Delimited(doc, o, c, around) = Found(At(o.line, o.col + 1), c)
BY DEF Delimited

(* The bracket objects of a key are those of its pair of brackets.         *)
LEMMA BracketKeys ==
    ASSUME NEW doc, NEW p, NEW key \in Openers, NEW prefix \in {"i", "a"}
    PROVE  /\ key # Partner(key)
           /\ \E around \in BOOLEAN :
                /\ around <=> prefix = "a"
                /\ TextObject(doc, p, prefix, key)
                     = BracketObject(doc, p, key, Partner(key), around)
<1> DEFINE around == prefix = "a"
<1>1. key \in {"(", "[", "{"}
  BY DEF Openers
<1>2. key # Partner(key)
  BY <1>1 DEF Partner
<1>3. around \in BOOLEAN /\ (around <=> prefix = "a")
  OBVIOUS
<1>4. TextObject(doc, p, prefix, key) = BracketObject(doc, p, key, Partner(key), around)
  BY <1>1 DEF TextObject, Openers
<1>. HIDE DEF around
<1>. QED BY <1>2, <1>3, <1>4

(* An object with its brackets and without is balanced inside.             *)
BalancedObject(inner, outer, open, close) ==
    /\ inner.ok = outer.ok
    /\ inner.ok => /\ NumIn(inner, open, inner.end) = NumIn(inner, close, inner.end)
                /\ \A q \in Inside(inner) : NumIn(inner, open, q) >= NumIn(inner, close, q)

(* So is the object of a pair that balances what is between.               *)
LEMMA PairIsBalanced ==
    ASSUME lines \in Doc, NEW open, NEW close, NEW o \in Cells(lines), NEW c \in Cells(lines),
           Balances(lines, open, close, o, c), NEW inner, NEW outer, inner.ok, outer.ok,
           inner.start = At(o.line, o.col + 1), inner.end = c
    PROVE  BalancedObject(inner, outer, open, close)
<1>1. inner.start = At(o.line, o.col + 1) /\ inner.end = c
  OBVIOUS
<1>2. Inside(inner) = Between(lines, o, c)
  <2>1. ASSUME NEW q \in Cells(lines)
        PROVE  (~Before(q, inner.start) /\ Before(q, inner.end)) <=> (Before(o, q) /\ Before(q, c))
    <3>1. ~Before(q, At(o.line, o.col + 1)) <=> Before(o, q)
      BY InsideIsBetween
    <3>. QED BY <1>1, <3>1
  <2>. QED BY <2>1 DEF Inside, Between
<1>3. ASSUME NEW ch, NEW q
      PROVE  NumIn(inner, ch, q) = CountUpTo(Marks(lines, ch, o, c), q)
  <2>1. {p \in Inside(inner) : CharAt(lines, p) = ch /\ ~Before(q, p)}
          = {p \in Marks(lines, ch, o, c) : ~Before(q, p)}
    BY <1>2 DEF Marks, Between
  <2>. QED BY <2>1 DEF NumIn, CountUpTo
<1>4. ASSUME NEW ch PROVE NumIn(inner, ch, c) = Cardinality(Marks(lines, ch, o, c))
  <2>1. \A p \in Cells(lines) : Before(p, c) => ~Before(c, p)
    <3>1. Cells(lines) \subseteq Pos
      BY StopsAre
    <3>. QED BY <3>1 DEF Before, Pos
  <2>2. {p \in Marks(lines, ch, o, c) : ~Before(c, p)} = Marks(lines, ch, o, c)
    BY <2>1 DEF Marks
  <2>. QED BY <1>3, <2>2 DEF CountUpTo
<1>5. NumIn(inner, open, inner.end) = NumIn(inner, close, inner.end)
  BY <1>1, <1>4 DEF Balances, Pairs
<1>6. \A q \in Inside(inner) : NumIn(inner, open, q) >= NumIn(inner, close, q)
  BY <1>2, <1>3 DEF Balances
<1>. QED BY <1>5, <1>6 DEF BalancedObject

(* What the keys find: nothing, or the pair around the cursor's cell.      *)
LEMMA KeysFind ==
    ASSUME EditorInv, NEW key \in Openers \cap Char, NEW inner, NEW outer,
           inner = TextObject(lines, cursor, "i", key), outer = TextObject(lines, cursor, "a", key)
    PROVE  \/ inner = NoObject /\ outer = NoObject
           \/ \E o \in Cells(lines), c \in Cells(lines) :
                /\ PairAround(lines, key, Partner(key), CursorCell(lines, cursor), o, c)
                /\ inner = Found(At(o.line, o.col + 1), c)
                /\ \E e : outer = Found(o, e)
<1> DEFINE close == Partner(key)
<1>1. PICK no \in BOOLEAN : ~no /\ inner = BracketObject(lines, cursor, key, close, no)
  BY BracketKeys
<1>2. PICK yes \in BOOLEAN : yes /\ outer = BracketObject(lines, cursor, key, close, yes)
  BY BracketKeys
<1>3. key # close /\ lines \in Doc
  BY BracketKeys, Here
<1>. HIDE DEF close
<1>4. \/ \A around \in BOOLEAN : BracketObject(lines, cursor, key, close, around) = NoObject
      \/ \E o \in Cells(lines), c \in Cells(lines) :
           /\ PairAround(lines, key, close, CursorCell(lines, cursor), o, c)
           /\ \A around \in BOOLEAN :
                BracketObject(lines, cursor, key, close, around) = Delimited(lines, o, c, around)
  BY <1>3, BracketsFound
<1>5. CASE \A around \in BOOLEAN : BracketObject(lines, cursor, key, close, around) = NoObject
  BY <1>1, <1>2, <1>5
<1>6. ASSUME NEW o \in Cells(lines), NEW c \in Cells(lines),
             PairAround(lines, key, close, CursorCell(lines, cursor), o, c),
             \A around \in BOOLEAN :
                BracketObject(lines, cursor, key, close, around) = Delimited(lines, o, c, around)
      PROVE  /\ PairAround(lines, key, Partner(key), CursorCell(lines, cursor), o, c)
             /\ inner = Found(At(o.line, o.col + 1), c)
             /\ \E e : outer = Found(o, e)
  <2>1. inner = Delimited(lines, o, c, no) /\ outer = Delimited(lines, o, c, yes)
    BY <1>1, <1>2, <1>6
  <2>2. Delimited(lines, o, c, no) = Found(At(o.line, o.col + 1), c)
    BY <1>1, DelimitedIsFound
  <2>3. \E e : Delimited(lines, o, c, yes) = Found(o, e)
    <3>1. Delimited(lines, o, c, yes) = Around(lines, o, At(c.line, c.col + 1))
      BY <1>2 DEF Delimited
    <3>. QED BY <3>1 DEF Around
  <2>4. PairAround(lines, key, Partner(key), CursorCell(lines, cursor), o, c)
    BY <1>6 DEF close
  <2>. QED BY <2>1, <2>2, <2>3, <2>4
<1>. QED BY <1>4, <1>5, <1>6

(* Every bracket object of the document is balanced inside.                *)
LEMMA ObjectsBalance == ASSUME EditorInv PROVE BracketsBalance
<1>1. ASSUME NEW key \in Openers \cap Char, NEW inner, NEW outer,
             inner = TextObject(lines, cursor, "i", key), outer = TextObject(lines, cursor, "a", key)
      PROVE  BalancedObject(inner, outer, key, Partner(key))
  <2>1. CASE inner = NoObject /\ outer = NoObject
    BY <2>1 DEF NoObject, BalancedObject
  <2>2. ASSUME NEW o \in Cells(lines), NEW c \in Cells(lines),
               PairAround(lines, key, Partner(key), CursorCell(lines, cursor), o, c),
               inner = Found(At(o.line, o.col + 1), c), NEW e, outer = Found(o, e)
        PROVE  BalancedObject(inner, outer, key, Partner(key))
    <3>1. lines \in Doc /\ Balances(lines, key, Partner(key), o, c)
      BY <2>2, Here DEF PairAround
    <3>2. inner.ok /\ outer.ok
      BY <2>2 DEF Found
    <3>3. inner.start = At(o.line, o.col + 1)
      BY <2>2 DEF Found
    <3>4. inner.end = c
      BY <2>2 DEF Found
    <3>. QED BY <3>1, <3>2, <3>3, <3>4, PairIsBalanced
  <2>. QED BY <1>1, <2>1, <2>2, KeysFind
<1>. QED BY <1>1 DEF BracketsBalance, BalancedObject

(* The cell of a cursor that is on a character is that character.          *)
LEMMA CursorIsItsCell ==
    ASSUME NEW doc \in Doc, NEW p \in Cells(doc)
    PROVE  CursorCell(doc, p) = p
<1> DEFINE left == {q \in Cells(doc) : q.line = p.line /\ q.col <= p.col}
           f == Farthest(left)
<1>1. p \in Grid(doc) /\ p.col \in Nat /\ p = At(p.line, p.col)
  BY CellsAre, GridIs
<1>2. Cells(doc) \subseteq Grid(doc)
  BY CellsAre
<1>3. p \in left
  BY <1>1
<1>4. left \subseteq Grid(doc) /\ left # {}
  BY <1>2, <1>3
<1>5. CursorCell(doc, p) = f
  BY <1>4 DEF CursorCell
<1>6. \A q \in left : q.line = p.line /\ q.col <= p.col
  OBVIOUS
<1>7. f \in left /\ ~Before(f, p)
  <2>. HIDE DEF left
  <2>. QED BY <1>3, <1>4, FarthestIs
<1>8. f \in Grid(doc) /\ f.line = p.line /\ f.col <= p.col
  BY <1>4, <1>6, <1>7
<1>. HIDE DEF f, left
<1>9. f.col \in Nat /\ f = At(f.line, f.col)
  BY <1>8, GridIs
<1>10. f.col >= p.col
  BY <1>1, <1>7, <1>8, <1>9 DEF Before
<1>11. f.col = p.col
  BY <1>1, <1>8, <1>9, <1>10
<1>. QED BY <1>1, <1>5, <1>8, <1>9, <1>11

(* From a character the objects are around it, or begin or end at it.      *)
LEMMA ObjectsHoldCursor ==
    ASSUME EditorInv, cursor.col < Len(CursorLine)
    PROVE  CursorInBrackets
<1>1. lines \in Doc /\ cursor \in Cells(lines)
  BY Here, CellsAre DEF CursorLine
<1>2. ASSUME NEW key \in Openers \cap Char, NEW inner, NEW outer,
             inner = TextObject(lines, cursor, "i", key), outer = TextObject(lines, cursor, "a", key),
             inner.ok
      PROVE  ~Before(cursor, outer.start) /\ ~Before(inner.end, cursor)
  <2>1. inner # NoObject
    BY <1>2 DEF NoObject
  <2>2. PICK o \in Cells(lines), c \in Cells(lines) :
           /\ PairAround(lines, key, Partner(key), CursorCell(lines, cursor), o, c)
           /\ inner = Found(At(o.line, o.col + 1), c)
           /\ \E e : outer = Found(o, e)
    BY <1>2, <2>1, KeysFind
  <2>3. CursorCell(lines, cursor) = cursor
    BY <1>1, CursorIsItsCell
  <2>4. inner.end = c
    BY <2>2 DEF Found
  <2>5. outer.start = o
    BY <2>2 DEF Found
  <2>. QED BY <2>2, <2>3, <2>4, <2>5 DEF PairAround
<1>. QED BY <1>2 DEF CursorInBrackets

-----------------------------------------------------------------------------
(* On the opened document, before the first edit and the first yank, the   *)
(* cursor of normal mode rests on a character or on an empty line.  Later  *)
(* it need not: an undo puts it where the change was made, which may be    *)
(* behind the last character.                                              *)
RestInv ==
    /\ revision \in Nat /\ yanks \in Nat
    /\ Opened /\ mode = "Normal" => cursor \in Rest(lines)

(* A command that changes, undoes, redoes or yanks is counted.             *)
LEMMA CountedRests ==
    ASSUME RestInv,
           \/ revision' = revision + 1 /\ yanks' = yanks
           \/ revision' = revision /\ yanks' = yanks + 1
    PROVE  RestInv'
<1>1. revision' \in Nat /\ yanks' \in Nat /\ revision' + yanks' # 0
  BY DEF RestInv
<1>. QED BY <1>1 DEF RestInv, Opened

(* Every edit is counted.                                                  *)
LEMMA EditRests ==
    ASSUME RestInv, NEW c, NEW tag, Edit(c, tag)
    PROVE  RestInv'
<1>1. revision' = revision + 1 /\ yanks' = yanks
  BY DEF Edit, Record, windowVars
<1>. QED BY <1>1, CountedRests

(* So is every operator, y among the yanks.                                *)
LEMMA OperatorRests ==
    ASSUME RestInv, NEW e, NEW name, ApplyOperator(e, name)
    PROVE  RestInv'
<1>1. CASE Yank(e, name)
  BY <1>1, CountedRests DEF Yank, histVars
<1>2. CASE Rewrite(e, name)
  <2>1. revision' = revision + 1 /\ yanks' = yanks
    BY <1>2 DEF Rewrite, Record
  <2>. QED BY <2>1, CountedRests
<1>. QED BY <1>1, <1>2 DEF ApplyOperator

(* A command that leaves the document alone.                               *)
LEMMA StayRests ==
    ASSUME RestInv, UNCHANGED histVars, yanks' = yanks,
           Opened /\ mode' = "Normal" => cursor' \in Rest(lines)
    PROVE  RestInv'
BY DEF RestInv, histVars, Opened

(* Esc leaves the cursor on the character before it.                       *)
LEMMA LeaveInsertRests ==
    ASSUME EditorInv, RestInv, LeaveInsert
    PROVE  RestInv'
<1> DEFINE l    == ClampLine(lines, cursor.line)
           text == LineOf(lines, l)
           col  == IF cursor.col > 0 THEN cursor.col - 1 ELSE 0
<1>1. cursor' = At(l, CpToByte(text, col)) /\ UNCHANGED histVars /\ yanks' = yanks
  BY DEF LeaveInsert, windowVars
<1>2. l = cursor.line /\ l \in 0..LastLine(lines)
  <2>1. LastLine(lines) \in Nat /\ LastLine(lines) = Len(lines) - 1
    BY Here, DocLines DEF LastLine
  <2>. QED BY <2>1, Here DEF ClampLine, Lesser
<1>3. text = CursorLine
  BY <1>2 DEF CursorLine
<1>4. cursor.col \in 0..Len(text) /\ Len(text) \in Nat /\ text \in Seq(Char)
  BY <1>3, Here
<1>. HIDE DEF l
<1>. HIDE DEF text
<1>5. LastCol(text) \in Nat /\ CpToByte(text, col) = col /\ col <= LastCol(text) /\ col \in Nat
  <2>1. text = <<>> => Len(text) = 0
    OBVIOUS
  <2>. QED BY <1>4, <2>1, EmptySeq DEF LastCol, CpToByte, Lesser
<1>6. OnChar(lines, At(l, col)) = At(l, col)
  <2>1. At(l, col).line = l /\ At(l, col).col = col
    BY DEF At
  <2>2. Lesser(col, LastCol(text)) = col
    BY <1>5 DEF Lesser
  <2>. QED BY <2>1, <2>2 DEF OnChar, text
<1>7. cursor' \in Rest(lines)
  BY <1>1, <1>2, <1>5, <1>6, Here, LandsAre DEF Lands
<1>. QED BY <1>1, <1>7, StayRests

(* A resize leaves the cursor where it is.                                 *)
LEMMA ResizeRests ==
    ASSUME EditorInv, RestInv, Resize
    PROVE  RestInv'
<1> DEFINE l == ClampLine(lines, cursor.line)
<1>1. /\ cursor' = At(l, CpToByte(LineOf(lines, l), cursor.col)) /\ UNCHANGED histVars
      /\ yanks' = yanks /\ mode' = mode
  BY DEF Resize
<1>2. l = cursor.line
  <2>1. LastLine(lines) \in Nat /\ LastLine(lines) = Len(lines) - 1
    BY Here, DocLines DEF LastLine
  <2>. QED BY <2>1, Here DEF ClampLine, Lesser
<1>. HIDE DEF l
<1>3. CpToByte(LineOf(lines, l), cursor.col) = cursor.col
  BY <1>2, Here DEF CpToByte, Lesser, CursorLine
<1>4. cursor' = cursor
  BY <1>1, <1>2, <1>3, Here, GridIs
<1>. QED BY <1>1, <1>4, StayRests DEF RestInv

(* The motions, from a cursor that rests.                                  *)
LEMMA MoveRests ==
    ASSUME EditorInv, RestInv, NEW id \in MotionIds, NEW n \in Nat \ {0}, Move(id, n)
    PROVE  RestInv'
<1> DEFINE r == Motion(lines, id, cursor, n, desired)
<1>1. id \in MotionNames
  BY DEF MotionIds, MotionNames, OperatorMotions, LinewiseMotions, InclusiveMotions
<1>2. r.ok /\ cursor' = r.pos /\ UNCHANGED histVars /\ mode' = mode /\ yanks' = yanks
  BY DEF Move, MoveTo, windowVars
<1>3. cursor \in Rest(lines) => r.pos \in Rest(lines)
  BY <1>1, <1>2, Here, MotionLands
<1>. HIDE DEF r
<1>. QED BY <1>2, <1>3, StayRests DEF RestInv

(* f, F, t, T and their repetitions.                                       *)
LEMMA FoundRests ==
    ASSUME EditorInv, RestInv, NEW id \in {"f", "F", "t", "T"}, NEW ch, NEW n, MoveToFound(id, ch, n)
    PROVE  RestInv'
<1> DEFINE r == Find(lines, id, ch, cursor, n)
<1>1. r.ok /\ cursor' = r.pos /\ UNCHANGED histVars /\ mode' = mode /\ yanks' = yanks
  BY DEF MoveToFound, MoveTo, windowVars
<1>2. cursor \in Rest(lines) => r.pos \in Rest(lines)
  BY <1>1, Here, FindLands
<1>. HIDE DEF r
<1>. QED BY <1>1, <1>2, StayRests DEF RestInv

(* A scroll command puts it on a character.                                *)
LEMMA ScrollRests ==
    ASSUME EditorInv, RestInv, NEW id \in ScrollIds, NEW n \in Nat \ {0}, NEW counted \in BOOLEAN,
           Scroll(id, n, counted)
    PROVE  RestInv'
<1> DEFINE r == ApplyScroll(Len(lines), rows, id, cursor.line, top, n, counted)
<1>1. UNCHANGED histVars /\ yanks' = yanks /\ cursor' = OnChar(lines, At(r.line, desired))
  BY DEF Scroll, windowVars
<1>2. r.line \in 0..LastLine(lines)
  <2>1. Len(lines) \in Nat \ {0} /\ cursor.line \in 0..(Len(lines) - 1)
    BY Here, DocLines DEF LastLine
  <2>2. r.line \in 0..(Len(lines) - 1)
    BY <2>1, Here, ScrollLands
  <2>. QED BY <2>2 DEF LastLine
<1>. HIDE DEF r
<1>3. cursor' \in Rest(lines)
  BY <1>1, <1>2, Here, LandsAre DEF Lands
<1>. QED BY <1>1, <1>3, StayRests

(* The editor opens with the cursor at rest.                               *)
LEMMA RestInit == Init => RestInv
<1> SUFFICES ASSUME Init PROVE RestInv
  OBVIOUS
<1>1. revision = 0 /\ yanks = 0 /\ cursor = At(0, 0) /\ lines \in Doc
  BY EditorInit DEF Init, HistInit, EditorInv, HistInv, TypeInv
<1>2. 0 \in 0..LastLine(lines)
  BY <1>1, DocLines
<1>. QED BY <1>1, <1>2, LandsAre DEF Lands, RestInv

(* Every step keeps it there.                                              *)
LEMMA RestStep == EditorInv /\ RestInv /\ [Next]_vars => RestInv'
<1> SUFFICES ASSUME EditorInv, RestInv, [Next]_vars PROVE RestInv'
  OBVIOUS
<1>1. /\ Counts \subseteq Nat \ {0} /\ 1..MaxCount \subseteq Nat \ {0}
  BY EditorAssumption DEF Counts
<1>2. CASE UNCHANGED vars
  BY <1>2, StayRests DEF RestInv, vars, histVars
<1>3. CASE \/ \E ch \in Typed : InsertChar(ch)
           \/ InsertNewline \/ SplitLine \/ EraseChar
           \/ \E n \in 1..MaxCount : DeleteChar(n)
  <2>1. \E c, tag : Edit(c, tag)
    BY <1>3 DEF InsertChar, InsertNewline, SplitLine, EraseChar, DeleteChar
  <2>. QED BY <2>1, EditRests
<1>4. CASE \E atEol \in BOOLEAN : EnterInsert(atEol)
  <2>1. UNCHANGED histVars /\ mode' = "Insert" /\ yanks' = yanks
    BY <1>4 DEF EnterInsert, windowVars
  <2>. QED BY <2>1, StayRests
<1>5. CASE LeaveInsert
  BY <1>5, LeaveInsertRests
<1>6. CASE \/ \E op \in SpanOps, n \in 1..MaxCount :
                OperateOverMotion(op, n) \/ OperateOverFind(op, n) \/ OperateToFirst(op, n)
           \/ \E op \in SpanOps : OperateOnObject(op)
           \/ \E op \in OperatorIds, n \in Counts : OperateOnLines(op, n)
  <2>1. \E e, name : ApplyOperator(e, name)
    BY <1>6 DEF OperateOverMotion, OperateOverFind, OperateToFirst, OperateOnObject, OperateOnLines
  <2>. QED BY <2>1, OperatorRests
<1>7. CASE Undo \/ Redo
  <2>1. revision' = revision + 1 /\ yanks' = yanks
    BY <1>7 DEF Undo, UndoUnit, Redo, RedoUnit, windowVars
  <2>. QED BY <2>1, CountedRests
<1>8. CASE \E id \in MotionIds, n \in Counts : Move(id, n)
  BY <1>1, <1>8, MoveRests
<1>9. CASE \E id \in {"f", "F", "t", "T"}, ch \in Targets, n \in Counts : MoveToFound(id, ch, n)
  BY <1>9, FoundRests
<1>10. CASE \E id \in ScrollIds, n \in Counts, counted \in BOOLEAN : Scroll(id, n, counted)
  BY <1>1, <1>10, ScrollRests
<1>11. CASE Resize
  BY <1>11, ResizeRests
<1>. QED BY <1>2, <1>3, <1>4, <1>5, <1>6, <1>7, <1>8, <1>9, <1>10, <1>11 DEF Next

(* Where the cursor rests, it is in the brackets it finds.                 *)
LEMMA BracketsHeld == EditorInv /\ RestInv => HoldsBrackets /\ BracketsBalance
<1> SUFFICES ASSUME EditorInv, RestInv PROVE HoldsBrackets /\ BracketsBalance
  OBVIOUS
<1>1. BracketsBalance
  BY ObjectsBalance
<1>2. ASSUME Opened, mode = "Normal", CursorLine # <<>> PROVE CursorInBrackets
  <2>1. cursor.col <= LastCol(CursorLine)
    BY <1>2 DEF RestInv, Rest, CursorLine
  <2>2. cursor.col < Len(CursorLine)
    BY <1>2, <2>1, Here DEF LastCol
  <2>. QED BY <2>2, ObjectsHoldCursor
<1>. QED BY <1>1, <1>2 DEF HoldsBrackets

-----------------------------------------------------------------------------
(* Two ways up from 0 that start alike and go on alike.                    *)
LEMMA SameAscent ==
    ASSUME NEW n \in Nat, NEW f, NEW w, f[0] = w[0],
           \A i \in 0..(n - 1) : f[i] = w[i] => f[i + 1] = w[i + 1]
    PROVE  \A i \in 0..n : f[i] = w[i]
<1> DEFINE s == {k \in Nat : k <= n => f[k] = w[k]}
<1>1. 0 \in s
  OBVIOUS
<1>2. ASSUME NEW k \in Nat, k \in s PROVE k + 1 \in s
  <2>1. SUFFICES ASSUME k + 1 <= n PROVE f[k + 1] = w[k + 1]
    OBVIOUS
  <2>2. k \in 0..(n - 1) /\ k <= n
    BY <2>1
  <2>3. f[k] = w[k]
    BY <1>2, <2>2
  <2>. QED BY <2>2, <2>3
<1>3. Nat \subseteq s
  <2>. HIDE DEF s
  <2>. QED BY <1>1, <1>2, Induction
<1>. QED BY <1>3

-----------------------------------------------------------------------------
(***************************************************************************)
(* The rows that are drawn.  A row is a run of glyphs, each of one column  *)
(* or two; what a part of a line takes of a row is what the two ends of    *)
(* the part, counted in columns and clamped to the row, leave between them.*)
(***************************************************************************)
(* The columns before each glyph are counted up from none.                 *)
LEMMA ColumnsAre ==
    ASSUME NEW S, NEW s \in Seq(S)
    PROVE  /\ Len(s) \in Nat /\ Columns(s)[0] = 0
           /\ \A i \in 0..Len(s) : Columns(s)[i] \in Nat
           /\ \A i \in 1..Len(s) : Columns(s)[i] = Columns(s)[i - 1] + GlyphWidth(s[i])
<1> DEFINE n == Len(s)
           at == Columns(s)
           Counted(h) == h = [i \in 0..n |-> IF i = 0 THEN 0 ELSE h[i - 1] + GlyphWidth(s[i])]
           g == [m \in (1..n) \X Nat |-> m[2] + GlyphWidth(s[m[1]])]
<1>1. n \in Nat
  BY LenProperties
<1>2. at = CHOOSE h : Counted(h)
  BY DEF Columns
<1>3. \A x : GlyphWidth(x) \in Nat
  BY DEF GlyphWidth
<1>. HIDE DEF n, at
<1>4. g \in [(1..n) \X Nat -> Nat]
  BY <1>3
<1>5. PICK h \in [0..n -> Nat] : \A i \in 0..n : h[i] = IF i = 0 THEN 0 ELSE g[<<i, h[i - 1]>>]
  <2>. HIDE DEF g
  <2>1. \E h : Walks(h, Nat, 0, n, g)
    BY <1>1, <1>4, Recursion
  <2>. QED BY <2>1 DEF Walks
<1>6. Counted(h)
  <2>1. ASSUME NEW i \in 0..n PROVE h[i] = IF i = 0 THEN 0 ELSE h[i - 1] + GlyphWidth(s[i])
    <3>1. CASE i = 0
      BY <1>5, <3>1
    <3>2. CASE i # 0
      <4>1. i - 1 \in 0..n /\ i \in 1..n
        BY <3>2, <1>1
      <4>2. g[<<i, h[i - 1]>>] = h[i - 1] + GlyphWidth(s[i])
        BY <4>1
      <4>. QED BY <1>5, <3>2, <4>2
    <3>. QED BY <3>1, <3>2
  <2>. QED BY <2>1
<1>7. Counted(at)
  <2>. HIDE DEF Counted
  <2>. QED BY <1>2, <1>6
<1>8. at[0] = 0 /\ \A i \in 1..n : at[i] = at[i - 1] + GlyphWidth(s[i])
  BY <1>1, <1>7
<1>9. \A i \in 1..n : at[i - 1] \in Nat => at[i] \in Nat
  BY <1>3, <1>8
<1>10. \A i \in 0..n : at[i] \in Nat
  <2> DEFINE Z == Nat
  <2>1. at[0] \in Z /\ \A i \in 1..n : at[i - 1] \in Z => at[i] \in Z
    BY <1>8, <1>9
  <2>. HIDE DEF Z
  <2>2. \A i \in 0..n : at[i] \in Z
    BY <1>1, <2>1, WalkStays
  <2>. QED BY <2>2 DEF Z
<1>. QED BY <1>1, <1>8, <1>10 DEF n, at

(* All the columns of a row.                                               *)
Total(s) == Columns(s)[Len(s)]

(* What is before a row's glyph does not depend on what is after it, and   *)
(* two rows side by side take the columns of both.                         *)
LEMMA ColumnsJoin ==
    ASSUME NEW S, NEW s \in Seq(S), NEW t \in Seq(S)
    PROVE  /\ \A i \in 0..Len(s) : Columns(s \o t)[i] = Columns(s)[i]
           /\ Total(s) \in Nat /\ Total(t) \in Nat /\ Total(s \o t) = Total(s) + Total(t)
<1> DEFINE u == s \o t
           n == Len(s)
           k == Len(t)
           f == [i \in 0..k |-> Columns(u)[n + i]]
           w == [i \in 0..k |-> Total(s) + Columns(t)[i]]
<1>1. u \in Seq(S) /\ n \in Nat /\ k \in Nat /\ Len(u) = n + k
  BY ConcatProperties, LenProperties
<1>2. /\ \A i \in 1..n : u[i] = s[i]
      /\ \A i \in 1..k : u[n + i] = t[i]
  BY ConcatProperties
<1>. HIDE DEF u
<1>3. /\ Columns(u)[0] = 0 /\ Columns(s)[0] = 0 /\ Columns(t)[0] = 0
      /\ \A i \in 0..Len(u) : Columns(u)[i] \in Nat
      /\ \A i \in 0..Len(s) : Columns(s)[i] \in Nat
      /\ \A i \in 0..Len(t) : Columns(t)[i] \in Nat
      /\ \A i \in 1..Len(u) : Columns(u)[i] = Columns(u)[i - 1] + GlyphWidth(u[i])
      /\ \A i \in 1..Len(s) : Columns(s)[i] = Columns(s)[i - 1] + GlyphWidth(s[i])
      /\ \A i \in 1..Len(t) : Columns(t)[i] = Columns(t)[i - 1] + GlyphWidth(t[i])
  BY <1>1, ColumnsAre
<1>. HIDE DEF n, k
<1>4. \A i \in 0..n : Columns(u)[i] = Columns(s)[i]
  <2>1. ASSUME NEW i \in 0..(n - 1), Columns(u)[i] = Columns(s)[i]
        PROVE  Columns(u)[i + 1] = Columns(s)[i + 1]
    <3>1. i + 1 \in 1..n /\ i + 1 \in 1..(n + k) /\ (i + 1) - 1 = i
      BY <1>1
    <3>. QED BY <1>1, <1>2, <1>3, <2>1, <3>1 DEF n
  <2>2. Columns(u)[0] = Columns(s)[0] /\ n \in Nat
    BY <1>1, <1>3
  <2>. QED BY <2>1, <2>2, SameAscent
<1>5. Total(s) \in Nat /\ Total(t) \in Nat
  BY <1>1, <1>3 DEF Total, n, k
<1>6. \A i \in 0..k : f[i] = w[i]
  <2>1. f[0] = w[0]
    BY <1>1, <1>3, <1>4, <1>5 DEF Total, n
  <2>2. ASSUME NEW i \in 0..(k - 1), f[i] = w[i]
        PROVE  f[i + 1] = w[i + 1]
    <3>1. i + 1 \in 1..k /\ n + i + 1 \in 1..(n + k) /\ (n + i + 1) - 1 = n + i /\ (i + 1) - 1 = i
          /\ i \in 0..k /\ i + 1 \in 0..k /\ n + (i + 1) = n + i + 1
      BY <1>1
    <3>2. Columns(u)[n + i + 1] = Columns(u)[n + i] + GlyphWidth(u[n + i + 1])
      BY <1>1, <1>3, <3>1
    <3>3. u[n + i + 1] = t[i + 1]
      BY <1>2, <3>1
    <3>4. Columns(t)[i + 1] = Columns(t)[i] + GlyphWidth(t[i + 1])
      BY <1>3, <3>1 DEF k
    <3>5. f[i] = Columns(u)[n + i] /\ w[i] = Total(s) + Columns(t)[i]
          /\ f[i + 1] = Columns(u)[n + i + 1] /\ w[i + 1] = Total(s) + Columns(t)[i + 1]
      BY <3>1
    <3>6. Columns(t)[i] \in Nat /\ GlyphWidth(t[i + 1]) \in Nat
      BY <1>3, <3>1 DEF GlyphWidth, k
    <3>. HIDE DEF f, w
    <3>7. \A a, b, c \in Nat : (a + b) + c = a + (b + c)
      OBVIOUS
    <3>8. (Total(s) + Columns(t)[i]) + GlyphWidth(t[i + 1])
            = Total(s) + (Columns(t)[i] + GlyphWidth(t[i + 1]))
      BY <1>5, <3>6, <3>7
    <3>9. f[i + 1] = w[i] + GlyphWidth(t[i + 1])
      BY <2>2, <3>2, <3>3, <3>5
    <3>. QED BY <3>4, <3>5, <3>8, <3>9
  <2>. HIDE DEF f, w
  <2>. QED BY <1>1, <2>1, <2>2, SameAscent
<1>7. f[k] = Columns(u)[n + k] /\ w[k] = Total(s) + Columns(t)[k]
  BY <1>1
<1>8. Total(u) = Total(s) + Total(t)
  BY <1>1, <1>6, <1>7 DEF Total, k
<1>. QED BY <1>4, <1>5, <1>8 DEF u, n

(* Glyphs of one column take as many columns as there are.                 *)
LEMMA NarrowColumns ==
    ASSUME NEW S, NEW s \in Seq(S), \A i \in 1..Len(s) : s[i] \notin WideChars
    PROVE  Total(s) = Len(s)
<1> DEFINE n == Len(s)
           w == [i \in 0..n |-> i]
<1>1. /\ n \in Nat /\ Columns(s)[0] = 0
      /\ \A i \in 1..n : Columns(s)[i] = Columns(s)[i - 1] + GlyphWidth(s[i])
  BY ColumnsAre
<1>2. \A i \in 1..n : GlyphWidth(s[i]) = 1
  BY DEF GlyphWidth
<1>. HIDE DEF n
<1>3. ASSUME NEW i \in 0..(n - 1), Columns(s)[i] = w[i] PROVE Columns(s)[i + 1] = w[i + 1]
  <2>1. i + 1 \in 1..n /\ (i + 1) - 1 = i /\ w[i] = i /\ w[i + 1] = i + 1
    BY <1>1
  <2>. HIDE DEF w
  <2>. QED BY <1>1, <1>2, <1>3, <2>1
<1>4. w[0] = 0 /\ w[n] = n
  BY <1>1
<1>. HIDE DEF w
<1>5. \A i \in 0..n : Columns(s)[i] = w[i]
  <2>1. Columns(s)[0] = w[0] /\ n \in Nat
    BY <1>1, <1>4
  <2>. QED BY <1>3, <2>1, SameAscent
<1>. QED BY <1>1, <1>4, <1>5 DEF Total, n

(* What may be drawn in a row.                                             *)
Ink == Char \cup {"^", "A"}

(* A character is one column wide at least.                                *)
LEMMA WidthIs ==
    ASSUME NEW ch, NEW d \in Nat
    PROVE  Width(ch, d) \in Nat \ {0}
<1>1. TabWidth \in Nat \ {0}
  BY EditorAssumption
<1>2. d % TabWidth \in 0..(TabWidth - 1)
  BY <1>1
<1>3. TabWidth - (d % TabWidth) \in Nat \ {0}
  BY <1>1, <1>2
<1>. QED BY <1>3 DEF Width

(* The column x of a line, counted from the row's left edge and kept in it.*)
InRow(x, left, cols) == Clamped(x - left, 0, cols)
(* The columns of a character that fall in the row.                        *)
Shown(width, d, left, cols) == {k \in 0..(width - 1) : left <= d + k /\ d + k < left + cols}

(* They are as many as lie between its two ends.                           *)
LEMMA ShownAre ==
    ASSUME NEW width \in Nat \ {0}, NEW d \in Nat, NEW left \in Nat, NEW cols \in Nat
    PROVE  /\ InRow(d, left, cols) \in 0..cols /\ InRow(d + width, left, cols) \in 0..cols
           /\ InRow(d + width, left, cols) >= InRow(d, left, cols)
           /\ IsFiniteSet(Shown(width, d, left, cols))
           /\ Cardinality(Shown(width, d, left, cols))
                = InRow(d + width, left, cols) - InRow(d, left, cols)
<1> DEFINE lo == IF left < d THEN 0 ELSE left - d
           hi == IF left + cols < d + width THEN left + cols - d - 1 ELSE width - 1
           a == InRow(d, left, cols)
           b == InRow(d + width, left, cols)
<1>1. lo \in Int /\ hi \in Int /\ a \in 0..cols /\ b \in 0..cols /\ b >= a
  BY DEF InRow, Clamped
<1>2. Shown(width, d, left, cols) = lo..hi
  <2>1. ASSUME NEW k \in Int
        PROVE  (k \in 0..(width - 1) /\ left <= d + k /\ d + k < left + cols) <=> k \in lo..hi
    OBVIOUS
  <2>. QED BY <2>1 DEF Shown
<1>3. IF lo > hi THEN b - a = 0 ELSE hi - lo + 1 = b - a
  BY DEF InRow, Clamped
<1>4. IsFiniteSet(lo..hi) /\ Cardinality(lo..hi) = IF lo > hi THEN 0 ELSE hi - lo + 1
  BY <1>1, FS_Interval
<1>. HIDE DEF lo, hi
<1>. QED BY <1>1, <1>2, <1>3, <1>4

(* A run of n glyphs that are one column wide each.                        *)
LEMMA NarrowRun ==
    ASSUME NEW n \in Nat, NEW r \in [1..n -> Ink \ WideChars]
    PROVE  r \in Seq(Ink) /\ Len(r) = n /\ Total(r) = n
<1>1. r \in Seq(Ink) /\ Len(r) = n
  BY SeqDef
<1>2. \A i \in 1..n : r[i] \notin WideChars
  OBVIOUS
<1>. QED BY <1>1, <1>2, NarrowColumns

(* An empty run takes no column and one wide glyph takes two.              *)
LEMMA ShortRuns ==
    /\ Total(<<>>) = 0 /\ <<>> \in Seq(Ink)
    /\ \A ch \in Char \cap WideChars : Total(<<ch>>) = 2 /\ <<ch>> \in Seq(Ink)
<1>1. <<>> \in Seq(Ink) /\ Len(<<>>) = 0
  OBVIOUS
<1>2. Total(<<>>) = 0
  BY <1>1, ColumnsAre DEF Total
<1>3. ASSUME NEW ch \in Char \cap WideChars PROVE Total(<<ch>>) = 2 /\ <<ch>> \in Seq(Ink)
  <2>1. <<ch>> \in Seq(Ink) /\ Len(<<ch>>) = 1 /\ <<ch>>[1] = ch
    BY DEF Ink
  <2>2. Columns(<<ch>>)[0] = 0
    BY <2>1, ColumnsAre
  <2>3. \A i \in 1..1 : Columns(<<ch>>)[i] = Columns(<<ch>>)[i - 1] + GlyphWidth(<<ch>>[i])
    BY <2>1, ColumnsAre
  <2>4. Columns(<<ch>>)[1] = Columns(<<ch>>)[0] + GlyphWidth(<<ch>>[1])
    BY <2>3
  <2>5. GlyphWidth(ch) = 2
    BY DEF GlyphWidth
  <2>. QED BY <2>1, <2>2, <2>4, <2>5 DEF Total
<1>. QED BY <1>1, <1>2, <1>3

(* The glyphs of a character take the columns of it that fall in the row,  *)
(* a cut wide one too, and it has one when its first column does.          *)
LEMMA GlyphsAre ==
    ASSUME NEW ch \in Char, NEW d \in Nat, NEW left \in Nat, NEW cols \in Nat
    PROVE  /\ Glyphs(ch, d, left, cols) \in Seq(Ink)
           /\ Total(Glyphs(ch, d, left, cols))
                = InRow(d + Width(ch, d), left, cols) - InRow(d, left, cols)
           /\ left <= d /\ d < left + cols => Glyphs(ch, d, left, cols) # <<>>
<1> DEFINE width == Width(ch, d)
           shown == Shown(width, d, left, cols)
           glyph(k) == IF ch = "ctrl" THEN IF k = 0 THEN "^" ELSE "A"
                       ELSE IF ch \in WideChars \/ ch = "tab" THEN Blank ELSE ch
           first == Least(shown)
           n == Cardinality(shown)
           run == [i \in 1..n |-> glyph(first + i - 1)]
           drawn == Glyphs(ch, d, left, cols)
<1>1. drawn = IF shown = {} THEN <<>>
              ELSE IF ch \in WideChars /\ n = width THEN <<ch>> ELSE run
  BY DEF Glyphs, Shown
<1>2. width \in Nat \ {0}
  BY WidthIs
<1>3. \A k : glyph(k) \in Ink \ WideChars
  BY EditorAssumption DEF Ink, WideChars
<1>4. ch \in WideChars => width = 2
  BY DEF Width, WideChars
<1>. HIDE DEF width, glyph, first, drawn
<1>5. IsFiniteSet(shown) /\ n = InRow(d + width, left, cols) - InRow(d, left, cols)
      /\ InRow(d, left, cols) \in 0..cols /\ InRow(d + width, left, cols) \in 0..cols
      /\ InRow(d + width, left, cols) >= InRow(d, left, cols)
  BY <1>2, ShownAre
<1>6. n \in Nat
  BY <1>5
<1>7. shown = {} => n = 0
  BY FS_EmptySet
<1>. HIDE DEF shown, n
<1>8. run \in Seq(Ink) /\ Total(run) = n
  <2>1. run \in [1..n -> Ink \ WideChars]
    BY <1>3
  <2>. HIDE DEF run
  <2>. QED BY <1>6, <2>1, NarrowRun
<1>. HIDE DEF run
<1>9. drawn \in Seq(Ink) /\ Total(drawn) = n
  BY <1>1, <1>4, <1>7, <1>8, ShortRuns
<1>10. left <= d /\ d < left + cols => n # 0
  BY <1>2, <1>5 DEF InRow, Clamped
<1>11. left <= d /\ d < left + cols => drawn # <<>>
  BY <1>9, <1>10, ShortRuns
<1>. QED BY <1>5, <1>9, <1>11 DEF drawn, width

(* The columns at which the characters of a line start, and its end.       *)
LEMMA StartsAre ==
    ASSUME NEW text \in Seq(Char)
    PROVE  /\ Starts(text)[0] = 0
           /\ \A i \in 0..Len(text) : Starts(text)[i] \in Nat
           /\ \A i \in 1..Len(text) :
                Starts(text)[i] = Starts(text)[i - 1] + Width(text[i], Starts(text)[i - 1])
<1> DEFINE n == Len(text)
           at == Starts(text)
           Laid(h) == h = [i \in 0..n |-> IF i = 0 THEN 0 ELSE h[i - 1] + Width(text[i], h[i - 1])]
           g == [m \in (1..n) \X Nat |-> m[2] + Width(text[m[1]], m[2])]
<1>1. n \in Nat
  BY LenProperties
<1>2. at = CHOOSE h : Laid(h)
  BY DEF Starts
<1>3. \A x : \A d \in Nat : Width(x, d) \in Nat
  BY WidthIs
<1>. HIDE DEF n, at
<1>4. g \in [(1..n) \X Nat -> Nat]
  BY <1>3
<1>5. PICK h \in [0..n -> Nat] : \A i \in 0..n : h[i] = IF i = 0 THEN 0 ELSE g[<<i, h[i - 1]>>]
  <2>. HIDE DEF g
  <2>1. \E h : Walks(h, Nat, 0, n, g)
    BY <1>1, <1>4, Recursion
  <2>. QED BY <2>1 DEF Walks
<1>6. Laid(h)
  <2>1. ASSUME NEW i \in 0..n
        PROVE  h[i] = IF i = 0 THEN 0 ELSE h[i - 1] + Width(text[i], h[i - 1])
    <3>1. CASE i = 0
      BY <1>5, <3>1
    <3>2. CASE i # 0
      <4>1. i - 1 \in 0..n /\ i \in 1..n
        BY <3>2, <1>1
      <4>2. g[<<i, h[i - 1]>>] = h[i - 1] + Width(text[i], h[i - 1])
        BY <4>1
      <4>. QED BY <1>5, <3>2, <4>2
    <3>. QED BY <3>1, <3>2
  <2>. QED BY <2>1
<1>7. Laid(at)
  <2>. HIDE DEF Laid
  <2>. QED BY <1>2, <1>6
<1>8. at[0] = 0 /\ \A i \in 1..n : at[i] = at[i - 1] + Width(text[i], at[i - 1])
  BY <1>1, <1>7
<1>9. \A i \in 1..n : at[i - 1] \in Nat => at[i] \in Nat
  BY <1>3, <1>8
<1>10. \A i \in 0..n : at[i] \in Nat
  <2> DEFINE Z == Nat
  <2>1. at[0] \in Z /\ \A i \in 1..n : at[i - 1] \in Z => at[i] \in Z
    BY <1>8, <1>9
  <2>. HIDE DEF Z
  <2>2. \A i \in 0..n : at[i] \in Z
    BY <1>1, <2>1, WalkStays
  <2>. QED BY <2>2 DEF Z
<1>. QED BY <1>8, <1>10 DEF n, at

(* The glyphs of the first i characters.                                   *)
Glyphed(text, left, cols) ==
    LET at == Starts(text)
        out[i \in 0..Len(text)] ==
            IF i = 0 THEN <<>> ELSE out[i - 1] \o Glyphs(text[i], at[i - 1], left, cols)
    IN  out
GlyphsOf(text, left, cols, i) == Glyphs(text[i], Starts(text)[i - 1], left, cols)

(* They are drawn one after the other, and take the columns of the row up  *)
(* to where the next character starts.                                     *)
LEMMA GlyphedAre ==
    ASSUME NEW text \in Seq(Char), NEW left \in Nat, NEW cols \in Nat
    PROVE  LET out == Glyphed(text, left, cols)
           IN  /\ \A i \in 0..Len(text) :
                     out[i] \in Seq(Ink) /\ Total(out[i]) = InRow(Starts(text)[i], left, cols)
               /\ \A i \in 1..Len(text) : /\ out[i] = out[i - 1] \o GlyphsOf(text, left, cols, i)
                                          /\ GlyphsOf(text, left, cols, i) \in Seq(Ink)
<1> DEFINE n == Len(text)
           out == Glyphed(text, left, cols)
           z(i) == GlyphsOf(text, left, cols, i)
           Drew(h) == h = [i \in 0..n |-> IF i = 0 THEN <<>> ELSE h[i - 1] \o z(i)]
           g == [m \in (1..n) \X Seq(Ink) |-> m[2] \o z(m[1])]
<1>. SUFFICES /\ \A i \in 0..n : out[i] \in Seq(Ink) /\ Total(out[i]) = InRow(Starts(text)[i], left, cols)
              /\ \A i \in 1..n : out[i] = out[i - 1] \o z(i) /\ z(i) \in Seq(Ink)
  OBVIOUS
<1>1. n \in Nat /\ <<>> \in Seq(Ink)
  BY LenProperties
<1>2. out = CHOOSE h : Drew(h)
  BY DEF Glyphed, GlyphsOf
<1>3. ASSUME NEW i \in 1..n
      PROVE  /\ i - 1 \in 0..n /\ i \in 0..n /\ Starts(text)[i - 1] \in Nat /\ Starts(text)[i] \in Nat
             /\ z(i) \in Seq(Ink)
             /\ Total(z(i)) = InRow(Starts(text)[i], left, cols) - InRow(Starts(text)[i - 1], left, cols)
  <2>1. i - 1 \in 0..n /\ i \in 0..n /\ text[i] \in Char
    BY <1>1, ElementOfSeq
  <2>2. Starts(text)[i - 1] \in Nat /\ Starts(text)[i] \in Nat
        /\ Starts(text)[i] = Starts(text)[i - 1] + Width(text[i], Starts(text)[i - 1])
    BY <2>1, StartsAre
  <2>3. /\ z(i) \in Seq(Ink)
        /\ Total(z(i)) = InRow(Starts(text)[i - 1] + Width(text[i], Starts(text)[i - 1]), left, cols)
                           - InRow(Starts(text)[i - 1], left, cols)
    <3> DEFINE d  == Starts(text)[i - 1]
               ch == text[i]
    <3>1. d \in Nat /\ ch \in Char
      BY <2>1, <2>2
    <3>2. z(i) = Glyphs(ch, d, left, cols)
      BY DEF GlyphsOf
    <3>. HIDE DEF d, ch, z
    <3>3. /\ Glyphs(ch, d, left, cols) \in Seq(Ink)
          /\ Total(Glyphs(ch, d, left, cols)) = InRow(d + Width(ch, d), left, cols) - InRow(d, left, cols)
      BY <3>1, GlyphsAre
    <3>4. z(i) \in Seq(Ink) /\ Total(z(i)) = InRow(d + Width(ch, d), left, cols) - InRow(d, left, cols)
      BY <3>2, <3>3
    <3>. QED BY <3>4 DEF d, ch
  <2>. HIDE DEF z
  <2>. QED BY <2>1, <2>2, <2>3
<1>. HIDE DEF n, out, z
<1>4. g \in [(1..n) \X Seq(Ink) -> Seq(Ink)]
  <2>1. ASSUME NEW m \in (1..n) \X Seq(Ink) PROVE m[2] \o z(m[1]) \in Seq(Ink)
    <3>1. m[2] \in Seq(Ink) /\ z(m[1]) \in Seq(Ink)
      BY <1>3
    <3>. QED BY <3>1, ConcatProperties
  <2>. QED BY <2>1
<1>5. PICK h \in [0..n -> Seq(Ink)] :
         \A i \in 0..n : h[i] = IF i = 0 THEN <<>> ELSE g[<<i, h[i - 1]>>]
  <2> DEFINE Z == Seq(Ink)
  <2>1. <<>> \in Z /\ g \in [(1..n) \X Z -> Z]
    BY <1>1, <1>4
  <2>. HIDE DEF g, Z
  <2>2. \E h : Walks(h, Z, <<>>, n, g)
    BY <1>1, <2>1, Recursion
  <2>. QED BY <2>2 DEF Walks, Z
<1>6. Drew(h)
  <2>1. ASSUME NEW i \in 0..n PROVE h[i] = IF i = 0 THEN <<>> ELSE h[i - 1] \o z(i)
    <3>1. CASE i = 0
      BY <1>5, <3>1
    <3>2. CASE i # 0
      <4>1. i - 1 \in 0..n /\ i \in 1..n
        BY <3>2, <1>1
      <4>2. g[<<i, h[i - 1]>>] = h[i - 1] \o z(i)
        BY <4>1
      <4>. QED BY <1>5, <3>2, <4>2
    <3>. QED BY <3>1, <3>2
  <2>. QED BY <2>1
<1>7. Drew(out)
  <2>. HIDE DEF Drew
  <2>. QED BY <1>2, <1>6
<1>8. out[0] = <<>> /\ \A i \in 1..n : out[i] = out[i - 1] \o z(i)
  <2>1. ASSUME NEW i \in 0..n PROVE out[i] = IF i = 0 THEN <<>> ELSE out[i - 1] \o z(i)
    <3>. HIDE DEF out, z, g
    <3>. QED BY <1>7
  <2>2. 0 \in 0..n /\ \A i \in 1..n : i \in 0..n /\ i # 0
    BY <1>1
  <2>. QED BY <2>1, <2>2
<1> DEFINE Good == {i \in 0..n : out[i] \in Seq(Ink) /\ Total(out[i]) = InRow(Starts(text)[i], left, cols)}
           f == [i \in 0..n |-> i]
<1>9. 0 \in Good
  <2>1. Starts(text)[0] = 0 /\ InRow(0, left, cols) = 0
    BY StartsAre DEF InRow, Clamped
  <2>2. out[0] \in Seq(Ink) /\ Total(out[0]) = 0
    BY <1>8, ShortRuns
  <2>3. Total(out[0]) = InRow(Starts(text)[0], left, cols) /\ 0 \in 0..n
    BY <1>1, <2>1, <2>2
  <2>. QED BY <2>2, <2>3
<1>10. ASSUME NEW i \in 1..n, i - 1 \in Good PROVE i \in Good
  <2>1. out[i] = out[i - 1] \o z(i) /\ i \in 0..n
    BY <1>1, <1>8
  <2>2. /\ out[i - 1] \in Seq(Ink) /\ z(i) \in Seq(Ink)
        /\ Total(out[i - 1]) = InRow(Starts(text)[i - 1], left, cols)
        /\ Total(z(i)) = InRow(Starts(text)[i], left, cols) - InRow(Starts(text)[i - 1], left, cols)
        /\ Starts(text)[i - 1] \in Nat /\ Starts(text)[i] \in Nat
    BY <1>3, <1>10
  <2>3. out[i] \in Seq(Ink)
    BY <2>1, <2>2, ConcatProperties
  <2>4. Total(out[i]) = Total(out[i - 1]) + Total(z(i))
    BY <2>1, <2>2, ColumnsJoin
  <2>5. InRow(Starts(text)[i], left, cols) \in Int /\ InRow(Starts(text)[i - 1], left, cols) \in Int
    BY <2>2 DEF InRow, Clamped
  <2>6. Total(out[i]) = InRow(Starts(text)[i], left, cols)
    BY <2>2, <2>4, <2>5
  <2>. QED BY <2>1, <2>3, <2>6
<1>11. \A i \in 0..n : i \in Good
  <2>1. f[0] \in Good /\ \A i \in 1..n : f[i - 1] \in Good => f[i] \in Good
    BY <1>1, <1>3, <1>9, <1>10
  <2>2. \A i \in 0..n : f[i] = i
    OBVIOUS
  <2>. HIDE DEF Good, f
  <2>3. \A i \in 0..n : f[i] \in Good
    BY <1>1, <2>1, WalkStays
  <2>. QED BY <2>2, <2>3
<1>. QED BY <1>3, <1>8, <1>11

(* The row that a line is drawn on, and what of it comes after the glyphs  *)
(* of the first i characters.                                              *)
RowOf(text, left, cols) == ContentSlice(text, left, cols)
Behind(text, left, cols, i) ==
    {t \in Seq(Ink) : RowOf(text, left, cols) = Glyphed(text, left, cols)[i] \o t}

(* The row is filled to its last column, and after the glyphs of some of   *)
(* its characters come those of the others and blanks.                     *)
LEMMA SliceIs ==
    ASSUME NEW text \in Seq(Char), NEW left \in Nat, NEW cols \in Nat
    PROVE  /\ RowOf(text, left, cols) \in Seq(Ink) /\ Total(RowOf(text, left, cols)) = cols
           /\ \A i \in 0..Len(text) : Behind(text, left, cols, i) # {}
<1> DEFINE n == Len(text)
           out == Glyphed(text, left, cols)
           used == InRow(Starts(text)[n], left, cols)
           blanks == [k \in 1..(cols - used) |-> Blank]
           row == RowOf(text, left, cols)
           z(i) == GlyphsOf(text, left, cols, i)
<1>1. n \in Nat /\ n \in 0..n
  BY LenProperties
<1>2. row = out[n] \o blanks
  BY DEF RowOf, ContentSlice, Glyphed, InRow
<1>3. /\ \A i \in 0..n : out[i] \in Seq(Ink)
      /\ \A i \in 1..n : out[i] = out[i - 1] \o z(i) /\ z(i) \in Seq(Ink)
      /\ Total(out[n]) = used
  BY <1>1, GlyphedAre
<1>4. used \in 0..cols
  <2>1. Starts(text)[n] \in Nat
    BY <1>1, StartsAre
  <2>. QED BY <2>1 DEF InRow, Clamped
<1>. HIDE DEF n, out, used, row, z
<1>5. blanks \in Seq(Ink) /\ Total(blanks) = cols - used
  <2>1. cols - used \in Nat /\ Blank \in Ink \ WideChars
    BY <1>4, EditorAssumption DEF Ink
  <2>2. blanks \in [1..(cols - used) -> Ink \ WideChars]
    BY <2>1
  <2>. HIDE DEF blanks
  <2>. QED BY <2>1, <2>2, NarrowRun
<1>. HIDE DEF blanks
<1>6. row \in Seq(Ink) /\ Total(row) = cols
  <2>1. out[n] \in Seq(Ink)
    BY <1>1, <1>3
  <2>2. row \in Seq(Ink)
    BY <1>2, <1>5, <2>1, ConcatProperties
  <2>3. Total(row) = Total(out[n]) + Total(blanks)
    BY <1>2, <1>5, <2>1, ColumnsJoin
  <2>. QED BY <1>3, <1>4, <1>5, <2>2, <2>3
<1> DEFINE R(i) == {t \in Seq(Ink) : row = out[i] \o t}
           S == {k \in Nat : k <= n => R(n - k) # {}}
<1>7. 0 \in S
  <2>1. blanks \in R(n) /\ n - 0 = n
    BY <1>1, <1>2, <1>5
  <2>. QED BY <2>1
<1>8. ASSUME NEW k \in Nat, k \in S PROVE k + 1 \in S
  <2>1. SUFFICES ASSUME k + 1 <= n PROVE R(n - (k + 1)) # {}
    <3>. HIDE DEF R
    <3>. QED BY <2>1
  <2> DEFINE i == n - k
  <2>2. i \in 1..n /\ i - 1 \in 0..n /\ n - (k + 1) = i - 1 /\ k <= n
    BY <1>1, <2>1
  <2>3. PICK t : t \in R(i)
    BY <1>8, <2>2
  <2>. HIDE DEF i
  <2>4. t \in Seq(Ink) /\ row = out[i] \o t
    BY <2>3
  <2>5. out[i - 1] \in Seq(Ink) /\ z(i) \in Seq(Ink) /\ out[i] = out[i - 1] \o z(i)
    BY <1>3, <2>2
  <2>6. (out[i - 1] \o z(i)) \o t = out[i - 1] \o (z(i) \o t)
    <3> DEFINE a == out[i - 1]
               b == z(i)
    <3>1. a \in Seq(Ink) /\ b \in Seq(Ink)
      BY <2>5
    <3>. HIDE DEF a, b
    <3>2. (a \o b) \o t = a \o (b \o t)
      BY <2>4, <3>1, ConcatAssociative
    <3>. QED BY <3>2 DEF a, b
  <2>7. z(i) \o t \in Seq(Ink)
    BY <2>4, <2>5, ConcatProperties
  <2>8. row = out[i - 1] \o (z(i) \o t)
    BY <2>4, <2>5, <2>6
  <2>9. z(i) \o t \in R(i - 1)
    BY <2>7, <2>8
  <2>. HIDE DEF R
  <2>. QED BY <2>2, <2>9
<1>9. Nat \subseteq S
  <2>. HIDE DEF S
  <2>. QED BY <1>7, <1>8, Induction
<1>10. ASSUME NEW i \in 0..n PROVE R(i) # {}
  <2>1. n - i \in Nat /\ n - i <= n /\ n - (n - i) = i
    BY <1>1
  <2>2. n - i \in S
    BY <1>9, <2>1
  <2>. HIDE DEF R
  <2>. QED BY <2>1, <2>2
<1>. QED BY <1>6, <1>10 DEF n, row, out, Behind

(* Where the first glyph of a character that starts in the row is.         *)
DrawnAt(text, left, cols, i) ==
    {k \in DOMAIN RowOf(text, left, cols) :
        /\ Columns(RowOf(text, left, cols))[k - 1] = Starts(text)[i - 1] - left
        /\ RowOf(text, left, cols)[k] = GlyphsOf(text, left, cols, i)[1]}

(* It is drawn in the column that the character starts at.                 *)
LEMMA CharIsDrawn ==
    ASSUME NEW text \in Seq(Char), NEW left \in Nat, NEW cols \in Nat, NEW i \in 1..Len(text),
           left <= Starts(text)[i - 1], Starts(text)[i - 1] < left + cols
    PROVE  DrawnAt(text, left, cols, i) # {}
<1> DEFINE row == RowOf(text, left, cols)
           a == Glyphed(text, left, cols)[i - 1]
           z == GlyphsOf(text, left, cols, i)
           b == Glyphed(text, left, cols)[i]
           d == Starts(text)[i - 1]
<1>1. Len(text) \in Nat /\ i \in 0..Len(text) /\ i - 1 \in 0..Len(text) /\ text[i] \in Char
  BY LenProperties, ElementOfSeq
<1>2. d \in Nat
  BY <1>1, StartsAre
<1>3. a \in Seq(Ink) /\ Total(a) = InRow(d, left, cols) /\ b = a \o z /\ z \in Seq(Ink) /\ b \in Seq(Ink)
  BY <1>1, GlyphedAre
<1>4. InRow(d, left, cols) = d - left
  BY <1>2 DEF InRow, Clamped
<1>5. z # <<>>
  <2>1. left <= d /\ d < left + cols => Glyphs(text[i], d, left, cols) # <<>>
    <3> DEFINE ch == text[i]
    <3>. HIDE DEF d
    <3>1. ch \in Char
      BY <1>1
    <3>. HIDE DEF ch
    <3>2. left <= d /\ d < left + cols => Glyphs(ch, d, left, cols) # <<>>
      BY <1>2, <3>1, GlyphsAre
    <3>. QED BY <3>2 DEF ch
  <2>. QED BY <2>1 DEF GlyphsOf
<1>6. PICK t \in Seq(Ink) : row = b \o t
  <2>1. Behind(text, left, cols, i) # {}
    BY <1>1, SliceIs
  <2>. QED BY <2>1 DEF Behind
<1>7. row \in Seq(Ink)
  BY SliceIs
<1>. HIDE DEF row, a, z, b, d
<1>8. Len(a) \in Nat /\ Len(z) \in Nat \ {0} /\ Len(t) \in Nat /\ Len(b) = Len(a) + Len(z)
      /\ Len(row) = Len(b) + Len(t)
  <2>1. Len(z) # 0
    BY <1>3, <1>5, EmptySeq
  <2>. QED BY <1>3, <1>6, <2>1, ConcatProperties, LenProperties
<1> DEFINE k == Len(a) + 1
<1>9. k \in 1..Len(row) /\ k - 1 = Len(a) /\ k \in 1..Len(b) /\ Len(a) \in 0..Len(b) /\ k - Len(a) = 1
      /\ 1 \in 1..Len(z) /\ Len(a) \in 0..Len(a)
  BY <1>8
<1>10. k \in DOMAIN row
  BY <1>7, <1>9, LenProperties
<1>11. Columns(row)[Len(a)] = Columns(b)[Len(a)]
  BY <1>3, <1>6, <1>9, ColumnsJoin
<1>12. Columns(b)[Len(a)] = Total(a)
  BY <1>3, <1>9, ColumnsJoin DEF Total
<1>13. row[k] = b[k]
  BY <1>3, <1>6, <1>9, ConcatProperties
<1>14. b[k] = z[1]
  BY <1>3, <1>8, <1>9, ConcatProperties
<1>15. Columns(row)[k - 1] = d - left /\ row[k] = z[1]
  BY <1>3, <1>4, <1>9, <1>11, <1>12, <1>13, <1>14
<1>. HIDE DEF k
<1>. QED BY <1>10, <1>15 DEF row, z, d, DrawnAt

(* The line that the row r of the window shows, and what the row is.       *)
LineAt(t, r) == t + r - 1
RowShows(doc, t, p, left, cols, height, r) ==
    /\ DOMAIN Frame(doc, t, p, height, left, cols) = 1..height /\ LineAt(t, r) \in Nat
    /\ LineAt(t, r) >= Len(doc) => Frame(doc, t, p, height, left, cols)[r] = Tilde
    /\ LineAt(t, r) < Len(doc) =>
         /\ LineAt(t, r) \in 0..LastLine(doc)
         /\ Frame(doc, t, p, height, left, cols)[r].text
              = RowOf(LineOf(doc, LineAt(t, r)), left, cols - GutterWidth(Len(doc)))
         /\ Frame(doc, t, p, height, left, cols)[r].highlighted <=> LineAt(t, r) = p.line

(* A row of the window shows its line, or a tilde past the end.            *)
LEMMA DrawnRowIs ==
    ASSUME NEW doc \in Doc, NEW t \in Nat, NEW p \in Pos, p.line \in 0..LastLine(doc),
           NEW left \in Nat, NEW cols \in Nat, cols > GutterWidth(Len(doc)),
           NEW height \in Nat, NEW r \in 1..height
    PROVE  RowShows(doc, t, p, left, cols, height, r)
<1> DEFINE line  == LineAt(t, r)
           frame == Frame(doc, t, p, height, left, cols)
           n     == cols - GutterWidth(Len(doc))
<1>1. Len(doc) \in Nat \ {0} /\ LastLine(doc) + 1 = Len(doc) /\ LastLine(doc) \in Nat
  BY DocLines
<1>2. frame = [q \in 1..height |-> DrawnRow(doc, t, p.line, q - 1, left, cols)]
  <2>1. p.line < Len(doc) /\ ~(cols <= GutterWidth(Len(doc)))
    <3>1. GutterWidth(Len(doc)) \in Nat
      BY DEF GutterWidth
    <3>. QED BY <1>1, <3>1
  <2>. QED BY <2>1 DEF Frame
<1>3. BufferLineOfRow(r - 1, t) = line /\ line \in Nat
  BY DEF BufferLineOfRow, LineAt
<1>4. DrawnRow(doc, t, p.line, r - 1, left, cols)
        = IF line >= Len(doc) THEN Tilde
          ELSE [number |-> line + 1, text |-> RowOf(LineOf(doc, line), left, n),
                highlighted |-> line = p.line]
  BY <1>3 DEF DrawnRow, PastEofRow, RowOf
<1>. HIDE DEF frame, line, n
<1>5. frame[r] = DrawnRow(doc, t, p.line, r - 1, left, cols) /\ DOMAIN frame = 1..height
  BY <1>2
<1>6. ASSUME line < Len(doc)
      PROVE  /\ line \in 0..LastLine(doc) /\ frame[r].text = RowOf(LineOf(doc, line), left, n)
             /\ frame[r].highlighted <=> line = p.line
  <2>1. ~(line >= Len(doc)) /\ line \in 0..LastLine(doc)
    BY <1>1, <1>3, <1>6
  <2>2. frame[r] = [number |-> line + 1, text |-> RowOf(LineOf(doc, line), left, n),
                    highlighted |-> line = p.line]
    BY <1>4, <1>5, <2>1
  <2>3. frame[r].text = RowOf(LineOf(doc, line), left, n)
    BY <2>2
  <2>4. frame[r].highlighted = (line = p.line)
    BY <2>2
  <2>. QED BY <2>1, <2>3, <2>4
<1>7. line >= Len(doc) => frame[r] = Tilde
  BY <1>4, <1>5
<1>. QED BY <1>3, <1>5, <1>6, <1>7 DEF frame, line, n, RowShows

(* Whatever the window shows of a text, however far it is scrolled either  *)
(* way, is in step with the place of the cursor.                           *)
LEMMA ViewsAreAligned ==
    ASSUME lines \in Doc, cursor \in Grid(lines), rows \in Nat, ViewInv,
           NEW left \in Nat, NEW cols \in Nat
    PROVE  ViewAligned(left, cols)
<1> DEFINE num   == GutterWidth(Len(lines))
           frame == Frame(lines, top, cursor, rows, left, cols)
           place == PlaceCursor(lines, top, cursor, left)
           n     == cols - num
           disp  == DispOfCp(CursorLine, cursor.col)
           col   == Lesser(cursor.col, LastCol(CursorLine))
           here  == frame[place.row].text
<1>. SUFFICES ASSUME rows > 0, cols > num PROVE Aligned(frame, place, left, cols)
  BY DEF ViewAligned
<1>1. /\ cursor.line \in 0..LastLine(lines) /\ cursor.line \in Nat /\ cursor.col \in Nat
      /\ CursorLine \in Seq(Char) /\ Len(CursorLine) \in Nat /\ top \in Nat
      /\ top <= cursor.line /\ cursor.line < top + rows
      /\ Len(lines) \in Nat /\ LastLine(lines) + 1 = Len(lines) /\ LastLine(lines) \in Nat
  BY GridIs, DocLines DEF CursorLine, ViewInv
<1>2. num \in Nat /\ n \in Nat
  <2>1. num \in Nat
    BY DEF GutterWidth
  <2>. QED BY <2>1
<1>3. ASSUME NEW r \in 1..rows
      PROVE  /\ DOMAIN frame = 1..rows /\ LineAt(top, r) \in Nat
             /\ LineAt(top, r) >= Len(lines) => frame[r] = Tilde
             /\ LineAt(top, r) < Len(lines) =>
                  /\ LineAt(top, r) \in 0..LastLine(lines)
                  /\ frame[r].text = RowOf(LineOf(lines, LineAt(top, r)), left, n)
                  /\ frame[r].highlighted <=> LineAt(top, r) = cursor.line
  <2>1. cursor \in Pos /\ cursor.line \in 0..LastLine(lines) /\ top \in Nat
    BY <1>1 DEF Grid
  <2>2. RowShows(lines, top, cursor, left, cols, rows, r)
    BY <2>1, DrawnRowIs
  <2>. QED BY <2>2 DEF RowShows
<1>4. /\ place.row = 1 + cursor.line - top /\ place.row \in 1..rows
      /\ place.col = Greater(0, num + disp - left)
  <2>1. place.row = 1 + RowOfLine(cursor.line, top) /\ place.col = Greater(0, num + disp - left)
    BY DEF PlaceCursor, CursorLine
  <2>2. RowOfLine(cursor.line, top) = cursor.line - top
    BY <1>1 DEF RowOfLine
  <2>. HIDE DEF place
  <2>. QED BY <1>1, <2>1, <2>2
<1>. HIDE DEF frame, place, num, n
<1>5. ASSUME NEW r \in DOMAIN frame, frame[r] # Tilde
      PROVE  Columns(frame[r].text)[Len(frame[r].text)] = n
  <2>1. r \in 1..rows
    BY <1>3, <1>4
  <2> DEFINE line == LineAt(top, r)
  <2>2. line \in Nat /\ line < Len(lines) /\ DOMAIN frame = 1..rows
    BY <1>1, <1>3, <1>5, <2>1
  <2>3. line \in 0..LastLine(lines) /\ frame[r].text = RowOf(LineOf(lines, line), left, n)
    BY <1>3, <2>1, <2>2
  <2>. HIDE DEF line
  <2>4. LineOf(lines, line) \in Seq(Char)
    BY <2>3, DocLines
  <2>5. Total(RowOf(LineOf(lines, line), left, n)) = n
    BY <1>2, <2>4, SliceIs
  <2>. QED BY <2>3, <2>5 DEF Total
<1>6. {r \in DOMAIN frame : frame[r].highlighted} = {place.row}
  <2>1. ASSUME NEW r \in 1..rows
        PROVE  frame[r].highlighted <=> r = place.row
    <3> DEFINE line == LineAt(top, r)
    <3>1. line \in Nat /\ (line = cursor.line <=> r = place.row)
      BY <1>1, <1>4 DEF LineAt
    <3>2. CASE line >= Len(lines)
      <4>1. frame[r] = Tilde
        BY <1>3, <3>2
      <4>2. ~frame[r].highlighted
        BY <4>1 DEF Tilde
      <4>3. line # cursor.line
        BY <1>1, <3>1, <3>2
      <4>. QED BY <3>1, <4>2, <4>3
    <3>3. CASE line < Len(lines)
      <4>1. frame[r].highlighted <=> line = cursor.line
        BY <1>3, <3>3
      <4>. QED BY <3>1, <4>1
    <3>. QED BY <1>1, <3>1, <3>2, <3>3
  <2>2. DOMAIN frame = 1..rows
    BY <1>3, <1>4
  <2>. QED BY <1>4, <2>1, <2>2
<1>7. ASSUME CursorLine # <<>>, left <= disp, disp < left + n
      PROVE  \E i \in DOMAIN here :
                 /\ num + Columns(here)[i - 1] = place.col
                 /\ here[i] = Glyphs(CharAt(lines, At(cursor.line, col)), disp, left, n)[1]
  <2>1. here = RowOf(CursorLine, left, n)
    <3>1. LineAt(top, place.row) = cursor.line /\ cursor.line < Len(lines)
      BY <1>1, <1>4 DEF LineAt
    <3>2. frame[place.row].text = RowOf(LineOf(lines, LineAt(top, place.row)), left, n)
      BY <1>3, <1>4, <3>1
    <3>. QED BY <3>1, <3>2 DEF CursorLine
  <2>2. Len(CursorLine) \in Nat \ {0} /\ LastCol(CursorLine) = Len(CursorLine) - 1
    BY <1>1, <1>7, EmptySeq DEF LastCol
  <2>3. col \in Nat /\ col + 1 \in 1..Len(CursorLine) /\ (col + 1) - 1 = col /\ col \in 0..Len(CursorLine)
    BY <1>1, <2>2 DEF Lesser
  <2>4. disp = Starts(CursorLine)[col]
    BY <1>7, <2>2 DEF DispOfCp
  <2>5. CharAt(lines, At(cursor.line, col)) = CursorLine[col + 1]
    BY DEF CharAt, At, CursorLine
  <2>6. Starts(CursorLine)[col] \in Nat
    BY <1>1, <2>3, StartsAre
  <2>. HIDE DEF here, disp, col
  <2>7. PICK k \in DOMAIN RowOf(CursorLine, left, n) :
           /\ Columns(RowOf(CursorLine, left, n))[k - 1] = Starts(CursorLine)[(col + 1) - 1] - left
           /\ RowOf(CursorLine, left, n)[k] = GlyphsOf(CursorLine, left, n, col + 1)[1]
    <3> DEFINE i    == col + 1
               text == CursorLine
    <3>1. i \in 1..Len(text) /\ left <= Starts(text)[i - 1] /\ Starts(text)[i - 1] < left + n
          /\ text \in Seq(Char)
      BY <1>1, <1>7, <2>3, <2>4
    <3>. HIDE DEF i, text
    <3>2. DrawnAt(text, left, n, i) # {}
      BY <1>2, <3>1, CharIsDrawn
    <3>. QED BY <3>2 DEF i, text, DrawnAt
  <2>8. GlyphsOf(CursorLine, left, n, col + 1) = Glyphs(CharAt(lines, At(cursor.line, col)), disp, left, n)
    BY <2>3, <2>4, <2>5 DEF GlyphsOf
  <2>9. num + (disp - left) = place.col
    BY <1>2, <1>4, <1>7, <2>4, <2>6 DEF Greater
  <2>10. Columns(here)[k - 1] = disp - left /\ k \in DOMAIN here
    BY <2>1, <2>3, <2>4, <2>7
  <2>11. here[k] = Glyphs(CharAt(lines, At(cursor.line, col)), disp, left, n)[1]
    BY <2>1, <2>7, <2>8
  <2>. QED BY <2>9, <2>10, <2>11
<1>. QED BY <1>5, <1>6, <1>7 DEF Aligned, num, n

(* What is on the screen is what render drew of the state that it is in:   *)
(* every command ends with a render of what it left.                       *)
ScreenInv == screen = Drawn(lines, top, cursor, rows)

(* A command that records a change is drawn.                               *)
LEMMA EditDraws ==
    ASSUME NEW c, NEW tag, Edit(c, tag)
    PROVE  ScreenInv'
BY DEF Edit, Follow, ScreenInv

(* So is an operator, on whatever it operates.                             *)
LEMMA OperatorDraws ==
    ASSUME NEW e, NEW name, ApplyOperator(e, name)
    PROVE  ScreenInv'
<1>1. CASE e.op = "y"
  BY <1>1 DEF ApplyOperator, Yank, Follow, ScreenInv
<1>2. CASE e.op # "y"
  <2>1. Rewrite(e, name)
    BY <1>2 DEF ApplyOperator
  <2>. QED BY <2>1 DEF Rewrite, Follow, ScreenInv
<1>. QED BY <1>1, <1>2

(* So is a motion.                                                         *)
LEMMA MoveDraws ==
    ASSUME NEW p, NEW aim, MoveTo(p, aim)
    PROVE  ScreenInv'
BY DEF MoveTo, Follow, ScreenInv

(* Every command leaves on the screen what render draws of what it left.   *)
LEMMA ScreenStep == ScreenInv /\ [Next]_vars => ScreenInv'
<1> SUFFICES ASSUME ScreenInv, [Next]_vars PROVE ScreenInv'
  OBVIOUS
<1>1. CASE UNCHANGED vars
  BY <1>1 DEF vars, ScreenInv
<1>2. ASSUME NEW ch, InsertChar(ch) PROVE ScreenInv'
  BY <1>2, EditDraws DEF InsertChar
<1>3. CASE InsertNewline
  BY <1>3, EditDraws DEF InsertNewline
<1>4. CASE SplitLine
  BY <1>4, EditDraws DEF SplitLine
<1>5. CASE EraseChar
  BY <1>5, EditDraws DEF EraseChar
<1>6. ASSUME NEW atEol \in BOOLEAN, EnterInsert(atEol) PROVE ScreenInv'
  BY <1>6 DEF EnterInsert, Follow, ScreenInv
<1>7. CASE LeaveInsert
  BY <1>7 DEF LeaveInsert, Follow, ScreenInv
<1>8. ASSUME NEW n, DeleteChar(n) PROVE ScreenInv'
  BY <1>8, EditDraws DEF DeleteChar
<1>9. ASSUME NEW op, NEW n, \/ OperateOverMotion(op, n) \/ OperateOverFind(op, n)
                            \/ OperateToFirst(op, n) \/ OperateOnObject(op) \/ OperateOnLines(op, n)
      PROVE  ScreenInv'
  <2>1. \E e, name : ApplyOperator(e, name)
    BY <1>9 DEF OperateOverMotion, OperateOverFind, OperateToFirst, OperateOnObject, OperateOnLines
  <2>. QED BY <2>1, OperatorDraws
<1>10. CASE Undo
  BY <1>10 DEF Undo, Follow, ScreenInv
<1>11. CASE Redo
  BY <1>11 DEF Redo, Follow, ScreenInv
<1>12. ASSUME NEW id, NEW n, Move(id, n) PROVE ScreenInv'
  <2>1. \E p, aim : MoveTo(p, aim)
    BY <1>12 DEF Move
  <2>. QED BY <2>1, MoveDraws
<1>13. ASSUME NEW id, NEW ch, NEW n, MoveToFound(id, ch, n) PROVE ScreenInv'
  <2>1. \E p, aim : MoveTo(p, aim)
    BY <1>13 DEF MoveToFound
  <2>. QED BY <2>1, MoveDraws
<1>14. ASSUME NEW id, NEW n, NEW counted, Scroll(id, n, counted) PROVE ScreenInv'
  BY <1>14 DEF Scroll, Follow, ScreenInv
<1>15. CASE Resize
  BY <1>15 DEF Resize, Follow, ScreenInv
<1>16. CASE Next
  <2>1. CASE \E id \in MotionIds, n \in Counts : Move(id, n)
    BY <2>1, <1>12
  <2>2. CASE \E id \in {"f", "F", "t", "T"}, ch \in Targets, n \in Counts : MoveToFound(id, ch, n)
    BY <2>2, <1>13
  <2>3. CASE \E id \in ScrollIds, n \in Counts, counted \in BOOLEAN : Scroll(id, n, counted)
    BY <2>3, <1>14
  <2>4. CASE \/ \E op \in SpanOps, n \in 1..MaxCount :
                  \/ OperateOverMotion(op, n) \/ OperateOverFind(op, n) \/ OperateToFirst(op, n)
             \/ \E op \in SpanOps : OperateOnObject(op)
             \/ \E op \in OperatorIds, n \in Counts : OperateOnLines(op, n)
    BY <2>4, <1>9
  <2>. QED BY <1>2, <1>3, <1>4, <1>5, <1>6, <1>7, <1>8, <1>10, <1>11, <1>15, <1>16,
              <2>1, <2>2, <2>3, <2>4 DEF Next
<1>. QED BY <1>1, <1>16

(* The view of any state of the invariant, and what is on the screen.      *)
LEMMA RowsAre ==
    ASSUME EditorInv, ScreenInv
    PROVE  RowsAligned /\ \A left \in Nat, cols \in Nat : ViewAligned(left, cols)
<1>1. lines \in Doc /\ cursor \in Grid(lines) /\ rows \in Nat /\ ViewInv
  BY Here DEF EditorInv
<1>2. \A left \in Nat, cols \in Nat : ViewAligned(left, cols)
  BY <1>1, ViewsAreAligned
<1>3. rows > 0 /\ ScreenCols > GutterWidth(Len(lines)) => Aligned(screen.frame, screen.place, 0, ScreenCols)
  <2>1. ScreenCols \in Nat
    BY EditorAssumption
  <2>2. ViewAligned(0, ScreenCols)
    BY <1>2, <2>1
  <2>3. /\ screen.frame = Frame(lines, top, cursor, rows, 0, ScreenCols)
        /\ screen.place = PlaceCursor(lines, top, cursor, 0)
    BY DEF ScreenInv, Drawn
  <2>. QED BY <2>2, <2>3 DEF ViewAligned
<1>4. \A left \in 1..3, cols \in 3..6 : ViewAligned(left, cols)
  <2>1. 1..3 \subseteq Nat /\ 3..6 \subseteq Nat
    OBVIOUS
  <2>. QED BY <1>2, <2>1
<1>. QED BY <1>2, <1>3, <1>4 DEF RowsAligned

-----------------------------------------------------------------------------
(* The invariant holds throughout, for every text, every alphabet, every   *)
(* sequence of commands and every height of the window.                    *)
THEOREM EditorInvariant == Spec => []EditorInv
<1>1. EditorInv /\ [Next]_vars => EditorInv'
  BY EditorStep DEF Keeps
<1>. QED BY EditorInit, <1>1, PTL DEF Spec

(* The document keeps a line at least, the registers hold texts or nothing *)
(* and the cursor has natural coordinates, after every command of the      *)
(* reducer (EditorState and Document).                                     *)
THEOREM EditorTypes == Spec => []TypeOK
<1>1. EditorInv => TypeOK
  BY DEF EditorInv, ViewInv, HistInv, TypeInv, TypeOK, Grid
<1>. QED BY <1>1, EditorInvariant, PTL

(* No motion, operator, undo, scroll or resize takes the cursor off the    *)
(* text or off the screen, and the render leaves the view of a scroll      *)
(* where the scroll put it, at any time (reducer.cpp and core/view.cpp).   *)
THEOREM CursorIsOnScreen == Spec => [](CursorOnScreen /\ (rows > 0 => ScrollsAsAsked))
<1>1. EditorInv => CursorOnScreen /\ (rows > 0 => ScrollsAsAsked)
  BY ScrollsAreKept DEF EditorInv, ViewInv, Grid, CursorOnScreen
<1>. QED BY <1>1, EditorInvariant, PTL

(* Every command that changes the text records a change that the history   *)
(* may record, and no other command touches it: the reducer implements the *)
(* history by itself (Reducer::record_change and apply_edit).              *)
THEOREM EditorDrivesHistory == Spec => HistSpec
<1>1. Init => HistInit
  BY DEF Init
<1>2. EditorInv /\ [Next]_vars => [HistNext]_histVars
  BY EditorStep DEF Keeps
<1>. QED BY <1>1, <1>2, EditorInvariant, PTL DEF Spec, HistSpec

(* With any commands in any order the stacks and the documents of the past *)
(* and of the future tell one story, to the cursor hints (UndoStack).      *)
THEOREM EditorHistoryIsLinked == Spec => []Linked
<1>. QED BY EditorDrivesHistory, HistoryIsLinked, PTL

(* No command can make the baseline assertions of Buffer::apply_inverse    *)
(* and Buffer::redo fail, whatever was typed, operated on and undone.      *)
THEOREM EditorNeverDrifts == Spec => []NoDrift
<1>. QED BY EditorDrivesHistory, NoBaselineDrift, PTL

(* u after any command of the reducer gives back the document from before  *)
(* the unit, and C-r the one from after it.                                *)
THEOREM EditorUndoInverts == Spec => UndoIsInverse
<1>. QED BY EditorDrivesHistory, UndoInverts, PTL

(* The whole reducer implements the abstract history of EditHistory.       *)
THEOREM EditorKeepsHistory == Spec => KeepsHistory
<1>. QED BY EditorDrivesHistory, HistoryRefines, PTL

(* What d and c take away is what they put in the register: put back in    *)
(* its place it makes the text whole again, for every edit that an         *)
(* operator has at any cursor of any text (extract_register, plan_edit).   *)
THEOREM ErasedTextIsKept == Spec => [](ErasedIsKept /\ KeepsErased)
<1>1. EditorInv => ErasedIsKept /\ KeepsErased
  BY ErasedIsInRegister DEF ErasedIsKept
<1>. QED BY <1>1, EditorInvariant, PTL

(* w and b stop at every start of a word and at every empty line they come *)
(* to, and e at every end, at any position of any text (motions.cpp).      *)
THEOREM WordsMissNothing == Spec => [](NoStopMissed /\ MissesNoStop)
<1>1. EditorInv => NoStopMissed /\ MissesNoStop
  BY WordsMissNoStop DEF NoStopMissed
<1>. QED BY <1>1, EditorInvariant, PTL

(* Every bracket object that a key asks for is there with its brackets or  *)
(* not at all, and is balanced inside, wherever the cursor and whatever    *)
(* the text; and on the opened document the cursor of normal mode, at rest *)
(* on a character, is in the pair that the objects find (the two scans of  *)
(* textobj.cpp, from the cursor outward and from one bracket on).          *)
THEOREM BracketsAreHeld == Spec => [](HoldsBrackets /\ BracketsBalance)
<1>1. Init => RestInv
  BY RestInit
<1>2. EditorInv /\ RestInv /\ [Next]_vars => RestInv'
  BY RestStep
<1>3. EditorInv /\ RestInv => HoldsBrackets /\ BracketsBalance
  BY BracketsHeld
<1>4. Spec => []RestInv
  <2>1. EditorInv /\ EditorInv' /\ RestInv /\ [Next]_vars => RestInv'
    BY <1>2
  <2>. QED BY <1>1, <2>1, EditorInvariant, PTL DEF Spec
<1>. QED BY <1>3, <1>4, EditorInvariant, PTL

(* Every row of the window is filled to its last column and no further,    *)
(* the row that is highlighted is the one the terminal's cursor is on, and *)
(* the character it is on is drawn from its column on: what the frame      *)
(* shows and where the cursor is put agree on the screen after every       *)
(* command, and would in a terminal of any width, scrolled sideways by any *)
(* number of columns (draw_buffer_view, content_slice, place_cursor).      *)
THEOREM RowsAreAligned ==
    Spec => [](RowsAligned /\ \A left \in Nat, cols \in Nat : ViewAligned(left, cols))
<1>1. Init => ScreenInv
  BY DEF Init, ScreenInv
<1>2. ScreenInv /\ [Next]_vars => ScreenInv'
  BY ScreenStep
<1>3. EditorInv /\ ScreenInv => RowsAligned /\ \A left \in Nat, cols \in Nat : ViewAligned(left, cols)
  BY RowsAre
<1>4. Spec => []ScreenInv
  BY <1>1, <1>2, PTL DEF Spec
<1>. QED BY <1>3, <1>4, EditorInvariant, PTL
=============================================================================
