---------------------------- MODULE BufferProofs ----------------------------
(***************************************************************************)
(* The buffer by itself, as other callers drive it: with groups of any     *)
(* number of changes, nested in any way, with merged runs, and with        *)
(* positions beyond the text, none of which the reducer uses.  Two parts:  *)
(*                                                                         *)
(*   - the history: the inductive invariant BufInv links the stacks of     *)
(*     units, and the open group, to the documents of the past and of the  *)
(*     future, so that the buffer implements EditHistory as the editor     *)
(*     does;                                                               *)
(*   - the flat text of a document, that is the one with a newline between *)
(*     two lines, which each primitive of the buffer edits in one place.   *)
(*                                                                         *)
(* The lemmas on splices, merged changes and chains of documents that both *)
(* histories rest on are those of EditorProofs, for Buffer's constants.    *)
(***************************************************************************)
EXTENDS Buffer, Motions, SequencesExt, FiniteSetTheorems, SequenceTheorems, TLAPS

-----------------------------------------------------------------------------
(* Documents, positions and changes, by the names that the editor's        *)
(* history has for them (LineHistory).                                     *)
Line == Seq(Char)
Doc  == Seq(Line) \ {<<>>}
Pos  == [line : Nat, col : Nat]

Change ==
    [kind : Kinds, first : Nat, old : Doc, new : Seq(Line), before : Pos, after : Pos]

(* A position of the document; one past a line's end is a position.        *)
InGrid(doc, p) == p.line < Len(doc) /\ p.col <= Len(doc[p.line + 1])

-----------------------------------------------------------------------------
(***************************************************************************)
(* Induction over data, as facts about sets; and a left fold over an       *)
(* interval, which the library defines on sets of positions.               *)
(***************************************************************************)
\* A set of natural numbers that is not empty has a least element: of the intervals
\* 1 .. n of its members take one that contains no other.
LEMMA LeastNumber ==
  ASSUME NEW S, S \subseteq Nat, S # {}
  PROVE  \E n \in S : \A m \in S : ~(m < n)
<1> DEFINE R == StrictSubsetOrdering(Nat)
           T == {1 .. n : n \in S}
<1>1. IsWellFoundedOn(R, FiniteSubsetsOf(Nat))
  BY FS_StrictSubsetOrderingWellFounded
<1>2. T \subseteq FiniteSubsetsOf(Nat) /\ T # {}
  <2>1. \A n \in S : IsFiniteSet(1 .. n) /\ 1 .. n \subseteq Nat
    BY FS_Interval
  <2>2. QED
    BY <2>1 DEF FiniteSubsetsOf
<1>3. \A m, n \in S : m < n => <<1 .. m, 1 .. n>> \in R
  <2>1. \A m, n \in S : m < n => 1 .. m \subseteq 1 .. n /\ 1 .. m # 1 .. n /\ 1 .. n \subseteq Nat
    OBVIOUS
  <2>2. QED
    BY <2>1 DEF StrictSubsetOrdering
<1>4. PICK x \in T : \A y \in T : ~(<<y, x>> \in R)
  <2> HIDE DEF R, T
  <2> QED
    BY <1>1, <1>2, WFMin
<1>5. QED
  BY <1>3, <1>4

\* A set that has 0, and n + 1 with every n, has every natural number.
LEMMA Induction ==
  ASSUME NEW S, 0 \in S, \A n \in Nat : n \in S => n + 1 \in S
  PROVE  Nat \subseteq S
<1> DEFINE T == Nat \ S
<1>1. SUFFICES ASSUME T # {} PROVE FALSE
  OBVIOUS
<1>2. PICK n \in T : \A m \in T : ~(m < n)
  BY <1>1, LeastNumber
<1>3. n # 0 /\ n - 1 \in Nat /\ n - 1 < n
  BY <1>2
<1>4. n - 1 \notin T
  BY <1>2, <1>3
<1>5. n - 1 \in S /\ (n - 1) + 1 = n
  BY <1>3, <1>4
<1>6. QED
  BY <1>5, <1>3, <1>2

(* Two ways up from 0 that start alike and go on alike.                    *)
LEMMA SameAscent ==
    ASSUME NEW n \in Nat, NEW f, NEW w, f[0] = w[0],
           \A i \in 0..(n - 1) : f[i] = w[i] => f[i + 1] = w[i + 1]
    PROVE  \A i \in 0..n : f[i] = w[i]
<1> DEFINE s == {k \in Nat : k <= n => f[k] = w[k]}
<1>1. 0 \in s
  OBVIOUS
<1>2. ASSUME NEW k \in Nat, k \in s PROVE k + 1 \in s
  <2>1. SUFFICES ASSUME k + 1 <= n PROVE f[k + 1] = w[k + 1]
    OBVIOUS
  <2>2. k \in 0..(n - 1) /\ k <= n
    BY <2>1
  <2>3. f[k] = w[k]
    BY <1>2, <2>2
  <2>. QED BY <2>2, <2>3
<1>3. Nat \subseteq s
  <2>. HIDE DEF s
  <2>. QED BY <1>1, <1>2, Induction
<1>. QED BY <1>3

(* Two ways down from n + 1 to 1 that start alike and go on alike.         *)
LEMMA SameDescent ==
    ASSUME NEW n \in Nat, NEW f, NEW w, f[n + 1] = w[n + 1],
           \A i \in 1..n : f[i + 1] = w[i + 1] => f[i] = w[i]
    PROVE  \A i \in 1..(n + 1) : f[i] = w[i]
<1> DEFINE s == {k \in Nat : k <= n => f[n + 1 - k] = w[n + 1 - k]}
<1>1. 0 \in s
  <2>1. n + 1 - 0 = n + 1
    OBVIOUS
  <2>. QED BY <2>1
<1>2. ASSUME NEW k \in Nat, k \in s PROVE k + 1 \in s
  <2>1. SUFFICES ASSUME k + 1 <= n PROVE f[n + 1 - (k + 1)] = w[n + 1 - (k + 1)]
    OBVIOUS
  <2> DEFINE i == n + 1 - (k + 1)
  <2>2. i \in 1..n /\ i + 1 = n + 1 - k /\ k <= n
    BY <2>1
  <2>. HIDE DEF i
  <2>3. f[i + 1] = w[i + 1]
    BY <1>2, <2>2
  <2>. QED BY <2>2, <2>3 DEF i
<1>3. Nat \subseteq s
  <2>. HIDE DEF s
  <2>. QED BY <1>1, <1>2, Induction
<1>. SUFFICES ASSUME NEW i \in 1..(n + 1) PROVE f[i] = w[i]
  OBVIOUS
<1> DEFINE k == n + 1 - i
<1>4. k \in Nat /\ k <= n /\ n + 1 - k = i
  OBVIOUS
<1>. HIDE DEF k
<1>5. k \in s
  BY <1>3, <1>4
<1>. QED BY <1>4, <1>5

\* The greatest of the numbers that a fold takes one by one from the end.
LEMMA LastOfInterval ==
  ASSUME NEW n \in Nat, NEW s \in SUBSET (1 .. (n + 1)), n + 1 \in s
  PROVE  Max(s) = n + 1
<1>1. \A y \in s : n + 1 >= y /\ (y >= n + 1 => y = n + 1)
  OBVIOUS
<1>2. QED
  BY <1>1 DEF Max

\* The function by which a left fold is defined: what the members of s, a set of positions
\* 1 .. N, make of base, when the step at position i is the function G.
FoldOf(f, V, base, N, G) ==
  /\ f \in [SUBSET (1 .. N) -> V]
  /\ \A s \in SUBSET (1 .. N) :
       f[s] = IF s = {} THEN base ELSE G[<<f[s \ {Max(s)}], Max(s)>>]

\* It exists, when the steps never leave V.
LEMMA FoldExists ==
  ASSUME NEW V, NEW base \in V, NEW N \in Nat,
         NEW G \in [V \X (1 .. N) -> V]
  PROVE  \E f : FoldOf(f, V, base, N, G)
<1> DEFINE Folds(n, f) ==
             \A s \in SUBSET (1 .. n) :
               f[s] = IF s = {} THEN base ELSE G[<<f[s \ {Max(s)}], Max(s)>>]
           Has(n) == \E f \in [SUBSET (1 .. n) -> V] : Folds(n, f)
           S == {n \in Nat : n <= N => Has(n)}
<1>1. Has(0)
  <2> DEFINE f == [s \in SUBSET (1 .. 0) |-> base]
  <2>1. f \in [SUBSET (1 .. 0) -> V]
    OBVIOUS
  <2>2. \A s \in SUBSET (1 .. 0) : s = {}
    OBVIOUS
  <2>3. Folds(0, f)
    BY <2>2
  <2>4. QED
    BY <2>1, <2>3
<1>2. ASSUME NEW n \in Nat, n + 1 <= N, Has(n) PROVE Has(n + 1)
  <2>1. PICK f \in [SUBSET (1 .. n) -> V] : Folds(n, f)
    BY <1>2
  <2> DEFINE g == [s \in SUBSET (1 .. (n + 1)) |->
                     IF n + 1 \in s THEN G[<<f[s \ {n + 1}], n + 1>>] ELSE f[s]]
  <2>2. \A s \in SUBSET (1 .. (n + 1)) :
          /\ s \ {n + 1} \in SUBSET (1 .. n)
          /\ n + 1 \notin s => s \in SUBSET (1 .. n)
    OBVIOUS
  <2>3. \A s \in SUBSET (1 .. n) : s \in SUBSET (1 .. (n + 1)) /\ n + 1 \notin s /\ g[s] = f[s]
    OBVIOUS
  <2>4. n + 1 \in 1 .. N
    BY <1>2
  <2>5. g \in [SUBSET (1 .. (n + 1)) -> V]
    <3>1. ASSUME NEW s \in SUBSET (1 .. (n + 1)) PROVE g[s] \in V
      <4>1. CASE n + 1 \in s
        <5>1. f[s \ {n + 1}] \in V
          BY <2>2
        <5>2. <<f[s \ {n + 1}], n + 1>> \in V \X (1 .. N)
          BY <5>1, <2>4
        <5>3. QED
          BY <5>2, <4>1
      <4>2. CASE n + 1 \notin s
        BY <4>2, <2>2
      <4>3. QED
        BY <4>1, <4>2
    <3>2. QED
      BY <3>1
  <2>6. Folds(n + 1, g)
    <3>1. ASSUME NEW s \in SUBSET (1 .. (n + 1))
          PROVE  g[s] = IF s = {} THEN base ELSE G[<<g[s \ {Max(s)}], Max(s)>>]
      <4>1. CASE n + 1 \in s
        <5>1. Max(s) = n + 1
          BY <4>1, LastOfInterval
        <5>2. g[s \ {n + 1}] = f[s \ {n + 1}]
          BY <2>2, <2>3
        <5>3. g[s] = G[<<f[s \ {n + 1}], n + 1>>] /\ s # {}
          BY <4>1
        <5>4. QED
          BY <5>1, <5>2, <5>3
      <4>2. CASE n + 1 \notin s /\ s # {}
        <5>1. s \in SUBSET (1 .. n) /\ g[s] = f[s]
          BY <4>2, <2>2
        <5>2. s \ {Max(s)} \in SUBSET (1 .. n)
          BY <5>1
        <5>3. g[s \ {Max(s)}] = f[s \ {Max(s)}]
          BY <5>2, <2>3
        <5>4. f[s] = G[<<f[s \ {Max(s)}], Max(s)>>]
          BY <5>1, <4>2, <2>1
        <5>5. QED
          BY <5>1, <5>3, <5>4, <4>2
      <4>3. CASE s = {}
        <5>1. s \in SUBSET (1 .. n) /\ g[s] = f[s]
          BY <4>3
        <5>2. QED
          BY <5>1, <4>3, <2>1
      <4>4. QED
        BY <4>1, <4>2, <4>3
    <3>2. QED
      BY <3>1
  <2>7. QED
    BY <2>5, <2>6
<1>3. Has(N)
  <2> HIDE DEF Has
  <2>1. 0 \in S /\ \A n \in Nat : n \in S => n + 1 \in S
    BY <1>1, <1>2
  <2>2. N \in S
    <3> HIDE DEF S
    <3> QED
      BY <2>1, Induction
  <2>3. QED
    BY <2>2
<1>4. QED
  BY <1>3 DEF FoldOf

-----------------------------------------------------------------------------
(***************************************************************************)
(* What a splice does, for every document: it is undone by the opposite    *)
(* splice, and two of them that touch make one.                            *)
(***************************************************************************)
(* d is doc with the n lines from line f on replaced by new, line by line. *)
Spliced(d, doc, f, n, new) ==
    /\ Len(d) = Len(doc) - n + Len(new)
    /\ \A i \in 1..f : d[i] = doc[i]
    /\ \A i \in (f + 1)..(f + Len(new)) : d[i] = new[i - f]
    /\ \A i \in (f + Len(new) + 1)..Len(d) : d[i] = doc[i - Len(new) + n]

(* A concatenation, region by region.                                      *)
LEMMA ConcatRegions ==
    ASSUME NEW S, NEW s \in Seq(S), NEW t \in Seq(S)
    PROVE  /\ s \o t \in Seq(S)
           /\ Len(s \o t) = Len(s) + Len(t)
           /\ \A i \in 1..Len(s) : (s \o t)[i] = s[i]
           /\ \A i \in (Len(s) + 1)..(Len(s) + Len(t)) : (s \o t)[i] = t[i - Len(s)]
<1>1. Len(s) \in Nat /\ Len(t) \in Nat
  BY LenProperties
<1>2. /\ s \o t \in Seq(S)
      /\ Len(s \o t) = Len(s) + Len(t)
      /\ \A i \in 1..(Len(s) + Len(t)) :
           (s \o t)[i] = IF i <= Len(s) THEN s[i] ELSE t[i - Len(s)]
  BY ConcatProperties
<1>3. ASSUME NEW i \in 1..Len(s) PROVE (s \o t)[i] = s[i]
  <2>1. i \in 1..(Len(s) + Len(t)) /\ i <= Len(s)
    BY <1>1
  <2>. QED BY <1>2, <2>1
<1>4. ASSUME NEW i \in (Len(s) + 1)..(Len(s) + Len(t)) PROVE (s \o t)[i] = t[i - Len(s)]
  <2>1. i \in 1..(Len(s) + Len(t)) /\ ~(i <= Len(s))
    BY <1>1
  <2>. QED BY <1>2, <2>1
<1>. QED BY <1>2, <1>3, <1>4

(* A splice, line by line.                                                 *)
LEMMA SpliceLines ==
    ASSUME NEW S, NEW doc \in Seq(S), NEW new \in Seq(S),
           NEW f \in Nat, NEW n \in Nat, f + n <= Len(doc)
    PROVE  /\ Splice(doc, f, n, new) \in Seq(S)
           /\ Spliced(Splice(doc, f, n, new), doc, f, n, new)
<1> DEFINE head == SubSeq(doc, 1, f)
           tail == SubSeq(doc, f + n + 1, Len(doc))
           mid  == head \o new
           d    == Splice(doc, f, n, new)
<1>1. /\ head \in Seq(S) /\ Len(head) = f
      /\ \A i \in 1..f : head[i] = doc[i]
  <2>1. \A i \in 1..f : doc[i] \in S
    BY ElementOfSeq, LenProperties
  <2>. QED BY <2>1, SubSeqProperties
<1>2. /\ tail \in Seq(S) /\ Len(tail) = Len(doc) - f - n
      /\ \A i \in 1..(Len(doc) - f - n) : tail[i] = doc[f + n + i]
  <2>1. \A i \in (f + n + 1)..Len(doc) : doc[i] \in S
    BY ElementOfSeq, LenProperties
  <2>2. /\ tail \in Seq(S)
        /\ Len(tail) = IF f + n + 1 <= Len(doc) THEN Len(doc) - (f + n + 1) + 1 ELSE 0
        /\ \A i \in 1..(Len(doc) - (f + n + 1) + 1) : tail[i] = doc[f + n + 1 + i - 1]
    <3>1. f + n + 1 \in Int /\ Len(doc) \in Int
      BY LenProperties
    <3>. QED BY <2>1, <3>1, SubSeqProperties
  <2>3. Len(tail) = Len(doc) - f - n
    BY <2>2, LenProperties
  <2>4. ASSUME NEW i \in 1..(Len(doc) - f - n) PROVE tail[i] = doc[f + n + i]
    BY SMTT(30), <2>2, LenProperties
  <2>. QED BY <2>2, <2>3, <2>4
<1>3. /\ mid \in Seq(S) /\ Len(mid) = f + Len(new)
      /\ \A i \in 1..f : mid[i] = head[i]
      /\ \A i \in (f + 1)..(f + Len(new)) : mid[i] = new[i - f]
  <2>. HIDE DEF head
  <2>1. /\ head \o new \in Seq(S)
        /\ Len(head \o new) = Len(head) + Len(new)
        /\ \A i \in 1..Len(head) : (head \o new)[i] = head[i]
        /\ \A i \in (Len(head) + 1)..(Len(head) + Len(new)) :
             (head \o new)[i] = new[i - Len(head)]
    <3>1. head \in Seq(S)
      BY <1>1
    <3>. QED BY <3>1, ConcatRegions
  <2>2. mid = head \o new
    OBVIOUS
  <2>3. Len(head) = f
    BY <1>1
  <2>. HIDE DEF mid
  <2>. QED BY <2>1, <2>2, <2>3
<1>4. d = mid \o tail
  BY DEF Splice
<1>. HIDE DEF head, tail, mid, d
<1>5. /\ d \in Seq(S) /\ Len(d) = f + Len(new) + Len(tail)
      /\ \A i \in 1..(f + Len(new)) : d[i] = mid[i]
      /\ \A i \in (f + Len(new) + 1)..(f + Len(new) + Len(tail)) :
           d[i] = tail[i - (f + Len(new))]
  <2>1. /\ mid \o tail \in Seq(S)
        /\ Len(mid \o tail) = Len(mid) + Len(tail)
        /\ \A i \in 1..Len(mid) : (mid \o tail)[i] = mid[i]
        /\ \A i \in (Len(mid) + 1)..(Len(mid) + Len(tail)) :
             (mid \o tail)[i] = tail[i - Len(mid)]
    <3>1. mid \in Seq(S) /\ tail \in Seq(S)
      BY <1>2, <1>3
    <3>. QED BY <3>1, ConcatRegions
  <2>. QED BY <1>3, <1>4, <2>1
<1>6. Len(new) \in Nat /\ Len(doc) \in Nat
  BY LenProperties
<1>7. Len(d) = Len(doc) - n + Len(new)
  BY <1>2, <1>5, <1>6
<1>8. ASSUME NEW i \in 1..f PROVE d[i] = doc[i]
  <2>1. i \in 1..(f + Len(new))
    BY <1>6
  <2>. QED BY <1>1, <1>3, <1>5, <2>1
<1>9. ASSUME NEW i \in (f + 1)..(f + Len(new)) PROVE d[i] = new[i - f]
  <2>1. i \in 1..(f + Len(new))
    BY <1>6
  <2>. QED BY <1>3, <1>5, <2>1
<1>10. ASSUME NEW i \in (f + Len(new) + 1)..Len(d) PROVE d[i] = doc[i - Len(new) + n]
  <2>1. /\ i - (f + Len(new)) \in 1..(Len(doc) - f - n)
        /\ i \in (f + Len(new) + 1)..(f + Len(new) + Len(tail))
        /\ f + n + (i - (f + Len(new))) = i - Len(new) + n
    BY <1>2, <1>5, <1>6
  <2>2. d[i] = tail[i - (f + Len(new))]
    BY <1>5, <2>1
  <2>3. tail[i - (f + Len(new))] = doc[f + n + (i - (f + Len(new)))]
    BY <1>2, <2>1
  <2>. QED BY <2>1, <2>2, <2>3
<1>11. d \in Seq(S) /\ Spliced(d, doc, f, n, new)
  BY <1>5, <1>7, <1>8, <1>9, <1>10 DEF Spliced
<1>. QED BY <1>11 DEF d

(* A span fits where it stands, line by line.                              *)
LEMMA FitsLines ==
    ASSUME NEW S, NEW doc \in Seq(S), NEW span \in Seq(S), NEW f \in Nat
    PROVE  Fits(doc, f, span) <=>
               /\ f + Len(span) <= Len(doc)
               /\ \A i \in 1..Len(span) : doc[f + i] = span[i]
<1> DEFINE cut == SubSeq(doc, f + 1, f + Len(span))
<1>1. Len(span) \in Nat /\ Len(doc) \in Nat
  BY LenProperties
<1>2. ASSUME f + Len(span) <= Len(doc)
      PROVE  /\ cut \in Seq(S) /\ Len(cut) = Len(span)
             /\ \A i \in 1..Len(span) : cut[i] = doc[f + i]
  <2>1. \A i \in (f + 1)..(f + Len(span)) : doc[i] \in S
    BY <1>1, <1>2, ElementOfSeq
  <2>2. /\ cut \in Seq(S)
        /\ Len(cut) = IF f + 1 <= f + Len(span) THEN f + Len(span) - (f + 1) + 1 ELSE 0
        /\ \A i \in 1..(f + Len(span) - (f + 1) + 1) : cut[i] = doc[f + 1 + i - 1]
    <3>1. f + 1 \in Int /\ f + Len(span) \in Int
      BY <1>1
    <3>. QED BY <2>1, <3>1, SubSeqProperties
  <2>. HIDE DEF cut
  <2>3. Len(cut) = Len(span)
    BY <1>1, <2>2
  <2>4. ASSUME NEW i \in 1..Len(span) PROVE cut[i] = doc[f + i]
    BY <1>1, <2>2
  <2>. QED BY <2>2, <2>3, <2>4
<1>3. Fits(doc, f, span) <=> f + Len(span) <= Len(doc) /\ cut = span
  BY DEF Fits
<1>. HIDE DEF cut
<1>4. ASSUME f + Len(span) <= Len(doc), \A i \in 1..Len(span) : doc[f + i] = span[i]
      PROVE  cut = span
  <2>1. \A i \in 1..Len(cut) : cut[i] = span[i]
    BY <1>2, <1>4
  <2>. QED BY <1>2, <1>4, <2>1, SeqEqual
<1>. QED BY <1>2, <1>3, <1>4

(* What was put in stands there.                                           *)
LEMMA SpliceFits ==
    ASSUME NEW S, NEW doc \in Seq(S), NEW new \in Seq(S),
           NEW f \in Nat, NEW n \in Nat, f + n <= Len(doc)
    PROVE  Fits(Splice(doc, f, n, new), f, new)
<1> DEFINE d == Splice(doc, f, n, new)
<1>1. Len(new) \in Nat /\ Len(doc) \in Nat
  BY LenProperties
<1>2. d \in Seq(S) /\ Spliced(d, doc, f, n, new)
  BY SpliceLines
<1>. HIDE DEF d
<1>3. f + Len(new) <= Len(d)
  BY <1>1, <1>2 DEF Spliced
<1>4. ASSUME NEW i \in 1..Len(new) PROVE d[f + i] = new[i]
  <2>1. f + i \in (f + 1)..(f + Len(new)) /\ f + i - f = i
    BY <1>1
  <2>. QED BY <1>2, <2>1 DEF Spliced
<1>5. Fits(d, f, new)
  BY <1>2, <1>3, <1>4, FitsLines
<1>. QED BY <1>5 DEF d

(* Splicing the old lines back restores the document.                      *)
LEMMA SpliceBack ==
    ASSUME NEW S, NEW doc \in Seq(S), NEW old \in Seq(S), NEW new \in Seq(S),
           NEW f \in Nat, Fits(doc, f, old)
    PROVE  Splice(Splice(doc, f, Len(old), new), f, Len(new), old) = doc
<1> DEFINE d == Splice(doc, f, Len(old), new)
           b == Splice(d, f, Len(new), old)
<1>1. Len(old) \in Nat /\ Len(new) \in Nat /\ Len(doc) \in Nat
  BY LenProperties
<1>2. f + Len(old) <= Len(doc) /\ \A i \in 1..Len(old) : doc[f + i] = old[i]
  BY FitsLines
<1>3. d \in Seq(S) /\ Spliced(d, doc, f, Len(old), new)
  BY <1>1, <1>2, SpliceLines
<1>. HIDE DEF d
<1>4. Len(d) = Len(doc) - Len(old) + Len(new) /\ f + Len(new) <= Len(d)
  BY <1>1, <1>2, <1>3 DEF Spliced
<1>5. b \in Seq(S) /\ Spliced(b, d, f, Len(new), old)
  BY <1>1, <1>3, <1>4, SpliceLines
<1>. HIDE DEF b
<1>6. Len(b) = Len(doc)
  BY <1>1, <1>4, <1>5 DEF Spliced
<1>7. ASSUME NEW i \in 1..Len(b) PROVE b[i] = doc[i]
  <2>1. CASE i <= f
    <3>1. i \in 1..f
      BY <1>1, <1>6, <2>1
    <3>. QED BY <1>3, <1>5, <3>1 DEF Spliced
  <2>2. CASE f < i /\ i <= f + Len(old)
    <3>1. i \in (f + 1)..(f + Len(old)) /\ i - f \in 1..Len(old) /\ f + (i - f) = i
      BY <1>1, <1>6, <2>2
    <3>2. b[i] = old[i - f]
      BY <1>5, <3>1 DEF Spliced
    <3>. QED BY <1>2, <3>1, <3>2
  <2>3. CASE f + Len(old) < i
    <3> DEFINE j == i - Len(old) + Len(new)
    <3>1. /\ i \in (f + Len(old) + 1)..Len(b)
          /\ j \in (f + Len(new) + 1)..Len(d)
          /\ j - Len(new) + Len(old) = i
      BY <1>1, <1>4, <1>6, <2>3
    <3>2. b[i] = d[j]
      BY <1>5, <3>1 DEF Spliced
    <3>. HIDE DEF j
    <3>3. d[j] = doc[j - Len(new) + Len(old)]
      BY <1>3, <3>1 DEF Spliced
    <3>. QED BY <3>1, <3>2, <3>3
  <2>. QED BY <1>1, <1>6, <2>1, <2>2, <2>3
<1>8. b = doc
  BY <1>5, <1>6, <1>7, SeqEqual
<1>. QED BY <1>8 DEF b, d

(* A splice inside the lines that an earlier one put in makes one splice   *)
(* with it.                                                                *)
LEMMA SpliceInside ==
    ASSUME NEW S, NEW doc \in Seq(S), NEW new \in Seq(S), NEW more \in Seq(S),
           NEW f \in Nat, NEW n \in Nat, f + n <= Len(doc),
           NEW r \in Nat, NEW m \in Nat, r + m <= Len(new),
           NEW g \in Nat, g = f + r
    PROVE  Splice(Splice(doc, f, n, new), g, m, more)
             = Splice(doc, f, n, Splice(new, r, m, more))
<1> DEFINE d == Splice(doc, f, n, new)
           a == Splice(d, f + r, m, more)
           w == Splice(new, r, m, more)
           b == Splice(doc, f, n, w)
<1>1. Len(new) \in Nat /\ Len(more) \in Nat /\ Len(doc) \in Nat
  BY LenProperties
<1>2. d \in Seq(S) /\ Spliced(d, doc, f, n, new)
  BY SpliceLines
<1>3. w \in Seq(S) /\ Spliced(w, new, r, m, more)
  BY SpliceLines
<1>. HIDE DEF d, w
<1>4. /\ Len(d) = Len(doc) - n + Len(new)
      /\ Len(w) = Len(new) - m + Len(more)
  BY <1>2, <1>3 DEF Spliced
<1>5. f + r \in Nat /\ f + r + m <= Len(d)
  BY <1>1, <1>4
<1>6. a \in Seq(S) /\ Spliced(a, d, f + r, m, more)
  BY <1>1, <1>2, <1>5, SpliceLines
<1>7. b \in Seq(S) /\ Spliced(b, doc, f, n, w)
  BY <1>3, SpliceLines
<1>. HIDE DEF a, b
<1>8. /\ Len(a) = Len(d) - m + Len(more)
      /\ Len(b) = Len(doc) - n + Len(w)
  BY <1>6, <1>7 DEF Spliced
<1>9. Len(a) = Len(b) /\ Len(a) \in Nat /\ Len(w) \in Nat /\ Len(d) \in Nat
  BY <1>1, <1>4, <1>6, <1>8, LenProperties
<1>10. ASSUME NEW i \in 1..Len(a) PROVE a[i] = b[i]
  <2>1. CASE i <= f
    <3>1. i \in 1..f /\ i \in 1..(f + r)
      BY <1>1, <1>9, <2>1
    <3>. QED BY <1>2, <1>6, <1>7, <3>1 DEF Spliced
  <2>2. CASE f < i /\ i <= f + r
    <3>1. /\ i \in 1..(f + r) /\ i \in (f + 1)..(f + Len(new)) /\ i \in (f + 1)..(f + Len(w))
          /\ i - f \in 1..r
      BY <1>1, <1>4, <1>9, <2>2
    <3>2. a[i] = d[i] /\ d[i] = new[i - f]
      BY <1>2, <1>6, <3>1 DEF Spliced
    <3>3. b[i] = w[i - f] /\ w[i - f] = new[i - f]
      BY <1>3, <1>7, <3>1 DEF Spliced
    <3>. QED BY <3>2, <3>3
  <2>3. CASE f + r < i /\ i <= f + r + Len(more)
    <3>1. /\ i \in (f + r + 1)..(f + r + Len(more)) /\ i \in (f + 1)..(f + Len(w))
          /\ i - f \in (r + 1)..(r + Len(more))
          /\ (i - f) - r = i - (f + r)
      BY <1>1, <1>4, <1>9, <2>3
    <3>2. a[i] = more[i - (f + r)]
      BY <1>6, <3>1 DEF Spliced
    <3>3. b[i] = w[i - f] /\ w[i - f] = more[(i - f) - r]
      BY <1>3, <1>7, <3>1 DEF Spliced
    <3>. QED BY <3>1, <3>2, <3>3
  <2>4. CASE f + r + Len(more) < i /\ i <= f + Len(w)
    <3> DEFINE j == i - Len(more) + m
    <3>1. /\ i \in (f + r + Len(more) + 1)..Len(a)
          /\ j \in (f + 1)..(f + Len(new))
          /\ i \in (f + 1)..(f + Len(w))
          /\ i - f \in (r + Len(more) + 1)..Len(w)
          /\ (i - f) - Len(more) + m = j - f
      <4>1. i \in Int /\ i <= Len(a)
        BY <1>9
      <4>2. j \in (f + 1)..(f + Len(new))
        BY <1>1, <1>4, <2>4, <4>1
      <4>. QED BY <1>1, <1>9, <2>4, <4>1, <4>2
    <3>2. a[i] = d[j]
      BY <1>6, <3>1 DEF Spliced
    <3>3. b[i] = w[i - f] /\ w[i - f] = new[(i - f) - Len(more) + m]
      BY <1>3, <1>7, <3>1 DEF Spliced
    <3>. HIDE DEF j
    <3>4. d[j] = new[j - f]
      BY <1>2, <3>1 DEF Spliced
    <3>. QED BY <3>1, <3>2, <3>3, <3>4
  <2>5. CASE f + Len(w) < i
    <3> DEFINE j == i - Len(more) + m
    <3>1. /\ i \in (f + r + Len(more) + 1)..Len(a) /\ j \in (f + Len(new) + 1)..Len(d)
          /\ i \in (f + Len(w) + 1)..Len(b)
          /\ j - Len(new) + n = i - Len(w) + n
      <4>1. /\ i \in Int /\ i <= Len(a) /\ i <= Len(b)
            /\ j \in Int /\ j = i - Len(w) + Len(new)
        BY <1>1, <1>4, <1>9
      <4>2. j > f + Len(new) /\ j <= Len(d)
        BY <1>1, <1>4, <1>8, <1>9, <2>5, <4>1
      <4>3. i > f + r + Len(more)
        BY <1>1, <1>4, <2>5, <4>1
      <4>4. j - Len(new) + n = i - Len(w) + n
        BY <1>1, <1>4, <4>1
      <4>5. Len(a) \in Nat /\ Len(b) \in Nat /\ Len(d) \in Nat /\ Len(w) \in Nat
        BY <1>2, <1>3, <1>6, <1>7, LenProperties
      <4>. HIDE DEF j
      <4>6. j \in (f + Len(new) + 1)..Len(d)
        BY <1>1, <4>1, <4>2, <4>5
      <4>7. i \in (f + r + Len(more) + 1)..Len(a) /\ i \in (f + Len(w) + 1)..Len(b)
        BY <1>1, <2>5, <4>1, <4>3, <4>5
      <4>. QED BY <4>4, <4>6, <4>7
    <3>2. a[i] = d[j] /\ b[i] = doc[i - Len(w) + n]
      BY <1>6, <1>7, <3>1 DEF Spliced
    <3>. HIDE DEF j
    <3>3. d[j] = doc[j - Len(new) + n]
      BY <1>2, <3>1 DEF Spliced
    <3>. QED BY <3>1, <3>2, <3>3
  <2>. QED BY SMTT(30), <1>1, <1>9, <2>1, <2>2, <2>3, <2>4, <2>5
<1>11. a = b
  BY <1>6, <1>7, <1>9, <1>10, SeqEqual
<1>12. Splice(d, g, m, more) = a
  BY DEF a
<1>. QED BY <1>11, <1>12 DEF b, d, w

(* The newest entry of a stack and the rest of it.                         *)
LEMMA FinalInitial ==
    ASSUME NEW S, NEW s \in Seq(S), s # <<>>
    PROVE  /\ Len(s) \in Nat \ {0}
           /\ Final(s) = s[Len(s)] /\ Final(s) \in S
           /\ Initial(s) \in Seq(S) /\ Len(Initial(s)) = Len(s) - 1
           /\ \A i \in 1..(Len(s) - 1) : Initial(s)[i] = s[i]
<1>1. Len(s) \in Nat \ {0}
  BY EmptySeq
<1>2. \A i \in 1..(Len(s) - 1) : s[i] \in S
  BY <1>1, ElementOfSeq
<1>3. s[Len(s)] \in S
  BY <1>1, ElementOfSeq
<1> DEFINE n == Len(s) - 1
           t == SubSeq(s, 1, n)
<1>4. /\ t \in Seq(S)
      /\ Len(t) = IF 1 <= n THEN n - 1 + 1 ELSE 0
      /\ \A i \in 1..(n - 1 + 1) : t[i] = s[1 + i - 1]
  <2>1. n \in Int
    BY <1>1
  <2>. QED BY <1>2, <2>1, SubSeqProperties
<1>. HIDE DEF t
<1>5. Len(t) = n
  <2>1. n \in Nat /\ n - 1 + 1 = n
    BY <1>1
  <2>. HIDE DEF n
  <2>2. CASE 1 <= n
    BY <1>4, <2>1, <2>2
  <2>3. CASE ~(1 <= n)
    <3>1. n = 0
      BY <2>1, <2>3
    <3>. QED BY <1>4, <2>3, <3>1
  <2>. QED BY <2>2, <2>3
<1>6. ASSUME NEW i \in 1..n PROVE t[i] = s[i]
  <2>1. i \in 1..(n - 1 + 1) /\ 1 + i - 1 = i
    BY <1>1
  <2>. QED BY <1>4, <2>1
<1>. QED BY <1>1, <1>3, <1>4, <1>5, <1>6 DEF Final, Initial, t

(* A stack is its newest entry on top of the rest.                         *)
LEMMA FinalAppended ==
    ASSUME NEW S, NEW s \in Seq(S), s # <<>>
    PROVE  Append(Initial(s), Final(s)) = s
<1> DEFINE t == Append(Initial(s), Final(s))
           n == Len(s)
<1>1. /\ n \in Nat \ {0} /\ Final(s) = s[n] /\ Final(s) \in S
      /\ Initial(s) \in Seq(S) /\ Len(Initial(s)) = n - 1
      /\ \A i \in 1..(n - 1) : Initial(s)[i] = s[i]
  BY FinalInitial
<1>2. /\ t \in Seq(S) /\ Len(t) = Len(Initial(s)) + 1
      /\ \A i \in 1..Len(Initial(s)) : t[i] = Initial(s)[i]
      /\ t[Len(Initial(s)) + 1] = Final(s)
  BY <1>1, AppendProperties
<1>. HIDE DEF t, n
<1>3. Len(t) = n /\ Len(Initial(s)) + 1 = n
  BY <1>1, <1>2
<1>4. ASSUME NEW i \in 1..n PROVE t[i] = s[i]
  <2>1. CASE i = n
    BY <1>1, <1>2, <1>3, <2>1
  <2>2. CASE i # n
    <3>1. i \in 1..(n - 1)
      BY <1>1, <2>2
    <3>. QED BY <1>1, <1>2, <3>1
  <2>. QED BY <2>1, <2>2
<1>5. t = s
  BY <1>2, <1>3, <1>4, SeqEqual DEF n
<1>. QED BY <1>5 DEF t

(* Eviction keeps the newest entries, in their order.                      *)
LEMMA NewestEntries ==
    ASSUME NEW S, NEW s \in Seq(S)
    PROVE  /\ Newest(s) \in Seq(S)
           /\ Len(Newest(s)) = IF Len(s) > Cap THEN Cap ELSE Len(s)
           /\ \A i \in 1..Len(Newest(s)) : Newest(s)[i] = s[i + (Len(s) - Len(Newest(s)))]
           /\ Len(s) <= Cap => Newest(s) = s
<1>1. Len(s) \in Nat /\ Cap \in Nat \ {0}
  BY LenProperties, CapAssumption
<1>2. CASE Len(s) > Cap
  <2> DEFINE k == Len(s) - Cap
             t == SubSeq(s, k + 1, Len(s))
  <2>1. k \in Nat /\ Newest(s) = t
    BY <1>1, <1>2 DEF Newest
  <2>2. \A i \in (k + 1)..Len(s) : s[i] \in S
    BY <1>1, <2>1, ElementOfSeq
  <2>3. /\ t \in Seq(S)
        /\ Len(t) = IF k + 1 <= Len(s) THEN Len(s) - (k + 1) + 1 ELSE 0
        /\ \A i \in 1..(Len(s) - (k + 1) + 1) : t[i] = s[k + 1 + i - 1]
    <3>1. k + 1 \in Int /\ Len(s) \in Int
      BY <1>1
    <3>. QED BY <2>2, <3>1, SubSeqProperties
  <2>. HIDE DEF t
  <2>4. Len(t) = Cap
    BY <1>1, <1>2, <2>3
  <2>5. ASSUME NEW i \in 1..Len(t) PROVE t[i] = s[i + (Len(s) - Len(t))]
    <3>1. /\ i \in 1..(Len(s) - (k + 1) + 1)
          /\ k + 1 + i - 1 = i + (Len(s) - Len(t))
      BY <1>1, <1>2, <2>4
    <3>. QED BY <2>3, <3>1
  <2>. QED BY <1>1, <1>2, <2>1, <2>3, <2>4, <2>5
<1>3. CASE ~(Len(s) > Cap)
  <2>1. Newest(s) = s
    BY <1>3 DEF Newest
  <2>2. ASSUME NEW i \in 1..Len(s) PROVE i + (Len(s) - Len(s)) = i
    BY <1>1
  <2>. QED BY <1>3, <2>1, <2>2
<1>. QED BY <1>2, <1>3

(* What a change that leads from one document to another says of them.     *)
LEMMA LeadsBack ==
    ASSUME NEW d \in Doc, NEW c \in Change, NEW e, Fits(d, c.first, c.old), e = Apply(d, c)
    PROVE  /\ Fits(e, c.first, c.new)
           /\ Unapply(e, c) = d
<1>1. d \in Seq(Line) /\ c.old \in Seq(Line) /\ c.new \in Seq(Line) /\ c.first \in Nat
  BY DEF Doc, Change
<1>2. Fits(d, c.first, c.old) /\ e = Splice(d, c.first, Len(c.old), c.new)
  BY DEF Apply
<1>3. c.first + Len(c.old) <= Len(d) /\ Len(c.old) \in Nat
  BY <1>1, <1>2, LenProperties DEF Fits
<1>4. Fits(e, c.first, c.new)
  BY <1>1, <1>2, <1>3, SpliceFits
<1>5. Splice(e, c.first, Len(c.new), c.old) = d
  BY <1>1, <1>2, SpliceBack
<1>. QED BY <1>4, <1>5 DEF Unapply

(* A run that is continued still leads from where it began.                *)
LEMMA MergeApplies ==
    ASSUME NEW d \in Doc, NEW p \in Change, Fits(d, p.first, p.old),
           NEW c \in Change, Continues(p, c)
    PROVE  LET m == Merge(p, c)
           IN  /\ m \in Change /\ m.before = p.before /\ m.after = c.after
               /\ Fits(d, m.first, m.old) /\ Apply(d, m) = Apply(Apply(d, p), c)
               /\ Len(m.new) = Len(p.new) - Len(c.old) + Len(c.new)
               /\ Len(c.old) <= Len(p.new)
<1> DEFINE r   == c.first - p.first
           new == Splice(p.new, r, Len(c.old), c.new)
           m   == Merge(p, c)
           e   == Apply(d, p)
<1>1. /\ d \in Seq(Line)
      /\ p.old \in Seq(Line) /\ p.new \in Seq(Line) /\ p.first \in Nat
      /\ c.old \in Seq(Line) /\ c.new \in Seq(Line) /\ c.first \in Nat /\ c.after \in Pos
  BY DEF Doc, Change
<1>2. r \in Nat /\ r + Len(c.old) <= Len(p.new) /\ Len(c.old) \in Nat /\ c.first = p.first + r
  BY SMTT(30), <1>1, LenProperties DEF Continues, Fits
<1>. HIDE DEF r
<1>3. new \in Seq(Line)
  BY <1>1, <1>2, SpliceLines
<1>10. Len(new) = Len(p.new) - Len(c.old) + Len(c.new) /\ Len(c.old) <= Len(p.new)
  <2>1. Spliced(new, p.new, r, Len(c.old), c.new)
    BY <1>1, <1>2, SpliceLines
  <2>2. Len(p.new) \in Nat
    BY <1>1, LenProperties
  <2>. HIDE DEF new
  <2>. QED BY <1>2, <2>1, <2>2 DEF Spliced
<1>4. m = [p EXCEPT !.new = new, !.after = c.after]
  BY DEF Merge, r
<1>5. /\ m \in Change
      /\ m.first = p.first /\ m.old = p.old /\ m.new = new
      /\ m.before = p.before /\ m.after = c.after
  <2>. HIDE DEF new, m
  <2>. QED BY <1>1, <1>3, <1>4 DEF Change
<1>6. /\ Fits(d, p.first, p.old) /\ e = Splice(d, p.first, Len(p.old), p.new)
  BY DEF Apply
<1>7. p.first + Len(p.old) <= Len(d) /\ Len(p.old) \in Nat
  BY <1>1, <1>6, LenProperties DEF Fits
<1>8. Splice(e, c.first, Len(c.old), c.new) = Splice(d, p.first, Len(p.old), new)
  <2>1. Splice(Splice(d, p.first, Len(p.old), p.new), c.first, Len(c.old), c.new)
          = Splice(d, p.first, Len(p.old), Splice(p.new, r, Len(c.old), c.new))
    <3> DEFINE f == p.first
               n == Len(p.old)
               g == c.first
               k == Len(c.old)
               in == p.new
               more == c.new
    <3>1. /\ d \in Seq(Line) /\ in \in Seq(Line) /\ more \in Seq(Line)
          /\ f \in Nat /\ n \in Nat /\ f + n <= Len(d)
          /\ r \in Nat /\ k \in Nat /\ r + k <= Len(in)
          /\ g \in Nat /\ g = f + r
      BY <1>1, <1>2, <1>7
    <3>. HIDE DEF f, n, g, k, in, more
    <3>2. Splice(Splice(d, f, n, in), g, k, more) = Splice(d, f, n, Splice(in, r, k, more))
      BY <3>1, SpliceInside
    <3>. QED BY <3>2 DEF f, n, g, k, in, more
  <2>. QED BY <1>6, <2>1
<1>9. Apply(e, c) = Apply(d, m)
  <2>. HIDE DEF new, m
  <2>. QED BY <1>2, <1>5, <1>8 DEF Apply
<1>. HIDE DEF new
<1>. HIDE DEF m
<1>11. /\ m \in Change /\ m.before = p.before /\ m.after = c.after
       /\ Fits(d, m.first, m.old) /\ Apply(d, m) = Apply(e, c)
       /\ Len(m.new) = Len(p.new) - Len(c.old) + Len(c.new)
       /\ Len(c.old) <= Len(p.new)
  BY <1>5, <1>6, <1>9, <1>10
<1>. QED BY <1>11 DEF m, e

-----------------------------------------------------------------------------
(***************************************************************************)
(* The changes of a buffer, the units they make, and the chains of         *)
(* documents beside the stacks.                                            *)
(***************************************************************************)
(* The changes of a buffer leave a line at least, and make units.          *)
BufChange == {c \in Change : c.new # <<>>}
Unit      == Seq(BufChange) \ {<<>>}

(* A change that makes e of d; its hints are positions of these, when the  *)
(* callers' positions are.                                                 *)
Joins(d, c, e) ==
    /\ Fits(d, c.first, c.old) /\ e = Apply(d, c)
    /\ Slack = 0 => InGrid(d, c.before) /\ InGrid(e, c.after)

(* ds are the documents from before the first change of a sequence of      *)
(* changes to after its last.                                              *)
Tells(ds, unit) ==
    /\ Len(ds) = Len(unit) + 1
    /\ \A i \in 1..Len(unit) : Joins(ds[i], unit[i], ds[i + 1])

Story(d, unit, e) ==
    \E ds \in Seq(Doc) : Tells(ds, unit) /\ ds[1] = d /\ ds[Len(unit) + 1] = e

(* A stack u, the documents q beside it and the document e it ends in: at  *)
(* each entry a unit of changes joins two documents that follow each       *)
(* other, in the order of the stack (undo) or against it (redo).           *)
Joined(way, d, c, e) ==
    CASE way = "unit"     -> Story(d, c, e)
      [] way = "backward" -> Story(e, c, d)

Chain(way, u, q, e) ==
    /\ Len(q) = Len(u)
    /\ \A i \in 1..Len(u) : Joined(way, Append(q, e)[i], u[i], Append(q, e)[i + 1])

(* A chain grows by a change that joins its end to another document.       *)
LEMMA ChainAppend ==
    ASSUME NEW S, NEW way, NEW u \in Seq(S), NEW q \in Seq(Doc),
           NEW d \in Doc, NEW c \in S, NEW e \in Doc,
           Chain(way, u, q, d), Joined(way, d, c, e)
    PROVE  Chain(way, Append(u, c), Append(q, d), e)
<1> DEFINE v == Append(u, c)
           w == Append(q, d)
           x == Append(w, e)
           n == Len(u)
<1>1. n \in Nat /\ Len(q) = n
  BY LenProperties DEF Chain
<1>2. Len(v) = n + 1 /\ v[n + 1] = c /\ \A i \in 1..n : v[i] = u[i]
  BY AppendProperties
<1>3. w \in Seq(Doc) /\ Len(w) = n + 1 /\ w[n + 1] = d
  BY <1>1, AppendProperties
<1>4. \A i \in 1..n : Joined(way, w[i], u[i], w[i + 1])
  BY DEF Chain
<1>. HIDE DEF v, w
<1>5. x[n + 1 + 1] = e /\ \A i \in 1..(n + 1) : x[i] = w[i]
  <2>1. x[Len(w) + 1] = e /\ \A i \in 1..Len(w) : x[i] = w[i]
    BY <1>3, AppendProperties
  <2>. QED BY <1>3, <2>1
<1>. HIDE DEF x, n
<1>6. ASSUME NEW i \in 1..(n + 1) PROVE Joined(way, x[i], v[i], x[i + 1])
  <2>1. CASE i = n + 1
    BY <1>1, <1>2, <1>3, <1>5, <2>1
  <2>2. CASE i # n + 1
    <3>1. i \in 1..n /\ i + 1 \in 1..(n + 1)
      BY <1>1, <2>2
    <3>2. x[i] = w[i] /\ x[i + 1] = w[i + 1] /\ v[i] = u[i]
      BY <1>2, <1>5, <3>1
    <3>. QED BY <1>4, <3>1, <3>2
  <2>. QED BY <2>1, <2>2
<1>. QED BY <1>2, <1>3, <1>6 DEF Chain, x, v, w

(* A chain without its last entry ends in the last of its documents.       *)
LEMMA ChainInitial ==
    ASSUME NEW S, NEW way, NEW u \in Seq(S), NEW q \in Seq(Doc), NEW e \in Doc,
           Chain(way, u, q, e), u # <<>>
    PROVE  /\ q # <<>>
           /\ Final(q) \in Doc
           /\ Joined(way, Final(q), Final(u), e)
           /\ Chain(way, Initial(u), Initial(q), Final(q))
<1> DEFINE n == Len(u)
           x == Append(q, e)
           v == Initial(u)
           w == Initial(q)
           z == Append(w, Final(q))
<1>1. n \in Nat \ {0} /\ Len(q) = n
  BY EmptySeq DEF Chain
<1>2. q # <<>>
  BY <1>1, EmptySeq
<1>3. Final(q) = q[n] /\ Final(q) \in Doc /\ w \in Seq(Doc) /\ Len(w) = n - 1
      /\ \A i \in 1..(n - 1) : w[i] = q[i]
  BY <1>1, <1>2, FinalInitial
<1>4. Final(u) = u[n] /\ Len(v) = n - 1 /\ \A i \in 1..(n - 1) : v[i] = u[i]
  BY FinalInitial
<1>5. x[n + 1] = e /\ \A i \in 1..n : x[i] = q[i]
  BY <1>1, AppendProperties
<1>6. \A i \in 1..n : Joined(way, x[i], u[i], x[i + 1])
  BY DEF Chain
<1>. HIDE DEF x, v, w
<1>7. z[n - 1 + 1] = Final(q) /\ \A i \in 1..(n - 1) : z[i] = w[i]
  <2>1. z[Len(w) + 1] = Final(q) /\ \A i \in 1..Len(w) : z[i] = w[i]
    BY <1>3, AppendProperties
  <2>. QED BY <1>3, <2>1
<1>. HIDE DEF z, n
<1>8. \A i \in 1..n : z[i] = q[i]
  <2>1. SUFFICES ASSUME NEW i \in 1..n PROVE z[i] = q[i]
    OBVIOUS
  <2>2. CASE i = n
    <3>1. n - 1 + 1 = n
      BY <1>1
    <3>. QED BY <1>3, <1>7, <2>2, <3>1
  <2>3. CASE i # n
    <3>1. i \in 1..(n - 1)
      BY <1>1, <2>3
    <3>. QED BY <1>3, <1>7, <3>1
  <2>. QED BY <2>2, <2>3
<1>9. Joined(way, Final(q), Final(u), e)
  <2>1. n \in 1..n
    BY <1>1
  <2>. QED BY <1>3, <1>4, <1>5, <1>6, <2>1
<1>10. ASSUME NEW i \in 1..(n - 1) PROVE Joined(way, z[i], v[i], z[i + 1])
  <2>1. i \in 1..n /\ i + 1 \in 1..n
    BY <1>1
  <2>2. z[i] = x[i] /\ z[i + 1] = x[i + 1] /\ v[i] = u[i]
    BY <1>4, <1>5, <1>8, <2>1
  <2>. QED BY <1>6, <2>1, <2>2
<1>11. Chain(way, v, w, Final(q))
  BY <1>3, <1>4, <1>10 DEF Chain, z
<1>. QED BY <1>2, <1>3, <1>9, <1>11 DEF v, w

(* Eviction takes the same entries from the stack and from the documents.  *)
LEMMA ChainNewest ==
    ASSUME NEW S, NEW way, NEW u \in Seq(S), NEW q \in Seq(Doc), NEW e \in Doc,
           Chain(way, u, q, e)
    PROVE  Chain(way, Newest(u), Newest(q), e)
<1> DEFINE n == Len(u)
           v == Newest(u)
           w == Newest(q)
           k == Len(v)
           o == n - k
           x == Append(q, e)
           z == Append(w, e)
<1>1. n \in Nat /\ Len(q) = n /\ Cap \in Nat \ {0}
  BY LenProperties, CapAssumption DEF Chain
<1>2. v \in Seq(S) /\ k = (IF n > Cap THEN Cap ELSE n)
      /\ \A i \in 1..k : v[i] = u[i + o]
  BY NewestEntries
<1>3. w \in Seq(Doc) /\ Len(w) = k /\ \A i \in 1..k : w[i] = q[i + o]
  <2>1. Len(w) = (IF n > Cap THEN Cap ELSE n)
    BY <1>1, NewestEntries
  <2>2. Len(w) = k
    BY <1>2, <2>1
  <2>3. w \in Seq(Doc) /\ \A i \in 1..Len(w) : w[i] = q[i + (Len(q) - Len(w))]
    BY NewestEntries
  <2>. HIDE DEF w
  <2>. QED BY <1>1, <2>2, <2>3
<1>4. k \in Nat /\ k <= n /\ o \in Nat /\ o + k = n
  BY <1>1, <1>2
<1>5. x[n + 1] = e /\ \A i \in 1..n : x[i] = q[i]
  BY <1>1, AppendProperties
<1>6. \A i \in 1..n : Joined(way, x[i], u[i], x[i + 1])
  BY DEF Chain
<1>. HIDE DEF x, w
<1>7. z[k + 1] = e /\ \A i \in 1..k : z[i] = w[i]
  <2>1. z[Len(w) + 1] = e /\ \A i \in 1..Len(w) : z[i] = w[i]
    BY <1>3, AppendProperties
  <2>. QED BY <1>3, <2>1
<1>. HIDE DEF z, v, n, k, o
<1>8. ASSUME NEW i \in 1..k PROVE Joined(way, z[i], v[i], z[i + 1])
  <2>1. i + o \in 1..n /\ (i + 1) + o = (i + o) + 1
    BY <1>4
  <2>2. z[i] = x[i + o] /\ v[i] = u[i + o]
    BY <1>2, <1>3, <1>5, <1>7, <2>1
  <2>3. z[i + 1] = x[(i + o) + 1]
    <3>1. CASE i = k
      <4>1. (i + o) + 1 = n + 1
        BY <1>4, <3>1
      <4>. QED BY <1>5, <1>7, <3>1, <4>1
    <3>2. CASE i # k
      <4>1. i + 1 \in 1..k /\ (i + o) + 1 \in 1..n
        BY <1>4, <3>2
      <4>. QED BY <1>3, <1>5, <1>7, <2>1, <4>1
    <3>. QED BY <3>1, <3>2
  <2>. QED BY <1>6, <2>1, <2>2, <2>3
<1>. QED BY <1>3, <1>8 DEF Chain, z, v, w, k

-----------------------------------------------------------------------------
(***************************************************************************)
(* Documents and their positions.                                          *)
(***************************************************************************)
(* The positions of a document.                                            *)
Grid(doc) == {p \in Pos : InGrid(doc, p)}

(* A set of numbers has a least one.                                       *)
LEMMA LeastIs ==
    ASSUME NEW s, s \subseteq Nat, s # {}
    PROVE  Least(s) \in s /\ \A m \in s : Least(s) <= m
<1>1. PICK n \in s : \A m \in s : ~(m < n)
  BY LeastNumber
<1>2. \A m \in s : n <= m
  BY <1>1
<1>. QED BY <1>2 DEF Least

(* A bounded set of numbers has a greatest one.                            *)
LEMMA GreatestIs ==
    ASSUME NEW k \in Nat, NEW s, s \subseteq 0..k, s # {}
    PROVE  Greatest(s) \in s /\ \A m \in s : m <= Greatest(s)
<1> DEFINE t == {n \in Nat : k - n \in s}
<1>1. PICK x \in s : TRUE
  OBVIOUS
<1>2. k - x \in t
  <2>1. k - x \in Nat /\ k - (k - x) = x
    OBVIOUS
  <2>. QED BY <2>1
<1>3. PICK n \in t : \A m \in t : ~(m < n)
  <2>1. t \subseteq Nat /\ t # {}
    BY <1>2
  <2>. HIDE DEF t
  <2>. QED BY <2>1, LeastNumber
<1>4. ASSUME NEW m \in s PROVE m <= k - n
  <2>1. m \in 0..k /\ n \in Nat
    BY <1>3
  <2>2. k - m \in Nat /\ k - (k - m) = m
    BY <2>1
  <2>3. ~(k - m < n)
    BY <1>3, <2>2
  <2>. QED BY <2>1, <2>3
<1>5. k - n \in s
  BY <1>3
<1>. QED BY <1>4, <1>5 DEF Greatest

(* A document has a line, and its lines are lines.                         *)
LEMMA DocLines ==
    ASSUME NEW doc \in Doc
    PROVE  /\ Len(doc) \in Nat \ {0} /\ LastLine(doc) \in Nat /\ LastLine(doc) + 1 = Len(doc)
           /\ doc \in Seq(Line)
           /\ \A l \in 0..LastLine(doc) : /\ l \in Nat /\ l + 1 \in 1..Len(doc)
                                          /\ LineOf(doc, l) \in Seq(Char)
                                          /\ Len(LineOf(doc, l)) \in Nat
<1>1. doc \in Seq(Line) /\ Len(doc) \in Nat \ {0}
  BY EmptySeq, LenProperties DEF Doc
<1>2. LastLine(doc) \in Nat /\ LastLine(doc) + 1 = Len(doc)
  BY <1>1 DEF LastLine
<1>3. ASSUME NEW l \in 0..LastLine(doc)
      PROVE  l \in Nat /\ l + 1 \in 1..Len(doc) /\ LineOf(doc, l) \in Seq(Char)
             /\ Len(LineOf(doc, l)) \in Nat
  <2>1. l \in Nat /\ l + 1 \in 1..Len(doc)
    BY <1>1, <1>2
  <2>2. doc[l + 1] \in Line
    BY <1>1, <2>1, ElementOfSeq
  <2>. QED BY <2>1, <2>2, LenProperties DEF LineOf, Line
<1>. QED BY <1>1, <1>2, <1>3

(* A position of the document is on a line, and not beyond its end.        *)
LEMMA GridIs ==
    ASSUME NEW doc \in Doc, NEW p
    PROVE  /\ p \in Grid(doc) =>
                /\ p \in Pos /\ p.line \in Nat /\ p.col \in Nat /\ p.line \in 0..LastLine(doc)
                /\ p.col \in 0..Len(LineOf(doc, p.line)) /\ p = At(p.line, p.col)
           /\ \A l \in 0..LastLine(doc) : \A c \in 0..Len(LineOf(doc, l)) :
                /\ At(l, c) \in Grid(doc) /\ At(l, c).line = l /\ At(l, c).col = c
<1>1. Len(doc) \in Nat \ {0} /\ LastLine(doc) = Len(doc) - 1
  BY DocLines DEF LastLine
<1>2. ASSUME p \in Grid(doc)
      PROVE  /\ p \in Pos /\ p.line \in Nat /\ p.col \in Nat /\ p.line \in 0..LastLine(doc)
             /\ p.col \in 0..Len(LineOf(doc, p.line)) /\ p = At(p.line, p.col)
  <2>1. p \in Pos /\ p.line < Len(doc) /\ p.col <= Len(doc[p.line + 1])
    BY <1>2 DEF Grid, InGrid
  <2>2. p.line \in Nat /\ p.col \in Nat /\ p = At(p.line, p.col)
    BY <2>1 DEF Pos, At
  <2>3. p.line \in 0..LastLine(doc)
    BY <1>1, <2>1, <2>2
  <2>4. Len(LineOf(doc, p.line)) \in Nat
    BY <2>3, DocLines
  <2>. QED BY <2>1, <2>2, <2>3, <2>4 DEF LineOf
<1>3. ASSUME NEW l \in 0..LastLine(doc), NEW c \in 0..Len(LineOf(doc, l))
      PROVE  At(l, c) \in Grid(doc) /\ At(l, c).line = l /\ At(l, c).col = c
  <2>1. l \in Nat /\ Len(LineOf(doc, l)) \in Nat
    BY DocLines
  <2>2. l < Len(doc) /\ c \in Nat /\ c <= Len(doc[l + 1])
    BY <1>1, <2>1 DEF LineOf
  <2>3. At(l, c).line = l /\ At(l, c).col = c /\ At(l, c) \in Pos
    BY <2>1, <2>2 DEF At, Pos
  <2>. QED BY <2>2, <2>3 DEF Grid, InGrid
<1>. QED BY <1>2, <1>3

(* A cut through a line.                                                   *)
LEMMA TextParts ==
    ASSUME NEW text \in Seq(Char), NEW at \in 0..Len(text)
    PROVE  /\ Upto(text, at) \in Seq(Char) /\ Len(Upto(text, at)) = at
           /\ From(text, at) \in Seq(Char) /\ Len(From(text, at)) = Len(text) - at
<1>1. Len(text) \in Nat /\ at \in Nat /\ \A i \in 1..Len(text) : text[i] \in Char
  BY LenProperties, ElementOfSeq
<1>2. Upto(text, at) \in Seq(Char) /\ Len(Upto(text, at)) = at
  <2>1. 1 \in Int /\ at \in Int /\ \A i \in 1..at : text[i] \in Char
    BY <1>1
  <2>2. /\ SubSeq(text, 1, at) \in Seq(Char)
        /\ Len(SubSeq(text, 1, at)) = IF 1 <= at THEN at - 1 + 1 ELSE 0
    BY <2>1, SubSeqProperties
  <2>. QED BY <1>1, <2>2 DEF Upto
<1>3. From(text, at) \in Seq(Char) /\ Len(From(text, at)) = Len(text) - at
  <2>1. at + 1 \in Int /\ Len(text) \in Int /\ \A i \in (at + 1)..Len(text) : text[i] \in Char
    BY <1>1
  <2>2. /\ SubSeq(text, at + 1, Len(text)) \in Seq(Char)
        /\ Len(SubSeq(text, at + 1, Len(text)))
             = IF at + 1 <= Len(text) THEN Len(text) - (at + 1) + 1 ELSE 0
    BY <2>1, SubSeqProperties
  <2>. QED BY <1>1, <2>2 DEF From
<1>. QED BY <1>2, <1>3

(* Some lines of a document, in their order.                               *)
LEMMA SpanOfDoc ==
    ASSUME NEW doc \in Doc, NEW f \in Nat, NEW b \in (f + 1)..Len(doc)
    PROVE  /\ SubSeq(doc, f + 1, b) \in Doc /\ Len(SubSeq(doc, f + 1, b)) = b - f
           /\ \A i \in 1..(b - f) : SubSeq(doc, f + 1, b)[i] = doc[f + i]
           /\ Fits(doc, f, SubSeq(doc, f + 1, b))
<1> DEFINE span == SubSeq(doc, f + 1, b)
<1>1. /\ doc \in Seq(Line) /\ Len(doc) \in Nat /\ b \in Nat /\ f + 1 <= b /\ b <= Len(doc)
      /\ \A i \in 1..Len(doc) : doc[i] \in Line
  BY DocLines, ElementOfSeq
<1>2. f + 1 \in Int /\ b \in Int /\ \A i \in (f + 1)..b : doc[i] \in Line
  BY <1>1
<1>3. /\ span \in Seq(Line)
      /\ Len(span) = IF f + 1 <= b THEN b - (f + 1) + 1 ELSE 0
      /\ \A i \in 1..(b - (f + 1) + 1) : span[i] = doc[f + 1 + i - 1]
  BY <1>2, SubSeqProperties
<1>. HIDE DEF span
<1>4. Len(span) = b - f
  BY <1>1, <1>3
<1>5. ASSUME NEW i \in 1..(b - f) PROVE span[i] = doc[f + i]
  <2>1. i \in 1..(b - (f + 1) + 1) /\ f + 1 + i - 1 = f + i
    BY <1>1
  <2>. QED BY <1>3, <2>1
<1>6. span # <<>>
  BY <1>1, <1>4, EmptySeq
<1>7. Fits(doc, f, span)
  <2>1. f + Len(span) <= Len(doc) /\ \A i \in 1..Len(span) : doc[f + i] = span[i]
    BY <1>1, <1>4, <1>5
  <2>. QED BY <1>1, <1>3, <2>1, FitsLines
<1>. QED BY <1>3, <1>4, <1>5, <1>6, <1>7 DEF span, Doc

(* A position in the new lines of a change is one of the document it makes.*)
LEMMA InNewLines ==
    ASSUME NEW doc \in Doc, NEW f \in Nat, NEW n \in Nat, f + n <= Len(doc),
           NEW new \in Seq(Line), NEW l \in Nat, NEW c \in Nat,
           f <= l, l < f + Len(new), c <= Len(new[l - f + 1])
    PROVE  InGrid(Splice(doc, f, n, new), At(l, c))
<1> DEFINE d == Splice(doc, f, n, new)
<1>1. /\ doc \in Seq(Line) /\ Len(doc) \in Nat /\ Len(new) \in Nat
  BY DocLines, LenProperties
<1>2. d \in Seq(Line) /\ Spliced(d, doc, f, n, new)
  BY <1>1, SpliceLines
<1>. HIDE DEF d
<1>3. l < Len(d)
  BY <1>1, <1>2 DEF Spliced
<1>4. d[l + 1] = new[l - f + 1]
  <2>1. l + 1 \in (f + 1)..(f + Len(new)) /\ l + 1 - f = l - f + 1
    BY <1>1
  <2>. QED BY <1>2, <2>1 DEF Spliced
<1>5. InGrid(d, At(l, c))
  BY <1>3, <1>4 DEF InGrid, At
<1>. QED BY <1>5 DEF d

(* A change of one line into one or two.                                   *)
LEMMA OneLine ==
    ASSUME NEW doc \in Doc, NEW l \in 0..LastLine(doc)
    PROVE  /\ <<LineOf(doc, l)>> \in Doc /\ Fits(doc, l, <<LineOf(doc, l)>>)
           /\ Len(<<LineOf(doc, l)>>) = 1 /\ l \in Nat
<1>1. /\ l \in Nat /\ l + 1 \in 1..Len(doc) /\ LineOf(doc, l) \in Line /\ doc \in Seq(Line)
      /\ Len(doc) \in Nat
  BY DocLines DEF Line
<1>2. <<LineOf(doc, l)>> \in Seq(Line) /\ Len(<<LineOf(doc, l)>>) = 1
      /\ <<LineOf(doc, l)>>[1] = doc[l + 1] /\ <<LineOf(doc, l)>> # <<>>
  BY <1>1 DEF LineOf
<1>. HIDE DEF LineOf
<1>3. \A i \in 1..Len(<<LineOf(doc, l)>>) : doc[l + i] = <<LineOf(doc, l)>>[i]
  BY <1>2
<1>4. l + Len(<<LineOf(doc, l)>>) <= Len(doc)
  BY <1>1, <1>2
<1>5. Fits(doc, l, <<LineOf(doc, l)>>)
  BY <1>1, <1>2, <1>3, <1>4, FitsLines
<1>. QED BY <1>1, <1>2, <1>5 DEF Doc

-----------------------------------------------------------------------------
(***************************************************************************)
(* The buffer by itself.  What a sequence of changes did is done again by  *)
(* redo and taken back by undo, whatever the changes are.                  *)
(***************************************************************************)
(* A change is taken back where it was made.                               *)
LEMMA JoinsBack ==
    ASSUME NEW d \in Doc, NEW c \in BufChange, NEW e, Joins(d, c, e)
    PROVE  /\ e \in Doc
           /\ Fits(d, c.first, c.old) /\ Apply(d, c) = e
           /\ Fits(e, c.first, c.new) /\ Unapply(e, c) = d
<1>1. c \in Change /\ c.new # <<>> /\ Fits(d, c.first, c.old) /\ e = Apply(d, c)
  BY DEF BufChange, Joins
<1>2. d \in Seq(Line) /\ c.old \in Seq(Line) /\ c.new \in Seq(Line) /\ c.first \in Nat
  BY <1>1 DEF Doc, Change
<1>3. c.first + Len(c.old) <= Len(d) /\ Len(c.old) \in Nat /\ Len(c.new) \in Nat \ {0}
      /\ Len(d) \in Nat
  BY <1>1, <1>2, LenProperties, EmptySeq DEF Fits
<1>4. e \in Seq(Line) /\ Spliced(e, d, c.first, Len(c.old), c.new)
  BY <1>1, <1>2, <1>3, SpliceLines DEF Apply
<1>5. Len(e) # 0
  BY <1>2, <1>3, <1>4 DEF Spliced
<1>6. e \in Doc
  BY <1>4, <1>5, EmptySeq DEF Doc
<1>. QED BY <1>1, <1>6, LeadsBack

-----------------------------------------------------------------------------
(* A part of a sequence, entry by entry.                                   *)
LEMMA SubSeqIs ==
    ASSUME NEW S, NEW s \in Seq(S), NEW a \in 1..(Len(s) + 1), NEW b \in (a - 1)..Len(s)
    PROVE  /\ SubSeq(s, a, b) \in Seq(S) /\ Len(SubSeq(s, a, b)) = b - a + 1
           /\ \A i \in 1..(b - a + 1) : SubSeq(s, a, b)[i] = s[a + i - 1]
<1>1. Len(s) \in Nat /\ a \in Int /\ b \in Int
  BY LenProperties
<1>2. \A i \in a..b : s[i] \in S
  BY <1>1, ElementOfSeq
<1>3. /\ SubSeq(s, a, b) \in Seq(S)
      /\ Len(SubSeq(s, a, b)) = IF a <= b THEN b - a + 1 ELSE 0
      /\ \A i \in 1..(b - a + 1) : SubSeq(s, a, b)[i] = s[a + i - 1]
  BY <1>1, <1>2, SubSeqProperties
<1>. QED BY <1>1, <1>3

(* The changes from the a-th to the b-th tell of the documents around them. *)
LEMMA PartTells ==
    ASSUME NEW unit \in Seq(BufChange), NEW ds \in Seq(Doc), Tells(ds, unit),
           NEW a \in 1..(Len(unit) + 1), NEW b \in (a - 1)..Len(unit)
    PROVE  LET part == SubSeq(unit, a, b)
               docs == SubSeq(ds, a, b + 1)
           IN  /\ part \in Seq(BufChange) /\ docs \in Seq(Doc) /\ Tells(docs, part)
               /\ Len(part) = b - a + 1 /\ docs[1] = ds[a] /\ docs[Len(part) + 1] = ds[b + 1]
<1> DEFINE n == Len(unit)
           m == b - a + 1
           part == SubSeq(unit, a, b)
           docs == SubSeq(ds, a, b + 1)
<1>1. n \in Nat /\ Len(ds) = n + 1 /\ \A i \in 1..n : Joins(ds[i], unit[i], ds[i + 1])
  BY LenProperties DEF Tells
<1>2. /\ part \in Seq(BufChange) /\ Len(part) = m
      /\ \A i \in 1..m : part[i] = unit[a + i - 1]
  BY SubSeqIs
<1>3. /\ docs \in Seq(Doc) /\ Len(docs) = m + 1
      /\ \A i \in 1..(m + 1) : docs[i] = ds[a + i - 1]
  <2>1. a \in 1..(Len(ds) + 1) /\ b + 1 \in (a - 1)..Len(ds) /\ (b + 1) - a + 1 = m + 1
    BY <1>1
  <2>2. /\ docs \in Seq(Doc) /\ Len(docs) = (b + 1) - a + 1
        /\ \A i \in 1..((b + 1) - a + 1) : docs[i] = ds[a + i - 1]
    BY <2>1, SubSeqIs
  <2>. HIDE DEF docs, m
  <2>. QED BY <2>1, <2>2
<1>4. m \in Nat /\ a + 1 - 1 = a /\ a + (m + 1) - 1 = b + 1
  BY <1>1
<1>. HIDE DEF part, docs
<1>5. ASSUME NEW i \in 1..m PROVE Joins(docs[i], part[i], docs[i + 1])
  <2>1. /\ i \in 1..(m + 1) /\ i + 1 \in 1..(m + 1) /\ a + i - 1 \in 1..n
        /\ a + (i + 1) - 1 = (a + i - 1) + 1
    BY <1>1, <1>4
  <2>2. docs[i] = ds[a + i - 1] /\ docs[i + 1] = ds[(a + i - 1) + 1] /\ part[i] = unit[a + i - 1]
    BY <1>2, <1>3, <2>1
  <2>. QED BY <1>1, <2>1, <2>2
<1>6. docs[1] = ds[a] /\ docs[m + 1] = ds[b + 1]
  <2>1. 1 \in 1..(m + 1) /\ m + 1 \in 1..(m + 1)
    BY <1>4
  <2>2. docs[1] = ds[a + 1 - 1] /\ docs[m + 1] = ds[a + (m + 1) - 1]
    BY <1>3, <2>1
  <2>. QED BY <1>4, <2>2
<1>7. Tells(docs, part)
  BY <1>2, <1>3, <1>5 DEF Tells
<1>. HIDE DEF m
<1>8. /\ part \in Seq(BufChange) /\ docs \in Seq(Doc) /\ Tells(docs, part)
      /\ Len(part) = m /\ docs[1] = ds[a] /\ docs[Len(part) + 1] = ds[b + 1]
  BY <1>2, <1>3, <1>6, <1>7
<1>. QED BY <1>8 DEF part, docs, m

(* Redo makes the changes again.                                           *)
LEMMA RedoReplays ==
    ASSUME NEW unit \in Seq(BufChange), NEW ds \in Seq(Doc), Tells(ds, unit)
    PROVE  RedoUnit(ds[1], unit) = ds[Len(unit) + 1]
<1> DEFINE n == Len(unit)
           Walk(f) == f = [i \in 0..n |-> IF i = 0 THEN ds[1] ELSE Apply(f[i - 1], unit[i])]
           after == CHOOSE f : Walk(f)
           w == [i \in 0..n |-> ds[i + 1]]
<1>1. n \in Nat /\ Len(ds) = n + 1 /\ \A i \in 1..n : Joins(ds[i], unit[i], ds[i + 1])
  BY LenProperties DEF Tells
<1>2. \A i \in 1..n : Apply(ds[i], unit[i]) = ds[i + 1]
  BY <1>1 DEF Joins
<1>3. Walk(w)
  <2>1. ASSUME NEW i \in 0..n
        PROVE  w[i] = IF i = 0 THEN ds[1] ELSE Apply(w[i - 1], unit[i])
    <3>1. CASE i = 0
      BY <1>1, <3>1
    <3>2. CASE i # 0
      <4>1. i - 1 \in 0..n /\ i \in 1..n /\ (i - 1) + 1 = i
        BY <1>1, <3>2
      <4>2. w[i - 1] = ds[i] /\ w[i] = ds[i + 1]
        BY <4>1
      <4>. HIDE DEF w
      <4>. QED BY <1>2, <3>2, <4>1, <4>2
    <3>. QED BY <3>1, <3>2
  <2>. QED BY <2>1
<1>4. Walk(after)
  <2>. HIDE DEF Walk
  <2>. QED BY <1>3
<1>. HIDE DEF after
<1>5. after[0] = ds[1] /\ \A i \in 1..n : after[i] = Apply(after[i - 1], unit[i])
  BY <1>1, <1>4
<1>6. w[0] = ds[1] /\ w[n] = ds[n + 1]
      /\ \A i \in 1..n : w[i] = Apply(w[i - 1], unit[i])
  <2>1. 0 \in 0..n /\ n \in 0..n /\ \A i \in 1..n : i \in 0..n /\ i # 0
    BY <1>1
  <2>2. w[0] = ds[0 + 1] /\ w[n] = ds[n + 1]
    BY <2>1
  <2>3. \A i \in 0..n : w[i] = IF i = 0 THEN ds[1] ELSE Apply(w[i - 1], unit[i])
    BY <1>3
  <2>. HIDE DEF w
  <2>. QED BY <2>1, <2>2, <2>3
<1>. HIDE DEF w, n
<1>7. \A i \in 0..n : after[i] = w[i]
  <2>. HIDE DEF Walk
  <2>1. after[0] = w[0]
    BY <1>5, <1>6
  <2>2. \A i \in 0..(n - 1) : after[i] = w[i] => after[i + 1] = w[i + 1]
    <3>1. SUFFICES ASSUME NEW i \in 0..(n - 1), after[i] = w[i] PROVE after[i + 1] = w[i + 1]
      OBVIOUS
    <3>2. i + 1 \in 1..n /\ (i + 1) - 1 = i
      BY <1>1
    <3>3. after[i + 1] = Apply(after[i], unit[i + 1]) /\ w[i + 1] = Apply(w[i], unit[i + 1])
      BY <1>5, <1>6, <3>2
    <3>. QED BY <3>1, <3>3
  <2>3. n \in Nat
    BY <1>1
  <2>. QED BY <2>1, <2>2, <2>3, SameAscent
<1>8. after[n] = ds[n + 1]
  BY <1>1, <1>6, <1>7
<1>9. RedoUnit(ds[1], unit) = after[n]
  BY DEF RedoUnit, after, n
<1>. QED BY <1>8, <1>9 DEF n

(* Undo takes them back.                                                   *)
LEMMA UndoReplays ==
    ASSUME NEW unit \in Seq(BufChange), NEW ds \in Seq(Doc), Tells(ds, unit)
    PROVE  UndoUnit(ds[Len(unit) + 1], unit) = ds[1]
<1> DEFINE n == Len(unit)
           e == ds[n + 1]
           Walk(f) == f = [i \in 1..(n + 1) |-> IF i > n THEN e ELSE Unapply(f[i + 1], unit[i])]
           before == CHOOSE f : Walk(f)
<1>1. n \in Nat /\ Len(ds) = n + 1 /\ \A i \in 1..n : Joins(ds[i], unit[i], ds[i + 1])
  BY LenProperties DEF Tells
<1>2. \A i \in 1..n : Unapply(ds[i + 1], unit[i]) = ds[i]
  <2>1. SUFFICES ASSUME NEW i \in 1..n PROVE Unapply(ds[i + 1], unit[i]) = ds[i]
    OBVIOUS
  <2>2. ds[i] \in Doc /\ unit[i] \in BufChange
    BY <1>1, ElementOfSeq
  <2>. QED BY <1>1, <2>2, JoinsBack
<1>3. ds = [i \in 1..(n + 1) |-> ds[i]]
  BY <1>1, LenProperties
<1>4. Walk(ds)
  <2>1. ASSUME NEW i \in 1..(n + 1)
        PROVE  ds[i] = IF i > n THEN e ELSE Unapply(ds[i + 1], unit[i])
    <3>1. CASE i > n
      <4>1. i = n + 1
        BY <1>1, <3>1
      <4>. QED BY <3>1, <4>1
    <3>2. CASE ~(i > n)
      <4>1. i \in 1..n
        BY <1>1, <3>2
      <4>. QED BY <1>2, <3>2, <4>1
    <3>. QED BY <3>1, <3>2
  <2>2. [i \in 1..(n + 1) |-> ds[i]]
          = [i \in 1..(n + 1) |-> IF i > n THEN e ELSE Unapply(ds[i + 1], unit[i])]
    <3>. HIDE DEF e
    <3>. QED BY <2>1
  <2>. HIDE DEF e
  <2>. QED BY <1>3, <2>2
<1>5. Walk(before)
  <2>. HIDE DEF Walk
  <2>. QED BY <1>4
<1>. HIDE DEF before, e
<1>6. before[n + 1] = e /\ \A i \in 1..n : before[i] = Unapply(before[i + 1], unit[i])
  BY <1>1, <1>5
<1>. HIDE DEF Walk
<1>7. \A i \in 1..(n + 1) : before[i] = ds[i]
  <2>1. before[n + 1] = ds[n + 1]
    BY <1>6 DEF e
  <2>. HIDE DEF n
  <2>2. \A i \in 1..n : before[i + 1] = ds[i + 1] => before[i] = ds[i]
    BY <1>2, <1>6
  <2>. QED BY <1>1, <2>1, <2>2, SameDescent
<1>8. before[1] = ds[1]
  BY <1>1, <1>7
<1>9. UndoUnit(e, unit) = before[1]
  BY DEF UndoUnit, before, Walk, n
<1>. QED BY <1>8, <1>9 DEF e, n

(* Neither meets a drifted baseline on its way.                            *)
LEMMA ReplaysFit ==
    ASSUME NEW unit \in Seq(BufChange), NEW d \in Doc, NEW e, Story(d, unit, e)
    PROVE  /\ e \in Doc
           /\ RedoUnit(d, unit) = e /\ RedoFits(d, unit)
           /\ UndoUnit(e, unit) = d /\ UndoFits(e, unit)
<1> DEFINE n == Len(unit)
<1>1. PICK ds \in Seq(Doc) : Tells(ds, unit) /\ ds[1] = d /\ ds[n + 1] = e
  BY DEF Story
<1>2. n \in Nat /\ Len(ds) = n + 1 /\ \A i \in 1..n : Joins(ds[i], unit[i], ds[i + 1])
  BY <1>1, LenProperties DEF Tells
<1>3. \A i \in 1..(n + 1) : ds[i] \in Doc
  BY <1>2, ElementOfSeq
<1>. HIDE DEF n
<1>4. ASSUME NEW i \in 1..n
      PROVE  /\ Fits(ds[i], unit[i].first, unit[i].old)
             /\ Fits(ds[i + 1], unit[i].first, unit[i].new)
  <2>1. i \in 1..(n + 1)
    BY <1>2
  <2>2. ds[i] \in Doc /\ unit[i] \in BufChange
    BY <1>3, <2>1, ElementOfSeq DEF n
  <2>. QED BY <1>2, <2>2, JoinsBack
<1>5. ASSUME NEW i \in 1..n
      PROVE  Fits(RedoUnit(d, SubSeq(unit, 1, i - 1)), unit[i].first, unit[i].old)
  <2> DEFINE part == SubSeq(unit, 1, i - 1)
             docs == SubSeq(ds, 1, (i - 1) + 1)
  <2>1. 1 \in 1..(n + 1) /\ i - 1 \in (1 - 1)..n /\ (i - 1) + 1 = i
    BY <1>2
  <2>2. /\ part \in Seq(BufChange) /\ docs \in Seq(Doc) /\ Tells(docs, part)
        /\ docs[1] = ds[1] /\ docs[Len(part) + 1] = ds[(i - 1) + 1]
    BY <1>1, <2>1, PartTells DEF n
  <2>. HIDE DEF part, docs
  <2>3. RedoUnit(d, part) = ds[i]
    BY <1>1, <2>1, <2>2, RedoReplays
  <2>. QED BY <1>4, <2>3 DEF part
<1>6. ASSUME NEW i \in 1..n
      PROVE  Fits(UndoUnit(e, SubSeq(unit, i + 1, n)), unit[i].first, unit[i].new)
  <2> DEFINE part == SubSeq(unit, i + 1, n)
             docs == SubSeq(ds, i + 1, n + 1)
  <2>1. i + 1 \in 1..(n + 1) /\ n \in ((i + 1) - 1)..n
    BY <1>2
  <2>2. /\ part \in Seq(BufChange) /\ docs \in Seq(Doc) /\ Tells(docs, part)
        /\ docs[1] = ds[i + 1] /\ docs[Len(part) + 1] = ds[n + 1]
    BY <1>1, <2>1, PartTells DEF n
  <2>. HIDE DEF part, docs
  <2>3. UndoUnit(e, part) = ds[i + 1]
    BY <1>1, <2>2, UndoReplays
  <2>. QED BY <1>4, <2>3 DEF part
<1>7. RedoFits(d, unit)
  BY <1>5 DEF RedoFits, n
<1>8. UndoFits(e, unit)
  BY <1>6 DEF UndoFits, n
<1>9. RedoUnit(d, unit) = e /\ UndoUnit(e, unit) = d
  BY <1>1, RedoReplays, UndoReplays DEF n
<1>10. e \in Doc
  BY <1>1, <1>2, <1>3
<1>. QED BY <1>7, <1>8, <1>9, <1>10

-----------------------------------------------------------------------------
(* The history h of a buffer that holds doc: p and q are the documents of  *)
(* its undo and its redo units, com the one before the changes of the open *)
(* group.                                                                  *)
History ==
    [undo : Seq(Unit), redo : Seq(Unit), pending : Seq(BufChange), depth : Nat, tag : Kinds]

Told(h, doc, p, com, q) ==
    /\ p \in Seq(Doc) /\ com \in Doc /\ q \in Seq(Doc)
    /\ Chain("unit", h.undo, p, com) /\ Chain("backward", h.redo, q, com)
    /\ Story(com, h.pending, doc)
    /\ Len(h.undo) + Len(h.redo) <= Cap

(* No change, one change, and one change more.                             *)
LEMMA StoryEmpty ==
    ASSUME NEW d \in Doc, NEW e
    PROVE  Story(d, <<>>, e) <=> e = d
<1>1. Len(<<>>) = 0
  BY EmptySeq
<1>2. Story(d, <<>>, e) => e = d
  BY <1>1 DEF Story
<1>3. Story(d, <<>>, d)
  <2> DEFINE ds == <<d>>
  <2>1. ds \in Seq(Doc) /\ Len(ds) = 1 /\ ds[1] = d
    OBVIOUS
  <2>. HIDE DEF ds
  <2>2. Tells(ds, <<>>)
    BY <1>1, <2>1 DEF Tells
  <2>. QED BY <1>1, <2>1, <2>2 DEF Story
<1>. QED BY <1>2, <1>3

(* A story grows by one change at its end.                                 *)
LEMMA StoryGrows ==
    ASSUME NEW d \in Doc, NEW unit \in Seq(BufChange), NEW e \in Doc, Story(d, unit, e),
           NEW c \in BufChange, NEW f \in Doc, Joins(e, c, f)
    PROVE  Append(unit, c) \in Seq(BufChange) /\ Story(d, Append(unit, c), f)
<1> DEFINE n == Len(unit)
           v == Append(unit, c)
<1>1. PICK ds \in Seq(Doc) : Tells(ds, unit) /\ ds[1] = d /\ ds[n + 1] = e
  BY DEF Story
<1>2. n \in Nat /\ Len(ds) = n + 1 /\ \A i \in 1..n : Joins(ds[i], unit[i], ds[i + 1])
  BY <1>1, LenProperties DEF Tells
<1> DEFINE w == Append(ds, f)
<1>3. v \in Seq(BufChange) /\ Len(v) = n + 1 /\ v[n + 1] = c /\ \A i \in 1..n : v[i] = unit[i]
  BY AppendProperties
<1>4. w \in Seq(Doc) /\ Len(w) = n + 2 /\ w[n + 2] = f /\ \A i \in 1..(n + 1) : w[i] = ds[i]
  <2>1. w \in Seq(Doc) /\ Len(w) = Len(ds) + 1 /\ w[Len(ds) + 1] = f
        /\ \A i \in 1..Len(ds) : w[i] = ds[i]
    BY AppendProperties
  <2>2. Len(ds) + 1 = n + 2
    BY <1>2
  <2>. HIDE DEF w, n
  <2>. QED BY <1>2, <2>1, <2>2
<1>. HIDE DEF v, w, n
<1>5. ASSUME NEW i \in 1..(n + 1) PROVE Joins(w[i], v[i], w[i + 1])
  <2>1. CASE i = n + 1
    <3>1. i + 1 = n + 2 /\ n + 1 \in 1..(n + 1)
      BY <1>2, <2>1
    <3>2. w[i] = e /\ w[i + 1] = f /\ v[i] = c
      BY <1>1, <1>3, <1>4, <2>1, <3>1
    <3>. QED BY <3>2
  <2>2. CASE i # n + 1
    <3>1. i \in 1..n /\ i + 1 \in 1..(n + 1)
      BY <1>2, <2>2
    <3>2. w[i] = ds[i] /\ w[i + 1] = ds[i + 1] /\ v[i] = unit[i]
      BY <1>3, <1>4, <3>1
    <3>. QED BY <1>2, <3>1, <3>2
  <2>. QED BY <2>1, <2>2
<1>6. Tells(w, v)
  <2>1. Len(w) = Len(v) + 1
    BY <1>2, <1>3, <1>4
  <2>. QED BY <1>3, <1>5, <2>1 DEF Tells
<1>7. w[1] = d /\ w[Len(v) + 1] = f
  <2>1. 1 \in 1..(n + 1) /\ Len(v) + 1 = n + 2
    BY <1>2, <1>3
  <2>. QED BY <1>1, <1>4, <2>1
<1>8. Story(d, v, f)
  BY <1>4, <1>6, <1>7 DEF Story
<1>. QED BY <1>3, <1>8 DEF v

(* A story of one change is the change.                                    *)
LEMMA StoryOne ==
    ASSUME NEW d \in Doc, NEW c \in BufChange, NEW e \in Doc
    PROVE  Story(d, <<c>>, e) <=> Joins(d, c, e)
<1>1. <<c>> \in Seq(BufChange) /\ Len(<<c>>) = 1 /\ <<c>>[1] = c /\ Append(<<>>, c) = <<c>>
  OBVIOUS
<1>2. ASSUME Joins(d, c, e) PROVE Story(d, <<c>>, e)
  <2>1. <<>> \in Seq(BufChange) /\ Story(d, <<>>, d)
    BY StoryEmpty, EmptySeq
  <2>2. Story(d, Append(<<>>, c), e)
    BY <1>2, <2>1, StoryGrows
  <2>. QED BY <1>1, <2>2
<1>3. ASSUME Story(d, <<c>>, e) PROVE Joins(d, c, e)
  <2> DEFINE u == <<c>>
  <2>1. u[1] = c /\ Len(u) = 1 /\ Story(d, u, e)
    BY <1>1, <1>3
  <2>. HIDE DEF u
  <2>2. PICK ds \in Seq(Doc) : Tells(ds, u) /\ ds[1] = d /\ ds[Len(u) + 1] = e
    BY <2>1 DEF Story
  <2>3. 1 \in 1..Len(u) /\ Len(u) + 1 = 1 + 1
    BY <2>1
  <2>4. Joins(ds[1], u[1], ds[1 + 1])
    BY <2>2, <2>3 DEF Tells
  <2>5. ds[1 + 1] = e
    BY <2>2, <2>3
  <2>. QED BY <2>1, <2>2, <2>4, <2>5
<1>. QED BY <1>2, <1>3

(* A merged change joins the documents around the two.                     *)
LEMMA MergeJoins ==
    ASSUME NEW d \in Doc, NEW p \in BufChange, NEW e \in Doc, Joins(d, p, e),
           NEW c \in BufChange, NEW f \in Doc, Joins(e, c, f), Continues(p, c)
    PROVE  Merge(p, c) \in BufChange /\ Joins(d, Merge(p, c), f)
<1> DEFINE m == Merge(p, c)
<1>1. p \in Change /\ c \in Change /\ c.new # <<>>
  BY DEF BufChange
<1>2. /\ Fits(d, p.first, p.old) /\ e = Apply(d, p) /\ f = Apply(e, c)
      /\ Slack = 0 => InGrid(d, p.before) /\ InGrid(f, c.after)
  BY DEF Joins
<1>3. /\ m \in Change /\ m.before = p.before /\ m.after = c.after
      /\ Fits(d, m.first, m.old) /\ Apply(d, m) = Apply(Apply(d, p), c)
      /\ Len(m.new) = Len(p.new) - Len(c.old) + Len(c.new)
      /\ Len(c.old) <= Len(p.new)
  BY <1>1, <1>2, MergeApplies
<1>. HIDE DEF m
<1>4. Len(c.new) \in Nat \ {0} /\ Len(c.old) \in Nat /\ Len(p.new) \in Nat
  BY <1>1, LenProperties, EmptySeq DEF Change, Doc
<1>5. m.new # <<>>
  <2>1. Len(m.new) # 0
    <3>1. \A a, b \in Nat, k \in Nat \ {0} : b <= a => a - b + k # 0
      OBVIOUS
    <3>2. Len(p.new) - Len(c.old) + Len(c.new) # 0
      BY <1>3, <1>4, <3>1
    <3>. QED BY <1>3, <3>2
  <2>2. Len(<<>>) = 0
    BY EmptySeq
  <2>. QED BY <2>1, <2>2
<1>6. m \in BufChange
  BY <1>3, <1>5 DEF BufChange
<1>7. Apply(d, m) = f
  BY <1>2, <1>3, Zenon
<1>8. Slack = 0 => InGrid(d, m.before) /\ InGrid(f, m.after)
  BY <1>2, <1>3, Zenon
<1>9. Fits(d, m.first, m.old)
  BY <1>3
<1>10. Joins(d, m, f)
  BY <1>7, <1>8, <1>9 DEF Joins
<1>. QED BY <1>6, <1>10 DEF m

-----------------------------------------------------------------------------
(* A sequence of one entry.                                                *)
LEMMA OneEntry ==
    ASSUME NEW S, NEW s \in Seq(S), Len(s) = 1
    PROVE  s[1] \in S /\ s = <<s[1]>>
<1>1. s[1] \in S
  BY ElementOfSeq
<1> DEFINE c == s[1]
<1>2. <<c>> \in Seq(S) /\ Len(<<c>>) = 1 /\ <<c>>[1] = c
  BY <1>1
<1>3. s = <<c>>
  <2> DEFINE t == <<c>>
  <2>1. t \in Seq(S) /\ Len(t) = Len(s)
    BY <1>2
  <2>2. ASSUME NEW i \in 1..Len(s) PROVE s[i] = t[i]
    <3>1. i = 1
      OBVIOUS
    <3>. QED BY <1>2, <3>1
  <2>. HIDE DEF t
  <2>3. s = t
    BY <2>1, <2>2, SeqEqual
  <2>. QED BY <2>3 DEF t
<1>. QED BY <1>1, <1>3

(* A group that ends becomes a unit, or carries on the last one: either    *)
(* way undo goes back to the document before the group or the run.         *)
LEMMA CommitTold ==
    ASSUME NEW h \in History, NEW doc \in Doc, NEW p, NEW com, NEW q,
           Told(h, doc, p, com, q), h.pending # <<>>
    PROVE  LET k == Commit(h)
           IN  /\ k \in History /\ k.pending = <<>> /\ k.depth = h.depth /\ k.tag = h.tag
               /\ \/ p # <<>> /\ q = <<>> /\ h.tag # "Bulk" /\ Told(k, doc, p, doc, <<>>)
                  \/ Told(k, doc, Newest(Append(p, com)), doc, <<>>)
<1>1. /\ h.undo \in Seq(Unit) /\ h.redo \in Seq(Unit) /\ h.pending \in Seq(BufChange)
      /\ h.depth \in Nat /\ h.tag \in Kinds
  BY DEF History
<1>2. /\ p \in Seq(Doc) /\ com \in Doc /\ q \in Seq(Doc)
      /\ Chain("unit", h.undo, p, com) /\ Story(com, h.pending, doc)
      /\ Len(h.undo) + Len(h.redo) <= Cap /\ Len(q) = Len(h.redo)
      /\ Len(h.undo) \in Nat /\ Len(h.redo) \in Nat /\ Cap \in Nat
  BY <1>1, LenProperties, CapAssumption DEF Told, Chain
<1>3. /\ <<>> \in Seq(Unit) /\ <<>> \in Seq(Doc) /\ <<>> \in Seq(BufChange) /\ Len(<<>>) = 0
  BY EmptySeq
<1>4. Chain("backward", <<>>, <<>>, doc) /\ Story(doc, <<>>, doc)
  <2>1. \A i \in 1..Len(<<>>) : FALSE
    BY <1>3
  <2>. QED BY <1>3, <2>1, StoryEmpty DEF Chain
<1>5. ASSUME NEW x \in Seq(Unit), NEW w \in Seq(Doc), Len(x) <= Cap, Chain("unit", x, w, doc)
      PROVE  LET k == [h EXCEPT !.undo = x, !.redo = <<>>, !.pending = <<>>]
             IN  /\ k \in History /\ k.pending = <<>> /\ k.depth = h.depth /\ k.tag = h.tag
                 /\ Told(k, doc, w, doc, <<>>)
  <2> DEFINE k == [h EXCEPT !.undo = x, !.redo = <<>>, !.pending = <<>>]
  <2>1. /\ k \in History /\ k.undo = x /\ k.redo = <<>> /\ k.pending = <<>>
        /\ k.depth = h.depth /\ k.tag = h.tag
    BY <1>1, <1>3 DEF History
  <2>. HIDE DEF k
  <2>2. Len(x) + 0 <= Cap
    BY <1>2, <1>5, LenProperties
  <2>3. Told(k, doc, w, doc, <<>>)
    BY <1>3, <1>4, <1>5, <2>1, <2>2 DEF Told
  <2>. QED BY <2>1, <2>3 DEF k
<1>6. CASE h.tag \in {"InsertChar", "EraseChar"} /\ CanExtend(h)
  <2> DEFINE u == Final(h.undo)
             d == Final(p)
             b == u[1]
             c == h.pending[1]
             m == Merge(b, c)
             x == Append(Initial(h.undo), <<m>>)
  <2>1. /\ Len(h.pending) = 1 /\ h.redo = <<>> /\ h.undo # <<>> /\ Len(u) = 1 /\ Continues(b, c)
        /\ Commit(h) = [h EXCEPT !.undo = x, !.redo = <<>>, !.pending = <<>>]
        /\ h.tag # "Bulk"
    BY <1>6 DEF CanExtend, Commit, Extended
  <2>2. /\ u \in Unit /\ Initial(h.undo) \in Seq(Unit) /\ Len(Initial(h.undo)) = Len(h.undo) - 1
    BY <1>1, <2>1, FinalInitial
  <2>3. /\ p # <<>> /\ d \in Doc /\ Joined("unit", d, u, com)
        /\ Chain("unit", Initial(h.undo), Initial(p), d)
    BY <1>1, <1>2, <2>1, ChainInitial
  <2>4. Initial(p) \in Seq(Doc) /\ Append(Initial(p), d) = p
    BY <1>2, <2>3, FinalInitial, FinalAppended
  <2>. HIDE DEF u, d
  <2>5. b \in BufChange /\ u = <<b>>
    <3>1. u \in Seq(BufChange)
      BY <2>2 DEF Unit
    <3>. QED BY <2>1, <3>1, OneEntry
  <2>6. c \in BufChange /\ h.pending = <<c>>
    BY <1>1, <2>1, OneEntry
  <2>. HIDE DEF b, c
  <2>7. Joins(d, b, com) /\ Joins(com, c, doc)
    <3>1. Story(d, <<b>>, com)
      BY <2>3, <2>5 DEF Joined
    <3>2. Story(com, <<c>>, doc)
      BY <1>2, <2>6
    <3>. QED BY <1>2, <2>3, <2>5, <2>6, <3>1, <3>2, StoryOne
  <2>8. m \in BufChange /\ Joins(d, m, doc)
    BY <1>2, <2>1, <2>3, <2>5, <2>6, <2>7, MergeJoins
  <2>. HIDE DEF m
  <2>9. <<m>> \in Unit /\ Story(d, <<m>>, doc)
    <3>1. <<m>> \in Seq(BufChange) /\ <<m>> # <<>>
      BY <2>8
    <3>. QED BY <2>3, <2>8, <3>1, StoryOne DEF Unit
  <2>10. Chain("unit", x, Append(Initial(p), d), doc)
    <3>1. Joined("unit", d, <<m>>, doc)
      BY <2>9 DEF Joined
    <3>. QED BY <2>2, <2>3, <2>4, <2>9, <3>1, ChainAppend
  <2>11. x \in Seq(Unit) /\ Len(x) = Len(h.undo)
    <3>1. x \in Seq(Unit) /\ Len(x) = Len(Initial(h.undo)) + 1
      BY <2>2, <2>9, AppendProperties
    <3>. HIDE DEF x
    <3>. QED BY <1>2, <2>2, <3>1
  <2>12. q = <<>>
    BY <1>2, <1>3, <2>1, EmptySeq
  <2>. HIDE DEF x
  <2>13. Len(x) <= Cap
    <3>1. Len(h.undo) <= Cap
      <4>1. \A i, j, k \in Nat : i + j <= k => i <= k
        OBVIOUS
      <4>. QED BY <1>2, <4>1
    <3>. QED BY <2>11, <3>1
  <2>14. Chain("unit", x, p, doc)
    BY <2>4, <2>10
  <2> DEFINE k == [h EXCEPT !.undo = x, !.redo = <<>>, !.pending = <<>>]
  <2>15. /\ k \in History /\ k.pending = <<>> /\ k.depth = h.depth /\ k.tag = h.tag
         /\ Told(k, doc, p, doc, <<>>)
    BY <1>2, <1>5, <2>11, <2>13, <2>14
  <2>. HIDE DEF k
  <2>16. Commit(h) = k
    BY <2>1 DEF k
  <2>. QED BY <2>1, <2>3, <2>12, <2>15, <2>16
<1>7. CASE ~(h.tag \in {"InsertChar", "EraseChar"} /\ CanExtend(h))
  <2> DEFINE u == Append(h.undo, h.pending)
             v == Append(p, com)
             x == Newest(u)
             w == Newest(v)
  <2>1. Commit(h) = [h EXCEPT !.undo = x, !.redo = <<>>, !.pending = <<>>]
    BY <1>7 DEF Commit, NewUnit
  <2>2. h.pending \in Unit
    BY <1>1 DEF Unit
  <2>3. u \in Seq(Unit) /\ v \in Seq(Doc)
    BY <1>1, <1>2, <2>2, AppendProperties
  <2>4. Chain("unit", u, v, doc)
    <3>1. Joined("unit", com, h.pending, doc)
      BY <1>2 DEF Joined
    <3>. QED BY <1>1, <1>2, <2>2, <3>1, ChainAppend
  <2>. HIDE DEF u, v
  <2>5. Chain("unit", x, w, doc) /\ x \in Seq(Unit) /\ w \in Seq(Doc)
        /\ Len(x) = IF Len(u) > Cap THEN Cap ELSE Len(u)
    BY <2>3, <2>4, ChainNewest, NewestEntries
  <2>6. Len(x) <= Cap
    BY <1>2, <2>3, <2>5, LenProperties
  <2>. HIDE DEF x, w
  <2> DEFINE k == [h EXCEPT !.undo = x, !.redo = <<>>, !.pending = <<>>]
  <2>7. /\ k \in History /\ k.pending = <<>> /\ k.depth = h.depth /\ k.tag = h.tag
        /\ Told(k, doc, w, doc, <<>>)
    BY <1>5, <2>5, <2>6
  <2>. HIDE DEF k
  <2>8. Commit(h) = k
    BY <2>1 DEF k
  <2>9. w = Newest(Append(p, com))
    BY DEF w, v
  <2>. QED BY <2>7, <2>8, <2>9
<1>. QED BY <1>6, <1>7

-----------------------------------------------------------------------------
(* One more change of the open group.                                      *)
LEMMA PendingTold ==
    ASSUME NEW h \in History, NEW doc \in Doc, NEW p, NEW com, NEW q, Told(h, doc, p, com, q),
           NEW c \in BufChange, NEW e \in Doc, Joins(doc, c, e)
    PROVE  LET g == [h EXCEPT !.pending = Append(@, c)]
           IN  /\ g \in History /\ g.pending # <<>> /\ Told(g, e, p, com, q)
               /\ g.depth = h.depth /\ g.tag = h.tag
<1> DEFINE n == Append(h.pending, c)
           g == [h EXCEPT !.pending = n]
<1>1. h.pending \in Seq(BufChange) /\ com \in Doc /\ Story(com, h.pending, doc)
  BY DEF History, Told
<1>2. n \in Seq(BufChange) /\ Story(com, n, e) /\ n # <<>>
  BY <1>1, StoryGrows, AppendProperties
<1>. HIDE DEF n
<1>3. /\ g \in History /\ g.undo = h.undo /\ g.redo = h.redo /\ g.pending = n
      /\ g.depth = h.depth /\ g.tag = h.tag
  BY <1>2 DEF History
<1>. HIDE DEF g
<1>4. Told(g, e, p, com, q)
  BY <1>2, <1>3 DEF Told
<1>. QED BY <1>2, <1>3, <1>4 DEF g, n

(* Undo moves the last document of the past to the front of the future.    *)
LEMMA ParkTold ==
    ASSUME NEW h \in History, NEW doc \in Doc, NEW p, NEW com, NEW q, Told(h, doc, p, com, q),
           h.pending = <<>>, h.undo # <<>>
    PROVE  LET k == ParkUndone(h)
               d == Final(p)
           IN  /\ k \in History /\ k.pending = <<>> /\ k.depth = h.depth /\ k.tag = h.tag
               /\ p # <<>> /\ d \in Doc /\ Final(h.undo) \in Unit /\ Story(d, Final(h.undo), doc)
               /\ Told(k, d, Initial(p), d, Append(q, doc))
<1> DEFINE u == Final(h.undo)
           x == Initial(h.undo)
           y == Append(h.redo, u)
           d == Final(p)
           k == [h EXCEPT !.undo = x, !.redo = Newest(y)]
<1>1. /\ h.undo \in Seq(Unit) /\ h.redo \in Seq(Unit) /\ p \in Seq(Doc) /\ q \in Seq(Doc)
      /\ Chain("unit", h.undo, p, com) /\ Chain("backward", h.redo, q, com)
      /\ Len(h.undo) + Len(h.redo) <= Cap /\ com \in Doc /\ Story(com, h.pending, doc)
  BY DEF History, Told
<1>2. com = doc
  BY <1>1, StoryEmpty
<1>3. /\ p # <<>> /\ d \in Doc /\ Joined("unit", d, u, doc)
      /\ Chain("unit", Initial(h.undo), Initial(p), d)
  BY <1>1, <1>2, ChainInitial
<1>4. u \in Unit /\ x \in Seq(Unit) /\ Len(x) = Len(h.undo) - 1 /\ Len(h.undo) \in Nat \ {0}
  BY <1>1, FinalInitial
<1>5. Initial(p) \in Seq(Doc)
  BY <1>1, <1>3, FinalInitial
<1>6. ParkUndone(h) = k
  BY DEF ParkUndone
<1>. HIDE DEF u, d
<1>7. Story(d, u, doc)
  BY <1>3 DEF Joined
<1>8. y \in Seq(Unit) /\ Len(y) = Len(h.redo) + 1 /\ Append(q, doc) \in Seq(Doc)
  BY <1>1, <1>4, AppendProperties
<1>9. Chain("backward", y, Append(q, doc), d)
  <2>1. Joined("backward", doc, u, d)
    BY <1>7 DEF Joined
  <2>2. Chain("backward", h.redo, q, doc)
    BY <1>1, <1>2
  <2>. QED BY <1>1, <1>3, <1>4, <2>1, <2>2, ChainAppend
<1>. HIDE DEF x, y
<1>10. Len(x) + Len(y) <= Cap /\ Len(y) <= Cap
  <2> DEFINE m == Len(h.undo)
             n == Len(h.redo)
  <2>1. m \in Nat \ {0} /\ n \in Nat /\ Cap \in Nat /\ m + n <= Cap
        /\ Len(x) = m - 1 /\ Len(y) = n + 1
    BY <1>1, <1>4, <1>8, LenProperties, CapAssumption
  <2>. HIDE DEF m, n
  <2>. QED BY <2>1
<1>11. Newest(y) = y
  BY <1>8, <1>10, NewestEntries
<1>12. /\ k \in History /\ k.undo = x /\ k.redo = y /\ k.pending = <<>>
       /\ k.depth = h.depth /\ k.tag = h.tag
  BY <1>4, <1>8, <1>11 DEF History
<1>. HIDE DEF k
<1>13. Told(k, d, Initial(p), d, Append(q, doc))
  <2>1. Story(d, <<>>, d)
    BY <1>3, StoryEmpty
  <2>2. Chain("unit", x, Initial(p), d)
    BY <1>3 DEF x
  <2>. QED BY <1>3, <1>5, <1>8, <1>9, <1>10, <1>12, <2>1, <2>2 DEF Told
<1>. QED BY <1>3, <1>4, <1>6, <1>7, <1>12, <1>13 DEF u, d

(* Redo moves it back; the room it needs is the room it leaves.            *)
LEMMA ReturnTold ==
    ASSUME NEW h \in History, NEW doc \in Doc, NEW p, NEW com, NEW q, Told(h, doc, p, com, q),
           h.pending = <<>>, h.redo # <<>>
    PROVE  LET k == ReturnRedone(h)
               d == Final(q)
           IN  /\ k \in History /\ k.pending = <<>> /\ k.depth = h.depth /\ k.tag = h.tag
               /\ q # <<>> /\ d \in Doc /\ Final(h.redo) \in Unit /\ Story(doc, Final(h.redo), d)
               /\ Told(k, d, Append(p, doc), d, Initial(q))
<1> DEFINE u == Final(h.redo)
           x == Initial(h.redo)
           y == Append(h.undo, u)
           d == Final(q)
           k == [h EXCEPT !.redo = x, !.undo = y]
<1>1. /\ h.undo \in Seq(Unit) /\ h.redo \in Seq(Unit) /\ p \in Seq(Doc) /\ q \in Seq(Doc)
      /\ Chain("unit", h.undo, p, com) /\ Chain("backward", h.redo, q, com)
      /\ Len(h.undo) + Len(h.redo) <= Cap /\ com \in Doc /\ Story(com, h.pending, doc)
  BY DEF History, Told
<1>2. com = doc
  BY <1>1, StoryEmpty
<1>3. /\ q # <<>> /\ d \in Doc /\ Joined("backward", d, u, doc)
      /\ Chain("backward", Initial(h.redo), Initial(q), d)
  BY <1>1, <1>2, ChainInitial
<1>4. u \in Unit /\ x \in Seq(Unit) /\ Len(x) = Len(h.redo) - 1 /\ Len(h.redo) \in Nat \ {0}
  BY <1>1, FinalInitial
<1>5. Initial(q) \in Seq(Doc)
  BY <1>1, <1>3, FinalInitial
<1>6. ReturnRedone(h) = k
  BY DEF ReturnRedone
<1>. HIDE DEF u, d
<1>7. Story(doc, u, d)
  BY <1>3 DEF Joined
<1>8. y \in Seq(Unit) /\ Len(y) = Len(h.undo) + 1 /\ Append(p, doc) \in Seq(Doc)
  BY <1>1, <1>4, AppendProperties
<1>9. Chain("unit", y, Append(p, doc), d)
  <2>1. Joined("unit", doc, u, d)
    BY <1>7 DEF Joined
  <2>2. Chain("unit", h.undo, p, doc)
    BY <1>1, <1>2
  <2>. QED BY <1>1, <1>3, <1>4, <2>1, <2>2, ChainAppend
<1>. HIDE DEF x, y
<1>10. Len(y) + Len(x) <= Cap
  <2> DEFINE m == Len(h.undo)
             n == Len(h.redo)
  <2>1. n \in Nat \ {0} /\ m \in Nat /\ Cap \in Nat /\ m + n <= Cap
        /\ Len(y) = m + 1 /\ Len(x) = n - 1
    BY <1>1, <1>4, <1>8, LenProperties, CapAssumption
  <2>. HIDE DEF m, n
  <2>. QED BY <2>1
<1>11. /\ k \in History /\ k.undo = y /\ k.redo = x /\ k.pending = <<>>
       /\ k.depth = h.depth /\ k.tag = h.tag
  BY <1>4, <1>8 DEF History
<1>. HIDE DEF k
<1>12. Told(k, d, Append(p, doc), d, Initial(q))
  <2>1. Story(d, <<>>, d)
    BY <1>3, StoryEmpty
  <2>2. Chain("backward", x, Initial(q), d)
    BY <1>3 DEF x
  <2>. QED BY <1>3, <1>5, <1>8, <1>9, <1>10, <1>11, <2>1, <2>2 DEF Told
<1>. QED BY <1>3, <1>4, <1>6, <1>7, <1>11, <1>12 DEF u, d

-----------------------------------------------------------------------------
(* Unwinding the undo stack gives the documents of the past.               *)
LEMMA PastIs ==
    ASSUME NEW u \in Seq(Unit), NEW q \in Seq(Doc), NEW e \in Doc, Chain("unit", u, q, e)
    PROVE  PastOf(e, u) = q
<1> DEFINE n == Len(u)
           w == Append(q, e)
           Walk(f) == f = [i \in 1..(n + 1) |-> IF i = n + 1 THEN e ELSE UndoUnit(f[i + 1], u[i])]
           back == CHOOSE f : Walk(f)
<1>1. n \in Nat /\ Len(q) = n /\ \A i \in 1..n : Joined("unit", w[i], u[i], w[i + 1])
  BY LenProperties DEF Chain
<1>2. w \in Seq(Doc) /\ Len(w) = n + 1 /\ w[n + 1] = e /\ \A i \in 1..n : w[i] = q[i]
  BY <1>1, AppendProperties
<1>. HIDE DEF w, n
<1>3. ASSUME NEW i \in 1..n PROVE UndoUnit(w[i + 1], u[i]) = w[i]
  <2>1. i \in 1..(n + 1) /\ i + 1 \in 1..(n + 1)
    BY <1>1
  <2>2. w[i] \in Doc /\ w[i + 1] \in Doc /\ u[i] \in Seq(BufChange)
    BY <1>2, <2>1, ElementOfSeq DEF Unit, n
  <2>3. Story(w[i], u[i], w[i + 1])
    BY <1>1 DEF Joined
  <2>. QED BY <2>2, <2>3, ReplaysFit
<1>4. w = [i \in 1..(n + 1) |-> w[i]]
  BY <1>2, LenProperties
<1>5. Walk(w)
  <2>1. ASSUME NEW i \in 1..(n + 1)
        PROVE  w[i] = IF i = n + 1 THEN e ELSE UndoUnit(w[i + 1], u[i])
    <3>1. CASE i = n + 1
      BY <1>2, <3>1
    <3>2. CASE i # n + 1
      <4>1. i \in 1..n
        BY <1>1, <3>2
      <4>. QED BY <1>3, <3>2, <4>1
    <3>. QED BY <3>1, <3>2
  <2>2. [i \in 1..(n + 1) |-> w[i]]
          = [i \in 1..(n + 1) |-> IF i = n + 1 THEN e ELSE UndoUnit(w[i + 1], u[i])]
    BY <2>1
  <2>. QED BY <1>4, <2>2
<1>6. Walk(back)
  <2>. HIDE DEF Walk
  <2>. QED BY <1>5
<1>. HIDE DEF back
<1>7. back[n + 1] = e /\ \A i \in 1..n : back[i] = UndoUnit(back[i + 1], u[i])
  BY <1>1, <1>6
<1>. HIDE DEF Walk
<1>8. \A i \in 1..(n + 1) : back[i] = w[i]
  <2>1. back[n + 1] = w[n + 1]
    BY <1>2, <1>7
  <2>2. \A i \in 1..n : back[i + 1] = w[i + 1] => back[i] = w[i]
    BY <1>3, <1>7
  <2>3. n \in Nat
    BY <1>1
  <2>. QED BY <2>1, <2>2, <2>3, SameDescent
<1>9. PastOf(e, u) = [i \in 1..n |-> back[i]]
  BY DEF PastOf, back, Walk, n
<1>10. q = [i \in 1..n |-> q[i]]
  <2>1. q \in [1..n -> Doc]
    BY <1>1, LenProperties
  <2>. QED BY <2>1
<1>11. ASSUME NEW i \in 1..n PROVE back[i] = q[i]
  <2>1. i \in 1..(n + 1)
    BY <1>1
  <2>. QED BY <1>2, <1>8, <2>1
<1>12. [i \in 1..n |-> back[i]] = [i \in 1..n |-> q[i]]
  BY <1>11
<1>. QED BY <1>9, <1>10, <1>12

(* Unwinding the redo stack gives those of the future.                     *)
LEMMA FutureIs ==
    ASSUME NEW u \in Seq(Unit), NEW q \in Seq(Doc), NEW e \in Doc, Chain("backward", u, q, e)
    PROVE  FutureOf(e, u) = q
<1> DEFINE n == Len(u)
           w == Append(q, e)
           Walk(f) == f = [i \in 1..(n + 1) |-> IF i = n + 1 THEN e ELSE RedoUnit(f[i + 1], u[i])]
           back == CHOOSE f : Walk(f)
<1>1. n \in Nat /\ Len(q) = n /\ \A i \in 1..n : Joined("backward", w[i], u[i], w[i + 1])
  BY LenProperties DEF Chain
<1>2. w \in Seq(Doc) /\ Len(w) = n + 1 /\ w[n + 1] = e /\ \A i \in 1..n : w[i] = q[i]
  BY <1>1, AppendProperties
<1>. HIDE DEF w, n
<1>3. ASSUME NEW i \in 1..n PROVE RedoUnit(w[i + 1], u[i]) = w[i]
  <2>1. i \in 1..(n + 1) /\ i + 1 \in 1..(n + 1)
    BY <1>1
  <2>2. w[i] \in Doc /\ w[i + 1] \in Doc /\ u[i] \in Seq(BufChange)
    BY <1>2, <2>1, ElementOfSeq DEF Unit, n
  <2>3. Story(w[i + 1], u[i], w[i])
    BY <1>1 DEF Joined
  <2>. QED BY <2>2, <2>3, ReplaysFit
<1>4. w = [i \in 1..(n + 1) |-> w[i]]
  BY <1>2, LenProperties
<1>5. Walk(w)
  <2>1. ASSUME NEW i \in 1..(n + 1)
        PROVE  w[i] = IF i = n + 1 THEN e ELSE RedoUnit(w[i + 1], u[i])
    <3>1. CASE i = n + 1
      BY <1>2, <3>1
    <3>2. CASE i # n + 1
      <4>1. i \in 1..n
        BY <1>1, <3>2
      <4>. QED BY <1>3, <3>2, <4>1
    <3>. QED BY <3>1, <3>2
  <2>2. [i \in 1..(n + 1) |-> w[i]]
          = [i \in 1..(n + 1) |-> IF i = n + 1 THEN e ELSE RedoUnit(w[i + 1], u[i])]
    BY <2>1
  <2>. QED BY <1>4, <2>2
<1>6. Walk(back)
  <2>. HIDE DEF Walk
  <2>. QED BY <1>5
<1>. HIDE DEF back
<1>7. back[n + 1] = e /\ \A i \in 1..n : back[i] = RedoUnit(back[i + 1], u[i])
  BY <1>1, <1>6
<1>. HIDE DEF Walk
<1>8. \A i \in 1..(n + 1) : back[i] = w[i]
  <2>1. back[n + 1] = w[n + 1]
    BY <1>2, <1>7
  <2>2. \A i \in 1..n : back[i + 1] = w[i + 1] => back[i] = w[i]
    BY <1>3, <1>7
  <2>3. n \in Nat
    BY <1>1
  <2>. QED BY <2>1, <2>2, <2>3, SameDescent
<1>9. FutureOf(e, u) = [i \in 1..n |-> back[i]]
  BY DEF FutureOf, back, Walk, n
<1>10. q = [i \in 1..n |-> q[i]]
  <2>1. q \in [1..n -> Doc]
    BY <1>1, LenProperties
  <2>. QED BY <2>1
<1>11. ASSUME NEW i \in 1..n PROVE back[i] = q[i]
  <2>1. i \in 1..(n + 1)
    BY <1>1
  <2>. QED BY <1>2, <1>8, <2>1
<1>12. [i \in 1..n |-> back[i]] = [i \in 1..n |-> q[i]]
  BY <1>11
<1>. QED BY <1>9, <1>10, <1>12

-----------------------------------------------------------------------------
-----------------------------------------------------------------------------
(***************************************************************************)
(* Every change that a primitive of the buffer builds is one that the      *)
(* buffer may make.  Callers' positions are clamped; when they are         *)
(* positions of the document, so are the hints and what the caller is      *)
(* given back.                                                             *)
(***************************************************************************)
Made(doc, c, r) ==
    /\ c \in BufChange /\ Apply(doc, c) \in Doc /\ Joins(doc, c, Apply(doc, c))
    /\ r \in Pos /\ (Slack = 0 => InGrid(Apply(doc, c), r))

(* A position in the lines new, which stand from line f on.                *)
RestsIn(f, new, x) ==
    \/ x = At(0, 0)
    \/ f <= x.line /\ x.line < f + Len(new) /\ x.col <= Len(new[x.line - f + 1])

(* The document begins at a position of it.                                *)
LEMMA OriginIs == At(0, 0) \in Pos /\ \A d \in Doc : InGrid(d, At(0, 0))
<1>1. At(0, 0).line = 0 /\ At(0, 0).col = 0 /\ At(0, 0) \in Pos
  BY DEF At, Pos
<1>2. ASSUME NEW d \in Doc PROVE InGrid(d, At(0, 0))
  <2>1. 0 \in 0..LastLine(d) /\ Len(d) \in Nat \ {0}
    BY DocLines
  <2>2. Len(LineOf(d, 0)) \in Nat
    BY <2>1, DocLines
  <2>3. Len(d[0 + 1]) \in Nat
    BY <2>2 DEF LineOf
  <2>. QED BY <1>1, <2>1, <2>3 DEF InGrid
<1>. QED BY <1>1, <1>2

(* A change that replaces lines of the document by others is what a        *)
(* primitive makes.                                                        *)
LEMMA BuiltIs ==
    ASSUME NEW doc \in Doc, NEW kind \in Kinds, NEW f \in Nat, NEW old \in Doc, Fits(doc, f, old),
           NEW new \in Seq(Line), new # <<>>,
           NEW before \in Pos, NEW after \in Pos, NEW r \in Pos,
           Slack = 0 => InGrid(doc, before) /\ RestsIn(f, new, after) /\ RestsIn(f, new, r)
    PROVE  Made(doc, TextChange(kind, f, old, new, before, after), r)
<1> DEFINE c == TextChange(kind, f, old, new, before, after)
           d == Apply(doc, c)
<1>1. /\ c.first = f /\ c.old = old /\ c.new = new /\ c.before = before /\ c.after = after
      /\ c \in Change
  BY DEF TextChange, Change
<1>. HIDE DEF c
<1>2. c \in BufChange /\ d = Splice(doc, f, Len(old), new)
  BY <1>1 DEF BufChange, Apply
<1>3. f + Len(old) <= Len(doc) /\ Len(old) \in Nat /\ doc \in Seq(Line) /\ Len(doc) \in Nat
      /\ Len(new) \in Nat \ {0}
  BY DocLines, EmptySeq DEF Fits
<1>4. d \in Doc
  <2>1. d \in Seq(Line) /\ Spliced(d, doc, f, Len(old), new)
    BY <1>2, <1>3, SpliceLines
  <2>2. Len(d) # 0
    <3>1. Len(d) = Len(doc) - Len(old) + Len(new)
      BY <2>1 DEF Spliced
    <3>2. \A a, b \in Nat, k \in Nat \ {0} : f + b <= a => a - b + k # 0
      OBVIOUS
    <3>. QED BY <1>3, <3>1, <3>2
  <2>3. Len(<<>>) = 0
    BY EmptySeq
  <2>. QED BY <2>1, <2>2, <2>3 DEF Doc
<1>5. ASSUME NEW x \in Pos, RestsIn(f, new, x) PROVE InGrid(d, x)
  <2>1. CASE x = At(0, 0)
    BY <1>4, <2>1, OriginIs
  <2>2. CASE f <= x.line /\ x.line < f + Len(new) /\ x.col <= Len(new[x.line - f + 1])
    <3> DEFINE l == x.line
               k == x.col
    <3>1. l \in Nat /\ k \in Nat /\ x = At(l, k)
      BY DEF Pos, At
    <3>2. InGrid(Splice(doc, f, Len(old), new), At(l, k))
      <4>1. f <= l /\ l < f + Len(new) /\ k <= Len(new[l - f + 1])
        BY <2>2
      <4>. HIDE DEF l, k
      <4>. QED BY <1>3, <3>1, <4>1, InNewLines
    <3>. HIDE DEF l, k
    <3>. QED BY <1>2, <3>1, <3>2
  <2>. QED BY <1>5, <2>1, <2>2 DEF RestsIn
<1>. HIDE DEF d
<1>6. Slack = 0 => InGrid(doc, before) /\ InGrid(d, after) /\ InGrid(d, r)
  BY <1>5
<1>7. d = Apply(doc, c)
  BY DEF d
<1>8. Joins(doc, c, d)
  BY <1>1, <1>6, <1>7 DEF Joins
<1>9. Made(doc, c, r)
  BY <1>2, <1>4, <1>6, <1>7, <1>8 DEF Made
<1>. QED BY <1>9 DEF c

(* In the first of the new lines, and in the last.                         *)
LEMMA RestsIs ==
    ASSUME NEW f \in Nat, NEW new \in Seq(Line), new # <<>>
    PROVE  /\ \A k \in 0..Len(new[1]) : At(f, k) \in Pos /\ RestsIn(f, new, At(f, k))
           /\ \A k \in 0..Len(new[Len(new)]) :
                At(f + Len(new) - 1, k) \in Pos /\ RestsIn(f, new, At(f + Len(new) - 1, k))
<1> DEFINE n == Len(new)
<1>1. n \in Nat \ {0}
  BY EmptySeq
<1>. HIDE DEF n
<1>2. \A i \in 1..n : Len(new[i]) \in Nat
  BY ElementOfSeq, LenProperties DEF n, Line
<1>3. ASSUME NEW i \in 1..n, NEW k \in 0..Len(new[i])
      PROVE  At(f + i - 1, k) \in Pos /\ RestsIn(f, new, At(f + i - 1, k))
  <2> DEFINE l == f + i - 1
  <2>1. l \in Nat /\ f <= l /\ l < f + n /\ l - f + 1 = i
    BY <1>1
  <2>. HIDE DEF l
  <2>2. k \in Nat /\ k <= Len(new[i])
    BY <1>2
  <2>3. At(l, k) \in Pos /\ At(l, k).line = l /\ At(l, k).col = k
    BY <2>1, <2>2 DEF At, Pos
  <2>4. RestsIn(f, new, At(l, k))
    BY <2>1, <2>2, <2>3 DEF RestsIn, n
  <2>. QED BY <2>3, <2>4 DEF l
<1>4. ASSUME NEW k \in 0..Len(new[1]) PROVE At(f, k) \in Pos /\ RestsIn(f, new, At(f, k))
  <2>1. 1 \in 1..n /\ f + 1 - 1 = f
    BY <1>1
  <2>2. At(f + 1 - 1, k) \in Pos /\ RestsIn(f, new, At(f + 1 - 1, k))
    BY <1>3, <2>1
  <2>. QED BY <2>1, <2>2
<1>5. ASSUME NEW k \in 0..Len(new[n])
      PROVE  At(f + n - 1, k) \in Pos /\ RestsIn(f, new, At(f + n - 1, k))
  <2>1. n \in 1..n
    BY <1>1
  <2>. QED BY <1>3, <2>1
<1>. QED BY <1>4, <1>5 DEF n

(* Where a position is clamped to.                                         *)
LEMMA ClampedAt ==
    ASSUME NEW doc \in Doc, NEW p \in Pos
    PROVE  LET l == ClampLine(doc, p.line)
               b == LineOf(doc, l)
           IN  /\ l \in 0..LastLine(doc) /\ l \in Nat /\ p.line \in Nat /\ p.col \in Nat
               /\ l <= p.line /\ p = At(p.line, p.col)
               /\ b \in Seq(Char) /\ Len(b) \in Nat /\ CpToByte(b, p.col) \in 0..Len(b)
               /\ At(l, p.col) \in Pos /\ At(l, p.col + 1) \in Pos
               /\ p \in Grid(doc) => l = p.line /\ CpToByte(b, p.col) = p.col /\ p.col <= Len(b)
<1> DEFINE l == ClampLine(doc, p.line)
           b == LineOf(doc, l)
<1>1. p.line \in Nat /\ p.col \in Nat /\ p = At(p.line, p.col)
  BY DEF Pos, At
<1>2. LastLine(doc) \in Nat /\ LastLine(doc) = Len(doc) - 1
  BY DocLines DEF LastLine
<1>3. l \in 0..LastLine(doc) /\ l \in Nat /\ l <= p.line
  BY <1>1, <1>2 DEF ClampLine, Lesser
<1>4. p \in Grid(doc) => p.line \in 0..LastLine(doc) /\ p.col <= Len(LineOf(doc, p.line))
  <2>1. SUFFICES ASSUME p \in Grid(doc)
        PROVE p.line \in 0..LastLine(doc) /\ p.col <= Len(LineOf(doc, p.line))
    OBVIOUS
  <2>2. p.line \in 0..LastLine(doc) /\ p.col \in 0..Len(LineOf(doc, p.line))
    BY <2>1, GridIs
  <2>3. Len(LineOf(doc, p.line)) \in Nat
    BY <2>2, DocLines
  <2>. QED BY <2>2, <2>3
<1>5. p \in Grid(doc) => l = p.line
  BY <1>1, <1>2, <1>4 DEF ClampLine, Lesser
<1>. HIDE DEF l
<1>6. b \in Seq(Char) /\ Len(b) \in Nat
  BY <1>3, DocLines
<1>7. p \in Grid(doc) => p.col <= Len(b)
  BY <1>4, <1>5
<1>. HIDE DEF b
<1>8. /\ CpToByte(b, p.col) \in 0..Len(b)
      /\ p \in Grid(doc) => CpToByte(b, p.col) = p.col
  BY <1>1, <1>6, <1>7 DEF CpToByte, Lesser
<1>9. At(l, p.col) \in Pos /\ At(l, p.col + 1) \in Pos
  BY <1>1, <1>3 DEF At, Pos
<1>. QED BY <1>1, <1>3, <1>5, <1>6, <1>7, <1>8, <1>9 DEF l, b

-----------------------------------------------------------------------------
(* A change of one line.                                                   *)
LEMMA OneLineMade ==
    ASSUME NEW doc \in Doc, NEW kind \in Kinds, NEW l \in 0..LastLine(doc),
           NEW new \in Seq(Line), new # <<>>,
           NEW before \in Pos, NEW after \in Pos, NEW r \in Pos,
           Slack = 0 => before \in Grid(doc) /\ RestsIn(l, new, after) /\ RestsIn(l, new, r)
    PROVE  Made(doc, TextChange(kind, l, <<LineOf(doc, l)>>, new, before, after), r)
<1>1. Slack = 0 => InGrid(doc, before) /\ RestsIn(l, new, after) /\ RestsIn(l, new, r)
  BY DEF Grid
<1> DEFINE old == <<LineOf(doc, l)>>
<1>2. old \in Doc /\ Fits(doc, l, old) /\ l \in Nat
  BY OneLine
<1>. HIDE DEF old
<1>3. Made(doc, TextChange(kind, l, old, new, before, after), r)
  BY <1>1, <1>2, BuiltIs
<1>. QED BY <1>3 DEF old

(* Three pieces of text in a row, and a line with s put into it.            *)
LEMMA ThreeParts ==
    ASSUME NEW up \in Seq(Char), NEW s \in Seq(Char), NEW tail \in Seq(Char)
    PROVE  up \o s \o tail \in Seq(Char) /\ Len(up \o s \o tail) = Len(up) + Len(s) + Len(tail)
<1> DEFINE head == up \o s
<1>1. head \in Seq(Char) /\ Len(head) = Len(up) + Len(s)
  BY ConcatRegions
<1>. HIDE DEF head
<1>2. head \o tail \in Seq(Char) /\ Len(head \o tail) = Len(head) + Len(tail)
  BY <1>1, ConcatRegions
<1>. QED BY <1>1, <1>2 DEF head

(* A text put into a line makes it that much longer.                       *)
LEMMA PutInto ==
    ASSUME NEW text \in Seq(Char), NEW at \in 0..Len(text), NEW s \in Seq(Char)
    PROVE  /\ Upto(text, at) \o s \o From(text, at) \in Seq(Char)
           /\ Len(Upto(text, at) \o s \o From(text, at)) = Len(text) + Len(s)
<1> DEFINE up   == Upto(text, at)
           tail == From(text, at)
<1>1. /\ up \in Seq(Char) /\ Len(up) = at /\ tail \in Seq(Char) /\ Len(tail) = Len(text) - at
      /\ at \in Nat /\ Len(text) \in Nat /\ Len(s) \in Nat
  BY TextParts, LenProperties
<1>. HIDE DEF up, tail
<1>2. up \o s \o tail \in Seq(Char) /\ Len(up \o s \o tail) = Len(up) + Len(s) + Len(tail)
  BY <1>1, ThreeParts
<1>3. Len(up) + Len(s) + Len(tail) = Len(text) + Len(s)
  <2>1. \A a, b, c \in Nat : a + b + (c - a) = c + b
    OBVIOUS
  <2>. QED BY <1>1, <2>1
<1>. QED BY <1>2, <1>3 DEF up, tail

(* A key typed.                                                            *)
LEMMA InsertCharMade ==
    ASSUME NEW doc \in Doc, NEW p \in Pos, Slack = 0 => p \in Grid(doc), NEW cp \in Char
    PROVE  Made(doc, InsertCharChange(doc, p, cp), InsertCharChange(doc, p, cp).after)
<1> DEFINE l      == ClampLine(doc, p.line)
           b      == LineOf(doc, l)
           at     == CpToByte(b, p.col)
           text   == Upto(b, at) \o <<cp>> \o From(b, at)
           new    == <<text>>
           before == At(l, p.col)
           after  == At(l, p.col + 1)
           c      == InsertCharChange(doc, p, cp)
<1>1. /\ l \in 0..LastLine(doc) /\ l \in Nat /\ p.col \in Nat /\ p = At(p.line, p.col)
      /\ b \in Seq(Char) /\ Len(b) \in Nat /\ at \in 0..Len(b) /\ before \in Pos /\ after \in Pos
      /\ p \in Grid(doc) => l = p.line /\ at = p.col /\ p.col <= Len(b)
  BY ClampedAt
<1>2. c = TextChange("InsertChar", l, <<b>>, new, before, after) /\ c.after = after
  BY DEF InsertCharChange, TextChange
<1>. HIDE DEF c
<1>3. text \in Seq(Char) /\ Len(text) = Len(b) + 1
  <2>1. <<cp>> \in Seq(Char) /\ Len(<<cp>>) = 1
    OBVIOUS
  <2>. HIDE DEF l, b, at
  <2>. QED BY <1>1, <2>1, PutInto
<1>. HIDE DEF text
<1>4. new \in Seq(Line) /\ new # <<>> /\ Len(new) = 1 /\ new[1] = text
  BY <1>3 DEF Line
<1>. HIDE DEF new
<1>5. Slack = 0 => before \in Grid(doc) /\ RestsIn(l, new, after)
  <2>1. SUFFICES ASSUME p \in Grid(doc) PROVE before \in Grid(doc) /\ RestsIn(l, new, after)
    OBVIOUS
  <2>2. l = p.line /\ p.col <= Len(b)
    BY <1>1, <2>1
  <2>3. before \in Grid(doc)
    BY <1>1, <2>1, <2>2, Zenon
  <2>4. p.col + 1 \in 0..Len(new[1])
    BY <1>1, <1>3, <1>4, <2>2
  <2>. QED BY <1>1, <1>4, <2>3, <2>4, RestsIs
<1>. HIDE DEF before, after, l
<1>6. Made(doc, TextChange("InsertChar", l, <<b>>, new, before, after), after)
  <2>1. "InsertChar" \in Kinds
    BY DEF Kinds
  <2>2. Made(doc, TextChange("InsertChar", l, <<LineOf(doc, l)>>, new, before, after), after)
    BY <1>1, <1>4, <1>5, <2>1, OneLineMade
  <2>. QED BY <2>2
<1>. QED BY <1>2, <1>6 DEF c

(* A split.                                                                *)
LEMMA NewlineMade ==
    ASSUME NEW doc \in Doc, NEW p \in Pos, Slack = 0 => p \in Grid(doc)
    PROVE  Made(doc, InsertNewlineChange(doc, p), InsertNewlineChange(doc, p).after)
<1> DEFINE l      == ClampLine(doc, p.line)
           b      == LineOf(doc, l)
           at     == CpToByte(b, p.col)
           new    == <<Upto(b, at), From(b, at)>>
           before == At(l, p.col)
           after  == At(l + 1, 0)
           c      == InsertNewlineChange(doc, p)
<1>1. /\ l \in 0..LastLine(doc) /\ l \in Nat /\ p.col \in Nat /\ p = At(p.line, p.col)
      /\ b \in Seq(Char) /\ Len(b) \in Nat /\ at \in 0..Len(b) /\ before \in Pos
      /\ p \in Grid(doc) => l = p.line /\ at = p.col /\ p.col <= Len(b)
  BY ClampedAt
<1>2. c = TextChange("Bulk", l, <<b>>, new, before, after) /\ c.after = after
  BY DEF InsertNewlineChange, TextChange
<1>. HIDE DEF c
<1>3. Upto(b, at) \in Seq(Char) /\ From(b, at) \in Seq(Char) /\ Len(From(b, at)) \in Nat
  BY <1>1, TextParts, LenProperties
<1>4. new \in Seq(Line) /\ new # <<>> /\ Len(new) = 2 /\ new[2] = From(b, at)
  BY <1>3 DEF Line
<1>. HIDE DEF new
<1>5. after \in Pos /\ RestsIn(l, new, after)
  <2>1. 0 \in 0..Len(new[Len(new)])
    BY <1>3, <1>4
  <2>2. l + Len(new) - 1 = l + 1
    BY <1>1, <1>4
  <2>3. At(l + Len(new) - 1, 0) \in Pos /\ RestsIn(l, new, At(l + Len(new) - 1, 0))
    BY <1>1, <1>4, <2>1, RestsIs
  <2>. QED BY <2>2, <2>3
<1>6. Slack = 0 => before \in Grid(doc)
  <2>1. SUFFICES ASSUME p \in Grid(doc) PROVE before \in Grid(doc)
    OBVIOUS
  <2>2. l = p.line
    BY <1>1, <2>1
  <2>. QED BY <1>1, <2>1, <2>2, Zenon
<1>. HIDE DEF before, after, l
<1>7. Made(doc, TextChange("Bulk", l, <<b>>, new, before, after), after)
  <2>1. "Bulk" \in Kinds
    BY DEF Kinds
  <2>2. Made(doc, TextChange("Bulk", l, <<LineOf(doc, l)>>, new, before, after), after)
    BY <1>1, <1>4, <1>5, <1>6, <2>1, OneLineMade
  <2>. QED BY <2>2
<1>. QED BY <1>2, <1>7 DEF c

(* x: the place of the character that went is a position still.            *)
LEMMA EraseCharMade ==
    ASSUME NEW doc \in Doc, NEW p \in Pos, Slack = 0 => p \in Grid(doc),
           p.col < Len(LineOf(doc, ClampLine(doc, p.line)))
    PROVE  Made(doc, EraseCharChange(doc, p), At(ClampLine(doc, p.line), p.col))
<1> DEFINE l      == ClampLine(doc, p.line)
           b      == LineOf(doc, l)
           at     == CpToByte(b, p.col)
           text   == Upto(b, at) \o From(b, at + 1)
           new    == <<text>>
           before == At(l, p.col)
           c      == EraseCharChange(doc, p)
<1>1. /\ l \in 0..LastLine(doc) /\ l \in Nat /\ p.col \in Nat /\ p = At(p.line, p.col)
      /\ b \in Seq(Char) /\ Len(b) \in Nat /\ at \in 0..Len(b) /\ before \in Pos
      /\ p \in Grid(doc) => l = p.line /\ at = p.col /\ p.col <= Len(b)
      /\ p.col < Len(b)
  BY ClampedAt
<1>2. c = TextChange("EraseChar", l, <<b>>, new, before, At(0, 0))
  BY DEF EraseCharChange, TextChange
<1>3. at = p.col
  BY <1>1 DEF CpToByte, Lesser
<1>. HIDE DEF c
<1>. HIDE DEF l, b, at
<1>4. text \in Seq(Char) /\ Len(text) = Len(b) - 1
  <2> DEFINE up   == Upto(b, at)
             tail == From(b, at + 1)
  <2>1. up \in Seq(Char) /\ Len(up) = at
    BY <1>1, TextParts
  <2>2. at + 1 \in 0..Len(b)
    BY <1>1, <1>3
  <2>3. tail \in Seq(Char) /\ Len(tail) = Len(b) - (at + 1)
    BY <1>1, <2>2, TextParts
  <2>. HIDE DEF up, tail
  <2>4. up \o tail \in Seq(Char) /\ Len(up \o tail) = at + (Len(b) - (at + 1))
    BY <2>1, <2>3, ConcatRegions
  <2>5. at + (Len(b) - (at + 1)) = Len(b) - 1
    BY <1>1, <1>3
  <2>. QED BY <2>4, <2>5 DEF up, tail
<1>. HIDE DEF text
<1>5. new \in Seq(Line) /\ new # <<>> /\ Len(new) = 1 /\ new[1] = text
  BY <1>4 DEF Line
<1>. HIDE DEF new
<1>6. RestsIn(l, new, before)
  <2>1. p.col \in 0..Len(new[1])
    BY <1>1, <1>4, <1>5
  <2>. QED BY <1>1, <1>5, <2>1, RestsIs
<1>7. Slack = 0 => before \in Grid(doc)
  <2>1. SUFFICES ASSUME p \in Grid(doc) PROVE before \in Grid(doc)
    OBVIOUS
  <2>2. l = p.line
    BY <1>1, <2>1
  <2>. QED BY <1>1, <2>1, <2>2, Zenon
<1>. HIDE DEF before
<1>8. At(0, 0) \in Pos /\ RestsIn(l, new, At(0, 0))
  BY OriginIs DEF RestsIn
<1>9. Made(doc, TextChange("EraseChar", l, <<b>>, new, before, At(0, 0)), before)
  <2>1. "EraseChar" \in Kinds
    BY DEF Kinds
  <2>2. Made(doc, TextChange("EraseChar", l, <<LineOf(doc, l)>>, new, before, At(0, 0)), before)
    BY <1>1, <1>5, <1>6, <1>7, <1>8, <2>1, OneLineMade
  <2>. QED BY <2>2 DEF b
<1>10. Made(doc, c, before)
  BY <1>2, <1>9
<1>. QED BY <1>10 DEF c, before, l

-----------------------------------------------------------------------------
(* Text of any number of lines.                                            *)
LEMMA InsertTextMade ==
    ASSUME NEW doc \in Doc, NEW p \in Pos, Slack = 0 => p \in Grid(doc), NEW segs \in Doc
    PROVE  Made(doc, InsertTextChange(doc, p, segs), InsertTextChange(doc, p, segs).after)
<1> DEFINE l      == ClampLine(doc, p.line)
           b      == LineOf(doc, l)
           at     == CpToByte(b, p.col)
           n      == Len(segs)
           up(i)  == IF i = 1 THEN Upto(b, at) ELSE <<>>
           end(i) == IF i = n /\ n > 1 THEN From(b, at) ELSE <<>>
           new    == [i \in 1..n |-> up(i) \o segs[i] \o end(i)]
           before == At(l, at)
           after  == IF n = 1 THEN At(l, at + Len(segs[1])) ELSE At(l + n - 1, Len(segs[n]))
           c      == InsertTextChange(doc, p, segs)
<1>1. /\ l \in 0..LastLine(doc) /\ l \in Nat /\ p.col \in Nat /\ p = At(p.line, p.col)
      /\ b \in Seq(Char) /\ Len(b) \in Nat /\ at \in 0..Len(b) /\ at \in Nat
  BY ClampedAt
<1>2. c = TextChange("Bulk", l, <<b>>, new, before, after) /\ c.after = after
  BY DEF InsertTextChange, TextChange
<1>. HIDE DEF c
<1>3. n \in Nat \ {0} /\ \A i \in 1..n : segs[i] \in Seq(Char) /\ Len(segs[i]) \in Nat
  BY EmptySeq, ElementOfSeq, LenProperties DEF Doc, Line
<1>4. /\ Upto(b, at) \in Seq(Char) /\ Len(Upto(b, at)) = at
      /\ From(b, at) \in Seq(Char) /\ Len(From(b, at)) \in Nat
      /\ <<>> \in Seq(Char) /\ Len(<<>>) = 0
  BY <1>1, TextParts, EmptySeq, LenProperties
<1>. HIDE DEF l, b, at, n
<1>5. \A i \in 1..n : up(i) \in Seq(Char) /\ end(i) \in Seq(Char)
  BY <1>4
<1>6. up(1) = Upto(b, at) /\ (n # 1 => up(n) = <<>>) /\ (n = 1 => end(1) = <<>>)
  OBVIOUS
<1>7. \A i \in 1..n : Len(up(i)) \in Nat /\ Len(end(i)) \in Nat
  BY <1>5, LenProperties
<1>. HIDE DEF up, end
<1>8. ASSUME NEW i \in 1..n
      PROVE  /\ up(i) \o segs[i] \o end(i) \in Seq(Char)
             /\ Len(up(i) \o segs[i] \o end(i)) = Len(up(i)) + Len(segs[i]) + Len(end(i))
  BY <1>3, <1>5, ThreeParts
<1>9. \A i \in 1..n : new[i] \in Line /\ Len(new[i]) = Len(up(i)) + Len(segs[i]) + Len(end(i))
  BY <1>8 DEF Line
<1>10. new \in Seq(Line) /\ Len(new) = n /\ new # <<>>
  <2>1. new \in [1..n -> Line]
    BY <1>8 DEF Line
  <2>2. new \in Seq(Line) /\ Len(new) = n
    BY <1>3, <2>1, IsASeq, LenProperties
  <2>3. Len(new) # 0
    BY <1>3, <2>2
  <2>. HIDE DEF new
  <2>. QED BY <1>4, <2>2, <2>3
<1>. HIDE DEF new
<1>11. after \in Pos /\ RestsIn(l, new, after)
  <2>1. CASE n = 1
    <3>1. Len(new[1]) = at + Len(segs[1])
      <4>1. 1 \in 1..n /\ Len(up(1)) = at /\ Len(end(1)) = 0
        BY <1>4, <1>6, <2>1
      <4>2. Len(new[1]) = at + Len(segs[1]) + 0 /\ Len(segs[1]) \in Nat
        BY <1>3, <1>9, <4>1
      <4>. QED BY <1>1, <4>2
    <3>2. at + Len(segs[1]) \in 0..Len(new[1])
      BY <1>1, <1>3, <2>1, <3>1
    <3>3. after = At(l, at + Len(segs[1]))
      BY <2>1
    <3>. HIDE DEF after
    <3>. QED BY <1>1, <1>10, <3>2, <3>3, RestsIs
  <2>2. CASE n # 1
    <3>1. Len(segs[n]) \in 0..Len(new[Len(new)])
      <4>1. n \in 1..n /\ Len(up(n)) = 0
        BY <1>3, <1>4, <1>6, <2>2
      <4>2. Len(new[n]) = 0 + Len(segs[n]) + Len(end(n)) /\ Len(segs[n]) \in Nat /\ Len(end(n)) \in Nat
        BY <1>3, <1>7, <1>9, <4>1
      <4>. QED BY <1>10, <4>2
    <3>2. after = At(l + Len(new) - 1, Len(segs[n]))
      BY <1>10, <2>2
    <3>. HIDE DEF after
    <3>. QED BY <1>1, <1>10, <3>1, <3>2, RestsIs
  <2>. QED BY <2>1, <2>2
<1>12. before \in Pos /\ before \in Grid(doc)
  <2>1. before \in Grid(doc)
    BY <1>1, GridIs DEF b
  <2>. QED BY <2>1 DEF Grid
<1>. HIDE DEF before, after
<1>13. Made(doc, TextChange("Bulk", l, <<b>>, new, before, after), after)
  <2>1. "Bulk" \in Kinds
    BY DEF Kinds
  <2>2. Made(doc, TextChange("Bulk", l, <<LineOf(doc, l)>>, new, before, after), after)
    BY <1>1, <1>10, <1>11, <1>12, <2>1, OneLineMade
  <2>. QED BY <2>2 DEF b
<1>. QED BY <1>2, <1>13 DEF c

(* A range, from the earlier of two positions to the later.                *)
LEMMA EraseRangeMade ==
    ASSUME NEW doc \in Doc, NEW s \in Pos, NEW e \in Pos, ~Before(e, s),
           Slack = 0 => s \in Grid(doc) /\ e \in Grid(doc)
    PROVE  Made(doc, EraseRangeChange(doc, s, e), EraseRangeChange(doc, s, e).after)
<1> DEFINE sl   == ClampLine(doc, s.line)
           el   == ClampLine(doc, e.line)
           sAt  == CpToByte(LineOf(doc, sl), s.col)
           eAt  == CpToByte(LineOf(doc, el), e.col)
           tail == IF el # sl \/ eAt > sAt THEN From(LineOf(doc, el), eAt) ELSE <<>>
           old  == SubSeq(doc, sl + 1, el + 1)
           new  == <<Upto(LineOf(doc, sl), sAt) \o tail>>
           here == At(sl, s.col)
           c    == EraseRangeChange(doc, s, e)
<1>1. /\ sl \in 0..LastLine(doc) /\ sl \in Nat /\ s.line \in Nat /\ s.col \in Nat
      /\ s = At(s.line, s.col) /\ here \in Pos
      /\ LineOf(doc, sl) \in Seq(Char) /\ Len(LineOf(doc, sl)) \in Nat
      /\ sAt \in 0..Len(LineOf(doc, sl))
      /\ s \in Grid(doc) => sl = s.line /\ sAt = s.col
  BY ClampedAt
<1>2. /\ el \in 0..LastLine(doc) /\ el \in Nat /\ e.line \in Nat
      /\ LineOf(doc, el) \in Seq(Char) /\ eAt \in 0..Len(LineOf(doc, el))
  BY ClampedAt
<1>3. sl <= el
  <2>1. s.line <= e.line
    BY <1>1, <1>2 DEF Before
  <2>2. LastLine(doc) \in Nat /\ LastLine(doc) = Len(doc) - 1
    BY DocLines DEF LastLine
  <2>. QED BY <1>1, <1>2, <2>1, <2>2 DEF ClampLine, Lesser
<1>4. c = TextChange("Bulk", sl, old, new, here, here) /\ c.after = here
  BY DEF EraseRangeChange, TextChange
<1>. HIDE DEF c, sl, el
<1>5. old \in Doc /\ Fits(doc, sl, old)
  <2>1. LastLine(doc) + 1 = Len(doc) /\ Len(doc) \in Nat /\ LastLine(doc) \in Nat
    BY DocLines
  <2>2. el + 1 \in (sl + 1)..Len(doc)
    BY <1>1, <1>2, <1>3, <2>1
  <2>. QED BY <1>1, <2>2, SpanOfDoc
<1>. HIDE DEF sAt, eAt, old
<1>6. tail \in Seq(Char)
  <2>1. From(LineOf(doc, el), eAt) \in Seq(Char) /\ <<>> \in Seq(Char)
    BY <1>2, TextParts, EmptySeq
  <2>. QED BY <2>1
<1> DEFINE up == Upto(LineOf(doc, sl), sAt)
<1>7. up \in Seq(Char) /\ Len(up) = sAt /\ Len(tail) \in Nat /\ sAt \in Nat
  BY <1>1, <1>6, TextParts, LenProperties
<1>. HIDE DEF tail, up
<1>8. up \o tail \in Seq(Char) /\ Len(up \o tail) = sAt + Len(tail)
  BY <1>6, <1>7, ConcatRegions
<1>9. new \in Seq(Line) /\ new # <<>> /\ Len(new) = 1 /\ Len(new[1]) = sAt + Len(tail)
  BY <1>8 DEF Line, up
<1>. HIDE DEF new
<1>10. Slack = 0 => InGrid(doc, here) /\ RestsIn(sl, new, here)
  <2>1. SUFFICES ASSUME s \in Grid(doc) PROVE InGrid(doc, here) /\ RestsIn(sl, new, here)
    OBVIOUS
  <2>2. here = s
    BY <1>1, <2>1, Zenon
  <2>3. s.col \in 0..Len(new[1])
    BY <1>1, <1>7, <1>9, <2>1
  <2>4. RestsIn(sl, new, here)
    BY <1>1, <1>9, <2>3, RestsIs
  <2>5. InGrid(doc, here)
    BY <2>1, <2>2 DEF Grid
  <2>. QED BY <2>4, <2>5
<1>. HIDE DEF here
<1>11. Made(doc, TextChange("Bulk", sl, old, new, here, here), here)
  <2>1. "Bulk" \in Kinds
    BY DEF Kinds
  <2>. QED BY <1>1, <1>5, <1>9, <1>10, <2>1, BuiltIs
<1>. QED BY <1>4, <1>11 DEF c

(* Where a smart join cuts the two lines.                                  *)
LEMMA TrimsAre ==
    ASSUME NEW text \in Seq(Char)
    PROVE  TrimmedLen(text) \in 0..Len(text) /\ Indent(text) \in 0..Len(text)
<1> DEFINE s == {i \in 1..Len(text) : text[i] # Blank}
<1>1. Len(text) \in Nat /\ s \subseteq 0..Len(text) /\ s \subseteq 1..Len(text) /\ s \subseteq Nat
  BY LenProperties
<1>2. TrimmedLen(text) = IF s = {} THEN 0 ELSE Greatest(s)
  BY DEF TrimmedLen, Greatest
<1>3. Indent(text) = IF s = {} THEN Len(text) ELSE Least(s) - 1
  BY DEF Indent, Least
<1>. HIDE DEF s
<1>4. s # {} => Greatest(s) \in s /\ Least(s) \in s
  BY <1>1, GreatestIs, LeastIs
<1>5. TrimmedLen(text) \in 0..Len(text)
  <2>1. CASE s = {}
    BY <1>1, <1>2, <2>1
  <2>2. CASE s # {}
    <3>1. Greatest(s) \in 0..Len(text)
      BY <1>1, <1>4, <2>2
    <3>. QED BY <1>2, <2>2, <3>1
  <2>. QED BY <2>1, <2>2
<1>6. Indent(text) \in 0..Len(text)
  <2>1. CASE s = {}
    BY <1>1, <1>3, <2>1
  <2>2. CASE s # {}
    <3>1. Least(s) \in 1..Len(text)
      BY <1>1, <1>4, <2>2
    <3>. QED BY <1>1, <1>3, <2>2, <3>1
  <2>. QED BY <2>1, <2>2
<1>. QED BY <1>5, <1>6

(* Two lines of a document.                                                *)
LEMMA TwoLines ==
    ASSUME NEW doc \in Doc, NEW l \in Nat, l + 1 < Len(doc)
    PROVE  LET old == <<LineOf(doc, l), LineOf(doc, l + 1)>>
           IN  old \in Doc /\ Len(old) = 2 /\ Fits(doc, l, old)
<1> DEFINE a == LineOf(doc, l)
           b == LineOf(doc, l + 1)
           old == <<a, b>>
<1>1. /\ a \in Seq(Char) /\ b \in Seq(Char) /\ a = doc[l + 1] /\ b = doc[l + 2]
      /\ doc \in Seq(Line) /\ Len(doc) \in Nat
  <2>1. LastLine(doc) + 1 = Len(doc) /\ Len(doc) \in Nat /\ LastLine(doc) \in Nat
    BY DocLines
  <2>2. l \in 0..LastLine(doc) /\ l + 1 \in 0..LastLine(doc) /\ (l + 1) + 1 = l + 2
    BY <2>1
  <2>. QED BY <2>1, <2>2, DocLines DEF LineOf
<1>. HIDE DEF a, b
<1>2. /\ old \in Seq(Line) /\ Len(old) = 2 /\ old[1] = a /\ old[2] = b /\ old # <<>>
  BY <1>1 DEF Line
<1>. HIDE DEF old
<1>3. Fits(doc, l, old)
  <2>1. l + Len(old) <= Len(doc)
    BY <1>1, <1>2
  <2>2. ASSUME NEW i \in 1..Len(old) PROVE doc[l + i] = old[i]
    <3>1. i = 1 \/ i = 2
      BY <1>2
    <3>. QED BY <1>1, <1>2, <3>1
  <2>. QED BY <1>1, <1>2, <2>1, <2>2, FitsLines
<1>4. old \in Doc /\ Len(old) = 2 /\ Fits(doc, l, old)
  BY <1>2, <1>3 DEF Doc
<1>. QED BY <1>4 DEF old, a, b

(* J: the cursor goes to the seam.                                         *)
LEMMA JoinMade ==
    ASSUME NEW doc \in Doc, NEW l \in Nat, l + 1 < Len(doc), NEW smart \in BOOLEAN
    PROVE  Made(doc, JoinChange(doc, l, smart), At(l, JoinKeep(LineOf(doc, l), smart)))
<1> DEFINE a     == LineOf(doc, l)
           b     == LineOf(doc, l + 1)
           keep  == JoinKeep(a, smart)
           skip  == IF smart THEN Indent(b) ELSE 0
           left  == Upto(a, keep)
           right == From(b, skip)
           seam  == IF smart /\ left # <<>> /\ right # <<>> THEN <<Blank>> ELSE <<>>
           text  == left \o seam \o right
           new   == <<text>>
           old   == <<a, b>>
           here  == At(l, Len(a))
           c     == JoinChange(doc, l, smart)
<1>1. /\ a \in Seq(Char) /\ b \in Seq(Char) /\ Len(a) \in Nat /\ Len(b) \in Nat
      /\ l \in 0..LastLine(doc)
  <2>1. LastLine(doc) + 1 = Len(doc) /\ Len(doc) \in Nat /\ LastLine(doc) \in Nat
    BY DocLines
  <2>2. l \in 0..LastLine(doc) /\ l + 1 \in 0..LastLine(doc)
    BY <2>1
  <2>. QED BY <2>2, DocLines
<1>2. c = TextChange("Bulk", l, old, new, here, At(0, 0))
  BY DEF JoinChange
<1>. HIDE DEF c
<1>3. old \in Doc /\ Fits(doc, l, old)
  BY TwoLines
<1>4. here \in Grid(doc) /\ here \in Pos
  <2>1. Len(a) \in 0..Len(a)
    BY <1>1
  <2>2. here \in Grid(doc)
    BY <1>1, <2>1, GridIs
  <2>. QED BY <2>2 DEF Grid
<1>. HIDE DEF a, b
<1>5. keep \in 0..Len(a) /\ keep \in Nat
  BY <1>1, TrimsAre DEF JoinKeep
<1>6. skip \in 0..Len(b)
  BY <1>1, TrimsAre
<1>. HIDE DEF keep, skip
<1>7. left \in Seq(Char) /\ Len(left) = keep /\ right \in Seq(Char) /\ Len(right) \in Nat
  BY <1>1, <1>5, <1>6, TextParts, LenProperties
<1>. HIDE DEF left, right
<1>8. seam \in Seq(Char) /\ Len(seam) \in Nat
  <2>1. <<Blank>> \in Seq(Char) /\ <<>> \in Seq(Char)
    BY BufferAssumption, EmptySeq
  <2>2. seam \in Seq(Char)
    BY <2>1
  <2>. QED BY <2>2, LenProperties
<1>. HIDE DEF seam
<1>9. text \in Seq(Char) /\ Len(text) = keep + Len(seam) + Len(right)
  BY <1>7, <1>8, ThreeParts
<1>. HIDE DEF text
<1>10. new \in Seq(Line) /\ new # <<>> /\ Len(new) = 1 /\ new[1] = text
  BY <1>9 DEF Line
<1>. HIDE DEF new
<1>11. At(l, keep) \in Pos /\ RestsIn(l, new, At(l, keep))
  <2>1. keep \in 0..Len(new[1])
    BY <1>5, <1>7, <1>8, <1>9, <1>10
  <2>. QED BY <1>10, <2>1, RestsIs
<1>12. At(0, 0) \in Pos /\ RestsIn(l, new, At(0, 0))
  BY OriginIs DEF RestsIn
<1>13. InGrid(doc, here) /\ "Bulk" \in Kinds
  BY <1>4 DEF Grid, Kinds
<1>. HIDE DEF here, old
<1>14. Made(doc, TextChange("Bulk", l, old, new, here, At(0, 0)), At(l, keep))
  BY <1>3, <1>4, <1>10, <1>11, <1>12, <1>13, BuiltIs
<1>15. Made(doc, c, At(l, keep))
  BY <1>2, <1>14
<1>. QED BY <1>15 DEF c, keep, a

-----------------------------------------------------------------------------
(***************************************************************************)
(* The buffer's state: its document, its history, and the documents that   *)
(* the history stands for.                                                 *)
(***************************************************************************)
BufferIs ==
    /\ Texts \subseteq Doc
    /\ Slack \in Nat /\ MaxDepth \in Nat
    /\ FreeSetLines = FALSE

BufPast   == PastOf(Committed, hist.undo)
BufFuture == FutureOf(Committed, hist.redo)
BufBase   == IF hist.pending = <<>> THEN <<>> ELSE <<Committed>>

BufTypes ==
    /\ lines \in Doc /\ hist \in History
    /\ hist.depth <= MaxDepth
    /\ hist.depth = 0 => hist.pending = <<>> /\ hist.tag = "Bulk"
    /\ dirty \in BOOLEAN /\ revision \in Nat /\ snap.rev \in -1..revision
    /\ ret \in Pos /\ (Slack = 0 => InGrid(lines, ret))

BufInv == BufferIs /\ BufTypes /\ Told(hist, lines, BufPast, Committed, BufFuture)

(* One step of the abstract history, in the buffer's own terms.            *)
AsReplace ==
    /\ BufPast = <<>> /\ BufFuture = <<>> /\ BufBase = <<>> /\ lines' \in Doc
    /\ BufPast' = <<>> /\ BufFuture' = <<>> /\ BufBase' = <<>>
AsEdit ==
    /\ BufBase = <<>> /\ lines' \in Doc
    /\ BufPast' = Newest(Append(BufPast, lines)) /\ BufFuture' = <<>> /\ BufBase' = <<>>
AsEditInGroup ==
    /\ lines' \in Doc /\ BufBase' = (IF BufBase = <<>> THEN <<lines>> ELSE BufBase)
    /\ BufPast' = BufPast /\ BufFuture' = BufFuture
AsCommit ==
    /\ BufBase # <<>> /\ lines' = lines /\ BufFuture' = <<>> /\ BufBase' = <<>>
    /\ \/ BufPast' = Newest(Append(BufPast, Committed))
       \/ BufPast # <<>> /\ BufFuture = <<>> /\ BufPast' = BufPast
AsUndo ==
    /\ BufBase = <<>> /\ BufPast # <<>> /\ lines' = Final(BufPast)
    /\ BufPast' = Initial(BufPast) /\ BufFuture' = Append(BufFuture, lines) /\ BufBase' = <<>>
AsRedo ==
    /\ BufBase = <<>> /\ BufFuture # <<>> /\ lines' = Final(BufFuture)
    /\ BufFuture' = Initial(BufFuture) /\ BufPast' = Append(BufPast, lines) /\ BufBase' = <<>>
AsStutter ==
    /\ lines' = lines /\ BufPast' = BufPast /\ BufFuture' = BufFuture /\ BufBase' = BufBase

HistoryStep ==
    AsReplace \/ AsEdit \/ AsEditInGroup \/ AsCommit \/ AsUndo \/ AsRedo \/ AsStutter

(* Each is a step, or a stutter, of the abstract history.                  *)
LEMMA StepsOfHistory == HistoryStep => [Abstract!Next]_(Abstract!vars)
<1>1. \A s, d : Abstract!Remember(s, d) = Newest(Append(s, d))
  BY DEF Abstract!Remember, Newest
<1>2. \A s : Abstract!Latest(s) = Final(s) /\ Abstract!Rest(s) = Initial(s)
  BY DEF Abstract!Latest, Abstract!Rest, Final, Initial
<1>3. AsReplace => Abstract!Replace
  BY DEF AsReplace, Abstract!Replace, BufPast, BufFuture, BufBase, Doc, Line
<1>4. AsEdit => Abstract!Edit
  BY <1>1 DEF AsEdit, Abstract!Edit, BufPast, BufFuture, BufBase, Doc, Line
<1>5. AsEditInGroup => Abstract!EditInGroup
  BY DEF AsEditInGroup, Abstract!EditInGroup, BufPast, BufFuture, BufBase, Doc, Line
<1>6. AsCommit => Abstract!CommitGroup
  <2>1. SUFFICES ASSUME AsCommit PROVE Abstract!CommitGroup
    OBVIOUS
  <2>2. BufBase # <<>> /\ BufBase = <<Committed>>
    BY <2>1 DEF AsCommit, BufBase
  <2>3. BufBase[1] = Committed
    BY <2>2
  <2>. QED BY <1>1, <2>1, <2>2, <2>3 DEF AsCommit, Abstract!CommitGroup, BufPast, BufFuture, BufBase
<1>7. AsUndo => Abstract!Undo
  BY <1>2 DEF AsUndo, Abstract!Undo, BufPast, BufFuture, BufBase
<1>8. AsRedo => Abstract!Redo
  BY <1>2 DEF AsRedo, Abstract!Redo, BufPast, BufFuture, BufBase
<1>9. AsStutter => UNCHANGED Abstract!vars
  BY DEF AsStutter, Abstract!vars, BufPast, BufFuture, BufBase
<1>. QED BY <1>3, <1>4, <1>5, <1>6, <1>7, <1>8, <1>9 DEF HistoryStep, Abstract!Next

(* The documents that a history stands for are those it tells of.          *)
LEMMA ToldIs ==
    ASSUME NEW h \in History, NEW doc \in Doc, NEW p, NEW com, NEW q, Told(h, doc, p, com, q)
    PROVE  /\ UndoUnit(doc, h.pending) = com
           /\ PastOf(com, h.undo) = p /\ FutureOf(com, h.redo) = q
<1>1. /\ h.undo \in Seq(Unit) /\ h.redo \in Seq(Unit) /\ h.pending \in Seq(BufChange)
      /\ p \in Seq(Doc) /\ com \in Doc /\ q \in Seq(Doc)
      /\ Chain("unit", h.undo, p, com) /\ Chain("backward", h.redo, q, com)
      /\ Story(com, h.pending, doc)
  BY DEF History, Told
<1>2. UndoUnit(doc, h.pending) = com
  BY <1>1, ReplaysFit
<1>3. PastOf(com, h.undo) = p /\ FutureOf(com, h.redo) = q
  BY <1>1, PastIs, FutureIs
<1>. QED BY <1>2, <1>3

(* A change is pushed: an edit of its own, or one of the open group.       *)
LEMMA PushTold ==
    ASSUME NEW h \in History, NEW doc \in Doc, NEW p, NEW com, NEW q, Told(h, doc, p, com, q),
           h.depth = 0 => h.pending = <<>> /\ h.tag = "Bulk",
           NEW c \in BufChange, NEW e \in Doc, Joins(doc, c, e)
    PROVE  LET k == Push(h, c)
           IN  /\ k \in History /\ k.depth = h.depth /\ k.tag = h.tag
               /\ h.depth = 0 => /\ com = doc /\ k.pending = <<>>
                                 /\ Told(k, e, Newest(Append(p, doc)), e, <<>>)
               /\ h.depth # 0 => k.pending # <<>> /\ Told(k, e, p, com, q)
<1> DEFINE g == [h EXCEPT !.pending = Append(@, c)]
           k == Push(h, c)
<1>1. /\ g \in History /\ g.pending # <<>> /\ Told(g, e, p, com, q)
      /\ g.depth = h.depth /\ g.tag = h.tag
  BY PendingTold
<1>2. k = IF h.depth > 0 THEN g ELSE Commit(g)
  BY DEF Push
<1>. HIDE DEF g, k
<1>3. h.depth \in Nat
  BY DEF History
<1>4. CASE h.depth = 0
  <2>1. k = Commit(g) /\ g.tag = "Bulk"
    BY <1>1, <1>2, <1>4
  <2>2. com = doc
    <3>1. com \in Doc /\ Story(com, h.pending, doc)
      BY DEF Told
    <3>. QED BY <1>4, <3>1, StoryEmpty
  <2>3. /\ k \in History /\ k.pending = <<>> /\ k.depth = g.depth /\ k.tag = g.tag
        /\ Told(k, e, Newest(Append(p, com)), e, <<>>)
    BY <1>1, <2>1, CommitTold
  <2>. QED BY <1>1, <1>4, <2>2, <2>3 DEF k
<1>5. CASE h.depth # 0
  <2>1. k = g
    BY <1>2, <1>3, <1>5
  <2>. QED BY <1>1, <1>5, <2>1 DEF k
<1>. QED BY <1>4, <1>5

(* A group ends: nothing, if it was inside another or made no change.      *)
LEMMA EndTold ==
    ASSUME NEW h \in History, NEW doc \in Doc, NEW p, NEW com, NEW q, Told(h, doc, p, com, q),
           h.depth # 0
    PROVE  LET k == End(h)
           IN  /\ k \in History /\ k.depth = h.depth - 1
               /\ k.depth = 0 => k.pending = <<>> /\ k.tag = "Bulk"
               /\ \/ k.pending = h.pending /\ Told(k, doc, p, com, q)
                  \/ /\ h.pending # <<>> /\ k.pending = <<>>
                     /\ \/ p # <<>> /\ q = <<>> /\ Told(k, doc, p, doc, <<>>)
                        \/ Told(k, doc, Newest(Append(p, com)), doc, <<>>)
<1> DEFINE g == [h EXCEPT !.depth = @ - 1]
           f == Commit(g)
           k == End(h)
<1>1. h.depth \in Nat /\ h.depth - 1 \in Nat
  BY DEF History
<1>2. /\ g \in History /\ g.undo = h.undo /\ g.redo = h.redo /\ g.pending = h.pending
      /\ g.depth = h.depth - 1 /\ g.tag = h.tag
  BY <1>1 DEF History
<1>3. k = IF g.depth > 0 THEN g ELSE [f EXCEPT !.tag = "Bulk"]
  BY DEF End
<1>. HIDE DEF g, k
<1>4. Told(g, doc, p, com, q)
  BY <1>2 DEF Told
<1>5. CASE g.depth # 0
  <2>1. k = g
    BY <1>1, <1>2, <1>3, <1>5
  <2>. QED BY <1>2, <1>4, <1>5, <2>1 DEF k
<1>6. CASE g.depth = 0
  <2>1. k = [f EXCEPT !.tag = "Bulk"]
    BY <1>3, <1>6
  <2>2. ASSUME f \in History
        PROVE  /\ k \in History /\ k.undo = f.undo /\ k.redo = f.redo /\ k.pending = f.pending
               /\ k.depth = f.depth /\ k.tag = "Bulk"
    <3>. HIDE DEF f
    <3>. QED BY <2>1, <2>2 DEF History, Kinds
  <2>3. CASE h.pending = <<>>
    <3>1. f = g
      BY <1>2, <2>3 DEF Commit
    <3>2. /\ k \in History /\ k.undo = h.undo /\ k.redo = h.redo /\ k.pending = <<>>
          /\ k.depth = h.depth - 1 /\ k.tag = "Bulk"
      BY <1>2, <2>2, <2>3, <3>1
    <3>3. Told(k, doc, p, com, q)
      BY <2>3, <3>2 DEF Told
    <3>. QED BY <2>3, <3>2, <3>3 DEF k
  <2>4. CASE h.pending # <<>>
    <3>1. /\ f \in History /\ f.pending = <<>> /\ f.depth = g.depth
          /\ \/ p # <<>> /\ q = <<>> /\ Told(f, doc, p, doc, <<>>)
             \/ Told(f, doc, Newest(Append(p, com)), doc, <<>>)
      BY <1>2, <1>4, <2>4, CommitTold
    <3>2. /\ k \in History /\ k.undo = f.undo /\ k.redo = f.redo /\ k.pending = f.pending
          /\ k.depth = f.depth /\ k.tag = "Bulk"
      BY <2>2, <3>1
    <3>. HIDE DEF f
    <3>3. \A w : Told(f, doc, w, doc, <<>>) => Told(k, doc, w, doc, <<>>)
      BY <3>2 DEF Told
    <3>. QED BY <1>2, <2>4, <3>1, <3>2, <3>3 DEF k
  <2>. QED BY <2>3, <2>4
<1>. QED BY <1>5, <1>6

-----------------------------------------------------------------------------
(* The documents after a step, from what the history then tells of.        *)
LEMMA ToldNext ==
    ASSUME lines' \in Doc, hist' \in History, NEW p, NEW com, NEW q, Told(hist', lines', p, com, q)
    PROVE  /\ Committed' = com /\ BufPast' = p /\ BufFuture' = q
           /\ BufBase' = (IF hist'.pending = <<>> THEN <<>> ELSE <<com>>)
           /\ Told(hist', lines', BufPast', Committed', BufFuture')
<1>1. /\ UndoUnit(lines', hist'.pending) = com
      /\ PastOf(com, hist'.undo) = p /\ FutureOf(com, hist'.redo) = q
  BY ToldIs
<1>2. Committed' = com
  BY <1>1 DEF Committed
<1>3. BufPast' = p /\ BufFuture' = q
  BY <1>1, <1>2 DEF BufPast, BufFuture
<1>4. BufBase' = (IF hist'.pending = <<>> THEN <<>> ELSE <<com>>)
  BY <1>2 DEF BufBase
<1>. QED BY <1>2, <1>3, <1>4

(* Positions that callers pass.                                            *)
LEMMA PositionIs ==
    ASSUME BufferIs, NEW doc \in Doc, NEW p \in Positions(doc)
    PROVE  p \in Pos /\ (Slack = 0 => p \in Grid(doc))
<1>1. PICK l \in 0..(Len(doc) - 1 + Slack) :
        \E c \in 0..(Len(LineOf(doc, ClampLine(doc, l))) + Slack) : p = At(l, c)
  BY DEF Positions
<1> DEFINE k == ClampLine(doc, l)
<1>2. PICK c \in 0..(Len(LineOf(doc, k)) + Slack) : p = At(l, c)
  BY <1>1
<1>3. /\ Slack \in Nat /\ Len(doc) \in Nat \ {0} /\ l \in Nat
      /\ LastLine(doc) = Len(doc) - 1 /\ LastLine(doc) \in Nat
  BY DocLines DEF BufferIs, LastLine
<1>4. k \in 0..LastLine(doc) /\ (Slack = 0 => k = l)
  BY <1>3 DEF ClampLine, Lesser
<1>. HIDE DEF k
<1>5. Len(LineOf(doc, k)) \in Nat
  BY <1>4, DocLines
<1>6. c \in Nat /\ p \in Pos
  BY <1>2, <1>3, <1>5 DEF At, Pos
<1>7. ASSUME Slack = 0 PROVE p \in Grid(doc)
  <2>1. l \in 0..LastLine(doc) /\ c \in 0..Len(LineOf(doc, l))
    BY <1>4, <1>5, <1>7
  <2>. QED BY <1>2, <2>1, GridIs
<1>. QED BY <1>6, <1>7

(* A change that a primitive made.                                         *)
LEMMA BufChanges ==
    ASSUME BufInv, NEW c, NEW r, Made(lines, c, r), ApplyChange(c), ret' = r
    PROVE  BufInv' /\ HistoryStep
<1> DEFINE e == Apply(lines, c)
           p == BufPast
           q == BufFuture
           com == Committed
<1>1. /\ BufferIs /\ lines \in Doc /\ hist \in History /\ hist.depth \in Nat
      /\ hist.depth <= MaxDepth
      /\ hist.depth = 0 => hist.pending = <<>> /\ hist.tag = "Bulk"
      /\ Told(hist, lines, p, com, q)
      /\ revision \in Nat /\ snap.rev \in -1..revision
  BY DEF BufInv, BufTypes, History
<1>2. /\ c \in BufChange /\ e \in Doc /\ Joins(lines, c, e)
      /\ r \in Pos /\ (Slack = 0 => InGrid(e, r))
  BY DEF Made
<1>3. /\ lines' = e /\ dirty' = TRUE /\ revision' = revision + 1 /\ hist' = Push(hist, c)
      /\ snap' = snap
  BY DEF ApplyChange
<1>. HIDE DEF e, p, q, com
<1>4. /\ hist' \in History /\ hist'.depth = hist.depth /\ hist'.tag = hist.tag
      /\ hist.depth = 0 => /\ com = lines /\ hist'.pending = <<>>
                           /\ Told(hist', lines', Newest(Append(p, lines)), lines', <<>>)
      /\ hist.depth # 0 => hist'.pending # <<>> /\ Told(hist', lines', p, com, q)
  BY <1>1, <1>2, <1>3, PushTold
<1>5. BufTypes'
  <2>1. revision' \in Nat /\ snap'.rev \in -1..revision'
    BY <1>1, <1>3
  <2>2. ret' \in Pos /\ (Slack = 0 => InGrid(lines', ret'))
    BY <1>2, <1>3
  <2>3. hist'.depth <= MaxDepth /\ (hist'.depth = 0 => hist'.pending = <<>> /\ hist'.tag = "Bulk")
    BY <1>1, <1>4
  <2>. QED BY <1>2, <1>3, <1>4, <2>1, <2>2, <2>3 DEF BufTypes
<1>6. BufferIs'
  BY <1>1 DEF BufferIs
<1>7. CASE hist.depth = 0
  <2>1. Told(hist', lines', Newest(Append(p, lines)), lines', <<>>) /\ hist'.pending = <<>>
    BY <1>4, <1>7
  <2>2. /\ BufPast' = Newest(Append(p, lines)) /\ BufFuture' = <<>> /\ BufBase' = <<>>
        /\ Told(hist', lines', BufPast', Committed', BufFuture')
    BY <1>2, <1>3, <1>4, <2>1, ToldNext
  <2>3. BufBase = <<>>
    BY <1>1, <1>7 DEF BufBase
  <2>4. AsEdit
    BY <1>2, <1>3, <2>2, <2>3 DEF AsEdit, p
  <2>. QED BY <1>5, <1>6, <2>2, <2>4 DEF BufInv, HistoryStep
<1>8. CASE hist.depth # 0
  <2>1. Told(hist', lines', p, com, q) /\ hist'.pending # <<>>
    BY <1>4, <1>8
  <2>2. /\ BufPast' = p /\ BufFuture' = q /\ BufBase' = <<com>>
        /\ Told(hist', lines', BufPast', Committed', BufFuture')
    BY <1>2, <1>3, <1>4, <2>1, ToldNext
  <2>3. BufBase' = IF BufBase = <<>> THEN <<lines>> ELSE BufBase
    <3>1. CASE hist.pending = <<>>
      <4>1. com = lines
        <5>1. com \in Doc /\ Story(com, hist.pending, lines)
          BY <1>1 DEF Told
        <5>. QED BY <3>1, <5>1, StoryEmpty
      <4>2. BufBase = <<>>
        BY <3>1 DEF BufBase
      <4>. QED BY <2>2, <4>1, <4>2
    <3>2. CASE hist.pending # <<>>
      <4>1. BufBase = <<com>> /\ BufBase # <<>>
        BY <3>2 DEF BufBase, com
      <4>. QED BY <2>2, <4>1
    <3>. QED BY <3>1, <3>2
  <2>4. AsEditInGroup
    BY <1>2, <1>3, <2>2, <2>3 DEF AsEditInGroup, p, q
  <2>. QED BY <1>5, <1>6, <2>2, <2>4 DEF BufInv, HistoryStep
<1>. QED BY <1>7, <1>8

(* The hints at the two ends of a unit are positions of the documents.     *)
LEMMA HintsAre ==
    ASSUME NEW unit \in Unit, NEW d \in Doc, NEW e \in Doc, Story(d, unit, e)
    PROVE  /\ Len(unit) \in Nat \ {0}
           /\ unit[1].before \in Pos /\ (Slack = 0 => InGrid(d, unit[1].before))
           /\ Final(unit).after \in Pos /\ (Slack = 0 => InGrid(e, Final(unit).after))
<1> DEFINE n == Len(unit)
<1>1. unit \in Seq(BufChange) /\ n \in Nat \ {0}
  BY EmptySeq DEF Unit
<1>2. PICK ds \in Seq(Doc) : Tells(ds, unit) /\ ds[1] = d /\ ds[n + 1] = e
  BY DEF Story
<1>3. \A i \in 1..n : Joins(ds[i], unit[i], ds[i + 1])
  BY <1>2 DEF Tells
<1>4. \A i \in 1..n : unit[i].before \in Pos /\ unit[i].after \in Pos
  BY <1>1, ElementOfSeq DEF BufChange, Change
<1>5. Final(unit) = unit[n]
  BY DEF Final
<1>. HIDE DEF n
<1>6. 1 \in 1..n /\ n \in 1..n
  BY <1>1
<1>7. Slack = 0 => InGrid(d, unit[1].before) /\ InGrid(e, unit[n].after)
  BY <1>2, <1>3, <1>6 DEF Joins
<1>8. unit[1].before \in Pos /\ unit[n].after \in Pos
  BY <1>4, <1>6
<1>9. n \in Nat \ {0}
  BY <1>1
<1>. QED BY <1>5, <1>7, <1>8, <1>9 DEF n

-----------------------------------------------------------------------------
(* An empty history tells of one document.                                 *)
LEMMA ToldEmpty ==
    ASSUME NEW doc \in Doc
    PROVE  EmptyHistory \in History /\ Told(EmptyHistory, doc, <<>>, doc, <<>>)
<1> DEFINE h == EmptyHistory
<1>1. /\ <<>> \in Seq(Unit) /\ <<>> \in Seq(BufChange) /\ <<>> \in Seq(Doc) /\ Len(<<>>) = 0
  BY EmptySeq
<1>2. /\ h.undo = <<>> /\ h.redo = <<>> /\ h.pending = <<>> /\ h.depth = 0 /\ h.tag = "Bulk"
      /\ h \in History
  BY <1>1 DEF EmptyHistory, History, Kinds
<1>. HIDE DEF h
<1>3. \A i \in 1..Len(<<>>) : FALSE
  BY <1>1
<1>4. Chain("unit", <<>>, <<>>, doc) /\ Chain("backward", <<>>, <<>>, doc)
  BY <1>1, <1>3 DEF Chain
<1>5. Story(doc, <<>>, doc)
  BY StoryEmpty
<1>6. Told(h, doc, <<>>, doc, <<>>)
  BY <1>1, <1>2, <1>4, <1>5, CapAssumption DEF Told
<1>. QED BY <1>2, <1>6 DEF h

(* It is as the module assumes, when set_lines keeps off a history.         *)
LEMMA BufferAssumed == FreeSetLines = FALSE => BufferIs
BY BufferAssumption DEF BufferIs, Doc, Line

(* A new buffer.                                                           *)
LEMMA BufInit == BufferIs /\ Init => BufInv /\ Abstract!Init
<1>. SUFFICES ASSUME BufferIs, Init PROVE BufInv /\ Abstract!Init
  OBVIOUS
<1> DEFINE h == EmptyHistory
<1>1. /\ lines \in Doc /\ hist = h /\ dirty = FALSE /\ revision = 0
      /\ snap = [rev |-> -1, lines |-> <<>>] /\ ret = At(0, 0)
  BY BufferAssumption DEF Init, Doc, Line
<1>2. h.pending = <<>> /\ h.depth = 0 /\ h.tag = "Bulk"
  BY DEF EmptyHistory
<1>3. h \in History /\ Told(h, lines, <<>>, lines, <<>>)
  BY <1>1, ToldEmpty
<1>. HIDE DEF h
<1>5. Told(hist, lines, <<>>, lines, <<>>) /\ hist \in History /\ hist.pending = <<>>
  BY <1>1, <1>2, <1>3
<1>6. Committed = lines /\ BufPast = <<>> /\ BufFuture = <<>>
  <2>1. /\ UndoUnit(lines, hist.pending) = lines
        /\ PastOf(lines, hist.undo) = <<>> /\ FutureOf(lines, hist.redo) = <<>>
    BY <1>1, <1>5, ToldIs
  <2>. QED BY <2>1 DEF Committed, BufPast, BufFuture
<1>7. BufBase = <<>>
  BY <1>5 DEF BufBase
<1>8. BufTypes
  <2>1. hist.depth = 0 /\ hist.depth <= MaxDepth /\ hist.tag = "Bulk" /\ MaxDepth \in Nat
    BY <1>1, <1>2 DEF BufferIs
  <2>2. revision \in Nat /\ snap.rev \in -1..revision /\ dirty \in BOOLEAN
    <3>1. snap.rev = -1
      BY <1>1
    <3>2. -1 \in -1..0
      OBVIOUS
    <3>. QED BY <1>1, <3>1, <3>2
  <2>3. ret \in Pos /\ InGrid(lines, ret)
    BY <1>1, OriginIs
  <2>. QED BY <1>1, <1>5, <2>1, <2>2, <2>3 DEF BufTypes
<1>9. BufInv
  BY <1>5, <1>6, <1>8 DEF BufInv
<1>10. Abstract!Init
  BY <1>1, <1>6, <1>7 DEF Abstract!Init, BufPast, BufFuture, BufBase, Doc, Line
<1>. QED BY <1>9, <1>10

(* A step that leaves the text and the units alone.                        *)
LEMMA BufStays ==
    ASSUME BufInv, BufTypes', lines' = lines, hist'.undo = hist.undo, hist'.redo = hist.redo,
           hist'.pending = hist.pending
    PROVE  BufInv' /\ HistoryStep
<1> DEFINE p == BufPast
           q == BufFuture
           com == Committed
<1>1. BufferIs /\ Told(hist, lines, p, com, q) /\ lines' \in Doc /\ hist' \in History
  BY DEF BufInv, BufTypes
<1>. HIDE DEF p, q, com
<1>2. Told(hist', lines', p, com, q)
  BY <1>1 DEF Told
<1>3. /\ BufPast' = p /\ BufFuture' = q
      /\ BufBase' = (IF hist'.pending = <<>> THEN <<>> ELSE <<com>>)
      /\ Told(hist', lines', BufPast', Committed', BufFuture')
  BY <1>1, <1>2, ToldNext
<1>4. BufBase' = BufBase
  BY <1>3 DEF BufBase, com
<1>5. AsStutter
  BY <1>3, <1>4 DEF AsStutter, p, q
<1>6. BufferIs'
  BY <1>1 DEF BufferIs
<1>. QED BY <1>3, <1>5, <1>6 DEF BufInv, HistoryStep

(* A group that begins, a snapshot and a save leave the history's story    *)
(* alone.                                                                  *)
LEMMA BufQuiet ==
    ASSUME BufInv,
           \/ BeginGroup \/ \E k \in Kinds : BeginGroupKind(k)
           \/ SnapshotLines \/ MarkSaved \/ UNCHANGED vars
    PROVE  BufInv' /\ HistoryStep
<1>1. /\ lines \in Doc /\ hist \in History /\ hist.depth \in Nat
      /\ hist.depth <= MaxDepth
      /\ hist.depth = 0 => hist.pending = <<>> /\ hist.tag = "Bulk"
      /\ revision \in Nat /\ snap.rev \in -1..revision /\ dirty \in BOOLEAN
      /\ ret \in Pos /\ (Slack = 0 => InGrid(lines, ret))
      /\ MaxDepth \in Nat
  BY DEF BufInv, BufTypes, BufferIs, History
<1>2. ASSUME NEW h \in History, hist' = h, h.undo = hist.undo, h.redo = hist.redo,
             h.pending = hist.pending, h.depth <= MaxDepth,
             h.depth = 0 => h.pending = <<>> /\ h.tag = "Bulk",
             UNCHANGED <<lines, dirty, revision, snap, ret>>
      PROVE  BufInv' /\ HistoryStep
  <2>1. BufTypes'
    BY <1>1, <1>2 DEF BufTypes
  <2>. QED BY <1>2, <2>1, BufStays
<1>3. CASE BeginGroup
  <2> DEFINE h == Begin(hist)
  <2>1. /\ hist' = h /\ hist.depth < MaxDepth /\ UNCHANGED <<lines, dirty, revision, snap, ret>>
    BY <1>3 DEF BeginGroup
  <2>2. /\ h \in History /\ h.undo = hist.undo /\ h.redo = hist.redo /\ h.pending = hist.pending
        /\ h.depth = hist.depth + 1
    <3>1. hist.depth + 1 \in Nat
      BY <1>1
    <3>. QED BY <1>1, <3>1 DEF Begin, History
  <2>. HIDE DEF h
  <2>3. h.depth <= MaxDepth /\ h.depth # 0
    BY <1>1, <2>1, <2>2
  <2>. QED BY <1>2, <2>1, <2>2, <2>3
<1>4. ASSUME NEW k \in Kinds, BeginGroupKind(k) PROVE BufInv' /\ HistoryStep
  <2> DEFINE h == BeginKind(hist, k)
  <2>1. /\ hist' = h /\ hist.depth < MaxDepth /\ UNCHANGED <<lines, dirty, revision, snap, ret>>
        /\ k \in Kinds
    BY <1>4 DEF BeginGroupKind
  <2>2. /\ h \in History /\ h.undo = hist.undo /\ h.redo = hist.redo /\ h.pending = hist.pending
        /\ h.depth = hist.depth + 1
    <3>1. hist.depth + 1 \in Nat
      BY <1>1
    <3>. QED BY <1>1, <2>1, <3>1 DEF BeginKind, History
  <2>. HIDE DEF h
  <2>3. h.depth <= MaxDepth /\ h.depth # 0
    BY <1>1, <2>1, <2>2
  <2>. QED BY <1>2, <2>1, <2>2, <2>3
<1>5. CASE SnapshotLines
  <2>1. /\ UNCHANGED <<lines, hist, dirty, revision, ret>>
        /\ snap' = IF snap.rev = revision THEN snap ELSE [rev |-> revision, lines |-> lines]
    BY <1>5 DEF SnapshotLines
  <2>2. snap'.rev \in -1..revision
    <3>1. CASE snap.rev = revision
      BY <1>1, <2>1, <3>1
    <3>2. CASE snap.rev # revision
      <4>1. snap'.rev = revision
        BY <2>1, <3>2
      <4>. QED BY <1>1, <4>1
    <3>. QED BY <3>1, <3>2
  <2>3. BufTypes'
    BY <1>1, <2>1, <2>2 DEF BufTypes
  <2>. QED BY <2>1, <2>3, BufStays
<1>6. CASE MarkSaved
  <2>1. UNCHANGED <<lines, hist, revision, snap, ret>> /\ dirty' = FALSE
    BY <1>6 DEF MarkSaved
  <2>2. BufTypes'
    BY <1>1, <2>1 DEF BufTypes
  <2>. QED BY <2>1, <2>2, BufStays
<1>7. CASE UNCHANGED vars
  <2>1. UNCHANGED <<lines, hist, dirty, revision, snap, ret>>
    BY <1>7 DEF vars
  <2>2. BufTypes'
    BY <1>1, <2>1 DEF BufTypes
  <2>. QED BY <2>1, <2>2, BufStays
<1>. QED BY <1>3, <1>4, <1>5, <1>6, <1>7

(* The primitives.                                                         *)
LEMMA BufEdits ==
    ASSUME BufInv,
           \/ \E p \in Positions(lines), c \in Char : InsertChar(p, c)
           \/ \E p \in Positions(lines), t \in Texts : InsertText(p, t)
           \/ \E p \in Positions(lines) : EraseChar(p)
           \/ \E p, q \in Positions(lines) : EraseRange(p, q)
           \/ \E p \in Positions(lines) : InsertNewline(p)
           \/ \E l \in 0..(Len(lines) - 1 + Slack), smart \in BOOLEAN : Join(At(l, 0), smart)
    PROVE  BufInv' /\ HistoryStep
<1>1. /\ lines \in Doc /\ BufferIs
      /\ \A p \in Positions(lines) : p \in Pos /\ (Slack = 0 => p \in Grid(lines))
  BY PositionIs DEF BufInv, BufTypes
<1>2. ASSUME NEW p \in Positions(lines), NEW ch \in Char, InsertChar(p, ch)
      PROVE  BufInv' /\ HistoryStep
  <2> DEFINE c == InsertCharChange(lines, p, ch)
  <2>1. ApplyChange(c) /\ ret' = c.after
    BY <1>2 DEF InsertChar
  <2>2. Made(lines, c, c.after)
    BY <1>1, InsertCharMade
  <2>. HIDE DEF c
  <2>. QED BY <2>1, <2>2, BufChanges
<1>3. ASSUME NEW p \in Positions(lines), NEW t \in Texts, InsertText(p, t)
      PROVE  BufInv' /\ HistoryStep
  <2> DEFINE c == InsertTextChange(lines, p, t)
  <2>1. ApplyChange(c) /\ ret' = c.after
    BY <1>3 DEF InsertText
  <2>2. Made(lines, c, c.after)
    <3>1. t \in Doc
      BY <1>1 DEF BufferIs
    <3>. QED BY <1>1, <3>1, InsertTextMade
  <2>. HIDE DEF c
  <2>. QED BY <2>1, <2>2, BufChanges
<1>4. ASSUME NEW p \in Positions(lines), EraseChar(p) PROVE BufInv' /\ HistoryStep
  <2> DEFINE c == EraseCharChange(lines, p)
             r == At(ClampLine(lines, p.line), p.col)
  <2>1. /\ ApplyChange(c) /\ ret' = r
        /\ p.col < Len(LineOf(lines, ClampLine(lines, p.line)))
    BY <1>4 DEF EraseChar
  <2>2. Made(lines, c, r)
    BY <1>1, <2>1, EraseCharMade
  <2>. HIDE DEF c, r
  <2>. QED BY <2>1, <2>2, BufChanges
<1>5. ASSUME NEW p \in Positions(lines), NEW q \in Positions(lines), EraseRange(p, q)
      PROVE  BufInv' /\ HistoryStep
  <2> DEFINE s == IF Before(q, p) THEN q ELSE p
             e == IF Before(q, p) THEN p ELSE q
             c == EraseRangeChange(lines, s, e)
  <2>1. ApplyChange(c) /\ ret' = c.after
    BY <1>5 DEF EraseRange
  <2>2. /\ s \in Pos /\ e \in Pos /\ (Slack = 0 => s \in Grid(lines) /\ e \in Grid(lines))
    BY <1>1
  <2>3. ~Before(e, s)
    <3>1. CASE Before(q, p)
      <4>1. ~Before(p, q)
        <5>1. p \in Pos /\ q \in Pos
          BY <1>1
        <5>2. p.line \in Nat /\ p.col \in Nat /\ q.line \in Nat /\ q.col \in Nat
          BY <5>1 DEF Pos
        <5>. QED BY <3>1, <5>2 DEF Before
      <4>. QED BY <3>1, <4>1
    <3>2. CASE ~Before(q, p)
      BY <3>2
    <3>. QED BY <3>1, <3>2
  <2>. HIDE DEF s, e
  <2>4. Made(lines, c, c.after)
    BY <1>1, <2>2, <2>3, EraseRangeMade
  <2>. HIDE DEF c
  <2>. QED BY <2>1, <2>4, BufChanges
<1>6. ASSUME NEW p \in Positions(lines), InsertNewline(p) PROVE BufInv' /\ HistoryStep
  <2> DEFINE c == InsertNewlineChange(lines, p)
  <2>1. ApplyChange(c) /\ ret' = c.after
    BY <1>6 DEF InsertNewline
  <2>2. Made(lines, c, c.after)
    BY <1>1, NewlineMade
  <2>. HIDE DEF c
  <2>. QED BY <2>1, <2>2, BufChanges
<1>7. ASSUME NEW k \in 0..(Len(lines) - 1 + Slack), NEW smart \in BOOLEAN,
             Join(At(k, 0), smart)
      PROVE  BufInv' /\ HistoryStep
  <2> DEFINE l == ClampLine(lines, k)
             c == JoinChange(lines, l, smart)
             r == At(l, JoinKeep(LineOf(lines, l), smart))
  <2>1. /\ ApplyChange(c) /\ ret' = r /\ l + 1 < Len(lines)
    <3>1. At(k, 0).line = k
      BY DEF At
    <3>. QED BY <1>7, <3>1 DEF Join
  <2>2. l \in Nat
    BY <1>1, DocLines DEF ClampLine, Lesser, BufferIs
  <2>. HIDE DEF l
  <2>3. Made(lines, c, r)
    BY <1>1, <2>1, <2>2, JoinMade
  <2>. HIDE DEF c, r
  <2>. QED BY <2>1, <2>3, BufChanges
<1>. QED BY <1>2, <1>3, <1>4, <1>5, <1>6, <1>7

-----------------------------------------------------------------------------
(* The text is replaced while there is no history.                         *)
LEMMA BufSetLines ==
    ASSUME BufInv, NEW d \in InitDocs, SetLines(d)
    PROVE  BufInv' /\ HistoryStep
<1>1. /\ BufferIs /\ lines \in Doc /\ hist \in History /\ FreeSetLines = FALSE
      /\ hist.depth <= MaxDepth
      /\ hist.depth = 0 => hist.pending = <<>> /\ hist.tag = "Bulk"
      /\ revision \in Nat /\ snap.rev \in -1..revision
  BY DEF BufInv, BufTypes, BufferIs
<1>2. d \in Doc
  BY BufferAssumption DEF Doc, Line
<1>3. /\ hist = EmptyHistory /\ lines' = d /\ dirty' = TRUE /\ revision' = revision + 1
      /\ ret' = At(0, 0) /\ hist' = hist /\ snap' = snap
  BY <1>1 DEF SetLines
<1>4. hist.pending = <<>>
  BY <1>3 DEF EmptyHistory
<1>5. Committed = lines /\ BufPast = <<>> /\ BufFuture = <<>> /\ BufBase = <<>>
  <2>1. Told(hist, lines, <<>>, lines, <<>>)
    BY <1>1, <1>3, ToldEmpty
  <2>2. /\ UndoUnit(lines, hist.pending) = lines
        /\ PastOf(lines, hist.undo) = <<>> /\ FutureOf(lines, hist.redo) = <<>>
    BY <1>1, <2>1, ToldIs
  <2>. QED BY <1>4, <2>2 DEF Committed, BufPast, BufFuture, BufBase
<1>6. Told(hist', lines', <<>>, lines', <<>>)
  BY <1>2, <1>3, ToldEmpty
<1>7. /\ BufPast' = <<>> /\ BufFuture' = <<>> /\ BufBase' = <<>>
      /\ Told(hist', lines', BufPast', Committed', BufFuture')
  <2>1. lines' \in Doc /\ hist' \in History /\ hist'.pending = <<>>
    BY <1>1, <1>2, <1>3, <1>4
  <2>. QED BY <1>6, <2>1, ToldNext
<1>8. BufTypes'
  <2>1. ret' \in Pos /\ InGrid(lines', ret')
    BY <1>2, <1>3, OriginIs
  <2>2. revision' \in Nat /\ snap'.rev \in -1..revision'
    BY <1>1, <1>3
  <2>. QED BY <1>1, <1>2, <1>3, <2>1, <2>2 DEF BufTypes
<1>9. AsReplace
  BY <1>2, <1>3, <1>5, <1>7 DEF AsReplace
<1>10. BufferIs'
  BY <1>1 DEF BufferIs
<1>. QED BY <1>7, <1>8, <1>9, <1>10 DEF BufInv, HistoryStep

(* A group ends.                                                           *)
LEMMA BufEnd ==
    ASSUME BufInv, EndGroup
    PROVE  BufInv' /\ HistoryStep
<1> DEFINE p == BufPast
           q == BufFuture
           com == Committed
<1>1. /\ BufferIs /\ lines \in Doc /\ hist \in History /\ hist.depth \in Nat
      /\ hist.depth <= MaxDepth /\ MaxDepth \in Nat /\ Told(hist, lines, p, com, q)
      /\ dirty \in BOOLEAN /\ revision \in Nat /\ snap.rev \in -1..revision
      /\ ret \in Pos /\ (Slack = 0 => InGrid(lines, ret))
  BY DEF BufInv, BufTypes, BufferIs, History
<1>2. /\ hist.depth # 0 /\ hist' = End(hist)
      /\ UNCHANGED <<lines, dirty, revision, snap, ret>>
  BY DEF EndGroup
<1>. HIDE DEF p, q, com
<1>3. /\ hist' \in History /\ hist'.depth = hist.depth - 1
      /\ hist'.depth = 0 => hist'.pending = <<>> /\ hist'.tag = "Bulk"
      /\ \/ hist'.pending = hist.pending /\ Told(hist', lines, p, com, q)
         \/ /\ hist.pending # <<>> /\ hist'.pending = <<>>
            /\ \/ p # <<>> /\ q = <<>> /\ Told(hist', lines, p, lines, <<>>)
               \/ Told(hist', lines, Newest(Append(p, com)), lines, <<>>)
  BY <1>1, <1>2, EndTold
<1>4. BufTypes'
  <2>1. hist'.depth <= MaxDepth
    BY <1>1, <1>3
  <2>. QED BY <1>1, <1>2, <1>3, <2>1 DEF BufTypes
<1>5. BufferIs' /\ lines' = lines /\ lines' \in Doc
  BY <1>1, <1>2 DEF BufferIs
<1>6. ASSUME NEW w, NEW x, NEW y, Told(hist', lines, w, x, y)
      PROVE  /\ BufInv' /\ BufPast' = w /\ BufFuture' = y
             /\ BufBase' = (IF hist'.pending = <<>> THEN <<>> ELSE <<x>>)
  <2>1. Told(hist', lines', w, x, y)
    BY <1>5, <1>6
  <2>2. /\ BufPast' = w /\ BufFuture' = y
        /\ BufBase' = (IF hist'.pending = <<>> THEN <<>> ELSE <<x>>)
        /\ Told(hist', lines', BufPast', Committed', BufFuture')
    BY <1>3, <1>5, <2>1, ToldNext
  <2>. QED BY <1>4, <1>5, <2>2 DEF BufInv
<1>7. CASE hist'.pending = hist.pending /\ Told(hist', lines, p, com, q)
  <2>1. BufInv' /\ BufPast' = p /\ BufFuture' = q /\ BufBase' = BufBase
    BY <1>6, <1>7 DEF BufBase, com
  <2>2. AsStutter
    BY <1>5, <2>1 DEF AsStutter, p, q
  <2>. QED BY <2>1, <2>2 DEF HistoryStep
<1>8. ASSUME hist.pending # <<>>, hist'.pending = <<>>,
             \/ p # <<>> /\ q = <<>> /\ Told(hist', lines, p, lines, <<>>)
             \/ Told(hist', lines, Newest(Append(p, com)), lines, <<>>)
      PROVE  BufInv' /\ HistoryStep
  <2>1. BufBase # <<>>
    <3>1. BufBase = <<com>>
      BY <1>8 DEF BufBase, com
    <3>. QED BY <3>1
  <2>2. CASE p # <<>> /\ q = <<>> /\ Told(hist', lines, p, lines, <<>>)
    <3>1. BufInv' /\ BufPast' = p /\ BufFuture' = <<>> /\ BufBase' = <<>>
      BY <1>6, <1>8, <2>2
    <3>2. AsCommit
      BY <1>5, <2>1, <2>2, <3>1 DEF AsCommit, p, q
    <3>. QED BY <3>1, <3>2 DEF HistoryStep
  <2>3. CASE Told(hist', lines, Newest(Append(p, com)), lines, <<>>)
    <3>1. /\ BufInv' /\ BufPast' = Newest(Append(p, com)) /\ BufFuture' = <<>>
          /\ BufBase' = <<>>
      BY <1>6, <1>8, <2>3
    <3>2. AsCommit
      BY <1>5, <2>1, <3>1 DEF AsCommit, p, com
    <3>. QED BY <3>1, <3>2 DEF HistoryStep
  <2>. QED BY <1>8, <2>2, <2>3
<1>. QED BY <1>3, <1>7, <1>8

-----------------------------------------------------------------------------
(* Undo and redo, between groups.                                          *)
LEMMA BufUndo ==
    ASSUME BufInv, Undo
    PROVE  BufInv' /\ HistoryStep
<1> DEFINE p == BufPast
           q == BufFuture
           com == Committed
           u == Final(hist.undo)
           d == Final(p)
<1>1. /\ BufferIs /\ lines \in Doc /\ hist \in History
      /\ hist.depth <= MaxDepth /\ Told(hist, lines, p, com, q)
      /\ hist.depth = 0 => hist.pending = <<>> /\ hist.tag = "Bulk"
      /\ revision \in Nat /\ snap.rev \in -1..revision
  BY DEF BufInv, BufTypes
<1>2. /\ hist.depth = 0 /\ hist.undo # <<>> /\ hist' = ParkUndone(hist)
      /\ lines' = UndoUnit(lines, u) /\ revision' = revision + Len(u)
      /\ ret' = u[1].before /\ dirty' = TRUE /\ snap' = snap
  BY DEF Undo
<1>3. hist.pending = <<>> /\ BufBase = <<>>
  BY <1>1, <1>2 DEF BufBase
<1>. HIDE DEF p, q, com, u, d
<1>4. /\ hist' \in History /\ hist'.pending = <<>>
      /\ hist'.depth = hist.depth /\ hist'.tag = hist.tag
      /\ p # <<>> /\ d \in Doc /\ u \in Unit /\ Story(d, u, lines)
      /\ Told(hist', d, Initial(p), d, Append(q, lines))
  BY <1>1, <1>2, <1>3, ParkTold DEF u, d
<1>5. lines' = d
  <2>1. u \in Seq(BufChange)
    BY <1>4 DEF Unit
  <2>2. UndoUnit(lines, u) = d
    BY <1>1, <1>4, <2>1, ReplaysFit
  <2>. QED BY <1>2, <2>2
<1>6. Len(u) \in Nat /\ ret' \in Pos /\ (Slack = 0 => InGrid(d, ret'))
  BY <1>1, <1>2, <1>4, HintsAre
<1>7. /\ BufPast' = Initial(p) /\ BufFuture' = Append(q, lines) /\ BufBase' = <<>>
      /\ Told(hist', lines', BufPast', Committed', BufFuture')
  <2>1. Told(hist', lines', Initial(p), d, Append(q, lines)) /\ lines' \in Doc
    BY <1>4, <1>5
  <2>. QED BY <1>4, <2>1, ToldNext
<1>8. BufTypes'
  <2>1. revision' \in Nat /\ snap'.rev \in -1..revision'
    BY <1>1, <1>2, <1>6
  <2>2. BufferIs /\ hist'.depth <= MaxDepth /\ hist'.pending = <<>> /\ hist'.tag = "Bulk"
    BY <1>1, <1>2, <1>4
  <2>. QED BY <1>2, <1>4, <1>5, <1>6, <2>1, <2>2 DEF BufTypes
<1>9. AsUndo
  BY <1>3, <1>4, <1>5, <1>7 DEF AsUndo, p, q, d
<1>10. BufferIs'
  BY <1>1 DEF BufferIs
<1>. QED BY <1>7, <1>8, <1>9, <1>10 DEF BufInv, HistoryStep

(* Redo, likewise.                                                         *)
LEMMA BufRedo ==
    ASSUME BufInv, Redo
    PROVE  BufInv' /\ HistoryStep
<1> DEFINE p == BufPast
           q == BufFuture
           com == Committed
           u == Final(hist.redo)
           d == Final(q)
<1>1. /\ BufferIs /\ lines \in Doc /\ hist \in History
      /\ hist.depth <= MaxDepth /\ Told(hist, lines, p, com, q)
      /\ hist.depth = 0 => hist.pending = <<>> /\ hist.tag = "Bulk"
      /\ revision \in Nat /\ snap.rev \in -1..revision
  BY DEF BufInv, BufTypes
<1>2. /\ hist.depth = 0 /\ hist.redo # <<>> /\ hist' = ReturnRedone(hist)
      /\ lines' = RedoUnit(lines, u) /\ revision' = revision + Len(u)
      /\ ret' = Final(u).after /\ dirty' = TRUE /\ snap' = snap
  BY DEF Redo
<1>3. hist.pending = <<>> /\ BufBase = <<>>
  BY <1>1, <1>2 DEF BufBase
<1>. HIDE DEF p, q, com, u, d
<1>4. /\ hist' \in History /\ hist'.pending = <<>>
      /\ hist'.depth = hist.depth /\ hist'.tag = hist.tag
      /\ q # <<>> /\ d \in Doc /\ u \in Unit /\ Story(lines, u, d)
      /\ Told(hist', d, Append(p, lines), d, Initial(q))
  BY <1>1, <1>2, <1>3, ReturnTold DEF u, d
<1>5. lines' = d
  <2>1. u \in Seq(BufChange)
    BY <1>4 DEF Unit
  <2>2. RedoUnit(lines, u) = d
    BY <1>1, <1>4, <2>1, ReplaysFit
  <2>. QED BY <1>2, <2>2
<1>6. Len(u) \in Nat /\ ret' \in Pos /\ (Slack = 0 => InGrid(d, ret'))
  BY <1>1, <1>2, <1>4, HintsAre
<1>7. /\ BufPast' = Append(p, lines) /\ BufFuture' = Initial(q) /\ BufBase' = <<>>
      /\ Told(hist', lines', BufPast', Committed', BufFuture')
  <2>1. Told(hist', lines', Append(p, lines), d, Initial(q)) /\ lines' \in Doc
    BY <1>4, <1>5
  <2>. QED BY <1>4, <2>1, ToldNext
<1>8. BufTypes'
  <2>1. revision' \in Nat /\ snap'.rev \in -1..revision'
    BY <1>1, <1>2, <1>6
  <2>2. BufferIs /\ hist'.depth <= MaxDepth /\ hist'.pending = <<>> /\ hist'.tag = "Bulk"
    BY <1>1, <1>2, <1>4
  <2>. QED BY <1>2, <1>4, <1>5, <1>6, <2>1, <2>2 DEF BufTypes
<1>9. AsRedo
  BY <1>3, <1>4, <1>5, <1>7 DEF AsRedo, p, q, d
<1>10. BufferIs'
  BY <1>1 DEF BufferIs
<1>. QED BY <1>7, <1>8, <1>9, <1>10 DEF BufInv, HistoryStep

(* Every call of the buffer keeps the invariant and is a step of the       *)
(* abstract history.                                                       *)
LEMMA BufStep == BufInv /\ [Next]_vars => BufInv' /\ HistoryStep
<1>. SUFFICES ASSUME BufInv, [Next]_vars PROVE BufInv' /\ HistoryStep
  OBVIOUS
<1>1. CASE \/ \E p \in Positions(lines), c \in Char : InsertChar(p, c)
           \/ \E p \in Positions(lines), t \in Texts : InsertText(p, t)
           \/ \E p \in Positions(lines) : EraseChar(p)
           \/ \E p, q \in Positions(lines) : EraseRange(p, q)
           \/ \E p \in Positions(lines) : InsertNewline(p)
           \/ \E l \in 0..(Len(lines) - 1 + Slack), smart \in BOOLEAN : Join(At(l, 0), smart)
  BY <1>1, BufEdits
<1>2. CASE \E d \in InitDocs : SetLines(d)
  BY <1>2, BufSetLines
<1>3. CASE \/ BeginGroup \/ \E k \in Kinds : BeginGroupKind(k)
           \/ SnapshotLines \/ MarkSaved \/ UNCHANGED vars
  BY <1>3, BufQuiet
<1>4. CASE EndGroup
  BY <1>4, BufEnd
<1>5. CASE Undo
  BY <1>5, BufUndo
<1>6. CASE Redo
  BY <1>6, BufRedo
<1>. QED BY <1>1, <1>2, <1>3, <1>4, <1>5, <1>6 DEF Next

(* What the invariant says of the types and of the next replay.            *)
LEMMA BufTypesAre == BufInv /\ Slack = 0 => TypeOK
<1>. SUFFICES ASSUME BufInv, Slack = 0 PROVE TypeOK
  OBVIOUS
<1>1. /\ lines \in Doc /\ hist \in History /\ hist.depth <= MaxDepth /\ MaxDepth \in Nat
      /\ hist.depth = 0 => hist.pending = <<>> /\ hist.tag = "Bulk"
      /\ dirty \in BOOLEAN /\ revision \in Nat /\ snap.rev \in -1..revision
      /\ ret \in Pos /\ InGrid(lines, ret)
  BY DEF BufInv, BufTypes, BufferIs
<1>2. /\ hist.undo \in Seq(Unit) /\ hist.redo \in Seq(Unit)
      /\ hist.depth \in Nat /\ hist.tag \in Kinds
  BY <1>1 DEF History
<1>3. ASSUME NEW s \in Seq(Unit), NEW i \in 1..Len(s) PROVE IsUnit(s[i])
  <2> DEFINE unit == s[i]
  <2>1. unit \in Seq(BufChange) /\ unit # <<>>
    BY <1>3, ElementOfSeq DEF Unit
  <2>. HIDE DEF unit
  <2>2. ASSUME NEW j \in 1..Len(unit) PROVE IsChange(unit[j])
    <3>1. unit[j] \in BufChange
      BY <2>1, <2>2, ElementOfSeq
    <3>. QED BY <3>1 DEF BufChange, Change, IsChange, PosType, Pos, Kinds, Doc
  <2>3. IsUnit(unit)
    BY <2>1, <2>2 DEF IsUnit
  <2>. QED BY <2>3 DEF unit
<1>4. lines # <<>> /\ lines \in Seq(Seq(Char))
  BY <1>1 DEF Doc, Line
<1>5. ret.line \in 0..(Len(lines) - 1) /\ ret.col \in 0..Len(LineOf(lines, ret.line))
  <2>1. /\ Len(lines) \in Nat \ {0} /\ ret.line \in Nat /\ ret.col \in Nat
        /\ ret.line < Len(lines) /\ ret.col <= Len(lines[ret.line + 1])
    BY <1>1, DocLines DEF InGrid, Pos
  <2>2. ret.line \in 0..(Len(lines) - 1) /\ ret.line + 1 \in 1..Len(lines)
    BY <2>1
  <2>3. LineOf(lines, ret.line) = lines[ret.line + 1]
    BY DEF LineOf
  <2>4. Len(lines[ret.line + 1]) \in Nat
    <3>1. lines[ret.line + 1] \in Seq(Char)
      BY <1>4, <2>2, ElementOfSeq
    <3>. QED BY <3>1, LenProperties
  <2>. QED BY <2>1, <2>2, <2>3, <2>4
<1>6. /\ \A i \in 1..Len(hist.undo) : IsUnit(hist.undo[i])
      /\ \A i \in 1..Len(hist.redo) : IsUnit(hist.redo[i])
  BY <1>2, <1>3
<1>7. hist.depth \in 0..MaxDepth
  BY <1>1, <1>2
<1>8. /\ hist.tag \in Kinds /\ (hist.depth = 0 => hist.pending = <<>> /\ hist.tag = "Bulk")
      /\ dirty \in BOOLEAN /\ revision \in Nat /\ snap.rev \in -1..revision
  BY <1>1, <1>2
<1>. QED BY Zenon, <1>4, <1>5, <1>6, <1>7, <1>8 DEF TypeOK

(* The unit that the next undo or redo replays fits the text.              *)
LEMMA BufFits == BufInv => NoDrift
<1>. SUFFICES ASSUME BufInv, hist.depth = 0
              PROVE  /\ hist.undo # <<>> => UndoFits(lines, Final(hist.undo))
                     /\ hist.redo # <<>> => RedoFits(lines, Final(hist.redo))
  BY DEF NoDrift
<1> DEFINE p == BufPast
           q == BufFuture
           com == Committed
<1>1. /\ lines \in Doc /\ hist \in History /\ hist.pending = <<>>
      /\ Told(hist, lines, p, com, q)
  BY DEF BufInv, BufTypes
<1>. HIDE DEF p, q, com
<1>2. ASSUME hist.undo # <<>> PROVE UndoFits(lines, Final(hist.undo))
  <2>1. /\ Final(p) \in Doc /\ Final(hist.undo) \in Unit
        /\ Story(Final(p), Final(hist.undo), lines)
    BY <1>1, <1>2, ParkTold
  <2>2. Final(hist.undo) \in Seq(BufChange)
    BY <2>1 DEF Unit
  <2>. QED BY <2>1, <2>2, ReplaysFit
<1>3. ASSUME hist.redo # <<>> PROVE RedoFits(lines, Final(hist.redo))
  <2>1. Final(hist.redo) \in Unit /\ Story(lines, Final(hist.redo), Final(q))
    BY <1>1, <1>3, ReturnTold
  <2>2. Final(hist.redo) \in Seq(BufChange)
    BY <2>1 DEF Unit
  <2>. QED BY <1>1, <2>1, <2>2, ReplaysFit
<1>. QED BY <1>2, <1>3

-----------------------------------------------------------------------------
(***************************************************************************)
(* The flat text of a document.                                            *)
(***************************************************************************)
Flat(doc) == FlatLines(doc)
Symbols   == Char \cup {NL}
Flattens(f, doc) ==
    /\ f[1] = doc[1]
    /\ \A i \in 2..Len(doc) : f[i] = f[i - 1] \o <<NL>> \o doc[i]

(* Line by line.                                                           *)
LEMMA FlatIs ==
    ASSUME NEW doc \in Doc
    PROVE  \E f \in [1..Len(doc) -> Seq(Symbols)] : Flattens(f, doc) /\ Flat(doc) = f[Len(doc)]
<1> DEFINE n == Len(doc)
           V == Seq(Symbols)
           NLs == <<NL>>
           Walk(f) == f = [i \in 1..n |-> IF i = 1 THEN doc[1] ELSE f[i - 1] \o NLs \o doc[i]]
           flat == CHOOSE f : Walk(f)
           G == [x \in V \X (1..n) |-> IF x[2] = 1 THEN doc[1] ELSE x[1] \o NLs \o doc[x[2]]]
<1>1. n \in Nat \ {0} /\ \A i \in 1..n : doc[i] \in V
  <2>1. n \in Nat \ {0} /\ doc \in Seq(Line)
    BY DocLines
  <2>2. \A i \in 1..n : doc[i] \in Seq(Char)
    BY <2>1, ElementOfSeq DEF Line
  <2>3. \A x \in Seq(Char) : x \in V
    BY SeqMonotonic DEF Symbols
  <2>. QED BY <2>1, <2>2, <2>3
<1>2. NLs \in V /\ <<>> \in V
  BY EmptySeq DEF Symbols
<1>3. \A v \in V, x \in V : v \o NLs \o x \in V
  <2>1. ASSUME NEW v \in V, NEW x \in V PROVE v \o NLs \o x \in V
    <3> DEFINE head == v \o NLs
    <3>1. head \in V
      BY <1>2, ConcatProperties
    <3>. HIDE DEF head, NLs, V
    <3>2. head \o x \in V
      <4>. USE DEF V
      <4>. QED BY <3>1, ConcatProperties
    <3>. QED BY <3>2 DEF head
  <2>. QED BY <2>1
<1>. HIDE DEF NLs
<1>4. G \in [V \X (1..n) -> V]
  <2>1. ASSUME NEW x \in V \X (1..n)
        PROVE  (IF x[2] = 1 THEN doc[1] ELSE x[1] \o NLs \o doc[x[2]]) \in V
    <3>1. x[1] \in V /\ x[2] \in 1..n /\ 1 \in 1..n
      BY <1>1
    <3>. QED BY <1>1, <1>3, <3>1
  <2>. HIDE DEF V
  <2>. QED BY <2>1
<1>5. \A v \in V, i \in 1..n : G[<<v, i>>] = IF i = 1 THEN doc[1] ELSE v \o NLs \o doc[i]
  <2>. HIDE DEF V
  <2>. QED OBVIOUS
<1>. HIDE DEF G, V, n
<1>6. PICK g : FoldOf(g, V, <<>>, n, G)
  BY <1>1, <1>2, <1>4, FoldExists
<1> DEFINE w == [i \in 1..n |-> g[1..i]]
<1>7. w \in [1..n -> V]
  <2>1. \A i \in 1..n : 1..i \in SUBSET (1..n)
    BY <1>1
  <2>2. g \in [SUBSET (1..n) -> V]
    BY <1>6 DEF FoldOf
  <2>. QED BY <2>1, <2>2
<1>8. ASSUME NEW i \in 1..n PROVE w[i] = IF i = 1 THEN doc[1] ELSE w[i - 1] \o NLs \o doc[i]
  <2>1. /\ 1..i \in SUBSET (1..n) /\ 1..i # {} /\ (1..i) \ {i} = 1..(i - 1)
        /\ 1..(i - 1) \in SUBSET (1..n) /\ i - 1 \in Nat /\ (i - 1) + 1 = i /\ i \in 1..i
    BY <1>1
  <2>2. Max(1..i) = i
    BY <2>1, LastOfInterval
  <2>3. g[1..i] = G[<<g[1..(i - 1)], i>>]
    BY <1>6, <2>1, <2>2 DEF FoldOf
  <2>4. g[1..(i - 1)] \in V
    BY <1>6, <2>1 DEF FoldOf
  <2>5. g[1..i] = IF i = 1 THEN doc[1] ELSE g[1..(i - 1)] \o NLs \o doc[i]
    BY <1>5, <2>3, <2>4
  <2>6. i # 1 => i - 1 \in 1..n
    BY <1>1
  <2>. QED BY <2>5, <2>6
<1>. HIDE DEF w
<1>9. Walk(w)
  <2>1. w = [i \in 1..n |-> w[i]]
    BY <1>7
  <2>2. [i \in 1..n |-> w[i]]
          = [i \in 1..n |-> IF i = 1 THEN doc[1] ELSE w[i - 1] \o NLs \o doc[i]]
    BY <1>8
  <2>. QED BY <2>1, <2>2
<1>10. Walk(flat)
  <2>. HIDE DEF Walk
  <2>. QED BY <1>9
<1>. HIDE DEF flat
<1>11. /\ flat[1] = doc[1] /\ \A i \in 2..n : flat[i] = flat[i - 1] \o NLs \o doc[i]
       /\ DOMAIN flat = 1..n
  <2>1. 1 \in 1..n /\ \A i \in 2..n : i \in 1..n /\ i # 1
    BY <1>1
  <2>. QED BY <1>10, <2>1
<1>12. \A i \in 1..n : flat[i] \in V
  <2> DEFINE s == {k \in Nat : k + 1 <= n => flat[k + 1] \in V}
  <2>1. 0 \in s
    BY <1>1, <1>11
  <2>2. ASSUME NEW k \in Nat, k \in s PROVE k + 1 \in s
    <3>1. SUFFICES ASSUME (k + 1) + 1 <= n PROVE flat[(k + 1) + 1] \in V
      OBVIOUS
    <3>2. k + 1 <= n /\ (k + 1) + 1 \in 2..n /\ ((k + 1) + 1) - 1 = k + 1 /\ (k + 1) + 1 \in 1..n
      BY <1>1, <3>1
    <3>3. flat[k + 1] \in V
      BY <2>2, <3>2
    <3>4. flat[(k + 1) + 1] = flat[k + 1] \o NLs \o doc[(k + 1) + 1]
      BY <1>11, <3>2
    <3>. QED BY <1>1, <1>3, <3>2, <3>3, <3>4
  <2>. HIDE DEF s
  <2>3. Nat \subseteq s
    BY <2>1, <2>2, Induction
  <2>4. ASSUME NEW i \in 1..n PROVE flat[i] \in V
    <3>1. i - 1 \in Nat /\ (i - 1) + 1 = i /\ i <= n
      BY <1>1
    <3>2. i - 1 \in s
      BY <2>3, <3>1
    <3>. QED BY <3>1, <3>2 DEF s
  <2>. QED BY <2>4
<1>13. flat \in [1..n -> V]
  <2>1. flat = [i \in 1..n |-> flat[i]]
    BY <1>10
  <2>. QED BY <1>12, <2>1
<1>14. Flattens(flat, doc)
  BY <1>11 DEF Flattens, NLs, n
<1>15. Flat(doc) = flat[n]
  BY DEF Flat, FlatLines, flat, Walk, NLs, n
<1>. QED BY <1>13, <1>14, <1>15 DEF V, n

-----------------------------------------------------------------------------
(* From 1 upwards.                                                         *)
LEMMA Upwards ==
    ASSUME NEW n \in Nat, NEW S, 1 \in S, \A i \in 1..n : i \in S /\ i + 1 \in 1..n => i + 1 \in S
    PROVE  \A i \in 1..n : i \in S
<1> DEFINE s == {k \in Nat : k + 1 \in 1..n => k + 1 \in S}
<1>1. 0 \in s
  OBVIOUS
<1>2. ASSUME NEW k \in Nat, k \in s PROVE k + 1 \in s
  <2>1. SUFFICES ASSUME (k + 1) + 1 \in 1..n PROVE (k + 1) + 1 \in S
    OBVIOUS
  <2>2. k + 1 \in 1..n
    BY <2>1
  <2>3. k + 1 \in S
    BY <1>2, <2>2
  <2>. QED BY <2>1, <2>2, <2>3
<1>. HIDE DEF s
<1>3. Nat \subseteq s
  BY <1>1, <1>2, Induction
<1>4. ASSUME NEW i \in 1..n PROVE i \in S
  <2>1. i - 1 \in Nat /\ (i - 1) + 1 = i
    BY <1>4
  <2>2. i - 1 \in s
    BY <1>3, <2>1
  <2>. QED BY <2>1, <2>2 DEF s
<1>. QED BY <1>4

(* A flat text is a sequence of characters and newlines.                   *)
LEMMA FlatTypes ==
    /\ \A doc \in Doc : Flat(doc) \in Seq(Symbols)
    /\ \A text \in Seq(Char) : text \in Seq(Symbols)
    /\ <<NL>> \in Seq(Symbols) /\ <<>> \in Seq(Symbols)
<1>1. ASSUME NEW doc \in Doc PROVE Flat(doc) \in Seq(Symbols)
  <2>1. PICK f \in [1..Len(doc) -> Seq(Symbols)] : Flat(doc) = f[Len(doc)]
    BY FlatIs
  <2>2. Len(doc) \in 1..Len(doc)
    BY DocLines
  <2>. HIDE DEF Flat
  <2>. QED BY <2>1, <2>2
<1>2. \A text \in Seq(Char) : text \in Seq(Symbols)
  BY SeqMonotonic DEF Symbols
<1>3. <<NL>> \in Seq(Symbols) /\ <<>> \in Seq(Symbols)
  BY EmptySeq DEF Symbols
<1>. QED BY <1>1, <1>2, <1>3

(* One text after another.                                                 *)
Cat(a, b) == a \o b

(* Texts put together are a text, in whatever order they are put together. *)
LEMMA CatIs ==
    ASSUME NEW S, NEW a \in Seq(S), NEW b \in Seq(S), NEW c \in Seq(S)
    PROVE  /\ Cat(a, b) \in Seq(S) /\ Cat(Cat(a, b), c) = Cat(a, Cat(b, c))
           /\ Cat(<<>>, a) = a /\ Cat(a, <<>>) = a
           /\ Len(Cat(a, b)) = Len(a) + Len(b)
<1>1. (a \o b) \o c = a \o (b \o c)
  BY ConcatAssociative
<1>2. a \o b \in Seq(S) /\ Len(a \o b) = Len(a) + Len(b)
  BY ConcatProperties
<1>3. <<>> \o a = a /\ a \o <<>> = a
  BY ConcatEmptySeq
<1>. QED BY <1>1, <1>2, <1>3 DEF Cat

(* The same of flat texts.                                                 *)
LEMMA Texts3 ==
    \A a, b, c \in Seq(Symbols) :
        /\ Cat(a, b) \in Seq(Symbols) /\ Cat(Cat(a, b), c) = Cat(a, Cat(b, c))
        /\ Cat(<<>>, a) = a /\ Cat(a, <<>>) = a
        /\ Len(Cat(a, b)) = Len(a) + Len(b)
  BY CatIs

(* One line.                                                               *)
LEMMA FlatOne ==
    ASSUME NEW text \in Seq(Char)
    PROVE  <<text>> \in Doc /\ Flat(<<text>>) = text
<1> DEFINE doc == <<text>>
<1>1. doc \in Doc /\ Len(doc) = 1 /\ doc[1] = text
  BY DEF Doc, Line
<1>. HIDE DEF doc
<1>2. PICK f \in [1..Len(doc) -> Seq(Symbols)] : Flattens(f, doc) /\ Flat(doc) = f[Len(doc)]
  BY <1>1, FlatIs
<1>3. Flat(doc) = text
  BY <1>1, <1>2 DEF Flattens
<1>. QED BY <1>1, <1>3 DEF doc

(* A document above another.                                               *)
LEMMA FlatConcat ==
    ASSUME NEW d \in Doc, NEW e \in Doc
    PROVE  d \o e \in Doc /\ Flat(d \o e) = Flat(d) \o <<NL>> \o Flat(e)
<1> DEFINE de  == d \o e
           m   == Len(d)
           k   == Len(e)
           V   == Seq(Symbols)
           NLs == <<NL>>
<1>1. /\ m \in Nat \ {0} /\ k \in Nat \ {0} /\ d \in Seq(Line) /\ e \in Seq(Line)
  BY DocLines
<1>2. /\ de \in Seq(Line) /\ Len(de) = m + k
      /\ \A i \in 1..m : de[i] = d[i]
      /\ \A i \in (m + 1)..(m + k) : de[i] = e[i - m]
  BY <1>1, ConcatRegions
<1>3. de \in Doc
  <2>1. Len(de) # 0 /\ Len(<<>>) = 0
    BY <1>1, <1>2, EmptySeq
  <2>. HIDE DEF de
  <2>. QED BY <1>2, <2>1 DEF Doc
<1>. HIDE DEF de, m, k
<1>4. PICK f \in [1..(m + k) -> V] : Flattens(f, de) /\ Flat(de) = f[m + k]
  BY <1>2, <1>3, FlatIs
<1>5. PICK g \in [1..m -> V] : Flattens(g, d) /\ Flat(d) = g[m]
  BY FlatIs DEF m
<1>6. PICK h \in [1..k -> V] : Flattens(h, e) /\ Flat(e) = h[k]
  BY FlatIs DEF k
<1>7. NLs \in V /\ \A j \in 1..k : e[j] \in V
  <2>1. \A j \in 1..k : e[j] \in Seq(Char)
    BY <1>1, ElementOfSeq DEF k, Line
  <2>. QED BY <2>1, FlatTypes
<1>. HIDE DEF NLs
<1>8. /\ f[1] = de[1] /\ \A i \in 2..(m + k) : f[i] = f[i - 1] \o NLs \o de[i]
      /\ g[1] = d[1] /\ \A i \in 2..m : g[i] = g[i - 1] \o NLs \o d[i]
      /\ h[1] = e[1] /\ \A i \in 2..k : h[i] = h[i - 1] \o NLs \o e[i]
  BY <1>2, <1>4, <1>5, <1>6 DEF Flattens, NLs, m, k
<1>9. \A i \in 1..m : f[i] = g[i]
  <2> DEFINE S == {i \in 1..m : f[i] = g[i]}
  <2>1. 1 \in S
    <3>1. 1 \in 1..m
      BY <1>1
    <3>. QED BY <1>2, <1>8, <3>1
  <2>2. ASSUME NEW i \in 1..m, i \in S /\ i + 1 \in 1..m PROVE i + 1 \in S
    <3>1. i + 1 \in 2..m /\ i + 1 \in 2..(m + k) /\ (i + 1) - 1 = i
      BY <1>1, <2>2
    <3>2. f[i + 1] = f[i] \o NLs \o de[i + 1] /\ g[i + 1] = g[i] \o NLs \o d[i + 1]
      BY <1>8, <3>1
    <3>. QED BY <1>2, <2>2, <3>2
  <2>. HIDE DEF S
  <2>3. \A i \in 1..m : i \in S
    BY <1>1, <2>1, <2>2, Upwards
  <2>. QED BY <2>3 DEF S
<1> DEFINE X == g[m] \o NLs
<1>10. X \in V
  <2>1. g[m] \in V
    BY <1>1
  <2>. QED BY <1>7, <2>1, ConcatProperties
<1>11. \A j \in 1..k : f[m + j] = X \o h[j]
  <2> DEFINE S == {j \in 1..k : f[m + j] = X \o h[j]}
  <2>1. 1 \in S
    <3>1. 1 \in 1..k /\ m + 1 \in 2..(m + k) /\ (m + 1) - 1 = m /\ m \in 1..m
          /\ m + 1 \in (m + 1)..(m + k) /\ (m + 1) - m = 1
      BY <1>1
    <3>2. f[m + 1] = f[m] \o NLs \o de[m + 1] /\ f[m] = g[m] /\ de[m + 1] = e[1]
      BY <1>2, <1>8, <1>9, <3>1
    <3>. QED BY <1>8, <3>1, <3>2
  <2>2. ASSUME NEW j \in 1..k, j \in S /\ j + 1 \in 1..k PROVE j + 1 \in S
    <3> DEFINE y == e[j + 1]
    <3>1. /\ m + (j + 1) \in 2..(m + k) /\ (m + (j + 1)) - 1 = m + j
          /\ m + (j + 1) \in (m + 1)..(m + k) /\ (m + (j + 1)) - m = j + 1
          /\ j + 1 \in 2..k /\ (j + 1) - 1 = j
      BY <1>1, <2>2
    <3>2. f[m + (j + 1)] = f[m + j] \o NLs \o y
      <4>1. f[m + (j + 1)] = f[(m + (j + 1)) - 1] \o NLs \o de[m + (j + 1)]
        BY <1>8, <3>1
      <4>2. de[m + (j + 1)] = e[(m + (j + 1)) - m]
        BY <1>2, <3>1
      <4>. QED BY <3>1, <4>1, <4>2
    <3>3. h[j + 1] = h[j] \o NLs \o y /\ h[j] \in V /\ y \in V
      BY <1>7, <1>8, <2>2, <3>1
    <3>4. f[m + j] = X \o h[j]
      BY <2>2
    <3>. HIDE DEF X, V, y
    <3>5. f[m + (j + 1)] = Cat(Cat(Cat(X, h[j]), NLs), y) /\ h[j + 1] = Cat(Cat(h[j], NLs), y)
      BY <3>2, <3>3, <3>4 DEF Cat
    <3>6. X \in V /\ h[j] \in V /\ NLs \in V /\ y \in V
      BY <1>7, <1>10, <3>3
    <3>7. f[m + (j + 1)] = Cat(X, h[j + 1])
      BY <3>5, <3>6, Texts3 DEF V
    <3>8. f[m + (j + 1)] = X \o h[j + 1]
      BY <3>7 DEF Cat
    <3>. QED BY <2>2, <3>8
  <2>. HIDE DEF S
  <2>3. \A j \in 1..k : j \in S
    BY <1>1, <2>1, <2>2, Upwards
  <2>. QED BY <2>3 DEF S
<1>12. Flat(de) = X \o h[k]
  <2>1. k \in 1..k
    BY <1>1
  <2>. HIDE DEF X, Flat
  <2>. QED BY <1>4, <1>11, <2>1
<1>13. Flat(de) = Flat(d) \o NLs \o Flat(e)
  BY <1>5, <1>6, <1>12
<1>. QED BY <1>3, <1>13 DEF de, NLs

(* A document between two pieces of text that join its first line and its  *)
(* last.                                                                   *)
LEMMA FlatBetween ==
    ASSUME NEW doc \in Doc, NEW up \in Seq(Char), NEW tail \in Seq(Char)
    PROVE  LET new == [i \in 1..Len(doc) |-> (IF i = 1 THEN up ELSE <<>>) \o doc[i]
                                               \o (IF i = Len(doc) THEN tail ELSE <<>>)]
           IN  new \in Doc /\ Flat(new) = up \o Flat(doc) \o tail
<1> DEFINE n     == Len(doc)
           V     == Seq(Symbols)
           NLs   == <<NL>>
           A(i)  == IF i = 1 THEN up ELSE <<>>
           Z(i)  == IF i = n THEN tail ELSE <<>>
           new   == [i \in 1..n |-> A(i) \o doc[i] \o Z(i)]
<1>1. n \in Nat \ {0} /\ \A i \in 1..n : doc[i] \in Seq(Char)
  BY DocLines, ElementOfSeq DEF Line
<1>2. \A i : A(i) \in Seq(Char) /\ Z(i) \in Seq(Char)
  BY EmptySeq
<1>. HIDE DEF n, A, Z
<1>3. \A i \in 1..n : A(i) \o doc[i] \o Z(i) \in Seq(Char)
  BY <1>1, <1>2, ThreeParts
<1>4. new \in Doc /\ Len(new) = n /\ \A i \in 1..n : new[i] = A(i) \o doc[i] \o Z(i)
  <2>1. new \in [1..n -> Line] /\ DOMAIN new = 1..n
    BY <1>3 DEF Line
  <2>2. \A i \in 1..n : new[i] = A(i) \o doc[i] \o Z(i)
    OBVIOUS
  <2>. HIDE DEF new
  <2>3. new \in Seq(Line)
    BY <1>1, <2>1, IsASeq
  <2>4. Len(new) = n
    BY <1>1, <2>1, <2>3, LenProperties
  <2>5. Len(<<>>) = 0
    BY EmptySeq
  <2>. QED BY <1>1, <2>2, <2>3, <2>4, <2>5 DEF Doc
<1>. HIDE DEF new
<1>5. PICK f \in [1..n -> V] : Flattens(f, new) /\ Flat(new) = f[n]
  BY <1>4, FlatIs
<1>6. PICK g \in [1..n -> V] : Flattens(g, doc) /\ Flat(doc) = g[n]
  BY FlatIs DEF n
<1>7. /\ NLs \in V /\ up \in V /\ <<>> \in V /\ \A i \in 1..n : doc[i] \in V
      /\ \A i : Z(i) \in V
  BY <1>1, <1>2, FlatTypes
<1>. HIDE DEF NLs
<1>8. /\ f[1] = new[1] /\ \A i \in 2..n : f[i] = f[i - 1] \o NLs \o new[i]
      /\ g[1] = doc[1] /\ \A i \in 2..n : g[i] = g[i - 1] \o NLs \o doc[i]
  BY <1>4, <1>5, <1>6 DEF Flattens, NLs, n
<1>9. \A i \in 1..n : f[i] = up \o g[i] \o Z(i)
  <2> DEFINE S == {i \in 1..n : f[i] = up \o g[i] \o Z(i)}
  <2>1. 1 \in S
    <3>1. 1 \in 1..n /\ A(1) = up
      BY <1>1 DEF A
    <3>. QED BY <1>4, <1>8, <3>1
  <2>2. ASSUME NEW i \in 1..n, i \in S /\ i + 1 \in 1..n PROVE i + 1 \in S
    <3> DEFINE y == doc[i + 1]
               z == Z(i + 1)
               x == g[i]
    <3>1. i + 1 \in 2..n /\ (i + 1) - 1 = i /\ i # n /\ i + 1 # 1
      BY <1>1, <2>2
    <3>2. Z(i) = <<>> /\ A(i + 1) = <<>>
      BY <3>1 DEF Z, A
    <3>3. x \in V /\ y \in V /\ z \in V /\ f[i] = up \o x \o <<>>
      BY <1>7, <2>2, <3>2
    <3>4. f[i + 1] = f[i] \o NLs \o (<<>> \o y \o z) /\ g[i + 1] = x \o NLs \o y
      BY <1>4, <1>8, <2>2, <3>1, <3>2
    <3>. HIDE DEF x, y, z, V
    <3>5. /\ f[i] = Cat(Cat(up, x), <<>>) /\ g[i + 1] = Cat(Cat(x, NLs), y)
          /\ f[i + 1] = Cat(Cat(f[i], NLs), Cat(Cat(<<>>, y), z))
      BY <3>3, <3>4 DEF Cat
    <3>6. up \in V /\ x \in V /\ NLs \in V /\ y \in V /\ z \in V
      BY <1>7, <3>3
    <3>7. f[i + 1] = Cat(Cat(up, g[i + 1]), z)
      <4>1. /\ Cat(up, x) \in V /\ Cat(x, NLs) \in V /\ Cat(Cat(x, NLs), y) \in V
            /\ Cat(up, Cat(x, NLs)) \in V
        BY <3>6, Texts3 DEF V
      <4>2. f[i + 1] = Cat(Cat(Cat(up, x), NLs), Cat(y, z))
        BY <3>5, <3>6, <4>1, Texts3 DEF V
      <4>3. Cat(Cat(up, x), NLs) = Cat(up, Cat(x, NLs))
        BY <3>6, Texts3 DEF V
      <4>4. f[i + 1] = Cat(Cat(Cat(up, Cat(x, NLs)), y), z)
        BY <3>6, <4>1, <4>2, <4>3, Texts3 DEF V
      <4>. QED BY <3>5, <3>6, <4>1, <4>4, Texts3 DEF V
    <3>8. f[i + 1] = up \o g[i + 1] \o z
      BY <3>7 DEF Cat
    <3>. QED BY <2>2, <3>8 DEF z
  <2>. HIDE DEF S
  <2>3. \A i \in 1..n : i \in S
    BY <1>1, <2>1, <2>2, Upwards
  <2>. QED BY <2>3 DEF S
<1>10. Flat(new) = up \o Flat(doc) \o tail
  <2>1. n \in 1..n /\ Z(n) = tail
    BY <1>1 DEF Z
  <2>. HIDE DEF Flat
  <2>. QED BY <1>5, <1>6, <1>9, <2>1
<1>. QED BY <1>4, <1>10 DEF new, A, Z, n

-----------------------------------------------------------------------------
(* What stands above line f of a document, and from line f on below.       *)
NLs == <<NL>>
Above(doc, f) == IF f = 0 THEN <<>> ELSE Cat(Flat(SubSeq(doc, 1, f)), NLs)
Below(doc, f) == IF f = Len(doc) THEN <<>> ELSE Cat(NLs, Flat(SubSeq(doc, f + 1, Len(doc))))

(* Both are texts, and the lines on either side are documents.             *)
LEMMA AboveBelow ==
    ASSUME NEW doc \in Doc, NEW f \in 0..Len(doc)
    PROVE  /\ Above(doc, f) \in Seq(Symbols) /\ Below(doc, f) \in Seq(Symbols)
           /\ f # 0 => SubSeq(doc, 1, f) \in Doc
           /\ f # Len(doc) => SubSeq(doc, f + 1, Len(doc)) \in Doc
           /\ f = 0 => SubSeq(doc, 1, f) = <<>>
           /\ f = Len(doc) => SubSeq(doc, f + 1, Len(doc)) = <<>>
<1>1. Len(doc) \in Nat \ {0} /\ f \in Nat
  BY DocLines
<1>2. ASSUME f # 0 PROVE SubSeq(doc, 1, f) \in Doc
  <2>1. 0 \in Nat /\ f \in (0 + 1)..Len(doc)
    BY <1>1, <1>2
  <2>2. SubSeq(doc, 0 + 1, f) \in Doc
    BY <2>1, SpanOfDoc
  <2>. QED BY <2>2
<1>3. ASSUME f # Len(doc) PROVE SubSeq(doc, f + 1, Len(doc)) \in Doc
  <2>1. Len(doc) \in (f + 1)..Len(doc)
    BY <1>1, <1>3
  <2>. QED BY <1>1, <2>1, SpanOfDoc
<1>4. f = 0 => SubSeq(doc, 1, f) = <<>>
  BY SubSeqEmpty
<1>5. f = Len(doc) => SubSeq(doc, f + 1, Len(doc)) = <<>>
  BY <1>1, SubSeqEmpty
<1>6. NLs \in Seq(Symbols) /\ <<>> \in Seq(Symbols) /\ \A d \in Doc : Flat(d) \in Seq(Symbols)
  BY FlatTypes DEF NLs
<1>7. Above(doc, f) \in Seq(Symbols)
  BY <1>2, <1>6, Texts3 DEF Above
<1>8. Below(doc, f) \in Seq(Symbols)
  BY <1>3, <1>6, Texts3 DEF Below
<1>. QED BY <1>2, <1>3, <1>4, <1>5, <1>7, <1>8

(* Lines exchanged for others.                                             *)
LEMMA FlatSplice ==
    ASSUME NEW doc \in Doc, NEW f \in Nat, NEW n \in Nat, f + n <= Len(doc), NEW new \in Doc
    PROVE  /\ Splice(doc, f, n, new) \in Doc
           /\ Flat(Splice(doc, f, n, new)) = Cat(Cat(Above(doc, f), Flat(new)), Below(doc, f + n))
<1> DEFINE up   == SubSeq(doc, 1, f)
           down == SubSeq(doc, f + n + 1, Len(doc))
           mid  == up \o new
<1>1. Len(doc) \in Nat /\ f \in 0..Len(doc) /\ f + n \in 0..Len(doc) /\ new \in Seq(Line)
  BY DocLines
<1>2. NLs \in Seq(Symbols) /\ \A d \in Doc : Flat(d) \in Seq(Symbols)
  BY FlatTypes DEF NLs
<1>3. \A d, e \in Doc : d \o e \in Doc /\ Flat(d \o e) = Cat(Cat(Flat(d), NLs), Flat(e))
  BY FlatConcat DEF Cat, NLs
<1>4. /\ f # 0 => up \in Doc
      /\ f = 0 => up = <<>>
      /\ f + n # Len(doc) => down \in Doc
      /\ f + n = Len(doc) => down = <<>>
      /\ Above(doc, f) = (IF f = 0 THEN <<>> ELSE Cat(Flat(up), NLs))
      /\ Below(doc, f + n) = (IF f + n = Len(doc) THEN <<>> ELSE Cat(NLs, Flat(down)))
      /\ Above(doc, f) \in Seq(Symbols)
  BY <1>1, AboveBelow DEF Above, Below
<1>5. Splice(doc, f, n, new) = mid \o down
  BY DEF Splice
<1>. HIDE DEF up, down
<1>6. mid \in Doc /\ Flat(mid) = Cat(Above(doc, f), Flat(new))
  <2>1. CASE f = 0
    <3>1. mid = new
      BY <1>1, <1>4, <2>1, ConcatEmptySeq
    <3>. QED BY <1>2, <1>4, <2>1, <3>1, Texts3
  <2>2. CASE f # 0
    BY <1>3, <1>4, <2>2
  <2>. QED BY <2>1, <2>2
<1>. HIDE DEF mid
<1>7. mid \o down \in Doc /\ Flat(mid \o down) = Cat(Flat(mid), Below(doc, f + n))
  <2>1. CASE f + n = Len(doc)
    <3>1. mid \in Seq(Line)
      BY <1>6, DocLines
    <3>2. mid \o down = mid
      BY <1>4, <2>1, <3>1, ConcatEmptySeq
    <3>. QED BY <1>2, <1>4, <1>6, <2>1, <3>2, Texts3
  <2>2. CASE f + n # Len(doc)
    <3>1. down \in Doc /\ Below(doc, f + n) = Cat(NLs, Flat(down))
      BY <1>4, <2>2
    <3>2. mid \o down \in Doc /\ Flat(mid \o down) = Cat(Cat(Flat(mid), NLs), Flat(down))
      BY <1>3, <1>6, <3>1
    <3>3. Flat(mid) \in Seq(Symbols) /\ Flat(down) \in Seq(Symbols) /\ NLs \in Seq(Symbols)
      BY <1>2, <1>6, <3>1
    <3>4. Cat(Cat(Flat(mid), NLs), Flat(down)) = Cat(Flat(mid), Cat(NLs, Flat(down)))
      BY <3>3, Texts3
    <3>. QED BY <3>1, <3>2, <3>4
  <2>. QED BY <2>1, <2>2
<1>. QED BY <1>5, <1>6, <1>7

(* A document around one of its lines.                                     *)
LEMMA FlatAround ==
    ASSUME NEW doc \in Doc, NEW l \in 0..LastLine(doc)
    PROVE  /\ l \in Nat /\ l + 1 <= Len(doc) /\ LineOf(doc, l) \in Seq(Char)
           /\ LineOf(doc, l) \in Seq(Symbols)
           /\ Above(doc, l) \in Seq(Symbols) /\ Below(doc, l + 1) \in Seq(Symbols)
           /\ Flat(doc) = Cat(Cat(Above(doc, l), LineOf(doc, l)), Below(doc, l + 1))
<1> DEFINE b == LineOf(doc, l)
           d == Splice(doc, l, 1, <<b>>)
<1>1. /\ Len(doc) \in Nat \ {0} /\ l \in Nat /\ l + 1 \in 1..Len(doc) /\ b \in Seq(Char)
      /\ doc \in Seq(Line) /\ l \in 0..Len(doc) /\ l + 1 \in 0..Len(doc)
  <2>1. /\ Len(doc) \in Nat \ {0} /\ doc \in Seq(Line)
        /\ l \in Nat /\ l + 1 \in 1..Len(doc) /\ b \in Seq(Char)
    BY DocLines
  <2>. HIDE DEF b
  <2>. QED BY <2>1
<1>2. b = doc[l + 1]
  BY DEF LineOf
<1>. HIDE DEF b
<1>3. <<b>> \in Doc /\ Flat(<<b>>) = b
  BY <1>1, FlatOne
<1>4. d = doc
  <2> DEFINE new == <<b>>
  <2>1. new \in Seq(Line) /\ Len(new) = 1 /\ new[1] = b
    BY <1>1 DEF Line
  <2>. HIDE DEF new
  <2>2. d \in Seq(Line) /\ Spliced(d, doc, l, 1, new)
    <3>1. 1 \in Nat /\ l \in Nat /\ l + 1 <= Len(doc) /\ doc \in Seq(Line)
      BY <1>1
    <3>2. /\ Splice(doc, l, 1, new) \in Seq(Line)
          /\ Spliced(Splice(doc, l, 1, new), doc, l, 1, new)
      BY <2>1, <3>1, SpliceLines
    <3>. QED BY <3>2 DEF new
  <2>. HIDE DEF d
  <2>3. Len(d) = Len(doc)
    BY <1>1, <2>1, <2>2 DEF Spliced
  <2>4. ASSUME NEW i \in 1..Len(d) PROVE d[i] = doc[i]
    <3>1. CASE i \in 1..l
      BY <2>2, <3>1 DEF Spliced
    <3>2. CASE i = l + 1
      <4>1. i \in (l + 1)..(l + Len(new)) /\ i - l = 1
        BY <1>1, <2>1, <3>2
      <4>. QED BY <1>2, <2>1, <2>2, <3>2, <4>1 DEF Spliced
    <3>3. CASE i > l + 1
      <4>1. i \in (l + Len(new) + 1)..Len(d) /\ i - Len(new) + 1 = i
        BY <1>1, <2>1, <2>3, <3>3
      <4>2. d[i] = doc[i - Len(new) + 1]
        BY <2>2, <4>1 DEF Spliced
      <4>. QED BY <4>1, <4>2
    <3>. QED BY <1>1, <2>3, <3>1, <3>2, <3>3
  <2>. QED BY <1>1, <2>2, <2>3, <2>4, SeqEqual
<1>5. Flat(d) = Cat(Cat(Above(doc, l), Flat(<<b>>)), Below(doc, l + 1))
  BY <1>1, <1>3, FlatSplice
<1>6. Above(doc, l) \in Seq(Symbols) /\ Below(doc, l + 1) \in Seq(Symbols)
  BY <1>1, AboveBelow
<1>7. b \in Seq(Symbols) /\ l + 1 <= Len(doc)
  BY <1>1, FlatTypes
<1>. HIDE DEF d
<1>. QED BY <1>1, <1>3, <1>4, <1>5, <1>6, <1>7 DEF b

(* A text is cut where its first part ends.                                *)
LEMMA CutAt ==
    ASSUME NEW S, NEW a \in Seq(S), NEW b \in Seq(S)
    PROVE  Upto(Cat(a, b), Len(a)) = a /\ From(Cat(a, b), Len(a)) = b
<1> DEFINE m == Len(a)
           k == Len(b)
           t == Cat(a, b)
<1>1. /\ m \in Nat /\ k \in Nat /\ t \in Seq(S) /\ Len(t) = m + k
      /\ \A i \in 1..m : t[i] = a[i]
      /\ \A i \in (m + 1)..(m + k) : t[i] = b[i - m]
  BY ConcatRegions, LenProperties DEF Cat
<1>. HIDE DEF t
<1>2. \A i \in 1..(m + k) : t[i] \in S
  BY <1>1, ElementOfSeq
<1>. HIDE DEF m, k
<1> DEFINE x == SubSeq(t, 1, m)
           y == SubSeq(t, m + 1, m + k)
<1>3. x \in Seq(S) /\ Len(x) = m /\ \A i \in 1..m : x[i] = t[i]
  <2>1. \A i \in 1..m : t[i] \in S
    BY <1>1, <1>2
  <2>2. /\ x \in Seq(S) /\ Len(x) = (IF 1 <= m THEN m - 1 + 1 ELSE 0)
        /\ \A i \in 1..(m - 1 + 1) : x[i] = t[1 + i - 1]
    BY <1>1, <2>1, SubSeqProperties
  <2>3. /\ m - 1 + 1 = m /\ (IF 1 <= m THEN m ELSE 0) = m
        /\ \A i \in 1..m : 1 + i - 1 = i
    BY <1>1
  <2>. HIDE DEF x
  <2>. QED BY <2>2, <2>3
<1>4. y \in Seq(S) /\ Len(y) = k /\ \A i \in 1..k : y[i] = t[m + i]
  <2> DEFINE lo == m + 1
             hi == m + k
  <2>1. lo \in Int /\ hi \in Int /\ \A i \in lo..hi : t[i] \in S
    BY <1>1, <1>2
  <2>2. /\ hi - lo + 1 = k /\ (IF lo <= hi THEN k ELSE 0) = k
        /\ \A i \in 1..k : lo + i - 1 = m + i
    BY <1>1
  <2>3. y = SubSeq(t, lo, hi)
    OBVIOUS
  <2>. HIDE DEF lo, hi, y
  <2>4. /\ SubSeq(t, lo, hi) \in Seq(S)
        /\ Len(SubSeq(t, lo, hi)) = (IF lo <= hi THEN hi - lo + 1 ELSE 0)
        /\ \A i \in 1..(hi - lo + 1) : SubSeq(t, lo, hi)[i] = t[lo + i - 1]
    BY <2>1, SubSeqProperties
  <2>. QED BY <2>2, <2>3, <2>4
<1>5. x = a
  BY <1>1, <1>3, SeqEqual DEF m
<1>6. y = b
  <2>1. \A i \in 1..k : y[i] = b[i]
    <3>1. \A i \in 1..k : m + i \in (m + 1)..(m + k) /\ (m + i) - m = i
      BY <1>1
    <3>. QED BY <1>1, <1>4, <3>1
  <2>. HIDE DEF y
  <2>. QED BY <1>4, <2>1, SeqEqual DEF k
<1>. QED BY <1>1, <1>5, <1>6 DEF Upto, From, m, t

-----------------------------------------------------------------------------
(* Pieces of text between what stands above and below.                     *)
LEMMA Regrouped ==
    \A a, u, c, v, b \in Seq(Symbols) :
        /\ Cat(Cat(a, Cat(u, v)), b) = Cat(Cat(a, u), Cat(v, b))
        /\ Cat(Cat(a, Cat(Cat(u, c), v)), b) = Cat(Cat(Cat(a, u), c), Cat(v, b))
<1>1. SUFFICES ASSUME NEW a \in Seq(Symbols), NEW u \in Seq(Symbols), NEW c \in Seq(Symbols),
                      NEW v \in Seq(Symbols), NEW b \in Seq(Symbols)
               PROVE  /\ Cat(Cat(a, Cat(u, v)), b) = Cat(Cat(a, u), Cat(v, b))
                      /\ Cat(Cat(a, Cat(Cat(u, c), v)), b) = Cat(Cat(Cat(a, u), c), Cat(v, b))
  OBVIOUS
<1>2. ASSUME NEW x \in Seq(Symbols) PROVE Cat(Cat(a, Cat(x, v)), b) = Cat(Cat(a, x), Cat(v, b))
  <2>1. Cat(a, Cat(x, v)) = Cat(Cat(a, x), v)
    BY Texts3
  <2>2. Cat(a, x) \in Seq(Symbols)
    BY Texts3
  <2>3. Cat(Cat(Cat(a, x), v), b) = Cat(Cat(a, x), Cat(v, b))
    BY <2>2, Texts3
  <2>. QED BY <2>1, <2>3
<1>3. Cat(u, c) \in Seq(Symbols) /\ Cat(a, Cat(u, c)) = Cat(Cat(a, u), c)
  BY Texts3
<1>4. Cat(Cat(a, Cat(Cat(u, c), v)), b) = Cat(Cat(a, Cat(u, c)), Cat(v, b))
  BY <1>2, <1>3
<1>. QED BY <1>2, <1>3, <1>4

(* Where a position stands in the flat text.                               *)
LEMMA OffsetIs ==
    ASSUME NEW doc \in Doc, NEW p \in Pos
    PROVE  LET l == ClampLine(doc, p.line)
           IN  Offset(doc, p) = Len(Above(doc, l)) + CpToByte(LineOf(doc, l), p.col)
<1> DEFINE l  == ClampLine(doc, p.line)
           b  == LineOf(doc, l)
           at == CpToByte(b, p.col)
<1>1. l \in 0..LastLine(doc) /\ l \in Nat /\ at \in Nat
  <2>1. l \in 0..LastLine(doc) /\ l \in Nat /\ Len(b) \in Nat /\ at \in 0..Len(b)
    BY ClampedAt
  <2>. HIDE DEF l, b, at
  <2>. QED BY <2>1
<1>2. Offset(doc, p) = (IF l = 0 THEN 0 ELSE Len(Flat(SubSeq(doc, 1, l))) + 1) + at
  BY DEF Offset, Lesser, CpToByte, Flat
<1>. HIDE DEF l, b, at
<1>3. Len(Above(doc, l)) = IF l = 0 THEN 0 ELSE Len(Flat(SubSeq(doc, 1, l))) + 1
  <2>1. CASE l = 0
    BY <2>1, EmptySeq DEF Above
  <2>2. CASE l # 0
    <3> DEFINE t == Flat(SubSeq(doc, 1, l))
    <3>1. l \in 0..Len(doc)
      BY <1>1, DocLines
    <3>2. t \in Seq(Symbols) /\ NLs \in Seq(Symbols) /\ Len(NLs) = 1
      BY <2>2, <3>1, AboveBelow, FlatTypes DEF NLs
    <3>. HIDE DEF t
    <3>3. Len(Cat(t, NLs)) = Len(t) + 1
      <4>1. Len(Cat(t, NLs)) = Len(t) + Len(NLs)
        BY <3>2, Texts3
      <4>. QED BY <3>2, <4>1
    <3>. QED BY <2>2, <3>3 DEF Above, t
  <2>. QED BY <2>1, <2>2
<1>. QED BY <1>2, <1>3 DEF l, b, at

(* The two sides of a position.                                            *)
LEMMA SplitAt ==
    ASSUME NEW doc \in Doc, NEW p \in Pos
    PROVE  LET l  == ClampLine(doc, p.line)
               b  == LineOf(doc, l)
               at == CpToByte(b, p.col)
           IN  /\ Upto(Flat(doc), Offset(doc, p)) = Cat(Above(doc, l), Upto(b, at))
               /\ From(Flat(doc), Offset(doc, p)) = Cat(From(b, at), Below(doc, l + 1))
               /\ Upto(b, at) \in Seq(Symbols) /\ From(b, at) \in Seq(Symbols)
               /\ Above(doc, l) \in Seq(Symbols) /\ Below(doc, l + 1) \in Seq(Symbols)
<1> DEFINE l  == ClampLine(doc, p.line)
           b  == LineOf(doc, l)
           at == CpToByte(b, p.col)
<1>1. l \in 0..LastLine(doc) /\ l \in Nat /\ b \in Seq(Char) /\ Len(b) \in Nat /\ at \in 0..Len(b)
  BY ClampedAt
<1>2. Offset(doc, p) = Len(Above(doc, l)) + at
  BY OffsetIs
<1>. HIDE DEF l
<1>3. /\ Above(doc, l) \in Seq(Symbols) /\ Below(doc, l + 1) \in Seq(Symbols)
      /\ Flat(doc) = Cat(Cat(Above(doc, l), b), Below(doc, l + 1))
  BY <1>1, FlatAround
<1>. HIDE DEF b, at
<1> DEFINE u == Upto(b, at)
           v == From(b, at)
           x == Above(doc, l)
           y == Below(doc, l + 1)
<1>4. u \in Seq(Char) /\ Len(u) = at /\ v \in Seq(Char) /\ b = Cat(u, v)
  <2>1. u \in Seq(Char) /\ Len(u) = at /\ v \in Seq(Char)
    BY <1>1, TextParts
  <2>2. 1 \in 1..(Len(b) + 1) /\ at \in (1 - 1)..Len(b) /\ Len(b) \in at..Len(b)
    BY <1>1
  <2>3. SubSeq(b, 1, at) \o SubSeq(b, at + 1, Len(b)) = SubSeq(b, 1, Len(b))
    BY <1>1, <2>2, ConcatAdjacentSubSeq
  <2>4. SubSeq(b, 1, Len(b)) = b
    BY <1>1, SubSeqFull
  <2>. QED BY <2>1, <2>3, <2>4 DEF Cat, Upto, From
<1>. HIDE DEF u, v
<1>5. u \in Seq(Symbols) /\ v \in Seq(Symbols) /\ x \in Seq(Symbols) /\ y \in Seq(Symbols)
  BY <1>3, <1>4, FlatTypes
<1>. HIDE DEF x, y
<1>6. Flat(doc) = Cat(Cat(x, u), Cat(v, y))
  BY <1>3, <1>4, <1>5, Regrouped DEF x, y
<1>7. Cat(x, u) \in Seq(Symbols) /\ Cat(v, y) \in Seq(Symbols) /\ Len(Cat(x, u)) = Len(x) + at
  <2>1. Len(u) = at
    BY <1>4
  <2>. QED BY <1>5, <2>1, Texts3
<1>8. Upto(Flat(doc), Len(x) + at) = Cat(x, u) /\ From(Flat(doc), Len(x) + at) = Cat(v, y)
  <2> DEFINE left == Cat(x, u)
             right == Cat(v, y)
  <2>1. left \in Seq(Symbols) /\ right \in Seq(Symbols) /\ Len(left) = Len(x) + at
    BY <1>7
  <2>2. Flat(doc) = Cat(left, right)
    BY <1>6
  <2>. HIDE DEF left, right
  <2>3. Upto(Cat(left, right), Len(left)) = left /\ From(Cat(left, right), Len(left)) = right
    BY <2>1, CutAt
  <2>. QED BY <2>1, <2>2, <2>3 DEF left, right
<1>. QED BY <1>2, <1>5, <1>8 DEF l, b, at, u, v, x, y

-----------------------------------------------------------------------------
(* What stands before a position in the flat text, and what after it.      *)
LeftOf(doc, p) ==
    LET l == ClampLine(doc, p.line)
        b == LineOf(doc, l)
    IN  Cat(Above(doc, l), Upto(b, CpToByte(b, p.col)))
RightOf(doc, p) ==
    LET l == ClampLine(doc, p.line)
        b == LineOf(doc, l)
    IN  Cat(From(b, CpToByte(b, p.col)), Below(doc, l + 1))

(* The flat text with a text put in at a position, and with what stands    *)
(* between two positions cut out.                                          *)
LEMMA InsertedIs ==
    ASSUME NEW doc \in Doc, NEW p \in Pos, NEW text
    PROVE  LET l  == ClampLine(doc, p.line)
               b  == LineOf(doc, l)
               at == CpToByte(b, p.col)
           IN  Inserted(doc, p, text) =
                   Cat(Cat(Cat(Above(doc, l), Upto(b, at)), text), Cat(From(b, at), Below(doc, l + 1)))
<1>1. Inserted(doc, p, text) =
          Cat(Cat(Upto(Flat(doc), Offset(doc, p)), text), From(Flat(doc), Offset(doc, p)))
  BY DEF Inserted, Cat, Flat, Upto, From
<1>. QED BY <1>1, SplitAt

(* A cut leaves what stands left of its start and right of its end.        *)
LEMMA CutText ==
    ASSUME NEW doc \in Doc, NEW p \in Pos, NEW q \in Pos
    PROVE  Cut(doc, p, q) = Cat(LeftOf(doc, p), RightOf(doc, q))
<1>1. Cut(doc, p, q) =
          Cat(Upto(Flat(doc), Offset(doc, p)), From(Flat(doc), Offset(doc, q)))
  BY DEF Cut, Cat, Flat, Upto, From
<1>2. Upto(Flat(doc), Offset(doc, p)) = LeftOf(doc, p)
  BY SplitAt DEF LeftOf
<1>3. From(Flat(doc), Offset(doc, q)) = RightOf(doc, q)
  BY SplitAt DEF RightOf
<1>. QED BY <1>1, <1>2, <1>3

(* The flat text after a change of a line.                                 *)
LEMMA OneLineFlat ==
    ASSUME NEW doc \in Doc, NEW l \in 0..LastLine(doc), NEW new \in Doc,
           NEW kind, NEW old, NEW before, NEW after, Len(old) = 1
    PROVE  Flat(Apply(doc, TextChange(kind, l, old, new, before, after)))
             = Cat(Cat(Above(doc, l), Flat(new)), Below(doc, l + 1))
<1>1. Apply(doc, TextChange(kind, l, old, new, before, after)) = Splice(doc, l, 1, new)
  BY DEF Apply, TextChange
<1>2. l \in Nat /\ 1 \in Nat /\ l + 1 <= Len(doc)
  BY FlatAround
<1>. QED BY <1>1, <1>2, FlatSplice

(* A typed character.                                                      *)
LEMMA InsertCharText ==
    ASSUME NEW doc \in Doc, NEW p \in Pos, NEW cp \in Char
    PROVE  Flat(Apply(doc, InsertCharChange(doc, p, cp))) = Inserted(doc, p, <<cp>>)
<1> DEFINE l   == ClampLine(doc, p.line)
           b   == LineOf(doc, l)
           at  == CpToByte(b, p.col)
           u   == Upto(b, at)
           v   == From(b, at)
           new == Cat(Cat(u, <<cp>>), v)
<1>1. l \in 0..LastLine(doc) /\ b \in Seq(Char) /\ at \in 0..Len(b)
  BY ClampedAt
<1>2. InsertCharChange(doc, p, cp)
        = TextChange("InsertChar", l, <<b>>, <<new>>, At(l, p.col), At(l, p.col + 1))
  BY DEF InsertCharChange, Cat
<1>3. Inserted(doc, p, <<cp>>) = Cat(Cat(Cat(Above(doc, l), u), <<cp>>), Cat(v, Below(doc, l + 1)))
  BY InsertedIs
<1>. HIDE DEF l, b, at
<1>4. u \in Seq(Char) /\ v \in Seq(Char) /\ <<cp>> \in Seq(Char)
  BY <1>1, TextParts
<1>. HIDE DEF u, v
<1>5. new \in Seq(Char)
  BY <1>4, CatIs
<1>6. Above(doc, l) \in Seq(Symbols) /\ Below(doc, l + 1) \in Seq(Symbols)
  BY <1>1, FlatAround
<1>7. Cat(Cat(Above(doc, l), new), Below(doc, l + 1))
        = Cat(Cat(Cat(Above(doc, l), u), <<cp>>), Cat(v, Below(doc, l + 1)))
  <2>1. u \in Seq(Symbols) /\ v \in Seq(Symbols) /\ <<cp>> \in Seq(Symbols)
    BY <1>4, FlatTypes
  <2>2. Cat(Cat(Above(doc, l), Cat(Cat(u, <<cp>>), v)), Below(doc, l + 1))
          = Cat(Cat(Cat(Above(doc, l), u), <<cp>>), Cat(v, Below(doc, l + 1)))
    <3> DEFINE mid == <<cp>>
               x == Above(doc, l)
               y == Below(doc, l + 1)
    <3>1. mid \in Seq(Symbols) /\ x \in Seq(Symbols) /\ y \in Seq(Symbols)
      BY <1>6, <2>1
    <3>. HIDE DEF mid, x, y
    <3>2. Cat(Cat(x, Cat(Cat(u, mid), v)), y) = Cat(Cat(Cat(x, u), mid), Cat(v, y))
      BY <2>1, <3>1, Regrouped
    <3>. QED BY <3>2 DEF mid, x, y
  <2>. QED BY <2>2
<1>. HIDE DEF new
<1>8. <<new>> \in Doc /\ Flat(<<new>>) = new
  BY <1>5, FlatOne
<1>9. Flat(Apply(doc, TextChange("InsertChar", l, <<b>>, <<new>>, At(l, p.col), At(l, p.col + 1))))
        = Cat(Cat(Above(doc, l), Flat(<<new>>)), Below(doc, l + 1))
  <2>1. Len(<<b>>) = 1
    OBVIOUS
  <2>. QED BY <1>1, <1>8, <2>1, OneLineFlat
<1>. QED BY <1>2, <1>3, <1>7, <1>8, <1>9

(* A text with a newline.                                                  *)
LEMMA InsertTextText ==
    ASSUME NEW doc \in Doc, NEW p \in Pos, NEW segs \in Doc, Len(segs) > 1
    PROVE  Flat(Apply(doc, InsertTextChange(doc, p, segs))) = Inserted(doc, p, Flat(segs))
<1> DEFINE l   == ClampLine(doc, p.line)
           b   == LineOf(doc, l)
           at  == CpToByte(b, p.col)
           u   == Upto(b, at)
           v   == From(b, at)
           n   == Len(segs)
           new == [i \in 1..n |-> (IF i = 1 THEN u ELSE <<>>) \o segs[i] \o (IF i = n THEN v ELSE <<>>)]
           x   == At(l, at)
           y   == At(l + n - 1, Len(segs[n]))
           t   == Flat(segs)
<1>1. l \in 0..LastLine(doc) /\ b \in Seq(Char) /\ at \in 0..Len(b)
  BY ClampedAt
<1>2. InsertTextChange(doc, p, segs) = TextChange("Bulk", l, <<b>>, new, x, y)
  <2>1. n > 1 /\ n # 1
    <3>1. n \in Nat /\ n > 1
      BY DocLines
    <3>. HIDE DEF n
    <3>. QED BY <3>1
  <2>2. new = [i \in 1..n |-> (IF i = 1 THEN u ELSE <<>>) \o segs[i]
                                \o (IF i = n /\ n > 1 THEN v ELSE <<>>)]
    BY <2>1
  <2>. HIDE DEF new
  <2>. QED BY <2>1, <2>2 DEF InsertTextChange
<1>3. Inserted(doc, p, t) = Cat(Cat(Cat(Above(doc, l), u), t), Cat(v, Below(doc, l + 1)))
  BY InsertedIs
<1>. HIDE DEF l, b, at
<1>4. u \in Seq(Char) /\ v \in Seq(Char)
  BY <1>1, TextParts
<1>. HIDE DEF u, v
<1>5. new \in Doc /\ Flat(new) = Cat(Cat(u, t), v)
  BY <1>4, FlatBetween DEF Cat
<1>6. Above(doc, l) \in Seq(Symbols) /\ Below(doc, l + 1) \in Seq(Symbols) /\ t \in Seq(Symbols)
      /\ u \in Seq(Symbols) /\ v \in Seq(Symbols)
  BY <1>1, <1>4, FlatAround, FlatTypes
<1>. HIDE DEF new, t, x, y
<1>7. Cat(Cat(Above(doc, l), Cat(Cat(u, t), v)), Below(doc, l + 1))
        = Cat(Cat(Cat(Above(doc, l), u), t), Cat(v, Below(doc, l + 1)))
  BY <1>6, Regrouped
<1>8. Flat(Apply(doc, TextChange("Bulk", l, <<b>>, new, x, y)))
        = Cat(Cat(Above(doc, l), Flat(new)), Below(doc, l + 1))
  <2>1. Len(<<b>>) = 1
    OBVIOUS
  <2>. QED BY <1>1, <1>5, <2>1, OneLineFlat
<1>9. Flat(Apply(doc, InsertTextChange(doc, p, segs))) = Inserted(doc, p, t)
  BY <1>2, <1>3, <1>5, <1>7, <1>8
<1>. QED BY <1>9 DEF t

(* A split line.                                                           *)
LEMMA NewlineText ==
    ASSUME NEW doc \in Doc, NEW p \in Pos
    PROVE  Flat(Apply(doc, InsertNewlineChange(doc, p))) = Inserted(doc, p, <<NL>>)
<1> DEFINE l   == ClampLine(doc, p.line)
           b   == LineOf(doc, l)
           at  == CpToByte(b, p.col)
           u   == Upto(b, at)
           v   == From(b, at)
           new == <<u, v>>
           x   == At(l, p.col)
           y   == At(l + 1, 0)
<1>1. l \in 0..LastLine(doc) /\ b \in Seq(Char) /\ at \in 0..Len(b)
  BY ClampedAt
<1>2. InsertNewlineChange(doc, p) = TextChange("Bulk", l, <<b>>, new, x, y)
  BY DEF InsertNewlineChange
<1>3. Inserted(doc, p, NLs) = Cat(Cat(Cat(Above(doc, l), u), NLs), Cat(v, Below(doc, l + 1)))
  BY InsertedIs
<1>. HIDE DEF l, b, at, x, y
<1>4. u \in Seq(Char) /\ v \in Seq(Char)
  BY <1>1, TextParts
<1>. HIDE DEF u, v
<1>5. new \in Doc /\ Flat(new) = Cat(Cat(u, NLs), v)
  <2>1. <<u>> \in Doc /\ <<v>> \in Doc /\ Flat(<<u>>) = u /\ Flat(<<v>>) = v
    BY <1>4, FlatOne
  <2>2. new = <<u>> \o <<v>>
    <3> DEFINE w == <<u>> \o <<v>>
    <3>1. <<u>> \in Seq(Seq(Char)) /\ <<v>> \in Seq(Seq(Char)) /\ Len(<<u>>) = 1 /\ Len(<<v>>) = 1
      BY <1>4
    <3>2. w \in Seq(Seq(Char)) /\ Len(w) = 2 /\ w[1] = u /\ w[2] = v
      BY <3>1, ConcatProperties
    <3>. HIDE DEF w
    <3>3. new \in Seq(Seq(Char)) /\ Len(new) = 2 /\ new[1] = u /\ new[2] = v
      BY <1>4
    <3>. HIDE DEF new
    <3>4. \A i \in 1..Len(new) : new[i] = w[i]
      BY <3>2, <3>3
    <3>5. new = w
      BY <3>2, <3>3, <3>4, SeqEqual
    <3>. QED BY <3>5 DEF w
  <2>3. /\ <<u>> \o <<v>> \in Doc
        /\ Flat(<<u>> \o <<v>>) = Flat(<<u>>) \o <<NL>> \o Flat(<<v>>)
    BY <2>1, FlatConcat
  <2>. HIDE DEF new
  <2>. QED BY <2>1, <2>2, <2>3 DEF Cat, NLs
<1>6. Above(doc, l) \in Seq(Symbols) /\ Below(doc, l + 1) \in Seq(Symbols) /\ NLs \in Seq(Symbols)
      /\ u \in Seq(Symbols) /\ v \in Seq(Symbols)
  BY <1>1, <1>4, FlatAround, FlatTypes DEF NLs
<1>. HIDE DEF new
<1>7. Cat(Cat(Above(doc, l), Cat(Cat(u, NLs), v)), Below(doc, l + 1))
        = Cat(Cat(Cat(Above(doc, l), u), NLs), Cat(v, Below(doc, l + 1)))
  BY <1>6, Regrouped
<1>8. Flat(Apply(doc, TextChange("Bulk", l, <<b>>, new, x, y)))
        = Cat(Cat(Above(doc, l), Flat(new)), Below(doc, l + 1))
  <2>1. Len(<<b>>) = 1
    OBVIOUS
  <2>. QED BY <1>1, <1>5, <2>1, OneLineFlat
<1>9. Flat(Apply(doc, InsertNewlineChange(doc, p))) = Inserted(doc, p, NLs)
  BY <1>2, <1>3, <1>5, <1>7, <1>8
<1>. QED BY <1>9 DEF NLs

-----------------------------------------------------------------------------
(* A change of a stretch of lines into the head of the first and the tail  *)
(* of the last.                                                            *)
LEMMA SpanCut ==
    ASSUME NEW doc \in Doc, NEW l \in 0..LastLine(doc), NEW k \in l..LastLine(doc),
           NEW u \in Seq(Char), NEW v \in Seq(Char)
    PROVE  Flat(Splice(doc, l, k - l + 1, <<Cat(u, v)>>))
             = Cat(Cat(Above(doc, l), u), Cat(v, Below(doc, k + 1)))
<1> DEFINE text == Cat(u, v)
           n    == k - l + 1
<1>1. LastLine(doc) \in Nat /\ LastLine(doc) + 1 = Len(doc) /\ Len(doc) \in Nat
  BY DocLines
<1>2. /\ l \in Nat /\ k \in Nat /\ k \in 0..LastLine(doc) /\ n \in Nat /\ l + n = k + 1
      /\ l + n <= Len(doc)
  BY <1>1
<1>3. Above(doc, l) \in Seq(Symbols) /\ Below(doc, k + 1) \in Seq(Symbols)
  BY <1>2, FlatAround
<1>4. text \in Seq(Char)
  BY CatIs
<1>5. Cat(Cat(Above(doc, l), text), Below(doc, k + 1)) = Cat(Cat(Above(doc, l), u), Cat(v, Below(doc, k + 1)))
  <2>1. u \in Seq(Symbols) /\ v \in Seq(Symbols)
    BY FlatTypes
  <2>. QED BY <1>3, <2>1, Regrouped
<1>. HIDE DEF text, n
<1>6. <<text>> \in Doc /\ Flat(<<text>>) = text
  BY <1>4, FlatOne
<1>7. Flat(Splice(doc, l, n, <<text>>)) = Cat(Cat(Above(doc, l), Flat(<<text>>)), Below(doc, l + n))
  BY <1>2, <1>6, FlatSplice
<1>8. Flat(Splice(doc, l, n, <<text>>)) = Cat(Cat(Above(doc, l), u), Cat(v, Below(doc, k + 1)))
  BY <1>2, <1>5, <1>6, <1>7
<1>. QED BY <1>8 DEF text, n

(* A character that goes.                                                  *)
LEMMA EraseCharText ==
    ASSUME NEW doc \in Doc, NEW p \in Pos
    PROVE  Flat(Apply(doc, EraseCharChange(doc, p))) = Cut(doc, p, At(p.line, p.col + 1))
<1> DEFINE l  == ClampLine(doc, p.line)
           b  == LineOf(doc, l)
           at == CpToByte(b, p.col)
           q  == At(p.line, p.col + 1)
           to == CpToByte(b, p.col + 1)
<1>1. /\ l \in 0..LastLine(doc) /\ l \in Nat /\ b \in Seq(Char) /\ Len(b) \in Nat
      /\ at \in 0..Len(b) /\ p.line \in Nat /\ p.col \in Nat
  BY ClampedAt
<1>2. q \in Pos /\ q.line = p.line /\ q.col = p.col + 1
  BY <1>1 DEF At, Pos
<1>3. Cut(doc, p, q) = Cat(Cat(Above(doc, l), Upto(b, at)), Cat(From(b, to), Below(doc, l + 1)))
  <2>1. Cut(doc, p, q) = Cat(LeftOf(doc, p), RightOf(doc, q))
    BY <1>2, CutText
  <2>2. LeftOf(doc, p) = Cat(Above(doc, l), Upto(b, at))
    BY DEF LeftOf
  <2>3. RightOf(doc, q) = Cat(From(b, to), Below(doc, l + 1))
    <3>. HIDE DEF q
    <3>. QED BY <1>2 DEF RightOf
  <2>. QED BY <2>1, <2>2, <2>3
<1>4. EraseCharChange(doc, p)
        = TextChange("EraseChar", l, <<b>>, <<Upto(b, at) \o From(b, at + 1)>>, At(l, p.col), At(0, 0))
  BY DEF EraseCharChange
<1>5. /\ to \in 0..Len(b)
      /\ to = at + 1 \/ (at = Len(b) /\ to = Len(b))
  <2>1. \A c, n \in Nat : /\ Lesser(c + 1, n) \in 0..n
                          /\ \/ Lesser(c + 1, n) = Lesser(c, n) + 1
                             \/ Lesser(c, n) = n /\ Lesser(c + 1, n) = n
    BY DEF Lesser
  <2>. HIDE DEF b
  <2>. QED BY <1>1, <2>1 DEF CpToByte
<1>. HIDE DEF b, at, to, l, q
<1>6. From(b, at + 1) = From(b, to)
  <2>1. CASE to = at + 1
    BY <2>1
  <2>2. CASE at = Len(b) /\ to = Len(b)
    <3>1. SubSeq(b, at + 1 + 1, Len(b)) = <<>> /\ SubSeq(b, to + 1, Len(b)) = <<>>
      BY <1>1, <2>2, SubSeqEmpty
    <3>. QED BY <3>1 DEF From
  <2>. QED BY <1>5, <2>1, <2>2
<1>7. Flat(Apply(doc, TextChange("EraseChar", l, <<b>>, <<Upto(b, at) \o From(b, to)>>,
                                 At(l, p.col), At(0, 0))))
        = Cat(Cat(Above(doc, l), Upto(b, at)), Cat(From(b, to), Below(doc, l + 1)))
  <2>1. l \in l..LastLine(doc) /\ Len(<<b>>) = l - l + 1
    BY <1>1, DocLines
  <2>2. b = LineOf(doc, l)
    BY DEF b
  <2> DEFINE old == <<b>>
             x   == At(l, p.col)
             y   == At(0, 0)
             u   == Upto(b, at)
             v   == From(b, to)
  <2>3. u \in Seq(Char) /\ v \in Seq(Char)
    BY <1>1, <1>5, TextParts
  <2>4. Len(old) = l - l + 1
    BY <2>1
  <2>. HIDE DEF old, x, y, u, v
  <2>5. Flat(Apply(doc, TextChange("EraseChar", l, old, <<u \o v>>, x, y)))
          = Cat(Cat(Above(doc, l), u), Cat(v, Below(doc, l + 1)))
    <3>1. Apply(doc, TextChange("EraseChar", l, old, <<u \o v>>, x, y)) = Splice(doc, l, l - l + 1, <<Cat(u, v)>>)
      BY <2>4 DEF Apply, TextChange, Cat
    <3>2. Flat(Splice(doc, l, l - l + 1, <<Cat(u, v)>>)) = Cat(Cat(Above(doc, l), u), Cat(v, Below(doc, l + 1)))
      BY <1>1, <2>1, <2>3, SpanCut
    <3>. QED BY <3>1, <3>2
  <2>. QED BY <2>5 DEF old, x, y, u, v
<1>. QED BY <1>3, <1>4, <1>6, <1>7 DEF q

(* A range that goes.                                                      *)
LEMMA EraseRangeText ==
    ASSUME NEW doc \in Doc, NEW s \in Pos, NEW e \in Pos, Before(s, e),
           Offset(doc, s) < Offset(doc, e)
    PROVE  Flat(Apply(doc, EraseRangeChange(doc, s, e))) = Cut(doc, s, e)
<1> DEFINE sl   == ClampLine(doc, s.line)
           el   == ClampLine(doc, e.line)
           a    == LineOf(doc, sl)
           b    == LineOf(doc, el)
           sAt  == CpToByte(a, s.col)
           eAt  == CpToByte(b, e.col)
           tail == IF el # sl \/ eAt > sAt THEN From(b, eAt) ELSE <<>>
           old  == SubSeq(doc, sl + 1, el + 1)
           here == At(sl, s.col)
<1>1. sl \in 0..LastLine(doc) /\ sl \in Nat /\ s.line \in Nat /\ a \in Seq(Char) /\ sAt \in 0..Len(a)
  BY ClampedAt
<1>2. el \in 0..LastLine(doc) /\ el \in Nat /\ e.line \in Nat /\ b \in Seq(Char) /\ eAt \in 0..Len(b)
  BY ClampedAt
<1>3. sl <= el
  <2>1. s.line <= e.line
    BY <1>1, <1>2 DEF Before
  <2>2. LastLine(doc) \in Nat /\ LastLine(doc) = Len(doc) - 1
    BY DocLines DEF LastLine
  <2>. QED BY <1>1, <1>2, <2>1, <2>2 DEF ClampLine, Lesser
<1>4. Offset(doc, s) = Len(Above(doc, sl)) + sAt /\ Offset(doc, e) = Len(Above(doc, el)) + eAt
  BY OffsetIs
<1>5. EraseRangeChange(doc, s, e) = TextChange("Bulk", sl, old, <<Upto(a, sAt) \o tail>>, here, here)
  BY DEF EraseRangeChange
<1>6. Cut(doc, s, e) = Cat(Cat(Above(doc, sl), Upto(a, sAt)), Cat(From(b, eAt), Below(doc, el + 1)))
  <2>1. Cut(doc, s, e) = Cat(LeftOf(doc, s), RightOf(doc, e))
    BY CutText
  <2>2. LeftOf(doc, s) = Cat(Above(doc, sl), Upto(a, sAt))
    BY DEF LeftOf
  <2>3. RightOf(doc, e) = Cat(From(b, eAt), Below(doc, el + 1))
    BY DEF RightOf
  <2>. QED BY <2>1, <2>2, <2>3
<1>7. a = LineOf(doc, sl) /\ b = LineOf(doc, el)
  OBVIOUS
<1>. HIDE DEF a, b, sAt, eAt, sl, el, here
<1>8. el # sl \/ eAt > sAt
  <2>1. SUFFICES ASSUME el = sl PROVE eAt > sAt
    OBVIOUS
  <2>2. Len(Above(doc, sl)) \in Nat
    BY <1>1, FlatAround, LenProperties
  <2>3. sAt \in Nat /\ eAt \in Nat
    BY <1>1, <1>2, LenProperties
  <2>. QED BY <1>4, <2>1, <2>2, <2>3
<1>9. tail = From(b, eAt)
  BY <1>8
<1>10. Len(old) = el - sl + 1
  <2>1. doc \in Seq(Line) /\ sl + 1 \in 1..Len(doc) /\ el + 1 \in 1..Len(doc)
    <3>1. doc \in Seq(Line) /\ LastLine(doc) + 1 = Len(doc) /\ Len(doc) \in Nat /\ LastLine(doc) \in Nat
      BY DocLines
    <3>. QED BY <1>1, <1>2, <3>1
  <2> DEFINE lo == sl + 1
             hi == el + 1
  <2>2. lo \in Int /\ hi \in Int /\ \A i \in lo..hi : doc[i] \in Line
    BY <1>1, <1>2, <2>1, ElementOfSeq
  <2>3. lo <= hi /\ hi - lo + 1 = el - sl + 1
    BY <1>1, <1>2, <1>3
  <2>. HIDE DEF lo, hi
  <2>4. Len(SubSeq(doc, lo, hi)) = IF lo <= hi THEN hi - lo + 1 ELSE 0
    BY <2>1, <2>2, SubSeqProperties
  <2>. QED BY <2>3, <2>4 DEF lo, hi
<1>. HIDE DEF tail, old
<1>11. Flat(Apply(doc, TextChange("Bulk", sl, old, <<Upto(a, sAt) \o From(b, eAt)>>, here, here)))
         = Cat(Cat(Above(doc, sl), Upto(a, sAt)), Cat(From(b, eAt), Below(doc, el + 1)))
  <2>1. el \in sl..LastLine(doc)
    BY <1>1, <1>2, <1>3
  <2> DEFINE u == Upto(a, sAt)
             v == From(b, eAt)
  <2>2. u \in Seq(Char) /\ v \in Seq(Char)
    BY <1>1, <1>2, TextParts
  <2>. HIDE DEF u, v
  <2>3. Flat(Apply(doc, TextChange("Bulk", sl, old, <<u \o v>>, here, here)))
          = Cat(Cat(Above(doc, sl), u), Cat(v, Below(doc, el + 1)))
    <3>1. Apply(doc, TextChange("Bulk", sl, old, <<u \o v>>, here, here))
            = Splice(doc, sl, el - sl + 1, <<Cat(u, v)>>)
      BY <1>10 DEF Apply, TextChange, Cat
    <3>2. Flat(Splice(doc, sl, el - sl + 1, <<Cat(u, v)>>))
            = Cat(Cat(Above(doc, sl), u), Cat(v, Below(doc, el + 1)))
      BY <1>1, <2>1, <2>2, SpanCut
    <3>. QED BY <3>1, <3>2
  <2>. QED BY <2>3 DEF u, v
<1>. QED BY <1>5, <1>6, <1>9, <1>11

(* A newline that goes.                                                    *)
LEMMA JoinText ==
    ASSUME NEW doc \in Doc, NEW l \in Nat, l + 1 < Len(doc)
    PROVE  Flat(Apply(doc, JoinChange(doc, l, FALSE)))
             = Cut(doc, At(l, Len(LineOf(doc, l))), At(l + 1, 0))
<1> DEFINE a == LineOf(doc, l)
           k == l + 1
           b == LineOf(doc, k)
           p == At(l, Len(a))
           q == At(k, 0)
<1>1. LastLine(doc) + 1 = Len(doc) /\ Len(doc) \in Nat /\ LastLine(doc) \in Nat /\ LastLine(doc) = Len(doc) - 1
  BY DocLines DEF LastLine
<1>2. l \in 0..LastLine(doc) /\ k \in 0..LastLine(doc) /\ k \in l..LastLine(doc) /\ k \in Nat
  BY <1>1
<1>3. a \in Seq(Char) /\ b \in Seq(Char) /\ Len(a) \in Nat /\ Len(b) \in Nat
  BY <1>2, DocLines
<1>4. ClampLine(doc, l) = l /\ ClampLine(doc, k) = k
  <2>1. \A i, m \in Nat : i <= m => Lesser(i, m) = i
    BY DEF Lesser
  <2>2. l <= LastLine(doc) /\ k <= LastLine(doc) /\ ClampLine(doc, l) = Lesser(l, LastLine(doc))
        /\ ClampLine(doc, k) = Lesser(k, LastLine(doc))
    BY <1>1, <1>2 DEF ClampLine
  <2>. HIDE DEF k
  <2>. QED BY <1>1, <1>2, <2>1, <2>2
<1>5. CpToByte(a, Len(a)) = Len(a) /\ CpToByte(b, 0) = 0
  BY <1>3 DEF CpToByte, Lesser
<1>6. /\ p \in Pos /\ p.line = l /\ p.col = Len(a)
      /\ q \in Pos /\ q.line = k /\ q.col = 0
  BY <1>2, <1>3 DEF At, Pos
<1>7. Cut(doc, p, q) = Cat(Cat(Above(doc, l), Upto(a, Len(a))), Cat(From(b, 0), Below(doc, k + 1)))
  <2>1. Cut(doc, p, q) = Cat(LeftOf(doc, p), RightOf(doc, q))
    BY <1>6, CutText
  <2>2. LeftOf(doc, p) = Cat(Above(doc, l), Upto(a, Len(a)))
    <3>. HIDE DEF p
    <3>. QED BY <1>4, <1>5, <1>6 DEF LeftOf
  <2>3. RightOf(doc, q) = Cat(From(b, 0), Below(doc, k + 1))
    <3>. HIDE DEF q, k
    <3>. QED BY <1>4, <1>5, <1>6 DEF RightOf
  <2>. QED BY <2>1, <2>2, <2>3
<1>8. JoinChange(doc, l, FALSE)
        = TextChange("Bulk", l, <<a, b>>, <<Upto(a, Len(a)) \o <<>> \o From(b, 0)>>, At(l, Len(a)), At(0, 0))
  BY DEF JoinChange, JoinKeep
<1>9. Upto(a, Len(a)) \o <<>> \o From(b, 0) = Upto(a, Len(a)) \o From(b, 0)
  <2>1. Upto(a, Len(a)) \in Seq(Char)
    BY <1>3, TextParts
  <2>2. Upto(a, Len(a)) \o <<>> = Upto(a, Len(a))
    BY <2>1, ConcatEmptySeq
  <2>. QED BY <2>2
<1>10. Len(<<a, b>>) = k - l + 1 /\ a = LineOf(doc, l) /\ b = LineOf(doc, k)
  <2>1. Len(<<a, b>>) = 2 /\ k - l + 1 = 2
    OBVIOUS
  <2>. QED BY <2>1
<1>. HIDE DEF a, b, k, p, q
<1>11. Flat(Apply(doc, TextChange("Bulk", l, <<a, b>>, <<Upto(a, Len(a)) \o From(b, 0)>>,
                                  At(l, Len(a)), At(0, 0))))
         = Cat(Cat(Above(doc, l), Upto(a, Len(a))), Cat(From(b, 0), Below(doc, k + 1)))
  <2>1. Len(a) \in 0..Len(a) /\ 0 \in 0..Len(b)
    BY <1>3
  <2> DEFINE old == <<a, b>>
             x   == At(l, Len(a))
             y   == At(0, 0)
             at  == Len(a)
  <2>2. Len(old) = k - l + 1
    BY <1>10
  <2> DEFINE u == Upto(a, at)
             v == From(b, 0)
  <2>3. u \in Seq(Char) /\ v \in Seq(Char)
    BY <1>3, <2>1, TextParts
  <2>. HIDE DEF old, x, y, at, u, v
  <2>4. Flat(Apply(doc, TextChange("Bulk", l, old, <<u \o v>>, x, y)))
          = Cat(Cat(Above(doc, l), u), Cat(v, Below(doc, k + 1)))
    <3>1. Apply(doc, TextChange("Bulk", l, old, <<u \o v>>, x, y)) = Splice(doc, l, k - l + 1, <<Cat(u, v)>>)
      BY <2>2 DEF Apply, TextChange, Cat
    <3>2. Flat(Splice(doc, l, k - l + 1, <<Cat(u, v)>>)) = Cat(Cat(Above(doc, l), u), Cat(v, Below(doc, k + 1)))
      BY <1>2, <2>3, SpanCut
    <3>. QED BY <3>1, <3>2
  <2>. QED BY <2>4 DEF old, x, y, at, u, v
<1>. QED BY <1>7, <1>8, <1>9, <1>11 DEF a, k, p, q

-----------------------------------------------------------------------------
(* The trimmed length is the least prefix that nothing but blanks follows, *)
(* and the indent the greatest one of blanks.                              *)
LEMMA BlankEnds ==
    ASSUME NEW text \in Seq(Char)
    PROVE  LET l == {i \in 0..Len(text) : \A j \in (i + 1)..Len(text) : text[j] = Blank}
               r == {i \in 0..Len(text) : \A j \in 1..i : text[j] = Blank}
           IN  /\ TrimmedLen(text) = CHOOSE i \in l : \A j \in l : i <= j
               /\ Indent(text) = CHOOSE i \in r : \A j \in r : j <= i
<1> DEFINE n == Len(text)
           s == {i \in 1..n : text[i] # Blank}
           l == {i \in 0..n : \A j \in (i + 1)..n : text[j] = Blank}
           r == {i \in 0..n : \A j \in 1..i : text[j] = Blank}
           t == TrimmedLen(text)
           d == Indent(text)
<1>1. n \in Nat /\ s \subseteq 0..n /\ s \subseteq Nat
  BY LenProperties
<1>2. t = IF s = {} THEN 0 ELSE Greatest(s)
  BY DEF TrimmedLen, Greatest
<1>3. d = IF s = {} THEN n ELSE Least(s) - 1
  BY DEF Indent, Least
<1>. HIDE DEF n, t, d
<1>4. s # {} => /\ Greatest(s) \in s /\ \A m \in s : m <= Greatest(s)
                /\ Least(s) \in s /\ \A m \in s : Least(s) <= m
  <2>. HIDE DEF s
  <2>. QED BY <1>1, GreatestIs, LeastIs
<1>5. t \in l /\ \A j \in l : t <= j
  <2>1. CASE s = {}
    BY <1>1, <1>2, <2>1
  <2>2. CASE s # {}
    <3>1. t \in 1..n /\ text[t] # Blank /\ \A m \in 1..n : text[m] # Blank => m <= t
      BY <1>2, <1>4, <2>2
    <3>2. t \in l
      BY <1>1, <3>1
    <3>3. ASSUME NEW j \in l PROVE t <= j
      BY <1>1, <3>1
    <3>. QED BY <3>2, <3>3
  <2>. QED BY <2>1, <2>2
<1>6. d \in r /\ \A j \in r : j <= d
  <2>1. CASE s = {}
    BY <1>1, <1>3, <2>1
  <2>2. CASE s # {}
    <3>1. d + 1 \in 1..n /\ d \in 0..n /\ text[d + 1] # Blank /\ \A m \in 1..n : text[m] # Blank => d + 1 <= m
      <4> DEFINE g == Least(s)
      <4>1. d = g - 1 /\ g \in s /\ \A m \in s : g <= m
        BY <1>3, <1>4, <2>2
      <4>. HIDE DEF g
      <4>2. g \in 1..n /\ text[g] # Blank /\ g = d + 1
        BY <1>1, <4>1
      <4>. QED BY <1>1, <4>1, <4>2
    <3>2. d \in r
      BY <1>1, <3>1
    <3>3. ASSUME NEW j \in r PROVE j <= d
      BY <1>1, <3>1
    <3>. QED BY <3>2, <3>3
  <2>. QED BY <2>1, <2>2
<1>7. l \subseteq Int /\ r \subseteq Int
  BY <1>1
<1>. HIDE DEF l, r
<1>8. t = CHOOSE i \in l : \A j \in l : i <= j
  <2> DEFINE x == CHOOSE i \in l : \A j \in l : i <= j
  <2>1. x \in l /\ \A j \in l : x <= j
    BY <1>5
  <2>2. x <= t /\ t <= x /\ x \in Int /\ t \in Int
    BY <1>5, <1>7, <2>1
  <2>. HIDE DEF x
  <2>3. t = x
    BY <2>2
  <2>. QED BY <2>3 DEF x
<1>9. d = CHOOSE i \in r : \A j \in r : j <= i
  <2> DEFINE x == CHOOSE i \in r : \A j \in r : j <= i
  <2>1. x \in r /\ \A j \in r : j <= x
    BY <1>6
  <2>2. x <= d /\ d <= x /\ x \in Int /\ d \in Int
    BY <1>6, <1>7, <2>1
  <2>. HIDE DEF x
  <2>3. d = x
    BY <2>2
  <2>. QED BY <2>3 DEF x
<1>. QED BY <1>8, <1>9 DEF l, r, n, t, d

(* A smart join leaves one blank between two texts, and none at an end.    *)
LEMMA SmartJoinText ==
    ASSUME NEW doc \in Doc, NEW l \in Nat, l + 1 < Len(doc)
    PROVE  JoinChange(doc, l, TRUE).new[1] = SmartSeam(LineOf(doc, l), LineOf(doc, l + 1))
<1> DEFINE a     == LineOf(doc, l)
           b     == LineOf(doc, l + 1)
           keep  == TrimmedLen(a)
           skip  == Indent(b)
           left  == Upto(a, keep)
           right == From(b, skip)
           text  == left \o (IF left # <<>> /\ right # <<>> THEN <<Blank>> ELSE <<>>) \o right
<1>1. a \in Seq(Char) /\ b \in Seq(Char)
  <2>1. LastLine(doc) + 1 = Len(doc) /\ Len(doc) \in Nat /\ LastLine(doc) \in Nat
    BY DocLines
  <2>2. l \in 0..LastLine(doc) /\ l + 1 \in 0..LastLine(doc)
    BY <2>1
  <2>. QED BY <2>2, DocLines
<1>2. JoinChange(doc, l, TRUE).new[1] = text
  BY DEF JoinChange, JoinKeep, TextChange
<1>3. SmartSeam(a, b)
        = Upto(a, keep) \o (IF keep > 0 /\ skip < Len(b) THEN <<Blank>> ELSE <<>>) \o From(b, skip)
  <2>1. keep = CHOOSE i \in {i \in 0..Len(a) : \A j \in (i + 1)..Len(a) : a[j] = Blank} :
                   \A j \in {k \in 0..Len(a) : \A j \in (k + 1)..Len(a) : a[j] = Blank} : i <= j
    BY <1>1, BlankEnds
  <2>2. skip = CHOOSE i \in {i \in 0..Len(b) : \A j \in 1..i : b[j] = Blank} :
                   \A j \in {k \in 0..Len(b) : \A j \in 1..k : b[j] = Blank} : j <= i
    BY <1>1, BlankEnds
  <2>. HIDE DEF a, b, keep, skip
  <2>. QED BY <2>1, <2>2 DEF SmartSeam, Upto, From
<1>4. keep \in 0..Len(a) /\ skip \in 0..Len(b) /\ Len(a) \in Nat /\ Len(b) \in Nat
  BY <1>1, TrimsAre, LenProperties
<1>. HIDE DEF a, b, keep, skip
<1>5. Len(left) = keep /\ left \in Seq(Char) /\ Len(right) = Len(b) - skip /\ right \in Seq(Char)
  BY <1>1, <1>4, TextParts
<1>. HIDE DEF left, right
<1>6. (left # <<>> <=> keep > 0) /\ (right # <<>> <=> skip < Len(b))
  <2>1. (left = <<>> <=> Len(left) = 0) /\ (right = <<>> <=> Len(right) = 0)
    BY <1>5, EmptySeq
  <2>. QED BY <1>4, <1>5, <2>1
<1>7. SmartSeam(a, b) = text
  BY <1>3, <1>6 DEF left, right
<1>. HIDE DEF text
<1>8. JoinChange(doc, l, TRUE).new[1] = SmartSeam(a, b)
  BY <1>2, <1>7
<1>. QED BY <1>8 DEF a, b

-----------------------------------------------------------------------------
(* A document reads as a text with a newline between two lines, and each   *)
(* primitive edits that text at its clamped position and nowhere else.     *)
LEMMA PrimitivesAre ==
    ASSUME BufferIs, BufInv
    PROVE  PrimitivesEditText
<1>1. lines \in Doc
  BY DEF BufInv, BufTypes
<1>2. \A p \in Positions(lines) : p \in Pos
  BY <1>1, PositionIs
<1>3. \A c : FlatLines(Apply(lines, c)) = Flat(Apply(lines, c))
  BY DEF Flat
<1>4. ASSUME NEW p \in Positions(lines)
      PROVE  /\ \A cp \in Char : FlatLines(Apply(lines, InsertCharChange(lines, p, cp)))
                                    = Inserted(lines, p, <<cp>>)
             /\ \A t \in Texts :
                  Len(t) > 1 => FlatLines(Apply(lines, InsertTextChange(lines, p, t)))
                                    = Inserted(lines, p, FlatLines(t))
             /\ FlatLines(Apply(lines, EraseCharChange(lines, p)))
                  = Cut(lines, p, At(p.line, p.col + 1))
             /\ FlatLines(Apply(lines, InsertNewlineChange(lines, p)))
                  = Inserted(lines, p, <<NL>>)
             /\ \A q \in Positions(lines) :
                  Before(p, q) /\ Offset(lines, p) < Offset(lines, q) =>
                      FlatLines(Apply(lines, EraseRangeChange(lines, p, q)))
                        = Cut(lines, p, q)
  <2>1. p \in Pos
    BY <1>2
  <2>2. \A cp \in Char : Flat(Apply(lines, InsertCharChange(lines, p, cp))) = Inserted(lines, p, <<cp>>)
    BY <1>1, <2>1, InsertCharText
  <2>3. ASSUME NEW t \in Texts, Len(t) > 1
        PROVE  Flat(Apply(lines, InsertTextChange(lines, p, t))) = Inserted(lines, p, Flat(t))
    <3>1. t \in Doc
      BY DEF BufferIs
    <3>. QED BY <1>1, <2>1, <2>3, <3>1, InsertTextText
  <2>4. Flat(Apply(lines, EraseCharChange(lines, p))) = Cut(lines, p, At(p.line, p.col + 1))
    BY <1>1, <2>1, EraseCharText
  <2>5. Flat(Apply(lines, InsertNewlineChange(lines, p))) = Inserted(lines, p, <<NL>>)
    BY <1>1, <2>1, NewlineText
  <2>6. ASSUME NEW q \in Positions(lines), Before(p, q), Offset(lines, p) < Offset(lines, q)
        PROVE  Flat(Apply(lines, EraseRangeChange(lines, p, q))) = Cut(lines, p, q)
    <3>1. q \in Pos
      BY <1>2
    <3>. QED BY <1>1, <2>1, <2>6, <3>1, EraseRangeText
  <2>7. \A t : FlatLines(t) = Flat(t)
    BY DEF Flat
  <2>. QED BY <1>3, <2>2, <2>3, <2>4, <2>5, <2>6, <2>7
<1>5. ASSUME NEW l \in 0..(Len(lines) - 2)
      PROVE  /\ FlatLines(Apply(lines, JoinChange(lines, l, FALSE)))
                  = Cut(lines, At(l, Len(LineOf(lines, l))), At(l + 1, 0))
             /\ JoinChange(lines, l, TRUE).new[1]
                  = SmartSeam(LineOf(lines, l), LineOf(lines, l + 1))
  <2>1. l \in Nat /\ l + 1 < Len(lines)
    BY <1>1, DocLines
  <2>2. Flat(Apply(lines, JoinChange(lines, l, FALSE)))
          = Cut(lines, At(l, Len(LineOf(lines, l))), At(l + 1, 0))
    BY <1>1, <2>1, JoinText
  <2>3. JoinChange(lines, l, TRUE).new[1] = SmartSeam(LineOf(lines, l), LineOf(lines, l + 1))
    BY <1>1, <2>1, SmartJoinText
  <2>. QED BY <1>3, <2>2, <2>3
<1>. QED BY <1>4, <1>5 DEF PrimitivesEditText

-----------------------------------------------------------------------------
(* In and out of groups, after every call of the buffer, its history tells *)
(* one story of documents: undone units from the documents of the past,    *)
(* redone units into those of the future, and the open group between the   *)
(* last committed document and the text (Buffer::apply_change, UndoStack). *)
THEOREM BufferInvariant == FreeSetLines = FALSE /\ Spec => []BufInv
<1>1. FreeSetLines = FALSE /\ Init => BufInv
  BY BufInit, BufferAssumed
<1>2. BufInv /\ [Next]_vars => BufInv'
  BY BufStep
<1>. QED BY <1>1, <1>2, PTL DEF Spec

(* The buffer keeps a line, its groups are balanced, every unit has a      *)
(* change, and the cursor that a primitive, an undo or a redo hands back   *)
(* is a position of the text it leaves, when callers pass positions of     *)
(* theirs (buffer.hpp:111, undo.hpp).                                      *)
THEOREM BufferTypes == FreeSetLines = FALSE /\ Slack = 0 /\ Spec => []TypeOK
<1> DEFINE Inv == BufInv /\ Slack = 0
<1>1. FreeSetLines = FALSE /\ Slack = 0 /\ Init => Inv
  BY BufInit, BufferAssumed
<1>2. Inv /\ [Next]_vars => Inv'
  BY BufStep
<1>3. Inv => TypeOK
  BY BufTypesAre
<1>. QED BY <1>1, <1>2, <1>3, PTL DEF Spec

(* The baseline assertions of apply_inverse and redo hold of every change  *)
(* of the unit that is replayed, at whatever positions, within the text or *)
(* beyond it, the edits, the merged runs and the nested groups were made.  *)
THEOREM BufferNeverDrifts == FreeSetLines = FALSE /\ Spec => []NoDrift
<1>. QED BY BufferInvariant, BufFits, PTL

(* The buffer with its groups and its merged runs implements the abstract  *)
(* history of EditHistory: an undo returns to the very document before the *)
(* edit, the run or the outermost group, a redo to the one after it.       *)
THEOREM BufferKeepsHistory == FreeSetLines = FALSE /\ Spec => KeepsHistory
<1>1. FreeSetLines = FALSE /\ Init => Abstract!Init
  BY BufInit, BufferAssumed
<1>2. BufInv /\ [Next]_vars => [Abstract!Next]_(Abstract!vars)
  BY BufStep, StepsOfHistory
<1>. QED BY <1>1, <1>2, BufferInvariant, PTL DEF Spec, KeepsHistory, Abstract!Spec

(* Whatever was edited before, each primitive of the buffer changes the    *)
(* text, read with a newline between two lines, at its clamped position    *)
(* and nowhere else: one character, text or newline is put in, a character *)
(* or a range is cut out, a join takes a newline out, and a smart one      *)
(* leaves one blank or none between the words (buffer.hpp:30-50).          *)
THEOREM PrimitivesEditTheText == FreeSetLines = FALSE /\ Spec => []PrimitivesEditText
<1>1. BufInv => PrimitivesEditText
  BY PrimitivesAre DEF BufInv
<1>. QED BY <1>1, BufferInvariant, PTL
=============================================================================
