---------------------------- MODULE WorkspaceProofs ----------------------------
(***************************************************************************)
(* What Workspace keeps of text that is not saved, for every number of      *)
(* files, paths of a file, texts, edits, crashes and writes of other       *)
(* programs.                                                               *)
(*                                                                         *)
(* A buffer compares ids, not texts, to say that it is clean.  That is right *)
(* because an id is never given to two texts: some function explains every  *)
(* pair of an id and a text that the buffer holds, in its stacks, its open  *)
(* transaction and its last save, and a new id extends that function.      *)
(***************************************************************************)
EXTENDS Workspace, SequenceTheorems, FiniteSetTheorems, TLAPS

Stacks == Seq(Transactions(Texts))

\* Each id has one text: v is that of each.
KnownAs(v, id, text) == id \in DOMAIN v /\ v[id] = text
Remembers(v, stack) ==
  \A i \in 1 .. Len(stack) : /\ KnownAs(v, stack[i].idBefore, stack[i].before)
                             /\ KnownAs(v, stack[i].idAfter, stack[i].after)
Base(b) == IF b.open = NoEdit THEN b.text ELSE b.open.before
Explains(v, b) ==
  /\ v \in [0 .. b.nextId - 1 -> Texts]
  /\ KnownAs(v, b.savedId, b.saved)
  /\ KnownAs(v, b.id, Base(b))
  /\ Remembers(v, b.undo)
  /\ Remembers(v, b.redo)

EditOK(b) == b.open # NoEdit => /\ b.open.idBefore = b.id
                                /\ b.open.changed \/ b.text = b.open.before
Sound(b) == b \in Buffers(Texts) /\ EditOK(b) /\ \E v : Explains(v, b)

\* v with a text for the next id.
Grown(v, n, text) == [i \in 0 .. n |-> IF i = n THEN text ELSE v[i]]

-------------------------------------------------------------------------------
(* The stacks.                                                             *)

LEMMA EmptyStack ==
  ASSUME NEW v
  PROVE  <<>> \in Stacks /\ Remembers(v, <<>>)
  BY EmptySeq DEF Stacks, Remembers

LEMMA LastOfStack ==
  ASSUME NEW s \in Stacks, s # <<>>
  PROVE  /\ Len(s) \in Nat \ {0}
         /\ s[Len(s)] \in Transactions(Texts)
         /\ SubSeq(s, 1, Len(s) - 1) \in Stacks
         /\ \A v : Remembers(v, s) =>
              /\ Remembers(v, SubSeq(s, 1, Len(s) - 1))
              /\ KnownAs(v, s[Len(s)].idBefore, s[Len(s)].before)
              /\ KnownAs(v, s[Len(s)].idAfter, s[Len(s)].after)
<1>1. Len(s) \in Nat \ {0}
  BY EmptySeq DEF Stacks
<1>2. \A i \in 1 .. Len(s) : s[i] \in Transactions(Texts)
  BY ElementOfSeq DEF Stacks
<1> DEFINE m == Len(s) - 1
<1>3. /\ SubSeq(s, 1, m) \in Stacks
      /\ Len(SubSeq(s, 1, m)) = IF 1 <= m THEN m - 1 + 1 ELSE 0
      /\ \A i \in 1 .. (m - 1 + 1) : SubSeq(s, 1, m)[i] = s[1 + i - 1]
  <2>1. m \in Int /\ \A i \in 1 .. m : s[i] \in Transactions(Texts)
    BY <1>1, <1>2
  <2>. QED BY <2>1, SubSeqProperties DEF Stacks
<1>4. \A i \in 1 .. Len(SubSeq(s, 1, m)) : i \in 1 .. Len(s) /\ SubSeq(s, 1, m)[i] = s[i]
  BY <1>1, <1>3
<1>5. Len(s) \in 1 .. Len(s)
  BY <1>1
<1>. QED BY <1>1, <1>2, <1>3, <1>4, <1>5 DEF Remembers

LEMMA PushedOnStack ==
  ASSUME NEW s \in Stacks, NEW t \in Transactions(Texts)
  PROVE  /\ Append(s, t) \in Stacks
         /\ Trim(Append(s, t)) \in Stacks
         /\ \A v : /\ Remembers(v, s)
                   /\ KnownAs(v, t.idBefore, t.before) /\ KnownAs(v, t.idAfter, t.after)
                   => Remembers(v, Append(s, t)) /\ Remembers(v, Trim(Append(s, t)))
<1> DEFINE a == Append(s, t)
<1>1. Len(s) \in Nat
  BY LenProperties DEF Stacks
<1>2. /\ a \in Stacks /\ Len(a) = Len(s) + 1
      /\ \A i \in 1 .. Len(s) : a[i] = s[i]
      /\ a[Len(s) + 1] = t
  BY <1>1, AppendProperties DEF Stacks
<1> HIDE DEF a
<1>3. ASSUME NEW v, Remembers(v, s),
             KnownAs(v, t.idBefore, t.before), KnownAs(v, t.idAfter, t.after)
      PROVE  Remembers(v, a)
  <2> SUFFICES ASSUME NEW i \in 1 .. Len(a)
               PROVE  /\ KnownAs(v, a[i].idBefore, a[i].before)
                      /\ KnownAs(v, a[i].idAfter, a[i].after)
    BY DEF Remembers
  <2>1. CASE i \in 1 .. Len(s)
    BY <1>2, <1>3, <2>1 DEF Remembers
  <2>2. CASE i = Len(s) + 1
    BY <1>2, <1>3, <2>2
  <2>. QED BY <1>1, <1>2, <2>1, <2>2
<1>4. a # <<>>
  BY <1>1, <1>2, EmptySeq
<1>5. /\ Tail(a) \in Stacks /\ Len(Tail(a)) = Len(a) - 1
      /\ \A i \in 1 .. Len(Tail(a)) : Tail(a)[i] = a[i + 1]
  BY <1>2, <1>4, HeadTailProperties DEF Stacks
<1>6. \A i \in 1 .. Len(Tail(a)) : i + 1 \in 1 .. Len(a)
  BY <1>1, <1>2, <1>5
<1>7. \A v : Remembers(v, a) => Remembers(v, Tail(a))
  BY <1>5, <1>6 DEF Remembers
<1>8. Trim(a) \in {a, Tail(a)}
  BY DEF Trim
<1>. QED BY <1>2, <1>3, <1>5, <1>7, <1>8 DEF a

-------------------------------------------------------------------------------
(* A new id.                                                               *)

LEMMA NewId ==
  ASSUME NEW n \in Nat, NEW v \in [0 .. n - 1 -> Texts], NEW text \in Texts
  PROVE  /\ Grown(v, n, text) \in [0 .. (n + 1) - 1 -> Texts]
         /\ KnownAs(Grown(v, n, text), n, text)
         /\ \A id, old : KnownAs(v, id, old) => KnownAs(Grown(v, n, text), id, old)
         /\ \A s : Remembers(v, s) => Remembers(Grown(v, n, text), s)
<1>1. DOMAIN v = 0 .. n - 1
  OBVIOUS
<1>2. Grown(v, n, text) \in [0 .. n -> Texts]
  BY DEF Grown
<1>3. (n + 1) - 1 = n
  OBVIOUS
<1>4. KnownAs(Grown(v, n, text), n, text)
  BY DEF Grown, KnownAs
<1>5. \A id, old : KnownAs(v, id, old) => KnownAs(Grown(v, n, text), id, old)
  BY <1>1 DEF Grown, KnownAs
<1>6. \A s : Remembers(v, s) => Remembers(Grown(v, n, text), s)
  BY <1>5 DEF Remembers
<1>. QED BY <1>2, <1>3, <1>4, <1>5, <1>6

-------------------------------------------------------------------------------
(* The operations of a buffer.                                             *)

\* What a clean buffer's ids say of its text.
LEMMA CleanBuffer ==
  ASSUME NEW b, Sound(b), ~IsDirty(b)
  PROVE  b.text = b.saved
<1>1. PICK v : Explains(v, b)
  BY DEF Sound
<1>2. b.id = b.savedId /\ Base(b) = b.text
  BY DEF Sound, EditOK, IsDirty, Base
<1>. QED BY <1>1, <1>2 DEF Explains, KnownAs

LEMMA LoadSound ==
  ASSUME NEW text \in Texts
  PROVE  Sound(Load(text)) /\ ~IsDirty(Load(text)) /\ Load(text).text = text
<1> DEFINE b == Load(text)
           v == [i \in 0 .. 0 |-> text]
<1>1. <<>> \in Seq(Transactions(Texts))
  BY EmptyStack DEF Stacks
<1>2. b \in Buffers(Texts)
  BY <1>1 DEF Load, Buffers
<1>3. /\ b.open = NoEdit /\ b.id = 0 /\ b.savedId = 0 /\ b.nextId = 1
      /\ b.text = text /\ b.saved = text /\ b.undo = <<>> /\ b.redo = <<>>
  BY DEF Load
<1>4. v \in [0 .. 1 - 1 -> Texts] /\ KnownAs(v, 0, text)
  BY DEF KnownAs
<1> HIDE DEF b, v
<1>5. Explains(v, b)
  BY <1>3, <1>4, EmptyStack DEF Explains, Base
<1>6. Sound(b) /\ ~IsDirty(b) /\ b.text = text
  BY <1>2, <1>3, <1>5 DEF Sound, EditOK, IsDirty
<1>. QED BY <1>6 DEF b

\* The parts of a buffer have their types.
LEMMA BufferParts ==
  ASSUME NEW b \in Buffers(Texts)
  PROVE  /\ b.text \in Texts /\ b.id \in Nat /\ b.savedId \in Nat /\ b.nextId \in Nat
         /\ b.saved \in Texts /\ b.undo \in Stacks /\ b.redo \in Stacks
         /\ b.open # NoEdit => /\ b.open \in Edits(Texts) /\ b.open.before \in Texts
                               /\ b.open.idBefore \in Nat /\ b.open.changed \in BOOLEAN
  BY DEF Buffers, Edits, Stacks

LEMMA EndEditSound ==
  ASSUME NEW b, Sound(b)
  PROVE  /\ Sound(EndEdit(b)) /\ EndEdit(b).open = NoEdit
         /\ EndEdit(b).text = b.text
         /\ ~IsDirty(b) => ~IsDirty(EndEdit(b))
<1> DEFINE e == EndEdit(b)
<1>1. b \in Buffers(Texts) /\ EditOK(b)
  BY DEF Sound
<1>2. PICK v : Explains(v, b)
  BY DEF Sound
<1>3. CASE b.open = NoEdit \/ ~b.open.changed
  <2>1. e = [b EXCEPT !.open = NoEdit]
    BY <1>3 DEF EndEdit
  <2>2. /\ e \in Buffers(Texts) /\ e.open = NoEdit
        /\ e.text = b.text /\ e.saved = b.saved /\ e.savedId = b.savedId
        /\ e.id = b.id /\ e.nextId = b.nextId /\ e.undo = b.undo /\ e.redo = b.redo
    BY <1>1, <2>1 DEF Buffers
  <2> HIDE DEF e
  <2>3. Base(b) = Base(e)
    BY <1>1, <1>3, <2>2 DEF Base, EditOK
  <2>4. Explains(v, e)
    BY <1>2, <2>2, <2>3 DEF Explains
  <2>5. Sound(e) /\ e.open = NoEdit /\ e.text = b.text /\ (~IsDirty(b) => ~IsDirty(e))
    BY <2>2, <2>4 DEF Sound, EditOK, IsDirty
  <2>. QED BY <2>5 DEF e
<1>4. CASE b.open # NoEdit /\ b.open.changed
  <2> DEFINE n == b.nextId
             t == [before |-> b.open.before, after |-> b.text,
                   idBefore |-> b.open.idBefore, idAfter |-> n]
             g == Grown(v, n, b.text)
             stack == Trim(Append(b.undo, t))
  <2>1. /\ b.text \in Texts /\ n \in Nat /\ b.saved \in Texts
        /\ b.undo \in Stacks /\ b.redo \in Stacks
        /\ b.open.before \in Texts /\ b.open.idBefore \in Nat
    BY <1>1, <1>4, BufferParts
  <2>2. t \in Transactions(Texts)
    BY <2>1 DEF Transactions
  <2>3. e = [b EXCEPT !.id = n, !.nextId = n + 1, !.open = NoEdit, !.redo = <<>>,
                      !.undo = stack]
    BY <1>4 DEF EndEdit
  <2>4. v \in [0 .. n - 1 -> Texts]
    BY <1>2 DEF Explains
  <2>5. /\ g \in [0 .. (n + 1) - 1 -> Texts] /\ KnownAs(g, n, b.text)
        /\ KnownAs(g, b.savedId, b.saved) /\ KnownAs(g, b.open.idBefore, b.open.before)
        /\ Remembers(g, b.undo)
    BY <1>1, <1>2, <1>4, <2>1, <2>4, NewId DEF Explains, EditOK, Base
  <2>6. stack \in Stacks /\ Remembers(g, stack)
    BY <2>1, <2>2, <2>5, PushedOnStack
  <2>7. <<>> \in Stacks /\ Remembers(g, <<>>)
    BY EmptyStack
  <2>. HIDE DEF t, g, stack, n
  <2>8. /\ e \in Buffers(Texts) /\ e.open = NoEdit
        /\ e.text = b.text /\ e.saved = b.saved /\ e.savedId = b.savedId
        /\ e.id = n /\ e.nextId = n + 1 /\ e.undo = stack /\ e.redo = <<>>
    <3>1. n + 1 \in Nat /\ stack \in Seq(Transactions(Texts)) /\ <<>> \in Seq(Transactions(Texts))
      BY <2>1, <2>6, <2>7 DEF Stacks
    <3>. DEFINE m == n + 1
    <3>2. e = [b EXCEPT !.id = n, !.nextId = m, !.open = NoEdit, !.redo = <<>>, !.undo = stack]
      BY <2>3
    <3>3. n \in Nat /\ m \in Nat
      BY <2>1, <3>1
    <3>. HIDE DEF m
    <3>4. /\ e \in Buffers(Texts) /\ e.open = NoEdit
          /\ e.text = b.text /\ e.saved = b.saved /\ e.savedId = b.savedId
          /\ e.id = n /\ e.nextId = m /\ e.undo = stack /\ e.redo = <<>>
      BY <1>1, <3>1, <3>2, <3>3 DEF Buffers
    <3>. QED BY <3>4 DEF m
  <2>. HIDE DEF e
  <2>9. Explains(g, e)
    BY <2>5, <2>6, <2>7, <2>8 DEF Explains, Base
  <2>10. Sound(e) /\ e.open = NoEdit /\ e.text = b.text
    BY <2>8, <2>9 DEF Sound, EditOK
  <2>11. IsDirty(b)
    BY <1>4 DEF IsDirty
  <2>. QED BY <2>10, <2>11 DEF e
<1>. QED BY <1>1, <1>3, <1>4, BufferParts

LEMMA BeginEditSound ==
  ASSUME NEW b, Sound(b)
  PROVE  Sound(BeginEdit(b)) /\ BeginEdit(b).open # NoEdit
<1> DEFINE e == EndEdit(b)
           o == [before |-> e.text, idBefore |-> e.id, changed |-> FALSE]
           g == BeginEdit(b)
<1>1. Sound(e) /\ e.open = NoEdit
  BY EndEditSound
<1> HIDE DEF e
<1>2. e \in Buffers(Texts)
  BY <1>1 DEF Sound
<1>3. e.text \in Texts /\ e.id \in Nat
  BY <1>2, BufferParts
<1>4. o \in Edits(Texts)
  BY <1>3 DEF Edits
<1>5. g = [e EXCEPT !.open = o]
  BY DEF BeginEdit, e
<1>6. o.before = e.text /\ o.idBefore = e.id
  OBVIOUS
<1> HIDE DEF o, g
<1>7. o # NoEdit
  BY <1>4, WorkspaceAssumption
<1>8. /\ g \in Buffers(Texts) /\ g.open = o
      /\ g.text = e.text /\ g.saved = e.saved /\ g.savedId = e.savedId
      /\ g.id = e.id /\ g.nextId = e.nextId /\ g.undo = e.undo /\ g.redo = e.redo
  BY <1>2, <1>4, <1>5 DEF Buffers
<1>9. Base(g) = Base(e) /\ EditOK(g)
  BY <1>1, <1>7, <1>6, <1>8 DEF Base, EditOK
<1>10. PICK v : Explains(v, e)
  BY <1>1 DEF Sound
<1>11. Explains(v, g)
  BY <1>8, <1>9, <1>10 DEF Explains
<1>12. Sound(g) /\ g.open # NoEdit
  BY <1>7, <1>8, <1>9, <1>11 DEF Sound
<1>. QED BY <1>12 DEF g

\* A change of a buffer with an open transaction.
LEMMA ChangedSound ==
  ASSUME NEW b, Sound(b), b.open # NoEdit, NEW new \in Texts
  PROVE  LET c == [b EXCEPT !.text = new, !.open.changed = TRUE]
         IN  Sound(c) /\ c.open # NoEdit /\ c.open.changed /\ c.text = new
<1> DEFINE o == [b.open EXCEPT !.changed = TRUE]
           c == [b EXCEPT !.text = new, !.open.changed = TRUE]
           d == [b EXCEPT !.text = new, !.open = o]
<1>1. b \in Buffers(Texts) /\ EditOK(b)
  BY DEF Sound
<1>2. b.open \in Edits(Texts)
  BY <1>1, BufferParts
<1>3. /\ o \in Edits(Texts) /\ o.before = b.open.before /\ o.idBefore = b.open.idBefore
      /\ o.changed
  BY <1>2 DEF Edits
<1>4. o # NoEdit
  BY <1>3, WorkspaceAssumption
<1>5. c = d
  OBVIOUS
<1> HIDE DEF o, c
<1>6. /\ d \in Buffers(Texts) /\ d.open = o
      /\ d.text = new /\ d.saved = b.saved /\ d.savedId = b.savedId
      /\ d.id = b.id /\ d.nextId = b.nextId /\ d.undo = b.undo /\ d.redo = b.redo
  BY <1>1, <1>3 DEF Buffers
<1> HIDE DEF d
<1>7. Base(d) = Base(b) /\ EditOK(d)
  BY <1>1, <1>3, <1>4, <1>6 DEF Base, EditOK
<1>8. PICK v : Explains(v, b)
  BY DEF Sound
<1>9. Explains(v, d)
  BY <1>6, <1>7, <1>8 DEF Explains
<1>10. Sound(d) /\ d.open # NoEdit /\ d.open.changed /\ d.text = new
  BY <1>3, <1>4, <1>6, <1>7, <1>9 DEF Sound
<1>. QED BY <1>5, <1>10 DEF c

LEMMA ChangeSound ==
  ASSUME NEW b, Sound(b), NEW new \in Texts
  PROVE  Sound(Change(b, new))
<1>1. CASE b.open = NoEdit
  <2> DEFINE g == BeginEdit(b)
             c == [g EXCEPT !.text = new, !.open.changed = TRUE]
  <2>1. Sound(g) /\ g.open # NoEdit
    BY BeginEditSound
  <2>2. Change(b, new) = EndEdit(c)
    BY <1>1 DEF Change
  <2> HIDE DEF g
  <2>3. Sound(c)
    BY <2>1, ChangedSound
  <2> HIDE DEF c
  <2>. QED BY <2>2, <2>3, EndEditSound
<1>2. CASE b.open # NoEdit
  <2> DEFINE c == [b EXCEPT !.text = new, !.open.changed = TRUE]
  <2>1. Change(b, new) = c
    BY <1>2 DEF Change
  <2>2. Sound(c)
    BY <1>2, ChangedSound
  <2> HIDE DEF c
  <2>. QED BY <2>1, <2>2
<1>. QED BY <1>1, <1>2

LEMMA UndoSound ==
  ASSUME NEW b, Sound(b), b.open = NoEdit
  PROVE  Sound(Undo(b))
<1>1. CASE b.undo = <<>>
  BY <1>1 DEF Undo
<1>2. CASE b.undo # <<>>
  <2> DEFINE s == b.undo
             t == s[Len(s)]
             rest == SubSeq(s, 1, Len(s) - 1)
             more == Append(b.redo, t)
             u == Undo(b)
  <2>1. b \in Buffers(Texts)
    BY DEF Sound
  <2>2. s \in Stacks /\ b.redo \in Stacks
    BY <2>1, BufferParts
  <2>3. PICK v : Explains(v, b)
    BY DEF Sound
  <2>4. t \in Transactions(Texts) /\ rest \in Stacks
    BY <1>2, <2>2, LastOfStack
  <2>5. /\ Remembers(v, rest) /\ KnownAs(v, t.idBefore, t.before)
        /\ KnownAs(v, t.idAfter, t.after)
    BY <1>2, <2>2, <2>3, LastOfStack DEF Explains
  <2>6. more \in Stacks /\ Remembers(v, more)
    BY <2>2, <2>3, <2>4, <2>5, PushedOnStack DEF Explains
  <2>7. u = [b EXCEPT !.undo = rest, !.redo = more, !.text = t.before, !.id = t.idBefore]
    BY <1>2 DEF Undo
  <2>8. t.before \in Texts /\ t.idBefore \in Nat
    BY <2>4 DEF Transactions
  <2> HIDE DEF t, rest, more, u
  <2>9. /\ u \in Buffers(Texts) /\ u.open = NoEdit
        /\ u.text = t.before /\ u.saved = b.saved /\ u.savedId = b.savedId
        /\ u.id = t.idBefore /\ u.nextId = b.nextId /\ u.undo = rest /\ u.redo = more
    BY <2>1, <2>4, <2>6, <2>7, <2>8 DEF Buffers, Stacks
  <2>10. Explains(v, u)
    BY <2>3, <2>5, <2>6, <2>9 DEF Explains, Base
  <2>11. Sound(u)
    BY <2>9, <2>10 DEF Sound, EditOK
  <2>. QED BY <2>11 DEF u
<1>. QED BY <1>1, <1>2

LEMMA RedoSound ==
  ASSUME NEW b, Sound(b), b.open = NoEdit
  PROVE  Sound(Redo(b))
<1>1. CASE b.redo = <<>>
  BY <1>1 DEF Redo
<1>2. CASE b.redo # <<>>
  <2> DEFINE s == b.redo
             t == s[Len(s)]
             rest == SubSeq(s, 1, Len(s) - 1)
             more == Append(b.undo, t)
             u == Redo(b)
  <2>1. b \in Buffers(Texts)
    BY DEF Sound
  <2>2. s \in Stacks /\ b.undo \in Stacks
    BY <2>1, BufferParts
  <2>3. PICK v : Explains(v, b)
    BY DEF Sound
  <2>4. t \in Transactions(Texts) /\ rest \in Stacks
    BY <1>2, <2>2, LastOfStack
  <2>5. /\ Remembers(v, rest) /\ KnownAs(v, t.idBefore, t.before)
        /\ KnownAs(v, t.idAfter, t.after)
    BY <1>2, <2>2, <2>3, LastOfStack DEF Explains
  <2>6. more \in Stacks /\ Remembers(v, more)
    BY <2>2, <2>3, <2>4, <2>5, PushedOnStack DEF Explains
  <2>7. u = [b EXCEPT !.redo = rest, !.undo = more, !.text = t.after, !.id = t.idAfter]
    BY <1>2 DEF Redo
  <2>8. t.after \in Texts /\ t.idAfter \in Nat
    BY <2>4 DEF Transactions
  <2> HIDE DEF t, rest, more, u
  <2>9. /\ u \in Buffers(Texts) /\ u.open = NoEdit
        /\ u.text = t.after /\ u.saved = b.saved /\ u.savedId = b.savedId
        /\ u.id = t.idAfter /\ u.nextId = b.nextId /\ u.undo = more /\ u.redo = rest
    BY <2>1, <2>4, <2>6, <2>7, <2>8 DEF Buffers, Stacks
  <2>10. Explains(v, u)
    BY <2>3, <2>5, <2>6, <2>9 DEF Explains, Base
  <2>11. Sound(u)
    BY <2>9, <2>10 DEF Sound, EditOK
  <2>. QED BY <2>11 DEF u
<1>. QED BY <1>1, <1>2

LEMMA SavedSound ==
  ASSUME NEW b, Sound(b)
  PROVE  Sound(Saved(b)) /\ ~IsDirty(Saved(b)) /\ Saved(b).text = b.text
<1> DEFINE e == EndEdit(b)
           s == Saved(b)
<1>1. Sound(e) /\ e.open = NoEdit /\ e.text = b.text
  BY EndEditSound
<1>2. s = [e EXCEPT !.savedId = e.id, !.saved = e.text]
  BY DEF Saved
<1> HIDE DEF e, s
<1>3. e \in Buffers(Texts)
  BY <1>1 DEF Sound
<1>4. /\ s \in Buffers(Texts) /\ s.open = NoEdit
      /\ s.text = e.text /\ s.saved = e.text /\ s.savedId = e.id
      /\ s.id = e.id /\ s.nextId = e.nextId /\ s.undo = e.undo /\ s.redo = e.redo
  BY <1>1, <1>2, <1>3 DEF Buffers
<1>5. PICK v : Explains(v, e)
  BY <1>1 DEF Sound
<1>6. Explains(v, s)
  BY <1>1, <1>4, <1>5 DEF Explains, Base
<1>7. Sound(s) /\ ~IsDirty(s) /\ s.text = b.text
  BY <1>1, <1>4, <1>6 DEF Sound, EditOK, IsDirty
<1>. QED BY <1>7 DEF s

LEMMA RecoveredSound ==
  ASSUME NEW b, Sound(b), NEW text \in Texts
  PROVE  Sound(Recovered(b, text)) /\ Recovered(b, text).text = text
<1> DEFINE e == EndEdit(b)
           n == e.nextId
           r == Recovered(b, text)
<1>1. Sound(e) /\ e.open = NoEdit
  BY EndEditSound
<1>2. r = [e EXCEPT !.text = text, !.id = n, !.nextId = n + 1,
                    !.undo = <<>>, !.redo = <<>>, !.open = NoEdit]
  BY DEF Recovered
<1> HIDE DEF e, r
<1>3. e \in Buffers(Texts) /\ n \in Nat
  BY <1>1, BufferParts DEF Sound
<1>4. <<>> \in Stacks
  BY EmptyStack
<1>5. PICK v : Explains(v, e)
  BY <1>1 DEF Sound
<1> DEFINE g == Grown(v, n, text)
<1>6. v \in [0 .. n - 1 -> Texts] /\ KnownAs(v, e.savedId, e.saved)
  BY <1>5 DEF Explains
<1>7. /\ g \in [0 .. (n + 1) - 1 -> Texts] /\ KnownAs(g, n, text)
      /\ KnownAs(g, e.savedId, e.saved)
  BY <1>3, <1>6, NewId
<1> HIDE DEF n
<1>8. /\ r \in Buffers(Texts) /\ r.open = NoEdit
      /\ r.text = text /\ r.saved = e.saved /\ r.savedId = e.savedId
      /\ r.id = n /\ r.nextId = n + 1 /\ r.undo = <<>> /\ r.redo = <<>>
  <2>. DEFINE m == n + 1
  <2>1. m \in Nat /\ <<>> \in Seq(Transactions(Texts))
    BY <1>3, <1>4 DEF Stacks
  <2>2. r = [e EXCEPT !.text = text, !.id = n, !.nextId = m,
                      !.undo = <<>>, !.redo = <<>>, !.open = NoEdit]
    BY <1>2
  <2>. HIDE DEF m
  <2>3. /\ r \in Buffers(Texts) /\ r.open = NoEdit
        /\ r.text = text /\ r.saved = e.saved /\ r.savedId = e.savedId
        /\ r.id = n /\ r.nextId = m /\ r.undo = <<>> /\ r.redo = <<>>
    BY <1>3, <2>1, <2>2 DEF Buffers
  <2>. QED BY <2>3 DEF m
<1> HIDE DEF g
<1>9. Explains(g, r)
  BY <1>7, <1>8, EmptyStack DEF Explains, Base
<1>10. Sound(r) /\ r.text = text
  BY <1>8, <1>9 DEF Sound, EditOK
<1>. QED BY <1>10 DEF r

\* What says how the file stands changes neither text nor ids.
LEMMA FlagsSound ==
  ASSUME NEW b, Sound(b),
         NEW c \in {[b EXCEPT !.behind = TRUE], [b EXCEPT !.warned = TRUE], Stamped(b)}
  PROVE  Sound(c) /\ IsDirty(c) = IsDirty(b) /\ c.text = b.text
<1>1. b \in Buffers(Texts) /\ EditOK(b)
  BY DEF Sound
<1>2. /\ c \in Buffers(Texts) /\ c.open = b.open
      /\ c.text = b.text /\ c.saved = b.saved /\ c.savedId = b.savedId
      /\ c.id = b.id /\ c.nextId = b.nextId /\ c.undo = b.undo /\ c.redo = b.redo
  BY <1>1 DEF Buffers, Stamped
<1>3. PICK v : Explains(v, b)
  BY DEF Sound
<1>4. Explains(v, c)
  BY <1>2, <1>3 DEF Explains, Base
<1>. QED BY <1>1, <1>2, <1>4 DEF Sound, EditOK, IsDirty

-------------------------------------------------------------------------------
(* The workspace.                                                          *)

Snapshots == [txt : Texts \cup {NoText}, meta : BOOLEAN]
Ops == [file : {"txt"}, doc : Docs, text : Texts \cup {NoText}]
       \cup [file : {"meta"}, doc : Docs, there : BOOLEAN]
Chores == [do : {"open", "stamp", "watch", "ready", "event"}, path : Paths \cup {NoTab}]

Unsaved == {d \in Docs : AllDirty(d)}
Distinct(s) == \A i, j \in DOMAIN s : i # j => s[i] # s[j]

\* What may be done to the snapshots: the one of a file without a clean tab is not removed.
Removes(op) == IF op.file = "txt" THEN op.text = NoText ELSE ~op.there
Keeping == {op \in Ops : Removes(op) => op.doc \notin Unsaved}

\* What may be done to buffers: a time is taken for a tab, and no tab opens under a prompt.
Fitting == {c \in Chores : /\ c.do = "stamp" => c.path \in Tabs
                           /\ c.do = "open" => c.path \in Paths
                           /\ c.do \in {"open", "ready"} => confirm = "none"}

FilesOK ==
  /\ files \in [Docs -> Texts] /\ snap \in [Docs -> Snapshots]
  /\ session \in Seq(Paths) /\ fresh \in 0 .. MaxTexts /\ notices \subseteq Docs
BuffersOK ==
  /\ buf \in [Paths -> Buffers(Texts) \cup {NoBuffer}]
  /\ \A p \in Tabs : Sound(buf[p])
BarOK == bar \in Seq(Tabs) /\ Distinct(bar)
ActiveOK ==
  /\ active \in Tabs \cup {NoTab}
  /\ confirm # "none" => active # NoTab /\ prompts = <<>>
  /\ confirm = "closing" => ~Dirty(active)
PromptsOK == prompts \in Seq(Docs \ Unsaved) /\ Distinct(prompts)
StepsOK == steps \in Seq(Fitting)
TodoOK == todo \in Seq(Keeping)
TickingOK == ticking \in Seq(Tabs) /\ (Finishing => ticking = <<>>)

IInv ==
  /\ FilesOK /\ BuffersOK /\ BarOK /\ ActiveOK /\ PromptsOK
  /\ StepsOK /\ TodoOK /\ TickingOK

\* A buffer is never taken for no buffer.
LEMMA SoundIsThere ==
  ASSUME NEW b, Sound(b)
  PROVE  b # NoBuffer
  BY WorkspaceAssumption DEF Sound

LEMMA PathParts ==
  /\ \A p \in Paths : FileOf(p) \in Docs
  /\ \A d \in Docs : CanonicalPath(d) \in Paths /\ FileOf(CanonicalPath(d)) = d
  BY WorkspaceAssumption DEF Paths, FileOf, CanonicalPath

LEMMA NothingLeft ==
  /\ prompts' = <<>> => PromptsOK'
  /\ steps' = <<>> => StepsOK'
  /\ todo' = <<>> => TodoOK'
  /\ ticking' = <<>> => TickingOK'
  /\ bar' = <<>> => BarOK'
<1>1. DOMAIN <<>> = {}
  OBVIOUS
<1>2. /\ <<>> \in Seq(Docs \ Unsaved') /\ <<>> \in Seq(Fitting') /\ <<>> \in Seq(Keeping')
      /\ <<>> \in Seq(Tabs')
  BY EmptySeq
<1>. QED BY <1>1, <1>2 DEF PromptsOK, StepsOK, TodoOK, TickingOK, BarOK, Distinct

\* What is true of a sequence that grows or shrinks at an end, or in the middle.
LEMMA Appended ==
  ASSUME NEW S, NEW s \in Seq(S), NEW e \in S, Distinct(s), \A i \in DOMAIN s : s[i] # e
  PROVE  Distinct(Append(s, e))
<1>1. Len(s) \in Nat /\ DOMAIN s = 1 .. Len(s)
  BY LenProperties
<1>2. /\ Append(s, e) \in Seq(S) /\ Len(Append(s, e)) = Len(s) + 1
      /\ \A i \in 1 .. Len(s) : Append(s, e)[i] = s[i]
      /\ Append(s, e)[Len(s) + 1] = e
  BY AppendProperties
<1>3. DOMAIN Append(s, e) = 1 .. Len(s) + 1
  BY <1>2, LenProperties
<1>. QED BY <1>1, <1>2, <1>3 DEF Distinct

LEMMA Shortened ==
  ASSUME NEW S, NEW s \in Seq(S), s # <<>>, Distinct(s)
  PROVE  Tail(s) \in Seq(S \ {Head(s)}) /\ Distinct(Tail(s)) /\ Head(s) \in S
<1>1. /\ Head(s) \in S /\ Tail(s) \in Seq(S) /\ Len(Tail(s)) = Len(s) - 1
      /\ \A i \in 1 .. Len(Tail(s)) : Tail(s)[i] = s[i + 1]
  BY HeadTailProperties
<1>2. Len(s) \in Nat \ {0} /\ DOMAIN s = 1 .. Len(s)
  BY EmptySeq, LenProperties
<1>3. DOMAIN Tail(s) = 1 .. Len(Tail(s))
  BY <1>1, LenProperties
<1>4. \A i \in DOMAIN Tail(s) : i + 1 \in DOMAIN s /\ i + 1 # 1 /\ Tail(s)[i] = s[i + 1]
  BY <1>1, <1>2, <1>3
<1>5. Distinct(Tail(s))
  <2>1. \A i, j \in DOMAIN Tail(s) : i # j => i + 1 # j + 1
    BY <1>1, <1>2, <1>3
  <2>. QED BY <1>4, <2>1 DEF Distinct
<1>6. Head(s) = s[1] /\ 1 \in DOMAIN s
  BY <1>2
<1>7. \A i \in 2 .. Len(s) : s[i] \in S \ {Head(s)}
  BY <1>2, <1>6, ElementOfSeq DEF Distinct
<1>8. SubSeq(s, 2, Len(s)) \in Seq(S \ {Head(s)})
  BY <1>2, <1>7, SubSeqProperties
<1>9. Tail(s) = SubSeq(s, 2, Len(s))
  BY TailIsSubSeq
<1>. QED BY <1>1, <1>5, <1>8, <1>9

LEMMA Removed ==
  ASSUME NEW S, NEW s \in Seq(S), Distinct(s), NEW k \in DOMAIN s
  PROVE  RemoveAt(s, k) \in Seq(S \ {s[k]}) /\ Distinct(RemoveAt(s, k))
<1> DEFINE a == SubSeq(s, 1, k - 1)
           b == SubSeq(s, k + 1, Len(s))
           R == S \ {s[k]}
           r == RemoveAt(s, k)
<1>1. Len(s) \in Nat /\ DOMAIN s = 1 .. Len(s)
  BY LenProperties
<1>2. \A i \in 1 .. Len(s) : i # k => s[i] \in R
  BY <1>1, ElementOfSeq DEF Distinct
<1> HIDE DEF R
<1>3. /\ a \in Seq(R) /\ Len(a) = k - 1
      /\ \A i \in 1 .. k - 1 : a[i] = s[i]
  <2>1. \A i \in 1 .. k - 1 : s[i] \in R
    BY <1>1, <1>2
  <2>2. /\ a \in Seq(R) /\ Len(a) = IF 1 <= k - 1 THEN k - 1 - 1 + 1 ELSE 0
        /\ \A i \in 1 .. k - 1 - 1 + 1 : a[i] = s[1 + i - 1]
    <3>1. 1 \in Int /\ k - 1 \in Int
      BY <1>1
    <3>. QED BY <2>1, <3>1, SubSeqProperties
  <2> HIDE DEF a
  <2>. QED BY <1>1, <2>2
<1>4. /\ b \in Seq(R) /\ Len(b) = Len(s) - k
      /\ \A i \in 1 .. Len(s) - k : b[i] = s[k + i]
  <2>1. \A i \in k + 1 .. Len(s) : s[i] \in R
    BY <1>1, <1>2
  <2>2. /\ b \in Seq(R) /\ Len(b) = IF k + 1 <= Len(s) THEN Len(s) - (k + 1) + 1 ELSE 0
        /\ \A i \in 1 .. Len(s) - (k + 1) + 1 : b[i] = s[(k + 1) + i - 1]
    <3>1. k + 1 \in Int /\ Len(s) \in Int
      BY <1>1
    <3>. QED BY <2>1, <3>1, SubSeqProperties
  <2> HIDE DEF b
  <2>3. \A i \in 1 .. Len(s) - k : b[i] = s[k + i]
    <3> SUFFICES ASSUME NEW i \in 1 .. Len(s) - k PROVE b[i] = s[k + i]
      OBVIOUS
    <3>1. i \in 1 .. Len(s) - (k + 1) + 1 /\ (k + 1) + i - 1 = k + i
      BY <1>1
    <3>. QED BY <2>2, <3>1
  <2>. QED BY <1>1, <2>2, <2>3
<1>5. r = a \o b
  BY DEF RemoveAt
<1> HIDE DEF a, b, r
<1>6. /\ r \in Seq(R) /\ Len(r) = Len(s) - 1
      /\ \A i \in 1 .. Len(s) - 1 : r[i] = IF i <= k - 1 THEN s[i] ELSE s[i + 1]
  <2>1. /\ r \in Seq(R) /\ Len(r) = Len(a) + Len(b)
        /\ \A i \in 1 .. Len(a) + Len(b) :
             r[i] = IF i <= Len(a) THEN a[i] ELSE b[i - Len(a)]
    BY <1>3, <1>4, <1>5, ConcatProperties
  <2>2. Len(r) = Len(s) - 1
    BY <1>1, <1>3, <1>4, <2>1
  <2>3. ASSUME NEW i \in 1 .. Len(s) - 1
        PROVE  r[i] = IF i <= k - 1 THEN s[i] ELSE s[i + 1]
    <3>1. CASE i <= k - 1
      <4>1. i \in 1 .. k - 1 /\ i \in 1 .. Len(a) + Len(b) /\ i <= Len(a)
        BY <1>1, <1>3, <1>4, <3>1
      <4>2. r[i] = a[i] /\ a[i] = s[i]
        BY <1>3, <2>1, <4>1
      <4>. QED BY <3>1, <4>2
    <3>2. CASE ~(i <= k - 1)
      <4>1. i - (k - 1) \in 1 .. Len(s) - k /\ k + (i - (k - 1)) = i + 1
        BY <1>1, <3>2
      <4>2. r[i] = b[i - (k - 1)]
        <5>1. i \in 1 .. Len(a) + Len(b) /\ ~(i <= Len(a)) /\ Len(a) = k - 1
          BY <1>1, <1>3, <1>4, <3>2
        <5>. QED BY <2>1, <5>1
      <4>. QED BY <1>4, <3>2, <4>1, <4>2
    <3>. QED BY <3>1, <3>2
  <2>. QED BY <2>1, <2>2, <2>3
<1>7. DOMAIN r = 1 .. Len(s) - 1
  BY <1>6, LenProperties
<1>8. Distinct(r)
  <2> SUFFICES ASSUME NEW i \in 1 .. Len(s) - 1, NEW j \in 1 .. Len(s) - 1, i # j
               PROVE  r[i] # r[j]
    BY <1>7 DEF Distinct
  <2> DEFINE at(n) == IF n <= k - 1 THEN n ELSE n + 1
  <2>1. at(i) \in DOMAIN s /\ at(j) \in DOMAIN s /\ at(i) # at(j)
    BY <1>1
  <2>2. r[i] = s[at(i)] /\ r[j] = s[at(j)]
    BY <1>6
  <2>. QED BY <2>1, <2>2 DEF Distinct
<1>. QED BY <1>6, <1>8 DEF R, r

-------------------------------------------------------------------------------
(* The buffers of the tabs.                                                *)

\* A file whose tabs only become clean is not unsaved unless it was.
LEMMA Quieter ==
  ASSUME NEW d \in Docs,
         \A p \in Paths : FileOf(p) = d =>
           /\ p \in Tabs => p \in Tabs'
           /\ p \in Tabs' /\ IsDirty(buf'[p]) => p \in Tabs /\ IsDirty(buf[p])
  PROVE  d \in Unsaved' => d \in Unsaved
<1> SUFFICES ASSUME d \in Unsaved' PROVE AllDirty(d)
  BY DEF Unsaved
<1>1. AllDirty(d)'
  BY DEF Unsaved
<1>2. \A p : p \in TabsOf(d)' <=> p \in Tabs' /\ FileOf(p) = d
  BY DEF TabsOf
<1>3. \A p : p \in TabsOf(d) <=> p \in Tabs /\ FileOf(p) = d
  BY DEF TabsOf
<1>4. Tabs \subseteq Paths /\ Tabs' \subseteq Paths
  BY DEF Tabs
<1>5. PICK q : q \in TabsOf(d)' /\ IsDirty(buf'[q])
  BY <1>1 DEF AllDirty
<1>6. q \in TabsOf(d)
  BY <1>2, <1>3, <1>4, <1>5
<1>7. \A p \in TabsOf(d) : IsDirty(buf[p])
  BY <1>1, <1>2, <1>3, <1>4 DEF AllDirty
<1>. QED BY <1>6, <1>7 DEF AllDirty

\* A file with a clean tab is not unsaved.
LEMMA CleanTab ==
  ASSUME NEW p \in Tabs, ~IsDirty(buf[p])
  PROVE  FileOf(p) \notin Unsaved
<1>1. p \in TabsOf(FileOf(p))
  BY DEF TabsOf
<1>. QED BY <1>1 DEF Unsaved, AllDirty

LEMMA CleanTabNext ==
  ASSUME NEW p \in Tabs', ~IsDirty(buf'[p])
  PROVE  FileOf(p) \notin Unsaved'
<1>1. p \in TabsOf(FileOf(p))'
  BY DEF TabsOf
<1>. QED BY <1>1 DEF Unsaved, AllDirty

\* A path gets a buffer, or another one.
LEMMA BufferPut ==
  ASSUME BuffersOK, NEW p \in Paths, NEW b, Sound(b), Put(p, b)
  PROVE  /\ BuffersOK' /\ Tabs' = Tabs \cup {p} /\ buf'[p] = b
         /\ \A q \in Paths : q # p => buf'[q] = buf[q]
         /\ Unsaved' \subseteq Unsaved \cup {FileOf(p)}
         /\ (IsDirty(b) => Dirty(p)) => Unsaved' \subseteq Unsaved
<1>1. b \in Buffers(Texts) /\ b # NoBuffer
  BY SoundIsThere DEF Sound
<1>2. /\ buf' \in [Paths -> Buffers(Texts) \cup {NoBuffer}]
      /\ buf'[p] = b /\ \A q \in Paths : q # p => buf'[q] = buf[q]
  BY <1>1 DEF BuffersOK, Put
<1>3. Tabs' = Tabs \cup {p}
  BY <1>1, <1>2 DEF Tabs
<1>4. \A q \in Tabs' : Sound(buf'[q])
  BY <1>2, <1>3 DEF BuffersOK, Tabs
<1>5. BuffersOK'
  BY <1>2, <1>4 DEF BuffersOK
<1>6. ASSUME NEW d \in Docs, d # FileOf(p) \/ (IsDirty(b) => Dirty(p))
      PROVE  d \in Unsaved' => d \in Unsaved
  <2>1. ASSUME NEW q \in Paths, FileOf(q) = d
        PROVE  /\ q \in Tabs => q \in Tabs'
               /\ q \in Tabs' /\ IsDirty(buf'[q]) => q \in Tabs /\ IsDirty(buf[q])
    BY <1>2, <1>3, <1>6, <2>1 DEF Dirty
  <2>. QED BY <2>1, Quieter
<1>7. Unsaved' \subseteq Docs
  BY DEF Unsaved
<1>. QED BY <1>2, <1>3, <1>5, <1>6, <1>7

LEMMA BufferGone ==
  ASSUME BuffersOK, NEW p \in Paths, Put(p, NoBuffer)
  PROVE  /\ BuffersOK' /\ Tabs' = Tabs \ {p}
         /\ \A q \in Paths : q # p => buf'[q] = buf[q]
<1>1. /\ buf' \in [Paths -> Buffers(Texts) \cup {NoBuffer}]
      /\ buf'[p] = NoBuffer /\ \A q \in Paths : q # p => buf'[q] = buf[q]
  BY DEF BuffersOK, Put
<1>2. Tabs' = Tabs \ {p}
  BY <1>1 DEF Tabs
<1>3. \A q \in Tabs' : Sound(buf'[q])
  BY <1>1, <1>2 DEF BuffersOK, Tabs
<1>. QED BY <1>1, <1>2, <1>3 DEF BuffersOK

\* Every buffer stays or gets another, and none becomes dirty.
LEMMA BuffersMapped ==
  ASSUME BuffersOK, NEW f, buf' = [q \in Paths |-> f[q]],
         \A q \in Paths : IF q \in Tabs
                          THEN Sound(f[q]) /\ (IsDirty(f[q]) => IsDirty(buf[q]))
                          ELSE f[q] = NoBuffer
  PROVE  /\ BuffersOK' /\ Tabs' = Tabs /\ Unsaved' \subseteq Unsaved
         /\ \A q \in Tabs : IsDirty(buf'[q]) => IsDirty(buf[q])
<1>1. \A q \in Paths : buf'[q] = f[q]
  OBVIOUS
<1>2. \A q \in Paths : q \in Tabs <=> buf'[q] # NoBuffer
  BY <1>1, SoundIsThere
<1>3. Tabs \subseteq Paths /\ Tabs' = {q \in Paths : buf'[q] # NoBuffer}
  BY DEF Tabs
<1>4. Tabs' = Tabs
  BY <1>2, <1>3
<1>5. \A q \in Paths : f[q] \in Buffers(Texts) \cup {NoBuffer}
  BY DEF Sound
<1>6. buf' \in [Paths -> Buffers(Texts) \cup {NoBuffer}]
  BY <1>5
<1>7. BuffersOK'
  BY <1>1, <1>3, <1>4, <1>6 DEF BuffersOK
<1>8. ASSUME NEW d \in Docs PROVE d \in Unsaved' => d \in Unsaved
  <2>1. \A q \in Paths : FileOf(q) = d =>
          /\ q \in Tabs => q \in Tabs'
          /\ q \in Tabs' /\ IsDirty(buf'[q]) => q \in Tabs /\ IsDirty(buf[q])
    BY <1>1, <1>4
  <2>. QED BY <2>1, Quieter
<1>9. Unsaved' \subseteq Docs
  BY DEF Unsaved
<1>. QED BY <1>1, <1>3, <1>4, <1>7, <1>8, <1>9

LEMMA BuffersSame ==
  ASSUME BuffersOK, UNCHANGED buf
  PROVE  /\ BuffersOK' /\ Tabs' = Tabs /\ Unsaved' \subseteq Unsaved
         /\ \A q \in Tabs : IsDirty(buf'[q]) => IsDirty(buf[q])
<1>1. buf' = [q \in Paths |-> buf[q]]
  BY DEF BuffersOK
<1>2. \A q \in Paths : IF q \in Tabs THEN Sound(buf[q]) ELSE buf[q] = NoBuffer
  BY DEF BuffersOK, Tabs
<1>. QED BY <1>1, <1>2, BuffersMapped

\* The buffer of a tab.
LEMMA TabSound ==
  ASSUME BuffersOK, NEW p \in Tabs
  PROVE  /\ p \in Paths /\ FileOf(p) \in Docs /\ Sound(buf[p])
         /\ buf[p] # NoBuffer /\ buf[p].text \in Texts
<1>1. Sound(buf[p]) /\ p \in Paths
  BY DEF BuffersOK, Tabs
<1>. QED BY <1>1, BufferParts, PathParts DEF Tabs, Sound

\* open_file() gives the tab's buffer, or a clean one.
LEMMA OpenedSound ==
  ASSUME FilesOK, BuffersOK, NEW p \in Paths
  PROVE  /\ Sound(Opened(p)) /\ (IsDirty(Opened(p)) => Dirty(p))
         /\ p \in Tabs => Opened(p) = buf[p]
<1>1. files[FileOf(p)] \in Texts
  BY PathParts DEF FilesOK
<1>. QED BY <1>1, LoadSound, TabSound DEF Opened, Dirty

\* A tab is shown: it is the active one, in the bar.
LEMMA Shown ==
  ASSUME BuffersOK, BarOK, NEW p \in Paths, NEW b, Sound(b), ShowTab(p, b)
  PROVE  BarOK' /\ active' = p /\ p \in Tabs'
<1>1. Tabs' = Tabs \cup {p}
  BY BufferPut DEF ShowTab
<1>2. bar \in Seq(Tabs') /\ Distinct(bar)
  BY <1>1, SeqMonotonic DEF BarOK
<1>3. CASE p \in Tabs
  BY <1>1, <1>2, <1>3 DEF ShowTab, BarOK, Distinct
<1>4. CASE p \notin Tabs
  <2>1. bar' = Append(bar, p)
    BY <1>4 DEF ShowTab
  <2>2. \A i \in DOMAIN bar : bar[i] # p
    <3>1. DOMAIN bar = 1 .. Len(bar) /\ bar \in Seq(Tabs)
      BY LenProperties DEF BarOK
    <3>. QED BY <1>4, <3>1, ElementOfSeq
  <2>3. Append(bar, p) \in Seq(Tabs') /\ Distinct(Append(bar, p))
    BY <1>1, <1>2, <2>2, Appended, AppendProperties
  <2>. QED BY <1>1, <2>1, <2>3 DEF ShowTab, BarOK, Distinct
<1>. QED BY <1>3, <1>4

\* Another time on disk changes neither text nor ids.
LEMMA TouchedSound ==
  ASSUME NEW d, NEW f, \A q \in Tabs : Sound(f[q])
  PROVE  LET t == Touched(d, f)
         IN  /\ t = [q \in Paths |-> t[q]]
             /\ \A q \in Tabs : /\ Sound(t[q]) /\ IsDirty(t[q]) = IsDirty(f[q])
                                /\ t[q].text = f[q].text
             /\ \A q \in Paths \ Tabs : t[q] = f[q]
<1> DEFINE t == Touched(d, f)
<1>1. t = [q \in Paths |-> IF q \in TabsOf(d) THEN [f[q] EXCEPT !.behind = TRUE] ELSE f[q]]
  BY DEF Touched
<1>2. TabsOf(d) \subseteq Tabs /\ Tabs \subseteq Paths
  BY DEF TabsOf, Tabs
<1> HIDE DEF t
<1>3. t = [q \in Paths |-> t[q]]
  BY <1>1
<1>4. ASSUME NEW q \in Tabs
      PROVE  Sound(t[q]) /\ IsDirty(t[q]) = IsDirty(f[q]) /\ t[q].text = f[q].text
  <2>1. CASE q \in TabsOf(d)
    <3>1. t[q] = [f[q] EXCEPT !.behind = TRUE]
      BY <1>1, <1>2, <2>1
    <3>. QED BY <3>1, FlagsSound
  <2>2. CASE q \notin TabsOf(d)
    BY <1>1, <1>2, <2>2
  <2>. QED BY <2>1, <2>2
<1>5. \A q \in Paths \ Tabs : t[q] = f[q]
  BY <1>1, <1>2
<1>. QED BY <1>3, <1>4, <1>5 DEF t

\* What no new tab, and no change of one, disturbs.
LEMMA TabsGrow ==
  ASSUME IInv, Tabs \subseteq Tabs'
  PROVE  /\ UNCHANGED bar => BarOK'
         /\ UNCHANGED <<steps, confirm>> => StepsOK'
         /\ UNCHANGED <<ticking, confirm>> => TickingOK'
<1>1. bar \in Seq(Tabs') /\ ticking \in Seq(Tabs')
  BY SeqMonotonic DEF IInv, BarOK, TickingOK
<1>2. ASSUME UNCHANGED confirm PROVE steps \in Seq(Fitting')
  <2>1. Fitting \subseteq Fitting'
    BY <1>2 DEF Fitting
  <2>. QED BY <2>1, SeqMonotonic DEF IInv, StepsOK
<1>. QED BY <1>1, <1>2 DEF IInv, BarOK, StepsOK, TickingOK, Finishing, Distinct

\* What a step that makes nothing dirty does not disturb.
LEMMA NothingDirtied ==
  ASSUME IInv, Tabs \subseteq Tabs', Unsaved' \subseteq Unsaved,
         \A q \in Tabs : IsDirty(buf'[q]) => IsDirty(buf[q])
  PROVE  /\ UNCHANGED prompts => PromptsOK'
         /\ UNCHANGED todo => TodoOK'
         /\ UNCHANGED <<active, confirm, prompts>> => ActiveOK'
<1>1. Docs \ Unsaved \subseteq Docs \ Unsaved'
  OBVIOUS
<1>2. Keeping \subseteq Keeping'
  BY DEF Keeping
<1>3. prompts \in Seq(Docs \ Unsaved') /\ todo \in Seq(Keeping')
  BY <1>1, <1>2, SeqMonotonic DEF IInv, PromptsOK, TodoOK
<1>4. ASSUME UNCHANGED <<active, confirm, prompts>> PROVE ActiveOK'
  <2>1. active \in Tabs \/ active = NoTab
    BY DEF IInv, ActiveOK
  <2>2. confirm = "closing" => active \in Tabs /\ ~IsDirty(buf[active])
    BY <2>1 DEF IInv, ActiveOK, Dirty
  <2>. QED BY <1>4, <2>1, <2>2 DEF IInv, ActiveOK, Dirty
<1>. QED BY <1>3, <1>4 DEF IInv, PromptsOK, TodoOK, Distinct

\* The notices are of files, whatever the watcher does.
LEMMA WatcherOK ==
  ASSUME notices \subseteq Docs,
         \/ UNCHANGED notices
         \/ notices' = {}
         \/ \E d \in Docs : Replaced(d) \/ Rewritten(d)
  PROVE  notices' \subseteq Docs
  BY DEF Replaced, Rewritten

-------------------------------------------------------------------------------
(* The steps that go on without the user.                                  *)

LEMMA InitOK == Init => IInv
<1> SUFFICES ASSUME Init PROVE IInv
  OBVIOUS
<1>1. Tabs = {} /\ Unsaved = {}
  <2>1. Tabs = {}
    BY DEF Init, NoBuffers, Tabs
  <2>. QED BY <2>1 DEF TabsOf, AllDirty, Unsaved
<1>2. <<>> \in Seq(Paths) /\ <<>> \in Seq(Docs) /\ <<>> \in Seq(Tabs) /\ <<>> \in Seq(Keeping)
      /\ <<>> \in Seq(Fitting) /\ DOMAIN <<>> = {}
  BY EmptySeq
<1>3. FilesOK
  BY <1>2, WorkspaceAssumption DEF Init, SnapInit, WatcherInit, FilesOK, Snapshots, Texts
<1>4. BuffersOK /\ ActiveOK
  BY <1>1 DEF Init, NoBuffers, BuffersOK, ActiveOK
<1>5. BarOK /\ PromptsOK /\ StepsOK /\ TodoOK /\ TickingOK
  BY <1>1, <1>2 DEF Init, BarOK, PromptsOK, StepsOK, TodoOK, TickingOK, Distinct
<1>. QED BY <1>3, <1>4, <1>5 DEF IInv

\* Nothing is open any more.
LEMMA NoBuffersNext ==
  ASSUME buf' = NoBuffers
  PROVE  BuffersOK' /\ Tabs' = {} /\ Unsaved' = {}
<1>1. Tabs' = {}
  BY DEF NoBuffers, Tabs
<1>2. BuffersOK'
  BY <1>1 DEF NoBuffers, BuffersOK
<1>3. Unsaved' = {}
  BY <1>1 DEF TabsOf, AllDirty, Unsaved
<1>. QED BY <1>1, <1>2, <1>3

LEMMA StartOK ==
  ASSUME IInv, NEW paths \in Seq(Paths), Start(paths)
  PROVE  IInv'
<1>1. FilesOK'
  BY DEF IInv, FilesOK, Start, watcherVars
<1>2. BuffersOK' /\ Tabs' = {} /\ Unsaved' = {}
  BY NoBuffersNext DEF Start
<1>3. ActiveOK'
  BY DEF ActiveOK, Start
<1>4. BarOK' /\ TodoOK' /\ TickingOK'
  BY NothingLeft DEF Start
<1>5. PromptsOK'
  <2>1. IsFiniteSet(Listed) /\ Listed \subseteq Docs
    BY WorkspaceAssumption, FS_Subset DEF Listed
  <2> DEFINE n == Cardinality(Listed)
  <2>2. n \in Nat
    BY <2>1, FS_CardinalityType
  <2>3. /\ prompts' \in [1 .. n -> Listed]
        /\ \A i, j \in 1 .. n : i # j => prompts'[i] # prompts'[j]
    BY DEF Start, SetToSeqs
  <2> HIDE DEF n
  <2>4. prompts' \in Seq(Listed) /\ DOMAIN prompts' = 1 .. n
    BY <2>2, <2>3
  <2>5. prompts' \in Seq(Docs \ Unsaved')
    BY <1>2, <2>1, <2>4, SeqMonotonic
  <2>. QED BY <2>3, <2>4, <2>5 DEF PromptsOK, Distinct
<1>6. StepsOK'
  <2> DEFINE opens == [i \in DOMAIN paths |-> Step("open", paths[i])]
             ready == Step("ready", NoTab)
  <2>1. Len(paths) \in Nat /\ DOMAIN paths = 1 .. Len(paths)
    BY LenProperties
  <2>2. \A p \in Paths \cup {NoTab} : Step("open", p) \in Chores /\ Step("ready", p) \in Chores
    BY DEF Step, Chores
  <2>3. /\ \A p \in Paths : Step("open", p) \in Fitting'
        /\ ready \in Fitting'
    BY <2>2 DEF Step, Fitting, Start
  <2> HIDE DEF ready
  <2>4. \A i \in DOMAIN paths : opens[i] \in Fitting'
    BY <2>1, <2>3, ElementOfSeq
  <2>5. opens \in Seq(Fitting')
    <3>1. opens \in [1 .. Len(paths) -> Fitting']
      BY <2>1, <2>4
    <3>. QED BY <2>1, <3>1
  <2>6. steps' = Append(opens, ready)
    BY DEF Start, ready
  <2> HIDE DEF opens
  <2>. QED BY <2>3, <2>5, <2>6, AppendProperties DEF StepsOK
<1>. QED BY <1>1, <1>2, <1>3, <1>4, <1>5, <1>6 DEF IInv

LEMMA DownOK ==
  ASSUME IInv, Down, UNCHANGED <<files, snap, fresh>>, session' \in {session, bar}
  PROVE  IInv'
<1>1. bar \in Seq(Paths)
  <2>1. Tabs \subseteq Paths
    BY DEF Tabs
  <2>. QED BY <2>1, SeqMonotonic DEF IInv, BarOK
<1>2. FilesOK'
  BY <1>1 DEF IInv, FilesOK, Down, StopWatcher
<1>3. BuffersOK'
  BY NoBuffersNext DEF Down
<1>4. ActiveOK'
  BY DEF Down, ActiveOK
<1>5. BarOK' /\ PromptsOK' /\ StepsOK' /\ TodoOK' /\ TickingOK'
  BY NothingLeft DEF Down
<1>. QED BY <1>2, <1>3, <1>4, <1>5 DEF IInv

\* What a step of a handler leaves for later.
LEMMA StepsLeft ==
  ASSUME IInv, steps # <<>>
  PROVE  Head(steps) \in Fitting /\ Tail(steps) \in Seq(Fitting)
  BY HeadTailProperties DEF IInv, StepsOK

LEMMA StampFits ==
  ASSUME NEW p \in Paths
  PROVE  /\ p \in Tabs' => Step("stamp", p) \in Fitting'
         /\ Step("watch", p) \in Fitting' /\ Step("event", p) \in Fitting'
<1>1. \A do \in {"stamp", "watch", "event"} : Step(do, p) \in Chores
  BY DEF Step, Chores
<1>. QED BY <1>1 DEF Step, Fitting

\* What stands before the rest of the steps.
LEMMA StepsBefore ==
  ASSUME IInv, Tabs \subseteq Tabs', UNCHANGED confirm, NEW rest \in Seq(Fitting),
         NEW first \in Seq(Fitting'), steps' = first \o rest
  PROVE  StepsOK'
<1>1. Fitting \subseteq Fitting'
  BY DEF Fitting
<1>2. rest \in Seq(Fitting')
  BY <1>1, SeqMonotonic
<1>. QED BY <1>2, ConcatProperties DEF StepsOK

\* A handler's step that makes nothing dirty.
LEMMA WorkingOK ==
  ASSUME IInv, Working, BuffersOK', BarOK', StepsOK', Tabs \subseteq Tabs',
         Unsaved' \subseteq Unsaved, \A q \in Tabs : IsDirty(buf'[q]) => IsDirty(buf[q]),
         notices' \subseteq Docs,
         UNCHANGED active \/ (confirm = "none" /\ active' \in Tabs' \cup {NoTab})
  PROVE  IInv'
<1>1. FilesOK'
  BY DEF IInv, FilesOK, Working
<1>2. PromptsOK' /\ TodoOK' /\ TickingOK'
  BY NothingDirtied, TabsGrow DEF Working, askVars
<1>3. ActiveOK'
  <2>1. CASE UNCHANGED active
    BY <2>1, NothingDirtied DEF Working, askVars
  <2>2. CASE confirm = "none" /\ active' \in Tabs' \cup {NoTab}
    BY <2>2 DEF ActiveOK, Working, askVars
  <2>. QED BY <2>1, <2>2
<1>. QED BY <1>1, <1>2, <1>3 DEF IInv

LEMMA StepOpenOK ==
  ASSUME IInv, StepOpen
  PROVE  IInv'
<1> DEFINE p == Head(steps).path
<1>1. p \in Paths /\ confirm = "none" /\ Tail(steps) \in Seq(Fitting)
  BY StepsLeft DEF StepOpen, Doing, Fitting
<1>2. ShowTab(p, Opened(p)) /\ steps' = Stamping(p) \o Tail(steps) /\ Working
      /\ UNCHANGED watcherVars
  BY DEF StepOpen
<1> HIDE DEF p
<1>3. Sound(Opened(p)) /\ (IsDirty(Opened(p)) => Dirty(p)) /\ (p \in Tabs => Opened(p) = buf[p])
  BY <1>1, OpenedSound DEF IInv
<1>4. /\ BuffersOK' /\ Tabs' = Tabs \cup {p} /\ Unsaved' \subseteq Unsaved
      /\ buf'[p] = Opened(p) /\ \A q \in Paths : q # p => buf'[q] = buf[q]
  BY <1>1, <1>2, <1>3, BufferPut DEF ShowTab, IInv
<1>5. \A q \in Tabs : IsDirty(buf'[q]) => IsDirty(buf[q])
  BY <1>3, <1>4 DEF Tabs
<1>6. BarOK' /\ active' = p
  BY <1>1, <1>2, <1>3, Shown DEF IInv
<1>7. StepsOK'
  <2>1. Stamping(p) \in Seq(Fitting')
    BY <1>1, <1>4, StampFits, EmptySeq DEF Stamping
  <2>. QED BY <1>1, <1>2, <1>4, <2>1, StepsBefore DEF Working, askVars
<1>. QED BY <1>1, <1>2, <1>4, <1>5, <1>6, <1>7, WorkingOK DEF IInv, FilesOK, watcherVars

LEMMA StepStampOK ==
  ASSUME IInv, StepStamp
  PROVE  /\ IInv' /\ Tabs' = Tabs
         /\ \A q \in Tabs : buf'[q].text = buf[q].text
<1> DEFINE p == Head(steps).path
           b == Stamped(buf[p])
<1>1. p \in Tabs /\ Tail(steps) \in Seq(Fitting)
  BY StepsLeft DEF StepStamp, Doing, Fitting
<1>2. Put(p, b) /\ steps' = Tail(steps) /\ Working /\ UNCHANGED <<bar, active, watcherVars>>
  BY DEF StepStamp
<1> HIDE DEF p
<1>3. p \in Paths /\ Sound(buf[p])
  BY <1>1, TabSound DEF IInv
<1>4. Sound(b) /\ IsDirty(b) = IsDirty(buf[p]) /\ b.text = buf[p].text
  BY <1>3, FlagsSound
<1> HIDE DEF b
<1>5. /\ BuffersOK' /\ Tabs' = Tabs \cup {p} /\ Unsaved' \subseteq Unsaved
      /\ buf'[p] = b /\ \A q \in Paths : q # p => buf'[q] = buf[q]
  BY <1>1, <1>2, <1>3, <1>4, BufferPut DEF IInv, Dirty
<1>6. Tabs' = Tabs /\ Tabs \subseteq Paths
  BY <1>1, <1>5 DEF Tabs
<1>7. \A q \in Tabs : IsDirty(buf'[q]) => IsDirty(buf[q])
  BY <1>4, <1>5, <1>6
<1>8. StepsOK'
  <2>1. Fitting \subseteq Fitting'
    BY <1>2, <1>6 DEF Fitting, Working, askVars
  <2>. QED BY <1>1, <1>2, <2>1, SeqMonotonic DEF StepsOK
<1>9. BarOK'
  BY <1>2, <1>6, TabsGrow
<1>10. IInv'
  BY <1>2, <1>5, <1>6, <1>7, <1>8, <1>9, WorkingOK DEF IInv, FilesOK, watcherVars
<1>. QED BY <1>4, <1>5, <1>6, <1>10

LEMMA StepWatchOK ==
  ASSUME IInv, StepWatch
  PROVE  IInv'
<1>1. Tail(steps) \in Seq(Fitting) /\ steps' = Tail(steps) /\ Working /\ UNCHANGED tabVars
  BY StepsLeft DEF StepWatch, Doing
<1>2. /\ BuffersOK' /\ Tabs' = Tabs /\ Unsaved' \subseteq Unsaved
      /\ \A q \in Tabs : IsDirty(buf'[q]) => IsDirty(buf[q])
  BY <1>1, BuffersSame DEF IInv, tabVars
<1>3. BarOK'
  BY <1>1, <1>2, TabsGrow DEF tabVars
<1>4. StepsOK'
  <2>1. Fitting' = Fitting
    BY <1>1, <1>2 DEF Fitting, Working, askVars
  <2>. QED BY <1>1, <2>1 DEF StepsOK
<1>5. notices' \subseteq Docs
  BY DEF StepWatch, Watch, IInv, FilesOK
<1>. QED BY <1>1, <1>2, <1>3, <1>4, <1>5, WorkingOK DEF tabVars

LEMMA StepReadyOK ==
  ASSUME IInv, StepReady
  PROVE  IInv'
<1>1. Tail(steps) \in Seq(Fitting) /\ steps' = Tail(steps) /\ Working /\ UNCHANGED <<buf, bar>>
  BY StepsLeft DEF StepReady, Doing
<1>2. /\ BuffersOK' /\ Tabs' = Tabs /\ Unsaved' \subseteq Unsaved
      /\ \A q \in Tabs : IsDirty(buf'[q]) => IsDirty(buf[q])
  BY <1>1, BuffersSame DEF IInv
<1>3. BarOK'
  BY <1>1, <1>2, TabsGrow
<1>4. StepsOK'
  <2>1. Fitting' = Fitting
    BY <1>1, <1>2 DEF Fitting, Working, askVars
  <2>. QED BY <1>1, <2>1 DEF StepsOK
<1>5. notices' \subseteq Docs
  BY DEF StepReady, StartWatcher
<1>6. confirm = "none" /\ active' \in Tabs' \cup {NoTab}
  BY <1>2, StepsLeft DEF StepReady, Doing, Fitting
<1>. QED BY <1>1, <1>2, <1>3, <1>4, <1>5, <1>6, WorkingOK

\* A warning changes neither text nor ids.
LEMMA WarnedOK ==
  ASSUME IInv, NEW p \in Tabs, Put(p, [buf[p] EXCEPT !.warned = TRUE])
  PROVE  /\ BuffersOK' /\ Tabs' = Tabs /\ Unsaved' \subseteq Unsaved
         /\ \A q \in Tabs : /\ IsDirty(buf'[q]) => IsDirty(buf[q])
                            /\ buf'[q].text = buf[q].text
<1> DEFINE b == [buf[p] EXCEPT !.warned = TRUE]
<1>1. p \in Paths /\ Sound(buf[p])
  BY TabSound DEF IInv
<1>2. Sound(b) /\ IsDirty(b) = IsDirty(buf[p]) /\ b.text = buf[p].text
  BY <1>1, FlagsSound
<1>3. Put(p, b)
  OBVIOUS
<1> HIDE DEF b
<1>4. /\ BuffersOK' /\ Tabs' = Tabs \cup {p} /\ Unsaved' \subseteq Unsaved
      /\ buf'[p] = b /\ \A q \in Paths : q # p => buf'[q] = buf[q]
  BY <1>1, <1>2, <1>3, BufferPut DEF IInv, Dirty
<1>5. Tabs' = Tabs /\ Tabs \subseteq Paths
  BY <1>4 DEF Tabs
<1>. QED BY <1>2, <1>4, <1>5

\* A notice keeps what is not saved.
LEMMA StepEventOK ==
  ASSUME IInv, StepEvent
  PROVE  /\ IInv' /\ Tabs' = Tabs
         /\ \A q \in Tabs : IsDirty(buf[q]) => buf'[q].text = buf[q].text
<1>1. /\ Tail(steps) \in Seq(Fitting) /\ Working /\ UNCHANGED <<bar, active, watcherVars>>
      /\ Tabs \subseteq Paths
  BY StepsLeft DEF StepEvent, Doing, Tabs
<1>2. \/ \E p \in Tabs : EventReload(p) \/ EventWarn(p)
      \/ UNCHANGED buf /\ steps' = Tail(steps)
  BY DEF StepEvent, TabsOf
<1> DEFINE Done ==
      /\ BuffersOK' /\ Tabs' = Tabs /\ Unsaved' \subseteq Unsaved /\ StepsOK'
      /\ \A q \in Tabs : /\ IsDirty(buf'[q]) => IsDirty(buf[q])
                         /\ IsDirty(buf[q]) => buf'[q].text = buf[q].text
<1>3. ASSUME Tabs' = Tabs, steps' = Tail(steps) PROVE StepsOK'
  <2>1. Fitting' = Fitting
    BY <1>1, <1>3 DEF Fitting, Working, askVars
  <2>. QED BY <1>1, <1>3, <2>1 DEF StepsOK
<1>4. ASSUME NEW p \in Tabs, EventReload(p) PROVE Done
  <2> DEFINE b == Load(files[FileOf(p)])
             first == <<Step("stamp", p)>> \o (IF p = active THEN <<Step("watch", p)>> ELSE <<>>)
  <2>1. p \in Paths /\ FileOf(p) \in Docs
    BY TabSound DEF IInv
  <2>2. Sound(b) /\ ~IsDirty(b)
    BY <2>1, LoadSound DEF IInv, FilesOK
  <2>3. Put(p, b) /\ steps' = first \o Tail(steps) /\ ~IsDirty(buf[p])
    BY <1>4 DEF EventReload
  <2> HIDE DEF b
  <2>4. /\ BuffersOK' /\ Tabs' = Tabs \cup {p} /\ Unsaved' \subseteq Unsaved
        /\ buf'[p] = b /\ \A q \in Paths : q # p => buf'[q] = buf[q]
    BY <2>1, <2>2, <2>3, BufferPut DEF IInv
  <2>5. Tabs' = Tabs
    BY <2>4
  <2>6. Step("stamp", p) \in Fitting' /\ Step("watch", p) \in Fitting'
    BY <2>1, <2>5, StampFits
  <2>7. first \in Seq(Fitting')
    <3> DEFINE one == <<Step("stamp", p)>>
               two == IF p = active THEN <<Step("watch", p)>> ELSE <<>>
    <3>1. one \in Seq(Fitting') /\ two \in Seq(Fitting')
      BY <2>6, EmptySeq
    <3> HIDE DEF one, two
    <3>2. one \o two \in Seq(Fitting')
      BY <3>1, ConcatProperties
    <3>. QED BY <3>2 DEF one, two
  <2> HIDE DEF first
  <2>8. StepsOK'
    BY <1>1, <2>3, <2>5, <2>7, StepsBefore DEF Working, askVars
  <2>. QED BY <1>1, <2>2, <2>3, <2>4, <2>5, <2>8
<1>5. ASSUME NEW p \in Tabs, EventWarn(p) PROVE Done
  BY <1>3, <1>5, WarnedOK DEF EventWarn
<1>6. ASSUME UNCHANGED buf, steps' = Tail(steps) PROVE Done
  <2>1. /\ BuffersOK' /\ Tabs' = Tabs /\ Unsaved' \subseteq Unsaved
        /\ \A q \in Tabs : IsDirty(buf'[q]) => IsDirty(buf[q])
    BY <1>6, BuffersSame DEF IInv
  <2>. QED BY <1>3, <1>6, <2>1
<1>7. Done
  BY <1>2, <1>4, <1>5, <1>6
<1>8. BarOK'
  BY <1>1, <1>7, TabsGrow
<1>9. IInv'
  BY <1>1, <1>7, <1>8, WorkingOK DEF IInv, FilesOK, watcherVars
<1>. QED BY <1>7, <1>9

LEMMA WorkOK ==
  ASSUME IInv, Work
  PROVE  IInv'
  BY StepOpenOK, StepStampOK, StepWatchOK, StepReadyOK, StepEventOK DEF Work

LEMMA StoreTypes ==
  ASSUME IInv, Store
  PROVE  /\ Head(todo) \in Keeping /\ Tail(todo) \in Seq(Keeping)
         /\ snap' \in [Docs -> Snapshots]
         /\ \A d \in Docs : d # Head(todo).doc => snap'[d] = snap[d]
         /\ IF Head(todo).file = "txt"
            THEN /\ snap'[Head(todo).doc].txt = Head(todo).text
                 /\ snap'[Head(todo).doc].meta = snap[Head(todo).doc].meta
            ELSE /\ snap'[Head(todo).doc].meta = Head(todo).there
                 /\ snap'[Head(todo).doc].txt = snap[Head(todo).doc].txt
<1> DEFINE op == Head(todo)
<1>1. todo \in Seq(Keeping) /\ todo # <<>>
  BY DEF IInv, TodoOK, Store
<1>2. op \in Keeping /\ Tail(todo) \in Seq(Keeping)
  BY <1>1, HeadTailProperties
<1>3. StoreStep(op)
  BY DEF Store
<1> HIDE DEF op
<1>4. op \in Ops /\ op.doc \in Docs /\ snap \in [Docs -> Snapshots]
  BY <1>2 DEF Keeping, Ops, IInv, FilesOK
<1>5. snap[op.doc] \in Snapshots
  BY <1>4
<1>6. CASE op.file = "txt"
  <2> DEFINE s == [snap[op.doc] EXCEPT !.txt = op.text]
  <2>1. op.text \in Texts \cup {NoText}
    BY <1>4, <1>6 DEF Ops
  <2>2. s \in Snapshots /\ s.txt = op.text /\ s.meta = snap[op.doc].meta
    BY <1>5, <2>1 DEF Snapshots
  <2>3. snap' = [snap EXCEPT ![op.doc] = s]
    BY <1>3, <1>6 DEF StoreStep
  <2> HIDE DEF s
  <2>4. snap' \in [Docs -> Snapshots] /\ snap'[op.doc] = s
    BY <1>4, <2>2, <2>3
  <2>5. \A d \in Docs : d # op.doc => snap'[d] = snap[d]
    BY <1>4, <2>3
  <2>. QED BY <1>2, <1>6, <2>2, <2>4, <2>5 DEF op
<1>7. CASE op.file # "txt"
  <2> DEFINE s == [snap[op.doc] EXCEPT !.meta = op.there]
  <2>1. op.there \in BOOLEAN
    BY <1>4, <1>7 DEF Ops
  <2>2. s \in Snapshots /\ s.meta = op.there /\ s.txt = snap[op.doc].txt
    BY <1>5, <2>1 DEF Snapshots
  <2>3. snap' = [snap EXCEPT ![op.doc] = s]
    BY <1>3, <1>7 DEF StoreStep
  <2> HIDE DEF s
  <2>4. snap' \in [Docs -> Snapshots] /\ snap'[op.doc] = s
    BY <1>4, <2>2, <2>3
  <2>5. \A d \in Docs : d # op.doc => snap'[d] = snap[d]
    BY <1>4, <2>3
  <2>. QED BY <1>2, <1>7, <2>2, <2>4, <2>5 DEF op
<1>. QED BY <1>6, <1>7

\* A step that leaves the tabs alone.
LEMMA TabsAlone ==
  ASSUME IInv, UNCHANGED <<tabVars, confirm, prompts>>
  PROVE  /\ BuffersOK' /\ Tabs' = Tabs /\ Unsaved' \subseteq Unsaved
         /\ BarOK' /\ ActiveOK' /\ PromptsOK'
         /\ UNCHANGED steps => StepsOK'
         /\ UNCHANGED todo => TodoOK'
         /\ UNCHANGED ticking => TickingOK'
<1>1. /\ BuffersOK' /\ Tabs' = Tabs /\ Unsaved' \subseteq Unsaved
      /\ \A q \in Tabs : IsDirty(buf'[q]) => IsDirty(buf[q])
  BY BuffersSame DEF IInv, tabVars
<1>. QED BY <1>1, TabsGrow, NothingDirtied DEF tabVars

LEMMA StoreOK ==
  ASSUME IInv, Store
  PROVE  IInv'
<1>1. FilesOK'
  BY StoreTypes DEF IInv, FilesOK, Store, watcherVars
<1>2. /\ BuffersOK' /\ BarOK' /\ ActiveOK' /\ PromptsOK' /\ StepsOK' /\ TickingOK'
      /\ Unsaved' \subseteq Unsaved
  BY TabsAlone DEF Store, askVars
<1>3. TodoOK'
  <2>1. Keeping \subseteq Keeping'
    BY <1>2 DEF Keeping
  <2>. QED BY <2>1, StoreTypes, SeqMonotonic DEF Store, TodoOK
<1>. QED BY <1>1, <1>2, <1>3 DEF IInv

LEMMA TickOK ==
  ASSUME IInv, Tick
  PROVE  IInv'
<1>1. FilesOK'
  BY DEF IInv, FilesOK, Tick, watcherVars
<1>2. /\ BuffersOK' /\ BarOK' /\ ActiveOK' /\ PromptsOK' /\ StepsOK' /\ TodoOK'
      /\ Tabs' = Tabs
  BY TabsAlone DEF Tick, askVars
<1>3. TickingOK'
  BY <1>2 DEF IInv, BarOK, TickingOK, Tick, Free, Finishing, askVars
<1>. QED BY <1>1, <1>2, <1>3 DEF IInv

LEMMA ClearOps ==
  ASSUME NEW d \in Docs, d \notin Unsaved'
  PROVE  ClearSnapshot(d) \in Seq(Keeping') /\ ClearSnapshot(d) # <<>>
<1> DEFINE a == [file |-> "txt", doc |-> d, text |-> NoText]
           b == [file |-> "meta", doc |-> d, there |-> FALSE]
<1>1. ClearSnapshot(d) = <<a, b>>
  BY DEF ClearSnapshot
<1>2. a \in Keeping' /\ b \in Keeping'
  BY DEF Keeping, Ops
<1> HIDE DEF a, b
<1>. QED BY <1>1, <1>2

LEMMA WriteOps ==
  ASSUME NEW d \in Docs, NEW text \in Texts
  PROVE  WriteSnapshot(d, text) \in Seq(Keeping')
<1> DEFINE a == [file |-> "txt", doc |-> d, text |-> text]
           b == [file |-> "meta", doc |-> d, there |-> TRUE]
<1>1. WriteSnapshot(d, text) = <<a, b>>
  BY DEF WriteSnapshot
<1>2. a \in Keeping' /\ b \in Keeping'
  BY WorkspaceAssumption DEF Keeping, Ops, Removes
<1> HIDE DEF a, b
<1>. QED BY <1>1, <1>2

LEMMA TickTabOK ==
  ASSUME IInv, TickTab
  PROVE  IInv'
<1>1. TickStep
  BY DEF TickTab
<1>2. FilesOK'
  BY <1>1 DEF IInv, FilesOK, TickStep, watcherVars
<1>3. /\ BuffersOK' /\ BarOK' /\ ActiveOK' /\ PromptsOK' /\ StepsOK'
      /\ Tabs' = Tabs /\ Unsaved' \subseteq Unsaved
  BY <1>1, TabsAlone DEF TickStep, askVars
<1> DEFINE p == Head(ticking)
<1>4. p \in Tabs /\ Tail(ticking) \in Seq(Tabs)
  BY <1>1, HeadTailProperties DEF TickStep, IInv, TickingOK
<1>5. TickingOK'
  BY <1>1, <1>3, <1>4 DEF TickStep, IInv, TickingOK, Finishing, askVars
<1>6. todo' = IF Dirty(p) THEN WriteSnapshot(FileOf(p), buf[p].text) ELSE ClearSnapshot(FileOf(p))
  BY DEF TickTab
<1> HIDE DEF p
<1>7. FileOf(p) \in Docs /\ buf[p].text \in Texts
  BY <1>4, TabSound DEF IInv
<1>8. ~Dirty(p) => FileOf(p) \notin Unsaved'
  BY <1>3, <1>4, CleanTab DEF Dirty
<1>9. TodoOK'
  BY <1>6, <1>7, <1>8, WriteOps, ClearOps DEF TodoOK
<1>. QED BY <1>2, <1>3, <1>5, <1>9 DEF IInv

\* A save, whether the file could be written or not.
LEMMA TrySaveOK ==
  ASSUME IInv, NEW p \in Tabs, TrySave(p), steps = <<>>, todo = <<>>
  PROVE  /\ files' \in [Docs -> Texts] /\ notices' \subseteq Docs
         /\ BuffersOK' /\ Tabs' = Tabs /\ Unsaved' \subseteq Unsaved
         /\ StepsOK' /\ TodoOK'
         /\ todo' # <<>> => ~IsDirty(buf'[p])
         /\ \A q \in Tabs : /\ IsDirty(buf'[q]) => IsDirty(buf[q])
                            /\ buf'[q].text = buf[q].text
<1>1. p \in Paths /\ FileOf(p) \in Docs /\ Sound(buf[p]) /\ buf[p].text \in Texts
  BY TabSound DEF IInv
<1>2. Tabs \subseteq Paths /\ notices \subseteq Docs
  BY DEF Tabs, IInv, FilesOK
<1>3. CASE SaveBuffer(p)
  <2> DEFINE d == FileOf(p)
             b == Saved(buf[p])
             f == [buf EXCEPT ![p] = b]
             t == Touched(d, f)
  <2>1. Sound(b) /\ ~IsDirty(b) /\ b.text = buf[p].text
    BY <1>1, SavedSound
  <2>2. /\ buf' = t /\ files' = [files EXCEPT ![d] = buf[p].text]
        /\ steps' = <<Step("stamp", p)>> /\ todo' = ClearSnapshot(d) /\ Replaced(d)
    BY <1>3 DEF SaveBuffer
  <2> HIDE DEF b
  <2>3. f[p] = b /\ \A q \in Paths : q # p => f[q] = buf[q]
    BY <1>1 DEF IInv, BuffersOK
  <2> HIDE DEF f
  <2>4. \A q \in Tabs : Sound(f[q])
    BY <1>2, <2>1, <2>3 DEF IInv, BuffersOK
  <2>5. /\ t = [q \in Paths |-> t[q]]
        /\ \A q \in Tabs : Sound(t[q]) /\ IsDirty(t[q]) = IsDirty(f[q]) /\ t[q].text = f[q].text
        /\ \A q \in Paths \ Tabs : t[q] = f[q]
    BY <2>4, TouchedSound
  <2> HIDE DEF t
  <2>6. \A q \in Tabs : /\ IsDirty(t[q]) => IsDirty(buf[q])
                        /\ t[q].text = buf[q].text
    BY <1>2, <2>1, <2>3, <2>5
  <2>7. \A q \in Paths \ Tabs : t[q] = NoBuffer
    BY <2>3, <2>5 DEF Tabs
  <2>8. BuffersOK' /\ Tabs' = Tabs /\ Unsaved' \subseteq Unsaved
    <3>1. buf' = [q \in Paths |-> t[q]]
      BY <2>2, <2>5
    <3>. QED BY <2>5, <2>6, <2>7, <3>1, BuffersMapped DEF IInv
  <2>9. ~IsDirty(buf'[p])
    BY <2>1, <2>2, <2>3, <2>5
  <2>10. d \notin Unsaved'
    BY <2>8, <2>9, CleanTabNext
  <2>11. TodoOK'
    BY <1>1, <2>2, <2>10, ClearOps DEF TodoOK
  <2>12. StepsOK'
    BY <1>1, <2>2, <2>8, StampFits DEF StepsOK
  <2>13. files' \in [Docs -> Texts] /\ notices' \subseteq Docs
    BY <1>1, <1>2, <2>2, WatcherOK DEF IInv, FilesOK
  <2>. QED BY <2>2, <2>6, <2>8, <2>9, <2>11, <2>12, <2>13
<1>4. CASE SaveFails(p)
  <2> DEFINE b == EndEdit(buf[p])
  <2>1. Sound(b) /\ (~IsDirty(buf[p]) => ~IsDirty(b)) /\ b.text = buf[p].text
    BY <1>1, EndEditSound
  <2>2. Put(p, b) /\ UNCHANGED <<files, watcherVars, steps, todo>>
    BY <1>4 DEF SaveFails
  <2> HIDE DEF b
  <2>3. /\ BuffersOK' /\ Tabs' = Tabs \cup {p} /\ Unsaved' \subseteq Unsaved /\ buf'[p] = b
        /\ \A q \in Paths : q # p => buf'[q] = buf[q]
    BY <1>1, <2>1, <2>2, BufferPut DEF Dirty, IInv
  <2>4. Tabs' = Tabs
    BY <2>3
  <2>5. StepsOK' /\ TodoOK' /\ todo' = <<>>
    BY <2>2, NothingLeft
  <2>6. files' \in [Docs -> Texts] /\ notices' \subseteq Docs
    BY <1>2, <2>2 DEF IInv, FilesOK, watcherVars
  <2>. QED BY <1>2, <2>1, <2>3, <2>4, <2>5, <2>6
<1>. QED BY <1>3, <1>4 DEF TrySave

LEMMA AutosaveOK ==
  ASSUME IInv, Autosave
  PROVE  /\ IInv' /\ Tabs' = Tabs
         /\ \A q \in Tabs : buf'[q].text = buf[q].text
<1>1. active \in Tabs /\ steps = <<>> /\ todo = <<>> /\ notices \subseteq Docs
  BY DEF Autosave, Free, IInv, ActiveOK, FilesOK
<1>2. /\ files' \in [Docs -> Texts] /\ notices' \subseteq Docs
      /\ BuffersOK' /\ Tabs' = Tabs /\ Unsaved' \subseteq Unsaved
      /\ StepsOK' /\ TodoOK'
      /\ \A q \in Tabs : /\ IsDirty(buf'[q]) => IsDirty(buf[q])
                         /\ buf'[q].text = buf[q].text
  <2>1. CASE TrySave(active)
    BY <1>1, <2>1, TrySaveOK
  <2>2. CASE Put(active, [buf[active] EXCEPT !.warned = TRUE])
             /\ UNCHANGED <<files, watcherVars, steps, todo>>
    <3>1. StepsOK' /\ TodoOK'
      BY <1>1, <2>2, NothingLeft
    <3>2. files' \in [Docs -> Texts] /\ notices' \subseteq Docs
      BY <1>1, <2>2 DEF IInv, FilesOK, watcherVars
    <3>. QED BY <1>1, <2>2, <3>1, <3>2, WarnedOK
  <2>. QED BY <2>1, <2>2 DEF Autosave
<1>3. FilesOK'
  BY <1>2 DEF IInv, FilesOK, Autosave
<1>4. BarOK' /\ TickingOK'
  BY <1>2, TabsGrow DEF Autosave, askVars
<1>5. ActiveOK' /\ PromptsOK'
  BY <1>2, NothingDirtied DEF Autosave, askVars
<1>. QED BY <1>2, <1>3, <1>4, <1>5 DEF IInv

LEMMA PollFsOK ==
  ASSUME IInv, PollFs
  PROVE  IInv'
<1>1. /\ BuffersOK' /\ BarOK' /\ ActiveOK' /\ PromptsOK' /\ TodoOK' /\ TickingOK'
      /\ Tabs' = Tabs
  BY TabsAlone DEF PollFs, askVars
<1>2. FilesOK'
  BY DEF IInv, FilesOK, PollFs, PollWatcher
<1>3. StepsOK'
  <2>1. PICK order \in SetToSeqs(notices) :
          steps' = [i \in DOMAIN order |-> Step("event", CanonicalPath(order[i]))]
    BY DEF PollFs
  <2> DEFINE n == Cardinality(notices)
  <2>2. n \in Nat
    BY WorkspaceAssumption, FS_Subset, FS_CardinalityType DEF IInv, FilesOK
  <2>3. order \in [1 .. n -> notices]
    BY DEF SetToSeqs
  <2> HIDE DEF n
  <2>4. DOMAIN order = 1 .. n /\ \A i \in 1 .. n : order[i] \in Docs
    BY <2>3 DEF IInv, FilesOK
  <2>5. \A i \in 1 .. n : Step("event", CanonicalPath(order[i])) \in Fitting'
    BY <2>4, PathParts, StampFits
  <2>6. steps' \in [1 .. n -> Fitting']
    BY <2>1, <2>4, <2>5
  <2>. QED BY <2>2, <2>6 DEF StepsOK
<1>. QED BY <1>1, <1>2, <1>3 DEF IInv

LEMMA WriteByOtherOK ==
  ASSUME IInv, NEW d \in Docs, WriteByOther(d)
  PROVE  IInv'
<1>1. FilesOK'
  <2>1. notices' \subseteq Docs
    BY WatcherOK DEF IInv, FilesOK, WriteByOther
  <2>. QED BY <2>1 DEF IInv, FilesOK, WriteByOther, Texts
<1>2. /\ BuffersOK' /\ Tabs' = Tabs /\ Unsaved' \subseteq Unsaved
      /\ \A q \in Tabs : IsDirty(buf'[q]) => IsDirty(buf[q])
  <2> DEFINE t == Touched(d, buf)
  <2>1. /\ t = [q \in Paths |-> t[q]]
        /\ \A q \in Tabs : Sound(t[q]) /\ IsDirty(t[q]) = IsDirty(buf[q])
        /\ \A q \in Paths \ Tabs : t[q] = buf[q]
    BY TouchedSound DEF IInv, BuffersOK
  <2>2. buf' = t
    BY DEF WriteByOther
  <2> HIDE DEF t
  <2>3. \A q \in Paths \ Tabs : t[q] = NoBuffer
    BY <2>1 DEF Tabs
  <2>4. buf' = [q \in Paths |-> t[q]]
    BY <2>1, <2>2
  <2>. QED BY <2>1, <2>3, <2>4, BuffersMapped DEF IInv
<1>3. BarOK' /\ StepsOK' /\ TickingOK'
  BY <1>2, TabsGrow DEF WriteByOther, askVars
<1>4. ActiveOK' /\ PromptsOK' /\ TodoOK'
  BY <1>2, NothingDirtied DEF WriteByOther, askVars
<1>. QED BY <1>1, <1>2, <1>3, <1>4 DEF IInv

-------------------------------------------------------------------------------
(* The user's steps.                                                       *)

\* A key in the editor finds nothing asked and nothing to do.
LEMMA EditorKeyFinds ==
  ASSUME EditorKey, IInv
  PROVE  /\ steps = <<>> /\ todo = <<>> /\ ticking = <<>> /\ ticking' = <<>>
         /\ prompts = <<>> /\ confirm = "none" /\ UNCHANGED <<snap, session>>
         /\ active \in Tabs \cup {NoTab}
  BY DEF EditorKey, Key, Free, IInv, ActiveOK

\* A step of the editor that only adds a tab or changes the active one's buffer, with what
\* it leaves for later.
LEMMA EditorStep ==
  ASSUME IInv, EditorKey, BuffersOK', BarOK', StepsOK', Tabs \subseteq Tabs',
         active' \in Tabs', UNCHANGED <<files, watcherVars, askVars, todo>>,
         fresh' \in 0 .. MaxTexts
  PROVE  IInv'
<1>1. FilesOK'
  BY EditorKeyFinds DEF IInv, FilesOK, watcherVars
<1>2. ActiveOK'
  BY EditorKeyFinds DEF ActiveOK, askVars
<1>3. PromptsOK' /\ TodoOK' /\ TickingOK'
  BY EditorKeyFinds, NothingLeft DEF askVars
<1>. QED BY <1>1, <1>2, <1>3 DEF IInv

LEMMA OpenTabOK ==
  ASSUME IInv, NEW p \in Paths, OpenTab(p)
  PROVE  IInv'
<1>1. /\ EditorKey /\ ShowTab(p, Opened(p)) /\ steps' = Append(Stamping(p), Step("watch", p))
      /\ UNCHANGED <<files, watcherVars, askVars, todo, fresh>>
  BY DEF OpenTab
<1>2. Sound(Opened(p))
  BY OpenedSound DEF IInv
<1>3. BuffersOK' /\ Tabs' = Tabs \cup {p}
  BY <1>1, <1>2, BufferPut DEF ShowTab, IInv
<1>4. BarOK' /\ active' = p
  BY <1>1, <1>2, Shown DEF IInv
<1>5. StepsOK'
  <2>1. Stamping(p) \in Seq(Fitting') /\ Step("watch", p) \in Fitting'
    BY <1>3, StampFits, EmptySeq DEF Stamping
  <2>. QED BY <1>1, <2>1, AppendProperties DEF StepsOK
<1>6. fresh' \in 0 .. MaxTexts
  BY <1>1 DEF IInv, FilesOK
<1>. QED BY <1>1, <1>3, <1>4, <1>5, <1>6, EditorStep

\* A step that changes the active buffer only.
LEMMA EditOfActive ==
  ASSUME IInv, EditorKey, active \in Tabs, NEW b, Sound(b), Put(active, b),
         UNCHANGED <<files, watcherVars, bar, active, askVars, todo>>,
         steps' \in {<<>>, <<Step("stamp", active)>>}, fresh' \in 0 .. MaxTexts
  PROVE  IInv'
<1>1. active \in Paths
  BY DEF Tabs
<1>2. BuffersOK' /\ Tabs' = Tabs \cup {active}
  BY <1>1, BufferPut DEF IInv
<1>3. Tabs' = Tabs
  BY <1>2
<1>4. BarOK'
  BY <1>3, TabsGrow
<1>5. StepsOK'
  <2>1. Step("stamp", active) \in Fitting'
    BY <1>1, <1>3, StampFits
  <2>2. <<Step("stamp", active)>> \in Seq(Fitting')
    BY <2>1
  <2>. QED BY <2>2, NothingLeft DEF StepsOK
<1>. QED BY <1>2, <1>3, <1>4, <1>5, EditorStep

LEMMA EditsOK ==
  ASSUME IInv, Type \/ EnterOrLeaveInsert \/ UndoOrRedo \/ Reload
  PROVE  IInv'
<1>1. EditorKey /\ active # NoTab /\ steps = <<>>
  BY DEF Type, EnterOrLeaveInsert, UndoOrRedo, Reload, EditorKey, Key, Free
<1>2. active \in Tabs /\ Sound(buf[active]) /\ FileOf(active) \in Docs
  BY <1>1, EditorKeyFinds, TabSound DEF IInv
<1>3. fresh \in 0 .. MaxTexts /\ MaxTexts \in Nat
  BY WorkspaceAssumption DEF IInv, FilesOK
<1>4. CASE Type
  <2>1. fresh + 1 \in 0 .. MaxTexts /\ fresh + 1 \in Texts
    BY <1>3, <1>4 DEF Type, Texts
  <2>2. Sound(Change(buf[active], fresh + 1))
    BY <1>2, <2>1, ChangeSound
  <2>3. PICK b \in {buf[active], Change(buf[active], fresh + 1)} : Put(active, b)
    BY <1>4 DEF Type, InsertText, DeleteRange
  <2>4. /\ fresh' = fresh + 1
        /\ UNCHANGED <<files, watcherVars, bar, active, askVars, steps, todo>>
    BY <1>4 DEF Type
  <2>5. Sound(b)
    BY <1>2, <2>2
  <2>. QED BY <1>1, <1>2, <2>1, <2>3, <2>4, <2>5, EditOfActive
<1>5. CASE EnterOrLeaveInsert
  <2> DEFINE b == IF buf[active].open = NoEdit THEN BeginEdit(buf[active])
                  ELSE EndEdit(buf[active])
  <2>1. Sound(b)
    BY <1>2, BeginEditSound, EndEditSound
  <2>2. /\ Put(active, b)
        /\ UNCHANGED <<files, watcherVars, bar, active, askVars, steps, todo, fresh>>
    BY <1>5 DEF EnterOrLeaveInsert
  <2> HIDE DEF b
  <2>. QED BY <1>1, <1>2, <1>3, <2>1, <2>2, EditOfActive
<1>6. CASE UndoOrRedo
  <2> DEFINE e == EndEdit(buf[active])
  <2>1. Sound(e) /\ e.open = NoEdit
    BY <1>2, EndEditSound
  <2>2. /\ Put(active, Undo(e)) \/ Put(active, Redo(e))
        /\ UNCHANGED <<files, watcherVars, bar, active, askVars, steps, todo, fresh>>
    BY <1>6 DEF UndoOrRedo
  <2> HIDE DEF e
  <2>3. Sound(Undo(e)) /\ Sound(Redo(e))
    BY <2>1, UndoSound, RedoSound
  <2>. QED BY <1>1, <1>2, <1>3, <2>2, <2>3, EditOfActive
<1>7. CASE Reload
  <2> DEFINE b == Load(files[FileOf(active)])
  <2>1. Sound(b)
    BY <1>2, LoadSound DEF IInv, FilesOK
  <2>2. /\ Put(active, b) /\ steps' = <<Step("stamp", active)>>
        /\ UNCHANGED <<files, watcherVars, bar, active, askVars, todo, fresh>>
    BY <1>7 DEF Reload
  <2> HIDE DEF b
  <2>. QED BY <1>1, <1>2, <1>3, <2>1, <2>2, EditOfActive
<1>. QED BY <1>4, <1>5, <1>6, <1>7

\* The three steps that save the active buffer for the user.
LEMMA SaveKeyOK ==
  ASSUME IInv, Free, prompts = <<>>, active # NoTab, TrySave(active),
         UNCHANGED <<snap, bar, active, prompts, session, ticking, fresh>>,
         confirm' = "closing" => todo' # <<>>
  PROVE  IInv'
<1>1. active \in Tabs /\ steps = <<>> /\ todo = <<>> /\ ticking = <<>>
  BY DEF Free, IInv, ActiveOK
<1>2. /\ files' \in [Docs -> Texts] /\ notices' \subseteq Docs
      /\ BuffersOK' /\ Tabs' = Tabs /\ StepsOK' /\ TodoOK'
      /\ todo' # <<>> => ~IsDirty(buf'[active])
  BY <1>1, TrySaveOK
<1>3. FilesOK'
  BY <1>2 DEF IInv, FilesOK
<1>4. ActiveOK'
  BY <1>1, <1>2 DEF ActiveOK, Dirty
<1>5. PromptsOK' /\ TickingOK'
  BY <1>1, NothingLeft
<1>6. BarOK'
  BY <1>2, TabsGrow
<1>. QED BY <1>2, <1>3, <1>4, <1>5, <1>6 DEF IInv

LEMMA SavesOK ==
  ASSUME IInv, Save \/ SaveAndClose \/ AnswerYes
  PROVE  IInv'
<1>1. CASE Save
  BY <1>1, SaveKeyOK DEF Save, EditorKey, Key, askVars
<1>2. CASE SaveAndClose
  BY <1>2, SaveKeyOK DEF SaveAndClose, EditorKey, Key
<1>3. CASE AnswerYes
  <2>1. active # NoTab
    BY <1>3 DEF AnswerYes, IInv, ActiveOK
  <2>. QED BY <1>3, <2>1, SaveKeyOK DEF AnswerYes, Key
<1>. QED BY <1>1, <1>2, <1>3

LEMMA CloseNowOK ==
  ASSUME IInv, active \in Tabs, CloseNow
  PROVE  /\ BuffersOK' /\ BarOK' /\ notices' \subseteq Docs
         /\ active' \in Tabs' \cup {NoTab}
         /\ \A q \in Paths : q # active => buf'[q] = buf[q]
<1>1. active \in Paths
  BY DEF Tabs
<1>2. /\ BuffersOK' /\ Tabs' = Tabs \ {active}
      /\ \A q \in Paths : q # active => buf'[q] = buf[q]
  BY <1>1, BufferGone DEF CloseNow, IInv
<1>3. PICK k \in DOMAIN bar :
        /\ bar[k] = active /\ bar' = RemoveAt(bar, k)
        /\ IF bar' = <<>> THEN active' = NoTab /\ UNCHANGED watcherVars
           ELSE /\ active' = IF k <= Len(bar') THEN bar'[k] ELSE Last(bar')
                /\ Watch(FileOf(active'))
  BY DEF CloseNow
<1>4. bar' \in Seq(Tabs') /\ Distinct(bar')
  BY <1>2, <1>3, Removed DEF IInv, BarOK
<1>5. BarOK'
  BY <1>4 DEF BarOK, Distinct
<1>6. notices' \subseteq Docs
  BY <1>3 DEF IInv, FilesOK, watcherVars, Watch
<1>7. active' \in Tabs' \cup {NoTab}
  <2>1. CASE bar' = <<>>
    BY <1>3, <2>1
  <2>2. CASE bar' # <<>>
    <3>1. active' = IF k <= Len(bar') THEN bar'[k] ELSE bar'[Len(bar')]
      BY <1>3, <2>2 DEF Last
    <3>2. Len(bar') \in Nat \ {0}
      BY <1>4, <2>2, EmptySeq
    <3>3. k \in Nat \ {0}
      BY LenProperties DEF IInv, BarOK
    <3>. QED BY <1>4, <3>1, <3>2, <3>3, ElementOfSeq
  <2>. QED BY <2>1, <2>2
<1>. QED BY <1>2, <1>5, <1>6, <1>7

\* A tab closes, and nothing is asked any more.
LEMMA ClosesOK ==
  ASSUME IInv, active \in Tabs, CloseNow, confirm' = "none", prompts = <<>>,
         steps = <<>>, todo = <<>>, ticking = <<>>,
         UNCHANGED <<files, snap, prompts, session, steps, todo, ticking, fresh>>
  PROVE  IInv'
<1>1. /\ BuffersOK' /\ BarOK' /\ notices' \subseteq Docs
      /\ active' \in Tabs' \cup {NoTab}
  BY CloseNowOK
<1>2. FilesOK' /\ ActiveOK'
  BY <1>1 DEF IInv, FilesOK, ActiveOK
<1>3. PromptsOK' /\ StepsOK' /\ TodoOK' /\ TickingOK'
  BY NothingLeft
<1>. QED BY <1>1, <1>2, <1>3 DEF IInv

\* The prompt opens.
LEMMA PromptedOK ==
  ASSUME IInv, EditorKey, active \in Tabs, NEW intent \in {"close", "quit"}, Prompted(intent),
         UNCHANGED <<files, watcherVars, bar, active, prompts, steps, todo, fresh>>
  PROVE  IInv'
<1> DEFINE b == EndEdit(buf[active])
<1>1. Sound(b) /\ active \in Paths
  BY TabSound, EndEditSound DEF IInv
<1>2. Put(active, b)
  BY DEF Prompted
<1> HIDE DEF b
<1>3. BuffersOK' /\ Tabs' = Tabs \cup {active}
  BY <1>1, <1>2, BufferPut DEF IInv
<1>4. Tabs' = Tabs
  BY <1>3
<1>5. BarOK'
  BY <1>4, TabsGrow
<1>6. FilesOK'
  BY EditorKeyFinds DEF IInv, FilesOK, watcherVars
<1>7. ActiveOK'
  BY <1>1, <1>4, EditorKeyFinds, WorkspaceAssumption DEF ActiveOK, Prompted
<1>8. PromptsOK' /\ StepsOK' /\ TodoOK' /\ TickingOK'
  BY EditorKeyFinds, NothingLeft
<1>. QED BY <1>3, <1>5, <1>6, <1>7, <1>8 DEF IInv

LEMMA CloseOK ==
  ASSUME IInv, Close \/ AskQuit
  PROVE  IInv'
<1>1. CASE Close
  <2>1. EditorKey /\ active \in Tabs
    BY <1>1, EditorKeyFinds DEF Close
  <2>2. /\ confirm = "none" /\ prompts = <<>> /\ steps = <<>> /\ todo = <<>> /\ ticking = <<>>
        /\ ticking' = <<>> /\ UNCHANGED <<files, snap, prompts, session, steps, todo, fresh>>
    BY <1>1, <2>1, EditorKeyFinds DEF Close
  <2>3. CASE Prompted("close") /\ UNCHANGED <<bar, active, watcherVars>>
    BY <2>1, <2>2, <2>3, PromptedOK
  <2>4. CASE CloseNow /\ UNCHANGED confirm
    BY <2>1, <2>2, <2>4, ClosesOK
  <2>. QED BY <1>1, <2>3, <2>4 DEF Close
<1>2. CASE AskQuit
  <2>1. EditorKey /\ active \in Tabs
    BY <1>2 DEF AskQuit
  <2>. QED BY <1>2, <2>1, PromptedOK DEF AskQuit
<1>. QED BY <1>1, <1>2

LEMMA AnswerNoOK ==
  ASSUME IInv, AnswerNo
  PROVE  IInv'
<1>1. /\ active \in Tabs /\ active # NoTab /\ prompts = <<>>
      /\ steps = <<>> /\ todo = <<>> /\ ticking = <<>>
      /\ UNCHANGED <<snap, files, prompts, session, steps, todo, ticking, fresh>>
  BY DEF AnswerNo, Key, Free, IInv, ActiveOK
<1>2. CASE CloseNow /\ confirm' = "none"
  BY <1>1, <1>2, ClosesOK
<1>3. CASE UNCHANGED <<tabVars, watcherVars>> /\ confirm' \in {"none", "quitting"}
  <2>1. BuffersOK' /\ Tabs' = Tabs
    BY <1>3, BuffersSame DEF IInv, tabVars
  <2>2. FilesOK'
    BY <1>1, <1>3 DEF IInv, FilesOK, watcherVars
  <2>3. BarOK'
    BY <1>3, <2>1, TabsGrow DEF tabVars
  <2>4. ActiveOK'
    BY <1>1, <1>3, <2>1 DEF ActiveOK, tabVars
  <2>5. PromptsOK' /\ StepsOK' /\ TodoOK' /\ TickingOK'
    BY <1>1, NothingLeft
  <2>. QED BY <2>1, <2>2, <2>3, <2>4, <2>5 DEF IInv
<1>. QED BY <1>2, <1>3 DEF AnswerNo

LEMMA FinishesOK ==
  ASSUME IInv, FinishClose \/ FinishQuit \/ QuitKey \/ Crash
  PROVE  IInv'
<1>1. CASE FinishClose
  <2>1. active \in Tabs /\ prompts = <<>> /\ ticking = <<>>
    BY <1>1 DEF FinishClose, IInv, ActiveOK, TickingOK, Finishing
  <2>. QED BY <1>1, <2>1, ClosesOK DEF FinishClose
<1>2. CASE FinishQuit
  BY <1>2, DownOK DEF FinishQuit, Quit, SaveSession
<1>3. CASE QuitKey
  BY <1>3, DownOK DEF QuitKey, Quit, SaveSession
<1>4. CASE Crash
  BY <1>4, DownOK DEF Crash
<1>. QED BY <1>1, <1>2, <1>3, <1>4

LEMMA RecoverOK ==
  ASSUME IInv, Recover
  PROVE  IInv'
<1> DEFINE d == Head(prompts)
           p == CanonicalPath(d)
           r == Recovered(Opened(p), snap[d].txt)
<1>1. /\ prompts # <<>> /\ prompts \in Seq(Docs \ Unsaved) /\ Distinct(prompts)
      /\ prompts' = Tail(prompts) /\ confirm = "none"
      /\ steps = <<>> /\ todo' = <<>> /\ ticking' = <<>>
      /\ UNCHANGED <<files, snap, watcherVars, confirm, session, fresh>>
  BY DEF Recover, Key, Free, IInv, PromptsOK, ActiveOK
<1>2. /\ d \in Docs \ Unsaved /\ Tail(prompts) \in Seq((Docs \ Unsaved) \ {d})
      /\ Distinct(Tail(prompts))
  BY <1>1, Shortened
<1>3. IF snap[d].txt = NoText THEN UNCHANGED <<tabVars, steps>>
      ELSE ShowTab(p, r) /\ steps' = Append(Stamping(p), Step("watch", p))
  BY DEF Recover, HasText
<1>4. snap[d].txt # NoText => snap[d].txt \in Texts
  BY <1>2 DEF IInv, FilesOK, Snapshots
<1>5. p \in Paths /\ FileOf(p) = d
  BY <1>2, PathParts
<1>6. snap[d].txt # NoText => Sound(r)
  BY <1>4, <1>5, OpenedSound, RecoveredSound DEF IInv
<1> HIDE DEF r, p, d
<1>7. /\ BuffersOK' /\ BarOK' /\ StepsOK' /\ active' \in Tabs' \cup {NoTab}
      /\ Unsaved' \subseteq Unsaved \cup {d}
  <2>1. CASE snap[d].txt = NoText
    <3>1. UNCHANGED <<tabVars, steps>> /\ steps = <<>>
      BY <1>1, <1>3, <2>1
    <3>2. BuffersOK' /\ Tabs' = Tabs /\ Unsaved' \subseteq Unsaved
      BY <3>1, BuffersSame DEF IInv, tabVars
    <3>. QED BY <3>1, <3>2, TabsGrow, NothingLeft DEF IInv, ActiveOK, tabVars
  <2>2. CASE snap[d].txt # NoText
    <3>1. Sound(r) /\ ShowTab(p, r) /\ steps' = Append(Stamping(p), Step("watch", p))
      BY <1>3, <1>6, <2>2
    <3>2. BuffersOK' /\ Tabs' = Tabs \cup {p} /\ Unsaved' \subseteq Unsaved \cup {d}
      BY <1>5, <3>1, BufferPut DEF IInv, ShowTab
    <3>3. BarOK' /\ active' = p
      BY <1>5, <3>1, Shown DEF IInv
    <3>4. StepsOK'
      <4>1. Stamping(p) \in Seq(Fitting') /\ Step("watch", p) \in Fitting'
        BY <1>5, <3>2, StampFits, EmptySeq DEF Stamping
      <4>. QED BY <3>1, <4>1, AppendProperties DEF StepsOK
    <3>. QED BY <3>2, <3>3, <3>4
  <2>. QED BY <2>1, <2>2
<1>8. FilesOK'
  BY <1>1 DEF IInv, FilesOK, watcherVars
<1>9. ActiveOK'
  BY <1>1, <1>7 DEF ActiveOK
<1>10. PromptsOK'
  <2>1. (Docs \ Unsaved) \ {d} \subseteq Docs \ Unsaved'
    BY <1>7
  <2>. QED BY <1>1, <1>2, <2>1, SeqMonotonic DEF PromptsOK, Distinct
<1>11. TodoOK' /\ TickingOK'
  BY <1>1, NothingLeft
<1>. QED BY <1>7, <1>8, <1>9, <1>10, <1>11 DEF IInv

LEMMA DiscardOK ==
  ASSUME IInv, Discard
  PROVE  IInv'
<1> DEFINE d == Head(prompts)
<1>1. /\ prompts # <<>> /\ prompts \in Seq(Docs \ Unsaved) /\ Distinct(prompts)
      /\ prompts' = Tail(prompts) /\ todo' = ClearSnapshot(d) /\ confirm = "none"
      /\ UNCHANGED <<files, snap, watcherVars, tabVars, confirm, session, steps, ticking, fresh>>
  BY DEF Discard, Key, IInv, PromptsOK, ActiveOK
<1>2. /\ d \in Docs \ Unsaved /\ Tail(prompts) \in Seq((Docs \ Unsaved) \ {d})
      /\ Distinct(Tail(prompts))
  BY <1>1, Shortened
<1> HIDE DEF d
<1>3. /\ BuffersOK' /\ Tabs' = Tabs /\ Unsaved' \subseteq Unsaved
  BY <1>1, BuffersSame DEF IInv, tabVars
<1>4. BarOK' /\ StepsOK' /\ TickingOK'
  BY <1>1, <1>3, TabsGrow DEF tabVars
<1>5. FilesOK' /\ ActiveOK'
  BY <1>1, <1>3 DEF IInv, FilesOK, ActiveOK, tabVars, watcherVars
<1>6. PromptsOK'
  <2>1. (Docs \ Unsaved) \ {d} \subseteq Docs \ Unsaved'
    BY <1>3
  <2>. QED BY <1>1, <1>2, <2>1, SeqMonotonic DEF PromptsOK, Distinct
<1>7. TodoOK'
  BY <1>1, <1>2, <1>3, ClearOps DEF TodoOK
<1>. QED BY <1>3, <1>4, <1>5, <1>6, <1>7 DEF IInv

-------------------------------------------------------------------------------
(* The invariant and what follows from it.                                 *)

LEMMA NextOK ==
  ASSUME IInv, [Next]_vars
  PROVE  IInv'
<1>1. CASE UNCHANGED vars
  <2>1. /\ BuffersOK' /\ BarOK' /\ ActiveOK' /\ PromptsOK' /\ StepsOK' /\ TodoOK'
        /\ TickingOK'
    BY <1>1, TabsAlone DEF vars, askVars
  <2>2. FilesOK'
    BY <1>1 DEF IInv, FilesOK, vars, watcherVars
  <2>. QED BY <2>1, <2>2 DEF IInv
<1>2. CASE Background
  BY <1>2, WorkOK, StoreOK, TickOK, TickTabOK, AutosaveOK, PollFsOK, FinishesOK DEF Background
<1>3. CASE Inputs
  BY <1>3, OpenTabOK, EditsOK, SavesOK, CloseOK, AnswerNoOK, FinishesOK, RecoverOK, DiscardOK
  DEF Inputs
<1>4. CASE StartSession
  <2>1. PICK paths \in {session, <<>>} : Start(paths)
    BY <1>4 DEF StartSession, LoadSession
  <2>2. paths \in Seq(Paths)
    BY EmptySeq DEF IInv, FilesOK
  <2>. QED BY <2>1, <2>2, StartOK
<1>5. ASSUME NEW p \in Paths, StartFile(p) PROVE IInv'
  <2>1. <<p>> \in Seq(Paths)
    OBVIOUS
  <2>. QED BY <1>5, <2>1, StartOK DEF StartFile
<1>6. CASE \E d \in Docs : WriteByOther(d)
  BY <1>6, WriteByOtherOK
<1>7. CASE Crash
  BY <1>7, FinishesOK
<1>. QED BY <1>1, <1>2, <1>3, <1>4, <1>5, <1>6, <1>7 DEF Next

(* IInv is an invariant: ids name texts, the tabs of the bar are different  *)
(* paths with a buffer each, and what is on its way to a closed tab, a      *)
(* removed snapshot or an answered question is not unsaved.                *)
THEOREM WorkspaceInvariant == Spec => []IInv
  BY InitOK, NextOK, PTL DEF Spec

(* A buffer that says it is clean holds the text of its last load or save   *)
(* (Buffer::is_dirty(), buffer.cpp:117), for every number of edits, undos,  *)
(* redos, saves and recoveries, and however deep the stacks are.           *)
THEOREM CleanBuffersAreSaved == Spec => []CleanIsSaved
<1>1. IInv => CleanIsSaved
  BY TabSound, CleanBuffer DEF IInv, CleanIsSaved
<1>. QED BY <1>1, WorkspaceInvariant, PTL

(* No poll, tick, autosave or close that was confirmed drops unsaved text   *)
(* (poll_fs_events(), ui_features.cpp; finish_close_or_quit()), and neither *)
(* does what a handler still has to do for the other tabs.                 *)
THEOREM UnsavedTextIsKept == Spec => UnsavedKept
<1> DEFINE Kept == Background /\ up' => \A p \in Paths :
                     Dirty(p) => buf'[p] # NoBuffer /\ buf'[p].text = buf[p].text
<1>1. ASSUME IInv, Background, up', NEW p \in Paths, Dirty(p)
      PROVE  buf'[p] # NoBuffer /\ buf'[p].text = buf[p].text
  <2>1. p \in Tabs /\ IsDirty(buf[p]) /\ buf[p] # NoBuffer
    BY <1>1 DEF Dirty, Tabs
  <2>2. CASE UNCHANGED buf
    BY <2>1, <2>2
  <2>3. CASE StepOpen
    <3> DEFINE q == Head(steps).path
    <3>1. q \in Paths
      BY <1>1, <2>3, StepsLeft DEF StepOpen, Doing, Fitting
    <3>2. Put(q, Opened(q))
      BY <2>3 DEF StepOpen, ShowTab
    <3> HIDE DEF q
    <3>3. Sound(Opened(q)) /\ (q \in Tabs => Opened(q) = buf[q])
      BY <1>1, <3>1, OpenedSound DEF IInv
    <3>4. buf'[q] = Opened(q) /\ (p # q => buf'[p] = buf[p])
      BY <1>1, <3>1, <3>2, <3>3, BufferPut DEF IInv
    <3>. QED BY <2>1, <3>3, <3>4
  <2>4. CASE StepStamp \/ StepEvent \/ Autosave
    <3>1. Tabs' = Tabs /\ buf'[p].text = buf[p].text
      BY <1>1, <2>1, <2>4, StepStampOK, StepEventOK, AutosaveOK
    <3>. QED BY <2>1, <3>1 DEF Tabs
  <2>5. CASE FinishClose
    <3>1. active \in Tabs /\ CloseNow /\ ~Dirty(active)
      BY <1>1, <2>5 DEF FinishClose, IInv, ActiveOK
    <3>2. buf'[p] = buf[p]
      BY <1>1, <3>1, CloseNowOK
    <3>. QED BY <2>1, <3>2
  <2>6. ~FinishQuit
    BY <1>1 DEF FinishQuit, Quit, Down
  <2>7. StepWatch \/ StepReady \/ Store \/ Tick \/ TickTab \/ PollFs => UNCHANGED buf
    BY DEF StepWatch, StepReady, Store, Tick, TickTab, TickStep, PollFs, tabVars
  <2>. QED BY <1>1, <2>2, <2>3, <2>4, <2>5, <2>6, <2>7 DEF Background, Work
<1>2. IInv /\ [Next]_vars => [Kept]_vars
  BY <1>1
<1>. QED BY <1>2, WorkspaceInvariant, PTL DEF Spec, UnsavedKept

(* A snapshot that would be offered goes only while some tab of its file is *)
(* clean, or none is there: after a save, by a tick that comes to the clean *)
(* tab, or by the answer no (ui_recovery.cpp, ui_ex.cpp,                   *)
(* write_buffer_to_disk()), one file after the other, whatever comes in     *)
(* between, and by however many paths the file is open.                    *)
THEOREM UnsavedSnapshotsAreKept == Spec => UnsavedSnapshotKept
<1> DEFINE Kept == \A d \in Listed \ Listed' : ~AllDirty(d)
<1>1. ASSUME IInv, [Next]_vars, NEW d \in Listed \ Listed'
      PROVE  ~AllDirty(d)
  <2>1. snap' # snap /\ d \in Docs
    BY DEF Listed, HasText
  <2>2. Store
    BY <1>1, <2>1 DEF Next, Background, Inputs, vars, Work, StepOpen, StepStamp, StepWatch,
       StepReady, StepEvent, Working, Tick, TickTab, TickStep, Autosave, PollFs,
       FinishClose, FinishQuit, OpenTab, Type, EnterOrLeaveInsert, UndoOrRedo, Save,
       SaveAndClose, Reload, Close, AskQuit, AnswerNo, AnswerYes, QuitKey, Recover, Discard,
       StartSession, StartFile, Start, WriteByOther, Crash, EditorKey, Key
  <2> DEFINE op == Head(todo)
  <2>3. d = op.doc
    BY <1>1, <2>1, <2>2, StoreTypes DEF Listed, HasText
  <2>4. Removes(op)
    <3>1. snap[d].meta /\ snap[d].txt # NoText /\ ~(snap'[d].meta /\ snap'[d].txt # NoText)
      BY DEF Listed, HasText
    <3>. QED BY <1>1, <2>2, <2>3, <3>1, StoreTypes DEF Removes
  <2>5. op \in Keeping
    BY <1>1, <2>2, StoreTypes
  <2>. QED BY <2>1, <2>3, <2>4, <2>5 DEF Keeping, Unsaved
<1>2. IInv /\ [Next]_vars => [Kept]_vars
  BY <1>1
<1>. QED BY <1>2, WorkspaceInvariant, PTL DEF Spec, UnsavedSnapshotKept

===============================================================================
