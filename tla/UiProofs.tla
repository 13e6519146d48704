------------------------------- MODULE UiProofs -------------------------------
(***************************************************************************)
(* What holds of the UI for every number of files, moves and edits: a      *)
(* question that has the keyboard knows what it is about, and unsaved text *)
(* and files go only as the user was told.                                 *)
(*                                                                         *)
(* The operations on the state u fall into two kinds.  Those of the screen *)
(* change the focus, the overlays and the questions, and leave the         *)
(* documents (SameDocs); those of the documents change tabs and files, and *)
(* leave the questions (SameAsks).                                         *)
(***************************************************************************)
EXTENDS Ui, Integers, SequencesExt, FiniteSetTheorems, TLAPS

-------------------------------------------------------------------------------
\* Folds, and induction over data as facts about sets: what a left fold starts with and
\* each of its steps keeps, its result has.

\* A set of natural numbers that is not empty has a least element: of the intervals
\* 1 .. n of its members take one that contains no other.
LEMMA LeastNumber ==
  ASSUME NEW S, S \subseteq Nat, S # {}
  PROVE  \E n \in S : \A m \in S : ~(m < n)
<1> DEFINE R == StrictSubsetOrdering(Nat)
           T == {1 .. n : n \in S}
<1>1. IsWellFoundedOn(R, FiniteSubsetsOf(Nat))
  BY FS_StrictSubsetOrderingWellFounded
<1>2. T \subseteq FiniteSubsetsOf(Nat) /\ T # {}
  <2>1. \A n \in S : IsFiniteSet(1 .. n) /\ 1 .. n \subseteq Nat
    BY FS_Interval
  <2>2. QED
    BY <2>1 DEF FiniteSubsetsOf
<1>3. \A m, n \in S : m < n => <<1 .. m, 1 .. n>> \in R
  <2>1. \A m, n \in S : m < n => 1 .. m \subseteq 1 .. n /\ 1 .. m # 1 .. n /\ 1 .. n \subseteq Nat
    OBVIOUS
  <2>2. QED
    BY <2>1 DEF StrictSubsetOrdering
<1>4. PICK x \in T : \A y \in T : ~(<<y, x>> \in R)
  <2> HIDE DEF R, T
  <2> QED
    BY <1>1, <1>2, WFMin
<1>5. QED
  BY <1>3, <1>4

\* A set that has 0, and n + 1 with every n, has every natural number.
LEMMA Induction ==
  ASSUME NEW S, 0 \in S, \A n \in Nat : n \in S => n + 1 \in S
  PROVE  Nat \subseteq S
<1> DEFINE T == Nat \ S
<1>1. SUFFICES ASSUME T # {} PROVE FALSE
  OBVIOUS
<1>2. PICK n \in T : \A m \in T : ~(m < n)
  BY <1>1, LeastNumber
<1>3. n # 0 /\ n - 1 \in Nat /\ n - 1 < n
  BY <1>2
<1>4. n - 1 \notin T
  BY <1>2, <1>3
<1>5. n - 1 \in S /\ (n - 1) + 1 = n
  BY <1>3, <1>4
<1>6. QED
  BY <1>5, <1>3, <1>2

\* The greatest of the numbers that a fold takes one by one from the end.
LEMMA LastOfInterval ==
  ASSUME NEW n \in Nat, NEW s \in SUBSET (1 .. (n + 1)), n + 1 \in s
  PROVE  Max(s) = n + 1
<1>1. \A y \in s : n + 1 >= y /\ (y >= n + 1 => y = n + 1)
  OBVIOUS
<1>2. QED
  BY <1>1 DEF Max

\* The greatest number of an interval from 1 is its end; the rest is the shorter interval.
LEMMA MaxOfInterval ==
  ASSUME NEW n \in Nat \ {0}
  PROVE  Max(1 .. n) = n /\ (1 .. n) \ {n} = 1 .. (n - 1)
<1>1. n \in 1 .. n /\ \A y \in 1 .. n : n >= y
  OBVIOUS
<1>2. QED
  BY <1>1 DEF Max

\* Of the numbers of a part of 1 .. N that is not empty, one is the greatest.
LEMMA MaxIsIn ==
  ASSUME NEW N \in Nat, NEW s \in SUBSET (1 .. N), s # {}
  PROVE  Max(s) \in s
<1> DEFINE T == {n \in Nat : N - n \in s}
<1>1. PICK x \in s : TRUE
  OBVIOUS
<1>2. N - x \in T
  <2>1. x \in 1 .. N
    OBVIOUS
  <2>2. N - x \in Nat /\ N - (N - x) = x
    BY <2>1
  <2>3. QED
    BY <2>2
<1>3. PICK n \in T : \A m \in T : ~(m < n)
  <2>1. T \subseteq Nat /\ T # {}
    BY <1>2
  <2> HIDE DEF T
  <2>2. QED
    BY <2>1, LeastNumber
<1>4. \A y \in s : N - n >= y
  <2>1. SUFFICES ASSUME NEW y \in s PROVE N - n >= y
    OBVIOUS
  <2>2. y \in 1 .. N /\ n \in Nat
    BY <1>3
  <2>3. N - y \in Nat /\ N - (N - y) = y
    BY <2>2
  <2>4. N - y \in T
    BY <2>3
  <2>5. ~(N - y < n)
    BY <1>3, <2>4
  <2>6. QED
    BY <2>2, <2>5
<1>5. N - n \in s
  BY <1>3
<1>6. QED
  BY <1>4, <1>5 DEF Max

\* The function by which a left fold is defined: what the members of s, a set of positions
\* 1 .. N, make of base, when the step at position i is the function G.
FoldOf(f, V, base, N, G) ==
  /\ f \in [SUBSET (1 .. N) -> V]
  /\ \A s \in SUBSET (1 .. N) :
       f[s] = IF s = {} THEN base ELSE G[<<f[s \ {Max(s)}], Max(s)>>]

\* It exists, when the steps never leave V.
LEMMA FoldExists ==
  ASSUME NEW V, NEW base \in V, NEW N \in Nat,
         NEW G \in [V \X (1 .. N) -> V]
  PROVE  \E f : FoldOf(f, V, base, N, G)
<1> DEFINE Folds(n, f) ==
             \A s \in SUBSET (1 .. n) :
               f[s] = IF s = {} THEN base ELSE G[<<f[s \ {Max(s)}], Max(s)>>]
           Has(n) == \E f \in [SUBSET (1 .. n) -> V] : Folds(n, f)
           S == {n \in Nat : n <= N => Has(n)}
<1>1. Has(0)
  <2> DEFINE f == [s \in SUBSET (1 .. 0) |-> base]
  <2>1. f \in [SUBSET (1 .. 0) -> V]
    OBVIOUS
  <2>2. \A s \in SUBSET (1 .. 0) : s = {}
    OBVIOUS
  <2>3. Folds(0, f)
    BY <2>2
  <2>4. QED
    BY <2>1, <2>3
<1>2. ASSUME NEW n \in Nat, n + 1 <= N, Has(n) PROVE Has(n + 1)
  <2>1. PICK f \in [SUBSET (1 .. n) -> V] : Folds(n, f)
    BY <1>2
  <2> DEFINE g == [s \in SUBSET (1 .. (n + 1)) |->
                     IF n + 1 \in s THEN G[<<f[s \ {n + 1}], n + 1>>] ELSE f[s]]
  <2>2. \A s \in SUBSET (1 .. (n + 1)) :
          /\ s \ {n + 1} \in SUBSET (1 .. n)
          /\ n + 1 \notin s => s \in SUBSET (1 .. n)
    OBVIOUS
  <2>3. \A s \in SUBSET (1 .. n) : s \in SUBSET (1 .. (n + 1)) /\ n + 1 \notin s /\ g[s] = f[s]
    OBVIOUS
  <2>4. n + 1 \in 1 .. N
    BY <1>2
  <2>5. g \in [SUBSET (1 .. (n + 1)) -> V]
    <3>1. ASSUME NEW s \in SUBSET (1 .. (n + 1)) PROVE g[s] \in V
      <4>1. CASE n + 1 \in s
        <5>1. f[s \ {n + 1}] \in V
          BY <2>2
        <5>2. <<f[s \ {n + 1}], n + 1>> \in V \X (1 .. N)
          BY <5>1, <2>4
        <5>3. QED
          BY <5>2, <4>1
      <4>2. CASE n + 1 \notin s
        BY <4>2, <2>2
      <4>3. QED
        BY <4>1, <4>2
    <3>2. QED
      BY <3>1
  <2>6. Folds(n + 1, g)
    <3>1. ASSUME NEW s \in SUBSET (1 .. (n + 1))
          PROVE  g[s] = IF s = {} THEN base ELSE G[<<g[s \ {Max(s)}], Max(s)>>]
      <4>1. CASE n + 1 \in s
        <5>1. Max(s) = n + 1
          BY <4>1, LastOfInterval
        <5>2. g[s \ {n + 1}] = f[s \ {n + 1}]
          BY <2>2, <2>3
        <5>3. g[s] = G[<<f[s \ {n + 1}], n + 1>>] /\ s # {}
          BY <4>1
        <5>4. QED
          BY <5>1, <5>2, <5>3
      <4>2. CASE n + 1 \notin s /\ s # {}
        <5>1. s \in SUBSET (1 .. n) /\ g[s] = f[s]
          BY <4>2, <2>2
        <5>2. s \ {Max(s)} \in SUBSET (1 .. n)
          BY <5>1
        <5>3. g[s \ {Max(s)}] = f[s \ {Max(s)}]
          BY <5>2, <2>3
        <5>4. f[s] = G[<<f[s \ {Max(s)}], Max(s)>>]
          BY <5>1, <4>2, <2>1
        <5>5. QED
          BY <5>1, <5>3, <5>4, <4>2
      <4>3. CASE s = {}
        <5>1. s \in SUBSET (1 .. n) /\ g[s] = f[s]
          BY <4>3
        <5>2. QED
          BY <5>1, <4>3, <2>1
      <4>4. QED
        BY <4>1, <4>2, <4>3
    <3>2. QED
      BY <3>1
  <2>7. QED
    BY <2>5, <2>6
<1>3. Has(N)
  <2> HIDE DEF Has
  <2>1. 0 \in S /\ \A n \in Nat : n \in S => n + 1 \in S
    BY <1>1, <1>2
  <2>2. N \in S
    <3> HIDE DEF S
    <3> QED
      BY <2>1, Induction
  <2>3. QED
    BY <2>2
<1>4. QED
  BY <1>3 DEF FoldOf

\* What holds of the empty prefix, and is handed on from prefix to prefix, holds of the
\* whole.
LEMMA PrefixInduction ==
  ASSUME NEW V, NEW N \in Nat, NEW f, f[{}] \in V,
         \A k \in 1 .. N : f[1 .. (k - 1)] \in V => f[1 .. k] \in V
  PROVE  f[1 .. N] \in V
<1> DEFINE S == {n \in Nat : n <= N => f[1 .. n] \in V}
<1>1. 0 \in S
  <2>1. 1 .. 0 = {}
    OBVIOUS
  <2>2. QED
    BY <2>1
<1>2. \A n \in Nat : n \in S => n + 1 \in S
  <2>1. SUFFICES ASSUME NEW n \in Nat, n + 1 <= N, f[1 .. n] \in V
                 PROVE  f[1 .. (n + 1)] \in V
    OBVIOUS
  <2>2. n + 1 \in 1 .. N /\ (n + 1) - 1 = n
    BY <2>1
  <2>3. f[1 .. ((n + 1) - 1)] \in V => f[1 .. (n + 1)] \in V
    BY <2>2
  <2>4. QED
    BY <2>1, <2>2, <2>3
<1>3. N \in S
  <2> HIDE DEF S
  <2> QED
    BY <1>1, <1>2, Induction
<1>4. QED
  BY <1>3

-------------------------------------------------------------------------------

Fields == {"tabs", "active", "disk", "fresh", "sel", "clip", "session", "focus", "open",
           "pending", "asked", "pick", "side", "view", "term", "intent", "path", "named",
           "purpose", "recovery", "running"}
Tab == [file : Files \cup {NoFile}, text : Nat, dirty : BOOLEAN, bad : BOOLEAN]
Disk == [Files -> Nat \cup {Gone}]

\* What the tabs, the files and the session hold.
Filed(u) ==
  /\ DOMAIN u = Fields
  /\ u.tabs \in Seq(Tab)
  /\ u.disk \in Disk /\ u.fresh \in Nat
  /\ u.clip.file \in Files => u.clip.mode \in {"Cut", "Copy"}
  /\ u.session.files \in Seq(Files) /\ u.session.active \in Nat \ {0}
\* Some tab is active.
Fronted(u) == u.tabs # <<>> /\ u.active \in DOMAIN u.tabs

Questioned(u) == Attended(u) /\ u.intent \in Intents /\ u.recovery \in Seq(Files)

\* The inductive invariant.
Sound(u) == Filed(u) /\ Fronted(u) /\ Questioned(u)

SameTabs(u, v) ==
  /\ DOMAIN v = Fields /\ v.tabs = u.tabs /\ v.active = u.active
  /\ v.clip = u.clip /\ v.session = u.session /\ v.running = u.running
SameDocs(u, v) == SameTabs(u, v) /\ v.disk = u.disk /\ v.fresh = u.fresh
SameAsks(u, v) ==
  /\ DOMAIN v = Fields /\ v.focus = u.focus /\ v.open = u.open /\ v.intent = u.intent
  /\ v.path = u.path /\ v.named = u.named /\ v.purpose = u.purpose /\ v.recovery = u.recovery

Held(u) == UnsavedOf(u, DOMAIN u.tabs)
DiskTexts(u) == {u.disk[f] : f \in Files}

\* From u to v, no unsaved text goes but into a file or into texts, and no file but files.
Spares(u, v, texts, files) ==
  /\ Unsaved(u) \subseteq Unsaved(v) \cup DiskTexts(v) \cup texts
  /\ OnDisk(u) \subseteq OnDisk(v) \cup files

-------------------------------------------------------------------------------
\* What the two kinds of operation leave alone.

LEMMA DocsKept ==
  ASSUME NEW u, NEW v, SameDocs(u, v)
  PROVE  /\ Filed(u) => Filed(v)
         /\ Fronted(u) => Fronted(v)
         /\ Active(v) = Active(u) /\ ActiveFile(v) = ActiveFile(u) /\ OnDisk(v) = OnDisk(u)
         /\ Held(v) = Held(u) /\ Unsaved(v) = Unsaved(u) /\ DiskTexts(v) = DiskTexts(u)
         /\ \A f : TabsOf(v, f) = TabsOf(u, f)
         /\ \A tabs : UnsavedOf(v, tabs) = UnsavedOf(u, tabs)
         /\ \A texts, files : Spares(u, v, texts, files)
<1>1. /\ v.tabs = u.tabs /\ v.active = u.active /\ v.disk = u.disk /\ v.fresh = u.fresh
      /\ v.clip = u.clip /\ v.session = u.session /\ v.running = u.running /\ DOMAIN v = Fields
  BY DEF SameDocs, SameTabs
<1>2. OnDisk(v) = OnDisk(u) /\ Held(v) = Held(u) /\ Unsaved(v) = Unsaved(u)
  BY <1>1 DEF OnDisk, Held, Unsaved, UnsavedOf
<1>3. /\ DiskTexts(v) = DiskTexts(u) /\ Active(v) = Active(u) /\ ActiveFile(v) = ActiveFile(u)
      /\ \A f : TabsOf(v, f) = TabsOf(u, f)
      /\ \A tabs : UnsavedOf(v, tabs) = UnsavedOf(u, tabs)
  BY <1>1 DEF DiskTexts, Active, ActiveFile, TabsOf, UnsavedOf
<1>4. (Filed(u) => Filed(v)) /\ (Fronted(u) => Fronted(v))
  BY <1>1 DEF Filed, Fronted
<1>5. QED
  BY <1>2, <1>3, <1>4 DEF Spares

LEMMA AsksKept ==
  ASSUME NEW u, NEW v, Questioned(u), SameAsks(u, v)
  PROVE  Questioned(v)
BY DEF Questioned, Attended, SameAsks

\* Steps of the documents one after another.
LEMMA SameTrans ==
  ASSUME NEW u, NEW v, NEW w
  PROVE  /\ SameDocs(u, v) /\ SameDocs(v, w) => SameDocs(u, w)
         /\ SameAsks(u, v) /\ SameAsks(v, w) => SameAsks(u, w)
BY DEF SameDocs, SameTabs, SameAsks

LEMMA SparesTrans ==
  ASSUME NEW u, NEW v, NEW w, NEW texts, NEW files
  PROVE  /\ SameDocs(u, v) /\ Spares(v, w, texts, files) => Spares(u, w, texts, files)
         /\ Spares(u, v, texts, files) /\ SameDocs(v, w) => Spares(u, w, texts, files)
BY DocsKept DEF Spares

\* The texts of the dirty tabs, where the disk stays or grows.
LEMMA SparesHeld ==
  ASSUME NEW u, NEW v, NEW texts, NEW files, v.running = u.running,
         Held(u) \subseteq Held(v) \cup DiskTexts(v) \cup texts,
         OnDisk(u) \subseteq OnDisk(v) \cup files
  PROVE  Spares(u, v, texts, files)
BY DEF Spares, Unsaved, Held

-------------------------------------------------------------------------------
\* The operations of the screen.

Screened(u, v) == SameDocs(u, v) /\ Questioned(v)

LEMMA ScreenedTrans ==
  ASSUME NEW u, NEW v, NEW w, Screened(u, v), Screened(v, w)
  PROVE  Screened(u, w)
BY SameTrans DEF Screened

LEMMA ScreenedSound ==
  ASSUME NEW u, NEW v, Sound(u), Screened(u, v)
  PROVE  Sound(v) /\ \A texts, files : Spares(u, v, texts, files)
BY DocsKept DEF Sound, Screened

LEMMA ReturnToNormalOK ==
  ASSUME NEW u, DOMAIN u = Fields, Questioned(u)
  PROVE  Screened(u, ReturnToNormal(u))
BY DEF Screened, SameDocs, SameTabs, Questioned, Attended, Fields, Overlays, Intents,
       ReturnToNormal

LEMMA SetSidebarVisibleOK ==
  ASSUME NEW u, DOMAIN u = Fields, Questioned(u), NEW visible
  PROVE  Screened(u, SetSidebarVisible(u, visible))
BY DEF Screened, SameDocs, SameTabs, Questioned, Attended, Fields, Overlays, Intents,
       SetSidebarVisible, ClearChord

LEMMA ExplorerViewOK ==
  ASSUME NEW u, DOMAIN u = Fields, Questioned(u)
  PROVE  Screened(u, ExplorerView(u))
BY DEF Screened, SameDocs, SameTabs, Questioned, Attended, Fields, Overlays, Intents,
       ExplorerView, ClearChord

LEMMA SearchViewOK ==
  ASSUME NEW u, DOMAIN u = Fields, Questioned(u)
  PROVE  Screened(u, SearchView(u))
BY DEF Screened, SameDocs, SameTabs, Questioned, Attended, Fields, Overlays, Intents,
       SearchView, ClearChord

LEMMA OpenTerminalOK ==
  ASSUME NEW u, DOMAIN u = Fields, Questioned(u)
  PROVE  Screened(u, OpenTerminal(u))
BY DEF Screened, SameDocs, SameTabs, Questioned, Attended, Fields, Overlays, Intents,
       OpenTerminal, ClearChord

LEMMA CloseTerminalOK ==
  ASSUME NEW u, DOMAIN u = Fields, Questioned(u)
  PROVE  Screened(u, CloseTerminal(u))
BY DEF Screened, SameDocs, SameTabs, Questioned, Attended, Fields, Overlays, Intents,
       CloseTerminal, ClearChord

LEMMA ClearTerminalOK ==
  ASSUME NEW u, DOMAIN u = Fields, Questioned(u)
  PROVE  Screened(u, ClearTerminal(u))
BY DEF Screened, SameDocs, SameTabs, Questioned, Attended, Fields, Overlays, Intents,
       ClearTerminal, ClearChord

LEMMA OpenCommandLineOK ==
  ASSUME NEW u, DOMAIN u = Fields, Questioned(u)
  PROVE  Screened(u, OpenCommandLine(u))
BY DEF Screened, SameDocs, SameTabs, Questioned, Attended, Fields, Overlays, Intents,
       OpenCommandLine, ClearChord, Show

LEMMA OpenMessagesOK ==
  ASSUME NEW u, DOMAIN u = Fields, Questioned(u)
  PROVE  Screened(u, OpenMessages(u))
BY DEF Screened, SameDocs, SameTabs, Questioned, Attended, Fields, Overlays, Intents,
       OpenMessages, ClearChord, Show

LEMMA OpenFileSearchOK ==
  ASSUME NEW u, DOMAIN u = Fields, Questioned(u)
  PROVE  Screened(u, OpenFileSearch(u))
BY DEF Screened, SameDocs, SameTabs, Questioned, Attended, Fields, Overlays, Intents,
       OpenFileSearch, ClearChord, Show, Close

LEMMA CloseFileSearchOK ==
  ASSUME NEW u, DOMAIN u = Fields, Questioned(u)
  PROVE  Screened(u, CloseFileSearch(u))
BY DEF Screened, SameDocs, SameTabs, Questioned, Attended, Fields, Overlays, Intents,
       CloseFileSearch, ClearChord, FocusOn, Close

LEMMA OpenBufferSearchOK ==
  ASSUME NEW u, DOMAIN u = Fields, Questioned(u)
  PROVE  Screened(u, OpenBufferSearch(u))
BY DEF Screened, SameDocs, SameTabs, Questioned, Attended, Fields, Overlays, Intents,
       OpenBufferSearch, ClearChord, Show, Close

LEMMA CloseBufferSearchOK ==
  ASSUME NEW u, DOMAIN u = Fields, Questioned(u)
  PROVE  Screened(u, CloseBufferSearch(u))
BY DEF Screened, SameDocs, SameTabs, Questioned, Attended, Fields, Overlays, Intents,
       CloseBufferSearch, ClearChord, FocusOn, Close

LEMMA OpenLspPickerOK ==
  ASSUME NEW u, DOMAIN u = Fields, Questioned(u), NEW kind
  PROVE  Screened(u, OpenLspPicker(u, kind))
BY DEF Screened, SameDocs, SameTabs, Questioned, Attended, Fields, Overlays, Intents,
       OpenLspPicker, Show

LEMMA CloseLspPickerOK ==
  ASSUME NEW u, DOMAIN u = Fields, Questioned(u)
  PROVE  Screened(u, CloseLspPicker(u))
BY DEF Screened, SameDocs, SameTabs, Questioned, Attended, Fields, Overlays, Intents,
       CloseLspPicker, FocusOn, Close

LEMMA AskOK ==
  ASSUME NEW u, DOMAIN u = Fields, Questioned(u), NEW kind
  PROVE  Screened(u, Ask(u, kind))
BY DEF Screened, SameDocs, SameTabs, Questioned, Attended, Fields, Overlays, Intents,
       Ask

LEMMA AnsweredOK ==
  ASSUME NEW u, DOMAIN u = Fields, Questioned(u), NEW kind
  PROVE  Screened(u, Answered(u, kind))
BY DEF Screened, SameDocs, SameTabs, Questioned, Attended, Fields, Overlays, Intents,
       Answered

LEMMA CloseCompletionOK ==
  ASSUME NEW u, DOMAIN u = Fields, Questioned(u)
  PROVE  Screened(u, CloseCompletion(u))
BY DEF Screened, SameDocs, SameTabs, Questioned, Attended, Fields, Overlays, Intents,
       CloseCompletion, ClearChord, FocusOn, Close, Answered

LEMMA CompletionAnswerOK ==
  ASSUME NEW u, DOMAIN u = Fields, Questioned(u)
  PROVE  Screened(u, CompletionAnswer(u))
BY DEF Screened, SameDocs, SameTabs, Questioned, Attended, Fields, Overlays, Intents,
       CompletionAnswer, ClearChord, Show, Close

LEMMA HoverAnswerOK ==
  ASSUME NEW u, DOMAIN u = Fields, Questioned(u)
  PROVE  Screened(u, HoverAnswer(u))
BY DEF Screened, SameDocs, SameTabs, Questioned, Attended, Fields, Overlays, Intents,
       HoverAnswer, ClearChord, Show

LEMMA RestartLspOK ==
  ASSUME NEW u, DOMAIN u = Fields, Questioned(u)
  PROVE  Screened(u, RestartLsp(u))
BY DEF Screened, SameDocs, SameTabs, Questioned, Attended, Fields, Overlays, Intents,
       RestartLsp

LEMMA RevealOK ==
  ASSUME NEW u, DOMAIN u = Fields, Questioned(u), NEW f
  PROVE  Screened(u, Reveal(u, f))
BY DEF Screened, SameDocs, SameTabs, Questioned, Attended, Fields, Overlays, Intents,
       Reveal

LEMMA ClampSelectionOK ==
  ASSUME NEW u, DOMAIN u = Fields, Questioned(u)
  PROVE  Screened(u, ClampSelection(u))
BY DEF Screened, SameDocs, SameTabs, Questioned, Attended, Fields, Overlays, Intents,
       ClampSelection

LEMMA ClearChordOK ==
  ASSUME NEW u, DOMAIN u = Fields, Questioned(u)
  PROVE  Screened(u, ClearChord(u))
BY DEF Screened, SameDocs, SameTabs, Questioned, Attended, Fields, Overlays, Intents,
       ClearChord

LEMMA OpenWorkspaceOK ==
  ASSUME NEW u, DOMAIN u = Fields, Questioned(u)
  PROVE  Screened(u, OpenWorkspace(u))
BY DEF Screened, SameDocs, SameTabs, Questioned, Attended, Fields, Overlays, Intents,
       OpenWorkspace

LEMMA OpenWorkspacePromptOK ==
  ASSUME NEW u, DOMAIN u = Fields, Questioned(u)
  PROVE  Screened(u, OpenWorkspacePrompt(u))
BY DEF Screened, SameDocs, SameTabs, Questioned, Attended, Fields, Overlays, Intents,
       OpenWorkspacePrompt, ClearChord, Show, Close

LEMMA FocusOnOK ==
  ASSUME NEW u, DOMAIN u = Fields, Questioned(u), NEW part, part \notin Overlays
  PROVE  Screened(u, FocusOn(u, part))
BY DEF Screened, SameDocs, SameTabs, Questioned, Attended, Fields, Overlays, Intents,
       FocusOn

LEMMA CloseAndFocusOK ==
  ASSUME NEW u, DOMAIN u = Fields, Questioned(u), NEW part, NEW overlays, part \notin Overlays
  PROVE  Screened(u, FocusOn(Close(u, overlays), part))
BY DEF Screened, SameDocs, SameTabs, Questioned, Attended, Fields, Overlays, Intents,
       FocusOn, Close

LEMMA SettledOK ==
  ASSUME NEW u, DOMAIN u = Fields, Questioned(u), NEW part, part \notin Overlays
  PROVE  Screened(u, Settled(u, part))
BY DEF Screened, SameDocs, SameTabs, Questioned, Attended, Fields, Overlays, Intents,
       Settled, FocusOn, Close

LEMMA CancelPromptOK ==
  ASSUME NEW u, DOMAIN u = Fields, Questioned(u)
  PROVE  Screened(u, CancelPrompt(u))
BY DEF Screened, SameDocs, SameTabs, Questioned, Attended, Fields, Overlays, Intents,
       CancelPrompt, FocusOn, ReturnToNormal

LEMMA OpenLspPromptOK ==
  ASSUME NEW u, DOMAIN u = Fields, Questioned(u), NEW purpose, purpose # "None"
  PROVE  Screened(u, OpenLspPrompt(u, purpose))
BY DEF Screened, SameDocs, SameTabs, Questioned, Attended, Fields, Overlays, Intents,
       OpenLspPrompt, ClearChord, Show, Close

LEMMA OpenSidebarPromptOK ==
  ASSUME NEW u, DOMAIN u = Fields, Questioned(u), NEW purpose, purpose # "None", u.focus = "Sidebar"
  PROVE  Screened(u, OpenSidebarPrompt(u, purpose))
BY DEF Screened, SameDocs, SameTabs, Questioned, Attended, Fields, Overlays, Intents,
       OpenSidebarPrompt, ClearChord, Show, Close

LEMMA OpenSaveConfirmOK ==
  ASSUME NEW u, DOMAIN u = Fields, Questioned(u), NEW intent \in {"CloseTab", "Quit"}
  PROVE  Screened(u, OpenSaveConfirm(u, intent))
BY DEF Screened, SameDocs, SameTabs, Questioned, Attended, Fields, Overlays, Intents,
       OpenSaveConfirm, AskAbout, ClearChord, Show, Close

LEMMA OpenDeleteConfirmOK ==
  ASSUME NEW u, DOMAIN u = Fields, Questioned(u)
  PROVE  Screened(u, OpenDeleteConfirm(u))
BY DEF Screened, SameDocs, SameTabs, Questioned, Attended, Fields, Overlays, Intents,
       OpenDeleteConfirm, AskAbout, ClearChord, Show, Close

LEMMA OpenDiscardConfirmOK ==
  ASSUME NEW u, DOMAIN u = Fields, Questioned(u)
  PROVE  Screened(u, OpenDiscardConfirm(u))
BY DEF Screened, SameDocs, SameTabs, Questioned, Attended, Fields, Overlays, Intents,
       OpenDiscardConfirm, AskAbout, Show, Close

LEMMA OpenRecoveryConfirmOK ==
  ASSUME NEW u, DOMAIN u = Fields, Questioned(u)
  PROVE  Screened(u, OpenRecoveryConfirm(u))
BY DEF Screened, SameDocs, SameTabs, Questioned, Attended, Fields, Overlays, Intents,
       OpenRecoveryConfirm, AskAbout, Show, Close

LEMMA SyncActiveTabOK ==
  ASSUME NEW u, DOMAIN u = Fields
  PROVE  SameDocs(u, SyncActiveTab(u)) /\ SameAsks(u, SyncActiveTab(u))
BY DEF SameDocs, SameTabs, SameAsks, Fields, SyncActiveTab, Reveal

LEMMA ToggleSidebarFocusOK ==
  ASSUME NEW u, DOMAIN u = Fields, Questioned(u)
  PROVE  Screened(u, ToggleSidebarFocus(u))
<1>1. \A part \in {"Search", "Sidebar"} : Screened(u, ClearChord(FocusOn(u, part)))
  BY DEF Screened, SameDocs, SameTabs, Questioned, Attended, Fields, Overlays, ClearChord, FocusOn
<1>2. QED
  BY <1>1, ExplorerViewOK, ReturnToNormalOK DEF ToggleSidebarFocus

LEMMA RevealInExplorerOK ==
  ASSUME NEW u, DOMAIN u = Fields, Questioned(u)
  PROVE  Screened(u, RevealInExplorer(u))
<1>1. Screened(u, u)
  BY DEF Screened, SameDocs, SameTabs
<1> DEFINE v == ExplorerView(u)
<1>2. Screened(u, v) /\ DOMAIN v = Fields /\ Questioned(v)
  BY ExplorerViewOK DEF Screened, SameDocs, SameTabs
<1> HIDE DEF v
<1>3. Screened(v, Reveal(v, ActiveFile(u)))
  BY <1>2, RevealOK
<1>4. QED
  BY <1>1, <1>2, <1>3, ScreenedTrans DEF RevealInExplorer, v

LEMMA ToggleTerminalOK ==
  ASSUME NEW u, DOMAIN u = Fields, Questioned(u)
  PROVE  Screened(u, ToggleTerminal(u))
BY OpenTerminalOK, CloseTerminalOK DEF ToggleTerminal

LEMMA TriggerCompletionOK ==
  ASSUME NEW u, DOMAIN u = Fields, Questioned(u)
  PROVE  Screened(u, TriggerCompletion(u))
<1> DEFINE v == IF "Completion" \in u.open THEN CloseCompletion(u) ELSE u
<1>1. Screened(u, u)
  BY DEF Screened, SameDocs, SameTabs
<1>2. Screened(u, v)
  BY <1>1, CloseCompletionOK
<1>3. DOMAIN v = Fields /\ Questioned(v)
  BY <1>2 DEF Screened, SameDocs, SameTabs
<1> HIDE DEF v
<1>4. Screened(v, Ask(v, "completion"))
  BY <1>3, AskOK
<1>5. QED
  BY <1>2, <1>4, ScreenedTrans DEF TriggerCompletion, v

-------------------------------------------------------------------------------
\* The least of some tabs, and of two numbers.

LEMMA LeastOfSet ==
  ASSUME NEW S, S \subseteq Nat, S # {}
  PROVE  Min(S) \in S /\ \A n \in S : Min(S) <= n
<1>1. PICK n \in S : \A m \in S : ~(m < n)
  BY LeastNumber
<1>2. \A m \in S : n <= m
  BY <1>1
<1>3. QED
  BY <1>2 DEF Min

LEMMA LeastOfTwo ==
  ASSUME NEW a \in Nat, NEW b \in Nat
  PROVE  Min({a, b}) \in {a, b} /\ Min({a, b}) <= a /\ Min({a, b}) <= b
<1>1. {a, b} \subseteq Nat /\ {a, b} # {}
  OBVIOUS
<1>2. QED
  BY <1>1, LeastOfSet

LEMMA FirstTabOf ==
  ASSUME NEW u, Filed(u), NEW f, TabsOf(u, f) # {}
  PROVE  Min(TabsOf(u, f)) \in DOMAIN u.tabs /\ u.tabs[Min(TabsOf(u, f))].file = f
<1>1. TabsOf(u, f) \subseteq Nat
  BY DEF TabsOf, Filed
<1>2. Min(TabsOf(u, f)) \in TabsOf(u, f)
  BY <1>1, LeastOfSet
<1>3. QED
  BY <1>2 DEF TabsOf

-------------------------------------------------------------------------------
\* Opening and changing tabs.

\* What has become of each dirty tab.
LEMMA HeldBy ==
  ASSUME NEW u, NEW v, NEW texts,
         \A i \in DOMAIN u.tabs : u.tabs[i].dirty =>
           \/ u.tabs[i].text \in texts
           \/ \E j \in DOMAIN v.tabs : v.tabs[j].dirty /\ v.tabs[j].text = u.tabs[i].text
  PROVE  Held(u) \subseteq Held(v) \cup texts
BY DEF Held, UnsavedOf

\* All but the tabs: what opening, closing and editing them leaves alone.
Beside(u, v) ==
  /\ SameAsks(u, v) /\ v.disk = u.disk
  /\ v.clip = u.clip /\ v.session = u.session /\ v.running = u.running
Opened(u, v) ==
  /\ Filed(v) /\ Fronted(v) /\ Beside(u, v) /\ v.fresh = u.fresh
  /\ Len(u.tabs) <= Len(v.tabs) /\ \A i \in DOMAIN u.tabs : v.tabs[i] = u.tabs[i]
AtTab(u, v, i) ==
  /\ Filed(v) /\ SameAsks(u, v) /\ v.active = u.active
  /\ v.clip = u.clip /\ v.session = u.session /\ v.running = u.running
  /\ Len(v.tabs) = Len(u.tabs) /\ \A j \in DOMAIN u.tabs \ {i} : v.tabs[j] = u.tabs[j]

LEMMA OpenedHeld ==
  ASSUME NEW u, Filed(u), NEW v, Opened(u, v)
  PROVE  Held(u) \subseteq Held(v) /\ OnDisk(v) = OnDisk(u) /\ Spares(u, v, {}, {})
<1>1. DOMAIN u.tabs \subseteq DOMAIN v.tabs
  BY DEF Filed, Opened
<1>2. Held(u) \subseteq Held(v) \cup {}
  BY <1>1, HeldBy DEF Opened
<1>3. OnDisk(v) = OnDisk(u) /\ v.running = u.running
  BY DEF OnDisk, Opened, Beside
<1>4. QED
  BY <1>2, <1>3, SparesHeld

LEMMA AtTabHeld ==
  ASSUME NEW u, Filed(u), NEW i \in DOMAIN u.tabs, NEW v, AtTab(u, v, i)
  PROVE  Held(u) \subseteq Held(v) \cup UnsavedOf(u, {i}) /\ (Fronted(u) => Fronted(v))
<1>1. DOMAIN u.tabs = DOMAIN v.tabs /\ (u.tabs # <<>> => v.tabs # <<>>)
  BY DEF Filed, AtTab
<1>2. u.tabs[i].dirty => u.tabs[i].text \in UnsavedOf(u, {i})
  BY DEF UnsavedOf
<1>3. Held(u) \subseteq Held(v) \cup UnsavedOf(u, {i})
  <2>1. \A j \in DOMAIN u.tabs : u.tabs[j].dirty =>
           \/ u.tabs[j].text \in UnsavedOf(u, {i})
           \/ \E k \in DOMAIN v.tabs : v.tabs[k].dirty /\ v.tabs[k].text = u.tabs[j].text
    BY <1>1, <1>2 DEF AtTab
  <2>2. QED
    BY <2>1, HeldBy
<1>4. QED
  BY <1>1, <1>3 DEF Fronted, AtTab, Filed

LEMMA LoadedType ==
  ASSUME NEW u, Filed(u), NEW f \in Files \cup {NoFile}
  PROVE  Loaded(u, f) \in Tab /\ ~Loaded(u, f).dirty /\ Loaded(u, f).file = f
<1>1. (IF f \in OnDisk(u) THEN u.disk[f] ELSE 0) \in Nat
  BY DEF OnDisk, Filed, Disk
<1>2. QED
  BY <1>1 DEF Loaded, Tab

LEMMA AppendTab ==
  ASSUME NEW u, Filed(u), NEW t \in Tab, NEW v,
         v = [u EXCEPT !.tabs = Append(@, t), !.active = Len(u.tabs) + 1]
  PROVE  Opened(u, v) /\ Active(v) = t
<1>1. Append(u.tabs, t) \in Seq(Tab) /\ Len(Append(u.tabs, t)) = Len(u.tabs) + 1
  BY DEF Filed
<1>2. /\ DOMAIN v = Fields /\ v.tabs = Append(u.tabs, t) /\ v.active = Len(u.tabs) + 1
      /\ v.fresh = u.fresh /\ Beside(u, v)
  BY DEF Filed, Fields, Beside, SameAsks
<1>3. Filed(v)
  BY <1>1, <1>2 DEF Filed, Beside
<1>4. v.active \in DOMAIN v.tabs /\ v.tabs[v.active] = t /\ v.tabs # <<>>
  BY <1>1, <1>2 DEF Filed
<1>5. \A i \in DOMAIN u.tabs : v.tabs[i] = u.tabs[i]
  BY <1>2 DEF Filed
<1>6. QED
  BY <1>1, <1>2, <1>3, <1>4, <1>5 DEF Opened, Fronted, Active, Filed

LEMMA OpenUntitledOK ==
  ASSUME NEW u, Filed(u)
  PROVE  Opened(u, OpenUntitled(u))
BY LoadedType, AppendTab DEF OpenUntitled

LEMMA OpenFileOK ==
  ASSUME NEW u, Filed(u), NEW f \in Files
  PROVE  Opened(u, OpenFile(u, f)) /\ ActiveFile(OpenFile(u, f)) = f
<1> DEFINE i == Min(TabsOf(u, f))
           v == [u EXCEPT !.active = i]
<1>1. CASE TabsOf(u, f) # {}
  <2>1. i \in DOMAIN u.tabs /\ u.tabs[i].file = f
    BY <1>1, FirstTabOf
  <2> HIDE DEF i
  <2>2. /\ DOMAIN v = Fields /\ v.tabs = u.tabs /\ v.active = i /\ v.fresh = u.fresh
        /\ Beside(u, v)
    BY DEF Filed, Fields, Beside, SameAsks
  <2> HIDE DEF v
  <2>3. Filed(v) /\ Fronted(v)
    BY <2>1, <2>2 DEF Filed, Fronted, Beside
  <2>4. Opened(u, v) /\ ActiveFile(v) = f
    BY <2>1, <2>2, <2>3 DEF Opened, ActiveFile, Active, Filed
  <2>5. QED
    BY <1>1, <2>4 DEF OpenFile, v, i
<1>2. CASE TabsOf(u, f) = {}
  <2>1. Loaded(u, f) \in Tab /\ Loaded(u, f).file = f
    BY LoadedType
  <2>2. OpenFile(u, f) = [u EXCEPT !.tabs = Append(@, Loaded(u, f)), !.active = Len(u.tabs) + 1]
    BY <1>2 DEF OpenFile
  <2>3. QED
    BY <2>1, <2>2, AppendTab DEF ActiveFile
<1>3. QED
  BY <1>1, <1>2

LEMMA OpenedThen ==
  ASSUME NEW u, NEW v, Opened(u, v), NEW w, SameDocs(v, w), SameAsks(v, w)
  PROVE  Opened(u, w) /\ ActiveFile(w) = ActiveFile(v)
BY DocsKept, SameTrans DEF Opened, Beside, SameDocs, SameTabs

LEMMA ShowFileOK ==
  ASSUME NEW u, Filed(u), NEW f \in Files
  PROVE  Opened(u, ShowFile(u, f)) /\ ActiveFile(ShowFile(u, f)) = f
<1> DEFINE v == OpenFile(u, f)
<1>1. Opened(u, v) /\ ActiveFile(v) = f /\ DOMAIN v = Fields
  BY OpenFileOK DEF Opened, Filed
<1> HIDE DEF v
<1>2. SameDocs(v, SyncActiveTab(v)) /\ SameAsks(v, SyncActiveTab(v))
  BY <1>1, SyncActiveTabOK
<1>3. QED
  BY <1>1, <1>2, OpenedThen DEF ShowFile, v

LEMMA ActiveTab ==
  ASSUME NEW u, Filed(u), Fronted(u)
  PROVE  /\ u.active \in DOMAIN u.tabs /\ u.active \in Nat \ {0}
         /\ Active(u) \in Tab /\ Active(u).text \in Nat /\ ActiveFile(u) \in Files \cup {NoFile}
<1>1. u.active \in DOMAIN u.tabs /\ u.active \in Nat \ {0} /\ Active(u) \in Tab
  BY DEF Filed, Fronted, Active
<1>2. QED
  BY <1>1 DEF ActiveFile, Tab

LEMMA ReplaceTab ==
  ASSUME NEW u, Filed(u), NEW i \in DOMAIN u.tabs, NEW t \in Tab, NEW v,
         SameAsks(u, v), v.tabs = [u.tabs EXCEPT ![i] = t], v.active = u.active,
         v.disk \in Disk, v.fresh \in Nat,
         v.clip = u.clip, v.session = u.session, v.running = u.running
  PROVE  AtTab(u, v, i) /\ v.tabs[i] = t
<1>1. /\ v.tabs \in Seq(Tab) /\ Len(v.tabs) = Len(u.tabs) /\ v.tabs[i] = t
      /\ \A j \in DOMAIN u.tabs \ {i} : v.tabs[j] = u.tabs[j]
  BY DEF Filed
<1>2. Filed(v)
  BY <1>1 DEF Filed, SameAsks
<1>3. QED
  BY <1>1, <1>2 DEF AtTab

LEMMA EditOK ==
  ASSUME NEW u, Filed(u), NEW i \in DOMAIN u.tabs
  PROVE  /\ AtTab(u, Edit(u, i), i) /\ Edit(u, i).disk = u.disk
         /\ Edit(u, i).tabs[i].file = u.tabs[i].file
         /\ Spares(u, Edit(u, i), UnsavedOf(u, {i}), {})
         /\ UnsavedOf(u, {i}) \subseteq {u.tabs[i].text}
<1> DEFINE t == [u.tabs[i] EXCEPT !.text = u.fresh + 1, !.dirty = TRUE]
           v == Edit(u, i)
<1>1. u.tabs[i] \in Tab /\ u.fresh + 1 \in Nat
  BY DEF Filed
<1>2. t \in Tab /\ t.file = u.tabs[i].file
  BY <1>1 DEF Tab
<1>3. /\ SameAsks(u, v) /\ v.active = u.active /\ v.disk = u.disk /\ v.fresh = u.fresh + 1
      /\ v.clip = u.clip /\ v.session = u.session /\ v.running = u.running
  BY DEF Filed, Fields, SameAsks, Edit
<1>4. v.tabs = [u.tabs EXCEPT ![i] = t]
  BY DEF Filed, Fields, Edit
<1> HIDE DEF t, v
<1>5. AtTab(u, v, i) /\ v.tabs[i] = t
  BY <1>1, <1>2, <1>3, <1>4, ReplaceTab DEF Filed
<1>6. Held(u) \subseteq Held(v) \cup UnsavedOf(u, {i})
  BY <1>5, AtTabHeld
<1>7. Spares(u, v, UnsavedOf(u, {i}), {})
  BY <1>3, <1>6, SparesHeld DEF OnDisk
<1>8. QED
  BY <1>2, <1>3, <1>5, <1>7 DEF v, UnsavedOf

LEMMA ReloadActiveOK ==
  ASSUME NEW u, Filed(u), Fronted(u)
  PROVE  /\ AtTab(u, ReloadActive(u), u.active) /\ ReloadActive(u).disk = u.disk
         /\ Spares(u, ReloadActive(u), UnsavedOf(u, {u.active}), {})
<1> DEFINE t == Loaded(u, ActiveFile(u))
           v == ReloadActive(u)
<1>1. u.active \in DOMAIN u.tabs /\ ActiveFile(u) \in Files \cup {NoFile}
  BY ActiveTab
<1>2. t \in Tab
  BY <1>1, LoadedType
<1>3. /\ SameAsks(u, v) /\ v.active = u.active /\ v.disk = u.disk /\ v.fresh = u.fresh
      /\ v.clip = u.clip /\ v.session = u.session /\ v.running = u.running
  BY DEF Filed, Fields, SameAsks, ReloadActive
<1>4. v.tabs = [u.tabs EXCEPT ![u.active] = t]
  BY DEF Filed, Fields, ReloadActive
<1> HIDE DEF t, v
<1>5. AtTab(u, v, u.active)
  BY <1>1, <1>2, <1>3, <1>4, ReplaceTab DEF Filed
<1>6. Held(u) \subseteq Held(v) \cup UnsavedOf(u, {u.active})
  BY <1>1, <1>5, AtTabHeld
<1>7. Spares(u, v, UnsavedOf(u, {u.active}), {})
  BY <1>3, <1>6, SparesHeld DEF OnDisk
<1>8. QED
  BY <1>3, <1>5, <1>7 DEF v

\* What a tab holds is in its file once it is written.
LEMMA WriteTab ==
  ASSUME NEW u, Filed(u), Fronted(u), NEW f \in Files, NEW t \in Tab, NEW v,
         ~t.dirty, SameAsks(u, v), v.tabs = [u.tabs EXCEPT ![u.active] = t],
         v.active = u.active, v.disk = [u.disk EXCEPT ![f] = Active(u).text],
         v.fresh = u.fresh, v.clip = u.clip, v.session = u.session, v.running = u.running
  PROVE  /\ AtTab(u, v, u.active) /\ Fronted(v) /\ ~Active(v).dirty
         /\ Held(u) \subseteq Held(v) \cup DiskTexts(v)
         /\ Active(u).text \in DiskTexts(v) /\ OnDisk(u) \subseteq OnDisk(v)
         /\ Spares(u, v, {}, {})
<1>1. u.active \in DOMAIN u.tabs /\ Active(u) \in Tab /\ Active(u).text \in Nat
  BY ActiveTab
<1>2. v.disk \in Disk /\ v.disk[f] = Active(u).text /\ OnDisk(u) \subseteq OnDisk(v)
  BY <1>1 DEF Filed, Disk, OnDisk, Gone
<1>3. AtTab(u, v, u.active) /\ v.tabs[u.active] = t
  BY <1>1, <1>2, ReplaceTab DEF Filed
<1>4. Held(u) \subseteq Held(v) \cup UnsavedOf(u, {u.active}) /\ Fronted(v)
  BY <1>1, <1>3, AtTabHeld
<1>5. UnsavedOf(u, {u.active}) \subseteq DiskTexts(v) /\ Active(u).text \in DiskTexts(v)
  BY <1>2 DEF UnsavedOf, DiskTexts, Active
<1>6. Spares(u, v, {}, {})
  BY <1>2, <1>4, <1>5, SparesHeld
<1>7. QED
  BY <1>2, <1>3, <1>4, <1>5, <1>6 DEF Active

LEMMA WriteOK ==
  ASSUME NEW u, Filed(u), Fronted(u), ActiveFile(u) \in Files
  PROVE  /\ AtTab(u, Write(u), u.active) /\ Fronted(Write(u)) /\ ~Active(Write(u)).dirty
         /\ Held(u) \subseteq Held(Write(u)) \cup DiskTexts(Write(u))
         /\ Active(u).text \in DiskTexts(Write(u)) /\ OnDisk(u) \subseteq OnDisk(Write(u))
         /\ Spares(u, Write(u), {}, {})
<1> DEFINE t == [u.tabs[u.active] EXCEPT !.dirty = FALSE]
           v == Write(u)
<1>1. u.active \in DOMAIN u.tabs /\ u.tabs[u.active] \in Tab
  BY DEF Filed, Fronted
<1>2. t \in Tab /\ ~t.dirty
  BY <1>1 DEF Tab
<1>3. /\ SameAsks(u, v) /\ v.active = u.active /\ v.fresh = u.fresh
      /\ v.clip = u.clip /\ v.session = u.session /\ v.running = u.running
      /\ v.disk = [u.disk EXCEPT ![ActiveFile(u)] = Active(u).text]
  BY DEF Filed, Fields, SameAsks, Write
<1>4. v.tabs = [u.tabs EXCEPT ![u.active] = t]
  BY <1>1 DEF Filed, Fields, Write
<1> HIDE DEF t, v
<1>5. QED
  BY <1>2, <1>3, <1>4, WriteTab DEF v

LEMMA SaveAsOK ==
  ASSUME NEW u, Filed(u), Fronted(u), NEW f \in Files
  PROVE  /\ AtTab(u, SaveAs(u, f), u.active) /\ Fronted(SaveAs(u, f)) /\ ~Active(SaveAs(u, f)).dirty
         /\ Held(u) \subseteq Held(SaveAs(u, f)) \cup DiskTexts(SaveAs(u, f))
         /\ Active(u).text \in DiskTexts(SaveAs(u, f)) /\ OnDisk(u) \subseteq OnDisk(SaveAs(u, f))
         /\ Spares(u, SaveAs(u, f), {}, {})
<1> DEFINE t == [u.tabs[u.active] EXCEPT !.file = f, !.bad = FALSE, !.dirty = FALSE]
           w == [u EXCEPT !.tabs[u.active].file = f, !.tabs[u.active].bad = FALSE]
           v == SaveAs(u, f)
<1>1. u.active \in DOMAIN u.tabs /\ u.tabs[u.active] \in Tab
  BY DEF Filed, Fronted
<1>2. t \in Tab /\ ~t.dirty
  BY <1>1 DEF Tab
<1>3. /\ DOMAIN w = Fields /\ SameAsks(u, w) /\ w.active = u.active /\ w.fresh = u.fresh
      /\ w.clip = u.clip /\ w.session = u.session /\ w.running = u.running /\ w.disk = u.disk
      /\ w.tabs = [u.tabs EXCEPT ![u.active] = [@ EXCEPT !.file = f, !.bad = FALSE]]
  BY <1>1 DEF Filed, Fields, SameAsks
<1> HIDE DEF w
<1>4. Active(w).file = f /\ Active(w).text = Active(u).text
  <2>1. w.tabs[w.active] = [u.tabs[u.active] EXCEPT !.file = f, !.bad = FALSE]
    <3> DEFINE r == [u.tabs[u.active] EXCEPT !.file = f, !.bad = FALSE]
    <3>1. w.tabs = [u.tabs EXCEPT ![u.active] = r] /\ w.active = u.active
      BY <1>3
    <3> HIDE DEF r
    <3>2. w.tabs[w.active] = r
      BY <1>1, <3>1 DEF Filed
    <3>3. QED
      BY <3>2 DEF r
  <2>2. QED
    BY <1>1, <2>1 DEF Active, Tab
<1>5. /\ DOMAIN v = Fields /\ SameAsks(w, v) /\ v.active = w.active /\ v.fresh = w.fresh
      /\ v.clip = w.clip /\ v.session = w.session /\ v.running = w.running
      /\ v.disk = [w.disk EXCEPT ![f] = Active(w).text]
      /\ v.tabs = [w.tabs EXCEPT ![w.active] = [@ EXCEPT !.dirty = FALSE]]
  <2>1. v = Write(w)
    BY DEF v, w, SaveAs
  <2>2. QED
    BY <1>3, <1>4, <2>1 DEF Fields, SameAsks, Write, ActiveFile
<1>6. v.tabs = [u.tabs EXCEPT ![u.active] = t]
  BY <1>1, <1>3, <1>4, <1>5 DEF Filed
<1>7. SameAsks(u, v)
  BY <1>3, <1>5, SameTrans
<1>8. /\ v.active = u.active /\ v.disk = [u.disk EXCEPT ![f] = Active(u).text]
      /\ v.fresh = u.fresh /\ v.clip = u.clip /\ v.session = u.session /\ v.running = u.running
  BY <1>3, <1>4, <1>5
<1> HIDE DEF t, v
<1>9. /\ AtTab(u, v, u.active) /\ Fronted(v) /\ ~Active(v).dirty
      /\ Held(u) \subseteq Held(v) \cup DiskTexts(v)
      /\ Active(u).text \in DiskTexts(v) /\ OnDisk(u) \subseteq OnDisk(v)
      /\ Spares(u, v, {}, {})
  BY <1>2, <1>6, <1>7, <1>8, WriteTab
<1>10. QED
  BY <1>9 DEF v

-------------------------------------------------------------------------------
\* Closing tabs.

LEMMA SecondPart ==
  ASSUME NEW a \in Seq(Tab), NEW b \in Seq(Tab), NEW k \in 1 .. Len(b)
  PROVE  (a \o b)[Len(a) + k] = b[k]
OBVIOUS

LEMMA RemoveAtOK ==
  ASSUME NEW s \in Seq(Tab), NEW i \in DOMAIN s
  PROVE  /\ RemoveAt(s, i) \in Seq(Tab)
         /\ \A j \in DOMAIN s \ {i} : \E k \in DOMAIN RemoveAt(s, i) : RemoveAt(s, i)[k] = s[j]
<1> DEFINE before == SubSeq(s, 1, i - 1)
           after == SubSeq(s, i + 1, Len(s))
<1>1. i \in 1 .. Len(s) /\ Len(s) \in Nat
  OBVIOUS
<1>2. before \in Seq(Tab) /\ Len(before) = i - 1 /\ \A k \in 1 .. (i - 1) : before[k] = s[k]
  BY <1>1
<1>3. /\ after \in Seq(Tab) /\ Len(after) = Len(s) - i
      /\ \A k \in 1 .. (Len(s) - i) : after[k] = s[i + k]
  BY <1>1
<1> HIDE DEF before, after
<1> DEFINE r == before \o after
<1>4. r \in Seq(Tab) /\ DOMAIN r = 1 .. (Len(s) - 1)
  BY <1>1, <1>2, <1>3
<1>5. ASSUME NEW j \in DOMAIN s \ {i} PROVE \E k \in DOMAIN r : r[k] = s[j]
  <2>1. j \in 1 .. Len(s) /\ j # i
    OBVIOUS
  <2>2. CASE j < i
    <3>1. j \in 1 .. (i - 1) /\ j \in DOMAIN r
      BY <1>1, <1>4, <2>1, <2>2
    <3>2. r[j] = s[j]
      BY <1>2, <1>3, <3>1
    <3>3. QED
      BY <3>1, <3>2
  <2>3. CASE j > i
    <3>1. /\ j - 1 \in 1 .. (Len(s) - 1) /\ j - i \in 1 .. (Len(s) - i)
          /\ i + (j - i) = j /\ (i - 1) + (j - i) = j - 1
      BY <1>1, <2>1, <2>3
    <3>2. r[j - 1] = after[j - i]
      <4>1. r[Len(before) + (j - i)] = after[j - i]
        BY <1>2, <1>3, <3>1, SecondPart
      <4>2. QED
        BY <4>1, <1>2, <3>1
    <3>3. after[j - i] = s[i + (j - i)]
      BY <1>3, <3>1
    <3> HIDE DEF r
    <3>4. QED
      BY <1>4, <3>1, <3>2, <3>3
  <2>4. QED
    BY <1>1, <2>1, <2>2, <2>3
<1>6. QED
  BY <1>4, <1>5 DEF RemoveAt, before, after

\* A tab is left in front, an untitled one if no other is.
LEMMA ClosedOK ==
  ASSUME NEW u, Filed(u), NEW left \in Seq(Tab), NEW a \in Nat \ {0}, NEW texts,
         \A i \in DOMAIN u.tabs : u.tabs[i].dirty =>
           u.tabs[i].text \in texts \/ \E j \in DOMAIN left : left[j] = u.tabs[i],
         NEW v, v = [u EXCEPT !.tabs = left, !.active = Min({a, Len(left)})],
         NEW w, w = SyncActiveTab(IF left = <<>> THEN OpenUntitled(v) ELSE v)
  PROVE  /\ Filed(w) /\ Fronted(w) /\ Beside(u, w)
         /\ Spares(u, w, texts, {})
<1>1. v.tabs = left /\ v.active = Min({a, Len(left)}) /\ v.fresh = u.fresh /\ Beside(u, v)
  BY DEF Filed, Fields, Beside, SameAsks
<1>2. Filed(v)
  BY <1>1 DEF Filed, Beside, SameAsks
<1>3. left # <<>> => Fronted(v)
  <2>1. SUFFICES ASSUME left # <<>> PROVE Fronted(v)
    OBVIOUS
  <2>2. Len(left) \in Nat \ {0} /\ DOMAIN left = 1 .. Len(left)
    BY <2>1
  <2>3. Min({a, Len(left)}) \in 1 .. Len(left)
    <3> DEFINE m == Min({a, Len(left)})
    <3>1. m \in {a, Len(left)} /\ m <= Len(left)
      BY <2>2, LeastOfTwo
    <3> HIDE DEF m
    <3>2. m \in 1 .. Len(left)
      BY <2>2, <3>1
    <3>3. QED
      BY <3>2 DEF m
  <2>4. QED
    BY <1>1, <2>1, <2>2, <2>3 DEF Fronted
<1> DEFINE x == IF left = <<>> THEN OpenUntitled(v) ELSE v
<1>4. /\ Filed(x) /\ Fronted(x) /\ Beside(u, x) /\ Len(left) <= Len(x.tabs)
      /\ \A i \in DOMAIN left : x.tabs[i] = left[i]
  <2>1. CASE left = <<>>
    <3>1. Opened(v, OpenUntitled(v))
      BY <1>2, OpenUntitledOK
    <3>2. Beside(u, OpenUntitled(v))
      BY <1>1, <3>1, SameTrans DEF Opened, Beside
    <3>3. QED
      BY <1>1, <2>1, <3>1, <3>2 DEF Opened
  <2>2. CASE left # <<>>
    BY <1>1, <1>2, <1>3, <2>2
  <2>3. QED
    BY <2>1, <2>2
<1> HIDE DEF x
<1>5. DOMAIN x = Fields /\ w = SyncActiveTab(x)
  BY <1>4 DEF x, Filed
<1>6. SameDocs(x, w) /\ SameAsks(x, w)
  BY <1>5, SyncActiveTabOK
<1>7. Filed(w) /\ Fronted(w) /\ Beside(u, w) /\ w.tabs = x.tabs
  BY <1>4, <1>6, DocsKept, SameTrans DEF Beside, SameDocs, SameTabs
<1>8. DOMAIN left \subseteq DOMAIN x.tabs
  BY <1>4 DEF Filed
<1>9. Held(u) \subseteq Held(w) \cup texts
  <2>1. \A i \in DOMAIN u.tabs : u.tabs[i].dirty =>
           \/ u.tabs[i].text \in texts
           \/ \E j \in DOMAIN w.tabs : w.tabs[j].dirty /\ w.tabs[j].text = u.tabs[i].text
    BY <1>4, <1>7, <1>8
  <2>2. QED
    BY <2>1 DEF Held, UnsavedOf
<1>10. OnDisk(u) \subseteq OnDisk(w) /\ w.running = u.running
  BY <1>7 DEF OnDisk, Beside
<1>11. QED
  BY <1>7, <1>9, <1>10, SparesHeld

LEMMA CloseActiveOK ==
  ASSUME NEW u, Filed(u), Fronted(u)
  PROVE  /\ Filed(CloseActive(u)) /\ Fronted(CloseActive(u)) /\ Beside(u, CloseActive(u))
         /\ Spares(u, CloseActive(u), UnsavedOf(u, {u.active}), {})
<1> DEFINE left == RemoveAt(u.tabs, u.active)
           v == [u EXCEPT !.tabs = left, !.active = Min({u.active, Len(left)})]
           w == SyncActiveTab(IF left = <<>> THEN OpenUntitled(v) ELSE v)
<1>1. w = CloseActive(u)
  BY DEF CloseActive
<1>2. /\ left \in Seq(Tab) /\ u.active \in Nat \ {0}
      /\ \A j \in DOMAIN u.tabs \ {u.active} : \E k \in DOMAIN left : left[k] = u.tabs[j]
  <2>1. u.active \in DOMAIN u.tabs /\ u.active \in Nat \ {0} /\ u.tabs \in Seq(Tab)
    BY ActiveTab DEF Filed
  <2>2. QED
    BY <2>1, RemoveAtOK
<1>3. \A i \in DOMAIN u.tabs : u.tabs[i].dirty =>
         u.tabs[i].text \in UnsavedOf(u, {u.active}) \/ \E j \in DOMAIN left : left[j] = u.tabs[i]
  BY <1>2 DEF UnsavedOf
<1> HIDE DEF left
<1>4. /\ v = [u EXCEPT !.tabs = left, !.active = Min({u.active, Len(left)})]
      /\ w = SyncActiveTab(IF left = <<>> THEN OpenUntitled(v) ELSE v)
  OBVIOUS
<1> HIDE DEF v, w
<1>5. /\ Filed(w) /\ Fronted(w) /\ Beside(u, w)
      /\ Spares(u, w, UnsavedOf(u, {u.active}), {})
  BY <1>2, <1>3, <1>4, ClosedOK
<1>6. QED
  BY <1>1, <1>5

\* The tabs of files other than f.
TabsBut(f) == {left \in Seq(Tab) : \A j \in DOMAIN left : left[j].file # f}

LEMMA AppendBut ==
  ASSUME NEW f, NEW left \in TabsBut(f), NEW t \in Tab
  PROVE  /\ (IF t.file = f THEN left ELSE Append(left, t)) \in TabsBut(f)
         /\ \A x : (\E j \in DOMAIN left : left[j] = x) =>
              \E j \in DOMAIN Append(left, t) : Append(left, t)[j] = x
         /\ \E j \in DOMAIN Append(left, t) : Append(left, t)[j] = t
<1> DEFINE more == Append(left, t)
<1>1. left \in Seq(Tab) /\ \A j \in DOMAIN left : left[j].file # f
  BY DEF TabsBut
<1>2. /\ more \in Seq(Tab) /\ DOMAIN more = 1 .. (Len(left) + 1) /\ Len(left) \in Nat
      /\ DOMAIN left = 1 .. Len(left)
      /\ more[Len(left) + 1] = t /\ \A j \in DOMAIN left : more[j] = left[j]
  BY <1>1
<1> HIDE DEF more
<1>3. t.file # f => more \in TabsBut(f)
  BY <1>1, <1>2 DEF TabsBut
<1>4. /\ \E j \in DOMAIN more : more[j] = t
      /\ \A x : (\E j \in DOMAIN left : left[j] = x) => \E j \in DOMAIN more : more[j] = x
  BY <1>2
<1>5. QED
  BY <1>3, <1>4 DEF more

\* The tabs of other files stay.
LEMMA WithoutOK ==
  ASSUME NEW tabs \in Seq(Tab), NEW gone
  PROVE  /\ Without(tabs, gone) \in TabsBut(gone)
         /\ \A i \in DOMAIN tabs : tabs[i].file # gone =>
              \E j \in DOMAIN Without(tabs, gone) : Without(tabs, gone)[j] = tabs[i]
<1> DEFINE base == <<>>
           seq == tabs
           N == Len(tabs)
           FoldStep(f, s) == IF s = {} THEN base ELSE (IF seq[Max(s)].file = gone THEN f[s \ {Max(s)}] ELSE Append(f[s \ {Max(s)}], seq[Max(s)]))
           iter == CHOOSE f : f = [s \in SUBSET DOMAIN seq |-> FoldStep(f, s)]
           G == [p \in TabsBut(gone) \X (1 .. N) |-> (IF seq[p[2]].file = gone THEN p[1] ELSE Append(p[1], seq[p[2]]))]
           Stays(i, kept) == seq[i].file # gone => \E j \in DOMAIN kept : kept[j] = seq[i]
<1>1. N \in Nat /\ DOMAIN seq = 1 .. N
  OBVIOUS
<1>2. \A i \in 1 .. N : seq[i] \in Tab
  OBVIOUS
<1>3. Without(tabs, gone) = iter[DOMAIN seq]
  BY DEF Without, FoldLeft, MapThenFoldSet
<1>4. base \in TabsBut(gone)
  BY DEF TabsBut
<1> HIDE DEF base, seq, N
<1>5. \A acc \in TabsBut(gone), i \in 1 .. N : (IF seq[i].file = gone THEN acc ELSE Append(acc, seq[i])) \in TabsBut(gone)
  BY <1>2, AppendBut
<1>6. G \in [TabsBut(gone) \X (1 .. N) -> TabsBut(gone)]
  BY <1>5
<1>7. \E f : f = [s \in SUBSET DOMAIN seq |-> FoldStep(f, s)]
  <2> HIDE DEF G
  <2>1. PICK f : FoldOf(f, TabsBut(gone), base, N, G)
    BY <1>1, <1>4, <1>6, FoldExists
  <2>2. ASSUME NEW s \in SUBSET (1 .. N) PROVE f[s] = FoldStep(f, s)
    <3>1. CASE s = {}
      BY <2>1, <3>1 DEF FoldOf
    <3>2. CASE s # {}
      <4>1. Max(s) \in 1 .. N /\ f[s \ {Max(s)}] \in TabsBut(gone)
        BY <1>1, <2>1, <3>2, MaxIsIn DEF FoldOf
      <4>2. G[<<f[s \ {Max(s)}], Max(s)>>] = (IF seq[Max(s)].file = gone THEN f[s \ {Max(s)}] ELSE Append(f[s \ {Max(s)}], seq[Max(s)]))
        BY <4>1 DEF G
      <4>3. QED
        BY <2>1, <3>2, <4>2 DEF FoldOf
    <3>3. QED
      BY <3>1, <3>2
  <2>3. f = [s \in SUBSET DOMAIN seq |-> FoldStep(f, s)]
    <3>1. f = [s \in SUBSET (1 .. N) |-> f[s]]
      BY <2>1 DEF FoldOf
    <3> HIDE DEF FoldStep
    <3>2. QED
      BY <1>1, <2>2, <3>1
  <2>4. QED
    BY <2>3
<1>8. iter = [s \in SUBSET DOMAIN seq |-> FoldStep(iter, s)]
  <2> HIDE DEF FoldStep
  <2> QED
    BY <1>7
<1> HIDE DEF iter
<1>9. iter[{}] \in TabsBut(gone)
  BY <1>4, <1>8
<1>10. ASSUME NEW k \in 1 .. N, iter[1 .. (k - 1)] \in TabsBut(gone)
       PROVE  /\ iter[1 .. k] \in TabsBut(gone)
              /\ \A i \in 1 .. (k - 1) : Stays(i, iter[1 .. (k - 1)]) => Stays(i, iter[1 .. k])
              /\ Stays(k, iter[1 .. k])
  <2>1. Max(1 .. k) = k /\ (1 .. k) \ {k} = 1 .. (k - 1)
    <3>1. k \in Nat \ {0}
      BY <1>1
    <3>2. QED
      BY <3>1, MaxOfInterval
  <2>2. k \in Nat \ {0} /\ k <= N
    BY <1>1
  <2>3. k \in 1 .. k
    BY <2>2
  <2>4. 1 .. k \in SUBSET DOMAIN seq
    BY <1>1, <2>2
  <2>5. iter[1 .. k] = (IF seq[k].file = gone THEN iter[1 .. (k - 1)] ELSE Append(iter[1 .. (k - 1)], seq[k]))
    BY <1>8, <2>1, <2>3, <2>4
  <2>6. seq[k] \in Tab
    BY <1>1, <1>2
  <2>7. \A x : (\E j \in DOMAIN iter[1 .. (k - 1)] : iter[1 .. (k - 1)][j] = x) =>
                 \E j \in DOMAIN iter[1 .. k] : iter[1 .. k][j] = x
    <3>1. CASE seq[k].file = gone
      BY <2>5, <3>1
    <3>2. CASE seq[k].file # gone
      <4>1. iter[1 .. k] = Append(iter[1 .. (k - 1)], seq[k])
        BY <2>5, <3>2
      <4> DEFINE left == iter[1 .. (k - 1)]
      <4>2. left \in TabsBut(gone)
        BY <1>10
      <4> HIDE DEF left
      <4>3. \A x : (\E j \in DOMAIN left : left[j] = x) =>
                     \E j \in DOMAIN Append(left, seq[k]) : Append(left, seq[k])[j] = x
        BY <2>6, <4>2, AppendBut
      <4>4. QED
        BY <4>1, <4>3 DEF left
    <3>3. QED
      BY <3>1, <3>2
  <2>8. seq[k].file # gone => \E j \in DOMAIN iter[1 .. k] : iter[1 .. k][j] = seq[k]
    <3>1. SUFFICES ASSUME seq[k].file # gone
                   PROVE  \E j \in DOMAIN iter[1 .. k] : iter[1 .. k][j] = seq[k]
      OBVIOUS
    <3>2. iter[1 .. k] = Append(iter[1 .. (k - 1)], seq[k])
      BY <2>5, <3>1
    <3>3. QED
      BY <1>10, <2>6, <3>2, AppendBut
  <2>9. iter[1 .. k] \in TabsBut(gone)
    BY <1>10, <2>5, <2>6, AppendBut
  <2>10. QED
    BY <2>7, <2>8, <2>9
<1>11. iter[1 .. N] \in TabsBut(gone)
  BY <1>1, <1>9, <1>10, PrefixInduction
<1>12. \A i \in 1 .. N : Stays(i, iter[1 .. N])
  <2> DEFINE S == {n \in Nat : n <= N => /\ iter[1 .. n] \in TabsBut(gone)
                                         /\ \A i \in 1 .. n : Stays(i, iter[1 .. n])}
  <2> HIDE DEF Stays
  <2>1. 0 \in S
    <3>1. 1 .. 0 = {}
      OBVIOUS
    <3>2. QED
      BY <1>9, <3>1
  <2>2. ASSUME NEW n \in Nat, n \in S PROVE n + 1 \in S
    <3>1. SUFFICES ASSUME n + 1 <= N
                   PROVE  /\ iter[1 .. (n + 1)] \in TabsBut(gone)
                          /\ \A i \in 1 .. (n + 1) : Stays(i, iter[1 .. (n + 1)])
      OBVIOUS
    <3>2. n + 1 \in 1 .. N /\ (n + 1) - 1 = n /\ n <= N
      BY <1>1, <3>1
    <3>3. iter[1 .. n] \in TabsBut(gone) /\ \A i \in 1 .. n : Stays(i, iter[1 .. n])
      BY <2>2, <3>2
    <3>4. /\ iter[1 .. (n + 1)] \in TabsBut(gone)
          /\ \A i \in 1 .. n : Stays(i, iter[1 .. n]) => Stays(i, iter[1 .. (n + 1)])
          /\ Stays(n + 1, iter[1 .. (n + 1)])
      <4>1. iter[1 .. ((n + 1) - 1)] \in TabsBut(gone)
        BY <3>2, <3>3
      <4>2. /\ iter[1 .. (n + 1)] \in TabsBut(gone)
            /\ \A i \in 1 .. ((n + 1) - 1) :
                 Stays(i, iter[1 .. ((n + 1) - 1)]) => Stays(i, iter[1 .. (n + 1)])
            /\ Stays(n + 1, iter[1 .. (n + 1)])
        BY <1>10, <3>2, <4>1
      <4>3. QED
        BY <3>2, <4>2
    <3>5. \A i \in 1 .. (n + 1) : i \in 1 .. n \/ i = n + 1
      OBVIOUS
    <3>6. QED
      BY <3>3, <3>4, <3>5
  <2>3. N \in S
    <3> HIDE DEF S
    <3> QED
      BY <1>1, <2>1, <2>2, Induction
  <2>4. QED
    BY <1>1, <2>3
<1>13. QED
  BY <1>1, <1>3, <1>11, <1>12 DEF seq


LEMMA CloseBuffersUnderOK ==
  ASSUME NEW u, Filed(u), Fronted(u), NEW f
  PROVE  /\ Filed(CloseBuffersUnder(u, f)) /\ Fronted(CloseBuffersUnder(u, f))
         /\ Beside(u, CloseBuffersUnder(u, f))
         /\ Spares(u, CloseBuffersUnder(u, f), UnsavedOf(u, TabsOf(u, f)), {})
<1> DEFINE left == Without(u.tabs, f)
           a == Min(TabsOf(u, f))
           v == [u EXCEPT !.tabs = left, !.active = Min({a, Len(left)})]
           w == SyncActiveTab(IF left = <<>> THEN OpenUntitled(v) ELSE v)
           texts == UnsavedOf(u, TabsOf(u, f))
<1>1. CASE TabsOf(u, f) = {}
  <2>1. CloseBuffersUnder(u, f) = SyncActiveTab(u)
    BY <1>1 DEF CloseBuffersUnder
  <2>2. SameDocs(u, SyncActiveTab(u)) /\ SameAsks(u, SyncActiveTab(u))
    BY SyncActiveTabOK DEF Filed
  <2>3. QED
    BY <2>1, <2>2, DocsKept DEF Beside, SameDocs, SameTabs
<1>2. CASE TabsOf(u, f) # {}
  <2>1. w = CloseBuffersUnder(u, f)
    BY <1>2 DEF CloseBuffersUnder
  <2>2. /\ left \in Seq(Tab)
        /\ \A i \in DOMAIN u.tabs : u.tabs[i].file # f => \E j \in DOMAIN left : left[j] = u.tabs[i]
    BY WithoutOK DEF Filed, TabsBut
  <2>3. a \in Nat \ {0}
    BY <1>2, FirstTabOf DEF Filed
  <2>4. \A i \in DOMAIN u.tabs : u.tabs[i].dirty =>
           u.tabs[i].text \in texts \/ \E j \in DOMAIN left : left[j] = u.tabs[i]
    BY <2>2 DEF UnsavedOf, TabsOf
  <2> HIDE DEF left, a, texts
  <2>5. /\ v = [u EXCEPT !.tabs = left, !.active = Min({a, Len(left)})]
        /\ w = SyncActiveTab(IF left = <<>> THEN OpenUntitled(v) ELSE v)
    OBVIOUS
  <2> HIDE DEF v, w
  <2>6. Filed(w) /\ Fronted(w) /\ Beside(u, w) /\ Spares(u, w, texts, {})
    BY <2>2, <2>3, <2>4, <2>5, ClosedOK
  <2>7. QED
    BY <2>1, <2>6 DEF texts
<1>3. QED
  BY <1>1, <1>2

-------------------------------------------------------------------------------
\* Switching tabs.

LEMMA SwitchToOK ==
  ASSUME NEW u, Filed(u), NEW i \in DOMAIN u.tabs
  PROVE  Opened(u, SwitchTo(u, i))
<1> DEFINE v == SwitchTo(u, i)
<1>1. v.tabs = u.tabs /\ v.active = i /\ v.fresh = u.fresh /\ Beside(u, v)
  BY DEF SwitchTo, Filed, Fields, Beside, SameAsks
<1> HIDE DEF v
<1>2. Filed(v) /\ Fronted(v)
  BY <1>1 DEF Filed, Fronted, Beside, SameAsks
<1>3. QED
  BY <1>1, <1>2 DEF Opened, v, Filed

LEMMA NextTabOK ==
  ASSUME NEW u, Filed(u), Fronted(u)
  PROVE  Opened(u, NextTab(u)) /\ Opened(u, PrevTab(u))
<1>1. /\ u.active \in 1 .. Len(u.tabs) /\ DOMAIN u.tabs = 1 .. Len(u.tabs)
      /\ Len(u.tabs) \in Nat \ {0}
  BY DEF Filed, Fronted
<1>2. (u.active % Len(u.tabs)) + 1 \in 1 .. Len(u.tabs)
  <2>1. \A n \in Nat \ {0}, k \in Nat : (k % n) + 1 \in 1 .. n
    OBVIOUS
  <2>2. QED
    BY <1>1, <2>1
<1>3. (IF u.active = 1 THEN Len(u.tabs) ELSE u.active - 1) \in 1 .. Len(u.tabs)
  BY <1>1
<1>4. QED
  BY <1>1, <1>2, <1>3, SwitchToOK DEF SwitchTo, NextTab, PrevTab

-------------------------------------------------------------------------------
\* The files.

LEMMA DiskOnly ==
  ASSUME NEW u, Filed(u), NEW v, SameTabs(u, v), SameAsks(u, v),
         v.disk \in Disk, v.fresh \in Nat, NEW files, OnDisk(u) \subseteq OnDisk(v) \cup files
  PROVE  /\ Filed(v) /\ (Fronted(u) => Fronted(v)) /\ Spares(u, v, {}, files)
         /\ ActiveFile(v) = ActiveFile(u) /\ \A f : TabsOf(v, f) = TabsOf(u, f)
         /\ \A tabs : UnsavedOf(v, tabs) = UnsavedOf(u, tabs)
<1>1. Filed(v) /\ (Fronted(u) => Fronted(v))
  BY DEF Filed, SameTabs, Fronted
<1>2. Held(v) = Held(u) /\ v.running = u.running
  BY DEF Held, UnsavedOf, SameTabs
<1>3. Spares(u, v, {}, files)
  BY <1>2, SparesHeld
<1>4. QED
  BY <1>1, <1>3 DEF SameTabs, ActiveFile, Active, TabsOf, UnsavedOf

LEMMA DiskWith ==
  ASSUME NEW u, Filed(u), NEW f \in Files, NEW t \in Nat \cup {Gone}, NEW v,
         SameTabs(u, v), SameAsks(u, v), v.disk = [u.disk EXCEPT ![f] = t], v.fresh \in Nat,
         NEW files, t # Gone \/ f \in files
  PROVE  /\ Filed(v) /\ (Fronted(u) => Fronted(v)) /\ Spares(u, v, {}, files)
         /\ OnDisk(u) \subseteq OnDisk(v) \cup files
<1>1. v.disk \in Disk
  BY DEF Filed, Disk
<1>2. OnDisk(u) \subseteq OnDisk(v) \cup files
  BY <1>1 DEF Filed, OnDisk, Disk
<1>3. QED
  BY <1>1, <1>2, DiskOnly

LEMMA CreateFileOK ==
  ASSUME NEW u, Filed(u), NEW f \in Files
  PROVE  /\ Filed(CreateFile(u, f)) /\ (Fronted(u) => Fronted(CreateFile(u, f)))
         /\ SameAsks(u, CreateFile(u, f)) /\ Spares(u, CreateFile(u, f), {}, {})
<1> DEFINE v == [u EXCEPT !.disk[f] = 0]
<1>1. Filed(v) /\ (Fronted(u) => Fronted(v)) /\ SameAsks(u, v) /\ Spares(u, v, {}, {})
  <2>1. /\ SameTabs(u, v) /\ SameAsks(u, v) /\ v.fresh \in Nat
        /\ v.disk = [u.disk EXCEPT ![f] = 0]
    BY DEF Filed, Fields, SameTabs, SameAsks
  <2> HIDE DEF v
  <2>2. 0 \in Nat /\ 0 # Gone
    BY DEF Gone
  <2>3. QED
    BY <2>1, <2>2, DiskWith
<1> HIDE DEF v
<1>2. SameDocs(v, Reveal(v, f)) /\ SameAsks(v, Reveal(v, f))
  BY <1>1 DEF Reveal, Filed, Fields, SameDocs, SameTabs, SameAsks
<1>3. QED
  BY <1>1, <1>2, DocsKept, SameTrans, SparesTrans DEF CreateFile, v

LEMMA DeleteFileOK ==
  ASSUME NEW u, Filed(u), NEW f \in Files
  PROVE  /\ Filed(DeleteFile(u, f)) /\ (Fronted(u) => Fronted(DeleteFile(u, f)))
         /\ SameAsks(u, DeleteFile(u, f)) /\ Spares(u, DeleteFile(u, f), {}, {f})
         /\ SameTabs(u, DeleteFile(u, f)) /\ OnDisk(u) \subseteq OnDisk(DeleteFile(u, f)) \cup {f}
<1> DEFINE v == [u EXCEPT !.disk[f] = Gone]
<1>1. /\ Filed(v) /\ (Fronted(u) => Fronted(v)) /\ SameAsks(u, v) /\ Spares(u, v, {}, {f})
      /\ SameTabs(u, v) /\ OnDisk(u) \subseteq OnDisk(v) \cup {f}
  <2>1. /\ SameTabs(u, v) /\ SameAsks(u, v) /\ v.fresh \in Nat
        /\ v.disk = [u.disk EXCEPT ![f] = Gone]
    BY DEF Filed, Fields, SameTabs, SameAsks
  <2> HIDE DEF v
  <2>2. f \in {f}
    BY DEF Gone
  <2>3. QED
    BY <2>1, <2>2, DiskWith
<1> HIDE DEF v
<1>2. SameDocs(v, ClampSelection(v)) /\ SameAsks(v, ClampSelection(v))
  BY <1>1 DEF ClampSelection, Filed, Fields, SameDocs, SameTabs, SameAsks
<1> DEFINE w == ClampSelection(v)
<1>3. w = DeleteFile(u, f)
  BY DEF DeleteFile, v
<1> HIDE DEF w
<1>4. SameTabs(u, w) /\ OnDisk(w) = OnDisk(v) /\ (Fronted(v) => Fronted(w)) /\ Filed(w)
  BY <1>1, <1>2, DocsKept DEF SameDocs, SameTabs, w
<1>5. SameAsks(u, w) /\ Spares(u, w, {}, {f})
  BY <1>1, <1>2, SameTrans, SparesTrans DEF w
<1>6. QED
  BY <1>1, <1>3, <1>4, <1>5


LEMMA SparesThen ==
  ASSUME NEW u, NEW v, NEW w, NEW t1, NEW t2, NEW f1, NEW f2, v.disk = w.disk,
         Spares(u, v, t1, f1), Spares(v, w, t2, f2)
  PROVE  Spares(u, w, t1 \cup t2, f1 \cup f2)
BY DEF Spares, DiskTexts, OnDisk

\* A tab whose file has another path.
LEMMA TabMoved ==
  ASSUME NEW u, Filed(u), NEW i \in DOMAIN u.tabs, NEW g \in Files, NEW v,
         Beside(u, v), v.active = u.active, v.fresh = u.fresh,
         v.tabs = [u.tabs EXCEPT ![i] = [u.tabs[i] EXCEPT !.file = g]]
  PROVE  /\ Filed(v) /\ (Fronted(u) => Fronted(v))
         /\ Spares(u, v, {}, {}) /\ UnsavedOf(v, {i}) = UnsavedOf(u, {i})
<1> DEFINE t == [u.tabs[i] EXCEPT !.file = g]
<1>1. t \in Tab /\ t.text = u.tabs[i].text /\ t.dirty = u.tabs[i].dirty
  <2>1. u.tabs[i] \in Tab
    BY DEF Filed
  <2>2. QED
    BY <2>1 DEF Tab
<1>2. v.tabs = [u.tabs EXCEPT ![i] = t]
  OBVIOUS
<1> HIDE DEF t
<1>3. AtTab(u, v, i) /\ v.tabs[i] = t
  <2>1. v.disk \in Disk /\ v.fresh \in Nat
    BY DEF Filed, Beside
  <2>2. QED
    BY <1>1, <1>2, <2>1, ReplaceTab DEF Beside
<1>4. Filed(v) /\ (Fronted(u) => Fronted(v))
  <2>1. Fronted(u) => Fronted(v)
    BY <1>3, AtTabHeld
  <2>2. QED
    BY <1>3, <2>1 DEF AtTab
<1>5. DOMAIN u.tabs = DOMAIN v.tabs
  BY <1>2 DEF Filed
<1>6. Held(u) \subseteq Held(v) \cup {}
  <2>1. \A j \in DOMAIN u.tabs : u.tabs[j].dirty =>
           v.tabs[j].dirty /\ v.tabs[j].text = u.tabs[j].text
    BY <1>1, <1>3 DEF AtTab
  <2>2. QED
    BY <1>5, <2>1 DEF Held, UnsavedOf
<1>7. Spares(u, v, {}, {}) /\ UnsavedOf(v, {i}) = UnsavedOf(u, {i})
  <2>1. v.running = u.running /\ OnDisk(u) \subseteq OnDisk(v) \cup {}
    BY DEF OnDisk, Beside
  <2>2. Held(u) \subseteq Held(v) \cup DiskTexts(v) \cup {}
    BY <1>6
  <2>3. UnsavedOf(v, {i}) = UnsavedOf(u, {i})
    BY <1>1, <1>3 DEF UnsavedOf
  <2>4. QED
    BY <2>1, <2>2, <2>3, SparesHeld
<1>8. QED
  BY <1>2, <1>4, <1>7

\* What a step of the documents has to show.
Stored(u, v, texts, files) ==
  Filed(v) /\ Fronted(v) /\ SameAsks(u, v) /\ Spares(u, v, texts, files)

LEMMA SyncAfter ==
  ASSUME NEW u, NEW v, NEW texts, NEW files, Stored(u, v, texts, files)
  PROVE  Stored(u, SyncActiveTab(v), texts, files)
<1>1. SameDocs(v, SyncActiveTab(v)) /\ SameAsks(v, SyncActiveTab(v))
  BY SyncActiveTabOK DEF Stored, Filed
<1>2. QED
  BY <1>1, DocsKept, SameTrans, SparesTrans DEF Stored

LEMMA RevealAfter ==
  ASSUME NEW u, NEW v, NEW texts, NEW files, NEW f, Stored(u, v, texts, files)
  PROVE  Stored(u, Reveal(v, f), texts, files)
<1>1. SameDocs(v, Reveal(v, f)) /\ SameAsks(v, Reveal(v, f))
  BY DEF Reveal, Stored, Filed, Fields, SameDocs, SameTabs, SameAsks
<1>2. QED
  BY <1>1, DocsKept, SameTrans, SparesTrans DEF Stored

LEMMA RenameFileOK ==
  ASSUME NEW u, Filed(u), Fronted(u), NEW f \in OnDisk(u), NEW g \in Files \ OnDisk(u)
  PROVE  Stored(u, RenameFile(u, f, g), {}, {f})
<1> DEFINE bare == [u EXCEPT !.disk = [@ EXCEPT ![g] = u.disk[f], ![f] = Gone]]
           moved == Reveal(bare, g)
           i == Min(TabsOf(u, f))
           v == [moved EXCEPT !.tabs[i].file = g]
<1>1. Stored(u, bare, {}, {f}) /\ SameTabs(u, bare)
  <2>1. /\ SameTabs(u, bare) /\ SameAsks(u, bare) /\ bare.fresh = u.fresh
        /\ bare.disk = [u.disk EXCEPT ![g] = u.disk[f], ![f] = Gone]
    BY DEF Filed, Fields, SameTabs, SameAsks
  <2> HIDE DEF bare
  <2>2. bare.disk \in Disk
    BY <2>1 DEF Filed, Disk, OnDisk
  <2>3. OnDisk(u) \subseteq OnDisk(bare) \cup {f}
    BY <2>1 DEF Filed, Disk, OnDisk
  <2>4. QED
    BY <2>1, <2>2, <2>3, DiskOnly DEF Stored, Filed
<1> HIDE DEF bare
<1>2. Stored(u, moved, {}, {f}) /\ moved.tabs = u.tabs
  <2>1. moved.tabs = bare.tabs
    BY <1>1 DEF Reveal, Stored, Filed, Fields
  <2>2. QED
    BY <1>1, <2>1, RevealAfter DEF SameTabs
<1> HIDE DEF moved
<1>3. CASE TabsOf(u, f) = {}
  <2>1. RenameFile(u, f, g) = SyncActiveTab(moved)
    BY <1>3 DEF RenameFile, moved, bare
  <2>2. QED
    BY <1>2, <2>1, SyncAfter
<1>4. CASE TabsOf(u, f) # {}
  <2>1. RenameFile(u, f, g) = SyncActiveTab(v)
    BY <1>4 DEF RenameFile, moved, bare
  <2>2. i \in DOMAIN moved.tabs
    BY <1>2, <1>4, FirstTabOf
  <2>3. /\ Beside(moved, v) /\ v.active = moved.active /\ v.fresh = moved.fresh
        /\ v.tabs = [moved.tabs EXCEPT ![i] = [moved.tabs[i] EXCEPT !.file = g]]
    <3> HIDE DEF i
    <3> QED
      BY <1>2, <2>2 DEF Stored, Filed, Fields, Beside, SameAsks
  <2> HIDE DEF v, i
  <2>4. Filed(v) /\ Fronted(v) /\ Beside(moved, v) /\ Spares(moved, v, {}, {})
    BY <1>2, <2>2, <2>3, TabMoved DEF Stored
  <2>5. Spares(u, v, {} \cup {}, {f} \cup {})
    BY <1>2, <2>4, SparesThen DEF Stored, Beside
  <2>6. Stored(u, v, {}, {f})
    BY <1>2, <2>4, <2>5, SameTrans DEF Stored, Beside
  <2>7. QED
    BY <2>1, <2>6, SyncAfter
<1>5. QED
  BY <1>3, <1>4

\* The explorer's clipboard, the session file, and the end of the program.
LEMMA ClipOK ==
  ASSUME NEW u, Filed(u), NEW c, c.file \in Files => c.mode \in {"Cut", "Copy"},
         NEW v, v = [u EXCEPT !.clip = c]
  PROVE  /\ Filed(v) /\ (Fronted(u) => Fronted(v)) /\ SameAsks(u, v) /\ v.disk = u.disk
         /\ v.tabs = u.tabs /\ v.active = u.active /\ v.fresh = u.fresh
         /\ Spares(u, v, {}, {}) /\ OnDisk(v) = OnDisk(u) /\ Unsaved(v) = Unsaved(u)
<1>1. /\ SameAsks(u, v) /\ v.tabs = u.tabs /\ v.active = u.active /\ v.disk = u.disk
      /\ v.fresh = u.fresh /\ v.clip = c /\ v.session = u.session /\ v.running = u.running
  BY DEF Filed, Fields, SameAsks
<1>2. QED
  BY <1>1 DEF Filed, Fronted, Spares, Unsaved, UnsavedOf, OnDisk, SameAsks

LEMMA SaveSessionOK ==
  ASSUME NEW u, Filed(u), Fronted(u)
  PROVE  Stored(u, SaveSession(u), {}, {})
<1> DEFINE v == SaveSession(u)
           left == Without(u.tabs, NoFile)
           names == [i \in DOMAIN left |-> left[i].file]
<1>1. left \in Seq(Tab) /\ \A i \in DOMAIN left : left[i].file # NoFile
  BY WithoutOK DEF Filed, TabsBut
<1>2. /\ SameAsks(u, v) /\ v.tabs = u.tabs /\ v.active = u.active /\ v.disk = u.disk
      /\ v.fresh = u.fresh /\ v.clip = u.clip /\ v.running = u.running
      /\ v.session.files = names /\ v.session.active = u.active
  BY DEF Filed, Fields, SameAsks, SaveSession
<1> HIDE DEF left, v
<1>3. names \in Seq(Files)
  <2>1. \A i \in DOMAIN left : left[i] \in Tab
    BY <1>1
  <2>2. \A t \in Tab : t.file # NoFile => t.file \in Files
    BY DEF Tab
  <2>3. DOMAIN left = 1 .. Len(left) /\ Len(left) \in Nat
    BY <1>1
  <2>4. QED
    BY <1>1, <2>1, <2>2, <2>3
<1>4. u.active \in Nat \ {0}
  BY ActiveTab
<1> HIDE DEF names
<1>5. Filed(v) /\ Fronted(v) /\ Spares(u, v, {}, {})
  BY <1>2, <1>3, <1>4 DEF Filed, Fronted, Spares, Unsaved, UnsavedOf, OnDisk, SameAsks
<1>6. QED
  BY <1>2, <1>5 DEF Stored, v

LEMMA RequestQuitOK ==
  ASSUME NEW u, Filed(u), Fronted(u)
  PROVE  Stored(u, RequestQuit(u), Held(u), {})
<1> DEFINE v == RequestQuit(u)
<1>1. /\ SameAsks(u, v) /\ v.tabs = u.tabs /\ v.active = u.active /\ v.disk = u.disk
      /\ v.fresh = u.fresh /\ v.clip = u.clip /\ v.session = u.session
  BY DEF Filed, Fields, SameAsks, RequestQuit
<1> HIDE DEF v
<1>2. Filed(v) /\ Fronted(v) /\ Spares(u, v, Held(u), {})
  BY <1>1 DEF Filed, Fronted, Spares, Unsaved, Held, OnDisk, SameAsks
<1>3. QED
  BY <1>1, <1>2 DEF Stored, v


LEMMA StoredOf ==
  ASSUME NEW u, Filed(u), NEW v, NEW texts, NEW files
  PROVE  /\ Opened(u, v) => Stored(u, v, {}, {})
         /\ Stored(u, v, {}, {}) => Stored(u, v, texts, files)
         /\ Fronted(u) => Stored(u, u, texts, files)
<1>1. Opened(u, v) => Stored(u, v, {}, {})
  BY OpenedHeld DEF Stored, Opened, Beside
<1>2. Spares(u, v, {}, {}) => Spares(u, v, texts, files)
  BY DEF Spares
<1>3. Spares(u, u, texts, files) /\ SameAsks(u, u)
  BY DEF Spares, SameAsks, Filed
<1>4. QED
  BY <1>1, <1>2, <1>3 DEF Stored

LEMMA PasteFileOK ==
  ASSUME NEW u, Filed(u), Fronted(u), u.clip.file \in OnDisk(u), NEW g \in Files \ OnDisk(u)
  PROVE  Stored(u, PasteFile(u, g),
                IF u.clip.mode = "Cut" /\ ActiveFile(u) = u.clip.file
                  THEN UnsavedOf(u, {u.active}) ELSE {},
                IF u.clip.mode = "Cut" THEN {u.clip.file} ELSE {})
<1> DEFINE f == u.clip.file
           copied == [u EXCEPT !.disk[g] = u.disk[f]]
           moved == [copied EXCEPT !.disk[f] = Gone, !.clip = NoClip]
           there == [moved EXCEPT !.tabs[u.active].file = g]
           texts == UnsavedOf(u, {u.active})
<1>1. f \in Files /\ u.disk[f] \in Nat /\ u.disk[f] # Gone /\ u.clip.mode \in {"Cut", "Copy"}
  BY DEF Filed, Disk, OnDisk
<1>2. Stored(u, copied, {}, {})
  <2>1. /\ SameTabs(u, copied) /\ SameAsks(u, copied) /\ copied.fresh = u.fresh
        /\ copied.disk = [u.disk EXCEPT ![g] = u.disk[f]]
    BY DEF Filed, Fields, SameTabs, SameAsks
  <2> HIDE DEF copied, f
  <2>2. copied.fresh \in Nat
    BY <2>1 DEF Filed
  <2>3. QED
    BY <1>1, <2>1, <2>2, DiskWith DEF Stored
<1>3. Stored(u, moved, {}, {f}) /\ moved.tabs = u.tabs /\ moved.active = u.active
  <2> DEFINE bare == [u EXCEPT !.clip = NoClip]
  <2>1. NoClip.file \notin Files
    BY DEF NoClip, NoFile, Files
  <2>2. /\ Filed(bare) /\ Fronted(bare) /\ SameAsks(u, bare) /\ Spares(u, bare, {}, {})
        /\ OnDisk(bare) = OnDisk(u) /\ Unsaved(bare) = Unsaved(u)
        /\ bare.disk = u.disk /\ bare.fresh = u.fresh
        /\ bare.tabs = u.tabs /\ bare.active = u.active
    BY <2>1, ClipOK
  <2>3. /\ SameTabs(bare, moved) /\ SameAsks(bare, moved) /\ moved.fresh = bare.fresh
        /\ moved.disk = [u.disk EXCEPT ![g] = u.disk[f], ![f] = Gone]
    BY DEF Filed, Fields, SameTabs, SameAsks
  <2> HIDE DEF moved, bare, f
  <2>4. moved.disk \in Disk /\ moved.fresh \in Nat
    BY <1>1, <2>2, <2>3 DEF Filed, Disk
  <2>5. OnDisk(bare) \subseteq OnDisk(moved) \cup {f}
    BY <1>1, <2>2, <2>3 DEF OnDisk, Filed, Disk
  <2>6. Filed(moved) /\ Fronted(moved) /\ Spares(bare, moved, {}, {f})
    BY <2>2, <2>3, <2>4, <2>5, DiskOnly
  <2>7. Spares(u, moved, {}, {f})
    BY <2>2, <2>6 DEF Spares
  <2>8. moved.tabs = u.tabs /\ moved.active = u.active
    BY <2>2, <2>3 DEF SameTabs
  <2>9. QED
    BY <2>2, <2>3, <2>6, <2>7, <2>8, SameTrans DEF Stored
<1> HIDE DEF copied
<1>4. CASE u.clip.mode = "Copy"
  <2>1. PasteFile(u, g) = Reveal(copied, g)
    BY <1>4 DEF PasteFile, copied
  <2>2. QED
    BY <1>2, <1>4, <2>1, RevealAfter
<1>5. CASE u.clip.mode = "Cut" /\ ActiveFile(u) # f
  <2>1. PasteFile(u, g) = Reveal(moved, g)
    BY <1>5 DEF PasteFile, copied
  <2> HIDE DEF moved
  <2>2. QED
    BY <1>3, <1>5, <2>1, RevealAfter
<1>6. CASE u.clip.mode = "Cut" /\ ActiveFile(u) = f
  <2>1. PasteFile(u, g) = SyncActiveTab(ReloadActive(there))
    BY <1>6 DEF PasteFile, copied
  <2>2. u.active \in DOMAIN moved.tabs
    BY <1>3, ActiveTab
  <2>3. /\ Beside(moved, there) /\ there.active = moved.active /\ there.fresh = moved.fresh
        /\ there.tabs = [moved.tabs EXCEPT ![u.active] = [moved.tabs[u.active] EXCEPT !.file = g]]
    <3> HIDE DEF moved
    <3> QED
      BY <1>3, <2>2 DEF Stored, Filed, Fields, Beside, SameAsks
  <2> HIDE DEF moved, there
  <2>4. /\ Filed(there) /\ Fronted(there) /\ Spares(moved, there, {}, {})
        /\ UnsavedOf(there, {u.active}) = UnsavedOf(moved, {u.active})
    BY <1>3, <2>2, <2>3, TabMoved DEF Stored
  <2>5. UnsavedOf(there, {there.active}) = texts
    BY <1>3, <2>3, <2>4 DEF UnsavedOf
  <2>6. Spares(u, there, {} \cup {}, {f} \cup {})
    BY <1>3, <2>3, <2>4, SparesThen DEF Stored, Beside
  <2> DEFINE w == ReloadActive(there)
  <2>7. AtTab(there, w, there.active) /\ w.disk = there.disk /\ Spares(there, w, texts, {})
    BY <2>4, <2>5, ReloadActiveOK
  <2> HIDE DEF w, texts
  <2>8. Filed(w) /\ Fronted(w) /\ SameAsks(there, w)
    <3>1. there.active \in DOMAIN there.tabs
      BY <2>4, ActiveTab
    <3>2. Fronted(w)
      BY <2>4, <2>7, <3>1, AtTabHeld
    <3>3. QED
      BY <2>7, <3>2 DEF AtTab
  <2>9. Spares(u, w, ({} \cup {}) \cup texts, ({f} \cup {}) \cup {})
    BY <2>6, <2>7, SparesThen
  <2>10. SameAsks(u, w)
    BY <1>3, <2>3, <2>8, SameTrans DEF Stored, Beside
  <2>11. Stored(u, w, texts, {f})
    BY <2>8, <2>9, <2>10 DEF Stored
  <2>12. QED
    BY <1>6, <2>1, <2>11, SyncAfter DEF w, texts
<1>7. QED
  BY <1>1, <1>4, <1>5, <1>6


-------------------------------------------------------------------------------
\* A set that no operation on tabs and files leaves: what a fold of such operations
\* over a list of files is proved in.

Values(u) == Seq(Tab) \cup Disk \cup Nat \cup {u[k] : k \in Fields}
States(u) == [Fields -> Values(u)] \cup {u}

LEMMA StateWith ==
  ASSUME NEW u, DOMAIN u = Fields, NEW v \in States(u), NEW k \in Fields, NEW x \in Values(u)
  PROVE  [v EXCEPT ![k] = x] \in States(u)
<1>1. DOMAIN v = Fields /\ \A j \in Fields : v[j] \in Values(u)
  BY DEF States, Values
<1>2. [v EXCEPT ![k] = x] \in [Fields -> Values(u)]
  BY <1>1
<1>3. QED
  BY <1>2 DEF States

LEMMA StateWithTwo ==
  ASSUME NEW u, DOMAIN u = Fields, NEW v \in States(u),
         NEW j \in Fields, NEW x \in Values(u), NEW k \in Fields, NEW y \in Values(u)
  PROVE  [v EXCEPT ![j] = x, ![k] = y] \in States(u)
<1> DEFINE w == [v EXCEPT ![j] = x]
<1>1. w \in States(u)
  BY StateWith
<1>2. [v EXCEPT ![j] = x, ![k] = y] = [w EXCEPT ![k] = y]
  OBVIOUS
<1> HIDE DEF w
<1>3. QED
  BY <1>1, <1>2, StateWith

LEMMA OpenFileState ==
  ASSUME NEW u, DOMAIN u = Fields, NEW v \in States(u), Filed(v), NEW f \in Files
  PROVE  OpenFile(v, f) \in States(u)
<1>1. "tabs" \in Fields /\ "active" \in Fields
  BY DEF Fields
<1>2. CASE TabsOf(v, f) # {}
  <2>1. Min(TabsOf(v, f)) \in Values(u)
    BY <1>2, FirstTabOf DEF Filed, Values
  <2>2. [v EXCEPT !.active = Min(TabsOf(v, f))] \in States(u)
    BY <1>1, <2>1, StateWith
  <2>3. QED
    BY <1>2, <2>2 DEF OpenFile
<1>3. CASE TabsOf(v, f) = {}
  <2>1. Append(v.tabs, Loaded(v, f)) \in Values(u) /\ Len(v.tabs) + 1 \in Values(u)
    BY LoadedType DEF Filed, Values
  <2>2. [v EXCEPT !.tabs = Append(v.tabs, Loaded(v, f)), !.active = Len(v.tabs) + 1] \in States(u)
    BY <1>1, <2>1, StateWithTwo
  <2>3. QED
    BY <1>3, <2>2 DEF OpenFile
<1>4. QED
  BY <1>2, <1>3

\* A state that differs from one of them in fields that have such values.
LEMMA StateOf ==
  ASSUME NEW u, DOMAIN u = Fields, NEW v \in States(u), NEW w,
         w = [k \in Fields |-> w[k]],
         \A k \in Fields : w[k] = v[k] \/ w[k] \in Values(u)
  PROVE  w \in States(u)
<1>1. \A k \in Fields : v[k] \in Values(u)
  BY DEF States, Values
<1>2. w \in [Fields -> Values(u)]
  BY <1>1
<1>3. QED
  BY <1>2 DEF States

LEMMA EditState ==
  ASSUME NEW u, DOMAIN u = Fields, NEW v \in States(u), Filed(v), NEW i \in DOMAIN v.tabs
  PROVE  Edit(v, i) \in States(u)
<1> DEFINE t == [v.tabs[i] EXCEPT !.text = v.fresh + 1, !.dirty = TRUE]
           w == Edit(v, i)
<1>1. w = [k \in Fields |-> w[k]] /\ \A k \in Fields \ {"tabs", "fresh"} : w[k] = v[k]
  BY DEF Edit, Filed
<1>2. w.tabs = [v.tabs EXCEPT ![i] = t] /\ w.fresh = v.fresh + 1
  BY DEF Edit, Filed, Fields
<1>3. t \in Tab
  <2>1. v.tabs[i] \in Tab /\ v.fresh + 1 \in Nat
    BY DEF Filed
  <2>2. QED
    BY <2>1 DEF Tab
<1> HIDE DEF t, w
<1>4. w.tabs \in Values(u) /\ w.fresh \in Values(u)
  BY <1>2, <1>3 DEF Values, Filed
<1>5. w \in States(u)
  BY <1>1, <1>4, StateOf
<1>6. QED
  BY <1>5 DEF w

LEMMA ReplaceState ==
  ASSUME NEW u, DOMAIN u = Fields, NEW v \in States(u), Filed(v), NEW f \in Files
  PROVE  [v EXCEPT !.disk[f] = v.fresh + 1, !.fresh = @ + 1] \in States(u)
<1> DEFINE w == [v EXCEPT !.disk[f] = v.fresh + 1, !.fresh = @ + 1]
<1>1. w = [k \in Fields |-> w[k]] /\ \A k \in Fields \ {"disk", "fresh"} : w[k] = v[k]
  BY DEF Filed
<1>2. w.disk = [v.disk EXCEPT ![f] = v.fresh + 1] /\ w.fresh = v.fresh + 1
  BY DEF Filed, Fields
<1> HIDE DEF w
<1>3. w.disk \in Values(u) /\ w.fresh \in Values(u)
  BY <1>2 DEF Values, Filed, Disk
<1>4. w \in States(u)
  BY <1>1, <1>3, StateOf
<1>5. QED
  BY <1>4 DEF w


-------------------------------------------------------------------------------
\* Restoring the session.

Reopened(b) ==
  {v \in States(b) : Filed(v) /\ (v.tabs # <<>> => Fronted(v)) /\ Beside(b, v)}

LEMMA OpenThereOK ==
  ASSUME NEW b, DOMAIN b = Fields, NEW v \in Reopened(b), NEW f \in Files
  PROVE  OpenThere(v, f) \in Reopened(b)
<1>1. v \in States(b) /\ Filed(v) /\ Beside(b, v)
  BY DEF Reopened
<1> DEFINE w == OpenFile(v, f)
<1>2. w \in States(b) /\ Opened(v, w)
  BY <1>1, OpenFileState, OpenFileOK
<1> HIDE DEF w
<1>3. Beside(b, w) /\ Filed(w) /\ Fronted(w)
  BY <1>1, <1>2, SameTrans DEF Opened, Beside
<1>4. w \in Reopened(b)
  BY <1>2, <1>3 DEF Reopened
<1>5. QED
  BY <1>4 DEF OpenThere, w

LEMMA ReopenedAll ==
  ASSUME NEW b, Filed(b), b.tabs = <<>>, NEW files \in Seq(Files)
  PROVE  FoldLeft(OpenThere, b, files) \in Reopened(b)
<1> DEFINE base == b
           seq == files
           N == Len(files)
           FoldStep(f, s) == IF s = {} THEN base ELSE OpenThere(f[s \ {Max(s)}], seq[Max(s)])
           iter == CHOOSE f : f = [s \in SUBSET DOMAIN seq |-> FoldStep(f, s)]
           G == [p \in Reopened(b) \X (1 .. N) |-> OpenThere(p[1], seq[p[2]])]
<1>0. DOMAIN b = Fields /\ b.tabs = <<>> /\ Filed(b)
  BY DEF Filed
<1>1. N \in Nat /\ DOMAIN seq = 1 .. N
  OBVIOUS
<1>2. \A i \in 1 .. N : seq[i] \in Files
  OBVIOUS
<1>3. FoldLeft(OpenThere, b, files) = iter[DOMAIN seq]
  BY DEF FoldLeft, MapThenFoldSet
<1>4. base \in Reopened(b)
  BY <1>0 DEF Reopened, Beside, SameAsks, States
<1> HIDE DEF base, seq, N
<1>5. \A acc \in Reopened(b), i \in 1 .. N : OpenThere(acc, seq[i]) \in Reopened(b)
  BY <1>2, <1>0, OpenThereOK
<1>6. G \in [Reopened(b) \X (1 .. N) -> Reopened(b)]
  BY <1>5
<1>7. \E f : f = [s \in SUBSET DOMAIN seq |-> FoldStep(f, s)]
  <2> HIDE DEF G
  <2>1. PICK f : FoldOf(f, Reopened(b), base, N, G)
    BY <1>1, <1>4, <1>6, FoldExists
  <2>2. ASSUME NEW s \in SUBSET (1 .. N) PROVE f[s] = FoldStep(f, s)
    <3>1. CASE s = {}
      BY <2>1, <3>1 DEF FoldOf
    <3>2. CASE s # {}
      <4>1. Max(s) \in 1 .. N /\ f[s \ {Max(s)}] \in Reopened(b)
        BY <1>1, <2>1, <3>2, MaxIsIn DEF FoldOf
      <4>2. G[<<f[s \ {Max(s)}], Max(s)>>] = OpenThere(f[s \ {Max(s)}], seq[Max(s)])
        BY <4>1 DEF G
      <4>3. QED
        BY <2>1, <3>2, <4>2 DEF FoldOf
    <3>3. QED
      BY <3>1, <3>2
  <2>3. f = [s \in SUBSET DOMAIN seq |-> FoldStep(f, s)]
    <3>1. f = [s \in SUBSET (1 .. N) |-> f[s]]
      BY <2>1 DEF FoldOf
    <3> HIDE DEF FoldStep
    <3>2. QED
      BY <1>1, <2>2, <3>1
  <2>4. QED
    BY <2>3
<1>8. iter = [s \in SUBSET DOMAIN seq |-> FoldStep(iter, s)]
  <2> HIDE DEF FoldStep
  <2> QED
    BY <1>7
<1> HIDE DEF iter
<1>9. iter[{}] \in Reopened(b)
  BY <1>4, <1>8
<1>10. ASSUME NEW k \in 1 .. N, iter[1 .. (k - 1)] \in Reopened(b)
       PROVE  iter[1 .. k] \in Reopened(b)
  <2>1. Max(1 .. k) = k /\ (1 .. k) \ {k} = 1 .. (k - 1)
    <3>1. k \in Nat \ {0}
      BY <1>1
    <3>2. QED
      BY <3>1, MaxOfInterval
  <2>2. k \in Nat \ {0} /\ k <= N
    BY <1>1
  <2>3. k \in 1 .. k
    BY <2>2
  <2>4. 1 .. k \in SUBSET DOMAIN seq
    BY <1>1, <2>2
  <2>5. iter[1 .. k] = OpenThere(iter[1 .. (k - 1)], seq[k])
    BY <1>8, <2>1, <2>3, <2>4
  <2>6. QED
    BY <1>5, <1>10, <2>5
<1>11. iter[1 .. N] \in Reopened(b)
  BY <1>1, <1>9, <1>10, PrefixInduction
<1>12. QED
  BY <1>1, <1>3, <1>11

LEMMA RestoreSessionOK ==
  ASSUME NEW u, Filed(u), Fronted(u)
  PROVE  Stored(u, RestoreSession(u), Unsaved(u), {})
<1> DEFINE files == u.session.files
           shown == [u EXCEPT !.side = u.session.side, !.term = u.session.term]
           bare == [shown EXCEPT !.tabs = <<>>, !.active = 0]
           v == FoldLeft(OpenThere, bare, files)
           a == Min({u.session.active, Len(v.tabs)})
<1>1. ASSUME NEW w, Filed(w), Fronted(w), SameAsks(u, w), w.disk = u.disk
      PROVE  Stored(u, w, Unsaved(u), {})
  BY <1>1 DEF Stored, Spares, OnDisk
<1>2. SameAsks(u, shown) /\ SameDocs(u, shown)
  BY DEF Filed, Fields, SameAsks, SameDocs, SameTabs
<1>3. /\ SameAsks(u, bare) /\ bare.disk = u.disk /\ bare.fresh = u.fresh /\ bare.tabs = <<>>
      /\ bare.clip = u.clip /\ bare.session = u.session
  BY DEF Filed, Fields, SameAsks
<1> HIDE DEF bare
<1>4. Filed(bare)
  BY <1>3 DEF Filed, SameAsks
<1>5. files \in Seq(Files)
  BY DEF Filed
<1> HIDE DEF files
<1>6. v \in Reopened(bare)
  BY <1>3, <1>4, <1>5, ReopenedAll
<1> HIDE DEF v
<1>7. Filed(v) /\ Beside(u, v) /\ (v.tabs # <<>> => Fronted(v))
  <2>1. Beside(bare, v)
    BY <1>6 DEF Reopened
  <2>2. SameAsks(u, v) /\ v.running = bare.running
    BY <1>3, <2>1, SameTrans DEF Beside
  <2>3. bare.running = u.running
    BY DEF bare, Filed, Fields
  <2>4. QED
    BY <1>3, <1>6, <2>1, <2>2, <2>3 DEF Reopened, Beside
<1>8. CASE files = <<>>
  <2>1. RestoreSession(u) = shown
    BY <1>8 DEF RestoreSession, files
  <2> HIDE DEF shown
  <2>2. Filed(shown) /\ Fronted(shown) /\ shown.disk = u.disk
    BY <1>2, DocsKept DEF SameDocs
  <2>3. QED
    BY <1>1, <1>2, <2>1, <2>2
<1>9. CASE files # <<>> /\ v.tabs = <<>>
  <2>1. RestoreSession(u) = OpenUntitled(v)
    BY <1>9 DEF RestoreSession, files, v, bare
  <2>2. Opened(v, OpenUntitled(v))
    BY <1>7, OpenUntitledOK
  <2>3. SameAsks(u, OpenUntitled(v)) /\ OpenUntitled(v).disk = u.disk
    BY <1>7, <2>2, SameTrans DEF Opened, Beside
  <2>4. QED
    BY <1>1, <2>1, <2>2, <2>3 DEF Opened
<1>10. CASE files # <<>> /\ v.tabs # <<>>
  <2>1. RestoreSession(u) = SyncActiveTab(SwitchTo(v, a))
    BY <1>10 DEF RestoreSession, files, v, bare, SwitchTo
  <2>2. a \in DOMAIN v.tabs
    <3>1. u.session.active \in Nat \ {0} /\ Len(v.tabs) \in Nat \ {0}
          /\ DOMAIN v.tabs = 1 .. Len(v.tabs)
      BY <1>7, <1>10 DEF Filed
    <3>2. a \in {u.session.active, Len(v.tabs)} /\ a <= Len(v.tabs)
      BY <3>1, LeastOfTwo
    <3> HIDE DEF a
    <3>3. QED
      BY <3>1, <3>2
  <2> HIDE DEF a
  <2> DEFINE w == SwitchTo(v, a)
  <2>3. Opened(v, w)
    BY <1>7, <2>2, SwitchToOK
  <2> HIDE DEF w
  <2>4. SameAsks(u, w) /\ w.disk = u.disk
    BY <1>7, <2>3, SameTrans DEF Opened, Beside
  <2>5. Stored(u, w, Unsaved(u), {})
    BY <1>1, <2>3, <2>4 DEF Opened
  <2>6. QED
    BY <2>1, <2>5, SyncAfter DEF w
<1>11. QED
  BY <1>8, <1>9, <1>10


-------------------------------------------------------------------------------
\* Editing many files.

\* Tabs are added, and only those of the files are changed.
Edited(u, files) ==
  {v \in States(u) :
     /\ Filed(v) /\ Fronted(v) /\ SameAsks(u, v) /\ v.running = u.running
     /\ DOMAIN u.tabs \subseteq DOMAIN v.tabs
     /\ \A i \in DOMAIN u.tabs : /\ v.tabs[i].file = u.tabs[i].file
                                 /\ u.tabs[i].file \notin files => v.tabs[i] = u.tabs[i]
     /\ OnDisk(u) \subseteq OnDisk(v)}

LEMMA EditedStored ==
  ASSUME NEW u, Filed(u), NEW files, NEW v \in Edited(u, files)
  PROVE  Stored(u, v, UnsavedOf(u, UNION {TabsOf(u, f) : f \in files}), {})
<1> DEFINE texts == UnsavedOf(u, UNION {TabsOf(u, f) : f \in files})
<1>1. /\ Filed(v) /\ Fronted(v) /\ SameAsks(u, v) /\ v.running = u.running
      /\ DOMAIN u.tabs \subseteq DOMAIN v.tabs /\ OnDisk(u) \subseteq OnDisk(v)
  BY DEF Edited
<1>2. ASSUME NEW i \in DOMAIN u.tabs, u.tabs[i].dirty
      PROVE  \/ u.tabs[i].text \in texts
             \/ \E j \in DOMAIN v.tabs : v.tabs[j].dirty /\ v.tabs[j].text = u.tabs[i].text
  <2>1. CASE u.tabs[i].file \in files
    <3>1. i \in TabsOf(u, u.tabs[i].file)
      BY DEF TabsOf
    <3>2. i \in UNION {TabsOf(u, f) : f \in files}
      BY <2>1, <3>1
    <3>3. QED
      BY <1>2, <3>2 DEF UnsavedOf
  <2>2. CASE u.tabs[i].file \notin files
    BY <1>1, <1>2, <2>2 DEF Edited
  <2>3. QED
    BY <2>1, <2>2
<1> HIDE DEF texts
<1>3. Held(u) \subseteq Held(v) \cup texts
  BY <1>2, HeldBy
<1>4. Spares(u, v, texts, {})
  BY <1>1, <1>3, SparesHeld
<1>5. QED
  BY <1>1, <1>4 DEF Stored, texts

\* An edit of a tab of one of the files.
LEMMA EditedTab ==
  ASSUME NEW u, Filed(u), NEW files, NEW v \in Edited(u, files),
         NEW w \in States(u), Opened(v, w), NEW i \in DOMAIN w.tabs, w.tabs[i].file \in files
  PROVE  Edit(w, i) \in Edited(u, files)
<1> DEFINE x == Edit(w, i)
<1>1. DOMAIN u = Fields /\ Filed(w) /\ Fronted(w)
  BY DEF Filed, Opened
<1>2. x \in States(u)
  BY <1>1, EditState
<1>3. AtTab(w, x, i) /\ x.disk = w.disk /\ x.tabs[i].file = w.tabs[i].file
  BY <1>1, EditOK
<1> HIDE DEF x
<1>4. Filed(x) /\ Fronted(x)
  BY <1>1, <1>3, AtTabHeld DEF AtTab
<1>5. /\ Filed(v) /\ Fronted(v) /\ SameAsks(u, v) /\ v.running = u.running
      /\ DOMAIN u.tabs \subseteq DOMAIN v.tabs /\ OnDisk(u) \subseteq OnDisk(v)
  BY DEF Edited
<1>6. /\ SameAsks(u, x) /\ x.running = u.running /\ OnDisk(u) \subseteq OnDisk(x)
  <2>1. SameAsks(u, w) /\ SameAsks(w, x)
    BY <1>3, <1>5, SameTrans DEF Opened, Beside, AtTab
  <2>2. x.running = u.running /\ OnDisk(x) = OnDisk(v)
    BY <1>3, <1>5 DEF Opened, Beside, AtTab, OnDisk
  <2>3. QED
    BY <1>5, <2>1, <2>2, SameTrans
<1>7. DOMAIN v.tabs \subseteq DOMAIN w.tabs /\ DOMAIN w.tabs = DOMAIN x.tabs
  <2>1. v.tabs \in Seq(Tab) /\ w.tabs \in Seq(Tab) /\ x.tabs \in Seq(Tab)
        /\ Len(v.tabs) <= Len(w.tabs) /\ Len(x.tabs) = Len(w.tabs)
    BY <1>1, <1>3, <1>5 DEF Filed, Opened, AtTab
  <2>2. QED
    BY <2>1
<1>8. ASSUME NEW j \in DOMAIN u.tabs
      PROVE  /\ x.tabs[j].file = u.tabs[j].file
             /\ u.tabs[j].file \notin files => x.tabs[j] = u.tabs[j]
  <2>1. /\ v.tabs[j].file = u.tabs[j].file
        /\ u.tabs[j].file \notin files => v.tabs[j] = u.tabs[j]
    BY DEF Edited
  <2>2. j \in DOMAIN v.tabs /\ w.tabs[j] = v.tabs[j] /\ j \in DOMAIN w.tabs
    BY <1>5, <1>7 DEF Opened
  <2>3. j # i => x.tabs[j] = w.tabs[j]
    BY <1>3, <2>2 DEF AtTab
  <2>4. QED
    BY <1>3, <2>1, <2>2, <2>3
<1>9. x \in Edited(u, files)
  BY <1>2, <1>4, <1>5, <1>6, <1>7, <1>8 DEF Edited
<1>10. QED
  BY <1>9 DEF x

LEMMA EditFileOK ==
  ASSUME NEW u, Filed(u), NEW files \in SUBSET Files, NEW v \in Edited(u, files), NEW f \in files
  PROVE  EditFile(v, f) \in Edited(u, files)
<1> DEFINE w == IF TabsOf(v, f) = {} THEN OpenFile(v, f) ELSE v
<1>1. DOMAIN u = Fields /\ v \in States(u) /\ Filed(v) /\ Fronted(v) /\ f \in Files
  BY DEF Filed, Edited
<1>2. w \in States(u) /\ Opened(v, w) /\ TabsOf(w, f) # {}
  <2>1. CASE TabsOf(v, f) # {}
    <3>1. Opened(v, v)
      BY <1>1 DEF Opened, Beside, SameAsks, Filed
    <3>2. QED
      BY <1>1, <2>1, <3>1
  <2>2. CASE TabsOf(v, f) = {}
    <3>1. Opened(v, OpenFile(v, f)) /\ ActiveFile(OpenFile(v, f)) = f
      BY <1>1, OpenFileOK
    <3>2. OpenFile(v, f).active \in TabsOf(OpenFile(v, f), f)
      BY <3>1 DEF Opened, Fronted, TabsOf, ActiveFile, Active
    <3>3. OpenFile(v, f) \in States(u)
      BY <1>1, OpenFileState
    <3>4. QED
      BY <2>2, <3>1, <3>2, <3>3
  <2>3. QED
    BY <2>1, <2>2
<1> HIDE DEF w
<1> DEFINE i == Min(TabsOf(w, f))
<1>3. i \in DOMAIN w.tabs /\ w.tabs[i].file = f
  BY <1>2, FirstTabOf DEF Opened
<1> HIDE DEF i
<1>4. Edit(w, i) \in Edited(u, files)
  BY <1>2, <1>3, EditedTab
<1>5. QED
  BY <1>4 DEF EditFile, w, i

LEMMA ReplaceInOK ==
  ASSUME NEW u, Filed(u), NEW files \in SUBSET Files, NEW v \in Edited(u, files), NEW f \in files
  PROVE  ReplaceIn(v, f) \in Edited(u, files)
<1>1. DOMAIN u = Fields /\ v \in States(u) /\ Filed(v) /\ Fronted(v) /\ f \in Files
  BY DEF Filed, Edited
<1>2. CASE TabsOf(v, f) # {}
  <2> DEFINE i == Min(TabsOf(v, f))
  <2>1. Opened(v, v)
    BY <1>1 DEF Opened, Beside, SameAsks, Filed
  <2>2. i \in DOMAIN v.tabs /\ v.tabs[i].file = f
    BY <1>1, <1>2, FirstTabOf
  <2> HIDE DEF i
  <2>3. Edit(v, i) \in Edited(u, files)
    BY <1>1, <2>1, <2>2, EditedTab
  <2>4. QED
    BY <1>2, <2>3 DEF ReplaceIn, i
<1>3. CASE TabsOf(v, f) = {}
  <2> DEFINE w == [v EXCEPT !.disk[f] = v.fresh + 1, !.fresh = @ + 1]
  <2>1. w \in States(u)
    BY <1>1, ReplaceState
  <2>2. /\ SameTabs(v, w) /\ SameAsks(v, w) /\ w.fresh = v.fresh + 1
        /\ w.disk = [v.disk EXCEPT ![f] = v.fresh + 1]
    BY <1>1 DEF Filed, Fields, SameTabs, SameAsks
  <2> HIDE DEF w
  <2>3. v.fresh + 1 \in Nat /\ v.fresh + 1 # Gone
    BY <1>1 DEF Filed, Gone
  <2>4. Filed(w) /\ Fronted(w) /\ OnDisk(v) \subseteq OnDisk(w)
    <3>1. w.fresh \in Nat
      BY <2>2, <2>3
    <3>2. Filed(w) /\ (Fronted(v) => Fronted(w)) /\ OnDisk(v) \subseteq OnDisk(w) \cup {}
      BY <1>1, <2>2, <2>3, <3>1, DiskWith
    <3>3. QED
      BY <1>1, <3>2
  <2>5. SameAsks(u, w)
    BY <2>2, SameTrans DEF Edited
  <2>6. w.tabs = v.tabs /\ w.running = v.running
    BY <2>2 DEF SameTabs
  <2>7. w \in Edited(u, files)
    BY <2>1, <2>4, <2>5, <2>6 DEF Edited
  <2>8. QED
    BY <1>3, <2>7 DEF ReplaceIn, w
<1>4. QED
  BY <1>2, <1>3

LEMMA EditedAll ==
  ASSUME NEW u, Filed(u), Fronted(u), NEW files \in SUBSET Files
  PROVE  ForEach(EditFile, u, files) \in Edited(u, files)
<1> DEFINE base == u
           seq == [g \in Files |-> g]
           N == FileCount
           FoldStep(f, s) == IF s = {} THEN base ELSE (IF seq[Max(s)] \in files THEN EditFile(f[s \ {Max(s)}], seq[Max(s)]) ELSE f[s \ {Max(s)}])
           iter == CHOOSE f : f = [s \in SUBSET DOMAIN seq |-> FoldStep(f, s)]
           G == [p \in Edited(u, files) \X (1 .. N) |-> (IF seq[p[2]] \in files THEN EditFile(p[1], seq[p[2]]) ELSE p[1])]
<1>0. Filed(u) /\ Fronted(u) /\ files \in SUBSET Files
  OBVIOUS
<1>1. N \in Nat /\ DOMAIN seq = 1 .. N
  BY TabsAssumption DEF Files
<1>2. \A i \in 1 .. N : seq[i] \in Files
  BY DEF Files
<1>3. ForEach(EditFile, u, files) = iter[DOMAIN seq]
  BY DEF ForEach, FoldLeft, MapThenFoldSet
<1>4. base \in Edited(u, files)
  BY <1>0 DEF Edited, SameAsks, States, Filed
<1> HIDE DEF base, seq, N
<1>5. \A acc \in Edited(u, files), i \in 1 .. N : (IF seq[i] \in files THEN EditFile(acc, seq[i]) ELSE acc) \in Edited(u, files)
  BY <1>2, <1>0, EditFileOK
<1>6. G \in [Edited(u, files) \X (1 .. N) -> Edited(u, files)]
  BY <1>5
<1>7. \E f : f = [s \in SUBSET DOMAIN seq |-> FoldStep(f, s)]
  <2> HIDE DEF G
  <2>1. PICK f : FoldOf(f, Edited(u, files), base, N, G)
    BY <1>1, <1>4, <1>6, FoldExists
  <2>2. ASSUME NEW s \in SUBSET (1 .. N) PROVE f[s] = FoldStep(f, s)
    <3>1. CASE s = {}
      BY <2>1, <3>1 DEF FoldOf
    <3>2. CASE s # {}
      <4>1. Max(s) \in 1 .. N /\ f[s \ {Max(s)}] \in Edited(u, files)
        BY <1>1, <2>1, <3>2, MaxIsIn DEF FoldOf
      <4>2. G[<<f[s \ {Max(s)}], Max(s)>>] = (IF seq[Max(s)] \in files THEN EditFile(f[s \ {Max(s)}], seq[Max(s)]) ELSE f[s \ {Max(s)}])
        BY <4>1 DEF G
      <4>3. QED
        BY <2>1, <3>2, <4>2 DEF FoldOf
    <3>3. QED
      BY <3>1, <3>2
  <2>3. f = [s \in SUBSET DOMAIN seq |-> FoldStep(f, s)]
    <3>1. f = [s \in SUBSET (1 .. N) |-> f[s]]
      BY <2>1 DEF FoldOf
    <3> HIDE DEF FoldStep
    <3>2. QED
      BY <1>1, <2>2, <3>1
  <2>4. QED
    BY <2>3
<1>8. iter = [s \in SUBSET DOMAIN seq |-> FoldStep(iter, s)]
  <2> HIDE DEF FoldStep
  <2> QED
    BY <1>7
<1> HIDE DEF iter
<1>9. iter[{}] \in Edited(u, files)
  BY <1>4, <1>8
<1>10. ASSUME NEW k \in 1 .. N, iter[1 .. (k - 1)] \in Edited(u, files)
       PROVE  iter[1 .. k] \in Edited(u, files)
  <2>1. Max(1 .. k) = k /\ (1 .. k) \ {k} = 1 .. (k - 1)
    <3>1. k \in Nat \ {0}
      BY <1>1
    <3>2. QED
      BY <3>1, MaxOfInterval
  <2>2. k \in Nat \ {0} /\ k <= N
    BY <1>1
  <2>3. k \in 1 .. k
    BY <2>2
  <2>4. 1 .. k \in SUBSET DOMAIN seq
    BY <1>1, <2>2
  <2>5. iter[1 .. k] = (IF seq[k] \in files THEN EditFile(iter[1 .. (k - 1)], seq[k]) ELSE iter[1 .. (k - 1)])
    BY <1>8, <2>1, <2>3, <2>4
  <2>6. QED
    BY <1>5, <1>10, <2>5
<1>11. iter[1 .. N] \in Edited(u, files)
  BY <1>1, <1>9, <1>10, PrefixInduction
<1>12. QED
  BY <1>1, <1>3, <1>11

LEMMA ReplacedAll ==
  ASSUME NEW u, Filed(u), Fronted(u), NEW files \in SUBSET Files
  PROVE  ForEach(ReplaceIn, u, files) \in Edited(u, files)
<1> DEFINE base == u
           seq == [g \in Files |-> g]
           N == FileCount
           FoldStep(f, s) == IF s = {} THEN base ELSE (IF seq[Max(s)] \in files THEN ReplaceIn(f[s \ {Max(s)}], seq[Max(s)]) ELSE f[s \ {Max(s)}])
           iter == CHOOSE f : f = [s \in SUBSET DOMAIN seq |-> FoldStep(f, s)]
           G == [p \in Edited(u, files) \X (1 .. N) |-> (IF seq[p[2]] \in files THEN ReplaceIn(p[1], seq[p[2]]) ELSE p[1])]
<1>0. Filed(u) /\ Fronted(u) /\ files \in SUBSET Files
  OBVIOUS
<1>1. N \in Nat /\ DOMAIN seq = 1 .. N
  BY TabsAssumption DEF Files
<1>2. \A i \in 1 .. N : seq[i] \in Files
  BY DEF Files
<1>3. ForEach(ReplaceIn, u, files) = iter[DOMAIN seq]
  BY DEF ForEach, FoldLeft, MapThenFoldSet
<1>4. base \in Edited(u, files)
  BY <1>0 DEF Edited, SameAsks, States, Filed
<1> HIDE DEF base, seq, N
<1>5. \A acc \in Edited(u, files), i \in 1 .. N : (IF seq[i] \in files THEN ReplaceIn(acc, seq[i]) ELSE acc) \in Edited(u, files)
  BY <1>2, <1>0, ReplaceInOK
<1>6. G \in [Edited(u, files) \X (1 .. N) -> Edited(u, files)]
  BY <1>5
<1>7. \E f : f = [s \in SUBSET DOMAIN seq |-> FoldStep(f, s)]
  <2> HIDE DEF G
  <2>1. PICK f : FoldOf(f, Edited(u, files), base, N, G)
    BY <1>1, <1>4, <1>6, FoldExists
  <2>2. ASSUME NEW s \in SUBSET (1 .. N) PROVE f[s] = FoldStep(f, s)
    <3>1. CASE s = {}
      BY <2>1, <3>1 DEF FoldOf
    <3>2. CASE s # {}
      <4>1. Max(s) \in 1 .. N /\ f[s \ {Max(s)}] \in Edited(u, files)
        BY <1>1, <2>1, <3>2, MaxIsIn DEF FoldOf
      <4>2. G[<<f[s \ {Max(s)}], Max(s)>>] = (IF seq[Max(s)] \in files THEN ReplaceIn(f[s \ {Max(s)}], seq[Max(s)]) ELSE f[s \ {Max(s)}])
        BY <4>1 DEF G
      <4>3. QED
        BY <2>1, <3>2, <4>2 DEF FoldOf
    <3>3. QED
      BY <3>1, <3>2
  <2>3. f = [s \in SUBSET DOMAIN seq |-> FoldStep(f, s)]
    <3>1. f = [s \in SUBSET (1 .. N) |-> f[s]]
      BY <2>1 DEF FoldOf
    <3> HIDE DEF FoldStep
    <3>2. QED
      BY <1>1, <2>2, <3>1
  <2>4. QED
    BY <2>3
<1>8. iter = [s \in SUBSET DOMAIN seq |-> FoldStep(iter, s)]
  <2> HIDE DEF FoldStep
  <2> QED
    BY <1>7
<1> HIDE DEF iter
<1>9. iter[{}] \in Edited(u, files)
  BY <1>4, <1>8
<1>10. ASSUME NEW k \in 1 .. N, iter[1 .. (k - 1)] \in Edited(u, files)
       PROVE  iter[1 .. k] \in Edited(u, files)
  <2>1. Max(1 .. k) = k /\ (1 .. k) \ {k} = 1 .. (k - 1)
    <3>1. k \in Nat \ {0}
      BY <1>1
    <3>2. QED
      BY <3>1, MaxOfInterval
  <2>2. k \in Nat \ {0} /\ k <= N
    BY <1>1
  <2>3. k \in 1 .. k
    BY <2>2
  <2>4. 1 .. k \in SUBSET DOMAIN seq
    BY <1>1, <2>2
  <2>5. iter[1 .. k] = (IF seq[k] \in files THEN ReplaceIn(iter[1 .. (k - 1)], seq[k]) ELSE iter[1 .. (k - 1)])
    BY <1>8, <2>1, <2>3, <2>4
  <2>6. QED
    BY <1>5, <1>10, <2>5
<1>11. iter[1 .. N] \in Edited(u, files)
  BY <1>1, <1>9, <1>10, PrefixInduction
<1>12. QED
  BY <1>1, <1>3, <1>11


\* What an edit of the files, in tabs or on disk, gives up: the tabs' unsaved texts.
LEMMA ApplyWorkspaceEditOK ==
  ASSUME NEW u, Filed(u), Fronted(u), NEW files \in SUBSET Files
  PROVE  /\ Stored(u, ApplyWorkspaceEdit(u, files),
                   UnsavedOf(u, UNION {TabsOf(u, f) : f \in files}), {})
         /\ Stored(u, SyncActiveTab(ForEach(ReplaceIn, u, files)),
                   UnsavedOf(u, UNION {TabsOf(u, f) : f \in files}), {})
<1> DEFINE texts == UnsavedOf(u, UNION {TabsOf(u, f) : f \in files})
           v == ForEach(EditFile, u, files)
           w == ForEach(ReplaceIn, u, files)
<1>1. v \in Edited(u, files) /\ w \in Edited(u, files)
  BY EditedAll, ReplacedAll
<1> HIDE DEF v, w
<1>2. Stored(u, v, texts, {}) /\ Stored(u, w, texts, {})
  BY <1>1, EditedStored
<1> HIDE DEF texts
<1>3. Stored(u, SyncActiveTab(v), texts, {}) /\ Stored(u, SyncActiveTab(w), texts, {})
  BY <1>2, SyncAfter
<1>4. QED
  BY <1>3 DEF ApplyWorkspaceEdit, texts, v, w


-------------------------------------------------------------------------------
\* What every step has to show, and how steps of the two kinds make one.

Safe(u, v, texts, files) == Sound(v) /\ Spares(u, v, texts, files)

LEMMA SafeBy ==
  ASSUME NEW u, Sound(u), NEW v, NEW texts, NEW files
  PROVE  /\ Screened(u, v) => Safe(u, v, texts, files)
         /\ Stored(u, v, texts, files) => Safe(u, v, texts, files)
         /\ Opened(u, v) => Safe(u, v, texts, files)
         /\ Safe(u, u, texts, files)
<1>1. Screened(u, v) => Safe(u, v, texts, files)
  BY ScreenedSound DEF Safe
<1>2. Stored(u, v, texts, files) => Safe(u, v, texts, files)
  BY AsksKept DEF Stored, Safe, Sound
<1>3. Opened(u, v) => Stored(u, v, texts, files)
  BY StoredOf DEF Sound
<1>4. Spares(u, u, texts, files)
  BY DEF Spares
<1>5. QED
  BY <1>1, <1>2, <1>3, <1>4 DEF Safe

LEMMA SafeAfter ==
  ASSUME NEW u, Sound(u), NEW v, Screened(u, v), NEW w, NEW texts, NEW files,
         Safe(v, w, texts, files)
  PROVE  Safe(u, w, texts, files)
BY SparesTrans DEF Safe, Screened

LEMMA SafeBefore ==
  ASSUME NEW u, NEW v, NEW w, NEW texts, NEW files,
         Safe(u, v, texts, files), Screened(v, w)
  PROVE  Safe(u, w, texts, files)
BY SparesTrans, ScreenedSound DEF Safe, Screened

LEMMA SafeSync ==
  ASSUME NEW u, NEW v, NEW texts, NEW files, Safe(u, v, texts, files)
  PROVE  Safe(u, SyncActiveTab(v), texts, files)
<1>1. SameDocs(v, SyncActiveTab(v)) /\ SameAsks(v, SyncActiveTab(v))
  BY SyncActiveTabOK DEF Safe, Sound, Filed
<1>2. Screened(v, SyncActiveTab(v))
  BY <1>1, AsksKept DEF Screened, Safe, Sound
<1>3. QED
  BY <1>2, SafeBefore

LEMMA SafeThen ==
  ASSUME NEW u, NEW v, NEW w, NEW texts, NEW more, NEW files, v.disk = w.disk,
         Safe(u, v, texts, files), Safe(v, w, more, {})
  PROVE  Safe(u, w, texts \cup more, files)
BY DEF Safe, Spares, DiskTexts, OnDisk

LEMMA SafeMore ==
  ASSUME NEW u, NEW v, NEW texts, NEW files, Safe(u, v, texts, files),
         NEW more, texts \subseteq more, NEW others, files \subseteq others
  PROVE  Safe(u, v, more, others)
BY DEF Safe, Spares

LEMMA SoundParts ==
  ASSUME NEW u, Sound(u)
  PROVE  /\ DOMAIN u = Fields /\ Questioned(u) /\ Filed(u) /\ Fronted(u)
         /\ u.active \in DOMAIN u.tabs /\ ActiveFile(u) \in Files \cup {NoFile}
         /\ ~Active(u).dirty => UnsavedOf(u, {u.active}) = {}
         /\ Len(u.tabs) \in Nat
         /\ ~(Len(u.tabs) > 1) => Held(u) = UnsavedOf(u, {u.active})
<1>1. Filed(u) /\ Fronted(u) /\ DOMAIN u = Fields /\ Questioned(u)
  BY DEF Sound, Filed
<1>2. u.active \in DOMAIN u.tabs /\ ActiveFile(u) \in Files \cup {NoFile}
  BY <1>1, ActiveTab
<1>3. ~(Len(u.tabs) > 1) => DOMAIN u.tabs = {u.active}
  <2>1. Len(u.tabs) \in Nat /\ DOMAIN u.tabs = 1 .. Len(u.tabs)
    BY <1>1 DEF Filed
  <2>2. QED
    BY <1>2, <2>1
<1>4. QED
  BY <1>1, <1>2, <1>3 DEF UnsavedOf, Active, Held, Filed

\* The documents' operations on tabs, as steps.
LEMMA EditSafe ==
  ASSUME NEW u, Sound(u), NEW i \in DOMAIN u.tabs
  PROVE  /\ Safe(u, Edit(u, i), UnsavedOf(u, {i}), {})
         /\ Safe(u, Edit(u, i), {u.tabs[i].text}, {})
         /\ Edit(u, i).disk = u.disk
<1> DEFINE v == Edit(u, i)
           texts == UnsavedOf(u, {i})
<1>1. /\ AtTab(u, v, i) /\ v.disk = u.disk /\ Spares(u, v, texts, {})
      /\ texts \subseteq {u.tabs[i].text}
  BY EditOK DEF Sound
<1> HIDE DEF v, texts
<1>2. Sound(v)
  BY <1>1, AtTabHeld, AsksKept DEF Sound, AtTab
<1>3. Safe(u, v, texts, {})
  BY <1>1, <1>2 DEF Safe
<1>4. Safe(u, v, {u.tabs[i].text}, {})
  BY <1>1, <1>3, SafeMore
<1>5. QED
  BY <1>1, <1>3, <1>4 DEF v, texts

LEMMA ReloadSafe ==
  ASSUME NEW u, Sound(u)
  PROVE  /\ Safe(u, ReloadActive(u), UnsavedOf(u, {u.active}), {})
         /\ ReloadActive(u).disk = u.disk
<1> DEFINE v == ReloadActive(u)
<1>1. AtTab(u, v, u.active) /\ v.disk = u.disk /\ Spares(u, v, UnsavedOf(u, {u.active}), {})
  BY ReloadActiveOK DEF Sound
<1> HIDE DEF v
<1>2. u.active \in DOMAIN u.tabs
  BY SoundParts
<1>3. Sound(v)
  BY <1>1, <1>2, AtTabHeld, AsksKept DEF Sound, AtTab
<1>4. QED
  BY <1>1, <1>3 DEF Safe, v

LEMMA WriteSafe ==
  ASSUME NEW u, Sound(u), ActiveFile(u) # NoFile
  PROVE  Safe(u, Write(u), {}, {}) /\ ~Active(Write(u)).dirty
<1> DEFINE v == Write(u)
<1>1. ActiveFile(u) \in Files
  BY SoundParts
<1>2. AtTab(u, v, u.active) /\ Fronted(v) /\ ~Active(v).dirty /\ Spares(u, v, {}, {})
  BY <1>1, WriteOK DEF Sound
<1> HIDE DEF v
<1>3. Sound(v)
  BY <1>2, AsksKept DEF Sound, AtTab
<1>4. QED
  BY <1>2, <1>3 DEF Safe, v

LEMMA SaveAsSafe ==
  ASSUME NEW u, Sound(u), NEW f \in Files
  PROVE  Safe(u, SaveAs(u, f), {}, {}) /\ ~Active(SaveAs(u, f)).dirty
<1> DEFINE v == SaveAs(u, f)
<1>1. AtTab(u, v, u.active) /\ Fronted(v) /\ ~Active(v).dirty /\ Spares(u, v, {}, {})
  BY SaveAsOK DEF Sound
<1> HIDE DEF v
<1>2. Sound(v)
  BY <1>1, AsksKept DEF Sound, AtTab
<1>3. QED
  BY <1>1, <1>2 DEF Safe, v

LEMMA ShowFileSafe ==
  ASSUME NEW u, Sound(u), NEW f \in Files
  PROVE  /\ Safe(u, ShowFile(u, f), {}, {}) /\ Safe(u, FocusOn(ShowFile(u, f), "Editor"), {}, {})
         /\ Safe(u, GotoLocation(u, f), {}, {})
<1> DEFINE v == ShowFile(u, f)
<1>1. Opened(u, v)
  BY ShowFileOK DEF Sound
<1> HIDE DEF v
<1>2. Safe(u, v, {}, {})
  BY <1>1, SafeBy
<1>3. DOMAIN v = Fields /\ Questioned(v) /\ "Editor" \notin Overlays
  BY <1>2 DEF Safe, Sound, Filed, Overlays
<1>4. Screened(v, FocusOn(v, "Editor"))
  BY <1>3, FocusOnOK
<1>5. Safe(u, FocusOn(v, "Editor"), {}, {})
  BY <1>2, <1>4, SafeBefore
<1>6. QED
  BY <1>2, <1>5 DEF GotoLocation, v


-------------------------------------------------------------------------------
\* Closing tabs, saving and quitting: what a forced close gives up is the tab in front.

LEMMA CloseActiveTabOK ==
  ASSUME NEW u, Sound(u), NEW force \in BOOLEAN
  PROVE  /\ Safe(u, CloseActiveTab(u, force), IF force THEN UnsavedOf(u, {u.active}) ELSE {}, {})
         /\ CloseActiveTab(u, force).disk = u.disk
<1> DEFINE texts == UnsavedOf(u, {u.active})
<1>1. CASE ~force /\ Active(u).dirty
  <2> DEFINE v == OpenSaveConfirm(u, "CloseTab")
  <2>1. Screened(u, v)
    BY SoundParts, OpenSaveConfirmOK
  <2> HIDE DEF v
  <2>2. Safe(u, v, {}, {}) /\ v.disk = u.disk
    BY <2>1, SafeBy DEF Screened, SameDocs
  <2>3. QED
    BY <1>1, <2>2 DEF CloseActiveTab, v
<1>2. CASE ~(~force /\ Active(u).dirty)
  <2> DEFINE v == CloseActive(u)
  <2>1. Filed(v) /\ Fronted(v) /\ Beside(u, v) /\ Spares(u, v, texts, {})
    BY CloseActiveOK DEF Sound
  <2> HIDE DEF v
  <2>2. Safe(u, v, texts, {}) /\ v.disk = u.disk
    BY <2>1, AsksKept DEF Safe, Sound, Beside
  <2>3. ~force => texts = {}
    BY <1>2, SoundParts
  <2>4. QED
    BY <1>2, <2>2, <2>3 DEF CloseActiveTab, v
<1>3. QED
  BY <1>1, <1>2

LEMMA ExQuitOK ==
  ASSUME NEW u, Sound(u), NEW bang \in BOOLEAN
  PROVE  /\ Safe(u, ExQuit(u, bang), IF bang THEN UnsavedOf(u, {u.active}) ELSE {}, {})
         /\ ExQuit(u, bang).disk = u.disk
<1>1. CASE Len(u.tabs) > 1
  BY <1>1, CloseActiveTabOK DEF ExQuit
<1>2. CASE ~(Len(u.tabs) > 1) /\ ~bang /\ Active(u).dirty
  <2> DEFINE v == OpenSaveConfirm(u, "Quit")
  <2>1. Screened(u, v)
    BY SoundParts, OpenSaveConfirmOK
  <2> HIDE DEF v
  <2>2. Safe(u, v, {}, {}) /\ v.disk = u.disk
    BY <2>1, SafeBy DEF Screened, SameDocs
  <2>3. QED
    BY <1>2, <2>2 DEF ExQuit, v
<1>3. CASE ~(Len(u.tabs) > 1) /\ ~(~bang /\ Active(u).dirty)
  <2> DEFINE v == RequestQuit(u)
  <2>1. Stored(u, v, Held(u), {}) /\ v.disk = u.disk
    BY RequestQuitOK DEF Sound, RequestQuit, Filed, Fields
  <2> HIDE DEF v
  <2>2. Safe(u, v, Held(u), {})
    BY <2>1, SafeBy
  <2>3. Held(u) = UnsavedOf(u, {u.active}) /\ (~bang => UnsavedOf(u, {u.active}) = {})
    BY <1>3, SoundParts
  <2>4. QED
    BY <1>3, <2>1, <2>2, <2>3 DEF ExQuit, v
<1>4. QED
  BY <1>1, <1>2, <1>3

LEMMA FinishCloseOrQuitOK ==
  ASSUME NEW u, Sound(u), NEW intent
  PROVE  /\ Safe(u, FinishCloseOrQuit(u, intent), UnsavedOf(u, {u.active}), {})
         /\ FinishCloseOrQuit(u, intent).disk = u.disk
<1> DEFINE v == Settled(u, "Editor")
           texts == UnsavedOf(u, {u.active})
<1>1. Screened(u, v)
  BY SoundParts, SettledOK DEF Overlays
<1> HIDE DEF v
<1>2. Sound(v) /\ v.disk = u.disk /\ v.active = u.active /\ UnsavedOf(v, {v.active}) = texts
  BY <1>1, ScreenedSound, DocsKept DEF Screened, SameDocs, SameTabs
<1>3. CASE intent = "Quit" /\ Len(v.tabs) = 1
  <2> DEFINE w == RequestQuit(v)
  <2>1. Stored(v, w, Held(v), {}) /\ w.disk = v.disk
    BY <1>2, RequestQuitOK DEF Sound, RequestQuit, Filed, Fields
  <2> HIDE DEF w
  <2>2. Held(v) = texts
    <3>1. ~(Len(v.tabs) > 1)
      BY <1>3
    <3>2. Held(v) = UnsavedOf(v, {v.active})
      BY <1>2, <3>1, SoundParts
    <3>3. QED
      BY <1>2, <3>2
  <2>3. Safe(v, w, texts, {})
    BY <1>2, <2>1, <2>2, SafeBy
  <2>4. Safe(u, w, texts, {}) /\ w.disk = u.disk
    BY <1>1, <1>2, <2>1, <2>3, SafeAfter
  <2>5. QED
    BY <1>3, <2>4 DEF FinishCloseOrQuit, w, v
<1>4. CASE ~(intent = "Quit" /\ Len(v.tabs) = 1)
  <2> DEFINE w == CloseActiveTab(v, TRUE)
  <2>1. Safe(v, w, texts, {}) /\ w.disk = v.disk
    BY <1>2, CloseActiveTabOK
  <2> HIDE DEF w
  <2>2. Safe(u, w, texts, {}) /\ w.disk = u.disk
    BY <1>1, <1>2, <2>1, SafeAfter
  <2>3. QED
    BY <1>4, <2>2 DEF FinishCloseOrQuit, w, v
<1>5. QED
  BY <1>3, <1>4

LEMMA SaveOK ==
  ASSUME NEW u, Sound(u), NEW ok
  PROVE  Safe(u, Save(u, ok), {}, {})
BY WriteSafe, SafeBy DEF Save, CanSave

LEMMA ExWriteOK ==
  ASSUME NEW u, Sound(u), NEW f \in Files \cup {NoFile}, NEW ok
  PROVE  Safe(u, ExWrite(u, f, ok), {}, {})
BY SaveOK, SaveAsSafe, SafeBy DEF ExWrite

\* What is written first is not lost by the close.
LEMMA WrittenThenClosed ==
  ASSUME NEW u, Sound(u), NEW v, Safe(u, v, {}, {}), ~Active(v).dirty,
         NEW w, Safe(v, w, UnsavedOf(v, {v.active}), {}), w.disk = v.disk
  PROVE  Safe(u, w, {}, {})
<1>1. UnsavedOf(v, {v.active}) = {}
  BY SoundParts DEF Safe
<1>2. Safe(u, w, {} \cup {}, {})
  BY <1>1, SafeThen
<1>3. QED
  BY <1>2

LEMMA ResolveSaveConfirmOK ==
  ASSUME NEW u, Sound(u), NEW choice, NEW ok
  PROVE  Safe(u, ResolveSaveConfirm(u, choice, ok),
              IF choice = "No" THEN UnsavedOf(u, {u.active}) ELSE {}, {})
<1>1. CASE choice = "Cancel"
  <2>1. Screened(u, Settled(u, "Editor"))
    BY SoundParts, SettledOK DEF Overlays
  <2>2. QED
    BY <1>1, <2>1, SafeBy DEF ResolveSaveConfirm
<1>2. CASE choice = "No"
  BY <1>2, FinishCloseOrQuitOK DEF ResolveSaveConfirm
<1>3. CASE choice \notin {"Cancel", "No"} /\ CanSave(u) /\ ok
  <2> DEFINE v == Write(u)
             w == FinishCloseOrQuit(v, u.intent)
  <2>1. Safe(u, v, {}, {}) /\ ~Active(v).dirty
    BY <1>3, WriteSafe DEF CanSave
  <2> HIDE DEF v
  <2>2. Safe(v, w, UnsavedOf(v, {v.active}), {}) /\ w.disk = v.disk
    BY <2>1, FinishCloseOrQuitOK DEF Safe
  <2> HIDE DEF w
  <2>3. Safe(u, w, {}, {})
    BY <2>1, <2>2, WrittenThenClosed
  <2>4. QED
    BY <1>3, <2>3 DEF ResolveSaveConfirm, v, w
<1>4. CASE choice \notin {"Cancel", "No"} /\ ~(CanSave(u) /\ ok)
  BY <1>4, SafeBy DEF ResolveSaveConfirm
<1>5. QED
  BY <1>1, <1>2, <1>3, <1>4

LEMMA ExWriteQuitOK ==
  ASSUME NEW u, Sound(u), NEW bang \in BOOLEAN, NEW f \in Files \cup {NoFile}, NEW ok
  PROVE  Safe(u, ExWriteQuit(u, bang, f, ok), IF bang THEN UnsavedOf(u, {u.active}) ELSE {}, {})
<1> DEFINE end(v) == IF Len(v.tabs) > 1 THEN CloseActiveTab(v, TRUE) ELSE RequestQuit(v)
           texts == IF bang THEN UnsavedOf(u, {u.active}) ELSE {}
<1>1. ASSUME NEW v, Sound(v)
      PROVE  Safe(v, end(v), UnsavedOf(v, {v.active}), {}) /\ end(v).disk = v.disk
  <2>1. end(v) = ExQuit(v, TRUE)
    BY DEF ExQuit
  <2>2. QED
    BY <1>1, <2>1, ExQuitOK
<1>2. ExWriteQuit(u, bang, f, ok) =
        IF f # NoFile THEN (IF ok THEN end(SaveAs(u, f)) ELSE u)
        ELSE IF ActiveFile(u) = NoFile THEN (IF bang THEN end(u) ELSE u)
        ELSE IF CanSave(u) /\ ok THEN end(Write(u)) ELSE u
  BY DEF ExWriteQuit
<1> HIDE DEF end
<1>3. ASSUME NEW v, Safe(u, v, {}, {}), ~Active(v).dirty
      PROVE  Safe(u, end(v), texts, {})
  <2>1. Safe(v, end(v), UnsavedOf(v, {v.active}), {}) /\ end(v).disk = v.disk
    BY <1>1, <1>3 DEF Safe
  <2>2. Safe(u, end(v), {}, {})
    BY <1>3, <2>1, WrittenThenClosed
  <2>3. QED
    BY <2>2, SafeMore
<1>4. Safe(u, u, texts, {})
  BY SafeBy
<1>5. bang => Safe(u, end(u), texts, {})
  BY <1>1
<1>6. f # NoFile => Safe(u, end(SaveAs(u, f)), texts, {})
  BY <1>3, SaveAsSafe
<1>7. ActiveFile(u) # NoFile => Safe(u, end(Write(u)), texts, {})
  BY <1>3, WriteSafe
<1> HIDE DEF texts
<1>8. Safe(u, ExWriteQuit(u, bang, f, ok), texts, {})
  BY <1>2, <1>4, <1>5, <1>6, <1>7
<1>9. QED
  BY <1>8 DEF texts

LEMMA ExEditOK ==
  ASSUME NEW u, Sound(u), NEW bang \in BOOLEAN, NEW f \in Files \cup {NoFile}
  PROVE  Safe(u, ExEdit(u, bang, f), IF bang THEN UnsavedOf(u, {u.active}) ELSE {}, {})
<1>1. CASE f # NoFile
  <2>1. Safe(u, FocusOn(ShowFile(u, f), "Editor"), {}, {})
    BY <1>1, ShowFileSafe
  <2>2. QED
    BY <1>1, <2>1, SafeMore DEF ExEdit
<1>2. CASE f = NoFile /\ Active(u).dirty /\ ~bang
  BY <1>2, SafeBy DEF ExEdit
<1>3. CASE f = NoFile /\ ~(Active(u).dirty /\ ~bang)
  <2>1. Safe(u, ReloadActive(u), UnsavedOf(u, {u.active}), {})
    BY ReloadSafe
  <2>2. ~bang => UnsavedOf(u, {u.active}) = {}
    BY <1>3, SoundParts
  <2>3. QED
    BY <1>3, <2>1, <2>2 DEF ExEdit
<1>4. QED
  BY <1>1, <1>2, <1>3


-------------------------------------------------------------------------------
\* Deleting, discarding, recovering.

LEMMA ResolveDeleteConfirmOK ==
  ASSUME NEW u, Sound(u), NEW choice, NEW ok
  PROVE  Safe(u, ResolveDeleteConfirm(u, choice, ok),
              IF choice = "Yes" THEN UnsavedOf(u, TabsOf(u, u.path)) ELSE {},
              IF choice = "Yes" THEN {u.path} ELSE {})
<1> DEFINE v == [Settled(u, "Sidebar") EXCEPT !.path = NoFile]
           texts == UnsavedOf(u, TabsOf(u, u.path))
<1>1. Screened(u, v)
  BY SoundParts DEF Screened, SameDocs, SameTabs, Questioned, Attended, Fields, Overlays,
                    Intents, Settled, FocusOn, Close
<1> HIDE DEF v
<1>2. Sound(v) /\ OnDisk(v) = OnDisk(u) /\ UnsavedOf(v, TabsOf(v, u.path)) = texts
  BY <1>1, ScreenedSound, DocsKept DEF Screened
<1>3. CASE choice # "Yes" \/ ~ok \/ u.path \notin OnDisk(u)
  <2>1. ResolveDeleteConfirm(u, choice, ok) = v
    BY <1>3 DEF ResolveDeleteConfirm, v
  <2>2. QED
    BY <1>1, <2>1, SafeBy
<1>4. CASE ~(choice # "Yes" \/ ~ok \/ u.path \notin OnDisk(u))
  <2> DEFINE f == u.path
             d == DeleteFile(v, f)
             w == CloseBuffersUnder(d, f)
  <2>1. f \in Files
    BY <1>4 DEF OnDisk
  <2>2. /\ Filed(d) /\ Fronted(d) /\ SameAsks(v, d) /\ Spares(v, d, {}, {f}) /\ SameTabs(v, d)
    BY <1>2, <2>1, DeleteFileOK DEF Sound
  <2> HIDE DEF d
  <2>3. UnsavedOf(d, TabsOf(d, f)) = texts
    BY <1>2, <2>2 DEF SameTabs, UnsavedOf, TabsOf
  <2>4. Safe(v, d, {}, {f})
    BY <1>2, <2>2, AsksKept DEF Safe, Sound
  <2>5. Filed(w) /\ Fronted(w) /\ Beside(d, w) /\ Spares(d, w, texts, {})
    BY <2>2, <2>3, CloseBuffersUnderOK
  <2> HIDE DEF w, texts
  <2>6. Safe(d, w, texts, {}) /\ d.disk = w.disk
    BY <2>4, <2>5, AsksKept DEF Safe, Sound, Beside
  <2>7. Safe(v, w, {} \cup texts, {f})
    BY <2>4, <2>6, SafeThen
  <2>8. Safe(u, w, texts, {f})
    BY <1>1, <2>7, SafeAfter
  <2>9. QED
    BY <1>4, <2>8 DEF ResolveDeleteConfirm, v, d, w, texts
<1>5. QED
  BY <1>3, <1>4

LEMMA ResolveDiscardConfirmOK ==
  ASSUME NEW u, Sound(u), NEW choice, NEW ok
  PROVE  Safe(u, ResolveDiscardConfirm(u, choice, ok), {}, {})
<1> DEFINE v == Settled(u, "Editor")
           f == ActiveFile(u)
           w == [v EXCEPT !.disk[f] = Committed]
           x == ReloadActive(w)
<1>1. Screened(u, v)
  BY SoundParts, SettledOK DEF Overlays
<1> HIDE DEF v
<1>2. CASE choice # "Yes" \/ f = NoFile \/ Active(u).dirty \/ ~ok
  BY <1>1, <1>2, SafeBy DEF ResolveDiscardConfirm, v
<1>3. CASE ~(choice # "Yes" \/ f = NoFile \/ Active(u).dirty \/ ~ok)
  <2>1. Sound(v) /\ Active(v) = Active(u) /\ f \in Files
    BY <1>1, <1>3, ScreenedSound, DocsKept, SoundParts DEF Screened
  <2>2. SameTabs(v, w) /\ SameAsks(v, w) /\ w.disk = [v.disk EXCEPT ![f] = 0] /\ w.fresh = v.fresh
    BY <2>1 DEF Sound, Filed, Fields, SameTabs, SameAsks, Committed
  <2> HIDE DEF w, f
  <2>3. Safe(v, w, {}, {}) /\ UnsavedOf(w, {w.active}) = {}
    <3>1. 0 \in Nat \cup {Gone} /\ 0 # Gone /\ w.fresh \in Nat
      BY <2>1, <2>2 DEF Gone, Sound, Filed
    <3>2. Filed(w) /\ Fronted(w) /\ Spares(v, w, {}, {})
      BY <2>1, <2>2, <3>1, DiskWith DEF Sound
    <3>3. Safe(v, w, {}, {})
      BY <2>1, <2>2, <3>2, AsksKept DEF Safe, Sound
    <3>4. ~Active(w).dirty
      BY <1>3, <2>1, <2>2 DEF Active, SameTabs
    <3>5. QED
      BY <3>3, <3>4, SoundParts DEF Safe
  <2>4. Safe(w, x, {}, {}) /\ w.disk = x.disk
    BY <2>3, ReloadSafe DEF Safe
  <2> HIDE DEF x
  <2>5. Safe(v, x, {} \cup {}, {})
    BY <2>3, <2>4, SafeThen
  <2>6. Safe(u, x, {}, {})
    BY <1>1, <2>5, SafeAfter
  <2>7. QED
    BY <1>3, <2>6, SafeSync DEF ResolveDiscardConfirm, v, w, x, f
<1>4. QED
  BY <1>2, <1>3

\* Of the tab that a file is opened in, nothing is unsaved that no tab of the file holds.
LEMMA OpenFileUnsaved ==
  ASSUME NEW u, Filed(u), NEW f \in Files
  PROVE  UnsavedOf(OpenFile(u, f), {OpenFile(u, f).active}) \subseteq UnsavedOf(u, TabsOf(u, f))
<1>1. CASE TabsOf(u, f) # {}
  <2> DEFINE i == Min(TabsOf(u, f))
             v == OpenFile(u, f)
  <2>1. i \in TabsOf(u, f)
    BY <1>1, FirstTabOf DEF TabsOf
  <2>2. v.tabs = u.tabs /\ v.active = i
    BY <1>1 DEF OpenFile, Filed, Fields
  <2> HIDE DEF i, v
  <2>3. UnsavedOf(v, {v.active}) \subseteq UnsavedOf(u, TabsOf(u, f))
    BY <2>1, <2>2 DEF UnsavedOf
  <2>4. QED
    BY <2>3 DEF v
<1>2. CASE TabsOf(u, f) = {}
  <2> DEFINE v == OpenFile(u, f)
  <2>1. Loaded(u, f) \in Tab /\ ~Loaded(u, f).dirty
    BY LoadedType
  <2>2. v = [u EXCEPT !.tabs = Append(@, Loaded(u, f)), !.active = Len(u.tabs) + 1]
    BY <1>2 DEF OpenFile
  <2>3. ~Active(v).dirty
    BY <2>1, <2>2, AppendTab
  <2> HIDE DEF v
  <2>4. UnsavedOf(v, {v.active}) = {}
    BY <2>3 DEF UnsavedOf, Active
  <2>5. QED
    BY <2>4 DEF v
<1>3. QED
  BY <1>1, <1>2

\* The recovered text is that of a buffer that can be saved.
LEMMA CuredOK ==
  ASSUME NEW u, Sound(u), NEW v, v = [u EXCEPT !.tabs[u.active].bad = FALSE]
  PROVE  Safe(u, v, {}, {})
<1> DEFINE t == [u.tabs[u.active] EXCEPT !.bad = FALSE]
<1>1. Filed(u) /\ Fronted(u) /\ u.active \in DOMAIN u.tabs
  BY SoundParts
<1>2. u.tabs[u.active] \in Tab
  BY <1>1 DEF Filed
<1>3. t \in Tab /\ t.text = u.tabs[u.active].text /\ t.dirty = u.tabs[u.active].dirty
  BY <1>2 DEF Tab
<1>4. /\ v.tabs = [u.tabs EXCEPT ![u.active] = t] /\ v.active = u.active
      /\ v.disk = u.disk /\ v.fresh = u.fresh /\ SameAsks(u, v)
      /\ v.clip = u.clip /\ v.session = u.session /\ v.running = u.running
  BY <1>1 DEF Filed, Fields, SameAsks
<1> HIDE DEF t
<1>5. v.disk \in Disk /\ v.fresh \in Nat
  BY <1>1, <1>4 DEF Filed
<1>6. AtTab(u, v, u.active) /\ v.tabs[u.active] = t
  BY <1>1, <1>3, <1>4, <1>5, ReplaceTab
<1>7. Sound(v)
  <2>1. Fronted(v)
    BY <1>1, <1>6, AtTabHeld
  <2>2. Questioned(v)
    BY <1>4, AsksKept DEF Sound
  <2>3. QED
    BY <1>6, <2>1, <2>2 DEF Sound, AtTab
<1>8. Held(u) \subseteq Held(v) \cup {}
  <2>1. DOMAIN u.tabs = DOMAIN v.tabs
    BY <1>4
  <2>2. \A j \in DOMAIN u.tabs : u.tabs[j].dirty =>
           v.tabs[j].dirty /\ v.tabs[j].text = u.tabs[j].text
    BY <1>3, <1>6 DEF AtTab
  <2>3. QED
    BY <2>1, <2>2 DEF Held, UnsavedOf
<1>9. Spares(u, v, {}, {})
  <2>1. OnDisk(u) \subseteq OnDisk(v) \cup {}
    BY <1>4 DEF OnDisk
  <2>2. QED
    BY <1>4, <1>8, <2>1, SparesHeld
<1>10. QED
  BY <1>7, <1>9 DEF Safe

LEMMA ResolveRecoveryConfirmOK ==
  ASSUME NEW u, Sound(u), NEW choice, NEW ok, u.recovery # <<>>
  PROVE  Safe(u, ResolveRecoveryConfirm(u, choice, ok),
              IF choice = "Yes" THEN UnsavedOf(u, TabsOf(u, Head(u.recovery))) ELSE {}, {})
<1> DEFINE v == [Settled(u, "Editor") EXCEPT !.recovery = Tail(@)]
           f == Head(u.recovery)
           shown == OpenFile(v, f)
           edited == Edit(shown, shown.active)
           cured == [edited EXCEPT !.tabs[shown.active].bad = FALSE]
           recovered == SyncActiveTab(cured)
           texts == UnsavedOf(u, TabsOf(u, f))
           given == IF choice = "Yes" THEN texts ELSE {}
           end == IF choice = "Yes" /\ ok THEN recovered ELSE v
<1>1. Screened(u, v) /\ f \in Files
  <2>1. u.recovery \in Seq(Files) /\ Tail(u.recovery) \in Seq(Files) /\ f \in Files
    <3>1. u.recovery \in Seq(Files)
      BY SoundParts DEF Questioned
    <3>2. \A q \in Seq(Files) : q # <<>> => Tail(q) \in Seq(Files) /\ Head(q) \in Files
      OBVIOUS
    <3>3. QED
      BY <3>1, <3>2
  <2> DEFINE s == Settled(u, "Editor")
  <2>2. Screened(u, s) /\ DOMAIN s = Fields /\ s.recovery = u.recovery /\ s.focus = "Editor"
    <3>1. DOMAIN u = Fields /\ Questioned(u) /\ "Editor" \notin Overlays
      BY SoundParts DEF Overlays
    <3>2. Screened(u, s)
      BY <3>1, SettledOK
    <3>3. DOMAIN s = Fields /\ s.recovery = u.recovery /\ s.focus = "Editor"
      BY <3>1 DEF Fields, Settled, FocusOn, Close
    <3>4. QED
      BY <3>2, <3>3
  <2>3. v = [s EXCEPT !.recovery = Tail(u.recovery)]
    BY <2>2
  <2> HIDE DEF s, v, f
  <2>4. /\ SameDocs(s, v) /\ v.focus = s.focus /\ v.recovery = Tail(u.recovery)
        /\ v.intent = s.intent
    BY <2>2, <2>3 DEF Fields, SameDocs, SameTabs
  <2>5. Screened(s, v)
    BY <2>1, <2>2, <2>4 DEF Screened, Questioned, Attended, Overlays
  <2>6. QED
    BY <2>1, <2>2, <2>5, ScreenedTrans
<1>2. OpenRecoveryConfirm(end) = ResolveRecoveryConfirm(u, choice, ok)
  BY DEF ResolveRecoveryConfirm
<1> HIDE DEF v, f
<1>3. Sound(v) /\ UnsavedOf(v, TabsOf(v, f)) = texts
  BY <1>1, ScreenedSound, DocsKept DEF Screened
<1>4. Opened(v, shown) /\ UnsavedOf(shown, {shown.active}) \subseteq texts
  BY <1>1, <1>3, OpenFileOK, OpenFileUnsaved DEF Sound
<1> HIDE DEF shown, texts
<1>5. Safe(v, shown, {}, {}) /\ v.disk = shown.disk
  BY <1>3, <1>4, SafeBy DEF Opened, Beside
<1>6. Safe(shown, edited, texts, {}) /\ edited.disk = shown.disk /\ edited.active = shown.active
  <2>1. shown.active \in DOMAIN shown.tabs /\ Sound(shown) /\ Filed(shown)
    BY <1>5, SoundParts DEF Safe
  <2>2. Safe(shown, edited, UnsavedOf(shown, {shown.active}), {}) /\ edited.disk = shown.disk
    BY <2>1, EditSafe
  <2>3. edited.active = shown.active
    BY <2>1, EditOK DEF AtTab
  <2> HIDE DEF edited
  <2>4. QED
    BY <1>4, <2>2, <2>3, SafeMore
<1> HIDE DEF edited
<1>7. Safe(v, edited, {} \cup texts, {})
  BY <1>5, <1>6, SafeThen
<1>8. Safe(edited, cured, {}, {}) /\ edited.disk = cured.disk
  <2>1. Sound(edited) /\ cured = [edited EXCEPT !.tabs[edited.active].bad = FALSE]
    BY <1>6 DEF Safe
  <2>2. DOMAIN edited = Fields
    BY <2>1, SoundParts
  <2>3. cured.disk = edited.disk
    BY <2>2 DEF Fields
  <2> HIDE DEF cured
  <2>4. QED
    BY <2>1, <2>3, CuredOK
<1> HIDE DEF cured
<1>9. Safe(v, cured, ({} \cup texts) \cup {}, {})
  BY <1>7, <1>8, SafeThen
<1>10. Safe(v, cured, texts, {})
  BY <1>9
<1>11. Safe(v, recovered, texts, {})
  BY <1>10, SafeSync
<1> HIDE DEF recovered
<1>12. Safe(v, end, given, {})
  BY <1>3, <1>11, SafeBy
<1> HIDE DEF end, given
<1>13. Screened(end, OpenRecoveryConfirm(end))
  BY <1>12, SoundParts, OpenRecoveryConfirmOK DEF Safe
<1>14. Safe(u, OpenRecoveryConfirm(end), given, {})
  BY <1>1, <1>12, <1>13, SafeAfter, SafeBefore
<1>15. QED
  BY <1>2, <1>14 DEF given, texts, f


-------------------------------------------------------------------------------
\* The input prompt.

LEMMA SelectedOnDisk ==
  ASSUME NEW u, Selected(u) # NoFile
  PROVE  Selected(u) \in OnDisk(u)
<1>1. \E f \in OnDisk(u) : RowOf(u, f) = u.sel
  BY DEF Selected
<1>2. QED
  BY <1>1 DEF Selected

LEMMA PromptGone ==
  ASSUME NEW u, Sound(u), NEW part, part \notin Overlays
  PROVE  Screened(u, FocusOn([Close(u, {"Prompt"}) EXCEPT !.purpose = "None"], part))
<1>1. DOMAIN u = Fields /\ Questioned(u)
  BY SoundParts
<1>2. QED
  BY <1>1 DEF Screened, SameDocs, SameTabs, Questioned, Attended, Fields, Overlays, Intents,
              FocusOn, Close

LEMMA ResolvePromptOK ==
  ASSUME NEW u, Sound(u), NEW f \in Files \cup {NoFile}
  PROVE  Safe(u, ResolvePrompt(u, f), {}, IF u.purpose = "Rename" THEN {Selected(u)} ELSE {})
<1> DEFINE gone == [Close(u, {"Prompt"}) EXCEPT !.purpose = "None"]
           edited == FocusOn(gone, "Editor")
           v == FocusOn(gone, "Sidebar")
           from == Selected(u)
           files == IF u.purpose = "Rename" THEN {from} ELSE {}
<1>1. Screened(u, edited) /\ Screened(u, v)
  BY PromptGone DEF Overlays
<1>2. ResolvePrompt(u, f) \in
        IF u.purpose = "Rename" /\ f \in Files \ OnDisk(u) /\ from # NoFile THEN {RenameFile(v, from, f)}
        ELSE IF u.purpose = "AddFile" /\ f \in Files \ OnDisk(u) THEN {ShowFile(CreateFile(v, f), f)}
        ELSE {v, edited, OpenWorkspace(edited), Ask(edited, "rename"), Ask(edited, "symbols")}
  BY DEF ResolvePrompt
<1> HIDE DEF edited, v
<1>3. Sound(edited) /\ Sound(v) /\ OnDisk(v) = OnDisk(u)
  BY <1>1, ScreenedSound, DocsKept DEF Screened
<1>4. \A x \in {v, edited, OpenWorkspace(edited), Ask(edited, "rename"), Ask(edited, "symbols")} :
        Safe(u, x, {}, files)
  <2>1. DOMAIN edited = Fields /\ Questioned(edited)
    BY <1>3, SoundParts
  <2>2. /\ Screened(edited, OpenWorkspace(edited))
        /\ \A kind : Screened(edited, Ask(edited, kind))
    BY <2>1, OpenWorkspaceOK, AskOK
  <2>3. \A x : Screened(edited, x) => Safe(u, x, {}, files)
    BY <1>1, SafeBy, ScreenedTrans
  <2>4. Safe(u, v, {}, files) /\ Safe(u, edited, {}, files)
    BY <1>1, SafeBy
  <2>5. QED
    BY <2>2, <2>3, <2>4
<1>5. CASE u.purpose = "Rename" /\ f \in Files \ OnDisk(u) /\ from # NoFile
  <2> DEFINE w == RenameFile(v, from, f)
  <2>1. from \in OnDisk(v)
    BY <1>3, <1>5, SelectedOnDisk
  <2> HIDE DEF from
  <2>2. Stored(v, w, {}, {from})
    BY <1>3, <1>5, <2>1, RenameFileOK DEF Sound
  <2>3. ResolvePrompt(u, f) = w
    BY <1>2, <1>5
  <2> HIDE DEF w
  <2>4. Safe(u, w, {}, {from})
    BY <1>1, <1>3, <2>2, SafeBy, SafeAfter
  <2>5. QED
    BY <1>5, <2>3, <2>4 DEF from
<1>6. CASE u.purpose = "AddFile" /\ f \in Files \ OnDisk(u)
  <2> DEFINE c == CreateFile(v, f)
             w == ShowFile(c, f)
  <2>1. Stored(v, c, {}, {})
    BY <1>3, <1>6, CreateFileOK DEF Sound, Stored
  <2> HIDE DEF c
  <2>2. Safe(v, c, {}, {}) /\ Sound(c)
    BY <1>3, <2>1, SafeBy DEF Safe
  <2>3. Opened(c, w)
    BY <1>6, <2>2, ShowFileOK DEF Sound
  <2>4. ResolvePrompt(u, f) = w
    BY <1>2, <1>6 DEF c
  <2> HIDE DEF w
  <2>5. Safe(c, w, {}, {}) /\ c.disk = w.disk
    BY <2>2, <2>3, SafeBy DEF Opened, Beside
  <2>6. Safe(v, w, {} \cup {}, {})
    BY <2>2, <2>5, SafeThen
  <2>7. Safe(u, w, {}, {})
    BY <1>1, <2>6, SafeAfter
  <2>8. QED
    BY <1>6, <2>4, <2>7
<1>7. CASE /\ ~(u.purpose = "Rename" /\ f \in Files \ OnDisk(u) /\ from # NoFile)
           /\ ~(u.purpose = "AddFile" /\ f \in Files \ OnDisk(u))
  BY <1>2, <1>4, <1>7
<1>8. QED
  BY <1>5, <1>6, <1>7

-------------------------------------------------------------------------------
\* Commands.  Restoring the session is the one that gives up text unasked.

LEMMA TabCommand ==
  ASSUME NEW u, Sound(u), NEW v, Opened(u, v)
  PROVE  Safe(u, SyncActiveTab(v), {}, {})
BY SafeBy, SafeSync

LEMMA WorkbenchCommandOK ==
  ASSUME NEW u, Sound(u), NEW c
  PROVE  Safe(u, WorkbenchCommand(u, c), {}, {})
<1>1. DOMAIN u = Fields /\ Questioned(u) /\ Filed(u) /\ Fronted(u)
  BY SoundParts
<1> DEFINE screens == {ReturnToNormal(u), ToggleSidebarFocus(u), ExplorerView(u),
             SetSidebarVisible(u, ~u.side), SetSidebarVisible(u, FALSE), SearchView(u),
             OpenCommandLine(u), OpenFileSearch(u), OpenBufferSearch(u),
             OpenWorkspacePrompt(u), RevealInExplorer(u), ToggleTerminal(u), OpenTerminal(u),
             ClearTerminal(u)}
           others == {SyncActiveTab(NextTab(u)), SyncActiveTab(PrevTab(u)),
                      CloseActiveTab(u, FALSE), ExQuit(u, FALSE), u}
<1>2. WorkbenchCommand(u, c) \in screens \cup others
  BY DEF WorkbenchCommand
<1>3. \A x \in screens : Screened(u, x)
  BY <1>1, ReturnToNormalOK, ToggleSidebarFocusOK, ExplorerViewOK, SetSidebarVisibleOK,
     SearchViewOK, OpenCommandLineOK, OpenFileSearchOK, OpenBufferSearchOK,
     OpenWorkspacePromptOK, RevealInExplorerOK, ToggleTerminalOK, OpenTerminalOK,
     ClearTerminalOK
<1>4. Safe(u, SyncActiveTab(NextTab(u)), {}, {}) /\ Safe(u, SyncActiveTab(PrevTab(u)), {}, {})
  BY <1>1, NextTabOK, TabCommand
<1>5. Safe(u, CloseActiveTab(u, FALSE), {}, {}) /\ Safe(u, ExQuit(u, FALSE), {}, {})
  BY CloseActiveTabOK, ExQuitOK
<1>6. Safe(u, u, {}, {})
  BY SafeBy
<1>7. \A x \in others : Safe(u, x, {}, {})
  BY <1>4, <1>5, <1>6
<1> HIDE DEF screens, others
<1>8. \A x \in screens : Safe(u, x, {}, {})
  BY <1>3, SafeBy
<1>9. QED
  BY <1>2, <1>7, <1>8

LEMMA NavCommandOK ==
  ASSUME NEW u, Sound(u), NEW c \in NavCommands
  PROVE  /\ c # "restoreSession" => Safe(u, NavCommand(u, c), {}, {})
         /\ c = "restoreSession" => Safe(u, NavCommand(u, c), Unsaved(u), {})
<1>1. DOMAIN u = Fields /\ Questioned(u) /\ Filed(u) /\ Fronted(u)
  BY SoundParts
<1> DEFINE screens == {OpenDiscardConfirm(u), OpenLspPicker(u, "InstallServers"), RestartLsp(u),
             TriggerCompletion(u), Ask(u, c), OpenLspPrompt(u, "RenameSymbol"),
             OpenLspPrompt(u, "SymbolQuery")}
<1>2. /\ c \notin {"restoreSession", "saveSession"} => NavCommand(u, c) \in screens
      /\ c = "saveSession" => NavCommand(u, c) = SaveSession(u)
      /\ c = "restoreSession" => NavCommand(u, c) = RestoreSession(u)
  BY DEF NavCommand, NavCommands
<1>3. \A x \in screens : Screened(u, x)
  BY <1>1, OpenDiscardConfirmOK, OpenLspPickerOK, RestartLspOK, TriggerCompletionOK, AskOK,
     OpenLspPromptOK
<1>4. Safe(u, SaveSession(u), {}, {}) /\ Safe(u, RestoreSession(u), Unsaved(u), {})
  BY <1>1, SaveSessionOK, RestoreSessionOK, SafeBy
<1> HIDE DEF screens
<1>5. \A x \in screens : Safe(u, x, {}, {})
  BY <1>3, SafeBy
<1>6. QED
  BY <1>2, <1>4, <1>5

LEMMA CommandOK ==
  ASSUME NEW u, Sound(u), NEW c
  PROVE  /\ c # "restoreSession" => Safe(u, Command(u, c), {}, {})
         /\ c = "restoreSession" => Safe(u, Command(u, c), Unsaved(u), {})
<1>1. ASSUME c \in KeymapCommands PROVE Safe(u, KeymapCommand(u, c), {}, {})
  <2>1. KeymapCommand(u, c) \in {OpenCommandLine(u), Ask(u, c), OpenLspPicker(u, "Locations"), u}
    BY <1>1 DEF KeymapCommand, KeymapCommands
  <2>2. DOMAIN u = Fields /\ Questioned(u)
    BY SoundParts
  <2>3. \A x \in {OpenCommandLine(u), Ask(u, c), OpenLspPicker(u, "Locations")} : Screened(u, x)
    BY <2>2, OpenCommandLineOK, AskOK, OpenLspPickerOK
  <2>4. \A x \in {OpenCommandLine(u), Ask(u, c), OpenLspPicker(u, "Locations"), u} :
          Safe(u, x, {}, {})
    BY <2>3, SafeBy
  <2>5. QED
    BY <2>1, <2>4
<1>2. c = "restoreSession" => c \in NavCommands
  BY DEF NavCommands
<1>3. QED
  BY <1>1, <1>2, NavCommandOK, WorkbenchCommandOK DEF Command


-------------------------------------------------------------------------------
\* The actions, one by one.

Kept == Safe(ui, ui', waived'.texts, waived'.files)

LEMMA StepKept ==
  ASSUME NEW u, NEW texts, NEW files, Step(u, texts, files), Safe(ui, u, texts, files)
  PROVE  Kept
BY DEF Step, Kept

\* A step that first changes the screen.
LEMMA StepAfter ==
  ASSUME Sound(ui), NEW u, Screened(ui, u), NEW v, NEW texts, NEW files,
         Step(v, texts, files), Safe(u, v, texts, files)
  PROVE  Kept
BY SafeAfter, StepKept

LEMMA QuietlyAfter ==
  ASSUME Sound(ui), NEW u, Screened(ui, u), NEW v, Quietly(v), Safe(u, v, {}, {})
  PROVE  Kept
BY StepAfter DEF Quietly

LEMMA ScreenKept ==
  ASSUME Sound(ui), NEW u, Screened(ui, u), Quietly(u)
  PROVE  Kept
BY SafeBy, StepKept DEF Quietly

\* A change of the screen that follows another.
LEMMA ScreensKept ==
  ASSUME Sound(ui), NEW u, Screened(ui, u), NEW v, Screened(u, v), Quietly(v)
  PROVE  Kept
BY ScreenedTrans, ScreenKept

LEMMA InitOK ==
  Init => Sound(ui)
<1>1. SUFFICES ASSUME NEW disk \in StartDisks, NEW f \in Files \cup {NoFile},
                      NEW recovery \in Recoverable,
                      ui = OpenRecoveryConfirm(Start(disk, f, recovery))
               PROVE  Sound(ui)
  BY DEF Init
<1> DEFINE u == Start(disk, f, recovery)
           tab == [file |-> f, text |-> 0, dirty |-> FALSE, bad |-> f # NoFile /\ disk[f] = Gone]
<1>2. tab \in Tab
  BY DEF Tab
<1>3. DOMAIN u = Fields
  BY DEF Start, Fields
<1>4. /\ u.tabs = <<tab>> /\ u.active = 1 /\ u.disk = disk /\ u.fresh = 0 /\ u.clip = NoClip
      /\ u.session.files = <<>> /\ u.session.active = 1 /\ u.focus = "Editor"
      /\ u.intent = "None" /\ u.recovery = recovery
  BY DEF Start
<1> HIDE DEF u, tab
<1>5. <<tab>> \in Seq(Tab) /\ <<tab>> # <<>> /\ 1 \in DOMAIN <<tab>>
  BY <1>2
<1>6. Filed(u) /\ Fronted(u)
  <2>1. disk \in Disk /\ NoClip.file \notin Files
    BY StartAssumption DEF Disk, NoClip, NoFile, Files
  <2>2. <<>> \in Seq(Files) /\ 1 \in Nat \ {0} /\ 0 \in Nat
    OBVIOUS
  <2>3. QED
    BY <1>3, <1>4, <1>5, <2>1, <2>2 DEF Filed, Fronted
<1>7. Questioned(u)
  BY <1>4, StartAssumption DEF Questioned, Attended, Overlays, Intents
<1>8. Screened(u, OpenRecoveryConfirm(u))
  BY <1>3, <1>7, OpenRecoveryConfirmOK
<1>9. QED
  BY <1>1, <1>6, <1>7, <1>8, ScreenedSound DEF Sound, u

LEMMA PressKept ==
  ASSUME Sound(ui), NEW key, Press(key)
  PROVE  Kept
<1>1. PICK r \in {Dispatch(key)} :
        LET u == [ui EXCEPT !.pending = r.pending]
        IN  CASE r.status # "Matched" -> Quietly(u)
              [] r.command = "save" -> \E ok \in BOOLEAN : Quietly(Save(u, ok))
              [] r.command = "restoreSession" -> Step(Command(u, r.command), Unsaved(ui), {})
              [] OTHER -> Quietly(Command(u, r.command))
  BY DEF Press
<1> DEFINE u == [ui EXCEPT !.pending = r.pending]
<1>2. \/ Quietly(u) \/ \E ok \in BOOLEAN : Quietly(Save(u, ok))
      \/ r.command = "restoreSession" /\ Step(Command(u, r.command), Unsaved(ui), {})
      \/ r.command # "restoreSession" /\ Quietly(Command(u, r.command))
  <2> HIDE DEF u
  <2>1. (CASE r.status # "Matched" -> Quietly(u)
           [] r.command = "save" -> \E ok \in BOOLEAN : Quietly(Save(u, ok))
           [] r.command = "restoreSession" -> Step(Command(u, r.command), Unsaved(ui), {})
           [] OTHER -> Quietly(Command(u, r.command)))
    BY <1>1 DEF u
  <2>2. QED
    BY <2>1
<1>3. Screened(ui, u)
  <2>1. DOMAIN ui = Fields /\ Questioned(ui)
    BY SoundParts
  <2>2. QED
    BY <2>1 DEF Screened, SameDocs, SameTabs, Questioned, Attended, Fields
<1> HIDE DEF u
<1>4. Sound(u) /\ Unsaved(u) = Unsaved(ui)
  BY <1>3, ScreenedSound, DocsKept DEF Screened
<1>5. \A ok : Safe(u, Save(u, ok), {}, {})
  BY <1>4, SaveOK
<1>6. /\ r.command # "restoreSession" => Safe(u, Command(u, r.command), {}, {})
      /\ r.command = "restoreSession" => Safe(u, Command(u, r.command), Unsaved(ui), {})
  BY <1>4, CommandOK
<1>7. CASE Quietly(u)
  BY <1>3, <1>7, ScreenKept
<1>8. CASE \E ok \in BOOLEAN : Quietly(Save(u, ok))
  BY <1>3, <1>5, <1>8, QuietlyAfter
<1>9. CASE r.command = "restoreSession" /\ Step(Command(u, r.command), Unsaved(ui), {})
  BY <1>3, <1>6, <1>9, StepAfter
<1>10. CASE r.command # "restoreSession" /\ Quietly(Command(u, r.command))
  BY <1>3, <1>6, <1>10, QuietlyAfter
<1>11. QED
  BY <1>2, <1>7, <1>8, <1>9, <1>10

LEMMA TypeKept ==
  ASSUME Sound(ui), Type
  PROVE  Kept
<1> DEFINE v == ClearChord(ui)
           i == ui.active
<1>1. Screened(ui, v)
  BY SoundParts, ClearChordOK
<1>2. Step(Edit(v, i), {ui.tabs[i].text}, {})
  BY DEF Type, Editing
<1> HIDE DEF v
<1>3. Sound(v) /\ v.tabs = ui.tabs /\ i \in DOMAIN v.tabs
  BY <1>1, ScreenedSound, SoundParts DEF Screened, SameDocs, SameTabs
<1>4. Safe(v, Edit(v, i), {ui.tabs[i].text}, {})
  BY <1>3, EditSafe
<1>5. QED
  BY <1>1, <1>2, <1>4, StepAfter

LEMMA ExCommandKept ==
  ASSUME Sound(ui), NEW u, Screened(ui, u), ExCommand(u)
  PROVE  Kept
<1> DEFINE given == UnsavedOf(u, {u.active})
<1>1. Sound(u) /\ DOMAIN u = Fields /\ Questioned(u)
  BY ScreenedSound, SoundParts
<1>2. CASE Quietly(u)
  BY <1>2, ScreenKept
<1>3. CASE \E bang \in BOOLEAN : Step(ExQuit(u, bang), IF bang THEN given ELSE {}, {})
  BY <1>1, <1>3, ExQuitOK, StepAfter
<1>4. CASE \E f \in Files \cup {NoFile}, ok \in BOOLEAN : Quietly(ExWrite(u, f, ok))
  BY <1>1, <1>4, ExWriteOK, QuietlyAfter
<1>5. CASE \E bang \in BOOLEAN, f \in Files \cup {NoFile}, ok \in BOOLEAN :
             Step(ExWriteQuit(u, bang, f, ok), IF bang THEN given ELSE {}, {})
  BY <1>1, <1>5, ExWriteQuitOK, StepAfter
<1>6. CASE \E bang \in BOOLEAN, f \in Files \cup {NoFile} :
             Step(ExEdit(u, bang, f), IF bang THEN given ELSE {}, {})
  BY <1>1, <1>6, ExEditOK, StepAfter
<1>7. CASE \E bang \in BOOLEAN : Step(CloseActiveTab(u, bang), IF bang THEN given ELSE {}, {})
  BY <1>1, <1>7, CloseActiveTabOK, StepAfter
<1>8. CASE Quietly(OpenMessages(u))
  BY <1>1, <1>8, OpenMessagesOK, ScreensKept
<1>9. CASE \E c : c # "restoreSession" /\ Quietly(Command(u, c))
  BY <1>1, <1>9, CommandOK, QuietlyAfter
<1>10. CASE Quietly(CloseTerminal(u))
  BY <1>1, <1>10, CloseTerminalOK, ScreensKept
<1>11. CASE \E f \in OnDisk(u) : Quietly(OpenWorkspace(u))
  BY <1>1, <1>11, OpenWorkspaceOK, ScreensKept
<1>12. QED
  BY <1>2, <1>3, <1>4, <1>5, <1>6, <1>7, <1>8, <1>9, <1>10, <1>11 DEF ExCommand

LEMMA EnterCommandKept ==
  ASSUME Sound(ui), EnterCommand
  PROVE  Kept
<1>1. Screened(ui, Entered)
  BY SoundParts, CloseAndFocusOK DEF Entered, Overlays
<1>2. QED
  BY <1>1, ExCommandKept DEF EnterCommand

LEMMA DismissKept ==
  ASSUME Sound(ui), Dismiss \/ LeaveTerminal \/ LeavePrompt
  PROVE  Kept
<1>1. Screened(ui, ReturnToNormal(ui)) /\ Screened(ui, CancelPrompt(ui))
  BY SoundParts, ReturnToNormalOK, CancelPromptOK
<1>2. QED
  BY <1>1, ScreenKept DEF Dismiss, LeaveTerminal, LeavePrompt


-------------------------------------------------------------------------------
\* The explorer and the search panel.

LEMMA ChosenOK ==
  ASSUME Sound(ui)
  PROVE  /\ Screened(ui, Chosen) /\ Sound(Chosen) /\ Chosen.focus = ui.focus
         /\ DOMAIN Chosen = Fields /\ Questioned(Chosen)
         /\ Chosen.clip = ui.clip /\ Chosen.active = ui.active
         /\ OnDisk(Chosen) = OnDisk(ui) /\ ActiveFile(Chosen) = ActiveFile(ui)
         /\ \A tabs : UnsavedOf(Chosen, tabs) = UnsavedOf(ui, tabs)
<1>1. DOMAIN ui = Fields /\ Questioned(ui)
  BY SoundParts
<1> DEFINE v == ClearChord(ui)
           w == ClampSelection(v)
<1>2. Screened(ui, v) /\ DOMAIN v = Fields /\ v.focus = ui.focus
  BY <1>1, ClearChordOK DEF ClearChord, Fields
<1> HIDE DEF v
<1>3. Screened(v, w) /\ w.focus = v.focus
  BY <1>2, ClampSelectionOK DEF Screened, ClampSelection, Fields
<1>4. w = Chosen
  BY DEF Chosen, v
<1> HIDE DEF w
<1>5. Screened(ui, w)
  BY <1>2, <1>3, ScreenedTrans
<1>6. Sound(w) /\ w.clip = ui.clip /\ w.active = ui.active
  BY <1>5, ScreenedSound DEF Screened, SameDocs, SameTabs
<1>7. OnDisk(w) = OnDisk(ui) /\ ActiveFile(w) = ActiveFile(ui)
      /\ \A tabs : UnsavedOf(w, tabs) = UnsavedOf(ui, tabs)
  BY <1>5, DocsKept DEF Screened
<1>8. DOMAIN w = Fields /\ Questioned(w)
  BY <1>6, SoundParts
<1>9. QED
  BY <1>2, <1>3, <1>4, <1>5, <1>6, <1>7, <1>8

\* A step from the chosen row.
LEMMA ExploreKept ==
  ASSUME Sound(ui), NEW v, NEW texts, NEW files, Step(v, texts, files)
  PROVE  /\ Safe(Chosen, v, texts, files) => Kept
         /\ Screened(Chosen, v) => Kept
<1>1. Screened(ui, Chosen) /\ Sound(Chosen)
  BY ChosenOK
<1>2. Screened(Chosen, v) => Safe(Chosen, v, texts, files)
  BY <1>1, SafeBy
<1>3. Safe(Chosen, v, texts, files) => Kept
  BY <1>1, StepAfter
<1>4. QED
  BY <1>2, <1>3

LEMMA MoveSelectionKept ==
  ASSUME Sound(ui), MoveSelection
  PROVE  Kept
<1>1. PICK row \in Rows(ui) \ {Chosen.sel} : Step([Chosen EXCEPT !.sel = row], {}, {})
  BY DEF MoveSelection, Explore
<1>2. DOMAIN Chosen = Fields /\ Questioned(Chosen)
  BY ChosenOK
<1>3. Screened(Chosen, [Chosen EXCEPT !.sel = row])
  BY <1>2 DEF Screened, SameDocs, SameTabs, Questioned, Attended, Fields
<1>4. QED
  BY <1>1, <1>3, ExploreKept

LEMMA OpenSelectedKept ==
  ASSUME Sound(ui), OpenSelected
  PROVE  Kept
<1> DEFINE f == Selected(Chosen)
           v == FocusOn(ShowFile(Chosen, f), "Editor")
<1>1. Sound(Chosen) /\ f \in Files
  BY ChosenOK, SelectedOnDisk DEF OpenSelected, OnDisk
<1>2. Step(v, {}, {})
  BY DEF OpenSelected, Explore
<1> HIDE DEF f
<1>3. Safe(Chosen, v, {}, {})
  BY <1>1, ShowFileSafe
<1>4. QED
  BY <1>2, <1>3, ExploreKept

LEMMA AskKept ==
  ASSUME Sound(ui), AskName \/ AskDelete
  PROVE  Kept
<1>1. DOMAIN Chosen = Fields /\ Questioned(Chosen) /\ Chosen.focus = ui.focus
  BY ChosenOK
<1>2. CASE AskName
  <2>1. PICK purpose \in {"AddFile", "AddFolder", "Rename"} :
          Step(OpenSidebarPrompt(Chosen, purpose), {}, {}) /\ ui.focus = "Sidebar"
    BY <1>2 DEF AskName, Explore
  <2>2. Screened(Chosen, OpenSidebarPrompt(Chosen, purpose))
    BY <1>1, <2>1, OpenSidebarPromptOK
  <2>3. QED
    BY <2>1, <2>2, ExploreKept
<1>3. CASE AskDelete
  <2>1. Step(OpenDeleteConfirm(Chosen), {}, {})
    BY <1>3 DEF AskDelete, Explore
  <2>2. Screened(Chosen, OpenDeleteConfirm(Chosen))
    BY <1>1, OpenDeleteConfirmOK
  <2>3. QED
    BY <2>1, <2>2, ExploreKept
<1>4. QED
  BY <1>2, <1>3

LEMMA ClipSafe ==
  ASSUME NEW u, Sound(u), NEW c, c.file \in Files => c.mode \in {"Cut", "Copy"},
         NEW texts, NEW files
  PROVE  Safe(u, [u EXCEPT !.clip = c], texts, files)
<1> DEFINE v == [u EXCEPT !.clip = c]
<1>1. Filed(v) /\ Fronted(v) /\ SameAsks(u, v) /\ Spares(u, v, {}, {})
  BY ClipOK DEF Sound
<1> HIDE DEF v
<1>2. Safe(u, v, {}, {})
  BY <1>1, SafeBy DEF Stored
<1>3. Safe(u, v, texts, files)
  BY <1>2, SafeMore
<1>4. QED
  BY <1>3 DEF v

LEMMA TakeKept ==
  ASSUME Sound(ui), Take
  PROVE  Kept
<1>1. PICK mode \in {"Cut", "Copy"} :
        Step([Chosen EXCEPT !.clip = [mode |-> mode, file |-> Selected(Chosen)]], {}, {})
  BY DEF Take, Quietly
<1> DEFINE c == [mode |-> mode, file |-> Selected(Chosen)]
<1>2. c.file \in Files => c.mode \in {"Cut", "Copy"}
  OBVIOUS
<1>3. Step([Chosen EXCEPT !.clip = c], {}, {})
  BY <1>1
<1> HIDE DEF c
<1>4. Safe(Chosen, [Chosen EXCEPT !.clip = c], {}, {})
  BY <1>2, ChosenOK, ClipSafe
<1>5. QED
  BY <1>3, <1>4, ExploreKept

LEMMA PasteKept ==
  ASSUME Sound(ui), Paste
  PROVE  Kept
<1> DEFINE f == Chosen.clip.file
           cut == Chosen.clip.mode = "Cut"
           reloaded == IF cut /\ ActiveFile(ui) = f THEN UnsavedOf(ui, {ui.active}) ELSE {}
           moved == IF cut THEN {f} ELSE {}
<1>1. CASE f \notin OnDisk(ui)
  <2>1. Step([Chosen EXCEPT !.clip = NoClip], {}, {})
    BY <1>1 DEF Paste, Explore
  <2>2. NoClip.file \notin Files
    BY DEF NoClip, NoFile, Files
  <2>3. Safe(Chosen, [Chosen EXCEPT !.clip = NoClip], {}, {})
    BY <2>2, ChosenOK, ClipSafe
  <2>4. QED
    BY <2>1, <2>3, ExploreKept
<1>2. CASE f \in OnDisk(ui)
  <2>1. PICK g \in Files \ OnDisk(ui) : Step(PasteFile(Chosen, g), reloaded, moved)
    BY <1>2 DEF Paste, Explore
  <2>2. /\ Sound(Chosen) /\ Filed(Chosen) /\ Fronted(Chosen) /\ OnDisk(Chosen) = OnDisk(ui)
        /\ ActiveFile(Chosen) = ActiveFile(ui)
        /\ UnsavedOf(Chosen, {Chosen.active}) = UnsavedOf(ui, {ui.active})
    BY ChosenOK DEF Sound
  <2>3. Stored(Chosen, PasteFile(Chosen, g),
               IF cut /\ ActiveFile(Chosen) = f
                 THEN UnsavedOf(Chosen, {Chosen.active}) ELSE {}, moved)
    BY <1>2, <2>2, PasteFileOK
  <2>4. Stored(Chosen, PasteFile(Chosen, g), reloaded, moved)
    BY <2>2, <2>3
  <2> HIDE DEF reloaded, moved
  <2>5. Safe(Chosen, PasteFile(Chosen, g), reloaded, moved)
    BY <2>2, <2>4, SafeBy
  <2>6. QED
    BY <2>1, <2>5, ExploreKept
<1>3. QED
  BY <1>1, <1>2

LEMMA OpenMatchKept ==
  ASSUME Sound(ui), OpenMatch
  PROVE  Kept
<1>1. PICK f \in Files : Quietly(ClearChord(FocusOn(ShowFile(ui, f), "Editor")))
  BY DEF OpenMatch
<1> DEFINE v == FocusOn(ShowFile(ui, f), "Editor")
<1>2. Safe(ui, v, {}, {})
  BY ShowFileSafe
<1> HIDE DEF v
<1>3. Screened(v, ClearChord(v))
  BY <1>2, SoundParts, ClearChordOK DEF Safe
<1>4. Safe(ui, ClearChord(v), {}, {})
  BY <1>2, <1>3, SafeBefore
<1>5. QED
  BY <1>1, <1>4, StepKept DEF Quietly, v

\* Edits of files: what is unsaved in their tabs becomes part of the edited text.
LEMMA EditsSafe ==
  ASSUME Sound(ui), NEW u, Screened(ui, u), NEW files \in SUBSET Files
  PROVE  /\ Safe(u, ApplyWorkspaceEdit(u, files),
                 UnsavedOf(ui, UNION {TabsOf(ui, f) : f \in files}), {})
         /\ Safe(u, SyncActiveTab(ForEach(ReplaceIn, u, files)),
                 UnsavedOf(ui, UNION {TabsOf(ui, f) : f \in files}), {})
<1> DEFINE v == ApplyWorkspaceEdit(u, files)
           w == SyncActiveTab(ForEach(ReplaceIn, u, files))
           texts == UnsavedOf(u, UNION {TabsOf(u, f) : f \in files})
<1>1. Sound(u)
  BY ScreenedSound
<1>2. Stored(u, v, texts, {}) /\ Stored(u, w, texts, {})
  BY <1>1, ApplyWorkspaceEditOK DEF Sound
<1>3. texts = UnsavedOf(ui, UNION {TabsOf(ui, f) : f \in files})
  BY DocsKept DEF Screened
<1> HIDE DEF texts, v, w
<1>4. Safe(u, v, texts, {}) /\ Safe(u, w, texts, {})
  BY <1>1, <1>2, SafeBy
<1>5. QED
  BY <1>3, <1>4 DEF v, w

LEMMA EditsKept ==
  ASSUME Sound(ui), NEW u, Screened(ui, u), NEW files \in SUBSET Files, Edits(u, files)
  PROVE  Kept
BY EditsSafe, StepAfter DEF Edits

LEMMA ReplaceEverywhereKept ==
  ASSUME Sound(ui), ReplaceEverywhere
  PROVE  Kept
<1> DEFINE u == ClearChord(ui)
           texts(files) == UnsavedOf(ui, UNION {TabsOf(ui, f) : f \in files})
<1>1. PICK files \in SUBSET Files :
        Step(SyncActiveTab(ForEach(ReplaceIn, u, files)), texts(files), {})
  BY DEF ReplaceEverywhere, OnDisk
<1>2. Screened(ui, u)
  BY SoundParts, ClearChordOK
<1> HIDE DEF u
<1>3. Safe(u, SyncActiveTab(ForEach(ReplaceIn, u, files)), texts(files), {})
  BY <1>2, EditsSafe
<1> DEFINE w == SyncActiveTab(ForEach(ReplaceIn, u, files))
<1>4. Step(w, texts(files), {}) /\ Safe(u, w, texts(files), {})
  BY <1>1, <1>3
<1> HIDE DEF w, texts
<1>5. QED
  BY <1>2, <1>4, StepAfter

-------------------------------------------------------------------------------
\* Pickers.

LEMMA PickFileKept ==
  ASSUME Sound(ui), PickFile
  PROVE  Kept
<1> DEFINE u == CloseFileSearch(ui)
<1>1. Screened(ui, u)
  BY SoundParts, CloseFileSearchOK
<1>2. Quietly(u) \/ \E f \in Files : Quietly(ShowFile(u, f))
  BY DEF PickFile, OnDisk
<1> HIDE DEF u
<1>3. Sound(u)
  BY <1>1, ScreenedSound
<1>4. QED
  BY <1>1, <1>2, <1>3, ScreenKept, ShowFileSafe, QuietlyAfter

LEMMA PickBufferKept ==
  ASSUME Sound(ui), PickBuffer
  PROVE  Kept
<1> DEFINE u == CloseBufferSearch(ui)
<1>1. Screened(ui, u)
  BY SoundParts, CloseBufferSearchOK
<1>2. Quietly(u) \/ \E i \in DOMAIN ui.tabs : Quietly(SyncActiveTab(SwitchTo(u, i)))
  BY DEF PickBuffer
<1> HIDE DEF u
<1>3. Sound(u) /\ u.tabs = ui.tabs
  BY <1>1, ScreenedSound DEF Screened, SameDocs, SameTabs
<1>4. \A i \in DOMAIN u.tabs : Safe(u, SyncActiveTab(SwitchTo(u, i)), {}, {})
  BY <1>3, SwitchToOK, TabCommand DEF Sound
<1>5. QED
  BY <1>1, <1>2, <1>3, <1>4, ScreenKept, QuietlyAfter

LEMMA PickLspKept ==
  ASSUME Sound(ui), PickLsp
  PROVE  Kept
<1> DEFINE u == CloseLspPicker(ui)
<1>1. Screened(ui, u)
  BY SoundParts, CloseLspPickerOK
<1>2. Quietly(u) \/ \E f \in Files : Quietly(GotoLocation(u, f)) \/ Edits(u, {f})
  BY DEF PickLsp
<1> HIDE DEF u
<1>3. Sound(u)
  BY <1>1, ScreenedSound
<1>4. ASSUME NEW f \in Files, Edits(u, {f}) PROVE Kept
  <2>1. {f} \in SUBSET Files
    OBVIOUS
  <2>2. QED
    BY <1>1, <1>4, <2>1, EditsKept
<1>5. QED
  BY <1>1, <1>2, <1>3, <1>4, ScreenKept, ShowFileSafe, QuietlyAfter

LEMMA PickCompletionKept ==
  ASSUME Sound(ui), PickCompletion
  PROVE  Kept
<1> DEFINE u == CloseCompletion(ui)
           i == ui.active
<1>1. Screened(ui, u)
  BY SoundParts, CloseCompletionOK
<1>2. Quietly(u) \/ Step(Edit(u, i), {ui.tabs[i].text}, {})
  BY DEF PickCompletion, Editing
<1> HIDE DEF u
<1>3. Sound(u) /\ u.tabs = ui.tabs /\ i \in DOMAIN u.tabs
  BY <1>1, ScreenedSound, SoundParts DEF Screened, SameDocs, SameTabs
<1>4. Safe(u, Edit(u, i), {ui.tabs[i].text}, {})
  BY <1>3, EditSafe
<1>5. QED
  BY <1>1, <1>2, <1>4, ScreenKept, StepAfter


-------------------------------------------------------------------------------
\* Questions.

\* The answer gives up what Given says.
LEMMA AnswerKept ==
  ASSUME Sound(ui), Answer
  PROVE  Kept
<1>1. PICK choice \in Replies, ok \in BOOLEAN :
        Step(Resolve(ui, choice, ok), Given(choice).texts, Given(choice).files)
  BY DEF Answer
<1> DEFINE v == Resolve(ui, choice, ok)
           asked == TabsOf(ui, ui.named)
           front == IF ActiveFile(ui) # ui.named THEN {ui.active} ELSE {}
           w == Given(choice)
<1>2. /\ ui.intent # "None" /\ ui.intent \in Intents
      /\ ui.intent = "DeletePath" => ui.path = ui.named
      /\ ui.intent = "RecoverBuffer" => ui.recovery # <<>> /\ ui.named = Head(ui.recovery)
  BY SoundParts DEF Answer, Questioned, Attended
<1>3. w = CASE choice = "No" /\ ui.intent \in {"CloseTab", "Quit"} ->
                 [texts |-> UnsavedOf(ui, asked \cup front), files |-> {}]
            [] choice = "Yes" /\ ui.intent = "DeletePath" ->
                 [texts |-> UnsavedOf(ui, asked), files |-> {ui.named}]
            [] choice = "Yes" /\ ui.intent = "RecoverBuffer" ->
                 [texts |-> UnsavedOf(ui, asked), files |-> {}]
            [] OTHER -> Nothing
  BY DEF Given, TabsOf
<1> HIDE DEF w
<1>4. CASE ui.intent = "DeletePath"
  <2>1. v = ResolveDeleteConfirm(ui, choice, ok)
    BY <1>4 DEF Resolve
  <2>2. Safe(ui, v, IF choice = "Yes" THEN UnsavedOf(ui, asked) ELSE {},
                    IF choice = "Yes" THEN {ui.named} ELSE {})
    BY <1>2, <1>4, <2>1, ResolveDeleteConfirmOK
  <2>3. /\ choice = "Yes" => w.texts = UnsavedOf(ui, asked) /\ w.files = {ui.named}
    BY <1>3, <1>4
  <2> HIDE DEF v, asked
  <2>4. Safe(ui, v, w.texts, w.files)
    BY <2>2, <2>3, SafeMore
  <2>5. QED
    BY <1>1, <2>4, StepKept DEF v, w
<1>5. CASE ui.intent = "DiscardGit"
  <2>1. v = ResolveDiscardConfirm(ui, choice, ok)
    BY <1>5 DEF Resolve
  <2>2. Safe(ui, v, {}, {})
    BY <2>1, ResolveDiscardConfirmOK
  <2> HIDE DEF v
  <2>3. Safe(ui, v, w.texts, w.files)
    BY <2>2, SafeMore
  <2>4. QED
    BY <1>1, <2>3, StepKept DEF v, w
<1>6. CASE ui.intent = "RecoverBuffer"
  <2>1. v = ResolveRecoveryConfirm(ui, choice, ok)
    BY <1>6 DEF Resolve
  <2>2. Safe(ui, v, IF choice = "Yes" THEN UnsavedOf(ui, asked) ELSE {}, {})
    BY <1>2, <1>6, <2>1, ResolveRecoveryConfirmOK
  <2>3. choice = "Yes" => w.texts = UnsavedOf(ui, asked)
    BY <1>3, <1>6
  <2> HIDE DEF v, asked
  <2>4. Safe(ui, v, w.texts, w.files)
    BY <2>2, <2>3, SafeMore
  <2>5. QED
    BY <1>1, <2>4, StepKept DEF v, w
<1>7. CASE ui.intent \in {"CloseTab", "Quit"}
  <2>1. v = ResolveSaveConfirm(ui, choice, ok)
    BY <1>7 DEF Resolve
  <2>2. Safe(ui, v, IF choice = "No" THEN UnsavedOf(ui, {ui.active}) ELSE {}, {})
    BY <2>1, ResolveSaveConfirmOK
  <2>3. ui.active \in asked \cup front
    BY SoundParts DEF TabsOf, ActiveFile, Active
  <2>4. choice = "No" => UnsavedOf(ui, {ui.active}) \subseteq w.texts
    <3>1. choice = "No" => w.texts = UnsavedOf(ui, asked \cup front)
      BY <1>3, <1>7
    <3> HIDE DEF asked, front
    <3>2. QED
      BY <2>3, <3>1 DEF UnsavedOf
  <2> HIDE DEF v
  <2>5. Safe(ui, v, w.texts, w.files)
    BY <2>2, <2>4, SafeMore
  <2>6. QED
    BY <1>1, <2>5, StepKept DEF v, w
<1>8. QED
  BY <1>2, <1>4, <1>5, <1>6, <1>7 DEF Intents

LEMMA EnterPromptKept ==
  ASSUME Sound(ui), EnterPrompt
  PROVE  Kept
<1>1. PICK f \in Files \cup {NoFile} :
        Step(ResolvePrompt(ui, f), {}, IF ui.purpose = "Rename" THEN {Selected(ui)} ELSE {})
  BY DEF EnterPrompt
<1>2. Safe(ui, ResolvePrompt(ui, f), {}, IF ui.purpose = "Rename" THEN {Selected(ui)} ELSE {})
  BY ResolvePromptOK
<1>3. QED
  BY <1>1, <1>2, StepKept

-------------------------------------------------------------------------------
\* What comes from outside.

LEMMA LspAnswerKept ==
  ASSUME Sound(ui), LspAnswer
  PROVE  Kept
<1>1. PICK kind \in ui.asked :
        LET u == Answered(ui, kind)
        IN  \/ Quietly(u) \/ Quietly(CompletionAnswer(u)) \/ Quietly(HoverAnswer(u))
            \/ \E f \in Files : Quietly(GotoLocation(u, f))
            \/ \E pick : Quietly(OpenLspPicker(u, pick))
            \/ \E files \in SUBSET Files : Edits(u, files)
            \/ ActiveFile(u) # NoFile /\ Edits(u, {ActiveFile(u)})
  BY DEF LspAnswer
<1> DEFINE u == Answered(ui, kind)
<1>2. Screened(ui, u)
  BY SoundParts, AnsweredOK
<1>3. \/ Quietly(u) \/ Quietly(CompletionAnswer(u)) \/ Quietly(HoverAnswer(u))
      \/ \E f \in Files : Quietly(GotoLocation(u, f))
      \/ \E pick : Quietly(OpenLspPicker(u, pick))
      \/ \E files \in SUBSET Files : Edits(u, files)
      \/ ActiveFile(u) # NoFile /\ Edits(u, {ActiveFile(u)})
  BY <1>1
<1> HIDE DEF u
<1>4. Sound(u) /\ DOMAIN u = Fields /\ Questioned(u) /\ ActiveFile(u) \in Files \cup {NoFile}
  BY <1>2, ScreenedSound, SoundParts
<1>5. CASE Quietly(u) \/ Quietly(CompletionAnswer(u)) \/ Quietly(HoverAnswer(u))
           \/ \E pick : Quietly(OpenLspPicker(u, pick))
  BY <1>2, <1>4, <1>5, CompletionAnswerOK, HoverAnswerOK, OpenLspPickerOK, ScreenKept, ScreensKept
<1>6. CASE \E f \in Files : Quietly(GotoLocation(u, f))
  BY <1>2, <1>4, <1>6, ShowFileSafe, QuietlyAfter
<1>7. CASE \E files \in SUBSET Files : Edits(u, files)
  BY <1>2, <1>7, EditsKept
<1>8. CASE ActiveFile(u) # NoFile /\ Edits(u, {ActiveFile(u)})
  <2>1. {ActiveFile(u)} \in SUBSET Files
    BY <1>4, <1>8
  <2>2. QED
    BY <1>2, <1>8, <2>1, EditsKept
<1>9. QED
  BY <1>3, <1>5, <1>6, <1>7, <1>8

LEMMA ServerEditKept ==
  ASSUME Sound(ui), ServerEdit
  PROVE  Kept
<1>1. PICK f \in Files : Edits(ui, {f})
  BY DEF ServerEdit
<1>2. Screened(ui, ui)
  BY SoundParts DEF Screened, SameDocs, SameTabs
<1>3. {f} \in SUBSET Files
  OBVIOUS
<1>4. QED
  BY <1>1, <1>2, <1>3, EditsKept

LEMMA OtherProgramKept ==
  ASSUME Sound(ui), OtherProgram
  PROVE  Kept
<1>1. ASSUME NEW f \in Files, NEW t \in {0, Gone}, NEW files, t # Gone \/ f \in files,
             Step([ui EXCEPT !.disk[f] = t], {}, files)
      PROVE  Kept
  <2> DEFINE v == [ui EXCEPT !.disk[f] = t]
  <2>1. Filed(ui) /\ Fronted(ui)
    BY DEF Sound
  <2>2. /\ SameTabs(ui, v) /\ SameAsks(ui, v) /\ v.disk = [ui.disk EXCEPT ![f] = t]
        /\ v.fresh = ui.fresh
    BY <2>1 DEF Filed, Fields, SameTabs, SameAsks
  <2> HIDE DEF v
  <2>3. t \in Nat \cup {Gone} /\ v.fresh \in Nat
    BY <2>1, <2>2 DEF Filed
  <2>4. Filed(v) /\ Fronted(v) /\ Spares(ui, v, {}, files)
    BY <1>1, <2>1, <2>2, <2>3, DiskWith
  <2>5. Safe(ui, v, {}, files)
    BY <2>2, <2>4, SafeBy DEF Stored
  <2>6. QED
    BY <1>1, <2>5, StepKept DEF v
<1>2. CASE \E f \in Files \ OnDisk(ui) : Quietly([ui EXCEPT !.disk[f] = 0])
  <2>1. PICK f \in Files : Step([ui EXCEPT !.disk[f] = 0], {}, {})
    BY <1>2 DEF Quietly
  <2>2. 0 # Gone
    BY DEF Gone
  <2>3. QED
    BY <1>1, <2>1, <2>2
<1>3. CASE \E f \in OnDisk(ui) : Step([ui EXCEPT !.disk[f] = Gone], {}, {f})
  <2>1. PICK f \in Files : Step([ui EXCEPT !.disk[f] = Gone], {}, {f})
    BY <1>3 DEF OnDisk
  <2>2. QED
    BY <1>1, <2>1
<1>4. QED
  BY <1>2, <1>3 DEF OtherProgram

-------------------------------------------------------------------------------
LEMMA NextOK ==
  ASSUME Sound(ui), Next
  PROVE  Kept
BY PressKept, TypeKept, EnterCommandKept, DismissKept, MoveSelectionKept, OpenSelectedKept,
   AskKept, TakeKept, PasteKept, OpenMatchKept, ReplaceEverywhereKept, PickFileKept,
   PickBufferKept, PickLspKept, PickCompletionKept, AnswerKept, EnterPromptKept,
   LspAnswerKept, ServerEditKept, OtherProgramKept DEF Next

\* The inductive invariant: tabs, files and session are of their types, a tab is in front,
\* and every question has what it needs (old/src/ui, whatever the keys and the answers).
THEOREM UiInvariant == Spec => []Sound(ui)
<1>1. Sound(ui) /\ [Next]_vars => Sound(ui)'
  <2>1. Sound(ui) /\ UNCHANGED vars => Sound(ui)'
    BY DEF vars
  <2>2. QED
    BY <2>1, NextOK DEF Kept, Safe
<1>2. QED
  BY <1>1, InitOK, PTL DEF Spec

\* The keys go to an overlay that is open, and an answer to the question that is on the
\* screen, for every number of files and edits and every order of keys, answers of the
\* server and changes on disk.
THEOREM UiAnswersItsQuestion == Spec => []AnswersItsQuestion
<1>1. Sound(ui) => AnswersItsQuestion
  BY DEF Sound, Questioned, AnswersItsQuestion
<1>2. QED
  BY <1>1, UiInvariant, PTL

\* Unsaved text and files go only as the user was told, for every number of files, tabs
\* and edits.
THEOREM UiNothingLostUnasked == Spec => NothingLostUnasked
<1> DEFINE Told ==
             /\ Unsaved(ui) \subseteq Unsaved(ui') \cup {ui'.disk[f] : f \in Files} \cup waived'.texts
             /\ OnDisk(ui) \subseteq OnDisk(ui') \cup waived'.files
<1>1. Sound(ui) /\ [Next]_vars => [Told]_vars
  <2>1. Kept => Told
    BY DEF Kept, Safe, Spares, DiskTexts
  <2> HIDE DEF Told
  <2>2. QED
    BY <2>1, NextOK
<1>2. QED
  BY <1>1, UiInvariant, PTL DEF Spec, NothingLostUnasked

===============================================================================
